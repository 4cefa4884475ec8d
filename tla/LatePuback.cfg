SPECIFICATION Spec
PROPERTY PubackAnswersPublish
CONSTANTS
  NoTopic = NoTopic
  t1 = t1
  Topics = {t1}
  MaxPacketId = 3
  MaxQueue = 1
  Inbound = {"QOS0"}
  MayRefuse = {}
  NumHandlers = 1
  MinInterval = 1
  MaxInterval = 2
  Garbage = {1}
  AutoReconnect = {TRUE}
  KeepAlive = TRUE
  OutQos = {1}
  AppOps = {"connect", "publish"}
  CallbackOps = {}
  HandlerOps = {}
  MaxDepth = 4
