SPECIFICATION Spec
PROPERTY ReconnectedMeansSubscribed
CONSTANTS
  NoTopic = NoTopic
  t1 = t1
  t2 = t2
  Topics = {t1, t2}
  MaxPacketId = 1
  MaxQueue = 1
  Inbound = {"QOS0"}
  MayRefuse = {}
  NumHandlers = 2
  MinInterval = 1
  MaxInterval = 2
  Garbage = {1}
  AutoReconnect = {TRUE}
  KeepAlive = TRUE
  OutQos = {1}
  AppOps = {"connect", "disconnect", "reconnect", "subscribe", "unsubscribe"}
  CallbackOps = {}
  HandlerOps = {}
  MaxDepth = 4
