SPECIFICATION Spec
INVARIANT OpenSocketOwned
CONSTANTS
  NoTopic = NoTopic
  t1 = t1
  Topics = {t1}
  MaxPacketId = 1
  MaxQueue = 1
  Inbound = {"QOS0"}
  MayRefuse = {}
  NumHandlers = 1
  MinInterval = 1
  MaxInterval = 2
  Garbage = {1}
  AutoReconnect = {FALSE}
  KeepAlive = TRUE
  OutQos = {1}
  AppOps = {"connect", "yield"}
  CallbackOps = {}
  HandlerOps = {"reconnect"}
  MaxDepth = 4
