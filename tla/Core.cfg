SPECIFICATION Spec
INVARIANT TypeOK
INVARIANT OpenSocketOwned
INVARIANT PingAnswerable
PROPERTY ResultTellsState
PROPERTY SessionImplemented
PROPERTY ReconnectedMeansSubscribed
CONSTANTS
  NoTopic = NoTopic
  t1 = t1
  Topics = {t1}
  MaxPacketId = 1
  MaxQueue = 1
  Inbound = {"QOS0", "OVERSIZE"}
  MayRefuse = {"CONNECT"}
  NumHandlers = 2
  MinInterval = 1
  MaxInterval = 2
  Garbage = {0, 3}
  AutoReconnect = {TRUE, FALSE}
  KeepAlive = TRUE
  OutQos = {0, 1}
  AppOps = {"connect", "disconnect", "reconnect", "publish", "subscribe", "resubscribe", "yield", "set_autoreconnect"}
  CallbackOps = {}
  HandlerOps = {}
  MaxDepth = 4
