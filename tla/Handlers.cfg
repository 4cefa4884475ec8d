SPECIFICATION Spec
INVARIANT YieldNotInCallback
PROPERTY HandlersKept
PROPERTY ResultTellsState
PROPERTY SessionImplemented
CONSTANTS
  NoTopic = NoTopic
  t1 = t1
  t2 = t2
  Topics = {t1, t2}
  MaxPacketId = 1
  MaxQueue = 1
  Inbound = {"QOS1"}
  MayRefuse = {}
  NumHandlers = 2
  MinInterval = 1
  MaxInterval = 1
  Garbage = {1}
  AutoReconnect = {TRUE}
  KeepAlive = FALSE
  OutQos = {1}
  AppOps = {"connect", "subscribe", "yield"}
  CallbackOps = {"publish", "unsubscribe", "disconnect", "yield", "resubscribe"}
  HandlerOps = {}
  MaxDepth = 4
SYMMETRY TopicSymmetry
