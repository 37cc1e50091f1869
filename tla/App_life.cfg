\* A callBack of one message, three messages for an application server and
\* one for a gate, every fault.
SPECIFICATION Spec
CONSTANTS
  QMsgLen = 1
  Ticking = TRUE
  MaxMsgs = 3
  MaxGateMsgs = 1
  Events = {"etcd", "nats", "block"}
INVARIANTS
  TypeOK
  DeafOnlyUnregistered
PROPERTIES
  MessagesHandled
  ShutdownEndsAll
