\* Heartbeats are answered, replies keep out full.  The block that the property
\* finds may stop everything: no check for deadlock.
SPECIFICATION Spec
CONSTANTS
  Senders = {nats}
  MaxMsgChanLen = 1
  HeartBeatInterval = 1
  RpmLimit = 1
  HBBack = TRUE
  Kinds = {"verify_good", "heartbeat"}
PROPERTIES
  HeartbeatAnswered
CHECK_DEADLOCK FALSE
