\* One other goroutine that sends, kicks or stops, channels of two messages,
\* every kind of message and answered heartbeats.  No deadlock check: run can
\* block on its own out channel for good, which Session_hbback.cfg shows.
SPECIFICATION Spec
CONSTANTS
  Senders = {nats}
  MaxMsgChanLen = 2
  HeartBeatInterval = 1
  RpmLimit = 1
  HBBack = TRUE
  Kinds = {"verify_good", "verify_bad", "heartbeat", "data", "other"}
INVARIANTS
  TypeOK
PROPERTIES
  StopEndsSession
  PeerCloseEndsSession
  SendersReleased
  UnverifiedEnds
  FloodEnds
CHECK_DEADLOCK FALSE
