\* Two servers, one of them faulty, each with room for one message in msg_send_chan.
SPECIFICATION Spec
CONSTANTS
  Servers = {a, b}
  QMsgLen = 1
  MaxMsgs = 3
  MaxFirst = 2
  Faulty = {b}
INVARIANTS
  TypeOK
PROPERTIES
  CallsSpec
  CallsReturn
  MessagesTaken
  StopReleases
