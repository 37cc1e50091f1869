\* Three connections and two users.
SPECIFICATION Safety
CONSTANTS
  Sessions = {s1, s2, s3}
  Uids = {u1, u2}
  None = None
  AddCap = 2
  OutCap = 1
  MaxConn = 1
  Plays <- RegistryPlays
SYMMETRY Symmetric
INVARIANTS
  TypeOK
  OnlyOwnersServed
  NeverOvercounts
  StoppedLeavesRegistry
  OneLivePerUid
PROPERTIES
  RegistrySpec
