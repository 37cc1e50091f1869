\* Two servers, every fault, and calls of RouteById.
SPECIFICATION Safety
CONSTANTS
  Servers = {s1, s2}
  None = None
  Backlog = 2
  Ticking = TRUE
  Routing = TRUE
  Events = {"crash", "etcd", "clear", "stop"}
INVARIANTS
  TypeOK
  RingWithinProxies
  RouteFailsForReason
  ViewCatchesUp
