\* Two servers that start and stop in an orderly way.
SPECIFICATION Spec
CONSTANTS
  Servers = {s1, s2}
  None = None
  Backlog = 1
  Ticking = TRUE
  Routing = FALSE
  Events = {}
PROPERTIES
  GoneServerLeaves
