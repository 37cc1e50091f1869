\* Two servers that register again and again, crash, and have their keys
\* cleared; one event under way.
SPECIFICATION Spec
CONSTANTS
  Servers = {s1, s2}
  None = None
  Backlog = 1
  Ticking = TRUE
  Routing = FALSE
  Events = {"crash", "clear"}
PROPERTIES
  UpServerFound
  DeletedLeavesRing
