\* Three servers of two points on a ring of six values, all hash functions.
SPECIFICATION Spec
CONSTANTS
  Names = {a, b, c}
  None = None
  Rep = 2
  Size = 6
SYMMETRY Symmetric
INVARIANTS
  Consistent
  ByMembersAlone
PROPERTIES
  ConsistentHashSpec
