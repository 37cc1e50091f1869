\* Bytes of two values: a header of two holds sizes up to 3, one of four up
\* to 15; packets of at most 7 exceed the former and not the latter.
SPECIFICATION Spec
CONSTANTS
  Base = 2
  HeadSizes = {2, 4}
  MaxSizes = {5, 7}
  MaxSends = 2
INVARIANTS
  FramesIntact
PROPERTIES
  AllArrive
CHECK_DEADLOCK FALSE
