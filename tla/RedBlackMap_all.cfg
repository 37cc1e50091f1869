\* Seven keys in every order, and three more put in ascending order, for tall trees.
SPECIFICATION Spec
CONSTANTS
  Keys = {1, 2, 3, 4, 5, 6, 7, 8, 9, 10}
  None = None
  Free = {1, 2, 3, 4, 5, 6, 7}
INVARIANTS
  Linked
  Ordered
  RedBlack
PROPERTIES
  CallsReturn
  OrderedMapSpec
