\* The guest sets a header.
SPECIFICATION Spec
CONSTANTS
  Conn = {c1}
  Capacity = 1
  Keys = {}
  Values <- SomeValues
  Codes = {200, 500}
  Bodies = {b1, b2}
  Sizes = {1}
  MaxBytes = 1
  MaxSpace = 1
  None = None
SYMMETRY Symmetry
CHECK_DEADLOCK FALSE
INVARIANT HeadersAreSent
