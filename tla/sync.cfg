\* Three backends for a slab of two, transfers that are short, empty and too long; two
\* keys of an environment, two statuses and two bodies.
SPECIFICATION Spec
CONSTANTS
  Conn = {c1, c2, c3}
  Capacity = 2
  Keys = {"k1", "k2"}
  Values <- SomeValues
  Codes = {200, 500}
  Bodies = {b1, b2}
  Sizes = {0, 2}
  MaxBytes = 2
  MaxSpace = 1
  None = None
SYMMETRY Symmetry
CONSTRAINT TalksOrPrepares
CHECK_DEADLOCK FALSE
INVARIANTS
  TypeOK
  StreamsIntact
  SocketsHaveDescriptors
  DbGetExact
  ReplyIsPrepared
