\* handle, without a value, functions with and without one; log, db_get and tcp_read.
SPECIFICATION Spec
CONSTANTS
  Funcs = {"handle", "helper", "render"}
  Imports = {"log", "db_get", "tcp_read"}
  Trapping = {"tcp_read"}
  Results = {"helper", "db_get", "tcp_read"}
  Values = {v1, v2}
  Start = "handle"
  None = None
  MaxDepth = 5
SYMMETRY Symmetry
CHECK_DEADLOCK FALSE
INVARIANTS
  TypeOK
  CallChain
  OperandsMatch
  NeverEmpty
PROPERTY
  ImplementsBlocking
