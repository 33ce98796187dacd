\* A guest that returns without a response.
SPECIFICATION MCSpec
CONSTANTS
  Sess = {s1}
  Index = {i1, i2}
  None = None
  Kinds = {"app"}
  ReqLen = 1
  BufLen = 1
  Sizes = {2}
  MaxAvail = 1
  MaxSpace = 1
  MaxBacklog = 1
  MaxCalls = 0
CHECK_DEADLOCK FALSE
INVARIANT
  StackNotEmpty
