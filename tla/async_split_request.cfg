\* A request that arrives in two pieces.
SPECIFICATION MCFairSpec
CONSTANTS
  Sess = {s1}
  Index = {i1, i2}
  None = None
  Kinds = {"app"}
  ReqLen = 2
  BufLen = 2
  Sizes = {2}
  MaxAvail = 1
  MaxSpace = 1
  MaxBacklog = 1
  MaxCalls = 0
CHECK_DEADLOCK FALSE
PROPERTY
  RequestsAreRun
