\* One session at a time, two backends, up to three host calls.
SPECIFICATION MCSpec
CONSTANTS
  Sess = {s1}
  Index = {i1, i2, i3}
  None = None
  Kinds = {"app"}
  ReqLen = 1
  BufLen = 1
  Sizes = {0, 2}
  MaxAvail = 1
  MaxSpace = 1
  MaxBacklog = 1
  MaxCalls = 3
SYMMETRY SlabSymmetry
CHECK_DEADLOCK FALSE
INVARIANTS
  SlotAccounting
  HostCallProtocol
  WriteProgress
  NoLostWakeup
PROPERTIES
  WriteAllOrError
  ImplementsBlockingCalls
