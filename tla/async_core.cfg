\* Two slots: a session and its backend fill the slab, and a second session
\* takes over a token whose first socket is still registered.
SPECIFICATION MCSpec
CONSTANTS
  Sess = {s1, s2}
  Index = {i1, i2}
  None = None
  Kinds = {"app"}
  ReqLen = 1
  BufLen = 1
  Sizes = {0, 2}
  MaxAvail = 1
  MaxSpace = 1
  MaxBacklog = 1
  MaxCalls = 2
SYMMETRY Symmetry
CHECK_DEADLOCK FALSE
INVARIANTS
  TypeOK
  SlabConsistent
  SlotAccounting
  HostCallProtocol
  NoUnwrapPanic
  WriteProgress
  NoLostWakeup
  SleepsOnlyWhenIdle
PROPERTIES
  TurnsEnd
  WriteAllOrError
  ImplementsBlockingCalls
