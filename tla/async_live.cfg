\* One session at a time, every kind of request, the thread fair.
SPECIFICATION MCFairSpec
CONSTANTS
  Sess = {s1}
  Index = {i1, i2}
  None = None
  Kinds = {"app", "noroute", "malformed", "oversized", "uninstantiable"}
  ReqLen = 2
  BufLen = 2
  Sizes = {0, 2}
  MaxAvail = 1
  MaxSpace = 1
  MaxBacklog = 1
  MaxCalls = 3
CHECK_DEADLOCK FALSE
PROPERTIES
  TurnsEnd
  ReadResumes
  WriteResumes
  ConnectResumes
