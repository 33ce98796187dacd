\* Two entries in every section, any indices in them, two applications.
SPECIFICATION Spec
CONSTANTS
  Params <- SomeParams
  Fields = {"f"}
  Names = {"n"}
  Applications = 2
  MaxEntries = 2
  MaxOthers = 1
  MaxUses = 1
  None = None
CHECK_DEADLOCK FALSE
INVARIANTS
  TypeOK
  BodiesMatch
  CallsLink
  ImportsComeFirst
