\* Two keys, two files and two functions, in every configuration of up to two
\* applications, with every content of the files and one replacement of each.
SPECIFICATION Spec
CONSTANTS
  Keys = {k1, k2}
  Paths = {p1, p2}
  Functions = {"f", "g"}
  Modules <- SomeModules
  Configs <- SomeConfigs
  MaxPages = 100
  None = None
SYMMETRY Symmetry
CHECK_DEADLOCK FALSE
INVARIANTS
  TypeOK
  RoutesAreServed
  CallsAreTyped
  ApiGuestsLink
PROPERTY ImplementsRouter
