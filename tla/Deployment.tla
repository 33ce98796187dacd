----------------------------- MODULE Deployment -----------------------------
(***************************************************************************)
(* From the configuration file to a running guest: config::load,           *)
(* ApplicationState::new with load_module, route, create_instance with     *)
(* StateResolver, and the calls of a linked guest.  The files of modules   *)
(* are read one after the other, and may be replaced in between.           *)
(***************************************************************************)
EXTENDS HostFunctions

CONSTANTS
  Keys,       \* pairs of a method and a path
  Paths,      \* of module files
  Functions,  \* names of exports
  Modules,    \* what a file may hold
  Configs,    \* the configuration files: sequences of applications
  MaxPages,   \* of an imported memory; 100 in resolve_memory
  None        \* a field that is missing, a file that is no module

\* An import of a function; module and field together must be one of the host's.
Import == [field : DOMAIN Resolve \cup {"other"}, sig : [params : Seq({"I32", "I64"}),
                                                        result : {"I32", "I64", "none"}]]

\* What an exported name stands for: a function with a body, one that is imported in
\* turn, or something else.
Module ==
  [exports : [Functions -> {"none", "body", "import", "other"}],
   imports : SUBSET Import, memory : {"own", "import"}, pages : Nat, start : BOOLEAN]

App == [key : Keys \cup {None}, path : Paths, function : Functions \cup {None}]

ASSUME ModulesAssumption == Modules \subseteq Module /\ None \notin Modules
ASSUME ConfigAssumption  == Configs \subseteq Seq(App) /\ None \notin Functions \cup Keys
ASSUME PagesAssumption   == MaxPages \in Nat

VARIABLES
  pc,         \* "start", "loading", "serving", "guest", "invalid" or "panicked"
  config,     \* Config::applications
  disk,       \* the file at each path
  read,       \* the number of applications read
  routes,     \* ApplicationState::routes, by key
  modules,    \* ApplicationState::modules, by path
  instance,   \* of the current request
  called,     \* the last call of the guest: its import, arguments read, answer
  handled,    \* the last request and the route it got
  replaced    \* the paths whose file changed while they were loaded

app   == <<routes, modules>>
vars  == <<pc, config, disk, read, app, instance, called, handled, replaced>>

\* A HashMap: the keys that it has, and their values.
Insert(map, k, v) == [x \in DOMAIN map \cup {k} |-> IF x = k THEN v ELSE map[x]]
Empty == [x \in {} |-> None]

Init ==
  /\ pc = "start" /\ config \in Configs
  /\ disk \in [Paths -> Modules \cup {None}]
  /\ read = 0 /\ routes = Empty /\ modules = Empty
  /\ instance = None /\ called = None /\ handled = None /\ replaced = {}

----------------------------------------------------------------------------
(* Starting.                                                               *)

Goes(from, to) ==
  /\ pc = from /\ pc' = to
  /\ UNCHANGED <<config, disk, read, app, instance, called, handled, replaced>>

\* load: every field but the environment is required.
Load ==
  /\ \A n \in 1..Len(config) : None \notin {config[n].key, config[n].function}
  /\ Goes("start", "loading")

\* "invalid configuration", or no file that can be read.
LoadFails == Goes("start", "invalid")

\* Mutant: the export may be an import.
LoadsImports(m, f) == m # None /\ m.exports[f] \in {"body", "import"}

\* load_module panics on a file that is no module and on an export that is no
\* function, or has no body: its index is less than the number of imports.
Loads(m, f) == m # None /\ m.exports[f] = "body"

Loading == pc = "loading" /\ read < Len(config)
This   == config[read + 1]

\* The first module of a path is kept, the last route of a key.
Keep == IF This.path \in DOMAIN modules THEN modules
        ELSE Insert(modules, This.path, disk[This.path])

\* Mutant: so is the first route.
AddRouteOnce == IF This.key \in DOMAIN routes THEN routes
                ELSE Insert(routes, This.key, This)

AddRoute == Insert(routes, This.key, This)

\* One turn of ApplicationState::new: the module is read for every application.
LoadApplication ==
  /\ Loading /\ Loads(disk[This.path], This.function)
  /\ modules' = Keep /\ routes' = AddRoute /\ read' = read + 1
  /\ UNCHANGED <<pc, config, disk, instance, called, handled, replaced>>

LoadPanics ==
  Loading /\ ~Loads(disk[This.path], This.function) /\ Goes("loading", "panicked")

Listen == pc = "loading" /\ read = Len(config) /\ Goes("loading", "serving")

\* Somebody installs another file, while the server starts.
Replace(p, m) ==
  /\ pc = "loading" /\ p \notin replaced /\ disk[p] # m
  /\ disk' = [disk EXCEPT ![p] = m] /\ replaced' = replaced \cup {p}
  /\ UNCHANGED <<pc, config, read, app, instance, called, handled>>

----------------------------------------------------------------------------
(* A request.                                                              *)

\* ApplicationState::route
Route(k) ==
  IF k \in DOMAIN routes /\ routes[k].path \in DOMAIN modules THEN routes[k] ELSE None

Kept(k) == modules[Route(k).path]

\* Mutant: the result is not compared.
LinksParams(i) ==
  i.field \in DOMAIN Resolve /\ i.sig.params = Signature[Resolve[i.field]].params

\* StateResolver::resolve_func
Links(i) == i.field \in DOMAIN Resolve /\ i.sig = Signature[Resolve[i.field]]

\* Mutant: a memory of any size is allocated.
InstantiatesAny(m) == \A i \in m.imports : Links(i)

\* ModuleInstance::new, with resolve_memory for an imported memory.
Instantiates(m) ==
  /\ \A i \in m.imports : Links(i)
  /\ m.memory = "import" => m.pages <= MaxPages

Requests(k) == pc = "serving" /\ handled' = [key |-> k, by |-> Route(k)]

\* "Route not found", or "Function not found" in the module that is kept.
NotFound(k) ==
  /\ Requests(k)
  /\ Route(k) # None =>
       /\ Instantiates(Kept(k)) /\ ~Kept(k).start
       /\ Kept(k).exports[Route(k).function] \notin {"body", "import"}
  /\ UNCHANGED <<pc, config, disk, read, app, instance, called, replaced>>

InstantiatePanics(k) ==
  /\ pc = "serving" /\ Route(k) # None
  /\ ~Instantiates(Kept(k)) \/ Kept(k).start
  /\ Goes("serving", "panicked")

CreateInstance(k) ==
  /\ Requests(k) /\ Route(k) # None
  /\ Instantiates(Kept(k)) /\ ~Kept(k).start
  /\ Kept(k).exports[Route(k).function] \in {"body", "import"}
  /\ pc' = "guest"
  /\ instance' = [module |-> Kept(k), function |-> Route(k).function,
                  memory |-> IF Kept(k).memory = "import" THEN Kept(k).pages ELSE None]
  /\ UNCHANGED <<config, disk, read, app, called, replaced>>

Runs == pc = "guest" /\ instance.module.exports[instance.function] = "body"

\* The interpreter has nothing to run in an export that is an import.
RunPanics == pc = "guest" /\ ~Runs /\ Goes("guest", "panicked")

\* The guest calls an import with a buffer in its memory ...
Calls(i) ==
  /\ Runs /\ i \in instance.module.imports
  /\ instance.memory # None \/ ~Unwraps(Resolve[i.field])
  /\ called' = [import |-> i, arguments |-> Arguments[Resolve[i.field]],
                answer |-> Answer[Resolve[i.field]]]
  /\ UNCHANGED <<pc, config, disk, read, app, instance, handled, replaced>>

\* ... without a memory that the host knows, or outside of it.
CallPanics(i) ==
  /\ Runs /\ i \in instance.module.imports /\ Unwraps(Resolve[i.field])
  /\ Goes("guest", "panicked")

Returns ==
  /\ Runs
  /\ pc' = "serving" /\ instance' = None /\ called' = None
  /\ UNCHANGED <<config, disk, read, app, handled, replaced>>

Next ==
  \/ Load \/ LoadFails \/ LoadApplication \/ LoadPanics \/ Listen
  \/ RunPanics \/ Returns
  \/ \E p \in Paths, m \in Modules \cup {None} : Replace(p, m)
  \/ \E k \in Keys : NotFound(k) \/ InstantiatePanics(k) \/ CreateInstance(k)
  \/ \E i \in UNION {m.imports : m \in Modules} : Calls(i) \/ CallPanics(i)

Spec == Init /\ [][Next]_vars

----------------------------------------------------------------------------
(* Correctness.                                                            *)

Instance == [module : Modules, function : Functions, memory : 0..MaxPages \cup {None}]
Called   == [import : Import, arguments : {Arguments[i] : i \in HostIndex},
             answer : {Answer[i] : i \in HostIndex}]
Partial(S, T) == UNION {[D -> T] : D \in SUBSET S}

TypeOK ==
  /\ pc \in {"start", "loading", "serving", "guest", "invalid", "panicked"}
  /\ config \in Configs /\ read \in 0..Len(config)
  /\ disk \in [Paths -> Modules \cup {None}] /\ replaced \subseteq Paths
  /\ routes \in Partial(Keys, App) /\ modules \in Partial(Paths, Modules)
  /\ instance \in Instance \cup {None} /\ called \in Called \cup {None}
  /\ handled \in [key : Keys, by : App \cup {None}] \cup {None}

\* route's second lookup never fails, and the function of a route has a body in the
\* module that is kept for it, which need not be the module it was looked for in:
\* only where a file was replaced while the server started can it be missing.
RoutesAreServed ==
  \A k \in DOMAIN routes :
    /\ routes[k].path \in DOMAIN modules
    /\ routes[k].path \notin replaced => Kept(k).exports[routes[k].function] = "body"

\* The types under which host functions may be imported are those of the arguments
\* that invoke_index reads, which panics on any other, and of the value that the
\* guest is resumed with.
CallsAreTyped ==
  called # None =>
    /\ called.import.sig.params = called.arguments
    /\ called.import.sig.result = called.answer

\* A guest that imports what serverless-api declares is not refused.
ApiGuestsLink ==
  \A k \in DOMAIN routes : \A i \in Kept(k).imports :
    i.field \in DOMAIN Api /\ i.sig = Api[i.field] => Links(i)

\* The state of a starting and serving host, as its user sees it.
Status ==
  IF pc \in {"start", "loading"} THEN "starting"
  ELSE IF pc \in {"serving", "guest"} THEN "up" ELSE "down"

Routing == INSTANCE Router WITH status <- Status

\* A request is given to the last application of its method and path, and none
\* before all of them are loaded.
ImplementsRouter == Routing!Spec

=============================================================================
