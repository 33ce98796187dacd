-------------------------- MODULE DeploymentProofs --------------------------
(***************************************************************************)
(* Proofs about Deployment, for any configuration, files and modules.      *)
(* Loading keeps the routes as the configuration says so far (Routed) and  *)
(* the modules as the files are, but for those that were replaced          *)
(* (Backed); a guest only runs with imports that were linked (Linked).     *)
(***************************************************************************)
EXTENDS Deployment, TLAPS

Loaded ==
  /\ pc \notin {"start", "invalid"} =>
       \A n \in 1..Len(config) : config[n].key \in Keys /\ config[n].function \in Functions
  /\ pc \in {"start", "invalid"} => read = 0
  /\ pc \in {"serving", "guest"} => read = Len(config)

Routed ==
  /\ \A n \in 1..read : config[n].key \in DOMAIN routes
  /\ \A k \in DOMAIN routes :
       \E n \in 1..read : /\ config[n].key = k /\ routes[k] = config[n]
                          /\ \A m \in 1..read : config[m].key = k => m <= n

Backed ==
  /\ \A k \in DOMAIN routes :
       /\ routes[k].path \in DOMAIN modules
       /\ routes[k].path \notin replaced =>
            modules[routes[k].path].exports[routes[k].function] = "body"
  /\ \A p \in DOMAIN modules : p \notin replaced => modules[p] = disk[p]

Linked ==
  pc = "guest" => instance \in Instance /\ \A i \in instance.module.imports : Links(i)

IInv == TypeOK /\ Loaded /\ Routed /\ Backed /\ Linked /\ CallsAreTyped

----------------------------------------------------------------------------
(* The tables.                                                             *)

\* The three tables of the host's functions agree.
LEMMA TablesAgree ==
  ASSUME NEW i \in HostIndex
  PROVE  Signature[i].params = Arguments[i] /\ Signature[i].result = Answer[i]
<1>3. i \in {0, 1, 2, 3, 4, 5, 6, 7}
  BY DEF HostIndex
<1>4. CASE i \in {0, 3}
  BY <1>4 DEF Signature, Arguments, Answer, HostIndex, Sig, Buffer, IntBuffer,
    TwoBuffers, LOG, SET_STATUS,
    SET_HEADER, SET_BODY, TCP_CONNECT, TCP_READ, TCP_WRITE, DB_GET
<1>5. CASE i = 4
  BY <1>5 DEF Signature, Arguments, Answer, HostIndex, Sig, Buffer, IntBuffer,
    TwoBuffers, LOG, SET_STATUS,
    SET_HEADER, SET_BODY, TCP_CONNECT, TCP_READ, TCP_WRITE, DB_GET
<1>6. CASE i \in {1, 5, 6}
  BY <1>6 DEF Signature, Arguments, Answer, HostIndex, Sig, Buffer, IntBuffer,
    TwoBuffers, LOG, SET_STATUS,
    SET_HEADER, SET_BODY, TCP_CONNECT, TCP_READ, TCP_WRITE, DB_GET
<1>7. CASE i \in {2, 7}
  BY <1>7 DEF Signature, Arguments, Answer, HostIndex, Sig, Buffer, IntBuffer,
    TwoBuffers, LOG, SET_STATUS,
    SET_HEADER, SET_BODY, TCP_CONNECT, TCP_READ, TCP_WRITE, DB_GET
<1> QED  BY <1>3, <1>4, <1>5, <1>6, <1>7

LEMMA ResolveIs ==
  /\ DOMAIN Resolve = DOMAIN Api
  /\ \A f \in DOMAIN Resolve : Resolve[f] \in HostIndex
  BY DEF Resolve, Api, HostIndex, LOG, SET_STATUS, SET_HEADER, SET_BODY, TCP_CONNECT,
    TCP_READ, TCP_WRITE, DB_GET

\* What serverless-api declares is what check_signature accepts.
LEMMA ApiIs ==
  ASSUME NEW f \in DOMAIN Api
  PROVE  Api[f] = Signature[Resolve[f]]
<1> USE DEF HostIndex, LOG, SET_STATUS, SET_HEADER, SET_BODY, TCP_CONNECT, TCP_READ,
      TCP_WRITE, DB_GET
<1>1. f \in {"log", "response_set_status_line", "response_set_header",
        "response_set_body", "tcp_connect", "tcp_read", "tcp_write", "db_get"}
  BY DEF Api
<1>2. Resolve.log = 0 /\ Api.log = Signature[0]
  BY DEF Resolve, Api, Signature, Sig, Buffer, IntBuffer, TwoBuffers
<1>3. Resolve.response_set_status_line = 1 /\ Api.response_set_status_line = Signature[1]
  BY DEF Resolve, Api, Signature, Sig, Buffer, IntBuffer, TwoBuffers
<1>4. Resolve.response_set_header = 2 /\ Api.response_set_header = Signature[2]
  BY DEF Resolve, Api, Signature, Sig, Buffer, IntBuffer, TwoBuffers
<1>5. Resolve.response_set_body = 3 /\ Api.response_set_body = Signature[3]
  BY DEF Resolve, Api, Signature, Sig, Buffer, IntBuffer, TwoBuffers
<1>6. Resolve.tcp_connect = 4 /\ Api.tcp_connect = Signature[4]
  BY DEF Resolve, Api, Signature, Sig, Buffer, IntBuffer, TwoBuffers
<1>7. Resolve.tcp_read = 5 /\ Api.tcp_read = Signature[5]
  BY DEF Resolve, Api, Signature, Sig, Buffer, IntBuffer, TwoBuffers
<1>8. Resolve.tcp_write = 6 /\ Api.tcp_write = Signature[6]
  BY DEF Resolve, Api, Signature, Sig, Buffer, IntBuffer, TwoBuffers
<1>9. Resolve.db_get = 7 /\ Api.db_get = Signature[7]
  BY DEF Resolve, Api, Signature, Sig, Buffer, IntBuffer, TwoBuffers
<1> QED  BY <1>1, <1>2, <1>3, <1>4, <1>5, <1>6, <1>7, <1>8, <1>9

----------------------------------------------------------------------------
(* Maps.                                                                   *)

LEMMA PartialIs ==
  ASSUME NEW S, NEW T, NEW f \in Partial(S, T)
  PROVE  /\ DOMAIN f \subseteq S /\ f = [x \in DOMAIN f |-> f[x]]
         /\ \A x \in DOMAIN f : f[x] \in T
  BY DEF Partial

\* g is f, with v at k.
With(g, f, k, v) ==
  /\ DOMAIN g = DOMAIN f \cup {k} /\ g[k] = v
  /\ \A x \in DOMAIN f : x # k => g[x] = f[x]

LEMMA InsertIs ==
  ASSUME NEW S, NEW T, NEW f \in Partial(S, T), NEW k \in S, NEW v \in T
  PROVE  Insert(f, k, v) \in Partial(S, T) /\ With(Insert(f, k, v), f, k, v)
<1>1. DOMAIN f \subseteq S /\ \A x \in DOMAIN f : f[x] \in T
  BY PartialIs
<1>2. Insert(f, k, v) \in [DOMAIN f \cup {k} -> T]
  BY <1>1 DEF Insert
<1>3. Insert(f, k, v) \in Partial(S, T)
  BY <1>2 DEF Partial
<1> QED  BY <1>3 DEF Insert, With

LEMMA EmptyIs == ASSUME NEW S, NEW T PROVE Empty \in Partial(S, T)
<1>1. Empty \in [{} -> T]
  BY DEF Empty
<1> QED  BY <1>1 DEF Partial

----------------------------------------------------------------------------
(* The invariant.                                                          *)

LEMMA InitIInv == Init => IInv
<1> SUFFICES ASSUME Init PROVE IInv
  OBVIOUS
<1>1. Empty \in Partial(Keys, App) /\ Empty \in Partial(Paths, Modules) /\ DOMAIN Empty = {}
  <2>1. DOMAIN Empty = {}
    BY DEF Empty
  <2> QED  BY <2>1, EmptyIs
<1>2. config \in Seq(App)
  BY ConfigAssumption DEF Init
<1>3. TypeOK
  <2>1. 0 \in 0..Len(config)
    BY <1>2
  <2> QED  BY <1>1, <2>1 DEF Init, TypeOK
<1>4. Loaded /\ Linked /\ CallsAreTyped
  BY DEF Init, Loaded, Linked, CallsAreTyped
<1>5. Routed /\ Backed
  BY <1>1 DEF Init, Routed, Backed
<1> QED  BY <1>3, <1>4, <1>5 DEF IInv

\* What a step of Goes, that of no more than pc, must show.
LEMMA GoesIInv ==
  ASSUME IInv, NEW from, NEW to \in {"loading", "serving", "invalid", "panicked"},
         Goes(from, to), from \in {"start", "loading", "serving", "guest"},
         to = "invalid" => read = 0,
         to # "invalid" =>
           \A n \in 1..Len(config) : config[n].key \in Keys /\ config[n].function \in Functions,
         to = "serving" => read = Len(config)
  PROVE  IInv'
<1>1. /\ pc' = to /\ config' = config /\ disk' = disk /\ read' = read
      /\ routes' = routes /\ modules' = modules /\ instance' = instance
      /\ called' = called /\ handled' = handled /\ replaced' = replaced
  BY DEF Goes, app
<1>2. TypeOK'
  BY <1>1 DEF IInv, TypeOK
<1>3. Loaded'
  BY <1>1 DEF Loaded
<1>4. Routed' /\ Backed'
  BY <1>1 DEF IInv, Routed, Backed
<1>5. Linked' /\ CallsAreTyped'
  BY <1>1 DEF IInv, Linked, CallsAreTyped
<1> QED  BY <1>2, <1>3, <1>4, <1>5 DEF IInv

\* A step that leaves the configuration, the files and the routes alone.
LEMMA ServingIInv ==
  ASSUME IInv, pc \in {"serving", "guest"}, pc' \in {"serving", "guest"},
         UNCHANGED <<config, disk, read, app, replaced>>,
         instance' \in Instance \cup {None}, called' \in Called \cup {None},
         handled' \in [key : Keys, by : App \cup {None}] \cup {None},
         Linked', CallsAreTyped'
  PROVE  IInv'
<1>1. /\ config' = config /\ disk' = disk /\ read' = read /\ replaced' = replaced
      /\ routes' = routes /\ modules' = modules
  BY DEF app
<1>2. TypeOK'
  BY <1>1 DEF IInv, TypeOK
<1>3. Loaded'
  BY <1>1 DEF IInv, Loaded
<1>4. Routed' /\ Backed'
  BY <1>1 DEF IInv, Routed, Backed
<1> QED  BY <1>2, <1>3, <1>4 DEF IInv

\* The application that is loaded next.
LEMMA ThisIs ==
  ASSUME IInv, Loading
  PROVE  /\ read + 1 \in 1..Len(config) /\ read \in Nat /\ Len(config) \in Nat
         /\ This \in App /\ This.key \in Keys /\ This.path \in Paths
         /\ This.function \in Functions
<1>1. config \in Seq(App)
  BY ConfigAssumption DEF IInv, TypeOK
<1>2. Len(config) \in Nat /\ read \in 0..Len(config) /\ read < Len(config)
  BY <1>1 DEF IInv, TypeOK, Loading
<1>3. read + 1 \in 1..Len(config) /\ read \in Nat
  BY <1>2
<1>4. This \in App
  BY <1>1, <1>3 DEF This
<1>5. This.key \in Keys /\ This.function \in Functions
  BY <1>3 DEF IInv, Loaded, Loading, This
<1> QED  BY <1>2, <1>3, <1>4, <1>5 DEF App

LEMMA LoadIInv ==
  ASSUME IInv, LoadApplication
  PROVE  IInv'
<1> DEFINE a == This
           d == disk[This.path]
<1>1. /\ a \in App /\ a.key \in Keys /\ a.path \in Paths /\ a.function \in Functions
      /\ a = config[read + 1] /\ read + 1 \in 1..Len(config) /\ read \in Nat
      /\ Len(config) \in Nat
  BY ThisIs DEF LoadApplication, This
<1>2. /\ pc = "loading" /\ pc' = pc /\ config' = config /\ disk' = disk /\ read' = read + 1
      /\ routes' = Insert(routes, a.key, a)
      /\ modules' = IF a.path \in DOMAIN modules THEN modules ELSE Insert(modules, a.path, d)
      /\ instance' = instance /\ called' = called /\ handled' = handled
      /\ replaced' = replaced
  BY DEF LoadApplication, Loading, Keep, AddRoute
<1>3. d \in Modules /\ d.exports[a.function] = "body"
  BY <1>1 DEF LoadApplication, Loads, IInv, TypeOK
<1> HIDE DEF a, d
<1>4. /\ routes' \in Partial(Keys, App) /\ DOMAIN routes' = DOMAIN routes \cup {a.key}
      /\ routes'[a.key] = a
      /\ \A k \in DOMAIN routes : k # a.key => routes'[k] = routes[k]
  <2>1. routes \in Partial(Keys, App)
    BY DEF IInv, TypeOK
  <2>2. /\ Insert(routes, a.key, a) \in Partial(Keys, App)
        /\ With(Insert(routes, a.key, a), routes, a.key, a)
    BY <1>1, <2>1, InsertIs, Zenon
  <2>3. routes' \in Partial(Keys, App) /\ With(routes', routes, a.key, a)
    BY <1>2, <2>2, Zenon
  <2> QED  BY <2>3 DEF With
<1>5. /\ modules' \in Partial(Paths, Modules) /\ a.path \in DOMAIN modules'
      /\ DOMAIN modules' = DOMAIN modules \cup {a.path}
      /\ \A p \in DOMAIN modules : modules'[p] = modules[p]
      /\ a.path \notin DOMAIN modules => modules'[a.path] = d
  <2>1. modules \in Partial(Paths, Modules)
    BY DEF IInv, TypeOK
  <2>2. CASE a.path \in DOMAIN modules
    <3>1. modules' = modules
      BY <1>2, <2>2
    <3> QED  BY <2>1, <2>2, <3>1
  <2>3. CASE a.path \notin DOMAIN modules
    <3>1. modules' = Insert(modules, a.path, d)
      BY <1>2, <2>3
    <3>2. /\ Insert(modules, a.path, d) \in Partial(Paths, Modules)
          /\ With(Insert(modules, a.path, d), modules, a.path, d)
      BY <1>1, <1>3, <2>1, InsertIs, Zenon
    <3>3. modules' \in Partial(Paths, Modules) /\ With(modules', modules, a.path, d)
      BY <3>1, <3>2, Zenon
    <3> QED  BY <2>3, <3>3 DEF With
  <2> QED  BY <2>2, <2>3
<1>6. TypeOK'
  <2>1. read + 1 \in 0..Len(config)
    BY <1>1
  <2> QED  BY <1>2, <1>4, <1>5, <2>1 DEF IInv, TypeOK
<1>7. Loaded'
  BY <1>2 DEF IInv, Loaded
<1>8. Routed'
  <2>1. ASSUME NEW n \in 1..(read + 1)
        PROVE  config[n].key \in DOMAIN routes'
    <3>1. CASE n = read + 1
      BY <1>1, <1>4, <3>1
    <3>2. CASE n \in 1..read
      BY <1>4, <3>2 DEF IInv, Routed
    <3> QED  BY <1>1, <2>1, <3>1, <3>2
  <2>2. ASSUME NEW k \in DOMAIN routes'
        PROVE  \E n \in 1..(read + 1) :
                 /\ config[n].key = k /\ routes'[k] = config[n]
                 /\ \A m \in 1..(read + 1) : config[m].key = k => m <= n
    <3>1. CASE k = a.key
      <4>1. read + 1 \in 1..(read + 1) /\ \A m \in 1..(read + 1) : m <= read + 1
        BY <1>1
      <4>2. config[read + 1].key = k /\ routes'[k] = config[read + 1]
        BY <1>1, <1>4, <3>1
      <4> QED  BY <4>1, <4>2
    <3>2. CASE k # a.key
      <4>1. k \in DOMAIN routes /\ routes'[k] = routes[k]
        BY <1>4, <2>2, <3>2
      <4>2. PICK n \in 1..read : /\ config[n].key = k /\ routes[k] = config[n]
                                 /\ \A m \in 1..read : config[m].key = k => m <= n
        BY <4>1 DEF IInv, Routed
      <4>3. \A m \in 1..(read + 1) : config[m].key = k => m \in 1..read
        BY <1>1, <3>2
      <4>4. n \in 1..(read + 1)
        BY <1>1, <4>2
      <4> QED  BY <4>1, <4>2, <4>3, <4>4
    <3> QED  BY <3>1, <3>2
  <2> QED  BY <1>2, <2>1, <2>2 DEF Routed
<1>9. Backed'
  <2>1. ASSUME NEW p \in DOMAIN modules', p \notin replaced
        PROVE  modules'[p] = disk[p]
    <3>1. CASE p \in DOMAIN modules
      BY <1>5, <2>1, <3>1 DEF IInv, Backed
    <3>2. CASE p \notin DOMAIN modules
      BY <1>5, <2>1, <3>2 DEF d, a
    <3> QED  BY <3>1, <3>2
  <2>2. ASSUME NEW k \in DOMAIN routes'
        PROVE  /\ routes'[k].path \in DOMAIN modules'
               /\ routes'[k].path \notin replaced =>
                    modules'[routes'[k].path].exports[routes'[k].function] = "body"
    <3>1. CASE k = a.key
      <4>1. routes'[k] = a
        BY <1>4, <3>1
      <4>2. a.path \notin replaced => modules'[a.path] = d
        BY <1>5, <2>1 DEF d, a
      <4> QED  BY <1>3, <1>5, <4>1, <4>2
    <3>2. CASE k # a.key
      <4>1. k \in DOMAIN routes /\ routes'[k] = routes[k]
        BY <1>4, <2>2, <3>2
      <4>2. /\ routes[k].path \in DOMAIN modules
            /\ routes[k].path \notin replaced =>
                 modules[routes[k].path].exports[routes[k].function] = "body"
        BY <4>1 DEF IInv, Backed
      <4> QED  BY <1>5, <4>1, <4>2
    <3> QED  BY <3>1, <3>2
  <2> QED  BY <1>2, <2>1, <2>2 DEF Backed
<1>10. Linked' /\ CallsAreTyped'
  BY <1>2 DEF IInv, Linked, CallsAreTyped
<1> QED  BY <1>6, <1>7, <1>8, <1>9, <1>10 DEF IInv

LEMMA ReplaceIInv ==
  ASSUME IInv, NEW p \in Paths, NEW m \in Modules \cup {None}, Replace(p, m)
  PROVE  IInv'
<1>1. /\ pc = "loading" /\ pc' = pc /\ config' = config /\ read' = read
      /\ routes' = routes /\ modules' = modules /\ instance' = instance
      /\ called' = called /\ handled' = handled
      /\ replaced' = replaced \cup {p} /\ disk' = [disk EXCEPT ![p] = m]
  BY DEF Replace, app
<1>2. disk' \in [Paths -> Modules \cup {None}] /\ \A q \in Paths : q # p => disk'[q] = disk[q]
  BY <1>1 DEF IInv, TypeOK
<1>3. TypeOK'
  BY <1>1, <1>2 DEF IInv, TypeOK
<1>4. Loaded' /\ Routed' /\ Linked' /\ CallsAreTyped'
  BY <1>1 DEF IInv, Loaded, Routed, Linked, CallsAreTyped
<1>5. DOMAIN modules \subseteq Paths
  BY PartialIs DEF IInv, TypeOK
<1>6. Backed'
  BY <1>1, <1>2, <1>5 DEF IInv, Backed
<1> QED  BY <1>3, <1>4, <1>6 DEF IInv

----------------------------------------------------------------------------
(* Requests.                                                               *)

\* A route is found for the keys that have one.
LEMMA RouteIs ==
  ASSUME IInv, NEW k
  PROVE  /\ k \in DOMAIN routes => Route(k) = routes[k] /\ Route(k) \in App
         /\ k \notin DOMAIN routes => Route(k) = None
         /\ Route(k) \in App \cup {None}
<1>1. k \in DOMAIN routes => routes[k].path \in DOMAIN modules
  BY DEF IInv, Backed
<1>2. k \in DOMAIN routes => routes[k] \in App
  BY PartialIs DEF IInv, TypeOK
<1> QED  BY <1>1, <1>2 DEF Route

LEMMA CreateIInv ==
  ASSUME IInv, NEW k \in Keys, CreateInstance(k)
  PROVE  IInv'
<1>1. /\ pc = "serving" /\ pc' = "guest" /\ UNCHANGED <<config, disk, read, app, replaced>>
      /\ called' = called /\ handled' = [key |-> k, by |-> Route(k)] /\ Route(k) # None
      /\ Instantiates(Kept(k))
      /\ instance' = [module |-> Kept(k), function |-> Route(k).function,
                      memory |-> IF Kept(k).memory = "import" THEN Kept(k).pages ELSE None]
  BY DEF CreateInstance, Requests
<1>2. k \in DOMAIN routes /\ Route(k) = routes[k] /\ Route(k) \in App
  BY <1>1, RouteIs
<1>3. Kept(k) \in Modules
  <2>1. Route(k).path \in DOMAIN modules
    BY <1>2 DEF IInv, Backed
  <2> QED  BY <2>1, PartialIs DEF Kept, IInv, TypeOK
<1>4. Route(k).function \in Functions
  <2>1. PICK n \in 1..read : routes[k] = config[n]
    BY <1>2 DEF IInv, Routed
  <2>2. read = Len(config)
    BY <1>1 DEF IInv, Loaded
  <2> QED  BY <1>1, <1>2, <2>1, <2>2 DEF IInv, Loaded
<1>5. Kept(k).memory = "import" => Kept(k).pages \in 0..MaxPages
  <2>1. Kept(k).pages \in Nat
    BY <1>3, ModulesAssumption DEF Module
  <2> QED  BY <1>1, <2>1, PagesAssumption DEF Instantiates
<1>6. instance' \in Instance
  BY <1>1, <1>3, <1>4, <1>5 DEF Instance
<1>7. Linked'
  <2>1. instance'.module = Kept(k)
    BY <1>1
  <2>2. \A i \in instance'.module.imports : Links(i)
    BY <1>1, <2>1 DEF Instantiates
  <2> QED  BY <1>6, <2>2 DEF Linked, Links
<1>8. CallsAreTyped'
  BY <1>1 DEF IInv, CallsAreTyped
<1>9. handled' \in [key : Keys, by : App \cup {None}]
  BY <1>1, <1>2
<1> QED  BY <1>1, <1>6, <1>7, <1>8, <1>9, ServingIInv DEF IInv, TypeOK

LEMMA NotFoundIInv ==
  ASSUME IInv, NEW k \in Keys, NotFound(k)
  PROVE  IInv'
<1>1. /\ pc = "serving" /\ pc' = pc /\ UNCHANGED <<config, disk, read, app, replaced>>
      /\ called' = called /\ handled' = [key |-> k, by |-> Route(k)] /\ instance' = instance
  BY DEF NotFound, Requests
<1>2. handled' \in [key : Keys, by : App \cup {None}]
  BY <1>1, RouteIs
<1>3. Linked' /\ CallsAreTyped'
  BY <1>1 DEF IInv, Linked, CallsAreTyped
<1> QED  BY <1>1, <1>2, <1>3, ServingIInv DEF IInv, TypeOK

\* A call of an import that was linked has the types of its table.
LEMMA CallIInv ==
  ASSUME IInv, NEW i, Calls(i)
  PROVE  IInv'
<1>1. /\ pc = "guest" /\ pc' = pc /\ UNCHANGED <<config, disk, read, app, replaced>>
      /\ instance' = instance /\ handled' = handled /\ i \in instance.module.imports
      /\ called' = [import |-> i, arguments |-> Arguments[Resolve[i.field]],
                    answer |-> Answer[Resolve[i.field]]]
  BY DEF Calls, Runs
<1>2. instance \in Instance /\ Links(i)
  BY <1>1 DEF IInv, Linked
<1>3. instance.module \in Module
  BY <1>2, ModulesAssumption DEF Instance
<1>4. i \in Import
  BY <1>1, <1>3 DEF Module
<1>5. Resolve[i.field] \in HostIndex /\ i.sig = Signature[Resolve[i.field]]
  BY <1>2, ResolveIs DEF Links
<1>6. /\ i.sig.params = Arguments[Resolve[i.field]]
      /\ i.sig.result = Answer[Resolve[i.field]]
  BY <1>5, TablesAgree
<1>7. called' \in Called
  BY <1>1, <1>4, <1>5 DEF Called
<1>8. CallsAreTyped'
  BY <1>1, <1>6 DEF CallsAreTyped
<1>9. Linked'
  BY <1>1, <1>2 DEF IInv, Linked
<1> QED  BY <1>1, <1>7, <1>8, <1>9, ServingIInv DEF IInv, TypeOK

LEMMA ReturnsIInv == IInv /\ Returns => IInv'
<1> SUFFICES ASSUME IInv, Returns PROVE IInv'
  OBVIOUS
<1>1. /\ pc = "guest" /\ pc' = "serving" /\ UNCHANGED <<config, disk, read, app, replaced>>
      /\ instance' = None /\ called' = None /\ handled' = handled
  BY DEF Returns, Runs
<1>2. Linked' /\ CallsAreTyped'
  BY <1>1 DEF Linked, CallsAreTyped
<1> QED  BY <1>1, <1>2, ServingIInv DEF IInv, TypeOK

\* What the steps of Goes do.
LEMMA GoesSteps ==
  ASSUME IInv, \/ Load \/ LoadFails \/ LoadPanics \/ Listen \/ RunPanics
               \/ \E k \in Keys : InstantiatePanics(k)
               \/ \E i \in UNION {m.imports : m \in Modules} : CallPanics(i)
  PROVE  IInv'
<1>1. config \in Seq(App) /\ config \in Configs
  BY ConfigAssumption DEF IInv, TypeOK
<1>2. CASE Load
  <2>1. ASSUME NEW n \in 1..Len(config)
        PROVE  config[n].key \in Keys /\ config[n].function \in Functions
    <3>1. config[n] \in App
      BY <1>1
    <3> QED  BY <1>2, <3>1 DEF Load, App
  <2> QED  BY <1>2, <2>1, GoesIInv DEF Load
<1>3. CASE LoadFails
  BY <1>3, GoesIInv DEF LoadFails, Goes, IInv, Loaded
<1>4. CASE LoadPanics
  BY <1>4, GoesIInv DEF LoadPanics, Loading, IInv, Loaded
<1>5. CASE Listen
  BY <1>5, GoesIInv DEF Listen, IInv, Loaded
<1>6. CASE RunPanics
  BY <1>6, GoesIInv DEF RunPanics, IInv, Loaded
<1>7. CASE \E k \in Keys : InstantiatePanics(k)
  BY <1>7, GoesIInv DEF InstantiatePanics, IInv, Loaded
<1>8. CASE \E i \in UNION {m.imports : m \in Modules} : CallPanics(i)
  BY <1>8, GoesIInv DEF CallPanics, Runs, IInv, Loaded
<1> QED  BY <1>2, <1>3, <1>4, <1>5, <1>6, <1>7, <1>8

LEMMA NextIInv == IInv /\ [Next]_vars => IInv'
<1> SUFFICES ASSUME IInv, [Next]_vars PROVE IInv'
  OBVIOUS
<1>1. CASE \/ Load \/ LoadFails \/ LoadPanics \/ Listen \/ RunPanics
           \/ \E k \in Keys : InstantiatePanics(k)
           \/ \E i \in UNION {m.imports : m \in Modules} : CallPanics(i)
  BY <1>1, GoesSteps
<1>2. CASE LoadApplication
  BY <1>2, LoadIInv
<1>3. CASE \E p \in Paths, m \in Modules \cup {None} : Replace(p, m)
  BY <1>3, ReplaceIInv
<1>4. CASE \E k \in Keys : NotFound(k)
  BY <1>4, NotFoundIInv
<1>5. CASE \E k \in Keys : CreateInstance(k)
  BY <1>5, CreateIInv
<1>6. CASE \E i \in UNION {m.imports : m \in Modules} : Calls(i)
  BY <1>6, CallIInv
<1>7. CASE Returns
  BY <1>7, ReturnsIInv
<1>8. CASE UNCHANGED vars
  BY <1>8 DEF vars, app, IInv, TypeOK, Loaded, Routed, Backed, Linked, CallsAreTyped
<1> QED  BY <1>1, <1>2, <1>3, <1>4, <1>5, <1>6, <1>7, <1>8 DEF Next

\* The invariant holds in every state: it is inductive, which the properties are not.
THEOREM Inductive == Spec => []IInv
<1> QED  BY InitIInv, NextIInv, PTL DEF Spec

----------------------------------------------------------------------------
(* The properties of the runs.                                             *)

\* Every variable keeps its type: the routes and modules are maps over the keys and
\* paths, and a running guest is one that is configured.
THEOREM TypeCorrect == Spec => []TypeOK
<1>1. IInv => TypeOK
  BY DEF IInv
<1> QED  BY <1>1, Inductive, PTL

\* A host function is called with the types that invoke_index reads, and answers with
\* the type the guest was linked for: no call panics on its arguments.
THEOREM CallsAreWellTyped == Spec => []CallsAreTyped
<1>1. IInv => CallsAreTyped
  BY DEF IInv
<1> QED  BY <1>1, Inductive, PTL

\* The module of a route is there, and unless its file was replaced while the server
\* started it has the function.
THEOREM RoutesServed == Spec => []RoutesAreServed
<1>1. IInv => RoutesAreServed
  <2> SUFFICES ASSUME IInv, NEW k \in DOMAIN routes
               PROVE  /\ routes[k].path \in DOMAIN modules
                      /\ routes[k].path \notin replaced =>
                           Kept(k).exports[routes[k].function] = "body"
    BY DEF RoutesAreServed
  <2>1. Kept(k) = modules[routes[k].path]
    BY RouteIs DEF Kept
  <2> QED  BY <2>1 DEF IInv, Backed
<1> QED  BY <1>1, Inductive, PTL

\* No guest is refused for an import that serverless-api declares: its types and
\* check_signature's are the same.
THEOREM ApiGuestsAreLinked == Spec => []ApiGuestsLink
<1>1. ApiGuestsLink
  BY ApiIs, ResolveIs DEF ApiGuestsLink, Links
<1> QED  BY <1>1, PTL

----------------------------------------------------------------------------
(* Refinement.                                                             *)

\* Once everything is loaded, the route of a key is the last one configured.
LEMMA RouteIsChosen ==
  ASSUME IInv, pc = "serving", NEW k \in Keys
  PROVE  Route(k) = Routing!Chosen(k)
<1>1. config \in Seq(App) /\ read = Len(config) /\ Len(config) \in Nat
  BY ConfigAssumption DEF IInv, TypeOK, Loaded
<1>2. Routing!For(k) = {n \in 1..read : config[n].key = k}
  BY <1>1 DEF Routing!For
<1>3. CASE k \in DOMAIN routes
  <2>1. PICK n \in 1..read : /\ config[n].key = k /\ routes[k] = config[n]
                             /\ \A m \in 1..read : config[m].key = k => m <= n
    BY <1>3 DEF IInv, Routed
  <2>2. n \in Routing!For(k) /\ \A m \in Routing!For(k) : m <= n
    BY <1>2, <2>1
  <2>3. \A l \in Routing!For(k) : (\A m \in Routing!For(k) : m <= l) => l = n
    BY <1>1, <1>2, <2>2
  <2>4. Routing!Latest(k) = n
    BY <2>2, <2>3 DEF Routing!Latest
  <2> QED  BY <1>3, <2>1, <2>2, <2>4, RouteIs DEF Routing!Chosen
<1>4. CASE k \notin DOMAIN routes
  <2>1. Routing!For(k) = {}
    BY <1>2, <1>4 DEF IInv, Routed
  <2> QED  BY <1>4, <2>1, RouteIs DEF Routing!Chosen
<1> QED  BY <1>3, <1>4

\* A request is handled as Router says.
LEMMA HandleStep ==
  ASSUME IInv, NEW k \in Keys, NotFound(k) \/ CreateInstance(k)
  PROVE  Routing!Handle(k)
<1>1. /\ pc = "serving" /\ pc' \in {"serving", "guest"} /\ config' = config
      /\ handled' = [key |-> k, by |-> Route(k)]
  BY DEF NotFound, CreateInstance, Requests
<1>2. Route(k) = Routing!Chosen(k)
  BY <1>1, RouteIsChosen
<1>3. Status = "up" /\ Status' = "up"
  BY <1>1 DEF Status
<1> QED  BY <1>1, <1>2, <1>3 DEF Routing!Handle

\* Every step of the host is one of the router, or none.
LEMMA NextRefines ==
  ASSUME IInv, [Next]_vars
  PROVE  [Routing!Next]_(Routing!vars)
<1> USE DEF Routing!Next, Routing!vars
<1>1. CASE Load \/ LoadFails \/ LoadPanics \/ Listen \/ RunPanics
  <2>1. config' = config /\ handled' = handled
    BY <1>1 DEF Load, LoadFails, LoadPanics, Listen, RunPanics, Goes
  <2>2. CASE Load
    BY <2>1, <2>2 DEF Load, Goes, Status
  <2>3. CASE LoadFails \/ LoadPanics \/ RunPanics
    <3>1. Status \in {"starting", "up"} /\ Status' = "down"
      BY <2>3 DEF LoadFails, LoadPanics, RunPanics, Goes, Status
    <3> QED  BY <2>1, <3>1 DEF Routing!Stop
  <2>4. CASE Listen
    <3>1. Status = "starting" /\ Status' = "up"
      BY <2>4 DEF Listen, Goes, Status
    <3> QED  BY <2>1, <3>1 DEF Routing!Start
  <2> QED  BY <1>1, <2>2, <2>3, <2>4
<1>2. CASE \/ \E k \in Keys : InstantiatePanics(k)
           \/ \E i \in UNION {m.imports : m \in Modules} : CallPanics(i)
  <2>1. config' = config /\ handled' = handled /\ Status = "up" /\ Status' = "down"
    BY <1>2 DEF InstantiatePanics, CallPanics, Runs, Goes, Status
  <2> QED  BY <2>1 DEF Routing!Stop
<1>3. CASE \/ LoadApplication \/ Returns
           \/ \E p \in Paths, m \in Modules \cup {None} : Replace(p, m)
           \/ \E i \in UNION {m.imports : m \in Modules} : Calls(i)
           \/ UNCHANGED vars
  <2>1. config' = config /\ handled' = handled /\ Status' = Status
    BY <1>3 DEF LoadApplication, Loading, Returns, Runs, Replace, Calls, vars, Status
  <2> QED  BY <2>1
<1>4. CASE \E k \in Keys : NotFound(k) \/ CreateInstance(k)
  BY <1>4, HandleStep
<1> QED  BY <1>1, <1>2, <1>3, <1>4 DEF Next

\* The host implements the router: it is up with all of its applications or not at all,
\* and gives a request to the last application of its method and path.
THEOREM Refinement == Spec => ImplementsRouter
<1>1. Init => Routing!Init
  BY DEF Init, Status, Routing!Init
<1>2. IInv /\ [Next]_vars => [Routing!Next]_(Routing!vars)
  BY NextRefines
<1> QED  BY <1>1, <1>2, Inductive, PTL DEF Spec, ImplementsRouter, Routing!Spec

=============================================================================
