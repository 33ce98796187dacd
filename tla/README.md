# Formal verification of serverless-wasm

TLA+ models of the server in this repository, checked by TLC on small
instances, with theorems about them that the TLA+ proof system (TLAPS) checks
for every value of the constants. Paths below are relative to the repository
root (`src/async/session.rs` is the asynchronous session).

## 1. The system

A TOML file maps methods and paths to WebAssembly files. The server reads one
HTTP request from a client, interprets the function that the route names in a
fresh instance of its module, and writes the response the guest prepared. The
guest imports functions of the host to log, to build the response, and to talk
to backends over TCP. `main` starts the asynchronous server; the synchronous
one (on rouille) and the Cretonne JIT environment are in the source but nothing
starts them at this commit.

| component | source | state | operations |
|---|---|---|---|
| event loop and slab | `src/async/mod.rs` | listener, `connections: Slab<Rc<RefCell<Session>>>`, `ready: VecDeque<usize>` | poll, accept, dispatch of events, drain of the ready queue, `Close`, `ConnectBackend` |
| session | `src/async/session.rs` | `SessionState`, client and backend streams with `readiness` and `interest`, request buffer, the `WasmInstance` | `new`, `add_backend`, `process_events`, `execute` (`front_readable`, `front_writable`, `process`), `resume`, `create_instance` |
| asynchronous host functions | `src/async/host.rs` | guest memory, prepared response, `db` | signatures and indices; `log`, `set_status_line`, `set_header`, `set_body`, `tcp_connect`, `tcp_read`, `tcp_write`, `db_get` |
| interpreter wrapper | `src/interpreter.rs` | value stack, stack of function contexts | `load_module`, `start`, `add_function_result`, `resume`, `my_run_interpreter_loop` |
| configuration and routing | `src/config.rs`, `src/main.rs` | routes, modules by file path | `load`, `ApplicationState::new`, `route` |
| synchronous server and host | `src/sync/mod.rs`, `src/sync/host.rs` | one request's response, connections by descriptor | the handler; blocking versions of the host functions |
| JIT environment | `src/jit/env.rs`, `src/jit/mod.rs` | signatures, function indices, bodies | the `ModuleEnvironment` callbacks |
| guest API | `serverless-api/src/lib.rs` | none | wrappers over the imported functions; the two calls of `db::get` |
| sample guests | `samples/` | none | straight-line use of the guest API |

How they interact. One thread runs everything. `poll` reports *edges* of
sockets by token; token `i + 1` is index `i` of the slab, and the same index is
the file descriptor the guest knows a backend by. An event is handed to the
session that the slab holds at its index, which records the bits and says
whether the index goes on the ready queue. When the queue is drained, a ready
session executes until it would block, closes, or asks for a connection. A
guest that calls `tcp_connect`, `tcp_read` or `tcp_write` *traps* out of the
interpreter; its stack of function contexts is kept, the session goes into a
state that says what is awaited, and when the call is decided its result is
pushed on the innermost context and the interpreter loop is entered again.

What is hard about it:

* readiness is edge-triggered, remembered in the session and forgotten on
  would-block; a bit dropped too early parks a guest forever;
* tokens are reused while the sockets registered under them live on inside a
  session, and the ready queue holds tokens that may by then mean another session;
* a session has several tokens, and the loop closes *one*, the one that ran it;
* a call is suspended and resumed over many turns, with state in three places
  (session state, interpreter stack, socket readiness);
* a failure in the middle (slab full, connection refused, broken backend, guest
  without a response, incomplete request) has to leave these three in step.

What makes each component correct:

* *event loop and slab*: a token leads to a living session that owns it, or to
  nothing; every stream of an unanswered session can be reached by a token;
* *session*: a host call is answered once and then resumed; nothing is written
  to the client before the guest has prepared it; a write is resumed from the
  byte the kernel took last; no wake-up is lost; what can go on does;
* *interpreter*: a trap keeps exactly the frames that a resume needs, and the
  result reaches the caller of the trapped function, as if the call had blocked;
* *configuration*: the server comes up with all of its applications or not at all; a
  request goes to the last application of its method and path, and that one's module is
  there, with its function;
* *asynchronous host functions*: the type under which a function may be imported is the
  one its arguments are read with and its caller goes on with, in three places of the
  host and in the guest API;
* *synchronous host*: a descriptor stands for one connection until the end of
  the request, and no byte of it is lost or repeated; the client gets what the guest
  prepared;
* *JIT environment*: a body is defined under the index and type of the function it was
  declared for, and every call agrees with its callee on the hidden last parameter.

## 2. Modules

| module | what it is |
|---|---|
| `AsyncServer` | event loop, slab, sessions, the guest as the session sees it, the kernel's sockets, the peers |
| `MCAsyncServer` | its instances for TLC: symmetry, and the reduction of the peers' steps |
| `BlockingCalls` | abstract: sessions whose guests make blocking calls on sockets of their own; `AsyncServer` implements it |
| `AsyncServerProofs` | the inductive invariant and the theorems that rest on it alone |
| `AsyncCountProofs` | what is counted: the entries of the slab (`SlotAccounting`), and what is left of a turn of the event loop (`TurnsEnd`) |
| `AsyncWakeupProofs` | the sockets added to the invariant: `NoLostWakeup` and `SleepsOnlyWhenIdle` |
| `AsyncCallsProofs` | the refinement of `BlockingCalls` |
| `Interpreter` | the stack of function contexts, the interpreter loop, traps and resumption |
| `BlockingGuest` | abstract: a guest whose host calls block; `Interpreter` implements it |
| `MCInterpreter`, `InterpreterProofs` | instance for TLC; theorems, the refinement among them |
| `SyncServer` | one request to the synchronous server: host functions that block, `db::get` |
| `MCSyncServer`, `SyncServerProofs` | its instances for TLC; invariant and theorems |
| `HostFunctions` | the host's functions as data: indices, types, arguments, answers, and the guest API's declarations |
| `Deployment` | from the configuration file to a linked guest and its calls, on top of `HostFunctions` |
| `Router` | abstract: what a configuration promises; `Deployment` implements it |
| `MCDeployment`, `DeploymentProofs` | instance for TLC; theorems, the refinement among them |
| `JitEnv` | the compiling server's module environment, section by section |
| `MCJitEnv`, `JitEnvProofs` | instance for TLC; invariant and theorems |

`AsyncServer` sees of the interpreter only whether the stack is empty and what was
answered; `Interpreter` is the detail of that view. Between a trap and `resume` exactly
one `add_function_result` happens in `Interpreter`, which is what `HostCallProtocol`
shows of the session; the two ways in which the session departs from it (a full slab, a
guest that returned) are properties of `AsyncServer`. `Deployment` ends where
`AsyncServer` begins its `CreateInstance`: the kinds `noroute` and `uninstantiable` of a
request are `NotFound` and `InstantiatePanics` there.

### `AsyncServer` and the code

Variables. `pc` is where the thread stands (`poll`, the loop over events, the
drain, or inside `execute` before `front_readable`, `front_writable` or
`process`; a panic is a final value). `cur` is the token taken from the queue,
`ready` the queue, `batch` and `acceptEvent` the events of the current `poll`
not yet dispatched, `conns` the slab. `session[s]` is `struct Session` without its
instance: the client's token, the state, the backends, the bytes in the buffer, and
`readiness` and `interest` by token; its `missed` is history. `guest[s]` is the instance as the session sees it:
whether the stack of contexts is empty, the last call, what it was answered,
what the response holds, and what the kernel took of the current write.
`kind` is what kind of request the client sends. `sock[s][i]` is the socket that
session `s` owns under token `i`; two sessions may own sockets registered under
the same token, which is why sockets belong to sessions and events carry a
session name *of the kernel's*, while `Event` finds the session through the
slab, as the code does. `replies` counts the responses written, for
the properties only.

Actions. One per handler or branch: `Poll`, `EventAccept`, `Event`
(`process_events` and the push on the queue), `EndEvents`, `Drain`, `EndDrain`;
`FrontReadable`, `FrontWritable`; `ParseError`, `ParsePartial`, `ParseComplete` for
`WaitingForRequest`; `NoRoute`, `InstantiatePanic`, `CreateInstance`,
`ResumeEmpty`, `GuestFault`, `GuestConnects`, `ConnectPanic`, `ConnectRefused`,
`GuestReads`, `GuestWrites`, `GuestReturns` for `Executing`; `ReadParks`,
`ReadSome`, `ReadError`, `ReadNothing`, `WriteParks`, `WriteSome`, `WriteBlocks`,
`WriteError` for the two suspended calls; `ExecutedWhileConnecting` for the arm
that panics. The peers: `ClientConnects`, `PeerSends`, `PeerCloses`,
`PeerResets`, `PeerDrains`, `ConnectDone`, `ConnectFails`.

Grain. A step is a system call, or the code between two of them. The loop of
`front_readable` is one step (it reads until the socket blocks, ends or the
buffer is full, and data that arrives meanwhile is data that had arrived
before). The loop of `tcp_write` is one `write` a step. The response is
written to the client in one step and its results are not looked at, as in the
code; the client's socket is always writable.

Abstractions. Bytes are counted; a request head has one of five kinds (served,
without a route, malformed, longer than the buffer, with a module that cannot
be instantiated). The guest is free: between two calls it may make any call on any
descriptor it was given, return with any part of the response, or fault (a
trap, a bad pointer, an unknown descriptor, all of which panic in the code). A slab insertion may take any vacant
index (the code's slab takes the one freed last), which allows more
behaviours. `hup` and `error` are one bit. A socket's pending edge is reported
with the level it has at `poll`; room in the send buffer raises an edge only
after a write found none.

Calls of size 0. The kernel answers a `tcp_read` of 0 bytes with `Ok(0)` when data
waits, and a `tcp_write` of 0 bytes on an open connection; the code takes that for the end of
the stream (`session.rs:353`, `402`) and clears the readiness (`ReadZero`, `WriteZero`). The
next call then parks, and is not woken by what the socket already has, only by the
next edge. This is the one way in which a wake-up is lost. `missed` is history that
says which bits were lost so and not reported since, and the properties about
wake-ups except these bits and no other.

### `Interpreter` and the code

`stack` is `WasmInstance::stack` with the innermost context first, `context` the one
that the loop has popped, `pc` where `my_run_interpreter_loop` is, `trapped` the host
function whose result is awaited. Of a context, the function, `is_initialized`, whether
the call it is suspended in returns a value, and what was pushed on its value stack
since it last ran are kept; the operands below, the frames and the program counter are
wasmi's. `LoopEntry` is the pop and the initialization; one action for each way
`do_run_function` and `invoke_context` can come out: `RunReturn`, `RunCall` (a function of
the module), `RunHost`, `RunHostTrap`, `RunTrap`. `BlockingGuest` has no contexts in hand and
no way out of the interpreter: a call of the host is answered at once or blocks.

### `SyncServer` and the code

`pc` is where the handler of `src/sync/mod.rs` stands, or the host function in which it
blocks. `prepared`, `connections` and `db` are the fields of `State`; the slab is never
removed from, so that descriptor `fd` is element `fd + 1` of a sequence. `sock` is the
kernel's side, by connection, with the bytes that went through; `guest` is what the guest was told, by
descriptor, and what it said of its response: it is history, nothing reads it. A call
that blocks is two steps, and the peers act between them. A value of the environment is the set of its
character boundaries, so that a length and a cut are what they are in bytes. Threads
of rouille share only the routes, which never change; one thread is modelled. A panic
is answered by rouille itself.

Assumed of the guest (`ApiAssumption`): it uses `serverless-api`, so its buffers lie in its
memory and its status has 16 bits. Without it, bytes read into a bad buffer
are lost without a word (`sync/host.rs:207`).

### `HostFunctions`, `Deployment`, `Router` and the code

`HostFunctions` has no state. `Resolve`, `Signature` and `Arguments` are the three tables
that `resolve_func`, `check_signature` and `invoke_index` of `async/host.rs` write out as
matches; `Answer` is the type of the value that `invoke_index` returns or the session
passes to `add_function_result`; `Api` is `mod sys` of `serverless-api`.

`Deployment` follows one process. `config` is the parsed file, `routes` and `modules` the
two maps of `ApplicationState`, `disk` what the files hold, `read` how many applications
have been read. `Load` and `LoadFails` are `config::load`; `LoadApplication` and
`LoadPanics` one turn of the loop of `ApplicationState::new`, `load_module` included;
`Replace` is somebody who installs another file meanwhile. A request is `NotFound`,
`InstantiatePanics` or `CreateInstance` (`route`, then `create_instance` with
`StateResolver`); a guest that runs makes calls (`Calls`, `CallPanics`) and returns. A
module is abstracted to what its exported names stand for, its imports with their types,
its memory and whether it has a start function. `handled` and `replaced` are history.

`Router` has the configuration and a status only: it starts or stops, and hands a request
to the last application of its key. `Deployment` implements it with `status <- Status`.

Requests are one at a time: sessions share nothing here but the two maps, which
never change once the server listens, and what sessions do to each other is in
`AsyncServer`. A guest with a memory of its own is linked and panics the host at its first
call with a buffer (`async/host.rs:415`, `CallPanics`), but for `tcp_read`, whose buffer
is only looked at when bytes have come.

An application without a `function` does not load (`LoadFails`), although the
configuration shown in `README.md:80-92` has none: `config.rs:13` requires it.

### `JitEnv` and the code

`section` is the section of the module that `translate_module` is in, `info` is
`Env::info` with the fields that the code reads. One action per callback of
`ModuleEnvironment` that changes it (`DeclareSignature`, `DeclareFuncImport`,
`DeclareFuncType`, `DeclareGlobal`, `DeclareFuncExport`, `DeclareStartFunc`,
`DefineFunctionBody`), with good and bad indices;
`DeclareOtherExport` is `unimplemented!()`. A body is what it refers to: a global, a
function, a function in the table by its type. `CallsOf` gives each call the signature
that `make_direct_func` or `make_indirect_sig` makes for it and the arguments that
`translate_call` and `translate_call_indirect` pass. Sections come in the binary
format's order. That the parser keeps it is assumed of external code, and what
`ImportsComeFirst` says rests on it; nothing else about the module is assumed.

## 3. Properties, runs and bounds

Safety (`async_core`, `async_calls`):

* `SlabConsistent`: tokens and sessions agree, and an unanswered session can be
  reached through every one of its streams.
* `SlotAccounting`: every response gives up exactly one token; a session with
  backends outlives its response.
* `HostCallProtocol`: session state, interpreter stack and sockets in step through a
  suspended call; one answer per call, but for a `tcp_connect` that found the slab full.
* `NoUnwrapPanic`: the `unwrap`s of `front_writable` cannot fail, and the `Close`
  of `front_readable` outside of `WaitingForRequest` is dead code.
* `WriteProgress`, `WriteAllOrError` (an action property): no byte of a
  `tcp_write` is sent twice or skipped, and its answer is the size or -1.
* `NoLostWakeup`: what a session waits for, once the kernel has it, is noted or
  on its way (`OnItsWay`), or a call of size 0 has thrown it away and no event has
  reported it since (`AccountedFor`); and a session that can go on is scheduled.
* `SleepsOnlyWhenIdle`: when the thread enters `poll`, whatever a session waits for and its
  socket has is an edge that `poll` reports at once, except again what is in `missed`. `NoLostWakeup` speaks of every
  state and allows a bit that is noted and a token that is queued; here nothing is left but
  the kernel's edges, also for a client's first bytes and for a connection.
* `TurnsEnd` (an action property): between two polls each step of the thread lowers `Rank`
  in the lexicographic order of four naturals: the events to dispatch; twice the
  tokens in the queue, the running one included; what the guest may still ask for; and
  what is left of the call it is in (a byte to write counts 2 and the readiness to write 1,
  so that a would-block, which gives up the bit, lowers it as a partial write does). So
  no session keeps the thread from the others: every round of the `loop` in
  `execute` uses something up. Two cases are excluded, which are lost: a panic,
  and the request that is parsed for ever (`Spinning`) because it is incomplete, the subject of
  `async_split_request`, or longer than the buffer (`session.rs:260`). `MaxCalls` stands for a guest that makes finitely many
  calls: one that never stops does keep the thread, by the design of the code.
* `ImplementsBlockingCalls`: the refinement of `BlockingCalls`, session by session. To its
  guest, the server is blocking calls: one call at a time, ended by what the kernel does with
  the socket the call names. A read is answered with what it took from that socket, a write
  with all that it gave, and neither touches another socket, whatever tokens they
  share; a session is only dropped before its guest starts or after it returned.

`BlockingCalls` has no `poll`, token, slab, readiness, interest or parked session. A session's
`client` is its descriptor while it lives (`Clients`), `call` is read from the session's state and its guest
(`CallOf`), and `sock` is the open sockets without the kernel's pending edges (`Seen`). It
promises no more than the code gives: `ConnectEnds` may come before the connection is made (an
event of the old socket under a reused token answers it), `ConnectIsRefused` is the full slab,
without an answer, and `ReadFindsNothing` answers 0 whether or not the stream has ended. How long a call
takes is not part of it: that is `NoLostWakeup` and liveness.

Liveness (`async_live`, which also checks `TurnsEnd` for every kind of request): `ReadResumes`, `WriteResumes`, `ConnectResumes`. A
suspended call whose backend can go on, with something that is not in `missed`, is taken up
again. The fairness is
`WF_vars(Server)`: the thread, which nothing else competes with, takes a step when it
can. Nothing is assumed of clients or backends, and `Lost` (a panic, or the endless
loop on an incomplete or too long request) is a possible outcome: the properties do not
claim what the code does not give.

Interpreter (`interpreter`): `CallChain` (under the running function every context waits in
the call of the one above it), `OperandsMatch` (a function goes on with exactly the value its
call returns, across traps), `NeverEmpty` (the `expect` at `interpreter.rs:83`, as long as
a guest that returned is not resumed), and `ImplementsBlocking`, the refinement of
`BlockingGuest`.

Synchronous server (`sync`): `StreamsIntact` (what the guest was told of a descriptor is what went
through one connection, over short and failing transfers), `SocketsHaveDescriptors` (no open
socket without exactly one descriptor, at a full slab too), `DbGetExact` (`db::get` returns the
value of the environment, in two calls), `ReplyIsPrepared` (the client gets the guest's last status
and body or an error, also from a guest that trapped).

Deployment (`deployment`): `RoutesAreServed` (`route`'s second lookup never fails, and the
module that is kept for a route has its function with a body, unless its file was replaced
while the server started: the module that was looked at is then not the one that is kept),
`CallsAreTyped` (a call that was linked has the argument types that `invoke_index`
reads, which panics on others, and the result type that the guest goes on with), `ApiGuestsLink`
(no declaration of `serverless-api` is refused), `ImplementsRouter` (the refinement of `Router`).

JIT environment (`jit_env`): `BodiesMatch` (the n-th body belongs to the n-th function
behind the imports and has its type, also in a module with fewer bodies than functions),
`CallsLink` (a call passes what its signature takes, and where the callee has a body, that body was
translated under the same signature), `ImportsComeFirst` (the assertion of
`declare_func_import` never fails).

| run | instance | shows |
|---|---|---|
| `async_core` | 2 sessions, 2 tokens, 2 host calls of size 0 or 2, room for 1 | the slab is smaller than the demand: full slab, reuse of a token whose old socket is still registered, sessions that outlive their answer, turns of several sessions in one round |
| `async_calls` | 1 session, 3 tokens, 3 host calls of size 0 or 2 | two backends, readiness left over from one call to the next, or thrown away; both runs with the refinement |
| `async_live` | 1 session, 2 tokens, 3 host calls (connect, one of size 0, one that parks), every kind of request in pieces | resumption under fairness; every turn ends |
| `interpreter` | 3 functions, 3 host functions (with and without a value, trapping), 2 values, depth 5 | calls and traps nested in every order; a trap at every depth |
| `sync` | 3 backends, a slab of 2, buffers of 0 and 2, room for 1; 2 keys, 3 values (empty, two characters, one wide character), 2 statuses, 2 bodies | the full slab, short, empty and failing transfers on two descriptors; both calls of `db::get` and every end of a request |
| `deployment` | 2 keys, 2 files, 2 functions; every configuration of up to 2 applications, 8 contents of a file | routes and modules kept by opposite rules, a file replaced between two loads, guests that are refused, panic or run |
| `jit_env` | 2 applications, 2 entries in every section, every index in them | imports, declarations and bodies in every number; good and bad indices in every place |
| `sync_headers` | violation of `HeadersAreSent` | the headers that the guest sets are dropped (`sync/mod.rs:45`, `README.md:60`) |
| `async_connecting` | violation of `NeverExecutedWhileConnecting` | a client event while the backend connection is made panics the server (`session.rs:447`) |
| `async_stack` | violation of `StackNotEmpty` | a guest that returns without status and body is resumed on an empty stack (`interpreter.rs:83`) |
| `async_connect_failure` | violation of `ConnectFailureReported` | a refused connection is answered as a descriptor (`serverless-api/src/lib.rs:86`) |
| `async_split_request` | violation of `RequestsAreRun` | a request in two pieces is never run (`README.md:48`) |

Bounds: `MaxAvail`, `MaxSpace` (bytes waiting and taken; 1 against
sizes of 2 makes every transfer partial), `MaxBacklog`, `MaxCalls`, and the number of names: a
client connects only if a name is left for its session. They are enough for the cases named: partial
reads and writes, would-block in the middle of a write, a full slab, a reused
token, two tokens of one session ready in one batch.

Reduction: the server looks at the kernel only in system calls, so `MCSpec` lets the peers
act where the next server step is one (`AtSystemCall`), or where the server spins. A
peer's step elsewhere commutes with the server's steps up to that point. The
theorems are about `Spec`, where the peers may always act.

`MaxDepth` (5) bounds the contexts of `Interpreter`: a trap below two callers, and a
call after it, fit. `MaxBytes` and `MaxSpace` bound what goes through a connection of
`SyncServer`: with room for 1, writes of 2 are short; a buffer of 2 meets 1 byte or the end.
The constraint of `sync` (`TalksOrPrepares`) keeps apart the guests that talk to
backends and those that use the environment, headers and a body; the two halves of the host's state
do not meet but in the status and the end of the request, which both kinds have, and the theorems
hold without it.

`Deployment` needs no bound of its own: `MaxPages` is the code's 100. Two applications are
enough for a key or a file to be shared, and `Replace` changes a file once. `MaxEntries`,
`MaxOthers` and `MaxUses` of `JitEnv` (2, 1, 1) bound the entries of each section, the
globals, exports and start functions together, and what one body refers to: two
imports and two functions tell an index that counts the imports from one that does not.

Deadlock is not checked: guests and requests end, the server waits in `poll` for
peers that may stay quiet, and a panic ends it.

## 4. Proofs

TLAPS checks, for every value of the constants, all invariants that the passing runs
check, the action properties `WriteAllOrError` and `TurnsEnd`, and the three refinements.

### `AsyncServerProofs`, `AsyncCountProofs`, `AsyncWakeupProofs`, `AsyncCallsProofs`

For any sets of sessions, tokens and sizes and any bounds, from the named assumptions of
`AsyncServer` only (the no-value is not a session or token, the slab has finitely many
entries, request lengths fit the buffer, sizes are naturals, 0 among them):

* `TypeCorrect`: `Spec => []TypeOK`
* `SlabAgrees`: `Spec => []SlabConsistent`
* `CallsAreAnswered`: `Spec => []HostCallProtocol`
* `ResponsesAreThere`: `Spec => []NoUnwrapPanic`
* `WritesAddUp`: `Spec => []WriteProgress`
* `WritesAreWhole`: `Spec => WriteAllOrError`
* `SlotsAddUp`: `Spec => []SlotAccounting`
* `EveryTurnEnds`: `Spec => TurnsEnd`
* `WakeupsAreKept`: `Spec => []NoLostWakeup`
* `NeverSleepsOnWork`: `Spec => []SleepsOnlyWhenIdle`
* `ServerImplementsCalls`: `Spec => ImplementsBlockingCalls`

None but the first is inductive. `HostCallProtocol` needs that a session without a guest
has none of its traces (`g.stack = "none" => g = NoGuest`), that sessions
do not share names with their dead predecessors, and that the event which answers a
connection finds the guest suspended. `NoUnwrapPanic` needs to know why the client's
interest is what it is (`ClientInterest`). `SlabConsistent` needs that a session which
outlives its response has a guest that returned, so that it never connects again. `IInv`
collects these: `TypeOK`, `RunningOK` (the thread runs the session at the current token),
`SlabInv`, `LocalInv` (`SessInv` of each living session) and that two values of `pc` are never reached.

Every action falls into one of four shapes, each with its lemma: it leaves sessions
and slab alone (`MovesOn`), changes the running session in place (`GoesOn`, from
`InPlace`), closes it (`Closes`), or adds a token (`EventAcceptOK`,
`GuestConnectsOK`). One lemma per action or group reduces it to its shape;
`StepOK` combines them, and `Inductive` is `Spec => []IInv`. `WriteAllOrError` is a
property of steps: only the thread that processes a `tcp_write` ends it (`EndsProcessed`),
and the two actions that do so answer what `IInv` says was taken, or -1 (`EndsWell`).

`SlotAccounting` is shown by counting, with `IInv` at hand: a token is added to slab and
streams together (`GuestConnects`), and taken from the slab by `Close`, with a
response or from a session that has no other token. This needs that one of several tokens is
only given up together with a response, which `IInv` has (a session without a guest has no backends).

`NoLostWakeup` needs what `IInv` leaves out, the sockets. `WInv` adds, for each stream of an
unanswered session, a relation between its socket, the bits that the session was told
(`Known`: its readiness, and what a call of size 0 took from it), and what the
events not yet dispatched tell: something to read, or an error, is known, told or
on an edge (`Readable`); room to write is too, or there is none and the kernel owes the
writer an edge (`Writable`); a session that waits for a bit is interested in it, and scheduled
if it has it (`Waits`); a decided connection has an event or an edge left (`Decided`). `LoopInv`
places the thread: events are left only while it dispatches them, which is why a turn of
a session may clear a bit after a would-block without forgetting an event of the same poll.
`Readable` and `Writable` are proved of sockets as values, once for each way in which a
system call or a peer changes one (`Polled`, `KnowsMore`, `CallSockets`, `PeerSockets`); the other
lemmas place the socket in the state.

`SleepsOnlyWhenIdle` needs more than `WInv`: that the queue is empty when the thread is back
in `poll` (`QueueInv`), and that a session which awaits its request is interested in its client, and
scheduled once it knows of something to read (`AskInv`; `WInv` has the same of a suspended call). A
turn of another session leaves it in the queue (`OthersAsk`); its own turn takes it out of
`WaitingForRequest`, closes it, or parses an incomplete request for ever. With the
queue and the events empty, all that `WInv` allows is an edge of the socket (`Sleep`).

`TurnsEnd` rests on `TurnInv`: the events of one poll are finitely many, because the sockets that
have an edge belong to sessions which the slab holds (a dropped session's sockets are
closed); a guest makes at most `MaxCalls` calls; and `front_readable` only comes back with the
readiness kept if it filled the buffer. The last is what tells a request that
is parsed for ever from one that is read on. `Less` reduces a step to the first component of
the rank that changes; the steps within a turn fall into those that end it (`LeavesTurns`, `ClosesTurn`)
and those that go on with less to ask or to write (`GoesOnTurns`). That `Rank` is a tuple of
naturals in each state reached is `RankOK`.

`ServerImplementsCalls` adds to `IInv` that a session's open sockets are those of its streams
(`OpenInv`): without it a new backend could take the place of a socket that is
still open, and a guest could name one that is not. Under it each action is one step of `BlockingCalls` or a
stutter. The steps of the event loop, the parking of a call, a write that would block and what a
lost server no longer does are stutters; the others have one lemma for each way in which they change
a session.

### `InterpreterProofs`

For any functions, imports, values and depth:

* `TypeCorrect`: `Spec => []TypeOK`
* `CallsAreChained`: `Spec => []CallChain`
* `OperandsAreThere`: `Spec => []OperandsMatch`
* `StackIsThere`: `Spec => []NeverEmpty`
* `TrapsImplementBlocking`: `Spec => ImplementsBlocking`

Its invariant says of all contexts what `CallChain` says (`Chained`), and of the innermost one
what it finds when it goes on: nothing yet while a result is awaited, and one
value exactly if its call returns one (`Fed`). Two lemmas rebuild it, for the context in
hand (`Runs`) and for a stack at rest (`Rests`); each action has one lemma for
the invariant and its step of `BlockingGuest` together.

### `SyncServerProofs`

For any backends, environment, sizes and bounds, and guests that use `serverless-api`
(`ApiAssumption`): `TypeCorrect`, `StreamsAreIntact` (`StreamsIntact`), `SocketsAreHeld`
(`SocketsHaveDescriptors`), `DbGetIsExact` (`DbGetExact`), `ReplyPrepared` (`ReplyIsPrepared`).
The invariant follows a descriptor: it is its connection's index in the slab
(`Descriptors`), an open socket has one and only one (`Owned`), and a host function that
blocks finds what it was called with when it goes on (`Blocked`; for `db::get` that is the size which the
first call returned).

### `DeploymentProofs`

For any configurations, files and modules: `TypeCorrect`, `RoutesServed`
(`RoutesAreServed`), `CallsAreWellTyped` (`CallsAreTyped`), `ApiGuestsAreLinked`
(`ApiGuestsLink`), and `Refinement`: `Spec => ImplementsRouter`. The invariant says that a loaded
application has all of its fields (`Loaded`), that the routes are the last ones of the
applications read so far (`Routed`), that the module kept for a file is what the file holds unless
it was replaced (`Backed`), and that a running guest was linked (`Linked`).

### `JitEnvProofs`

For modules of any size: `TypeCorrect`, `BodiesAreNamed` (`BodiesMatch`), `CallsAreLinked`
(`CallsLink`), `ImportsAreFirst` (`ImportsComeFirst`). The invariant orders the sections
(`Phases`: no function before the imports are over, no body before the functions are) and says that a
direct call was translated under the type of its function (`CallsTyped`), which
no later section can change.

### Only model-checked

`ReadResumes`, `WriteResumes` and `ConnectResumes`: liveness under fairness is out of the
prover's reach. Most of what they need is proved all the same: a session that can go on
is scheduled or has an edge, or waits for what it threw away (`NoLostWakeup`), every turn of the thread ends (`TurnsEnd`), and the
`poll` that follows reports every edge that a session waits for (`SleepsOnlyWhenIdle`). What is left to TLC
is fairness itself: that the thread takes a step when it can (`ENABLED`), and the
induction over `Rank` which turns steps that lower it into a turn that ends (an induction over
data).

## 5. Not modelled, and what is left

* Bodies of responses and requests byte by byte, HTTP parsing (`httparse`), the text of
  `log`.
* wasmi's validation and execution of a function body, and Cretonne's translation of
  instructions: external code, seen by the models through its results. The memories, tables and data
  that `JitEnv`'s callbacks record are read by nothing in this repository.
* `ModuleImportResolver for State` (`async/host.rs`), which nothing calls: `StateResolver`
  has its own copy.
* Timeouts: the code has none. A session waits for a silent peer as long as that peer is silent,
  by design, and no property says otherwise.
* Arguments and results of the host functions as values: `Deployment` has their types,
  `AsyncServer` and `SyncServer` what they do. Signatures and resolution of imports of
  `sync/host.rs`, a copy of those of `async/host.rs`.
* The sample guests, straight-line clients of the guest API, whose behaviours are among
  those of the free guest.
* One `accept` per event of the listener (`async/mod.rs:41`): `EventAccept` has the
  behaviour, so that of two connections which arrive together the second waits for a
  third; nothing in the repository says otherwise of it, and no property does.

What is left to do: one abstract specification of the host functions for both servers. `BlockingCalls`
is that of the asynchronous one; `SyncServer`'s calls block as they stand, but its `tcp_connect`
answers only a connection that was made, and its `tcp_read` only ends with 0 at the end of the stream or with an empty buffer.
