---------------------------- MODULE AsyncServer ----------------------------
(***************************************************************************)
(* The asynchronous server (src/async/mod.rs and src/async/session.rs):    *)
(* one thread that polls edge-triggered sockets, hands events to sessions  *)
(* through a slab of tokens, and runs the sessions marked ready.  A session *)
(* reads one HTTP request, runs a WebAssembly guest that may be suspended  *)
(* in tcp_connect, tcp_read or tcp_write, and writes the response.         *)
(*                                                                         *)
(* A step of the server is one system call, or the code between two of     *)
(* them; the peers of its sockets act between any two steps.  Bytes are    *)
(* counted, not named; the head of a request is one of a few kinds.        *)
(***************************************************************************)
EXTENDS Integers, Sequences, FiniteSets

CONSTANTS
  Sess,         \* names for the sessions alive at one time
  Index,        \* the slab's indices: Token(index + 1), and the guest's fds
  None,         \* no session, no index
  Kinds,        \* the kinds of request the clients send
  ReqLen,       \* bytes of a request head
  BufLen,       \* bytes of a session's buffer (8192 in the code)
  Sizes,        \* the sizes a guest passes to tcp_read and tcp_write
  MaxAvail,     \* bound: bytes of a backend waiting to be read
  MaxSpace,     \* bound: bytes the kernel takes before a backend drains them
  MaxBacklog,   \* bound: connections waiting to be accepted
  MaxCalls      \* bound: host calls a guest makes before it returns

AllKinds == {"app", "noroute", "malformed", "oversized", "uninstantiable"}

ASSUME SlabAssumption == None \notin Sess \cup Index
ASSUME CapacityAssumption == IsFiniteSet(Index)
ASSUME KindsAssumption == Kinds \subseteq AllKinds /\ None \notin AllKinds
ASSUME LengthAssumption == /\ ReqLen \in Nat \ {0}
                           /\ BufLen \in Nat
                           /\ ReqLen <= BufLen
ASSUME SizesAssumption == Sizes \subseteq Nat
ASSUME BoundsAssumption == /\ MaxAvail \in Nat
                           /\ MaxSpace \in Nat \ {0}
                           /\ MaxBacklog \in Nat
                           /\ MaxCalls \in Nat

VARIABLES
  \* The event loop.
  pc,           \* where the thread is
  cur,          \* the token taken from the ready queue
  batch,        \* socket events of this poll not dispatched yet
  acceptEvent,  \* the event of the SERVER token is among them
  ready,        \* the ready queue
  conns,        \* the slab: index -> session
  \* The sessions.
  session,      \* struct Session, without its instance
  guest,        \* its WasmInstance and what the guest has asked and been told
  kind,         \* the kind of request its client sends
  replies,      \* history: responses written to its client
  \* The kernel.
  sock,         \* the sockets a session owns, by slab index
  backlog,      \* connections waiting in the listener
  listenEdge    \* the listener has an event to report

loopVars == <<pc, cur, batch, acceptEvent, ready>>
sessVars == <<session, guest, kind, replies>>
netVars  == <<sock, backlog, listenEdge>>
vars     == <<loopVars, conns, sessVars, netVars>>

----------------------------------------------------------------------------
(* The data of a session.  missed is history: the bits that a call of      *)
(* size 0 took from the readiness and that no event has reported since.    *)

Bits == {"r", "w", "h"}       \* readable, writable, hup or error

Waiting          == [tag |-> "WaitingForRequest"]
Connecting(i)    == [tag |-> "WaitingForBackendConnect", fd |-> i]
Executing        == [tag |-> "Executing"]
TcpRead(i, n)    == [tag |-> "TcpRead", fd |-> i, size |-> n]
TcpWrite(i, n, k) == [tag |-> "TcpWrite", fd |-> i, size |-> n, written |-> k]

SessionState ==
  [tag : {"WaitingForRequest", "Executing"}]
    \cup [tag : {"WaitingForBackendConnect"}, fd : Index]
    \cup [tag : {"TcpRead"}, fd : Index, size : Sizes]
    \cup [tag : {"TcpWrite"}, fd : Index, size : Sizes, written : Nat]

Session ==
  [index : Index, state : SessionState, backends : SUBSET Index, buffered : Nat,
   readiness : [Index -> SUBSET Bits], interest : [Index -> SUBSET Bits],
   missed : [Index -> SUBSET Bits]]

Dropped == [index |-> None]   \* no slab entry holds the session

NewSession(i) ==
  [index |-> i, state |-> Waiting, backends |-> {}, buffered |-> 0,
   readiness |-> [j \in Index |-> {}],
   missed    |-> [j \in Index |-> {}],
   interest  |-> [j \in Index |-> IF j = i THEN {"r", "h"} ELSE {}]]

\* "none": no instance yet; "suspended": its stack of function contexts is not
\* empty; "returned": the stack is empty.
Guest ==
  [stack : {"none", "suspended", "returned"},
   call : {"none", "connect", "read", "write"},
   answers : Seq(Index \cup Int),
   prepared : SUBSET {"status", "body"},
   refused : BOOLEAN, taken : Nat, calls : Nat]

NoGuest == [stack |-> "none", call |-> "none", answers |-> <<>>,
            prepared |-> {}, refused |-> FALSE, taken |-> 0, calls |-> 0]

\* WasmInstance::add_function_result: the value goes on the innermost context.
Answered(g, v) ==
  IF g.stack = "suspended" THEN [g EXCEPT !.answers = Append(@, v)] ELSE g

Alive(s)   == session[s].index # None
Streams(s) == {session[s].index} \cup session[s].backends
Slots(s)   == {i \in Index : conns[i] = s}

----------------------------------------------------------------------------
(* The kernel's sockets.  "refused": the connection was never made;         *)
(* "reset": it was and the peer broke it; "dead": the error was delivered.  *)

Socket ==
  [phase : {"none", "connecting", "open", "refused", "reset", "dead"},
   avail : Nat, eof : BOOLEAN, space : 0..MaxSpace, full : BOOLEAN,
   edge : BOOLEAN]

NewSocket(p) ==
  [phase |-> p, avail |-> 0, eof |-> FALSE, space |-> MaxSpace, full |-> FALSE,
   edge |-> p = "open"]

NoSockets == [i \in Index |-> NewSocket("none")]

Failed(k) == k.phase \in {"refused", "reset"}
Broken(k) == Failed(k) \/ k.phase = "dead"

\* The level the kernel reports for a socket that has an edge pending.
Level(k) ==
  IF k.phase \in {"none", "connecting"} THEN {}
  ELSE {b \in Bits : \/ Broken(k)
                     \/ b = "r" /\ (k.avail > 0 \/ k.eof)
                     \/ b = "w" /\ k.space > 0
                     \/ b = "h" /\ k.eof}

\* Mutant: a backend's socket is not registered with poll.
ReportedClientsOnly(s, i) ==
  sock[s][i].edge /\ Level(sock[s][i]) # {} /\ i = session[s].index

Reported(s, i) == sock[s][i].edge /\ Level(sock[s][i]) # {}

SocketEvent == [sess : Sess, index : Index, mask : SUBSET Bits]

----------------------------------------------------------------------------
Panics == {"panic_connecting", "panic_stack", "panic_unwrap", "panic_guest",
           "panic_instantiate", "panic_connect"}

Panicked == pc \in Panics

Init ==
  /\ pc = "poll" /\ cur = None /\ batch = {} /\ acceptEvent = FALSE /\ ready = <<>>
  /\ conns = [i \in Index |-> None]
  /\ session = [s \in Sess |-> Dropped]
  /\ guest = [s \in Sess |-> NoGuest]
  /\ kind = [s \in Sess |-> None]
  /\ replies = [s \in Sess |-> 0]
  /\ sock = [s \in Sess |-> NoSockets]
  /\ backlog = 0 /\ listenEdge = FALSE

----------------------------------------------------------------------------
(* The event loop.                                                         *)

\* poll.poll(&mut events, None): every edge that is pending, with its level.
Poll ==
  /\ pc = "poll"
  /\ listenEdge \/ \E s \in Sess, i \in Index : Reported(s, i)
  /\ batch' = {[sess |-> x[1], index |-> x[2], mask |-> Level(sock[x[1]][x[2]])] :
                 x \in {y \in Sess \X Index : Reported(y[1], y[2])}}
  /\ acceptEvent' = listenEdge
  /\ listenEdge' = FALSE
  /\ sock' = [s \in Sess |-> [i \in Index |-> [sock[s][i] EXCEPT !.edge = FALSE]]]
  /\ pc' = "events"
  /\ UNCHANGED <<cur, ready, conns, sessVars, backlog>>

\* One accept() per event of the listener, however many connections wait.
EventAccept ==
  /\ pc = "events" /\ acceptEvent
  /\ acceptEvent' = FALSE
  /\ backlog' = IF backlog > 0 THEN backlog - 1 ELSE 0
  /\ IF backlog > 0 /\ \E i \in Index : conns[i] = None
       THEN \E i \in Index, s \in Sess, k \in Kinds :
              /\ conns[i] = None /\ ~Alive(s)
              /\ conns' = [conns EXCEPT ![i] = s]
              /\ session' = [session EXCEPT ![s] = NewSession(i)]
              /\ kind' = [kind EXCEPT ![s] = k]
              /\ sock' = [sock EXCEPT ![s] = [NoSockets EXCEPT ![i] = NewSocket("open")]]
       ELSE UNCHANGED <<conns, session, kind, sock>>
  /\ UNCHANGED <<pc, cur, batch, ready, guest, replies, listenEdge>>

\* Session::process_events(token, events) for the session s that the slab holds
\* at token: the session, what its guest is told, and whether it is ready.
ConnectsOn(s, i) == session[s].state = Connecting(i) /\ i # session[s].index

\* Mutant: the session stays in WaitingForBackendConnect.
NotedStillConnecting(s, i, mask) ==
  [session[s] EXCEPT !.readiness[i] = @ \cup mask, !.missed[i] = @ \ mask]

Noted(s, i, mask) ==
  [session[s] EXCEPT
     !.readiness[i] = @ \cup mask,
     !.missed[i] = @ \ mask,
     !.state = IF ConnectsOn(s, i) THEN Executing ELSE @]

Wakes(t, i) == t.readiness[i] \cap t.interest[i] # {}

Event(e) ==
  /\ pc = "events"
  /\ batch' = batch \ {e}
  /\ LET i == e.index
         s == conns[i]
     IN IF s = None \/ (s # None /\ i \notin Streams(s))
          THEN UNCHANGED <<session, guest, ready>>
          ELSE /\ session' = [session EXCEPT ![s] = Noted(s, i, e.mask)]
               /\ guest' = [guest EXCEPT ![s] =
                              IF ConnectsOn(s, i) THEN Answered(@, i) ELSE @]
               /\ ready' = IF Wakes(Noted(s, i, e.mask), i) THEN Append(ready, i) ELSE ready
  /\ UNCHANGED <<pc, cur, acceptEvent, conns, kind, replies, netVars>>

EndEvents ==
  /\ pc = "events" /\ batch = {} /\ ~acceptEvent
  /\ pc' = "drain"
  /\ UNCHANGED <<cur, batch, acceptEvent, ready, conns, sessVars, netVars>>

\* The next ready token; one that the slab no longer holds is skipped.
Drain ==
  /\ pc = "drain" /\ ready # <<>>
  /\ ready' = Tail(ready)
  /\ IF conns[Head(ready)] = None
       THEN UNCHANGED <<pc, cur>>
       ELSE pc' = "execute" /\ cur' = Head(ready)
  /\ UNCHANGED <<batch, acceptEvent, conns, sessVars, netVars>>

\* Mutant: the thread polls again with tokens left in the queue.
EndDrainUnfinished ==
  /\ pc = "drain"
  /\ pc' = "poll"
  /\ UNCHANGED <<cur, batch, acceptEvent, ready, conns, sessVars, netVars>>

EndDrain ==
  /\ pc = "drain" /\ ready = <<>>
  /\ pc' = "poll"
  /\ UNCHANGED <<cur, batch, acceptEvent, ready, conns, sessVars, netVars>>

----------------------------------------------------------------------------
(* Session::execute: one turn of its loop is front_readable, front_writable *)
(* and process, each when it applies; Continue starts the next turn.        *)

Me == conns[cur]
My == session[Me]
MyGuest == guest[Me]

Front == My.readiness[My.index] \cap My.interest[My.index]

AtFrontReadable == pc = "execute" /\ "r" \in Front
AtFrontWritable == \/ pc = "execute" /\ "r" \notin Front /\ "w" \in Front
                   \/ pc = "writable"
AtProcess       == \/ pc = "execute" /\ Front \cap {"r", "w"} = {}
                   \/ pc = "process"
Processing(tag) == AtProcess /\ My.state.tag = tag

Panic(site) ==
  /\ pc' = site
  /\ UNCHANGED <<cur, batch, acceptEvent, ready, conns, sessVars, netVars>>

\* ExecutionResult::Close, once n responses are written: the main loop removes
\* the token it took from the queue.  The session, left as t, is dropped with
\* its last slab entry, and only then are its sockets closed.
Close(t, n) ==
  LET held == Slots(Me) \ {cur} IN
  /\ pc' = "drain"
  /\ conns' = [conns EXCEPT ![cur] = None]
  /\ session' = [session EXCEPT ![Me] = IF held = {} THEN Dropped ELSE t]
  /\ guest' = [guest EXCEPT ![Me] = IF held = {} THEN NoGuest ELSE @]
  /\ replies' = [replies EXCEPT ![Me] = IF held = {} THEN 0 ELSE @ + n]
  /\ kind' = [kind EXCEPT ![Me] = IF held = {} THEN None ELSE @]
  /\ sock' = [sock EXCEPT ![Me] = IF held = {} THEN NoSockets ELSE @]
  /\ cur' = None
  /\ UNCHANGED <<batch, acceptEvent, ready, backlog, listenEdge>>

\* Reads until the socket blocks, ends, or the buffer is full.
FrontReadable ==
  /\ AtFrontReadable
  /\ LET k    == sock[Me][My.index]
         room == BufLen - My.buffered
     IN IF My.state # Waiting \/ (k.avail < room /\ (k.eof \/ Broken(k)))
          THEN Close(My, 0)
          ELSE /\ pc' = IF "w" \in Front THEN "writable" ELSE "process"
               /\ session' = [session EXCEPT ![Me] = [My EXCEPT
                    !.buffered = @ + (IF k.avail < room THEN k.avail ELSE room),
                    !.readiness[My.index] = IF k.avail < room THEN @ \ {"r"} ELSE @]]
               /\ sock' = [sock EXCEPT
                    ![Me][My.index].avail = IF k.avail < room THEN 0 ELSE @ - room]
               /\ UNCHANGED <<cur, batch, acceptEvent, ready, conns, guest, kind,
                              replies, backlog, listenEdge>>

\* Mutant: the session is not closed after its response.
FrontWritableStays ==
  /\ AtFrontWritable
  /\ pc' = "drain" /\ cur' = None
  /\ replies' = [replies EXCEPT ![Me] = 1]
  /\ UNCHANGED <<batch, acceptEvent, ready, conns, session, guest, kind, netVars>>

\* The response is written from status, reason and body, each unwrapped; the
\* results of the writes are not looked at.
FrontWritable ==
  /\ AtFrontWritable
  /\ IF MyGuest.stack = "none" \/ MyGuest.prepared # {"status", "body"}
       THEN Panic("panic_unwrap")
       ELSE Close(My, 1)

----------------------------------------------------------------------------
(* Session::process, by session state.                                      *)

\* WaitingForRequest: the head is malformed, incomplete or complete.
Length(k) == IF k = "oversized" THEN BufLen + 1 ELSE ReqLen

ParseError ==
  /\ Processing("WaitingForRequest")
  /\ kind[Me] = "malformed" /\ My.buffered > 0
  /\ Close(My, 0)

\* Partial: Continue, and execute starts over with nothing new to read.
ParsePartial ==
  /\ Processing("WaitingForRequest")
  /\ My.buffered < Length(kind[Me])
  /\ pc' = "execute"
  /\ UNCHANGED <<cur, batch, acceptEvent, ready, conns, sessVars, netVars>>

ParseComplete ==
  /\ Processing("WaitingForRequest")
  /\ kind[Me] # "malformed" /\ My.buffered >= Length(kind[Me])
  /\ session' = [session EXCEPT
       ![Me] = [My EXCEPT !.state = Executing, !.interest[My.index] = @ \ {"r"}]]
  /\ pc' = "execute"
  /\ UNCHANGED <<cur, batch, acceptEvent, ready, conns, guest, kind, replies, netVars>>

\* Executing without an instance: create_instance, which writes the 404 of an
\* unknown route itself, and panics when the module cannot be instantiated.
NoRoute ==
  /\ Processing("Executing") /\ MyGuest.stack = "none" /\ kind[Me] = "noroute"
  /\ Close([My EXCEPT !.interest[My.index] = {}], 1)

InstantiatePanic ==
  /\ Processing("Executing") /\ MyGuest.stack = "none" /\ kind[Me] = "uninstantiable"
  /\ Panic("panic_instantiate")

CreateInstance ==
  /\ Processing("Executing") /\ MyGuest.stack = "none"
  /\ kind[Me] \notin {"noroute", "uninstantiable"}
  /\ guest' = [guest EXCEPT ![Me].stack = "suspended"]
  /\ pc' = "process"
  /\ UNCHANGED <<cur, batch, acceptEvent, ready, conns, session, kind, replies, netVars>>

\* Session::resume: the interpreter pops the innermost function context.
ResumeEmpty ==
  /\ Processing("Executing") /\ MyGuest.stack = "returned"
  /\ Panic("panic_stack")

\* The guest runs with what it was answered until it calls the host again,
\* returns or traps.  Without an answer to its last call it goes on with
\* whatever its value stack holds, or traps.
GuestRuns == Processing("Executing") /\ MyGuest.stack = "suspended"

GuestCalls(call) == GuestRuns /\ MyGuest.calls < MaxCalls

Asking(g, call) ==
  [g EXCEPT !.call = call, !.answers = <<>>, !.taken = 0, !.calls = @ + 1]

GuestFault == GuestRuns /\ Panic("panic_guest")

\* tcp_connect: ConnectBackend goes to the main loop, which takes a slab entry
\* and connects, or finds the slab full and only says so.
AddBackend(t, i) ==
  [t EXCEPT !.backends = @ \cup {i}, !.state = Connecting(i),
            !.readiness[i] = {}, !.missed[i] = {}, !.interest[i] = {"w", "h"}]

\* Mutant: the backend's token is not entered in the slab.
GuestConnectsUnlisted ==
  /\ GuestCalls("connect")
  /\ \E i \in Index :
       /\ conns[i] = None
       /\ session' = [session EXCEPT ![Me] = AddBackend(@, i)]
       /\ sock' = [sock EXCEPT ![Me][i] = NewSocket("connecting")]
  /\ guest' = [guest EXCEPT ![Me] = Asking(@, "connect")]
  /\ pc' = "drain" /\ cur' = None
  /\ UNCHANGED <<batch, acceptEvent, ready, conns, kind, replies, backlog, listenEdge>>

GuestConnects ==
  /\ GuestCalls("connect")
  /\ \E i \in Index :
       /\ conns[i] = None
       /\ conns' = [conns EXCEPT ![i] = Me]
       /\ session' = [session EXCEPT ![Me] = AddBackend(@, i)]
       /\ sock' = [sock EXCEPT ![Me][i] = NewSocket("connecting")]
  /\ guest' = [guest EXCEPT ![Me] = Asking(@, "connect")]
  /\ pc' = "drain" /\ cur' = None
  /\ UNCHANGED <<batch, acceptEvent, ready, kind, replies, backlog, listenEdge>>

ConnectPanic ==
  /\ GuestCalls("connect")
  /\ \E i \in Index : conns[i] = None
  /\ Panic("panic_connect")

ConnectRefused ==
  /\ GuestCalls("connect")
  /\ \A i \in Index : conns[i] # None
  /\ guest' = [guest EXCEPT ![Me] = [Asking(@, "connect") EXCEPT !.refused = TRUE]]
  /\ pc' = "drain" /\ cur' = None
  /\ UNCHANGED <<batch, acceptEvent, ready, conns, session, kind, replies, netVars>>

\* tcp_read and tcp_write on a descriptor the guest was given.
\* Mutant: reading is not added to the backend's interest.
GuestReadsUninterested ==
  /\ GuestCalls("read")
  /\ \E i \in My.backends, n \in Sizes :
       session' = [session EXCEPT ![Me].state = TcpRead(i, n)]
  /\ guest' = [guest EXCEPT ![Me] = Asking(@, "read")]
  /\ pc' = "execute"
  /\ UNCHANGED <<cur, batch, acceptEvent, ready, conns, kind, replies, netVars>>

GuestReads ==
  /\ GuestCalls("read")
  /\ \E i \in My.backends, n \in Sizes :
       session' = [session EXCEPT
         ![Me] = [My EXCEPT !.state = TcpRead(i, n), !.interest[i] = @ \cup {"r"}]]
  /\ guest' = [guest EXCEPT ![Me] = Asking(@, "read")]
  /\ pc' = "execute"
  /\ UNCHANGED <<cur, batch, acceptEvent, ready, conns, kind, replies, netVars>>

\* Mutant: readiness from before the call is forgotten.
GuestWritesAfresh ==
  /\ GuestCalls("write")
  /\ \E i \in My.backends, n \in Sizes :
       session' = [session EXCEPT
         ![Me] = [My EXCEPT !.state = TcpWrite(i, n, 0), !.readiness[i] = {}]]
  /\ guest' = [guest EXCEPT ![Me] = Asking(@, "write")]
  /\ pc' = "execute"
  /\ UNCHANGED <<cur, batch, acceptEvent, ready, conns, kind, replies, netVars>>

GuestWrites ==
  /\ GuestCalls("write")
  /\ \E i \in My.backends, n \in Sizes :
       session' = [session EXCEPT
         ![Me] = [My EXCEPT !.state = TcpWrite(i, n, 0), !.interest[i] = @ \cup {"w"}]]
  /\ guest' = [guest EXCEPT ![Me] = Asking(@, "write")]
  /\ pc' = "execute"
  /\ UNCHANGED <<cur, batch, acceptEvent, ready, conns, kind, replies, netVars>>

\* Mutant: a status line is enough to write the response.
GuestReturnsStatusOnly ==
  /\ GuestRuns
  /\ \E p \in SUBSET {"status", "body"} :
       /\ guest' = [guest EXCEPT ![Me] = [NoGuest EXCEPT !.stack = "returned", !.prepared = p]]
       /\ session' = [session EXCEPT ![Me].interest[My.index] =
                        IF "status" \in p THEN @ \cup {"w"} ELSE @]
  /\ pc' = "execute"
  /\ UNCHANGED <<cur, batch, acceptEvent, ready, conns, kind, replies, netVars>>

\* The guest returns; the client is only written to when it has prepared both a
\* status line and a body.
GuestReturns ==
  /\ GuestRuns
  /\ \E p \in SUBSET {"status", "body"} :
       /\ guest' = [guest EXCEPT ![Me] = [NoGuest EXCEPT !.stack = "returned", !.prepared = p]]
       /\ session' = [session EXCEPT ![Me] = [My EXCEPT
            !.interest[My.index] = IF p = {"status", "body"} THEN @ \cup {"w"} ELSE @]]
  /\ pc' = "execute"
  /\ UNCHANGED <<cur, batch, acceptEvent, ready, conns, kind, replies, netVars>>

----------------------------------------------------------------------------
(* A suspended tcp_read or tcp_write, one system call at a time.            *)

Fd == My.state.fd
Peer == sock[Me][Fd]
Usable == My.readiness[Fd] \cap My.interest[Fd]

Park(tag, bit) ==
  /\ Processing(tag) /\ bit \notin Usable
  /\ pc' = "drain" /\ cur' = None
  /\ UNCHANGED <<batch, acceptEvent, ready, conns, sessVars, netVars>>

\* The call is answered with v, the guest otherwise as g, the socket left as k,
\* the bits lost cleared.
Answer(v, g, k, lost) ==
  /\ session' = [session EXCEPT
       ![Me] = [My EXCEPT !.state = Executing, !.readiness[Fd] = @ \ lost]]
  /\ guest' = [guest EXCEPT ![Me] = Answered(g, v)]
  /\ sock' = [sock EXCEPT ![Me][Fd] = k]
  /\ pc' = "execute"
  /\ UNCHANGED <<cur, batch, acceptEvent, ready, conns, kind, replies, backlog, listenEdge>>

ReadParks == Park("TcpRead", "r")

\* The first bytes are the answer, however few: the loop compares what it has
\* read with the length of that read, which hides the size asked for.
\* Mutant: the answer is the size asked for.
ReadSomeAsAsked ==
  /\ Processing("TcpRead") /\ "r" \in Usable
  /\ Peer.avail > 0
  /\ Answer(My.state.size, MyGuest, [Peer EXCEPT !.avail = @ - My.state.size], {})

ReadSome ==
  /\ Processing("TcpRead") /\ "r" \in Usable
  /\ Peer.avail > 0 /\ My.state.size > 0
  /\ LET n == IF Peer.avail < My.state.size THEN Peer.avail ELSE My.state.size
     IN Answer(n, MyGuest, [Peer EXCEPT !.avail = @ - n], {})

\* An error that was not delivered yet answers -1; the end of the stream and a
\* read that would block both answer 0.
ReadError ==
  /\ Processing("TcpRead") /\ "r" \in Usable
  /\ Peer.avail = 0 /\ Failed(Peer)
  /\ Answer(-1, MyGuest, [Peer EXCEPT !.phase = "dead"], {})

ReadNothing ==
  /\ Processing("TcpRead") /\ "r" \in Usable
  /\ Peer.avail = 0 /\ ~Failed(Peer)
  /\ Answer(0, MyGuest, Peer, {"r"})

\* A call of size 0 that the kernel answers with Ok(0) is answered like the end of
\* a stream: its bit is removed from the readiness, whatever the socket holds.
NothingAsked(tag, bit) ==
  /\ Processing(tag) /\ bit \in Usable /\ My.state.size = 0
  /\ session' = [session EXCEPT
       ![Me] = [My EXCEPT !.state = Executing, !.readiness[Fd] = @ \ {bit},
                          !.missed[Fd] = @ \cup {bit}]]
  /\ guest' = [guest EXCEPT ![Me] = Answered(@, 0)]
  /\ pc' = "execute"
  /\ UNCHANGED <<cur, batch, acceptEvent, ready, conns, kind, replies, netVars>>

ReadZero == NothingAsked("TcpRead", "r") /\ Peer.avail > 0

WriteParks == Park("TcpWrite", "w")

\* The kernel takes what it has room for; the rest is written in turn.
WriteSome ==
  /\ Processing("TcpWrite") /\ "w" \in Usable
  /\ ~Broken(Peer) /\ Peer.phase = "open" /\ Peer.space > 0 /\ My.state.size > 0
  /\ LET left == My.state.size - My.state.written
         n    == IF Peer.space < left THEN Peer.space ELSE left
         k    == [Peer EXCEPT !.space = @ - n]
         g    == [MyGuest EXCEPT !.taken = @ + n]
     IN IF n = left
          THEN Answer(My.state.size, g, k, {})
          ELSE /\ session' = [session EXCEPT ![Me] = [My EXCEPT !.state.written = @ + n]]
               /\ guest' = [guest EXCEPT ![Me] = g]
               /\ sock' = [sock EXCEPT ![Me][Fd] = k]
               /\ pc' = "process"
               /\ UNCHANGED <<cur, batch, acceptEvent, ready, conns, kind, replies,
                              backlog, listenEdge>>

\* Mutant: what was written is forgotten.
WriteBlocksForgets ==
  /\ Processing("TcpWrite") /\ "w" \in Usable
  /\ ~Broken(Peer) /\ (Peer.phase # "open" \/ Peer.space = 0)
  /\ session' = [session EXCEPT ![Me].readiness[Fd] = @ \ {"w"}, ![Me].state.written = 0]
  /\ sock' = [sock EXCEPT ![Me][Fd].full = TRUE]
  /\ pc' = "execute"
  /\ UNCHANGED <<cur, batch, acceptEvent, ready, conns, guest, kind, replies,
                 backlog, listenEdge>>

\* Mutant: a would-block ends the call, as it does for tcp_read.
WriteBlocksAnswers ==
  /\ Processing("TcpWrite") /\ "w" \in Usable
  /\ ~Broken(Peer) /\ (Peer.phase # "open" \/ Peer.space = 0)
  /\ Answer(My.state.written, MyGuest, [Peer EXCEPT !.full = TRUE], {"w"})

\* Mutant: the readiness that led to a would-block is kept.
WriteBlocksKeepsReady ==
  /\ Processing("TcpWrite") /\ "w" \in Usable
  /\ ~Broken(Peer) /\ (Peer.phase # "open" \/ Peer.space = 0)
  /\ sock' = [sock EXCEPT ![Me][Fd].full = TRUE]
  /\ pc' = "execute"
  /\ UNCHANGED <<cur, batch, acceptEvent, ready, conns, session, guest, kind, replies,
                 backlog, listenEdge>>

\* WouldBlock: what was written is kept, and execute parks the session.
WriteBlocks ==
  /\ Processing("TcpWrite") /\ "w" \in Usable
  /\ ~Broken(Peer) /\ (Peer.phase # "open" \/ (Peer.space = 0 /\ My.state.size > 0))
  /\ session' = [session EXCEPT ![Me] = [My EXCEPT !.readiness[Fd] = @ \ {"w"}]]
  /\ sock' = [sock EXCEPT ![Me][Fd].full = TRUE]
  /\ pc' = "execute"
  /\ UNCHANGED <<cur, batch, acceptEvent, ready, conns, guest, kind, replies,
                 backlog, listenEdge>>

WriteError ==
  /\ Processing("TcpWrite") /\ "w" \in Usable
  /\ Broken(Peer)
  /\ Answer(-1, MyGuest, [Peer EXCEPT !.phase = "dead"], {})

WriteZero == NothingAsked("TcpWrite", "w") /\ Peer.phase = "open"

\* WaitingForBackendConnect: the session should not have been executed.
ExecutedWhileConnecting ==
  /\ Processing("WaitingForBackendConnect")
  /\ Panic("panic_connecting")

Server ==
  \/ Poll \/ EventAccept \/ (\E e \in batch : Event(e)) \/ EndEvents \/ Drain \/ EndDrain
  \/ FrontReadable \/ FrontWritable
  \/ ParseError \/ ParsePartial \/ ParseComplete
  \/ NoRoute \/ InstantiatePanic \/ CreateInstance \/ ResumeEmpty
  \/ GuestFault \/ GuestConnects \/ ConnectPanic \/ ConnectRefused
  \/ GuestReads \/ GuestWrites \/ GuestReturns
  \/ ReadParks \/ ReadSome \/ ReadError \/ ReadNothing \/ ReadZero
  \/ WriteParks \/ WriteSome \/ WriteBlocks \/ WriteError \/ WriteZero
  \/ ExecutedWhileConnecting

----------------------------------------------------------------------------
(* The peers: clients and backends, as the kernel shows them.               *)

\* Bound: every connection will find a name for its session.
ClientConnects ==
  /\ ~Panicked /\ backlog < MaxBacklog
  /\ backlog + Cardinality({s \in Sess : Alive(s)}) < Cardinality(Sess)
  /\ backlog' = backlog + 1
  /\ listenEdge' = TRUE
  /\ UNCHANGED <<loopVars, conns, sessVars, sock>>

\* The peer of a live socket changes it into k.
Changes(s, i, k) ==
  /\ sock' = [sock EXCEPT ![s][i] = k]
  /\ UNCHANGED <<loopVars, conns, sessVars, backlog, listenEdge>>

Live(s, i) == ~Panicked /\ sock[s][i].phase = "open"

\* A client sends its request in pieces; a backend sends what it likes.
Unsent(s, i) ==
  IF i = session[s].index
    THEN IF session[s].state = Waiting
           THEN Length(kind[s]) - session[s].buffered - sock[s][i].avail ELSE 0
    ELSE MaxAvail - sock[s][i].avail

PeerSends(s, i) ==
  /\ Live(s, i) /\ ~sock[s][i].eof
  /\ \E n \in 1..Unsent(s, i) :
       Changes(s, i, [sock[s][i] EXCEPT !.avail = @ + n, !.edge = TRUE])

PeerCloses(s, i) ==
  /\ Live(s, i) /\ ~sock[s][i].eof
  /\ Changes(s, i, [sock[s][i] EXCEPT !.eof = TRUE, !.edge = TRUE])

PeerResets(s, i) ==
  /\ Live(s, i)
  /\ Changes(s, i, [sock[s][i] EXCEPT !.phase = "reset", !.edge = TRUE])

\* Room in the send buffer is reported to a writer that found none.
PeerDrains(s, i) ==
  /\ Live(s, i) /\ sock[s][i].space < MaxSpace
  /\ Changes(s, i, [sock[s][i] EXCEPT !.space = MaxSpace, !.full = FALSE,
                                      !.edge = @ \/ sock[s][i].full])

ConnectDone(s, i) ==
  /\ ~Panicked /\ sock[s][i].phase = "connecting"
  /\ Changes(s, i, [sock[s][i] EXCEPT !.phase = "open", !.full = FALSE, !.edge = TRUE])

ConnectFails(s, i) ==
  /\ ~Panicked /\ sock[s][i].phase = "connecting"
  /\ Changes(s, i, [sock[s][i] EXCEPT !.phase = "refused", !.full = FALSE, !.edge = TRUE])

Peers ==
  \/ ClientConnects
  \/ \E s \in Sess, i \in Index :
       \/ PeerSends(s, i) \/ PeerCloses(s, i) \/ PeerResets(s, i)
       \/ PeerDrains(s, i) \/ ConnectDone(s, i) \/ ConnectFails(s, i)

Next == Server \/ Peers

Spec == Init /\ [][Next]_vars

\* The thread runs: as long as it can take a step that changes something, it takes
\* one.  Nothing is assumed of the peers.
Fairness == WF_vars(Server)

----------------------------------------------------------------------------
(* Correctness.                                                            *)

PCs == {"poll", "events", "drain", "execute", "writable", "process"} \cup Panics

TypeOK ==
  /\ pc \in PCs
  /\ cur \in Index \cup {None}
  /\ batch \subseteq SocketEvent
  /\ acceptEvent \in BOOLEAN
  /\ ready \in Seq(Index)
  /\ conns \in [Index -> Sess \cup {None}]
  /\ session \in [Sess -> Session \cup {Dropped}]
  /\ guest \in [Sess -> Guest]
  /\ kind \in [Sess -> Kinds \cup {None}]
  /\ replies \in [Sess -> Nat]
  /\ sock \in [Sess -> [Index -> Socket]]
  /\ backlog \in Nat
  /\ listenEdge \in BOOLEAN

\* The slab and the sessions agree: an entry of the slab leads to a session that
\* has a stream under that token, and until a session has been answered every
\* one of its streams is reachable through the slab.
SlabConsistent ==
  /\ \A i \in Index : conns[i] # None => Alive(conns[i]) /\ i \in Streams(conns[i])
  /\ \A s \in Sess : Alive(s) =>
       /\ Slots(s) # {}
       /\ session[s].index \notin session[s].backends
       /\ replies[s] = 0 => Slots(s) = Streams(s)

\* Each response gives up exactly one entry of the slab, whichever token was
\* ready: a session with backends outlives its response (and can be made to write
\* it again), a session without them never does.
SlotAccounting ==
  \A s \in Sess : Alive(s) =>
    Cardinality(Slots(s)) + replies[s] = Cardinality(Streams(s))

\* A host call is suspended, answered once and resumed, in that order, with the
\* session's state, its interpreter stack and its sockets in step; the one call
\* resumed without an answer is a tcp_connect that found the slab full.
Pending(t, g, call) ==
  /\ g.stack = "suspended" /\ g.call = call /\ g.answers = <<>>
  /\ t.state.fd \in t.backends

CallProtocol(t, g) ==
  /\ t.state.tag = "WaitingForRequest" => g.stack = "none"
  /\ t.state.tag = "WaitingForBackendConnect" => Pending(t, g, "connect")
  /\ t.state.tag = "TcpRead" => Pending(t, g, "read")
  /\ t.state.tag = "TcpWrite" => Pending(t, g, "write")
  /\ t.state.tag = "Executing" /\ g.call # "none" =>
       \/ Len(g.answers) = 1
       \/ g.call = "connect" /\ g.refused /\ g.answers = <<>>

HostCallProtocol ==
  \A s \in Sess : Alive(s) => CallProtocol(session[s], guest[s])

\* The client's interest follows the life of the request, so that no unwrap of
\* front_writable fails and the Close of front_readable outside of
\* WaitingForRequest is dead code.
NoUnwrapPanic ==
  /\ pc # "panic_unwrap"
  /\ AtFrontReadable => My.state = Waiting

\* What a write remembers across would-blocks is what the kernel took, so that no
\* byte is sent twice or skipped ...
WriteProgress ==
  \A s \in Sess : Alive(s) /\ session[s].state.tag = "TcpWrite" =>
    /\ session[s].state.written = guest[s].taken
    /\ \/ guest[s].taken < session[s].state.size
       \/ guest[s].taken = 0 /\ session[s].state.size = 0

\* ... and tcp_write answers the whole size once the kernel took all of it, or -1.
WriteAllOrError ==
  [][\A s \in Sess :
       /\ Alive(s) /\ session[s].state.tag = "TcpWrite"
       /\ session'[s] # session[s] /\ session'[s].index # None
       /\ session'[s].state = Executing
       => LET n == guest'[s].answers[1]
          IN n = -1 \/ (n = session[s].state.size /\ guest'[s].taken = n)]_vars

\* Edge-triggered readiness is never lost: what a session waits for, once the
\* kernel has it, is in the session's readiness or on its way there, and a
\* session that can go on is in the ready queue or running.
OnItsWay(s, i, b) ==
  \/ b \in session[s].readiness[i]
  \/ sock[s][i].edge
  \/ \E e \in batch : e.sess = s /\ e.index = i /\ b \in e.mask

\* ... unless the guest has thrown it away with a call of size 0, and then only
\* until the next event that reports it.
AccountedFor(s, i, b) == OnItsWay(s, i, b) \/ b \in session[s].missed[i]

Scheduled(s) ==
  \/ cur # None /\ conns[cur] = s
  \/ \E n \in 1..Len(ready) : conns[ready[n]] = s

NoLostWakeup ==
  \A s \in Sess : Alive(s) /\ replies[s] = 0 /\ ~Panicked =>
    LET st == session[s].state
        c  == session[s].index
    IN /\ st = Waiting /\ sock[s][c].avail > 0 => OnItsWay(s, c, "r")
       /\ st.tag = "TcpRead" =>
            /\ sock[s][st.fd].avail > 0 \/ Failed(sock[s][st.fd]) => AccountedFor(s, st.fd, "r")
            /\ "r" \in session[s].readiness[st.fd] => Scheduled(s)
       /\ st.tag = "TcpWrite" =>
            /\ "w" \in Level(sock[s][st.fd]) => AccountedFor(s, st.fd, "w")
            /\ "w" \in session[s].readiness[st.fd] => Scheduled(s)
       /\ st.tag = "WaitingForBackendConnect" /\ sock[s][st.fd].phase # "connecting" =>
            sock[s][st.fd].edge \/ \E e \in batch : e.sess = s /\ e.index = st.fd

\* The thread never sleeps on work: when it enters poll, whatever a session waits
\* for and its socket has is an edge that poll reports at once, a request's first
\* bytes and a decided connection included; what a call of size 0 has thrown away
\* is not waited for.
Work(s) ==
  LET t == session[s]
  IN {i \in Streams(s) :
        \/ t.state = Waiting /\ i = t.index /\ sock[s][i].avail > 0
        \/ t.state.tag = "TcpRead" /\ i = t.state.fd
             /\ (sock[s][i].avail > 0 \/ Failed(sock[s][i])) /\ "r" \notin t.missed[i]
        \/ t.state.tag = "TcpWrite" /\ i = t.state.fd
             /\ "w" \in Level(sock[s][i]) /\ "w" \notin t.missed[i]
        \/ t.state = Connecting(i) /\ sock[s][i].phase # "connecting"}

SleepsOnlyWhenIdle ==
  pc = "poll" =>
    \A s \in Sess : Alive(s) /\ replies[s] = 0 => \A i \in Work(s) : Reported(s, i)

\* What the guest is in, from the session's state and the state of its stack.
CallOf(t, g) ==
  LET fd == t.state.fd IN
  IF g.stack # "suspended" THEN [op |-> g.stack]
  ELSE CASE t.state.tag = "Executing" -> [op |-> "run", given |-> g.answers]
         [] t.state.tag = "WaitingForBackendConnect" -> [op |-> "connect", fd |-> fd]
         [] t.state.tag = "TcpRead" -> [op |-> "read", fd |-> fd, size |-> t.state.size]
         [] t.state.tag = "TcpWrite" ->
              [op |-> "write", fd |-> fd, size |-> t.state.size, taken |-> g.taken]

Seen(k) == [phase |-> k.phase, avail |-> k.avail, eof |-> k.eof, space |-> k.space]

Clients   == [s \in Sess |-> session[s].index]
CallsMade == [s \in Sess |-> CallOf(session[s], guest[s])]
Sockets   == [s \in Sess |-> [i \in Index |-> Seen(sock[s][i])]]

Calls == INSTANCE BlockingCalls WITH
  client <- Clients, call <- CallsMade, sock <- Sockets

\* The sessions, the slab, readiness and the event loop together give each guest
\* blocking calls on sockets of its own (BlockingCalls): whatever the events and the
\* other sessions do in between, a call is answered by what the kernel did with its
\* socket, and a guest is never dropped in a call.
ImplementsBlockingCalls == Calls!Spec

\* The server is lost to everyone: its one thread parses an incomplete request
\* again and again, and never polls for the rest of it.
Spinning ==
  /\ pc = "execute" /\ My.state = Waiting
  /\ My.buffered < Length(kind[Me])
  /\ "r" \in Front => My.buffered = BufLen

Lost == Panicked \/ Spinning

\* What is left of a turn of the event loop: the events to dispatch; the tokens in
\* the queue, the one that runs included; what the guest may still ask for; and
\* what is left of the call it is in.
InTurn == pc \in {"execute", "writable", "process"}

Undispatched ==
  IF pc = "events" THEN 1 + Cardinality(batch) + (IF acceptEvent THEN 1 ELSE 0) ELSE 0

Turns ==
  IF pc \in {"events", "poll"} \cup Panics THEN 0
  ELSE 2 * Len(ready) + (IF InTurn THEN 2 ELSE 1)

Requests(t, g) ==
  CASE g.stack = "none"      -> IF t.state = Waiting THEN MaxCalls + 3 ELSE MaxCalls + 2
    [] g.stack = "suspended" -> 1 + MaxCalls - g.calls
    [] g.stack = "returned"  -> 0

Calling(t, at) ==
  CASE t.state.tag = "WaitingForRequest" -> IF at = "execute" THEN 1 ELSE 0
    [] t.state.tag = "TcpRead"  -> 1
    [] t.state.tag = "TcpWrite" -> 2 * (t.state.size - t.state.written)
                                     + (IF "w" \in t.readiness[t.state.fd] THEN 1 ELSE 0)
    [] OTHER -> 0

ToAsk    == IF InTurn THEN Requests(My, MyGuest) ELSE 0
ToAnswer == IF InTurn THEN Calling(My, pc) ELSE 0

Rank == <<Undispatched, Turns, ToAsk, ToAnswer>>

\* In the lexicographic order, which is well-founded on tuples of naturals.
Below(p, q) ==
  /\ p \in [1..4 -> Nat]
  /\ \E n \in 1..4 : p[n] < q[n] /\ \A m \in 1..(n - 1) : p[m] = q[m]

\* Every turn ends: between two polls each step of the thread leaves less to do,
\* whatever the peers do meanwhile, so that no session keeps the others waiting; but
\* for an incomplete request, which it parses for ever.  A would-block has to give up
\* the bit that led to it, and every turn of execute's loop has to use something up.
TurnsEnd == [][pc # "poll" /\ ~Lost /\ ~Lost' /\ Server => Below(Rank', Rank)]_vars

\* A suspended guest goes on: when a backend has data (or an error) for a
\* tcp_read, and when a tcp_connect is decided, the session leaves the suspended
\* state, and room for a tcp_write is used up, unless the server is lost first, or
\* a call of size 0 has thrown the readiness away.
ReadResumes ==
  \A s \in Sess :
    (/\ Alive(s) /\ session[s].state.tag = "TcpRead"
     /\ "r" \notin session[s].missed[session[s].state.fd]
     /\ LET k == sock[s][session[s].state.fd] IN k.avail > 0 \/ Failed(k))
      ~> (Lost \/ ~Alive(s) \/ session[s].state.tag # "TcpRead")

WriteResumes ==
  \A s \in Sess :
    (/\ Alive(s) /\ session[s].state.tag = "TcpWrite"
     /\ "w" \notin session[s].missed[session[s].state.fd]
     /\ "w" \in Level(sock[s][session[s].state.fd]))
      ~> (\/ Lost \/ ~Alive(s) \/ session[s].state.tag # "TcpWrite"
          \/ "w" \notin Level(sock[s][session[s].state.fd]))

ConnectResumes ==
  \A s \in Sess :
    (/\ Alive(s) /\ session[s].state.tag = "WaitingForBackendConnect"
     /\ sock[s][session[s].state.fd].phase # "connecting")
      ~> (Lost \/ ~Alive(s) \/ session[s].state.tag # "WaitingForBackendConnect")

----------------------------------------------------------------------------
(* What the repository says of the server and the server does not do.       *)

\* session.rs:447: "should not have called execute() in
\* WaitingForBackendConnect".
NeverExecutedWhileConnecting == pc # "panic_connecting"

\* interpreter.rs:83, of the stack of function contexts: "on loop entry - not
\* empty".
StackNotEmpty == pc # "panic_stack"

\* serverless-api/src/lib.rs:86: a negative descriptor is how the guest learns
\* that a connection could not be made; a descriptor says that it was.
ConnectFailureReported ==
  \A s \in Sess : Alive(s) /\ guest[s].call = "connect" =>
    \A i \in session[s].backends :
      guest[s].answers = <<i>> => sock[s][i].phase \notin {"connecting", "refused"}

\* README.md:48: the server is able to handle requests: one that has reached the
\* server whole is eventually taken out of WaitingForRequest.
RequestsAreRun ==
  \A s \in Sess :
    (/\ Alive(s) /\ session[s].state = Waiting /\ kind[s] = "app"
     /\ session[s].buffered + sock[s][session[s].index].avail >= ReqLen)
      ~> (Panicked \/ ~Alive(s) \/ session[s].state # Waiting)

=============================================================================
