------------------------- MODULE AsyncServerProofs -------------------------
(***************************************************************************)
(* Theorems about AsyncServer, for every number of sessions and tokens and *)
(* every value of the bounds.  They rest on one inductive invariant, IInv: *)
(* what holds of each session with its guest (SessInv), and what holds of  *)
(* the slab and the sessions it leads to (SlabInv).                        *)
(***************************************************************************)
EXTENDS AsyncServer, TLAPS

Running == {"execute", "process"}

\* No path leads there: front_readable only goes on while the request is awaited,
\* and then nothing is to be written.
Unreached == {"writable", "panic_unwrap"}

\* A running session is the one the slab holds at the current token.
RunningOK == pc \in Running => cur \in Index /\ conns[cur] # None

\* The client is only read from while the request is awaited, and only written
\* to once the guest has returned with a response.
ClientInterest(t, g) ==
  /\ "r" \in t.interest[t.index] => t.state = Waiting
  /\ "w" \in t.interest[t.index] =>
       g.stack = "returned" /\ g.prepared = {"status", "body"}

SessInv(t, g) ==
  /\ t \in Session /\ g \in Guest
  /\ t.index \notin t.backends
  /\ t.buffered <= BufLen
  /\ g.stack = "none" => g = NoGuest /\ t.backends = {}
  /\ t.state.tag = "TcpWrite" => /\ t.state.written = g.taken
                                 /\ \/ g.taken < t.state.size
                                    \/ g.taken = 0 /\ t.state.size = 0
  /\ CallProtocol(t, g)
  /\ ClientInterest(t, g)

\* A session that was answered, and outlived its answer, has a guest that returned.
SlabInv ==
  /\ \A i \in Index : conns[i] # None => Alive(conns[i]) /\ i \in Streams(conns[i])
  /\ \A s \in Sess : Alive(s) =>
       /\ Slots(s) # {}
       /\ replies[s] = 0 => Slots(s) = Streams(s)
       /\ replies[s] # 0 => guest[s].stack = "returned"
  /\ \A s \in Sess : ~Alive(s) => guest[s] = NoGuest /\ replies[s] = 0

LocalInv == \A s \in Sess : Alive(s) => SessInv(session[s], guest[s])

IInv == TypeOK /\ RunningOK /\ SlabInv /\ LocalInv /\ pc \notin Unreached

USE SlabAssumption, KindsAssumption, LengthAssumption, SizesAssumption, BoundsAssumption

(***************************************************************************)
(* The values that the actions build.                                      *)
(***************************************************************************)

LEMMA StateFields ==
  ASSUME NEW st \in SessionState
  PROVE  /\ st.tag \in {"WaitingForRequest", "WaitingForBackendConnect", "Executing",
                        "TcpRead", "TcpWrite"}
         /\ st.tag = "WaitingForRequest" => st = Waiting
         /\ st.tag = "Executing" => st = Executing
         /\ st.tag = "WaitingForBackendConnect" => st.fd \in Index /\ st = Connecting(st.fd)
         /\ st.tag = "TcpRead" => st.fd \in Index /\ st.size \in Sizes
         /\ st.tag = "TcpWrite" =>
              /\ st.fd \in Index /\ st.size \in Sizes /\ st.written \in Nat
              /\ st = TcpWrite(st.fd, st.size, st.written)
  BY DEF SessionState, Waiting, Executing, Connecting, TcpRead, TcpWrite

LEMMA StateValues ==
  /\ Waiting \in SessionState /\ Waiting.tag = "WaitingForRequest"
  /\ Executing \in SessionState /\ Executing.tag = "Executing"
  /\ \A i \in Index : /\ Connecting(i) \in SessionState
                      /\ Connecting(i).tag = "WaitingForBackendConnect"
                      /\ Connecting(i).fd = i
  /\ \A i \in Index, n \in Sizes : /\ TcpRead(i, n) \in SessionState
                                   /\ TcpRead(i, n).tag = "TcpRead"
                                   /\ TcpRead(i, n).fd = i
  /\ \A i \in Index, n \in Sizes, k \in Nat :
       /\ TcpWrite(i, n, k) \in SessionState
       /\ TcpWrite(i, n, k).tag = "TcpWrite" /\ TcpWrite(i, n, k).fd = i
       /\ TcpWrite(i, n, k).size = n /\ TcpWrite(i, n, k).written = k
  BY DEF SessionState, Waiting, Executing, Connecting, TcpRead, TcpWrite

LEMMA GuestValues ==
  /\ NoGuest \in Guest
  /\ \A g \in Guest, call \in {"connect", "read", "write"} : Asking(g, call) \in Guest
  /\ \A g \in Guest, v \in Index \cup Int : Answered(g, v) \in Guest
<1>1. NoGuest \in Guest BY DEF NoGuest, Guest
<1>2. ASSUME NEW g \in Guest, NEW call \in {"connect", "read", "write"}
      PROVE Asking(g, call) \in Guest
  <2>1. <<>> \in Seq(Index \cup Int) OBVIOUS
  <2>2. g.calls + 1 \in Nat BY DEF Guest
  <2> QED BY <2>1, <2>2 DEF Asking, Guest
<1>3. ASSUME NEW g \in Guest, NEW v \in Index \cup Int
      PROVE Answered(g, v) \in Guest
  <2>1. Append(g.answers, v) \in Seq(Index \cup Int) BY DEF Guest
  <2> QED BY <2>1 DEF Answered, Guest
<1> QED BY <1>1, <1>2, <1>3

LEMMA SocketValues ==
  /\ NoSockets \in [Index -> Socket]
  /\ \A p \in {"none", "connecting", "open"} : NewSocket(p) \in Socket
  BY DEF NoSockets, NewSocket, Socket

\* A session with another state, or other bits on one of its streams.
LEMMA SessionEdits ==
  ASSUME NEW t \in Session, NEW st \in SessionState,
         NEW i \in Index, NEW b \in SUBSET Bits
  PROVE  /\ [t EXCEPT !.state = st, !.interest[i] = b] \in Session
         /\ [t EXCEPT !.state = st, !.readiness[i] = b] \in Session
<1>1. /\ [t.interest EXCEPT ![i] = b] \in [Index -> SUBSET Bits]
      /\ [t.readiness EXCEPT ![i] = b] \in [Index -> SUBSET Bits]
  BY DEF Session
<1> QED BY <1>1 DEF Session

\* The session that runs, its guest and its sockets.
LEMMA MeAlive ==
  ASSUME TypeOK, RunningOK, SlabInv, LocalInv, pc \in Running
  PROVE  /\ cur \in Index /\ Me \in Sess /\ Alive(Me) /\ cur \in Streams(Me)
         /\ My = session[Me] /\ MyGuest = guest[Me]
         /\ My \in Session /\ MyGuest \in Guest /\ SessInv(My, MyGuest)
         /\ sock[Me] \in [Index -> Socket]
<1>1. cur \in Index /\ Me # None /\ Me \in Sess
  BY DEF TypeOK, RunningOK, Me
<1>2. Alive(Me) /\ cur \in Streams(Me)
  BY <1>1 DEF SlabInv, Me
<1>3. SessInv(My, MyGuest)
  BY <1>1, <1>2 DEF LocalInv, My, MyGuest
<1> QED BY <1>1, <1>2, <1>3 DEF TypeOK, My, MyGuest, SessInv

(***************************************************************************)
(* What the actions have in common: they leave the sessions and the slab   *)
(* alone, or change one session in place, or close it.                     *)
(***************************************************************************)

LEMMA Unmoved ==
  ASSUME SlabInv, LocalInv, UNCHANGED <<conns, session, guest, replies>>
  PROVE  SlabInv' /\ LocalInv'
  BY DEF SlabInv, LocalInv, Alive, Streams, Slots

LEMMA InPlace ==
  ASSUME TypeOK, SlabInv, LocalInv,
         NEW s \in Sess, Alive(s), NEW t, NEW g, SessInv(t, g),
         t.index = session[s].index, t.backends = session[s].backends,
         replies[s] # 0 => g.stack = "returned",
         session' = [session EXCEPT ![s] = t], guest' = [guest EXCEPT ![s] = g],
         UNCHANGED <<conns, replies>>
  PROVE  /\ SlabInv' /\ LocalInv'
         /\ session' \in [Sess -> Session \cup {Dropped}]
         /\ guest' \in [Sess -> Guest]
<1>1. session'[s] = t /\ guest'[s] = g BY DEF TypeOK
<1>2. \A u \in Sess \ {s} : session'[u] = session[u] /\ guest'[u] = guest[u]
  BY DEF TypeOK
<1>3. \A u \in Sess : /\ Alive(u)' <=> Alive(u)
                      /\ Alive(u) => Streams(u)' = Streams(u)
                      /\ Slots(u)' = Slots(u)
  BY <1>1, <1>2 DEF Alive, Streams, Slots
<1>4. SlabInv'
  <2>1. ASSUME NEW i \in Index, conns'[i] # None
        PROVE  (Alive(conns[i]) /\ i \in Streams(conns[i]))'
    <3>1. conns[i] \in Sess /\ Alive(conns[i]) /\ i \in Streams(conns[i])
      BY <2>1 DEF SlabInv, TypeOK
    <3> QED BY <3>1, <1>1, <1>2 DEF Alive, Streams
  <2>2. \A u \in Sess : Alive(u)' =>
           /\ Slots(u)' # {}
           /\ replies'[u] = 0 => Slots(u)' = Streams(u)'
           /\ replies'[u] # 0 => guest'[u].stack = "returned"
    BY <1>1, <1>2, <1>3 DEF SlabInv
  <2>3. \A u \in Sess : ~Alive(u)' => guest'[u] = NoGuest /\ replies'[u] = 0
    BY <1>2, <1>3 DEF SlabInv
  <2> QED BY <2>1, <2>2, <2>3 DEF SlabInv
<1>5. LocalInv' BY <1>1, <1>2, <1>3 DEF LocalInv
<1>6. session' \in [Sess -> Session \cup {Dropped}] /\ guest' \in [Sess -> Guest]
  BY DEF TypeOK, SessInv
<1> QED BY <1>4, <1>5, <1>6

LEMMA Closes ==
  ASSUME IInv, pc \in Running,
         NEW t, SessInv(t, MyGuest), t.index = My.index, t.backends = My.backends,
         NEW n \in Nat,
         MyGuest.stack = "none" \/ (MyGuest.stack = "returned" /\ n = 1),
         Close(t, n)
  PROVE  IInv'
<1>1. /\ cur \in Index /\ Me \in Sess /\ Alive(Me) /\ cur \in Streams(Me)
      /\ My = session[Me] /\ MyGuest = guest[Me] /\ My \in Session /\ MyGuest \in Guest
      /\ SessInv(My, MyGuest)
  BY MeAlive DEF IInv
<1>0. PICK s \in Sess : s = Me BY <1>1
<1> DEFINE held == Slots(Me) \ {cur}
<1>2. MyGuest.stack = "none" => held = {}
  <2> SUFFICES ASSUME MyGuest.stack = "none" PROVE held = {} OBVIOUS
  <2>1. My.backends = {} BY <1>1 DEF SessInv
  <2>2. replies[Me] = 0 BY <1>1 DEF IInv, SlabInv
  <2>3. Slots(Me) = Streams(Me) BY <1>1, <2>2 DEF IInv, SlabInv
  <2> QED BY <1>1, <2>1, <2>3 DEF Streams
<1>3. /\ conns' = [conns EXCEPT ![cur] = None]
      /\ \A u \in Sess \ {s} : /\ session'[u] = session[u] /\ guest'[u] = guest[u]
                                /\ replies'[u] = replies[u]
      /\ session'[s] = (IF held = {} THEN Dropped ELSE t)
      /\ guest'[s] = (IF held = {} THEN NoGuest ELSE guest[s])
      /\ replies'[s] = (IF held = {} THEN 0 ELSE replies[s] + n)
  BY <1>0, <1>1 DEF Close, IInv, TypeOK
<1>4. TypeOK'
  <2>1. session' \in [Sess -> Session \cup {Dropped}]
    BY <1>1 DEF Close, IInv, TypeOK, SessInv
  <2>2. guest' \in [Sess -> Guest] BY GuestValues DEF Close, IInv, TypeOK
  <2>3. replies' \in [Sess -> Nat] BY <1>1 DEF Close, IInv, TypeOK
  <2>4. sock' \in [Sess -> [Index -> Socket]] BY SocketValues DEF Close, IInv, TypeOK
  <2>5. conns' \in [Index -> Sess \cup {None}] /\ kind' \in [Sess -> Kinds \cup {None}]
    BY DEF Close, IInv, TypeOK
  <2> QED BY <2>1, <2>2, <2>3, <2>4, <2>5 DEF Close, IInv, TypeOK, PCs
<1>5. RunningOK' /\ pc' \notin Unreached BY DEF Close, RunningOK, Running, Unreached
<1>6. \A u \in Sess \ {s} : /\ session'[u] = session[u]
                             /\ \A i \in Index : conns'[i] = u <=> conns[i] = u
  BY <1>0, <1>1, <1>3 DEF Me, IInv, TypeOK
<1>7. Slots(s)' = held
  BY <1>0, <1>1, <1>3 DEF Slots, IInv, TypeOK
<1>8. /\ held = {} => ~Alive(s)'
      /\ held # {} => Alive(s)' /\ Streams(s)' = Streams(s)
  BY <1>0, <1>1, <1>3 DEF Alive, Streams, Dropped
<1>9. SlabInv'
  <2>1. ASSUME NEW i \in Index, conns'[i] # None
        PROVE  (Alive(conns[i]) /\ i \in Streams(conns[i]))'
    <3>1. i # cur /\ conns'[i] = conns[i] BY <2>1, <1>3, <1>1 DEF IInv, TypeOK
    <3>2. conns[i] \in Sess /\ Alive(conns[i]) /\ i \in Streams(conns[i])
      BY <2>1, <3>1 DEF IInv, SlabInv, TypeOK
    <3>3. CASE conns[i] = s
      <4>1. i \in held BY <1>0, <3>1, <3>3 DEF Slots
      <4> QED BY <1>0, <1>1, <1>3, <3>1, <3>2, <3>3, <4>1 DEF Alive, Streams
    <3>4. CASE conns[i] # s BY <1>3, <3>1, <3>2, <3>4 DEF Alive, Streams
    <3> QED BY <3>3, <3>4
  <2>2. ASSUME NEW u \in Sess, Alive(u)'
        PROVE  /\ Slots(u)' # {}
               /\ replies'[u] = 0 => Slots(u)' = Streams(u)'
               /\ replies'[u] # 0 => guest'[u].stack = "returned"
    <3>1. CASE u = s
      <4>1. held # {} BY <2>2, <3>1, <1>8
      <4>2. MyGuest.stack = "returned" /\ n = 1 BY <4>1, <1>2
      <4>3. replies'[s] # 0 BY <4>1, <4>2, <1>3, <1>1, <1>0 DEF IInv, TypeOK
      <4> QED BY <3>1, <4>1, <4>2, <4>3, <1>0, <1>1, <1>3, <1>7
    <3>2. CASE u # s
      <4>1. u \in Sess \ {s} BY <3>2
      <4>2. Alive(u) /\ Slots(u)' = Slots(u) /\ Streams(u)' = Streams(u)
        BY <4>1, <2>2, <1>6 DEF Alive, Slots, Streams
      <4>3. replies'[u] = replies[u] /\ guest'[u] = guest[u] BY <4>1, <1>3
      <4> QED BY <4>2, <4>3 DEF IInv, SlabInv
    <3> QED BY <3>1, <3>2
  <2>3. ASSUME NEW u \in Sess, ~Alive(u)'
        PROVE  guest'[u] = NoGuest /\ replies'[u] = 0
    <3>1. CASE u = s BY <2>3, <3>1, <1>3, <1>8
    <3>2. CASE u # s
      <4>1. u \in Sess \ {s} BY <3>2
      <4>2. ~Alive(u) BY <4>1, <2>3, <1>6 DEF Alive
      <4>3. replies'[u] = replies[u] /\ guest'[u] = guest[u] BY <4>1, <1>3
      <4> QED BY <4>2, <4>3 DEF IInv, SlabInv
    <3> QED BY <3>1, <3>2
  <2> QED BY <2>1, <2>2, <2>3 DEF SlabInv
<1>10. LocalInv'
  <2>1. ASSUME NEW u \in Sess, Alive(u)' PROVE SessInv(session'[u], guest'[u])
    <3>1. CASE u = s BY <2>1, <3>1, <1>0, <1>1, <1>3, <1>8
    <3>2. CASE u # s
      <4>1. u \in Sess \ {s} BY <3>2
      <4>2. Alive(u) BY <4>1, <2>1, <1>6 DEF Alive
      <4>3. session'[u] = session[u] /\ guest'[u] = guest[u] BY <4>1, <1>3
      <4> QED BY <4>2, <4>3 DEF IInv, LocalInv
    <3> QED BY <3>1, <3>2
  <2> QED BY <2>1 DEF LocalInv
<1> QED BY <1>4, <1>5, <1>9, <1>10 DEF IInv

\* The running session goes on as t with its guest as g.
LEMMA GoesOn ==
  ASSUME IInv, pc \in Running,
         NEW t, NEW g, SessInv(t, g), t.index = My.index, t.backends = My.backends,
         replies[Me] # 0 => g.stack = "returned",
         session' = [session EXCEPT ![Me] = t], guest' = [guest EXCEPT ![Me] = g],
         sock' \in [Sess -> [Index -> Socket]],
         pc' \in Running, cur' = cur,
         UNCHANGED <<batch, acceptEvent, ready, conns, kind, replies, backlog, listenEdge>>
  PROVE  IInv'
<1>1. Me \in Sess /\ Alive(Me) /\ My = session[Me] BY MeAlive DEF IInv
<1>2. PICK s \in Sess : s = Me BY <1>1
<1>3. /\ SlabInv' /\ LocalInv'
      /\ session' \in [Sess -> Session \cup {Dropped}] /\ guest' \in [Sess -> Guest]
  BY <1>1, <1>2, InPlace DEF IInv
<1>4. TypeOK' BY <1>3 DEF IInv, TypeOK, PCs, Running
<1>5. RunningOK' /\ pc' \notin Unreached BY DEF IInv, RunningOK, Running, Unreached
<1> QED BY <1>3, <1>4, <1>5 DEF IInv

\* The thread moves on and leaves every session as it is.
LEMMA MovesOn ==
  ASSUME IInv, UNCHANGED <<conns, sessVars>>, sock' \in [Sess -> [Index -> Socket]],
         pc' \in PCs \ Unreached, pc' \in Running => cur' \in Index /\ conns[cur'] # None,
         cur' \in Index \cup {None}, batch' \subseteq SocketEvent, acceptEvent' \in BOOLEAN,
         ready' \in Seq(Index), backlog' \in Nat, listenEdge' \in BOOLEAN
  PROVE  IInv'
<1>1. SlabInv' /\ LocalInv' BY Unmoved DEF IInv, sessVars
<1>2. TypeOK' BY DEF IInv, TypeOK, sessVars
<1>3. RunningOK' BY DEF RunningOK
<1> QED BY <1>1, <1>2, <1>3 DEF IInv

(***************************************************************************)
(* The initial state.                                                      *)
(***************************************************************************)

LEMMA InitIInv ==
  ASSUME Init
  PROVE  IInv
<1>1. TypeOK
  <2>1. session \in [Sess -> Session \cup {Dropped}] BY DEF Init
  <2>2. sock \in [Sess -> [Index -> Socket]] BY SocketValues DEF Init
  <2>3. guest \in [Sess -> Guest] BY GuestValues DEF Init
  <2>4. ready \in Seq(Index) /\ batch \subseteq SocketEvent BY DEF Init
  <2> QED BY <2>1, <2>2, <2>3, <2>4 DEF Init, TypeOK, PCs
<1>2. RunningOK /\ pc \notin Unreached BY DEF Init, RunningOK, Running, Unreached
<1>3. \A s \in Sess : ~Alive(s) BY DEF Init, Alive, Dropped
<1>4. SlabInv /\ LocalInv BY <1>3 DEF Init, SlabInv, LocalInv
<1> QED BY <1>1, <1>2, <1>4 DEF IInv

(***************************************************************************)
(* The event loop.                                                         *)
(***************************************************************************)

LEMMA PollOK ==
  ASSUME IInv, Poll
  PROVE  IInv'
<1>1. batch' \subseteq SocketEvent
  <2> SUFFICES ASSUME NEW e \in batch' PROVE e \in SocketEvent OBVIOUS
  <2>1. PICK x \in Sess \X Index :
          e = [sess |-> x[1], index |-> x[2], mask |-> Level(sock[x[1]][x[2]])]
    BY DEF Poll
  <2>2. PICK m \in SUBSET Bits : m = Level(sock[x[1]][x[2]])
    BY DEF Level
  <2>3. x[1] \in Sess /\ x[2] \in Index OBVIOUS
  <2> QED BY <2>1, <2>2, <2>3 DEF SocketEvent
<1>2. sock' \in [Sess -> [Index -> Socket]]
  <2>1. \A k \in Socket : [k EXCEPT !.edge = FALSE] \in Socket BY DEF Socket
  <2>2. \A s \in Sess, i \in Index : sock[s][i] \in Socket BY DEF IInv, TypeOK
  <2> QED BY <2>1, <2>2 DEF Poll
<1> QED BY <1>1, <1>2, MovesOn DEF Poll, IInv, TypeOK, sessVars, PCs, Running, Unreached

LEMMA LoopOK ==
  ASSUME IInv, EndEvents \/ Drain \/ EndDrain
  PROVE  IInv'
<1>1. CASE EndEvents \/ EndDrain
  BY <1>1, MovesOn DEF EndEvents, EndDrain, IInv, TypeOK, netVars, PCs, Running, Unreached
<1>2. CASE Drain
  <2>1. Head(ready) \in Index /\ Tail(ready) \in Seq(Index)
    BY <1>2 DEF Drain, IInv, TypeOK
  <2> QED BY <1>2, <2>1, MovesOn DEF Drain, IInv, TypeOK, netVars, PCs, Running, Unreached
<1> QED BY <1>1, <1>2

LEMMA EventOK ==
  ASSUME IInv, NEW e \in batch, Event(e)
  PROVE  IInv'
<1> DEFINE i == e.index
           s == conns[i]
<1>1. e \in SocketEvent /\ i \in Index /\ e.mask \subseteq Bits /\ pc = "events"
  BY DEF IInv, TypeOK, SocketEvent, Event
<1>2. CASE s = None \/ (s # None /\ i \notin Streams(s))
  BY <1>1, <1>2, MovesOn DEF Event, IInv, TypeOK, sessVars, netVars, PCs, Running, Unreached
<1>3. CASE s # None /\ i \in Streams(s)
  <2> DEFINE t == Noted(s, i, e.mask)
             g == IF ConnectsOn(s, i) THEN Answered(guest[s], i) ELSE guest[s]
  <2>1. PICK u \in Sess : u = s BY <1>1, <1>3 DEF IInv, TypeOK
  <2>2. Alive(u) /\ SessInv(session[u], guest[u])
    BY <1>1, <1>3, <2>1 DEF IInv, SlabInv, LocalInv
  <2>3. /\ session' = [session EXCEPT ![u] = t] /\ guest' = [guest EXCEPT ![u] = g]
        /\ ready' \in {ready, Append(ready, i)}
        /\ UNCHANGED <<pc, cur, acceptEvent, conns, kind, replies, netVars>>
        /\ batch' = batch \ {e}
    BY <1>3, <2>1 DEF Event
  <2>4. /\ t.index = session[u].index /\ t.backends = session[u].backends
        /\ g.stack = guest[u].stack
    BY <2>1, <2>2 DEF Noted, Answered, SessInv, Session, Guest
  <2>5. SessInv(t, g)
    <3>1. t \in Session
      <4>1. PICK old \in Session : old = session[u] BY <2>2 DEF SessInv
      <4>2. /\ [old.readiness EXCEPT ![i] = @ \cup e.mask] \in [Index -> SUBSET Bits]
            /\ [old.missed EXCEPT ![i] = @ \ e.mask] \in [Index -> SUBSET Bits]
            /\ (IF ConnectsOn(s, i) THEN Executing ELSE old.state) \in SessionState
        BY <1>1, <4>1, StateValues DEF Session
      <4> QED BY <2>1, <4>1, <4>2 DEF Noted, Session
    <3>2. g \in Guest BY <1>1, <2>1, <2>2, GuestValues DEF SessInv
    <3>3. CASE ConnectsOn(s, i)
      <4>1. /\ t.state = Executing /\ t.interest = session[u].interest
            /\ t.buffered = session[u].buffered
        BY <2>1, <2>2, <3>3 DEF Noted, SessInv, Session
      <4>2. Pending(session[u], guest[u], "connect") /\ session[u].state # Waiting
        BY <2>1, <2>2, <3>3, <1>1, StateValues DEF ConnectsOn, SessInv, CallProtocol
      <4>3. /\ Len(g.answers) = 1 /\ g.stack = "suspended"
        BY <3>3, <2>1, <4>2, <1>1 DEF Answered, Pending, SessInv
      <4> QED BY <2>2, <2>4, <3>1, <3>2, <4>1, <4>2, <4>3, StateValues
              DEF SessInv, CallProtocol, ClientInterest
    <3>4. CASE ~ConnectsOn(s, i)
      <4>1. g = guest[u] BY <2>1, <3>4
      <4>2. /\ t.state = session[u].state /\ t.interest = session[u].interest
            /\ t.buffered = session[u].buffered
        BY <2>1, <2>2, <3>4 DEF Noted, SessInv, Session
      <4> QED BY <2>2, <2>4, <3>1, <3>2, <4>1, <4>2
              DEF SessInv, CallProtocol, Pending, ClientInterest
    <3> QED BY <3>3, <3>4
  <2> HIDE DEF t, g
  <2>6. /\ SlabInv' /\ LocalInv'
        /\ session' \in [Sess -> Session \cup {Dropped}] /\ guest' \in [Sess -> Guest]
    <3>1. replies[u] # 0 => g.stack = "returned" BY <2>2, <2>4 DEF IInv, SlabInv
    <3> QED BY <2>2, <2>3, <2>4, <2>5, <3>1, InPlace DEF IInv
  <2>7. ready' \in Seq(Index)
    <3>1. ready \in Seq(Index) BY DEF IInv, TypeOK
    <3>2. \A j \in Index : Append(ready, j) \in Seq(Index) BY <3>1
    <3> QED BY <1>1, <2>3, <3>1, <3>2
  <2>8. TypeOK' BY <2>3, <2>6, <2>7 DEF IInv, TypeOK, netVars
  <2>9. RunningOK' /\ pc' \notin Unreached BY <1>1, <2>3 DEF RunningOK, Running, Unreached
  <2> QED BY <2>6, <2>8, <2>9 DEF IInv
<1> QED BY <1>2, <1>3

LEMMA EventAcceptOK ==
  ASSUME IInv, EventAccept
  PROVE  IInv'
<1>1. /\ pc' = pc /\ pc = "events" /\ acceptEvent' \in BOOLEAN /\ backlog' \in Nat
      /\ UNCHANGED <<cur, batch, ready, guest, replies, listenEdge>>
  <2>1. backlog' = (IF backlog > 0 THEN backlog - 1 ELSE 0) BY DEF EventAccept
  <2>2. backlog' \in Nat BY <2>1 DEF IInv, TypeOK
  <2> QED BY <2>2 DEF EventAccept
<1>2. CASE UNCHANGED <<conns, session, kind, sock>>
  BY <1>1, <1>2, MovesOn DEF IInv, TypeOK, sessVars, PCs, Running, Unreached
<1>3. ASSUME NEW i \in Index, NEW s \in Sess, NEW k \in Kinds,
             conns[i] = None, ~Alive(s),
             conns' = [conns EXCEPT ![i] = s],
             session' = [session EXCEPT ![s] = NewSession(i)],
             kind' = [kind EXCEPT ![s] = k],
             sock' = [sock EXCEPT ![s] = [NoSockets EXCEPT ![i] = NewSocket("open")]]
      PROVE  IInv'
  <2>1. NewSession(i) \in Session
    BY StateValues DEF NewSession, Session, Bits
  <2>2. TypeOK'
    <3>1. session' \in [Sess -> Session \cup {Dropped}] BY <1>3, <2>1 DEF IInv, TypeOK
    <3>2. sock' \in [Sess -> [Index -> Socket]] BY <1>3, SocketValues DEF IInv, TypeOK
    <3>3. conns' \in [Index -> Sess \cup {None}] /\ kind' \in [Sess -> Kinds \cup {None}]
      BY <1>3 DEF IInv, TypeOK
    <3> QED BY <1>1, <3>1, <3>2, <3>3 DEF IInv, TypeOK
  <2>3. RunningOK' /\ pc' \notin Unreached BY <1>1 DEF RunningOK, Running, Unreached
  <2>4. /\ conns'[i] = s /\ \A j \in Index \ {i} : conns'[j] = conns[j]
        /\ session'[s] = NewSession(i)
        /\ \A u \in Sess \ {s} : session'[u] = session[u]
        /\ guest' = guest /\ replies' = replies
        /\ guest[s] = NoGuest /\ replies[s] = 0
        /\ \A j \in Index : conns[j] # s
    BY <1>1, <1>3 DEF IInv, TypeOK, SlabInv
  <2>5. SlabInv'
    <3>1. ASSUME NEW j \in Index, conns'[j] # None
          PROVE  (Alive(conns[j]) /\ j \in Streams(conns[j]))'
      <4>1. CASE j = i
        BY <2>4, <4>1 DEF Alive, Streams, NewSession
      <4>2. CASE j # i
        <5>1. conns'[j] = conns[j] /\ conns[j] \in Sess \ {s}
          BY <2>4, <3>1, <4>2 DEF IInv, TypeOK
        <5>2. Alive(conns[j]) /\ j \in Streams(conns[j])
          BY <3>1, <5>1 DEF IInv, SlabInv
        <5> QED BY <2>4, <5>1, <5>2 DEF Alive, Streams
      <4> QED BY <4>1, <4>2
    <3>2. ASSUME NEW u \in Sess, Alive(u)'
          PROVE  /\ Slots(u)' # {}
                 /\ replies'[u] = 0 => Slots(u)' = Streams(u)'
                 /\ replies'[u] # 0 => guest'[u].stack = "returned"
      <4>1. CASE u = s
        <5>1. Slots(u)' = {i} BY <2>4, <4>1 DEF Slots
        <5>2. Streams(u)' = {i} BY <2>4, <4>1 DEF Streams, NewSession
        <5> QED BY <2>4, <4>1, <5>1, <5>2
      <4>2. CASE u # s
        <5>1. /\ session'[u] = session[u]
              /\ \A j \in Index : conns'[j] = u <=> conns[j] = u
          BY <1>3, <2>4, <4>2
        <5>2. Alive(u) /\ Slots(u)' = Slots(u) /\ Streams(u)' = Streams(u)
          BY <3>2, <5>1 DEF Alive, Slots, Streams
        <5> QED BY <2>4, <5>2 DEF IInv, SlabInv
      <4> QED BY <4>1, <4>2
    <3>3. ASSUME NEW u \in Sess, ~Alive(u)'
          PROVE  guest'[u] = NoGuest /\ replies'[u] = 0
      BY <2>4, <3>3 DEF Alive, IInv, SlabInv
    <3> QED BY <3>1, <3>2, <3>3 DEF SlabInv
  <2>6. LocalInv'
    <3>1. SessInv(NewSession(i), NoGuest)
      BY <2>1, GuestValues, StateValues
         DEF SessInv, NewSession, NoGuest, CallProtocol, Pending, ClientInterest
    <3> QED BY <2>4, <3>1 DEF LocalInv, IInv, Alive
  <2> QED BY <2>2, <2>3, <2>5, <2>6 DEF IInv
<1> QED BY <1>2, <1>3 DEF EventAccept

(***************************************************************************)
(* The steps that leave the sessions alone.                                *)
(***************************************************************************)

\* ParsePartial, the two parked calls and every panic but the unwrap's.
LEMMA StopsOK ==
  ASSUME IInv,
         \/ ReadParks \/ WriteParks
         \/ InstantiatePanic \/ ResumeEmpty \/ GuestFault \/ ConnectPanic
         \/ ExecutedWhileConnecting
  PROVE  IInv'
<1>1. CASE ReadParks \/ WriteParks
  BY <1>1, MovesOn
     DEF ReadParks, WriteParks, Park, IInv, TypeOK, netVars, PCs, Running, Unreached
<1>2. ASSUME NEW site \in Panics \ {"panic_unwrap"}, Panic(site) PROVE IInv'
  BY <1>2, MovesOn DEF Panic, IInv, TypeOK, netVars, PCs, Panics, Running, Unreached
<1>3. CASE InstantiatePanic \/ ResumeEmpty \/ GuestFault \/ ConnectPanic
             \/ ExecutedWhileConnecting
  BY <1>2, <1>3 DEF InstantiatePanic, ResumeEmpty, GuestFault, ConnectPanic,
                    ExecutedWhileConnecting, Panics
<1> QED BY <1>1, <1>3

LEMMA PeersOK ==
  ASSUME IInv, Peers
  PROVE  IInv'
<1>1. CASE ClientConnects
  BY <1>1, MovesOn
     DEF ClientConnects, loopVars, IInv, TypeOK, RunningOK, PCs, Running, Unreached
<1>2. ASSUME NEW s \in Sess, NEW i \in Index, NEW k \in Socket, Changes(s, i, k)
      PROVE  IInv'
  <2>1. sock' \in [Sess -> [Index -> Socket]] BY <1>2 DEF Changes, IInv, TypeOK
  <2> QED BY <1>2, <2>1, MovesOn
          DEF Changes, loopVars, IInv, TypeOK, RunningOK, PCs, Running, Unreached
<1>3. ASSUME NEW s \in Sess, NEW i \in Index,
             \/ PeerSends(s, i) \/ PeerCloses(s, i) \/ PeerResets(s, i)
             \/ PeerDrains(s, i) \/ ConnectDone(s, i) \/ ConnectFails(s, i)
      PROVE  IInv'
  <2>1. PICK k \in Socket : k = sock[s][i] BY DEF IInv, TypeOK
  <2>2. CASE PeerSends(s, i)
    <3>1. PICK n \in 1..Unsent(s, i) : 
            Changes(s, i, [sock[s][i] EXCEPT !.avail = @ + n, !.edge = TRUE])
      BY <2>2 DEF PeerSends
    <3>2. n \in Nat OBVIOUS
    <3>3. k.avail + n \in Nat BY <3>2 DEF Socket
    <3>4. [k EXCEPT !.avail = @ + n, !.edge = TRUE] \in Socket BY <3>3 DEF Socket
    <3> QED BY <1>2, <2>1, <3>1, <3>4
  <2>3. CASE PeerCloses(s, i)
    <3>1. [k EXCEPT !.eof = TRUE, !.edge = TRUE] \in Socket BY DEF Socket
    <3> QED BY <1>2, <2>1, <2>3, <3>1 DEF PeerCloses
  <2>4. CASE PeerResets(s, i)
    <3>1. [k EXCEPT !.phase = "reset", !.edge = TRUE] \in Socket BY DEF Socket
    <3> QED BY <1>2, <2>1, <2>4, <3>1 DEF PeerResets
  <2>5. CASE PeerDrains(s, i)
    <3>1. PICK b \in {TRUE, FALSE} : b = (k.edge \/ k.full) OBVIOUS
    <3>2. \A c \in {TRUE, FALSE} :
            [k EXCEPT !.space = MaxSpace, !.full = FALSE, !.edge = c] \in Socket
      <4>0. MaxSpace \in 0..MaxSpace OBVIOUS
      <4>1. [k EXCEPT !.space = MaxSpace, !.full = FALSE, !.edge = TRUE] \in Socket
        BY <4>0 DEF Socket
      <4>2. [k EXCEPT !.space = MaxSpace, !.full = FALSE, !.edge = FALSE] \in Socket
        BY <4>0 DEF Socket
      <4> QED BY <4>1, <4>2
    <3> QED BY <1>2, <2>1, <2>5, <3>1, <3>2 DEF PeerDrains
  <2>6. CASE ConnectDone(s, i)
    <3>1. [k EXCEPT !.phase = "open", !.full = FALSE, !.edge = TRUE] \in Socket
      BY DEF Socket
    <3> QED BY <1>2, <2>1, <2>6, <3>1 DEF ConnectDone
  <2>7. CASE ConnectFails(s, i)
    <3>1. [k EXCEPT !.phase = "refused", !.full = FALSE, !.edge = TRUE] \in Socket
      BY DEF Socket
    <3> QED BY <1>2, <2>1, <2>7, <3>1 DEF ConnectFails
  <2> QED BY <1>3, <2>2, <2>3, <2>4, <2>5, <2>6, <2>7
<1> QED BY <1>1, <1>3 DEF Peers

(***************************************************************************)
(* The client's side of a session.                                         *)
(***************************************************************************)

\* The client is read from while its request is awaited and no response is ready.
LEMMA ReadsWaiting ==
  ASSUME IInv, AtFrontReadable
  PROVE  My.state = Waiting /\ MyGuest.stack = "none" /\ "w" \notin Front
<1>1. SessInv(My, MyGuest) BY MeAlive DEF IInv, AtFrontReadable, Running
<1>2. My.state = Waiting
  BY <1>1 DEF AtFrontReadable, Front, SessInv, ClientInterest
<1>3. MyGuest.stack = "none" BY <1>1, <1>2, StateValues DEF SessInv, CallProtocol
<1> QED BY <1>1, <1>2, <1>3 DEF Front, SessInv, ClientInterest

LEMMA FrontReadableOK ==
  ASSUME IInv, FrontReadable
  PROVE  IInv'
<1>1. pc \in Running BY DEF FrontReadable, AtFrontReadable, Running
<1>2. /\ cur \in Index /\ Me \in Sess /\ Alive(Me) /\ My = session[Me]
      /\ MyGuest = guest[Me] /\ SessInv(My, MyGuest) /\ sock[Me] \in [Index -> Socket]
  BY <1>1, MeAlive DEF IInv
<1>3. My.state = Waiting /\ MyGuest.stack = "none" /\ "w" \notin Front
  BY ReadsWaiting DEF FrontReadable
<1>4. CASE Close(My, 0) BY <1>1, <1>2, <1>3, <1>4, Closes
<1>5. CASE ~Close(My, 0)
  <2> DEFINE k    == sock[Me][My.index]
             room == BufLen - My.buffered
             got  == IF k.avail < room THEN k.avail ELSE room
             left == IF k.avail < room THEN 0 ELSE k.avail - room
             bits == IF k.avail < room THEN My.readiness[My.index] \ {"r"}
                                       ELSE My.readiness[My.index]
             t    == [My EXCEPT !.buffered = @ + got, !.readiness[My.index] = bits]
  <2>1. /\ pc' = "process"
        /\ session' = [session EXCEPT ![Me] = t]
        /\ sock' = [sock EXCEPT ![Me][My.index].avail = left]
        /\ UNCHANGED <<cur, batch, acceptEvent, ready, conns, guest, kind, replies,
                       backlog, listenEdge>>
    BY <1>2, <1>3, <1>5 DEF FrontReadable, IInv, TypeOK
  <2>2. My.index \in Index /\ k \in Socket /\ My.buffered \in Nat /\ My.buffered <= BufLen
    BY <1>2 DEF SessInv, Session
  <2>3. /\ My.buffered + got \in Nat /\ My.buffered + got <= BufLen /\ left \in Nat
        /\ bits \in SUBSET Bits
    BY <1>2, <2>2 DEF SessInv, Session, Socket
  <2>4. SessInv(t, MyGuest)
    <3> HIDE DEF got, bits
    <3>1. /\ t \in Session
          /\ t.index = My.index /\ t.backends = My.backends /\ t.interest = My.interest
          /\ t.state = My.state /\ t.buffered = My.buffered + got
      BY <1>2, <2>2, <2>3 DEF SessInv, Session
    <3> QED BY <1>2, <1>3, <2>3, <3>1
            DEF SessInv, CallProtocol, Pending, ClientInterest
  <2>5. sock' \in [Sess -> [Index -> Socket]]
    <3>1. [k EXCEPT !.avail = left] \in Socket BY <2>2, <2>3 DEF Socket
    <3> HIDE DEF left
    <3> QED BY <1>2, <2>1, <2>2, <3>1 DEF IInv, TypeOK
  <2>6. /\ t.index = My.index /\ t.backends = My.backends
        /\ guest' = [guest EXCEPT ![Me] = MyGuest]
    BY <1>2, <2>1 DEF SessInv, Session, IInv, TypeOK
  <2>7. replies[Me] # 0 => MyGuest.stack = "returned" BY <1>2 DEF IInv, SlabInv
  <2> HIDE DEF t
  <2> QED BY <1>1, <2>1, <2>4, <2>5, <2>6, <2>7, GoesOn DEF Running
<1> QED BY <1>4, <1>5

LEMMA FrontWritableOK ==
  ASSUME IInv, FrontWritable
  PROVE  IInv'
<1>1. pc \in Running /\ "w" \in Front
  BY DEF FrontWritable, AtFrontWritable, Running, IInv, Unreached
<1>2. SessInv(My, MyGuest) BY <1>1, MeAlive DEF IInv
<1>3. MyGuest.stack = "returned" /\ MyGuest.prepared = {"status", "body"}
  BY <1>1, <1>2 DEF Front, SessInv, ClientInterest
<1>4. Close(My, 1) BY <1>3 DEF FrontWritable
<1> QED BY <1>1, <1>2, <1>3, <1>4, Closes

LEMMA ParseOK ==
  ASSUME IInv, ParseError \/ ParsePartial \/ ParseComplete
  PROVE  IInv'
<1>1. pc \in Running /\ My.state.tag = "WaitingForRequest"
  BY DEF ParseError, ParsePartial, ParseComplete, Processing, AtProcess, Running
<1>2. /\ cur \in Index /\ Me \in Sess /\ Alive(Me) /\ My = session[Me]
      /\ MyGuest = guest[Me] /\ SessInv(My, MyGuest) /\ conns[cur] # None
  BY <1>1, MeAlive DEF IInv, RunningOK
<1>3. MyGuest.stack = "none" /\ MyGuest = NoGuest
  BY <1>1, <1>2 DEF SessInv, CallProtocol
<1>4. CASE ParseError BY <1>1, <1>2, <1>3, <1>4, Closes DEF ParseError
<1>5. CASE ParsePartial
  BY <1>2, <1>5, MovesOn
     DEF ParsePartial, IInv, TypeOK, netVars, PCs, Running, Unreached
<1>6. CASE ParseComplete
  <2> DEFINE t == [My EXCEPT !.state = Executing, !.interest[My.index] = @ \ {"r"}]
  <2>1. /\ session' = [session EXCEPT ![Me] = t]
        /\ guest' = [guest EXCEPT ![Me] = MyGuest]
    BY <1>2, <1>6 DEF ParseComplete, IInv, TypeOK
  <2>2. SessInv(t, MyGuest)
    <3>1. /\ t.index = My.index /\ t.backends = My.backends /\ t.state = Executing
          /\ t.interest[t.index] = My.interest[My.index] \ {"r"}
          /\ t.buffered = My.buffered
      BY <1>2 DEF SessInv, Session
    <3>4. t \in Session
      <4>1. My \in Session /\ My.index \in Index /\ My.interest[My.index] \in SUBSET Bits
        BY <1>2 DEF SessInv, Session
      <4> QED BY <4>1, StateValues, SessionEdits
    <3>2. "r" \notin t.interest[t.index] /\ "w" \notin t.interest[t.index]
      BY <1>2, <1>3, <3>1 DEF SessInv, ClientInterest
    <3>3. MyGuest.call = "none" BY <1>3 DEF NoGuest
    <3> HIDE DEF t
    <3> QED BY <1>2, <1>3, <3>1, <3>2, <3>3, <3>4, StateValues
            DEF SessInv, CallProtocol, ClientInterest
  <2>3. t.index = My.index /\ t.backends = My.backends
    BY <1>2 DEF SessInv, Session
  <2>4. replies[Me] # 0 => MyGuest.stack = "returned" BY <1>2 DEF IInv, SlabInv
  <2> HIDE DEF t
  <2> QED BY <1>1, <1>6, <2>1, <2>2, <2>3, <2>4, GoesOn
          DEF ParseComplete, netVars, Running, IInv, TypeOK
<1> QED BY <1>4, <1>5, <1>6

(***************************************************************************)
(* The guest's side of a session.                                          *)
(***************************************************************************)

\* What is known when Executing is processed.
LEMMA AtExecuting ==
  ASSUME IInv, Processing("Executing")
  PROVE  /\ pc \in Running /\ cur \in Index /\ Me \in Sess /\ Alive(Me)
         /\ My = session[Me] /\ MyGuest = guest[Me] /\ SessInv(My, MyGuest)
         /\ My.state = Executing /\ conns[cur] # None
         /\ My \in Session /\ MyGuest \in Guest
         /\ session \in [Sess -> Session \cup {Dropped}] /\ guest \in [Sess -> Guest]
         /\ MyGuest.stack = "suspended" =>
              /\ replies[Me] = 0 /\ "w" \notin My.interest[My.index]
              /\ "r" \notin My.interest[My.index]
<1>1. pc \in Running /\ My.state.tag = "Executing"
  BY DEF Processing, AtProcess, Running
<1>2. /\ cur \in Index /\ Me \in Sess /\ Alive(Me) /\ My = session[Me]
      /\ MyGuest = guest[Me] /\ SessInv(My, MyGuest) /\ conns[cur] # None
      /\ My \in Session /\ MyGuest \in Guest
      /\ session \in [Sess -> Session \cup {Dropped}] /\ guest \in [Sess -> Guest]
  BY <1>1, MeAlive DEF IInv, RunningOK, TypeOK
<1>3. My.state = Executing
  BY <1>1, <1>2, StateFields DEF Session
<1>4. MyGuest.stack = "suspended" =>
        /\ replies[Me] = 0 /\ "w" \notin My.interest[My.index]
        /\ "r" \notin My.interest[My.index]
  BY <1>1, <1>2, <1>3, StateValues DEF SessInv, ClientInterest, IInv, SlabInv
<1> QED BY <1>1, <1>2, <1>3, <1>4

LEMMA CreateOK ==
  ASSUME IInv, NoRoute \/ CreateInstance
  PROVE  IInv'
<1>1. Processing("Executing") /\ MyGuest.stack = "none"
  BY DEF NoRoute, CreateInstance
<1>2. MyGuest = NoGuest BY <1>1, AtExecuting DEF SessInv
<1>3. CASE NoRoute
  <2> DEFINE t == [My EXCEPT !.interest[My.index] = {}]
  <2>1. /\ t.index = My.index /\ t.backends = My.backends /\ t.state = My.state
        /\ t.interest[t.index] = {} /\ t.buffered = My.buffered
    BY <1>1, AtExecuting DEF Session
  <2>2. t \in Session
    <3>1. [My.interest EXCEPT ![My.index] = {}] \in [Index -> SUBSET Bits]
      BY <1>1, AtExecuting DEF Session
    <3> QED BY <1>1, <3>1, AtExecuting DEF Session
  <2>3. Close(t, 1) BY <1>3 DEF NoRoute
  <2> HIDE DEF t
  <2>4. SessInv(t, MyGuest)
    BY <1>1, <2>1, <2>2, AtExecuting DEF SessInv, CallProtocol, Pending, ClientInterest
  <2> QED BY <1>1, <2>1, <2>3, <2>4, AtExecuting, Closes
<1>4. CASE CreateInstance
  <2> DEFINE g == [MyGuest EXCEPT !.stack = "suspended"]
  <2>1. /\ g.stack = "suspended" /\ g.call = "none" /\ g.answers = <<>>
        /\ g.taken = 0 /\ g \in Guest
    BY <1>2, GuestValues DEF NoGuest, Guest
  <2>2. /\ guest' = [guest EXCEPT ![Me] = g]
        /\ session' = [session EXCEPT ![Me] = My]
    BY <1>1, <1>4, AtExecuting DEF CreateInstance
  <2> HIDE DEF g
  <2>3. SessInv(My, g)
    BY <1>1, <1>2, <2>1, AtExecuting, StateValues
       DEF SessInv, CallProtocol, ClientInterest, NoGuest
  <2>4. replies[Me] = 0 BY <1>1, AtExecuting DEF IInv, SlabInv
  <2> QED BY <1>1, <1>4, <2>2, <2>3, <2>4, AtExecuting, GoesOn
          DEF CreateInstance, netVars, Running, IInv, TypeOK
<1> QED BY <1>3, <1>4

LEMMA AskingFields ==
  ASSUME NEW g \in Guest, NEW call \in {"connect", "read", "write"}
  PROVE  /\ Asking(g, call) \in Guest /\ Asking(g, call).stack = g.stack
         /\ Asking(g, call).call = call /\ Asking(g, call).answers = <<>>
         /\ Asking(g, call).taken = 0
<1> DEFINE a == Asking(g, call)
<1>1. a \in Guest BY GuestValues
<1>2. a.stack = g.stack /\ a.call = call BY DEF Asking, Guest
<1>3. a.answers = <<>> /\ a.taken = 0 BY DEF Asking, Guest
<1> QED BY <1>1, <1>2, <1>3

LEMMA GuestAsksOK ==
  ASSUME IInv, GuestReads \/ GuestWrites
  PROVE  IInv'
<1>1. Processing("Executing") /\ MyGuest.stack = "suspended"
  BY DEF GuestReads, GuestWrites, GuestCalls, GuestRuns
<1> DEFINE Goal(st, i, bit, call) ==
      /\ st \in SessionState /\ i \in My.backends /\ bit \in Bits
      /\ call \in {"read", "write"}
      /\ session' = [session EXCEPT
           ![Me] = [My EXCEPT !.state = st, !.interest[i] = @ \cup {bit}]]
      /\ guest' = [guest EXCEPT ![Me] = Asking(@, call)]
      /\ pc' = "execute"
      /\ UNCHANGED <<cur, batch, acceptEvent, ready, conns, kind, replies, netVars>>
<1>2. ASSUME NEW st \in SessionState, NEW i \in My.backends, NEW bit \in Bits,
             NEW call \in {"read", "write"}, Goal(st, i, bit, call),
             \/ call = "read" /\ st.tag = "TcpRead" /\ st.fd = i
             \/ /\ call = "write" /\ st.tag = "TcpWrite" /\ st.fd = i
                /\ st.written = 0 /\ (0 < st.size \/ st.size = 0)
      PROVE  IInv'
  <2> DEFINE t == [My EXCEPT !.state = st, !.interest[i] = @ \cup {bit}]
             g == Asking(MyGuest, call)
  <2>1. i \in Index /\ i # My.index BY <1>1, AtExecuting DEF SessInv, Session
  <2>2. /\ t.index = My.index /\ t.backends = My.backends /\ t.state = st
        /\ t.interest[t.index] = My.interest[My.index] /\ t.buffered = My.buffered
    BY <1>1, <2>1, AtExecuting DEF Session
  <2>3. t \in Session
    <3>1. My.interest[i] \cup {bit} \in SUBSET Bits
      BY <1>1, <2>1, AtExecuting DEF Session
    <3> QED BY <1>1, <2>1, <3>1, AtExecuting, SessionEdits
  <2>4. /\ g \in Guest /\ g.stack = "suspended" /\ g.call = call
        /\ g.answers = <<>> /\ g.taken = 0
    BY <1>1, AtExecuting, AskingFields
  <2>5. session' = [session EXCEPT ![Me] = t] /\ guest' = [guest EXCEPT ![Me] = g]
    BY <1>1, <1>2, AtExecuting
  <2> HIDE DEF t, g
  <2>6. SessInv(t, g)
    BY <1>1, <1>2, <2>2, <2>3, <2>4, AtExecuting
       DEF SessInv, CallProtocol, Pending, ClientInterest
  <2> QED BY <1>1, <1>2, <2>2, <2>4, <2>5, <2>6, AtExecuting, GoesOn
          DEF netVars, Running, IInv, TypeOK
<1>3. CASE GuestReads
  <2>1. PICK i \in My.backends, n \in Sizes : Goal(TcpRead(i, n), i, "r", "read")
    BY <1>1, <1>3, AtExecuting, StateValues DEF GuestReads, Bits, Session
  <2>2. i \in Index BY <1>1, AtExecuting DEF Session
  <2>3. PICK st \in SessionState : st = TcpRead(i, n) BY <2>2, StateValues
  <2>4. Goal(st, i, "r", "read") BY <2>1, <2>3
  <2>5. st.tag = "TcpRead" /\ st.fd = i BY <2>2, <2>3, StateValues
  <2> HIDE DEF Goal
  <2> QED BY <1>2, <2>4, <2>5 DEF Bits
<1>4. CASE GuestWrites
  <2>1. PICK i \in My.backends, n \in Sizes : Goal(TcpWrite(i, n, 0), i, "w", "write")
    BY <1>1, <1>4, AtExecuting, StateValues DEF GuestWrites, Bits, Session
  <2>2. i \in Index /\ (0 < n \/ n = 0) BY <1>1, AtExecuting DEF Session
  <2>3. PICK st \in SessionState : st = TcpWrite(i, n, 0) BY <2>2, StateValues
  <2>4. Goal(st, i, "w", "write") BY <2>1, <2>3
  <2>5. st.tag = "TcpWrite" /\ st.fd = i /\ st.written = 0 /\ (0 < st.size \/ st.size = 0)
    BY <2>2, <2>3, StateValues
  <2> HIDE DEF Goal
  <2> QED BY <1>2, <2>4, <2>5 DEF Bits
<1> QED BY <1>3, <1>4

LEMMA GuestReturnsOK ==
  ASSUME IInv, GuestReturns
  PROVE  IInv'
<1>1. Processing("Executing") /\ MyGuest.stack = "suspended"
  BY DEF GuestReturns, GuestRuns
<1>2. PICK p \in SUBSET {"status", "body"} :
        /\ guest' = [guest EXCEPT ![Me] = [NoGuest EXCEPT !.stack = "returned",
                                                          !.prepared = p]]
        /\ session' = [session EXCEPT ![Me] = [My EXCEPT
             !.interest[My.index] = IF p = {"status", "body"} THEN @ \cup {"w"} ELSE @]]
  BY DEF GuestReturns
<1> DEFINE g == [NoGuest EXCEPT !.stack = "returned", !.prepared = p]
           b == IF p = {"status", "body"} THEN My.interest[My.index] \cup {"w"}
                                          ELSE My.interest[My.index]
           t == [My EXCEPT !.interest[My.index] = b]
<1>3. /\ g \in Guest /\ g.stack = "returned" /\ g.call = "none" /\ g.prepared = p
  BY GuestValues DEF NoGuest, Guest
<1>4. /\ t.index = My.index /\ t.backends = My.backends /\ t.state = Executing
      /\ t.interest[t.index] = b /\ t.buffered = My.buffered
  BY <1>1, AtExecuting DEF Session
<1>5. t \in Session
  <2>1. b \in SUBSET Bits BY <1>1, AtExecuting DEF Session, Bits
  <2> HIDE DEF b
  <2>2. [My.interest EXCEPT ![My.index] = b] \in [Index -> SUBSET Bits]
    BY <1>1, <2>1, AtExecuting DEF Session
  <2> QED BY <1>1, <2>2, AtExecuting DEF Session
<1>6. /\ session' = [session EXCEPT ![Me] = t] /\ guest' = [guest EXCEPT ![Me] = g]
  BY <1>2
<1>7. "w" \in b => p = {"status", "body"} BY <1>1, AtExecuting
<1>8. "r" \notin b BY <1>1, AtExecuting
<1> HIDE DEF t, g, b
<1>9. SessInv(t, g)
  BY <1>1, <1>3, <1>4, <1>5, <1>7, <1>8, AtExecuting, StateValues
     DEF SessInv, CallProtocol, ClientInterest
<1> QED BY <1>1, <1>3, <1>4, <1>6, <1>9, AtExecuting, GoesOn
        DEF GuestReturns, netVars, Running, IInv, TypeOK

\* The slab is full: the call is left without an answer and the session without
\* its turn.
LEMMA ConnectRefusedOK ==
  ASSUME IInv, ConnectRefused
  PROVE  IInv'
<1>1. Processing("Executing") /\ MyGuest.stack = "suspended"
  BY DEF ConnectRefused, GuestCalls, GuestRuns
<1> DEFINE g == [Asking(MyGuest, "connect") EXCEPT !.refused = TRUE]
<1>2. /\ g \in Guest /\ g.stack = "suspended" /\ g.call = "connect"
      /\ g.refused = TRUE /\ g.answers = <<>>
  <2>1. PICK a \in Guest : a = Asking(MyGuest, "connect") BY <1>1, AtExecuting, AskingFields
  <2>2. a.stack = "suspended" /\ a.call = "connect" /\ a.answers = <<>>
    BY <1>1, <2>1, AtExecuting, AskingFields
  <2> QED BY <2>1, <2>2 DEF Guest
<1>3. guest' = [guest EXCEPT ![Me] = g] /\ session' = [session EXCEPT ![Me] = My]
  BY <1>1, AtExecuting DEF ConnectRefused
<1>4. UNCHANGED <<batch, acceptEvent, ready, conns, kind, replies, netVars>>
      /\ pc' = "drain" /\ cur' = None
  BY DEF ConnectRefused
<1> HIDE DEF g
<1>5. SessInv(My, g)
  BY <1>1, <1>2, AtExecuting, StateValues DEF SessInv, CallProtocol, ClientInterest
<1>6. PICK s \in Sess : s = Me BY <1>1, AtExecuting
<1>7. /\ SlabInv' /\ LocalInv'
      /\ session' \in [Sess -> Session \cup {Dropped}] /\ guest' \in [Sess -> Guest]
  BY <1>1, <1>3, <1>4, <1>5, <1>6, AtExecuting, InPlace DEF IInv
<1>8. TypeOK' BY <1>4, <1>7 DEF IInv, TypeOK, netVars, PCs
<1>9. RunningOK' /\ pc' \notin Unreached BY <1>4 DEF RunningOK, Running, Unreached
<1> QED BY <1>7, <1>8, <1>9 DEF IInv

LEMMA GuestConnectsOK ==
  ASSUME IInv, GuestConnects
  PROVE  IInv'
<1>1. Processing("Executing") /\ MyGuest.stack = "suspended"
  BY DEF GuestConnects, GuestCalls, GuestRuns
<1>2. PICK s \in Sess : s = Me BY <1>1, AtExecuting
<1>3. /\ Alive(s) /\ My = session[s] /\ MyGuest = guest[s] /\ SessInv(My, MyGuest)
      /\ My \in Session /\ MyGuest \in Guest /\ replies[s] = 0
      /\ "w" \notin My.interest[My.index] /\ "r" \notin My.interest[My.index]
  BY <1>1, <1>2, AtExecuting
<1>4. Slots(s) = Streams(s) BY <1>3 DEF IInv, SlabInv
<1>5. PICK i \in Index :
        /\ conns[i] = None
        /\ conns' = [conns EXCEPT ![i] = s]
        /\ session' = [session EXCEPT ![s] = AddBackend(My, i)]
        /\ sock' = [sock EXCEPT ![s][i] = NewSocket("connecting")]
  BY <1>2, <1>3 DEF GuestConnects
<1> DEFINE t == AddBackend(My, i)
           g == Asking(MyGuest, "connect")
<1>6. i \notin Streams(s) BY <1>4, <1>5 DEF Slots, IInv, TypeOK
<1>7. /\ t.index = My.index /\ t.backends = My.backends \cup {i}
      /\ t.state = Connecting(i) /\ t.interest[t.index] = My.interest[My.index]
      /\ t.buffered = My.buffered
  BY <1>3, <1>6 DEF AddBackend, Session, Streams
<1>8. t \in Session
  <2>1. /\ [My.readiness EXCEPT ![i] = {}] \in [Index -> SUBSET Bits]
        /\ [My.missed EXCEPT ![i] = {}] \in [Index -> SUBSET Bits]
        /\ [My.interest EXCEPT ![i] = {"w", "h"}] \in [Index -> SUBSET Bits]
        /\ My.backends \cup {i} \in SUBSET Index
    BY <1>3 DEF Session, Bits
  <2> QED BY <1>3, <2>1, StateValues DEF AddBackend, Session
<1>9. /\ g \in Guest /\ g.stack = "suspended" /\ g.call = "connect" /\ g.answers = <<>>
  BY <1>1, <1>3, AskingFields
<1>10. /\ guest' = [guest EXCEPT ![s] = g]
       /\ pc' = "drain" /\ cur' = None
       /\ UNCHANGED <<batch, acceptEvent, ready, kind, replies, backlog, listenEdge>>
  BY <1>2, <1>3 DEF GuestConnects
<1>11. session' = [session EXCEPT ![s] = t] BY <1>5
<1> HIDE DEF t, g
<1>12. SessInv(t, g)
  <2>1. t.index \notin t.backends BY <1>3, <1>6, <1>7 DEF SessInv, Streams
  <2> QED BY <1>3, <1>7, <1>8, <1>9, <2>1, StateValues
          DEF SessInv, CallProtocol, Pending, ClientInterest
<1>13. TypeOK'
  <2>1. session' \in [Sess -> Session \cup {Dropped}] /\ guest' \in [Sess -> Guest]
    BY <1>8, <1>9, <1>10, <1>11 DEF IInv, TypeOK
  <2>2. conns' \in [Index -> Sess \cup {None}] BY <1>5 DEF IInv, TypeOK
  <2>3. sock' \in [Sess -> [Index -> Socket]] BY <1>5, SocketValues DEF IInv, TypeOK
  <2> QED BY <1>10, <2>1, <2>2, <2>3 DEF IInv, TypeOK, PCs
<1>14. RunningOK' /\ pc' \notin Unreached BY <1>10 DEF RunningOK, Running, Unreached
<1>15. /\ conns'[i] = s /\ \A j \in Index \ {i} : conns'[j] = conns[j]
       /\ session'[s] = t /\ guest'[s] = g /\ replies' = replies
       /\ \A u \in Sess \ {s} : session'[u] = session[u] /\ guest'[u] = guest[u]
  BY <1>5, <1>10, <1>11 DEF IInv, TypeOK
<1>16. t.index # None BY <1>3, <1>7 DEF Alive
<1>17. SlabInv'
  <2>1. ASSUME NEW j \in Index, conns'[j] # None
        PROVE  (Alive(conns[j]) /\ j \in Streams(conns[j]))'
    <3>1. CASE j = i BY <1>7, <1>15, <1>16, <3>1 DEF Alive, Streams
    <3>2. CASE j # i
      <4>1. PICK u \in Sess : u = conns[j] /\ conns'[j] = u
        BY <1>15, <2>1, <3>2 DEF IInv, TypeOK
      <4>2. Alive(u) /\ j \in Streams(u)
        BY <1>15, <2>1, <3>2, <4>1 DEF IInv, SlabInv
      <4>3. session'[u].index # None /\ j \in {session'[u].index} \cup session'[u].backends
        BY <1>3, <1>7, <1>15, <1>16, <4>2 DEF Alive, Streams
      <4> QED BY <4>1, <4>3 DEF Alive, Streams
    <3> QED BY <3>1, <3>2
  <2>2. ASSUME NEW u \in Sess, Alive(u)'
        PROVE  /\ Slots(u)' # {}
               /\ replies'[u] = 0 => Slots(u)' = Streams(u)'
               /\ replies'[u] # 0 => guest'[u].stack = "returned"
    <3>1. CASE u = s
      <4>1. Slots(s)' = Slots(s) \cup {i} BY <1>5, <1>15 DEF Slots
      <4>2. Streams(s)' = Streams(s) \cup {i}
        BY <1>3, <1>7, <1>15 DEF Streams
      <4> QED BY <1>3, <1>4, <1>15, <3>1, <4>1, <4>2
    <3>2. CASE u # s
      <4>1. /\ session'[u] = session[u]
            /\ \A j \in Index : conns'[j] = u <=> conns[j] = u
        BY <1>5, <1>15, <3>2
      <4>2. Alive(u) /\ Slots(u)' = Slots(u) /\ Streams(u)' = Streams(u)
        BY <2>2, <4>1 DEF Alive, Slots, Streams
      <4> QED BY <1>15, <3>2, <4>2 DEF IInv, SlabInv
    <3> QED BY <3>1, <3>2
  <2>3. ASSUME NEW u \in Sess, ~Alive(u)'
        PROVE  guest'[u] = NoGuest /\ replies'[u] = 0
    <3>1. u # s BY <1>15, <1>16, <2>3 DEF Alive
    <3>2. ~Alive(u) BY <1>15, <2>3, <3>1 DEF Alive
    <3> QED BY <1>15, <3>1, <3>2 DEF IInv, SlabInv
  <2> QED BY <2>1, <2>2, <2>3 DEF SlabInv
<1>18. LocalInv'
  BY <1>12, <1>15 DEF LocalInv, IInv, Alive
<1> QED BY <1>13, <1>14, <1>17, <1>18 DEF IInv

(***************************************************************************)
(* A suspended call.                                                       *)
(***************************************************************************)

\* What is known when a tcp_read or tcp_write is processed.
LEMMA AtCall ==
  ASSUME IInv, Processing("TcpRead") \/ Processing("TcpWrite")
  PROVE  /\ pc \in Running /\ cur \in Index /\ Me \in Sess /\ Alive(Me)
         /\ My = session[Me] /\ MyGuest = guest[Me] /\ SessInv(My, MyGuest)
         /\ My \in Session /\ MyGuest \in Guest /\ conns[cur] # None
         /\ session \in [Sess -> Session \cup {Dropped}] /\ guest \in [Sess -> Guest]
         /\ sock \in [Sess -> [Index -> Socket]]
         /\ Fd \in Index /\ Peer \in Socket
         /\ MyGuest.stack = "suspended" /\ MyGuest.answers = <<>>
         /\ replies[Me] = 0
         /\ "w" \notin My.interest[My.index] /\ "r" \notin My.interest[My.index]
<1>1. pc \in Running /\ My.state.tag \in {"TcpRead", "TcpWrite"}
  BY DEF Processing, AtProcess, Running
<1>2. /\ cur \in Index /\ Me \in Sess /\ Alive(Me) /\ My = session[Me]
      /\ MyGuest = guest[Me] /\ SessInv(My, MyGuest) /\ conns[cur] # None
      /\ My \in Session /\ MyGuest \in Guest
      /\ session \in [Sess -> Session \cup {Dropped}] /\ guest \in [Sess -> Guest]
      /\ sock \in [Sess -> [Index -> Socket]]
  BY <1>1, MeAlive DEF IInv, RunningOK, TypeOK
<1>3. Fd \in Index BY <1>1, <1>2, StateFields DEF Session, Fd
<1>4. MyGuest.stack = "suspended" /\ MyGuest.answers = <<>>
  BY <1>1, <1>2 DEF SessInv, CallProtocol, Pending
<1>5. replies[Me] = 0 BY <1>2, <1>4 DEF IInv, SlabInv
<1>6. "w" \notin My.interest[My.index] /\ "r" \notin My.interest[My.index]
  BY <1>1, <1>2, <1>4, StateValues DEF SessInv, ClientInterest
<1> QED BY <1>1, <1>2, <1>3, <1>4, <1>5, <1>6 DEF Peer

LEMMA AnswerOK ==
  ASSUME IInv, Processing("TcpRead") \/ Processing("TcpWrite"),
         NEW v \in Int, NEW h \in Guest, h.stack = "suspended", h.answers = <<>>,
         NEW k \in Socket, NEW lost \in SUBSET Bits, Answer(v, h, k, lost)
  PROVE  IInv'
<1> DEFINE t == [My EXCEPT !.state = Executing, !.readiness[Fd] = @ \ lost]
           g == Answered(h, v)
<1>1. /\ g \in Guest /\ g.stack = "suspended" /\ Len(g.answers) = 1
  <2>1. g = [h EXCEPT !.answers = <<v>>] BY DEF Answered
  <2>2. g.stack = "suspended" /\ g.answers = <<v>> BY <2>1 DEF Guest
  <2> QED BY <2>2, GuestValues
<1>2. /\ t.index = My.index /\ t.backends = My.backends /\ t.state = Executing
      /\ t.interest = My.interest /\ t.buffered = My.buffered
  BY AtCall DEF Session
<1>3. t \in Session
  <2>1. My.readiness[Fd] \ lost \in SUBSET Bits BY AtCall DEF Session
  <2> QED BY <2>1, AtCall, StateValues, SessionEdits
<1>4. /\ session' = [session EXCEPT ![Me] = t] /\ guest' = [guest EXCEPT ![Me] = g]
      /\ sock' \in [Sess -> [Index -> Socket]]
  BY AtCall DEF Answer
<1> HIDE DEF t, g
<1>5. SessInv(t, g)
  BY <1>1, <1>2, <1>3, AtCall, StateValues DEF SessInv, CallProtocol, ClientInterest
<1> QED BY <1>1, <1>2, <1>4, <1>5, AtCall, GoesOn DEF Answer, Running

LEMMA ReadsOK ==
  ASSUME IInv, ReadSome \/ ReadError \/ ReadNothing
  PROVE  IInv'
<1>1. Processing("TcpRead") BY DEF ReadSome, ReadError, ReadNothing
<1>2. PICK k \in Socket : k = Peer BY <1>1, AtCall
<1>3. CASE ReadSome
  <2>1. My.state.size \in Nat
    BY <1>1, AtCall, StateFields DEF Session, Processing
  <2> DEFINE n == IF k.avail < My.state.size THEN k.avail ELSE My.state.size
             left == k.avail - n
  <2>2. n \in Int /\ left \in Nat BY <2>1 DEF Socket
  <2>3. Answer(n, MyGuest, [k EXCEPT !.avail = left], {})
    BY <1>2, <1>3 DEF ReadSome
  <2> HIDE DEF n, left
  <2>4. [k EXCEPT !.avail = left] \in Socket BY <2>2 DEF Socket
  <2> QED BY <1>1, <2>2, <2>3, <2>4, AtCall, AnswerOK
<1>4. CASE ReadError
  <2>1. [k EXCEPT !.phase = "dead"] \in Socket BY DEF Socket
  <2>2. PICK v \in Int : v = -1 OBVIOUS
  <2>3. Answer(v, MyGuest, [k EXCEPT !.phase = "dead"], {})
    BY <1>2, <1>4, <2>2 DEF ReadError
  <2> QED BY <1>1, <2>1, <2>3, AtCall, AnswerOK
<1>5. CASE ReadNothing
  <2>1. Answer(0, MyGuest, k, {"r"}) BY <1>2, <1>5 DEF ReadNothing
  <2> QED BY <1>1, <2>1, AtCall, AnswerOK DEF Bits
<1> QED BY <1>3, <1>4, <1>5

LEMMA WritesOK ==
  ASSUME IInv, WriteSome \/ WriteBlocks \/ WriteError
  PROVE  IInv'
<1>1. Processing("TcpWrite") BY DEF WriteSome, WriteBlocks, WriteError
<1>2. PICK k \in Socket : k = Peer BY <1>1, AtCall
<1>3. /\ My.state.size \in Nat /\ My.state.written \in Nat
      /\ My.state = TcpWrite(Fd, My.state.size, My.state.written)
      /\ My.state.size \in Sizes
      /\ Pending(My, MyGuest, "write")
      /\ My.state.written = MyGuest.taken
      /\ MyGuest.taken < My.state.size \/ My.state.size = 0
  BY <1>1, AtCall, StateFields DEF Session, Processing, SessInv, CallProtocol, Fd
<1>4. CASE WriteSome
  <2> DEFINE left == My.state.size - My.state.written
             n    == IF k.space < left THEN k.space ELSE left
             g    == [MyGuest EXCEPT !.taken = @ + n]
  <2>0. MyGuest.taken < My.state.size BY <1>3, <1>4 DEF WriteSome
  <2>1. /\ n \in Nat /\ n <= left /\ k.space - n \in 0..MaxSpace
        /\ My.state.size \in Int
    BY <1>3, <2>0 DEF Socket
  <2>2. g \in Guest /\ g.stack = "suspended" /\ g.answers = <<>>
    <3>1. MyGuest.taken + n \in Nat BY <1>1, <2>1, AtCall DEF Guest
    <3> HIDE DEF n
    <3> QED BY <1>1, <3>1, AtCall DEF Guest
  <2>3. [k EXCEPT !.space = @ - n] \in Socket BY <2>1 DEF Socket
  <2>4. CASE n = left
    <3>1. Answer(My.state.size, g, [k EXCEPT !.space = @ - n], {})
      BY <1>2, <1>4, <2>4 DEF WriteSome
    <3> HIDE DEF n, left, g
    <3> QED BY <1>1, <2>1, <2>2, <2>3, <3>1, AnswerOK
  <2>5. CASE n # left
    <3> DEFINE t == [My EXCEPT !.state.written = @ + n]
    <3>1. /\ session' = [session EXCEPT ![Me] = t]
          /\ guest' = [guest EXCEPT ![Me] = g]
          /\ sock' = [sock EXCEPT ![Me][Fd] = [k EXCEPT !.space = @ - n]]
          /\ pc' = "process"
          /\ UNCHANGED <<cur, batch, acceptEvent, ready, conns, kind, replies,
                         backlog, listenEdge>>
      BY <1>2, <1>4, <2>5 DEF WriteSome
    <3>2. My.state.written + n < My.state.size /\ My.state.written + n \in Nat
      BY <1>3, <2>0, <2>1, <2>5
    <3>3. t.state = TcpWrite(Fd, My.state.size, My.state.written + n)
      <4>1. t.state = [My.state EXCEPT !.written = @ + n] BY <1>1, AtCall DEF Session
      <4> HIDE DEF n
      <4>2. \A f, z, w : [TcpWrite(f, z, w) EXCEPT !.written = @ + n] = TcpWrite(f, z, w + n)
        BY DEF TcpWrite
      <4> QED BY <1>3, <4>1, <4>2
    <3>4. /\ t.index = My.index /\ t.backends = My.backends
          /\ t.interest = My.interest /\ t.buffered = My.buffered
          /\ t.readiness = My.readiness
      BY <1>1, AtCall DEF Session
    <3>5. t.state \in SessionState BY <1>1, <1>3, <3>2, <3>3, AtCall, StateValues
    <3>6. t \in Session BY <1>1, <3>4, <3>5, AtCall DEF Session
    <3>7. /\ t.state.tag = "TcpWrite" /\ t.state.fd = Fd
          /\ t.state.size = My.state.size /\ t.state.written = My.state.written + n
      BY <1>1, <1>3, <3>2, <3>3, AtCall, StateValues
    <3>8. g.taken = MyGuest.taken + n /\ g.call = MyGuest.call
      BY <1>1, AtCall DEF Guest
    <3>9. sock' \in [Sess -> [Index -> Socket]]
      BY <1>1, <2>3, <3>1, AtCall
    <3> HIDE DEF t, g, n, left
    <3>10. SessInv(t, g)
      BY <1>1, <1>3, <2>2, <3>2, <3>4, <3>6, <3>7, <3>8, AtCall, StateValues
         DEF SessInv, CallProtocol, Pending, ClientInterest, Fd
    <3> QED BY <1>1, <2>2, <3>1, <3>4, <3>9, <3>10, AtCall, GoesOn DEF Running
  <2> QED BY <2>4, <2>5
<1>5. CASE WriteBlocks
  <2> DEFINE t == [My EXCEPT !.readiness[Fd] = @ \ {"w"}]
  <2>1. /\ t.index = My.index /\ t.backends = My.backends /\ t.state = My.state
        /\ t.interest = My.interest /\ t.buffered = My.buffered
    BY <1>1, AtCall DEF Session
  <2>2. t \in Session
    <3>1. [My.readiness EXCEPT ![Fd] = @ \ {"w"}] \in [Index -> SUBSET Bits]
      BY <1>1, AtCall DEF Session
    <3> QED BY <1>1, <3>1, AtCall DEF Session
  <2>3. sock' \in [Sess -> [Index -> Socket]]
    <3>1. [k EXCEPT !.full = TRUE] \in Socket BY DEF Socket
    <3> QED BY <1>1, <1>2, <1>5, <3>1, AtCall DEF WriteBlocks, Peer
  <2>4. /\ session' = [session EXCEPT ![Me] = t]
        /\ guest' = [guest EXCEPT ![Me] = MyGuest]
    BY <1>1, <1>5, AtCall DEF WriteBlocks
  <2> HIDE DEF t
  <2>5. SessInv(t, MyGuest)
    BY <1>1, <2>1, <2>2, AtCall DEF SessInv, CallProtocol, Pending, ClientInterest
  <2> QED BY <1>1, <1>5, <2>1, <2>3, <2>4, <2>5, AtCall, GoesOn DEF WriteBlocks, Running
<1>6. CASE WriteError
  <2>1. [k EXCEPT !.phase = "dead"] \in Socket BY DEF Socket
  <2>2. PICK v \in Int : v = -1 OBVIOUS
  <2>3. Answer(v, MyGuest, [k EXCEPT !.phase = "dead"], {})
    BY <1>2, <1>6, <2>2 DEF WriteError
  <2> QED BY <1>1, <2>1, <2>3, AtCall, AnswerOK
<1> QED BY <1>4, <1>5, <1>6

\* A call of size 0 is answered with 0.
LEMMA ZeroOK ==
  ASSUME IInv, NEW tag \in {"TcpRead", "TcpWrite"}, NEW bit \in Bits, NothingAsked(tag, bit)
  PROVE  IInv'
<1>1. /\ Processing("TcpRead") \/ Processing("TcpWrite")
      /\ session' = [session EXCEPT
           ![Me] = [My EXCEPT !.state = Executing, !.readiness[Fd] = @ \ {bit},
                              !.missed[Fd] = @ \cup {bit}]]
      /\ guest' = [guest EXCEPT ![Me] = Answered(MyGuest, 0)]
      /\ pc' = "execute"
      /\ UNCHANGED <<cur, batch, acceptEvent, ready, conns, kind, replies, netVars>>
  BY DEF NothingAsked, MyGuest
<1> DEFINE t == [My EXCEPT !.state = Executing, !.readiness[Fd] = @ \ {bit},
                           !.missed[Fd] = @ \cup {bit}]
           g == Answered(MyGuest, 0)
<1>2. /\ g \in Guest /\ g.stack = "suspended" /\ Len(g.answers) = 1
  <2>1. MyGuest \in Guest /\ MyGuest.stack = "suspended" /\ MyGuest.answers = <<>>
    BY <1>1, AtCall
  <2>2. PICK v \in Int : v = 0 OBVIOUS
  <2>3. g = [MyGuest EXCEPT !.answers = <<v>>] BY <2>1, <2>2 DEF Answered
  <2>4. g.stack = "suspended" /\ g.answers = <<v>> BY <2>1, <2>3 DEF Guest
  <2>5. Answered(MyGuest, v) \in Guest BY <2>1, GuestValues
  <2> QED BY <2>2, <2>4, <2>5
<1>3. /\ t.index = My.index /\ t.backends = My.backends /\ t.state = Executing
      /\ t.interest = My.interest /\ t.buffered = My.buffered
  BY <1>1, AtCall DEF Session
<1>4. t \in Session
  <2>1. /\ [My.readiness EXCEPT ![Fd] = @ \ {bit}] \in [Index -> SUBSET Bits]
        /\ [My.missed EXCEPT ![Fd] = @ \cup {bit}] \in [Index -> SUBSET Bits]
    BY <1>1, AtCall DEF Session, Bits
  <2> QED BY <1>1, <2>1, AtCall, StateValues DEF Session
<1>5. session' = [session EXCEPT ![Me] = t] /\ guest' = [guest EXCEPT ![Me] = g]
  BY <1>1
<1>6. sock' \in [Sess -> [Index -> Socket]] BY <1>1 DEF netVars, IInv, TypeOK
<1> HIDE DEF t, g
<1>7. SessInv(t, g)
  BY <1>1, <1>2, <1>3, <1>4, AtCall, StateValues DEF SessInv, CallProtocol, ClientInterest
<1> QED BY <1>1, <1>2, <1>3, <1>5, <1>6, <1>7, AtCall, GoesOn DEF Running, netVars

(***************************************************************************)
(* How a tcp_write ends.                                                   *)
(***************************************************************************)

Ends(s) ==
  /\ Alive(s) /\ session[s].state.tag = "TcpWrite"
  /\ session'[s] # session[s] /\ session'[s].index # None
  /\ session'[s].state = Executing

AllOrError(s) ==
  LET n == guest'[s].answers[1]
  IN n = -1 \/ (n = session[s].state.size /\ guest'[s].taken = n)

\* Only the thread that processes the call ends it.
LEMMA EndsProcessed ==
  ASSUME IInv, Next, NEW s \in Sess, Ends(s)
  PROVE  s = Me /\ (WriteSome \/ WriteError \/ WriteZero)
<1>1. session \in [Sess -> Session \cup {Dropped}] /\ session[s].state # Executing
  BY StateValues DEF IInv, TypeOK, Ends
<1>2. session'[s] # session[s] /\ session'[s].index # None /\ session'[s].state # session[s].state
  BY <1>1 DEF Ends
<1>3. session[s].state.tag = "TcpWrite" /\ session[s] \in Session
  BY <1>1 DEF Ends, Alive, Dropped
<1>4. ASSUME UNCHANGED session PROVE FALSE
  BY <1>2, <1>4
<1>5. ASSUME NEW e \in batch, Event(e) PROVE FALSE
  <2>1. UNCHANGED session \/ session' = [session EXCEPT ![conns[e.index]] = Noted(conns[e.index], e.index, e.mask)]
    BY <1>5 DEF Event
  <2>2. session'[s] = session[s] \/ (s = conns[e.index] /\ session'[s] = Noted(s, e.index, e.mask))
    BY <1>1, <2>1
  <2>3. session'[s] = Noted(s, e.index, e.mask) /\ ~ConnectsOn(s, e.index)
    BY <1>2, <1>3, <2>2 DEF ConnectsOn, Connecting
  <2>4. Noted(s, e.index, e.mask).state = session[s].state
    BY <1>3, <2>3 DEF Noted, Session
  <2> QED BY <1>2, <2>3, <2>4
<1>6. ASSUME EventAccept PROVE FALSE
  <2>1. UNCHANGED session \/ \E i \in Index, u \in Sess :
          ~Alive(u) /\ session' = [session EXCEPT ![u] = NewSession(i)]
    BY <1>6 DEF EventAccept
  <2> QED BY <1>1, <1>2, <2>1 DEF Ends
<1>7. ASSUME NEW t, NEW n, Close(t, n), t.state = My.state \/ My.state.tag # "TcpWrite" PROVE FALSE
  <2>1. session' = [session EXCEPT ![Me] = Dropped] \/ session' = [session EXCEPT ![Me] = t]
    BY <1>7 DEF Close
  <2>2. s = Me /\ session'[s] \in {Dropped, t}
    BY <1>1, <1>2, <2>1
  <2> QED BY <1>2, <1>3, <1>7, <2>2 DEF My, Dropped
<1>8. ASSUME NEW t, session' = [session EXCEPT ![Me] = t],
             t.state = My.state \/ My.state.tag # "TcpWrite"
      PROVE  FALSE
  BY <1>1, <1>2, <1>3, <1>8 DEF My
<1>9. CASE Poll \/ EndEvents \/ Drain \/ EndDrain \/ ParsePartial \/ CreateInstance \/ ConnectRefused
  BY <1>4, <1>9 DEF Poll, EndEvents, Drain, EndDrain, ParsePartial, CreateInstance,
                    ConnectRefused, sessVars
<1>10. CASE InstantiatePanic \/ ResumeEmpty \/ GuestFault \/ ConnectPanic
              \/ ExecutedWhileConnecting \/ ReadParks \/ WriteParks
  BY <1>4, <1>10 DEF InstantiatePanic, ResumeEmpty, GuestFault, ConnectPanic,
       ExecutedWhileConnecting, ReadParks, WriteParks, Panic, Park, sessVars
<1>11. CASE Peers
  <2>1. \A u \in Sess, i \in Index : \A k : Changes(u, i, k) => UNCHANGED session
    BY DEF Changes, sessVars
  <2>2. ClientConnects => UNCHANGED session BY DEF ClientConnects, sessVars
  <2>3. ASSUME NEW u \in Sess, NEW i \in Index,
               \/ PeerSends(u, i) \/ PeerCloses(u, i) \/ PeerResets(u, i)
               \/ PeerDrains(u, i) \/ ConnectDone(u, i) \/ ConnectFails(u, i)
        PROVE  UNCHANGED session
    <3>1. \E k : Changes(u, i, k)
      BY <2>3, Zenon DEF PeerSends, PeerCloses, PeerResets, PeerDrains, ConnectDone, ConnectFails
    <3> QED BY <3>1, <2>1
  <2> QED BY <1>4, <1>11, <2>2, <2>3 DEF Peers
<1>12. CASE FrontReadable
  <2>1. My.state = Waiting
    BY <1>12, ReadsWaiting DEF FrontReadable
  <2>2. \/ Close(My, 0)
        \/ \E t : session' = [session EXCEPT ![Me] = t]
    BY <1>12 DEF FrontReadable
  <2> QED BY <1>7, <1>8, <2>1, <2>2, StateValues
<1>13. CASE FrontWritable
  <2>1. UNCHANGED session \/ Close(My, 1)
    BY <1>13 DEF FrontWritable, Panic, sessVars
  <2> QED BY <1>4, <1>7, <2>1
<1>14. CASE ParseError \/ NoRoute
  BY <1>7, <1>14 DEF ParseError, NoRoute, Processing
<1>15. CASE ParseComplete \/ GuestReads \/ GuestWrites \/ GuestReturns
  <2>1. My.state.tag # "TcpWrite"
    BY <1>15 DEF ParseComplete, GuestReads, GuestWrites, GuestReturns, GuestCalls,
                 GuestRuns, Processing
  <2>2. ParseComplete => \E t : session' = [session EXCEPT ![Me] = t]
    BY Zenon DEF ParseComplete
  <2>3. GuestReads => \E t : session' = [session EXCEPT ![Me] = t]
    BY Zenon DEF GuestReads
  <2>4. GuestWrites => \E t : session' = [session EXCEPT ![Me] = t]
    BY Zenon DEF GuestWrites
  <2>5. GuestReturns => \E t : session' = [session EXCEPT ![Me] = t]
    BY Zenon DEF GuestReturns
  <2> QED BY <1>8, <1>15, <2>1, <2>2, <2>3, <2>4, <2>5
<1>16. CASE GuestConnects
  <2>1. My.state.tag # "TcpWrite"
    BY <1>16 DEF GuestConnects, GuestCalls, GuestRuns, Processing
  <2>2. \E i \in Index : session' = [session EXCEPT ![Me] = AddBackend(@, i)]
    BY <1>16 DEF GuestConnects
  <2>3. \E t : session' = [session EXCEPT ![Me] = t]
    BY <2>2
  <2> QED BY <1>8, <2>1, <2>3
<1>17. CASE ReadSome \/ ReadError \/ ReadNothing \/ ReadZero
  <2>1. My.state.tag # "TcpWrite"
    BY <1>17 DEF ReadSome, ReadError, ReadNothing, ReadZero, NothingAsked, Processing
  <2>2. \E t : session' = [session EXCEPT ![Me] = t]
    BY <1>17 DEF ReadSome, ReadError, ReadNothing, ReadZero, NothingAsked, Answer
  <2> QED BY <1>8, <2>1, <2>2
<1>18. CASE WriteBlocks
  <2>1. session' = [session EXCEPT ![Me] = [My EXCEPT !.readiness[Fd] = @ \ {"w"}]]
    BY <1>18 DEF WriteBlocks
  <2>2. Processing("TcpWrite") BY <1>18 DEF WriteBlocks
  <2>3. [My EXCEPT !.readiness[Fd] = @ \ {"w"}].state = My.state
    BY <2>2, AtCall DEF Session
  <2> QED BY <1>8, <2>1, <2>3
<1>19. CASE WriteSome \/ WriteError \/ WriteZero
  <2>1. \E t : session' = [session EXCEPT ![Me] = t]
    BY <1>19 DEF WriteSome, WriteError, WriteZero, NothingAsked, Answer
  <2>2. s = Me BY <1>1, <1>2, <2>1
  <2> QED BY <1>19, <2>2
<1> QED
  BY <1>5, <1>6, <1>9, <1>10, <1>11, <1>12, <1>13, <1>14, <1>15, <1>16, <1>17, <1>18, <1>19
     DEF Next, Server

LEMMA EndsWell ==
  ASSUME IInv, Next, NEW s \in Sess, Ends(s)
  PROVE  AllOrError(s)
<1>1. s = Me /\ (WriteSome \/ WriteError \/ WriteZero) BY EndsProcessed
<1>2. Processing("TcpWrite") BY <1>1 DEF WriteSome, WriteError, WriteZero, NothingAsked
<1>3. /\ MyGuest.stack = "suspended" /\ MyGuest.answers = <<>> /\ MyGuest \in Guest
      /\ My = session[Me] /\ My.state \in SessionState
      /\ My.state.tag = "TcpWrite"
      /\ My.state.written = MyGuest.taken
      /\ guest \in [Sess -> Guest] /\ session \in [Sess -> Session \cup {Dropped}]
  BY <1>2, AtCall DEF SessInv, Session, Processing
<1>4. My.state.size \in Nat /\ My.state.written \in Nat
  BY <1>3, StateFields
<1>5. CASE WriteError
  <2>1. guest' = [guest EXCEPT ![Me] = Answered(MyGuest, -1)]
    BY <1>5 DEF WriteError, Answer
  <2>2. Answered(MyGuest, -1).answers[1] = -1
    BY <1>3 DEF Answered, Guest
  <2> QED BY <1>1, <1>3, <2>1, <2>2 DEF AllOrError
<1>6. CASE WriteSome
  <2> DEFINE left == My.state.size - My.state.written
             n == IF Peer.space < left THEN Peer.space ELSE left
             g == [MyGuest EXCEPT !.taken = @ + n]
  <2>1. CASE n = left
    <3>1. guest' = [guest EXCEPT ![Me] = Answered(g, My.state.size)]
      BY <1>6, <2>1 DEF WriteSome, Answer
    <3>2. MyGuest.taken + n = My.state.size
      BY <1>3, <1>4, <2>1
    <3>3. g = [MyGuest EXCEPT !.taken = My.state.size]
      BY <3>2
    <3> HIDE DEF g
    <3>4. /\ Answered(g, My.state.size).answers[1] = My.state.size
          /\ Answered(g, My.state.size).taken = My.state.size
      BY <1>3, <3>3 DEF Answered, Guest
    <3> QED BY <1>1, <1>3, <3>1, <3>4 DEF AllOrError
  <2>2. CASE n # left
    <3>1. session' = [session EXCEPT ![Me] = [My EXCEPT !.state.written = @ + n]]
      BY <1>6, <2>2 DEF WriteSome
    <3>2. session'[s] = [My EXCEPT !.state.written = @ + n]
      BY <1>1, <1>3, <3>1
    <3> HIDE DEF n
    <3>3. session'[s].state.tag = "TcpWrite"
      BY <1>3, <1>2, <3>2, StateFields, AtCall DEF Session, TcpWrite
    <3> QED BY <3>3, StateValues DEF Ends
  <2> QED BY <2>1, <2>2
<1>7. CASE WriteZero
  <2>1. /\ guest' = [guest EXCEPT ![Me] = Answered(MyGuest, 0)] /\ My.state.size = 0
    BY <1>7, Zenon DEF WriteZero, NothingAsked, MyGuest
  <2>2. MyGuest.taken = 0
    <3>1. SessInv(My, MyGuest) /\ MyGuest.taken \in Nat
      BY <1>2, <1>3, AtCall DEF Guest
    <3> QED BY <1>3, <2>1, <3>1 DEF SessInv
  <2>3. Answered(MyGuest, 0).answers[1] = 0 /\ Answered(MyGuest, 0).taken = MyGuest.taken
    BY <1>3 DEF Answered, Guest
  <2> QED BY <1>1, <1>3, <2>1, <2>2, <2>3 DEF AllOrError
<1> QED BY <1>1, <1>5, <1>6, <1>7

(***************************************************************************)
(* The theorems.                                                           *)
(***************************************************************************)

LEMMA StepOK ==
  ASSUME IInv, [Next]_vars
  PROVE  IInv'
<1>1. CASE Poll BY <1>1, PollOK
<1>2. CASE EventAccept BY <1>2, EventAcceptOK
<1>3. ASSUME NEW e \in batch, Event(e) PROVE IInv' BY <1>3, EventOK
<1>4. CASE EndEvents \/ Drain \/ EndDrain BY <1>4, LoopOK
<1>5. CASE FrontReadable BY <1>5, FrontReadableOK
<1>6. CASE FrontWritable BY <1>6, FrontWritableOK
<1>7. CASE ParseError \/ ParsePartial \/ ParseComplete BY <1>7, ParseOK
<1>8. CASE NoRoute \/ CreateInstance BY <1>8, CreateOK
<1>9. CASE InstantiatePanic \/ ResumeEmpty \/ GuestFault \/ ConnectPanic
             \/ ExecutedWhileConnecting \/ ReadParks \/ WriteParks
  BY <1>9, StopsOK
<1>10. CASE GuestConnects BY <1>10, GuestConnectsOK
<1>11. CASE ConnectRefused BY <1>11, ConnectRefusedOK
<1>12. CASE GuestReads \/ GuestWrites BY <1>12, GuestAsksOK
<1>13. CASE GuestReturns BY <1>13, GuestReturnsOK
<1>14. CASE ReadSome \/ ReadError \/ ReadNothing BY <1>14, ReadsOK
<1>15. CASE WriteSome \/ WriteBlocks \/ WriteError BY <1>15, WritesOK
<1>16. CASE Peers BY <1>16, PeersOK
<1>17. CASE ReadZero \/ WriteZero BY <1>17, ZeroOK DEF ReadZero, WriteZero, Bits
<1>18. CASE UNCHANGED vars
  BY <1>18, MovesOn
     DEF vars, loopVars, netVars, IInv, TypeOK, RunningOK, PCs, Running, Unreached
<1> QED
  BY <1>1, <1>2, <1>3, <1>4, <1>5, <1>6, <1>7, <1>8, <1>9, <1>10, <1>11, <1>12,
     <1>13, <1>14, <1>15, <1>16, <1>17, <1>18 DEF Next, Server

\* The invariant the other theorems follow from: it holds at first, and every step
\* of the server and of its peers preserves it.
THEOREM Inductive == Spec => []IInv
BY InitIInv, StepOK, PTL DEF Spec

\* Every variable keeps its type, whatever the peers and the guests do.
THEOREM TypeCorrect == Spec => []TypeOK
<1>1. IInv => TypeOK BY DEF IInv
<1> QED BY <1>1, Inductive, PTL

\* The slab and the sessions agree (SlabConsistent): the tokens of the event loop
\* never lead to a session that is gone or that does not know them.
THEOREM SlabAgrees == Spec => []SlabConsistent
<1>1. IInv => SlabConsistent
  BY DEF IInv, SlabInv, LocalInv, SessInv, SlabConsistent
<1> QED BY <1>1, Inductive, PTL

\* A suspended host call, its session's state and its guest's stack stay in step
\* (HostCallProtocol): no call is answered twice, and none is resumed without its
\* answer but the tcp_connect that found the slab full.
THEOREM CallsAreAnswered == Spec => []HostCallProtocol
<1>1. IInv => HostCallProtocol
  BY DEF IInv, LocalInv, SessInv, HostCallProtocol
<1> QED BY <1>1, Inductive, PTL

\* front_writable never unwraps a response that is not there, and front_readable
\* is only reached while the request is awaited (NoUnwrapPanic).
THEOREM ResponsesAreThere == Spec => []NoUnwrapPanic
<1>1. IInv => NoUnwrapPanic
  BY ReadsWaiting DEF IInv, NoUnwrapPanic, Unreached
<1> QED BY <1>1, Inductive, PTL

\* What a suspended tcp_write has written is what the kernel took from it, and
\* less than its size, or both are 0 (WriteProgress).
THEOREM WritesAddUp == Spec => []WriteProgress
<1>1. IInv => WriteProgress
  BY DEF IInv, LocalInv, SessInv, WriteProgress
<1> QED BY <1>1, Inductive, PTL

\* A tcp_write ends with its whole size, once the kernel took all of it, or with -1
\* (WriteAllOrError), over any number of partial writes and would-blocks.
THEOREM WritesAreWhole == Spec => WriteAllOrError
<1>1. IInv /\ [Next]_vars => [\A s \in Sess :
        /\ Alive(s) /\ session[s].state.tag = "TcpWrite"
        /\ session'[s] # session[s] /\ session'[s].index # None
        /\ session'[s].state = Executing
        => LET n == guest'[s].answers[1]
           IN n = -1 \/ (n = session[s].state.size /\ guest'[s].taken = n)]_vars
  BY EndsWell DEF Ends, AllOrError
<1> QED BY <1>1, Inductive, PTL DEF Spec, WriteAllOrError

=============================================================================
