-------------------------- MODULE AsyncCountProofs --------------------------
(***************************************************************************)
(* What is counted, for every slab of finite capacity.  SlotAccounting: a  *)
(* session holds one entry of the slab for each of its streams, less one   *)
(* for every response it has written.  TurnsEnd: the events and tokens of  *)
(* one poll, the calls of the guest and the bytes of its write are used up *)
(* by the steps of the thread, whatever the peers do.  Both rest on the    *)
(* inductive invariant of AsyncServerProofs.                               *)
(***************************************************************************)
EXTENDS AsyncServerProofs, FiniteSetTheorems

(***************************************************************************)
(* Sets of tokens.                                                         *)
(***************************************************************************)

LEMMA Countable ==
  ASSUME TypeOK, NEW s \in Sess
  PROVE  /\ IsFiniteSet(Slots(s)) /\ Cardinality(Slots(s)) \in Nat
         /\ Alive(s) => IsFiniteSet(Streams(s)) /\ Cardinality(Streams(s)) \in Nat
<1>1. Slots(s) \subseteq Index BY DEF Slots
<1>2. Alive(s) => Streams(s) \subseteq Index
  BY DEF Alive, Streams, TypeOK, Dropped, Session
<1>3. \A T \in SUBSET Index : IsFiniteSet(T) /\ Cardinality(T) \in Nat
  BY CapacityAssumption, FS_Subset, FS_CardinalityType
<1> QED BY <1>1, <1>2, <1>3

\* One session changes, and keeps its streams; the slab stays.
LEMMA Kept ==
  ASSUME TypeOK, SlotAccounting, NEW s \in Sess, NEW t,
         t.index = session[s].index, t.backends = session[s].backends,
         session' = [session EXCEPT ![s] = t], UNCHANGED <<conns, replies>>
  PROVE  SlotAccounting'
<1>1. \A u \in Sess : session'[u].index = session[u].index
                      /\ session'[u].backends = session[u].backends
  BY DEF TypeOK
<1>2. \A u \in Sess : /\ Alive(u)' <=> Alive(u)
                      /\ Slots(u)' = Slots(u) /\ Streams(u)' = Streams(u)
  BY <1>1 DEF Alive, Slots, Streams
<1> QED BY <1>2 DEF SlotAccounting

LEMMA Same ==
  ASSUME SlotAccounting, UNCHANGED <<conns, session, replies>>
  PROVE  SlotAccounting'
<1>1. \A u \in Sess : /\ Alive(u)' <=> Alive(u)
                      /\ Slots(u)' = Slots(u) /\ Streams(u)' = Streams(u)
  BY DEF Alive, Slots, Streams
<1> QED BY <1>1 DEF SlotAccounting

\* The sessions other than s keep their entries when one of s is given or taken.
LEMMA Others ==
  ASSUME TypeOK, NEW s \in Sess, NEW i \in Index, NEW v \in {s, None},
         conns[i] \in {s, None}, conns' = [conns EXCEPT ![i] = v],
         NEW t, session' = [session EXCEPT ![s] = t],
         NEW n, replies' = [replies EXCEPT ![s] = n],
         SlotAccounting,
         Alive(s)' => Cardinality(Slots(s)') + n = Cardinality(Streams(s)')
  PROVE  SlotAccounting'
<1>1. \A u \in Sess \ {s} : /\ session'[u] = session[u] /\ replies'[u] = replies[u]
                            /\ \A j \in Index : conns'[j] = u <=> conns[j] = u
  BY SlabAssumption DEF TypeOK
<1>2. \A u \in Sess \ {s} : /\ Alive(u)' <=> Alive(u)
                            /\ Slots(u)' = Slots(u) /\ Streams(u)' = Streams(u)
  BY <1>1 DEF Alive, Slots, Streams
<1>3. replies'[s] = n BY DEF TypeOK
<1>4. ASSUME NEW u \in Sess, Alive(u)'
      PROVE  Cardinality(Slots(u)') + replies'[u] = Cardinality(Streams(u)')
  <2>1. CASE u = s BY <1>3, <1>4, <2>1
  <2>2. CASE u # s BY <1>1, <1>2, <1>4, <2>2 DEF SlotAccounting
  <2> QED BY <2>1, <2>2
<1> QED BY <1>4 DEF SlotAccounting

(***************************************************************************)
(* The steps that give and take entries.                                   *)
(***************************************************************************)

LEMMA CloseCounted ==
  ASSUME IInv, SlotAccounting, pc \in Running,
         NEW t, SessInv(t, MyGuest), t.index = My.index, t.backends = My.backends,
         NEW n \in Nat,
         MyGuest.stack = "none" \/ (MyGuest.stack = "returned" /\ n = 1),
         Close(t, n)
  PROVE  SlotAccounting'
<1>1. /\ cur \in Index /\ Me \in Sess /\ Alive(Me) /\ cur \in Streams(Me)
      /\ My = session[Me] /\ MyGuest = guest[Me] /\ My \in Session
      /\ SessInv(My, MyGuest) /\ TypeOK
  BY MeAlive DEF IInv
<1>0. PICK s \in Sess : s = Me BY <1>1
<1> DEFINE held == Slots(s) \ {cur}
<1>2. MyGuest.stack = "none" => held = {}
  <2> SUFFICES ASSUME MyGuest.stack = "none" PROVE held = {} OBVIOUS
  <2>1. My.backends = {} BY <1>1 DEF SessInv
  <2>2. replies[Me] = 0 BY <1>1 DEF IInv, SlabInv
  <2>3. Slots(Me) = Streams(Me) BY <1>1, <2>2 DEF IInv, SlabInv
  <2> QED BY <1>0, <1>1, <2>1, <2>3 DEF Streams
<1>3. /\ conns' = [conns EXCEPT ![cur] = None] /\ conns[cur] = s
      /\ session' = [session EXCEPT ![s] = IF held = {} THEN Dropped ELSE t]
      /\ replies' = [replies EXCEPT ![s] = IF held = {} THEN 0 ELSE replies[s] + n]
  BY <1>0, <1>1 DEF Close, Me
<1>4. Slots(s)' = held
  BY <1>0, <1>1, <1>3, SlabAssumption DEF Slots, TypeOK
<1>5. Alive(s)' => held # {}
  BY <1>1, <1>3 DEF Alive, Dropped, TypeOK
<1>6. held # {} => Streams(s)' = Streams(s)
  BY <1>0, <1>1, <1>3 DEF Streams, TypeOK
<1>7. Cardinality(held) = Cardinality(Slots(s)) - 1 /\ Cardinality(Slots(s)) \in Nat
  <2>1. cur \in Slots(s) BY <1>1, <1>3 DEF Slots
  <2>2. IsFiniteSet(Slots(s)) /\ Cardinality(Slots(s)) \in Nat BY <1>1, Countable
  <2> QED BY <2>1, <2>2, FS_RemoveElement
<1>8. held # {} => n = 1 BY <1>2
<1>9. replies[s] \in Nat /\ Cardinality(Slots(s)) + replies[s] = Cardinality(Streams(s))
  BY <1>0, <1>1 DEF SlotAccounting, TypeOK
<1>10. Alive(s)' => Cardinality(Slots(s)') + (replies[s] + n) = Cardinality(Streams(s)')
  BY <1>4, <1>5, <1>6, <1>7, <1>8, <1>9
<1> HIDE DEF held
<1>11. PICK t1 : t1 = IF held = {} THEN Dropped ELSE t OBVIOUS
<1>12. PICK n1 : n1 = IF held = {} THEN 0 ELSE replies[s] + n OBVIOUS
<1>13. Alive(s)' => Cardinality(Slots(s)') + n1 = Cardinality(Streams(s)')
  BY <1>5, <1>10, <1>12
<1> QED BY <1>1, <1>3, <1>11, <1>12, <1>13, Others

LEMMA AcceptCounted ==
  ASSUME IInv, SlotAccounting, EventAccept
  PROVE  SlotAccounting'
<1>1. TypeOK BY DEF IInv
<1>2. CASE UNCHANGED <<conns, session>>
  BY <1>2, Same DEF EventAccept
<1>3. CASE ~UNCHANGED <<conns, session>>
  <2>1. PICK i \in Index, s \in Sess :
          /\ conns[i] = None /\ ~Alive(s)
          /\ conns' = [conns EXCEPT ![i] = s]
          /\ session' = [session EXCEPT ![s] = NewSession(i)]
    BY <1>3 DEF EventAccept
  <2>2. replies' = replies BY DEF EventAccept
  <2>3. replies[s] = 0 BY <2>1 DEF IInv, SlabInv
  <2>4. replies' = [replies EXCEPT ![s] = 0] BY <1>1, <2>2, <2>3 DEF TypeOK
  <2>5. \A j \in Index : conns[j] # s
    BY <1>1, <2>1, SlabAssumption DEF IInv, SlabInv, TypeOK
  <2>6. Slots(s)' = {i}
    BY <1>1, <2>1, <2>5 DEF Slots, TypeOK
  <2>7. Streams(s)' = {i}
    BY <1>1, <2>1 DEF Streams, TypeOK, NewSession
  <2>8. Cardinality({i}) + 0 = Cardinality({i})
    <3>1. Cardinality({i}) = 1 BY FS_Singleton, Zenon
    <3> QED BY <3>1
  <2> QED BY <1>1, <2>1, <2>4, <2>6, <2>7, <2>8, Others
<1> QED BY <1>2, <1>3

LEMMA ConnectCounted ==
  ASSUME IInv, SlotAccounting, GuestConnects
  PROVE  SlotAccounting'
<1>1. Processing("Executing") /\ MyGuest.stack = "suspended"
  BY DEF GuestConnects, GuestCalls, GuestRuns
<1>2. /\ Me \in Sess /\ Alive(Me) /\ My = session[Me] /\ My \in Session /\ TypeOK
      /\ replies[Me] = 0
  BY <1>1, AtExecuting DEF IInv
<1>3. PICK s \in Sess : s = Me BY <1>2
<1>4. PICK i \in Index :
        /\ conns[i] = None
        /\ conns' = [conns EXCEPT ![i] = Me]
        /\ session' = [session EXCEPT ![Me] = AddBackend(@, i)]
  BY DEF GuestConnects
<1>5. PICK t : t = AddBackend(session[s], i) OBVIOUS
<1>6. t.index = session[s].index /\ t.backends = session[s].backends \cup {i}
  BY <1>2, <1>3, <1>5 DEF AddBackend, Session
<1>7. /\ conns' = [conns EXCEPT ![i] = s] /\ session' = [session EXCEPT ![s] = t]
      /\ replies' = [replies EXCEPT ![s] = 0]
  BY <1>2, <1>3, <1>4, <1>5 DEF GuestConnects, TypeOK
<1>8. Slots(s) = Streams(s) BY <1>2, <1>3 DEF IInv, SlabInv
<1>9. Slots(s)' = Slots(s) \cup {i} BY <1>2, <1>7 DEF Slots, TypeOK
<1>10. Streams(s)' = Streams(s) \cup {i} BY <1>2, <1>6, <1>7 DEF Streams, TypeOK
<1>11. IsFiniteSet(Slots(s) \cup {i}) /\ Cardinality(Slots(s) \cup {i}) \in Nat
  <2>1. IsFiniteSet(Slots(s)) BY <1>2, Countable
  <2> QED BY <2>1, FS_AddElement, FS_CardinalityType
<1>12. Cardinality(Slots(s)') + 0 = Cardinality(Streams(s)')
  BY <1>8, <1>9, <1>10, <1>11
<1> QED BY <1>2, <1>4, <1>7, <1>12, Others

(***************************************************************************)
(* The steps that leave the slab alone.                                    *)
(***************************************************************************)

\* The running session becomes t.
LEMMA MineKept ==
  ASSUME IInv, SlotAccounting, pc \in Running, NEW t,
         t.index = My.index, t.backends = My.backends,
         session' = [session EXCEPT ![Me] = t], UNCHANGED <<conns, replies>>
  PROVE  SlotAccounting'
<1>1. Me \in Sess /\ My = session[Me] /\ TypeOK BY MeAlive DEF IInv
<1>2. PICK s \in Sess : s = Me BY <1>1
<1> QED BY <1>1, <1>2, Kept

LEMMA EventCounted ==
  ASSUME IInv, SlotAccounting, NEW e \in batch, Event(e)
  PROVE  SlotAccounting'
<1> DEFINE i == e.index
           s == conns[i]
<1>1. i \in Index /\ UNCHANGED <<conns, replies>> /\ TypeOK
  BY DEF IInv, TypeOK, SocketEvent, Event
<1>2. CASE s = None \/ (s # None /\ i \notin Streams(s))
  BY <1>1, <1>2, Same DEF Event
<1>3. CASE s # None /\ i \in Streams(s)
  <2>1. PICK u \in Sess : u = s BY <1>1, <1>3 DEF TypeOK
  <2>2. session[u] \in Session BY <1>1, <1>3, <2>1 DEF IInv, SlabInv, LocalInv, SessInv
  <2>3. session' = [session EXCEPT ![u] = Noted(u, i, e.mask)]
    BY <1>3, <2>1 DEF Event
  <2>4. /\ Noted(u, i, e.mask).index = session[u].index
        /\ Noted(u, i, e.mask).backends = session[u].backends
    BY <2>2 DEF Noted, Session
  <2> QED BY <1>1, <2>3, <2>4, Kept
<1> QED BY <1>2, <1>3

LEMMA FrontCounted ==
  ASSUME IInv, SlotAccounting, FrontReadable \/ FrontWritable
  PROVE  SlotAccounting'
<1>1. CASE FrontReadable
  <2>1. pc \in Running BY <1>1 DEF FrontReadable, AtFrontReadable, Running
  <2>2. MyGuest.stack = "none" /\ My.state = Waiting BY <1>1, ReadsWaiting DEF FrontReadable
  <2>3. SessInv(My, MyGuest) /\ My \in Session BY <2>1, MeAlive DEF IInv
  <2>4. CASE Close(My, 0) BY <2>1, <2>2, <2>3, <2>4, CloseCounted
  <2>5. CASE ~Close(My, 0)
    <3> DEFINE k    == sock[Me][My.index]
               room == BufLen - My.buffered
               got  == IF k.avail < room THEN k.avail ELSE room
               t    == [My EXCEPT !.buffered = @ + got,
                          !.readiness[My.index] = IF k.avail < room THEN @ \ {"r"} ELSE @]
    <3>1. session' = [session EXCEPT ![Me] = t] /\ UNCHANGED <<conns, replies>>
      BY <1>1, <2>2, <2>5 DEF FrontReadable
    <3>2. t.index = My.index /\ t.backends = My.backends BY <2>3 DEF Session
    <3> HIDE DEF t
    <3> QED BY <2>1, <3>1, <3>2, MineKept
  <2> QED BY <2>4, <2>5
<1>2. CASE FrontWritable
  <2>1. pc \in Running /\ "w" \in Front
    BY <1>2 DEF FrontWritable, AtFrontWritable, Running, IInv, Unreached
  <2>2. SessInv(My, MyGuest) BY <2>1, MeAlive DEF IInv
  <2>3. MyGuest.stack = "returned" /\ MyGuest.prepared = {"status", "body"}
    BY <2>1, <2>2 DEF Front, SessInv, ClientInterest
  <2>4. Close(My, 1) BY <1>2, <2>3 DEF FrontWritable
  <2> QED BY <2>1, <2>2, <2>3, <2>4, CloseCounted
<1> QED BY <1>1, <1>2

LEMMA ParseCounted ==
  ASSUME IInv, SlotAccounting, ParseError \/ ParsePartial \/ ParseComplete
  PROVE  SlotAccounting'
<1>1. pc \in Running /\ My.state.tag = "WaitingForRequest"
  BY DEF ParseError, ParsePartial, ParseComplete, Processing, AtProcess, Running
<1>2. SessInv(My, MyGuest) /\ My \in Session BY <1>1, MeAlive DEF IInv
<1>3. MyGuest.stack = "none" BY <1>1, <1>2 DEF SessInv, CallProtocol
<1>4. CASE ParseError BY <1>1, <1>2, <1>3, <1>4, CloseCounted DEF ParseError
<1>5. CASE ParsePartial BY <1>5, Same DEF ParsePartial, sessVars
<1>6. CASE ParseComplete
  <2>1. PICK t : t = [My EXCEPT !.state = Executing, !.interest[My.index] = @ \ {"r"}]
    OBVIOUS
  <2>2. t.index = My.index /\ t.backends = My.backends BY <1>2, <2>1 DEF Session
  <2>3. session' = [session EXCEPT ![Me] = t] /\ UNCHANGED <<conns, replies>>
    BY <1>6, <2>1 DEF ParseComplete
  <2> QED BY <1>1, <2>2, <2>3, MineKept
<1> QED BY <1>4, <1>5, <1>6

LEMMA NoRouteCounted ==
  ASSUME IInv, SlotAccounting, NoRoute
  PROVE  SlotAccounting'
<1>1. Processing("Executing") /\ MyGuest.stack = "none" BY DEF NoRoute
<1>2. /\ pc \in Running /\ My \in Session /\ SessInv(My, MyGuest)
  BY <1>1, AtExecuting
<1>3. PICK t : t = [My EXCEPT !.interest[My.index] = {}] OBVIOUS
<1>4. Close(t, 1) BY <1>3 DEF NoRoute
<1>5. /\ t.index = My.index /\ t.backends = My.backends /\ t.state = My.state
      /\ t.buffered = My.buffered /\ t.readiness = My.readiness
      /\ t.interest = [My.interest EXCEPT ![My.index] = {}] /\ t \in Session
  BY <1>2, <1>3 DEF Session
<1>6. "r" \notin t.interest[t.index] /\ "w" \notin t.interest[t.index]
  BY <1>2, <1>5 DEF Session
<1>7. SessInv(t, MyGuest)
  BY <1>2, <1>5, <1>6 DEF SessInv, CallProtocol, Pending, ClientInterest
<1> QED BY <1>1, <1>2, <1>4, <1>5, <1>7, CloseCounted

LEMMA GuestCounted ==
  ASSUME IInv, SlotAccounting, GuestReads \/ GuestWrites \/ GuestReturns
  PROVE  SlotAccounting'
<1>1. Processing("Executing")
  BY DEF GuestReads, GuestWrites, GuestReturns, GuestCalls, GuestRuns
<1>2. pc \in Running /\ My \in Session BY <1>1, AtExecuting
<1>3. UNCHANGED <<conns, replies>>
  BY DEF GuestReads, GuestWrites, GuestReturns, netVars
<1>4. ASSUME NEW t, session' = [session EXCEPT ![Me] = t],
             t.index = My.index, t.backends = My.backends
      PROVE  SlotAccounting'
  BY <1>2, <1>3, <1>4, MineKept
<1>5. CASE GuestReads
  <2>1. PICK i \in My.backends, n \in Sizes :
          session' = [session EXCEPT
            ![Me] = [My EXCEPT !.state = TcpRead(i, n), !.interest[i] = @ \cup {"r"}]]
    BY <1>5 DEF GuestReads
  <2>2. PICK t : t = [My EXCEPT !.state = TcpRead(i, n), !.interest[i] = @ \cup {"r"}]
    OBVIOUS
  <2>3. t.index = My.index /\ t.backends = My.backends BY <1>2, <2>2 DEF Session
  <2> QED BY <1>4, <2>1, <2>2, <2>3
<1>6. CASE GuestWrites
  <2>1. PICK i \in My.backends, n \in Sizes :
          session' = [session EXCEPT
            ![Me] = [My EXCEPT !.state = TcpWrite(i, n, 0), !.interest[i] = @ \cup {"w"}]]
    BY <1>6 DEF GuestWrites
  <2>2. PICK t : t = [My EXCEPT !.state = TcpWrite(i, n, 0), !.interest[i] = @ \cup {"w"}]
    OBVIOUS
  <2>3. t.index = My.index /\ t.backends = My.backends BY <1>2, <2>2 DEF Session
  <2> QED BY <1>4, <2>1, <2>2, <2>3
<1>7. CASE GuestReturns
  <2>1. PICK p \in SUBSET {"status", "body"} :
          session' = [session EXCEPT ![Me] = [My EXCEPT
            !.interest[My.index] = IF p = {"status", "body"} THEN @ \cup {"w"} ELSE @]]
    BY <1>7 DEF GuestReturns
  <2>2. PICK t : t = [My EXCEPT
            !.interest[My.index] = IF p = {"status", "body"} THEN @ \cup {"w"} ELSE @]
    OBVIOUS
  <2>3. t.index = My.index /\ t.backends = My.backends BY <1>2, <2>2 DEF Session
  <2> QED BY <1>4, <2>1, <2>2, <2>3
<1> QED BY <1>5, <1>6, <1>7

LEMMA CallCounted ==
  ASSUME IInv, SlotAccounting,
         \/ ReadSome \/ ReadError \/ ReadNothing \/ ReadZero
         \/ WriteSome \/ WriteBlocks \/ WriteError \/ WriteZero
  PROVE  SlotAccounting'
<1>1. Processing("TcpRead") \/ Processing("TcpWrite")
  BY DEF ReadSome, ReadError, ReadNothing, ReadZero, WriteSome, WriteBlocks, WriteError,
         WriteZero, NothingAsked
<1>2. pc \in Running /\ My \in Session BY <1>1, AtCall
<1>3. ASSUME NEW v, NEW g, NEW k, NEW lost, Answer(v, g, k, lost) PROVE SlotAccounting'
  <2>1. PICK t : t = [My EXCEPT !.state = Executing, !.readiness[Fd] = @ \ lost] OBVIOUS
  <2>2. t.index = My.index /\ t.backends = My.backends BY <1>2, <2>1 DEF Session
  <2>3. session' = [session EXCEPT ![Me] = t] /\ UNCHANGED <<conns, replies>>
    BY <1>3, <2>1 DEF Answer
  <2> QED BY <1>2, <2>2, <2>3, MineKept
<1>4. CASE ReadSome \/ ReadError \/ ReadNothing \/ WriteError
  BY <1>3, <1>4 DEF ReadSome, ReadError, ReadNothing, WriteError
<1>5. CASE WriteBlocks
  <2>1. PICK t : t = [My EXCEPT !.readiness[Fd] = @ \ {"w"}] OBVIOUS
  <2>2. t.index = My.index /\ t.backends = My.backends BY <1>2, <2>1 DEF Session
  <2>3. session' = [session EXCEPT ![Me] = t] /\ UNCHANGED <<conns, replies>>
    BY <1>5, <2>1 DEF WriteBlocks
  <2> QED BY <1>2, <2>2, <2>3, MineKept
<1>6. CASE WriteSome
  <2> DEFINE left == My.state.size - My.state.written
             n    == IF Peer.space < left THEN Peer.space ELSE left
             g    == [MyGuest EXCEPT !.taken = @ + n]
  <2>1. CASE n = left
    <3>1. Answer(My.state.size, g, [Peer EXCEPT !.space = @ - n], {})
      BY <1>6, <2>1 DEF WriteSome
    <3> QED BY <1>3, <3>1
  <2>2. CASE n # left
    <3>1. PICK t : t = [My EXCEPT !.state.written = @ + n] OBVIOUS
    <3>2. t.index = My.index /\ t.backends = My.backends BY <1>2, <3>1 DEF Session
    <3>3. session' = [session EXCEPT ![Me] = t] /\ UNCHANGED <<conns, replies>>
      BY <1>6, <2>2, <3>1 DEF WriteSome
    <3> QED BY <1>2, <3>2, <3>3, MineKept
  <2> QED BY <2>1, <2>2
<1>7. CASE ReadZero \/ WriteZero
  <2>1. PICK bit : NothingAsked("TcpRead", bit) \/ NothingAsked("TcpWrite", bit)
    BY <1>7 DEF ReadZero, WriteZero
  <2>2. PICK t : t = [My EXCEPT !.state = Executing, !.readiness[Fd] = @ \ {bit},
                               !.missed[Fd] = @ \cup {bit}]
    OBVIOUS
  <2>3. t.index = My.index /\ t.backends = My.backends BY <1>2, <2>2 DEF Session
  <2>4. session' = [session EXCEPT ![Me] = t] /\ UNCHANGED <<conns, replies>>
    BY <2>1, <2>2 DEF NothingAsked
  <2> QED BY <1>2, <2>3, <2>4, MineKept
<1> QED BY <1>4, <1>5, <1>6, <1>7

LEMMA PeersCounted ==
  ASSUME SlotAccounting, Peers
  PROVE  SlotAccounting'
<1>1. \A u \in Sess, i \in Index : \A k :
        Changes(u, i, k) => UNCHANGED <<conns, session, replies>>
  BY DEF Changes, sessVars
<1>2. ClientConnects => UNCHANGED <<conns, session, replies>>
  BY DEF ClientConnects, sessVars
<1>3. ASSUME NEW u \in Sess, NEW i \in Index,
             \/ PeerSends(u, i) \/ PeerCloses(u, i) \/ PeerResets(u, i)
             \/ PeerDrains(u, i) \/ ConnectDone(u, i) \/ ConnectFails(u, i)
      PROVE  UNCHANGED <<conns, session, replies>>
  <2>1. \E k : Changes(u, i, k)
    BY <1>3, Zenon DEF PeerSends, PeerCloses, PeerResets, PeerDrains, ConnectDone, ConnectFails
  <2> QED BY <1>1, <2>1
<1> QED BY <1>2, <1>3, Same DEF Peers

LEMMA StepCounted ==
  ASSUME IInv, SlotAccounting, [Next]_vars
  PROVE  SlotAccounting'
<1>1. CASE Poll \/ EndEvents \/ Drain \/ EndDrain \/ CreateInstance \/ ConnectRefused
  BY <1>1, Same DEF Poll, EndEvents, Drain, EndDrain, CreateInstance, ConnectRefused, sessVars
<1>2. CASE InstantiatePanic \/ ResumeEmpty \/ GuestFault \/ ConnectPanic
             \/ ExecutedWhileConnecting \/ ReadParks \/ WriteParks
  BY <1>2, Same DEF InstantiatePanic, ResumeEmpty, GuestFault, ConnectPanic,
       ExecutedWhileConnecting, ReadParks, WriteParks, Panic, Park, sessVars
<1>3. CASE EventAccept BY <1>3, AcceptCounted
<1>4. ASSUME NEW e \in batch, Event(e) PROVE SlotAccounting' BY <1>4, EventCounted
<1>5. CASE FrontReadable \/ FrontWritable BY <1>5, FrontCounted
<1>6. CASE ParseError \/ ParsePartial \/ ParseComplete BY <1>6, ParseCounted
<1>7. CASE NoRoute BY <1>7, NoRouteCounted
<1>8. CASE GuestConnects BY <1>8, ConnectCounted
<1>9. CASE GuestReads \/ GuestWrites \/ GuestReturns BY <1>9, GuestCounted
<1>10. CASE \/ ReadSome \/ ReadError \/ ReadNothing \/ ReadZero
            \/ WriteSome \/ WriteBlocks \/ WriteError \/ WriteZero
  BY <1>10, CallCounted
<1>11. CASE Peers BY <1>11, PeersCounted
<1>12. CASE UNCHANGED vars BY <1>12, Same DEF vars, sessVars
<1> QED
  BY <1>1, <1>2, <1>3, <1>4, <1>5, <1>6, <1>7, <1>8, <1>9, <1>10, <1>11, <1>12
     DEF Next, Server

LEMMA InitCounted ==
  ASSUME Init
  PROVE  SlotAccounting
<1>1. \A s \in Sess : ~Alive(s) BY DEF Init, Alive, Dropped
<1> QED BY <1>1 DEF SlotAccounting

\* A session's entries in the slab and its responses add up to its streams
\* (SlotAccounting): Close gives up one entry per response, whichever it is, so
\* a session with backends always outlives its first response.
THEOREM SlotsAddUp == Spec => []SlotAccounting
BY Inductive, InitCounted, StepCounted, PTL DEF Spec

(***************************************************************************)
(* Every turn of the event loop ends.                                      *)
(***************************************************************************)

\* A session that is gone has no sockets that poll could report, so that the events of
\* one poll are those of the slab's entries; a guest calls the host a bounded number of
\* times; and front_readable leaves nothing that could still be read.
TurnInv ==
  /\ IsFiniteSet(batch)
  /\ \A s \in Sess : ~Alive(s) =>
       \A i \in Index : sock[s][i].phase = "none" /\ ~sock[s][i].edge
  /\ \A s \in Sess : guest[s].calls <= MaxCalls
  /\ pc = "process" /\ My.state = Waiting /\ "r" \in Front => My.buffered = BufLen

RankTyped == Undispatched \in Nat /\ Turns \in Nat /\ ToAsk \in Nat /\ ToAnswer \in Nat

LEMMA RankOK == IInv /\ TurnInv => RankTyped
<1> SUFFICES ASSUME IInv, TurnInv PROVE RankTyped OBVIOUS
<1>1. Undispatched \in Nat BY FS_CardinalityType DEF TurnInv, Undispatched
<1>2. Turns \in Nat
  <2>1. Len(ready) \in Nat BY DEF IInv, TypeOK
  <2> QED BY <2>1 DEF Turns
<1>3. ToAsk \in Nat /\ ToAnswer \in Nat
  <2>1. CASE ~InTurn BY <2>1 DEF ToAsk, ToAnswer
  <2>2. CASE InTurn
    <3>1. pc \in Running BY <2>2 DEF InTurn, Running, IInv, Unreached
    <3>2. PICK me \in Sess : me = Me /\ MyGuest = guest[me] BY <3>1, MeAlive DEF IInv
    <3>3. PICK t \in Session, g \in Guest : t = My /\ g = MyGuest /\ SessInv(t, g)
      BY <3>1, MeAlive DEF IInv
    <3>4. g.calls \in Nat /\ g.calls <= MaxCalls
          /\ g.stack \in {"none", "suspended", "returned"}
      BY <3>2, <3>3 DEF TurnInv, Guest
    <3>5. Requests(t, g) \in Nat BY <3>4, BoundsAssumption DEF Requests
    <3>6. Calling(t, pc) \in Nat
      <4>1. CASE t.state.tag = "TcpWrite"
        <5>1. /\ t.state.size \in Nat /\ t.state.written \in Nat
              /\ t.state.written <= t.state.size
          <6>1. t.state.size \in Nat /\ t.state.written \in Nat
            BY <3>3, <4>1, StateFields, SizesAssumption DEF Session
          <6>2. \/ t.state.written < t.state.size
                \/ t.state.written = 0 /\ t.state.size = 0
            BY <3>3, <4>1 DEF SessInv
          <6> QED BY <6>1, <6>2
        <5>2. 2 * (t.state.size - t.state.written) \in Nat BY <5>1
        <5> QED BY <4>1, <5>2 DEF Calling
      <4>2. CASE t.state.tag # "TcpWrite" BY <4>2 DEF Calling
      <4> QED BY <4>1, <4>2
    <3> QED BY <2>2, <3>3, <3>5, <3>6 DEF ToAsk, ToAnswer
  <2> QED BY <2>1, <2>2
<1> QED BY <1>1, <1>2, <1>3 DEF RankTyped

\* The lexicographic order, component by component.
LEMMA Lexicographic ==
  ASSUME NEW a1 \in Nat, NEW a2 \in Nat, NEW a3 \in Nat, NEW a4 \in Nat,
         NEW b1, NEW b2, NEW b3, NEW b4,
         \/ a1 < b1
         \/ a1 = b1 /\ a2 < b2
         \/ a1 = b1 /\ a2 = b2 /\ a3 < b3
         \/ a1 = b1 /\ a2 = b2 /\ a3 = b3 /\ a4 < b4
  PROVE  Below(<<a1, a2, a3, a4>>, <<b1, b2, b3, b4>>)
<1> DEFINE p == <<a1, a2, a3, a4>>
           q == <<b1, b2, b3, b4>>
<1>1. p \in [1..4 -> Nat] OBVIOUS
<1>2. /\ p[1] = a1 /\ p[2] = a2 /\ p[3] = a3 /\ p[4] = a4
      /\ q[1] = b1 /\ q[2] = b2 /\ q[3] = b3 /\ q[4] = b4
  OBVIOUS
<1> HIDE DEF p, q
<1>3. \E n \in 1..4 : p[n] < q[n] /\ \A m \in 1..(n - 1) : p[m] = q[m]
  BY <1>2
<1>4. Below(p, q) BY <1>1, <1>3 DEF Below
<1> QED BY <1>4 DEF p, q

LEMMA Less ==
  ASSUME RankTyped',
         \/ Undispatched' < Undispatched
         \/ Undispatched' = Undispatched /\ Turns' < Turns
         \/ Undispatched' = Undispatched /\ Turns' = Turns /\ ToAsk' < ToAsk
         \/ /\ Undispatched' = Undispatched /\ Turns' = Turns /\ ToAsk' = ToAsk
            /\ ToAnswer' < ToAnswer
  PROVE  Below(Rank', Rank)
BY Lexicographic DEF RankTyped, Rank

\* A session of another token or of none: the thread goes on to the next token.
LEMMA LeavesTurn ==
  ASSUME IInv, pc \in Running, pc' = "drain", ready' = ready, IInv', TurnInv'
  PROVE  Below(Rank', Rank)
<1>1. RankTyped' BY RankOK, PTL
<1>2. Len(ready) \in Nat BY DEF IInv, TypeOK
<1>3. Undispatched' = Undispatched BY DEF Undispatched, Running
<1>4. Turns = 2 * Len(ready) + 2 /\ Turns' = 2 * Len(ready) + 1
  BY DEF Turns, InTurn, Running, Panics
<1> QED BY <1>1, <1>2, <1>3, <1>4, Less

\* The running session goes on as t, its guest as g.
LEMMA StaysInTurn ==
  ASSUME IInv, pc \in Running, pc' \in Running, IInv', TurnInv',
         NEW t, NEW g,
         session' = [session EXCEPT ![Me] = t], guest' = [guest EXCEPT ![Me] = g],
         UNCHANGED <<cur, ready, conns>>,
         \/ Requests(t, g) < Requests(My, MyGuest)
         \/ Requests(t, g) = Requests(My, MyGuest) /\ Calling(t, pc') < Calling(My, pc)
  PROVE  Below(Rank', Rank)
<1>1. RankTyped' BY RankOK, PTL
<1>2. PICK me \in Sess : me = Me BY MeAlive DEF IInv
<1>3. conns'[cur'] = me /\ session'[me] = t /\ guest'[me] = g
  BY <1>2 DEF Me, IInv, TypeOK
<1>4. Undispatched' = Undispatched BY DEF Undispatched, Running
<1>5. Turns' = Turns BY DEF Turns, InTurn, Running, Panics
<1>6. InTurn /\ InTurn' BY DEF InTurn, Running
<1>7. ToAsk' = Requests(t, g) /\ ToAsk = Requests(My, MyGuest)
  <2>1. My' = t /\ MyGuest' = g BY <1>3 DEF My, MyGuest, Me
  <2> QED BY <1>6, <2>1 DEF ToAsk, Requests
<1>8. ToAnswer' = Calling(t, pc') /\ ToAnswer = Calling(My, pc)
  <2>1. My' = t BY <1>3 DEF My, Me
  <2> QED BY <1>6, <2>1 DEF ToAnswer, Calling
<1> QED BY <1>1, <1>4, <1>5, <1>7, <1>8, Less

(***************************************************************************)
(* The event loop.                                                         *)
(***************************************************************************)

\* The sockets that poll reports belong to sessions the slab holds.
LEMMA PollFinite ==
  ASSUME IInv, TurnInv, Poll
  PROVE  IsFiniteSet(batch')
<1> DEFINE held == {conns[i] : i \in Index}
           rep  == {y \in Sess \X Index : Reported(y[1], y[2])}
           ev   == [x \in rep |-> [sess |-> x[1], index |-> x[2],
                                   mask |-> Level(sock[x[1]][x[2]])]]
<1>1. IsFiniteSet(held)
  <2>1. [i \in Index |-> conns[i]] \in Surjection(Index, held) BY DEF Surjection
  <2> QED BY <2>1, CapacityAssumption, FS_Surjection
<1>2. rep \subseteq held \X Index
  <2> SUFFICES ASSUME NEW y \in rep PROVE y \in held \X Index OBVIOUS
  <2>1. PICK s \in Sess, i \in Index : y = <<s, i>> /\ Reported(s, i) OBVIOUS
  <2>2. sock[s][i].edge BY <2>1 DEF Reported
  <2>3. Alive(s) BY <2>2 DEF TurnInv
  <2>4. PICK j \in Index : conns[j] = s BY <2>3 DEF IInv, SlabInv, Slots
  <2> QED BY <2>1, <2>4
<1>3. IsFiniteSet(rep)
  <2>1. IsFiniteSet(held \X Index) BY <1>1, CapacityAssumption, FS_Product
  <2> QED BY <1>2, <2>1, FS_Subset
<1>4. ev \in Surjection(rep, batch')
  <2>1. batch' = {[sess |-> x[1], index |-> x[2], mask |-> Level(sock[x[1]][x[2]])] : x \in rep}
    BY DEF Poll
  <2> QED BY <2>1 DEF Surjection
<1> HIDE DEF rep, ev
<1> QED BY <1>3, <1>4, FS_Surjection

LEMMA PollTurns ==
  ASSUME IInv, TurnInv, Poll
  PROVE  TurnInv'
<1>1. IsFiniteSet(batch') BY PollFinite
<1>2. \A s \in Sess, i \in Index : sock'[s][i] = [sock[s][i] EXCEPT !.edge = FALSE]
  BY DEF Poll
<1>3. \A s \in Sess, i \in Index : /\ sock'[s][i].phase = sock[s][i].phase
                                   /\ sock'[s][i].edge = FALSE
  <2>1. ASSUME NEW s \in Sess, NEW i \in Index
        PROVE  sock'[s][i].phase = sock[s][i].phase /\ sock'[s][i].edge = FALSE
    <3>1. PICK k \in Socket : k = sock[s][i] BY DEF IInv, TypeOK
    <3>2. PICK l : l = [k EXCEPT !.edge = FALSE] OBVIOUS
    <3>3. l.phase = k.phase /\ l.edge = FALSE BY <3>2 DEF Socket
    <3> QED BY <1>2, <3>1, <3>2, <3>3
  <2> QED BY <2>1
<1>4. UNCHANGED <<session, guest>> /\ pc' = "events" BY DEF Poll, sessVars
<1> QED BY <1>1, <1>3, <1>4 DEF TurnInv, Alive

\* Nothing that TurnInv speaks of has changed but what the thread does next.
LEMMA TurnSame ==
  ASSUME TurnInv, pc' # "process", UNCHANGED <<session, sock, guest>>, IsFiniteSet(batch')
  PROVE  TurnInv'
BY DEF TurnInv, Alive

LEMMA DispatchTurns ==
  ASSUME IInv, TurnInv, IInv', NEW e \in batch, Event(e)
  PROVE  TurnInv' /\ Below(Rank', Rank)
<1> DEFINE i == e.index
           s == conns[i]
<1>1. /\ pc = "events" /\ pc' = pc /\ acceptEvent' = acceptEvent /\ batch' = batch \ {e}
      /\ UNCHANGED <<sock, conns>> /\ i \in Index
  BY DEF Event, netVars, IInv, TypeOK, SocketEvent
<1>2. /\ IsFiniteSet(batch') /\ Cardinality(batch) \in Nat
      /\ Cardinality(batch') = Cardinality(batch) - 1
  BY <1>1, FS_RemoveElement, FS_CardinalityType DEF TurnInv
<1>3. TurnInv'
  <2>1. CASE UNCHANGED <<session, guest>> BY <1>1, <1>2, <2>1, TurnSame
  <2>2. CASE ~UNCHANGED <<session, guest>>
    <3>1. PICK u \in Sess : /\ u = s /\ session' = [session EXCEPT ![u] = Noted(u, i, e.mask)]
                            /\ guest' = [guest EXCEPT ![u] =
                                 IF ConnectsOn(u, i) THEN Answered(@, i) ELSE @]
      BY <1>1, <2>2 DEF Event, IInv, TypeOK
    <3>2. Alive(u) BY <1>1, <3>1, SlabAssumption DEF IInv, SlabInv
    <3>3. PICK g \in Guest : g = guest[u] BY DEF IInv, TypeOK
    <3>4. Answered(g, i).calls = g.calls BY DEF Answered, Guest
    <3>5. \A v \in Sess : guest'[v].calls = guest[v].calls
      BY <3>1, <3>3, <3>4 DEF IInv, TypeOK
    <3>6. \A v \in Sess : Alive(v) => Alive(v)'
      <4>1. session[u] \in Session BY <3>2 DEF IInv, LocalInv, SessInv
      <4>2. Noted(u, i, e.mask).index = session[u].index BY <4>1 DEF Noted, Session
      <4> QED BY <3>1, <4>2 DEF Alive, IInv, TypeOK
    <3> QED BY <1>1, <1>2, <3>5, <3>6 DEF TurnInv
  <2> QED BY <2>1, <2>2
<1>4. RankTyped' BY <1>3, RankOK, PTL
<1>5. Undispatched' < Undispatched BY <1>1, <1>2 DEF Undispatched
<1> QED BY <1>3, <1>4, <1>5, Less

LEMMA AcceptTurns ==
  ASSUME IInv, TurnInv, IInv', EventAccept
  PROVE  TurnInv' /\ Below(Rank', Rank)
<1>1. /\ pc = "events" /\ pc' = pc /\ batch' = batch /\ guest' = guest
      /\ acceptEvent = TRUE /\ acceptEvent' = FALSE
  BY DEF EventAccept, IInv, TypeOK
<1>2. IsFiniteSet(batch) /\ Cardinality(batch) \in Nat BY FS_CardinalityType DEF TurnInv
<1>3. TurnInv'
  <2>1. CASE UNCHANGED <<session, sock>> BY <1>1, <1>2, <2>1, TurnSame
  <2>2. CASE ~UNCHANGED <<session, sock>>
    <3>1. PICK i \in Index, s \in Sess :
            /\ session' = [session EXCEPT ![s] = NewSession(i)]
            /\ sock' = [sock EXCEPT ![s] = [NoSockets EXCEPT ![i] = NewSocket("open")]]
      BY <2>2 DEF EventAccept
    <3>2. Alive(s)' BY <3>1, SlabAssumption DEF Alive, NewSession, IInv, TypeOK
    <3>3. \A u \in Sess \ {s} : session'[u] = session[u] /\ sock'[u] = sock[u]
      BY <3>1 DEF IInv, TypeOK
    <3> QED BY <1>1, <1>2, <3>2, <3>3 DEF TurnInv, Alive
  <2> QED BY <2>1, <2>2
<1>4. RankTyped' BY <1>3, RankOK, PTL
<1>5. Undispatched' < Undispatched BY <1>1, <1>2 DEF Undispatched
<1> QED BY <1>3, <1>4, <1>5, Less

LEMMA LoopTurns ==
  ASSUME IInv, TurnInv, IInv', EndEvents \/ Drain \/ EndDrain
  PROVE  TurnInv' /\ Below(Rank', Rank)
<1>1. TurnInv'
  <2>1. /\ pc' # "process" /\ UNCHANGED <<batch, session, sock, guest>>
    BY DEF EndEvents, Drain, EndDrain, sessVars, netVars
  <2> QED BY <2>1, TurnSame DEF TurnInv
<1>2. RankTyped' BY <1>1, RankOK, PTL
<1>3. ready \in Seq(Index) /\ Len(ready) \in Nat BY DEF IInv, TypeOK
<1>4. CASE EndEvents
  <2>1. Undispatched' = 0 /\ Undispatched = 1
    <3>1. Cardinality({}) = 0 BY FS_EmptySet
    <3> QED BY <1>4, <3>1 DEF EndEvents, Undispatched
  <2> QED BY <1>1, <1>2, <2>1, Less
<1>5. CASE EndDrain
  <2>1. Undispatched' = Undispatched BY <1>5 DEF EndDrain, Undispatched
  <2>2. Turns = 2 * Len(ready) + 1 /\ Turns' = 0
    BY <1>5 DEF EndDrain, Turns, InTurn, Panics
  <2> QED BY <1>1, <1>2, <1>3, <2>1, <2>2, Less
<1>6. CASE Drain
  <2>1. Undispatched' = Undispatched BY <1>6 DEF Drain, Undispatched
  <2>2. Len(ready') = Len(ready) - 1 BY <1>3, <1>6 DEF Drain
  <2>3. Turns = 2 * Len(ready) + 1 BY <1>6 DEF Drain, Turns, InTurn, Panics
  <2>4. Turns' <= 2 * Len(ready') + 2
    <3>1. pc' \in {"drain", "execute"} BY <1>6 DEF Drain
    <3> QED BY <1>3, <2>2, <3>1 DEF Turns, InTurn, Panics
  <2>5. Turns' < Turns
    <3>1. Turns' \in Nat BY <1>2 DEF RankTyped
    <3> QED BY <1>3, <2>2, <2>3, <2>4, <3>1
  <2> QED BY <1>1, <1>2, <2>1, <2>5, Less
<1> QED BY <1>4, <1>5, <1>6

(***************************************************************************)
(* A turn of a session.                                                    *)
(***************************************************************************)

\* The running session becomes t, and its guest g.
LEMMA MineTurns ==
  ASSUME IInv, TurnInv, pc \in Running, NEW me \in Sess, me = Me,
         NEW t, t.index = My.index, session' = [session EXCEPT ![Me] = t],
         NEW g, g.calls <= MaxCalls, guest' = [guest EXCEPT ![Me] = g],
         \A s \in Sess \ {me} : sock'[s] = sock[s], batch' = batch,
         pc' = "process" => cur' = cur /\ conns' = conns /\ t.state # Waiting
  PROVE  TurnInv'
<1>1. My = session[me] /\ Alive(me) BY MeAlive DEF IInv
<1>2. /\ session'[me] = t /\ guest'[me] = g
      /\ \A s \in Sess \ {me} : session'[s] = session[s] /\ guest'[s] = guest[s]
  BY DEF IInv, TypeOK
<1>3. Alive(me)' /\ \A s \in Sess \ {me} : Alive(s)' <=> Alive(s) BY <1>1, <1>2 DEF Alive
<1>4. pc' = "process" => My'.state # Waiting
  <2> SUFFICES ASSUME pc' = "process" PROVE My'.state # Waiting OBVIOUS
  <2>1. conns'[cur'] = me BY DEF Me
  <2> QED BY <1>2, <2>1 DEF My, Me
<1> QED BY <1>2, <1>3, <1>4 DEF TurnInv

\* The session is closed, and its sockets with it if it is gone.
LEMMA ClosesTurn ==
  ASSUME IInv, TurnInv, IInv', pc \in Running,
         NEW t, t.index = My.index, NEW n, Close(t, n)
  PROVE  TurnInv' /\ Below(Rank', Rank)
<1>1. PICK me \in Sess : me = Me /\ My = session[me] /\ Alive(me) BY MeAlive DEF IInv
<1>2. PICK gone \in BOOLEAN : gone <=> Slots(me) \ {cur} = {} OBVIOUS
<1>3. /\ session'[me] = (IF gone THEN Dropped ELSE t)
      /\ guest'[me] = (IF gone THEN NoGuest ELSE guest[me])
      /\ sock'[me] = (IF gone THEN NoSockets ELSE sock[me])
      /\ \A s \in Sess \ {me} : /\ session'[s] = session[s] /\ guest'[s] = guest[s]
                                /\ sock'[s] = sock[s]
      /\ pc' = "drain" /\ UNCHANGED <<batch, ready>>
  BY <1>1, <1>2 DEF Close, IInv, TypeOK
<1>4. \A i \in Index : NoSockets[i].phase = "none" /\ ~NoSockets[i].edge
  BY DEF NoSockets, NewSocket
<1>5. NoGuest.calls <= MaxCalls BY BoundsAssumption DEF NoGuest
<1>6. ~gone => Alive(me)' BY <1>1, <1>3 DEF Alive
<1>7. \A s \in Sess \ {me} : Alive(s)' <=> Alive(s) BY <1>3 DEF Alive
<1>8. TurnInv'
  <2>1. ASSUME NEW s \in Sess, ~Alive(s)', NEW i \in Index
        PROVE  sock'[s][i].phase = "none" /\ ~sock'[s][i].edge
    <3>1. CASE s = me BY <1>3, <1>4, <1>6, <2>1, <3>1
    <3>2. CASE s # me BY <1>3, <1>7, <2>1, <3>2 DEF TurnInv
    <3> QED BY <3>1, <3>2
  <2>2. \A s \in Sess : guest'[s].calls <= MaxCalls BY <1>3, <1>5 DEF TurnInv
  <2> QED BY <1>3, <2>1, <2>2 DEF TurnInv
<1> QED BY <1>3, <1>8, LeavesTurn

\* The panics: the thread is lost.
LEMMA PanicTurns ==
  ASSUME TurnInv,
         InstantiatePanic \/ ResumeEmpty \/ GuestFault \/ ConnectPanic \/ ExecutedWhileConnecting
  PROVE  TurnInv' /\ Lost'
<1>1. \E site \in Panics : Panic(site)
  BY DEF InstantiatePanic, ResumeEmpty, GuestFault, ConnectPanic, ExecutedWhileConnecting, Panics
<1>2. TurnInv' BY <1>1, TurnSame DEF Panic, Panics, sessVars, netVars, TurnInv
<1>3. Lost' BY <1>1 DEF Panic, Lost, Panicked
<1> QED BY <1>2, <1>3

\* A head that is not complete leaves execute with nothing to do but start over.
LEMMA PartialTurns ==
  ASSUME IInv, TurnInv, ParsePartial
  PROVE  TurnInv' /\ (Lost \/ Lost')
<1>1. /\ UNCHANGED <<cur, batch, conns, session, guest, kind, sock>> /\ pc' = "execute"
      /\ pc \in Running /\ My.state.tag = "WaitingForRequest" /\ My.buffered < Length(kind[Me])
      /\ pc = "process" \/ (pc = "execute" /\ "r" \notin Front)
  BY DEF ParsePartial, Processing, AtProcess, sessVars, netVars, Running
<1>2. My.state = Waiting
  <2>1. My \in Session BY <1>1, MeAlive DEF IInv
  <2> QED BY <1>1, <2>1, StateFields DEF Session
<1>3. TurnInv' BY <1>1, TurnSame DEF TurnInv
<1>4. CASE pc = "execute"
  <2>1. "r" \notin Front BY <1>1, <1>4
  <2>2. Spinning BY <1>1, <1>2, <1>4, <2>1 DEF Spinning
  <2> QED BY <1>3, <2>2 DEF Lost
<1>5. CASE pc = "process"
  <2>1. "r" \in Front => My.buffered = BufLen BY <1>2, <1>5 DEF TurnInv
  <2>2. My' = My /\ Front' = Front /\ kind'[Me'] = kind[Me]
    BY <1>1 DEF My, Me, Front
  <2>3. Spinning' BY <1>1, <1>2, <2>1, <2>2 DEF Spinning
  <2> QED BY <1>3, <2>3 DEF Lost
<1> QED BY <1>1, <1>3, <1>4, <1>5

\* What is read is not there to be read again, or fills the buffer.
LEMMA FrontReadTurns ==
  ASSUME IInv, TurnInv, IInv', FrontReadable
  PROVE  TurnInv' /\ Below(Rank', Rank)
<1>1. pc \in Running /\ pc = "execute" /\ "r" \in Front
  BY DEF FrontReadable, AtFrontReadable, Running
<1>2. My.state = Waiting /\ MyGuest.stack = "none" /\ "w" \notin Front
  BY ReadsWaiting DEF FrontReadable
<1>3. CASE Close(My, 0) BY <1>1, <1>3, ClosesTurn
<1>4. CASE ~Close(My, 0)
  <2>1. PICK me \in Sess : /\ me = Me /\ My = session[me] /\ MyGuest = guest[me]
                           /\ Alive(me) /\ SessInv(My, MyGuest) /\ sock[me] \in [Index -> Socket]
    BY <1>1, MeAlive DEF IInv
  <2>2. My \in Session /\ My.buffered \in Nat /\ My.buffered <= BufLen /\ My.index \in Index
    BY <2>1 DEF SessInv, Session
  <2>3. PICK k \in Socket : k = sock[Me][My.index] BY <2>1, <2>2
  <2>4. PICK room \in Nat : room = BufLen - My.buffered BY <2>2, LengthAssumption
  <2>5. PICK t : t = [My EXCEPT
                   !.buffered = @ + (IF k.avail < room THEN k.avail ELSE room),
                   !.readiness[My.index] = IF k.avail < room THEN @ \ {"r"} ELSE @]
    OBVIOUS
  <2>6. /\ pc' = "process" /\ session' = [session EXCEPT ![Me] = t]
        /\ UNCHANGED <<cur, batch, ready, conns, guest>>
        /\ sock' = [sock EXCEPT ![Me][My.index].avail = IF k.avail < room THEN 0 ELSE @ - room]
    BY <1>2, <1>4, <2>3, <2>4, <2>5 DEF FrontReadable
  <2>7. /\ t.index = My.index /\ t.state = Waiting /\ t.interest = My.interest
        /\ t.buffered = My.buffered + (IF k.avail < room THEN k.avail ELSE room)
        /\ t.readiness = [My.readiness EXCEPT ![My.index] =
                            IF k.avail < room THEN @ \ {"r"} ELSE @]
    BY <1>2, <2>2, <2>5 DEF Session
  <2>8. "r" \in t.readiness[t.index] => t.buffered = BufLen
    <3>1. My.readiness \in [Index -> SUBSET Bits] BY <2>2 DEF Session
    <3>2. k.avail < room => "r" \notin t.readiness[t.index] BY <2>2, <2>7, <3>1
    <3>3. ~(k.avail < room) => t.buffered = BufLen
      BY <2>2, <2>4, <2>7, LengthAssumption
    <3> QED BY <3>2, <3>3
  <2>9. /\ session'[me] = t /\ \A s \in Sess \ {me} : session'[s] = session[s]
        /\ \A s \in Sess \ {me} : sock'[s] = sock[s]
    BY <2>1, <2>6 DEF IInv, TypeOK
  <2>10. TurnInv'
    <3>1. Alive(me)' /\ \A s \in Sess \ {me} : Alive(s)' <=> Alive(s)
      BY <2>1, <2>7, <2>9 DEF Alive
    <3>2. My' = t BY <2>1, <2>6, <2>9 DEF My, Me
    <3>3. "r" \in Front' => My'.buffered = BufLen BY <2>8, <3>2 DEF Front
    <3> QED BY <2>6, <2>9, <3>1, <3>3 DEF TurnInv
  <2>11. guest' = [guest EXCEPT ![Me] = MyGuest] BY <2>1, <2>6 DEF IInv, TypeOK
  <2>12. Requests(t, MyGuest) = Requests(My, MyGuest) BY <1>2, <2>7 DEF Requests
  <2>13. Calling(t, pc') < Calling(My, pc)
    <3>1. Waiting.tag = "WaitingForRequest" BY StateValues
    <3> QED BY <1>1, <1>2, <2>6, <2>7, <3>1 DEF Calling
  <2>14. pc' \in Running BY <2>6 DEF Running
  <2> QED BY <1>1, <2>6, <2>10, <2>11, <2>12, <2>13, <2>14, StaysInTurn
<1> QED BY <1>3, <1>4

LEMMA ClosingTurns ==
  ASSUME IInv, TurnInv, IInv', FrontWritable \/ ParseError \/ NoRoute
  PROVE  TurnInv' /\ Below(Rank', Rank)
<1>1. CASE FrontWritable
  <2>1. pc \in Running /\ "w" \in Front
    BY <1>1 DEF FrontWritable, AtFrontWritable, Running, IInv, Unreached
  <2>2. SessInv(My, MyGuest) BY <2>1, MeAlive DEF IInv
  <2>3. MyGuest.stack = "returned" /\ MyGuest.prepared = {"status", "body"}
    BY <2>1, <2>2 DEF Front, SessInv, ClientInterest
  <2>4. Close(My, 1) BY <1>1, <2>3 DEF FrontWritable
  <2> QED BY <2>1, <2>4, ClosesTurn
<1>2. CASE ParseError \/ NoRoute
  <2>1. pc \in Running BY <1>2 DEF ParseError, NoRoute, Processing, AtProcess, Running
  <2>2. My \in Session BY <2>1, MeAlive DEF IInv
  <2>3. PICK t : t = [My EXCEPT !.interest[My.index] = {}] OBVIOUS
  <2>4. t.index = My.index BY <2>2, <2>3 DEF Session
  <2> QED BY <1>2, <2>1, <2>3, <2>4, ClosesTurn DEF ParseError, NoRoute
<1> QED BY <1>1, <1>2

\* The running session gives up its turn as t, its guest as g.
LEMMA LeavesTurns ==
  ASSUME IInv, TurnInv, IInv', pc \in Running, pc' = "drain",
         NEW t, t.index = My.index, session' = [session EXCEPT ![Me] = t],
         NEW g, g.calls <= MaxCalls, guest' = [guest EXCEPT ![Me] = g],
         \A s \in Sess \ {Me} : sock'[s] = sock[s], UNCHANGED <<batch, ready>>
  PROVE  TurnInv' /\ Below(Rank', Rank)
<1>1. PICK me \in Sess : me = Me BY MeAlive DEF IInv
<1>2. TurnInv' BY <1>1, MineTurns
<1> QED BY <1>2, LeavesTurn

\* The running session goes on as t, its guest as g, with less to do.
LEMMA GoesOnTurns ==
  ASSUME IInv, TurnInv, IInv', pc \in Running, pc' \in Running,
         NEW t, t.index = My.index, t.state # Waiting, session' = [session EXCEPT ![Me] = t],
         NEW g, g.calls <= MaxCalls, guest' = [guest EXCEPT ![Me] = g],
         \A s \in Sess \ {Me} : sock'[s] = sock[s], UNCHANGED <<cur, batch, ready, conns>>,
         \/ Requests(t, g) < Requests(My, MyGuest)
         \/ Requests(t, g) = Requests(My, MyGuest) /\ Calling(t, pc') < Calling(My, pc)
  PROVE  TurnInv' /\ Below(Rank', Rank)
<1>1. PICK me \in Sess : me = Me BY MeAlive DEF IInv
<1>2. TurnInv' BY <1>1, MineTurns
<1> QED BY <1>2, StaysInTurn

LEMMA RequestTurns ==
  ASSUME IInv, TurnInv, IInv', ParseComplete \/ CreateInstance
  PROVE  TurnInv' /\ Below(Rank', Rank)
<1>1. CASE ParseComplete
  <2>1. pc \in Running /\ My.state.tag = "WaitingForRequest"
    BY <1>1 DEF ParseComplete, Processing, AtProcess, Running
  <2>2. /\ My = session[Me] /\ MyGuest = guest[Me] /\ Me \in Sess
        /\ SessInv(My, MyGuest) /\ My \in Session
    BY <2>1, MeAlive DEF IInv
  <2>3. My.state = Waiting BY <2>1, <2>2, StateFields DEF Session
  <2>4. MyGuest.stack = "none" BY <2>1, <2>2 DEF SessInv, CallProtocol
  <2>5. PICK t : t = [My EXCEPT !.state = Executing, !.interest[My.index] = @ \ {"r"}]
    OBVIOUS
  <2>6. t.index = My.index /\ t.state = Executing BY <2>2, <2>5 DEF Session
  <2>7. Executing # Waiting BY StateValues
  <2>8. MyGuest.calls <= MaxCalls BY <2>2 DEF TurnInv
  <2>9. Requests(t, MyGuest) < Requests(My, MyGuest)
    BY <2>3, <2>4, <2>6, <2>7, BoundsAssumption DEF Requests
  <2>10. session' = [session EXCEPT ![Me] = t] BY <1>1, <2>5 DEF ParseComplete
  <2>11. guest' = [guest EXCEPT ![Me] = MyGuest] BY <1>1, <2>2 DEF ParseComplete, IInv, TypeOK
  <2>12. /\ UNCHANGED <<cur, batch, ready, conns, sock>> /\ pc' \in Running
    BY <1>1 DEF ParseComplete, netVars, Running
  <2> QED BY <2>1, <2>6, <2>7, <2>8, <2>9, <2>10, <2>11, <2>12, GoesOnTurns
<1>2. CASE CreateInstance
  <2>1. Processing("Executing") /\ MyGuest.stack = "none" BY <1>2 DEF CreateInstance
  <2>2. MyGuest = NoGuest BY <2>1, AtExecuting DEF SessInv
  <2>3. PICK g : g = [NoGuest EXCEPT !.stack = "suspended"] OBVIOUS
  <2>4. g.stack = "suspended" /\ g.calls = 0 BY <2>3 DEF NoGuest
  <2>5. Executing # Waiting BY StateValues
  <2>6. Requests(My, g) < Requests(My, MyGuest)
    BY <2>1, <2>4, <2>5, AtExecuting, BoundsAssumption DEF Requests
  <2>7. /\ guest' = [guest EXCEPT ![Me] = g] /\ session' = [session EXCEPT ![Me] = My]
    BY <1>2, <2>1, <2>2, <2>3, AtExecuting DEF CreateInstance
  <2>8. /\ UNCHANGED <<cur, batch, ready, conns, sock>> /\ pc' \in Running
    BY <1>2 DEF CreateInstance, netVars, Running
  <2>9. g.calls <= MaxCalls BY <2>4, BoundsAssumption
  <2> QED BY <2>1, <2>5, <2>6, <2>7, <2>8, <2>9, AtExecuting, GoesOnTurns
<1> QED BY <1>1, <1>2

\* One more call asked for.
LEMMA OneMore ==
  ASSUME IInv, TurnInv, NEW call \in {"connect", "read", "write"}, GuestCalls(call)
  PROVE  /\ Processing("Executing") /\ MyGuest.stack = "suspended"
         /\ Asking(MyGuest, call).stack = "suspended"
         /\ Asking(MyGuest, call).calls = MyGuest.calls + 1
         /\ MyGuest.calls \in Nat /\ MyGuest.calls + 1 <= MaxCalls
<1>1. Processing("Executing") /\ MyGuest.stack = "suspended" /\ MyGuest.calls < MaxCalls
  BY DEF GuestCalls, GuestRuns
<1>2. MyGuest \in Guest BY <1>1, AtExecuting
<1>3. /\ Asking(MyGuest, call).stack = "suspended"
      /\ Asking(MyGuest, call).calls = MyGuest.calls + 1
  BY <1>1, <1>2 DEF Asking, Guest
<1>4. MyGuest.calls \in Nat BY <1>2 DEF Guest
<1> QED BY <1>1, <1>3, <1>4, BoundsAssumption

LEMMA GuestLeavesTurns ==
  ASSUME IInv, TurnInv, IInv', GuestConnects \/ ConnectRefused
  PROVE  TurnInv' /\ Below(Rank', Rank)
<1>1. GuestCalls("connect") /\ pc' = "drain" /\ UNCHANGED <<batch, ready>>
  BY DEF GuestConnects, ConnectRefused
<1>2. PICK g : g = Asking(MyGuest, "connect") OBVIOUS
<1>3. g.calls <= MaxCalls /\ Processing("Executing") BY <1>1, <1>2, OneMore
<1>4. CASE GuestConnects
  <2>1. PICK i \in Index :
          /\ session' = [session EXCEPT ![Me] = AddBackend(@, i)]
          /\ sock' = [sock EXCEPT ![Me][i] = NewSocket("connecting")]
    BY <1>4 DEF GuestConnects
  <2>2. PICK t : t = AddBackend(My, i) OBVIOUS
  <2>3. t.index = My.index BY <1>3, <2>2, AtExecuting DEF AddBackend, Session
  <2>4. /\ session' = [session EXCEPT ![Me] = t] /\ guest' = [guest EXCEPT ![Me] = g]
        /\ \A s \in Sess \ {Me} : sock'[s] = sock[s]
    BY <1>2, <1>3, <1>4, <2>1, <2>2, AtExecuting DEF GuestConnects, My, MyGuest, IInv, TypeOK
  <2> QED BY <1>1, <1>3, <2>3, <2>4, AtExecuting, LeavesTurns
<1>5. CASE ConnectRefused
  <2>1. PICK h : h = [g EXCEPT !.refused = TRUE] OBVIOUS
  <2>2. h.calls = g.calls
    <3>1. g \in Guest BY <1>2, <1>3, AtExecuting, AskingFields
    <3> QED BY <2>1, <3>1 DEF Guest
  <2>3. /\ session' = [session EXCEPT ![Me] = My] /\ guest' = [guest EXCEPT ![Me] = h]
        /\ UNCHANGED sock
    BY <1>2, <1>3, <1>5, <2>1, AtExecuting DEF ConnectRefused, netVars
  <2> QED BY <1>1, <1>3, <2>2, <2>3, AtExecuting, LeavesTurns
<1> QED BY <1>4, <1>5

LEMMA ParkTurns ==
  ASSUME IInv, TurnInv, IInv', ReadParks \/ WriteParks
  PROVE  TurnInv' /\ Below(Rank', Rank)
<1>1. /\ Processing("TcpRead") \/ Processing("TcpWrite")
      /\ pc' = "drain" /\ UNCHANGED <<batch, ready, session, guest, sock>>
  BY DEF ReadParks, WriteParks, Park, sessVars, netVars
<1>2. /\ session' = [session EXCEPT ![Me] = My] /\ guest' = [guest EXCEPT ![Me] = MyGuest]
      /\ MyGuest.calls <= MaxCalls
  BY <1>1, AtCall DEF TurnInv
<1> QED BY <1>1, <1>2, AtCall, LeavesTurns

LEMMA GuestTurns ==
  ASSUME IInv, TurnInv, IInv', GuestReads \/ GuestWrites \/ GuestReturns
  PROVE  TurnInv' /\ Below(Rank', Rank)
<1>1. Processing("Executing") /\ MyGuest.stack = "suspended"
  BY DEF GuestReads, GuestWrites, GuestReturns, GuestCalls, GuestRuns
<1>2. pc' \in Running /\ UNCHANGED <<cur, batch, ready, conns, sock>>
  BY DEF GuestReads, GuestWrites, GuestReturns, netVars, Running
<1>3. ASSUME NEW call \in {"read", "write"}, GuestCalls(call),
             NEW st, st # Waiting, NEW i, NEW b,
             session' = [session EXCEPT ![Me] = [My EXCEPT !.state = st, !.interest[i] = b]],
             guest' = [guest EXCEPT ![Me] = Asking(@, call)]
      PROVE  TurnInv' /\ Below(Rank', Rank)
  <2>1. PICK t : t = [My EXCEPT !.state = st, !.interest[i] = b] OBVIOUS
  <2>2. PICK g : g = Asking(MyGuest, call) OBVIOUS
  <2>3. t.index = My.index /\ t.state = st BY <1>1, <2>1, AtExecuting DEF Session
  <2>4. /\ g.stack = "suspended" /\ g.calls = MyGuest.calls + 1
        /\ MyGuest.calls \in Nat /\ g.calls <= MaxCalls
    BY <1>3, <2>2, OneMore
  <2>5. Requests(t, g) < Requests(My, MyGuest)
    BY <1>1, <2>4, BoundsAssumption DEF Requests
  <2>6. session' = [session EXCEPT ![Me] = t] /\ guest' = [guest EXCEPT ![Me] = g]
    BY <1>1, <1>3, <2>1, <2>2, AtExecuting
  <2> QED BY <1>1, <1>2, <1>3, <2>3, <2>4, <2>5, <2>6, AtExecuting, GoesOnTurns
<1>4. \A i, n, k : TcpRead(i, n) # Waiting /\ TcpWrite(i, n, k) # Waiting
  BY DEF TcpRead, TcpWrite, Waiting
<1>5. CASE GuestReads
  <2>1. PICK i \in My.backends, n \in Sizes :
          session' = [session EXCEPT ![Me] =
            [My EXCEPT !.state = TcpRead(i, n), !.interest[i] = @ \cup {"r"}]]
    BY <1>5 DEF GuestReads
  <2>2. PICK st : st = TcpRead(i, n) OBVIOUS
  <2>3. PICK b : b = My.interest[i] \cup {"r"} OBVIOUS
  <2>4. session' = [session EXCEPT ![Me] = [My EXCEPT !.state = st, !.interest[i] = b]]
    <3>1. [My EXCEPT !.state = st, !.interest[i] = @ \cup {"r"}]
            = [My EXCEPT !.state = st, !.interest[i] = b]
      BY <1>1, <2>3, AtExecuting DEF Session
    <3> QED BY <2>1, <2>2, <3>1
  <2>5. GuestCalls("read") /\ guest' = [guest EXCEPT ![Me] = Asking(@, "read")]
    BY <1>5 DEF GuestReads
  <2> QED BY <1>3, <1>4, <2>2, <2>4, <2>5
<1>6. CASE GuestWrites
  <2>1. PICK i \in My.backends, n \in Sizes :
          session' = [session EXCEPT ![Me] =
            [My EXCEPT !.state = TcpWrite(i, n, 0), !.interest[i] = @ \cup {"w"}]]
    BY <1>6 DEF GuestWrites
  <2>2. PICK st : st = TcpWrite(i, n, 0) OBVIOUS
  <2>3. PICK b : b = My.interest[i] \cup {"w"} OBVIOUS
  <2>4. session' = [session EXCEPT ![Me] = [My EXCEPT !.state = st, !.interest[i] = b]]
    <3>1. [My EXCEPT !.state = st, !.interest[i] = @ \cup {"w"}]
            = [My EXCEPT !.state = st, !.interest[i] = b]
      BY <1>1, <2>3, AtExecuting DEF Session
    <3> QED BY <2>1, <2>2, <3>1
  <2>5. GuestCalls("write") /\ guest' = [guest EXCEPT ![Me] = Asking(@, "write")]
    BY <1>6 DEF GuestWrites
  <2> QED BY <1>3, <1>4, <2>2, <2>4, <2>5
<1>7. CASE GuestReturns
  <2>1. PICK p \in SUBSET {"status", "body"} :
          /\ guest' = [guest EXCEPT ![Me] = [NoGuest EXCEPT !.stack = "returned",
                                                            !.prepared = p]]
          /\ session' = [session EXCEPT ![Me] = [My EXCEPT
               !.interest[My.index] = IF p = {"status", "body"} THEN @ \cup {"w"} ELSE @]]
    BY <1>7 DEF GuestReturns
  <2>2. PICK g : g = [NoGuest EXCEPT !.stack = "returned", !.prepared = p] OBVIOUS
  <2>3. PICK t : t = [My EXCEPT
               !.interest[My.index] = IF p = {"status", "body"} THEN @ \cup {"w"} ELSE @]
    OBVIOUS
  <2>4. g.stack = "returned" /\ g.calls = 0 BY <2>2 DEF NoGuest
  <2>5. t.index = My.index /\ t.state = Executing BY <1>1, <2>3, AtExecuting DEF Session
  <2>6. Executing # Waiting BY StateValues
  <2>7. MyGuest.calls \in Nat /\ MyGuest.calls <= MaxCalls
    BY <1>1, AtExecuting DEF TurnInv, Guest
  <2>8. Requests(t, g) < Requests(My, MyGuest)
    BY <1>1, <2>4, <2>7, BoundsAssumption DEF Requests
  <2>9. session' = [session EXCEPT ![Me] = t] /\ guest' = [guest EXCEPT ![Me] = g]
    BY <2>1, <2>2, <2>3
  <2>10. g.calls <= MaxCalls BY <2>4, BoundsAssumption
  <2> QED BY <1>1, <1>2, <2>5, <2>6, <2>8, <2>9, <2>10, AtExecuting, GoesOnTurns
<1> QED BY <1>5, <1>6, <1>7

(***************************************************************************)
(* A suspended call.                                                       *)
(***************************************************************************)

\* What is left of the call that is processed.
LEMMA CallLeft ==
  ASSUME IInv, Processing("TcpRead") \/ (Processing("TcpWrite") /\ "w" \in Usable)
  PROVE  /\ Calling(My, pc) \in Nat /\ Calling(My, pc) > 0
         /\ My.state.tag = "TcpWrite" =>
              /\ My.state.size \in Nat /\ My.state.written \in Nat
              /\ \/ My.state.written < My.state.size
                 \/ My.state.written = 0 /\ My.state.size = 0
<1>1. My.state.tag \in {"TcpRead", "TcpWrite"} BY DEF Processing
<1>2. CASE My.state.tag = "TcpRead" BY <1>2 DEF Calling
<1>3. CASE My.state.tag = "TcpWrite"
  <2>1. /\ My.state.size \in Nat /\ My.state.written \in Nat
        /\ \/ My.state.written < My.state.size
           \/ My.state.written = 0 /\ My.state.size = 0
    BY <1>3, AtCall, StateFields, SizesAssumption DEF SessInv, Session
  <2>2. 2 * (My.state.size - My.state.written) \in Nat BY <2>1
  <2>3. "w" \in My.readiness[My.state.fd] BY <1>3 DEF Processing, Usable, Fd
  <2>4. Calling(My, pc) = 2 * (My.state.size - My.state.written) + 1
    BY <1>3, <2>3 DEF Calling
  <2> QED BY <1>3, <2>1, <2>2, <2>4
<1> QED BY <1>1, <1>2, <1>3

\* An answer ends the call.
LEMMA AnswerTurns ==
  ASSUME IInv, TurnInv, IInv',
         Processing("TcpRead") \/ (Processing("TcpWrite") /\ "w" \in Usable),
         NEW v, NEW h \in Guest, h.stack = "suspended", h.calls = MyGuest.calls,
         NEW k, NEW lost, Answer(v, h, k, lost)
  PROVE  TurnInv' /\ Below(Rank', Rank)
<1>1. PICK t : t = [My EXCEPT !.state = Executing, !.readiness[Fd] = @ \ lost] OBVIOUS
<1>2. t.index = My.index /\ t.state = Executing BY <1>1, AtCall DEF Session
<1>3. PICK g : g = Answered(h, v) OBVIOUS
<1>4. g.stack = "suspended" /\ g.calls = MyGuest.calls BY <1>3 DEF Answered, Guest
<1>5. Executing # Waiting /\ Executing.tag = "Executing" BY StateValues
<1>6. MyGuest.calls <= MaxCalls BY AtCall DEF TurnInv
<1>7. Requests(t, g) = Requests(My, MyGuest) BY <1>4, AtCall DEF Requests
<1>8. Calling(t, pc') < Calling(My, pc)
  <2>1. Calling(t, pc') = 0 BY <1>2, <1>5 DEF Calling
  <2> QED BY <2>1, CallLeft
<1>9. /\ session' = [session EXCEPT ![Me] = t] /\ guest' = [guest EXCEPT ![Me] = g]
      /\ \A s \in Sess \ {Me} : sock'[s] = sock[s]
      /\ pc' \in Running /\ UNCHANGED <<cur, batch, ready, conns>>
  BY <1>1, <1>3, AtCall DEF Answer, Running
<1> QED BY <1>2, <1>4, <1>5, <1>6, <1>7, <1>8, <1>9, AtCall, GoesOnTurns

LEMMA ReadTurns ==
  ASSUME IInv, TurnInv, IInv', ReadSome \/ ReadError \/ ReadNothing
  PROVE  TurnInv' /\ Below(Rank', Rank)
<1>1. Processing("TcpRead") BY DEF ReadSome, ReadError, ReadNothing
<1>2. \E v, k, lost : Answer(v, MyGuest, k, lost)
  <2>1. CASE ReadSome BY <2>1 DEF ReadSome
  <2>2. CASE ReadError BY <2>2 DEF ReadError
  <2>3. CASE ReadNothing BY <2>3 DEF ReadNothing
  <2> QED BY <2>1, <2>2, <2>3
<1> QED BY <1>1, <1>2, AtCall, AnswerTurns

LEMMA ZeroTurns ==
  ASSUME IInv, TurnInv, IInv', ReadZero \/ WriteZero
  PROVE  TurnInv' /\ Below(Rank', Rank)
<1>1. PICK bit : \/ NothingAsked("TcpRead", bit)
                 \/ NothingAsked("TcpWrite", bit) /\ bit = "w"
  BY DEF ReadZero, WriteZero
<1>2. Processing("TcpRead") \/ (Processing("TcpWrite") /\ "w" \in Usable)
  BY <1>1 DEF NothingAsked
<1>3. PICK t : t = [My EXCEPT !.state = Executing, !.readiness[Fd] = @ \ {bit},
                             !.missed[Fd] = @ \cup {bit}]
  OBVIOUS
<1>4. t.index = My.index /\ t.state = Executing BY <1>2, <1>3, AtCall DEF Session
<1>5. PICK g : g = Answered(MyGuest, 0) OBVIOUS
<1>6. g.stack = "suspended" /\ g.calls = MyGuest.calls
  BY <1>2, <1>5, AtCall DEF Answered, Guest
<1>7. Executing # Waiting /\ Executing.tag = "Executing" BY StateValues
<1>8. MyGuest.calls <= MaxCalls BY <1>2, AtCall DEF TurnInv
<1>9. Requests(t, g) = Requests(My, MyGuest) BY <1>2, <1>6, AtCall DEF Requests
<1>10. Calling(t, pc') < Calling(My, pc)
  <2>1. Calling(t, pc') = 0 BY <1>4, <1>7 DEF Calling
  <2> QED BY <1>2, <2>1, CallLeft
<1>11. /\ session' = [session EXCEPT ![Me] = t] /\ guest' = [guest EXCEPT ![Me] = g]
       /\ UNCHANGED <<cur, batch, ready, conns, sock>> /\ pc' \in Running
  BY <1>1, <1>3, <1>5 DEF NothingAsked, netVars, MyGuest, Running
<1> QED BY <1>2, <1>4, <1>6, <1>7, <1>8, <1>9, <1>10, <1>11, AtCall, GoesOnTurns

LEMMA WriteTurns ==
  ASSUME IInv, TurnInv, IInv', WriteSome \/ WriteBlocks \/ WriteError
  PROVE  TurnInv' /\ Below(Rank', Rank)
<1>1. Processing("TcpWrite") /\ My.state.tag = "TcpWrite" /\ "w" \in Usable
  BY DEF WriteSome, WriteBlocks, WriteError, Processing
<1>2. /\ My.state.size \in Nat /\ My.state.written \in Nat
      /\ My.state.written <= My.state.size
      /\ My.state.size > 0 => My.state.written < My.state.size
  BY <1>1, CallLeft
<1>3. /\ My \in Session /\ MyGuest \in Guest /\ Fd \in Index /\ pc \in Running
      /\ MyGuest.stack = "suspended" /\ MyGuest = guest[Me] /\ Me \in Sess
      /\ guest \in [Sess -> Guest] /\ sock \in [Sess -> [Index -> Socket]]
  BY <1>1, AtCall
<1>4. MyGuest.calls <= MaxCalls BY <1>3 DEF TurnInv
<1>5. My.state # Waiting BY <1>1, StateValues
<1>6. Calling(My, pc) = 2 * (My.state.size - My.state.written) + 1
  BY <1>1 DEF Calling, Usable, Fd
<1>7. CASE WriteError BY <1>1, <1>3, <1>7, AnswerTurns DEF WriteError
<1>8. CASE WriteBlocks
  <2>1. PICK t : t = [My EXCEPT !.readiness[Fd] = @ \ {"w"}] OBVIOUS
  <2>2. /\ t.index = My.index /\ t.state = My.state
        /\ t.readiness[Fd] = My.readiness[Fd] \ {"w"}
    BY <1>3, <2>1 DEF Session
  <2>3. Calling(t, pc') < Calling(My, pc)
    <3>1. "w" \notin t.readiness[t.state.fd] BY <2>2 DEF Fd
    <3>2. Calling(t, pc') = 2 * (My.state.size - My.state.written)
      BY <1>1, <1>2, <2>2, <3>1 DEF Calling
    <3>3. 2 * (My.state.size - My.state.written) \in Nat BY <1>2
    <3> QED BY <1>6, <3>2, <3>3
  <2>4. Requests(t, MyGuest) = Requests(My, MyGuest) BY <1>3, <2>2 DEF Requests
  <2>5. /\ session' = [session EXCEPT ![Me] = t]
        /\ guest' = [guest EXCEPT ![Me] = MyGuest]
        /\ \A s \in Sess \ {Me} : sock'[s] = sock[s]
        /\ pc' \in Running /\ UNCHANGED <<cur, batch, ready, conns>>
    BY <1>3, <1>8, <2>1 DEF WriteBlocks, Running
  <2> QED BY <1>3, <1>4, <1>5, <2>2, <2>3, <2>4, <2>5, GoesOnTurns
<1>9. CASE WriteSome
  <2>1. PICK left \in Nat : left = My.state.size - My.state.written /\ left > 0
    BY <1>2, <1>9 DEF WriteSome
  <2>2. PICK k \in Socket : k = Peer /\ k.space > 0 BY <1>1, <1>9, AtCall DEF WriteSome
  <2>3. PICK n \in Nat : /\ n = IF k.space < left THEN k.space ELSE left
                         /\ 0 < n /\ n <= left
    BY <1>2, <2>1, <2>2, BoundsAssumption DEF Socket
  <2>4. PICK g \in Guest : /\ g = [MyGuest EXCEPT !.taken = @ + n]
                           /\ g.stack = "suspended" /\ g.calls = MyGuest.calls
    <3>1. PICK h \in Guest : h = MyGuest BY <1>3
    <3>2. PICK m \in Nat : m = h.taken + n BY DEF Guest
    <3>3. PICK g : g = [h EXCEPT !.taken = m] OBVIOUS
    <3>4. g \in Guest /\ g.stack = h.stack /\ g.calls = h.calls BY <3>3 DEF Guest
    <3> QED BY <1>3, <3>1, <3>2, <3>3, <3>4
  <2>5. CASE n = left
    <3>1. Answer(My.state.size, g, [k EXCEPT !.space = @ - n], {})
      BY <1>9, <2>1, <2>2, <2>3, <2>4, <2>5 DEF WriteSome
    <3> QED BY <1>1, <2>4, <3>1, AnswerTurns
  <2>6. CASE n # left
    <3>1. PICK t : t = [My EXCEPT !.state.written = @ + n] OBVIOUS
    <3>2. /\ session' = [session EXCEPT ![Me] = t] /\ guest' = [guest EXCEPT ![Me] = g]
          /\ sock' = [sock EXCEPT ![Me][Fd] = [k EXCEPT !.space = @ - n]]
          /\ pc' = "process" /\ UNCHANGED <<cur, batch, ready, conns>>
      BY <1>9, <2>1, <2>2, <2>3, <2>4, <2>6, <3>1 DEF WriteSome
    <3>3. \A s \in Sess \ {Me} : sock'[s] = sock[s] BY <1>3, <3>2
    <3>4. t.index = My.index /\ t.readiness = My.readiness BY <1>3, <3>1 DEF Session
    <3>5. /\ t.state.tag = "TcpWrite" /\ t.state.fd = Fd
          /\ t.state.size = My.state.size /\ t.state.written = My.state.written + n
      <4>1. t.state = [My.state EXCEPT !.written = @ + n] BY <1>3, <3>1 DEF Session
      <4>2. My.state = TcpWrite(Fd, My.state.size, My.state.written)
        BY <1>1, <1>3, StateFields DEF Session, Fd
      <4>3. PICK z, w : z = My.state.size /\ w = My.state.written OBVIOUS
      <4>4. t.state = TcpWrite(Fd, z, w + n) BY <4>1, <4>2, <4>3 DEF TcpWrite
      <4> QED BY <4>3, <4>4 DEF TcpWrite
    <3>6. "w" \in t.readiness[t.state.fd] BY <1>1, <3>4, <3>5 DEF Usable, Fd
    <3>7. Calling(t, pc') = 2 * (My.state.size - (My.state.written + n)) + 1
      BY <3>5, <3>6 DEF Calling
    <3>8. Calling(t, pc') < Calling(My, pc) BY <1>2, <1>6, <2>3, <3>7
    <3>9. t.state # Waiting BY <3>5, StateValues
    <3>10. Requests(t, g) = Requests(My, MyGuest) BY <1>3, <2>4 DEF Requests
    <3>11. pc' \in Running BY <3>2 DEF Running
    <3> QED BY <1>3, <1>4, <2>4, <3>2, <3>3, <3>4, <3>8, <3>9, <3>10, <3>11, GoesOnTurns
  <2> QED BY <2>5, <2>6
<1> QED BY <1>7, <1>8, <1>9

(***************************************************************************)
(* The peers.                                                              *)
(***************************************************************************)

\* The peers take nothing off what the thread has to do, and add nothing to it.
LEMMA PeerTurns ==
  ASSUME IInv, TurnInv, Peers
  PROVE  TurnInv'
<1>1. CASE ClientConnects
  BY <1>1 DEF ClientConnects, loopVars, sessVars, TurnInv, Alive, My, Me, Front
<1>2. ASSUME NEW s \in Sess, NEW i \in Index, sock[s][i].phase # "none",
             NEW k, Changes(s, i, k)
      PROVE  TurnInv'
  <2>1. /\ UNCHANGED <<pc, cur, batch, conns, session, guest>>
        /\ sock' = [sock EXCEPT ![s][i] = k]
    BY <1>2 DEF Changes, loopVars, sessVars
  <2>2. Alive(s) BY <1>2 DEF TurnInv
  <2>3. \A u \in Sess : /\ Alive(u)' <=> Alive(u)
                        /\ ~Alive(u) => sock'[u] = sock[u]
    BY <2>1, <2>2 DEF Alive, IInv, TypeOK
  <2>4. My' = My /\ Front' = Front BY <2>1 DEF My, Me, Front
  <2> QED BY <2>1, <2>3, <2>4 DEF TurnInv
<1>3. ASSUME NEW s \in Sess, NEW i \in Index,
             \/ PeerSends(s, i) \/ PeerCloses(s, i) \/ PeerResets(s, i)
             \/ PeerDrains(s, i) \/ ConnectDone(s, i) \/ ConnectFails(s, i)
      PROVE  TurnInv'
  <2>1. sock[s][i].phase # "none"
    BY <1>3 DEF PeerSends, PeerCloses, PeerResets, PeerDrains, ConnectDone, ConnectFails, Live
  <2>2. \E k : Changes(s, i, k)
    BY <1>3 DEF PeerSends, PeerCloses, PeerResets, PeerDrains, ConnectDone, ConnectFails
  <2> QED BY <1>2, <2>1, <2>2
<1> QED BY <1>1, <1>3 DEF Peers

(***************************************************************************)
(* The theorem.                                                            *)
(***************************************************************************)

LEMMA InitTurns ==
  ASSUME Init
  PROVE  TurnInv
<1>1. IsFiniteSet({}) BY FS_EmptySet
<1>2. \A i \in Index : NoSockets[i].phase = "none" /\ ~NoSockets[i].edge
  BY DEF NoSockets, NewSocket
<1>3. NoGuest.calls <= MaxCalls BY BoundsAssumption DEF NoGuest
<1> QED BY <1>1, <1>2, <1>3 DEF Init, TurnInv

LEMMA ServerTurns ==
  ASSUME IInv, TurnInv, IInv', Server
  PROVE  /\ TurnInv'
         /\ pc # "poll" => Lost \/ Lost' \/ Below(Rank', Rank)
<1>1. CASE Poll BY <1>1, PollTurns DEF Poll, TurnInv
<1>2. CASE EventAccept BY <1>2, AcceptTurns
<1>3. ASSUME NEW e \in batch, Event(e) PROVE TurnInv' /\ Below(Rank', Rank)
  BY <1>3, DispatchTurns
<1>4. CASE EndEvents \/ Drain \/ EndDrain BY <1>4, LoopTurns
<1>5. CASE FrontReadable BY <1>5, FrontReadTurns
<1>6. CASE FrontWritable \/ ParseError \/ NoRoute BY <1>6, ClosingTurns
<1>7. CASE ParsePartial BY <1>7, PartialTurns
<1>8. CASE ParseComplete \/ CreateInstance BY <1>8, RequestTurns
<1>9. CASE InstantiatePanic \/ ResumeEmpty \/ GuestFault \/ ConnectPanic
             \/ ExecutedWhileConnecting
  BY <1>9, PanicTurns
<1>10. CASE GuestConnects \/ ConnectRefused BY <1>10, GuestLeavesTurns
<1>11. CASE ReadParks \/ WriteParks BY <1>11, ParkTurns
<1>12. CASE GuestReads \/ GuestWrites \/ GuestReturns BY <1>12, GuestTurns
<1>13. CASE ReadSome \/ ReadError \/ ReadNothing BY <1>13, ReadTurns
<1>14. CASE WriteSome \/ WriteBlocks \/ WriteError BY <1>14, WriteTurns
<1>15. CASE ReadZero \/ WriteZero BY <1>15, ZeroTurns
<1> QED
  BY <1>1, <1>2, <1>3, <1>4, <1>5, <1>6, <1>7, <1>8, <1>9, <1>10, <1>11, <1>12,
     <1>13, <1>14, <1>15 DEF Server

LEMMA StepTurns ==
  ASSUME IInv, TurnInv, IInv', [Next]_vars
  PROVE  TurnInv'
<1>1. CASE Server BY <1>1, ServerTurns
<1>2. CASE Peers BY <1>2, PeerTurns
<1>3. CASE UNCHANGED vars
  BY <1>3 DEF vars, loopVars, sessVars, netVars, TurnInv, Alive, My, Me, Front
<1> QED BY <1>1, <1>2, <1>3 DEF Next

LEMMA TurnsAreBounded == Spec => []TurnInv
BY Inductive, InitTurns, StepTurns, PTL DEF Spec

\* Every turn of the event loop ends (TurnsEnd): between two polls each step of the
\* thread lowers Rank, which is well-founded, so that the thread is back in poll after
\* finitely many steps, for every slab, every guest and every behaviour of the peers;
\* but for an incomplete request, which it parses for ever.
THEOREM EveryTurnEnds == Spec => TurnsEnd
<1>1. IInv /\ IInv' /\ TurnInv /\ [Next]_vars =>
        [pc # "poll" /\ ~Lost /\ ~Lost' /\ Server => Below(Rank', Rank)]_vars
  BY ServerTurns
<1> QED BY <1>1, Inductive, TurnsAreBounded, PTL DEF Spec, TurnsEnd

=============================================================================
