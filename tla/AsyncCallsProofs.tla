-------------------------- MODULE AsyncCallsProofs --------------------------
(***************************************************************************)
(* AsyncServer implements BlockingCalls, for any number of sessions and    *)
(* descriptors.  Every step of the server and of its peers is a step of    *)
(* the abstract specification, or one that it does not show.  Beyond IInv  *)
(* this takes OpenInv: the sockets a session has are those of its streams. *)
(***************************************************************************)
EXTENDS AsyncServerProofs

OpenInv ==
  \A s \in Sess : Alive(s) =>
    \A i \in Index : sock[s][i].phase # "none" <=> i \in Streams(s)

\* What a step is to the abstract specification.
Shown == Calls!Next /\ OpenInv'
Unseen == UNCHANGED <<Clients, CallsMade, Sockets>> /\ OpenInv'

(***************************************************************************)
(* What the steps have in common.                                          *)
(***************************************************************************)

LEMMA View ==
  ASSUME NEW s \in Sess
  PROVE  /\ Clients[s] = session[s].index
         /\ CallsMade[s] = CallOf(session[s], guest[s])
         /\ \A i \in Index : Sockets[s][i] = Seen(sock[s][i])
  BY DEF Clients, CallsMade, Sockets

LEMMA SeenFields ==
  ASSUME NEW k
  PROVE  /\ Seen(k).phase = k.phase /\ Seen(k).avail = k.avail
         /\ Seen(k).eof = k.eof /\ Seen(k).space = k.space
  BY DEF Seen

\* No session changes in a way that its guest would notice.
LEMMA Silent ==
  ASSUME IInv, OpenInv, UNCHANGED Sockets,
         \A s \in Sess : /\ session'[s].index = session[s].index
                         /\ Alive(s) => session'[s].backends = session[s].backends
                         /\ CallOf(session'[s], guest'[s]) = CallOf(session[s], guest[s])
  PROVE  Unseen
<1>1. Clients' = Clients BY DEF Clients
<1>2. CallsMade' = CallsMade
  <2> DEFINE new == [s \in Sess |-> CallOf(session'[s], guest'[s])]
  <2>1. CallsMade' = new BY DEF CallsMade, CallOf
  <2>2. new = CallsMade BY DEF CallsMade
  <2> QED BY <2>1, <2>2
<1>3. \A s \in Sess, i \in Index : Seen(sock'[s][i]) = Seen(sock[s][i])
  <2>1. TAKE s \in Sess, i \in Index
  <2>2. Sockets'[s][i] = Seen(sock'[s][i]) BY DEF Sockets, Seen
  <2> QED BY <2>2, View
<1>4. \A s \in Sess, i \in Index : sock'[s][i].phase = sock[s][i].phase
  BY <1>3, SeenFields
<1>5. OpenInv' BY <1>4 DEF OpenInv, Alive, Streams
<1> QED BY <1>1, <1>2, <1>5 DEF Unseen

\* The session s goes on in place as t with its guest as g, its socket i as k.
Edits(s, t, g, i, k) ==
  /\ t.index = session[s].index /\ t.backends = session[s].backends
  /\ session' = [session EXCEPT ![s] = t] /\ guest' = [guest EXCEPT ![s] = g]
  /\ sock' = [sock EXCEPT ![s][i] = k]
  /\ k.phase = "none" <=> sock[s][i].phase = "none"

LEMMA Advances ==
  ASSUME IInv, OpenInv, NEW s \in Sess, NEW t, NEW g, NEW i \in Index, NEW k,
         Edits(s, t, g, i, k)
  PROVE  /\ Clients' = Clients
         /\ CallsMade' = [CallsMade EXCEPT ![s] = CallOf(t, g)]
         /\ Sockets' = [Sockets EXCEPT ![s][i] = Seen(k)]
         /\ OpenInv'
<1>0. /\ session \in [Sess -> Session \cup {Dropped}] /\ guest \in [Sess -> Guest]
      /\ sock \in [Sess -> [Index -> Socket]]
  BY DEF IInv, TypeOK
<1>1. /\ session'[s] = t /\ guest'[s] = g
      /\ \A u \in Sess \ {s} : /\ session'[u] = session[u] /\ guest'[u] = guest[u]
                               /\ sock'[u] = sock[u]
      /\ sock'[s][i] = k /\ \A j \in Index \ {i} : sock'[s][j] = sock[s][j]
  BY <1>0 DEF Edits
<1>2. Clients' = Clients BY <1>1 DEF Clients, Edits
<1>3. CallsMade' = [CallsMade EXCEPT ![s] = CallOf(t, g)]
  <2> DEFINE new == [u \in Sess |-> CallOf(session'[u], guest'[u])]
  <2>1. CallsMade' = new BY DEF CallsMade, CallOf
  <2>2. /\ \A u \in Sess \ {s} : CallOf(session'[u], guest'[u]) = CallOf(session[u], guest[u])
        /\ CallOf(session'[s], guest'[s]) = CallOf(t, g)
    BY <1>1
  <2>3. new = [CallsMade EXCEPT ![s] = CallOf(t, g)] BY <2>2 DEF CallsMade
  <2> QED BY <2>1, <2>3
<1>4. Sockets' = [Sockets EXCEPT ![s][i] = Seen(k)]
  <2> DEFINE new == [u \in Sess |-> [j \in Index |-> Seen(sock'[u][j])]]
  <2>1. Sockets' = new BY DEF Sockets, Seen
  <2>2. \A u \in Sess \ {s} : \A j \in Index : Seen(sock'[u][j]) = Seen(sock[u][j])
    BY <1>1
  <2>3. \A j \in Index : Seen(sock'[s][j]) = IF j = i THEN Seen(k) ELSE Seen(sock[s][j])
    BY <1>1
  <2>4. \A j \in Index : Seen(sock'[s][j]) = [Sockets[s] EXCEPT ![i] = Seen(k)][j]
    BY <2>3 DEF Sockets
  <2>5. \A u \in Sess \ {s} : new[u] = Sockets[u] BY <2>2 DEF Sockets
  <2>6. new[s] = [Sockets[s] EXCEPT ![i] = Seen(k)] BY <2>4 DEF Sockets
  <2> HIDE DEF new
  <2>7. /\ DOMAIN new = Sess /\ DOMAIN Sockets = Sess
        /\ new = [u \in Sess |-> new[u]] /\ Sockets = [u \in Sess |-> Sockets[u]]
    BY DEF new, Sockets
  <2>8. new = [Sockets EXCEPT ![s][i] = Seen(k)] BY <2>5, <2>6, <2>7
  <2> QED BY <2>1, <2>8
<1>5. OpenInv' BY <1>1 DEF OpenInv, Alive, Streams, Edits
<1> QED BY <1>2, <1>3, <1>4, <1>5

\* The same, when no socket changes.
LEMMA Proceeds ==
  ASSUME IInv, OpenInv, NEW s \in Sess, Alive(s), NEW t, NEW g,
         t.index = session[s].index, t.backends = session[s].backends,
         session' = [session EXCEPT ![s] = t], guest' = [guest EXCEPT ![s] = g],
         UNCHANGED sock
  PROVE  /\ Clients' = Clients
         /\ CallsMade' = [CallsMade EXCEPT ![s] = CallOf(t, g)]
         /\ Sockets' = Sockets
         /\ OpenInv'
<1>0. session \in [Sess -> Session \cup {Dropped}] /\ guest \in [Sess -> Guest]
  BY DEF IInv, TypeOK
<1>1. /\ session'[s] = t /\ guest'[s] = g
      /\ \A u \in Sess \ {s} : session'[u] = session[u] /\ guest'[u] = guest[u]
  BY <1>0
<1>2. Clients' = Clients BY <1>1 DEF Clients
<1>3. CallsMade' = [CallsMade EXCEPT ![s] = CallOf(t, g)]
  <2> DEFINE new == [u \in Sess |-> CallOf(session'[u], guest'[u])]
  <2>1. CallsMade' = new BY DEF CallsMade, CallOf
  <2>2. /\ \A u \in Sess \ {s} : CallOf(session'[u], guest'[u]) = CallOf(session[u], guest[u])
        /\ CallOf(session'[s], guest'[s]) = CallOf(t, g)
    BY <1>1
  <2>3. new = [CallsMade EXCEPT ![s] = CallOf(t, g)] BY <2>2 DEF CallsMade
  <2> QED BY <2>1, <2>3
<1>4. Sockets' = Sockets BY DEF Sockets, Seen
<1>5. OpenInv' BY <1>1 DEF OpenInv, Alive, Streams
<1> QED BY <1>2, <1>3, <1>4, <1>5

\* The session s becomes t with its guest as g and its sockets as k.
LEMMA Replaced ==
  ASSUME IInv, OpenInv, NEW s \in Sess, NEW t, NEW g, NEW k,
         session' = [session EXCEPT ![s] = t], guest' = [guest EXCEPT ![s] = g],
         sock' = [sock EXCEPT ![s] = k],
         t.index # None => \A i \in Index : 
           k[i].phase # "none" <=> i \in {t.index} \cup t.backends
  PROVE  /\ Clients' = [Clients EXCEPT ![s] = t.index]
         /\ CallsMade' = [CallsMade EXCEPT ![s] = CallOf(t, g)]
         /\ Sockets' = [Sockets EXCEPT ![s] = [i \in Index |-> Seen(k[i])]]
         /\ OpenInv'
<1>1. /\ session'[s] = t /\ guest'[s] = g /\ sock'[s] = k
      /\ \A u \in Sess \ {s} : /\ session'[u] = session[u] /\ guest'[u] = guest[u]
                               /\ sock'[u] = sock[u]
  BY DEF IInv, TypeOK
<1>2. Clients' = [Clients EXCEPT ![s] = t.index]
  <2>1. /\ session'[s].index = t.index
        /\ \A u \in Sess \ {s} : session'[u].index = session[u].index
    BY <1>1
  <2> QED BY <2>1 DEF Clients
<1>3. CallsMade' = [CallsMade EXCEPT ![s] = CallOf(t, g)]
  <2> DEFINE new == [u \in Sess |-> CallOf(session'[u], guest'[u])]
  <2>1. CallsMade' = new BY DEF CallsMade, CallOf
  <2>2. /\ \A u \in Sess \ {s} : CallOf(session'[u], guest'[u]) = CallOf(session[u], guest[u])
        /\ CallOf(session'[s], guest'[s]) = CallOf(t, g)
    BY <1>1
  <2>3. new = [CallsMade EXCEPT ![s] = CallOf(t, g)] BY <2>2 DEF CallsMade
  <2> QED BY <2>1, <2>3
<1>4. Sockets' = [Sockets EXCEPT ![s] = [i \in Index |-> Seen(k[i])]]
  <2> DEFINE new == [u \in Sess |-> [i \in Index |-> Seen(sock'[u][i])]]
  <2>1. Sockets' = new BY DEF Sockets, Seen
  <2>2. \A u \in Sess \ {s} : new[u] = Sockets[u] BY <1>1 DEF Sockets
  <2>3. new[s] = [i \in Index |-> Seen(k[i])] BY <1>1
  <2> HIDE DEF new
  <2>4. /\ DOMAIN new = Sess /\ DOMAIN Sockets = Sess
        /\ new = [u \in Sess |-> new[u]] /\ Sockets = [u \in Sess |-> Sockets[u]]
    BY DEF new, Sockets
  <2> QED BY <2>1, <2>2, <2>3, <2>4
<1>5. OpenInv' BY <1>1 DEF OpenInv, Alive, Streams
<1> QED BY <1>2, <1>3, <1>4, <1>5

\* What a guest does, by its stack and the state of its session.
LEMMA CallForms ==
  ASSUME NEW t, NEW g
  PROVE  /\ g.stack = "none" => CallOf(t, g) = Calls!NotStarted
         /\ g.stack = "returned" => CallOf(t, g) = Calls!Done
         /\ g.stack = "suspended" =>
              /\ t.state.tag = "Executing" => CallOf(t, g) = Calls!Runs(g.answers)
              /\ t.state.tag = "WaitingForBackendConnect" =>
                   CallOf(t, g) = Calls!Connects(t.state.fd)
              /\ t.state.tag = "TcpRead" =>
                   CallOf(t, g) = Calls!Reads(t.state.fd, t.state.size)
              /\ t.state.tag = "TcpWrite" =>
                   CallOf(t, g) = Calls!Writes(t.state.fd, t.state.size, g.taken)
<1>1. ASSUME g.stack # "suspended" PROVE CallOf(t, g) = [op |-> g.stack]
  BY <1>1 DEF CallOf
<1>6. /\ g.stack = "none" => CallOf(t, g) = Calls!NotStarted
      /\ g.stack = "returned" => CallOf(t, g) = Calls!Done
  BY <1>1 DEF Calls!NotStarted, Calls!Done
<1>2. ASSUME g.stack = "suspended", t.state.tag = "Executing"
      PROVE  CallOf(t, g) = Calls!Runs(g.answers)
  BY <1>2 DEF CallOf, Calls!Runs
<1>3. ASSUME g.stack = "suspended", t.state.tag = "WaitingForBackendConnect"
      PROVE  CallOf(t, g) = Calls!Connects(t.state.fd)
  BY <1>3 DEF CallOf, Calls!Connects
<1>4. ASSUME g.stack = "suspended", t.state.tag = "TcpRead"
      PROVE  CallOf(t, g) = Calls!Reads(t.state.fd, t.state.size)
  BY <1>4 DEF CallOf, Calls!Reads
<1>5. ASSUME g.stack = "suspended", t.state.tag = "TcpWrite"
      PROVE  CallOf(t, g) = Calls!Writes(t.state.fd, t.state.size, g.taken)
  BY <1>5 DEF CallOf, Calls!Writes
<1> QED BY <1>2, <1>3, <1>4, <1>5, <1>6

\* A step of a session is a step of the specification.
LEMMA StepShown ==
  ASSUME NEW s \in Sess, Calls!Step(s), OpenInv'
  PROVE  Shown
  BY DEF Shown, Calls!Next

LEMMA Idle ==
  ASSUME IInv, OpenInv, UNCHANGED <<session, guest, sock>>
  PROVE  Unseen
<1>1. UNCHANGED Sockets BY DEF Sockets
<1> QED BY <1>1, Silent

(***************************************************************************)
(* The event loop.                                                         *)
(***************************************************************************)

LEMMA PollUnseen ==
  ASSUME IInv, OpenInv, Poll
  PROVE  Unseen
<1>1. UNCHANGED <<session, guest>> BY DEF Poll, sessVars
<1>2. \A s \in Sess, i \in Index : Seen(sock'[s][i]) = Seen(sock[s][i])
  <2>1. TAKE s \in Sess, i \in Index
  <2>2. sock[s][i] \in Socket BY DEF IInv, TypeOK
  <2>3. sock'[s][i] = [sock[s][i] EXCEPT !.edge = FALSE] BY DEF Poll
  <2> QED BY <2>2, <2>3 DEF Seen, Socket
<1>3. Sockets' = Sockets
  <2> DEFINE new == [s \in Sess |-> [i \in Index |-> Seen(sock'[s][i])]]
  <2>1. Sockets' = new BY DEF Sockets, Seen
  <2>2. new = Sockets BY <1>2 DEF Sockets
  <2> QED BY <2>1, <2>2
<1> QED BY <1>1, <1>3, Silent

LEMMA EventSeen ==
  ASSUME IInv, OpenInv, NEW e \in batch, Event(e)
  PROVE  Shown \/ Unseen
<1> DEFINE i == e.index
           s == conns[i]
<1>1. e \in SocketEvent /\ i \in Index BY DEF IInv, TypeOK, SocketEvent
<1>2. CASE s = None \/ (s # None /\ i \notin Streams(s))
  BY <1>2, Idle DEF Event, netVars
<1>3. CASE s # None /\ i \in Streams(s)
  <2>1. PICK u \in Sess : u = s BY <1>1, <1>3 DEF IInv, TypeOK
  <2>2. Alive(u) /\ SessInv(session[u], guest[u])
    BY <1>1, <1>3, <2>1 DEF IInv, SlabInv, LocalInv
  <2>3. PICK t : t = Noted(s, i, e.mask) OBVIOUS
  <2>4. PICK g : g = IF ConnectsOn(s, i) THEN Answered(guest[s], i) ELSE guest[s]
    OBVIOUS
  <2>5. /\ session' = [session EXCEPT ![u] = t] /\ guest' = [guest EXCEPT ![u] = g]
        /\ sock' = sock
    BY <1>3, <2>1, <2>3, <2>4 DEF Event, netVars
  <2>6. /\ t.index = session[u].index /\ t.backends = session[u].backends
        /\ t.state = IF ConnectsOn(u, i) THEN Executing ELSE session[u].state
    BY <2>1, <2>2, <2>3 DEF Noted, SessInv, Session
  <2>7. /\ Clients' = Clients
        /\ CallsMade' = [CallsMade EXCEPT ![u] = CallOf(t, g)]
        /\ Sockets' = Sockets
        /\ OpenInv'
    BY <2>2, <2>5, <2>6, Proceeds
  <2>8. CASE ConnectsOn(s, i)
    <3>1. Pending(session[u], guest[u], "connect") /\ session[u].state = Connecting(i)
      BY <1>1, <2>1, <2>2, <2>8, StateValues DEF ConnectsOn, SessInv, CallProtocol
    <3>2. session[u].state.tag = "WaitingForBackendConnect" /\ session[u].state.fd = i
      BY <1>1, <3>1, StateValues
    <3>3. t.state.tag = "Executing" BY <2>1, <2>6, <2>8, StateValues
    <3>4. g.stack = "suspended" /\ g.answers = <<i>>
      BY <2>1, <2>2, <2>4, <2>8, <3>1 DEF Answered, Pending, SessInv, Guest
    <3>5. CallsMade[u] = Calls!Connects(i)
      BY <3>1, <3>2, CallForms, View DEF Pending
    <3>6. CallOf(t, g) = Calls!Runs(<<i>>) BY <3>3, <3>4, CallForms
    <3>7. Calls!ConnectEnds(u)
      BY <2>7, <3>5, <3>6 DEF Calls!ConnectEnds, Calls!Goes, Calls!Fd, Calls!Connects
    <3> QED BY <2>7, <3>7, StepShown DEF Calls!Step
  <2>9. CASE ~ConnectsOn(s, i)
    <3>1. CallOf(t, g) = CallOf(session[u], guest[u])
      <4>1. t.state = session[u].state /\ g = guest[u] BY <2>1, <2>4, <2>6, <2>9
      <4> QED BY <4>1 DEF CallOf
    <3>2. CallsMade' = CallsMade BY <2>7, <3>1 DEF CallsMade
    <3> QED BY <2>7, <3>2 DEF Unseen
  <2> QED BY <2>8, <2>9
<1> QED BY <1>2, <1>3

\* A new session has one socket, and its guest has not started.
LEMMA AcceptSeen ==
  ASSUME IInv, OpenInv, EventAccept
  PROVE  Shown \/ Unseen
<1>1. CASE UNCHANGED <<conns, session, kind, sock>>
  BY <1>1, Idle DEF EventAccept
<1>2. CASE ~UNCHANGED <<conns, session, kind, sock>>
  <2>1. PICK i \in Index, s \in Sess :
          /\ ~Alive(s)
          /\ session' = [session EXCEPT ![s] = NewSession(i)]
          /\ sock' = [sock EXCEPT ![s] = [NoSockets EXCEPT ![i] = NewSocket("open")]]
    BY <1>2 DEF EventAccept
  <2>2. guest[s] = NoGuest /\ guest' = [guest EXCEPT ![s] = NoGuest]
    BY <2>1 DEF EventAccept, IInv, SlabInv, TypeOK
  <2>3. PICK t : t = NewSession(i) OBVIOUS
  <2>4. PICK k : k = [NoSockets EXCEPT ![i] = NewSocket("open")] OBVIOUS
  <2>5. t.index = i /\ t.backends = {} BY <2>3 DEF NewSession
  <2>6. \A j \in Index :
          /\ Seen(k[j]) = Calls!NewSocket(IF j = i THEN "open" ELSE "none")
          /\ k[j].phase # "none" <=> j = i
    <3>1. TAKE j \in Index
    <3>2. PICK p \in {"open", "none"} : p = IF j = i THEN "open" ELSE "none" OBVIOUS
    <3>3. k[j] = NewSocket(p) BY <2>4, <3>2 DEF NoSockets
    <3>4. Seen(NewSocket(p)) = Calls!NewSocket(p)
      BY DEF Seen, NewSocket, Calls!NewSocket
    <3>5. NewSocket(p).phase = p BY DEF NewSocket
    <3> QED BY <3>2, <3>3, <3>4, <3>5
  <2>7. /\ Clients' = [Clients EXCEPT ![s] = i]
        /\ CallsMade' = [CallsMade EXCEPT ![s] = CallOf(t, NoGuest)]
        /\ Sockets' = [Sockets EXCEPT ![s] = [j \in Index |-> Seen(k[j])]]
        /\ OpenInv'
    <3>1. t.index # None => \A j \in Index :
            k[j].phase # "none" <=> j \in {t.index} \cup t.backends
      BY <2>5, <2>6
    <3>2. session' = [session EXCEPT ![s] = t] /\ sock' = [sock EXCEPT ![s] = k]
      BY <2>1, <2>3, <2>4
    <3>3. t.index = i BY <2>5
    <3>4. /\ Clients' = [Clients EXCEPT ![s] = t.index]
          /\ CallsMade' = [CallsMade EXCEPT ![s] = CallOf(t, NoGuest)]
          /\ Sockets' = [Sockets EXCEPT ![s] = [j \in Index |-> Seen(k[j])]]
          /\ OpenInv'
      <4>1. guest' = [guest EXCEPT ![s] = NoGuest] BY <2>2
      <4> QED BY <4>1, <3>1, <3>2, Replaced
    <3> QED BY <3>3, <3>4
  <2>8. [j \in Index |-> Seen(k[j])] =
          [j \in Index |-> Calls!NewSocket(IF j = i THEN "open" ELSE "none")]
    BY <2>6
  <2>9. Clients[s] = None /\ CallsMade[s] = CallOf(t, NoGuest)
    BY <2>1, <2>2, View, CallForms DEF Alive, NoGuest
  <2>10. CallsMade' = CallsMade BY <2>7, <2>9 DEF CallsMade
  <2>11. Calls!Accept(s) BY <2>7, <2>8, <2>9, <2>10 DEF Calls!Accept
  <2> QED BY <2>7, <2>11, StepShown DEF Calls!Step
<1> QED BY <1>1, <1>2

(***************************************************************************)
(* The client's side of a session.                                         *)
(***************************************************************************)

\* The sockets close with the last slab entry, and not in a call.
LEMMA CloseSeen ==
  ASSUME IInv, OpenInv, pc \in Running, NEW t, NEW n,
         t.index = My.index, t.backends = My.backends,
         MyGuest.stack \in {"none", "returned"}, Close(t, n)
  PROVE  Shown \/ Unseen
<1>1. PICK s \in Sess : s = Me /\ Alive(s) /\ My = session[s] /\ MyGuest = guest[s]
  BY MeAlive DEF IInv
<1>2. \A u : CallOf(u, MyGuest) \in {Calls!NotStarted, Calls!Done}
  BY CallForms
<1>3. CASE Slots(Me) \ {cur} = {}
  <2>1. /\ session' = [session EXCEPT ![s] = Dropped]
        /\ guest' = [guest EXCEPT ![s] = NoGuest]
        /\ sock' = [sock EXCEPT ![s] = NoSockets]
    BY <1>1, <1>3 DEF Close
  <2>2. Dropped.index = None BY DEF Dropped
  <2>3. /\ Clients' = [Clients EXCEPT ![s] = None]
        /\ CallsMade' = [CallsMade EXCEPT ![s] = CallOf(Dropped, NoGuest)]
        /\ Sockets' = [Sockets EXCEPT ![s] = [i \in Index |-> Seen(NoSockets[i])]]
        /\ OpenInv'
    <3>1. PICK d : d = Dropped OBVIOUS
    <3>2. PICK k : k = NoSockets OBVIOUS
    <3>3. d.index = None BY <2>2, <3>1
    <3>4. /\ session' = [session EXCEPT ![s] = d] /\ sock' = [sock EXCEPT ![s] = k]
          /\ guest' = [guest EXCEPT ![s] = NoGuest]
      BY <2>1, <3>1, <3>2
    <3>5. /\ Clients' = [Clients EXCEPT ![s] = d.index]
          /\ CallsMade' = [CallsMade EXCEPT ![s] = CallOf(d, NoGuest)]
          /\ Sockets' = [Sockets EXCEPT ![s] = [i \in Index |-> Seen(k[i])]]
          /\ OpenInv'
      BY <3>3, <3>4, Replaced
    <3> QED BY <3>1, <3>2, <3>3, <3>5
  <2>4. CallOf(Dropped, NoGuest) = Calls!NotStarted BY CallForms DEF NoGuest
  <2>5. \A i \in Index : Seen(NoSockets[i]) = Calls!NewSocket("none")
    BY DEF Seen, NoSockets, NewSocket, Calls!NewSocket
  <2>6. [i \in Index |-> Seen(NoSockets[i])] = [i \in Index |-> Calls!NewSocket("none")]
    BY <2>5
  <2>7. Clients[s] # None /\ CallsMade[s] \in {Calls!NotStarted, Calls!Done}
    BY <1>1, <1>2, View DEF Alive
  <2>8. Calls!Close(s) BY <2>3, <2>4, <2>6, <2>7 DEF Calls!Close
  <2> QED BY <2>3, <2>8, StepShown DEF Calls!Step
<1>4. CASE Slots(Me) \ {cur} # {}
  <2>1. session' = [session EXCEPT ![s] = t] /\ guest' = guest /\ sock' = sock
    BY <1>1, <1>4 DEF Close, IInv, TypeOK
  <2>2. Sockets' = Sockets BY <2>1 DEF Sockets
  <2>3. CallOf(t, MyGuest) = CallOf(My, MyGuest) BY CallForms
  <2>4. /\ session'[s] = t
        /\ \A u \in Sess \ {s} : session'[u] = session[u] /\ guest'[u] = guest[u]
    BY <2>1 DEF IInv, TypeOK
  <2> QED BY <1>1, <2>1, <2>2, <2>3, <2>4, Silent
<1> QED BY <1>3, <1>4

LEMMA FrontReadableSeen ==
  ASSUME IInv, OpenInv, FrontReadable
  PROVE  Shown \/ Unseen
<1>1. pc \in Running BY DEF FrontReadable, AtFrontReadable, Running
<1>2. PICK s \in Sess : s = Me /\ Alive(s) /\ My = session[s] /\ MyGuest = guest[s]
                        /\ SessInv(My, MyGuest) /\ sock[s] \in [Index -> Socket]
  BY <1>1, MeAlive DEF IInv
<1>3. My.state = Waiting /\ MyGuest.stack = "none" /\ "w" \notin Front
  BY ReadsWaiting DEF FrontReadable
<1>4. CASE Close(My, 0) BY <1>1, <1>3, <1>4, CloseSeen
<1>5. CASE ~Close(My, 0)
  <2>1. PICK i \in Index : i = My.index BY <1>2 DEF SessInv, Session
  <2>2. PICK k \in Socket : k = sock[s][i] BY <1>2
  <2>3. My.buffered \in Nat /\ My.buffered <= BufLen BY <1>2 DEF SessInv, Session
  <2>4. PICK room \in Nat : room = BufLen - My.buffered
    BY <2>3, LengthAssumption
  <2>5. PICK left \in Nat : left = IF k.avail < room THEN 0 ELSE k.avail - room
    BY DEF Socket
  <2>6. PICK t : t = [My EXCEPT
                    !.buffered = @ + (IF k.avail < room THEN k.avail ELSE room),
                    !.readiness[i] = IF k.avail < room THEN @ \ {"r"} ELSE @]
    OBVIOUS
  <2>7. /\ session' = [session EXCEPT ![s] = t]
        /\ sock' = [sock EXCEPT ![s][i].avail = left]
        /\ guest' = guest
    BY <1>2, <1>3, <1>5, <2>1, <2>2, <2>4, <2>5, <2>6 DEF FrontReadable
  <2>8. t.index = My.index /\ t.backends = My.backends
    BY <1>2, <2>6 DEF SessInv, Session
  <2>9. PICK l : l = [k EXCEPT !.avail = left] OBVIOUS
  <2>10. sock' = [sock EXCEPT ![s][i] = l] BY <2>2, <2>7, <2>9
  <2>11. l.phase = k.phase /\ Seen(l) = [Seen(k) EXCEPT !.avail = left]
    BY <2>9 DEF Socket, Seen
  <2>12. guest' = [guest EXCEPT ![s] = MyGuest] BY <1>2, <2>7 DEF IInv, TypeOK
  <2>13. /\ Clients' = Clients
         /\ CallsMade' = [CallsMade EXCEPT ![s] = CallOf(t, MyGuest)]
         /\ Sockets' = [Sockets EXCEPT ![s][i] = Seen(l)]
         /\ OpenInv'
    <3>1. l.phase = "none" <=> sock[s][i].phase = "none" BY <2>2, <2>11
    <3>2. session' = [session EXCEPT ![s] = t] BY <2>7
    <3>3. t.index = session[s].index /\ t.backends = session[s].backends BY <1>2, <2>8
    <3>4. Edits(s, t, MyGuest, i, l) BY <2>10, <2>12, <3>1, <3>2, <3>3 DEF Edits
    <3> QED BY <3>4, Advances
  <2>14. /\ CallsMade[s] = Calls!NotStarted /\ CallOf(t, MyGuest) = Calls!NotStarted
         /\ Clients[s] = i /\ i # None /\ Sockets[s][i] = Seen(k)
    BY <1>2, <1>3, <2>1, <2>2, CallForms, View DEF Alive
  <2>15. CallsMade' = CallsMade BY <2>13, <2>14 DEF CallsMade
  <2>16. CASE left = k.avail
    <3>1. Seen(l) = Seen(k) BY <2>11, <2>16 DEF Seen
    <3>2. Sockets = [Sockets EXCEPT ![s][i] = Sockets[s][i]] BY DEF Sockets
    <3>3. Sockets' = Sockets BY <2>13, <2>14, <3>1, <3>2
    <3> QED BY <2>13, <2>15, <3>3 DEF Unseen
  <2>17. CASE left # k.avail
    <3>1. PICK n \in 1..k.avail : left = k.avail - n
      <4>1. k.avail \in Nat /\ left < k.avail BY <2>5, <2>17 DEF Socket
      <4>2. k.avail - left \in 1..k.avail /\ left = k.avail - (k.avail - left) BY <4>1
      <4> QED BY <4>2
    <3>2. Seen(l) = [Seen(k) EXCEPT !.avail = @ - n] /\ n \in 1..Seen(k).avail
      BY <2>11, <3>1 DEF Seen
    <3>3. Calls!Receive(s)
      BY <2>13, <2>14, <2>15, <3>2 DEF Calls!Receive, Calls!Becomes
    <3> QED BY <2>13, <3>3, StepShown DEF Calls!Step
  <2> QED BY <2>16, <2>17
<1> QED BY <1>4, <1>5

LEMMA FrontWritableSeen ==
  ASSUME IInv, OpenInv, FrontWritable
  PROVE  Shown \/ Unseen
<1>1. pc \in Running /\ "w" \in Front
  BY DEF FrontWritable, AtFrontWritable, Running, IInv, Unreached
<1>2. SessInv(My, MyGuest) BY <1>1, MeAlive DEF IInv
<1>3. MyGuest.stack = "returned" /\ MyGuest.prepared = {"status", "body"}
  BY <1>1, <1>2 DEF Front, SessInv, ClientInterest
<1>4. Close(My, 1) BY <1>3 DEF FrontWritable
<1> QED BY <1>1, <1>3, <1>4, CloseSeen

LEMMA ParseSeen ==
  ASSUME IInv, OpenInv, ParseError \/ ParsePartial \/ ParseComplete
  PROVE  Shown \/ Unseen
<1>1. pc \in Running /\ My.state.tag = "WaitingForRequest"
  BY DEF ParseError, ParsePartial, ParseComplete, Processing, AtProcess, Running
<1>2. PICK s \in Sess : s = Me /\ Alive(s) /\ My = session[s] /\ MyGuest = guest[s]
                        /\ SessInv(My, MyGuest)
  BY <1>1, MeAlive DEF IInv
<1>3. MyGuest.stack = "none" BY <1>1, <1>2 DEF SessInv, CallProtocol
<1>4. CASE ParseError BY <1>1, <1>3, <1>4, CloseSeen DEF ParseError
<1>5. CASE ParsePartial BY <1>5, Idle DEF ParsePartial, sessVars, netVars
<1>6. CASE ParseComplete
  <2>1. PICK t : t = [My EXCEPT !.state = Executing, !.interest[My.index] = @ \ {"r"}]
    OBVIOUS
  <2>2. session' = [session EXCEPT ![s] = t] /\ guest' = guest /\ sock' = sock
    BY <1>2, <1>6, <2>1 DEF ParseComplete, netVars
  <2>3. t.index = My.index /\ t.backends = My.backends
    BY <1>2, <2>1 DEF SessInv, Session
  <2>4. Sockets' = Sockets BY <2>2 DEF Sockets
  <2>5. CallOf(t, MyGuest) = CallOf(My, MyGuest) BY <1>3, CallForms
  <2>6. /\ session'[s] = t
        /\ \A u \in Sess \ {s} : session'[u] = session[u] /\ guest'[u] = guest[u]
    BY <2>2 DEF IInv, TypeOK
  <2> QED BY <1>2, <2>2, <2>3, <2>4, <2>5, <2>6, Silent
<1> QED BY <1>4, <1>5, <1>6

(***************************************************************************)
(* The guest's side of a session.                                          *)
(***************************************************************************)

LEMMA CreateSeen ==
  ASSUME IInv, OpenInv, NoRoute \/ CreateInstance
  PROVE  Shown \/ Unseen
<1>1. Processing("Executing") /\ MyGuest.stack = "none"
  BY DEF NoRoute, CreateInstance
<1>2. PICK s \in Sess : s = Me /\ Alive(s) /\ My = session[s] /\ MyGuest = guest[s]
                        /\ My \in Session /\ My.state = Executing /\ pc \in Running
                        /\ SessInv(My, MyGuest)
  BY <1>1, AtExecuting
<1>3. CASE NoRoute
  <2>1. PICK t : t = [My EXCEPT !.interest[My.index] = {}] OBVIOUS
  <2>2. t.index = My.index /\ t.backends = My.backends BY <1>2, <2>1 DEF Session
  <2>3. Close(t, 1) BY <1>3, <2>1 DEF NoRoute
  <2> QED BY <1>1, <1>2, <2>2, <2>3, CloseSeen
<1>4. CASE CreateInstance
  <2>1. PICK g : g = [MyGuest EXCEPT !.stack = "suspended"] OBVIOUS
  <2>2. g.stack = "suspended" /\ g.answers = <<>>
    BY <1>1, <1>2, <2>1 DEF SessInv, NoGuest
  <2>3. /\ session' = [session EXCEPT ![s] = My] /\ guest' = [guest EXCEPT ![s] = g]
        /\ sock' = sock
    BY <1>2, <1>4, <2>1 DEF CreateInstance, netVars, IInv, TypeOK
  <2>4. /\ Clients' = Clients
        /\ CallsMade' = [CallsMade EXCEPT ![s] = CallOf(My, g)]
        /\ Sockets' = Sockets
        /\ OpenInv'
    <3>1. Alive(s) /\ My.index = session[s].index /\ My.backends = session[s].backends
      BY <1>2
    <3> QED BY <3>1, <2>3, Proceeds
  <2>5. My.state.tag = "Executing" BY <1>2, StateValues
  <2>6. CallOf(My, g) = Calls!Runs(<<>>) BY <2>2, <2>5, CallForms
  <2>7. Clients[s] # None /\ CallsMade[s] = Calls!NotStarted
    BY <1>1, <1>2, View, CallForms DEF Alive
  <2>8. Calls!Start(s) BY <2>4, <2>6, <2>7 DEF Calls!Start, Calls!Goes
  <2> QED BY <2>4, <2>8, StepShown DEF Calls!Step
<1> QED BY <1>3, <1>4

\* The session whose guest runs, in the specification.
LEMMA AtRun ==
  ASSUME IInv, GuestRuns
  PROVE  \E s \in Sess : /\ s = Me /\ Alive(s) /\ My = session[s] /\ MyGuest = guest[s]
                         /\ My \in Session /\ MyGuest \in Guest /\ replies[s] = 0
                         /\ My.state.tag = "Executing" /\ MyGuest.stack = "suspended"
                         /\ session' = [session EXCEPT ![s] = My] <=> session' = session
                         /\ Calls!Running(s)
<1>1. Processing("Executing") /\ MyGuest.stack = "suspended" BY DEF GuestRuns
<1>2. PICK s \in Sess : /\ s = Me /\ Alive(s) /\ My = session[s] /\ MyGuest = guest[s]
                        /\ My \in Session /\ MyGuest \in Guest /\ replies[s] = 0
                        /\ My.state = Executing
  BY <1>1, AtExecuting
<1>3. My.state.tag = "Executing" BY <1>2, StateValues
<1>4. CallsMade[s] = Calls!Runs(MyGuest.answers) BY <1>1, <1>2, <1>3, View, CallForms
<1>5. Calls!Running(s) BY <1>4 DEF Calls!Running, Calls!Runs
<1>6. session' = [session EXCEPT ![s] = My] <=> session' = session
  BY <1>2 DEF IInv, TypeOK
<1> QED BY <1>1, <1>2, <1>3, <1>5, <1>6

LEMMA ConnectSeen ==
  ASSUME IInv, OpenInv, GuestConnects
  PROVE  Shown \/ Unseen
<1>1. GuestRuns BY DEF GuestConnects, GuestCalls
<1>2. PICK s \in Sess : /\ s = Me /\ Alive(s) /\ My = session[s] /\ MyGuest = guest[s]
                        /\ My \in Session /\ MyGuest \in Guest /\ replies[s] = 0
                        /\ MyGuest.stack = "suspended" /\ Calls!Running(s)
  BY <1>1, AtRun
<1>3. PICK i \in Index :
        /\ conns[i] = None
        /\ session' = [session EXCEPT ![s] = AddBackend(@, i)]
        /\ sock' = [sock EXCEPT ![s][i] = NewSocket("connecting")]
  BY <1>2 DEF GuestConnects
<1>4. PICK t : t = AddBackend(My, i) OBVIOUS
<1>5. PICK g : g = Asking(MyGuest, "connect") OBVIOUS
<1>6. PICK k : k = [sock[s] EXCEPT ![i] = NewSocket("connecting")] OBVIOUS
<1>7. i \notin Streams(s)
  <2>1. Slots(s) = Streams(s) BY <1>2 DEF IInv, SlabInv
  <2> QED BY <1>2, <1>3, <2>1, SlabAssumption DEF Slots
<1>8. t.index = My.index /\ t.backends = My.backends \cup {i} /\ t.state = Connecting(i)
  BY <1>2, <1>4 DEF AddBackend, Session
<1>9. t.state.tag = "WaitingForBackendConnect" /\ t.state.fd = i BY <1>8, StateValues
<1>10. g.stack = "suspended" BY <1>2, <1>5, AskingFields
<1>11. /\ k[i] = NewSocket("connecting") /\ NewSocket("connecting").phase = "connecting"
       /\ \A j \in Index \ {i} : k[j] = sock[s][j]
  BY <1>6 DEF IInv, TypeOK, NewSocket
<1>12. \A j \in Index : k[j].phase # "none" <=> j \in {t.index} \cup t.backends
  BY <1>2, <1>8, <1>11 DEF OpenInv, Streams
<1>13. /\ session' = [session EXCEPT ![s] = t] /\ guest' = [guest EXCEPT ![s] = g]
       /\ sock' = [sock EXCEPT ![s] = k]
  BY <1>2, <1>3, <1>4, <1>5, <1>6 DEF GuestConnects
<1>14. /\ Clients' = [Clients EXCEPT ![s] = t.index]
       /\ CallsMade' = [CallsMade EXCEPT ![s] = CallOf(t, g)]
       /\ Sockets' = [Sockets EXCEPT ![s] = [j \in Index |-> Seen(k[j])]]
       /\ OpenInv'
  <2>1. t.index # None => \A j \in Index :
          k[j].phase # "none" <=> j \in {t.index} \cup t.backends
    BY <1>12
  <2> QED BY <1>13, <2>1, Replaced
<1>15. Clients' = Clients BY <1>2, <1>8, <1>14, View DEF Clients
<1>16. CallOf(t, g) = Calls!Connects(i) BY <1>9, <1>10, CallForms
<1>17. [j \in Index |-> Seen(k[j])] =
         [Sockets[s] EXCEPT ![i] = Calls!NewSocket("connecting")]
  <2>1. Seen(k[i]) = Calls!NewSocket("connecting")
    BY <1>11 DEF Seen, NewSocket, Calls!NewSocket
  <2>2. \A j \in Index \ {i} : Seen(k[j]) = Seen(sock[s][j]) BY <1>11
  <2> QED BY <2>1, <2>2 DEF Sockets
<1>18. Sockets' = [Sockets EXCEPT ![s][i] = Calls!NewSocket("connecting")]
  BY <1>14, <1>17
<1>19. Sockets[s][i].phase = "none" BY <1>2, <1>7, View, SeenFields DEF OpenInv
<1>20. Calls!Connect(s)
  BY <1>2, <1>14, <1>15, <1>16, <1>18, <1>19 DEF Calls!Connect, Calls!Becomes
<1> QED BY <1>14, <1>20, StepShown DEF Calls!Step

LEMMA GuestSeen ==
  ASSUME IInv, OpenInv, ConnectRefused \/ GuestReads \/ GuestWrites \/ GuestReturns
  PROVE  Shown \/ Unseen
<1>1. GuestRuns BY DEF ConnectRefused, GuestReads, GuestWrites, GuestCalls, GuestReturns
<1>2. PICK s \in Sess : /\ s = Me /\ Alive(s) /\ My = session[s] /\ MyGuest = guest[s]
                        /\ My \in Session /\ MyGuest \in Guest
                        /\ My.state.tag = "Executing" /\ MyGuest.stack = "suspended"
                        /\ session' = [session EXCEPT ![s] = My] <=> session' = session
                        /\ Calls!Running(s)
  BY <1>1, AtRun
<1>3. CASE ConnectRefused
  <2>1. PICK a : a = Asking(MyGuest, "connect") OBVIOUS
  <2>2. PICK g : g = [a EXCEPT !.refused = TRUE] OBVIOUS
  <2>3. a \in Guest /\ a.stack = "suspended" /\ a.answers = <<>>
    BY <1>2, <2>1, AskingFields
  <2>4. g.stack = "suspended" /\ g.answers = <<>> BY <2>2, <2>3 DEF Guest
  <2>5. /\ session' = [session EXCEPT ![s] = My] /\ guest' = [guest EXCEPT ![s] = g]
        /\ sock' = sock
    BY <1>2, <1>3, <2>1, <2>2 DEF ConnectRefused, netVars
  <2>6. /\ Clients' = Clients
        /\ CallsMade' = [CallsMade EXCEPT ![s] = CallOf(My, g)]
        /\ Sockets' = Sockets
        /\ OpenInv'
    <3>1. Alive(s) /\ My.index = session[s].index /\ My.backends = session[s].backends
      BY <1>2
    <3> QED BY <3>1, <2>5, Proceeds
  <2>7. CallOf(My, g) = Calls!Runs(<<>>) BY <1>2, <2>4, CallForms
  <2>8. Calls!ConnectIsRefused(s)
    BY <1>2, <2>6, <2>7 DEF Calls!ConnectIsRefused, Calls!Goes
  <2> QED BY <2>6, <2>8, StepShown DEF Calls!Step
<1>4. ASSUME NEW i \in My.backends, NEW t, t.index = My.index, t.backends = My.backends,
             NEW g, session' = [session EXCEPT ![s] = t],
             guest' = [guest EXCEPT ![s] = g], sock' = sock
      PROVE  /\ i \in Index /\ Calls!Opened(s, i) /\ OpenInv'
             /\ \A c : CallOf(t, g) = c => Calls!Goes(s, c)
  <2>1. /\ Clients' = Clients
        /\ CallsMade' = [CallsMade EXCEPT ![s] = CallOf(t, g)]
        /\ Sockets' = Sockets
        /\ OpenInv'
    <3>1. Alive(s) /\ t.index = session[s].index /\ t.backends = session[s].backends
      BY <1>2, <1>4
    <3> QED BY <3>1, <1>4, Proceeds
  <2>2. i \in Index /\ i # My.index
    BY <1>2 DEF IInv, LocalInv, SessInv, Session
  <2>3. Sockets[s][i].phase # "none"
    BY <1>2, <2>2, View, SeenFields DEF OpenInv, Streams
  <2>4. Clients[s] = My.index BY <1>2, View
  <2> QED BY <2>1, <2>2, <2>3, <2>4 DEF Calls!Opened, Calls!Goes
<1>5. CASE GuestReads
  <2>1. PICK i \in My.backends, n \in Sizes : session' = [session EXCEPT
         ![Me] = [My EXCEPT !.state = TcpRead(i, n), !.interest[i] = @ \cup {"r"}]]
    BY <1>5 DEF GuestReads
  <2>2. PICK t : t = [My EXCEPT !.state = TcpRead(i, n), !.interest[i] = @ \cup {"r"}]
    OBVIOUS
  <2>3. PICK g : g = Asking(MyGuest, "read") OBVIOUS
  <2>4. t.index = My.index /\ t.backends = My.backends /\ t.state = TcpRead(i, n)
    BY <1>2, <2>2 DEF Session
  <2>5. g.stack = "suspended" BY <1>2, <2>3, AskingFields
  <2>6. /\ session' = [session EXCEPT ![s] = t] /\ guest' = [guest EXCEPT ![s] = g]
        /\ sock' = sock
    BY <1>2, <1>5, <2>1, <2>2, <2>3 DEF GuestReads, netVars
  <2>7. CallOf(t, g) = Calls!Reads(i, n) BY <2>4, <2>5, CallForms DEF TcpRead
  <2>8. /\ i \in Index /\ Calls!Opened(s, i) /\ OpenInv'
        /\ \A c : CallOf(t, g) = c => Calls!Goes(s, c)
    BY <1>4, <2>4, <2>6
  <2>9. Calls!Goes(s, Calls!Reads(i, n)) BY <2>7, <2>8
  <2>10. Calls!Read(s) BY <1>2, <2>8, <2>9 DEF Calls!Read
  <2> QED BY <2>8, <2>10, StepShown DEF Calls!Step
<1>6. CASE GuestWrites
  <2>1. PICK i \in My.backends, n \in Sizes : session' = [session EXCEPT
         ![Me] = [My EXCEPT !.state = TcpWrite(i, n, 0), !.interest[i] = @ \cup {"w"}]]
    BY <1>6 DEF GuestWrites
  <2>2. PICK t : t = [My EXCEPT !.state = TcpWrite(i, n, 0), !.interest[i] = @ \cup {"w"}]
    OBVIOUS
  <2>3. PICK g : g = Asking(MyGuest, "write") OBVIOUS
  <2>4. t.index = My.index /\ t.backends = My.backends /\ t.state = TcpWrite(i, n, 0)
    BY <1>2, <2>2 DEF Session
  <2>5. g.stack = "suspended" /\ g.taken = 0 BY <1>2, <2>3, AskingFields
  <2>6. /\ session' = [session EXCEPT ![s] = t] /\ guest' = [guest EXCEPT ![s] = g]
        /\ sock' = sock
    BY <1>2, <1>6, <2>1, <2>2, <2>3 DEF GuestWrites, netVars
  <2>7. CallOf(t, g) = Calls!Writes(i, n, 0) BY <2>4, <2>5, CallForms DEF TcpWrite
  <2>8. /\ i \in Index /\ Calls!Opened(s, i) /\ OpenInv'
        /\ \A c : CallOf(t, g) = c => Calls!Goes(s, c)
    BY <1>4, <2>4, <2>6
  <2>9. Calls!Goes(s, Calls!Writes(i, n, 0)) BY <2>7, <2>8
  <2>10. Calls!Write(s) BY <1>2, <2>8, <2>9 DEF Calls!Write
  <2> QED BY <2>8, <2>10, StepShown DEF Calls!Step
<1>7. CASE GuestReturns
  <2>1. PICK p \in SUBSET {"status", "body"} :
          /\ guest' = [guest EXCEPT
               ![Me] = [NoGuest EXCEPT !.stack = "returned", !.prepared = p]]
          /\ session' = [session EXCEPT ![Me] = [My EXCEPT
               !.interest[My.index] = IF p = {"status", "body"} THEN @ \cup {"w"} ELSE @]]
    BY <1>7 DEF GuestReturns
  <2>2. PICK t : t = [My EXCEPT
          !.interest[My.index] = IF p = {"status", "body"} THEN @ \cup {"w"} ELSE @]
    OBVIOUS
  <2>3. PICK g : g = [NoGuest EXCEPT !.stack = "returned", !.prepared = p] OBVIOUS
  <2>4. t.index = My.index /\ t.backends = My.backends BY <1>2, <2>2 DEF Session
  <2>5. g.stack = "returned" BY <2>3 DEF NoGuest
  <2>6. /\ session' = [session EXCEPT ![s] = t] /\ guest' = [guest EXCEPT ![s] = g]
        /\ sock' = sock
    BY <1>2, <1>7, <2>1, <2>2, <2>3 DEF GuestReturns, netVars
  <2>7. /\ Clients' = Clients
        /\ CallsMade' = [CallsMade EXCEPT ![s] = CallOf(t, g)]
        /\ Sockets' = Sockets
        /\ OpenInv'
    <3>1. Alive(s) /\ t.index = session[s].index /\ t.backends = session[s].backends
      BY <1>2, <2>4
    <3> QED BY <3>1, <2>6, Proceeds
  <2>8. CallOf(t, g) = Calls!Done BY <2>5, CallForms
  <2>9. Calls!Return(s) BY <1>2, <2>7, <2>8 DEF Calls!Return, Calls!Goes
  <2> QED BY <2>7, <2>9, StepShown DEF Calls!Step
<1> QED BY <1>3, <1>5, <1>6, <1>7

(***************************************************************************)
(* A suspended call.                                                       *)
(***************************************************************************)

LEMMA Sames ==
  ASSUME NEW s \in Sess
  PROVE  /\ [CallsMade EXCEPT ![s] = CallsMade[s]] = CallsMade
         /\ \A i \in Index : [Sockets EXCEPT ![s][i] = Sockets[s][i]] = Sockets
  BY DEF CallsMade, Sockets

\* The call that is processed, and its socket, in the specification.
LEMMA InCall ==
  ASSUME IInv, Processing("TcpRead") \/ Processing("TcpWrite")
  PROVE  \E s \in Sess, i \in Index, k \in Socket, n \in Nat :
           /\ s = Me /\ Alive(s) /\ My = session[s] /\ MyGuest = guest[s]
           /\ i = Fd /\ k = Peer /\ k = sock[s][i] /\ Sockets[s][i] = Seen(k)
           /\ n = My.state.size /\ My \in Session /\ MyGuest \in Guest
           /\ MyGuest.stack = "suspended" /\ MyGuest.answers = <<>>
           /\ Processing("TcpRead") => CallsMade[s] = Calls!Reads(i, n)
           /\ Processing("TcpWrite") =>
                /\ CallsMade[s] = Calls!Writes(i, n, MyGuest.taken)
                /\ My.state = TcpWrite(i, n, MyGuest.taken)
                /\ MyGuest.taken \in Nat
                /\ MyGuest.taken < n \/ (MyGuest.taken = 0 /\ n = 0)
           /\ Calls!Fd(s) = i /\ Calls!Peer(s) = Seen(k)
<1>1. PICK s \in Sess, i \in Index, k \in Socket :
        /\ s = Me /\ Alive(s) /\ My = session[s] /\ MyGuest = guest[s]
        /\ i = Fd /\ k = Peer /\ My \in Session /\ MyGuest \in Guest
        /\ MyGuest.stack = "suspended" /\ MyGuest.answers = <<>>
        /\ SessInv(My, MyGuest)
  BY AtCall
<1>2. k = sock[s][i] /\ Sockets[s][i] = Seen(k) BY <1>1, View DEF Peer
<1>3. My.state \in SessionState /\ My.state.tag \in {"TcpRead", "TcpWrite"}
  BY <1>1 DEF Processing, Session
<1>4. My.state.size \in Nat BY <1>3, StateFields, SizesAssumption
<1>5. PICK n \in Nat : n = My.state.size BY <1>4
<1>6. Processing("TcpRead") => CallsMade[s] = Calls!Reads(i, n)
  BY <1>1, <1>5, CallForms, View DEF Processing, Fd
<1>7. Processing("TcpWrite") => CallsMade[s] = Calls!Writes(i, n, MyGuest.taken)
  BY <1>1, <1>5, CallForms, View DEF Processing, Fd
<1>8. Processing("TcpWrite") => /\ My.state = TcpWrite(i, n, MyGuest.taken)
                                /\ MyGuest.taken \in Nat
                                /\ MyGuest.taken < n \/ (MyGuest.taken = 0 /\ n = 0)
  BY <1>1, <1>3, <1>5, StateFields DEF Processing, Fd, SessInv, Guest
<1>9. Calls!Fd(s) = i
  BY <1>6, <1>7 DEF Calls!Fd, Calls!Reads, Calls!Writes
<1>10. Calls!Peer(s) = Seen(k) BY <1>2, <1>9 DEF Calls!Peer
<1> QED BY <1>1, <1>2, <1>5, <1>6, <1>7, <1>8, <1>9, <1>10

\* The session s that runs is in a call on its socket i.
Handles(s, i) == s = Me /\ i = Fd

LEMMA AnswerSeen ==
  ASSUME IInv, OpenInv, Processing("TcpRead") \/ Processing("TcpWrite"),
         NEW v, NEW h \in Guest, h.stack = "suspended", h.answers = <<>>,
         NEW k, k.phase = "none" <=> Peer.phase = "none",
         NEW lost, Answer(v, h, k, lost),
         NEW s \in Sess, NEW i \in Index, Handles(s, i)
  PROVE  /\ Clients' = Clients
         /\ CallsMade' = [CallsMade EXCEPT ![s] = Calls!Runs(<<v>>)]
         /\ Sockets' = [Sockets EXCEPT ![s][i] = Seen(k)]
         /\ OpenInv'
<1>1. My = session[s] /\ My \in Session BY AtCall DEF Handles
<1>2. PICK t : t = [My EXCEPT !.state = Executing, !.readiness[Fd] = @ \ lost] OBVIOUS
<1>3. t.index = My.index /\ t.backends = My.backends /\ t.state = Executing
  BY <1>1, <1>2 DEF Session
<1>4. PICK g : g = Answered(h, v) OBVIOUS
<1>5. g.stack = "suspended" /\ g.answers = <<v>> BY <1>4 DEF Answered, Guest
<1>6. /\ session' = [session EXCEPT ![s] = t] /\ guest' = [guest EXCEPT ![s] = g]
      /\ sock' = [sock EXCEPT ![s][i] = k]
  BY <1>2, <1>4 DEF Answer, Handles
<1>7. t.state.tag = "Executing" BY <1>3, StateValues
<1>8. CallOf(t, g) = Calls!Runs(<<v>>) BY <1>5, <1>7, CallForms
<1>9. t.index = session[s].index /\ t.backends = session[s].backends BY <1>1, <1>3
<1>10. k.phase = "none" <=> sock[s][i].phase = "none" BY DEF Peer, Handles
<1>11. /\ Clients' = Clients
       /\ CallsMade' = [CallsMade EXCEPT ![s] = CallOf(t, g)]
       /\ Sockets' = [Sockets EXCEPT ![s][i] = Seen(k)]
       /\ OpenInv'
  <2>1. Edits(s, t, g, i, k) BY <1>6, <1>9, <1>10 DEF Edits
  <2> QED BY <2>1, Advances
<1> QED BY <1>8, <1>11

LEMMA ReadsSeen ==
  ASSUME IInv, OpenInv, ReadSome \/ ReadError \/ ReadNothing
  PROVE  Shown \/ Unseen
<1>1. Processing("TcpRead") BY DEF ReadSome, ReadError, ReadNothing
<1>2. PICK s \in Sess, i \in Index, k \in Socket, n \in Nat :
        /\ s = Me /\ i = Fd /\ k = Peer /\ Sockets[s][i] = Seen(k)
        /\ n = My.state.size /\ MyGuest \in Guest
        /\ MyGuest.stack = "suspended" /\ MyGuest.answers = <<>>
        /\ CallsMade[s] = Calls!Reads(i, n)
        /\ Calls!Fd(s) = i /\ Calls!Peer(s) = Seen(k)
  BY <1>1, InCall
<1>3. CallsMade[s].op = "read" /\ CallsMade[s].size = n BY <1>2 DEF Calls!Reads
<1>4. ASSUME NEW v, NEW l, l.phase = "none" <=> k.phase = "none",
             NEW lost, Answer(v, MyGuest, l, lost)
      PROVE  /\ Clients' = Clients
             /\ CallsMade' = [CallsMade EXCEPT ![s] = Calls!Runs(<<v>>)]
             /\ Sockets' = [Sockets EXCEPT ![s][i] = Seen(l)]
             /\ OpenInv'
  BY <1>1, <1>2, <1>4, AnswerSeen DEF Handles
<1>5. CASE ReadSome
  <2>1. PICK m : m = IF k.avail < n THEN k.avail ELSE n OBVIOUS
  <2>2. PICK l : l = [k EXCEPT !.avail = @ - m] OBVIOUS
  <2>3. Answer(m, MyGuest, l, {}) /\ k.avail > 0
    BY <1>2, <1>5, <2>1, <2>2 DEF ReadSome
  <2>4. /\ l.phase = k.phase
        /\ Seen(l) = [Seen(k) EXCEPT !.avail = @ - m]
    BY <2>2 DEF Seen, Socket
  <2>5. m = Calls!Least(Seen(k).avail, n) /\ Seen(k).avail > 0
    BY <2>1, <2>3, SeenFields DEF Calls!Least
  <2>6. /\ Clients' = Clients
        /\ CallsMade' = [CallsMade EXCEPT ![s] = Calls!Runs(<<m>>)]
        /\ Sockets' = [Sockets EXCEPT ![s][i] = [Seen(k) EXCEPT !.avail = @ - m]]
        /\ OpenInv'
    BY <1>4, <2>3, <2>4
  <2>7. Calls!ReadEnds(s)
    BY <1>2, <1>3, <2>5, <2>6 DEF Calls!ReadEnds, Calls!Becomes
  <2> QED BY <2>6, <2>7, StepShown DEF Calls!Step
<1>6. CASE ReadError
  <2>1. PICK l : l = [k EXCEPT !.phase = "dead"] OBVIOUS
  <2>2. Answer(-1, MyGuest, l, {}) /\ k.avail = 0 /\ k.phase \in {"refused", "reset"}
    BY <1>2, <1>6, <2>1 DEF ReadError, Failed
  <2>3. l.phase = "dead" /\ Seen(l) = [Seen(k) EXCEPT !.phase = "dead"]
    BY <2>1 DEF Seen, Socket
  <2>4. /\ Clients' = Clients
        /\ CallsMade' = [CallsMade EXCEPT ![s] = Calls!Runs(<<-1>>)]
        /\ Sockets' = [Sockets EXCEPT ![s][i] = [Seen(k) EXCEPT !.phase = "dead"]]
        /\ OpenInv'
    BY <1>4, <2>2, <2>3
  <2>5. Calls!Fails(s)
    BY <1>2, <1>3, <2>2, <2>4, SeenFields DEF Calls!Fails, Calls!Becomes
  <2> QED BY <2>4, <2>5, StepShown DEF Calls!Step
<1>7. CASE ReadNothing
  <2>1. Answer(0, MyGuest, k, {"r"}) /\ k.avail = 0 /\ k.phase \notin {"refused", "reset"}
    BY <1>2, <1>7 DEF ReadNothing, Failed
  <2>2. /\ Clients' = Clients
        /\ CallsMade' = [CallsMade EXCEPT ![s] = Calls!Runs(<<0>>)]
        /\ Sockets' = [Sockets EXCEPT ![s][i] = Seen(k)]
        /\ OpenInv'
    BY <1>4, <2>1
  <2>3. Sockets' = Sockets BY <1>2, <2>2, Sames
  <2>4. Calls!ReadFindsNothing(s)
    BY <1>2, <1>3, <2>1, <2>2, <2>3, SeenFields DEF Calls!ReadFindsNothing, Calls!Goes
  <2> QED BY <2>2, <2>4, StepShown DEF Calls!Step
<1> QED BY <1>5, <1>6, <1>7

LEMMA WritesSeen ==
  ASSUME IInv, OpenInv, WriteSome \/ WriteBlocks \/ WriteError
  PROVE  Shown \/ Unseen
<1>1. Processing("TcpWrite") BY DEF WriteSome, WriteBlocks, WriteError
<1>2. PICK s \in Sess, i \in Index, k \in Socket, n \in Nat :
        /\ s = Me /\ My = session[s] /\ MyGuest = guest[s]
        /\ i = Fd /\ k = Peer /\ k = sock[s][i] /\ Sockets[s][i] = Seen(k)
        /\ n = My.state.size /\ My \in Session /\ MyGuest \in Guest
        /\ MyGuest.stack = "suspended" /\ MyGuest.answers = <<>>
        /\ CallsMade[s] = Calls!Writes(i, n, MyGuest.taken)
        /\ My.state = TcpWrite(i, n, MyGuest.taken)
        /\ MyGuest.taken \in Nat
        /\ MyGuest.taken < n \/ (MyGuest.taken = 0 /\ n = 0)
        /\ Calls!Fd(s) = i /\ Calls!Peer(s) = Seen(k)
  BY <1>1, InCall
<1>3. PICK had \in Nat : had = MyGuest.taken BY <1>2
<1>4. /\ CallsMade[s].op = "write" /\ CallsMade[s].size = n /\ CallsMade[s].taken = had
      /\ My.state.written = had
  BY <1>2, <1>3 DEF Calls!Writes, TcpWrite
<1>5. CASE WriteSome
  <2>0. had < n BY <1>2, <1>3, <1>5 DEF WriteSome
  <2>1. PICK m \in Nat : m = IF k.space < n - had THEN k.space ELSE n - had
    BY <1>2, <1>3, <2>0, BoundsAssumption DEF Socket
  <2>2. PICK l : l = [k EXCEPT !.space = @ - m] OBVIOUS
  <2>3. PICK g : g = [MyGuest EXCEPT !.taken = @ + m] OBVIOUS
  <2>4. k.phase = "open" /\ k.space > 0 BY <1>2, <1>5 DEF WriteSome
  <2>5. l.phase = "open" /\ Seen(l) = [Seen(k) EXCEPT !.space = @ - m]
    BY <2>2, <2>4 DEF Seen, Socket
  <2>6. /\ g \in Guest /\ g.stack = "suspended" /\ g.answers = <<>> /\ g.taken = had + m
    BY <1>2, <1>3, <2>3 DEF Guest
  <2>7. m = Calls!Least(Seen(k).space, n - had) /\ had + m \in Nat
    BY <2>1, SeenFields DEF Calls!Least
  <2>8. /\ Clients' = Clients
        /\ CallsMade' = [CallsMade EXCEPT ![s] =
             IF had + m = n THEN Calls!Runs(<<had + m>>) ELSE Calls!Writes(i, n, had + m)]
        /\ Sockets' = [Sockets EXCEPT ![s][i] = Seen(l)]
        /\ OpenInv'
    <3>1. CASE m = n - had
      <4>0. My.state.size - My.state.written = n - had BY <1>2, <1>4
      <4>1. Answer(n, g, l, {})
        <5> DEFINE left == My.state.size - My.state.written
        <5>1. m = left /\ m = IF Peer.space < left THEN Peer.space ELSE left
          BY <1>2, <2>1, <3>1, <4>0
        <5>2. l = [Peer EXCEPT !.space = @ - m] BY <1>2, <2>2
        <5>3. Answer(My.state.size, g, l, {}) BY <1>5, <2>3, <5>1, <5>2 DEF WriteSome
        <5> QED BY <1>2, <5>3
      <4>2. l.phase = "none" <=> Peer.phase = "none" BY <1>2, <2>4, <2>5
      <4>3. /\ Clients' = Clients
            /\ CallsMade' = [CallsMade EXCEPT ![s] = Calls!Runs(<<n>>)]
            /\ Sockets' = [Sockets EXCEPT ![s][i] = Seen(l)]
            /\ OpenInv'
        BY <1>1, <1>2, <2>6, <4>1, <4>2, AnswerSeen DEF Handles
      <4>4. had + m = n BY <3>1
      <4> QED BY <4>3, <4>4
    <3>2. CASE m # n - had
      <4>1. PICK t : t = [My EXCEPT !.state.written = @ + m] OBVIOUS
      <4>2. /\ session' = [session EXCEPT ![s] = t] /\ guest' = [guest EXCEPT ![s] = g]
            /\ sock' = [sock EXCEPT ![s][i] = l]
        BY <1>2, <1>4, <1>5, <2>1, <2>2, <2>3, <3>2, <4>1 DEF WriteSome
      <4>3. /\ t.index = session[s].index /\ t.backends = session[s].backends
            /\ t.state = [My.state EXCEPT !.written = @ + m]
        BY <1>2, <4>1 DEF Session
      <4>4. t.state.tag = "TcpWrite" /\ t.state.fd = i /\ t.state.size = n
        BY <1>2, <4>3 DEF TcpWrite
      <4>5. CallOf(t, g) = Calls!Writes(i, n, had + m) BY <2>6, <4>4, CallForms
      <4>6. l.phase = "none" <=> sock[s][i].phase = "none" BY <1>2, <2>4, <2>5
      <4>7. /\ Clients' = Clients
            /\ CallsMade' = [CallsMade EXCEPT ![s] = CallOf(t, g)]
            /\ Sockets' = [Sockets EXCEPT ![s][i] = Seen(l)]
            /\ OpenInv'
        <5>1. Edits(s, t, g, i, l) BY <4>2, <4>3, <4>6 DEF Edits
        <5> QED BY <5>1, Advances
      <4>8. had + m # n BY <3>2
      <4> QED BY <4>5, <4>7, <4>8
    <3> QED BY <3>1, <3>2
  <2>9. Seen(k).phase = "open" /\ Seen(k).space > 0 BY <2>4, SeenFields
  <2>10. Calls!WriteMoves(s)
    BY <1>2, <1>4, <2>5, <2>7, <2>8, <2>9 DEF Calls!WriteMoves, Calls!Becomes
  <2> QED BY <2>8, <2>10, StepShown DEF Calls!Step
<1>6. CASE WriteBlocks
  <2>1. PICK l : l = [k EXCEPT !.full = TRUE] OBVIOUS
  <2>2. PICK t : t = [My EXCEPT !.readiness[Fd] = @ \ {"w"}] OBVIOUS
  <2>3. session' = [session EXCEPT ![s] = t] /\ guest' = [guest EXCEPT ![s] = MyGuest]
    BY <1>2, <1>6, <2>2 DEF WriteBlocks, IInv, TypeOK
  <2>4. sock' = [sock EXCEPT ![s][i] = l] BY <1>2, <1>6, <2>1 DEF WriteBlocks
  <2>5. t.index = session[s].index /\ t.backends = session[s].backends /\ t.state = My.state
    BY <1>2, <2>2 DEF Session
  <2>6. l.phase = k.phase /\ Seen(l) = Seen(k) BY <2>1 DEF Seen, Socket
  <2>7. l.phase = "none" <=> sock[s][i].phase = "none" BY <1>2, <2>6
  <2>8. /\ Clients' = Clients
        /\ CallsMade' = [CallsMade EXCEPT ![s] = CallOf(t, MyGuest)]
        /\ Sockets' = [Sockets EXCEPT ![s][i] = Seen(l)]
        /\ OpenInv'
    <3>1. Edits(s, t, MyGuest, i, l) BY <2>3, <2>4, <2>5, <2>7 DEF Edits
    <3> QED BY <3>1, Advances
  <2>9. CallOf(t, MyGuest) = CallsMade[s]
    <3>1. t.state.tag = "TcpWrite" /\ t.state.fd = i /\ t.state.size = n
      BY <1>2, <2>5 DEF TcpWrite
    <3> QED BY <1>2, <3>1, CallForms
  <2>10. CallsMade' = CallsMade BY <2>8, <2>9, Sames
  <2>11. Sockets' = Sockets BY <1>2, <2>6, <2>8, Sames
  <2> QED BY <2>8, <2>10, <2>11 DEF Unseen
<1>7. CASE WriteError
  <2>1. PICK l : l = [k EXCEPT !.phase = "dead"] OBVIOUS
  <2>2. Answer(-1, MyGuest, l, {}) /\ k.phase \in {"refused", "reset", "dead"}
    BY <1>2, <1>7, <2>1 DEF WriteError, Broken, Failed
  <2>3. l.phase = "dead" /\ Seen(l) = [Seen(k) EXCEPT !.phase = "dead"]
    BY <2>1 DEF Seen, Socket
  <2>4. l.phase = "none" <=> Peer.phase = "none" BY <1>2, <2>2, <2>3
  <2>5. /\ Clients' = Clients
        /\ CallsMade' = [CallsMade EXCEPT ![s] = Calls!Runs(<<-1>>)]
        /\ Sockets' = [Sockets EXCEPT ![s][i] = Seen(l)]
        /\ OpenInv'
    BY <1>1, <1>2, <2>2, <2>4, AnswerSeen DEF Handles
  <2>6. Calls!Fails(s)
    BY <1>2, <1>4, <2>2, <2>3, <2>5, SeenFields DEF Calls!Fails, Calls!Becomes
  <2> QED BY <2>5, <2>6, StepShown DEF Calls!Step
<1> QED BY <1>5, <1>6, <1>7

\* A call of size 0 ends without its socket.
LEMMA ZeroSeen ==
  ASSUME IInv, OpenInv, ReadZero \/ WriteZero
  PROVE  Shown \/ Unseen
<1>1. Processing("TcpRead") \/ Processing("TcpWrite")
  BY DEF ReadZero, WriteZero, NothingAsked
<1>2. PICK s \in Sess, i \in Index, k \in Socket, n \in Nat :
        /\ s = Me /\ Alive(s) /\ My = session[s] /\ MyGuest = guest[s]
        /\ i = Fd /\ k = Peer /\ k = sock[s][i] /\ Sockets[s][i] = Seen(k)
        /\ n = My.state.size /\ My \in Session /\ MyGuest \in Guest
        /\ MyGuest.stack = "suspended" /\ MyGuest.answers = <<>>
        /\ Processing("TcpRead") => CallsMade[s] = Calls!Reads(i, n)
        /\ Processing("TcpWrite") =>
             /\ CallsMade[s] = Calls!Writes(i, n, MyGuest.taken)
             /\ MyGuest.taken \in Nat
             /\ MyGuest.taken < n \/ (MyGuest.taken = 0 /\ n = 0)
        /\ Calls!Fd(s) = i /\ Calls!Peer(s) = Seen(k)
  BY <1>1, InCall
<1>3. PICK bit \in Bits :
        /\ My.state.size = 0
        /\ session' = [session EXCEPT
             ![Me] = [My EXCEPT !.state = Executing, !.readiness[Fd] = @ \ {bit},
                                !.missed[Fd] = @ \cup {bit}]]
        /\ guest' = [guest EXCEPT ![Me] = Answered(MyGuest, 0)]
        /\ sock' = sock
  <2>1. ASSUME NEW tag, NEW bit \in Bits, NothingAsked(tag, bit)
        PROVE  /\ My.state.size = 0
               /\ session' = [session EXCEPT
                    ![Me] = [My EXCEPT !.state = Executing, !.readiness[Fd] = @ \ {bit},
                                       !.missed[Fd] = @ \cup {bit}]]
               /\ guest' = [guest EXCEPT ![Me] = Answered(MyGuest, 0)]
               /\ sock' = sock
    BY <2>1 DEF NothingAsked, netVars, MyGuest
  <2> QED BY <2>1, Zenon DEF ReadZero, WriteZero, Bits
<1>4. n = 0 BY <1>2, <1>3
<1>5. PICK t : t = [My EXCEPT !.state = Executing, !.readiness[Fd] = @ \ {bit},
                             !.missed[Fd] = @ \cup {bit}]
  OBVIOUS
<1>6. PICK g : g = Answered(MyGuest, 0) OBVIOUS
<1>7. t.index = My.index /\ t.backends = My.backends /\ t.state = Executing
  BY <1>2, <1>5 DEF Session
<1>8. g.stack = "suspended" /\ g.answers = <<0>> BY <1>2, <1>6 DEF Answered, Guest
<1>9. CallOf(t, g) = Calls!Runs(<<0>>)
  <2>1. t.state.tag = "Executing" BY <1>7, StateValues
  <2> QED BY <1>8, <2>1, CallForms
<1>10. /\ Clients' = Clients
       /\ CallsMade' = [CallsMade EXCEPT ![s] = Calls!Runs(<<0>>)]
       /\ Sockets' = [Sockets EXCEPT ![s][i] = Seen(k)]
       /\ OpenInv'
  <2>1. session' = [session EXCEPT ![s] = t] /\ guest' = [guest EXCEPT ![s] = g]
    BY <1>2, <1>3, <1>5, <1>6
  <2>2. sock' = [sock EXCEPT ![s][i] = k] BY <1>2, <1>3 DEF IInv, TypeOK
  <2>3. Edits(s, t, g, i, k) BY <1>2, <1>7, <2>1, <2>2 DEF Edits
  <2> QED BY <1>9, <2>3, Advances
<1>11. Seen(k).avail = k.avail /\ Seen(k).space = k.space /\ Seen(k).phase = k.phase
       /\ k.avail \in Nat /\ k.space \in Nat
  BY BoundsAssumption DEF Seen, Socket
<1>12. CASE ReadZero
  <2>1. CallsMade[s] = Calls!Reads(i, 0) /\ k.avail > 0
    BY <1>2, <1>4, <1>12 DEF ReadZero, NothingAsked
  <2>2. CallsMade[s].op = "read" /\ CallsMade[s].size = 0 BY <2>1 DEF Calls!Reads
  <2>3. PICK m \in Nat : m = 0 OBVIOUS
  <2>4. m = Calls!Least(Seen(k).avail, 0) /\ Seen(k).avail > 0
    BY <1>11, <2>1, <2>3 DEF Calls!Least
  <2>5. Seen(k) = [Seen(k) EXCEPT !.avail = @ - m] BY <1>11, <2>3 DEF Seen
  <2>6. /\ CallsMade' = [CallsMade EXCEPT ![s] = Calls!Runs(<<m>>)]
        /\ Sockets' = [Sockets EXCEPT ![s][i] = [Seen(k) EXCEPT !.avail = @ - m]]
    BY <1>10, <2>3, <2>5
  <2>7. Calls!ReadEnds(s)
    BY <1>2, <1>10, <2>2, <2>4, <2>6 DEF Calls!ReadEnds, Calls!Becomes
  <2> QED BY <1>10, <2>7, StepShown DEF Calls!Step
<1>13. CASE WriteZero
  <2>1. CallsMade[s] = Calls!Writes(i, 0, 0) /\ k.phase = "open"
    BY <1>2, <1>4, <1>13 DEF WriteZero, NothingAsked
  <2>2. /\ CallsMade[s].op = "write" /\ CallsMade[s].size = 0 /\ CallsMade[s].taken = 0
    BY <2>1 DEF Calls!Writes
  <2>3. PICK m \in Nat : m = 0 OBVIOUS
  <2>4. m = Calls!Least(Seen(k).space, 0 - 0) /\ 0 + m = 0
    BY <1>11, <2>3 DEF Calls!Least
  <2>5. Seen(k) = [Seen(k) EXCEPT !.space = @ - m] BY <1>11, <2>3 DEF Seen
  <2>6. /\ CallsMade' = [CallsMade EXCEPT ![s] = Calls!Runs(<<0 + m>>)]
        /\ Sockets' = [Sockets EXCEPT ![s][i] = [Seen(k) EXCEPT !.space = @ - m]]
    BY <1>10, <2>4, <2>5
  <2>7. Seen(k).phase = "open" BY <1>11, <2>1
  <2>8. Calls!WriteMoves(s)
    BY <1>2, <1>10, <2>2, <2>4, <2>6, <2>7 DEF Calls!WriteMoves, Calls!Becomes
  <2> QED BY <1>10, <2>8, StepShown DEF Calls!Step
<1> QED BY <1>12, <1>13

(***************************************************************************)
(* The peers.                                                              *)
(***************************************************************************)

\* A peer leaves the session and its guest as they are.
LEMMA ChangeSeen ==
  ASSUME IInv, OpenInv, NEW s \in Sess, NEW i \in Index, NEW k, Changes(s, i, k),
         k.phase # "none", sock[s][i].phase # "none"
  PROVE  /\ UNCHANGED <<Clients, CallsMade>>
         /\ Sockets' = [Sockets EXCEPT ![s][i] = Seen(k)]
         /\ Sockets'[s][i] = Seen(k)
         /\ OpenInv'
<1>1. PICK t : t = session[s] OBVIOUS
<1>2. PICK g : g = guest[s] OBVIOUS
<1>3. Edits(s, t, g, i, k)
  <2>1. session' = session /\ guest' = guest /\ sock' = [sock EXCEPT ![s][i] = k]
    BY DEF Changes, sessVars
  <2>2. session' = [session EXCEPT ![s] = t] /\ guest' = [guest EXCEPT ![s] = g]
    BY <1>1, <1>2, <2>1 DEF IInv, TypeOK
  <2> QED BY <1>1, <2>1, <2>2 DEF Edits
<1>4. /\ Clients' = Clients
      /\ CallsMade' = [CallsMade EXCEPT ![s] = CallOf(t, g)]
      /\ Sockets' = [Sockets EXCEPT ![s][i] = Seen(k)]
      /\ OpenInv'
  BY <1>3, Advances
<1>5. CallsMade' = CallsMade BY <1>1, <1>2, <1>4, Sames, View
<1>6. Sockets'[s][i] = Seen(k) BY <1>4 DEF Sockets
<1> QED BY <1>4, <1>5, <1>6

LEMMA PeerSeen ==
  ASSUME IInv, OpenInv, NEW s \in Sess, NEW i \in Index,
         \/ PeerSends(s, i) \/ PeerCloses(s, i) \/ PeerResets(s, i)
         \/ PeerDrains(s, i) \/ ConnectDone(s, i) \/ ConnectFails(s, i)
  PROVE  Shown
<1>1. PICK k \in Socket : k = sock[s][i] /\ Sockets[s][i] = Seen(k)
  BY View DEF IInv, TypeOK
<1>2. /\ Seen(k).phase = k.phase /\ Seen(k).eof = k.eof /\ Seen(k).avail = k.avail
      /\ k.avail \in Nat
  BY SeenFields DEF Socket
<1>3. ASSUME NEW l, Changes(s, i, l), l.phase # "none", k.phase # "none"
      PROVE  /\ UNCHANGED <<Clients, CallsMade>>
             /\ Sockets' = [Sockets EXCEPT ![s][i] = Seen(l)]
             /\ Sockets'[s][i] = Seen(l)
             /\ OpenInv'
  BY <1>1, <1>3, ChangeSeen
<1>4. CASE PeerSends(s, i)
  <2>1. PICK n \in 1..Unsent(s, i) :
          Changes(s, i, [sock[s][i] EXCEPT !.avail = @ + n, !.edge = TRUE])
    BY <1>4 DEF PeerSends
  <2>2. n \in Nat \ {0} OBVIOUS
  <2>3. PICK l : l = [k EXCEPT !.avail = @ + n, !.edge = TRUE] OBVIOUS
  <2>4. /\ l.phase = k.phase /\ l.avail = k.avail + n
        /\ Seen(l) = [Seen(k) EXCEPT !.avail = l.avail]
    BY <2>3 DEF Seen, Socket
  <2>5. k.phase = "open" /\ ~k.eof /\ Changes(s, i, l)
    BY <1>1, <1>4, <2>1, <2>3 DEF PeerSends, Live
  <2>6. /\ UNCHANGED <<Clients, CallsMade>>
        /\ Sockets' = [Sockets EXCEPT ![s][i] = Seen(l)]
        /\ Sockets'[s][i] = Seen(l) /\ OpenInv'
    BY <1>3, <2>4, <2>5
  <2>7. l.avail > k.avail /\ Seen(l).avail = l.avail BY <1>2, <2>2, <2>4, SeenFields
  <2>8. Sockets' = [Sockets EXCEPT ![s][i] = [Seen(k) EXCEPT !.avail = Sockets'[s][i].avail]]
    BY <2>4, <2>6, <2>7
  <2>9. Sockets'[s][i].avail > Seen(k).avail BY <1>2, <2>6, <2>7
  <2>10. Calls!PeerStep(s, i)
    BY <1>1, <1>2, <2>5, <2>6, <2>8, <2>9 DEF Calls!PeerStep, Calls!Becomes
  <2> QED BY <2>6, <2>10, StepShown DEF Calls!Step
<1>5. CASE PeerCloses(s, i)
  <2>1. PICK l : l = [k EXCEPT !.eof = TRUE, !.edge = TRUE] OBVIOUS
  <2>2. l.phase = k.phase /\ Seen(l) = [Seen(k) EXCEPT !.eof = TRUE]
    <3>1. l.phase = k.phase /\ l.avail = k.avail /\ l.space = k.space
      BY <2>1 DEF Socket
    <3>2. l.eof = TRUE BY <2>1, Zenon DEF Socket
    <3>3. ASSUME NEW yes, NEW no, no = k.eof
          PROVE  [Seen(k) EXCEPT !.eof = yes] =
            [phase |-> k.phase, avail |-> k.avail, eof |-> yes, space |-> k.space]
      <4>1. Seen(k) = [phase |-> k.phase, avail |-> k.avail, eof |-> no, space |-> k.space]
        BY <3>3, Zenon DEF Seen
      <4> QED BY <4>1
    <3>4. [Seen(k) EXCEPT !.eof = TRUE] =
            [phase |-> k.phase, avail |-> k.avail, eof |-> TRUE, space |-> k.space]
      BY <3>3, Zenon
    <3>5. Seen(l) = [phase |-> k.phase, avail |-> k.avail, eof |-> TRUE, space |-> k.space]
      BY <3>1, <3>2, Zenon DEF Seen
    <3> QED BY <3>1, <3>4, <3>5, Zenon
  <2>3. k.phase = "open" /\ ~k.eof /\ Changes(s, i, l)
    BY <1>1, <1>5, <2>1 DEF PeerCloses, Live
  <2>4. /\ UNCHANGED <<Clients, CallsMade>> /\ OpenInv'
        /\ Sockets' = [Sockets EXCEPT ![s][i] = Seen(l)]
    BY <1>3, <2>2, <2>3
  <2>5. Calls!PeerStep(s, i)
    BY <1>1, <1>2, <2>2, <2>3, <2>4 DEF Calls!PeerStep, Calls!Becomes
  <2> QED BY <2>4, <2>5, StepShown DEF Calls!Step
<1>6. CASE PeerResets(s, i)
  <2>1. PICK l : l = [k EXCEPT !.phase = "reset", !.edge = TRUE] OBVIOUS
  <2>2. l.phase = "reset" /\ Seen(l) = [Seen(k) EXCEPT !.phase = "reset"]
    BY <2>1 DEF Seen, Socket
  <2>3. k.phase = "open" /\ Changes(s, i, l)
    BY <1>1, <1>6, <2>1 DEF PeerResets, Live
  <2>4. /\ UNCHANGED <<Clients, CallsMade>> /\ OpenInv'
        /\ Sockets' = [Sockets EXCEPT ![s][i] = Seen(l)]
    BY <1>3, <2>2, <2>3
  <2>5. Calls!PeerStep(s, i)
    BY <1>1, <1>2, <2>2, <2>3, <2>4 DEF Calls!PeerStep, Calls!Becomes
  <2> QED BY <2>4, <2>5, StepShown DEF Calls!Step
<1>7. CASE PeerDrains(s, i)
  <2>1. PICK b : b = (k.edge \/ k.full) OBVIOUS
  <2>2. PICK l : l = [k EXCEPT !.space = MaxSpace, !.full = FALSE, !.edge = b] OBVIOUS
  <2>3. l.phase = k.phase /\ Seen(l) = [Seen(k) EXCEPT !.space = MaxSpace]
    BY <2>2 DEF Seen, Socket
  <2>4. k.phase = "open" BY <1>1, <1>7 DEF PeerDrains, Live
  <2>5. Changes(s, i, l)
    <3>1. l = [sock[s][i] EXCEPT !.space = MaxSpace, !.full = FALSE,
                                 !.edge = @ \/ sock[s][i].full]
      BY <1>1, <2>1, <2>2
    <3> QED BY <1>7, <3>1 DEF PeerDrains
  <2>6. /\ UNCHANGED <<Clients, CallsMade>> /\ OpenInv'
        /\ Sockets' = [Sockets EXCEPT ![s][i] = Seen(l)]
    BY <1>3, <2>3, <2>4, <2>5
  <2>7. Calls!PeerStep(s, i)
    BY <1>1, <1>2, <2>3, <2>4, <2>6 DEF Calls!PeerStep, Calls!Becomes
  <2> QED BY <2>6, <2>7, StepShown DEF Calls!Step
<1>8. ASSUME NEW p \in {"open", "refused"}, k.phase = "connecting",
             Changes(s, i, [sock[s][i] EXCEPT !.phase = p, !.full = FALSE, !.edge = TRUE])
      PROVE  Shown
  <2>1. PICK l : l = [k EXCEPT !.phase = p, !.full = FALSE, !.edge = TRUE] OBVIOUS
  <2>2. l.phase = p /\ Seen(l) = [Seen(k) EXCEPT !.phase = p]
    BY <2>1 DEF Seen, Socket
  <2>3. Changes(s, i, l) BY <1>1, <1>8, <2>1
  <2>4. /\ UNCHANGED <<Clients, CallsMade>> /\ OpenInv'
        /\ Sockets' = [Sockets EXCEPT ![s][i] = Seen(l)]
    BY <1>3, <1>8, <2>2, <2>3
  <2>5. Calls!PeerStep(s, i)
    BY <1>1, <1>2, <1>8, <2>2, <2>4 DEF Calls!PeerStep, Calls!Becomes
  <2> QED BY <2>4, <2>5, StepShown DEF Calls!Step
<1>9. CASE ConnectDone(s, i) BY <1>1, <1>8, <1>9 DEF ConnectDone
<1>10. CASE ConnectFails(s, i) BY <1>1, <1>8, <1>10 DEF ConnectFails
<1> QED BY <1>4, <1>5, <1>6, <1>7, <1>9, <1>10

(***************************************************************************)
(* The theorem.                                                            *)
(***************************************************************************)

LEMMA InitSeen ==
  ASSUME Init
  PROVE  OpenInv /\ Calls!Init
<1>1. \A s \in Sess : session[s].index = None /\ guest[s] = NoGuest
  BY DEF Init, Dropped
<1>2. OpenInv BY <1>1 DEF OpenInv, Alive
<1>3. Clients = [s \in Sess |-> None] BY <1>1 DEF Clients
<1>4. CallsMade = [s \in Sess |-> Calls!NotStarted]
  <2>1. \A s \in Sess : CallOf(session[s], guest[s]) = Calls!NotStarted
    BY <1>1, CallForms DEF NoGuest
  <2> QED BY <2>1 DEF CallsMade
<1>5. Sockets = [s \in Sess |-> [i \in Index |-> Calls!NewSocket("none")]]
  <2>1. Seen(NewSocket("none")) = Calls!NewSocket("none")
    BY DEF Seen, NewSocket, Calls!NewSocket
  <2>2. \A s \in Sess, i \in Index : Seen(sock[s][i]) = Calls!NewSocket("none")
    BY <2>1 DEF Init, NoSockets
  <2> QED BY <2>2 DEF Sockets
<1> QED BY <1>2, <1>3, <1>4, <1>5 DEF Calls!Init

LEMMA StepSeen ==
  ASSUME IInv, OpenInv, [Next]_vars
  PROVE  Shown \/ Unseen
<1>1. CASE Poll BY <1>1, PollUnseen
<1>2. CASE EventAccept BY <1>2, AcceptSeen
<1>3. ASSUME NEW e \in batch, Event(e) PROVE Shown \/ Unseen BY <1>3, EventSeen
<1>4. CASE EndEvents \/ Drain \/ EndDrain
  BY <1>4, Idle DEF EndEvents, Drain, EndDrain, sessVars, netVars
<1>5. CASE FrontReadable BY <1>5, FrontReadableSeen
<1>6. CASE FrontWritable BY <1>6, FrontWritableSeen
<1>7. CASE ParseError \/ ParsePartial \/ ParseComplete BY <1>7, ParseSeen
<1>8. CASE NoRoute \/ CreateInstance BY <1>8, CreateSeen
<1>9. CASE InstantiatePanic \/ ResumeEmpty \/ GuestFault \/ ConnectPanic
             \/ ExecutedWhileConnecting \/ ReadParks \/ WriteParks
  BY <1>9, Idle
     DEF InstantiatePanic, ResumeEmpty, GuestFault, ConnectPanic,
         ExecutedWhileConnecting, ReadParks, WriteParks, Park, Panic, sessVars, netVars
<1>10. CASE GuestConnects BY <1>10, ConnectSeen
<1>11. CASE ConnectRefused \/ GuestReads \/ GuestWrites \/ GuestReturns BY <1>11, GuestSeen
<1>12. CASE ReadSome \/ ReadError \/ ReadNothing BY <1>12, ReadsSeen
<1>13. CASE WriteSome \/ WriteBlocks \/ WriteError BY <1>13, WritesSeen
<1>14. CASE ClientConnects BY <1>14, Idle DEF ClientConnects, sessVars
<1>15. ASSUME NEW s \in Sess, NEW i \in Index,
              \/ PeerSends(s, i) \/ PeerCloses(s, i) \/ PeerResets(s, i)
              \/ PeerDrains(s, i) \/ ConnectDone(s, i) \/ ConnectFails(s, i)
       PROVE  Shown
  BY <1>15, PeerSeen
<1>16. CASE ReadZero \/ WriteZero BY <1>16, ZeroSeen
<1>17. CASE UNCHANGED vars BY <1>17, Idle DEF vars, sessVars, netVars
<1> QED
  BY <1>1, <1>2, <1>3, <1>4, <1>5, <1>6, <1>7, <1>8, <1>9, <1>10, <1>11, <1>12,
     <1>13, <1>14, <1>15, <1>16, <1>17 DEF Next, Server, Peers

LEMMA SocketsOpen == Spec => []OpenInv
<1>1. Init => OpenInv BY InitSeen
<1>2. IInv /\ OpenInv /\ [Next]_vars => OpenInv' BY StepSeen DEF Shown, Unseen
<1> QED BY <1>1, <1>2, Inductive, PTL DEF Spec

\* The slab, the readiness bits, the parked states and the event loop are, to the
\* guests, blocking calls on sockets of their own (ImplementsBlockingCalls).
THEOREM ServerImplementsCalls == Spec => ImplementsBlockingCalls
<1>1. Init => Calls!Init BY InitSeen
<1>2. IInv /\ OpenInv /\ [Next]_vars => [Calls!Next]_(Calls!vars)
  BY StepSeen DEF Shown, Unseen, Calls!vars
<1> QED
  BY <1>1, <1>2, Inductive, SocketsOpen, PTL
     DEF Spec, ImplementsBlockingCalls, Calls!Spec

=============================================================================
