------------------------- MODULE AsyncWakeupProofs -------------------------
(***************************************************************************)
(* NoLostWakeup, for any number of sessions and tokens.  What a session    *)
(* waits for has been told to it (a readiness bit, or one that a call of   *)
(* size 0 took from its readiness), or is about to be (an event of this    *)
(* poll), or is kept by the kernel (an edge): for each stream this is a    *)
(* relation of its socket k, the bits R that the session has been told and *)
(* what the events not yet dispatched tell, T.  SleepsOnlyWhenIdle follows *)
(* from it when the queue and the events are empty and every client still  *)
(* asks for what its session awaits.                                       *)
(***************************************************************************)
EXTENDS AsyncServerProofs

\* What events have told the session of a stream, but for what it has used up since.
Known(t, i) == t.readiness[i] \cup t.missed[i]

Told(s, i) ==
  {b \in Bits : \E e \in batch : e.sess = s /\ e.index = i /\ b \in e.mask}

\* Something to read, or an error.
Readable(k, R, T) ==
  /\ k.avail > 0 => k.phase \notin {"none", "connecting"}
  /\ k.avail > 0 \/ Failed(k) => "r" \in R \/ k.edge \/ "r" \in T

\* Room to write, or an error; a writer that found none is owed an edge (full).
Writable(k, R, T) ==
  /\ k.phase = "connecting" => k.space > 0
  /\ Broken(k) => "w" \in R \/ k.edge \/ "w" \in T
  /\ k.phase = "open" => \/ "w" \in R
                         \/ k.space = 0 /\ k.full
                         \/ k.space > 0 /\ (k.edge \/ "w" \in T)

EventFor(s, i) == \E e \in batch : e.sess = s /\ e.index = i

\* A connection, once it is decided; the first write comes after its event.
Decided(s, i) ==
  /\ sock[s][i].phase # "none"
  /\ sock[s][i].phase = "open" => sock[s][i].space > 0
  /\ sock[s][i].phase # "connecting" => sock[s][i].edge \/ EventFor(s, i)

\* A session that waits for bit b is interested in it, and scheduled once it has it.
Waits(s, b) ==
  LET t == session[s] IN
  /\ b \in t.interest[t.state.fd]
  /\ b \in t.readiness[t.state.fd] => Scheduled(s)

WakeInv(s) ==
  LET t == session[s] IN
  /\ t.missed[t.index] = {}
  /\ \A i \in Streams(s) : Readable(sock[s][i], Known(t, i), Told(s, i))
  /\ \A i \in t.backends : Writable(sock[s][i], Known(t, i), Told(s, i))
  /\ t.state.tag = "TcpRead" => Waits(s, "r")
  /\ t.state.tag = "TcpWrite" => Waits(s, "w")
  /\ t.state.tag = "WaitingForBackendConnect" => Decided(s, t.state.fd)

Unanswered(s) == Alive(s) /\ replies[s] = 0

\* The thread is at no token between turns, and events are only left while it
\* dispatches them.
LoopInv ==
  /\ pc \in {"poll", "events", "drain"} => cur = None
  /\ pc # "events" => batch = {}

WInv == LoopInv /\ \A s \in Sess : Unanswered(s) => WakeInv(s)

(***************************************************************************)
(* Sockets.                                                                *)
(***************************************************************************)

\* More bits, or bits instead of an event that told them, keep what is known.
LEMMA KnowsMore ==
  ASSUME NEW k \in Socket, NEW R, NEW T, NEW R1, NEW T1,
         \A b \in Bits : b \in R => b \in R1,
         \A b \in Bits : b \in T => b \in R1 \/ b \in T1
  PROVE  /\ Readable(k, R, T) => Readable(k, R1, T1)
         /\ Writable(k, R, T) => Writable(k, R1, T1)
  BY DEF Readable, Writable, Bits

\* poll reports the edge, with the level, and clears it.
LEMMA Polled ==
  ASSUME NEW k \in Socket, NEW R, NEW T, T = {}, NEW T1,
         k.edge => \A b \in Level(k) : b \in T1
  PROVE  /\ Readable(k, R, T) => Readable([k EXCEPT !.edge = FALSE], R, T1)
         /\ Writable(k, R, T) => Writable([k EXCEPT !.edge = FALSE], R, T1)
<1> DEFINE l == [k EXCEPT !.edge = FALSE]
<1>1. /\ l.avail = k.avail /\ l.phase = k.phase /\ l.space = k.space
      /\ l.full = k.full /\ l.edge = FALSE /\ k.edge \in BOOLEAN
  BY DEF Socket
<1> HIDE DEF l
<1>2. /\ k.phase \notin {"none", "connecting"} /\ (k.avail > 0 \/ Broken(k)) => "r" \in Level(k)
      /\ k.phase \notin {"none", "connecting"} /\ (k.space > 0 \/ Broken(k)) => "w" \in Level(k)
  BY DEF Level, Bits
<1>3. Readable(k, R, T) => Readable(l, R, T1)
  BY <1>1, <1>2 DEF Readable, Failed, Broken
<1>4. Writable(k, R, T) => Writable(l, R, T1)
  BY <1>1, <1>2 DEF Writable, Failed, Broken
<1> QED BY <1>3, <1>4 DEF l

(***************************************************************************)
(* Sessions that a step leaves alone.                                      *)
(***************************************************************************)

LEMMA Untouched ==
  ASSUME NEW s \in Sess, session'[s] = session[s], sock'[s] = sock[s], batch' = batch,
         Scheduled(s) => Scheduled(s)', WakeInv(s)
  PROVE  WakeInv(s)'
<1>1. \A i : Told(s, i)' = Told(s, i) /\ (EventFor(s, i)' <=> EventFor(s, i))
  BY DEF Told, EventFor
<1>2. Streams(s)' = Streams(s) BY DEF Streams
<1> QED BY <1>1, <1>2 DEF WakeInv, Known, Waits, Decided

\* Nothing that the invariant speaks of has changed.
LEMMA Frozen ==
  ASSUME WInv, LoopInv', UNCHANGED <<session, sock, batch, cur, ready, conns, replies>>
  PROVE  WInv'
<1>1. ASSUME NEW s \in Sess, Unanswered(s)' PROVE WakeInv(s)'
  <2>1. Unanswered(s) BY <1>1 DEF Unanswered, Alive
  <2>2. Scheduled(s)' <=> Scheduled(s) BY DEF Scheduled
  <2> QED BY <2>1, <2>2, Untouched DEF WInv
<1> QED BY <1>1 DEF WInv

\* The session of the current token is the only one that a turn changes; the
\* others are scheduled by the queue.
LEMMA OthersWait ==
  ASSUME IInv, WInv, pc \in Running, NEW s \in Sess, s # Me, Unanswered(s)',
         session'[s] = session[s], sock'[s] = sock[s], replies'[s] = replies[s],
         UNCHANGED <<batch, ready>>,
         \A i \in Index : conns[i] = s => conns'[i] = s
  PROVE  WakeInv(s)'
<1>1. Unanswered(s) BY DEF Unanswered, Alive
<1>2. Scheduled(s) => Scheduled(s)'
  <2> SUFFICES ASSUME Scheduled(s) PROVE Scheduled(s)' OBVIOUS
  <2>1. PICK n \in 1..Len(ready) : conns[ready[n]] = s BY DEF Scheduled, Me
  <2>2. ready[n] \in Index BY <2>1 DEF IInv, TypeOK
  <2> QED BY <2>1, <2>2 DEF Scheduled
<1> QED BY <1>1, <1>2, Untouched DEF WInv

\* A turn of the running session that goes on as t, with its sockets as k.
LEMMA TurnWakes ==
  ASSUME IInv, WInv, pc \in Running, LoopInv', NEW me \in Sess, me = Me,
         NEW t, t.index = My.index, t.backends = My.backends,
         session' = [session EXCEPT ![Me] = t],
         \A s \in Sess \ {me} : sock'[s] = sock[s],
         UNCHANGED <<batch, ready, conns, replies>>,
         Unanswered(me) => WakeInv(me)'
  PROVE  WInv'
<1>1. My = session[me] /\ session \in [Sess -> Session \cup {Dropped}]
  BY MeAlive DEF IInv, TypeOK
<1>2. ASSUME NEW s \in Sess, Unanswered(s)' PROVE WakeInv(s)'
  <2>1. CASE s = me
    <3>1. Unanswered(me) BY <1>1, <1>2, <2>1 DEF Unanswered, Alive
    <3> QED BY <2>1, <3>1
  <2>2. CASE s # me
    <3>1. session'[s] = session[s] /\ sock'[s] = sock[s] BY <1>1, <2>2
    <3> QED BY <1>2, <2>2, <3>1, OthersWait
  <2> QED BY <2>1, <2>2
<1> QED BY <1>2 DEF WInv

LEMMA Wakeup == IInv /\ WInv => NoLostWakeup
<1> SUFFICES ASSUME IInv, WInv, NEW s \in Sess, Alive(s), replies[s] = 0
             PROVE  LET st == session[s].state
                        c  == session[s].index
                    IN /\ st = Waiting /\ sock[s][c].avail > 0 => OnItsWay(s, c, "r")
                       /\ st.tag = "TcpRead" =>
                            /\ sock[s][st.fd].avail > 0 \/ Failed(sock[s][st.fd])
                                 => AccountedFor(s, st.fd, "r")
                            /\ "r" \in session[s].readiness[st.fd] => Scheduled(s)
                       /\ st.tag = "TcpWrite" =>
                            /\ "w" \in Level(sock[s][st.fd]) => AccountedFor(s, st.fd, "w")
                            /\ "w" \in session[s].readiness[st.fd] => Scheduled(s)
                       /\ st.tag = "WaitingForBackendConnect"
                            /\ sock[s][st.fd].phase # "connecting" =>
                            \/ sock[s][st.fd].edge
                            \/ \E e \in batch : e.sess = s /\ e.index = st.fd
  BY DEF NoLostWakeup
<1> DEFINE st == session[s].state
<1>1. WakeInv(s) /\ SessInv(session[s], guest[s])
  BY DEF WInv, Unanswered, IInv, LocalInv
<1>2. \A i, b : b \in Told(s, i) => \E e \in batch : e.sess = s /\ e.index = i /\ b \in e.mask
  BY DEF Told
<1>3. session[s].index \in Streams(s) /\ \A i \in session[s].backends : i \in Streams(s)
  BY DEF Streams
<1>4. \A i \in Streams(s) : sock[s][i].avail > 0 \/ Failed(sock[s][i]) => AccountedFor(s, i, "r")
  BY <1>1, <1>2 DEF WakeInv, Known, Readable, AccountedFor, OnItsWay
<1>7. AccountedFor(s, session[s].index, "r") => OnItsWay(s, session[s].index, "r")
  BY <1>1 DEF WakeInv, AccountedFor
<1>5. st.tag \in {"TcpRead", "TcpWrite"} => st.fd \in session[s].backends
  BY <1>1 DEF SessInv, CallProtocol, Pending
<1>6. ASSUME NEW i \in session[s].backends, "w" \in Level(sock[s][i])
      PROVE  AccountedFor(s, i, "w")
  <2>1. i \in Index BY <1>1 DEF SessInv, Session
  <2>2. sock[s][i] \in Socket BY <2>1 DEF IInv, TypeOK
  <2>3. Writable(sock[s][i], Known(session[s], i), Told(s, i)) BY <1>1 DEF WakeInv
  <2>4. Broken(sock[s][i]) \/ (sock[s][i].phase = "open" /\ sock[s][i].space > 0)
    BY <1>6, <2>2 DEF Level, Socket, Broken, Failed
  <2> QED BY <1>2, <2>2, <2>3, <2>4 DEF Writable, Known, AccountedFor, OnItsWay, Socket
<1> QED
  BY <1>1, <1>3, <1>4, <1>5, <1>6, <1>7 DEF WakeInv, Waits, Decided, EventFor

(***************************************************************************)
(* The event loop.                                                         *)
(***************************************************************************)

LEMMA PollWakes ==
  ASSUME IInv, WInv, Poll
  PROVE  WInv'
<1>1. LoopInv' BY DEF Poll, WInv, LoopInv
<1>2. batch = {} /\ UNCHANGED <<session, cur, ready, conns, replies>>
  BY DEF Poll, WInv, LoopInv, sessVars
<1>3. ASSUME NEW s \in Sess, Unanswered(s)' PROVE WakeInv(s)'
  <2>1. WakeInv(s) BY <1>2, <1>3 DEF WInv, Unanswered, Alive
  <2>2. Streams(s)' = Streams(s) /\ (Scheduled(s)' <=> Scheduled(s)) /\ Streams(s) \subseteq Index
        /\ session'[s] = session[s] /\ session[s] \in Session
    BY <1>2, <1>3 DEF Streams, Scheduled, Unanswered, Alive, IInv, TypeOK, Session, Dropped
  <2>3. ASSUME NEW i \in Index
        PROVE  /\ sock[s][i] \in Socket
               /\ sock'[s][i] = [sock[s][i] EXCEPT !.edge = FALSE]
               /\ Told(s, i) = {} /\ ~EventFor(s, i)
               /\ sock[s][i].edge => \A b \in Level(sock[s][i]) : b \in Told(s, i)'
               /\ sock[s][i].edge /\ Level(sock[s][i]) # {} => EventFor(s, i)'
    <3>1. sock[s][i] \in Socket BY DEF IInv, TypeOK
    <3>2. sock'[s][i] = [sock[s][i] EXCEPT !.edge = FALSE] BY DEF Poll
    <3>3. Told(s, i) = {} /\ ~EventFor(s, i) BY <1>2 DEF Told, EventFor
    <3>4. ASSUME sock[s][i].edge, Level(sock[s][i]) # {}
          PROVE  \E e \in batch' : e.sess = s /\ e.index = i /\ e.mask = Level(sock[s][i])
      <4>1. Reported(s, i) BY <3>4 DEF Reported
      <4>2. [sess |-> s, index |-> i, mask |-> Level(sock[s][i])] \in batch'
        <5>1. <<s, i>> \in {y \in Sess \X Index : Reported(y[1], y[2])} BY <4>1
        <5>2. batch' = {[sess |-> x[1], index |-> x[2], mask |-> Level(sock[x[1]][x[2]])] :
                          x \in {y \in Sess \X Index : Reported(y[1], y[2])}}
          BY DEF Poll
        <5>3. PICK x \in {y \in Sess \X Index : Reported(y[1], y[2])} : x = <<s, i>>
          BY <5>1
        <5>4. x[1] = s /\ x[2] = i BY <5>3
        <5> QED BY <5>2, <5>4
      <4> QED BY <4>2
    <3>5. Level(sock[s][i]) \subseteq Bits BY DEF Level
    <3> QED BY <3>1, <3>2, <3>3, <3>4, <3>5 DEF Told, EventFor
  <2>7. ASSUME NEW i \in Index
        PROVE  LET R == Known(session[s], i) IN
               /\ Readable(sock[s][i], R, Told(s, i)) => Readable(sock'[s][i], R, Told(s, i)')
               /\ Writable(sock[s][i], R, Told(s, i)) => Writable(sock'[s][i], R, Told(s, i)')
    <3>1. PICK k \in Socket : k = sock[s][i] BY <2>3
    <3>2. PICK R, T, T1 : R = Known(session[s], i) /\ T = Told(s, i) /\ T1 = Told(s, i)'
      OBVIOUS
    <3>3. T = {} /\ (k.edge => \A b \in Level(k) : b \in T1)
          /\ sock'[s][i] = [k EXCEPT !.edge = FALSE]
      BY <2>3, <3>1, <3>2
    <3>4. /\ Readable(k, R, T) => Readable([k EXCEPT !.edge = FALSE], R, T1)
          /\ Writable(k, R, T) => Writable([k EXCEPT !.edge = FALSE], R, T1)
      BY <3>3, Polled
    <3> QED BY <3>1, <3>2, <3>3, <3>4
  <2>4. \A i \in Streams(s) :
          Readable(sock'[s][i], Known(session[s], i), Told(s, i)')
    BY <2>1, <2>2, <2>7 DEF WakeInv
  <2>5. \A i \in session[s].backends :
          Writable(sock'[s][i], Known(session[s], i), Told(s, i)')
    <3>1. session[s].backends \subseteq Index BY <2>2 DEF Session
    <3> QED BY <2>1, <2>7, <3>1 DEF WakeInv
  <2>6. session[s].state.tag = "WaitingForBackendConnect" =>
          Decided(s, session[s].state.fd)'
    <3> SUFFICES ASSUME session[s].state.tag = "WaitingForBackendConnect"
                 PROVE  Decided(s, session[s].state.fd)'
      OBVIOUS
    <3>1. session[s].state.fd \in Index BY <2>2, StateFields DEF Session
    <3>2. PICK i \in Index : i = session[s].state.fd BY <3>1
    <3>3. PICK k \in Socket : k = sock[s][i] BY <2>3
    <3>4. k.phase # "none" /\ (k.phase = "open" => k.space > 0)
          /\ (k.phase # "connecting" => k.edge)
      BY <2>1, <2>3, <3>2, <3>3 DEF WakeInv, Decided
    <3>5. k.phase # "connecting" => Level(k) # {}
      BY <3>4 DEF Level, Bits, Broken, Failed, Socket
    <3>6. /\ [k EXCEPT !.edge = FALSE].phase = k.phase
          /\ [k EXCEPT !.edge = FALSE].space = k.space
      BY DEF Socket
    <3>7. k.phase # "connecting" => EventFor(s, i)' BY <2>3, <3>3, <3>4, <3>5
    <3>8. sock'[s][i].phase = k.phase /\ sock'[s][i].space = k.space
      BY <2>3, <3>3, <3>6
    <3> QED BY <2>2, <3>2, <3>4, <3>7, <3>8 DEF Decided
  <2> QED BY <2>1, <2>2, <2>4, <2>5, <2>6 DEF WakeInv, Known, Waits
<1> QED BY <1>1, <1>3 DEF WInv

LEMMA AcceptWakes ==
  ASSUME IInv, WInv, EventAccept
  PROVE  WInv'
<1>1. LoopInv' /\ UNCHANGED <<cur, batch, ready, replies>>
  BY DEF EventAccept, WInv, LoopInv
<1>2. CASE UNCHANGED <<conns, session, sock>>
  BY <1>1, <1>2, Frozen
<1>3. CASE ~UNCHANGED <<conns, session, sock>>
  <2>1. PICK i \in Index, s \in Sess :
          /\ conns[i] = None /\ ~Alive(s)
          /\ conns' = [conns EXCEPT ![i] = s]
          /\ session' = [session EXCEPT ![s] = NewSession(i)]
          /\ sock' = [sock EXCEPT ![s] = [NoSockets EXCEPT ![i] = NewSocket("open")]]
    BY <1>3 DEF EventAccept
  <2>2. ASSUME NEW u \in Sess, Unanswered(u)' PROVE WakeInv(u)'
    <3>1. CASE u = s
      <4>1. session'[s] = NewSession(i) /\ sock'[s][i] = NewSocket("open")
        BY <2>1 DEF IInv, TypeOK, NoSockets
      <4>2. Streams(s)' = {i} /\ session'[s].backends = {} /\ session'[s].state = Waiting
            /\ session'[s].index = i /\ session'[s].missed[i] = {}
        BY <4>1 DEF Streams, NewSession
      <4>3. Readable(NewSocket("open"), Known(session'[s], i), Told(s, i)')
        BY DEF Readable, NewSocket, Failed
      <4>4. \A j \in Streams(s)' : Readable(sock'[s][j], Known(session[s], j)', Told(s, j)')
        BY <4>1, <4>2, <4>3 DEF Known
      <4>5. session'[s].state.tag = "WaitingForRequest" BY <4>2, StateValues
      <4> QED BY <3>1, <4>2, <4>4, <4>5 DEF WakeInv
    <3>2. CASE u # s
      <4>1. session'[u] = session[u] /\ sock'[u] = sock[u] BY <2>1, <3>2 DEF IInv, TypeOK
      <4>2. Unanswered(u) BY <1>1, <2>2, <4>1 DEF Unanswered, Alive
      <4>3. \A j \in Index : conns[j] = u => conns'[j] = u
        BY <2>1, SlabAssumption DEF IInv, TypeOK
      <4>4. Scheduled(u) => Scheduled(u)'
        <5>1. \A n \in 1..Len(ready) : ready[n] \in Index BY DEF IInv, TypeOK
        <5>2. cur # None => cur \in Index BY DEF IInv, TypeOK
        <5> QED BY <1>1, <4>3, <5>1, <5>2 DEF Scheduled
      <4> QED BY <1>1, <4>1, <4>2, <4>4, Untouched DEF WInv
    <3> QED BY <3>1, <3>2
  <2> QED BY <1>1, <2>2 DEF WInv
<1> QED BY <1>2, <1>3

\* The queue only grows, and the token is that of the session.
LEMMA QueueGrows ==
  ASSUME IInv, NEW s \in Sess, NEW i \in Index, UNCHANGED <<cur, conns>>
  PROVE  /\ ready' = Append(ready, i) /\ Scheduled(s) => Scheduled(s)'
         /\ ready' = Append(ready, i) /\ conns[i] = s => Scheduled(s)'
         /\ ready' = ready /\ Scheduled(s) => Scheduled(s)'
<1>1. ready \in Seq(Index) BY DEF IInv, TypeOK
<1>2. /\ Len(Append(ready, i)) = Len(ready) + 1 /\ Len(ready) \in Nat
      /\ Append(ready, i)[Len(ready) + 1] = i
      /\ \A n \in 1..Len(ready) : Append(ready, i)[n] = ready[n]
  BY <1>1
<1>3. ASSUME ready' = Append(ready, i), Scheduled(s) PROVE Scheduled(s)'
  BY <1>2, <1>3 DEF Scheduled
<1>4. ASSUME ready' = Append(ready, i), conns[i] = s PROVE Scheduled(s)'
  <2>1. Len(ready) + 1 \in 1..Len(ready') /\ ready'[Len(ready) + 1] = i BY <1>2, <1>4
  <2> QED BY <1>4, <2>1 DEF Scheduled
<1>5. ASSUME ready' = ready, Scheduled(s) PROVE Scheduled(s)' BY <1>5 DEF Scheduled
<1> QED BY <1>3, <1>4, <1>5

\* What the event tells goes to the readiness of the session it was meant for; bits of
\* another socket under the same token only add to it.
LEMMA EventWakes ==
  ASSUME IInv, WInv, NEW e \in batch, Event(e)
  PROVE  WInv'
<1> DEFINE i == e.index
           s == conns[i]
<1>1. /\ e \in SocketEvent /\ i \in Index /\ e.mask \subseteq Bits /\ pc = "events"
      /\ batch' = batch \ {e} /\ UNCHANGED <<pc, cur, conns, replies, sock>>
  BY DEF IInv, TypeOK, SocketEvent, Event, netVars
<1>2. LoopInv' BY <1>1 DEF WInv, LoopInv
<1>3. /\ session' = session \/ (s \in Sess /\ session' = [session EXCEPT ![s] = Noted(s, i, e.mask)])
      /\ s # None /\ i \in Streams(s) =>
           /\ s \in Sess /\ session' = [session EXCEPT ![s] = Noted(s, i, e.mask)]
           /\ Wakes(Noted(s, i, e.mask), i) => ready' = Append(ready, i)
      /\ ready' = ready \/ ready' = Append(ready, i)
  BY <1>1 DEF Event, IInv, TypeOK
<1>4. ASSUME NEW u \in Sess, Unanswered(u)' PROVE WakeInv(u)'
  <2> DEFINE t == session[u]
  <2>1. session[u] \in Session /\ Unanswered(u)
    <3>1. session'[u].index = session[u].index
      <4>1. CASE session'[u] = session[u] BY <4>1
      <4>2. CASE session'[u] # session[u]
        <5>1. s = u /\ session'[u] = Noted(u, i, e.mask)
          BY <1>3, <4>2 DEF IInv, TypeOK
        <5>2. session[u] \in Session
          BY <1>1, <5>1, SlabAssumption DEF IInv, SlabInv, LocalInv, SessInv
        <5> QED BY <5>1, <5>2 DEF Noted, Session
      <4> QED BY <4>1, <4>2
    <3> QED BY <1>1, <1>4, <3>1 DEF Unanswered, Alive, IInv, TypeOK, Dropped
  <2>2. WakeInv(u) /\ SessInv(session[u], guest[u]) BY <2>1 DEF WInv, Unanswered, IInv, LocalInv
  <2>3. /\ session'[u].index = t.index /\ session'[u].backends = t.backends
        /\ session'[u].interest = t.interest
        /\ \A j \in Index : t.readiness[j] \subseteq session'[u].readiness[j]
        /\ \A j \in Index : s = u /\ j = i /\ j \in Streams(u) =>
             e.mask \subseteq session'[u].readiness[j]
        /\ \A j \in Index : Known(t, j) \subseteq Known(session'[u], j)
        /\ \A j \in Index : session'[u].missed[j] \subseteq t.missed[j]
        /\ \A j \in Index : j # i \/ s # u => session'[u].readiness[j] = t.readiness[j]
        /\ session'[u].state \in {t.state, Executing}
        /\ s = u /\ i \in Streams(u) /\ ConnectsOn(u, i) => session'[u].state = Executing
    <3>1. /\ t \in Session /\ t.readiness \in [Index -> SUBSET Bits]
          /\ t.missed \in [Index -> SUBSET Bits]
      BY <2>1 DEF Session
    <3>2. CASE s = u /\ session'[u] = Noted(u, i, e.mask)
      <4>1. /\ Noted(u, i, e.mask).index = t.index
            /\ Noted(u, i, e.mask).backends = t.backends
            /\ Noted(u, i, e.mask).interest = t.interest
            /\ Noted(u, i, e.mask).readiness = [t.readiness EXCEPT ![i] = @ \cup e.mask]
            /\ Noted(u, i, e.mask).missed = [t.missed EXCEPT ![i] = @ \ e.mask]
            /\ Noted(u, i, e.mask).state = IF ConnectsOn(u, i) THEN Executing ELSE t.state
        BY <3>1 DEF Noted, Session
      <4> HIDE DEF t
      <4>2. /\ \A j \in Index : Known(t, j) \subseteq Known(session'[u], j)
            /\ \A j \in Index : session'[u].missed[j] \subseteq t.missed[j]
        BY <1>1, <3>1, <3>2, <4>1 DEF Known
      <4> QED BY <1>1, <3>1, <3>2, <4>1, <4>2
    <3>3. CASE ~(s = u /\ session'[u] = Noted(u, i, e.mask))
      <4>1. session'[u] = t /\ ~(s = u /\ i \in Streams(u))
        BY <1>3, <3>3, SlabAssumption DEF IInv, TypeOK
      <4> HIDE DEF t
      <4> QED BY <4>1
    <3> QED BY <3>2, <3>3
  <2>4. Streams(u)' = Streams(u) /\ Streams(u) \subseteq Index /\ t.backends \subseteq Index
    BY <2>1, <2>3 DEF Streams, Session
  <2>5. \A j \in Streams(u) : conns[j] = u
    BY <2>1, <2>4 DEF IInv, SlabInv, Unanswered, Slots
  <2>6. ASSUME NEW j \in Streams(u)
        PROVE  /\ Readable(sock[u][j], Known(t, j), Told(u, j)) =>
                    Readable(sock[u][j], Known(session'[u], j), Told(u, j)')
               /\ Writable(sock[u][j], Known(t, j), Told(u, j)) =>
                    Writable(sock[u][j], Known(session'[u], j), Told(u, j)')
    <3>1. PICK k \in Socket : k = sock[u][j] BY <2>4, <2>6 DEF IInv, TypeOK
    <3>2. PICK R, T, R1, T1 : /\ R = Known(t, j) /\ T = Told(u, j)
                              /\ R1 = Known(session'[u], j) /\ T1 = Told(u, j)'
      OBVIOUS
    <3>3. \A b \in Bits : b \in R => b \in R1 BY <2>3, <2>4, <3>2
    <3>4. ASSUME NEW b \in Bits, b \in T PROVE b \in R1 \/ b \in T1
      <4>1. PICK f \in batch : f.sess = u /\ f.index = j /\ b \in f.mask
        BY <3>2, <3>4 DEF Told
      <4>2. CASE f = e
        <5>1. j = i /\ s = u BY <2>5, <4>1, <4>2
        <5>2. e.mask \subseteq R1 BY <1>1, <2>3, <2>6, <3>2, <5>1 DEF Known
        <5> QED BY <4>1, <4>2, <5>2
      <4>3. CASE f # e
        <5>1. f \in batch' BY <1>1, <4>3
        <5> QED BY <3>2, <4>1, <5>1 DEF Told
      <4> QED BY <4>2, <4>3
    <3> HIDE DEF t
    <3>5. /\ Readable(k, R, T) => Readable(k, R1, T1)
          /\ Writable(k, R, T) => Writable(k, R1, T1)
      BY <3>3, <3>4, KnowsMore
    <3> QED BY <3>1, <3>2, <3>5
  <2>7. \A b \in Bits : t.state.fd \in t.backends /\ session'[u].state = t.state /\ Waits(u, b) =>
          Waits(u, b)'
    <3> SUFFICES ASSUME NEW b \in Bits, t.state.fd \in t.backends, session'[u].state = t.state,
                        Waits(u, b)
                 PROVE  Waits(u, b)'
      OBVIOUS
    <3>1. PICK fd \in Index : fd = t.state.fd /\ fd \in Streams(u) BY <2>4 DEF Streams
    <3>2. b \in t.interest[fd] /\ (b \in t.readiness[fd] => Scheduled(u))
      BY <3>1 DEF Waits
    <3>3. Scheduled(u) => Scheduled(u)' BY <1>1, <1>3, QueueGrows
    <3>4. ASSUME b \in session'[u].readiness[fd] PROVE Scheduled(u)'
      <4>1. CASE fd = i /\ s = u
        <5>1. session'[u] = Noted(u, i, e.mask) BY <1>1, <1>3, <3>1, <4>1, SlabAssumption DEF IInv, TypeOK
        <5>2. Wakes(Noted(s, i, e.mask), i) BY <2>3, <3>2, <3>4, <4>1, <5>1 DEF Wakes
        <5>3. ready' = Append(ready, i) BY <1>3, <3>1, <4>1, <5>2, SlabAssumption
        <5> QED BY <1>1, <4>1, <5>3, QueueGrows
      <4>2. CASE fd # i \/ s # u BY <2>3, <3>2, <3>3, <3>4, <4>2
      <4> QED BY <4>1, <4>2
    <3> QED BY <2>3, <3>1, <3>2, <3>4 DEF Waits
  <2>8. t.state.tag \in {"TcpRead", "TcpWrite", "WaitingForBackendConnect"} =>
          t.state.fd \in t.backends
    BY <2>2 DEF SessInv, CallProtocol, Pending
  <2>9. session'[u].state.tag = "WaitingForBackendConnect" => Decided(u, session[u].state.fd)'
    <3> SUFFICES ASSUME session'[u].state.tag = "WaitingForBackendConnect"
                 PROVE  Decided(u, session[u].state.fd)'
      OBVIOUS
    <3>1. session'[u].state = t.state BY <2>3, StateValues
    <3>2. Decided(u, t.state.fd) /\ t.state.fd \in t.backends BY <2>2, <2>8, <3>1 DEF WakeInv
    <3>3. PICK fd \in Index : fd = t.state.fd /\ fd \in Streams(u) /\ fd # t.index
      BY <2>2, <2>4, <3>2 DEF Streams, SessInv
    <3>4. EventFor(u, fd) => EventFor(u, fd)'
      <4> SUFFICES ASSUME EventFor(u, fd) PROVE EventFor(u, fd)' OBVIOUS
      <4>1. PICK f \in batch : f.sess = u /\ f.index = fd BY DEF EventFor
      <4>2. f # e
        <5> SUFFICES ASSUME f = e PROVE FALSE OBVIOUS
        <5>1. fd = i /\ s = u BY <2>5, <3>3, <4>1
        <5>2. t.state = Connecting(fd)
          BY <2>1, <3>1, <3>3, StateFields DEF Session
        <5>3. ConnectsOn(u, i) BY <3>3, <5>1, <5>2 DEF ConnectsOn
        <5>4. session'[u].state = Executing BY <2>3, <3>3, <5>1, <5>3
        <5> QED BY <5>4, StateValues
      <4> QED BY <1>1, <4>1, <4>2 DEF EventFor
    <3> QED BY <1>1, <3>1, <3>2, <3>3, <3>4 DEF Decided
  <2>10. session'[u].state.tag # "Executing" => session'[u].state = t.state
    BY <2>3, StateValues
  <2> HIDE DEF t
  <2>11. \A j \in Streams(u)' : Readable(sock'[u][j], Known(session'[u], j), Told(u, j)')
    BY <1>1, <2>2, <2>4, <2>6 DEF WakeInv, t
  <2>12. \A j \in session'[u].backends : Writable(sock'[u][j], Known(session'[u], j), Told(u, j)')
    BY <1>1, <2>2, <2>3, <2>6 DEF WakeInv, t, Streams
  <2>13. /\ session'[u].state.tag = "TcpRead" => Waits(u, "r")'
         /\ session'[u].state.tag = "TcpWrite" => Waits(u, "w")'
    BY <2>2, <2>7, <2>8, <2>10 DEF WakeInv, t, Bits
  <2>14. session'[u].state.tag = "WaitingForBackendConnect" => session'[u].state = session[u].state
    BY <2>10 DEF t
  <2>15. session'[u].missed[session'[u].index] = {}
    BY <2>1, <2>2, <2>3 DEF WakeInv, t, Session
  <2> QED BY <2>9, <2>11, <2>12, <2>13, <2>14, <2>15 DEF WakeInv, Known
<1> QED BY <1>2, <1>4 DEF WInv

\* The token taken from the queue is the current one.
LEMMA DrainSchedules ==
  ASSUME IInv, WInv, Drain, NEW s \in Sess, Scheduled(s)
  PROVE  Scheduled(s)'
<1>1. /\ pc = "drain" /\ ready # <<>> /\ ready' = Tail(ready) /\ cur = None
      /\ conns' = conns
  BY DEF Drain, WInv, LoopInv
<1>2. conns[Head(ready)] # None => cur' = Head(ready) BY DEF Drain
<1>3. ready \in Seq(Index) BY DEF IInv, TypeOK
<1>4. PICK n \in 1..Len(ready) : conns[ready[n]] = s BY <1>1 DEF Scheduled
<1>5. CASE n = 1
  <2>1. ready[n] = Head(ready) /\ Head(ready) \in Index BY <1>1, <1>3, <1>5
  <2>2. cur' = Head(ready) /\ cur' # None BY <1>2, <1>4, <2>1, SlabAssumption
  <2> QED BY <1>1, <1>4, <2>1, <2>2 DEF Scheduled
<1>6. CASE n # 1
  <2>1. n - 1 \in 1..Len(Tail(ready)) /\ Tail(ready)[n - 1] = ready[n]
    BY <1>1, <1>3, <1>6
  <2> QED BY <1>1, <1>4, <2>1 DEF Scheduled
<1> QED BY <1>5, <1>6

LEMMA DrainWakes ==
  ASSUME IInv, WInv, Drain
  PROVE  WInv'
<1>1. UNCHANGED <<batch, session, replies, sock>> BY DEF Drain, sessVars, netVars
<1>2. LoopInv' BY DEF Drain, WInv, LoopInv
<1>3. ASSUME NEW s \in Sess, Unanswered(s)' PROVE WakeInv(s)'
  <2>1. Unanswered(s) BY <1>1, <1>3 DEF Unanswered, Alive
  <2>2. Scheduled(s) => Scheduled(s)' BY DrainSchedules
  <2> QED BY <1>1, <2>1, <2>2, Untouched DEF WInv
<1> QED BY <1>2, <1>3 DEF WInv

\* The steps that change nothing here: a panic, an end of a phase, the instance.
LEMMA FrozenWakes ==
  ASSUME IInv, WInv,
         \/ EndEvents \/ EndDrain \/ ParsePartial \/ CreateInstance \/ InstantiatePanic
         \/ ResumeEmpty \/ GuestFault \/ ConnectPanic \/ ExecutedWhileConnecting
         \/ UNCHANGED vars
  PROVE  WInv'
<1>1. CASE EndEvents \/ EndDrain \/ UNCHANGED vars
  <2>1. LoopInv' BY <1>1 DEF EndEvents, EndDrain, vars, loopVars, WInv, LoopInv
  <2> QED BY <1>1, <2>1, Frozen
          DEF EndEvents, EndDrain, vars, loopVars, sessVars, netVars
<1>2. CASE ParsePartial \/ CreateInstance
  <2>1. pc \in Running /\ pc' \in Running /\ batch' = batch
    BY <1>2 DEF ParsePartial, CreateInstance, Processing, AtProcess, Running
  <2>2. LoopInv' BY <2>1 DEF WInv, LoopInv, Running
  <2> QED BY <1>2, <2>2, Frozen DEF ParsePartial, CreateInstance, sessVars, netVars
<1>3. CASE InstantiatePanic \/ ResumeEmpty \/ GuestFault \/ ConnectPanic
             \/ ExecutedWhileConnecting
  <2>1. pc \in Running /\ \E site \in Panics : Panic(site)
    BY <1>3 DEF InstantiatePanic, ResumeEmpty, GuestFault, ConnectPanic, GuestCalls, GuestRuns,
                ExecutedWhileConnecting, Processing, AtProcess, Running, Panics
  <2>2. LoopInv' BY <2>1 DEF Panic, Panics, WInv, LoopInv, Running
  <2> QED BY <2>1, <2>2, Frozen DEF Panic, sessVars, netVars
<1> QED BY <1>1, <1>2, <1>3

(***************************************************************************)
(* A turn of a session.                                                    *)
(***************************************************************************)

\* A session that is closed has been answered, or is gone.
LEMMA ClosedIsAnswered ==
  ASSUME IInv, IInv', pc \in Running, NEW me \in Sess, me = Me,
         NEW t, t.index = My.index, t.backends = My.backends, NEW n, Close(t, n)
  PROVE  ~Unanswered(me)'
<1> SUFFICES ASSUME Unanswered(me)' PROVE FALSE OBVIOUS
<1>1. cur \in Index /\ cur \in Streams(me) /\ My = session[me]
  BY MeAlive DEF IInv
<1>2. /\ session' = [session EXCEPT ![me] = IF Slots(me) \ {cur} = {} THEN Dropped ELSE t]
      /\ conns' = [conns EXCEPT ![cur] = None]
  BY DEF Close
<1>3. Slots(me)' = Streams(me)' BY DEF IInv, SlabInv, Unanswered
<1>4. session'[me] = t BY <1>2 DEF Unanswered, Alive, Dropped, IInv, TypeOK
<1>5. cur \in Streams(me)' BY <1>1, <1>4 DEF Streams
<1>6. conns'[cur] = None BY <1>1, <1>2 DEF IInv, TypeOK
<1> QED BY <1>3, <1>5, <1>6, SlabAssumption DEF Slots

LEMMA CloseWakes ==
  ASSUME IInv, IInv', WInv, pc \in Running,
         NEW t, t.index = My.index, t.backends = My.backends, NEW n, Close(t, n)
  PROVE  WInv'
<1>1. LoopInv' BY DEF Close, WInv, LoopInv, Running
<1>2. PICK me \in Sess : me = Me /\ cur \in Index BY MeAlive DEF IInv
<1>3. /\ session' = [session EXCEPT ![me] = IF Slots(me) \ {cur} = {} THEN Dropped ELSE t]
      /\ sock' = [sock EXCEPT ![me] = IF Slots(me) \ {cur} = {} THEN NoSockets ELSE @]
      /\ conns' = [conns EXCEPT ![cur] = None]
      /\ \A s \in Sess \ {me} : replies'[s] = replies[s]
      /\ UNCHANGED <<batch, ready>>
  BY <1>2 DEF Close, IInv, TypeOK
<1>4. ~Unanswered(me)' BY <1>2, ClosedIsAnswered
<1>5. ASSUME NEW s \in Sess, s # me, Unanswered(s)' PROVE WakeInv(s)'
  <2>1. session'[s] = session[s] /\ sock'[s] = sock[s] /\ replies'[s] = replies[s]
    BY <1>3, <1>5 DEF IInv, TypeOK
  <2>2. \A i \in Index : conns[i] = s => conns'[i] = s
    BY <1>2, <1>3, <1>5 DEF Me, IInv, TypeOK
  <2> QED BY <1>2, <1>3, <1>5, <2>1, <2>2, OthersWait
<1> QED BY <1>1, <1>4, <1>5 DEF WInv

\* The session goes on as t: it is scheduled, and no event is left.
LEMMA GoesOnWakes ==
  ASSUME IInv, WInv, pc \in Running, pc' \in Running, NEW me \in Sess, me = Me,
         NEW t, t.index = My.index, t.backends = My.backends,
         session' = [session EXCEPT ![Me] = t],
         \A s \in Sess \ {me} : sock'[s] = sock[s],
         UNCHANGED <<cur, batch, ready, conns, replies>>,
         t.missed[My.index] = My.missed[My.index],
         \A i \in Streams(me) : Readable(sock[me][i], Known(My, i), {}) =>
                                  Readable(sock'[me][i], Known(t, i), {}),
         \A i \in t.backends : Writable(sock[me][i], Known(My, i), {}) =>
                                Writable(sock'[me][i], Known(t, i), {}),
         t.state.tag = "TcpRead" => "r" \in t.interest[t.state.fd],
         t.state.tag = "TcpWrite" => "w" \in t.interest[t.state.fd],
         t.state.tag # "WaitingForBackendConnect"
  PROVE  WInv'
<1>1. LoopInv' /\ batch = {} BY DEF WInv, LoopInv, Running
<1>2. /\ My = session[me] /\ session \in [Sess -> Session \cup {Dropped}]
      /\ cur \in Index /\ conns[cur] = me
  BY MeAlive DEF IInv, TypeOK, Me
<1>3. session'[me] = t BY <1>2
<1>4. Streams(me)' = Streams(me) BY <1>2, <1>3 DEF Streams
<1>5. \A i : Told(me, i) = {} /\ Told(me, i)' = {} BY <1>1 DEF Told
<1>6. Scheduled(me)' BY <1>2, SlabAssumption DEF Scheduled
<1>7. ASSUME Unanswered(me) PROVE WakeInv(me)'
  <2>1. WakeInv(me) BY <1>7 DEF WInv
  <2>2. \A i \in Streams(me)' : Readable(sock'[me][i], Known(t, i), Told(me, i)')
    BY <1>2, <1>4, <1>5, <2>1 DEF WakeInv
  <2>3. \A i \in t.backends : Writable(sock'[me][i], Known(t, i), Told(me, i)')
    BY <1>2, <1>5, <2>1 DEF WakeInv
  <2>4. t.missed[t.index] = {} BY <1>2, <2>1 DEF WakeInv
  <2> QED BY <1>3, <1>6, <2>2, <2>3, <2>4 DEF WakeInv, Known, Waits
<1> QED BY <1>1, <1>7, TurnWakes

\* It goes on with another state or interest, and with its sockets as they are.
LEMMA RestatedWakes ==
  ASSUME IInv, WInv, pc \in Running, pc' \in Running,
         NEW t, t.index = My.index, t.backends = My.backends, t.readiness = My.readiness,
         t.missed = My.missed,
         session' = [session EXCEPT ![Me] = t],
         UNCHANGED <<cur, batch, ready, conns, replies, sock>>,
         t.state.tag = "TcpRead" => "r" \in t.interest[t.state.fd],
         t.state.tag = "TcpWrite" => "w" \in t.interest[t.state.fd],
         t.state.tag # "WaitingForBackendConnect"
  PROVE  WInv'
<1>1. PICK me \in Sess : me = Me BY MeAlive DEF IInv
<1> QED BY <1>1, GoesOnWakes DEF Known

LEMMA RequestWakes ==
  ASSUME IInv, IInv', WInv, ParseError \/ ParseComplete \/ NoRoute
  PROVE  WInv'
<1>1. pc \in Running BY DEF ParseError, ParseComplete, NoRoute, Processing, AtProcess, Running
<1>2. My \in Session BY <1>1, MeAlive DEF IInv
<1>3. CASE ParseError BY <1>1, <1>3, CloseWakes DEF ParseError
<1>4. CASE NoRoute
  <2>1. PICK t : t = [My EXCEPT !.interest[My.index] = {}] OBVIOUS
  <2>2. t.index = My.index /\ t.backends = My.backends BY <1>2, <2>1 DEF Session
  <2> QED BY <1>1, <1>4, <2>1, <2>2, CloseWakes DEF NoRoute
<1>5. CASE ParseComplete
  <2>1. PICK t : t = [My EXCEPT !.state = Executing, !.interest[My.index] = @ \ {"r"}]
    OBVIOUS
  <2>2. /\ t.index = My.index /\ t.backends = My.backends /\ t.readiness = My.readiness
        /\ t.missed = My.missed /\ t.state = Executing
    BY <1>2, <2>1 DEF Session
  <2>3. /\ session' = [session EXCEPT ![Me] = t] /\ pc' \in Running
        /\ UNCHANGED <<cur, batch, ready, conns, replies, sock>>
    BY <1>5, <2>1 DEF ParseComplete, netVars, Running
  <2> QED BY <1>1, <2>2, <2>3, StateValues, RestatedWakes
<1> QED BY <1>3, <1>4, <1>5

\* The client is only written to when there is a response to write.
LEMMA WritesResponse ==
  ASSUME IInv, FrontWritable
  PROVE  pc \in Running /\ Close(My, 1)
<1>1. pc \in Running /\ "w" \in Front
  BY DEF FrontWritable, AtFrontWritable, Running, IInv, Unreached
<1>2. SessInv(My, MyGuest) BY <1>1, MeAlive DEF IInv
<1>3. MyGuest.stack = "returned" /\ MyGuest.prepared = {"status", "body"}
  BY <1>1, <1>2 DEF Front, SessInv, ClientInterest
<1> QED BY <1>1, <1>3 DEF FrontWritable

LEMMA FrontWakes ==
  ASSUME IInv, IInv', WInv, FrontReadable \/ FrontWritable
  PROVE  WInv'
<1>1. CASE FrontWritable
  <2>1. pc \in Running /\ Close(My, 1) BY <1>1, WritesResponse
  <2> QED BY <2>1, CloseWakes
<1>2. CASE FrontReadable
  <2>1. pc \in Running BY <1>2 DEF FrontReadable, AtFrontReadable, Running
  <2>2. My.state = Waiting /\ "w" \notin Front /\ "r" \in Front
    BY <1>2, ReadsWaiting DEF FrontReadable, AtFrontReadable
  <2>3. /\ My \in Session /\ sock[Me] \in [Index -> Socket] /\ My.index \notin My.backends
        /\ My = session[Me]
    BY <2>1, MeAlive DEF IInv, SessInv
  <2>4. CASE Close(My, 0) BY <2>1, <2>4, CloseWakes
  <2>5. CASE ~Close(My, 0)
    <3>1. PICK me \in Sess : me = Me BY <2>1, MeAlive DEF IInv
    <3>2. PICK c \in Index : c = My.index BY <2>3 DEF Session
    <3>3. PICK k \in Socket : k = sock[me][c] BY <2>3, <3>1, <3>2
    <3> DEFINE room == BufLen - My.buffered
               got  == IF k.avail < room THEN k.avail ELSE room
               left == IF k.avail < room THEN 0 ELSE k.avail - room
               bits == IF k.avail < room THEN My.readiness[c] \ {"r"} ELSE My.readiness[c]
               t    == [My EXCEPT !.buffered = @ + got, !.readiness[c] = bits]
    <3>4. /\ pc' = "process"
          /\ session' = [session EXCEPT ![Me] = t]
          /\ sock' = [sock EXCEPT ![me][c].avail = left]
          /\ k.avail < room => ~Broken(k)
          /\ UNCHANGED <<cur, batch, ready, conns, replies>>
      BY <1>2, <2>2, <2>5, <3>1, <3>2, <3>3 DEF FrontReadable, IInv, TypeOK
    <3>5. /\ t.index = My.index /\ t.backends = My.backends /\ t.state = Waiting
          /\ t.readiness = [My.readiness EXCEPT ![c] = bits] /\ t.missed = My.missed
      BY <2>2, <2>3, <3>2 DEF Session
    <3>6. /\ sock'[me][c] = [k EXCEPT !.avail = left]
          /\ \A i \in Index \ {c} : sock'[me][i] = sock[me][i]
          /\ \A s \in Sess \ {me} : sock'[s] = sock[s]
      BY <2>3, <3>1, <3>3, <3>4 DEF IInv, TypeOK
    <3>7. t.readiness[c] = bits /\ \A i \in Index \ {c} : t.readiness[i] = My.readiness[i]
      BY <2>3, <3>5 DEF Session
    <3>8. ASSUME NEW Q, bits \subseteq Q
          PROVE  Readable(k, Known(My, c), {}) => Readable([k EXCEPT !.avail = left], Q, {})
      <4>1. "r" \in My.readiness[c] BY <2>2, <3>2 DEF Front
      <4>2. /\ [k EXCEPT !.avail = left].avail = left /\ [k EXCEPT !.avail = left].phase = k.phase
            /\ [k EXCEPT !.avail = left].edge = k.edge
        BY DEF Socket
      <4>3. k.avail \in Nat /\ room \in Int BY <2>3, LengthAssumption DEF Socket, Session
      <4>4. CASE k.avail < room
        <5>1. left = 0 /\ ~Failed(k) BY <3>4, <4>4 DEF Broken
        <5> QED BY <4>2, <5>1 DEF Readable, Failed
      <4>5. CASE ~(k.avail < room)
        <5>1. "r" \in Q BY <3>8, <4>1, <4>5
        <5>2. left > 0 => k.avail > 0
          <6>1. room >= 0 BY <2>1, MeAlive, LengthAssumption DEF IInv, SessInv, Session
          <6> QED BY <4>3, <4>5, <6>1
        <5> HIDE DEF bits, left
        <5> QED BY <4>2, <5>1, <5>2 DEF Readable, Failed
      <4> QED BY <4>4, <4>5
    <3> HIDE DEF t, bits, left, room
    <3>12. bits \subseteq Known(t, c) /\ \A i \in Index \ {c} : Known(t, i) = Known(My, i)
      BY <3>5, <3>7 DEF Known
    <3>9. \A i \in Streams(me) : Readable(sock[me][i], Known(My, i), {}) =>
                                  Readable(sock'[me][i], Known(t, i), {})
      BY <2>3, <3>1, <3>3, <3>6, <3>8, <3>12 DEF Streams, Session
    <3>10. \A i \in t.backends : Writable(sock[me][i], Known(My, i), {}) =>
                                  Writable(sock'[me][i], Known(t, i), {})
      BY <2>3, <3>2, <3>5, <3>6, <3>12 DEF Session
    <3>11. /\ t.state.tag # "TcpRead" /\ t.state.tag # "TcpWrite"
           /\ t.state.tag # "WaitingForBackendConnect"
      BY <3>5, StateValues
    <3> QED BY <2>1, <3>1, <3>4, <3>5, <3>6, <3>9, <3>10, <3>11, GoesOnWakes DEF Running
  <2> QED BY <2>4, <2>5
<1> QED BY <1>1, <1>2

(***************************************************************************)
(* The guest.                                                              *)
(***************************************************************************)

LEMMA GuestWakes ==
  ASSUME IInv, WInv, GuestReads \/ GuestWrites \/ GuestReturns
  PROVE  WInv'
<1>1. Processing("Executing") BY DEF GuestReads, GuestWrites, GuestReturns, GuestCalls, GuestRuns
<1>2. pc \in Running /\ My \in Session /\ My.state = Executing BY <1>1, AtExecuting
<1>3. My.backends \subseteq Index /\ My.interest \in [Index -> SUBSET Bits]
  BY <1>2 DEF Session
<1>4. ASSUME NEW t, t.index = My.index, t.backends = My.backends, t.readiness = My.readiness,
             t.missed = My.missed, session' = [session EXCEPT ![Me] = t], pc' \in Running,
             UNCHANGED <<cur, batch, ready, conns, replies, sock>>,
             t.state.tag = "TcpRead" => "r" \in t.interest[t.state.fd],
             t.state.tag = "TcpWrite" => "w" \in t.interest[t.state.fd],
             t.state.tag # "WaitingForBackendConnect"
      PROVE  WInv'
  BY <1>2, <1>4, RestatedWakes
<1>5. CASE GuestReads
  <2>1. PICK i \in My.backends, n \in Sizes :
          session' = [session EXCEPT
            ![Me] = [My EXCEPT !.state = TcpRead(i, n), !.interest[i] = @ \cup {"r"}]]
    BY <1>5 DEF GuestReads
  <2>2. PICK t : t = [My EXCEPT !.state = TcpRead(i, n), !.interest[i] = @ \cup {"r"}]
    OBVIOUS
  <2>3. /\ t.index = My.index /\ t.backends = My.backends /\ t.readiness = My.readiness
        /\ t.missed = My.missed /\ t.state = TcpRead(i, n) /\ t.interest[i] = My.interest[i] \cup {"r"}
    BY <1>2, <1>3, <2>2 DEF Session
  <2>4. t.state.tag = "TcpRead" /\ t.state.fd = i BY <1>3, <2>3, StateValues
  <2>5. pc' \in Running /\ UNCHANGED <<cur, batch, ready, conns, replies, sock>>
    BY <1>5, Zenon DEF GuestReads, netVars, Running
  <2> QED BY <1>4, <2>1, <2>2, <2>3, <2>4, <2>5
<1>6. CASE GuestWrites
  <2>1. PICK i \in My.backends, n \in Sizes :
          session' = [session EXCEPT
            ![Me] = [My EXCEPT !.state = TcpWrite(i, n, 0), !.interest[i] = @ \cup {"w"}]]
    BY <1>6 DEF GuestWrites
  <2>2. PICK t : t = [My EXCEPT !.state = TcpWrite(i, n, 0), !.interest[i] = @ \cup {"w"}]
    OBVIOUS
  <2>3. /\ t.index = My.index /\ t.backends = My.backends /\ t.readiness = My.readiness
        /\ t.missed = My.missed /\ t.state = TcpWrite(i, n, 0) /\ t.interest[i] = My.interest[i] \cup {"w"}
    BY <1>2, <1>3, <2>2 DEF Session
  <2>4. t.state.tag = "TcpWrite" /\ t.state.fd = i BY <1>3, <2>3, StateValues
  <2>5. pc' \in Running /\ UNCHANGED <<cur, batch, ready, conns, replies, sock>>
    BY <1>6, Zenon DEF GuestWrites, netVars, Running
  <2> QED BY <1>4, <2>1, <2>2, <2>3, <2>4, <2>5
<1>7. CASE GuestReturns
  <2>1. PICK p \in SUBSET {"status", "body"} :
          session' = [session EXCEPT ![Me] = [My EXCEPT
            !.interest[My.index] = IF p = {"status", "body"} THEN @ \cup {"w"} ELSE @]]
    BY <1>7 DEF GuestReturns
  <2>2. PICK t : t = [My EXCEPT
            !.interest[My.index] = IF p = {"status", "body"} THEN @ \cup {"w"} ELSE @]
    OBVIOUS
  <2>3. /\ t.index = My.index /\ t.backends = My.backends /\ t.readiness = My.readiness
        /\ t.missed = My.missed /\ t.state = Executing
    BY <1>2, <2>2 DEF Session
  <2>5. pc' \in Running /\ UNCHANGED <<cur, batch, ready, conns, replies, sock>>
    BY <1>7, Zenon DEF GuestReturns, netVars, Running
  <2>6. t.state.tag = "Executing" BY <2>3, StateValues
  <2> QED BY <1>4, <2>1, <2>2, <2>3, <2>5, <2>6
<1> QED BY <1>5, <1>6, <1>7

\* The thread leaves the running session as it is, unless it waits for a bit it has.
LEMMA LeavesWakes ==
  ASSUME IInv, WInv, pc \in Running, pc' = "drain", cur' = None,
         UNCHANGED <<batch, ready, conns, session, replies, sock>>,
         My.state.tag = "TcpRead" => "r" \notin Usable,
         My.state.tag = "TcpWrite" => "w" \notin Usable
  PROVE  WInv'
<1>1. LoopInv' BY DEF WInv, LoopInv, Running
<1>2. PICK me \in Sess : me = Me /\ My = session[me] BY MeAlive DEF IInv
<1>3. ASSUME NEW s \in Sess, Unanswered(s)' PROVE WakeInv(s)'
  <2>1. CASE s = me
    <3>1. WakeInv(me) BY <1>3, <2>1 DEF WInv, Unanswered, Alive
    <3>2. \A b \in {"r", "w"} : Waits(me, b) /\ b \notin Usable => Waits(me, b)'
      BY <1>2 DEF Waits, Usable, Fd
    <3>3. /\ \A i : Told(me, i)' = Told(me, i)
          /\ \A i : Decided(me, i)' <=> Decided(me, i)
          /\ Streams(me)' = Streams(me)
      BY DEF Told, Decided, EventFor, Streams
    <3>4. /\ \A i \in Streams(me)' : Readable(sock'[me][i], Known(session'[me], i), Told(me, i)')
          /\ \A i \in session'[me].backends : Writable(sock'[me][i], Known(session'[me], i), Told(me, i)')
      BY <3>1, <3>3 DEF WakeInv
    <3>5. /\ session'[me].state.tag = "TcpRead" => Waits(me, "r")'
          /\ session'[me].state.tag = "TcpWrite" => Waits(me, "w")'
      BY <1>2, <3>1, <3>2 DEF WakeInv
    <3>6. session'[me].state.tag = "WaitingForBackendConnect" => Decided(me, session[me].state.fd)'
      BY <3>1 DEF WakeInv, Decided, EventFor
    <3> QED BY <2>1, <3>1, <3>4, <3>5, <3>6 DEF WakeInv, Known
  <2>2. CASE s # me BY <1>2, <1>3, <2>2, OthersWait
  <2> QED BY <2>1, <2>2
<1> QED BY <1>1, <1>3 DEF WInv

LEMMA ParkWakes ==
  ASSUME IInv, WInv, ReadParks \/ WriteParks \/ ConnectRefused
  PROVE  WInv'
<1>1. CASE ReadParks
  <2>1. pc \in Running BY <1>1 DEF ReadParks, Park, Processing, AtProcess, Running
  <2> QED BY <1>1, <2>1, LeavesWakes DEF ReadParks, Park, Processing, sessVars, netVars
<1>2. CASE WriteParks
  <2>1. pc \in Running BY <1>2 DEF WriteParks, Park, Processing, AtProcess, Running
  <2> QED BY <1>2, <2>1, LeavesWakes DEF WriteParks, Park, Processing, sessVars, netVars
<1>3. CASE ConnectRefused
  <2>1. /\ pc \in Running /\ My.state.tag = "Executing"
    BY <1>3 DEF ConnectRefused, GuestCalls, GuestRuns, Processing, AtProcess, Running
  <2> QED BY <1>3, <2>1, LeavesWakes DEF ConnectRefused, netVars
<1> QED BY <1>1, <1>2, <1>3

LEMMA ConnectWakes ==
  ASSUME IInv, WInv, GuestConnects
  PROVE  WInv'
<1>1. Processing("Executing") /\ MyGuest.stack = "suspended"
  BY DEF GuestConnects, GuestCalls, GuestRuns
<1>2. /\ pc \in Running /\ Me \in Sess /\ Alive(Me) /\ My = session[Me] /\ My \in Session
      /\ replies[Me] = 0 /\ SessInv(My, MyGuest)
  BY <1>1, AtExecuting
<1>3. PICK me \in Sess : me = Me BY <1>2
<1>4. PICK i \in Index :
        /\ conns[i] = None
        /\ conns' = [conns EXCEPT ![i] = Me]
        /\ session' = [session EXCEPT ![Me] = AddBackend(@, i)]
        /\ sock' = [sock EXCEPT ![Me][i] = NewSocket("connecting")]
  BY DEF GuestConnects
<1>5. LoopInv' /\ batch = {} /\ UNCHANGED <<batch, ready, replies>>
  BY <1>2 DEF GuestConnects, WInv, LoopInv, Running
<1>6. PICK t : t = AddBackend(My, i) OBVIOUS
<1>7. /\ t.index = My.index /\ t.backends = My.backends \cup {i} /\ t.state = Connecting(i)
      /\ \A j \in Index : j # i => t.missed[j] = My.missed[j] /\ Known(t, j) = Known(My, j)
  BY <1>2, <1>6 DEF AddBackend, Session, Known
<1>8. session'[me] = t /\ \A s \in Sess \ {me} : session'[s] = session[s]
  BY <1>2, <1>3, <1>4, <1>6 DEF IInv, TypeOK
<1>9. /\ sock'[me][i] = NewSocket("connecting")
      /\ \A j \in Index \ {i} : sock'[me][j] = sock[me][j]
      /\ \A s \in Sess \ {me} : sock'[s] = sock[s]
  BY <1>3, <1>4 DEF IInv, TypeOK
<1>10. i \notin Streams(me) /\ Streams(me) \subseteq Index
  <2>1. Slots(me) = Streams(me) BY <1>2, <1>3 DEF IInv, SlabInv
  <2> QED BY <1>3, <1>4, <2>1, SlabAssumption DEF Slots
<1>11. WakeInv(me)'
  <2>1. WakeInv(me) BY <1>2, <1>3 DEF WInv, Unanswered
  <2>2. \A j : Told(me, j) = {} /\ Told(me, j)' = {} BY <1>5 DEF Told
  <2>3. Streams(me)' = Streams(me) \cup {i} BY <1>2, <1>3, <1>7, <1>8 DEF Streams
  <2>4. \A R, T : Readable(NewSocket("connecting"), R, T) /\ Writable(NewSocket("connecting"), R, T)
    BY BoundsAssumption DEF Readable, Writable, NewSocket, Failed, Broken
  <2>5. \A j \in Streams(me) : /\ sock'[me][j] = sock[me][j]
                                /\ Known(t, j) = Known(My, j) /\ t.missed[j] = My.missed[j]
    BY <1>7, <1>9, <1>10
  <2>6. \A j \in Streams(me)' : Readable(sock'[me][j], Known(t, j), Told(me, j)')
    BY <1>2, <1>3, <1>9, <2>1, <2>2, <2>3, <2>4, <2>5 DEF WakeInv
  <2>7. ASSUME NEW j \in t.backends
        PROVE  Writable(sock'[me][j], Known(t, j), Told(me, j)')
    <3>1. CASE j = i BY <1>9, <2>4, <3>1
    <3>2. CASE j # i
      <4>1. j \in My.backends /\ j \in Streams(me) BY <1>2, <1>3, <1>7, <3>2 DEF Streams
      <4>2. Writable(sock[me][j], Known(My, j), {}) BY <1>2, <1>3, <2>1, <2>2, <4>1 DEF WakeInv
      <4> QED BY <2>2, <2>5, <4>1, <4>2
    <3> QED BY <3>1, <3>2
  <2>8. t.state.tag = "WaitingForBackendConnect" /\ t.state.fd = i BY <1>7, StateValues
  <2>9. Decided(me, i)' BY <1>9 DEF Decided, NewSocket
  <2>10. t.missed[t.index] = {}
    BY <1>2, <1>3, <1>7, <2>1, <2>5 DEF WakeInv, Streams
  <2> QED BY <1>8, <2>6, <2>7, <2>8, <2>9, <2>10 DEF WakeInv, Known, Decided, EventFor
<1>12. ASSUME NEW s \in Sess, s # me, Unanswered(s)' PROVE WakeInv(s)'
  <2>1. \A j \in Index : conns[j] = s => conns'[j] = s
    BY <1>4, SlabAssumption DEF IInv, TypeOK
  <2> QED BY <1>2, <1>3, <1>5, <1>8, <1>9, <1>12, <2>1, OthersWait
<1> QED BY <1>5, <1>11, <1>12 DEF WInv

(***************************************************************************)
(* tcp_read and tcp_write.                                                 *)
(***************************************************************************)

\* The socket of the call becomes k, the bits lost are cleared, and the state is st.
LEMMA CallWakes ==
  ASSUME IInv, WInv, Processing("TcpRead") \/ Processing("TcpWrite"), pc' \in Running,
         NEW t, NEW lost, NEW k \in Socket,
         t.index = My.index, t.backends = My.backends,
         t.readiness = [My.readiness EXCEPT ![Fd] = @ \ lost], t.missed = My.missed,
         session' = [session EXCEPT ![Me] = t], sock' = [sock EXCEPT ![Me][Fd] = k],
         UNCHANGED <<cur, batch, ready, conns, replies>>,
         Readable(Peer, Known(My, Fd), {}) => Readable(k, Known(My, Fd) \ lost, {}),
         Writable(Peer, Known(My, Fd), {}) => Writable(k, Known(My, Fd) \ lost, {}),
         t.state.tag = "TcpRead" => "r" \in t.interest[t.state.fd],
         t.state.tag = "TcpWrite" => "w" \in t.interest[t.state.fd],
         t.state.tag # "WaitingForBackendConnect"
  PROVE  WInv'
<1>1. /\ pc \in Running /\ Me \in Sess /\ My = session[Me] /\ My \in Session /\ Fd \in Index
      /\ sock \in [Sess -> [Index -> Socket]]
  BY AtCall
<1>2. PICK me \in Sess : me = Me BY <1>1
<1>3. PICK f \in Index : f = Fd BY <1>1
<1>4. /\ sock'[me][f] = k /\ \A i \in Index \ {f} : sock'[me][i] = sock[me][i]
      /\ \A s \in Sess \ {me} : sock'[s] = sock[s]
  BY <1>1, <1>2, <1>3
<1>5. /\ \A b \in Bits : b \in Known(My, f) \ lost => b \in Known(t, f)
      /\ \A i \in Index \ {f} : Known(t, i) = Known(My, i)
  BY <1>1, <1>3 DEF Session, Known
<1>6. Streams(me) \subseteq Index /\ t.backends \subseteq Index
  BY <1>1, <1>2 DEF Streams, Session
<1>7. Peer = sock[me][f] BY <1>2, <1>3 DEF Peer
<1>10. /\ Readable(k, Known(My, f) \ lost, {}) => Readable(k, Known(t, f), {})
       /\ Writable(k, Known(My, f) \ lost, {}) => Writable(k, Known(t, f), {})
  BY <1>5, KnowsMore
<1>8. \A i \in Streams(me) : Readable(sock[me][i], Known(My, i), {}) =>
                              Readable(sock'[me][i], Known(t, i), {})
  BY <1>3, <1>4, <1>5, <1>6, <1>7, <1>10
<1>9. \A i \in t.backends : Writable(sock[me][i], Known(My, i), {}) =>
                             Writable(sock'[me][i], Known(t, i), {})
  BY <1>3, <1>4, <1>5, <1>6, <1>7, <1>10
<1> QED BY <1>1, <1>2, <1>4, <1>8, <1>9, GoesOnWakes

LEMMA AnswerWakes ==
  ASSUME IInv, WInv, Processing("TcpRead") \/ Processing("TcpWrite"),
         NEW v, NEW g, NEW lost, NEW k \in Socket, Answer(v, g, k, lost),
         Readable(Peer, Known(My, Fd), {}) => Readable(k, Known(My, Fd) \ lost, {}),
         Writable(Peer, Known(My, Fd), {}) => Writable(k, Known(My, Fd) \ lost, {})
  PROVE  WInv'
<1>1. My \in Session BY AtCall
<1>2. PICK t : t = [My EXCEPT !.state = Executing, !.readiness[Fd] = @ \ lost] OBVIOUS
<1>3. /\ t.index = My.index /\ t.backends = My.backends /\ t.state = Executing
      /\ t.readiness = [My.readiness EXCEPT ![Fd] = @ \ lost] /\ t.missed = My.missed
  BY <1>1, <1>2 DEF Session
<1>4. /\ session' = [session EXCEPT ![Me] = t] /\ sock' = [sock EXCEPT ![Me][Fd] = k]
      /\ pc' \in Running /\ UNCHANGED <<cur, batch, ready, conns, replies>>
  BY <1>2 DEF Answer, Running
<1>5. t.state.tag = "Executing" BY <1>3, StateValues
<1> QED BY <1>3, <1>4, <1>5, CallWakes

\* What the calls make of a socket.
LEMMA CallSockets ==
  ASSUME NEW k \in Socket, NEW R, NEW n \in Nat
  PROVE  /\ "r" \in R /\ k.avail > 0 /\ n <= k.avail =>
              LET l == [k EXCEPT !.avail = @ - n] IN
              /\ l \in Socket
              /\ Readable(k, R, {}) => Readable(l, R, {})
              /\ Writable(k, R, {}) => Writable(l, R, {})
         /\ "w" \in R /\ k.phase = "open" /\ n <= k.space =>
              LET l == [k EXCEPT !.space = @ - n] IN
              /\ l \in Socket
              /\ Readable(k, R, {}) => Readable(l, R, {})
              /\ Writable(k, R, {}) => Writable(l, R, {})
         /\ LET l == [k EXCEPT !.phase = "dead"] IN
            /\ l \in Socket
            /\ Broken(k) /\ Readable(k, R, {}) => Readable(l, R, {})
            /\ Broken(k) /\ Writable(k, R, {}) => Writable(l, R, {})
         /\ k.avail = 0 /\ ~Failed(k) =>
              /\ Readable(k, R, {}) => Readable(k, R \ {"r"}, {})
              /\ Writable(k, R, {}) => Writable(k, R \ {"r"}, {})
         /\ ~Broken(k) /\ (k.phase # "open" \/ k.space = 0) =>
              LET l == [k EXCEPT !.full = TRUE] IN
              /\ l \in Socket
              /\ Readable(k, R, {}) => Readable(l, R \ {"w"}, {})
              /\ Writable(k, R, {}) => Writable(l, R \ {"w"}, {})
<1>1. ASSUME "r" \in R, k.avail > 0, n <= k.avail
      PROVE  LET l == [k EXCEPT !.avail = @ - n] IN
              /\ l \in Socket
              /\ Readable(k, R, {}) => Readable(l, R, {})
              /\ Writable(k, R, {}) => Writable(l, R, {})
  BY <1>1 DEF Socket, Readable, Writable, Failed, Broken
<1>2. ASSUME "w" \in R, k.phase = "open", n <= k.space
      PROVE  LET l == [k EXCEPT !.space = @ - n] IN
              /\ l \in Socket
              /\ Readable(k, R, {}) => Readable(l, R, {})
              /\ Writable(k, R, {}) => Writable(l, R, {})
  <2>1. PICK l : l = [k EXCEPT !.space = @ - n] OBVIOUS
  <2>2. k.space - n \in 0..MaxSpace BY <1>2, BoundsAssumption DEF Socket
  <2>3. /\ l \in Socket /\ l.avail = k.avail /\ l.phase = "open" /\ l.edge = k.edge
    BY <1>2, <2>1, <2>2 DEF Socket
  <2> QED BY <1>2, <2>1, <2>3 DEF Readable, Writable, Failed, Broken
<1>3. LET l == [k EXCEPT !.phase = "dead"] IN
        /\ l \in Socket
        /\ Broken(k) /\ Readable(k, R, {}) => Readable(l, R, {})
        /\ Broken(k) /\ Writable(k, R, {}) => Writable(l, R, {})
  BY DEF Socket, Readable, Writable, Failed, Broken
<1>4. k.avail = 0 /\ ~Failed(k) =>
              /\ Readable(k, R, {}) => Readable(k, R \ {"r"}, {})
              /\ Writable(k, R, {}) => Writable(k, R \ {"r"}, {})
  BY DEF Socket, Readable, Writable, Failed, Broken
<1>5. ~Broken(k) /\ (k.phase # "open" \/ k.space = 0) =>
              LET l == [k EXCEPT !.full = TRUE] IN
              /\ l \in Socket
              /\ Readable(k, R, {}) => Readable(l, R \ {"w"}, {})
              /\ Writable(k, R, {}) => Writable(l, R \ {"w"}, {})
  BY DEF Socket, Readable, Writable, Failed, Broken
<1> QED BY <1>1, <1>2, <1>3, <1>4, <1>5

LEMMA ReadsWake ==
  ASSUME IInv, WInv, ReadSome \/ ReadError \/ ReadNothing
  PROVE  WInv'
<1>1. Processing("TcpRead") /\ "r" \in Usable BY DEF ReadSome, ReadError, ReadNothing
<1>2. PICK k \in Socket : k = Peer BY <1>1, AtCall
<1>3. PICK R : R = Known(My, Fd) /\ "r" \in R /\ R \ {} = R BY <1>1 DEF Usable, Known
<1>4. CASE ReadSome
  <2>1. My.state.size \in Nat BY <1>1, AtCall, StateFields, SizesAssumption DEF Session, Processing
  <2>2. PICK n \in Nat : /\ n <= k.avail
                         /\ n = (IF k.avail < My.state.size THEN k.avail ELSE My.state.size)
    BY <2>1 DEF Socket
  <2>3. PICK l : l = [k EXCEPT !.avail = @ - n] OBVIOUS
  <2>4. Answer(n, MyGuest, l, {}) /\ k.avail > 0 BY <1>2, <1>4, <2>2, <2>3 DEF ReadSome
  <2>5. /\ l \in Socket
        /\ Readable(k, R, {}) => Readable(l, R, {})
        /\ Writable(k, R, {}) => Writable(l, R, {})
    BY <1>3, <2>2, <2>3, <2>4, CallSockets
  <2> QED BY <1>1, <1>2, <1>3, <2>4, <2>5, AnswerWakes
<1>5. CASE ReadError
  <2>1. PICK l : l = [k EXCEPT !.phase = "dead"] OBVIOUS
  <2>2. Answer(-1, MyGuest, l, {}) /\ Broken(k) BY <1>2, <1>5, <2>1 DEF ReadError, Broken
  <2>3. 0 \in Nat OBVIOUS
  <2>4. /\ l \in Socket
        /\ Readable(k, R, {}) => Readable(l, R, {})
        /\ Writable(k, R, {}) => Writable(l, R, {})
    BY <2>1, <2>2, <2>3, CallSockets
  <2> QED BY <1>1, <1>2, <1>3, <2>2, <2>4, AnswerWakes
<1>6. CASE ReadNothing
  <2>1. Answer(0, MyGuest, k, {"r"}) /\ k.avail = 0 /\ ~Failed(k)
    BY <1>2, <1>6 DEF ReadNothing
  <2>2. /\ Readable(k, R, {}) => Readable(k, R \ {"r"}, {})
        /\ Writable(k, R, {}) => Writable(k, R \ {"r"}, {})
    BY <2>1, CallSockets
  <2> QED BY <1>1, <1>2, <1>3, <2>1, <2>2, AnswerWakes
<1> QED BY <1>4, <1>5, <1>6

LEMMA WritesWake ==
  ASSUME IInv, WInv, WriteSome \/ WriteBlocks \/ WriteError
  PROVE  WInv'
<1>1. Processing("TcpWrite") /\ "w" \in Usable BY DEF WriteSome, WriteBlocks, WriteError
<1>2. PICK k \in Socket : k = Peer BY <1>1, AtCall
<1>3. PICK R : R = Known(My, Fd) /\ "w" \in R /\ R \ {} = R BY <1>1 DEF Usable, Known
<1>4. /\ My \in Session /\ My.state.tag = "TcpWrite" /\ Fd = My.state.fd
      /\ My.state.size \in Nat /\ My.state.written \in Nat
      /\ My.state = TcpWrite(Fd, My.state.size, My.state.written)
      /\ My.state.written < My.state.size \/ My.state.size = 0
      /\ "w" \in My.interest[Fd]
  BY <1>1, AtCall, StateFields, SizesAssumption
     DEF Session, Processing, SessInv, Fd, Usable
<1>5. CASE WriteSome
  <2> DEFINE room == My.state.size - My.state.written
  <2>8. My.state.written < My.state.size BY <1>4, <1>5 DEF WriteSome
  <2>1. PICK n \in Nat : /\ n <= k.space
                         /\ n = (IF k.space < room THEN k.space ELSE room)
    BY <1>4, <2>8, BoundsAssumption DEF Socket
  <2>2. PICK l : l = [k EXCEPT !.space = @ - n] OBVIOUS
  <2>3. PICK g : g = [MyGuest EXCEPT !.taken = @ + n] OBVIOUS
  <2>4. k.phase = "open" BY <1>2, <1>5 DEF WriteSome
  <2>5. /\ l \in Socket
        /\ Readable(k, R, {}) => Readable(l, R, {})
        /\ Writable(k, R, {}) => Writable(l, R, {})
    BY <1>3, <2>1, <2>2, <2>4, CallSockets
  <2>6. CASE n = room
    <3>1. Answer(My.state.size, g, l, {})
      BY <1>2, <1>5, <2>1, <2>2, <2>3, <2>6 DEF WriteSome
    <3> QED BY <1>1, <1>2, <1>3, <2>5, <3>1, AnswerWakes
  <2>7. CASE n # room
    <3>1. PICK t : t = [My EXCEPT !.state.written = @ + n] OBVIOUS
    <3>2. /\ session' = [session EXCEPT ![Me] = t]
          /\ sock' = [sock EXCEPT ![Me][Fd] = l]
          /\ pc' = "process" /\ UNCHANGED <<cur, batch, ready, conns, replies>>
      BY <1>2, <1>5, <2>1, <2>2, <2>7, <3>1 DEF WriteSome
    <3>3. t.state = [My.state EXCEPT !.written = @ + n] BY <1>4, <3>1 DEF Session
    <3>4. t.state.tag = "TcpWrite" /\ t.state.fd = Fd
      BY <1>4, <3>3 DEF TcpWrite
    <3>5. /\ t.index = My.index /\ t.backends = My.backends /\ t.interest = My.interest
          /\ t.readiness = My.readiness /\ t.missed = My.missed
      BY <1>4, <3>1 DEF Session
    <3>6. My.readiness = [My.readiness EXCEPT ![Fd] = @ \ {}]
      BY <1>4 DEF Session
    <3>7. pc' \in Running BY <3>2 DEF Running
    <3>8. t.readiness = [My.readiness EXCEPT ![Fd] = @ \ {}] BY <3>5, <3>6
    <3>9. t.state.tag = "TcpWrite" => "w" \in t.interest[t.state.fd]
      BY <1>4, <3>4, <3>5
    <3>10. t.state.tag # "TcpRead" /\ t.state.tag # "WaitingForBackendConnect" BY <3>4
    <3> QED BY <1>1, <1>2, <1>3, <2>5, <3>2, <3>5, <3>7, <3>8, <3>9, <3>10, CallWakes
  <2> QED BY <2>6, <2>7
<1>6. CASE WriteBlocks
  <2>1. PICK l : l = [k EXCEPT !.full = TRUE] OBVIOUS
  <2>2. PICK t : t = [My EXCEPT !.readiness[Fd] = @ \ {"w"}] OBVIOUS
  <2>3. /\ ~Broken(k) /\ (k.phase # "open" \/ k.space = 0)
        /\ session' = [session EXCEPT ![Me] = t]
        /\ pc' = "execute" /\ UNCHANGED <<cur, batch, ready, conns, replies>>
    BY <1>2, <1>6, <2>2 DEF WriteBlocks
  <2>4. sock' = [sock EXCEPT ![Me][Fd] = l]
    <3>1. sock' = [sock EXCEPT ![Me][Fd].full = TRUE] BY <1>6 DEF WriteBlocks
    <3>2. l = [sock[Me][Fd] EXCEPT !.full = TRUE] BY <1>2, <2>1 DEF Peer
    <3> QED BY <1>1, <3>1, <3>2, AtCall
  <2>5. /\ t.index = My.index /\ t.backends = My.backends /\ t.interest = My.interest
        /\ t.state = My.state
        /\ t.readiness = [My.readiness EXCEPT ![Fd] = @ \ {"w"}] /\ t.missed = My.missed
    BY <1>4, <2>2 DEF Session
  <2>6. 0 \in Nat OBVIOUS
  <2>7. /\ l \in Socket
        /\ Readable(k, R, {}) => Readable(l, R \ {"w"}, {})
        /\ Writable(k, R, {}) => Writable(l, R \ {"w"}, {})
    BY <2>1, <2>3, <2>6, CallSockets
  <2>8. pc' \in Running BY <2>3 DEF Running
  <2>9. /\ t.state.tag = "TcpWrite" => "w" \in t.interest[t.state.fd]
        /\ t.state.tag # "TcpRead" /\ t.state.tag # "WaitingForBackendConnect"
    BY <1>4, <2>5
  <2> QED BY <1>1, <1>2, <1>3, <2>3, <2>4, <2>5, <2>7, <2>8, <2>9, CallWakes
<1>7. CASE WriteError
  <2>1. PICK l : l = [k EXCEPT !.phase = "dead"] OBVIOUS
  <2>2. Answer(-1, MyGuest, l, {}) /\ Broken(k) BY <1>2, <1>7, <2>1 DEF WriteError
  <2>3. 0 \in Nat OBVIOUS
  <2>4. /\ l \in Socket
        /\ Readable(k, R, {}) => Readable(l, R, {})
        /\ Writable(k, R, {}) => Writable(l, R, {})
    BY <2>1, <2>2, <2>3, CallSockets
  <2> QED BY <1>1, <1>2, <1>3, <2>2, <2>4, AnswerWakes
<1> QED BY <1>5, <1>6, <1>7

\* A call of size 0 takes its bit from the readiness: what has been told stays the same.
LEMMA ZeroWakes ==
  ASSUME IInv, WInv, ReadZero \/ WriteZero
  PROVE  WInv'
<1>1. PICK tag \in {"TcpRead", "TcpWrite"}, bit \in Bits : NothingAsked(tag, bit)
  BY DEF ReadZero, WriteZero, Bits
<1>2. Processing("TcpRead") \/ Processing("TcpWrite") BY <1>1 DEF NothingAsked
<1>3. /\ pc \in Running /\ Me \in Sess /\ My = session[Me] /\ My \in Session /\ Fd \in Index
      /\ SessInv(My, MyGuest)
  BY <1>2, AtCall
<1>4. PICK me \in Sess, f \in Index : me = Me /\ f = Fd BY <1>3
<1>5. bit \in My.readiness[f] BY <1>1, <1>4 DEF NothingAsked, Usable
<1>6. f # My.index
  <2>1. My.state.fd \in My.backends
    BY <1>1, <1>3 DEF NothingAsked, Processing, SessInv, CallProtocol, Pending
  <2> QED BY <1>3, <1>4, <2>1 DEF SessInv, Fd
<1>7. PICK t : t = [My EXCEPT !.state = Executing, !.readiness[f] = @ \ {bit},
                              !.missed[f] = @ \cup {bit}]
  OBVIOUS
<1>8. /\ t.index = My.index /\ t.backends = My.backends /\ t.state = Executing
      /\ t.readiness = [My.readiness EXCEPT ![f] = @ \ {bit}]
      /\ t.missed = [My.missed EXCEPT ![f] = @ \cup {bit}]
  BY <1>3, <1>7 DEF Session
<1>9. /\ session' = [session EXCEPT ![Me] = t] /\ pc' \in Running
      /\ UNCHANGED <<cur, batch, ready, conns, replies, sock>>
  BY <1>1, <1>4, <1>7 DEF NothingAsked, netVars, Running
<1>10. t.missed[My.index] = My.missed[My.index] BY <1>3, <1>6, <1>8 DEF Session
<1>11. \A i \in Index : Known(t, i) = Known(My, i)
  BY <1>3, <1>5, <1>8 DEF Session, Known
<1>12. Streams(me) \subseteq Index /\ t.backends \subseteq Index
  BY <1>3, <1>4, <1>8 DEF Streams, Session
<1>13. t.state.tag = "Executing" BY <1>8, StateValues
<1>14. \A i \in Streams(me) : Readable(sock[me][i], Known(My, i), {}) =>
                               Readable(sock'[me][i], Known(t, i), {})
  BY <1>9, <1>11, <1>12
<1>15. \A i \in t.backends : Writable(sock[me][i], Known(My, i), {}) =>
                              Writable(sock'[me][i], Known(t, i), {})
  BY <1>9, <1>11, <1>12
<1>16. \A s \in Sess \ {me} : sock'[s] = sock[s] BY <1>9
<1> QED BY <1>3, <1>4, <1>8, <1>9, <1>10, <1>13, <1>14, <1>15, <1>16, GoesOnWakes

(***************************************************************************)
(* The peers.                                                              *)
(***************************************************************************)

\* A peer that gives the socket something to report raises its edge; one that makes
\* room does so for a writer that found none.
LEMMA PeerSockets ==
  ASSUME NEW k \in Socket, NEW l \in Socket, NEW R, NEW T,
         l.phase \notin {"none", "connecting"},
         l.phase = "open" => k.phase \in {"open", "connecting"},
         \/ l.edge /\ l.space = k.space /\ (k.phase = "open" => l.full = k.full)
         \/ /\ k.phase = "open" /\ l.phase = "open" /\ l.space = MaxSpace /\ l.avail = k.avail
            /\ k.edge \/ k.full => l.edge
  PROVE  /\ Readable(k, R, T) => Readable(l, R, T)
         /\ Writable(k, R, T) => Writable(l, R, T)
         /\ k.edge => l.edge
         /\ k.phase \in {"none", "connecting"} => l.edge
         /\ Writable(k, R, T) /\ (k.phase = "open" => k.space > 0) /\ l.phase = "open" =>
              l.space > 0
<1>1. MaxSpace > 0 BY BoundsAssumption
<1>2. /\ k.edge \in BOOLEAN /\ l.edge \in BOOLEAN /\ k.full \in BOOLEAN /\ l.full \in BOOLEAN
      /\ k.space \in Int /\ k.space >= 0 /\ l.space \in Int
  BY BoundsAssumption DEF Socket
<1>3. CASE l.edge /\ l.space = k.space /\ (k.phase = "open" => l.full = k.full)
  BY <1>2, <1>3 DEF Readable, Writable, Failed, Broken
<1>4. CASE /\ k.phase = "open" /\ l.phase = "open" /\ l.space = MaxSpace /\ l.avail = k.avail
           /\ k.edge \/ k.full => l.edge
  BY <1>1, <1>2, <1>4 DEF Readable, Writable, Failed, Broken
<1> QED BY <1>3, <1>4

LEMMA ChangeWakes ==
  ASSUME IInv, WInv, NEW s \in Sess, NEW i \in Index, NEW k, k = sock[s][i],
         NEW l \in Socket, Changes(s, i, l),
         l.phase \notin {"none", "connecting"},
         l.phase = "open" => k.phase \in {"open", "connecting"},
         \/ l.edge /\ l.space = k.space /\ (k.phase = "open" => l.full = k.full)
         \/ /\ k.phase = "open" /\ l.phase = "open" /\ l.space = MaxSpace /\ l.avail = k.avail
            /\ k.edge \/ k.full => l.edge
  PROVE  WInv'
<1>1. /\ sock' = [sock EXCEPT ![s][i] = l]
      /\ UNCHANGED <<pc, cur, batch, ready, conns, session, guest, replies>>
  BY DEF Changes, loopVars, sessVars
<1>2. LoopInv' BY <1>1 DEF WInv, LoopInv
<1>3. k \in Socket BY DEF IInv, TypeOK
<1>4. ASSUME NEW u \in Sess, Unanswered(u)' PROVE WakeInv(u)'
  <2>1. Unanswered(u) /\ session'[u] = session[u] /\ (Scheduled(u) => Scheduled(u)')
    BY <1>1, <1>4 DEF Unanswered, Alive, Scheduled
  <2>2. CASE u # s
    <3>1. sock'[u] = sock[u] BY <1>1, <2>2 DEF IInv, TypeOK
    <3> QED BY <1>1, <2>1, <3>1, Untouched DEF WInv
  <2>3. CASE u = s
    <3>1. WakeInv(s) /\ SessInv(session[s], guest[s])
      BY <2>1, <2>3 DEF WInv, IInv, LocalInv, Unanswered
    <3>2. sock'[s][i] = l /\ \A j \in Index \ {i} : sock'[s][j] = sock[s][j]
      BY <1>1 DEF IInv, TypeOK
    <3>3. /\ \A j : Told(s, j)' = Told(s, j) /\ (EventFor(s, j)' <=> EventFor(s, j))
          /\ Streams(s)' = Streams(s)
      BY <1>1 DEF Told, EventFor, Streams
    <3>4. Streams(s) \subseteq Index /\ session[s].backends \subseteq Streams(s)
      BY <3>1 DEF SessInv, Session, Streams
    <3>5. PICK R, T : R = Known(session[s], i) /\ T = Told(s, i) OBVIOUS
    <3>6. /\ Readable(k, R, T) => Readable(l, R, T)
          /\ Writable(k, R, T) => Writable(l, R, T)
          /\ k.edge => l.edge
          /\ k.phase \in {"none", "connecting"} => l.edge
          /\ Writable(k, R, T) /\ (k.phase = "open" => k.space > 0) /\ l.phase = "open" =>
               l.space > 0
      BY <1>3, PeerSockets
    <3>7. ASSUME NEW j \in Streams(s)'
          PROVE  Readable(sock'[s][j], Known(session'[s], j), Told(s, j)')
      <4>1. Readable(sock[s][j], Known(session[s], j), Told(s, j)) /\ j \in Index
        BY <3>1, <3>3, <3>4 DEF WakeInv
      <4>2. CASE j = i BY <1>1, <3>2, <3>3, <3>5, <3>6, <4>1, <4>2
      <4>3. CASE j # i BY <1>1, <3>2, <3>3, <4>1, <4>3
      <4> QED BY <4>2, <4>3
    <3>8. ASSUME NEW j \in session'[s].backends
          PROVE  Writable(sock'[s][j], Known(session'[s], j), Told(s, j)')
      <4>1. Writable(sock[s][j], Known(session[s], j), Told(s, j)) /\ j \in Index
        BY <1>1, <3>1, <3>4 DEF WakeInv
      <4>2. CASE j = i BY <1>1, <3>2, <3>3, <3>5, <3>6, <4>1, <4>2
      <4>3. CASE j # i BY <1>1, <3>2, <3>3, <4>1, <4>3
      <4> QED BY <4>2, <4>3
    <3>9. /\ session'[s].state.tag = "TcpRead" => Waits(s, "r")'
          /\ session'[s].state.tag = "TcpWrite" => Waits(s, "w")'
      BY <1>1, <2>1, <2>3, <3>1 DEF WakeInv, Waits
    <3>10. session[s].state.tag = "WaitingForBackendConnect" => Decided(s, session[s].state.fd)'
      <4> SUFFICES ASSUME session[s].state.tag = "WaitingForBackendConnect"
                   PROVE  Decided(s, session[s].state.fd)'
        OBVIOUS
      <4>1. session[s].state.fd \in session[s].backends
        BY <3>1 DEF SessInv, CallProtocol, Pending
      <4>2. PICK fd \in Index : fd = session[s].state.fd /\ fd \in session[s].backends
        BY <3>4, <4>1
      <4>3. Decided(s, fd) /\ Writable(sock[s][fd], Known(session[s], fd), Told(s, fd))
        BY <3>1, <4>2 DEF WakeInv
      <4>4. CASE fd = i
        <5>1. l.phase = "open" => l.space > 0
          BY <3>5, <3>6, <4>3, <4>4 DEF Decided
        <5>2. l.edge \/ EventFor(s, fd) BY <3>6, <4>3, <4>4 DEF Decided
        <5> QED BY <1>1, <3>2, <3>3, <4>2, <4>4, <5>1, <5>2 DEF Decided
      <4>5. CASE fd # i
        <5>1. sock'[s][fd] = sock[s][fd] BY <3>2, <4>5
        <5> QED BY <1>1, <3>3, <4>2, <4>3, <5>1 DEF Decided
      <4> QED BY <4>4, <4>5
    <3>11. session'[s] = session[s] BY <1>1
    <3> QED BY <2>3, <3>1, <3>7, <3>8, <3>9, <3>10, <3>11 DEF WakeInv, Known
  <2> QED BY <2>2, <2>3
<1> QED BY <1>2, <1>4 DEF WInv

LEMMA PeersWake ==
  ASSUME IInv, WInv, Peers
  PROVE  WInv'
<1>1. CASE ClientConnects
  <2>1. UNCHANGED <<pc, cur, batch, ready, conns, session, replies, sock>>
    BY <1>1 DEF ClientConnects, loopVars, sessVars
  <2>2. LoopInv' BY <2>1 DEF WInv, LoopInv
  <2> QED BY <2>1, <2>2, Frozen
<1>2. ASSUME NEW s \in Sess, NEW i \in Index,
             \/ PeerSends(s, i) \/ PeerCloses(s, i) \/ PeerResets(s, i)
             \/ PeerDrains(s, i) \/ ConnectDone(s, i) \/ ConnectFails(s, i)
      PROVE  WInv'
  <2>1. PICK k \in Socket : k = sock[s][i] BY DEF IInv, TypeOK
  <2>2. CASE PeerSends(s, i)
    <3>1. PICK n \in 1..Unsent(s, i) :
            Changes(s, i, [sock[s][i] EXCEPT !.avail = @ + n, !.edge = TRUE])
      BY <2>2 DEF PeerSends
    <3>2. PICK l : l = [k EXCEPT !.avail = @ + n, !.edge = TRUE] OBVIOUS
    <3>3. n \in Nat OBVIOUS
    <3>4. k.avail + n \in Nat BY <3>3 DEF Socket
    <3>5. /\ l \in Socket /\ l.phase = k.phase /\ l.edge /\ l.space = k.space /\ l.full = k.full
      BY <3>2, <3>4 DEF Socket
    <3>6. k.phase = "open" BY <2>1, <2>2 DEF PeerSends, Live
    <3> QED BY <2>1, <3>1, <3>2, <3>5, <3>6, ChangeWakes
  <2>3. CASE PeerCloses(s, i)
    <3>1. PICK l : l = [k EXCEPT !.eof = TRUE, !.edge = TRUE] OBVIOUS
    <3>2. /\ l \in Socket /\ l.phase = k.phase /\ l.edge /\ l.space = k.space /\ l.full = k.full
      BY <3>1 DEF Socket
    <3>3. k.phase = "open" /\ Changes(s, i, l) BY <2>1, <2>3, <3>1 DEF PeerCloses, Live
    <3> QED BY <2>1, <3>2, <3>3, ChangeWakes
  <2>4. CASE PeerResets(s, i)
    <3>1. PICK l : l = [k EXCEPT !.phase = "reset", !.edge = TRUE] OBVIOUS
    <3>2. /\ l \in Socket /\ l.phase = "reset" /\ l.edge /\ l.space = k.space /\ l.full = k.full
      BY <3>1 DEF Socket
    <3>3. Changes(s, i, l) BY <2>1, <2>4, <3>1 DEF PeerResets
    <3> QED BY <2>1, <3>2, <3>3, ChangeWakes
  <2>5. CASE PeerDrains(s, i)
    <3>1. PICK b \in {TRUE, FALSE} : b = (k.edge \/ k.full) OBVIOUS
    <3>2. PICK l : l = [k EXCEPT !.space = MaxSpace, !.full = FALSE, !.edge = b] OBVIOUS
    <3>3. MaxSpace \in 0..MaxSpace BY BoundsAssumption
    <3>4. /\ l \in Socket /\ l.phase = k.phase /\ l.edge = b /\ l.space = MaxSpace
          /\ l.avail = k.avail
      BY <3>2, <3>3 DEF Socket
    <3>5. k.phase = "open" /\ Changes(s, i, l)
      BY <2>1, <2>5, <3>1, <3>2 DEF PeerDrains, Live
    <3>6. k.edge \/ k.full => l.edge BY <3>1, <3>4
    <3> QED BY <2>1, <3>4, <3>5, <3>6, ChangeWakes
  <2>6. CASE ConnectDone(s, i)
    <3>1. PICK l : l = [k EXCEPT !.phase = "open", !.full = FALSE, !.edge = TRUE] OBVIOUS
    <3>2. /\ l \in Socket /\ l.phase = "open" /\ l.edge /\ l.space = k.space
      BY <3>1 DEF Socket
    <3>3. k.phase = "connecting" /\ Changes(s, i, l) BY <2>1, <2>6, <3>1 DEF ConnectDone
    <3> QED BY <2>1, <3>2, <3>3, ChangeWakes
  <2>7. CASE ConnectFails(s, i)
    <3>1. PICK l : l = [k EXCEPT !.phase = "refused", !.full = FALSE, !.edge = TRUE] OBVIOUS
    <3>2. /\ l \in Socket /\ l.phase = "refused" /\ l.edge /\ l.space = k.space
      BY <3>1 DEF Socket
    <3>3. k.phase = "connecting" /\ Changes(s, i, l) BY <2>1, <2>7, <3>1 DEF ConnectFails
    <3> QED BY <2>1, <3>2, <3>3, ChangeWakes
  <2> QED BY <1>2, <2>2, <2>3, <2>4, <2>5, <2>6, <2>7
<1> QED BY <1>1, <1>2 DEF Peers

(***************************************************************************)
(* The invariant.                                                          *)
(***************************************************************************)

LEMMA InitWakes ==
  ASSUME Init
  PROVE  WInv
<1>1. \A s \in Sess : ~Alive(s) BY DEF Init, Alive, Dropped
<1> QED BY <1>1 DEF Init, WInv, LoopInv, Unanswered

LEMMA StepWakes ==
  ASSUME IInv, IInv', WInv, [Next]_vars
  PROVE  WInv'
<1>1. CASE Poll BY <1>1, PollWakes
<1>2. CASE EventAccept BY <1>2, AcceptWakes
<1>3. ASSUME NEW e \in batch, Event(e) PROVE WInv' BY <1>3, EventWakes
<1>4. CASE Drain BY <1>4, DrainWakes
<1>5. CASE \/ EndEvents \/ EndDrain \/ ParsePartial \/ CreateInstance \/ InstantiatePanic
           \/ ResumeEmpty \/ GuestFault \/ ConnectPanic \/ ExecutedWhileConnecting
           \/ UNCHANGED vars
  BY <1>5, FrozenWakes
<1>6. CASE FrontReadable \/ FrontWritable BY <1>6, FrontWakes
<1>7. CASE ParseError \/ ParseComplete \/ NoRoute BY <1>7, RequestWakes
<1>8. CASE GuestConnects BY <1>8, ConnectWakes
<1>9. CASE GuestReads \/ GuestWrites \/ GuestReturns BY <1>9, GuestWakes
<1>10. CASE ReadParks \/ WriteParks \/ ConnectRefused BY <1>10, ParkWakes
<1>11. CASE ReadSome \/ ReadError \/ ReadNothing BY <1>11, ReadsWake
<1>12. CASE WriteSome \/ WriteBlocks \/ WriteError BY <1>12, WritesWake
<1>13. CASE Peers BY <1>13, PeersWake
<1>14. CASE ReadZero \/ WriteZero BY <1>14, ZeroWakes
<1> QED
  BY <1>1, <1>2, <1>3, <1>4, <1>5, <1>6, <1>7, <1>8, <1>9, <1>10, <1>11, <1>12, <1>13, <1>14
     DEF Next, Server

\* For calls of every size, a wake-up is only lost to a call of size 0
\* (NoLostWakeup): what a parked session waits for, once its socket has it, is in its
\* readiness, in an event not yet dispatched, or still to be reported by poll, unless
\* a call of size 0 has taken it from the readiness and no event has reported it
\* since; and a session that has it in its readiness is in the ready queue.
THEOREM WakeupsAreKept == Spec => []NoLostWakeup
<1>1. Init => WInv BY InitWakes
<1>2. IInv /\ IInv' /\ WInv /\ [Next]_vars => WInv' BY StepWakes
<1>3. IInv /\ WInv => NoLostWakeup BY Wakeup
<1> QED BY <1>1, <1>2, <1>3, Inductive, PTL DEF Spec

(***************************************************************************)
(* The thread sleeps only when nothing is left to do.                      *)
(***************************************************************************)

\* While its request is awaited, a session is interested in its client, and scheduled
\* once it knows of something to read.
AwaitsClient(s) ==
  LET t == session[s] IN
  /\ "r" \in t.interest[t.index]
  /\ "r" \in t.readiness[t.index] => Scheduled(s)

AskInv == \A s \in Sess : Unanswered(s) /\ session[s].state = Waiting => AwaitsClient(s)

QueueInv == pc = "poll" => ready = <<>>

\* At poll nobody is scheduled and no event is left: what a session waits for is an
\* edge, and the level of its socket is not empty.
LEMMA Sleep == IInv /\ WInv /\ AskInv /\ QueueInv => SleepsOnlyWhenIdle
<1> SUFFICES ASSUME IInv, WInv, AskInv, QueueInv, pc = "poll",
                    NEW s \in Sess, Alive(s), replies[s] = 0, NEW i \in Work(s)
             PROVE  Reported(s, i)
  BY DEF SleepsOnlyWhenIdle
<1> DEFINE t == session[s]
<1>1. WakeInv(s) /\ SessInv(t, guest[s]) /\ Unanswered(s)
  BY DEF WInv, Unanswered, IInv, LocalInv
<1>2. ~Scheduled(s)
  <2>1. cur = None /\ Len(ready) = 0 BY DEF QueueInv, WInv, LoopInv
  <2> QED BY <2>1 DEF Scheduled
<1>3. Told(s, i) = {} /\ ~EventFor(s, i)
  BY DEF WInv, LoopInv, Told, EventFor
<1>4. i \in Streams(s) /\ i \in Index /\ t \in Session
  BY <1>1 DEF Work, Streams, SessInv, Session
<1>5. PICK k \in Socket : k = sock[s][i] BY <1>4 DEF IInv, TypeOK
<1>6. PICK R : R = Known(t, i) OBVIOUS
<1>7. Readable(k, R, {}) /\ (i \in t.backends => Writable(k, R, {}))
  BY <1>1, <1>3, <1>4, <1>5, <1>6 DEF WakeInv
<1> HIDE DEF t
<1>8. CASE (k.avail > 0 \/ Failed(k)) /\ "r" \notin R
  <2>1. k.edge BY <1>7, <1>8 DEF Readable
  <2>2. "r" \in Level(k) BY <1>7, <1>8 DEF Readable, Level, Bits, Failed, Broken
  <2> QED BY <1>5, <2>1, <2>2 DEF Reported
<1>9. CASE "w" \in Level(k) /\ i \in t.backends /\ "w" \notin R
  <2>1. Broken(k) \/ (k.phase = "open" /\ k.space > 0)
    BY <1>9 DEF Level, Socket, Broken, Failed
  <2>2. k.edge BY <1>7, <1>9, <2>1 DEF Writable, Socket
  <2> QED BY <1>5, <1>9, <2>2 DEF Reported
<1>10. CASE t.state = Waiting /\ i = t.index /\ k.avail > 0
  <2>1. "r" \notin R BY <1>1, <1>2, <1>6, <1>10 DEF AskInv, AwaitsClient, WakeInv, Known, t
  <2> QED BY <1>8, <1>10, <2>1
<1>11. CASE t.state.tag = "TcpRead" /\ i = t.state.fd /\ (k.avail > 0 \/ Failed(k))
             /\ "r" \notin t.missed[i]
  <2>1. "r" \notin R BY <1>1, <1>2, <1>6, <1>11 DEF WakeInv, Waits, Known, t
  <2> QED BY <1>8, <1>11, <2>1
<1>12. CASE t.state.tag = "TcpWrite" /\ i = t.state.fd /\ "w" \in Level(k)
             /\ "w" \notin t.missed[i]
  <2>1. "w" \notin R BY <1>1, <1>2, <1>6, <1>12 DEF WakeInv, Waits, Known, t
  <2>2. i \in t.backends BY <1>1, <1>12 DEF SessInv, CallProtocol, Pending
  <2> QED BY <1>9, <1>12, <2>1, <2>2
<1>13. CASE t.state = Connecting(i) /\ k.phase # "connecting"
  <2>1. t.state.tag = "WaitingForBackendConnect" /\ t.state.fd = i
    BY <1>4, <1>13, StateValues
  <2>2. Decided(s, i) BY <1>1, <2>1 DEF WakeInv, t
  <2>3. k.phase # "none" /\ (k.phase = "open" => k.space > 0) /\ k.edge
    BY <1>3, <1>5, <1>13, <2>2 DEF Decided
  <2>4. "w" \in Level(k) BY <1>13, <2>3 DEF Level, Bits, Broken, Failed, Socket
  <2> QED BY <1>5, <2>3, <2>4 DEF Reported
<1> QED BY <1>5, <1>10, <1>11, <1>12, <1>13 DEF Work, t

\* The thread only goes back to poll with an empty queue.
LEMMA QueueStep ==
  ASSUME IInv, QueueInv, [Next]_vars
  PROVE  QueueInv'
<1>1. CASE EndDrain BY <1>1 DEF EndDrain, QueueInv
<1>2. CASE Poll \/ EventAccept \/ (\E e \in batch : Event(e)) \/ EndEvents \/ Drain
  BY <1>2 DEF Poll, EventAccept, Event, EndEvents, Drain, QueueInv
<1>3. CASE FrontReadable \/ FrontWritable \/ ParseError \/ NoRoute
  BY <1>3 DEF FrontReadable, FrontWritable, ParseError, NoRoute, Close, Panic, QueueInv
<1>4. CASE ParsePartial \/ ParseComplete \/ CreateInstance \/ GuestConnects \/ ConnectRefused
           \/ GuestReads \/ GuestWrites \/ GuestReturns \/ ReadParks \/ WriteParks
  BY <1>4 DEF ParsePartial, ParseComplete, CreateInstance, GuestConnects, ConnectRefused,
              GuestReads, GuestWrites, GuestReturns, ReadParks, WriteParks, Park, QueueInv
<1>5. CASE InstantiatePanic \/ ResumeEmpty \/ GuestFault \/ ConnectPanic \/ ExecutedWhileConnecting
  BY <1>5 DEF InstantiatePanic, ResumeEmpty, GuestFault, ConnectPanic,
              ExecutedWhileConnecting, Panic, QueueInv
<1>6. CASE ReadSome \/ ReadError \/ ReadNothing \/ ReadZero \/ WriteError \/ WriteZero
  BY <1>6 DEF ReadSome, ReadError, ReadNothing, ReadZero, WriteError, WriteZero, NothingAsked,
              Answer, QueueInv
<1>7. CASE WriteSome \/ WriteBlocks
  <2>1. pc' \in Running BY <1>7 DEF WriteSome, WriteBlocks, Answer, Running
  <2> QED BY <2>1 DEF QueueInv, Running
<1>8. CASE Peers \/ UNCHANGED vars
  <2>1. UNCHANGED loopVars
    BY <1>8 DEF Peers, ClientConnects, PeerSends, PeerCloses, PeerResets, PeerDrains,
                ConnectDone, ConnectFails, Changes, vars
  <2> QED BY <2>1 DEF loopVars, QueueInv
<1> QED BY <1>1, <1>2, <1>3, <1>4, <1>5, <1>6, <1>7, <1>8 DEF Next, Server

\* Nothing that AskInv speaks of has changed.
LEMMA AsksStill ==
  ASSUME AskInv, UNCHANGED <<session, cur, ready, conns, replies>>
  PROVE  AskInv'
<1>1. \A s \in Sess : /\ Unanswered(s)' <=> Unanswered(s)
                      /\ Scheduled(s)' <=> Scheduled(s)
  BY DEF Unanswered, Alive, Scheduled
<1> QED BY <1>1 DEF AskInv, AwaitsClient

\* A session other than the one that runs is scheduled by the queue, and stays there.
LEMMA OthersAsk ==
  ASSUME IInv, AskInv, pc \in Running, NEW s \in Sess, s # Me, Unanswered(s)',
         session'[s] = session[s], replies'[s] = replies[s], ready' = ready,
         \A i \in Index : conns[i] = s => conns'[i] = s, session[s].state = Waiting
  PROVE  AwaitsClient(s)'
<1>1. AwaitsClient(s) BY DEF AskInv, Unanswered, Alive
<1>2. Scheduled(s) => Scheduled(s)'
  <2> SUFFICES ASSUME Scheduled(s) PROVE Scheduled(s)' OBVIOUS
  <2>1. PICK n \in 1..Len(ready) : conns[ready[n]] = s BY DEF Scheduled, Me
  <2>2. ready[n] \in Index BY <2>1 DEF IInv, TypeOK
  <2> QED BY <2>1, <2>2 DEF Scheduled
<1> QED BY <1>1, <1>2 DEF AwaitsClient

\* The session that runs is left in another state.
LEMMA AskedAlready ==
  ASSUME IInv, AskInv, pc \in Running,
         NEW t, session' = [session EXCEPT ![Me] = t], t.state # Waiting,
         UNCHANGED <<ready, replies>>,
         \A i \in Index : conns[i] # None => conns'[i] = conns[i]
  PROVE  AskInv'
<1>1. PICK me \in Sess : me = Me BY MeAlive DEF IInv
<1>2. ASSUME NEW s \in Sess, Unanswered(s)', session'[s].state = Waiting
      PROVE  AwaitsClient(s)'
  <2>1. s # me BY <1>1, <1>2 DEF IInv, TypeOK
  <2>2. session'[s] = session[s] BY <1>1, <2>1 DEF IInv, TypeOK
  <2>3. \A i \in Index : conns[i] = s => conns'[i] = s BY SlabAssumption
  <2> QED BY <1>1, <1>2, <2>1, <2>2, <2>3, OthersAsk
<1> QED BY <1>2 DEF AskInv

LEMMA CloseAsks ==
  ASSUME IInv, IInv', AskInv, pc \in Running,
         NEW t, t.index = My.index, t.backends = My.backends, NEW n, Close(t, n)
  PROVE  AskInv'
<1>1. PICK me \in Sess : me = Me /\ cur \in Index BY MeAlive DEF IInv
<1>2. ~Unanswered(me)' BY <1>1, ClosedIsAnswered
<1>3. /\ conns' = [conns EXCEPT ![cur] = None] /\ ready' = ready
      /\ \A s \in Sess \ {me} : session'[s] = session[s] /\ replies'[s] = replies[s]
  BY <1>1 DEF Close, IInv, TypeOK
<1>4. ASSUME NEW s \in Sess, Unanswered(s)', session'[s].state = Waiting
      PROVE  AwaitsClient(s)'
  <2>1. s # me BY <1>2, <1>4
  <2>2. \A i \in Index : conns[i] = s => conns'[i] = s
    BY <1>1, <1>3, <2>1 DEF Me, IInv, TypeOK
  <2> QED BY <1>1, <1>3, <1>4, <2>1, <2>2, OthersAsk
<1> QED BY <1>4 DEF AskInv

LEMMA AcceptAsks ==
  ASSUME IInv, AskInv, EventAccept
  PROVE  AskInv'
<1>1. UNCHANGED <<cur, ready, replies>> BY DEF EventAccept
<1>2. CASE UNCHANGED <<conns, session>> BY <1>1, <1>2, AsksStill
<1>3. CASE ~UNCHANGED <<conns, session>>
  <2>1. PICK i \in Index, u \in Sess :
          /\ conns[i] = None
          /\ conns' = [conns EXCEPT ![i] = u]
          /\ session' = [session EXCEPT ![u] = NewSession(i)]
    BY <1>3 DEF EventAccept
  <2>2. ASSUME NEW s \in Sess, Unanswered(s)', session'[s].state = Waiting
        PROVE  AwaitsClient(s)'
    <3>1. CASE s = u
      <4>1. session'[s] = NewSession(i) BY <2>1, <3>1 DEF IInv, TypeOK
      <4> QED BY <4>1 DEF AwaitsClient, NewSession
    <3>2. CASE s # u
      <4>1. session'[s] = session[s] BY <2>1, <3>2 DEF IInv, TypeOK
      <4>2. AwaitsClient(s) BY <1>1, <2>2, <4>1 DEF AskInv, Unanswered, Alive
      <4>3. \A j \in Index : conns[j] = s => conns'[j] = s
        BY <2>1, SlabAssumption DEF IInv, TypeOK
      <4>4. Scheduled(s) => Scheduled(s)'
        <5>1. \A n \in 1..Len(ready) : ready[n] \in Index BY DEF IInv, TypeOK
        <5>2. cur # None => cur \in Index BY DEF IInv, TypeOK
        <5> QED BY <1>1, <4>3, <5>1, <5>2 DEF Scheduled
      <4> QED BY <4>1, <4>2, <4>4 DEF AwaitsClient
    <3> QED BY <3>1, <3>2
  <2> QED BY <2>2 DEF AskInv
<1> QED BY <1>2, <1>3

\* A bit that is added to what the session of the token knows puts it in the queue.
LEMMA EventAsks ==
  ASSUME IInv, AskInv, NEW e \in batch, Event(e)
  PROVE  AskInv'
<1> DEFINE i == e.index
           u == conns[i]
<1>1. e \in SocketEvent /\ i \in Index /\ UNCHANGED <<cur, conns, replies>>
  BY DEF IInv, TypeOK, SocketEvent, Event
<1>2. CASE session' = session /\ ready' = ready BY <1>1, <1>2, AsksStill
<1>3. CASE /\ u \in Sess /\ session' = [session EXCEPT ![u] = Noted(u, i, e.mask)]
           /\ ready' = IF Wakes(Noted(u, i, e.mask), i) THEN Append(ready, i) ELSE ready
  <2>1. ASSUME NEW s \in Sess, Unanswered(s)', session'[s].state = Waiting
        PROVE  AwaitsClient(s)'
    <3>1. Scheduled(s) => Scheduled(s)' BY <1>1, <1>3, QueueGrows
    <3>2. CASE s # u
      <4>1. session'[s] = session[s] BY <1>3, <3>2 DEF IInv, TypeOK
      <4>2. AwaitsClient(s) BY <1>1, <2>1, <4>1 DEF AskInv, Unanswered, Alive
      <4> QED BY <3>1, <4>1, <4>2 DEF AwaitsClient
    <3>3. CASE s = u
      <4>1. session'[s] = Noted(s, i, e.mask) BY <1>3, <3>3 DEF IInv, TypeOK
      <4>2. session[s] \in Session
        BY <1>1, <3>3, SlabAssumption DEF IInv, SlabInv, LocalInv, SessInv
      <4>3. PICK t \in Session : t = session[s] BY <4>2
      <4>4. PICK l : l = Noted(s, i, e.mask) OBVIOUS
      <4>5. /\ l.index = t.index /\ l.interest = t.interest
            /\ l.readiness = [t.readiness EXCEPT ![i] = @ \cup e.mask]
            /\ l.state = t.state \/ l.state = Executing
        BY <4>3, <4>4 DEF Noted, Session
      <4>6. t.state = Waiting BY <2>1, <4>1, <4>4, <4>5, StateValues
      <4>7. AwaitsClient(s)
        BY <1>1, <2>1, <4>1, <4>3, <4>4, <4>5, <4>6 DEF AskInv, Unanswered, Alive
      <4>8. t.index \in Index /\ t.readiness \in [Index -> SUBSET Bits] BY DEF Session
      <4>9. ASSUME "r" \in l.readiness[t.index] PROVE Scheduled(s)'
        <5>1. CASE t.index = i
          <6>1. Wakes(l, i) BY <4>3, <4>5, <4>7, <4>9, <5>1 DEF Wakes, AwaitsClient
          <6>2. ready' = Append(ready, i) BY <1>3, <3>3, <4>4, <6>1
          <6> QED BY <1>1, <3>3, <6>2, QueueGrows
        <5>2. CASE t.index # i
          <6>1. "r" \in t.readiness[t.index] BY <4>5, <4>8, <4>9, <5>2
          <6> QED BY <3>1, <4>3, <4>7, <6>1 DEF AwaitsClient
        <5> QED BY <5>1, <5>2
      <4>10. "r" \in l.interest[l.index] BY <4>3, <4>5, <4>7 DEF AwaitsClient
      <4>11. session'[s] = l BY <4>1, <4>4
      <4> QED BY <4>5, <4>9, <4>10, <4>11 DEF AwaitsClient
    <3> QED BY <3>2, <3>3
  <2> QED BY <2>1 DEF AskInv
<1> QED BY <1>1, <1>2, <1>3, Zenon DEF Event, IInv, TypeOK

LEMMA FrontAsks ==
  ASSUME IInv, IInv', AskInv, FrontReadable
  PROVE  AskInv'
<1>1. pc \in Running BY DEF FrontReadable, AtFrontReadable, Running
<1>2. My.state = Waiting BY ReadsWaiting DEF FrontReadable
<1>3. CASE Close(My, 0) BY <1>1, <1>3, CloseAsks
<1>4. CASE ~Close(My, 0)
  <2>1. PICK me \in Sess : me = Me /\ My = session[me] /\ My \in Session
    BY <1>1, MeAlive DEF IInv
  <2>2. /\ \A s \in Sess \ {me} : session'[s] = session[s]
        /\ session'[me].index = My.index /\ session'[me].interest = My.interest
        /\ session'[me].state = Waiting
        /\ UNCHANGED <<cur, ready, conns, replies>>
    <3> DEFINE k    == sock[Me][My.index]
               room == BufLen - My.buffered
    <3>1. PICK t : t = [My EXCEPT
                    !.buffered = @ + (IF k.avail < room THEN k.avail ELSE room),
                    !.readiness[My.index] = IF k.avail < room THEN @ \ {"r"} ELSE @]
      OBVIOUS
    <3>2. session' = [session EXCEPT ![Me] = t] /\ UNCHANGED <<cur, ready, conns, replies>>
      BY <1>2, <1>4, <3>1 DEF FrontReadable
    <3>3. t.index = My.index /\ t.interest = My.interest /\ t.state = My.state
      BY <2>1, <3>1 DEF Session
    <3> QED BY <1>2, <2>1, <3>2, <3>3 DEF IInv, TypeOK
  <2>3. cur \in Index /\ Scheduled(me)'
    BY <1>1, <2>1, <2>2, MeAlive, SlabAssumption DEF IInv, Scheduled, Me
  <2>4. ASSUME NEW s \in Sess, Unanswered(s)', session'[s].state = Waiting
        PROVE  AwaitsClient(s)'
    <3>1. CASE s = me
      <4>1. AwaitsClient(me)
        BY <1>2, <2>1, <2>2, <2>4, <3>1 DEF AskInv, Unanswered, Alive
      <4> QED BY <2>1, <2>2, <2>3, <3>1, <4>1 DEF AwaitsClient
    <3>2. CASE s # me BY <1>1, <2>1, <2>2, <2>4, <3>2, OthersAsk
    <3> QED BY <3>1, <3>2
  <2> QED BY <2>4 DEF AskInv
<1> QED BY <1>3, <1>4

LEMMA DrainAsks ==
  ASSUME IInv, WInv, AskInv, Drain
  PROVE  AskInv'
<1>1. UNCHANGED <<session, replies>> BY DEF Drain, sessVars
<1>2. ASSUME NEW s \in Sess, Unanswered(s)', session'[s].state = Waiting
      PROVE  AwaitsClient(s)'
  <2>1. AwaitsClient(s) BY <1>1, <1>2 DEF AskInv, Unanswered, Alive
  <2>2. Scheduled(s) => Scheduled(s)' BY DrainSchedules
  <2> QED BY <1>1, <2>1, <2>2 DEF AwaitsClient
<1> QED BY <1>2 DEF AskInv

LEMMA CallAsks ==
  ASSUME IInv, AskInv,
         \/ ReadSome \/ ReadError \/ ReadNothing \/ ReadZero
         \/ WriteSome \/ WriteBlocks \/ WriteError \/ WriteZero
  PROVE  AskInv'
<1>1. Processing("TcpRead") \/ Processing("TcpWrite")
  BY DEF ReadSome, ReadError, ReadNothing, ReadZero, WriteSome, WriteBlocks, WriteError,
         WriteZero, NothingAsked
<1>2. pc \in Running /\ My \in Session /\ My.state # Waiting
  BY <1>1, AtCall, StateValues DEF Processing
<1>3. PICK t : /\ session' = [session EXCEPT ![Me] = t] /\ t.state # Waiting
               /\ UNCHANGED <<ready, conns, replies>>
  <2>1. ASSUME NEW v, NEW g, NEW k, NEW lost, Answer(v, g, k, lost)
        PROVE  \E t : /\ session' = [session EXCEPT ![Me] = t] /\ t.state # Waiting
                      /\ UNCHANGED <<ready, conns, replies>>
    <3>1. PICK t : t = [My EXCEPT !.state = Executing, !.readiness[Fd] = @ \ lost] OBVIOUS
    <3>2. t.state = Executing BY <1>2, <3>1 DEF Session
    <3>3. t.state # Waiting BY <3>2, StateValues
    <3>4. session' = [session EXCEPT ![Me] = t] /\ UNCHANGED <<ready, conns, replies>>
      BY <2>1, <3>1 DEF Answer
    <3> QED BY <3>3, <3>4
  <2>2. CASE ReadSome \/ ReadError \/ ReadNothing \/ WriteError
    BY <2>1, <2>2 DEF ReadSome, ReadError, ReadNothing, WriteError
  <2>3. CASE WriteBlocks
    <3>1. PICK t : t = [My EXCEPT !.readiness[Fd] = @ \ {"w"}] OBVIOUS
    <3>2. t.state = My.state BY <1>2, <3>1 DEF Session
    <3> QED BY <1>2, <2>3, <3>1, <3>2 DEF WriteBlocks
  <2>4. CASE WriteSome
    <3>1. CASE \E v, g, k, lost : Answer(v, g, k, lost) BY <2>1, <3>1
    <3>2. CASE \A v, g, k, lost : ~Answer(v, g, k, lost)
      <4>1. PICK n : /\ session' = [session EXCEPT ![Me] = [My EXCEPT !.state.written = n]]
                     /\ UNCHANGED <<ready, conns, replies>>
        BY <2>4, <3>2 DEF WriteSome
      <4>2. PICK t : t = [My EXCEPT !.state.written = n] OBVIOUS
      <4>3. My.state = TcpWrite(Fd, My.state.size, My.state.written)
        BY <1>2, <2>4, StateFields DEF WriteSome, Processing, Session, Fd
      <4>4. t.state = [My.state EXCEPT !.written = n] BY <1>2, <4>2 DEF Session
      <4>5. t.state.tag = "TcpWrite" BY <4>3, <4>4 DEF TcpWrite
      <4> QED BY <4>1, <4>2, <4>5, StateValues
    <3> QED BY <3>1, <3>2
  <2>5. CASE ReadZero \/ WriteZero
    <3>1. PICK tag, bit : NothingAsked(tag, bit) BY <2>5 DEF ReadZero, WriteZero
    <3>2. PICK t : t = [My EXCEPT !.state = Executing, !.readiness[Fd] = @ \ {bit},
                                  !.missed[Fd] = @ \cup {bit}]
      OBVIOUS
    <3>3. t.state = Executing BY <1>2, <3>2 DEF Session
    <3>4. t.state # Waiting BY <3>3, StateValues
    <3> QED BY <3>1, <3>2, <3>4 DEF NothingAsked
  <2> QED BY <2>2, <2>3, <2>4, <2>5
<1> QED BY <1>2, <1>3, AskedAlready

\* The guest runs, or the session is left as it is.
LEMMA GuestAsks ==
  ASSUME IInv, AskInv,
         \/ ParseComplete \/ GuestConnects \/ ConnectRefused
         \/ GuestReads \/ GuestWrites \/ GuestReturns \/ ReadParks \/ WriteParks
  PROVE  AskInv'
<1>1. /\ pc \in Running
      /\ My.state.tag \in {"WaitingForRequest", "Executing", "TcpRead", "TcpWrite"}
  BY DEF ParseComplete, GuestConnects, ConnectRefused, GuestReads, GuestWrites, GuestReturns,
         ReadParks, WriteParks, Park, GuestCalls, GuestRuns, Processing, AtProcess, Running
<1>2. PICK me \in Sess : me = Me /\ My = session[me] /\ My \in Session
  BY <1>1, MeAlive DEF IInv
<1>3. CASE ParseComplete
  <2>1. PICK t : t = [My EXCEPT !.state = Executing, !.interest[My.index] = @ \ {"r"}]
    OBVIOUS
  <2>2. t.state = Executing BY <1>2, <2>1 DEF Session
  <2>3. t.state # Waiting BY <2>2, StateValues
  <2>4. session' = [session EXCEPT ![Me] = t] /\ UNCHANGED <<ready, conns, replies>>
    BY <1>3, <2>1 DEF ParseComplete
  <2> QED BY <1>1, <2>3, <2>4, AskedAlready
<1>4. CASE GuestReads
  <2>1. PICK i \in My.backends, n \in Sizes :
          session' = [session EXCEPT
            ![Me] = [My EXCEPT !.state = TcpRead(i, n), !.interest[i] = @ \cup {"r"}]]
    BY <1>4 DEF GuestReads
  <2>2. PICK t : t = [My EXCEPT !.state = TcpRead(i, n), !.interest[i] = @ \cup {"r"}]
    OBVIOUS
  <2>3. t.state = TcpRead(i, n) /\ i \in Index BY <1>2, <2>2 DEF Session
  <2>4. UNCHANGED <<ready, conns, replies>> BY <1>4 DEF GuestReads
  <2>5. t.state # Waiting BY <2>3, StateValues
  <2> QED BY <1>1, <2>1, <2>2, <2>4, <2>5, AskedAlready
<1>5. CASE GuestWrites
  <2>1. PICK i \in My.backends, n \in Sizes :
          session' = [session EXCEPT
            ![Me] = [My EXCEPT !.state = TcpWrite(i, n, 0), !.interest[i] = @ \cup {"w"}]]
    BY <1>5 DEF GuestWrites
  <2>2. PICK t : t = [My EXCEPT !.state = TcpWrite(i, n, 0), !.interest[i] = @ \cup {"w"}]
    OBVIOUS
  <2>3. t.state = TcpWrite(i, n, 0) /\ i \in Index BY <1>2, <2>2 DEF Session
  <2>4. UNCHANGED <<ready, conns, replies>> BY <1>5 DEF GuestWrites
  <2>5. t.state # Waiting BY <2>3, StateValues
  <2> QED BY <1>1, <2>1, <2>2, <2>4, <2>5, AskedAlready
<1>6. CASE GuestConnects
  <2>1. PICK i \in Index : /\ conns[i] = None
                           /\ conns' = [conns EXCEPT ![i] = Me]
                           /\ session' = [session EXCEPT ![Me] = AddBackend(@, i)]
    BY <1>6 DEF GuestConnects
  <2>2. PICK t : t = AddBackend(My, i) OBVIOUS
  <2>3. t.state = Connecting(i) BY <1>2, <2>2 DEF AddBackend, Session
  <2>4. session' = [session EXCEPT ![Me] = t] /\ t.state # Waiting
    BY <1>2, <2>1, <2>2, <2>3, StateValues
  <2>5. \A j \in Index : conns[j] # None => conns'[j] = conns[j]
    BY <2>1 DEF IInv, TypeOK
  <2>6. UNCHANGED <<ready, replies>> BY <1>6 DEF GuestConnects
  <2> QED BY <1>1, <2>4, <2>5, <2>6, AskedAlready
<1>7. CASE GuestReturns
  <2>1. My.state # Waiting
    BY <1>7, StateValues DEF GuestReturns, GuestRuns, Processing
  <2>2. PICK b : session' = [session EXCEPT ![Me] = [My EXCEPT !.interest[My.index] = b]]
    BY <1>7 DEF GuestReturns
  <2>3. PICK t : t = [My EXCEPT !.interest[My.index] = b] OBVIOUS
  <2>4. t.state = My.state BY <1>2, <2>3 DEF Session
  <2>5. UNCHANGED <<ready, conns, replies>> BY <1>7 DEF GuestReturns
  <2> QED BY <1>1, <2>1, <2>2, <2>3, <2>4, <2>5, AskedAlready
<1>8. CASE ConnectRefused \/ ReadParks \/ WriteParks
  <2>1. My.state # Waiting
    BY <1>8, StateValues DEF ConnectRefused, GuestCalls, GuestRuns, ReadParks, WriteParks, Park, Processing
  <2>2. session' = [session EXCEPT ![Me] = My]
    BY <1>2, <1>8 DEF ConnectRefused, ReadParks, WriteParks, Park, sessVars, IInv, TypeOK
  <2>3. UNCHANGED <<ready, conns, replies>>
    BY <1>8 DEF ConnectRefused, ReadParks, WriteParks, Park, sessVars
  <2> QED BY <1>1, <2>1, <2>2, <2>3, AskedAlready
<1> QED BY <1>3, <1>4, <1>5, <1>6, <1>7, <1>8

LEMMA AskStep ==
  ASSUME IInv, IInv', WInv, AskInv, [Next]_vars
  PROVE  AskInv'
<1>1. CASE \/ Poll \/ EndEvents \/ EndDrain \/ ParsePartial \/ CreateInstance \/ InstantiatePanic
           \/ ResumeEmpty \/ GuestFault \/ ConnectPanic \/ ExecutedWhileConnecting
  BY <1>1, AsksStill
     DEF Poll, EndEvents, EndDrain, ParsePartial, CreateInstance, InstantiatePanic, ResumeEmpty,
         GuestFault, ConnectPanic, ExecutedWhileConnecting, Panic, sessVars
<1>2. CASE Peers \/ UNCHANGED vars
  <2>1. UNCHANGED <<session, cur, ready, conns, replies>>
    BY <1>2 DEF Peers, ClientConnects, PeerSends, PeerCloses, PeerResets, PeerDrains,
                ConnectDone, ConnectFails, Changes, vars, loopVars, sessVars
  <2> QED BY <2>1, AsksStill
<1>3. CASE EventAccept BY <1>3, AcceptAsks
<1>4. ASSUME NEW e \in batch, Event(e) PROVE AskInv' BY <1>4, EventAsks
<1>5. CASE Drain BY <1>5, DrainAsks
<1>6. CASE FrontReadable BY <1>6, FrontAsks
<1>7. CASE FrontWritable
  <2>1. pc \in Running /\ Close(My, 1) BY <1>7, WritesResponse
  <2> QED BY <2>1, CloseAsks
<1>8. CASE ParseError \/ NoRoute
  <2>1. pc \in Running BY <1>8 DEF ParseError, NoRoute, Processing, AtProcess, Running
  <2>2. My \in Session BY <2>1, MeAlive DEF IInv
  <2>3. PICK t : t = [My EXCEPT !.interest[My.index] = {}] OBVIOUS
  <2>4. t.index = My.index /\ t.backends = My.backends BY <2>2, <2>3 DEF Session
  <2> QED BY <1>8, <2>1, <2>3, <2>4, CloseAsks DEF ParseError, NoRoute
<1>9. CASE \/ ParseComplete \/ GuestConnects \/ ConnectRefused \/ GuestReads \/ GuestWrites
           \/ GuestReturns \/ ReadParks \/ WriteParks
  BY <1>9, GuestAsks
<1>10. CASE \/ ReadSome \/ ReadError \/ ReadNothing \/ ReadZero
            \/ WriteSome \/ WriteBlocks \/ WriteError \/ WriteZero
  BY <1>10, CallAsks
<1> QED
  BY <1>1, <1>2, <1>3, <1>4, <1>5, <1>6, <1>7, <1>8, <1>9, <1>10 DEF Next, Server

\* When the thread enters poll, what an unanswered session waits for and its socket
\* has is an edge that poll reports at once (SleepsOnlyWhenIdle), except what a call of
\* size 0 has taken from its readiness: on that the thread may sleep.
THEOREM NeverSleepsOnWork == Spec => []SleepsOnlyWhenIdle
<1>1. Init => WInv /\ AskInv /\ QueueInv
  <2> SUFFICES ASSUME Init PROVE WInv /\ AskInv /\ QueueInv OBVIOUS
  <2>1. \A s \in Sess : ~Alive(s) BY DEF Init, Alive, Dropped
  <2> QED BY <2>1, InitWakes DEF Init, AskInv, QueueInv, Unanswered
<1>2. IInv /\ IInv' /\ WInv /\ [Next]_vars => WInv' BY StepWakes
<1>3. IInv /\ IInv' /\ WInv /\ AskInv /\ [Next]_vars => AskInv' BY AskStep
<1>4. IInv /\ QueueInv /\ [Next]_vars => QueueInv' BY QueueStep
<1>5. IInv /\ WInv /\ AskInv /\ QueueInv => SleepsOnlyWhenIdle BY Sleep
<1> QED BY <1>1, <1>2, <1>3, <1>4, <1>5, Inductive, PTL DEF Spec

=============================================================================
