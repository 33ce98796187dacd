-------------------------- MODULE SyncServerProofs --------------------------
(***************************************************************************)
(* Proofs about SyncServer, for any backends, environment, sizes and       *)
(* bounds.  The descriptors are the indices of the slab (Descriptors), an  *)
(* open socket has exactly one (Owned), and a host function that blocks    *)
(* finds what it was called with (Blocked).                                *)
(***************************************************************************)
EXTENDS SyncServer, SequenceTheorems, TLAPS

Stages ==
  /\ pc # "done" => reply = None
  /\ pc \notin {"idle", "handler", "done"} => kind = "app"
  /\ pc \in {"idle", "handler"} => \A k \in Keys : guest.found[k] = {}
  /\ guest.said = prepared

Blocked ==
  /\ pc \in {"tcp_read", "tcp_write"} =>
       call.fd \in Fd /\ guest.fds[call.fd] # None /\ call.size \in Sizes
  /\ pc = "db_get" =>
       /\ call.key \in Keys /\ db[call.key] # None
       /\ call.size = Length(db[call.key]) /\ call.size > 0

Descriptors ==
  pc # "done" =>
    /\ Len(connections) <= Capacity
    /\ \A fd \in Fd :
         /\ fd < Len(connections) => guest.fds[fd] = connections[fd + 1]
         /\ ~(fd < Len(connections)) =>
              guest.fds[fd] = None /\ guest.got[fd] = 0 /\ guest.gave[fd] = 0
         /\ guest.fds[fd] # None => sock[guest.fds[fd]].phase = "open"

Owned ==
  \A c \in Conn :
    /\ sock[c].phase = "open" =>
         /\ pc # "done"
         /\ \E fd \in Fd : guest.fds[fd] = c /\ \A e \in Fd : guest.fds[e] = c => e = fd
    /\ sock[c].phase = "closed" => \A fd \in Fd : guest.fds[fd] # c

Streams == Descriptors /\ Owned /\ StreamsIntact

IInv == TypeOK /\ Stages /\ Blocked /\ Streams /\ DbGetExact /\ ReplyIsPrepared

----------------------------------------------------------------------------
(* Values.                                                                 *)

\* The length of a value is its last boundary.
LEMMA LengthIs ==
  ASSUME NEW v \in Values
  PROVE  Length(v) \in Nat /\ Length(v) \in v /\ v \subseteq 0..Length(v)
<1>1. \E n \in v : v \subseteq 0..n
  BY ValueAssumption
<1>2. Length(v) \in v /\ v \subseteq 0..Length(v)
  BY <1>1 DEF Length
<1>3. Length(v) \in 0..Length(v)
  BY <1>2
<1> QED  BY <1>2, <1>3

\* A buffer of the full length gets the whole value, and an empty value is {0}.
LEMMA DbGetIs ==
  ASSUME TypeOK, NEW k \in Keys, NEW n \in Nat
  PROVE  /\ db[k] = None => DbGet(k, n).result = -1
         /\ db[k] # None =>
              /\ db[k] \in Values
              /\ DbGet(k, n).result = Length(db[k]) /\ Length(db[k]) \in Nat
              /\ n = Length(db[k]) => DbGet(k, n).written = db[k]
              /\ Length(db[k]) = 0 => db[k] = {0}
<1>1. CASE db[k] = None
  BY <1>1 DEF DbGet
<1>2. CASE db[k] # None
  <2>1. db[k] \in Values
    BY <1>2 DEF TypeOK
  <2> DEFINE v == db[k]
  <2>2. Length(v) \in Nat /\ v \subseteq 0..Length(v) /\ 0 \in v
    BY <2>1, LengthIs, ValueAssumption
  <2>3. DbGet(k, n).result = Length(v) /\ DbGet(k, n).written = {m \in v : m <= n}
    BY <1>2 DEF DbGet
  <2>4. n = Length(v) => {m \in v : m <= n} = v
    BY <2>2
  <2>5. Length(v) = 0 => v = {0}
    BY <2>2
  <2> QED  BY <1>2, <2>1, <2>2, <2>3, <2>4, <2>5
<1> QED  BY <1>1, <1>2

----------------------------------------------------------------------------
(* Steps.                                                                  *)

LEMMA InitOK == Init => IInv
<1> SUFFICES ASSUME Init PROVE IInv
  OBVIOUS
<1> USE SlabAssumption, BoundAssumption DEF Init
<1>1. NewGuest \in Guest
  BY DEF NewGuest, Guest, Fd, Empty, Response
<1>2. NewSocket("closed") \in Socket /\ NewSocket("closed").phase = "closed"
  BY DEF NewSocket, Socket
<1>3. TypeOK
  BY <1>1, <1>2 DEF TypeOK, Empty, Response
<1>4. \A fd \in Fd : guest.fds[fd] = None /\ guest.got[fd] = 0 /\ guest.gave[fd] = 0
  BY DEF NewGuest
<1>5. Stages /\ Blocked /\ DbGetExact /\ ReplyIsPrepared
  BY DEF Stages, Blocked, DbGetExact, ReplyIsPrepared, NewGuest
<1>6. Streams
  BY <1>2, <1>4 DEF Streams, Descriptors, Owned, StreamsIntact, Fd
<1> QED  BY <1>3, <1>5, <1>6 DEF IInv

\* A step that no connection takes part in.
LEMMA Quiet ==
  ASSUME Streams, pc # "done", pc' # "done", connections' = connections, sock' = sock,
         guest'.fds = guest.fds, guest'.got = guest.got, guest'.gave = guest.gave
  PROVE  Streams'
  BY DEF Streams, Descriptors, Owned, StreamsIntact

\* The handler ends with the reply r.
LEMMA EndsOK ==
  ASSUME IInv, pc # "done", NEW r \in Reply, Ends(r), UNCHANGED <<kind, db, prepared, guest>>,
         r.code = "404" <=> kind = "noroute",
         r.code = "guest" =>
           /\ r.response.status = prepared.status /\ prepared.status # None
           /\ r.response.body = prepared.body /\ prepared.body # None,
         r.code = "wasm failed" => None \in {prepared.status, prepared.body}
  PROVE  IInv'
<1>1. /\ pc' = "done" /\ reply' = r /\ call' = None /\ connections' = <<>>
      /\ kind' = kind /\ db' = db /\ prepared' = prepared /\ guest' = guest
  BY DEF Ends
<1>2. ASSUME NEW c \in Conn
      PROVE  /\ sock'[c] \in Socket /\ sock'[c].phase # "open"
             /\ sock'[c].phase = "closed" => sock[c].phase = "closed"
  <2>1. sock[c] \in Socket
    BY DEF IInv, TypeOK
  <2>2. sock'[c] = IF sock[c].phase = "open"
                     THEN [sock[c] EXCEPT !.phase = "dropped"] ELSE sock[c]
    BY DEF Ends
  <2> QED  BY <2>1, <2>2 DEF Socket
<1>3. sock' \in [Conn -> Socket]
  BY <1>2 DEF Ends
<1>4. TypeOK'
  <2>1. /\ kind' \in {None, "app", "noroute", "broken"} /\ db' \in [Keys -> Values \cup {None}]
        /\ prepared' \in Response /\ guest' \in Guest
    BY <1>1 DEF IInv, TypeOK
  <2>2. connections' \in Seq(Conn)
    BY <1>1, EmptySeq
  <2> QED  BY <1>1, <1>3, <2>1, <2>2 DEF TypeOK
<1>5. Stages' /\ Blocked' /\ DbGetExact'
  BY <1>1 DEF IInv, Stages, Blocked, DbGetExact
<1>6. Streams'
  <2>1. Descriptors' /\ StreamsIntact'
    BY <1>1 DEF Descriptors, StreamsIntact
  <2>2. Owned
    BY DEF IInv, Streams
  <2>3. Owned'
    BY <1>1, <1>2, <2>2 DEF Owned
  <2> QED  BY <2>1, <2>3 DEF Streams
<1>7. ReplyIsPrepared'
  BY <1>1 DEF IInv, Stages, ReplyIsPrepared
<1> QED  BY <1>4, <1>5, <1>6, <1>7 DEF IInv

LEMMA PanicsOK ==
  ASSUME IInv, pc # "done", kind # "noroute", Panics
  PROVE  IInv'
<1>1. [code |-> "panic"] \in Reply
  BY DEF Reply
<1> QED  BY <1>1, EndsOK DEF Panics

LEMMA RequestOK ==
  ASSUME IInv, \/ \E k \in {"app", "noroute", "broken"} : ClientAsks(k)
               \/ NoRoute \/ InstantiatePanic \/ Instantiate \/ GuestEnds \/ GuestFault
  PROVE  IInv'
<1>1. CASE \E k \in {"app", "noroute", "broken"} : ClientAsks(k)
  <2>1. /\ pc = "idle" /\ pc' = "handler" /\ kind' \in {"app", "noroute", "broken"}
        /\ db' = db /\ prepared' = prepared /\ connections' = connections
        /\ call' = call /\ reply' = reply /\ sock' = sock /\ guest' = guest
    BY <1>1 DEF ClientAsks, host
  <2>2. Streams'
    BY <2>1, Quiet DEF IInv
  <2>3. TypeOK'
    BY <2>1 DEF IInv, TypeOK
  <2>4. Stages' /\ Blocked' /\ DbGetExact' /\ ReplyIsPrepared'
    BY <2>1 DEF IInv, Stages, Blocked, DbGetExact, ReplyIsPrepared
  <2> QED  BY <2>2, <2>3, <2>4 DEF IInv
<1>2. CASE NoRoute
  <2>1. [code |-> "404"] \in Reply
    BY DEF Reply
  <2> QED  BY <1>2, <2>1, EndsOK DEF NoRoute
<1>3. CASE InstantiatePanic
  BY <1>3, PanicsOK DEF InstantiatePanic
<1>4. CASE Instantiate
  <2>1. /\ pc = "handler" /\ pc' = "guest" /\ kind = "app" /\ kind' = kind
        /\ db' \in [Keys -> Values \cup {None}]
        /\ prepared' = prepared /\ connections' = connections
        /\ call' = call /\ reply' = reply /\ sock' = sock /\ guest' = guest
    BY <1>4 DEF Instantiate
  <2>2. Streams'
    BY <2>1, Quiet DEF IInv
  <2>3. TypeOK'
    BY <2>1 DEF IInv, TypeOK
  <2>4. Stages' /\ Blocked' /\ DbGetExact' /\ ReplyIsPrepared'
    BY <2>1 DEF IInv, Stages, Blocked, DbGetExact, ReplyIsPrepared
  <2> QED  BY <2>2, <2>3, <2>4 DEF IInv
<1>5. CASE GuestEnds
  <2>1. pc = "guest" /\ kind = "app" /\ prepared \in Response
    BY <1>5 DEF GuestEnds, IInv, TypeOK, Stages
  <2>2. CASE prepared.status # None /\ prepared.body # None
    <3> DEFINE q == [prepared EXCEPT !.headers = FALSE]
               r == [code |-> "guest", response |-> q]
    <3>1. q \in Response /\ q.status = prepared.status /\ q.body = prepared.body
      BY <2>1 DEF Response
    <3>2. r \in Reply /\ r.code = "guest" /\ r.response = q
      BY <3>1 DEF Reply
    <3>3. Ends(r) /\ UNCHANGED <<kind, db, prepared, guest>>
      BY <1>5, <2>2 DEF GuestEnds
    <3> HIDE DEF q, r
    <3> QED  BY <2>1, <2>2, <3>1, <3>2, <3>3, EndsOK
  <2>3. CASE ~(prepared.status # None /\ prepared.body # None)
    <3>1. [code |-> "wasm failed"] \in Reply
      BY DEF Reply
    <3>2. Ends([code |-> "wasm failed"]) /\ UNCHANGED <<kind, db, prepared, guest>>
      BY <1>5, <2>3 DEF GuestEnds
    <3> QED  BY <2>1, <2>3, <3>1, <3>2, EndsOK
  <2> QED  BY <2>2, <2>3
<1>6. CASE GuestFault
  BY <1>6, PanicsOK DEF GuestFault, IInv, Stages
<1> QED  BY <1>1, <1>2, <1>3, <1>4, <1>5, <1>6

\* SetStatus, SetHeader and SetBody: the host notes what the guest says.
LEMMA PreparesOK ==
  ASSUME IInv, NEW r \in Response, Prepares(r), guest' = [guest EXCEPT !.said = r]
  PROVE  IInv'
<1>1. /\ pc = "guest" /\ pc' = pc /\ kind' = kind /\ db' = db /\ prepared' = r
      /\ connections' = connections /\ call' = call /\ reply' = reply /\ sock' = sock
  BY DEF Prepares
<1>2. /\ guest' \in Guest /\ guest'.said = r /\ guest'.found = guest.found
      /\ guest'.fds = guest.fds /\ guest'.got = guest.got /\ guest'.gave = guest.gave
  BY DEF IInv, TypeOK, Guest
<1>3. TypeOK'
  BY <1>1, <1>2 DEF IInv, TypeOK
<1>4. Streams'
  BY <1>1, <1>2, Quiet DEF IInv
<1>5. Stages' /\ Blocked' /\ DbGetExact'
  BY <1>1, <1>2 DEF IInv, Stages, Blocked, DbGetExact
<1>6. ReplyIsPrepared'
  BY <1>1 DEF IInv, Stages, ReplyIsPrepared
<1> QED  BY <1>3, <1>4, <1>5, <1>6 DEF IInv

LEMMA ResponseOK ==
  ASSUME IInv, \/ \E n \in Codes : SetStatus(n)
               \/ SetHeader
               \/ \E b \in Bodies : SetBody(b)
  PROVE  IInv'
<1>1. prepared \in Response /\ guest.said = prepared /\ guest \in Guest
  BY DEF IInv, TypeOK, Stages
<1>2. ASSUME NEW n \in Codes, SetStatus(n) PROVE IInv'
  <2> DEFINE r == [prepared EXCEPT !.status = n]
  <2>1. r \in Response
    BY <1>1 DEF Response
  <2>2. guest' = [guest EXCEPT !.said = r]
    BY <1>1, <1>2 DEF SetStatus, Guest
  <2>3. Prepares(r)
    BY <1>2 DEF SetStatus
  <2> HIDE DEF r
  <2> QED  BY <2>1, <2>2, <2>3, PreparesOK
<1>3. ASSUME SetHeader PROVE IInv'
  <2> DEFINE r == [prepared EXCEPT !.headers = TRUE]
  <2>1. r \in Response
    BY <1>1 DEF Response
  <2>2. guest' = [guest EXCEPT !.said = r]
    BY <1>1, <1>3 DEF SetHeader, Guest
  <2>3. Prepares(r)
    BY <1>3 DEF SetHeader
  <2> HIDE DEF r
  <2> QED  BY <2>1, <2>2, <2>3, PreparesOK
<1>4. ASSUME NEW b \in Bodies, SetBody(b) PROVE IInv'
  <2> DEFINE r == [prepared EXCEPT !.body = b]
  <2>1. r \in Response
    BY <1>1 DEF Response
  <2>2. guest' = [guest EXCEPT !.said = r]
    BY <1>1, <1>4 DEF SetBody, Guest
  <2>3. Prepares(r)
    BY <1>4 DEF SetBody
  <2> HIDE DEF r
  <2> QED  BY <2>1, <2>2, <2>3, PreparesOK
<1> QED  BY <1>2, <1>3, <1>4

\* db::get has its answer, which is the value.
LEMMA FoundOK ==
  ASSUME IInv, NEW k \in Keys, pc \in {"guest", "db_get"}, pc' = "guest",
         call' \in {call, None}, UNCHANGED <<kind, host, reply, sock>>,
         guest' = [guest EXCEPT !.found[k] = {db[k]}]
  PROVE  IInv'
<1>1. /\ kind' = kind /\ db' = db /\ prepared' = prepared /\ connections' = connections
      /\ reply' = reply /\ sock' = sock
  BY DEF host
<1>2. db[k] \in Values \cup {None} /\ guest \in Guest
  BY DEF IInv, TypeOK
<1>3. /\ guest'.said = guest.said /\ guest'.fds = guest.fds
      /\ guest'.got = guest.got /\ guest'.gave = guest.gave
      /\ guest'.found = [guest.found EXCEPT ![k] = {db[k]}]
  BY <1>2 DEF Guest
<1>4. guest'.found \in [Keys -> SUBSET (Values \cup {None})]
  BY <1>2, <1>3 DEF Guest
<1>5. guest' \in Guest
  BY <1>2, <1>4 DEF Guest
<1>6. TypeOK'
  BY <1>1, <1>5 DEF IInv, TypeOK
<1>7. Streams'
  BY <1>1, <1>3, Quiet DEF IInv
<1>8. DbGetExact'
  BY <1>1, <1>2, <1>3 DEF IInv, DbGetExact, Guest
<1>9. Stages' /\ Blocked' /\ ReplyIsPrepared'
  BY <1>1, <1>3 DEF IInv, Stages, Blocked, ReplyIsPrepared
<1> QED  BY <1>6, <1>7, <1>8, <1>9 DEF IInv

LEMMA DbOK ==
  ASSUME IInv, DbFetches \/ \E k \in Keys : DbAsks(k)
  PROVE  IInv'
<1>1. ASSUME NEW k \in Keys, DbAsks(k) PROVE IInv'
  <2> DEFINE r == DbGet(k, 0)
  <2>1. /\ db[k] = None => r.result = -1
        /\ db[k] # None => /\ r.result = Length(db[k]) /\ Length(db[k]) \in Nat
                           /\ Length(db[k]) = 0 => db[k] = {0}
    BY DbGetIs DEF IInv
  <2>2. /\ pc = "guest" /\ UNCHANGED <<kind, host, reply, sock>>
        /\ IF r.result > 0
             THEN /\ pc' = "db_get" /\ call' = [key |-> k, size |-> r.result]
                  /\ UNCHANGED guest
             ELSE /\ guest' = [guest EXCEPT !.found[k] = {IF r.result < 0 THEN None ELSE {0}}]
                  /\ UNCHANGED <<pc, call>>
    BY <1>1 DEF DbAsks
  <2> HIDE DEF r
  <2>3. CASE r.result > 0
    <3>1. /\ pc' = "db_get" /\ call' = [key |-> k, size |-> r.result] /\ guest' = guest
          /\ kind' = kind /\ db' = db /\ prepared' = prepared /\ connections' = connections
          /\ reply' = reply /\ sock' = sock
      BY <2>2, <2>3 DEF host
    <3>2. db[k] # None /\ r.result = Length(db[k]) /\ r.result \in Nat
      BY <2>1, <2>3
    <3>3. call' \in Calls /\ call'.key = k /\ call'.size = r.result
      BY <3>1, <3>2 DEF Calls
    <3>4. TypeOK'
      BY <3>1, <3>3 DEF IInv, TypeOK
    <3>5. Streams'
      BY <2>2, <3>1, Quiet DEF IInv
    <3>6. Stages' /\ DbGetExact' /\ ReplyIsPrepared'
      BY <2>2, <3>1 DEF IInv, Stages, DbGetExact, ReplyIsPrepared
    <3>7. Blocked'
      BY <2>3, <3>1, <3>2, <3>3 DEF Blocked
    <3> QED  BY <3>4, <3>5, <3>6, <3>7 DEF IInv
  <2>4. CASE ~(r.result > 0)
    <3>1. (IF r.result < 0 THEN None ELSE {0}) = db[k]
      <4>1. CASE db[k] = None
        BY <2>1, <4>1
      <4>2. CASE db[k] # None
        BY <2>1, <2>4, <4>2
      <4> QED  BY <4>1, <4>2
    <3> QED  BY <2>2, <2>4, <3>1, FoundOK
  <2> QED  BY <2>3, <2>4
<1>2. ASSUME DbFetches PROVE IInv'
  <2> DEFINE k == call.key
             r == DbGet(k, call.size)
  <2>1. /\ pc = "db_get" /\ k \in Keys /\ db[k] # None /\ call.size = Length(db[k])
        /\ call.size > 0
    BY <1>2 DEF DbFetches, IInv, Blocked
  <2>2. /\ db[k] \in Values /\ r.result = Length(db[k]) /\ r.written = db[k]
        /\ Length(db[k]) \in Nat
    <3>1. db[k] \in Values
      BY <2>1 DEF IInv, TypeOK
    <3>2. Length(db[k]) \in Nat
      BY <3>1, LengthIs
    <3> QED  BY <2>1, <3>1, <3>2, DbGetIs DEF IInv
  <2>3. /\ pc' = "guest" /\ call' = None /\ UNCHANGED <<kind, host, reply, sock>>
        /\ guest' = [guest EXCEPT !.found[k] =
                       {IF r.result < 0 THEN None
                        ELSE IF r.result = 0 THEN {0}
                        ELSE IF r.result # call.size THEN None ELSE r.written}]
    BY <1>2 DEF DbFetches
  <2> HIDE DEF k, r
  <2>4. (IF r.result < 0 THEN None
         ELSE IF r.result = 0 THEN {0}
         ELSE IF r.result # call.size THEN None ELSE r.written) = db[k]
    BY <2>1, <2>2
  <2> QED  BY <2>1, <2>3, <2>4, FoundOK
<1> QED  BY <1>1, <1>2

----------------------------------------------------------------------------
(* Connections.                                                            *)

LEMMA BlocksOK ==
  ASSUME IInv, NEW name \in {"tcp_read", "tcp_write"}, NEW fd \in Fd, NEW n \in Sizes,
         Blocks(name, fd, n)
  PROVE  IInv'
<1>1. /\ pc = "guest" /\ pc' = name /\ call' = [fd |-> fd, size |-> n] /\ guest' = guest
      /\ kind' = kind /\ db' = db /\ prepared' = prepared /\ connections' = connections
      /\ reply' = reply /\ sock' = sock /\ guest.fds[fd] # None
  BY DEF Blocks, host
<1>2. call' \in Calls
  BY <1>1 DEF Calls
<1>3. TypeOK'
  BY <1>1, <1>2 DEF IInv, TypeOK
<1>4. Streams'
  BY <1>1, Quiet DEF IInv
<1>5. Blocked'
  BY <1>1 DEF Blocked
<1>6. Stages' /\ DbGetExact' /\ ReplyIsPrepared'
  BY <1>1 DEF IInv, Stages, DbGetExact, ReplyIsPrepared
<1> QED  BY <1>3, <1>4, <1>5, <1>6 DEF IInv

\* A new connection takes the next index of the slab, or none.
LEMMA ConnectsOK ==
  ASSUME IInv, NEW c \in Conn, Connects(c)
  PROVE  IInv'
<1> DEFINE l == Len(connections)
<1>1. /\ pc = "guest" /\ pc' = pc /\ kind' = kind /\ db' = db /\ prepared' = prepared
      /\ call' = call /\ reply' = reply /\ sock[c].phase = "closed"
  BY DEF Connects
<1>2. /\ connections \in Seq(Conn) /\ l \in Nat /\ guest \in Guest /\ sock \in [Conn -> Socket]
      /\ guest.fds \in [Fd -> Conn \cup {None}] /\ Capacity \in Nat /\ l <= Capacity
      /\ None \notin Conn
  BY <1>1, SlabAssumption DEF IInv, TypeOK, Guest, Streams, Descriptors
<1>3. ASSUME NEW p \in {"open", "dropped"}
      PROVE  /\ NewSocket(p) \in Socket /\ NewSocket(p).phase = p
             /\ NewSocket(p).sent = 0 /\ NewSocket(p).avail = 0 /\ NewSocket(p).taken = 0
  BY BoundAssumption DEF NewSocket, Socket
<1>4. \A fd \in Fd : guest.fds[fd] # c
  BY <1>1 DEF IInv, Streams, Owned
<1>5. CASE l < Capacity
  <2>1. /\ connections' = Append(connections, c) /\ sock' = [sock EXCEPT ![c] = NewSocket("open")]
        /\ guest' = [guest EXCEPT !.fds[l] = c]
    BY <1>5 DEF Connects
  <2>2. l \in Fd
    BY <1>2, <1>5 DEF Fd
  <2>3. /\ guest' \in Guest /\ guest'.said = guest.said /\ guest'.found = guest.found
        /\ guest'.got = guest.got /\ guest'.gave = guest.gave
        /\ guest'.fds[l] = c /\ \A fd \in Fd : fd # l => guest'.fds[fd] = guest.fds[fd]
    BY <1>2, <2>1, <2>2 DEF Guest
  <2>4. /\ connections' \in Seq(Conn) /\ Len(connections') = l + 1
        /\ connections'[l + 1] = c
        /\ \A i \in 1..l : connections'[i] = connections[i]
    BY <1>2, <2>1, AppendProperties
  <2>5. /\ sock' \in [Conn -> Socket] /\ sock'[c] = NewSocket("open")
        /\ \A d \in Conn : d # c => sock'[d] = sock[d]
    BY <1>2, <1>3, <2>1
  <2> HIDE DEF l
  <2>6. TypeOK'
    BY <1>1, <2>3, <2>4, <2>5 DEF IInv, TypeOK
  <2>7. Stages' /\ DbGetExact' /\ ReplyIsPrepared' /\ Blocked'
    BY <1>1, <2>3 DEF IInv, Stages, DbGetExact, ReplyIsPrepared, Blocked
  <2>8. Streams
    BY DEF IInv
  <2>9. Descriptors'
    <3>1. Len(connections') <= Capacity
      BY <1>2, <1>5, <2>4
    <3>2. ASSUME NEW fd \in Fd
          PROVE  /\ fd < l + 1 => guest'.fds[fd] = connections'[fd + 1]
                 /\ ~(fd < l + 1) =>
                      guest'.fds[fd] = None /\ guest'.got[fd] = 0 /\ guest'.gave[fd] = 0
                 /\ guest'.fds[fd] # None => sock'[guest'.fds[fd]].phase = "open"
      <4>1. CASE fd = l
        BY <1>2, <1>3, <2>3, <2>4, <2>5, <4>1
      <4>2. CASE fd # l
        <5>1. /\ fd < l => guest.fds[fd] = connections[fd + 1]
              /\ ~(fd < l) => guest.fds[fd] = None /\ guest.got[fd] = 0 /\ guest.gave[fd] = 0
              /\ guest.fds[fd] # None => sock[guest.fds[fd]].phase = "open"
          BY <1>1, <2>8 DEF Streams, Descriptors, l
        <5>2. fd \in Nat /\ (fd < l + 1 => fd < l) /\ (fd < l => fd + 1 \in 1..l)
          BY <1>2, <4>2 DEF Fd
        <5>3. guest.fds[fd] # None => guest.fds[fd] \in Conn /\ guest.fds[fd] # c
          BY <1>2, <1>4
        <5> QED  BY <1>2, <2>3, <2>4, <2>5, <4>2, <5>1, <5>2, <5>3
      <4> QED  BY <4>1, <4>2
    <3> QED  BY <2>4, <3>1, <3>2 DEF Descriptors
  <2>10. Owned'
    <3>1. guest.fds[l] = None
      BY <1>1, <1>2, <2>2, <2>8 DEF Streams, Descriptors, l
    <3>2. ASSUME NEW d \in Conn, d # c
          PROVE  \A fd \in Fd : guest'.fds[fd] = d <=> guest.fds[fd] = d
      BY <1>2, <2>3, <3>1, <3>2
    <3>3. ASSUME NEW d \in Conn
          PROVE  /\ sock'[d].phase = "open" =>
                      \E fd \in Fd : /\ guest'.fds[fd] = d
                                    /\ \A e \in Fd : guest'.fds[e] = d => e = fd
                 /\ sock'[d].phase = "closed" => \A fd \in Fd : guest'.fds[fd] # d
      <4>1. CASE d = c
        BY <1>3, <1>4, <2>2, <2>3, <2>5, <4>1
      <4>2. CASE d # c
        BY <2>5, <2>8, <3>2, <4>2 DEF Streams, Owned
      <4> QED  BY <4>1, <4>2
    <3> QED  BY <1>1, <3>3 DEF Owned
  <2>11. StreamsIntact'
    <3>1. guest.got[l] = 0 /\ guest.gave[l] = 0
      BY <1>1, <1>2, <2>2, <2>8 DEF Streams, Descriptors, l
    <3>2. ASSUME NEW fd \in Fd, guest'.fds[fd] # None
          PROVE  /\ sock'[guest'.fds[fd]].sent = guest'.got[fd] + sock'[guest'.fds[fd]].avail
                 /\ sock'[guest'.fds[fd]].taken = guest'.gave[fd]
      <4>1. CASE fd = l
        BY <1>3, <2>3, <2>5, <3>1, <4>1
      <4>2. CASE fd # l
        <5>1. guest'.fds[fd] = guest.fds[fd] /\ guest.fds[fd] \in Conn /\ guest.fds[fd] # c
          BY <1>2, <1>4, <2>3, <3>2, <4>2
        <5>2. /\ sock[guest.fds[fd]].sent = guest.got[fd] + sock[guest.fds[fd]].avail
              /\ sock[guest.fds[fd]].taken = guest.gave[fd]
          BY <1>1, <2>8, <3>2, <5>1 DEF Streams, StreamsIntact
        <5> QED  BY <2>3, <2>5, <5>1, <5>2
      <4> QED  BY <4>1, <4>2
    <3> QED  BY <3>2 DEF StreamsIntact
  <2> QED  BY <2>6, <2>7, <2>9, <2>10, <2>11 DEF IInv, Streams
<1>6. CASE ~(l < Capacity)
  <2>1. /\ connections' = connections /\ guest' = guest
        /\ sock' = [sock EXCEPT ![c] = NewSocket("dropped")]
    BY <1>6 DEF Connects
  <2>2. /\ sock' \in [Conn -> Socket] /\ sock'[c].phase = "dropped"
        /\ \A d \in Conn : d # c => sock'[d] = sock[d]
    BY <1>2, <1>3, <2>1
  <2>3. TypeOK'
    BY <1>1, <2>1, <2>2 DEF IInv, TypeOK
  <2>4. Stages' /\ DbGetExact' /\ ReplyIsPrepared' /\ Blocked'
    BY <1>1, <2>1 DEF IInv, Stages, DbGetExact, ReplyIsPrepared, Blocked
  <2>5. \A fd \in Fd : guest.fds[fd] # None => sock'[guest.fds[fd]] = sock[guest.fds[fd]]
    BY <1>2, <1>4, <2>2
  <2>6. Descriptors' /\ StreamsIntact'
    BY <1>1, <2>1, <2>5 DEF IInv, Streams, Descriptors, StreamsIntact
  <2>7. Owned'
    BY <1>1, <2>1, <2>2 DEF IInv, Streams, Owned
  <2> QED  BY <2>3, <2>4, <2>6, <2>7 DEF IInv, Streams
<1> QED  BY <1>5, <1>6

\* What is read or written, m and n bytes, and what the guest is told agree.
LEMMA TransferOK ==
  ASSUME IInv, pc \in {"tcp_read", "tcp_write"}, NEW k, NEW m \in Nat, NEW n \in Nat,
         sock' = [sock EXCEPT ![Called] = k], Unblocks(m, n),
         sock[Called] \in Socket =>
           /\ k \in Socket /\ k.phase = sock[Called].phase /\ k.sent = sock[Called].sent
           /\ k.avail = sock[Called].avail - m /\ k.taken = sock[Called].taken + n
  PROVE  IInv'
<1> DEFINE d == call.fd
           c == guest.fds[d]
<1>1. d \in Fd /\ c # None
  BY DEF IInv, Blocked
<1>2. /\ guest \in Guest /\ sock \in [Conn -> Socket] /\ guest.fds \in [Fd -> Conn \cup {None}]
      /\ guest.got \in [Fd -> 0..MaxBytes] /\ guest.gave \in [Fd -> 0..MaxBytes]
      /\ MaxBytes \in Nat
  BY BoundAssumption DEF IInv, TypeOK, Guest
<1>3. c \in Conn
  BY <1>1, <1>2
<1>4. Streams
  BY DEF IInv
<1>5. Called = c /\ sock[c].phase = "open"
  BY <1>1, <1>4 DEF Streams, Descriptors, Called
<1>6. /\ k \in Socket /\ k.phase = "open" /\ k.sent = sock[c].sent
      /\ k.avail = sock[c].avail - m /\ k.taken = sock[c].taken + n
  BY <1>2, <1>3, <1>5
<1>7. /\ sock' \in [Conn -> Socket] /\ sock'[c] = k
      /\ \A e \in Conn : e # c => sock'[e] = sock[e]
  BY <1>2, <1>3, <1>5, <1>6
<1>8. /\ pc' = "guest" /\ call' = None /\ kind' = kind /\ db' = db /\ prepared' = prepared
      /\ connections' = connections /\ reply' = reply
      /\ guest' = [guest EXCEPT !.got[d] = @ + m, !.gave[d] = @ + n]
  BY DEF Unblocks, host
<1>9. /\ sock[c].sent = guest.got[d] + sock[c].avail /\ sock[c].taken = guest.gave[d]
  BY <1>1, <1>4 DEF Streams, StreamsIntact
<1> HIDE DEF c, d
<1>10. guest.got[d] + m \in 0..MaxBytes /\ guest.gave[d] + n \in 0..MaxBytes
  <2>1. /\ k.sent \in 0..MaxBytes /\ k.avail \in 0..MaxBytes /\ k.taken \in 0..MaxBytes
        /\ sock[c].avail \in 0..MaxBytes
    BY <1>2, <1>3, <1>6 DEF Socket
  <2>2. guest.got[d] \in 0..MaxBytes /\ guest.gave[d] \in 0..MaxBytes
    BY <1>1, <1>2
  <2> QED  BY <1>2, <1>6, <1>9, <2>1, <2>2
<1>11. /\ guest'.said = guest.said /\ guest'.found = guest.found /\ guest'.fds = guest.fds
       /\ guest'.got = [guest.got EXCEPT ![d] = guest.got[d] + m]
       /\ guest'.gave = [guest.gave EXCEPT ![d] = guest.gave[d] + n]
  BY <1>2, <1>8 DEF Guest
<1>12. /\ guest'.got \in [Fd -> 0..MaxBytes] /\ guest'.gave \in [Fd -> 0..MaxBytes]
  BY <1>1, <1>2, <1>10, <1>11
<1>13. guest' \in Guest
  BY <1>2, <1>8, <1>11, <1>12 DEF Guest
<1>14. /\ guest'.got[d] = guest.got[d] + m /\ guest'.gave[d] = guest.gave[d] + n
       /\ \A e \in Fd : e # d => guest'.got[e] = guest.got[e] /\ guest'.gave[e] = guest.gave[e]
  BY <1>1, <1>2, <1>11
<1>15. TypeOK'
  BY <1>7, <1>8, <1>13 DEF IInv, TypeOK
<1>16. Stages' /\ Blocked' /\ DbGetExact' /\ ReplyIsPrepared'
  BY <1>8, <1>11 DEF IInv, Stages, Blocked, DbGetExact, ReplyIsPrepared
<1>17. Owned'
  BY <1>1, <1>4, <1>5, <1>6, <1>7, <1>8, <1>11 DEF Streams, Owned
<1>18. \A e \in Fd : guest.fds[e] = c => e = d
  BY <1>1, <1>3, <1>4, <1>5 DEF Streams, Owned, c
<1>19. Descriptors'
  <2>1. ASSUME NEW e \in Fd
        PROVE  /\ e < Len(connections) => guest.fds[e] = connections[e + 1]
               /\ ~(e < Len(connections)) =>
                    guest.fds[e] = None /\ guest'.got[e] = 0 /\ guest'.gave[e] = 0
               /\ guest.fds[e] # None => sock'[guest.fds[e]].phase = "open"
    <3>1. /\ Len(connections) <= Capacity
          /\ e < Len(connections) => guest.fds[e] = connections[e + 1]
          /\ ~(e < Len(connections)) =>
               guest.fds[e] = None /\ guest.got[e] = 0 /\ guest.gave[e] = 0
          /\ guest.fds[e] # None => sock[guest.fds[e]].phase = "open"
      BY <1>4 DEF Streams, Descriptors
    <3>2. guest.fds[e] # None => guest.fds[e] \in Conn
      BY <1>2
    <3>3. guest.fds[e] = None => e # d
      BY <1>1 DEF c
    <3> QED  BY <1>6, <1>7, <1>14, <3>1, <3>2, <3>3
  <2>2. Len(connections) <= Capacity
    BY <1>4 DEF Streams, Descriptors
  <2> QED  BY <1>8, <1>11, <2>1, <2>2 DEF Descriptors
<1>20. StreamsIntact'
  <2>1. ASSUME NEW e \in Fd, guest.fds[e] # None
        PROVE  /\ sock'[guest.fds[e]].sent = guest'.got[e] + sock'[guest.fds[e]].avail
               /\ sock'[guest.fds[e]].taken = guest'.gave[e]
    <3>1. CASE e = d
      <4>1. guest.got[d] \in Int /\ sock[c].avail \in Int
        BY <1>1, <1>2, <1>3 DEF Socket
      <4> QED  BY <1>6, <1>7, <1>9, <1>14, <3>1, <4>1 DEF c
    <3>2. CASE e # d
      <4>1. guest.fds[e] \in Conn /\ guest.fds[e] # c
        BY <1>2, <1>18, <2>1, <3>2
      <4>2. /\ sock[guest.fds[e]].sent = guest.got[e] + sock[guest.fds[e]].avail
            /\ sock[guest.fds[e]].taken = guest.gave[e]
        BY <1>4, <2>1 DEF Streams, StreamsIntact
      <4> QED  BY <1>7, <1>14, <3>2, <4>1, <4>2
    <3> QED  BY <3>1, <3>2
  <2> QED  BY <1>11, <2>1 DEF StreamsIntact
<1> QED  BY <1>15, <1>16, <1>17, <1>19, <1>20 DEF IInv, Streams

LEMMA CallsOK ==
  ASSUME IInv, ReadReturns \/ WriteReturns \/ CallFails
  PROVE  IInv'
<1>1. pc \in {"tcp_read", "tcp_write"} /\ call.size \in Nat /\ sock \in [Conn -> Socket]
  <2>1. pc \in {"tcp_read", "tcp_write"}
    <3>1. ReadReturns => pc = "tcp_read"
      BY DEF ReadReturns
    <3>2. WriteReturns => pc = "tcp_write"
      BY DEF WriteReturns
    <3>3. CallFails => pc \in {"tcp_read", "tcp_write"}
      BY DEF CallFails
    <3> QED  BY <3>1, <3>2, <3>3
  <2>2. call.size \in Nat
    <3>1. call.size \in Sizes
      BY <2>1 DEF IInv, Blocked
    <3> QED  BY <3>1, SizesAssumption
  <2> QED  BY <2>1, <2>2 DEF IInv, TypeOK
<1> DEFINE c == Called
<1>2. c \in Conn
  <2>1. call.fd \in Fd /\ guest.fds[call.fd] # None
    BY <1>1 DEF IInv, Blocked
  <2>2. Called = guest.fds[call.fd]
    BY <1>1, <2>1 DEF IInv, Streams, Descriptors, Called
  <2> QED  BY <2>1, <2>2 DEF IInv, TypeOK, Guest
<1>3. sock[c] \in Socket
  BY <1>1, <1>2
<1> HIDE DEF c
<1>4. CASE ReadReturns
  <2>1. PICK m \in Readable(sock[c], call.size) :
          sock' = [sock EXCEPT ![c].avail = @ - m] /\ Unblocks(m, 0)
    BY <1>4 DEF ReadReturns, c
  <2>2. m \in Nat /\ m <= sock[c].avail
    BY <1>1, <1>3 DEF Readable, Socket
  <2> DEFINE k == [sock[c] EXCEPT !.avail = @ - m]
  <2>3. sock' = [sock EXCEPT ![c] = k]
    BY <1>1, <1>2, <2>1
  <2>4. /\ k \in Socket /\ k.phase = sock[c].phase /\ k.sent = sock[c].sent
        /\ k.avail = sock[c].avail - m /\ k.taken = sock[c].taken + 0
    BY <1>3, <2>2, BoundAssumption DEF Socket
  <2> HIDE DEF k
  <2> QED  BY <1>1, <2>1, <2>2, <2>3, <2>4, TransferOK DEF c
<1>5. CASE WriteReturns
  <2>1. PICK m \in 0..call.size :
          /\ m <= sock[c].space /\ sock[c].taken + m <= MaxBytes
          /\ sock' = [sock EXCEPT ![c].space = @ - m, ![c].taken = @ + m] /\ Unblocks(0, m)
    BY <1>5 DEF WriteReturns, c
  <2> DEFINE k == [sock[c] EXCEPT !.space = @ - m, !.taken = @ + m]
  <2>2. m \in Nat
    BY <1>1
  <2>3. sock' = [sock EXCEPT ![c] = k]
    BY <1>1, <1>2, <2>1
  <2>4. /\ k \in Socket /\ k.phase = sock[c].phase /\ k.sent = sock[c].sent
        /\ k.avail = sock[c].avail - 0 /\ k.taken = sock[c].taken + m
    <3>1. /\ sock[c].space - m \in 0..MaxSpace /\ sock[c].taken + m \in 0..MaxBytes
          /\ sock[c].avail - 0 = sock[c].avail
      BY <1>3, <2>1, <2>2, BoundAssumption DEF Socket
    <3> QED  BY <1>3, <3>1 DEF Socket
  <2> HIDE DEF k
  <2> QED  BY <1>1, <2>1, <2>2, <2>3, <2>4, TransferOK DEF c
<1>6. CASE CallFails
  <2>1. Unblocks(0, 0) /\ sock' = sock
    BY <1>6 DEF CallFails
  <2>2. sock' = [sock EXCEPT ![c] = sock[c]]
    BY <1>1, <1>2, <2>1
  <2>3. sock[c].avail = sock[c].avail - 0 /\ sock[c].taken = sock[c].taken + 0
    BY <1>3 DEF Socket
  <2>4. 0 \in Nat
    OBVIOUS
  <2> DEFINE k == sock[c]
  <2>5. k = sock[c]
    OBVIOUS
  <2> HIDE DEF k
  <2> QED  BY <1>1, <1>3, <2>1, <2>2, <2>3, <2>4, <2>5, TransferOK DEF c
<1> QED  BY <1>4, <1>5, <1>6

----------------------------------------------------------------------------
(* The backends.                                                           *)

\* What a backend does to its connection leaves what the guest has read and written.
LEMMA ChangesOK ==
  ASSUME IInv, NEW c \in Conn, NEW k \in Socket, Changes(c, k), k.phase = sock[c].phase,
         k.sent - k.avail = sock[c].sent - sock[c].avail, k.taken = sock[c].taken
  PROVE  IInv'
<1>1. /\ sock[c].phase = "open" /\ sock' = [sock EXCEPT ![c] = k]
      /\ pc' = pc /\ kind' = kind /\ db' = db /\ prepared' = prepared
      /\ connections' = connections /\ call' = call /\ reply' = reply /\ guest' = guest
  BY DEF Changes, host
<1>2. sock \in [Conn -> Socket] /\ guest \in Guest
  BY DEF IInv, TypeOK
<1>3. /\ sock' \in [Conn -> Socket] /\ sock'[c] = k
      /\ \A d \in Conn : d # c => sock'[d] = sock[d]
  BY <1>1, <1>2
<1>4. TypeOK'
  BY <1>1, <1>3 DEF IInv, TypeOK
<1>5. Stages' /\ Blocked' /\ DbGetExact' /\ ReplyIsPrepared'
  BY <1>1 DEF IInv, Stages, Blocked, DbGetExact, ReplyIsPrepared
<1>6. \A d \in Conn : sock'[d].phase = sock[d].phase
  BY <1>3
<1>7. Descriptors'
  <2>1. \A fd \in Fd : guest.fds[fd] # None => guest.fds[fd] \in Conn
    BY <1>2 DEF Guest
  <2> QED  BY <1>1, <1>6, <2>1 DEF IInv, Streams, Descriptors
<1>8. Owned'
  BY <1>1, <1>6 DEF IInv, Streams, Owned
<1>9. StreamsIntact'
  <2>1. ASSUME pc # "done", NEW fd \in Fd, guest.fds[fd] # None
        PROVE  /\ sock'[guest.fds[fd]].sent = guest.got[fd] + sock'[guest.fds[fd]].avail
               /\ sock'[guest.fds[fd]].taken = guest.gave[fd]
    <3> DEFINE d == guest.fds[fd]
    <3>1. d \in Conn /\ guest.got[fd] \in Int
      BY <1>2, <2>1, BoundAssumption DEF Guest
    <3>2. sock[d].sent = guest.got[fd] + sock[d].avail /\ sock[d].taken = guest.gave[fd]
      BY <2>1 DEF IInv, Streams, StreamsIntact
    <3>3. /\ k.sent \in Int /\ k.avail \in Int
          /\ sock[d].sent \in Int /\ sock[d].avail \in Int
      BY <1>2, <3>1, BoundAssumption DEF Socket
    <3> HIDE DEF d
    <3>4. sock'[d].sent = guest.got[fd] + sock'[d].avail /\ sock'[d].taken = guest.gave[fd]
      <4>1. CASE d = c
        BY <1>3, <3>1, <3>2, <3>3, <4>1
      <4>2. CASE d # c
        BY <1>3, <3>1, <3>2, <4>2
      <4> QED  BY <4>1, <4>2
    <3> QED  BY <3>4 DEF d
  <2> QED  BY <1>1, <2>1 DEF StreamsIntact
<1> QED  BY <1>4, <1>5, <1>7, <1>8, <1>9 DEF IInv, Streams

LEMMA PeersOK ==
  ASSUME IInv, NEW c \in Conn, PeerSends(c) \/ PeerCloses(c) \/ PeerDrains(c) \/ PeerResets(c)
  PROVE  IInv'
<1>1. sock[c] \in Socket /\ sock[c].phase = "open"
  BY DEF PeerSends, PeerCloses, PeerDrains, PeerResets, Changes, IInv, TypeOK
<1>2. sock[c].avail <= sock[c].sent
  <2>1. PICK fd \in Fd : guest.fds[fd] = c
    BY <1>1 DEF IInv, Streams, Owned
  <2>2. sock[c].sent = guest.got[fd] + sock[c].avail
    <3>1. pc # "done" /\ c # None
      BY <1>1, SlabAssumption DEF IInv, Streams, Owned
    <3> QED  BY <2>1, <3>1 DEF IInv, Streams, StreamsIntact
  <2>3. guest.got[fd] \in 0..MaxBytes
    BY DEF IInv, TypeOK, Guest
  <2> QED  BY <1>1, <2>2, <2>3, BoundAssumption DEF Socket
<1> USE BoundAssumption
<1>3. CASE PeerSends(c)
  <2> DEFINE k == [sock[c] EXCEPT !.sent = @ + 1, !.avail = @ + 1]
  <2>1. /\ k \in Socket /\ k.phase = sock[c].phase /\ k.taken = sock[c].taken
        /\ k.sent - k.avail = sock[c].sent - sock[c].avail
    <3>1. /\ sock[c].sent + 1 \in 0..MaxBytes /\ sock[c].avail + 1 \in 0..MaxBytes
          /\ (sock[c].sent + 1) - (sock[c].avail + 1) = sock[c].sent - sock[c].avail
      BY <1>1, <1>2, <1>3 DEF PeerSends, Socket
    <3> QED  BY <1>1, <3>1 DEF Socket
  <2>2. Changes(c, k)
    BY <1>3 DEF PeerSends
  <2> HIDE DEF k
  <2> QED  BY <2>1, <2>2, ChangesOK
<1>4. CASE PeerCloses(c)
  <2> DEFINE k == [sock[c] EXCEPT !.eof = TRUE]
  <2>1. /\ k \in Socket /\ k.phase = sock[c].phase /\ k.taken = sock[c].taken
        /\ k.sent - k.avail = sock[c].sent - sock[c].avail
    BY <1>1 DEF Socket
  <2>2. Changes(c, k)
    BY <1>4 DEF PeerCloses
  <2> HIDE DEF k
  <2> QED  BY <2>1, <2>2, ChangesOK
<1>5. CASE PeerDrains(c)
  <2> DEFINE k == [sock[c] EXCEPT !.space = @ + 1]
  <2>1. /\ k \in Socket /\ k.phase = sock[c].phase /\ k.taken = sock[c].taken
        /\ k.sent - k.avail = sock[c].sent - sock[c].avail
    BY <1>1, <1>5 DEF PeerDrains, Socket
  <2>2. Changes(c, k)
    BY <1>5 DEF PeerDrains
  <2> HIDE DEF k
  <2> QED  BY <2>1, <2>2, ChangesOK
<1>6. CASE PeerResets(c)
  <2> DEFINE k == [sock[c] EXCEPT !.broken = TRUE, !.sent = @ - sock[c].avail, !.avail = 0]
  <2>1. /\ k \in Socket /\ k.phase = sock[c].phase /\ k.taken = sock[c].taken
        /\ k.sent - k.avail = sock[c].sent - sock[c].avail
    <3>1. /\ sock[c].sent - sock[c].avail \in 0..MaxBytes /\ 0 \in 0..MaxBytes
          /\ (sock[c].sent - sock[c].avail) - 0 = sock[c].sent - sock[c].avail
      BY <1>1, <1>2 DEF Socket
    <3> QED  BY <1>1, <3>1 DEF Socket
  <2>2. Changes(c, k)
    BY <1>6 DEF PeerResets
  <2> HIDE DEF k
  <2> QED  BY <2>1, <2>2, ChangesOK
<1> QED  BY <1>3, <1>4, <1>5, <1>6

----------------------------------------------------------------------------
(* The theorems.                                                           *)

LEMMA NextOK == IInv /\ [Next]_vars => IInv'
<1> SUFFICES ASSUME IInv, [Next]_vars PROVE IInv'
  OBVIOUS
<1>1. CASE \/ \E k \in {"app", "noroute", "broken"} : ClientAsks(k)
           \/ NoRoute \/ InstantiatePanic \/ Instantiate \/ GuestEnds \/ GuestFault
  BY <1>1, RequestOK
<1>2. CASE (\E n \in Codes : SetStatus(n)) \/ SetHeader \/ \E b \in Bodies : SetBody(b)
  BY <1>2, ResponseOK
<1>3. CASE DbFetches \/ \E k \in Keys : DbAsks(k)
  BY <1>3, DbOK
<1>4. CASE \E c \in Conn : Connects(c)
  BY <1>4, ConnectsOK
<1>5. CASE \E fd \in Fd, n \in Sizes : Blocks("tcp_read", fd, n) \/ Blocks("tcp_write", fd, n)
  BY <1>5, BlocksOK
<1>6. CASE ReadReturns \/ WriteReturns \/ CallFails
  BY <1>6, CallsOK
<1>7. CASE \E c \in Conn : PeerSends(c) \/ PeerCloses(c) \/ PeerDrains(c) \/ PeerResets(c)
  BY <1>7, PeersOK
<1>8. CASE UNCHANGED vars
  <2>1. /\ pc' = pc /\ kind' = kind /\ db' = db /\ prepared' = prepared
        /\ connections' = connections /\ call' = call /\ reply' = reply
        /\ sock' = sock /\ guest' = guest
    BY <1>8 DEF vars, host
  <2>2. TypeOK' /\ Stages' /\ Blocked' /\ DbGetExact' /\ ReplyIsPrepared'
    BY <2>1 DEF IInv, TypeOK, Stages, Blocked, DbGetExact, ReplyIsPrepared
  <2>3. Descriptors' /\ Owned' /\ StreamsIntact'
    BY <2>1 DEF IInv, Streams, Descriptors, Owned, StreamsIntact
  <2> QED  BY <2>2, <2>3 DEF IInv, Streams
<1> QED  BY <1>1, <1>2, <1>3, <1>4, <1>5, <1>6, <1>7, <1>8 DEF Next, Thread

\* The slab, the kernel's sockets and what the guest was told stay in step, through
\* every call that blocks or fails and to the end of the request.
THEOREM Inductive == Spec => []IInv
<1> QED  BY InitOK, NextOK, PTL DEF Spec

\* Every variable keeps its type: no count of bytes leaves its range, and a function
\* that blocks has the arguments of its call.
THEOREM TypeCorrect == Spec => []TypeOK
<1>1. IInv => TypeOK
  BY DEF IInv
<1> QED  BY <1>1, Inductive, PTL

\* What the guest was told to have read and written on a descriptor is what went
\* through one and the same connection.
THEOREM StreamsAreIntact == Spec => []StreamsIntact
<1>1. IInv => StreamsIntact
  BY DEF IInv, Streams
<1> QED  BY <1>1, Inductive, PTL

\* An open socket has exactly one descriptor: none leaks at a full slab, nor does one
\* outlive the request.
THEOREM SocketsAreHeld == Spec => []SocketsHaveDescriptors
<1>1. IInv => SocketsHaveDescriptors
  <2> SUFFICES ASSUME IInv, NEW c \in Conn
               PROVE  LET fds == {fd \in Fd : guest.fds[fd] = c} IN
                        /\ sock[c].phase = "open" => \E fd \in fds : pc # "done" /\ fds = {fd}
                        /\ sock[c].phase = "closed" => fds = {}
    BY DEF SocketsHaveDescriptors
  <2> DEFINE fds == {fd \in Fd : guest.fds[fd] = c}
  <2>1. sock[c].phase = "open" => \E fd \in fds : pc # "done" /\ fds = {fd}
    <3> SUFFICES ASSUME sock[c].phase = "open"
                 PROVE  \E fd \in fds : pc # "done" /\ fds = {fd}
      OBVIOUS
    <3>1. PICK fd \in Fd : guest.fds[fd] = c /\ \A e \in Fd : guest.fds[e] = c => e = fd
      BY DEF IInv, Streams, Owned
    <3>2. fd \in fds /\ fds = {fd}
      BY <3>1
    <3>3. pc # "done"
      BY DEF IInv, Streams, Owned
    <3> QED  BY <3>2, <3>3
  <2>2. sock[c].phase = "closed" => fds = {}
    BY DEF IInv, Streams, Owned
  <2> QED  BY <2>1, <2>2
<1> QED  BY <1>1, Inductive, PTL

\* db::get returns the value of the environment, for values of any length and any
\* characters.
THEOREM DbGetIsExact == Spec => []DbGetExact
<1>1. IInv => DbGetExact
  BY DEF IInv
<1> QED  BY <1>1, Inductive, PTL

\* The client gets the guest's last status and body, or an error.
THEOREM ReplyPrepared == Spec => []ReplyIsPrepared
<1>1. IInv => ReplyIsPrepared
  BY DEF IInv
<1> QED  BY <1>1, Inductive, PTL

=============================================================================
