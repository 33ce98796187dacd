----------------------------- MODULE SyncServer -----------------------------
(***************************************************************************)
(* The synchronous server (src/sync): one request on a thread of rouille,  *)
(* its host functions, which block, and db::get of the guest's API.  The   *)
(* threads share only the routes, which never change: one is enough.       *)
(*                                                                         *)
(* The guest may make any call of serverless-api in any order, so its      *)
(* buffers lie in its memory and its status has 16 bits.                   *)
(***************************************************************************)
EXTENDS Integers, Sequences

CONSTANTS
  Conn,       \* the connections that backends may take
  Capacity,   \* of the slab of connections; 100 in State::new
  Keys,       \* of the environment of an application
  Values,     \* each as the set of its character boundaries, in bytes
  Codes, Bodies,
  Sizes,      \* of the buffers that the guest reads into and writes from
  MaxBytes,   \* bound: bytes that go through a connection, either way
  MaxSpace,   \* bound: the room of a connection's send buffer
  None

ASSUME SlabAssumption  == Capacity \in Nat /\ None \notin Conn
ASSUME ValueAssumption ==
  \A v \in Values : /\ 0 \in v
                    /\ \E n \in v : v \subseteq 0..n
ASSUME ApiAssumption   == Codes \subseteq 0..65535
ASSUME SizesAssumption == Sizes \subseteq Nat
ASSUME BoundAssumption == {MaxBytes, MaxSpace} \subseteq Nat
ASSUME NoneAssumption  == \A S \in {Codes, Bodies, Values} : None \notin S

VARIABLES
  pc,           \* of the thread; the name of the host function that blocks
  kind,         \* of the request
  db,           \* State::db
  prepared,     \* State::prepared_response
  connections,  \* State::connections: never removed from, index fd at fd + 1
  call,         \* the arguments of the host function that blocks
  reply,        \* what rouille sends to the client
  sock,         \* the kernel's side of the connections
  guest         \* what the guest did and was told

host == <<db, prepared, connections>>
vars == <<pc, kind, host, call, reply, sock, guest>>

Fd == 0..(Capacity - 1)

Response == [status : Codes \cup {None}, headers : BOOLEAN, body : Bodies \cup {None}]
Empty    == [status |-> None, headers |-> FALSE, body |-> None]

\* sent and taken count the bytes from and to the backend.
Socket ==
  [phase : {"closed", "open", "dropped"}, sent : 0..MaxBytes, avail : 0..MaxBytes,
   taken : 0..MaxBytes, space : 0..MaxSpace, eof : BOOLEAN, broken : BOOLEAN]
NewSocket(p) ==
  [phase |-> p, sent |-> 0, avail |-> 0, taken |-> 0, space |-> MaxSpace,
   eof |-> FALSE, broken |-> FALSE]

\* fds: the connection for which the guest was told a descriptor; got and gave: the
\* bytes it was told to have read and written; found: what db::get returned, if it
\* was called; said: the response as it was last told to the host.
Guest ==
  [fds : [Fd -> Conn \cup {None}], got : [Fd -> 0..MaxBytes], gave : [Fd -> 0..MaxBytes],
   found : [Keys -> SUBSET (Values \cup {None})], said : Response]
NewGuest ==
  [fds |-> [fd \in Fd |-> None], got |-> [fd \in Fd |-> 0], gave |-> [fd \in Fd |-> 0],
   found |-> [k \in Keys |-> {}], said |-> Empty]

Reply == [code : {"404", "panic", "wasm failed"}] \cup [code : {"guest"}, response : Response]

Init ==
  /\ pc = "idle" /\ kind = None /\ call = None /\ reply = None
  /\ db = [k \in Keys |-> None] /\ prepared = Empty /\ connections = <<>>
  /\ sock = [c \in Conn |-> NewSocket("closed")]
  /\ guest = NewGuest

----------------------------------------------------------------------------
(* The request.                                                            *)

\* What is left when the handler is over: State is dropped, and its sockets.
Ends(r) ==
  /\ pc' = "done" /\ reply' = r /\ call' = None
  /\ connections' = <<>>
  /\ sock' = [c \in Conn |-> IF sock[c].phase = "open"
                               THEN [sock[c] EXCEPT !.phase = "dropped"] ELSE sock[c]]

\* rouille answers for a handler that panicked.
Panics == Ends([code |-> "panic"]) /\ UNCHANGED <<kind, db, prepared, guest>>

ClientAsks(k) ==
  /\ pc = "idle"
  /\ pc' = "handler" /\ kind' = k
  /\ UNCHANGED <<host, call, reply, sock, guest>>

NoRoute ==
  /\ pc = "handler" /\ kind = "noroute"
  /\ Ends([code |-> "404"]) /\ UNCHANGED <<kind, db, prepared, guest>>

\* The module cannot be instantiated, has a start function or lacks the export.
InstantiatePanic == pc = "handler" /\ kind = "broken" /\ Panics

\* State::new, its db extended with the environment of the route.
Instantiate ==
  /\ pc = "handler" /\ kind = "app"
  /\ db' \in [Keys -> Values \cup {None}]
  /\ pc' = "guest"
  /\ UNCHANGED <<kind, prepared, connections, call, reply, sock, guest>>

\* Mutant: the response is the one that was cloned before the guest ran.
GuestEndsTooEarly ==
  /\ pc = "guest"
  /\ Ends([code |-> "wasm failed"]) /\ UNCHANGED <<kind, db, prepared, guest>>

\* The guest returns or traps: the result of resume is only printed.
GuestEnds ==
  /\ pc = "guest"
  /\ Ends(IF prepared.status # None /\ prepared.body # None
            THEN [code |-> "guest", response |-> [prepared EXCEPT !.headers = FALSE]]
            ELSE [code |-> "wasm failed"])
  /\ UNCHANGED <<kind, db, prepared, guest>>

\* A host function panics on its arguments, an unknown descriptor among them.
GuestFault == pc = "guest" /\ Panics

----------------------------------------------------------------------------
(* The response and the environment.                                       *)

Prepares(r) ==
  /\ pc = "guest"
  /\ prepared' = r
  /\ UNCHANGED <<pc, kind, db, connections, call, reply, sock>>

SetStatus(n) ==
  /\ Prepares([prepared EXCEPT !.status = n])
  /\ guest' = [guest EXCEPT !.said.status = n]
SetHeader ==
  /\ Prepares([prepared EXCEPT !.headers = TRUE])
  /\ guest' = [guest EXCEPT !.said.headers = TRUE]
SetBody(b) ==
  /\ Prepares([prepared EXCEPT !.body = b])
  /\ guest' = [guest EXCEPT !.said.body = b]

Length(v) == CHOOSE n \in v : v \subseteq 0..n

\* Mutant: the number of bytes written is returned.
DbGetWritten(k, n) ==
  IF db[k] = None THEN [result |-> -1, written |-> {0}]
  ELSE LET cut == IF n < Length(db[k]) THEN n ELSE Length(db[k])
       IN  [result |-> cut, written |-> {m \in db[k] : m <= cut}]

\* DB_GET into a buffer of n bytes, which do not end inside a character: what it
\* returns and what it writes.
DbGet(k, n) ==
  IF db[k] = None THEN [result |-> -1, written |-> {0}]
  ELSE [result |-> Length(db[k]), written |-> {m \in db[k] : m <= n}]

\* db::get asks for the size with an empty buffer ...
DbAsks(k) ==
  /\ pc = "guest"
  /\ LET r == DbGet(k, 0) IN
       IF r.result > 0
         THEN /\ pc' = "db_get" /\ call' = [key |-> k, size |-> r.result]
              /\ UNCHANGED guest
         ELSE /\ guest' = [guest EXCEPT !.found[k] = {IF r.result < 0 THEN None ELSE {0}}]
              /\ UNCHANGED <<pc, call>>
  /\ UNCHANGED <<kind, host, reply, sock>>

\* ... and then for the value.
DbFetches ==
  /\ pc = "db_get"
  /\ LET r == DbGet(call.key, call.size) IN
       guest' = [guest EXCEPT !.found[call.key] =
                   {IF r.result < 0 THEN None
                    ELSE IF r.result = 0 THEN {0}
                    ELSE IF r.result # call.size THEN None ELSE r.written}]
  /\ pc' = "guest" /\ call' = None
  /\ UNCHANGED <<kind, host, reply, sock>>

----------------------------------------------------------------------------
(* The connections.                                                        *)

\* Mutant: a socket that finds the slab full stays open.
ConnectsAndKeeps(c) ==
  /\ pc = "guest" /\ sock[c].phase = "closed"
  /\ sock' = [sock EXCEPT ![c] = NewSocket("open")]
  /\ IF Len(connections) < Capacity
       THEN /\ connections' = Append(connections, c)
            /\ guest' = [guest EXCEPT !.fds[Len(connections)] = c]
       ELSE UNCHANGED <<connections, guest>>
  /\ UNCHANGED <<pc, kind, db, prepared, call, reply>>

\* TCP_CONNECT: a descriptor, or -2 (a full slab) and the socket is dropped; -1 (no
\* connection) changes nothing.
Connects(c) ==
  /\ pc = "guest" /\ sock[c].phase = "closed"
  /\ IF Len(connections) < Capacity
       THEN /\ connections' = Append(connections, c)
            /\ sock' = [sock EXCEPT ![c] = NewSocket("open")]
            /\ guest' = [guest EXCEPT !.fds[Len(connections)] = c]
       ELSE /\ sock' = [sock EXCEPT ![c] = NewSocket("dropped")]
            /\ UNCHANGED <<connections, guest>>
  /\ UNCHANGED <<pc, kind, db, prepared, call, reply>>

\* TCP_READ and TCP_WRITE enter the system call ...
Blocks(name, fd, n) ==
  /\ pc = "guest" /\ guest.fds[fd] # None
  /\ pc' = name /\ call' = [fd |-> fd, size |-> n]
  /\ UNCHANGED <<kind, host, reply, sock, guest>>

\* Mutant: the connection that was made last.
CalledLatest == connections[Len(connections)]

Called == connections[call.fd + 1]

\* ... and leave it, the guest told of k bytes read and m written.
Unblocks(k, m) ==
  /\ pc' = "guest" /\ call' = None
  /\ guest' = [guest EXCEPT !.got[call.fd] = @ + k, !.gave[call.fd] = @ + m]
  /\ UNCHANGED <<kind, host, reply>>

\* What a read of n bytes may return; nothing yet, and it blocks.
Readable(k, n) ==
  IF n = 0 THEN {0}
  ELSE IF k.avail > 0 THEN {m \in 1..n : m <= k.avail}
  ELSE IF k.eof \/ k.broken THEN {0} ELSE {}

\* Mutant: the size asked for is returned, not the size read.
ReadReturnsAsAsked ==
  /\ pc = "tcp_read"
  /\ \E m \in Readable(sock[Called], call.size) :
       /\ sock' = [sock EXCEPT ![Called].avail = @ - m]
       /\ Unblocks(call.size, 0)

ReadReturns ==
  /\ pc = "tcp_read"
  /\ \E m \in Readable(sock[Called], call.size) :
       /\ sock' = [sock EXCEPT ![Called].avail = @ - m]
       /\ Unblocks(m, 0)

\* Write, not write_all: it may be short.
WriteReturns ==
  /\ pc = "tcp_write"
  /\ \E m \in 0..call.size :
       /\ m > 0 \/ call.size = 0
       /\ m <= sock[Called].space /\ sock[Called].taken + m <= MaxBytes
       /\ ~sock[Called].broken
       /\ sock' = [sock EXCEPT ![Called].space = @ - m, ![Called].taken = @ + m]
       /\ Unblocks(0, m)

\* -1: the connection is broken.
CallFails ==
  /\ pc \in {"tcp_read", "tcp_write"} /\ call.size > 0
  /\ sock[Called].broken
  /\ Unblocks(0, 0) /\ UNCHANGED sock

Thread ==
  \/ NoRoute \/ InstantiatePanic \/ Instantiate \/ GuestEnds \/ GuestFault
  \/ \E n \in Codes : SetStatus(n)
  \/ SetHeader
  \/ \E b \in Bodies : SetBody(b)
  \/ \E k \in Keys : DbAsks(k)
  \/ DbFetches
  \/ \E c \in Conn : Connects(c)
  \/ \E fd \in Fd, n \in Sizes : Blocks("tcp_read", fd, n) \/ Blocks("tcp_write", fd, n)
  \/ ReadReturns \/ WriteReturns \/ CallFails

----------------------------------------------------------------------------
(* The client and the backends.                                            *)

Changes(c, k) ==
  /\ sock[c].phase = "open" /\ ~sock[c].broken
  /\ sock' = [sock EXCEPT ![c] = k]
  /\ UNCHANGED <<pc, kind, host, call, reply, guest>>

PeerSends(c) ==
  /\ ~sock[c].eof /\ sock[c].sent < MaxBytes
  /\ Changes(c, [sock[c] EXCEPT !.sent = @ + 1, !.avail = @ + 1])
PeerCloses(c) == ~sock[c].eof /\ Changes(c, [sock[c] EXCEPT !.eof = TRUE])
PeerDrains(c) ==
  sock[c].space < MaxSpace /\ Changes(c, [sock[c] EXCEPT !.space = @ + 1])
\* What was not read yet is lost.
PeerResets(c) ==
  Changes(c, [sock[c] EXCEPT !.broken = TRUE, !.sent = @ - sock[c].avail, !.avail = 0])

Next ==
  \/ \E k \in {"app", "noroute", "broken"} : ClientAsks(k)
  \/ Thread
  \/ \E c \in Conn : PeerSends(c) \/ PeerCloses(c) \/ PeerDrains(c) \/ PeerResets(c)

Spec == Init /\ [][Next]_vars

----------------------------------------------------------------------------
(* Correctness.                                                            *)

Calls == [fd : Fd, size : Sizes] \cup [key : Keys, size : Nat]

TypeOK ==
  /\ pc \in {"idle", "handler", "guest", "tcp_read", "tcp_write", "db_get", "done"}
  /\ kind \in {None, "app", "noroute", "broken"}
  /\ db \in [Keys -> Values \cup {None}] /\ prepared \in Response
  /\ connections \in Seq(Conn) /\ call \in Calls \cup {None}
  /\ reply \in Reply \cup {None}
  /\ sock \in [Conn -> Socket] /\ guest \in Guest

\* A descriptor stands for one connection until the end of the request: what the
\* guest was told to have read from and written to it is what the backend sent and
\* the kernel took on that connection, over short reads and writes and failures.
StreamsIntact ==
  pc # "done" =>
    \A fd \in Fd : guest.fds[fd] # None =>
      LET k == sock[guest.fds[fd]] IN
        /\ k.sent = guest.got[fd] + k.avail
        /\ k.taken = guest.gave[fd]

\* The sockets that are open are those that the guest has a descriptor for, each
\* under one: none is left open by a full slab or after the request.
SocketsHaveDescriptors ==
  \A c \in Conn :
    LET fds == {fd \in Fd : guest.fds[fd] = c} IN
      /\ sock[c].phase = "open" => \E fd \in fds : pc # "done" /\ fds = {fd}
      /\ sock[c].phase = "closed" => fds = {}

\* db::get returns the value of the environment, whatever its length and its
\* characters, although it asks in two calls.
DbGetExact == \A k \in Keys : guest.found[k] \subseteq {db[k]}

\* The client gets the guest's last status and body, if it set both, and otherwise
\* an error; also from a guest that trapped.
ReplyIsPrepared ==
  reply # None =>
    /\ reply.code = "guest" =>
         /\ reply.response.status = guest.said.status /\ guest.said.status # None
         /\ reply.response.body = guest.said.body /\ guest.said.body # None
    /\ reply.code = "wasm failed" => None \in {guest.said.status, guest.said.body}
    /\ reply.code = "404" <=> kind = "noroute"

\* README.md:60: "the following functions, that you can use to build your response",
\* among them response_set_header.
HeadersAreSent ==
  reply # None /\ reply.code = "guest" => reply.response.headers = guest.said.headers

=============================================================================
