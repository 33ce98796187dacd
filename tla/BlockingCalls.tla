--------------------------- MODULE BlockingCalls ---------------------------
(***************************************************************************)
(* What the asynchronous server promises a guest of tcp_connect, tcp_read  *)
(* and tcp_write: blocking calls on sockets of its own.  There is no poll, *)
(* no token, no readiness and no parked session here: a guest runs, or is  *)
(* in one call on one socket, and the call ends by what the kernel does    *)
(* with that socket.  A session is only dropped before its guest starts or *)
(* after it returned.                                                      *)
(*                                                                         *)
(* What is not promised shows too: tcp_connect may end before the          *)
(* connection is made, and a tcp_read that finds nothing answers 0,        *)
(* whether or not the stream has ended.                                    *)
(***************************************************************************)
EXTENDS Integers

CONSTANTS
  Sess,       \* names for the sessions alive at one time
  Index,      \* the descriptors
  None,       \* no descriptor
  Sizes,      \* the sizes of the calls
  MaxSpace    \* what the kernel takes before a peer drains it

VARIABLES
  client,     \* the descriptor of a session's client, or None
  call,       \* what its guest does
  sock        \* its sockets, by descriptor

vars == <<client, call, sock>>

----------------------------------------------------------------------------
NotStarted      == [op |-> "none"]
Runs(given)     == [op |-> "run", given |-> given]    \* the answer to its last call
Connects(i)     == [op |-> "connect", fd |-> i]
Reads(i, n)     == [op |-> "read", fd |-> i, size |-> n]
Writes(i, n, k) == [op |-> "write", fd |-> i, size |-> n, taken |-> k]
Done            == [op |-> "returned"]

NewSocket(p) == [phase |-> p, avail |-> 0, eof |-> FALSE, space |-> MaxSpace]

Least(m, n) == IF m < n THEN m ELSE n

Running(s) == call[s].op = "run"
Fd(s)      == call[s].fd
Peer(s)    == sock[s][Fd(s)]

Init ==
  /\ client = [s \in Sess |-> None]
  /\ call = [s \in Sess |-> NotStarted]
  /\ sock = [s \in Sess |-> [i \in Index |-> NewSocket("none")]]

\* The guest of s does c next.
Goes(s, c) == call' = [call EXCEPT ![s] = c] /\ UNCHANGED <<client, sock>>

\* Its socket i becomes k.
Becomes(s, i, k) == sock' = [sock EXCEPT ![s][i] = k]

----------------------------------------------------------------------------
(* The session.                                                            *)

Accept(s) ==
  /\ client[s] = None
  /\ \E i \in Index :
       /\ client' = [client EXCEPT ![s] = i]
       /\ sock' = [sock EXCEPT ![s] =
                     [j \in Index |-> NewSocket(IF j = i THEN "open" ELSE "none")]]
  /\ UNCHANGED call

\* Bytes of the request, before the guest starts.
Receive(s) ==
  /\ client[s] # None /\ call[s] = NotStarted
  /\ \E n \in 1..sock[s][client[s]].avail :
       Becomes(s, client[s], [sock[s][client[s]] EXCEPT !.avail = @ - n])
  /\ UNCHANGED <<client, call>>

Start(s) == client[s] # None /\ call[s] = NotStarted /\ Goes(s, Runs(<<>>))

Return(s) == Running(s) /\ Goes(s, Done)

Close(s) ==
  /\ client[s] # None /\ call[s] \in {NotStarted, Done}
  /\ client' = [client EXCEPT ![s] = None]
  /\ call' = [call EXCEPT ![s] = NotStarted]
  /\ sock' = [sock EXCEPT ![s] = [i \in Index |-> NewSocket("none")]]

----------------------------------------------------------------------------
(* The calls.                                                              *)

\* A connection gets a descriptor that names no other socket of the guest.
Connect(s) ==
  /\ Running(s)
  /\ \E i \in Index :
       /\ sock[s][i].phase = "none"
       /\ call' = [call EXCEPT ![s] = Connects(i)]
       /\ Becomes(s, i, NewSocket("connecting"))
  /\ UNCHANGED client

ConnectEnds(s) == call[s].op = "connect" /\ Goes(s, Runs(<<Fd(s)>>))

\* There is no descriptor left, and no answer.
ConnectIsRefused(s) == Running(s) /\ Goes(s, Runs(<<>>))

Opened(s, i) == sock[s][i].phase # "none" /\ i # client[s]

Read(s) ==
  Running(s) /\ \E i \in Index, n \in Sizes : Opened(s, i) /\ Goes(s, Reads(i, n))

\* A read takes what it counts.
ReadEnds(s) ==
  /\ call[s].op = "read" /\ Peer(s).avail > 0
  /\ LET n == Least(Peer(s).avail, call[s].size)
     IN /\ call' = [call EXCEPT ![s] = Runs(<<n>>)]
        /\ Becomes(s, Fd(s), [Peer(s) EXCEPT !.avail = @ - n])
  /\ UNCHANGED client

ReadFindsNothing(s) ==
  /\ call[s].op = "read" /\ Peer(s).avail = 0 /\ Peer(s).phase \notin {"refused", "reset"}
  /\ Goes(s, Runs(<<0>>))

Write(s) ==
  Running(s) /\ \E i \in Index, n \in Sizes : Opened(s, i) /\ Goes(s, Writes(i, n, 0))

\* The kernel takes what it has room for; the call ends when it has taken all.
WriteMoves(s) ==
  /\ call[s].op = "write" /\ Peer(s).phase = "open"
  /\ Peer(s).space > 0 \/ call[s].size = 0
  /\ LET n     == Least(Peer(s).space, call[s].size - call[s].taken)
         taken == call[s].taken + n
     IN /\ call' = [call EXCEPT ![s] =
                      IF taken = call[s].size THEN Runs(<<taken>>)
                      ELSE Writes(Fd(s), call[s].size, taken)]
        /\ Becomes(s, Fd(s), [Peer(s) EXCEPT !.space = @ - n])
  /\ UNCHANGED client

\* A read or a write on a broken connection; only a write fails a second time.
Fails(s) ==
  /\ \/ call[s].op = "read" /\ Peer(s).avail = 0 /\ Peer(s).phase \in {"refused", "reset"}
     \/ call[s].op = "write" /\ Peer(s).phase \in {"refused", "reset", "dead"}
  /\ call' = [call EXCEPT ![s] = Runs(<<-1>>)]
  /\ Becomes(s, Fd(s), [Peer(s) EXCEPT !.phase = "dead"])
  /\ UNCHANGED client

----------------------------------------------------------------------------
(* The peers: k is the socket i of s.                                      *)

PeerStep(s, i) ==
  LET k == sock[s][i] IN
  /\ \/ /\ k.phase = "connecting"
        /\ \E p \in {"open", "refused"} : Becomes(s, i, [k EXCEPT !.phase = p])
     \/ /\ k.phase = "open"
        /\ \/ Becomes(s, i, [k EXCEPT !.phase = "reset"])
           \/ Becomes(s, i, [k EXCEPT !.space = MaxSpace])
           \/ ~k.eof /\ Becomes(s, i, [k EXCEPT !.eof = TRUE])
           \/ /\ ~k.eof /\ sock'[s][i].avail > k.avail
              /\ Becomes(s, i, [k EXCEPT !.avail = sock'[s][i].avail])
  /\ UNCHANGED <<client, call>>

Step(s) ==
  \/ Accept(s) \/ Receive(s) \/ Start(s) \/ Return(s) \/ Close(s)
  \/ Connect(s) \/ ConnectEnds(s) \/ ConnectIsRefused(s)
  \/ Read(s) \/ ReadEnds(s) \/ ReadFindsNothing(s)
  \/ Write(s) \/ WriteMoves(s) \/ Fails(s)
  \/ \E i \in Index : PeerStep(s, i)

Next == \E s \in Sess : Step(s)

Spec == Init /\ [][Next]_vars

=============================================================================
