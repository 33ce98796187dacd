---------------------------- MODULE MCSyncServer ----------------------------
(***************************************************************************)
(* Instances of SyncServer for TLC.  Backends are alike, and so are bodies. *)
(***************************************************************************)
EXTENDS SyncServer, TLC

\* "": no byte.  "ab": two characters of a byte.  "e" with an accent: one of two.
SomeValues == {{0}, {0, 1, 2}, {0, 2}}

\* A guest uses the environment and sets headers and a body, or talks to its backends.
TalksOrPrepares ==
  \/ \A fd \in Fd : guest.fds[fd] = None
  \/ /\ guest.said.body = None /\ ~guest.said.headers
     /\ \A k \in Keys : db[k] = None /\ guest.found[k] = {}

Symmetry == Permutations(Conn) \cup Permutations(Bodies)

=============================================================================
