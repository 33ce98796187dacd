--------------------------- MODULE MCAsyncServer ---------------------------
(***************************************************************************)
(* Instances of AsyncServer for TLC.                                       *)
(*                                                                         *)
(* The server looks at the kernel in poll and in the system calls it makes *)
(* for a session, and nowhere else: a step of a peer in between commutes   *)
(* with the server's steps up to the next of these points, or touches a    *)
(* socket that is closed before it.  MCSpec takes the peers' steps at      *)
(* these points, and while the server spins and will not reach another,    *)
(* which keeps the states the server can tell apart.                       *)
(***************************************************************************)
EXTENDS AsyncServer, TLC

Symmetry == Permutations(Sess) \cup Permutations(Index)
SlabSymmetry == Permutations(Index)

AtSystemCall ==
  \/ pc = "poll"
  \/ AtFrontReadable
  \/ Spinning
  \/ AtProcess /\ My.state.tag \in {"TcpRead", "TcpWrite"} /\ Usable # {}

MCSpec == Init /\ [][Server \/ (AtSystemCall /\ Peers)]_vars

MCFairSpec == MCSpec /\ Fairness

=============================================================================
