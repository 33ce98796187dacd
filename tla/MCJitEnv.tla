------------------------------ MODULE MCJitEnv ------------------------------
(***************************************************************************)
(* Instances of JitEnv for TLC.                                            *)
(***************************************************************************)
EXTENDS JitEnv

SomeParams == {<<>>, <<"i32">>}

=============================================================================
