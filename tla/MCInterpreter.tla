--------------------------- MODULE MCInterpreter ---------------------------
(***************************************************************************)
(* An instance of Interpreter for TLC: functions with and without a value, *)
(* and one host function of each kind.                                     *)
(***************************************************************************)
EXTENDS Interpreter, TLC

Symmetry == Permutations(Values)

=============================================================================
