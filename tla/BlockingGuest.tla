--------------------------- MODULE BlockingGuest ---------------------------
(***************************************************************************)
(* What a guest is promised of the functions it imports: a call to the     *)
(* host, however long it takes, is a call.  The guest is a stack of        *)
(* functions, the innermost first; the host works on one call of the       *)
(* innermost function at a time, and its result is the only thing that     *)
(* reaches that function before it goes on.                                *)
(***************************************************************************)
EXTENDS Naturals, Sequences

CONSTANTS
  Funcs,      \* the functions of the module
  Imports,    \* the functions of the host
  Results,    \* the functions of either kind that return a value
  Values,     \* the values they return
  Start,      \* the exported function that the route names
  None        \* no function

VARIABLES
  frames,     \* the functions that have not returned, with what they were given
  blocked,    \* the import that the innermost one waits for
  status      \* "running", "returned" or "trapped"

vars == <<frames, blocked, status>>

\* What a call of f leaves for its caller.
Outcomes(f) == IF f \in Results THEN {<<v>> : v \in Values} ELSE {<<>>}

Init ==
  /\ frames = <<[func |-> Start, given |-> <<>>]>>
  /\ blocked = None
  /\ status = "running"

Goes == status = "running" /\ blocked = None

Top(given) == [func |-> Head(frames).func, given |-> given]

Call(f) ==
  /\ Goes
  /\ frames' = <<[func |-> f, given |-> <<>>]>> \o (<<Top(<<>>)>> \o Tail(frames))
  /\ UNCHANGED <<blocked, status>>

Return ==
  /\ Goes
  /\ \E out \in Outcomes(Head(frames).func) :
       frames' = IF Tail(frames) = <<>> THEN <<>>
                 ELSE <<[func |-> frames[2].func, given |-> out]>> \o Tail(Tail(frames))
  /\ status' = IF Tail(frames) = <<>> THEN "returned" ELSE status
  /\ UNCHANGED blocked

\* The host answers at once, or later.
Answered(h) ==
  /\ Goes
  /\ \E out \in Outcomes(h) : frames' = <<Top(out)>> \o Tail(frames)
  /\ UNCHANGED <<blocked, status>>

Block(h) ==
  /\ Goes
  /\ blocked' = h
  /\ frames' = <<Top(<<>>)>> \o Tail(frames)
  /\ UNCHANGED status

Unblock ==
  /\ status = "running" /\ blocked # None
  /\ \E out \in Outcomes(blocked) : frames' = <<Top(out)>> \o Tail(frames)
  /\ blocked' = None
  /\ UNCHANGED status

Trap ==
  /\ Goes
  /\ status' = "trapped" /\ frames' = <<>>
  /\ UNCHANGED blocked

Next ==
  \/ \E f \in Funcs : Call(f)
  \/ Return \/ Unblock \/ Trap
  \/ \E h \in Imports : Answered(h) \/ Block(h)

Spec == Init /\ [][Next]_vars

=============================================================================
