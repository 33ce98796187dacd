------------------------------- MODULE Router -------------------------------
(***************************************************************************)
(* What a configuration promises: the server starts with all of its        *)
(* applications or not at all, and a request is handled by the last one    *)
(* that is configured for its method and path.                             *)
(***************************************************************************)
EXTENDS Naturals, Sequences

CONSTANTS Keys, None

VARIABLES
  config,     \* the applications, in the order of the file
  status,     \* "starting", "up" or "down"
  handled     \* the last request, and the application that it was given to

vars == <<config, status, handled>>

\* The applications for k, by their place in the file.
For(k) == {n \in 1..Len(config) : config[n].key = k}

Latest(k) == CHOOSE n \in For(k) : \A m \in For(k) : m <= n

Chosen(k) == IF For(k) = {} THEN None ELSE config[Latest(k)]

Init == status = "starting" /\ handled = None

Start == status = "starting" /\ status' = "up" /\ UNCHANGED <<config, handled>>
Stop  == status \in {"starting", "up"} /\ status' = "down" /\ UNCHANGED <<config, handled>>

Handle(k) ==
  /\ status = "up"
  /\ handled' = [key |-> k, by |-> Chosen(k)]
  /\ UNCHANGED <<config, status>>

Next == Start \/ Stop \/ \E k \in Keys : Handle(k)

Spec == Init /\ [][Next]_vars

=============================================================================
