---------------------------- MODULE Interpreter ----------------------------
(***************************************************************************)
(* The interpreter loop and WasmInstance (src/interpreter.rs): a guest as  *)
(* a stack of function contexts that is taken apart and put together       *)
(* around every call, and that a host function can leave by a trap, to be  *)
(* entered again by resume once add_function_result has answered the call. *)
(*                                                                         *)
(* Of the value stack of a context only what was pushed on it since the    *)
(* context last ran is kept: the operands below belong to wasmi.           *)
(***************************************************************************)
EXTENDS Naturals, Sequences

CONSTANTS
  Funcs,      \* the functions of the module
  Imports,    \* the host functions that it imports
  Trapping,   \* those that leave the interpreter: tcp_connect, tcp_read, tcp_write
  Results,    \* the functions of either kind that return a value
  Values,     \* the values they return
  Start,      \* the exported function that the route names
  None,       \* no context, no function
  MaxDepth    \* bound: nested calls (the code has none)

ASSUME FunctionsAssumption ==
  /\ Start \in Funcs /\ Funcs \cap Imports = {}
  /\ None \notin Funcs \cup Imports
  /\ Trapping \subseteq Imports \cap Results
  /\ Results \subseteq Funcs \cup Imports /\ Values # {}
ASSUME DepthAssumption == MaxDepth \in Nat

VARIABLES
  stack,      \* WasmInstance::stack, the innermost context first
  context,    \* function_context: popped in this turn of the loop
  pc,         \* "loop", "run", or how resume came back
  trapped     \* the host function whose result is awaited

vars == <<stack, context, pc, trapped>>

\* awaits: the call the context is suspended in returns a value.
Context == [func : Funcs, initialized : BOOLEAN, awaits : BOOLEAN, pushed : Seq(Values)]

ASSUME ContextAssumption == None \notin Context

NewContext(f) == [func |-> f, initialized |-> FALSE, awaits |-> FALSE, pushed |-> <<>>]

\* value_stack_mut().push(v)
Push(c, v) == [c EXCEPT !.pushed = Append(@, v)]

\* WasmInstance::new, create_stack
Init ==
  /\ stack = <<NewContext(Start)>>
  /\ context = None
  /\ pc = "suspended"
  /\ trapped = None

\* WasmInstance::resume, once the call it came back with is answered.
Resume ==
  /\ pc = "suspended" /\ trapped = None
  /\ pc' = "loop"
  /\ UNCHANGED <<stack, context, trapped>>

LoopEntry ==
  /\ pc = "loop"
  /\ context' = [Head(stack) EXCEPT !.initialized = TRUE]
  /\ stack' = Tail(stack)
  /\ pc' = "run"
  /\ UNCHANGED trapped

\* do_run_function takes what was pushed and runs to the next call: Calling(f) is
\* the context then, suspended in a call of f.
Calling(f) == [context EXCEPT !.awaits = f \in Results, !.pushed = <<>>]

\* Mutant: the absence of a value is pushed like a value.
RunReturnPushesNone ==
  /\ pc = "run"
  /\ context' = None
  /\ IF stack = <<>>
       THEN pc' = "returned" /\ UNCHANGED stack
       ELSE pc' = "loop" /\ stack' = <<Push(Head(stack), None)>> \o Tail(stack)
  /\ UNCHANGED trapped

\* RunResult::Return: the value goes on the caller's stack.
RunReturn ==
  /\ pc = "run"
  /\ context' = None
  /\ IF stack = <<>>
       THEN pc' = "returned" /\ UNCHANGED stack
       ELSE /\ pc' = "loop"
            /\ IF context.func \in Results
                 THEN \E v \in Values : stack' = <<Push(Head(stack), v)>> \o Tail(stack)
                 ELSE UNCHANGED stack
  /\ UNCHANGED trapped

\* RunResult::NestedCall, invoke_context: of a function of the module ...
RunCall(f) ==
  /\ pc = "run" /\ Len(stack) + 2 <= MaxDepth
  /\ stack' = <<NewContext(f)>> \o (<<Calling(f)>> \o stack)
  /\ context' = None /\ pc' = "loop"
  /\ UNCHANGED trapped

\* Mutant: a value is pushed for every host function.
RunHostAlwaysPushes(h) ==
  /\ pc = "run" /\ h \notin Trapping
  /\ \E v \in Values : stack' = <<Push(Calling(h), v)>> \o stack
  /\ context' = None /\ pc' = "loop"
  /\ UNCHANGED trapped

\* ... of a host function that returns, its value pushed by invoke_context ...
RunHost(h) ==
  /\ pc = "run" /\ h \notin Trapping
  /\ IF h \in Results
       THEN \E v \in Values : stack' = <<Push(Calling(h), v)>> \o stack
       ELSE stack' = <<Calling(h)>> \o stack
  /\ context' = None /\ pc' = "loop"
  /\ UNCHANGED trapped

\* Mutant: the context of the caller is not pushed back.
RunHostTrapLosesContext(h) ==
  /\ pc = "run" /\ h \in Trapping
  /\ UNCHANGED stack
  /\ context' = None /\ pc' = "suspended" /\ trapped' = h

\* ... of a host function that traps out of the loop: the context is kept ...
RunHostTrap(h) ==
  /\ pc = "run" /\ h \in Trapping
  /\ stack' = <<Calling(h)>> \o stack
  /\ context' = None /\ pc' = "suspended" /\ trapped' = h

\* ... and any other trap, of a call or of the body, loses it.
RunTrap ==
  /\ pc = "run"
  /\ context' = None /\ pc' = "failed"
  /\ UNCHANGED <<stack, trapped>>

\* Mutant: the value goes to the outermost function.
AddFunctionResultOutermost ==
  /\ pc = "suspended" /\ trapped # None
  /\ \E v \in Values : stack' = [stack EXCEPT ![Len(stack)] = Push(@, v)]
  /\ trapped' = None
  /\ UNCHANGED <<context, pc>>

\* WasmInstance::add_function_result
AddFunctionResult ==
  /\ pc = "suspended" /\ trapped # None
  /\ \E v \in Values : stack' = <<Push(Head(stack), v)>> \o Tail(stack)
  /\ trapped' = None
  /\ UNCHANGED <<context, pc>>

Next ==
  \/ Resume \/ LoopEntry \/ RunReturn \/ RunTrap \/ AddFunctionResult
  \/ \E f \in Funcs : RunCall(f)
  \/ \E h \in Imports : RunHost(h) \/ RunHostTrap(h)

Spec == Init /\ [][Next]_vars

----------------------------------------------------------------------------
(* Correctness.                                                            *)

Contexts == IF context = None THEN stack ELSE <<context>> \o stack

TypeOK ==
  /\ stack \in Seq(Context)
  /\ context \in Context \cup {None}
  /\ pc \in {"suspended", "loop", "run", "returned", "failed"}
  /\ trapped \in Trapping \cup {None}

\* The stack of function contexts at work: only the innermost has anything new on
\* its stack, and every other is suspended in the call of the one above it.
CallChain ==
  pc # "failed" =>
    \A n \in 2..Len(Contexts) :
      /\ Contexts[n].pushed = <<>> /\ Contexts[n].initialized
      /\ Contexts[n].awaits = (Contexts[n - 1].func \in Results)

\* A function goes on with exactly the value that its call returns: across a trap
\* and a resume too, it finds its operands where the compiler put them.
OperandsMatch ==
  pc = "run" => Len(context.pushed) = IF context.awaits THEN 1 ELSE 0

\* The loop never pops an empty stack: it is left with one only by the return of
\* the outermost function.
NeverEmpty == pc \in {"loop", "suspended"} => stack # <<>>

\* Traps and resumes implement calls that block.
Frame(c) == [func |-> c.func, given |-> c.pushed]
View(s)  == [n \in 1..Len(s) |-> Frame(s[n])]

Frames == IF pc \in {"returned", "failed"} THEN <<>> ELSE View(Contexts)
Status == IF pc = "returned" THEN "returned" ELSE IF pc = "failed" THEN "trapped" ELSE "running"

Blocking == INSTANCE BlockingGuest WITH
  frames <- Frames, blocked <- trapped, status <- Status

ImplementsBlocking == Blocking!Spec

=============================================================================
