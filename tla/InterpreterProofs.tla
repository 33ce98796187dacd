------------------------- MODULE InterpreterProofs -------------------------
(***************************************************************************)
(* Theorems about Interpreter: its invariants for any functions, values    *)
(* and depth, and that traps and resumes implement calls that block.       *)
(***************************************************************************)
EXTENDS Interpreter, TLAPS

USE FunctionsAssumption, DepthAssumption, ContextAssumption

\* What the innermost context finds on its value stack when it goes on.
Fed(c) == Len(c.pushed) = IF c.awaits THEN 1 ELSE 0

Waits(c, f) == c.pushed = <<>> /\ c.initialized /\ c.awaits = (f \in Results)

Chained(s) == \A n \in 2..Len(s) : Waits(s[n], s[n - 1].func)

IInv ==
  /\ TypeOK
  /\ context # None <=> pc = "run"
  /\ pc = "run" => context.initialized
  /\ pc \in {"loop", "suspended"} => stack # <<>>
  /\ trapped # None => pc = "suspended"
  /\ pc # "failed" =>
       /\ Chained(Contexts)
       /\ Contexts # <<>> =>
            IF trapped = None THEN Fed(Contexts[1]) ELSE Waits(Contexts[1], trapped)

(***************************************************************************)
(* Sequences whose innermost element comes first.                          *)
(***************************************************************************)

LEMMA Pushed ==
  ASSUME NEW S, NEW s \in Seq(S), NEW c \in S
  PROVE  /\ <<c>> \o s \in Seq(S) /\ <<c>> \o s # <<>>
         /\ Len(<<c>> \o s) = Len(s) + 1
         /\ (<<c>> \o s)[1] = c
         /\ \A n \in 2..(Len(s) + 1) : (<<c>> \o s)[n] = s[n - 1]
         /\ Head(<<c>> \o s) = c /\ Tail(<<c>> \o s) = s
  OBVIOUS

LEMMA Popped ==
  ASSUME NEW S, NEW s \in Seq(S), s # <<>>
  PROVE  /\ Head(s) \in S /\ Tail(s) \in Seq(S) /\ s = <<Head(s)>> \o Tail(s)
         /\ Len(s) = Len(Tail(s)) + 1 /\ s[1] = Head(s)
         /\ \A n \in 1..Len(Tail(s)) : Tail(s)[n] = s[n + 1]
  OBVIOUS

LEMMA Second ==
  ASSUME NEW S, NEW s \in Seq(S), NEW c \in S, s # <<>>
  PROVE  (<<c>> \o s)[2] = s[1]
<1>1. Len(s) \in Nat /\ Len(s) >= 1 OBVIOUS
<1>2. 2 \in 2..(Len(s) + 1) BY <1>1
<1>3. (<<c>> \o s)[2] = s[2 - 1] BY <1>2, Pushed
<1> QED BY <1>3

LEMMA ChainedPush ==
  ASSUME NEW s \in Seq(Context), NEW c \in Context,
         Chained(s), s # <<>> => Waits(s[1], c.func)
  PROVE  Chained(<<c>> \o s)
<1> DEFINE t == <<c>> \o s
<1>1. Len(t) = Len(s) + 1 /\ t[1] = c /\ \A n \in 2..(Len(s) + 1) : t[n] = s[n - 1]
  BY Pushed
<1> SUFFICES ASSUME NEW n \in 2..(Len(s) + 1) PROVE Waits(t[n], t[n - 1].func)
  BY <1>1 DEF Chained
<1> HIDE DEF t
<1>2. CASE n = 2
  <2>1. s # <<>> BY <1>2
  <2> QED BY <1>1, <1>2, <2>1
<1>3. CASE n # 2
  <2>1. n - 1 \in 2..Len(s) /\ n \in 2..(Len(s) + 1) /\ n - 1 \in 2..(Len(s) + 1)
    BY <1>3
  <2>2. t[n] = s[n - 1] /\ t[n - 1] = s[(n - 1) - 1] BY <1>1, <2>1
  <2> QED BY <2>1, <2>2 DEF Chained
<1> QED BY <1>2, <1>3

LEMMA ChainedPop ==
  ASSUME NEW s \in Seq(Context), s # <<>>, Chained(s)
  PROVE  /\ Chained(Tail(s))
         /\ Tail(s) # <<>> => Waits(Tail(s)[1], Head(s).func)
<1> DEFINE t == Tail(s)
<1>1. /\ t \in Seq(Context) /\ Len(s) = Len(t) + 1 /\ s[1] = Head(s)
      /\ \A n \in 1..Len(t) : t[n] = s[n + 1]
  BY Popped
<1> HIDE DEF t
<1>2. Chained(t)
  <2> SUFFICES ASSUME NEW n \in 2..Len(t) PROVE Waits(t[n], t[n - 1].func)
    BY DEF Chained
  <2>1. n + 1 \in 2..Len(s) /\ n \in 1..Len(t) /\ n - 1 \in 1..Len(t) /\ (n - 1) + 1 = n
        /\ (n + 1) - 1 = n
    BY <1>1
  <2>2. t[n] = s[n + 1] /\ t[n - 1] = s[n] BY <1>1, <2>1
  <2>3. Waits(s[n + 1], s[(n + 1) - 1].func) BY <2>1 DEF Chained
  <2> QED BY <2>1, <2>2, <2>3
<1>3. ASSUME t # <<>> PROVE Waits(t[1], Head(s).func)
  <2>1. 1 \in 1..Len(t) /\ 2 \in 2..Len(s) BY <1>1, <1>3
  <2>2. t[1] = s[2] BY <1>1, <2>1
  <2>3. Waits(s[2], s[2 - 1].func) BY <2>1 DEF Chained
  <2> QED BY <1>1, <2>2, <2>3
<1> QED BY <1>2, <1>3 DEF t

LEMMA ViewIsSeq ==
  ASSUME NEW s \in Seq(Context)
  PROVE  /\ View(s) \in Seq({Frame(c) : c \in Context}) /\ Len(View(s)) = Len(s)
         /\ View(s) = <<>> <=> s = <<>>
<1>1. /\ Len(s) \in Nat /\ DOMAIN View(s) = 1..Len(s)
      /\ \A n \in 1..Len(s) : View(s)[n] \in {Frame(c) : c \in Context}
  BY DEF View
<1>2. View(s) \in [1..Len(s) -> {Frame(c) : c \in Context}] BY <1>1 DEF View
<1>3. View(s) \in Seq({Frame(c) : c \in Context}) BY <1>1, <1>2
<1>4. Len(View(s)) = Len(s) BY <1>1, <1>3
<1> QED BY <1>3, <1>4

LEMMA ViewPush ==
  ASSUME NEW s \in Seq(Context), NEW c \in Context
  PROVE  View(<<c>> \o s) = <<Frame(c)>> \o View(s)
<1> DEFINE t == <<c>> \o s
           v == View(s)
           w == <<Frame(c)>> \o v
           F == {Frame(d) : d \in Context}
<1>1. t \in Seq(Context) /\ Len(t) = Len(s) + 1 /\ t[1] = c
      /\ \A n \in 2..(Len(s) + 1) : t[n] = s[n - 1]
  BY Pushed
<1>2. v \in Seq(F) /\ Len(v) = Len(s) /\ Frame(c) \in F BY ViewIsSeq
<1>3. /\ w \in Seq(F) /\ Len(w) = Len(s) + 1 /\ w[1] = Frame(c)
      /\ \A n \in 2..(Len(s) + 1) : w[n] = v[n - 1]
  <2> HIDE DEF v, F
  <2> QED BY <1>2, Pushed
<1>4. View(t) \in Seq(F) /\ Len(View(t)) = Len(s) + 1 BY <1>1, ViewIsSeq
<1>5. ASSUME NEW n \in 1..(Len(s) + 1) PROVE View(t)[n] = w[n]
  <2>1. View(t)[n] = Frame(t[n]) BY <1>1 DEF View
  <2>2. CASE n = 1 BY <1>1, <1>3, <2>1, <2>2
  <2>3. CASE n # 1
    <3>1. n \in 2..(Len(s) + 1) /\ n - 1 \in 1..Len(s) BY <2>3
    <3>2. v[n - 1] = Frame(s[n - 1]) BY <3>1 DEF View
    <3> QED BY <1>1, <1>3, <2>1, <3>1, <3>2
  <2> QED BY <2>2, <2>3
<1> HIDE DEF t, w, F
<1>6. View(t) = w BY <1>3, <1>4, <1>5
<1> QED BY <1>6 DEF t, w

(***************************************************************************)
(* The contexts that the actions build.                                    *)
(***************************************************************************)

LEMMA NewValue ==
  ASSUME NEW f \in Funcs
  PROVE  /\ NewContext(f) \in Context /\ NewContext(f).func = f
         /\ NewContext(f).pushed = <<>> /\ Fed(NewContext(f))
<1>1. <<>> \in Seq(Values) /\ Len(<<>>) = 0 OBVIOUS
<1> QED BY <1>1 DEF NewContext, Context, Fed

LEMMA CallingValue ==
  ASSUME context \in Context, NEW h
  PROVE  /\ Calling(h) \in Context /\ Calling(h).func = context.func
         /\ Calling(h).pushed = <<>>
         /\ Calling(h).awaits = (h \in Results)
         /\ context.initialized => Waits(Calling(h), h)
<1>1. <<>> \in Seq(Values) /\ (h \in Results) \in BOOLEAN OBVIOUS
<1>2. PICK b \in BOOLEAN : b = (h \in Results) BY <1>1
<1>3. Calling(h) = [context EXCEPT !.awaits = b, !.pushed = <<>>] BY <1>2 DEF Calling
<1>4. /\ Calling(h) \in Context /\ Calling(h).func = context.func
      /\ Calling(h).pushed = <<>> /\ Calling(h).awaits = b
      /\ Calling(h).initialized = context.initialized
  BY <1>1, <1>3 DEF Context
<1> QED BY <1>2, <1>4 DEF Waits

LEMMA PushValue ==
  ASSUME NEW c \in Context, NEW h \in Results, Waits(c, h), NEW v \in Values
  PROVE  /\ Push(c, v) \in Context /\ Push(c, v).func = c.func
         /\ Push(c, v).pushed = <<v>> /\ Fed(Push(c, v))
<1>1. c.pushed = <<>> /\ c.awaits = TRUE BY DEF Waits
<1>2. Push(c, v) = [c EXCEPT !.pushed = <<v>>] BY <1>1 DEF Push
<1>3. <<v>> \in Seq(Values) /\ Len(<<v>>) = 1 OBVIOUS
<1>4. /\ Push(c, v) \in Context /\ Push(c, v).func = c.func
      /\ Push(c, v).pushed = <<v>> /\ Push(c, v).awaits = TRUE
  BY <1>1, <1>2, <1>3 DEF Context
<1> QED BY <1>3, <1>4 DEF Fed

\* A caller whose callee returns nothing can go on as it is.
LEMMA WaitsNothing ==
  ASSUME NEW c \in Context, NEW h, h \notin Results, Waits(c, h)
  PROVE  Fed(c)
<1>1. Len(<<>>) = 0 OBVIOUS
<1> QED BY <1>1 DEF Waits, Fed

(***************************************************************************)
(* The initial state and the steps, each with what it is for BlockingGuest. *)
(***************************************************************************)

LEMMA InitOK ==
  ASSUME Init
  PROVE  IInv /\ Blocking!Init
<1>1. /\ stack = <<NewContext(Start)>> /\ stack \in Seq(Context) /\ Len(stack) = 1
      /\ stack[1] = NewContext(Start)
  BY NewValue DEF Init
<1>2. /\ context = None /\ pc = "suspended" /\ trapped = None BY DEF Init
<1>3. IInv
  <2>1. Contexts = stack BY <1>2 DEF Contexts
  <2>2. Chained(stack) BY <1>1 DEF Chained
  <2>3. Fed(stack[1]) BY <1>1, NewValue
  <2> QED BY <1>1, <1>2, <2>1, <2>2, <2>3 DEF IInv, TypeOK
<1>4. Frames = <<[func |-> Start, given |-> <<>>]>>
  <2>1. Frames = View(stack) BY <1>2 DEF Frames, Contexts
  <2>2. View(stack) = [n \in 1..1 |-> Frame(NewContext(Start))] BY <1>1 DEF View
  <2>3. Frame(NewContext(Start)) = [func |-> Start, given |-> <<>>]
    BY NewValue DEF Frame
  <2>4. [n \in 1..1 |-> [func |-> Start, given |-> <<>>]] = <<[func |-> Start, given |-> <<>>]>>
    OBVIOUS
  <2> QED BY <2>1, <2>2, <2>3, <2>4
<1> QED BY <1>2, <1>3, <1>4 DEF Blocking!Init, Status

LEMMA ResumeOK ==
  ASSUME IInv, Resume
  PROVE  IInv' /\ UNCHANGED Blocking!vars
<1>1. pc = "suspended" /\ pc' = "loop" /\ trapped = None /\ UNCHANGED <<stack, context, trapped>>
  BY DEF Resume
<1>2. Contexts' = Contexts BY <1>1 DEF Contexts
<1>3. IInv' BY <1>1, <1>2 DEF IInv, TypeOK
<1> QED BY <1>1, <1>2, <1>3 DEF Blocking!vars, Frames, Status

\* In the loop: the context that runs on top of its callers.
LEMMA Runs ==
  ASSUME IInv, pc = "run"
  PROVE  /\ context \in Context /\ context # None /\ context.initialized
         /\ stack \in Seq(Context) /\ trapped = None
         /\ Contexts = <<context>> \o stack /\ Fed(context) /\ Chained(stack)
         /\ stack # <<>> => Waits(stack[1], context.func)
         /\ Frames = <<Frame(context)>> \o View(stack) /\ Status = "running"
         /\ Head(Frames) = Frame(context) /\ Tail(Frames) = View(stack)
         /\ Blocking!Goes
<1>1. /\ context \in Context /\ context # None /\ context.initialized
      /\ stack \in Seq(Context) /\ trapped = None
  BY DEF IInv, TypeOK
<1>2. Contexts = <<context>> \o stack BY <1>1 DEF Contexts
<1>3. Contexts \in Seq(Context) /\ Contexts # <<>> /\ Contexts[1] = context
      /\ Tail(Contexts) = stack /\ Head(Contexts) = context
  BY <1>1, <1>2, Pushed
<1>4. Fed(context) /\ Chained(Contexts) BY <1>1, <1>3 DEF IInv
<1>5. Chained(stack) /\ (stack # <<>> => Waits(stack[1], context.func))
  BY <1>3, <1>4, ChainedPop
<1>6. Frames = <<Frame(context)>> \o View(stack) BY <1>1, <1>2, ViewPush DEF Frames
<1>7. Head(Frames) = Frame(context) /\ Tail(Frames) = View(stack)
  <2>1. View(stack) \in Seq({Frame(c) : c \in Context}) /\ Frame(context) \in {Frame(c) : c \in Context}
    BY <1>1, ViewIsSeq
  <2> QED BY <1>6, <2>1, Pushed
<1>8. Status = "running" BY DEF Status
<1> QED BY <1>1, <1>2, <1>4, <1>5, <1>6, <1>7, <1>8 DEF Blocking!Goes

\* Between two turns of the loop, or suspended: a stack whose innermost context is c.
LEMMA Rests ==
  ASSUME NEW c \in Context, NEW s \in Seq(Context),
         stack' = <<c>> \o s, context' = None, pc' \in {"loop", "suspended"},
         trapped' \in Trapping \cup {None}, trapped' # None => pc' = "suspended",
         Chained(s), s # <<>> => Waits(s[1], c.func),
         IF trapped' = None THEN Fed(c) ELSE Waits(c, trapped')
  PROVE  /\ IInv' /\ Status' = "running" /\ Frames' = <<Frame(c)>> \o View(s)
<1>1. stack' \in Seq(Context) /\ stack' # <<>> /\ stack'[1] = c BY Pushed
<1>2. Contexts' = stack' BY DEF Contexts
<1>3. Chained(stack') BY ChainedPush
<1>4. IInv' BY <1>1, <1>2, <1>3 DEF IInv, TypeOK
<1>5. Frames' = View(stack') BY <1>2 DEF Frames
<1> QED BY <1>4, <1>5, ViewPush DEF Status

LEMMA LoopEntryOK ==
  ASSUME IInv, LoopEntry
  PROVE  IInv' /\ UNCHANGED Blocking!vars
<1>1. /\ pc = "loop" /\ pc' = "run" /\ trapped' = trapped
      /\ context' = [Head(stack) EXCEPT !.initialized = TRUE] /\ stack' = Tail(stack)
  BY DEF LoopEntry
<1>2. /\ stack \in Seq(Context) /\ stack # <<>> /\ context = None /\ trapped = None
      /\ Chained(stack) /\ Fed(stack[1])
  BY <1>1 DEF IInv, TypeOK, Contexts
<1>3. /\ Head(stack) \in Context /\ Tail(stack) \in Seq(Context)
      /\ stack = <<Head(stack)>> \o Tail(stack) /\ stack[1] = Head(stack)
  BY <1>2, Popped
<1> DEFINE c == [Head(stack) EXCEPT !.initialized = TRUE]
           r == Tail(stack)
<1>4. /\ c \in Context /\ c.func = Head(stack).func /\ c.pushed = Head(stack).pushed
      /\ c.awaits = Head(stack).awaits /\ c.initialized = TRUE
  BY <1>3 DEF Context
<1>5. Chained(r) /\ (r # <<>> => Waits(r[1], c.func))
  BY <1>2, <1>4, ChainedPop
<1>6. c # None BY <1>4
<1>7. context' = c /\ stack' = r BY <1>1
<1>8. c \in Context /\ r \in Seq(Context) BY <1>3, <1>4
<1>9. Frame(c) = Frame(Head(stack)) BY <1>4 DEF Frame
<1>10. Fed(c) BY <1>2, <1>3, <1>4 DEF Fed
<1>11. c.initialized = TRUE BY <1>4
<1>12. Frames = <<Frame(Head(stack))>> \o View(r)
  <2>1. Frames = View(stack) BY <1>1, <1>2 DEF Frames, Contexts
  <2> QED BY <1>3, <2>1, ViewPush
<1> HIDE DEF c, r
<1>13. Contexts' = <<c>> \o r BY <1>6, <1>7 DEF Contexts
<1>14. IInv'
  <2>1. Chained(<<c>> \o r) BY <1>5, <1>8, ChainedPush
  <2>2. (<<c>> \o r)[1] = c BY <1>8, Pushed
  <2> QED BY <1>1, <1>2, <1>6, <1>7, <1>8, <1>10, <1>11, <1>13, <2>1, <2>2
          DEF IInv, TypeOK
<1>15. Frames' = Frames
  <2>1. Frames' = View(<<c>> \o r) BY <1>1, <1>13 DEF Frames
  <2> QED BY <1>8, <1>9, <1>12, <2>1, ViewPush
<1>16. Status' = Status BY <1>1 DEF Status
<1> QED BY <1>1, <1>14, <1>15, <1>16 DEF Blocking!vars

LEMMA RunCallOK ==
  ASSUME IInv, NEW f \in Funcs, RunCall(f)
  PROVE  IInv' /\ Blocking!Call(f)
<1>1. /\ pc = "run" /\ context' = None /\ pc' = "loop" /\ trapped' = trapped
      /\ stack' = <<NewContext(f)>> \o (<<Calling(f)>> \o stack)
  BY DEF RunCall
<1> DEFINE c == NewContext(f)
           d == Calling(f)
           s == <<d>> \o stack
<1>2. /\ c \in Context /\ d \in Context /\ Waits(d, f) /\ c.func = f /\ Fed(c)
      /\ c.pushed = <<>> /\ d.pushed = <<>> /\ d.func = context.func
  BY <1>1, Runs, NewValue, CallingValue
<1>3. s \in Seq(Context) /\ s # <<>> /\ s[1] = d BY <1>1, <1>2, Runs, Pushed
<1>4. Chained(s) BY <1>1, <1>2, Runs, ChainedPush
<1>5. View(s) = <<Frame(d)>> \o View(stack) BY <1>1, <1>2, Runs, ViewPush
<1>6. trapped' = None BY <1>1, Runs
<1>7. stack' = <<c>> \o s BY <1>1
<1> HIDE DEF s, c, d
<1>8. IInv' /\ Status' = "running" /\ Frames' = <<Frame(c)>> \o View(s)
  BY <1>1, <1>2, <1>3, <1>4, <1>6, <1>7, Rests
<1>9. Frame(c) = [func |-> f, given |-> <<>>]
      /\ Frame(d) = [func |-> Frame(context).func, given |-> <<>>]
  BY <1>2 DEF Frame
<1> QED BY <1>1, <1>5, <1>6, <1>8, <1>9, Runs DEF Blocking!Call, Blocking!Top

LEMMA RunHostOK ==
  ASSUME IInv, NEW h \in Imports, RunHost(h)
  PROVE  IInv' /\ Blocking!Answered(h)
<1>1. pc = "run" /\ context' = None /\ pc' = "loop" /\ trapped' = trapped
  BY DEF RunHost
<1> DEFINE d == Calling(h)
<1>2. d \in Context /\ Waits(d, h) /\ d.func = context.func /\ d.pushed = <<>>
  BY <1>1, Runs, CallingValue
<1>3. trapped' = None BY <1>1, Runs
<1>4. ASSUME NEW c \in Context, stack' = <<c>> \o stack, c.func = context.func, Fed(c),
             c.pushed \in Blocking!Outcomes(h)
      PROVE  IInv' /\ Blocking!Answered(h)
  <2>1. IInv' /\ Status' = "running" /\ Frames' = <<Frame(c)>> \o View(stack)
    BY <1>1, <1>3, <1>4, Runs, Rests
  <2>2. Frame(c) = [func |-> Frame(context).func, given |-> c.pushed]
    BY <1>4 DEF Frame
  <2> QED BY <1>1, <1>3, <1>4, <2>1, <2>2, Runs DEF Blocking!Answered, Blocking!Top
<1>5. CASE h \in Results
  <2>1. PICK v \in Values : stack' = <<Push(d, v)>> \o stack BY <1>5 DEF RunHost
  <2>2. <<v>> \in Blocking!Outcomes(h) BY <1>5 DEF Blocking!Outcomes
  <2>3. /\ Push(d, v) \in Context /\ Push(d, v).func = d.func
        /\ Push(d, v).pushed = <<v>> /\ Fed(Push(d, v))
    BY <1>2, <1>5, PushValue
  <2> QED BY <1>2, <1>4, <2>1, <2>2, <2>3
<1>6. CASE h \notin Results
  <2>1. stack' = <<d>> \o stack BY <1>6 DEF RunHost
  <2>2. Fed(d) BY <1>2, <1>6, WaitsNothing
  <2>3. <<>> \in Blocking!Outcomes(h) BY <1>6 DEF Blocking!Outcomes
  <2> QED BY <1>2, <1>4, <2>1, <2>2, <2>3
<1> QED BY <1>5, <1>6

LEMMA RunHostTrapOK ==
  ASSUME IInv, NEW h \in Imports, RunHostTrap(h)
  PROVE  IInv' /\ Blocking!Block(h)
<1>1. /\ pc = "run" /\ context' = None /\ pc' = "suspended" /\ trapped' = h
      /\ h \in Trapping /\ stack' = <<Calling(h)>> \o stack
  BY DEF RunHostTrap
<1> DEFINE d == Calling(h)
<1>2. d \in Context /\ Waits(d, h) /\ d.func = context.func /\ d.pushed = <<>>
  BY <1>1, Runs, CallingValue
<1>3. h # None OBVIOUS
<1>4. IInv' /\ Status' = "running" /\ Frames' = <<Frame(d)>> \o View(stack)
  BY <1>1, <1>2, <1>3, Runs, Rests
<1>5. Frame(d) = [func |-> Frame(context).func, given |-> <<>>] BY <1>2 DEF Frame
<1> QED BY <1>1, <1>4, <1>5, Runs DEF Blocking!Block, Blocking!Top

LEMMA RunTrapOK ==
  ASSUME IInv, RunTrap
  PROVE  IInv' /\ Blocking!Trap
<1>1. pc = "run" /\ context' = None /\ pc' = "failed" /\ UNCHANGED <<stack, trapped>>
  BY DEF RunTrap
<1>2. IInv' BY <1>1, Runs DEF IInv, TypeOK
<1>3. Frames' = <<>> /\ Status' = "trapped" BY <1>1 DEF Frames, Status
<1> QED BY <1>1, <1>2, <1>3, Runs DEF Blocking!Trap

LEMMA RunReturnOK ==
  ASSUME IInv, RunReturn
  PROVE  IInv' /\ Blocking!Return
<1>1. pc = "run" /\ context' = None /\ trapped' = trapped /\ trapped' = None
  BY Runs DEF RunReturn
<1>2. Head(Frames).func = context.func BY <1>1, Runs DEF Frame
<1>3. CASE stack = <<>>
  <2>1. pc' = "returned" /\ stack' = <<>> BY <1>3 DEF RunReturn
  <2>2. IInv'
    <3>1. stack' \in Seq(Context) BY <2>1
    <3>2. Contexts' = <<>> BY <1>1, <2>1 DEF Contexts
    <3>3. Chained(<<>>) BY DEF Chained
    <3> QED BY <1>1, <2>1, <3>1, <3>2, <3>3 DEF IInv, TypeOK
  <2>3. Frames' = <<>> /\ Status' = "returned" BY <2>1 DEF Frames, Status
  <2>4. Tail(Frames) = <<>> BY <1>1, <1>3, Runs, ViewIsSeq
  <2>5. Blocking!Outcomes(context.func) # {} BY DEF Blocking!Outcomes
  <2> QED BY <1>1, <1>2, <2>2, <2>3, <2>4, <2>5, Runs DEF Blocking!Return
<1>4. CASE stack # <<>>
  <2> DEFINE c == Head(stack)
             r == Tail(stack)
  <2>1. /\ c \in Context /\ r \in Seq(Context) /\ stack = <<c>> \o r /\ stack[1] = c
        /\ Chained(r) /\ (r # <<>> => Waits(r[1], c.func)) /\ Waits(c, context.func)
    <3>1. stack \in Seq(Context) /\ stack # <<>> /\ Chained(stack)
          /\ Waits(stack[1], context.func)
      BY <1>1, <1>4, Runs
    <3>2. c \in Context /\ r \in Seq(Context) /\ stack = <<c>> \o r /\ stack[1] = c
      BY <3>1, Popped
    <3>3. Chained(r) /\ (r # <<>> => Waits(r[1], c.func)) BY <3>1, ChainedPop
    <3> QED BY <3>1, <3>2, <3>3
  <2>2. pc' = "loop" BY <1>4 DEF RunReturn
  <2>3. Tail(Frames) = <<Frame(c)>> \o View(r) BY <1>1, <2>1, Runs, ViewPush
  <2>4. Tail(Frames) # <<>> /\ Frames[2].func = c.func /\ Tail(Tail(Frames)) = View(r)
    <3>1. View(r) \in Seq({Frame(x) : x \in Context}) /\ Frame(c) \in {Frame(x) : x \in Context}
          /\ Frame(context) \in {Frame(x) : x \in Context}
          /\ View(stack) \in Seq({Frame(x) : x \in Context}) /\ Len(View(stack)) = Len(stack)
      BY <1>1, <2>1, Runs, ViewIsSeq
    <3>2. Frames = <<Frame(context)>> \o View(stack) BY <1>1, Runs
    <3>3. Tail(Frames) = View(stack) BY <1>1, Runs
    <3>4. View(stack) # <<>> BY <1>1, <1>4, Runs, ViewIsSeq
    <3>5. Frames[2] = View(stack)[1]
      <4> DEFINE F == {Frame(x) : x \in Context}
      <4>1. View(stack) \in Seq(F) /\ Frame(context) \in F BY <3>1
      <4> HIDE DEF F
      <4>2. \A t \in Seq(F), k \in F : t # <<>> => (<<k>> \o t)[2] = t[1] BY Second
      <4>3. (<<Frame(context)>> \o View(stack))[2] = View(stack)[1] BY <3>4, <4>1, <4>2
      <4> QED BY <3>2, <4>3
    <3>6. View(stack) = <<Frame(c)>> \o View(r) BY <2>3, <3>3
    <3>7. View(stack)[1] = Frame(c) /\ Tail(View(stack)) = View(r)
      <4> DEFINE F == {Frame(x) : x \in Context}
      <4>1. View(r) \in Seq(F) /\ Frame(c) \in F BY <3>1
      <4> HIDE DEF F, c, r
      <4>2. \A t \in Seq(F), k \in F : (<<k>> \o t)[1] = k /\ Tail(<<k>> \o t) = t BY Pushed
      <4> QED BY <3>6, <4>1, <4>2
    <3>8. Tail(Frames) # <<>> /\ Tail(Tail(Frames)) = View(r) BY <3>3, <3>4, <3>7
    <3>9. Frames[2].func = c.func BY <3>5, <3>7 DEF Frame
    <3> QED BY <3>8, <3>9
  <2>5. ASSUME NEW d \in Context, stack' = <<d>> \o r, d.func = c.func, Fed(d),
               d.pushed \in Blocking!Outcomes(context.func)
        PROVE  IInv' /\ Blocking!Return
    <3>1. IInv' /\ Status' = "running" /\ Frames' = <<Frame(d)>> \o View(r)
      BY <1>1, <2>1, <2>2, <2>5, Rests
    <3>2. Frame(d) = [func |-> Frames[2].func, given |-> d.pushed]
      BY <2>4, <2>5 DEF Frame
    <3> QED BY <1>1, <1>2, <2>4, <2>5, <3>1, <3>2, Runs DEF Blocking!Return
  <2>6. CASE context.func \in Results
    <3>1. PICK v \in Values : stack' = <<Push(c, v)>> \o r BY <1>4, <2>6 DEF RunReturn
    <3>2. <<v>> \in Blocking!Outcomes(context.func) BY <2>6 DEF Blocking!Outcomes
    <3>3. /\ Push(c, v) \in Context /\ Push(c, v).func = c.func
          /\ Push(c, v).pushed = <<v>> /\ Fed(Push(c, v))
      BY <2>1, <2>6, PushValue
    <3> QED BY <2>5, <3>1, <3>2, <3>3
  <2>7. CASE context.func \notin Results
    <3>1. stack' = <<c>> \o r BY <1>4, <2>1, <2>7 DEF RunReturn
    <3>2. Fed(c) /\ c.pushed = <<>> BY <2>1, <2>7, WaitsNothing DEF Waits
    <3>3. <<>> \in Blocking!Outcomes(context.func) BY <2>7 DEF Blocking!Outcomes
    <3> QED BY <2>1, <2>5, <3>1, <3>2, <3>3
  <2> QED BY <2>6, <2>7
<1> QED BY <1>3, <1>4

LEMMA AddFunctionResultOK ==
  ASSUME IInv, AddFunctionResult
  PROVE  IInv' /\ Blocking!Unblock
<1> DEFINE c == Head(stack)
           r == Tail(stack)
<1>1. /\ pc = "suspended" /\ pc' = "suspended" /\ context' = context /\ context = None
      /\ trapped \in Trapping /\ trapped # None /\ trapped' = None
      /\ stack \in Seq(Context) /\ stack # <<>>
  BY DEF AddFunctionResult, IInv, TypeOK
<1>2. Contexts = stack /\ Chained(stack) /\ Waits(stack[1], trapped)
  BY <1>1 DEF IInv, Contexts
<1>3. /\ c \in Context /\ r \in Seq(Context) /\ stack = <<c>> \o r /\ stack[1] = c
      /\ Chained(r) /\ (r # <<>> => Waits(r[1], c.func)) /\ Waits(c, trapped)
  BY <1>1, <1>2, Popped, ChainedPop
<1>4. PICK v \in Values : stack' = <<Push(c, v)>> \o r BY DEF AddFunctionResult
<1> DEFINE d == Push(c, v)
<1>5. trapped \in Results BY <1>1
<1>6. d \in Context /\ d.func = c.func /\ d.pushed = <<v>> /\ Fed(d)
  BY <1>3, <1>5, PushValue
<1>7. stack' = <<d>> \o r BY <1>4
<1>8. Frames = <<Frame(c)>> \o View(r) /\ Head(Frames) = Frame(c) /\ Tail(Frames) = View(r)
  <2>1. Frames = View(stack) BY <1>1, <1>2 DEF Frames
  <2>2. View(r) \in Seq({Frame(x) : x \in Context}) /\ Frame(c) \in {Frame(x) : x \in Context}
    BY <1>3, ViewIsSeq
  <2>3. Frames = <<Frame(c)>> \o View(r) BY <1>3, <2>1, ViewPush
  <2> QED BY <2>2, <2>3, Pushed
<1> HIDE DEF c, r, d
<1>9. IInv' /\ Status' = "running" /\ Frames' = <<Frame(d)>> \o View(r)
  BY <1>1, <1>3, <1>6, <1>7, Rests
<1>10. Frame(d) = [func |-> Frame(c).func, given |-> <<v>>] BY <1>6 DEF Frame
<1>11. <<v>> \in Blocking!Outcomes(trapped) BY <1>5 DEF Blocking!Outcomes
<1>12. Status = "running" BY <1>1 DEF Status
<1> QED BY <1>1, <1>8, <1>9, <1>10, <1>11, <1>12 DEF Blocking!Unblock, Blocking!Top

LEMMA StepOK ==
  ASSUME IInv, [Next]_vars
  PROVE  IInv' /\ [Blocking!Next]_(Blocking!vars)
<1>1. CASE Resume BY <1>1, ResumeOK
<1>2. CASE LoopEntry BY <1>2, LoopEntryOK
<1>3. CASE RunReturn BY <1>3, RunReturnOK DEF Blocking!Next
<1>4. CASE RunTrap BY <1>4, RunTrapOK DEF Blocking!Next
<1>5. CASE AddFunctionResult BY <1>5, AddFunctionResultOK DEF Blocking!Next
<1>6. ASSUME NEW f \in Funcs, RunCall(f) PROVE IInv' /\ Blocking!Next
  BY <1>6, RunCallOK DEF Blocking!Next
<1>7. ASSUME NEW h \in Imports, RunHost(h) PROVE IInv' /\ Blocking!Next
  BY <1>7, RunHostOK DEF Blocking!Next
<1>8. ASSUME NEW h \in Imports, RunHostTrap(h) PROVE IInv' /\ Blocking!Next
  BY <1>8, RunHostTrapOK DEF Blocking!Next
<1>9. CASE UNCHANGED vars
  <2>1. UNCHANGED <<stack, context, pc, trapped>> BY <1>9 DEF vars
  <2>2. Contexts' = Contexts BY <2>1 DEF Contexts
  <2> QED BY <2>1, <2>2 DEF IInv, TypeOK, Blocking!vars, Frames, Status
<1> QED BY <1>1, <1>2, <1>3, <1>4, <1>5, <1>6, <1>7, <1>8, <1>9 DEF Next

(***************************************************************************)
(* The theorems.                                                           *)
(***************************************************************************)

\* The stack of contexts and the context in hand are a chain of calls, at every
\* point of the loop and across every trap.
THEOREM Inductive == Spec => []IInv
BY InitOK, StepOK, PTL DEF Spec

\* Every context is one of a function of the module, with what that function may
\* have got, and only a host function that traps is awaited (TypeOK).
THEOREM TypeCorrect == Spec => []TypeOK
<1>1. IInv => TypeOK BY DEF IInv
<1> QED BY <1>1, Inductive, PTL

\* Every function but the innermost is suspended in the call of the one above it,
\* with nothing on its stack that the call did not leave (CallChain).
THEOREM CallsAreChained == Spec => []CallChain
<1>1. IInv => CallChain BY DEF IInv, CallChain, Chained, Waits
<1> QED BY <1>1, Inductive, PTL

\* A function that goes on, after a call, a trap or a resume, finds exactly the
\* value that its call returns (OperandsMatch).
THEOREM OperandsAreThere == Spec => []OperandsMatch
<1>1. IInv => OperandsMatch BY Runs DEF OperandsMatch, Fed
<1> QED BY <1>1, Inductive, PTL

\* The loop never pops an empty stack (NeverEmpty): the expect at its entry holds
\* as long as resume is not called on a guest that returned.
THEOREM StackIsThere == Spec => []NeverEmpty
<1>1. IInv => NeverEmpty BY DEF IInv, NeverEmpty
<1> QED BY <1>1, Inductive, PTL

\* Leaving the interpreter by a trap and entering it again by add_function_result
\* and resume is, to the guest, a call that blocks (ImplementsBlocking).
THEOREM TrapsImplementBlocking == Spec => ImplementsBlocking
<1>1. Init => Blocking!Init BY InitOK
<1>2. IInv /\ [Next]_vars => [Blocking!Next]_(Blocking!vars) BY StepOK
<1> QED BY <1>1, <1>2, Inductive, PTL DEF Spec, ImplementsBlocking, Blocking!Spec

=============================================================================
