---------------------------- MODULE JitEnvProofs ----------------------------
(***************************************************************************)
(* Proofs about JitEnv, for modules of any size.  The bodies come last:    *)
(* while there is none, everything may still be declared (Phases), and     *)
(* from the first one on nothing but bodies is added, so what a body or a  *)
(* call was translated with stays what its function says.                  *)
(***************************************************************************)
EXTENDS JitEnv, SequenceTheorems, TLAPS

\* What the sections before have left.
Phases ==
  /\ pc = "module" => section \in 1..7
  /\ pc \in {"file", "done"} => section = 0
  /\ pc = "module" /\ section <= 2 => Len(info.functions) = Len(info.imported_funcs)
  /\ pc = "module" /\ section <= 6 => info.function_bodies = <<>>
  /\ Len(info.imported_funcs) <= Len(info.functions)

\* A direct call was translated under the type of its function.
CallsTyped ==
  \A n \in 1..Len(info.function_bodies) : \A c \in info.function_bodies[n].calls :
    /\ c.args = c.sig
    /\ c.name # None =>
         /\ c.name \in Nat /\ c.name < Len(info.functions)
         /\ c.sig = VmctxSig(FuncType(c.name))

IInv == TypeOK /\ Phases /\ BodiesMatch /\ CallsTyped

LEMMA InitIInv == Init => IInv
<1> SUFFICES ASSUME Init PROVE IInv
  OBVIOUS
<1>1. TypeOK
  BY CountAssumption DEF Init, TypeOK, Info, ModuleInfo, Sections
<1>2. Phases
  BY DEF Init, Phases, ModuleInfo
<1>3. BodiesMatch
  BY DEF Init, BodiesMatch, ModuleInfo, Imported
<1>4. CallsTyped
  BY DEF Init, CallsTyped, ModuleInfo
<1> QED  BY <1>1, <1>2, <1>3, <1>4 DEF IInv

\* Where a callback comes in.
LEMMA SectionNumber ==
  ASSUME IInv, NEW s \in {"type", "import", "function", "global", "export", "start", "code"},
         In(s)
  PROVE  /\ pc = "module" /\ section \in 1..7
         /\ s = "type" => section = 1
         /\ s = "import" => section = 2
         /\ s # "code" => section <= 6
         /\ s = "code" => section = 7
         /\ s \in {"function", "global", "export", "start"} => section > 2
  BY DEF IInv, Phases, In, Sections

\* A step that leaves info alone.
LEMMA InfoUnchanged ==
  ASSUME IInv, info' = info, pc' \in {"file", "module", "done", "panicked"},
         left' \in 0..Applications, section' \in 0..7,
         pc' = "module" => pc = "module" /\ section' \in 1..7 /\ section <= section',
         pc' \in {"file", "done"} => section' = 0
  PROVE  IInv'
<1>1. TypeOK'
  BY DEF IInv, TypeOK, Sections
<1>2. Phases'
  BY DEF IInv, Phases
<1>3. BodiesMatch' /\ CallsTyped'
  BY DEF IInv, BodiesMatch, CallsTyped, Imported, VmctxSig, FuncType
<1> QED  BY <1>1, <1>2, <1>3 DEF IInv

\* A declaration, while there are no bodies.
LEMMA Declaration ==
  ASSUME IInv, NEW s \in {"type", "import", "function", "global", "export", "start"},
         NEW i \in Info, Declares(s, i),
         i.function_bodies = info.function_bodies,
         Len(i.imported_funcs) <= Len(i.functions),
         s \in {"type", "import"} => Len(i.functions) = Len(i.imported_funcs)
  PROVE  IInv'
<1>1. pc' = "module" /\ pc = "module" /\ section' = section /\ section \in 1..6
      /\ info' = i /\ left' = left /\ (s \notin {"type", "import"} => section > 2)
  BY SectionNumber DEF Declares, In
<1>2. info'.function_bodies = <<>>
  BY <1>1 DEF IInv, Phases
<1>3. TypeOK'
  BY <1>1 DEF IInv, TypeOK
<1>4. Phases'
  BY <1>1, <1>2 DEF IInv, Phases
<1>5. BodiesMatch'
  BY <1>1, <1>2, <1>3 DEF BodiesMatch, Imported, TypeOK, Info
<1>6. CallsTyped'
  BY <1>2 DEF CallsTyped
<1> QED  BY <1>3, <1>4, <1>5, <1>6 DEF IInv

\* Without a body, info may be replaced; with it, only bodies are added.
LEMMA BodyDefined ==
  ASSUME IInv, NEW uses \in SUBSET Uses, DefineFunctionBody(uses)
  PROVE  IInv'
<1>1. CASE In("code") /\ Panics
  <2> QED  BY <1>1, InfoUnchanged DEF Panics, IInv, TypeOK, Sections
<1>2. CASE /\ FunctionIndex < Len(info.functions) /\ Signed(FuncType(FunctionIndex))
           /\ \A u \in uses : InBounds(u)
           /\ Declares("code",
                [info EXCEPT !.function_bodies =
                   Append(@, [name |-> FunctionIndex,
                              sig |-> VmctxSig(FuncType(FunctionIndex)),
                              calls |-> CallsOf(uses)])])
  <2> DEFINE b == [name |-> FunctionIndex, sig |-> VmctxSig(FuncType(FunctionIndex)),
                   calls |-> CallsOf(uses)]
             fs == info.functions
             k  == Len(info.function_bodies)
  <2>1. /\ pc' = "module" /\ section' = section /\ section = 7 /\ left' = left
        /\ info' = [info EXCEPT !.function_bodies = Append(@, b)]
    BY <1>2, SectionNumber DEF Declares, In
  <2>2. /\ info \in Info /\ info.functions \in Seq(Functions)
        /\ info.signatures \in Seq(Signatures) /\ info.function_bodies \in Seq(Bodies)
        /\ info.imported_funcs \in Seq(Fields)
    BY DEF IInv, TypeOK, Info
  <2>3. \A f \in Nat : f < Len(fs) => FuncType(f) \in Nat
    <3> TAKE f \in Nat
    <3> HAVE f < Len(fs)
    <3>1. info.functions[f + 1] \in Functions
      BY <2>2
    <3> QED  BY <3>1 DEF FuncType, Functions
  <2>4. \A n \in Nat : Signed(n) => VmctxSig(n) \in Signatures /\ VmctxSig(n).vmctx = TRUE
    <3> TAKE n \in Nat
    <3> HAVE Signed(n)
    <3>1. info.signatures[n + 1] \in Signatures
      BY <2>2 DEF Signed
    <3> QED  BY <3>1 DEF VmctxSig, Signatures
  <2>5. FunctionIndex \in Nat /\ FunctionIndex = Len(info.imported_funcs) + k
    <3>1. Len(info.imported_funcs) \in Nat /\ Len(info.function_bodies) \in Nat
      BY <2>2
    <3>2. \A i, j \in Nat : i + j \in Nat
      OBVIOUS
    <3> QED  BY <3>1, <3>2, Zenon DEF FunctionIndex, Imported
  <2>6. \A c \in CallsOf(uses) :
          /\ c \in Calls /\ c.args = c.sig
          /\ c.name # None => /\ c.name \in Nat /\ c.name < Len(info.functions)
                              /\ c.sig = VmctxSig(FuncType(c.name))
    <3> TAKE c \in CallsOf(uses)
    <3>1. CASE \E u \in uses : u.kind = "call" /\ c = Call(u.index, DirectSig(u.index))
      <4>1. PICK u \in uses : u.kind = "call" /\ c = Call(u.index, DirectSig(u.index))
        BY <3>1
      <4>2. u.index \in Nat /\ u.index < Len(info.functions) /\ Signed(FuncType(u.index))
        <5>1. u \in Uses /\ InBounds(u)
          BY <1>2
        <5> QED  BY <4>1, <5>1, CountAssumption DEF InBounds, Uses
      <4>3. FuncType(u.index) \in Nat
        BY <2>3, <4>2
      <4>4. /\ DirectSig(u.index) \in Signatures /\ DirectSig(u.index).vmctx = TRUE
        BY <2>4, <4>2, <4>3 DEF DirectSig
      <4> QED  BY <4>1, <4>2, <4>4 DEF Call, Calls, Signature, Signatures, DirectSig
    <3>2. CASE \E u \in uses : u.kind = "call_indirect" /\ c = Call(None, VmctxSig(u.index))
      <4>1. PICK u \in uses : u.kind = "call_indirect" /\ c = Call(None, VmctxSig(u.index))
        BY <3>2
      <4>2. u.index \in Nat /\ Signed(u.index)
        <5>1. u \in Uses /\ InBounds(u)
          BY <1>2
        <5> QED  BY <4>1, <5>1, CountAssumption DEF InBounds, Uses
      <4>3. VmctxSig(u.index) \in Signatures /\ VmctxSig(u.index).vmctx = TRUE
        BY <2>4, <4>2
      <4> QED  BY <4>1, <4>3 DEF Call, Calls, Signature, Signatures
    <3> QED  BY <3>1, <3>2 DEF CallsOf
  <2>7. b \in Bodies
    BY <1>2, <2>3, <2>4, <2>5, <2>6 DEF Bodies
  <2> HIDE DEF b
  <2>8. /\ info'.functions = info.functions /\ info'.signatures = info.signatures
        /\ info'.imported_funcs = info.imported_funcs
        /\ info'.function_bodies = Append(info.function_bodies, b)
        /\ info' \in Info
    <3>1. Append(info.function_bodies, b) \in Seq(Bodies)
      BY <2>2, <2>7
    <3> QED  BY <2>1, <2>2, <3>1 DEF Info
  <2>9. /\ Len(info'.function_bodies) = k + 1
        /\ \A n \in 1..k : info'.function_bodies[n] = info.function_bodies[n]
        /\ info'.function_bodies[k + 1] = b
    BY <2>2, <2>7, <2>8
  <2>10. TypeOK'
    BY <2>1, <2>8 DEF IInv, TypeOK
  <2>11. Phases'
    BY <2>1, <2>8 DEF IInv, Phases
  <2>12. BodiesMatch'
    <3>1. Len(info.imported_funcs) + (k + 1) <= Len(info.functions)
      <4>1. \A i, j, m \in Nat : i + j < m => i + (j + 1) <= m
        OBVIOUS
      <4>2. /\ Len(info.imported_funcs) \in Nat /\ Len(info.functions) \in Nat
            /\ Len(info.function_bodies) \in Nat
        BY <2>2
      <4> QED  BY <1>2, <2>5, <4>1, <4>2, Zenon
    <3>2. ASSUME NEW n \in 1..(k + 1)
          PROVE  LET c == info'.function_bodies[n] IN
                   /\ c.name = Len(info.imported_funcs) + n - 1
                   /\ info.functions[c.name + 1].entity < Len(info.signatures)
                   /\ c.sig = VmctxSig(info.functions[c.name + 1].entity)
      <4>1. CASE n = k + 1
        <5>1. b.name = FunctionIndex /\ b.sig = VmctxSig(FuncType(FunctionIndex))
          BY DEF b
        <5>2. \A i, j \in Nat : i + j = i + (j + 1) - 1
          OBVIOUS
        <5>3. Len(info.imported_funcs) \in Nat /\ Len(info.function_bodies) \in Nat
          BY <2>2
        <5>4. FunctionIndex = Len(info.imported_funcs) + n - 1
          BY <2>5, <4>1, <5>2, <5>3, Zenon
        <5>5. info'.function_bodies[n] = b
          BY <2>9, <4>1, Zenon
        <5> QED  BY <1>2, <5>1, <5>4, <5>5, Zenon DEF FuncType, Signed
      <4>2. CASE n \in 1..k
        BY <2>9, <4>2 DEF IInv, BodiesMatch, Imported
      <4>3. k \in Nat
        BY <2>2
      <4> QED  BY <3>2, <4>1, <4>2, <4>3
    <3> QED  BY <2>8, <2>9, <3>1, <3>2 DEF BodiesMatch, Imported, VmctxSig
  <2>13. CallsTyped'
    <3>1. ASSUME NEW n \in 1..(k + 1), NEW c \in info'.function_bodies[n].calls
          PROVE  /\ c.args = c.sig
                 /\ c.name # None =>
                      /\ c.name \in Nat /\ c.name < Len(info.functions)
                      /\ c.sig = VmctxSig(FuncType(c.name))
      <4>1. CASE n = k + 1
        <5>1. b.calls = CallsOf(uses)
          BY DEF b
        <5> QED  BY <2>6, <2>9, <4>1, <5>1
      <4>2. CASE n \in 1..k
        BY <2>9, <4>2 DEF IInv, CallsTyped
      <4>3. k \in Nat
        BY <2>2
      <4> QED  BY <3>1, <4>1, <4>2, <4>3
    <3> QED  BY <2>8, <2>9, <3>1 DEF CallsTyped, VmctxSig, FuncType
  <2> QED  BY <2>10, <2>11, <2>12, <2>13 DEF IInv
<1> QED  BY <1>1, <1>2 DEF DefineFunctionBody

\* The other callbacks.
LEMMA Declared ==
  ASSUME IInv,
         \/ \E p \in Params : DeclareSignature(p)
         \/ \E s \in 0..MaxEntries :
              DeclareFuncType(s) \/ \E f \in Fields : DeclareFuncImport(s, f)
         \/ DeclareGlobal
         \/ \E f \in 0..MaxEntries, n \in Names : DeclareFuncExport(f, n)
         \/ \E f \in 0..MaxEntries : DeclareStartFunc(f)
  PROVE  IInv'
<1>1. /\ info \in Info /\ info.functions \in Seq(Functions)
      /\ info.signatures \in Seq(Signatures) /\ info.imported_funcs \in Seq(Fields)
      /\ info.globals \in Nat /\ Len(info.imported_funcs) <= Len(info.functions)
      /\ Len(info.imported_funcs) \in Nat /\ Len(info.functions) \in Nat
  BY DEF IInv, TypeOK, Info, Phases
<1>2. 0..MaxEntries \subseteq Nat
  BY CountAssumption
<1>3. \A s \in Nat : Exportable(s) \in Functions
  BY DEF Exportable, Functions
<1>4. ASSUME NEW s, Panics, In(s)
      PROVE  IInv'
  BY <1>4, InfoUnchanged DEF Panics, IInv, TypeOK, Sections
<1>5. \A i, j \in Nat : i <= j => i <= j + 1
  OBVIOUS
<1>6. ASSUME NEW p \in Params, DeclareSignature(p)
      PROVE  IInv'
  <2> DEFINE i == [info EXCEPT !.signatures = Append(@, Signature(p, FALSE))]
  <2>1. Append(info.signatures, Signature(p, FALSE)) \in Seq(Signatures)
    BY <1>1 DEF Signature, Signatures
  <2>2. /\ i \in Info /\ i.function_bodies = info.function_bodies
        /\ i.imported_funcs = info.imported_funcs /\ i.functions = info.functions
    BY <1>1, <2>1 DEF Info
  <2>3. Declares("type", i)
    BY <1>6 DEF DeclareSignature
  <2>4. Len(info.functions) = Len(info.imported_funcs)
    <3>1. In("type")
      BY <2>3 DEF Declares
    <3> QED  BY <3>1, SectionNumber DEF IInv, Phases
  <2> HIDE DEF i
  <2> QED  BY <1>1, <2>2, <2>3, <2>4, Declaration
<1>7. ASSUME NEW s \in 0..MaxEntries, DeclareFuncType(s)
      PROVE  IInv'
  <2> DEFINE i == [info EXCEPT !.functions = Append(@, Exportable(s))]
  <2>1. /\ Append(info.functions, Exportable(s)) \in Seq(Functions)
        /\ Len(Append(info.functions, Exportable(s))) = Len(info.functions) + 1
    BY <1>1, <1>2, <1>3
  <2>2. /\ i \in Info /\ i.function_bodies = info.function_bodies
        /\ i.imported_funcs = info.imported_funcs
        /\ i.functions = Append(info.functions, Exportable(s))
    BY <1>1, <2>1 DEF Info
  <2>3. Declares("function", i)
    BY <1>7 DEF DeclareFuncType
  <2> HIDE DEF i
  <2>4. Len(i.imported_funcs) <= Len(i.functions)
    BY <1>1, <1>5, <2>1, <2>2, Zenon
  <2> QED  BY <2>2, <2>3, <2>4, Declaration
<1>8. ASSUME NEW s \in 0..MaxEntries, NEW f \in Fields, DeclareFuncImport(s, f)
      PROVE  IInv'
  <2>1. CASE Len(info.functions) = Imported /\ Declares("import", Import(s, f))
    <3> DEFINE i == Import(s, f)
    <3>1. /\ Append(info.functions, Exportable(s)) \in Seq(Functions)
          /\ Append(info.imported_funcs, f) \in Seq(Fields)
          /\ Len(Append(info.functions, Exportable(s))) = Len(info.functions) + 1
          /\ Len(Append(info.imported_funcs, f)) = Len(info.imported_funcs) + 1
      BY <1>1, <1>2, <1>3
    <3>2. /\ i \in Info /\ i.function_bodies = info.function_bodies
          /\ i.imported_funcs = Append(info.imported_funcs, f)
          /\ i.functions = Append(info.functions, Exportable(s))
      BY <1>1, <3>1 DEF Info, Import
    <3> HIDE DEF i
    <3>3. Len(i.imported_funcs) = Len(i.functions)
      BY <2>1, <3>1, <3>2, Zenon DEF Imported
    <3>4. \A n \in Nat : n <= n
      OBVIOUS
    <3>5. Len(i.imported_funcs) <= Len(i.functions)
      <4>1. Len(i.imported_funcs) \in Nat
        BY <3>2 DEF Info
      <4> QED  BY <3>3, <3>4, <4>1, Zenon
    <3>6. Declares("import", i)
      BY <2>1 DEF i
    <3> QED  BY <3>2, <3>3, <3>5, <3>6, Declaration
  <2>2. CASE In("import") /\ Panics
    BY <1>4, <2>2
  <2> QED  BY <1>8, <2>1, <2>2 DEF DeclareFuncImport
<1>9. ASSUME DeclareGlobal
      PROVE  IInv'
  <2> DEFINE i == [info EXCEPT !.globals = @ + 1]
  <2>1. PICK s \in {"import", "global"} : Declares(s, i)
    BY <1>9 DEF DeclareGlobal
  <2>2. info.globals + 1 \in Nat
    BY <1>1
  <2>3. /\ i \in Info /\ i.function_bodies = info.function_bodies
        /\ i.imported_funcs = info.imported_funcs /\ i.functions = info.functions
    BY <1>1, <2>2 DEF Info
  <2>4. s = "import" => Len(info.functions) = Len(info.imported_funcs)
    <3>1. In(s)
      BY <2>1 DEF Declares
    <3> QED  BY <3>1, SectionNumber DEF IInv, Phases
  <2> HIDE DEF i
  <2> QED  BY <1>1, <2>1, <2>3, <2>4, Declaration
<1>10. ASSUME NEW f \in 0..MaxEntries, NEW n \in Names, DeclareFuncExport(f, n)
       PROVE  IInv'
  <2> DEFINE i == [info EXCEPT !.functions[f + 1].export_names = @ \cup {n}]
             e == [info.functions[f + 1] EXCEPT !.export_names = @ \cup {n}]
  <2>1. CASE f < Len(info.functions) /\ Declares("export", i)
    <3>1. info.functions[f + 1] \in Functions
      BY <1>1, <1>2, <2>1
    <3>2. e \in Functions
      BY <3>1 DEF Functions
    <3>3. i = [info EXCEPT !.functions = [info.functions EXCEPT ![f + 1] = e]]
      BY <1>1, <2>1 DEF Info
    <3> HIDE DEF e
    <3>4. /\ [info.functions EXCEPT ![f + 1] = e] \in Seq(Functions)
          /\ Len([info.functions EXCEPT ![f + 1] = e]) = Len(info.functions)
      <4>1. f + 1 \in 1..Len(info.functions)
        BY <1>1, <1>2, <2>1
      <4>2. \A q \in Seq(Functions) : \A m \in 1..Len(q), g \in Functions :
              [q EXCEPT ![m] = g] \in Seq(Functions) /\ Len([q EXCEPT ![m] = g]) = Len(q)
        BY ExceptSeq
      <4> QED  BY <1>1, <3>2, <4>1, <4>2, Zenon
    <3> HIDE DEF i
    <3>5. /\ i \in Info /\ i.function_bodies = info.function_bodies
          /\ i.imported_funcs = info.imported_funcs
          /\ Len(i.functions) = Len(info.functions)
      BY <1>1, <3>3, <3>4 DEF Info
    <3> QED  BY <1>1, <2>1, <3>5, Declaration
  <2>2. CASE In("export") /\ Panics
    BY <1>4, <2>2
  <2> QED  BY <1>10, <2>1, <2>2 DEF DeclareFuncExport
<1>11. ASSUME NEW f \in 0..MaxEntries, DeclareStartFunc(f)
       PROVE  IInv'
  <2> DEFINE i == [info EXCEPT !.start_func = f]
  <2>1. /\ i \in Info /\ i.function_bodies = info.function_bodies
        /\ i.imported_funcs = info.imported_funcs /\ i.functions = info.functions
    BY <1>1, <1>2 DEF Info
  <2>2. Declares("start", i)
    BY <1>11 DEF DeclareStartFunc
  <2> HIDE DEF i
  <2> QED  BY <1>1, <2>1, <2>2, Declaration
<1> QED  BY <1>6, <1>7, <1>8, <1>9, <1>10, <1>11

LEMMA NextIInv == IInv /\ [Next]_vars => IInv'
<1> SUFFICES ASSUME IInv, [Next]_vars PROVE IInv'
  OBVIOUS
<1>1. CASE SkipFile \/ NextSection \/ TranslationFails \/ Done \/ UNCHANGED vars
  <2>1. /\ info' = info /\ pc' \in {"file", "module", "done", "panicked"}
        /\ left' \in 0..Applications /\ section' \in 0..7
        /\ pc' = "module" => pc = "module" /\ section' \in 1..7 /\ section <= section'
        /\ pc' \in {"file", "done"} => section' = 0
    <3>1. Applications \in Nat
      BY CountAssumption
    <3>2. CASE SkipFile
      BY <3>1, <3>2 DEF SkipFile, IInv, TypeOK, Phases, Sections
    <3>3. CASE NextSection
      BY <3>3 DEF NextSection, IInv, TypeOK, Phases, Sections
    <3>4. CASE TranslationFails
      BY <3>4 DEF TranslationFails, Panics, IInv, TypeOK, Phases, Sections
    <3>5. CASE Done
      BY <3>5 DEF Done, IInv, TypeOK, Phases, Sections
    <3>6. CASE UNCHANGED vars
      BY <3>6 DEF vars, IInv, TypeOK, Phases, Sections
    <3> QED  BY <1>1, <3>2, <3>3, <3>4, <3>5, <3>6
  <2> QED  BY <2>1, InfoUnchanged
<1>2. CASE OpenFile
  <2>1. /\ pc' = "module" /\ section' = 1 /\ info' = ModuleInfo
        /\ left' \in 0..Applications
    BY <1>2, CountAssumption DEF OpenFile, IInv, TypeOK
  <2>2. ModuleInfo \in Info
    BY DEF ModuleInfo, Info
  <2>3. /\ info'.functions = <<>> /\ info'.imported_funcs = <<>>
        /\ info'.function_bodies = <<>>
    BY <2>1 DEF ModuleInfo
  <2>4. TypeOK'
    BY <2>1, <2>2 DEF TypeOK, Sections
  <2>5. Phases' /\ BodiesMatch' /\ CallsTyped'
    BY <2>1, <2>3 DEF Phases, BodiesMatch, CallsTyped, Imported
  <2> QED  BY <2>4, <2>5 DEF IInv
<1>3. CASE DeclareOtherExport
  BY <1>3, InfoUnchanged DEF DeclareOtherExport, Panics, IInv, TypeOK, Sections
<1>4. CASE \E uses \in SUBSET Uses : Cardinality(uses) <= MaxUses /\ DefineFunctionBody(uses)
  BY <1>4, BodyDefined
<1>5. CASE \/ \E p \in Params : DeclareSignature(p)
           \/ \E s \in 0..MaxEntries :
                DeclareFuncType(s) \/ \E f \in Fields : DeclareFuncImport(s, f)
           \/ DeclareGlobal
           \/ \E f \in 0..MaxEntries, n \in Names : DeclareFuncExport(f, n)
           \/ \E f \in 0..MaxEntries : DeclareStartFunc(f)
  BY <1>5, Declared
<1> QED  BY <1>1, <1>2, <1>3, <1>4, <1>5 DEF Next

\* What is known of a module while it is declared and translated.
THEOREM Inductive == Spec => []IInv
<1> QED  BY InitIInv, NextIInv, PTL DEF Spec

\* Every variable keeps its type.
THEOREM TypeCorrect == Spec => []TypeOK
<1>1. IInv => TypeOK
  BY DEF IInv
<1> QED  BY <1>1, Inductive, PTL

\* define_function_body names the bodies after the functions that they belong to and
\* gives them their types, for any number of imports, functions and bodies.
THEOREM BodiesAreNamed == Spec => []BodiesMatch
<1>1. IInv => BodiesMatch
  BY DEF IInv
<1> QED  BY <1>1, Inductive, PTL

\* Caller and callee agree on the parameters, the vmctx among them.
THEOREM CallsAreLinked == Spec => []CallsLink
<1>1. IInv => CallsLink
  <2> SUFFICES ASSUME IInv, NEW n \in 1..Len(info.function_bodies),
                      NEW c \in info.function_bodies[n].calls
               PROVE  /\ c.args = c.sig
                      /\ c.name # None => c.name < Len(info.functions)
                      /\ \A m \in 1..Len(info.function_bodies) :
                           info.function_bodies[m].name = c.name
                             => info.function_bodies[m].sig = c.sig
    BY DEF CallsLink
  <2>1. c.args = c.sig /\ (c.name # None => c.name < Len(info.functions))
    BY DEF IInv, CallsTyped
  <2>2. ASSUME NEW m \in 1..Len(info.function_bodies), info.function_bodies[m].name = c.name
        PROVE  info.function_bodies[m].sig = c.sig
    <3>1. info.function_bodies \in Seq(Bodies)
      BY DEF IInv, TypeOK, Info
    <3>2. info.function_bodies[m] \in Bodies
      BY <3>1
    <3>3. c.name # None
      BY <2>2, <3>2, CountAssumption DEF Bodies
    <3>4. info.function_bodies[m].sig
            = VmctxSig(info.functions[info.function_bodies[m].name + 1].entity)
      BY DEF IInv, BodiesMatch
    <3>5. c.sig = VmctxSig(FuncType(c.name))
      BY <3>3 DEF IInv, CallsTyped
    <3> QED  BY <2>2, <3>4, <3>5 DEF FuncType
  <2> QED  BY <2>1, <2>2
<1> QED  BY <1>1, Inductive, PTL

\* The assertion of declare_func_import never fails on sections in the order that the
\* parser is assumed to keep (ImportsComeFirst).
THEOREM ImportsAreFirst == Spec => []ImportsComeFirst
<1>1. IInv => ImportsComeFirst
  BY DEF IInv, Phases, ImportsComeFirst, Sections, Imported
<1> QED  BY <1>1, Inductive, PTL

=============================================================================
