------------------------------- MODULE JitEnv -------------------------------
(***************************************************************************)
(* The compiling server (src/jit): for every application, the environment  *)
(* in which cretonne_wasm translates its module.  translate_module calls   *)
(* back section by section, in the order of the binary format, which is    *)
(* assumed of its parser (external); it does not validate what the         *)
(* sections say, so any index may come.                                    *)
(***************************************************************************)
EXTENDS Naturals, Sequences, FiniteSets

CONSTANTS
  Params,         \* lists of the types of a function's parameters
  Fields,         \* names of imports
  Names,          \* of exports
  Applications,   \* the number of Config::applications
  MaxEntries,     \* bound: the types, imports, functions and bodies, and the indices
  MaxOthers,      \* bound: globals, exports and start functions, together
  MaxUses,        \* bound: what one body refers to
  None

ASSUME CountAssumption  == /\ {Applications, MaxEntries, MaxOthers, MaxUses} \subseteq Nat
                           /\ None \notin Nat

VARIABLES
  pc,       \* "file", "module", "done" or "panicked"
  left,     \* the applications that are left
  section,  \* of the module, while it is translated
  info      \* Env::info

vars == <<pc, left, section, info>>

\* The order of the sections.
Sections == <<"type", "import", "function", "global", "export", "start", "code">>

ModuleInfo ==
  [signatures |-> <<>>, imported_funcs |-> <<>>, functions |-> <<>>,
   function_bodies |-> <<>>, globals |-> 0, start_func |-> None]

Init == pc = "file" /\ left = Applications /\ section = 0 /\ info = ModuleInfo

Panics == pc' = "panicked" /\ UNCHANGED <<left, section, info>>

----------------------------------------------------------------------------
(* server                                                                  *)

\* A file that cannot be opened is passed over.
SkipFile == pc = "file" /\ left > 0 /\ left' = left - 1 /\ UNCHANGED <<pc, section, info>>

OpenFile ==
  /\ pc = "file" /\ left > 0
  /\ pc' = "module" /\ left' = left - 1 /\ section' = 1 /\ info' = ModuleInfo

\* Mutant: the end of the module is missed.
NextSectionBeyond ==
  /\ pc = "module"
  /\ IF section <= Len(Sections) THEN section' = section + 1 /\ UNCHANGED pc
                                 ELSE section' = 0 /\ pc' = "file"
  /\ UNCHANGED <<left, info>>

NextSection ==
  /\ pc = "module"
  /\ IF section < Len(Sections) THEN section' = section + 1 /\ UNCHANGED pc
                                ELSE section' = 0 /\ pc' = "file"
  /\ UNCHANGED <<left, info>>

\* What the parser refuses is an Err, which is unwrapped.
TranslationFails == pc = "module" /\ Panics

Done == pc = "file" /\ left = 0 /\ pc' = "done" /\ UNCHANGED <<left, section, info>>

----------------------------------------------------------------------------
(* Declarations.                                                           *)

Imported == Len(info.imported_funcs)

In(s) == pc = "module" /\ Sections[section] = s

\* A callback from section s.
Declares(s, i) == In(s) /\ info' = i /\ UNCHANGED <<pc, left, section>>

Others ==
  info.globals + (IF info.start_func = None THEN 0 ELSE 1)
    + Cardinality({f \in 1..Len(info.functions) : info.functions[f].export_names # {}})

\* With vmctx as its last parameter, or without.
Signature(p, vmctx) == [params |-> p, vmctx |-> vmctx]

DeclareSignature(p) ==
  /\ Len(info.signatures) < MaxEntries
  /\ Declares("type", [info EXCEPT !.signatures = Append(@, Signature(p, FALSE))])

Exportable(s) == [entity |-> s, export_names |-> {}]

\* Mutant: a field that is imported again is not declared again.
ImportOnce(s, f) ==
  [info EXCEPT !.functions = IF \E n \in 1..Imported : info.imported_funcs[n] = f THEN @
                             ELSE Append(@, Exportable(s)),
               !.imported_funcs = Append(@, f)]

Import(s, f) ==
  [info EXCEPT !.functions = Append(@, Exportable(s)), !.imported_funcs = Append(@, f)]

\* "Imported functions must be declared first", or the assertion fails.
DeclareFuncImport(s, f) ==
  /\ Imported < MaxEntries
  /\ IF Len(info.functions) = Imported THEN Declares("import", Import(s, f))
                                       ELSE In("import") /\ Panics

DeclareFuncType(s) ==
  /\ Len(info.functions) < Imported + MaxEntries
  /\ Declares("function",
       [info EXCEPT !.functions = Append(@, Exportable(s))])

\* Defined or imported.
DeclareGlobal ==
  /\ Others < MaxOthers
  /\ \E s \in {"import", "global"} : Declares(s, [info EXCEPT !.globals = @ + 1])

\* An index that no function has is out of bounds.
DeclareFuncExport(f, n) ==
  /\ Others < MaxOthers
  /\ IF f < Len(info.functions)
       THEN Declares("export", [info EXCEPT !.functions[f + 1].export_names = @ \cup {n}])
       ELSE In("export") /\ Panics

\* unimplemented!() for tables, memories and globals.
DeclareOtherExport == In("export") /\ Panics

DeclareStartFunc(f) ==
  /\ info.start_func = None /\ Others < MaxOthers
  /\ Declares("start", [info EXCEPT !.start_func = f])

----------------------------------------------------------------------------
(* Bodies.                                                                 *)

\* FuncEnv::vmctx_sig; s is the index of a signature.
VmctxSig(s) == [info.signatures[s + 1] EXCEPT !.vmctx = TRUE]

Signed(s) == s < Len(info.signatures)

\* get_func_type, by the index of a function.
FuncType(f) == info.functions[f + 1].entity

\* Mutant: make_direct_func takes the signature as it is declared.
DirectSigPlain(f) == info.signatures[FuncType(f) + 1]

\* make_direct_func
DirectSig(f) == VmctxSig(FuncType(f))

\* What a body may refer to: a global, a function, or a function in the table, by the
\* index of its signature.
Uses == [kind : {"global", "call", "call_indirect"}, index : 0..MaxEntries]

InBounds(u) ==
  CASE u.kind = "global"        -> u.index < info.globals
    [] u.kind = "call"          -> u.index < Len(info.functions) /\ Signed(FuncType(u.index))
    [] u.kind = "call_indirect" -> Signed(u.index)

\* The translator takes the operands that the signature says from its stack;
\* translate_call and translate_call_indirect pass their own vmctx on.
Call(name, sig) == [name |-> name, sig |-> sig, args |-> Signature(sig.params, TRUE)]

CallsOf(uses) ==
  {Call(u.index, DirectSig(u.index)) : u \in {v \in uses : v.kind = "call"}}
    \cup {Call(None, VmctxSig(u.index)) : u \in {v \in uses : v.kind = "call_indirect"}}

\* Mutant: the imports are not counted.
DefinedIndex == Len(info.function_bodies)

\* The index of the function whose body comes next.
FunctionIndex == Imported + Len(info.function_bodies)

DefineFunctionBody(uses) ==
  /\ Len(info.function_bodies) < MaxEntries
  /\ IF /\ FunctionIndex < Len(info.functions) /\ Signed(FuncType(FunctionIndex))
        /\ \A u \in uses : InBounds(u)
       THEN Declares("code",
              [info EXCEPT !.function_bodies =
                 Append(@, [name |-> FunctionIndex, sig |-> VmctxSig(FuncType(FunctionIndex)),
                            calls |-> CallsOf(uses)])])
       ELSE In("code") /\ Panics

Next ==
  \/ SkipFile \/ OpenFile \/ NextSection \/ TranslationFails \/ Done
  \/ \E p \in Params : DeclareSignature(p)
  \/ \E s \in 0..MaxEntries : DeclareFuncType(s) \/ \E f \in Fields : DeclareFuncImport(s, f)
  \/ DeclareGlobal \/ DeclareOtherExport
  \/ \E f \in 0..MaxEntries, n \in Names : DeclareFuncExport(f, n)
  \/ \E f \in 0..MaxEntries : DeclareStartFunc(f)
  \/ \E uses \in SUBSET Uses : Cardinality(uses) <= MaxUses /\ DefineFunctionBody(uses)

Spec == Init /\ [][Next]_vars

----------------------------------------------------------------------------
(* Correctness.                                                            *)

Signatures == [params : Params, vmctx : BOOLEAN]
Calls      == [name : Nat \cup {None}, sig : Signatures, args : Signatures]

Functions  == [entity : Nat, export_names : SUBSET Names]
Bodies     == [name : Nat, sig : Signatures, calls : SUBSET Calls]
Info ==
  [signatures : Seq(Signatures), imported_funcs : Seq(Fields), functions : Seq(Functions),
   function_bodies : Seq(Bodies), globals : Nat, start_func : Nat \cup {None}]

TypeOK ==
  /\ pc \in {"file", "module", "done", "panicked"}
  /\ left \in 0..Applications /\ section \in 0..Len(Sections)
  /\ info \in Info

\* The bodies are those of the functions behind the imports, in their order and under
\* their types, also where a module declares more functions than it has bodies for.
BodiesMatch ==
  /\ Imported + Len(info.function_bodies) <= Len(info.functions)
  /\ \A n \in 1..Len(info.function_bodies) :
       LET b == info.function_bodies[n] IN
         /\ b.name = Imported + n - 1
         /\ info.functions[b.name + 1].entity < Len(info.signatures)
         /\ b.sig = VmctxSig(info.functions[b.name + 1].entity)

\* A call passes what its signature takes, the vmctx included, and to the body of that
\* name if it has one: it was translated under the same signature.
CallsLink ==
  \A n \in 1..Len(info.function_bodies) : \A c \in info.function_bodies[n].calls :
    /\ c.args = c.sig
    /\ c.name # None => c.name < Len(info.functions)
    /\ \A m \in 1..Len(info.function_bodies) :
         info.function_bodies[m].name = c.name => info.function_bodies[m].sig = c.sig

\* The assertion of declare_func_import holds, for any order of the imports, in
\* sections that come in the order of Sections.
ImportsComeFirst ==
  pc = "module" /\ Sections[section] \in {"type", "import"}
    => Len(info.functions) = Imported

=============================================================================
