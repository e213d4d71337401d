------------------------------ MODULE Dependencies -----------------------------
(***************************************************************************)
(* The dependencies of a program in src/tools/heluna-compile.c: resolve_   *)
(* deps loads the files a program uses, and theirs, and the code generator *)
(* (compile_inline_call, resolve_call) compiles the body of a dependency   *)
(* in place of each call of it.  Both recursions are stacks of frames: the *)
(* file an active call works on and how far its loop has got.              *)
(*                                                                         *)
(* A file is [kind, uses, sanitizers, calls, sound]: calls are the calls   *)
(* of the body in the order they are compiled, and sound says that the     *)
(* file parses and checker_check finds no error in it.                     *)
(*                                                                         *)
(* Three tables name the functions of the library: the checker's, the      *)
(* tool's and the compiler's.  The checker's alone has fold and the        *)
(* conversions, for some calls of which the compiler has code of its own.  *)
(***************************************************************************)
EXTENDS DepGraph, Integers, SequencesExt, FiniteSets

CONSTANTS
  Folders,      \* what the directory of the program may hold: name :> file
  Main,         \* the file to compile
  CheckerLibrary,   \* stdlib_functions of checker.c
  ToolLibrary,      \* stdlib_names of heluna-compile.c
  CompilerLibrary,  \* stdlib_table of compiler.c
  MaxDeps,      \* the size of the array deps, 32 in main
  MaxNesting    \* how many calls of compile_inline_call the C stack holds

Conversions == {"to-string", "to-float", "to-integer"}

ASSUME LibraryAssumption ==
  /\ ToolLibrary \subseteq CompilerLibrary
  /\ CheckerLibrary \subseteq CompilerLibrary \cup Conversions \cup {"fold"}

(* What a folder holds.  A call is whole if its argument is a record       *)
(* literal of a list, an initial value and the text fn.                    *)
File ==
  [kind : {"function", "source"}, uses : Seq(STRING),
   sanitizers : Seq([name : STRING, impl : STRING]),
   calls : Seq([name : STRING, whole : BOOLEAN]), sound : BOOLEAN]

Called(file) == {c.name : c \in Range(file.calls)}
Sanitized(file) == {s.name : s \in Range(file.sanitizers)}

(* The checker lets a file call what its uses clause, its sanitizers or    *)
(* the library name, and a sanitizer stand for what the first or last name.*)
Callable(file) ==
  Range(file.uses) \cup Sanitized(file) \cup CheckerLibrary

Standing(file) ==
  \A s \in Range(file.sanitizers) : s.impl \in Range(file.uses) \cup CheckerLibrary \cup {""}

ASSUME FoldersAssumption ==
  \A files \in Folders :
    /\ IsFiniteSet(DOMAIN files) /\ DOMAIN files \subseteq STRING
    /\ \A n \in DOMAIN files :
         /\ files[n] \in File
         /\ files[n].sound => Called(files[n]) \subseteq Callable(files[n]) /\ Standing(files[n])
    /\ Main \in DOMAIN files /\ files[Main].sound

ASSUME BoundsAssumption == MaxDeps \in Nat /\ MaxNesting \in Nat

VARIABLES
  folder,     \* the files
  deps,       \* names of the loaded dependencies, in order
  loading,    \* active calls of resolve_deps, [file, at]
  inlining,   \* active compilations of a body, [file, at]
  failed,     \* a compile error was recorded
  phase       \* "resolving", "compiling", "compiled" or "overflow"

vars == <<folder, deps, loading, inlining, failed, phase>>

Frame(f) == [file |-> f, at |-> 0]

Init ==
  /\ folder \in Folders
  /\ deps = << >> /\ loading = <<Frame(Main)>> /\ inlining = << >>
  /\ failed = FALSE /\ phase = "resolving"

Advance(stack) == [stack EXCEPT ![Len(stack)].at = @ + 1]

------------------------------------------------------------------------------
(* resolve_deps: the names of the uses clause, then the implementations of *)
(* sanitizers, where it passes over what its table of the library has and  *)
(* sanitizers that have none ("").                                         *)
Requests(file) ==
  file.uses \o [i \in DOMAIN file.sanitizers |-> file.sanitizers[i].impl]

PassedOver(file, i) ==
  i > Len(file.uses) /\ Requests(file)[i] \in ToolLibrary \cup {""}

Wanted(file) ==
  {Requests(file)[i] : i \in {k \in DOMAIN Requests(file) : ~PassedOver(file, k)}}

Resolving == phase = "resolving"
Loading == folder[Last(loading).file]
AtName == Resolving /\ Last(loading).at < Len(Requests(Loading))
Name == Requests(Loading)[Last(loading).at + 1]

Known(name) == Contains(deps, name)

Loadable(name) ==
  /\ ~PassedOver(Loading, Last(loading).at + 1)
  /\ ~Known(name) /\ Len(deps) < MaxDeps
  /\ name \in DOMAIN folder /\ folder[name].sound

(* Passed over, already loaded, no room, no such file, or one with errors. *)
SkipName ==
  /\ AtName /\ ~Loadable(Name)
  /\ loading' = Advance(loading)
  /\ UNCHANGED <<folder, deps, inlining, failed, phase>>

(* A faulty variant: the dependencies of a dependency are not loaded.      *)
LoadAlone ==
  /\ AtName /\ Loadable(Name)
  /\ deps' = Append(deps, Name)
  /\ loading' = Advance(loading)
  /\ UNCHANGED <<folder, inlining, failed, phase>>

LoadName ==
  /\ AtName /\ Loadable(Name)
  /\ deps' = Append(deps, Name)
  /\ loading' = Append(Advance(loading), Frame(Name))
  /\ UNCHANGED <<folder, inlining, failed, phase>>

ReturnLoaded ==
  /\ Resolving /\ Last(loading).at = Len(Requests(Loading))
  /\ loading' = Front(loading)
  /\ IF Len(loading) = 1
     THEN phase' = "compiling" /\ inlining' = <<Frame(Main)>>
     ELSE UNCHANGED <<phase, inlining>>
  /\ UNCHANGED <<folder, deps, failed>>

------------------------------------------------------------------------------
(* EXPR_CALL: a call by the name of a conversion, or of fold with all its  *)
(* arguments, has code of its own.  For any other, resolve_call: a         *)
(* sanitizer of the main program stands for its implementation; then the   *)
(* compiler's table, then a loaded function.                               *)
Compiling == phase = "compiling"
Calls == folder[Last(inlining).file].calls
Call == Calls[Last(inlining).at + 1]

BuiltIn(call) ==
  \/ call.name \in Conversions
  \/ call.name = "fold" /\ call.whole

AtBuiltIn == Compiling /\ Last(inlining).at < Len(Calls) /\ BuiltIn(Call)
AtCall == Compiling /\ Last(inlining).at < Len(Calls) /\ ~BuiltIn(Call)

(* A faulty variant: sanitizers are not looked up.                         *)
CalleeAsNamed == Call.name

(* The implementation of the first sanitizer of that name.                 *)
Sanitizing(name) ==
  LET all == folder[Main].sanitizers IN
  {all[i].impl : i \in {k \in DOMAIN all :
     all[k].name = name /\ \A j \in 1 .. k - 1 : all[j].name # name}}

Callee ==
  LET impls == Sanitizing(Call.name) \ {""}
  IN  IF impls = {} THEN Call.name ELSE CHOOSE impl \in impls : TRUE

Inlined(name) ==
  name \notin CompilerLibrary /\ Known(name) /\ folder[name].kind = "function"

CompileBuiltIn ==
  /\ AtBuiltIn
  /\ inlining' = Advance(inlining)
  /\ UNCHANGED <<folder, deps, loading, failed, phase>>

CompileLibraryCall ==
  /\ AtCall /\ Callee \in CompilerLibrary
  /\ inlining' = Advance(inlining)
  /\ UNCHANGED <<folder, deps, loading, failed, phase>>

(* A faulty variant: the call is compiled again after its body.            *)
CompileInlineAgain ==
  /\ AtCall /\ Inlined(Callee) /\ Len(inlining) < MaxNesting
  /\ inlining' = Append(inlining, Frame(Callee))
  /\ UNCHANGED <<folder, deps, loading, failed, phase>>

CompileInlineCall ==
  /\ AtCall /\ Inlined(Callee) /\ Len(inlining) < MaxNesting
  /\ inlining' = Append(Advance(inlining), Frame(Callee))
  /\ UNCHANGED <<folder, deps, loading, failed, phase>>

(* Nothing limits the recursion but the stack of the process.              *)
StackOverflow ==
  /\ AtCall /\ Inlined(Callee) /\ Len(inlining) = MaxNesting
  /\ phase' = "overflow"
  /\ UNCHANGED <<folder, deps, loading, inlining, failed>>

CompileUnknownCall ==
  /\ AtCall /\ Callee \notin CompilerLibrary /\ ~Inlined(Callee)
  /\ failed' = TRUE
  /\ inlining' = Advance(inlining)
  /\ UNCHANGED <<folder, deps, loading, phase>>

ReturnCompiled ==
  /\ Compiling /\ Last(inlining).at = Len(Calls)
  /\ inlining' = Front(inlining)
  /\ phase' = IF Len(inlining) = 1 THEN "compiled" ELSE phase
  /\ UNCHANGED <<folder, deps, loading, failed>>

Next ==
  \/ SkipName \/ LoadName \/ ReturnLoaded
  \/ CompileBuiltIn \/ CompileLibraryCall \/ CompileInlineCall
  \/ StackOverflow \/ CompileUnknownCall \/ ReturnCompiled

(* The tool is one thread that runs to its end.                            *)
Spec == Init /\ [][Next]_vars /\ WF_vars(Next)

------------------------------------------------------------------------------
(* The files the program needs: the least set that holds those it wants    *)
(* itself, and with a loadable file those that one wants.                  *)
Mentioned == UNION {Wanted(folder[n]) : n \in DOMAIN folder}
LoadsSoundly(n) == n \in DOMAIN folder /\ folder[n].sound
Closed(S) == \A n \in S : LoadsSoundly(n) => Wanted(folder[n]) \subseteq S

Needed ==
  {n \in Mentioned :
     \A S \in SUBSET Mentioned : Wanted(folder[Main]) \subseteq S /\ Closed(S) => n \in S}
NeededSound == {n \in Needed : LoadsSoundly(n)}
HasRoom == Cardinality(NeededSound) <= MaxDeps

(* resolve_deps loads each file the program needs, directly or through     *)
(* another dependency, once: shared dependencies and circles of uses       *)
(* clauses end the recursion and lose nothing.                             *)
DependenciesComplete ==
  /\ IsInjective(deps)
  /\ phase # "resolving" /\ HasRoom => Range(deps) = NeededSound

(* The graph check_acyclicity is given for a folder.                       *)
GraphOf(files) ==
  LET names == SetToSeq(DOMAIN files)
  IN  [i \in DOMAIN names |-> [name |-> names[i], deps |-> SetToSeq(Wanted(files[names[i]]))]]

(* Files are named like no function of the library, sanitizers like no     *)
(* file, and those of the program capture no call of another file.         *)
OwnNames ==
  /\ DOMAIN folder \cap CheckerLibrary = {}
  /\ \A n \in DOMAIN folder : Sanitized(folder[n]) \cap DOMAIN folder = {}
  /\ \A n \in DOMAIN folder \ {Main} :
       Called(folder[n]) \cap Sanitized(folder[Main]) = {}

(* What a needed file has to be: a name the checker's table lacks is that  *)
(* of a sound file, and a file that is loaded is a function and declares   *)
(* no sanitizers, because the code generator looks at the program's alone. *)
Usable(n) ==
  /\ n \notin CheckerLibrary => LoadsSoundly(n)
  /\ LoadsSoundly(n) => folder[n].kind = "function" /\ folder[n].sanitizers = << >>

(* A sanitizer stands for a function of the compiler's table or of a file. *)
(* A checked program may have others: one without a using clause whose own *)
(* name is no function, and one that is using fold or a conversion, which  *)
(* the checker and the documents take for functions like any other.        *)
Backed(s) ==
  (IF s.impl = "" THEN s.name ELSE s.impl) \in CompilerLibrary \cup NeededSound

(* A fold that is not given its arguments in a record literal is checked,  *)
(* and no table of the compiler has it.                                    *)
FoldsWhole(file) == \A c \in Range(file.calls) : c.name = "fold" => c.whole

(* Every call the checker has accepted is compiled, unless a needed file   *)
(* is missing, broken or unusable, a sanitizer of the program stands for   *)
(* none of the compiler's functions, or a fold is not written out.         *)
CheckedCallsResolve ==
  failed =>
    ~ /\ \A n \in Needed : Usable(n)
      /\ \A s \in Range(folder[Main].sanitizers) : Backed(s)
      /\ \A n \in {Main} \cup NeededSound : FoldsWhole(folder[n])
      /\ HasRoom

(* Functions cannot call themselves, directly or indirectly: no body is    *)
(* compiled inside itself.                                                 *)
NoRecursion ==
  \A i, j \in DOMAIN inlining : inlining[i].file = inlining[j].file => i = j

(* No body is compiled inside itself, so there are as many at work as      *)
(* there are files, at most.                                               *)
ShallowNesting == NoRecursion /\ Len(inlining) <= Len(deps) + 1

(* A program whose uses clauses have no cycle is compiled to the end, and  *)
(* its bodies nest no deeper than it has dependencies, provided no         *)
(* sanitizer takes the name of a file or of what a dependency calls.       *)
AcyclicCompiles ==
  OwnNames /\ ~Cyclic(GraphOf(folder)) =>
    /\ []ShallowNesting
    /\ <>(phase = "compiled")

==============================================================================
