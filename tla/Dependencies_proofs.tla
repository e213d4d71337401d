--------------------------- MODULE Dependencies_proofs ---------------------------
(***************************************************************************)
(* Proofs about Dependencies.tla: for any folder, with any number of files *)
(* that use one another in any way, resolve_deps loads the files the       *)
(* program needs, each once, and the compiler then finds every function a  *)
(* checked program calls.                                                  *)
(***************************************************************************)
EXTENDS Dependencies, FiniteSetTheorems, SequenceTheorems, WellFoundedInduction, TLAPS

Frames == [file : STRING, at : Nat]

Loaded == Range(deps)

(* The requests a call of resolve_deps has been through are loaded, if     *)
(* there is a sound file for them.                                         *)
Sound(files, n) == n \in DOMAIN files /\ files[n].sound

Handled(files, frame, names) ==
  LET r == Requests(files[frame.file]) IN
  \A k \in 1 .. frame.at :
    k \in DOMAIN r /\ ~PassedOver(files[frame.file], k) /\ Sound(files, r[k])
      => r[k] \in names

(* What a file wants is loaded.                                            *)
Complete(files, file, names) ==
  \A n \in Wanted(files[file]) : Sound(files, n) => n \in names

TypeInv ==
  /\ folder \in Folders
  /\ deps \in Seq(STRING)
  /\ loading \in Seq(Frames) /\ inlining \in Seq(Frames)
  /\ failed \in BOOLEAN
  /\ phase \in {"resolving", "compiling", "compiled", "overflow"}

(* Each file is loaded once, because it is needed and can be loaded.       *)
LoadedInv ==
  /\ Loaded \subseteq NeededSound
  /\ IsInjective(deps)
  /\ IsFiniteSet(Loaded) /\ Cardinality(Loaded) = Len(deps)

(* The active calls of resolve_deps work on the program or a loaded file,  *)
(* and what a loaded file wants is loaded unless its call is still active. *)
LoadingInv ==
  /\ phase = "resolving" <=> loading # << >>
  /\ \A i \in 1 .. Len(loading) : loading[i].file \in {Main} \cup Loaded
  /\ HasRoom =>
       /\ \A i \in 1 .. Len(loading) : Handled(folder, loading[i], Loaded)
       /\ \A n \in {Main} \cup Loaded :
            Complete(folder, n, Loaded) \/ \E i \in 1 .. Len(loading) : loading[i].file = n

(* Bodies being compiled are the program's or a loaded file's.             *)
InliningInv ==
  /\ \A i \in 1 .. Len(inlining) : inlining[i].file \in {Main} \cup Loaded
  /\ phase = "resolving" => ~failed
  /\ phase = "compiling" => inlining # << >>
  /\ CheckedCallsResolve

IInv == TypeInv /\ LoadedInv /\ LoadingInv /\ InliningInv

------------------------------------------------------------------------------
(* A non-empty set of naturals has a least element.                        *)
LEMMA LeastElement ==
  ASSUME NEW S, S \subseteq Nat, S # {}
  PROVE  \E i \in S : \A j \in S : i <= j
<1>1. PICK i \in S : \A j \in S : <<j, i>> \notin OpToRel(<, Nat)
  BY WFMin, NatLessThanWellFounded, Zenon
<1>2. \A j \in S : ~(j < i)
  BY <1>1, Zenon DEF OpToRel
<1>3. QED
  BY <1>2

(* Stacks and lists of names.                                              *)
LEMMA AppendFact ==
  ASSUME NEW T, NEW s \in Seq(T), NEW x \in T
  PROVE  /\ Append(s, x) \in Seq(T) /\ Len(Append(s, x)) = Len(s) + 1
         /\ Append(s, x)[Len(s) + 1] = x
         /\ \A i \in 1 .. Len(s) : Append(s, x)[i] = s[i]
         /\ Append(s, x) # << >>
         /\ Len(s) \in Nat
  OBVIOUS

LEMMA RangeAppend ==
  ASSUME NEW T, NEW s \in Seq(T), NEW x \in T
  PROVE  Range(Append(s, x)) = Range(s) \cup {x}
<1>1. DOMAIN Append(s, x) = DOMAIN s \cup {Len(s) + 1}
  OBVIOUS
<1>2. /\ \A i \in DOMAIN s : Append(s, x)[i] = s[i]
      /\ Append(s, x)[Len(s) + 1] = x
  OBVIOUS
<1>3. QED
  BY <1>1, <1>2 DEF Range

LEMMA ContainsFact ==
  ASSUME NEW T, NEW s \in Seq(T), NEW x
  PROVE  Contains(s, x) <=> x \in Range(s)
  BY DEF Contains, Range

LEMMA AdvanceFact ==
  ASSUME NEW s \in Seq(Frames), s # << >>
  PROVE  /\ Advance(s) \in Seq(Frames) /\ Len(Advance(s)) = Len(s)
         /\ Len(s) \in 1 .. Len(s) /\ Last(s) = s[Len(s)]
         /\ Advance(s) # << >>
         /\ \A i \in 1 .. Len(s) :
              /\ s[i] \in Frames
              /\ Advance(s)[i].file = s[i].file
              /\ Advance(s)[i].at = IF i = Len(s) THEN s[i].at + 1 ELSE s[i].at
<1> DEFINE f == [s[Len(s)] EXCEPT !.at = @ + 1]
<1>1. Len(s) \in 1 .. Len(s) /\ \A i \in 1 .. Len(s) : s[i] \in Frames
  OBVIOUS
<1>2. /\ f \in Frames /\ f.file = s[Len(s)].file /\ f.at = s[Len(s)].at + 1
  BY <1>1 DEF Frames
<1>3. Advance(s) = [s EXCEPT ![Len(s)] = f]
  BY DEF Advance
<1> HIDE DEF f
<1>4. /\ Advance(s) \in Seq(Frames) /\ Len(Advance(s)) = Len(s)
      /\ \A i \in 1 .. Len(s) : Advance(s)[i] = IF i = Len(s) THEN f ELSE s[i]
  BY <1>1, <1>2, <1>3
<1>5. QED
  BY <1>1, <1>2, <1>4 DEF Last

LEMMA FrontFact ==
  ASSUME NEW s \in Seq(Frames), s # << >>
  PROVE  /\ Front(s) \in Seq(Frames) /\ Len(Front(s)) = Len(s) - 1
         /\ \A i \in 1 .. Len(s) - 1 : Front(s)[i] = s[i] /\ i \in 1 .. Len(s)
         /\ Front(s) = << >> <=> Len(s) = 1
         /\ Len(s) \in Nat
<1>1. Len(s) \in Nat \ {0} /\ \A i \in 1 .. Len(s) : s[i] \in Frames
  OBVIOUS
<1> DEFINE n == Len(s) - 1
<1>2. n \in Nat /\ Len(s) = n + 1 /\ Front(s) = SubSeq(s, 1, n)
  BY <1>1 DEF Front
<1>3. \A i \in 1 .. n : s[i] \in Frames
  BY <1>1
<1> HIDE DEF n
<1>4. /\ SubSeq(s, 1, n) \in Seq(Frames)
      /\ Len(SubSeq(s, 1, n)) = n
      /\ \A i \in 1 .. n : SubSeq(s, 1, n)[i] = s[i]
  BY <1>2, <1>3
<1>5. QED
  BY <1>1, <1>2, <1>4

------------------------------------------------------------------------------
(* The folder, the needed files and what a file asks for.                  *)
LEMMA SameFolder ==
  ASSUME UNCHANGED folder
  PROVE  /\ Needed' = Needed /\ NeededSound' = NeededSound
         /\ HasRoom' = HasRoom
         /\ \A n : LoadsSoundly(n)' = LoadsSoundly(n)
  BY DEF Needed, NeededSound, HasRoom, LoadsSoundly, Mentioned, Closed

LEMMA FolderFact ==
  ASSUME folder \in Folders
  PROVE  /\ IsFiniteSet(DOMAIN folder) /\ Main \in DOMAIN folder
         /\ LoadsSoundly(Main)
         /\ \A n \in DOMAIN folder :
              /\ folder[n] \in File
              /\ folder[n].sound => Called(folder[n]) \subseteq Callable(folder[n])
  BY FoldersAssumption DEF LoadsSoundly

LEMMA RequestsFact ==
  ASSUME NEW file \in File
  PROVE  Requests(file) \in Seq(STRING)
<1>1. /\ file.uses \in Seq(STRING)
      /\ file.sanitizers \in Seq([name : STRING, impl : STRING])
  BY DEF File
<1>2. [i \in DOMAIN file.sanitizers |-> file.sanitizers[i].impl] \in Seq(STRING)
  <2> DEFINE n == Len(file.sanitizers)
             impls == [i \in 1 .. n |-> file.sanitizers[i].impl]
  <2>1. n \in Nat /\ DOMAIN file.sanitizers = 1 .. n
    BY <1>1
  <2>2. \A i \in 1 .. n : file.sanitizers[i] \in [name : STRING, impl : STRING]
    BY <1>1, LenProperties
  <2>3. \A i \in 1 .. n : file.sanitizers[i].impl \in STRING
    BY <2>2
  <2> HIDE DEF n
  <2>4. impls \in [1 .. n -> STRING]
    BY <2>3
  <2>5. impls \in Seq(STRING)
    BY <2>1, <2>4, SeqDef
  <2>6. QED
    BY <2>1, <2>5
<1>3. QED
  BY <1>1, <1>2 DEF Requests

(* The needed files are closed: the program and every needed file that can *)
(* be loaded want only needed ones; and they are the least such set.       *)
LEMMA NeededClosed ==
  ASSUME folder \in Folders, NEW n, n = Main \/ n \in NeededSound
  PROVE  Wanted(folder[n]) \subseteq Needed
<1> DEFINE W(m) == Wanted(folder[m])
<1>1. n \in DOMAIN folder
  BY FolderFact DEF NeededSound, LoadsSoundly
<1>2. W(n) \subseteq Mentioned
  BY <1>1 DEF Mentioned
<1>3. CASE n = Main
  BY <1>2, <1>3 DEF Needed
<1>4. CASE n \in NeededSound
  <2> SUFFICES ASSUME NEW m \in W(n),
                      NEW S \in SUBSET Mentioned, W(Main) \subseteq S, Closed(S)
               PROVE  m \in S
    BY <1>2 DEF Needed
  <2>1. n \in S /\ LoadsSoundly(n)
    BY <1>4 DEF NeededSound, Needed
  <2>2. QED
    BY <2>1 DEF Closed
<1>5. QED
  BY <1>3, <1>4

LEMMA NeededLeast ==
  ASSUME NEW S, Wanted(folder[Main]) \subseteq S,
         \A n \in S \cap Needed : LoadsSoundly(n) => Wanted(folder[n]) \subseteq S,
         folder \in Folders
  PROVE  Needed \subseteq S
<1> DEFINE T == S \cap Needed
<1>1. T \subseteq Mentioned
  BY DEF Needed
<1>2. Wanted(folder[Main]) \subseteq T
  BY NeededClosed
<1>3. Closed(T)
  <2> SUFFICES ASSUME NEW n \in T, LoadsSoundly(n)
               PROVE  Wanted(folder[n]) \subseteq T
    BY DEF Closed
  <2>1. Wanted(folder[n]) \subseteq Needed
    BY NeededClosed DEF NeededSound
  <2>2. QED
    BY <2>1
<1>4. QED
  BY <1>1, <1>2, <1>3 DEF Needed

(* There is room for a needed file that is not loaded yet.                 *)
LEMMA RoomLeft ==
  ASSUME TypeInv, LoadedInv, HasRoom, NEW n \in NeededSound, n \notin Loaded
  PROVE  Len(deps) < MaxDeps
<1>1. IsFiniteSet(NeededSound)
  <2>1. NeededSound \subseteq DOMAIN folder
    BY DEF NeededSound, LoadsSoundly
  <2>2. QED
    BY <2>1, FolderFact, FS_Subset DEF TypeInv
<1> DEFINE more == Loaded \cup {n}
<1>2. IsFiniteSet(more) /\ Cardinality(more) = Len(deps) + 1
  BY FS_AddElement DEF LoadedInv
<1>3. Cardinality(more) <= Cardinality(NeededSound)
  BY <1>1, FS_Subset DEF LoadedInv
<1>4. Len(deps) \in Nat /\ Cardinality(NeededSound) \in Nat
  BY <1>1, FS_CardinalityType DEF TypeInv
<1>5. Cardinality(NeededSound) <= MaxDeps /\ MaxDeps \in Nat
  BY BoundsAssumption DEF HasRoom
<1> HIDE DEF more
<1>6. QED
  BY <1>2, <1>3, <1>4, <1>5

(* The file the innermost call of resolve_deps works on, and its request.  *)
LEMMA TopCall ==
  ASSUME TypeInv, LoadedInv, LoadingInv, Resolving
  PROVE  /\ loading # << >> /\ loading \in Seq(Frames)
         /\ Len(loading) \in 1 .. Len(loading)
         /\ Last(loading) = loading[Len(loading)] /\ Last(loading) \in Frames
         /\ Last(loading).at \in Nat
         /\ Last(loading).file = Main \/ Last(loading).file \in NeededSound
         /\ Loading \in File /\ Requests(Loading) \in Seq(STRING)
         /\ Wanted(Loading) \subseteq Needed
<1>1. loading # << >> /\ loading \in Seq(Frames)
  BY DEF Resolving, LoadingInv, TypeInv
<1>2. /\ Len(loading) \in 1 .. Len(loading)
      /\ Last(loading) = loading[Len(loading)] /\ Last(loading) \in Frames
  BY <1>1, AdvanceFact
<1>3. Last(loading).at \in Nat
  BY <1>2 DEF Frames
<1>4. Last(loading).file = Main \/ Last(loading).file \in NeededSound
  BY <1>2 DEF LoadingInv, LoadedInv
<1>5. Last(loading).file \in DOMAIN folder
  BY <1>4, FolderFact DEF TypeInv, NeededSound, LoadsSoundly
<1>6. Loading \in File
  BY <1>5, FolderFact DEF TypeInv, Loading
<1>7. QED
  BY <1>1, <1>2, <1>3, <1>4, <1>6, RequestsFact, NeededClosed DEF Loading, TypeInv

LEMMA TopRequest ==
  ASSUME TypeInv, LoadedInv, LoadingInv, AtName
  PROVE  /\ Name \in STRING
         /\ Name = Requests(Loading)[Last(loading).at + 1]
         /\ Last(loading).at + 1 \in DOMAIN Requests(Loading)
         /\ ~PassedOver(Loading, Last(loading).at + 1) /\ LoadsSoundly(Name)
               => Name \in NeededSound
<1>1. Resolving /\ Last(loading).at < Len(Requests(Loading))
  BY DEF AtName
<1> DEFINE r == Requests(Loading)  k == Last(loading).at + 1
<1>2. r \in Seq(STRING) /\ Last(loading).at \in Nat
  BY <1>1, TopCall
<1> HIDE DEF r
<1>3. k \in DOMAIN r /\ r[k] \in STRING
  BY <1>1, <1>2 DEF r
<1>4. ~PassedOver(Loading, k) => r[k] \in Wanted(Loading)
  BY <1>3 DEF Wanted, r
<1>5. Wanted(Loading) \subseteq Needed
  BY <1>1, TopCall
<1>6. QED
  BY <1>3, <1>4, <1>5 DEF r, Name, NeededSound

(* A request resolve_deps does not load is loaded already, if there is     *)
(* room for all needed files.                                              *)
LEMMA NoneLost ==
  ASSUME TypeInv, LoadedInv, LoadingInv, AtName, HasRoom, ~Loadable(Name),
         ~PassedOver(Loading, Last(loading).at + 1), Sound(folder, Name)
  PROVE  Name \in Loaded
<1> SUFFICES ASSUME Name \notin Loaded PROVE FALSE
  OBVIOUS
<1>1. LoadsSoundly(Name) /\ Name \in NeededSound
  BY TopRequest DEF Sound, LoadsSoundly
<1>2. Len(deps) < MaxDeps
  BY <1>1, RoomLeft
<1>3. ~Known(Name)
  BY ContainsFact DEF Known, Loaded, TypeInv
<1>4. QED
  BY <1>1, <1>2, <1>3 DEF Loadable, LoadsSoundly

(* One more request has been through.                                      *)
LEMMA HandledNext ==
  ASSUME NEW frame \in Frames, NEW next, NEW names, Handled(folder, frame, names),
         next.file = frame.file, next.at = frame.at + 1,
         LET r == Requests(folder[frame.file])  k == frame.at + 1 IN
           ~PassedOver(folder[frame.file], k) /\ Sound(folder, r[k]) => r[k] \in names
  PROVE  Handled(folder, next, names)
<1>1. \A k \in 1 .. frame.at + 1 : k \in 1 .. frame.at \/ k = frame.at + 1
  BY DEF Frames
<1>2. QED
  BY <1>1 DEF Handled

(* CheckedCallsResolve is not touched while it has nothing to say.         *)
LEMMA StillResolving ==
  ASSUME InliningInv, Resolving, Resolving', UNCHANGED <<failed, inlining>>,
         Loaded \subseteq Loaded'
  PROVE  InliningInv'
  BY DEF InliningInv, Resolving, CheckedCallsResolve

------------------------------------------------------------------------------
(* resolve_deps passes a request by: it needs no file, has one, or cannot. *)
LEMMA SkipStep == IInv /\ SkipName => IInv'
<1> SUFFICES ASSUME IInv, SkipName PROVE IInv'
  OBVIOUS
<1> USE DEF IInv
<1> DEFINE n == Len(loading)
<1>1. /\ AtName /\ Resolving /\ ~Loadable(Name)
      /\ loading' = Advance(loading)
      /\ UNCHANGED <<folder, deps, inlining, failed, phase>>
  BY DEF SkipName, AtName
<1>2. loading # << >> /\ loading \in Seq(Frames) /\ Last(loading) = loading[n]
  BY <1>1, TopCall
<1>3. /\ loading' \in Seq(Frames) /\ Len(loading') = n /\ n \in 1 .. n
      /\ loading' # << >>
      /\ \A i \in 1 .. n :
           /\ loading[i] \in Frames
           /\ loading'[i].file = loading[i].file
           /\ loading'[i].at = IF i = n THEN loading[i].at + 1 ELSE loading[i].at
  BY <1>1, <1>2, AdvanceFact
<1> HIDE DEF n
<1>4. TypeInv' /\ LoadedInv'
  BY <1>1, <1>3, SameFolder DEF TypeInv, LoadedInv, Loaded
<1>5. LoadingInv'
  <2>1. Loaded' = Loaded /\ HasRoom' = HasRoom /\ folder' = folder
    BY <1>1, SameFolder DEF Loaded
  <2>2. /\ phase' = "resolving" <=> loading' # << >>
        /\ \A i \in 1 .. Len(loading') : loading'[i].file \in {Main} \cup Loaded'
    BY <1>1, <1>3, <2>1 DEF LoadingInv, Resolving, n
  <2>3. HasRoom => \A i \in 1 .. n : Handled(folder, loading'[i], Loaded)
    <3> SUFFICES ASSUME HasRoom, NEW i \in 1 .. n
                 PROVE  Handled(folder, loading'[i], Loaded)
      OBVIOUS
    <3>1. Handled(folder, loading[i], Loaded)
      BY DEF LoadingInv, n
    <3>2. CASE i = n
      <4>1. ASSUME ~PassedOver(Loading, loading[n].at + 1), Sound(folder, Name)
            PROVE  Name \in Loaded
        BY <1>1, <1>2, <4>1, NoneLost
      <4>2. /\ Name = Requests(folder[loading[n].file])[loading[n].at + 1]
            /\ Loading = folder[loading[n].file]
        BY <1>2 DEF Name, Loading
      <4>3. /\ loading'[i].file = loading[n].file /\ loading[n] \in Frames
            /\ loading'[i].at = loading[n].at + 1
        BY <1>3, <3>2
      <4>4. QED
        BY <3>1, <3>2, <4>1, <4>2, <4>3, HandledNext
    <3>3. CASE i # n
      BY <1>3, <3>1, <3>3 DEF Handled
    <3>4. QED
      BY <3>2, <3>3
  <2>4. HasRoom => \A f \in {Main} \cup Loaded :
          Complete(folder, f, Loaded) \/ \E i \in 1 .. n : loading'[i].file = f
    BY <1>3 DEF LoadingInv, n
  <2>5. QED
    BY <1>3, <2>1, <2>2, <2>3, <2>4 DEF LoadingInv
<1>6. InliningInv'
  <2>1. Resolving' /\ Loaded' = Loaded
    BY <1>1 DEF Resolving, Loaded
  <2>2. QED
    BY <1>1, <2>1, StillResolving
<1>7. QED
  BY <1>4, <1>5, <1>6

(* It loads a file and calls itself for what that file wants.              *)
LEMMA LoadStep == IInv /\ LoadName => IInv'
<1> SUFFICES ASSUME IInv, LoadName PROVE IInv'
  OBVIOUS
<1> USE DEF IInv
<1> DEFINE n == Len(loading)  moved == Advance(loading)
<1>1. /\ AtName /\ Resolving /\ Loadable(Name)
      /\ deps' = Append(deps, Name)
      /\ loading' = Append(moved, Frame(Name))
      /\ UNCHANGED <<folder, inlining, failed, phase>>
  BY DEF LoadName, AtName
<1>2. /\ loading # << >> /\ loading \in Seq(Frames) /\ Last(loading) = loading[n]
      /\ Name \in STRING /\ Frame(Name) \in Frames
      /\ Frame(Name).file = Name /\ Frame(Name).at = 0
  BY <1>1, TopCall, TopRequest DEF Frame, Frames
<1>3. /\ moved \in Seq(Frames) /\ Len(moved) = n /\ n \in 1 .. n
      /\ \A i \in 1 .. n :
           /\ loading[i] \in Frames
           /\ moved[i].file = loading[i].file
           /\ moved[i].at = IF i = n THEN loading[i].at + 1 ELSE loading[i].at
  BY <1>1, <1>2, AdvanceFact
<1> HIDE DEF n, moved
<1>4. /\ loading' \in Seq(Frames) /\ Len(loading') = n + 1 /\ loading' # << >>
      /\ loading'[n + 1] = Frame(Name)
      /\ \A i \in 1 .. n : loading'[i] = moved[i]
  BY <1>1, <1>2, <1>3, AppendFact
<1>5. /\ Name \in NeededSound /\ Name \notin Loaded
      /\ Loaded' = Loaded \cup {Name}
  <2>1. ~Known(Name) /\ ~PassedOver(Loading, Last(loading).at + 1) /\ LoadsSoundly(Name)
    BY <1>1 DEF Loadable, LoadsSoundly
  <2>2. Name \in NeededSound
    BY <1>1, <2>1, TopRequest
  <2>3. Name \notin Loaded
    BY <2>1, ContainsFact DEF Known, Loaded, TypeInv
  <2>4. QED
    BY <1>1, <1>2, <2>2, <2>3, RangeAppend DEF Loaded, TypeInv
<1>6. /\ deps' \in Seq(STRING) /\ Len(deps') = Len(deps) + 1 /\ Len(deps) \in Nat
      /\ deps'[Len(deps) + 1] = Name
      /\ \A i \in 1 .. Len(deps) : deps'[i] = deps[i]
  BY <1>1, <1>2, AppendFact DEF TypeInv
<1>7. TypeInv'
  BY <1>1, <1>4, <1>6 DEF TypeInv
<1>8. LoadedInv'
  <2>1. NeededSound' = NeededSound
    BY <1>1, SameFolder
  <2>2. IsInjective(deps')
    <3>1. DOMAIN deps' = 1 .. Len(deps) + 1 /\ DOMAIN deps = 1 .. Len(deps)
      BY <1>6, LenProperties DEF TypeInv
    <3>2. \A i \in 1 .. Len(deps) : deps[i] \in Loaded
      BY <3>1 DEF Loaded, Range
    <3>3. QED
      BY <1>5, <1>6, <3>1, <3>2 DEF LoadedInv, IsInjective
  <2>3. IsFiniteSet(Loaded') /\ Cardinality(Loaded') = Len(deps')
    BY <1>5, <1>6, FS_AddElement DEF LoadedInv
  <2>4. QED
    BY <1>5, <2>1, <2>2, <2>3 DEF LoadedInv
<1>9. LoadingInv'
  <2>1. HasRoom' = HasRoom /\ folder' = folder
    BY <1>1, SameFolder
  <2>2. \A i \in 1 .. n : loading'[i].file = loading[i].file
    BY <1>3, <1>4
  <2>3. phase' = "resolving" <=> loading' # << >>
    BY <1>1, <1>4 DEF Resolving
  <2>4. \A i \in 1 .. n + 1 : loading'[i].file \in {Main} \cup Loaded'
    <3>1. \A i \in 1 .. n : loading[i].file \in {Main} \cup Loaded
      BY DEF LoadingInv, n
    <3>2. QED
      BY <1>2, <1>3, <1>4, <1>5, <2>2, <3>1
  <2>5. ASSUME HasRoom, NEW i \in 1 .. n + 1
        PROVE  Handled(folder, loading'[i], Loaded')
    <3>1. CASE i = n + 1
      BY <1>2, <1>4, <3>1 DEF Handled
    <3>2. CASE i = n
      <4>1. Handled(folder, loading[n], Loaded')
        BY <1>3, <1>5, <2>5 DEF LoadingInv, Handled, n
      <4>2. /\ Name = Requests(folder[loading[n].file])[loading[n].at + 1]
            /\ Name \in Loaded'
        BY <1>2, <1>5 DEF Name, Loading
      <4>3. /\ loading'[i].file = loading[n].file /\ loading[n] \in Frames
            /\ loading'[i].at = loading[n].at + 1
        BY <1>3, <1>4, <3>2
      <4>4. QED
        BY <4>1, <4>2, <4>3, HandledNext
    <3>3. CASE i \in 1 .. n /\ i # n
      BY <1>3, <1>4, <1>5, <2>5, <3>3 DEF LoadingInv, Handled, n
    <3>4. QED
      BY <1>3, <2>5, <3>1, <3>2, <3>3
  <2>6. ASSUME HasRoom, NEW f \in {Main} \cup Loaded'
        PROVE  \/ Complete(folder, f, Loaded')
               \/ \E i \in 1 .. n + 1 : loading'[i].file = f
    <3>1. CASE f = Name
      BY <1>2, <1>3, <1>4, <3>1
    <3>2. CASE f # Name
      <4>1. f \in {Main} \cup Loaded
        BY <1>5, <2>6, <3>2
      <4>2. Complete(folder, f, Loaded) \/ \E i \in 1 .. n : loading[i].file = f
        BY <2>6, <4>1 DEF LoadingInv, n
      <4>3. QED
        BY <1>3, <1>5, <2>2, <4>2 DEF Complete
    <3>3. QED
      BY <3>1, <3>2
  <2>7. QED
    BY <1>4, <2>1, <2>3, <2>4, <2>5, <2>6 DEF LoadingInv
<1>10. InliningInv'
  <2>1. Resolving' /\ Loaded \subseteq Loaded'
    BY <1>1, <1>5 DEF Resolving
  <2>2. QED
    BY <1>1, <2>1, StillResolving
<1>11. QED
  BY <1>7, <1>8, <1>9, <1>10

(* A call of resolve_deps that has been through all requests returns.      *)
LEMMA ReturnStep == IInv /\ ReturnLoaded => IInv'
<1> SUFFICES ASSUME IInv, ReturnLoaded PROVE IInv'
  OBVIOUS
<1> USE DEF IInv
<1> DEFINE n == Len(loading)  f == loading[n].file  r == Requests(folder[f])
<1>1. /\ Resolving /\ loading' = Front(loading)
      /\ Last(loading).at = Len(Requests(Loading))
      /\ \/ n = 1 /\ phase' = "compiling" /\ inlining' = <<Frame(Main)>>
         \/ n # 1 /\ UNCHANGED <<phase, inlining>>
      /\ UNCHANGED <<folder, deps, failed>>
  BY DEF ReturnLoaded
<1>2. /\ loading # << >> /\ loading \in Seq(Frames) /\ n \in 1 .. n
      /\ Last(loading) = loading[n] /\ r \in Seq(STRING) /\ Loading = folder[f]
  BY <1>1, TopCall DEF Loading
<1>3. /\ loading' \in Seq(Frames) /\ Len(loading') = n - 1 /\ n \in Nat
      /\ \A i \in 1 .. n - 1 : loading'[i] = loading[i] /\ i \in 1 .. n
      /\ loading' = << >> <=> n = 1
  BY <1>1, <1>2, FrontFact
<1>4. loading[n].at = Len(r) /\ DOMAIN r = 1 .. Len(r)
  BY <1>1, <1>2, LenProperties
<1>5. Loaded' = Loaded /\ HasRoom' = HasRoom /\ NeededSound' = NeededSound
  BY <1>1, SameFolder DEF Loaded
<1> HIDE DEF n, f, r
<1>6. TypeInv' /\ LoadedInv'
  <2>1. Frame(Main) \in Frames
    <3>1. Main \in STRING
      BY FoldersAssumption DEF TypeInv
    <3>2. QED
      BY <3>1 DEF Frame, Frames
  <2>2. inlining' \in Seq(Frames)
    <3>1. CASE n = 1
      <4>1. <<Frame(Main)>> \in Seq(Frames)
        BY <2>1
      <4>2. QED
        BY <1>1, <3>1, <4>1
    <3>2. CASE n # 1
      BY <1>1, <3>2 DEF TypeInv
    <3>3. QED
      BY <3>1, <3>2
  <2>3. QED
    BY <1>1, <1>3, <1>5, <2>2 DEF TypeInv, LoadedInv
<1>7. LoadingInv'
  <2>1. phase' = "resolving" <=> loading' # << >>
    BY <1>1, <1>3 DEF Resolving
  <2>2. \A i \in 1 .. n - 1 : loading'[i].file \in {Main} \cup Loaded
    BY <1>3 DEF LoadingInv, n
  <2>3. HasRoom => \A i \in 1 .. n - 1 : Handled(folder, loading'[i], Loaded)
    BY <1>3 DEF LoadingInv, n
  <2>4. HasRoom => Complete(folder, f, Loaded)
    <3> SUFFICES ASSUME HasRoom, NEW m \in Wanted(folder[f]), Sound(folder, m)
                 PROVE  m \in Loaded
      BY DEF Complete
    <3>1. PICK k \in DOMAIN r : m = r[k] /\ ~PassedOver(folder[f], k)
      BY DEF Wanted, r
    <3>2. Handled(folder, loading[n], Loaded)
      BY <1>2 DEF LoadingInv, n
    <3>3. k \in 1 .. loading[n].at
      BY <1>4, <3>1
    <3>4. QED
      BY <3>1, <3>2, <3>3 DEF Handled, f, r
  <2>5. ASSUME HasRoom, NEW g \in {Main} \cup Loaded
        PROVE  \/ Complete(folder, g, Loaded)
               \/ \E i \in 1 .. n - 1 : loading'[i].file = g
    <3>1. CASE g = f
      BY <2>4, <2>5, <3>1
    <3>2. CASE g # f
      <4>1. Complete(folder, g, Loaded) \/ \E i \in 1 .. n : loading[i].file = g
        BY <2>5 DEF LoadingInv, n
      <4>2. \A i \in 1 .. n : loading[i].file = g => i \in 1 .. n - 1
        BY <1>3, <3>2 DEF f
      <4>3. QED
        BY <1>3, <4>1, <4>2
    <3>3. QED
      BY <3>1, <3>2
  <2>6. QED
    BY <1>1, <1>3, <1>5, <2>1, <2>2, <2>3, <2>5 DEF LoadingInv
<1>8. InliningInv'
  <2>1. ~failed /\ failed' = failed
    BY <1>1 DEF InliningInv, Resolving
  <2>2. \A i \in 1 .. Len(inlining') : inlining'[i].file \in {Main} \cup Loaded
    <3>1. CASE n = 1
      <4>1. inlining' = <<Frame(Main)>> /\ Frame(Main).file = Main
        BY <1>1, <3>1 DEF Frame
      <4>2. QED
        BY <4>1
    <3>2. CASE n # 1
      BY <1>1, <3>2 DEF InliningInv
    <3>3. QED
      BY <3>1, <3>2
  <2>3. phase' = "compiling" => inlining' # << >>
    BY <1>1 DEF Resolving
  <2>4. QED
    BY <1>5, <2>1, <2>2, <2>3 DEF InliningInv, CheckedCallsResolve
<1>9. QED
  BY <1>6, <1>7, <1>8

------------------------------------------------------------------------------
(* Once resolve_deps has returned, all that is needed is loaded.           *)
LEMMA AllLoaded ==
  ASSUME IInv, phase # "resolving", HasRoom
  PROVE  Loaded = NeededSound
<1> USE DEF IInv
<1> DEFINE S == {n \in Mentioned : LoadsSoundly(n) => n \in Loaded}
<1>1. loading = << >>
  BY DEF LoadingInv
<1>2. \A n \in {Main} \cup Loaded : Complete(folder, n, Loaded)
  BY <1>1 DEF LoadingInv
<1>3. \A n \in {Main} \cup Loaded : Wanted(folder[n]) \subseteq S
  <2> SUFFICES ASSUME NEW n \in {Main} \cup Loaded, NEW m \in Wanted(folder[n])
               PROVE  m \in Mentioned /\ (LoadsSoundly(m) => m \in Loaded)
    OBVIOUS
  <2>1. n = Main \/ n \in NeededSound
    BY DEF LoadedInv
  <2>2. m \in Needed
    BY <2>1, NeededClosed DEF TypeInv
  <2>3. QED
    BY <1>2, <2>2 DEF Complete, Sound, LoadsSoundly, Needed
<1>4. Needed \subseteq S
  BY <1>3, NeededLeast DEF TypeInv
<1>5. QED
  BY <1>4 DEF NeededSound, LoadedInv

(* The function a call stands for, when the checker has accepted the       *)
(* program and the files it needs are sound functions.                     *)
Accepted ==
  /\ \A n \in Needed : Usable(n)
  /\ \A s \in Range(folder[Main].sanitizers) : Backed(s)
  /\ \A n \in {Main} \cup NeededSound : FoldsWhole(folder[n])
  /\ HasRoom

LEMMA FirstOfName ==
  ASSUME TypeInv, NEW name, NEW s \in Range(folder[Main].sanitizers), s.name = name
  PROVE  \E t \in Range(folder[Main].sanitizers) :
           t.name = name /\ Sanitizing(name) = {t.impl}
<1> DEFINE all == folder[Main].sanitizers
           named == {k \in DOMAIN all : all[k].name = name}
<1>1. all \in Seq([name : STRING, impl : STRING])
  BY FolderFact DEF TypeInv, File
<1> HIDE DEF all
<1>2. named \subseteq Nat /\ named # {}
  BY <1>1 DEF Range, all
<1>3. PICK k \in named : \A j \in named : k <= j
  BY <1>2, LeastElement
<1>4. \A i \in DOMAIN all :
        (all[i].name = name /\ \A j \in 1 .. i - 1 : all[j].name # name) <=> i = k
  <2>1. DOMAIN all = 1 .. Len(all) /\ Len(all) \in Nat
    BY <1>1, LenProperties
  <2>2. QED
    BY <1>3, <2>1
<1>5. Sanitizing(name) = {all[k].impl}
  BY <1>3, <1>4 DEF Sanitizing, all
<1>6. QED
  BY <1>3, <1>5 DEF Range, all

(* A file wants what its uses clause names, and the program wants the      *)
(* implementations of its sanitizers that are no library functions.        *)
LEMMA RequestAt ==
  ASSUME NEW file \in File
  PROVE  /\ \A i \in 1 .. Len(file.uses) :
              /\ i \in DOMAIN Requests(file) /\ Requests(file)[i] = file.uses[i]
              /\ ~(i > Len(file.uses))
         /\ \A i \in 1 .. Len(file.sanitizers) :
              /\ Len(file.uses) + i \in DOMAIN Requests(file)
              /\ Requests(file)[Len(file.uses) + i] = file.sanitizers[i].impl
<1> DEFINE u == file.uses  n == Len(file.sanitizers)
           impls == [i \in 1 .. n |-> file.sanitizers[i].impl]
<1>1. u \in Seq(STRING) /\ n \in Nat /\ DOMAIN file.sanitizers = 1 .. n
  BY DEF File
<1>2. Requests(file) = u \o impls
  BY <1>1 DEF Requests
<1>3. impls \in [1 .. n -> {file.sanitizers[i].impl : i \in 1 .. n}]
  OBVIOUS
<1>4. impls \in Seq({file.sanitizers[i].impl : i \in 1 .. n}) /\ Len(impls) = n
  BY <1>1, <1>3, SeqDef
<1>5. \A i \in 1 .. n : impls[i] = file.sanitizers[i].impl
  OBVIOUS
<1> HIDE DEF u, n, impls
<1>6. /\ Len(u) \in Nat /\ DOMAIN (u \o impls) = 1 .. Len(u) + n
      /\ \A i \in 1 .. Len(u) + n :
           (u \o impls)[i] = IF i <= Len(u) THEN u[i] ELSE impls[i - Len(u)]
  BY <1>1, <1>4
<1>7. \A i \in 1 .. Len(u) :
        /\ i \in DOMAIN Requests(file) /\ Requests(file)[i] = u[i]
        /\ ~(i > Len(u))
  BY <1>1, <1>2, <1>6
<1>8. ASSUME NEW i \in 1 .. n
      PROVE  /\ Len(u) + i \in DOMAIN Requests(file)
             /\ Requests(file)[Len(u) + i] = impls[i]
  <2>1. PICK k \in 1 .. Len(u) + n : k = Len(u) + i /\ ~(k <= Len(u)) /\ k - Len(u) = i
    BY <1>1, <1>6
  <2>2. (u \o impls)[k] = impls[k - Len(u)]
    BY <1>6, <2>1, Zenon
  <2>3. k \in DOMAIN Requests(file) /\ Requests(file)[k] = impls[i]
    BY <1>2, <1>6, <2>1, <2>2, Zenon
  <2>4. QED
    BY <2>1, <2>3, Zenon
<1>9. QED
  BY <1>5, <1>7, <1>8 DEF u, n

LEMMA UsesWanted ==
  ASSUME NEW file \in File
  PROVE  Range(file.uses) \subseteq Wanted(file)
<1> SUFFICES ASSUME NEW i \in DOMAIN file.uses PROVE file.uses[i] \in Wanted(file)
  BY DEF Range
<1>1. i \in 1 .. Len(file.uses)
  BY DEF File
<1>2. QED
  BY <1>1, RequestAt DEF Wanted, PassedOver

LEMMA ImplWanted ==
  ASSUME folder \in Folders, NEW name, NEW impl \in Sanitizing(name), impl # ""
  PROVE  impl \in CompilerLibrary \cup Wanted(folder[Main])
<1> DEFINE all == folder[Main].sanitizers
<1>1. folder[Main] \in File
  BY FolderFact
<1>2. PICK i \in DOMAIN all : impl = all[i].impl
  BY DEF Sanitizing
<1>3. i \in 1 .. Len(all)
  <2>1. all \in Seq([name : STRING, impl : STRING])
    BY <1>1 DEF File
  <2>2. QED
    BY <1>2, <2>1, LenProperties
<1> DEFINE r == Requests(folder[Main])  k == Len(folder[Main].uses) + i
<1>4. k \in DOMAIN r /\ r[k] = impl
  BY <1>1, <1>2, <1>3, RequestAt
<1>5. PassedOver(folder[Main], k) => impl \in ToolLibrary
  BY <1>4 DEF PassedOver
<1> HIDE DEF k, r
<1>6. ~PassedOver(folder[Main], k) => impl \in Wanted(folder[Main])
  BY <1>4 DEF Wanted, r
<1>7. QED
  BY <1>5, <1>6, LibraryAssumption

(* A needed file is loaded, so the compiler finds its function.            *)
LEMMA NeededResolves ==
  ASSUME IInv, phase # "resolving", Accepted, NEW n \in CompilerLibrary \cup NeededSound
  PROVE  n \in CompilerLibrary \/ Inlined(n)
<1> SUFFICES ASSUME n \in NeededSound PROVE n \in CompilerLibrary \/ Inlined(n)
  OBVIOUS
<1>1. n \in Loaded
  BY AllLoaded DEF Accepted
<1>2. Known(n)
  BY <1>1, ContainsFact DEF Known, Loaded, IInv, TypeInv
<1>3. folder[n].kind = "function"
  BY DEF Accepted, NeededSound, Usable
<1>4. QED
  BY <1>2, <1>3 DEF Inlined

(* The body being compiled is a sound file's, and its next call is one the *)
(* checker lets that file make.                                            *)
LEMMA TopCalled ==
  ASSUME IInv, AtCall
  PROVE  LET top  == Last(inlining)
             file == folder[top.file]
         IN  /\ phase # "resolving"
             /\ top.file = Main \/ top.file \in NeededSound
             /\ folder \in Folders /\ LoadsSoundly(top.file) /\ file \in File
             /\ Call \in Range(file.calls) /\ ~BuiltIn(Call)
             /\ Call.name \in Called(file) /\ Call.name \in Callable(file)
             /\ Range(file.uses) \subseteq Wanted(file)
<1> DEFINE top == Last(inlining)  file == folder[top.file]
<1>1. phase # "resolving" /\ inlining # << >> /\ inlining \in Seq(Frames)
  BY DEF AtCall, Compiling, IInv, InliningInv, TypeInv
<1>2. top \in Frames /\ top.file \in {Main} \cup Loaded
  <2>1. top = inlining[Len(inlining)] /\ Len(inlining) \in 1 .. Len(inlining)
    BY <1>1, AdvanceFact
  <2>2. QED
    BY <1>1, <2>1, AdvanceFact DEF IInv, InliningInv
<1>3. top.file = Main \/ top.file \in NeededSound
  BY <1>2 DEF IInv, LoadedInv
<1>4. LoadsSoundly(top.file) /\ file \in File /\ folder \in Folders
  BY <1>3, FolderFact DEF IInv, TypeInv, NeededSound, LoadsSoundly
<1>5. Call \in Range(Calls) /\ ~BuiltIn(Call)
  <2>1. /\ Calls \in Seq([name : STRING, whole : BOOLEAN])
        /\ top.at \in Nat /\ top.at < Len(Calls)
    BY <1>2, <1>4 DEF AtCall, Calls, File, Frames
  <2>2. top.at + 1 \in DOMAIN Calls
    BY <2>1
  <2>3. QED
    BY <2>2 DEF Range, Call, AtCall
<1>6. Call.name \in Called(file) /\ Called(file) \subseteq Callable(file)
  BY <1>4, <1>5, FolderFact DEF Calls, Called, LoadsSoundly
<1>7. QED
  BY <1>1, <1>3, <1>4, <1>5, <1>6, UsesWanted DEF Calls

(* A name the checker knows is in the compiler's table, or a conversion or *)
(* a fold; those two reach resolve_call in no accepted program.            *)
LEMMA CheckedNameResolves ==
  ASSUME IInv, AtCall, Accepted, Call.name \in CheckerLibrary
  PROVE  Call.name \in CompilerLibrary
<1>1. FoldsWhole(folder[Last(inlining).file])
  BY TopCalled DEF Accepted
<1>2. Call \in Range(folder[Last(inlining).file].calls) /\ ~BuiltIn(Call)
  BY TopCalled
<1>3. QED
  BY <1>1, <1>2, LibraryAssumption DEF FoldsWhole, BuiltIn

LEMMA CallResolves ==
  ASSUME IInv, AtCall, Accepted
  PROVE  Callee \in CompilerLibrary \/ Inlined(Callee)
<1> DEFINE top == Last(inlining)  file == folder[top.file]  name == Call.name
<1>1. phase # "resolving"
  BY TopCalled
<1>3. top.file = Main \/ top.file \in NeededSound
  BY TopCalled
<1>4. file \in File /\ folder \in Folders
  BY TopCalled
<1>5. name \in Callable(file)
  BY TopCalled
<1>6. Wanted(file) \subseteq Needed
  BY <1>3, <1>4, NeededClosed
<1>7. Range(file.uses) \subseteq Wanted(file)
  BY TopCalled
<1>8. CASE Sanitizing(name) \ {""} = {}
  <2>1. Callee = name
    BY <1>8 DEF Callee
  <2>2. name \in CompilerLibrary \cup NeededSound
    <3>1. CASE name \in CheckerLibrary
      BY <3>1, CheckedNameResolves
    <3>2. CASE name \in Range(file.uses) \ CheckerLibrary
      <4>1. name \in Needed
        BY <1>6, <1>7, <3>2
      <4>2. LoadsSoundly(name)
        BY <3>2, <4>1 DEF Accepted, Usable
      <4>3. QED
        BY <4>1, <4>2 DEF NeededSound
    <3>3. CASE name \in {s.name : s \in Range(file.sanitizers)}
      <4>1. PICK s \in Range(file.sanitizers) : s.name = name
        BY <3>3
      <4>2. top.file = Main
        <5>1. file.sanitizers # << >>
          BY <4>1 DEF Range
        <5>2. top.file \notin NeededSound
          BY <5>1 DEF Accepted, NeededSound, Usable
        <5>3. QED
          BY <1>3, <5>2
      <4>3. PICK t \in Range(file.sanitizers) : t.name = name /\ Sanitizing(name) = {t.impl}
        BY <4>1, <4>2, FirstOfName DEF IInv
      <4>4. Backed(t) /\ t.impl = ""
        BY <1>8, <4>2, <4>3 DEF Accepted
      <4>5. QED
        BY <4>3, <4>4 DEF Backed
    <3>4. QED
      BY <1>5, <3>1, <3>2, <3>3 DEF Callable, Sanitized
  <2>3. QED
    BY <1>1, <2>1, <2>2, NeededResolves
<1>9. CASE Sanitizing(name) \ {""} # {}
  <2>1. Callee \in Sanitizing(name) /\ Callee # ""
    BY <1>9 DEF Callee
  <2>2. PICK s \in Range(folder[Main].sanitizers) : s.impl = Callee
    BY <2>1 DEF Sanitizing, Range
  <2>3. Callee \in CompilerLibrary \cup NeededSound
    BY <2>1, <2>2 DEF Accepted, Backed
  <2>4. QED
    BY <1>1, <2>3, NeededResolves
<1>10. QED
  BY <1>8, <1>9

------------------------------------------------------------------------------
(* The steps of the code generator: none touches what is loaded, a body    *)
(* compiled in place is a loaded file's, and no call of an accepted        *)
(* program is unknown.                                                     *)
LEMMA Compiles ==
  ASSUME IInv, Compiling, UNCHANGED <<folder, deps, loading>>, phase' # "resolving",
         failed' \in BOOLEAN, inlining' \in Seq(Frames),
         phase' \in {"compiling", "compiled", "overflow"},
         \A i \in 1 .. Len(inlining') : inlining'[i].file \in {Main} \cup Loaded,
         phase' = "compiling" => inlining' # << >>,
         CheckedCallsResolve'
  PROVE  IInv'
<1>1. Loaded' = Loaded /\ HasRoom' = HasRoom /\ NeededSound' = NeededSound
  BY SameFolder DEF Loaded
<1>2. TypeInv' /\ LoadedInv'
  BY <1>1 DEF IInv, TypeInv, LoadedInv
<1>3. loading = << >>
  BY DEF IInv, LoadingInv, Compiling
<1>4. LoadingInv'
  BY <1>1, <1>3 DEF IInv, LoadingInv
<1>5. InliningInv'
  BY <1>1 DEF InliningInv
<1>6. QED
  BY <1>2, <1>4, <1>5 DEF IInv

LEMMA SameVerdict ==
  ASSUME CheckedCallsResolve, UNCHANGED <<folder, failed>>
  PROVE  CheckedCallsResolve'
  BY SameFolder DEF CheckedCallsResolve, Backed, Usable

LEMMA TopBody ==
  ASSUME IInv, Compiling
  PROVE  /\ inlining \in Seq(Frames) /\ inlining # << >>
         /\ \A i \in 1 .. Len(inlining) : inlining[i].file \in {Main} \cup Loaded
         /\ CheckedCallsResolve /\ failed \in BOOLEAN /\ phase = "compiling"
  BY DEF IInv, TypeInv, InliningInv, Compiling

LEMMA AdvanceBody ==
  ASSUME IInv, Compiling
  PROVE  /\ Advance(inlining) \in Seq(Frames) /\ Advance(inlining) # << >>
         /\ \A i \in 1 .. Len(Advance(inlining)) :
              Advance(inlining)[i].file \in {Main} \cup Loaded
  BY TopBody, AdvanceFact

LEMMA LibraryStep == IInv /\ CompileLibraryCall => IInv'
<1> SUFFICES ASSUME IInv, CompileLibraryCall PROVE IInv'
  OBVIOUS
<1>1. /\ Compiling /\ inlining' = Advance(inlining)
      /\ UNCHANGED <<folder, deps, loading, failed, phase>>
  BY DEF CompileLibraryCall, AtCall
<1>2. CheckedCallsResolve'
  BY <1>1, TopBody, SameVerdict
<1>3. QED
  BY <1>1, <1>2, TopBody, AdvanceBody, Compiles

LEMMA BuiltInStep == IInv /\ CompileBuiltIn => IInv'
<1> SUFFICES ASSUME IInv, CompileBuiltIn PROVE IInv'
  OBVIOUS
<1>1. /\ Compiling /\ inlining' = Advance(inlining)
      /\ UNCHANGED <<folder, deps, loading, failed, phase>>
  BY DEF CompileBuiltIn, AtBuiltIn
<1>2. CheckedCallsResolve'
  BY <1>1, TopBody, SameVerdict
<1>3. QED
  BY <1>1, <1>2, TopBody, AdvanceBody, Compiles

LEMMA InlineStep == IInv /\ CompileInlineCall => IInv'
<1> SUFFICES ASSUME IInv, CompileInlineCall PROVE IInv'
  OBVIOUS
<1> DEFINE moved == Advance(inlining)
<1>1. /\ Compiling /\ Known(Callee)
      /\ inlining' = Append(moved, Frame(Callee))
      /\ UNCHANGED <<folder, deps, loading, failed, phase>>
  BY DEF CompileInlineCall, AtCall, Inlined
<1>2. Callee \in Loaded /\ Callee \in STRING
  BY <1>1, ContainsFact DEF Known, Loaded, IInv, TypeInv, Range
<1>3. Frame(Callee) \in Frames /\ Frame(Callee).file = Callee
  BY <1>2 DEF Frame, Frames
<1>4. /\ moved \in Seq(Frames)
      /\ \A i \in 1 .. Len(moved) : moved[i].file \in {Main} \cup Loaded
  BY <1>1, AdvanceBody
<1> HIDE DEF moved
<1>5. /\ inlining' \in Seq(Frames) /\ inlining' # << >>
      /\ Len(inlining') = Len(moved) + 1 /\ Len(moved) \in Nat
      /\ inlining'[Len(moved) + 1] = Frame(Callee)
      /\ \A i \in 1 .. Len(moved) : inlining'[i] = moved[i]
  BY <1>1, <1>3, <1>4, AppendFact
<1>6. \A i \in 1 .. Len(inlining') : inlining'[i].file \in {Main} \cup Loaded
  BY <1>2, <1>3, <1>4, <1>5
<1>7. CheckedCallsResolve'
  BY <1>1, TopBody, SameVerdict
<1>8. QED
  BY <1>1, <1>5, <1>6, <1>7, TopBody, Compiles

LEMMA OverflowStep == IInv /\ StackOverflow => IInv'
<1> SUFFICES ASSUME IInv, StackOverflow PROVE IInv'
  OBVIOUS
<1>1. /\ Compiling /\ phase' = "overflow"
      /\ UNCHANGED <<folder, deps, loading, inlining, failed>>
  BY DEF StackOverflow, AtCall
<1>2. CheckedCallsResolve'
  BY <1>1, TopBody, SameVerdict
<1>3. QED
  BY <1>1, <1>2, TopBody, Compiles

LEMMA UnknownStep == IInv /\ CompileUnknownCall => IInv'
<1> SUFFICES ASSUME IInv, CompileUnknownCall PROVE IInv'
  OBVIOUS
<1>1. /\ Compiling /\ AtCall /\ failed' = TRUE /\ inlining' = Advance(inlining)
      /\ UNCHANGED <<folder, deps, loading, phase>>
  BY DEF CompileUnknownCall, AtCall
<1>2. ~Accepted
  BY CallResolves DEF CompileUnknownCall
<1>3. CheckedCallsResolve'
  BY <1>1, <1>2, SameFolder DEF CheckedCallsResolve, Accepted, Backed, Usable
<1>4. QED
  BY <1>1, <1>3, TopBody, AdvanceBody, Compiles

LEMMA CompiledStep == IInv /\ ReturnCompiled => IInv'
<1> SUFFICES ASSUME IInv, ReturnCompiled PROVE IInv'
  OBVIOUS
<1>1. /\ Compiling /\ inlining' = Front(inlining)
      /\ phase' = IF Len(inlining) = 1 THEN "compiled" ELSE phase
      /\ UNCHANGED <<folder, deps, loading, failed>>
  BY DEF ReturnCompiled
<1>2. /\ inlining' \in Seq(Frames) /\ Len(inlining') = Len(inlining) - 1
      /\ \A i \in 1 .. Len(inlining) - 1 : inlining'[i] = inlining[i] /\ i \in 1 .. Len(inlining)
      /\ inlining' = << >> <=> Len(inlining) = 1
  BY <1>1, TopBody, FrontFact
<1>3. \A i \in 1 .. Len(inlining') : inlining'[i].file \in {Main} \cup Loaded
  BY <1>1, <1>2, TopBody
<1>4. CheckedCallsResolve'
  BY <1>1, TopBody, SameVerdict
<1>5. phase' \in {"compiling", "compiled"} /\ (phase' = "compiling" => inlining' # << >>)
  BY <1>1, <1>2, TopBody
<1>6. QED
  BY <1>1, <1>2, <1>3, <1>4, <1>5, TopBody, Compiles

------------------------------------------------------------------------------
LEMMA InitIInv == Init => IInv
<1> SUFFICES ASSUME Init PROVE IInv
  OBVIOUS
<1>1. Main \in STRING
  BY FoldersAssumption DEF Init
<1>2. /\ Frame(Main) \in Frames /\ Frame(Main).file = Main /\ Frame(Main).at = 0
  BY <1>1 DEF Frame, Frames
<1>3. /\ loading \in Seq(Frames) /\ Len(loading) = 1 /\ loading[1] = Frame(Main)
      /\ loading # << >>
  BY <1>2 DEF Init
<1>4. TypeInv
  <2>1. << >> \in Seq(STRING) /\ << >> \in Seq(Frames)
    OBVIOUS
  <2>2. QED
    BY <1>3, <2>1 DEF Init, TypeInv
<1>5. LoadedInv
  <2>1. Loaded = {} /\ Len(deps) = 0
    BY DEF Init, Loaded, Range
  <2>2. QED
    BY <2>1, FS_EmptySet DEF Init, LoadedInv, IsInjective
<1>6. LoadingInv
  <2>1. Loaded = {} /\ \A i \in 1 .. Len(loading) : loading[i] = Frame(Main)
    BY <1>3 DEF Init, Loaded, Range
  <2>2. QED
    BY <1>2, <1>3, <2>1 DEF Init, LoadingInv, Handled
<1>7. InliningInv
  BY DEF Init, InliningInv, CheckedCallsResolve
<1>8. QED
  BY <1>4, <1>5, <1>6, <1>7 DEF IInv

LEMMA NextIInv == IInv /\ [Next]_vars => IInv'
<1> SUFFICES ASSUME IInv, [Next]_vars PROVE IInv'
  OBVIOUS
<1>1. CASE SkipName
  BY <1>1, SkipStep
<1>2. CASE LoadName
  BY <1>2, LoadStep
<1>3. CASE ReturnLoaded
  BY <1>3, ReturnStep
<1>4. CASE CompileLibraryCall
  BY <1>4, LibraryStep
<1>5. CASE CompileInlineCall
  BY <1>5, InlineStep
<1>6. CASE StackOverflow
  BY <1>6, OverflowStep
<1>7. CASE CompileUnknownCall
  BY <1>7, UnknownStep
<1>8. CASE ReturnCompiled
  BY <1>8, CompiledStep
<1>9. CASE UNCHANGED vars
  <2>1. UNCHANGED <<folder, deps, loading, inlining, failed, phase>>
    BY <1>9 DEF vars
  <2>2. Loaded' = Loaded /\ HasRoom' = HasRoom /\ NeededSound' = NeededSound
    BY <2>1, SameFolder DEF Loaded
  <2>3. CheckedCallsResolve'
    BY <2>1, SameVerdict DEF IInv, InliningInv
  <2>4. QED
    BY <2>1, <2>2, <2>3 DEF IInv, TypeInv, LoadedInv, LoadingInv, InliningInv
<1>10. CASE CompileBuiltIn
  BY <1>10, BuiltInStep
<1>11. QED
  BY <1>1, <1>2, <1>3, <1>4, <1>5, <1>6, <1>7, <1>8, <1>9, <1>10 DEF Next

LEMMA Invariance == Spec => []IInv
<1>1. QED
  BY InitIInv, NextIInv, PTL DEF Spec

(* resolve_deps loads each file the program needs, directly or through     *)
(* another, exactly once, whatever the files are and however their uses    *)
(* clauses refer to one another, as long as the array of 32 holds them.    *)
THEOREM ResolveDepsIsComplete == Spec => []DependenciesComplete
<1>1. IInv => DependenciesComplete
  BY AllLoaded DEF DependenciesComplete, IInv, LoadedInv, Loaded
<1>2. QED
  BY <1>1, Invariance, PTL

(* A call checker_check has accepted is one resolve_call resolves, in the  *)
(* program and in every body compiled in place of a call.                  *)
THEOREM CheckedCallsAreResolved == Spec => []CheckedCallsResolve
<1>1. IInv => CheckedCallsResolve
  BY DEF IInv, InliningInv
<1>2. QED
  BY <1>1, Invariance, PTL

------------------------------------------------------------------------------
(* SetToSeq lists a finite set.                                            *)
LEMMA Listing ==
  ASSUME NEW S, IsFiniteSet(S)
  PROVE  /\ DOMAIN SetToSeq(S) \subseteq Nat
         /\ \A x \in S : \E i \in DOMAIN SetToSeq(S) : SetToSeq(S)[i] = x
<1> DEFINE n == Cardinality(S)  list == SetToSeq(S)
<1>1. n \in Nat /\ ExistsBijection(1 .. n, S)
  BY FS_CardinalityType
<1>2. \E f \in [1 .. n -> S] : IsInjective(f)
  BY <1>1 DEF ExistsBijection, Bijection, Injection
<1>3. list \in [1 .. n -> S] /\ IsInjective(list)
  BY <1>2 DEF SetToSeq
<1> HIDE DEF n, list
<1>4. list \in Injection(1 .. n, S)
  BY <1>3 DEF Injection
<1>5. Cardinality(1 .. n) = n
  BY <1>1, FS_Interval
<1>6. list \in Surjection(1 .. n, S)
  BY <1>4, <1>5, FS_Injection DEF n
<1>7. QED
  BY <1>1, <1>3, <1>6 DEF Surjection, list

LEMMA WantedFinite ==
  ASSUME NEW file \in File
  PROVE  IsFiniteSet(Wanted(file))
<1> DEFINE r == Requests(file)
           D == {k \in DOMAIN r : ~PassedOver(file, k)}
           f == [k \in D |-> r[k]]
<1>1. IsFiniteSet(DOMAIN r)
  <2>1. Len(r) \in Nat /\ DOMAIN r = 1 .. Len(r)
    BY RequestsFact, LenProperties
  <2>2. QED
    BY <2>1, FS_Interval
<1>2. IsFiniteSet(D)
  BY <1>1, FS_Subset
<1>3. f \in Surjection(D, Wanted(file))
  BY DEF Surjection, Wanted
<1>4. QED
  BY <1>2, <1>3, FS_Surjection

(* The graph the checker is given has a cycle if some files each want      *)
(* another of them.                                                        *)
LEMMA NoCircle ==
  ASSUME folder \in Folders, ~Cyclic(GraphOf(folder)),
         NEW S \in SUBSET DOMAIN folder, S # {}
  PROVE  \E n \in S : \A m \in S : m \notin Wanted(folder[n])
<1> SUFFICES ASSUME \A n \in S : \E m \in S : m \in Wanted(folder[n]) PROVE FALSE
  OBVIOUS
<1> DEFINE names == SetToSeq(DOMAIN folder)  g == GraphOf(folder)
           I == {i \in DOMAIN names : names[i] \in S}
<1>1. /\ DOMAIN g = DOMAIN names
      /\ \A i \in DOMAIN g : /\ g[i].name = names[i]
                             /\ g[i].deps = SetToSeq(Wanted(folder[names[i]]))
  BY DEF GraphOf
<1>2. \A n \in DOMAIN folder : \E i \in DOMAIN names : names[i] = n
  BY FolderFact, Listing
<1>3. \A n \in DOMAIN folder : folder[n] \in File
  BY FolderFact
<1>4. DOMAIN names \subseteq Nat
  BY FolderFact, Listing
<1> HIDE DEF names, g
<1>5. I # {} /\ I \in SUBSET DOMAIN g
  BY <1>1, <1>2
<1>6. ASSUME NEW i \in I PROVE \E j \in I : Edge(g, i, j)
  <2>1. PICK m \in S : m \in Wanted(folder[names[i]])
    OBVIOUS
  <2>2. PICK d \in DOMAIN g[i].deps : g[i].deps[d] = m
    BY <1>1, <1>3, <2>1, WantedFinite, Listing
  <2> DEFINE hits == {j \in DOMAIN g : g[j].name = m}
  <2>3. hits # {} /\ hits \subseteq Nat
    BY <1>1, <1>2, <1>4, <2>1
  <2>4. FindDepNode(g, m) \in hits
    <3>1. \E j \in hits : \A k \in hits : j <= k
      BY <2>3, LeastElement
    <3>2. QED
      BY <2>3, <3>1 DEF FindDepNode
  <2>5. QED
    BY <1>1, <2>1, <2>2, <2>4 DEF Edge
<1>7. QED
  BY <1>5, <1>6 DEF Cyclic, g

------------------------------------------------------------------------------
(* Each body is wanted by the file whose body it is compiled in, unless a  *)
(* sanitizer takes the name of a file or of what a dependency calls.       *)
Nested(files, stack) ==
  \A i \in 1 .. Len(stack) - 1 : stack[i + 1].file \in Wanted(files[stack[i].file])

CalleeWanted ==
  OwnNames /\ AtCall /\ Inlined(Callee)
    => Callee \in Wanted(folder[Last(inlining).file])

LEMMA InlinedIsWanted == IInv => CalleeWanted
<1> SUFFICES ASSUME IInv, OwnNames, AtCall, Inlined(Callee)
             PROVE  Callee \in Wanted(folder[Last(inlining).file])
  BY DEF CalleeWanted
<1> DEFINE top == Last(inlining)  file == folder[top.file]  name == Call.name
<1>1. Callee \notin CompilerLibrary /\ Callee \in DOMAIN folder
  <2>1. Callee \in Loaded /\ Callee \notin CompilerLibrary
    BY ContainsFact DEF Inlined, Known, Loaded, IInv, TypeInv
  <2>2. QED
    BY <2>1 DEF IInv, LoadedInv, NeededSound, LoadsSoundly
<1>2. /\ folder \in Folders /\ top.file \in DOMAIN folder
      /\ name \in Called(file) /\ name \in Callable(file)
      /\ Range(file.uses) \subseteq Wanted(file)
  BY TopCalled DEF LoadsSoundly
<1>3. CASE Sanitizing(name) \ {""} = {}
  <2>1. Callee = name
    BY <1>3 DEF Callee
  <2>2. name \notin Sanitized(file) /\ name \notin CheckerLibrary
    BY <1>1, <1>2, <2>1 DEF OwnNames
  <2>3. QED
    BY <1>1, <1>2, <2>1, <2>2 DEF Callable
<1>4. CASE Sanitizing(name) \ {""} # {}
  <2>1. Callee \in Sanitizing(name) /\ Callee # ""
    BY <1>4 DEF Callee
  <2>2. Callee \in Wanted(folder[Main])
    BY <1>1, <1>2, <2>1, ImplWanted
  <2>3. name \in Sanitized(folder[Main])
    BY <2>1 DEF Sanitizing, Sanitized, Range
  <2>4. top.file = Main
    BY <1>2, <2>3 DEF OwnNames
  <2>5. QED
    BY <2>2, <2>4
<1>5. QED
  BY <1>3, <1>4

NestedInv == OwnNames => Nested(folder, inlining)

LEMMA NestedAdvance ==
  ASSUME NEW s \in Seq(Frames), s # << >>, NEW files, Nested(files, s)
  PROVE  Nested(files, Advance(s))
<1>1. /\ Len(Advance(s)) = Len(s) /\ Len(s) \in Nat
      /\ \A i \in 1 .. Len(s) : Advance(s)[i].file = s[i].file
  BY AdvanceFact
<1>2. \A i \in 1 .. Len(s) - 1 : i \in 1 .. Len(s) /\ i + 1 \in 1 .. Len(s)
  BY <1>1
<1>3. QED
  BY <1>1, <1>2 DEF Nested

LEMMA NestedAppend ==
  ASSUME NEW s \in Seq(Frames), s # << >>, NEW files, Nested(files, s),
         NEW frame \in Frames, frame.file \in Wanted(files[Last(s).file])
  PROVE  Nested(files, Append(s, frame))
<1> DEFINE n == Len(s)  t == Append(s, frame)
<1>1. /\ Len(t) = n + 1 /\ t[n + 1] = frame /\ \A i \in 1 .. n : t[i] = s[i]
  BY AppendFact
<1>2. n \in 1 .. n /\ Last(s) = s[n] /\ n \in Nat
  BY AdvanceFact
<1> HIDE DEF n, t
<1>3. ASSUME NEW i \in 1 .. n PROVE t[i + 1].file \in Wanted(files[t[i].file])
  <2>1. CASE i = n
    BY <1>1, <1>2, <2>1
  <2>2. CASE i # n
    <3>1. i \in 1 .. n - 1 /\ i + 1 \in 1 .. n
      BY <1>2, <2>2
    <3>2. s[i + 1].file \in Wanted(files[s[i].file])
      BY <3>1 DEF Nested, n
    <3>3. QED
      BY <1>1, <3>1, <3>2
  <2>3. QED
    BY <2>1, <2>2
<1>4. Len(t) - 1 = n
  BY <1>1, <1>2
<1>5. QED
  BY <1>3, <1>4 DEF Nested, t

LEMMA NestedFront ==
  ASSUME NEW s \in Seq(Frames), s # << >>, NEW files, Nested(files, s)
  PROVE  Nested(files, Front(s))
<1>1. /\ Len(Front(s)) = Len(s) - 1 /\ Len(s) \in Nat
      /\ \A i \in 1 .. Len(s) - 1 : Front(s)[i] = s[i]
  BY FrontFact
<1>2. \A i \in 1 .. Len(s) - 1 - 1 : i \in 1 .. Len(s) - 1 /\ i + 1 \in 1 .. Len(s) - 1
  BY <1>1
<1>3. QED
  BY <1>1, <1>2 DEF Nested

LEMMA NestedStep == IInv /\ NestedInv /\ [Next]_vars => NestedInv'
<1> SUFFICES ASSUME IInv, NestedInv, [Next]_vars, OwnNames'
             PROVE  Nested(folder, inlining)'
  BY DEF NestedInv
<1>1. folder' = folder
  BY DEF Next, vars, SkipName, LoadName, ReturnLoaded, CompileBuiltIn, CompileLibraryCall,
         CompileInlineCall, StackOverflow, CompileUnknownCall, ReturnCompiled
<1>2. OwnNames /\ Nested(folder, inlining)
  BY <1>1 DEF OwnNames, NestedInv
<1>3. Compiling => inlining \in Seq(Frames) /\ inlining # << >>
  BY TopBody
<1>4. CASE UNCHANGED inlining
  BY <1>1, <1>2, <1>4 DEF Nested
<1>5. CASE inlining' = <<Frame(Main)>>
  BY <1>5 DEF Nested
<1>6. CASE CompileInlineCall
  <2> DEFINE moved == Advance(inlining)
  <2>1. /\ AtCall /\ Compiling /\ Inlined(Callee) /\ inlining' = Append(moved, Frame(Callee))
    BY <1>6 DEF CompileInlineCall, AtCall
  <2>2. Callee \in Wanted(folder[Last(inlining).file])
    BY <1>2, <2>1, InlinedIsWanted DEF CalleeWanted
  <2>3. Frame(Callee) \in Frames /\ Frame(Callee).file = Callee
    <3>1. Callee \in STRING
      BY <2>1, ContainsFact DEF Inlined, Known, IInv, TypeInv, Range
    <3>2. QED
      BY <3>1 DEF Frame, Frames
  <2>4. moved \in Seq(Frames) /\ moved # << >> /\ Last(moved).file = Last(inlining).file
    <3>1. /\ moved \in Seq(Frames) /\ moved # << >> /\ Len(moved) = Len(inlining)
          /\ Len(inlining) \in 1 .. Len(inlining) /\ Last(inlining) = inlining[Len(inlining)]
          /\ \A i \in 1 .. Len(inlining) : moved[i].file = inlining[i].file
      BY <1>3, <2>1, AdvanceFact
    <3>2. Last(moved) = moved[Len(moved)]
      BY DEF Last
    <3>3. QED
      BY <3>1, <3>2
  <2>5. Nested(folder, moved)
    BY <1>2, <1>3, <2>1, NestedAdvance
  <2> HIDE DEF moved
  <2>6. Nested(folder, Append(moved, Frame(Callee)))
    BY <2>2, <2>3, <2>4, <2>5, NestedAppend
  <2>7. QED
    BY <1>1, <2>1, <2>6 DEF Nested
<1>7. CASE Compiling /\ inlining' = Advance(inlining)
  BY <1>1, <1>2, <1>3, <1>7, NestedAdvance DEF Nested
<1>8. CASE Compiling /\ inlining' = Front(inlining)
  BY <1>1, <1>2, <1>3, <1>8, NestedFront DEF Nested
<1>9. QED
  BY <1>4, <1>5, <1>6, <1>7, <1>8
     DEF Next, vars, SkipName, LoadName, ReturnLoaded, CompileBuiltIn, CompileLibraryCall,
         StackOverflow, CompileUnknownCall, ReturnCompiled, AtBuiltIn, AtCall

(* A stack of bodies, each wanted by the one before it, has no file twice  *)
(* where the files have no cycle, and no more bodies than files.           *)
LEMMA NestedOnce ==
  ASSUME IInv, Nested(folder, inlining), ~Cyclic(GraphOf(folder))
  PROVE  NoRecursion
<1> DEFINE n == Len(inlining)
<1>1. inlining \in Seq(Frames) /\ folder \in Folders
  BY DEF IInv, TypeInv
<1>2. n \in Nat /\ DOMAIN inlining = 1 .. n
  BY <1>1, LenProperties
<1>3. \A i \in 1 .. n : inlining[i].file \in DOMAIN folder
  BY <1>1, FolderFact DEF IInv, InliningInv, LoadedInv, NeededSound, LoadsSoundly
<1>4. ASSUME NEW i \in 1 .. n, NEW j \in 1 .. n, i < j, inlining[i].file = inlining[j].file
      PROVE  FALSE
  <2> DEFINE S == {inlining[k].file : k \in i .. j - 1}
  <2>1. S \in SUBSET DOMAIN folder /\ S # {}
    <3>1. i \in i .. j - 1 /\ \A k \in i .. j - 1 : k \in 1 .. n
      BY <1>2, <1>4
    <3>2. QED
      BY <1>3, <3>1
  <2>2. ASSUME NEW k \in i .. j - 1
        PROVE  inlining[k + 1].file \in S /\ inlining[k + 1].file \in Wanted(folder[inlining[k].file])
    <3>1. k \in 1 .. n - 1
      BY <1>2, <1>4
    <3>2. inlining[k + 1].file \in Wanted(folder[inlining[k].file])
      BY <3>1 DEF Nested
    <3>3. CASE k = j - 1
      <4>1. k + 1 = j /\ i \in i .. j - 1
        BY <1>2, <1>4, <3>3
      <4>2. QED
        BY <1>4, <3>2, <4>1
    <3>4. CASE k # j - 1
      <4>1. k + 1 \in i .. j - 1
        BY <1>2, <1>4, <3>4
      <4>2. QED
        BY <3>2, <4>1
    <3>5. QED
      BY <3>3, <3>4
  <2>3. \A f \in S : \E m \in S : m \in Wanted(folder[f])
    BY <2>2
  <2> HIDE DEF S
  <2>4. QED
    BY <1>1, <2>1, <2>3, NoCircle
<1>5. \A i, j \in 1 .. n : inlining[i].file = inlining[j].file => i = j
  <2>1. \A i, j \in 1 .. n : i = j \/ i < j \/ j < i
    BY <1>2
  <2>2. QED
    BY <1>4, <2>1
<1>6. QED
  BY <1>2, <1>5 DEF NoRecursion

LEMMA OnceIsShallow ==
  ASSUME IInv, NoRecursion
  PROVE  ShallowNesting
<1> DEFINE n == Len(inlining)  files == {Main} \cup Loaded
           f == [i \in 1 .. n |-> inlining[i].file]
<1>1. n \in Nat /\ DOMAIN inlining = 1 .. n
  BY LenProperties DEF IInv, TypeInv
<1>2. f \in [1 .. n -> files]
  BY DEF IInv, InliningInv
<1>3. IsInjective(f)
  BY <1>1 DEF NoRecursion, IsInjective
<1>4. IsFiniteSet(files) /\ Cardinality(files) <= Len(deps) + 1
  <2>1. IsFiniteSet(Loaded) /\ Cardinality(Loaded) = Len(deps) /\ Len(deps) \in Nat
    BY DEF IInv, TypeInv, LoadedInv
  <2>2. files = Loaded \cup {Main}
    OBVIOUS
  <2>3. /\ IsFiniteSet(files)
        /\ Cardinality(files) = IF Main \in Loaded THEN Cardinality(Loaded)
                                ELSE Cardinality(Loaded) + 1
    BY <2>1, <2>2, FS_AddElement
  <2> HIDE DEF files
  <2>4. QED
    BY <2>1, <2>3
<1> HIDE DEF n, f, files
<1>5. f \in Injection(1 .. n, files)
  BY <1>2, <1>3 DEF Injection
<1>6. Cardinality(1 .. n) <= Cardinality(files) /\ Cardinality(1 .. n) = n
  BY <1>1, <1>4, <1>5, FS_Injection, FS_Interval
<1>7. Cardinality(files) \in Nat /\ Len(deps) \in Nat
  BY <1>4, FS_CardinalityType DEF IInv, TypeInv
<1>8. QED
  BY <1>1, <1>4, <1>6, <1>7 DEF ShallowNesting, n

(* The safety half of AcyclicCompiles: without a cycle among the uses      *)
(* clauses no body is compiled inside itself, and compile_inline_call is   *)
(* nested no deeper than there are dependencies.                           *)
THEOREM AcyclicNestsShallow ==
  Spec => [](OwnNames /\ ~Cyclic(GraphOf(folder)) => ShallowNesting)
<1>1. Init => NestedInv
  BY DEF Init, NestedInv, Nested
<1>2. IInv /\ NestedInv => (OwnNames /\ ~Cyclic(GraphOf(folder)) => ShallowNesting)
  BY NestedOnce, OnceIsShallow DEF NestedInv
<1>3. QED
  BY <1>1, <1>2, NestedStep, Invariance, PTL DEF Spec

==============================================================================
