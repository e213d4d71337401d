--------------------------- MODULE HelunaVm_proofs ----------------------------
(*****************************************************************************)
(* Proofs about HelunaVm.tla: whatever well-formed packets the machine is    *)
(* given, its iteration frames are the loop bodies around the program        *)
(* counter, innermost last; every pointer it holds, in a slot, a cell, a     *)
(* tail or a frame, is NULL or leads to a cell; and the containers it is     *)
(* building own their cells, so that tail pointers are not stale and loaded  *)
(* values are not written.                                                   *)
(*****************************************************************************)
EXTENDS HelunaLibrary_proofs

(* What a step does to the packet, the program counter and the frames.     *)
Stays ==
  UNCHANGED <<packet, pc, frames>> /\ status' \in {status, "error"}

Advance == UNCHANGED <<packet, frames, status>> /\ pc' = pc + 1

AtPlain ==
  /\ status = "running" /\ pc < Len(packet.code)
  /\ ins.op \notin {"ITER_SETUP", "ITER_COLLECT"}

AtJump ==
  /\ status = "running" /\ pc < Len(packet.code)
  /\ ins.op \in JumpTargetOps

Jumped == UNCHANGED <<packet, frames, status>> /\ pc' = d

Moves == Stays \/ (AtPlain /\ Advance) \/ (AtJump /\ Jumped)

LEMMA FailStays == Fail => Stays
  BY DEF Fail, Stays

LEMMA PointAdvances == ASSUME NEW a, NEW t, Point(a, t) PROVE Advance
  BY DEF Point, Advance

LEMMA StoreAdvances == ASSUME NEW c, NEW t, Store(c, t) PROVE Advance
  BY DEF Store, Advance

LEMMA NewAdvances == ASSUME NEW c, NewContainer(c) PROVE Advance
  BY DEF NewContainer, Advance

LEMMA SetAdvances == ASSUME NEW name, SetField(name) PROVE Advance
  BY DEF SetField, Advance

LEMMA GetAdvances == ASSUME NEW key, GetField(key) PROVE Advance
  BY PointAdvances DEF GetField

LEMMA AnswerAdvances == ASSUME NEW r, Answer(r) PROVE Advance
  BY DEF Answer, Advance

LEMMA FunctionMoves == ASSUME NEW f, CallFunction(f) PROVE Stays \/ Advance
<1>1. PICK results : (results = {} /\ Fail) \/ \E r \in results : Answer(r)
  BY DEF CallFunction
<1>2. CASE Fail
  BY <1>2, FailStays
<1>3. CASE \E r \in results : Answer(r)
  BY <1>3, AnswerAdvances
<1>4. QED
  BY <1>1, <1>2, <1>3

LEMMA LibraryMoves == CallLibrary => Stays \/ Advance
  BY FailStays, PointAdvances, StoreAdvances, FunctionMoves DEF CallLibrary

(* Instructions that compute a value.                                      *)
LEMMA ScalarsMove == Scalars => Moves
<1> USE DEF Moves, AtPlain, Fetched
<1>1. CASE LoadConst \/ LoadField \/ LoadNothing \/ Copy
  BY <1>1, FailStays, PointAdvances DEF LoadConst, LoadField, LoadNothing, Copy
<1>2. CASE ArithmeticStep
  BY <1>2, FailStays, StoreAdvances DEF ArithmeticStep
<1>3. CASE Negate \/ StrConcat \/ ToStringOp
  BY <1>3, FailStays, StoreAdvances DEF Negate, StrConcat, ToStringOp
<1>4. CASE Equality
  BY <1>4, PointAdvances DEF Equality
<1>5. CASE Ordering
  BY <1>5, FailStays, PointAdvances DEF Ordering
<1>6. CASE Connective
  BY <1>6, FailStays, PointAdvances DEF Connective
<1>7. CASE Not \/ ToBool
  BY <1>7, FailStays, PointAdvances DEF Not, ToBool
<1>8. CASE TypeTest
  <2>1. PICK op \in DOMAIN TypeTests :
          Fetched(op) /\ Point(Boolean(KindAt(mem, V1) \in TypeTests[op]), {})
    BY <1>8 DEF TypeTest
  <2>2. op \notin {"ITER_SETUP", "ITER_COLLECT"}
    BY <2>1 DEF TypeTests
  <2>3. QED
    BY <2>1, <2>2, PointAdvances
<1>9. CASE ToInt \/ ToFloat
  BY <1>9, FailStays, StoreAdvances DEF ToInt, ToFloat
<1>10. QED
  BY <1>1, <1>2, <1>3, <1>4, <1>5, <1>6, <1>7, <1>8, <1>9 DEF Scalars

(* Instructions on records and lists.                                      *)
LEMMA ContainersMove == Containers => Moves
<1> USE DEF Moves, AtPlain, Fetched
<1>1. CASE RecordNew \/ ListNew
  BY <1>1, NewAdvances DEF RecordNew, ListNew
<1>2. CASE RecordSet \/ RecordSetC
  BY <1>2, FailStays, SetAdvances DEF RecordSet, RecordSetC
<1>3. CASE RecordGet \/ RecordGetC
  BY <1>3, GetAdvances DEF RecordGet, RecordGetC
<1>4. CASE RecordHas
  BY <1>4, PointAdvances DEF RecordHas
<1>5. CASE ListAppend
  BY <1>5, FailStays DEF ListAppend, Advance
<1>6. CASE ListGet
  BY <1>6, FailStays, PointAdvances DEF ListGet
<1>7. CASE ListLength
  BY <1>7, StoreAdvances DEF ListLength
<1>8. CASE RecordNewSetC
  BY <1>8, FailStays DEF RecordNewSetC, Advance
<1>9. QED
  BY <1>1, <1>2, <1>3, <1>4, <1>5, <1>6, <1>7, <1>8 DEF Containers

(* Library calls, tags and sources.                                        *)
LEMMA ExternalMoves == External => Moves
<1> USE DEF Moves, AtPlain, Fetched
<1>1. CASE StdlibCall \/ StdlibCall1
  BY <1>1, LibraryMoves DEF StdlibCall, StdlibCall1
<1>2. CASE TagSet \/ TagCheck
  BY <1>2, PointAdvances DEF TagSet, TagCheck
<1>3. CASE SourceLookup
  BY <1>3, PointAdvances DEF SourceLookup
<1>4. QED
  BY <1>1, <1>2, <1>3 DEF External

(* Jumps, taken or not.                                                    *)
Jumping ==
  \/ Jump \/ JumpIf \/ JumpIfNot \/ CmpJumpEqual \/ CmpJumpOrder \/ IsNothingJump

LEMMA JumpingMoves == Jumping \/ Coalesce \/ UnknownOpcode => Moves
<1> USE DEF Moves, AtPlain, AtJump, Fetched, JumpTargetOps
<1>1. ASSUME NEW t, Goto(t) PROVE UNCHANGED <<packet, frames, status>> /\ pc' = t
  BY <1>1 DEF Goto
<1>2. CASE Jump \/ JumpIf \/ JumpIfNot \/ IsNothingJump
  BY <1>1, <1>2 DEF Jump, JumpIf, JumpIfNot, IsNothingJump, Jumped, Advance
<1>3. CASE CmpJumpEqual
  BY <1>1, <1>3 DEF CmpJumpEqual, Jumped, Advance
<1>4. CASE CmpJumpOrder
  <2>1. PICK op \in DOMAIN JumpOps :
          /\ Fetched(op)
          /\ \/ Fail
             \/ \E t \in {pc + 1, d} : Goto(t)
    BY <1>4 DEF CmpJumpOrder
  <2>2. op \notin {"ITER_SETUP", "ITER_COLLECT"}
    BY <2>1 DEF JumpOps
  <2>3. QED
    BY <1>1, <2>1, <2>2, FailStays DEF Jumped, Advance
<1>5. CASE Coalesce
  BY <1>5, PointAdvances DEF Coalesce
<1>6. CASE UnknownOpcode
  BY <1>6, FailStays DEF UnknownOpcode
<1>7. QED
  BY <1>2, <1>3, <1>4, <1>5, <1>6 DEF Jumping

------------------------------------------------------------------------------
(* The loop bodies around a program counter, each with the ITER_COLLECT    *)
(* that closes it, by the index of their ITER_SETUP.                       *)
Last(code, s) == s + code[s].o2

Enclosing(code, at) == {s \in Setups(code) : at \in s .. Last(code, s)}

FrameFields ==
  {"mode", "nextElem", "elemSlot", "sourceSlot", "bodyStart", "collectPc",
   "resultDest", "slotA", "slotB", "head", "last", "acc"}

(* The frames are those bodies, from the outermost to the innermost.       *)
FramesOf(code, at, fs) ==
  /\ \E S : fs \in Seq(S)
  /\ \A i \in 1 .. Len(fs) :
       /\ DOMAIN fs[i] = FrameFields
       /\ fs[i].bodyStart \in Enclosing(code, at)
       /\ fs[i].collectPc = Last(code, fs[i].bodyStart)
  /\ \A s \in Enclosing(code, at) : \E i \in 1 .. Len(fs) : fs[i].bodyStart = s
  /\ \A i, j \in 1 .. Len(fs) : i < j =>
       /\ fs[i].bodyStart < fs[j].bodyStart
       /\ fs[j].collectPc < fs[i].collectPc

IInv ==
  /\ packet.code \in Seq(Instruction)
  /\ BodiesNested(packet.code) /\ JumpsForward(packet.code)
  /\ pc \in Nat
  /\ FramesOf(packet.code, pc, frames)
  /\ status = "done" => frames = << >>

(* The instruction at a place in the code.                                 *)
LEMMA InstructionAt ==
  ASSUME NEW code \in Seq(Instruction), NEW i \in DOMAIN code
  PROVE  /\ i \in Nat \ {0} /\ i <= Len(code)
         /\ code[i].dest \in Nat /\ code[i].o2 \in Nat
<1>1. i \in 1 .. Len(code) /\ Len(code) \in Nat
  OBVIOUS
<1>2. code[i] \in Instruction
  BY <1>1
<1>3. QED
  BY <1>1, <1>2 DEF Instruction

(* Falling through an instruction that opens and closes no body, and       *)
(* jumping, leave the bodies around the program counter as they are.       *)
LEMMA EnclosingAdvance ==
  ASSUME NEW code \in Seq(Instruction), BodiesNested(code),
         NEW at \in Nat, at < Len(code),
         code[at + 1].op \notin {"ITER_SETUP", "ITER_COLLECT"}
  PROVE  Enclosing(code, at + 1) = Enclosing(code, at)
<1>1. ASSUME NEW s \in Setups(code)
      PROVE  at + 1 \in s .. Last(code, s) <=> at \in s .. Last(code, s)
  <2>1. s \in Nat /\ code[s].o2 \in Nat /\ code[s].op = "ITER_SETUP"
    BY InstructionAt DEF Setups
  <2>2. code[s + 1 + code[s].o2].op = "ITER_COLLECT"
    BY DEF BodiesNested
  <2>3. at + 1 # s
    BY <2>1
  <2>4. at # s + code[s].o2
    BY <2>1, <2>2
  <2>5. QED
    BY <2>1, <2>3, <2>4 DEF Last
<1>2. QED
  BY <1>1 DEF Enclosing

LEMMA EnclosingJump ==
  ASSUME NEW code \in Seq(Instruction), BodiesNested(code), JumpsForward(code),
         NEW at \in Nat, at < Len(code), code[at + 1].op \in JumpTargetOps
  PROVE  Enclosing(code, code[at + 1].dest) = Enclosing(code, at)
<1>1. ASSUME NEW s \in Setups(code)
      PROVE  code[at + 1].dest \in s .. Last(code, s) <=> at \in s .. Last(code, s)
  <2>1. s \in Nat /\ code[s].o2 \in Nat
    BY InstructionAt DEF Setups
  <2>2. code[s + 1 + code[s].o2].op = "ITER_COLLECT"
    BY DEF BodiesNested
  <2>3. at # s + code[s].o2
    <3>1. "ITER_COLLECT" \notin JumpTargetOps
      BY DEF JumpTargetOps, JumpOps
    <3>2. CASE at = s + code[s].o2
      <4>1. at + 1 = s + 1 + code[s].o2
        BY <2>1, <3>2
      <4>2. QED
        BY <2>2, <3>1, <4>1
    <3>3. QED
      BY <3>2
  <2>4. at + 1 \in s + 1 .. s + code[s].o2
          <=> code[at + 1].dest \in s .. s + code[s].o2
    BY <2>1 DEF JumpsForward, Body
  <2>5. QED
    BY <2>1, <2>3, <2>4 DEF Last
<1>2. QED
  BY <1>1 DEF Enclosing

(* Two setups: their bodies are nested or apart.                           *)
LEMMA Nesting ==
  ASSUME NEW code \in Seq(Instruction), BodiesNested(code),
         NEW s \in Setups(code), NEW t \in Setups(code)
  PROVE  /\ s \in Nat \ {0} /\ Last(code, s) \in Nat
         /\ s <= Last(code, s) /\ Last(code, s) < Len(code)
         /\ t # Last(code, s) + 1
         /\ s < t /\ t <= Last(code, s) => Last(code, t) < Last(code, s)
<1>1. /\ s \in Nat \ {0} /\ code[s].o2 \in Nat
      /\ t \in Nat \ {0} /\ code[t].o2 \in Nat
      /\ code[t].op = "ITER_SETUP" /\ code[s].op = "ITER_SETUP"
  BY InstructionAt DEF Setups
<1>2. /\ s + code[s].o2 < Len(code)
      /\ code[s + 1 + code[s].o2].op = "ITER_COLLECT"
      /\ t \in Body(code, s) => t + 1 + code[t].o2 \in Body(code, s)
  BY DEF BodiesNested
<1>3. t # Last(code, s) + 1
  BY <1>1, <1>2 DEF Last
<1>4. /\ s \in Nat \ {0} /\ Last(code, s) \in Nat
      /\ s <= Last(code, s) /\ Last(code, s) < Len(code)
  BY <1>1, <1>2 DEF Last
<1>5. ASSUME s < t, t <= Last(code, s) PROVE Last(code, t) < Last(code, s)
  <2>1. t \in Body(code, s)
    BY <1>1, <1>5 DEF Last, Body
  <2>2. t + 1 + code[t].o2 \in s + 1 .. s + code[s].o2
    BY <1>2, <2>1 DEF Body
  <2>3. PICK x \in Nat, y \in Nat : x = code[s].o2 /\ y = code[t].o2
    BY <1>1
  <2>4. s + x \in Nat /\ t + 1 + y <= s + x
    BY <1>1, <2>2, <2>3
  <2>5. t + y < s + x
    BY <1>1, <2>4
  <2>6. QED
    BY <2>3, <2>5 DEF Last
<1>6. QED
  BY <1>1, <1>3, <1>4, <1>5

(* What ITER_SETUP and ITER_COLLECT do to the bodies around the program    *)
(* counter: enter one, skip it, start it again, leave it.                  *)
LEMMA EnclosingBody ==
  ASSUME NEW code \in Seq(Instruction), BodiesNested(code), NEW s \in Setups(code)
  PROVE  /\ Enclosing(code, s) = Enclosing(code, s - 1) \cup {s}
         /\ Enclosing(code, Last(code, s)) = Enclosing(code, s)
         /\ Enclosing(code, Last(code, s) + 1) = Enclosing(code, s - 1)
         /\ s \notin Enclosing(code, s - 1)
<1>1. ASSUME NEW t \in Setups(code)
      PROVE  /\ s \in t .. Last(code, t)
                   <=> s - 1 \in t .. Last(code, t) \/ t = s
             /\ Last(code, s) \in t .. Last(code, t) <=> s \in t .. Last(code, t)
             /\ Last(code, s) + 1 \in t .. Last(code, t)
                   <=> s - 1 \in t .. Last(code, t)
             /\ t = s => s - 1 \notin t .. Last(code, t)
  <2> DEFINE a == Last(code, s)  b == Last(code, t)
  <2>1. /\ s \in Nat \ {0} /\ a \in Nat /\ s <= a
        /\ t # a + 1 /\ (s < t /\ t <= a => b < a)
    BY Nesting
  <2>2. /\ t \in Nat \ {0} /\ b \in Nat /\ t <= b
        /\ s # b + 1 /\ (t < s /\ s <= b => a < b)
    BY Nesting
  <2>3. t = s => b = a
    OBVIOUS
  <2> HIDE DEF a, b
  <2>4. /\ s \in t .. b <=> s - 1 \in t .. b \/ t = s
        /\ a \in t .. b <=> s \in t .. b
        /\ a + 1 \in t .. b <=> s - 1 \in t .. b
        /\ t = s => s - 1 \notin t .. b
    BY <2>1, <2>2, <2>3
  <2>5. QED
    BY <2>4 DEF a, b
<1>2. QED
  BY <1>1 DEF Enclosing

------------------------------------------------------------------------------
LEMMA CurrentInstruction ==
  ASSUME IInv, pc < Len(packet.code)
  PROVE  /\ pc + 1 \in DOMAIN packet.code
         /\ ins = packet.code[pc + 1]
         /\ ins.dest \in Nat /\ ins.o2 \in Nat
<1>1. pc + 1 \in DOMAIN packet.code
  BY DEF IInv
<1>2. QED
  BY <1>1, InstructionAt DEF IInv, ins

LEMMA MovesIInv == IInv /\ Moves => IInv'
<1> SUFFICES ASSUME IInv, Moves PROVE IInv'
  OBVIOUS
<1>1. CASE Stays /\ status' # "done"
  BY <1>1 DEF Stays, IInv
<1>2. CASE Stays /\ status' = "done"
  BY <1>2 DEF Stays, IInv
<1>3. CASE AtPlain /\ Advance
  <2>1. Enclosing(packet.code, pc + 1) = Enclosing(packet.code, pc)
    BY <1>3, CurrentInstruction, EnclosingAdvance DEF AtPlain, IInv
  <2>2. FramesOf(packet.code, pc + 1, frames)
    BY <2>1 DEF IInv, FramesOf
  <2>3. QED
    BY <1>3, <2>2 DEF AtPlain, Advance, IInv
<1>4. CASE AtJump /\ Jumped
  <2>1. d \in Nat /\ Enclosing(packet.code, d) = Enclosing(packet.code, pc)
    BY <1>4, CurrentInstruction, EnclosingJump DEF AtJump, IInv, d
  <2>2. FramesOf(packet.code, d, frames)
    BY <2>1 DEF IInv, FramesOf
  <2>3. QED
    BY <1>4, <2>1, <2>2 DEF AtJump, Jumped, IInv
<1>5. QED
  BY <1>1, <1>2, <1>3, <1>4 DEF Moves

(* ITER_SETUP: skip the body, or push a frame for it.                      *)
LEMMA SetupIInv == IInv /\ IterSetup => IInv'
<1> SUFFICES ASSUME IInv, IterSetup PROVE IInv'
  OBVIOUS
<1> DEFINE code == packet.code  s == pc + 1
<1>1. /\ status = "running" /\ pc < Len(code) /\ ins.op = "ITER_SETUP"
      /\ Fail \/ IterEmpty \/ IterPush
  BY DEF IterSetup, Fetched
<1>2. s \in DOMAIN code /\ ins = code[s] /\ ins.o2 \in Nat
  BY <1>1, CurrentInstruction
<1>3. s \in Setups(code) /\ CollectPc = Last(code, s)
  BY <1>1, <1>2 DEF Setups, CollectPc, Last
<1>4. /\ code \in Seq(Instruction) /\ BodiesNested(code) /\ pc \in Nat
      /\ FramesOf(code, pc, frames)
  BY DEF IInv
<1> HIDE DEF code, s
<1>5. /\ Enclosing(code, s) = Enclosing(code, pc) \cup {s}
      /\ Enclosing(code, Last(code, s) + 1) = Enclosing(code, pc)
      /\ s \notin Enclosing(code, pc)
  <2>1. pc = s - 1
    BY <1>4 DEF s
  <2>2. QED
    BY <1>3, <1>4, <2>1, EnclosingBody
<1>6. CASE Fail
  BY <1>6, MovesIInv, FailStays DEF Moves
<1>7. CASE IterEmpty
  <2>1. pc' = Last(code, s) + 1 /\ UNCHANGED <<packet, frames, status>>
    BY <1>3, <1>7 DEF IterEmpty
  <2>2. FramesOf(code, Last(code, s) + 1, frames)
    BY <1>4, <1>5 DEF FramesOf
  <2>3. Last(code, s) + 1 \in Nat
    BY <1>3, <1>4, Nesting
  <2>4. QED
    BY <1>1, <2>1, <2>2, <2>3 DEF IInv, code
<1>8. CASE IterPush
  <2> DEFINE n == Len(frames)
  <2>1. PICK new :
          /\ frames' = Append(frames, new)
          /\ DOMAIN new = FrameFields
          /\ new.bodyStart = s /\ new.collectPc = Last(code, s)
    BY <1>3, <1>8 DEF IterPush, FrameFields, s
  <2>2. pc' = s /\ UNCHANGED <<packet, status>>
    BY <1>8 DEF IterPush, s
  <2>3. PICK S : frames \in Seq(S)
    BY <1>4 DEF FramesOf
  <2>4. /\ frames' \in Seq(S \cup {new}) /\ Len(frames') = n + 1 /\ n \in Nat
        /\ frames'[n + 1] = new
        /\ \A i \in 1 .. n : frames'[i] = frames[i]
    BY <2>1, <2>3
  <2>5. \A i \in 1 .. n : /\ frames[i].bodyStart < s
                          /\ Last(code, s) < frames[i].collectPc
    <3> SUFFICES ASSUME NEW i \in 1 .. n
                 PROVE  /\ frames[i].bodyStart < s
                        /\ Last(code, s) < frames[i].collectPc
      OBVIOUS
    <3> DEFINE t == frames[i].bodyStart
    <3>1. t \in Enclosing(code, pc) /\ frames[i].collectPc = Last(code, t)
      BY <1>4 DEF FramesOf
    <3>2. t \in Setups(code) /\ t <= pc /\ pc <= Last(code, t)
      BY <3>1 DEF Enclosing
    <3>3. /\ t \in Nat /\ Last(code, t) \in Nat /\ s # Last(code, t) + 1
          /\ t < s /\ s <= Last(code, t) => Last(code, s) < Last(code, t)
      BY <1>3, <1>4, <3>2, Nesting
    <3>4. s = pc + 1
      BY DEF s
    <3> HIDE DEF t
    <3>5. QED
      BY <1>4, <3>1, <3>2, <3>3, <3>4 DEF t
  <2>6. \A i \in 1 .. n + 1 :
          /\ DOMAIN frames'[i] = FrameFields
          /\ frames'[i].bodyStart \in Enclosing(code, s)
          /\ frames'[i].collectPc = Last(code, frames'[i].bodyStart)
    BY <1>4, <1>5, <2>1, <2>4 DEF FramesOf
  <2>7. \A t \in Enclosing(code, s) : \E i \in 1 .. n + 1 : frames'[i].bodyStart = t
    <3>1. \A t \in Enclosing(code, pc) : \E i \in 1 .. n : frames'[i].bodyStart = t
      BY <1>4, <2>4 DEF FramesOf
    <3>2. frames'[n + 1].bodyStart = s /\ n + 1 \in 1 .. n + 1
      BY <2>1, <2>4
    <3>3. QED
      BY <1>5, <2>4, <3>1, <3>2
  <2>8. \A i, j \in 1 .. n + 1 : i < j =>
          /\ frames'[i].bodyStart < frames'[j].bodyStart
          /\ frames'[j].collectPc < frames'[i].collectPc
    <3> SUFFICES ASSUME NEW i \in 1 .. n + 1, NEW j \in 1 .. n + 1, i < j
                 PROVE  /\ frames'[i].bodyStart < frames'[j].bodyStart
                        /\ frames'[j].collectPc < frames'[i].collectPc
      OBVIOUS
    <3>1. i \in 1 .. n /\ frames'[i] = frames[i]
      BY <2>4
    <3>2. CASE j = n + 1
      BY <2>1, <2>4, <2>5, <3>1, <3>2
    <3>3. CASE j \in 1 .. n
      <4>1. frames'[j] = frames[j]
        BY <2>4, <3>3
      <4>2. QED
        BY <1>4, <3>1, <3>3, <4>1 DEF FramesOf
    <3>4. QED
      BY <2>4, <3>2, <3>3
  <2>9. FramesOf(code, s, frames')
    BY <2>4, <2>6, <2>7, <2>8 DEF FramesOf
  <2>10. s \in Nat
    BY <1>4 DEF s
  <2>11. QED
    BY <1>1, <2>2, <2>9, <2>10 DEF IInv, code
<1>9. QED
  BY <1>1, <1>6, <1>7, <1>8

(* At an ITER_COLLECT the innermost frame is the one of its own loop.      *)
LEMMA AtCollect ==
  ASSUME IInv, Fetched("ITER_COLLECT")
  PROVE  /\ depth \in Nat \ {0}
         /\ top.bodyStart \in Setups(packet.code)
         /\ pc = Last(packet.code, top.bodyStart) /\ pc = top.collectPc
<1> DEFINE code == packet.code
<1>1. /\ code \in Seq(Instruction) /\ BodiesNested(code) /\ pc \in Nat
      /\ FramesOf(code, pc, frames)
  BY DEF IInv
<1>2. pc + 1 \in DOMAIN code /\ code[pc + 1].op = "ITER_COLLECT"
  BY CurrentInstruction DEF Fetched
<1>3. depth \in Nat
  BY <1>1 DEF FramesOf, depth
<1> HIDE DEF code
<1>4. PICK s \in Setups(code) : pc + 1 = s + 1 + code[s].o2
  BY <1>1, <1>2 DEF BodiesNested
<1>5. s \in Nat /\ code[s].o2 \in Nat /\ pc = Last(code, s)
  <2>1. s \in DOMAIN code
    BY <1>4 DEF Setups
  <2>2. s \in Nat /\ code[s].o2 \in Nat
    BY <1>1, <2>1, InstructionAt
  <2>3. QED
    BY <1>1, <1>4, <2>2 DEF Last
<1>6. s \in Enclosing(code, pc)
  BY <1>1, <1>4, <1>5 DEF Enclosing, Last
<1>7. PICK k \in 1 .. depth : frames[k].bodyStart = s
  BY <1>1, <1>6 DEF FramesOf, depth
<1>8. depth \in 1 .. depth
  BY <1>3, <1>7
<1>9. /\ top.bodyStart \in Setups(code) /\ pc <= Last(code, top.bodyStart)
      /\ top.collectPc = Last(code, top.bodyStart)
  BY <1>1, <1>8 DEF FramesOf, Enclosing, top, depth
<1>10. frames[k].collectPc = pc
  BY <1>1, <1>5, <1>7 DEF FramesOf, depth
<1>11. k = depth
  <2>1. CASE k < depth
    <3>1. top.collectPc < frames[k].collectPc
      BY <1>1, <1>7, <1>8, <2>1 DEF FramesOf, top, depth
    <3>2. Last(code, top.bodyStart) \in Nat
      BY <1>1, <1>9, Nesting
    <3>3. QED
      BY <1>1, <1>9, <1>10, <3>1, <3>2
  <2>2. QED
    BY <1>3, <1>7, <2>1
<1>12. QED
  BY <1>3, <1>5, <1>7, <1>8, <1>9, <1>10, <1>11 DEF top, code

(* ITER_COLLECT: start the body again for the next element, or leave it.   *)
LEMMA CollectIInv == IInv /\ IterCollect => IInv'
<1> SUFFICES ASSUME IInv, IterCollect PROVE IInv'
  OBVIOUS
<1> DEFINE code == packet.code  s == top.bodyStart
<1>1. status = "running" /\ depth \in Nat \ {0} /\ (IterAdvance \/ IterFinish)
  BY AtCollect DEF IterCollect, Fetched
<1>2. s \in Setups(code) /\ pc = Last(code, s) /\ pc = top.collectPc
  BY AtCollect DEF IterCollect
<1>3. /\ code \in Seq(Instruction) /\ BodiesNested(code) /\ pc \in Nat
      /\ FramesOf(code, pc, frames)
  BY DEF IInv
<1>4. s \in Nat \ {0} /\ s <= pc
  BY <1>2, <1>3, Nesting
<1>5. PICK S : frames \in Seq(S)
  BY <1>3 DEF FramesOf
<1> HIDE DEF code
<1>6. /\ Enclosing(code, s) = Enclosing(code, pc)
      /\ Enclosing(code, s) = Enclosing(code, s - 1) \cup {s}
      /\ Enclosing(code, pc + 1) = Enclosing(code, s - 1)
      /\ s \notin Enclosing(code, s - 1)
  <2>1. /\ Enclosing(code, Last(code, s)) = Enclosing(code, s)
        /\ Enclosing(code, s) = Enclosing(code, s - 1) \cup {s}
        /\ Enclosing(code, Last(code, s) + 1) = Enclosing(code, s - 1)
        /\ s \notin Enclosing(code, s - 1)
    BY <1>2, <1>3, EnclosingBody
  <2>2. QED
    BY <1>2, <2>1
<1>7. CASE IterAdvance
  <2>1. PICK new :
          /\ frames' = [frames EXCEPT ![depth] = new]
          /\ new = [Gathered EXCEPT !.nextElem = mem[top.nextElem].next]
    BY <1>7 DEF IterAdvance
  <2>2. DOMAIN top = FrameFields
    BY <1>1, <1>3 DEF FramesOf, depth, top
  <2>3. /\ DOMAIN new = FrameFields
        /\ new.bodyStart = s /\ new.collectPc = top.collectPc
    BY <2>1, <2>2 DEF Gathered, FrameFields
  <2>4. /\ frames' \in Seq(S \cup {new}) /\ Len(frames') = Len(frames)
        /\ \A i \in 1 .. Len(frames) :
             /\ DOMAIN frames'[i] = DOMAIN frames[i]
             /\ frames'[i].bodyStart = frames[i].bodyStart
             /\ frames'[i].collectPc = frames[i].collectPc
    <3>1. \A i \in 1 .. Len(frames) :
            frames'[i] = IF i = depth THEN new ELSE frames[i]
      BY <1>5, <2>1
    <3>2. frames' \in Seq(S \cup {new}) /\ Len(frames') = Len(frames)
      <4>1. frames \in Seq(S \cup {new}) /\ new \in S \cup {new}
        BY <1>5, SeqMonotonic, Zenon
      <4>2. depth \in 1 .. Len(frames)
        BY <1>1 DEF depth
      <4>3. QED
        BY <2>1, <4>1, <4>2, ExceptSeq
    <3>3. QED
      BY <2>2, <2>3, <3>1, <3>2 DEF top
  <2>5. FramesOf(code, s, frames')
    BY <1>3, <1>6, <2>4 DEF FramesOf
  <2>6. pc' = s /\ UNCHANGED <<packet, status>>
    BY <1>7 DEF IterAdvance
  <2>7. QED
    BY <1>1, <1>4, <2>5, <2>6 DEF IInv, code
<1>8. CASE IterFinish
  <2> DEFINE n == depth - 1
  <2>1. frames' = SubSeq(frames, 1, n) /\ pc' = pc + 1 /\ UNCHANGED <<packet, status>>
    BY <1>8 DEF IterFinish
  <2>2. /\ frames' \in Seq(S) /\ Len(frames') = n /\ n \in Nat
        /\ depth = Len(frames)
        /\ \A i \in 1 .. n : i \in 1 .. depth /\ frames'[i] = frames[i]
    <3>1. /\ n \in Nat /\ depth = Len(frames) /\ depth = n + 1
          /\ \A i \in 1 .. n : i \in 1 .. depth
      BY <1>1 DEF depth
    <3>2. \A i \in 1 .. n : frames[i] \in S
      BY <1>5, <3>1, ElementOfSeq
    <3>3. /\ frames' \in Seq(S)
          /\ Len(frames') = IF 1 <= n THEN n - 1 + 1 ELSE 0
          /\ \A i \in 1 .. n - 1 + 1 : frames'[i] = frames[1 + i - 1]
      BY <2>1, <3>1, <3>2, SubSeqProperties
    <3> HIDE DEF n
    <3>4. Len(frames') = n
      BY <3>1, <3>3
    <3>5. \A i \in 1 .. n : frames'[i] = frames[i]
      BY <3>1, <3>3
    <3>6. QED
      BY <3>1, <3>3, <3>4, <3>5
  <2>3. \A i \in 1 .. n : frames[i].bodyStart < s
    BY <1>1, <1>3, <2>2 DEF FramesOf, top
  <2>4. \A i \in 1 .. n : frames'[i].bodyStart \in Enclosing(code, pc + 1)
    <3>1. \A i \in 1 .. n : frames[i].bodyStart \in Enclosing(code, pc)
      BY <1>3, <2>2 DEF FramesOf
    <3>2. QED
      BY <1>4, <1>6, <2>2, <2>3, <3>1
  <2>5. \A t \in Enclosing(code, pc + 1) : \E i \in 1 .. n : frames'[i].bodyStart = t
    <3> SUFFICES ASSUME NEW t \in Enclosing(code, pc + 1)
                 PROVE  \E i \in 1 .. n : frames'[i].bodyStart = t
      OBVIOUS
    <3>1. PICK i \in 1 .. depth : frames[i].bodyStart = t
      BY <1>3, <1>6, <2>2 DEF FramesOf
    <3>2. i # depth
      BY <1>6, <3>1 DEF top
    <3>3. i \in 1 .. n
      BY <2>2, <3>1, <3>2
    <3>4. QED
      BY <2>2, <3>1, <3>3
  <2>6. FramesOf(code, pc + 1, frames')
    <3> HIDE DEF n
    <3>0. /\ \A i \in 1 .. depth :
               /\ DOMAIN frames[i] = FrameFields
               /\ frames[i].collectPc = Last(code, frames[i].bodyStart)
          /\ \A i, j \in 1 .. depth : i < j =>
               /\ frames[i].bodyStart < frames[j].bodyStart
               /\ frames[j].collectPc < frames[i].collectPc
      BY <1>3, <2>2 DEF FramesOf
    <3> HIDE DEF depth
    <3>1. \A i \in 1 .. n :
            /\ DOMAIN frames'[i] = FrameFields
            /\ frames'[i].collectPc = Last(code, frames'[i].bodyStart)
      BY <2>2, <3>0
    <3>2. \A i, j \in 1 .. n : i < j =>
            /\ frames'[i].bodyStart < frames'[j].bodyStart
            /\ frames'[j].collectPc < frames'[i].collectPc
      BY <2>2, <3>0
    <3>3. QED
      BY <2>2, <2>4, <2>5, <3>1, <3>2 DEF FramesOf
  <2>7. QED
    BY <1>1, <1>3, <2>1, <2>6 DEF IInv, code
<1>9. QED
  BY <1>1, <1>7, <1>8

------------------------------------------------------------------------------
(* Outside every body the iteration stack is empty.                        *)
LEMMA NoFrames ==
  ASSUME NEW code, NEW at, NEW fs, FramesOf(code, at, fs), Enclosing(code, at) = {}
  PROVE  fs = << >>
<1>1. PICK S : fs \in Seq(S)
  BY DEF FramesOf
<1>2. 1 \notin 1 .. Len(fs)
  BY DEF FramesOf
<1>3. Len(fs) = 0
  BY <1>1, <1>2
<1>4. QED
  BY <1>1, <1>3

(* The run ends after the last instruction, where no body reaches.         *)
LEMMA FinishIInv == IInv /\ Finish => IInv'
<1> SUFFICES ASSUME IInv, Finish PROVE IInv'
  OBVIOUS
<1>1. ASSUME NEW t \in Setups(packet.code)
      PROVE  pc \notin t .. Last(packet.code, t)
  <2>1. /\ Last(packet.code, t) \in Nat /\ t \in Nat
        /\ Last(packet.code, t) < Len(packet.code)
    BY Nesting DEF IInv
  <2>2. pc >= Len(packet.code) /\ pc \in Nat /\ Len(packet.code) \in Nat
    BY DEF Finish, IInv
  <2>3. QED
    BY <2>1, <2>2
<1>2. frames = << >>
  BY <1>1, NoFrames DEF IInv, Enclosing
<1>3. QED
  BY <1>2 DEF Finish, IInv

LEMMA InitIInv ==
  ASSUME \A p \in Packets : WellFormed(p), Init
  PROVE  IInv
<1>1. PICK p \in Packets : Load(p)
  BY DEF Init
<1>2. /\ packet.code \in Seq(Instruction)
      /\ BodiesNested(packet.code) /\ JumpsForward(packet.code)
      /\ pc = 0 /\ frames = << >> /\ status = "running"
  BY <1>1 DEF Load, WellFormed
<1>3. ASSUME NEW t \in Setups(packet.code) PROVE 0 \notin t .. Last(packet.code, t)
  BY <1>2, Nesting
<1>4. FramesOf(packet.code, 0, << >>)
  <2>1. Enclosing(packet.code, 0) = {}
    BY <1>3 DEF Enclosing
  <2>2. << >> \in Seq({}) /\ Len(<< >>) = 0
    OBVIOUS
  <2>3. QED
    BY <2>1, <2>2 DEF FramesOf
<1>5. QED
  BY <1>2, <1>4 DEF IInv

LEMMA NextIInv == IInv /\ [Next]_vars => IInv'
<1> SUFFICES ASSUME IInv, [Next]_vars PROVE IInv'
  OBVIOUS
<1>1. CASE Scalars
  BY <1>1, ScalarsMove, MovesIInv
<1>2. CASE Containers
  BY <1>2, ContainersMove, MovesIInv
<1>3. CASE External
  BY <1>3, ExternalMoves, MovesIInv
<1>4. CASE Control
  <2>1. CASE IterSetup
    BY <2>1, SetupIInv
  <2>2. CASE IterCollect
    BY <2>2, CollectIInv
  <2>3. CASE Finish
    BY <2>3, FinishIInv
  <2>4. CASE Jumping \/ Coalesce \/ UnknownOpcode
    BY <2>4, JumpingMoves, MovesIInv
  <2>5. QED
    BY <1>4, <2>1, <2>2, <2>3, <2>4 DEF Control, Jumping
<1>5. CASE UNCHANGED vars
  BY <1>5 DEF vars, IInv
<1>6. QED
  BY <1>1, <1>2, <1>3, <1>4, <1>5 DEF Next

(* The frames around the program counter, in order, are nested; the one an *)
(* ITER_COLLECT closes is its own loop's.                                  *)
LEMMA IInvImpliesNested == IInv => FramesNested
<1> SUFFICES ASSUME IInv PROVE FramesNested
  OBVIOUS
<1>1. pc \in Nat /\ FramesOf(packet.code, pc, frames)
  BY DEF IInv
<1>2. depth \in Nat /\ (frames # << >> => depth \in 1 .. depth)
  BY <1>1 DEF FramesOf, depth
<1>3. ASSUME NEW i \in 1 .. depth - 1
      PROVE  /\ frames[i].bodyStart < frames[i + 1].bodyStart
             /\ frames[i + 1].collectPc < frames[i].collectPc
  <2>1. \A j, k \in 1 .. depth : j < k =>
          /\ frames[j].bodyStart < frames[k].bodyStart
          /\ frames[k].collectPc < frames[j].collectPc
    BY <1>1 DEF FramesOf, depth
  <2>2. i \in 1 .. depth /\ i + 1 \in 1 .. depth /\ i < i + 1
    BY <1>2
  <2>3. QED
    BY <2>1, <2>2
<1>4. frames # << >> => pc \in top.bodyStart .. top.collectPc
  BY <1>1, <1>2 DEF FramesOf, Enclosing, top, depth
<1>5. Fetched("ITER_COLLECT") => frames # << >> /\ pc = top.collectPc
  BY AtCollect DEF depth
<1>6. QED
  BY <1>3, <1>4, <1>5 DEF FramesNested, IInv, depth

(* In every run of well-formed packets the frames of the iteration stack   *)
(* are nested, control is inside the innermost, an ITER_COLLECT closes its *)
(* own loop, and no frame is left when the run is done.                    *)
THEOREM FramesAlwaysNested ==
  ASSUME \A p \in Packets : WellFormed(p)
  PROVE  Spec => []FramesNested
<1>1. Init => IInv
  BY InitIInv
<1>2. IInv /\ [Next]_vars => IInv'
  BY NextIInv
<1>3. IInv => FramesNested
  BY IInvImpliesNested
<1>4. QED
  BY <1>1, <1>2, <1>3, PTL DEF Spec

------------------------------------------------------------------------------
(* The places between the instruction that makes a container in a slot and *)
(* one that appends to it: there the slot holds a container of its own.    *)
Within(code, s, at) ==
  \E c, i \in DOMAIN code :
    /\ c < i /\ Builds(code, c, i) /\ code[i].dest = s
    /\ at \in c + 1 .. i

Overwrites(code, p, s) ==
  code[p].dest = s /\ code[p].op \notin Appends \cup JumpTargetOps

(* Such a place is entered from the maker or from a place of the same kind *)
(* whose instruction does not overwrite the slot: falling through, jumping,*)
(* skipping a body, starting one again.                                    *)
LEMMA PlainEntry ==
  ASSUME NEW code \in Seq(Instruction), NEW p \in DOMAIN code, NEW s,
         Within(code, s, p + 1)
  PROVE  \/ code[p].op \in Makers /\ code[p].dest = s
         \/ Within(code, s, p) /\ ~Overwrites(code, p, s)
<1>1. PICK c \in DOMAIN code, i \in DOMAIN code :
        /\ c < i /\ Builds(code, c, i) /\ code[i].dest = s
        /\ p + 1 \in c + 1 .. i
  BY DEF Within
<1>2. c \in Nat /\ i \in Nat /\ p \in Nat
  BY InstructionAt
<1>3. CASE p = c
  BY <1>1, <1>3 DEF Builds
<1>4. CASE p # c
  <2>1. p \in c + 1 .. i - 1 /\ p \in c + 1 .. i
    BY <1>1, <1>2, <1>4
  <2>2. Within(code, s, p)
    BY <1>1, <2>1 DEF Within
  <2>3. ~Overwrites(code, p, s)
    BY <1>1, <2>1 DEF Builds, Overwrites
  <2>4. QED
    BY <2>2, <2>3
<1>5. QED
  BY <1>3, <1>4

LEMMA JumpEntry ==
  ASSUME NEW code \in Seq(Instruction), NEW p \in DOMAIN code, NEW s,
         code[p].op \in JumpTargetOps, Within(code, s, code[p].dest + 1)
  PROVE  Within(code, s, p)
<1>1. PICK c \in DOMAIN code, i \in DOMAIN code :
        /\ c < i /\ Builds(code, c, i) /\ code[i].dest = s
        /\ code[p].dest + 1 \in c + 1 .. i
  BY DEF Within
<1>2. c \in Nat /\ i \in Nat /\ p \in Nat /\ code[p].dest \in Nat
  BY InstructionAt
<1>3. code[p].dest \in c .. i - 1
  BY <1>1, <1>2
<1>4. p \in c .. i - 1
  BY <1>1, <1>3 DEF Builds
<1>5. p # c
  BY <1>1 DEF Builds, Makers, JumpTargetOps, JumpOps
<1>6. p \in c + 1 .. i
  BY <1>2, <1>4, <1>5
<1>7. QED
  BY <1>1, <1>6 DEF Within

(* A body that stands before such a place, or around it, stands there as a *)
(* whole.                                                                  *)
LEMMA BodyWhole ==
  ASSUME NEW code \in Seq(Instruction), BodiesNested(code), NEW k \in Setups(code),
         NEW c \in DOMAIN code, NEW i \in DOMAIN code, c < i, Builds(code, c, i),
         k + 1 \in c + 1 .. i \/ Last(code, k) + 2 \in c + 1 .. i
  PROVE  /\ k \in c + 1 .. i - 1 /\ Last(code, k) + 1 \in c + 1 .. i - 1
         /\ code[k].op = "ITER_SETUP" /\ code[Last(code, k) + 1].op = "ITER_COLLECT"
<1> DEFINE e == Last(code, k) + 1
<1>1. /\ c \in Nat /\ i \in Nat /\ k \in Nat /\ code[k].o2 \in Nat
      /\ code[k].op = "ITER_SETUP"
  BY InstructionAt DEF Setups
<1>2. e = k + 1 + code[k].o2 /\ e \in Nat /\ k < e /\ code[e].op = "ITER_COLLECT"
  <2>1. e = k + 1 + code[k].o2
    <3>1. e = (k + code[k].o2) + 1
      BY DEF Last
    <3>2. PICK o \in Nat : o = code[k].o2
      BY <1>1
    <3> HIDE DEF e
    <3>3. (k + o) + 1 = k + 1 + o
      BY <1>1
    <3>4. QED
      BY <3>1, <3>2, <3>3
  <2>2. code[k + 1 + code[k].o2].op = "ITER_COLLECT"
    BY DEF BodiesNested
  <2> HIDE DEF e
  <2>3. QED
    BY <1>1, <2>1, <2>2
<1>3. c # k /\ c # e /\ i # e /\ i # k
  BY <1>1, <1>2 DEF Builds, Makers, Appends
<1>4. c \in k + 1 .. e - 1 <=> i \in k + 1 .. e - 1
  <2>1. Body(code, k) = k + 1 .. e - 1
    <3>1. PICK o \in Nat : o = code[k].o2
      BY <1>1
    <3>2. PICK f \in Nat : f = e
      BY <1>2
    <3>3. f = k + 1 + o
      BY <1>2, <3>1, <3>2
    <3>4. f - 1 = k + o
      BY <1>1, <3>3
    <3> HIDE DEF e
    <3>5. QED
      BY <3>1, <3>2, <3>4 DEF Body
  <2>2. QED
    BY <2>1 DEF Builds
<1>5. k + 1 \in c + 1 .. i \/ e + 1 \in c + 1 .. i
  BY <1>1 DEF Last
<1> HIDE DEF e
<1>6. k \in c + 1 .. i - 1 /\ e \in c + 1 .. i - 1
  BY <1>1, <1>2, <1>3, <1>4, <1>5
<1>7. QED
  BY <1>1, <1>2, <1>6 DEF e

LEMMA SkipEntry ==
  ASSUME NEW code \in Seq(Instruction), BodiesNested(code), NEW k \in Setups(code), NEW s,
         Within(code, s, Last(code, k) + 2)
  PROVE  Within(code, s, k) /\ code[Last(code, k) + 1].dest # s
<1>1. PICK c \in DOMAIN code, i \in DOMAIN code :
        /\ c < i /\ Builds(code, c, i) /\ code[i].dest = s
        /\ Last(code, k) + 2 \in c + 1 .. i
  BY DEF Within
<1>2. /\ k \in c + 1 .. i - 1 /\ Last(code, k) + 1 \in c + 1 .. i - 1
      /\ code[Last(code, k) + 1].op = "ITER_COLLECT"
  BY <1>1, BodyWhole
<1>3. c \in Nat /\ i \in Nat
  BY InstructionAt
<1>4. k \in c + 1 .. i
  BY <1>2, <1>3
<1>5. code[Last(code, k) + 1].dest # s
  BY <1>1, <1>2 DEF Builds, Appends, JumpTargetOps, JumpOps
<1>6. QED
  BY <1>1, <1>4, <1>5 DEF Within

LEMMA AgainEntry ==
  ASSUME NEW code \in Seq(Instruction), BodiesNested(code), NEW k \in Setups(code), NEW s,
         Within(code, s, k + 1)
  PROVE  Within(code, s, Last(code, k) + 1) /\ code[k].dest # s
<1>1. PICK c \in DOMAIN code, i \in DOMAIN code :
        /\ c < i /\ Builds(code, c, i) /\ code[i].dest = s
        /\ k + 1 \in c + 1 .. i
  BY DEF Within
<1>2. /\ k \in c + 1 .. i - 1 /\ Last(code, k) + 1 \in c + 1 .. i - 1
      /\ code[k].op = "ITER_SETUP"
  BY <1>1, BodyWhole
<1>3. c \in Nat /\ i \in Nat
  BY InstructionAt
<1>4. Last(code, k) + 1 \in c + 1 .. i
  BY <1>2, <1>3
<1>5. code[k].dest # s
  BY <1>1, <1>2 DEF Builds, Appends, JumpTargetOps, JumpOps
<1>6. QED
  BY <1>1, <1>4, <1>5 DEF Within

------------------------------------------------------------------------------
FrameSound(f, slots, pointers) ==
  /\ f.elemSlot \in slots /\ f.sourceSlot \in slots
  /\ f.resultDest \in slots /\ f.slotA \in slots
  /\ f.mode = "filter" => f.slotB \in slots
  /\ f.nextElem \in pointers /\ f.head \in pointers
  /\ f.last \in pointers /\ f.acc \in pointers

(* What every state holds, besides IInv: the memory has no pointer that    *)
(* leads nowhere, and the slots an instruction or a frame names are there. *)
MInv ==
  /\ IsMemory(mem)
  /\ LoadedSound(packet) /\ SlotsInRange(packet)
  /\ Len(packet.mem) + 3 <= Len(mem)
  /\ val \in [Slots -> Pointers]
  /\ tags \in [Slots -> SUBSET TagBits]
  /\ tail \in [Slots -> Pointers]
  /\ Len(frames) <= MaxIterDepth
  /\ \A i \in 1 .. Len(frames) : FrameSound(frames[i], Slots, Pointers)
  /\ result \in Slots
  /\ status \in {"running", "done", "error"}

(* A step that leaves packet and frames alone and keeps the rest sound.    *)
Written ==
  /\ UNCHANGED <<packet, frames>>
  /\ IsMemory(mem') /\ Len(mem) <= Len(mem')
  /\ val' \in [Slots -> 0 .. Len(mem')]
  /\ tags' \in [Slots -> SUBSET TagBits]
  /\ tail' \in [Slots -> 0 .. Len(mem')]
  /\ result' \in Slots
  /\ status' \in {"running", "done", "error"}

LEMMA MemorySize == MInv => Len(mem) \in Nat /\ Len(packet.mem) \in Nat
<1> SUFFICES ASSUME MInv PROVE Len(mem) \in Nat /\ Len(packet.mem) \in Nat
  OBVIOUS
<1>1. Len(mem) \in Nat
  BY SequenceFact DEF MInv, IsMemory
<1>2. packet.mem \in Seq(LoadedCell(Len(packet.mem)))
  BY DEF MInv, LoadedSound
<1>3. QED
  BY <1>1, <1>2

LEMMA WrittenMInv == MInv /\ Written => MInv'
<1> SUFFICES ASSUME MInv, Written PROVE MInv'
  OBVIOUS
<1>1. Len(mem) \in Nat /\ Len(mem') \in Nat /\ Len(packet.mem) \in Nat
  <2>1. Len(mem') \in Nat
    BY SequenceFact DEF Written, IsMemory
  <2>2. QED
    BY <2>1, MemorySize
<1>2. UNCHANGED Slots
  BY DEF Written, Slots
<1>3. Pointers \subseteq Pointers' /\ Pointers' = 0 .. Len(mem')
  BY <1>1 DEF Written, Pointers
<1>4. \A i \in 1 .. Len(frames) : FrameSound(frames[i], Slots, Pointers)'
  BY <1>2, <1>3 DEF MInv, Written, FrameSound
<1>5. /\ val' \in [Slots' -> Pointers'] /\ tail' \in [Slots' -> Pointers']
      /\ tags' \in [Slots' -> SUBSET TagBits] /\ result' \in Slots'
  BY <1>2, <1>3 DEF Written
<1>6. Len(packet'.mem) + 3 <= Len(mem')
  <2>1. packet' = packet /\ Len(packet.mem) + 3 <= Len(mem) /\ Len(mem) <= Len(mem')
    BY DEF MInv, Written
  <2>2. QED
    BY <1>1, <2>1
<1>7. /\ LoadedSound(packet)' /\ SlotsInRange(packet)'
      /\ Len(frames') <= MaxIterDepth
      /\ \A i \in 1 .. Len(frames') : FrameSound(frames[i], Slots, Pointers)'
  BY <1>4 DEF MInv, Written, LoadedSound, SlotsInRange
<1>8. QED
  BY <1>5, <1>6, <1>7 DEF MInv, Written

------------------------------------------------------------------------------
(* What an instruction names and reads.                                    *)
LEMMA Named ==
  ASSUME IInv, MInv, status = "running", pc < Len(packet.code)
  PROVE  /\ ins.op \notin JumpTargetOps => d \in Slots
         /\ Reads(ins) \subseteq Slots
         /\ ins.o1 \in Nat /\ ins.o2 \in Nat /\ ins = packet.code[pc + 1]
         /\ pc + 1 \in DOMAIN packet.code
<1>1. pc + 1 \in DOMAIN packet.code /\ ins = packet.code[pc + 1]
  BY CurrentInstruction
<1>2. ins \in Instruction
  BY <1>1 DEF IInv
<1>3. QED
  BY <1>1, <1>2 DEF MInv, SlotsInRange, Slots, Instruction, d

LEMMA SlotHolds ==
  ASSUME MInv, NEW i \in Slots
  PROVE  val[i] \in 0 .. Len(mem) /\ tags[i] \in SUBSET TagBits /\ tail[i] \in 0 .. Len(mem)
  BY DEF MInv, Pointers

LEMMA Singletons ==
  ASSUME MInv
  PROVE  /\ ValNothing \in 0 .. Len(mem) /\ 0 \in 0 .. Len(mem)
         /\ \A b : Boolean(b) \in 0 .. Len(mem)
<1>1. Len(mem) \in Nat /\ Len(packet.mem) \in Nat /\ Len(packet.mem) + 3 <= Len(mem)
  BY MemorySize DEF MInv
<1>2. QED
  BY <1>1 DEF ValNothing, Boolean, ValTrue, ValFalse

LEMMA ConstantHolds ==
  ASSUME MInv, NEW i \in Nat
  PROVE  Constant(i) \in 0 .. Len(mem)
<1>1. /\ Len(mem) \in Nat /\ Len(packet.mem) \in Nat /\ Len(packet.mem) + 3 <= Len(mem)
      /\ packet.consts \in Seq(1 .. Len(packet.mem))
  BY MemorySize DEF MInv, LoadedSound
<1>2. i < Len(packet.consts) => packet.consts[i + 1] \in 1 .. Len(packet.mem)
  BY <1>1
<1>3. QED
  BY <1>1, <1>2 DEF Constant, NULL

LEMMA TagsHold ==
  /\ \A i : ConstantBits(i) \in SUBSET TagBits
  /\ \A t \in SUBSET TagBits : Propagated(t) \in SUBSET TagBits
<1>1. \A i : ConstantBits(i) \in SUBSET TagBits
  BY DEF ConstantBits, BitsOf
<1>2. QED
  BY <1>1 DEF Propagated

(* A pointer that is not NULL leads to a cell.                             *)
LEMMA HeldCell ==
  ASSUME MInv, NEW a \in 0 .. Len(mem), a # NULL
  PROVE  /\ a \in 1 .. Len(mem) /\ mem[a].kind \in Kinds /\ mem[a].n \in Int
         /\ mem[a].head \in 0 .. Len(mem) /\ mem[a].next \in 0 .. Len(mem)
<1>1. a \in 1 .. Len(mem) /\ IsMemory(mem)
  BY MemorySize DEF MInv, NULL
<1>2. QED
  BY <1>1, CellFact

------------------------------------------------------------------------------
(* The ways an instruction writes its destination.                         *)
LEMMA FailWritten == MInv /\ Fail => Written
<1> SUFFICES ASSUME MInv, Fail PROVE Written
  OBVIOUS
<1>1. Len(mem) <= Len(mem)
  BY MemorySize
<1>2. QED
  BY <1>1 DEF Fail, Written, MInv, Pointers

LEMMA GotoWritten == ASSUME MInv, NEW t, Goto(t) PROVE Written
<1>1. Len(mem) <= Len(mem)
  BY MemorySize
<1>2. QED
  BY <1>1 DEF Goto, Written, MInv, Pointers

LEMMA Assigned ==
  ASSUME MInv, NEW slot \in Slots, NEW a, NEW t \in SUBSET TagBits, Assign(slot, a, t),
         NEW size \in Nat, Len(mem) <= size, a \in 0 .. size
  PROVE  /\ val' \in [Slots -> 0 .. size]
         /\ tags' \in [Slots -> SUBSET TagBits]
         /\ result' \in Slots
<1>1. val \in [Slots -> 0 .. Len(mem)] /\ tags \in [Slots -> SUBSET TagBits]
  BY DEF MInv, Pointers
<1>2. 0 .. Len(mem) \subseteq 0 .. size
  BY MemorySize
<1>3. QED
  BY <1>1, <1>2 DEF Assign

LEMMA TailKept ==
  ASSUME MInv, NEW size \in Nat, Len(mem) <= size
  PROVE  tail \in [Slots -> 0 .. size]
<1>1. tail \in [Slots -> 0 .. Len(mem)]
  BY DEF MInv, Pointers
<1>2. 0 .. Len(mem) \subseteq 0 .. size
  BY MemorySize
<1>3. QED
  BY <1>1, <1>2

LEMMA PointWritten ==
  ASSUME MInv, d \in Slots, NEW a \in 0 .. Len(mem), NEW t \in SUBSET TagBits,
         Point(a, t)
  PROVE  Written
<1>1. Len(mem) \in Nat /\ Len(mem) <= Len(mem)
  BY MemorySize
<1>2. mem' = mem /\ UNCHANGED <<packet, frames, tail, status>> /\ Assign(d, a, t)
  BY DEF Point
<1>3. /\ val' \in [Slots -> 0 .. Len(mem)] /\ tags' \in [Slots -> SUBSET TagBits]
      /\ result' \in Slots
  BY <1>1, <1>2, Assigned
<1>4. QED
  BY <1>1, <1>2, <1>3, TailKept DEF Written, MInv

(* A cell added behind the memory, with what the slots hold then.          *)
LEMMA Added ==
  ASSUME MInv, NEW c, Loose(c, Len(mem))
  PROVE  /\ IsMemory(Append(mem, c)) /\ Len(Append(mem, c)) = Len(mem) + 1
         /\ Len(mem) + 1 \in Nat /\ Len(mem) <= Len(mem) + 1
         /\ Len(mem) + 1 \in 0 .. Len(mem) + 1
         /\ \A a \in 1 .. Len(mem) : Append(mem, c)[a] = mem[a]
<1>1. Len(mem) \in Nat /\ IsMemory(mem)
  BY MemorySize DEF MInv
<1>2. CellAt(c, Len(mem) + 1, Len(mem) + 1)
  BY <1>1, LooseCell
<1>3. QED
  BY <1>1, <1>2, GrownByOne

LEMMA StoreWritten ==
  ASSUME MInv, d \in Slots, NEW c, Loose(c, Len(mem)), NEW t \in SUBSET TagBits,
         Store(c, t)
  PROVE  Written
<1>1. /\ IsMemory(mem') /\ Len(mem') = Len(mem) + 1 /\ Len(mem) + 1 \in Nat
      /\ Len(mem) <= Len(mem) + 1 /\ Len(mem) + 1 \in 0 .. Len(mem) + 1
  BY Added DEF Store
<1>2. UNCHANGED <<packet, frames, tail, status>> /\ Assign(d, Len(mem) + 1, t)
  BY DEF Store
<1>3. /\ val' \in [Slots -> 0 .. Len(mem) + 1] /\ tags' \in [Slots -> SUBSET TagBits]
      /\ result' \in Slots
  BY <1>1, <1>2, Assigned
<1>4. tail' \in [Slots -> 0 .. Len(mem) + 1]
  BY <1>1, <1>2, TailKept
<1>5. QED
  BY <1>1, <1>2, <1>3, <1>4 DEF Written, MInv

LEMMA NewContainerWritten ==
  ASSUME MInv, d \in Slots, NEW c, Loose(c, Len(mem)), NewContainer(c)
  PROVE  Written
<1>1. /\ IsMemory(mem') /\ Len(mem') = Len(mem) + 1 /\ Len(mem) + 1 \in Nat
      /\ Len(mem) <= Len(mem) + 1 /\ Len(mem) + 1 \in 0 .. Len(mem) + 1
  BY Added DEF NewContainer
<1>2. /\ UNCHANGED <<packet, frames, status>> /\ Assign(d, Len(mem) + 1, {})
      /\ tail' = [tail EXCEPT ![d] = NULL]
  BY DEF NewContainer
<1>3. /\ val' \in [Slots -> 0 .. Len(mem) + 1] /\ tags' \in [Slots -> SUBSET TagBits]
      /\ result' \in Slots
  BY <1>1, <1>2, Assigned
<1>4. tail' \in [Slots -> 0 .. Len(mem) + 1]
  <2>1. tail \in [Slots -> 0 .. Len(mem) + 1]
    BY <1>1, TailKept
  <2>2. NULL \in 0 .. Len(mem) + 1
    BY <1>1 DEF NULL
  <2>3. QED
    BY <1>2, <2>1, <2>2
<1>5. QED
  BY <1>1, <1>2, <1>3, <1>4 DEF Written, MInv
------------------------------------------------------------------------------
(* Changing one pointer of a cell.                                         *)
LEMMA Relinked ==
  ASSUME NEW m, IsMemory(m), NEW a \in 1 .. Len(m), NEW b \in a + 1 .. Len(m)
  PROVE  /\ IsMemory([m EXCEPT ![a].next = b]) /\ Len([m EXCEPT ![a].next = b]) = Len(m)
<1> DEFINE c == [m[a] EXCEPT !.next = b]
<1>1. [m EXCEPT ![a].next = b] = [m EXCEPT ![a] = c]
  OBVIOUS
<1>2. CellAt(m[a], a, Len(m)) /\ Len(m) \in Nat
  BY CellFact
<1>3. CellAt(c, a, Len(m))
  <2>1. Len(m) <= Len(m)
    BY <1>2
  <2>2. QED
    BY <1>2, <2>1, RelinkedCell
<1> HIDE DEF c
<1>4. QED
  BY <1>1, <1>3, Changed

LEMMA Reheaded ==
  ASSUME NEW m, IsMemory(m), NEW a \in 1 .. Len(m), NEW b \in 0 .. Len(m)
  PROVE  /\ IsMemory([m EXCEPT ![a].head = b]) /\ Len([m EXCEPT ![a].head = b]) = Len(m)
<1> DEFINE c == [m[a] EXCEPT !.head = b]
<1>1. [m EXCEPT ![a].head = b] = [m EXCEPT ![a] = c]
  OBVIOUS
<1>2. CellAt(m[a], a, Len(m)) /\ Len(m) \in Nat
  BY CellFact
<1>3. CellAt(c, a, Len(m))
  BY <1>2, ReheadedCell
<1> HIDE DEF c
<1>4. QED
  BY <1>1, <1>3, Changed

(* A cell linked behind the container of slot d.                           *)
LEMMA LinkFreshSound ==
  ASSUME MInv, d \in Slots, val[d] # NULL, NEW c, Loose(c, Len(mem)), LinkFresh(c)
  PROVE  /\ IsMemory(mem') /\ Len(mem') = Len(mem) + 1
         /\ tail' \in [Slots -> 0 .. Len(mem) + 1]
<1> DEFINE n == Len(mem)  grown == Append(mem, c)
<1>1. n \in Nat /\ IsMemory(mem)
  BY MemorySize DEF MInv
<1>2. IsMemory(grown) /\ Len(grown) = n + 1
  BY Added
<1>3. /\ val[d] \in 1 .. n
      /\ tail[d] # NULL => tail[d] \in 1 .. n
  BY SlotHolds, HeldCell
<1>4. LinkFresh(c) <=>
        /\ IF tail[d] # NULL
           THEN mem' = [grown EXCEPT ![tail[d]].next = n + 1]
           ELSE IF mem[val[d]].head = NULL
           THEN mem' = [grown EXCEPT ![val[d]].head = n + 1]
           ELSE \E last \in LastOf(mem, mem[val[d]].head) :
                  mem' = [grown EXCEPT ![last].next = n + 1]
        /\ tail' = [tail EXCEPT ![d] = n + 1]
  BY DEF LinkFresh
<1>5. \A start : LastOf(mem, start) \subseteq 1 .. n
  BY DEF LastOf, Addr
<1> HIDE DEF grown, n
<1>6. \A a \in 1 .. n : a \in 1 .. n + 1 /\ n + 1 \in a + 1 .. n + 1 /\ n + 1 \in 0 .. n + 1
  BY <1>1
<1>7. ASSUME NEW a \in 1 .. n
      PROVE  /\ IsMemory([grown EXCEPT ![a].next = n + 1])
             /\ Len([grown EXCEPT ![a].next = n + 1]) = n + 1
             /\ IsMemory([grown EXCEPT ![a].head = n + 1])
             /\ Len([grown EXCEPT ![a].head = n + 1]) = n + 1
  <2>1. /\ a \in 1 .. Len(grown) /\ n + 1 \in a + 1 .. Len(grown)
        /\ n + 1 \in 0 .. Len(grown)
    BY <1>2, <1>6
  <2>2. /\ IsMemory([grown EXCEPT ![a].next = n + 1])
        /\ Len([grown EXCEPT ![a].next = n + 1]) = Len(grown)
    BY <1>2, <2>1, Relinked
  <2>3. /\ IsMemory([grown EXCEPT ![a].head = n + 1])
        /\ Len([grown EXCEPT ![a].head = n + 1]) = Len(grown)
    BY <1>2, <2>1, Reheaded
  <2>4. QED
    BY <1>2, <2>2, <2>3
<1>8. IsMemory(mem') /\ Len(mem') = n + 1
  <2>1. \E a \in 1 .. n : \/ mem' = [grown EXCEPT ![a].next = n + 1]
                         \/ mem' = [grown EXCEPT ![a].head = n + 1]
    BY <1>3, <1>4, <1>5
  <2>2. QED
    BY <1>7, <2>1
<1>9. tail' \in [Slots -> 0 .. n + 1]
  <2>1. tail \in [Slots -> 0 .. n + 1]
    <3>1. n + 1 \in Nat /\ Len(mem) <= n + 1
      BY <1>1 DEF n
    <3>2. QED
      BY <3>1, TailKept
  <2>2. n + 1 \in 0 .. n + 1
    BY <1>1
  <2>3. QED
    BY <1>4, <2>1, <2>2
<1>10. QED
  BY <1>8, <1>9 DEF n

LEMMA SetFieldWritten ==
  ASSUME MInv, d \in Slots, val[d] # NULL, ins.o2 \in Slots, NEW name, SetField(name)
  PROVE  Written
<1>1. /\ V2 \in 0 .. Len(mem) /\ tags[d] \cup tags[ins.o2] \in SUBSET TagBits
      /\ val[d] \in 0 .. Len(mem) /\ Len(mem) \in Nat /\ IsMemory(mem)
  BY SlotHolds, MemorySize DEF V2, MInv
<1>2. /\ UNCHANGED <<packet, frames, status>>
      /\ Assign(d, val[d], tags[d] \cup tags[ins.o2])
      /\ \/ \E f \in FieldNamed(mem, val[d], name) :
              mem' = [mem EXCEPT ![f].head = V2] /\ tail' = tail
         \/ LinkFresh(FieldCell(name, V2))
  BY DEF SetField
<1>3. CASE \E f \in FieldNamed(mem, val[d], name) :
              mem' = [mem EXCEPT ![f].head = V2] /\ tail' = tail
  <2>1. PICK f \in 1 .. Len(mem) : mem' = [mem EXCEPT ![f].head = V2] /\ tail' = tail
    BY <1>1, <1>3, FieldsFact
  <2>2. IsMemory(mem') /\ Len(mem') = Len(mem)
    BY <1>1, <2>1, Reheaded
  <2>3. Len(mem) <= Len(mem)
    BY <1>1
  <2>4. /\ val' \in [Slots -> 0 .. Len(mem)] /\ tags' \in [Slots -> SUBSET TagBits]
        /\ result' \in Slots /\ tail \in [Slots -> 0 .. Len(mem)]
    BY <1>1, <1>2, <2>3, Assigned, TailKept
  <2>5. QED
    BY <1>2, <2>1, <2>2, <2>3, <2>4 DEF Written, MInv
<1>4. CASE LinkFresh(FieldCell(name, V2))
  <2>1. Loose(FieldCell(name, V2), Len(mem))
    <3>1. "field" \in Kinds /\ 0 \in Int
      BY DEF Kinds
    <3>2. QED
      BY <1>1, <3>1, NewLooseCell DEF FieldCell
  <2>2. /\ IsMemory(mem') /\ Len(mem') = Len(mem) + 1
        /\ tail' \in [Slots -> 0 .. Len(mem) + 1]
    BY <1>4, <2>1, LinkFreshSound
  <2>3. /\ Len(mem) + 1 \in Nat /\ Len(mem) <= Len(mem) + 1
        /\ val[d] \in 0 .. Len(mem) + 1
    BY <1>1
  <2>4. /\ val' \in [Slots -> 0 .. Len(mem) + 1] /\ tags' \in [Slots -> SUBSET TagBits]
        /\ result' \in Slots
    BY <1>1, <1>2, <2>3, Assigned
  <2>5. QED
    BY <1>2, <2>2, <2>3, <2>4 DEF Written, MInv
<1>5. QED
  BY <1>2, <1>3, <1>4

LEMMA GetFieldWritten ==
  ASSUME MInv, d \in Slots, ins.o1 \in Slots, NEW key, GetField(key)
  PROVE  Written
<1>1. V1 \in 0 .. Len(mem) /\ tags[ins.o1] \in SUBSET TagBits /\ IsMemory(mem)
  BY SlotHolds DEF V1, MInv
<1>2. \/ Point(ValNothing, {})
      \/ \E f \in FieldNamed(mem, V1, mem[key].s) : Point(mem[f].head, tags[ins.o1])
  BY DEF GetField
<1>3. CASE Point(ValNothing, {})
  BY <1>3, Singletons, PointWritten
<1>4. CASE \E f \in FieldNamed(mem, V1, mem[key].s) : Point(mem[f].head, tags[ins.o1])
  <2>1. PICK f \in 1 .. Len(mem) : Point(mem[f].head, tags[ins.o1])
    BY <1>1, <1>4, FieldsFact
  <2>2. mem[f].head \in 0 .. Len(mem)
    BY <1>1, CellFact
  <2>3. QED
    BY <1>1, <2>1, <2>2, PointWritten
<1>5. QED
  BY <1>2, <1>3, <1>4

(* Cells added behind the memory, one of which, or one that was there, is  *)
(* the value.                                                              *)
LEMMA AnswerWritten ==
  ASSUME MInv, d \in Slots, ins.o2 \in Slots, NEW r, Sound(mem, r), Answer(r)
  PROVE  Written
<1> DEFINE size == Len(mem) + Len(r.cells)
<1>1. /\ IsMemory(mem') /\ Len(mem') = size /\ size \in Nat /\ Len(mem) <= size
  <2>1. IsMemory(mem) /\ Fit(mem, r.cells) /\ mem' = mem \o r.cells
    BY DEF MInv, Sound, Answer
  <2>2. /\ IsMemory(mem') /\ Len(mem') = size /\ Len(mem) \in Nat /\ Len(r.cells) \in Nat
    BY <2>1, Grown DEF Fit
  <2>3. QED
    BY <2>2
<1>2. r.at \in 0 .. size
  BY DEF Sound
<1> HIDE DEF size
<1>3. /\ UNCHANGED <<packet, frames, tail, status>>
      /\ Assign(d, r.at, Propagated(tags[ins.o2]))
      /\ Propagated(tags[ins.o2]) \in SUBSET TagBits
  BY SlotHolds, TagsHold DEF Answer
<1>4. /\ val' \in [Slots -> 0 .. size] /\ tags' \in [Slots -> SUBSET TagBits]
      /\ result' \in Slots /\ tail \in [Slots -> 0 .. size]
  BY <1>1, <1>2, <1>3, Assigned, TailKept
<1>5. QED
  BY <1>1, <1>3, <1>4 DEF Written, MInv
------------------------------------------------------------------------------
(* Instructions that compute a value.                                      *)
LEMMA Operand1 ==
  ASSUME IInv, MInv, NEW op, Fetched(op),
         op \in {"LOAD_FIELD", "COPY", "NEGATE", "NOT", "TO_STRING", "TO_INT",
                 "TO_FLOAT", "TO_BOOL", "LIST_LENGTH", "ITER_SETUP", "TAG_CHECK",
                 "RECORD_GET_C"} \cup DOMAIN TypeTests
  PROVE  d \in Slots /\ ins.o1 \in Slots /\ V1 \in 0 .. Len(mem)
         /\ tags[ins.o1] \in SUBSET TagBits
<1>1. /\ ins.op \notin JumpTargetOps => d \in Slots
      /\ Reads(ins) \subseteq Slots
  BY Named DEF Fetched
<1>2. ins.op = op
  BY DEF Fetched
<1>3. ins.op \notin JumpTargetOps /\ ins.o1 \in Reads(ins)
  BY <1>2 DEF JumpTargetOps, JumpOps, Reads, TypeTests
<1>4. QED
  BY <1>1, <1>3, SlotHolds DEF V1

LEMMA Operands2 ==
  ASSUME IInv, MInv, NEW op, Fetched(op),
         op \in Operations \cup {"EQ", "NEQ", "LT", "GT", "LTE", "GTE", "AND", "OR",
                                 "STR_CONCAT", "COALESCE", "RECORD_GET",
                                 "RECORD_HAS", "LIST_GET"}
  PROVE  /\ d \in Slots /\ ins.o1 \in Slots /\ ins.o2 \in Slots
         /\ V1 \in 0 .. Len(mem) /\ V2 \in 0 .. Len(mem)
         /\ tags[ins.o1] \in SUBSET TagBits /\ tags[ins.o2] \in SUBSET TagBits
         /\ Propagated(OperandTags) \in SUBSET TagBits
<1>1. /\ ins.op \notin JumpTargetOps => d \in Slots
      /\ Reads(ins) \subseteq Slots
  BY Named DEF Fetched
<1>2. ins.op = op
  BY DEF Fetched
<1>3. ins.op \notin JumpTargetOps /\ ins.o1 \in Reads(ins) /\ ins.o2 \in Reads(ins)
  BY <1>2 DEF JumpTargetOps, JumpOps, Reads, TypeTests, Operations
<1>4. /\ d \in Slots /\ ins.o1 \in Slots /\ ins.o2 \in Slots
      /\ V1 \in 0 .. Len(mem) /\ V2 \in 0 .. Len(mem)
      /\ tags[ins.o1] \in SUBSET TagBits /\ tags[ins.o2] \in SUBSET TagBits
  BY <1>1, <1>3, SlotHolds DEF V1, V2
<1>5. OperandTags \in SUBSET TagBits
  BY <1>4 DEF OperandTags
<1>6. QED
  BY <1>4, <1>5, TagsHold

LEMMA DestinationOnly ==
  ASSUME IInv, MInv, NEW op, Fetched(op), op \notin JumpTargetOps
  PROVE  d \in Slots /\ ins.o1 \in Nat /\ ins.o2 \in Nat
<1>1. /\ ins.op \notin JumpTargetOps => d \in Slots
      /\ ins.o1 \in Nat /\ ins.o2 \in Nat
  BY Named DEF Fetched
<1>2. QED
  BY <1>1 DEF Fetched

LEMMA PointBoolean ==
  ASSUME MInv, d \in Slots, NEW b, Point(Boolean(b), {})
  PROVE  Written
  BY Singletons, PointWritten

LEMMA StoreScalar ==
  ASSUME MInv
  PROVE  /\ \A kind \in Kinds, n \in Int : Loose(Cell(kind, n, "", NULL), Len(mem))
         /\ \A n \in Int : Loose(IntegerCell(n), Len(mem)) /\ Loose(FloatCell(n), Len(mem))
         /\ \A s : Loose(StringCell(s), Len(mem))
<1>1. Len(mem) \in Nat /\ NULL \in 0 .. Len(mem) /\ 0 \in Int
      /\ {"integer", "float", "string"} \subseteq Kinds
  BY MemorySize DEF NULL, Kinds
<1>2. QED
  BY <1>1, NewLooseCell DEF IntegerCell, FloatCell, StringCell

LEMMA ScalarsWritten == IInv /\ MInv /\ Scalars => Written
<1> SUFFICES ASSUME IInv, MInv, Scalars PROVE Written
  OBVIOUS
<1> USE FailWritten
<1>1. CASE LoadConst \/ LoadNothing
  <2>1. CASE LoadConst
    <3>1. d \in Slots /\ Constant(ins.o1) \in 0 .. Len(mem)
      BY <2>1, DestinationOnly, ConstantHolds DEF LoadConst, JumpTargetOps, JumpOps
    <3>2. QED
      BY <2>1, <3>1, PointWritten DEF LoadConst
  <2>2. CASE LoadNothing
    <3>1. d \in Slots
      BY <2>2, DestinationOnly DEF LoadNothing, JumpTargetOps, JumpOps
    <3>2. QED
      BY <2>2, <3>1, Singletons, PointWritten DEF LoadNothing
  <2>3. QED
    BY <1>1, <2>1, <2>2
<1>2. CASE LoadField \/ Copy
  BY <1>2, Operand1, PointWritten DEF LoadField, Copy
<1>3. CASE ArithmeticStep
  <2>1. PICK op \in Operations :
          /\ Fetched(op)
          /\ IF V1 = NULL \/ V2 = NULL THEN Fail
             ELSE IF ArithmeticFails(op, mem[V1], mem[V2]) THEN Fail
             ELSE Store(Arithmetic(op, mem[V1], mem[V2]), Propagated(OperandTags))
    BY <1>3 DEF ArithmeticStep, Operations
  <2>2. /\ d \in Slots /\ V1 \in 0 .. Len(mem) /\ V2 \in 0 .. Len(mem)
        /\ Propagated(OperandTags) \in SUBSET TagBits
    BY <2>1, Operands2
  <2>3. CASE /\ V1 # NULL /\ V2 # NULL /\ ~ArithmeticFails(op, mem[V1], mem[V2])
    <3>1. mem[V1].n \in Int /\ mem[V2].n \in Int
      BY <2>2, <2>3, HeldCell
    <3>2. Loose(Arithmetic(op, mem[V1], mem[V2]), Len(mem))
      BY <2>3, <3>1, ArithmeticCell, MemorySize
    <3>3. QED
      BY <2>1, <2>2, <2>3, <3>2, StoreWritten
  <2>4. QED
    BY <2>1, <2>3
<1>4. CASE Negate
  <2>1. d \in Slots /\ V1 \in 0 .. Len(mem) /\ tags[ins.o1] \in SUBSET TagBits
    BY <1>4, Operand1 DEF Negate
  <2>2. CASE V1 # NULL
    <3>1. mem[V1].kind \in Kinds /\ -mem[V1].n \in Int
      BY <2>1, <2>2, HeldCell
    <3>2. Loose(Cell(mem[V1].kind, -mem[V1].n, "", NULL), Len(mem))
      BY <3>1, StoreScalar
    <3>3. QED
      BY <1>4, <2>1, <3>2, StoreWritten DEF Negate
  <2>3. QED
    BY <1>4, <2>2 DEF Negate
<1>5. CASE Equality
  BY <1>5, Operands2, PointBoolean DEF Equality
<1>6. CASE Ordering
  <2>1. PICK op \in {"LT", "GT", "LTE", "GTE"} :
          Fetched(op) /\ (Fail \/ \E b : Point(Boolean(b), {}))
    BY <1>6 DEF Ordering
  <2>2. QED
    BY <2>1, Operands2, PointBoolean
<1>7. CASE Connective
  <2>1. PICK op \in {"AND", "OR"} :
          Fetched(op) /\ (Fail \/ \E b : Point(Boolean(b), {}))
    BY <1>7 DEF Connective
  <2>2. QED
    BY <2>1, Operands2, PointBoolean
<1>8. CASE Not
  BY <1>8, Operand1, PointBoolean DEF Not
<1>9. CASE StrConcat
  BY <1>9, Operands2, StoreScalar, StoreWritten DEF StrConcat
<1>10. CASE TypeTest
  <2>1. PICK op \in DOMAIN TypeTests : Fetched(op) /\ \E b : Point(Boolean(b), {})
    BY <1>10 DEF TypeTest
  <2>2. QED
    BY <2>1, Operand1, PointBoolean
<1>11. CASE ToStringOp
  BY <1>11, Operand1, StoreScalar, StoreWritten DEF ToStringOp
<1>12. CASE ToInt
  <2>1. d \in Slots /\ V1 \in 0 .. Len(mem) /\ tags[ins.o1] \in SUBSET TagBits
    BY <1>12, Operand1 DEF ToInt
  <2>2. CASE KindAt(mem, V1) \in {"integer", "float", "string", "boolean"}
    <3>1. mem[V1].n \in Int
      <4>1. V1 # NULL
        BY <2>2 DEF KindAt
      <4>2. QED
        BY <2>1, <4>1, HeldCell
    <3>2. CDiv(mem[V1].n, 2) \in Int /\ ParseInteger(mem[V1].s) \in Int
      BY <3>1, Halved, ParsedNumbers
    <3>3. \E n \in Int : Store(IntegerCell(n), tags[ins.o1])
      BY <1>12, <2>2, <3>1, <3>2 DEF ToInt
    <3>4. QED
      BY <2>1, <3>3, StoreScalar, StoreWritten
  <2>3. QED
    BY <1>12, <2>2 DEF ToInt
<1>13. CASE ToFloat
  <2>1. d \in Slots /\ V1 \in 0 .. Len(mem) /\ tags[ins.o1] \in SUBSET TagBits
    BY <1>13, Operand1 DEF ToFloat
  <2>2. CASE KindAt(mem, V1) \in {"integer", "float", "string"}
    <3>1. mem[V1].n \in Int
      <4>1. V1 # NULL
        BY <2>2 DEF KindAt
      <4>2. QED
        BY <2>1, <4>1, HeldCell
    <3>2. ToDouble(mem[V1]) \in Int /\ ParseHalves(mem[V1].s) \in Int
      BY <3>1, ParsedNumbers DEF ToDouble
    <3>3. \E n \in Int : Store(FloatCell(n), tags[ins.o1])
      BY <1>13, <2>2, <3>2 DEF ToFloat
    <3>4. QED
      BY <2>1, <3>3, StoreScalar, StoreWritten
  <2>3. QED
    BY <1>13, <2>2 DEF ToFloat
<1>14. CASE ToBool
  BY <1>14, Operand1, PointBoolean DEF ToBool
<1>15. QED
  BY <1>1, <1>2, <1>3, <1>4, <1>5, <1>6, <1>7, <1>8, <1>9, <1>10, <1>11, <1>12,
     <1>13, <1>14 DEF Scalars
------------------------------------------------------------------------------
(* Instructions on records and lists.                                      *)
LEMMA ContainerOperands ==
  ASSUME IInv, MInv, NEW op, Fetched(op)
  PROVE  /\ op \in {"RECORD_SET", "RECORD_SET_C", "RECORD_NEW_SET_C"} =>
              d \in Slots /\ ins.o1 \in Nat /\ ins.o2 \in Slots
         /\ op = "LIST_APPEND" => d \in Slots /\ ins.o1 \in Slots
<1>1. /\ ins.op \notin JumpTargetOps => d \in Slots
      /\ Reads(ins) \subseteq Slots /\ ins.op = op /\ ins.o1 \in Nat
  BY Named DEF Fetched
<1>2. op \in {"RECORD_SET", "RECORD_SET_C", "RECORD_NEW_SET_C"} =>
        ins.op \notin JumpTargetOps /\ ins.o2 \in Reads(ins)
  BY <1>1 DEF JumpTargetOps, JumpOps, Reads, TypeTests
<1>3. op = "LIST_APPEND" => ins.op \notin JumpTargetOps /\ ins.o1 \in Reads(ins)
  BY <1>1 DEF JumpTargetOps, JumpOps, Reads, TypeTests
<1>4. QED
  BY <1>1, <1>2, <1>3

LEMMA EmptyContainers ==
  ASSUME MInv
  PROVE  /\ \A a \in 0 .. Len(mem) : Loose(RecordCell(a), Len(mem)) /\ Loose(ListCell(a), Len(mem))
         /\ NULL \in 0 .. Len(mem)
<1>1. Len(mem) \in Nat /\ NULL \in 0 .. Len(mem) /\ 0 \in Int
      /\ {"record", "list"} \subseteq Kinds
  BY MemorySize DEF NULL, Kinds
<1>2. QED
  BY <1>1, NewLooseCell DEF RecordCell, ListCell

LEMMA ListAppendWritten == IInv /\ MInv /\ ListAppend => Written
<1> SUFFICES ASSUME IInv, MInv, ListAppend PROVE Written
  OBVIOUS
<1>1. CASE Fail
  BY <1>1, FailWritten
<1>2. CASE ~Fail
  <2>1. /\ KindAt(mem, val[d]) = "list" /\ LinkFresh(CopyCell(mem, V1))
        /\ Assign(d, val[d], tags[d] \cup tags[ins.o1])
        /\ UNCHANGED <<packet, frames, status>> /\ Fetched("LIST_APPEND")
    BY <1>2 DEF ListAppend
  <2>2. d \in Slots /\ ins.o1 \in Slots /\ Len(mem) \in Nat
    BY <2>1, ContainerOperands, MemorySize
  <2>3. /\ V1 \in 0 .. Len(mem) /\ tags[d] \cup tags[ins.o1] \in SUBSET TagBits
        /\ val[d] \in 0 .. Len(mem)
    BY <2>2, SlotHolds DEF V1
  <2>4. Loose(CopyCell(mem, V1), Len(mem)) /\ val[d] # NULL
    BY <2>1, <2>3, CopiedCell DEF MInv, KindAt
  <2>5. /\ IsMemory(mem') /\ Len(mem') = Len(mem) + 1
        /\ tail' \in [Slots -> 0 .. Len(mem) + 1]
    BY <2>1, <2>2, <2>4, LinkFreshSound
  <2>6. /\ Len(mem) + 1 \in Nat /\ Len(mem) <= Len(mem) + 1
        /\ val[d] \in 0 .. Len(mem) + 1
    BY <2>2, <2>3
  <2>7. /\ val' \in [Slots -> 0 .. Len(mem) + 1] /\ tags' \in [Slots -> SUBSET TagBits]
        /\ result' \in Slots
    BY <2>1, <2>2, <2>3, <2>6, Assigned
  <2>8. QED
    BY <2>1, <2>5, <2>6, <2>7 DEF Written, MInv
<1>3. QED
  BY <1>1, <1>2

LEMMA RecordNewSetCWritten == IInv /\ MInv /\ RecordNewSetC => Written
<1> SUFFICES ASSUME IInv, MInv, RecordNewSetC PROVE Written
  OBVIOUS
<1> DEFINE n == Len(mem)
<1>1. CASE Fail
  BY <1>1, FailWritten
<1>2. CASE ~Fail
  <2>1. PICK name : mem' = mem \o <<FieldCell(name, V2), RecordCell(n + 1)>>
    BY <1>2 DEF RecordNewSetC
  <2>2. /\ Assign(d, n + 2, tags[ins.o2]) /\ tail' = [tail EXCEPT ![d] = n + 1]
        /\ UNCHANGED <<packet, frames, status>> /\ Fetched("RECORD_NEW_SET_C")
    <3>1. n + 1 + 1 = n + 2
      BY MemorySize
    <3>2. QED
      BY <1>2, <3>1 DEF RecordNewSetC
  <2>3. d \in Slots /\ ins.o2 \in Slots /\ n \in Nat /\ IsMemory(mem)
    BY <2>2, ContainerOperands, MemorySize DEF MInv
  <2>4. V2 \in 0 .. n /\ tags[ins.o2] \in SUBSET TagBits
    BY <2>3, SlotHolds DEF V2
  <2> DEFINE f == FieldCell(name, V2)  r == RecordCell(n + 1)  cells == <<f, r>>
  <2> HIDE DEF n
  <2>5. Loose(f, n) /\ Loose(r, n + 1)
    <3>1. {"field", "record"} \subseteq Kinds /\ 0 \in Int /\ n + 1 \in Nat
          /\ n + 1 \in 0 .. n + 1
      BY <2>3 DEF Kinds
    <3>2. QED
      BY <2>3, <2>4, <3>1, NewLooseCell DEF FieldCell, RecordCell
  <2> HIDE DEF f, r
  <2>6. CellAt(f, n + 1, n + 2) /\ CellAt(r, n + 2, n + 2)
    <3>1. n + 1 \in Nat /\ n + 2 \in Nat /\ n <= n + 2 /\ n + 1 <= n + 2
      BY <2>3
    <3>2. QED
      BY <2>3, <2>5, <3>1, LooseCell
  <2>7. /\ cells \in Seq({f, r}) /\ Len(cells) = 2 /\ cells[1] = f /\ cells[2] = r
        /\ \A i \in 1 .. 2 : i = 1 \/ i = 2
    OBVIOUS
  <2> HIDE DEF cells
  <2>8. Fit(mem, cells)
    BY <2>6, <2>7 DEF Fit, IsSequence, n
  <2>9. IsMemory(mem') /\ Len(mem') = n + 2
    <3>1. /\ IsMemory(mem \o cells) /\ Len(mem \o cells) = Len(mem) + Len(cells)
      <4>1. /\ IsSequence(cells)
            /\ \A i \in 1 .. Len(cells) :
                 CellAt(cells[i], Len(mem) + i, Len(mem) + Len(cells))
        BY <2>8 DEF Fit
      <4>2. QED
        BY <2>3, <4>1, Grown
    <3>2. mem' = mem \o cells
      BY <2>1 DEF n, cells, f, r
    <3>3. QED
      BY <2>7, <3>1, <3>2 DEF n
  <2>10. n + 2 \in Nat /\ Len(mem) <= n + 2 /\ n + 2 \in 0 .. n + 2 /\ n + 1 \in 0 .. n + 2
    BY <2>3 DEF n
  <2>11. /\ val' \in [Slots -> 0 .. n + 2] /\ tags' \in [Slots -> SUBSET TagBits]
         /\ result' \in Slots
    BY <2>2, <2>3, <2>4, <2>10, Assigned
  <2>12. tail' \in [Slots -> 0 .. n + 2]
    <3>1. tail \in [Slots -> 0 .. n + 2]
      BY <2>10, TailKept
    <3>2. QED
      BY <2>2, <2>10, <3>1
  <2>13. QED
    BY <2>2, <2>9, <2>10, <2>11, <2>12 DEF Written, MInv
<1>3. QED
  BY <1>1, <1>2

LEMMA ContainersWritten == IInv /\ MInv /\ Containers => Written
<1> SUFFICES ASSUME IInv, MInv, Containers PROVE Written
  OBVIOUS
<1> USE FailWritten
<1>1. CASE RecordNew \/ ListNew
  <2>1. d \in Slots
    BY <1>1, DestinationOnly DEF RecordNew, ListNew, JumpTargetOps, JumpOps
  <2>2. QED
    BY <1>1, <2>1, EmptyContainers, NewContainerWritten DEF RecordNew, ListNew
<1>2. CASE RecordSet \/ RecordSetC
  <2>1. d \in Slots /\ ins.o2 \in Slots
    BY <1>2, ContainerOperands DEF RecordSet, RecordSetC
  <2>2. Fail \/ (val[d] # NULL /\ \E name : SetField(name))
    BY <1>2 DEF RecordSet, RecordSetC, KindAt
  <2>3. QED
    BY <2>1, <2>2, SetFieldWritten
<1>3. CASE RecordGet
  BY <1>3, Operands2, GetFieldWritten DEF RecordGet
<1>4. CASE RecordGetC
  BY <1>4, Operand1, GetFieldWritten DEF RecordGetC
<1>5. CASE RecordHas
  BY <1>5, Operands2, PointBoolean DEF RecordHas
<1>6. CASE ListAppend
  BY <1>6, ListAppendWritten
<1>7. CASE ListGet
  <2>1. d \in Slots /\ tags[ins.o1] \in SUBSET TagBits
    BY <1>7, Operands2 DEF ListGet
  <2>2. \/ Fail \/ Point(ValNothing, {})
        \/ \E e \in 1 .. Len(mem) : Point(e, tags[ins.o1])
    BY <1>7 DEF ListGet, ElementAt, Addr
  <2>3. \A e \in 1 .. Len(mem) : e \in 0 .. Len(mem)
    BY MemorySize
  <2>4. QED
    BY <2>1, <2>2, <2>3, Singletons, PointWritten
<1>8. CASE ListLength
  <2>1. d \in Slots /\ V1 \in 0 .. Len(mem)
    BY <1>8, Operand1 DEF ListLength
  <2>2. KindAt(mem, V1) = "list" => Len(Members(mem, V1)) \in Int
    <3>1. IsMemory(mem)
      BY DEF MInv
    <3>2. KindAt(mem, V1) = "list" => Members(mem, V1) \in Seq(1 .. Len(mem))
      BY <2>1, <3>1, KindFact, MembersFact
    <3>3. QED
      BY <3>2
  <2>3. \E n \in Int : Store(IntegerCell(n), {})
    BY <1>8, <2>2 DEF ListLength
  <2>4. QED
    BY <2>1, <2>3, StoreScalar, StoreWritten
<1>9. CASE RecordNewSetC
  BY <1>9, RecordNewSetCWritten
<1>10. QED
  BY <1>1, <1>2, <1>3, <1>4, <1>5, <1>6, <1>7, <1>8, <1>9 DEF Containers

------------------------------------------------------------------------------
(* Library calls, tags and sources.                                        *)
LEMMA ArgumentsHold ==
  ASSUME MInv, ins.o2 \in Slots
  PROVE  Arguments \in [Library!ArgNames -> 0 .. Len(mem)]
<1>1. V2 \in 0 .. Len(mem) /\ IsMemory(mem) /\ NULL \in 0 .. Len(mem)
  BY SlotHolds, MemorySize DEF V2, MInv, NULL
<1>2. ASSUME NEW name PROVE Argument(name) \in 0 .. Len(mem)
  <2>1. FieldNamed(mem, V2, name) \subseteq 1 .. Len(mem)
    BY <1>1, FieldsFact
  <2>2. FieldNamed(mem, V2, name) # {} =>
          mem[CHOOSE f \in FieldNamed(mem, V2, name) : TRUE].head \in 0 .. Len(mem)
    BY <1>1, <2>1, CellFact
  <2>3. QED
    BY <1>1, <2>2 DEF Argument
<1>3. QED
  BY <1>2 DEF Arguments

LEMMA CallLibraryWritten ==
  ASSUME MInv, d \in Slots, ins.o2 \in Slots, CallLibrary
  PROVE  Written
<1>1. /\ V2 \in 0 .. Len(mem) /\ Propagated(tags[ins.o2]) \in SUBSET TagBits
      /\ IsMemory(mem)
  BY SlotHolds, TagsHold DEF V2, MInv
<1>2. \/ Point(IF V2 = NULL THEN ValNothing ELSE V2, Propagated(tags[ins.o2]))
      \/ \E f : CallFunction(f)
      \/ Fail
      \/ \E n : Store(StringCell(n), Propagated(tags[ins.o2]))
  BY DEF CallLibrary
<1>3. CASE \E f : CallFunction(f)
  <2>1. PICK f : CallFunction(f)
    BY <1>3
  <2>2. Fail \/ \E r \in Library!Call(f, mem, Arguments) : Answer(r)
    BY <2>1 DEF CallFunction
  <2>3. \A r \in Library!Call(f, mem, Arguments) : Sound(mem, r)
    BY <1>1, ArgumentsHold, CallSound
  <2>4. QED
    BY <2>2, <2>3, AnswerWritten, FailWritten
<1>4. CASE Point(IF V2 = NULL THEN ValNothing ELSE V2, Propagated(tags[ins.o2]))
  BY <1>1, <1>4, Singletons, PointWritten
<1>5. CASE \E n : Store(StringCell(n), Propagated(tags[ins.o2]))
  BY <1>1, <1>5, StoreScalar, StoreWritten
<1>6. QED
  BY <1>2, <1>3, <1>4, <1>5, FailWritten

LEMMA ExternalWritten == IInv /\ MInv /\ External => Written
<1> SUFFICES ASSUME IInv, MInv, External PROVE Written
  OBVIOUS
<1>1. CASE StdlibCall \/ StdlibCall1
  <2>1. PICK op \in {"STDLIB_CALL", "STDLIB_CALL_1"} : Fetched(op) /\ CallLibrary
    BY <1>1 DEF StdlibCall, StdlibCall1
  <2>2. d \in Slots /\ ins.o2 \in Slots
    <3>1. /\ ins.op \notin JumpTargetOps => d \in Slots
          /\ Reads(ins) \subseteq Slots /\ ins.op = op
      BY <2>1, Named DEF Fetched
    <3>2. ins.op \notin JumpTargetOps /\ ins.o2 \in Reads(ins)
      BY <3>1 DEF JumpTargetOps, JumpOps, Reads, TypeTests
    <3>3. QED
      BY <3>1, <3>2
  <2>3. QED
    BY <2>1, <2>2, CallLibraryWritten
<1>2. CASE TagSet
  <2>1. d \in Slots
    BY <1>2, DestinationOnly DEF TagSet, JumpTargetOps, JumpOps
  <2>2. val[d] \in 0 .. Len(mem) /\ tags[d] \cup ConstantBits(ins.o1) \in SUBSET TagBits
    <3>1. val[d] \in 0 .. Len(mem) /\ tags[d] \in SUBSET TagBits
      BY <2>1, SlotHolds
    <3>2. ConstantBits(ins.o1) \in SUBSET TagBits
      BY TagsHold
    <3>3. QED
      BY <3>1, <3>2
  <2>3. QED
    BY <1>2, <2>1, <2>2, PointWritten DEF TagSet
<1>3. CASE TagCheck
  BY <1>3, Operand1, PointBoolean DEF TagCheck
<1>4. CASE SourceLookup
  <2>1. d \in Slots
    BY <1>4, DestinationOnly DEF SourceLookup, JumpTargetOps, JumpOps
  <2>2. Point(ValNothing, {}) \/ \E a \in 1 .. Len(mem) : Point(a, {})
    BY <1>4 DEF SourceLookup, LookupIn, Addr
  <2>3. \A a \in 1 .. Len(mem) : a \in 0 .. Len(mem)
    BY MemorySize
  <2>4. QED
    BY <2>1, <2>2, <2>3, Singletons, PointWritten
<1>5. QED
  BY <1>1, <1>2, <1>3, <1>4 DEF External

LEMMA JumpingWritten == IInv /\ MInv /\ (Jumping \/ Coalesce \/ UnknownOpcode) => Written
<1> SUFFICES ASSUME IInv, MInv, Jumping \/ Coalesce \/ UnknownOpcode PROVE Written
  OBVIOUS
<1>1. CASE Jumping
  <2>1. Fail \/ \E t : Goto(t)
    BY <1>1 DEF Jumping, Jump, JumpIf, JumpIfNot, CmpJumpEqual, CmpJumpOrder,
                IsNothingJump
  <2>2. QED
    BY <2>1, FailWritten, GotoWritten
<1>2. CASE Coalesce
  BY <1>2, Operands2, PointWritten DEF Coalesce
<1>3. CASE UnknownOpcode
  BY <1>3, FailWritten DEF UnknownOpcode
<1>4. QED
  BY <1>1, <1>2, <1>3
------------------------------------------------------------------------------
(* Loops.  The ITER_COLLECT that closes a loop names slots, too.           *)
LEMMA CollectorNames ==
  ASSUME IInv, MInv, Fetched("ITER_SETUP"), CollectPc < Len(packet.code),
         Collector.op = "ITER_COLLECT"
  PROVE  /\ Collector.dest \in Slots /\ Collector.o1 \in Slots
         /\ ins.mode = "filter" => Collector.o2 \in Slots
<1> DEFINE code == packet.code  i == pc + 1
<1>1. /\ i \in DOMAIN code /\ ins = code[i] /\ ins.o2 \in Nat /\ code \in Seq(Instruction)
      /\ pc \in Nat /\ ins.op = "ITER_SETUP"
  BY Named DEF Fetched, IInv
<1>2. CollectPc + 1 = i + 1 + code[i].o2 /\ CollectPc + 1 \in DOMAIN code
  <2>1. CollectPc = i + ins.o2 /\ CollectPc < Len(code)
    BY DEF CollectPc
  <2>2. i \in Nat /\ Len(code) \in Nat /\ DOMAIN code = 1 .. Len(code)
    BY <1>1
  <2> HIDE DEF code, i
  <2>3. QED
    BY <1>1, <2>1, <2>2
<1>3. i \in Setups(code)
  BY <1>1 DEF Setups
<1>4. Collector = code[i + 1 + code[i].o2]
  BY <1>2 DEF Collector
<1>5. CollectReads(ins, Collector) \subseteq Slots
  BY <1>1, <1>3, <1>4 DEF MInv, SlotsInRange, Slots
<1>6. Collector.dest \in Slots
  BY <1>2 DEF MInv, SlotsInRange, Slots, Collector, JumpTargetOps, JumpOps
<1>7. QED
  BY <1>5, <1>6 DEF CollectReads

LEMMA SetupMInv == IInv /\ MInv /\ IterSetup => MInv'
<1> SUFFICES ASSUME IInv, MInv, IterSetup PROVE MInv'
  OBVIOUS
<1>1. CASE Fail
  BY <1>1, FailWritten, WrittenMInv
<1>2. CASE ~Fail
  <2>1. /\ Fetched("ITER_SETUP") /\ KindAt(mem, V1) = "list"
        /\ CollectPc < Len(packet.code) /\ Collector.op = "ITER_COLLECT"
        /\ \/ IterEmpty
           \/ mem[V1].head # NULL /\ ~(Len(frames) >= MaxIterDepth) /\ IterPush
    <3>1. /\ Fetched("ITER_SETUP") /\ KindAt(mem, V1) = "list"
          /\ ~(CollectPc >= Len(packet.code)) /\ Collector.op = "ITER_COLLECT"
          /\ \/ IterEmpty
             \/ mem[V1].head # NULL /\ ~(Len(frames) >= MaxIterDepth) /\ IterPush
      BY <1>2, Zenon DEF IterSetup
    <3>2. CollectPc \in Nat /\ Len(packet.code) \in Nat
      <4>1. ins.o2 \in Nat /\ pc \in Nat /\ packet.code \in Seq(Instruction)
        BY <3>1, Named DEF Fetched, IInv
      <4>2. QED
        BY <4>1 DEF CollectPc
    <3>3. QED
      BY <3>1, <3>2
  <2>2. /\ Collector.dest \in Slots /\ Collector.o1 \in Slots
        /\ ins.mode = "filter" => Collector.o2 \in Slots
    BY <2>1, CollectorNames
  <2>3. /\ d \in Slots /\ ins.o1 \in Slots /\ V1 \in 0 .. Len(mem)
        /\ tags[ins.o1] \in SUBSET TagBits
    BY <2>1, Operand1
  <2>4. /\ Len(mem) \in Nat /\ NULL \in 0 .. Len(mem) /\ V1 # NULL
        /\ val[Collector.o1] \in 0 .. Len(mem)
    BY <2>1, <2>2, MemorySize, SlotHolds DEF KindAt, NULL
  <2>5. CASE IterEmpty
    <3>1. UNCHANGED <<packet, tail, frames, status>>
      BY <2>5 DEF IterEmpty
    <3>2. CASE Assign(Collector.dest, val[Collector.o1], {}) /\ mem' = mem
      <4>1. Len(mem) <= Len(mem) /\ {} \in SUBSET TagBits
        BY <2>4
      <4>2. /\ val' \in [Slots -> 0 .. Len(mem)] /\ tags' \in [Slots -> SUBSET TagBits]
            /\ result' \in Slots /\ tail \in [Slots -> 0 .. Len(mem)]
        BY <2>2, <2>4, <3>2, <4>1, Assigned, TailKept
      <4>3. Written
        BY <3>1, <3>2, <4>1, <4>2 DEF Written, MInv
      <4>4. QED
        BY <4>3, WrittenMInv
    <3>3. CASE /\ Assign(Collector.dest, Len(mem) + 1, {})
               /\ mem' = Append(mem, ListCell(NULL))
      <4>1. /\ IsMemory(mem') /\ Len(mem') = Len(mem) + 1 /\ Len(mem) + 1 \in Nat
            /\ Len(mem) <= Len(mem) + 1 /\ Len(mem) + 1 \in 0 .. Len(mem) + 1
            /\ {} \in SUBSET TagBits
        BY <3>3, EmptyContainers, Added
      <4>2. /\ val' \in [Slots -> 0 .. Len(mem) + 1] /\ tags' \in [Slots -> SUBSET TagBits]
            /\ result' \in Slots /\ tail \in [Slots -> 0 .. Len(mem) + 1]
        BY <2>2, <3>3, <4>1, Assigned, TailKept
      <4>3. Written
        BY <3>1, <4>1, <4>2 DEF Written, MInv
      <4>4. QED
        BY <4>3, WrittenMInv
    <3>4. QED
      BY <2>5, <3>2, <3>3 DEF IterEmpty
  <2>6. CASE mem[V1].head # NULL /\ ~(Len(frames) >= MaxIterDepth) /\ IterPush
    <3> DEFINE first == mem[V1].head  n == Len(frames)
               acc == IF ins.mode = "fold" THEN val[Collector.o1] ELSE NULL
    <3>1. first \in 0 .. Len(mem)
      BY <2>3, <2>4, HeldCell
    <3>2. mem[first].next \in 0 .. Len(mem)
      BY <2>6, <3>1, HeldCell
    <3>3. acc \in 0 .. Len(mem)
      BY <2>4
    <3>4. PICK f :
            /\ frames' = Append(frames, f)
            /\ f.mode = ins.mode /\ f.nextElem = mem[first].next
            /\ f.elemSlot = d /\ f.sourceSlot = ins.o1
            /\ f.resultDest = Collector.dest
            /\ f.slotA = Collector.o1 /\ f.slotB = Collector.o2
            /\ f.head = NULL /\ f.last = NULL /\ f.acc = acc
      BY <2>6 DEF IterPush
    <3>5. /\ val' = [val EXCEPT ![d] = first]
          /\ tags' = [tags EXCEPT ![d] = tags[ins.o1]]
          /\ UNCHANGED <<packet, mem, tail, result, status>>
      BY <2>6 DEF IterPush
    <3> HIDE DEF first, acc
    <3>6. FrameSound(f, Slots, Pointers)
      BY <2>2, <2>3, <2>4, <3>2, <3>3, <3>4 DEF FrameSound, Pointers
    <3>7. PICK S : frames \in Seq(S)
      BY DEF IInv, FramesOf
    <3>8. /\ n \in Nat /\ Len(frames') = n + 1 /\ frames'[n + 1] = f
          /\ \A i \in 1 .. n : frames'[i] = frames[i]
      BY <3>4, <3>7, AppendAny DEF IsSequence
    <3>9. \A i \in 1 .. n + 1 : FrameSound(frames'[i], Slots, Pointers)
      BY <3>6, <3>8 DEF MInv
    <3>10. n + 1 <= MaxIterDepth
      BY <2>6, <3>8, DepthAssumption
    <3>11. /\ val' \in [Slots -> 0 .. Len(mem)] /\ tags' \in [Slots -> SUBSET TagBits]
      BY <2>3, <3>1, <3>5 DEF MInv, Pointers
    <3>12. UNCHANGED <<Slots, Pointers>>
      BY <3>5 DEF Slots, Pointers
    <3>13. \A i \in 1 .. n + 1 : FrameSound(frames'[i], Slots', Pointers')
      BY <3>9, <3>12 DEF FrameSound
    <3>14. LoadedSound(packet)' /\ SlotsInRange(packet)'
      BY <3>5 DEF MInv, LoadedSound, SlotsInRange
    <3>15. \A i \in 1 .. Len(frames') : FrameSound(frames[i], Slots, Pointers)'
      BY <3>8, <3>13
    <3>16. QED
      BY <3>5, <3>8, <3>10, <3>11, <3>12, <3>14, <3>15 DEF MInv, Pointers
  <2>7. QED
    BY <2>1, <2>5, <2>6
<1>3. QED
  BY <1>1, <1>2

(* The same for a step that changes the frames.                            *)
LEMMA MInvAgain ==
  ASSUME MInv, UNCHANGED packet, IsMemory(mem'), Len(mem) <= Len(mem'),
         val' \in [Slots -> 0 .. Len(mem')], tags' \in [Slots -> SUBSET TagBits],
         tail' \in [Slots -> 0 .. Len(mem')], result' \in Slots,
         status' \in {"running", "done", "error"}, Len(frames') <= MaxIterDepth,
         \A i \in 1 .. Len(frames') : FrameSound(frames'[i], Slots, 0 .. Len(mem'))
  PROVE  MInv'
<1>1. Len(mem) \in Nat /\ Len(mem') \in Nat /\ Len(packet.mem) \in Nat
  <2>1. Len(mem') \in Nat
    BY SequenceFact DEF IsMemory
  <2>2. QED
    BY <2>1, MemorySize
<1>2. Slots' = Slots /\ Pointers' = 0 .. Len(mem')
  BY DEF Slots, Pointers
<1>3. LoadedSound(packet)' /\ SlotsInRange(packet)'
  BY DEF MInv, LoadedSound, SlotsInRange
<1>4. Len(packet'.mem) + 3 <= Len(mem')
  BY <1>1 DEF MInv
<1>5. \A i \in 1 .. Len(frames') : FrameSound(frames[i], Slots, Pointers)'
  BY <1>2 DEF FrameSound
<1>6. QED
  BY <1>2, <1>3, <1>4, <1>5 DEF MInv

LEMMA FrameKept ==
  ASSUME NEW f, NEW slots, NEW size \in Nat, NEW more \in Nat, size <= more,
         FrameSound(f, slots, 0 .. size)
  PROVE  FrameSound(f, slots, 0 .. more)
  BY DEF FrameSound

(* What an ITER_COLLECT finds, and the cell it adds, if any.               *)
LEMMA TopSound ==
  ASSUME IInv, MInv, Fetched("ITER_COLLECT")
  PROVE  /\ depth \in Nat \ {0} /\ depth \in 1 .. Len(frames) /\ DOMAIN top = FrameFields
         /\ FrameSound(top, Slots, 0 .. Len(mem)) /\ IsSequence(frames)
<1>1. depth \in Nat \ {0} /\ depth \in 1 .. Len(frames)
  BY AtCollect DEF depth
<1>2. QED
  BY <1>1 DEF MInv, IInv, FramesOf, top, depth, Pointers, IsSequence

LEMMA CollectedFits ==
  ASSUME MInv, FrameSound(top, Slots, 0 .. Len(mem))
  PROVE  /\ Fit(mem, Collected) /\ Len(Collected) \in Nat
         /\ Collected # << >> => Len(Collected) = 1
<1>1. Len(mem) \in Nat /\ IsMemory(mem)
  BY MemorySize DEF MInv
<1>2. \/ Collected = << >>
      \/ \E a \in 0 .. Len(mem) : Collected = <<CopyCell(mem, a)>>
  <2>1. val[top.slotA] \in 0 .. Len(mem)
        /\ (top.mode = "filter" => val[top.slotB] \in 0 .. Len(mem))
    BY SlotHolds DEF FrameSound
  <2>2. QED
    BY <2>1 DEF Collected
<1>3. CASE Collected = << >>
  <2>1. << >> \in Seq({}) /\ Len(<< >>) = 0 /\ \A i \in 1 .. 0 : FALSE
    OBVIOUS
  <2>2. QED
    BY <1>3, <2>1 DEF Fit, IsSequence
<1>4. ASSUME NEW a \in 0 .. Len(mem), Collected = <<CopyCell(mem, a)>>
      PROVE  Fit(mem, Collected) /\ Len(Collected) = 1
  <2> DEFINE c == CopyCell(mem, a)
  <2>1. Loose(c, Len(mem))
    BY <1>1, CopiedCell
  <2>2. CellAt(c, Len(mem) + 1, Len(mem) + 1)
    BY <1>1, <2>1, LooseCell
  <2> HIDE DEF c
  <2>3. <<c>> \in Seq({c}) /\ Len(<<c>>) = 1 /\ <<c>>[1] = c /\ \A i \in 1 .. 1 : i = 1
    OBVIOUS
  <2>4. Collected = <<c>>
    BY <1>4 DEF c
  <2>5. QED
    BY <2>2, <2>3, <2>4 DEF Fit, IsSequence
<1>5. QED
  <2>1. CASE Collected = << >>
    <3>1. Len(Collected) = 0
      BY <2>1
    <3>2. QED
      BY <1>3, <2>1, <3>1
  <2>2. CASE Collected # << >>
    BY <1>2, <1>4, <2>2
  <2>3. QED
    BY <2>1, <2>2

(* The memory it leaves, and what its frame then holds.                    *)
LEMMA LinkedSound ==
  ASSUME MInv, FrameSound(top, Slots, 0 .. Len(mem)), DOMAIN top = FrameFields,
         NEW size, size = Len(mem) + Len(Collected)
  PROVE  /\ IsMemory(LinkCollected(mem \o Collected))
         /\ Len(LinkCollected(mem \o Collected)) = size
         /\ size \in Nat /\ Len(mem) <= size
         /\ Gathered.head \in 0 .. size /\ Gathered.acc \in 0 .. size
         /\ \A next \in 0 .. size :
              FrameSound([Gathered EXCEPT !.nextElem = next], Slots, 0 .. size)
<1> DEFINE m == mem \o Collected  n == Len(mem)
<1>1. n \in Nat /\ IsMemory(mem) /\ Fit(mem, Collected) /\ Len(Collected) \in Nat
      /\ (Collected # << >> => Len(Collected) = 1)
  BY MemorySize, CollectedFits DEF MInv
<1>2. IsMemory(m) /\ Len(m) = size /\ size \in Nat /\ n <= size
  <2>1. IsMemory(m) /\ Len(m) = n + Len(Collected)
    BY <1>1, Grown DEF Fit
  <2>2. QED
    BY <1>1, <2>1
<1>3. Collected # << >> => size = n + 1
  BY <1>1
<1>4. IsMemory(LinkCollected(m)) /\ Len(LinkCollected(m)) = size
  <2>1. CASE Collected = << >> \/ top.last = NULL
    BY <1>2, <2>1 DEF LinkCollected
  <2>2. CASE Collected # << >> /\ top.last # NULL
    <3>1. LinkCollected(m) = [m EXCEPT ![top.last].next = n + 1]
      BY <2>2 DEF LinkCollected
    <3>2. top.last \in 0 .. n
      BY DEF FrameSound
    <3> HIDE DEF m, n
    <3>3. PICK a \in 1 .. Len(m) : a = top.last
      BY <1>1, <1>2, <1>3, <2>2, <3>2 DEF NULL
    <3>4. PICK b \in a + 1 .. Len(m) : b = n + 1
      BY <1>1, <1>2, <1>3, <2>2, <3>2, <3>3 DEF NULL
    <3>5. IsMemory([m EXCEPT ![a].next = b]) /\ Len([m EXCEPT ![a].next = b]) = Len(m)
      BY <1>2, Relinked
    <3>6. QED
      BY <1>2, <3>1, <3>3, <3>4, <3>5
  <2>3. QED
    BY <2>1, <2>2
<1>5. Collected # << >> => Len(mem) + 1 \in 0 .. size
  BY <1>1, <1>2, <1>3
<1>6. FrameSound(top, Slots, 0 .. size)
  BY <1>1, <1>2, FrameKept
<1>7. top.mode = "fold" => val[top.slotA] \in 0 .. size
  <2>1. val[top.slotA] \in 0 .. n
    BY SlotHolds DEF FrameSound
  <2>2. QED
    BY <1>1, <1>2, <2>1
<1>8. Gathered.head \in 0 .. size /\ Gathered.acc \in 0 .. size /\ Gathered.last \in 0 .. size
  BY <1>5, <1>6, <1>7 DEF Gathered, FrameSound, FrameFields
<1>9. /\ Gathered.mode = top.mode /\ Gathered.elemSlot = top.elemSlot
      /\ Gathered.sourceSlot = top.sourceSlot /\ Gathered.resultDest = top.resultDest
      /\ Gathered.slotA = top.slotA /\ Gathered.slotB = top.slotB
      /\ DOMAIN Gathered = FrameFields
  BY DEF Gathered, FrameFields
<1>10. \A next \in 0 .. size :
         FrameSound([Gathered EXCEPT !.nextElem = next], Slots, 0 .. size)
  BY <1>6, <1>8, <1>9 DEF FrameSound, FrameFields
<1>11. QED
  BY <1>2, <1>4, <1>8, <1>10
LEMMA AdvanceMInv ==
  ASSUME IInv, MInv, Fetched("ITER_COLLECT"), IterAdvance
  PROVE  MInv'
<1>1. /\ depth \in 1 .. Len(frames) /\ DOMAIN top = FrameFields
      /\ FrameSound(top, Slots, 0 .. Len(mem)) /\ IsSequence(frames)
  BY TopSound
<1>2. PICK size : size = Len(mem) + Len(Collected)
  OBVIOUS
<1>3. /\ IsMemory(mem') /\ Len(mem') = size /\ size \in Nat /\ Len(mem) <= size
      /\ \A next \in 0 .. size :
           FrameSound([Gathered EXCEPT !.nextElem = next], Slots, 0 .. size)
  BY <1>1, <1>2, LinkedSound DEF IterAdvance
<1>4. PICK next : next = mem[top.nextElem].next
  OBVIOUS
<1>5. Len(mem) \in Nat
  BY MemorySize
<1>6. /\ top.nextElem \in 0 .. Len(mem) /\ top.nextElem # NULL
      /\ top.elemSlot \in Slots /\ top.sourceSlot \in Slots
  BY <1>1 DEF FrameSound, IterAdvance
<1>7. next \in 0 .. size /\ top.nextElem \in 0 .. size
  <2>1. next \in 0 .. Len(mem)
    BY <1>4, <1>6, HeldCell
  <2>2. QED
    BY <1>3, <1>5, <1>6, <2>1
<1>8. PICK new : new = [Gathered EXCEPT !.nextElem = next]
  OBVIOUS
<1>9. FrameSound(new, Slots, 0 .. size)
  BY <1>3, <1>7, <1>8
<1>10. /\ frames' = [frames EXCEPT ![depth] = new]
       /\ val' = [val EXCEPT ![top.elemSlot] = top.nextElem]
       /\ tags' = [tags EXCEPT ![top.elemSlot] = tags[top.sourceSlot]]
       /\ UNCHANGED <<packet, tail, result, status>>
  BY <1>4, <1>8 DEF IterAdvance
<1>11. /\ Len(frames') = Len(frames) /\ frames'[depth] = new
       /\ \A j \in 1 .. Len(frames) : j # depth => frames'[j] = frames[j]
  BY <1>1, <1>10, ExceptAny
<1>12. \A j \in 1 .. Len(frames) : FrameSound(frames[j], Slots, 0 .. size)
  BY <1>3, <1>5, FrameKept DEF MInv, Pointers
<1>13. \A j \in 1 .. Len(frames') : FrameSound(frames'[j], Slots, 0 .. Len(mem'))
  BY <1>3, <1>9, <1>11, <1>12
<1>14. /\ val' \in [Slots -> 0 .. Len(mem')] /\ tags' \in [Slots -> SUBSET TagBits]
       /\ tail' \in [Slots -> 0 .. Len(mem')]
  <2>1. val \in [Slots -> 0 .. size] /\ tags \in [Slots -> SUBSET TagBits]
    <3>1. val \in [Slots -> 0 .. Len(mem)] /\ tags \in [Slots -> SUBSET TagBits]
      BY DEF MInv, Pointers
    <3>2. 0 .. Len(mem) \subseteq 0 .. size
      BY <1>3, <1>5
    <3>3. QED
      BY <3>1, <3>2
  <2>2. tail \in [Slots -> 0 .. size]
    BY <1>3, TailKept
  <2>3. QED
    BY <1>3, <1>6, <1>7, <1>10, <2>1, <2>2
<1>15. /\ UNCHANGED packet /\ Len(mem) <= Len(mem') /\ result' \in Slots
       /\ status' \in {"running", "done", "error"} /\ Len(frames') <= MaxIterDepth
  BY <1>3, <1>10, <1>11 DEF MInv
<1>16. QED
  BY <1>3, <1>13, <1>14, <1>15, MInvAgain

(* The frame that is popped leaves the others as they are.                 *)
LEMMA Popped ==
  ASSUME NEW s, IsSequence(s), NEW n \in Nat, Len(s) = n + 1, NEW t, t = SubSeq(s, 1, n)
  PROVE  Len(t) = n /\ \A i \in 1 .. n : t[i] = s[i]
<1>1. PICK S : s \in Seq(S)
  BY DEF IsSequence
<1>2. \A i \in 1 .. n : s[i] \in S
  BY <1>1, ElementOfSeq
<1>3. /\ Len(t) = IF 1 <= n THEN n - 1 + 1 ELSE 0
      /\ \A i \in 1 .. n - 1 + 1 : t[i] = s[1 + i - 1]
  BY <1>2, SubSeqProperties
<1>4. QED
  BY <1>3

LEMMA FinishLoopMInv ==
  ASSUME IInv, MInv, Fetched("ITER_COLLECT"), IterFinish
  PROVE  MInv'
<1> DEFINE linked == LinkCollected(mem \o Collected)
           answer == IF Gathered.acc = NULL THEN ValNothing ELSE Gathered.acc
<1>1. /\ depth \in Nat \ {0} /\ depth = Len(frames) /\ DOMAIN top = FrameFields
      /\ FrameSound(top, Slots, 0 .. Len(mem)) /\ IsSequence(frames)
  BY TopSound DEF depth
<1>2. PICK size : size = Len(mem) + Len(Collected)
  OBVIOUS
<1>3. /\ IsMemory(linked) /\ Len(linked) = size /\ size \in Nat /\ Len(mem) <= size
      /\ Gathered.head \in 0 .. size /\ Gathered.acc \in 0 .. size
  BY <1>1, <1>2, LinkedSound
<1>4. /\ frames' = SubSeq(frames, 1, depth - 1)
      /\ UNCHANGED <<packet, tail, status>>
      /\ \/ mem' = linked /\ Assign(top.resultDest, answer, {})
         \/ /\ mem' = Append(linked, ListCell(Gathered.head))
            /\ Assign(top.resultDest, Len(linked) + 1, {})
  BY DEF IterFinish
<1> HIDE DEF linked
<1>5. PICK n \in Nat : n = depth - 1 /\ Len(frames) = n + 1
  BY <1>1
<1>6. Len(frames') = n /\ \A i \in 1 .. n : frames'[i] = frames[i]
  BY <1>1, <1>4, <1>5, Popped
<1>7. Len(mem) \in Nat /\ top.resultDest \in Slots /\ {} \in SUBSET TagBits
  BY <1>1, MemorySize DEF FrameSound
<1>8. answer \in 0 .. size
  BY <1>3, <1>7, Singletons
<1> HIDE DEF answer
<1>9. PICK a, more \in Nat :
        /\ Assign(top.resultDest, a, {}) /\ a \in 0 .. more /\ size <= more
        /\ IsMemory(mem') /\ Len(mem') = more
  <2>1. CASE mem' = linked /\ Assign(top.resultDest, answer, {})
    <3>1. size <= size
      BY <1>3
    <3>2. QED
      BY <1>3, <1>8, <2>1, <3>1
  <2>2. CASE /\ mem' = Append(linked, ListCell(Gathered.head))
             /\ Assign(top.resultDest, Len(linked) + 1, {})
    <3>1. PICK c : c = ListCell(Gathered.head)
      OBVIOUS
    <3>2. Loose(c, size)
      <4>1. "list" \in Kinds /\ 0 \in Int
        BY DEF Kinds
      <4>2. QED
        BY <1>3, <3>1, <4>1, NewLooseCell DEF ListCell
    <3>3. size + 1 \in Nat /\ size <= size + 1 /\ size + 1 \in 0 .. size + 1
      BY <1>3
    <3>4. CellAt(c, Len(linked) + 1, Len(linked) + 1)
      BY <1>3, <3>2, <3>3, LooseCell
    <3>5. IsMemory(mem') /\ Len(mem') = size + 1
      BY <1>3, <2>2, <3>1, <3>4, GrownByOne
    <3>6. Assign(top.resultDest, size + 1, {})
      BY <1>3, <2>2
    <3>7. QED
      BY <3>3, <3>5, <3>6
  <2>3. QED
    BY <1>4, <2>1, <2>2
<1>10. Len(mem) <= more
  BY <1>3, <1>7, <1>9
<1>11. /\ val' \in [Slots -> 0 .. more] /\ tags' \in [Slots -> SUBSET TagBits]
       /\ result' \in Slots /\ tail \in [Slots -> 0 .. more]
  BY <1>7, <1>9, <1>10, Assigned, TailKept
<1>12. \A i \in 1 .. n : FrameSound(frames'[i], Slots, 0 .. more)
  <2>1. \A i \in 1 .. n : FrameSound(frames[i], Slots, 0 .. Len(mem))
    BY <1>5 DEF MInv, Pointers
  <2>2. QED
    BY <1>6, <1>7, <1>10, <2>1, FrameKept
<1>13. n <= MaxIterDepth
  BY <1>5, DepthAssumption DEF MInv
<1>14. /\ UNCHANGED packet /\ Len(mem) <= Len(mem') /\ tail' = tail
       /\ status' \in {"running", "done", "error"} /\ Len(frames') <= MaxIterDepth
       /\ \A i \in 1 .. Len(frames') : FrameSound(frames'[i], Slots, 0 .. Len(mem'))
  BY <1>4, <1>6, <1>9, <1>10, <1>12, <1>13 DEF MInv
<1>15. QED
  BY <1>9, <1>11, <1>14, MInvAgain

LEMMA CollectMInv == IInv /\ MInv /\ IterCollect => MInv'
<1> SUFFICES ASSUME IInv, MInv, IterCollect PROVE MInv'
  OBVIOUS
<1>1. Fetched("ITER_COLLECT") /\ (depth = 0 \/ IterAdvance \/ IterFinish)
  BY DEF IterCollect
<1>2. depth # 0
  BY <1>1, TopSound
<1>3. QED
  BY <1>1, <1>2, AdvanceMInv, FinishLoopMInv
LEMMA FinishMInv == MInv /\ Finish => Written
<1> SUFFICES ASSUME MInv, Finish PROVE Written
  OBVIOUS
<1>1. Len(mem) <= Len(mem)
  BY MemorySize
<1>2. QED
  BY <1>1 DEF Finish, Written, MInv, Pointers

------------------------------------------------------------------------------
(* Every state.                                                            *)
(* The cells of a packet: each link leads on.                              *)
LEMMA LoadedCells ==
  ASSUME NEW s, NEW n, n = Len(s), s \in Seq(LoadedCell(n)),
         \A a \in 1 .. n : s[a].next # NULL => s[a].next > a
  PROVE  IsMemory(s)
<1>1. n \in Nat
  OBVIOUS
<1>2. ASSUME NEW a \in 1 .. n PROVE CellAt(s[a], a, n)
  <2>1. s[a] \in LoadedCell(n)
    OBVIOUS
  <2>2. QED
    <3>1. PICK c : c = s[a]
      OBVIOUS
    <3>2. /\ DOMAIN c = CellFields /\ c.kind \in Kinds /\ c.n \in Int
          /\ c.head \in 0 .. n /\ c.next \in 0 .. n
      BY <2>1, <3>1 DEF LoadedCell, CellFields
    <3>3. c.next = NULL \/ c.next \in a + 1 .. n
      BY <1>1, <3>1, <3>2 DEF NULL
    <3>4. CellAt(c, a, n)
      BY <3>2, <3>3 DEF CellAt
    <3>5. QED
      BY <3>1, <3>4
<1>3. QED
  BY <1>2 DEF IsMemory, IsSequence

LEMMA LoadedMemory ==
  ASSUME NEW p, LoadedSound(p)
  PROVE  /\ Len(p.mem) \in Nat
         /\ IsMemory(p.mem \o <<BooleanCell(TRUE), BooleanCell(FALSE), NothingCell>>)
         /\ Len(p.mem \o <<BooleanCell(TRUE), BooleanCell(FALSE), NothingCell>>)
              = Len(p.mem) + 3
<1> DEFINE m == p.mem  n == Len(m)
           t == BooleanCell(TRUE)  f == BooleanCell(FALSE)  x == NothingCell
           cells == <<t, f, x>>
<1>1. /\ m \in Seq(LoadedCell(n)) /\ n \in Nat
      /\ \A a \in 1 .. n : m[a].next # NULL => m[a].next > a
  <2>1. m \in Seq(LoadedCell(n)) /\ \A a \in 1 .. n : m[a].next # NULL => m[a].next > a
    BY DEF LoadedSound
  <2>2. QED
    BY <2>1
<1>2. IsMemory(m)
  <2> HIDE DEF m
  <2>1. QED
    BY <1>1, LoadedCells
<1>3. Loose(t, n) /\ Loose(f, n) /\ Loose(x, n)
  <2>1. /\ {"boolean", "nothing"} \subseteq Kinds /\ 0 \in Int /\ 1 \in Int
        /\ NULL \in 0 .. n
    BY <1>1 DEF Kinds, NULL
  <2>2. QED
    BY <1>1, <2>1, NewLooseCell DEF BooleanCell, NothingCell
<1> HIDE DEF t, f, x, m, n
<1>4. /\ cells \in Seq({t, f, x}) /\ Len(cells) = 3
      /\ \A i \in 1 .. 3 : cells[i] \in {t, f, x}
  OBVIOUS
<1>5. n + 3 \in Nat /\ n <= n + 3
  BY <1>1
<1>6. \A i \in 1 .. Len(cells) : CellAt(cells[i], n + i, n + Len(cells))
  BY <1>1, <1>3, <1>4, <1>5, LooseCell
<1>7. IsSequence(cells)
  BY <1>4 DEF IsSequence
<1> HIDE DEF cells
<1>8. \A i \in 1 .. Len(cells) : CellAt(cells[i], Len(m) + i, Len(m) + Len(cells))
  BY <1>6 DEF n
<1>9. IsMemory(m \o cells) /\ Len(m \o cells) = Len(m) + Len(cells)
  BY <1>2, <1>7, <1>8, Grown
<1>10. QED
  BY <1>1, <1>4, <1>9 DEF m, n, cells, t, f, x

LEMMA InitMInv ==
  ASSUME \A p \in Packets : WellFormed(p), Init
  PROVE  MInv
<1>1. PICK p \in Packets : Load(p)
  BY DEF Init
<1>2. packet = p /\ LoadedSound(p) /\ SlotsInRange(p)
  BY <1>1 DEF Load, WellFormed
<1> DEFINE n == Len(p.mem)  size == n + 3
<1>3. n \in Nat /\ IsMemory(mem) /\ Len(mem) = size
  BY <1>1, <1>2, LoadedMemory DEF Load
<1>4. Slots = 0 .. SlotCount(p) - 1 /\ 0 \in Slots
  <2>1. /\ p.scratchpadSize \in Nat /\ p.outputCount \in Nat
        /\ Len(p.inputs) \in Nat
    BY <1>2 DEF LoadedSound
  <2>2. SlotCount(p) \in Nat /\ SlotCount(p) >= 1
    BY <2>1 DEF SlotCount, Max2
  <2>3. QED
    BY <1>2, <2>2 DEF Slots
<1>5. ASSUME NEW i \in Slots, i < Len(p.inputs)
      PROVE  p.inputs[i + 1].value \in 0 .. n /\ p.inputs[i + 1].tags \in SUBSET TagBits
  <2>1. p.inputs \in Seq([value : 0 .. n, tags : SUBSET TagBits])
    BY <1>2 DEF LoadedSound
  <2>2. i \in Nat
    BY <1>4
  <2>3. i + 1 \in 1 .. Len(p.inputs)
    BY <1>5, <2>1, <2>2
  <2>4. p.inputs[i + 1] \in [value : 0 .. n, tags : SUBSET TagBits]
    BY <2>1, <2>3, ElementOfSeq
  <2>5. QED
    BY <2>4
<1>6. \A i \in Slots : i < Len(p.inputs) \/ i >= Len(p.inputs)
  <2>1. Len(p.inputs) \in Nat
    BY <1>2 DEF LoadedSound
  <2>2. QED
    BY <1>4, <2>1
<1>7. NULL \in 0 .. size /\ n + 3 \in 0 .. size /\ 0 .. n \subseteq 0 .. size
  BY <1>3 DEF NULL
<1>8. val \in [Slots -> 0 .. size]
  <2>1. val = [i \in Slots |->
                 IF ~p.given \/ i >= Len(p.inputs) THEN NULL
                 ELSE IF p.inputs[i + 1].value = NULL THEN n + 3
                 ELSE p.inputs[i + 1].value]
    BY <1>1, <1>4 DEF Load
  <2> HIDE DEF n, size
  <2>2. QED
    BY <1>5, <1>6, <1>7, <2>1
<1>9. tags \in [Slots -> SUBSET TagBits]
  <2>1. tags = [i \in Slots |->
                  IF ~p.given \/ i >= Len(p.inputs) THEN {} ELSE p.inputs[i + 1].tags]
    BY <1>1, <1>4 DEF Load
  <2>2. QED
    BY <1>5, <1>6, <2>1
<1>10. tail \in [Slots -> 0 .. size]
  <2>1. tail = [i \in Slots |-> NULL]
    BY <1>1, <1>4 DEF Load
  <2>2. QED
    BY <1>7, <2>1
<1>11. frames = << >> /\ Len(frames) = 0 /\ result = 0 /\ status = "running"
  BY <1>1 DEF Load
<1>12. 0 <= MaxIterDepth /\ size <= Len(mem) /\ 1 .. 0 = {}
  BY <1>3, DepthAssumption
<1>13. QED
  BY <1>2, <1>3, <1>4, <1>8, <1>9, <1>10, <1>11, <1>12 DEF MInv, Pointers

LEMMA NextMInv == IInv /\ MInv /\ [Next]_vars => MInv'
<1> SUFFICES ASSUME IInv, MInv, [Next]_vars PROVE MInv'
  OBVIOUS
<1>1. CASE Scalars
  BY <1>1, ScalarsWritten, WrittenMInv
<1>2. CASE Containers
  BY <1>2, ContainersWritten, WrittenMInv
<1>3. CASE External
  BY <1>3, ExternalWritten, WrittenMInv
<1>4. CASE Control
  <2>1. CASE IterSetup
    BY <2>1, SetupMInv
  <2>2. CASE IterCollect
    BY <2>2, CollectMInv
  <2>3. CASE Finish
    BY <2>3, FinishMInv, WrittenMInv
  <2>4. CASE Jumping \/ Coalesce \/ UnknownOpcode
    BY <2>4, JumpingWritten, WrittenMInv
  <2>5. QED
    BY <1>4, <2>1, <2>2, <2>3, <2>4 DEF Control, Jumping
<1>5. CASE UNCHANGED vars
  <2>1. Len(mem) <= Len(mem)
    BY MemorySize
  <2>2. Written
    BY <1>5, <2>1 DEF vars, Written, MInv, Pointers
  <2>3. QED
    BY <2>2, WrittenMInv
<1>6. QED
  BY <1>1, <1>2, <1>3, <1>4, <1>5 DEF Next

LEMMA MInvImpliesTypes == IInv /\ MInv => TypeOK
<1> SUFFICES ASSUME IInv, MInv PROVE TypeOK
  OBVIOUS
<1>1. ASSUME NEW a \in Addr(mem)
      PROVE  mem[a].kind \in Kinds /\ mem[a].head \in Pointers /\ mem[a].next \in Pointers
  <2>1. IsMemory(mem) /\ a \in 1 .. Len(mem)
    BY SequenceFact DEF MInv, IsMemory, Addr
  <2>2. QED
    BY <2>1, CellFact DEF Pointers
<1>2. ASSUME NEW i \in DOMAIN frames
      PROVE  {frames[i].nextElem, frames[i].head, frames[i].last, frames[i].acc}
               \subseteq Pointers
  <2>1. i \in 1 .. Len(frames)
    BY DEF IInv, FramesOf
  <2>2. QED
    BY <2>1 DEF MInv, FrameSound
<1>3. QED
  BY <1>1, <1>2 DEF TypeOK, MInv, IInv

(* In every run of well-formed packets each pointer of vm_execute, in a    *)
(* slot, a cell, a tail or a frame, is NULL or leads to a cell, and the    *)
(* iteration stack stays within iter_stack.                                *)
THEOREM PointersLead ==
  ASSUME \A p \in Packets : WellFormed(p)
  PROVE  Spec => []TypeOK
<1>1. Init => IInv /\ MInv
  BY InitIInv, InitMInv
<1>2. IInv /\ MInv /\ [Next]_vars => IInv' /\ MInv'
  BY NextIInv, NextMInv
<1>3. IInv /\ MInv => TypeOK
  BY MInvImpliesTypes
<1>4. QED
  BY <1>1, <1>2, <1>3, PTL DEF Spec

------------------------------------------------------------------------------
(* A step that adds cells at most, and writes no slot that a packet builds *)
(* a container in.                                                         *)
Extends ==
  Len(mem) <= Len(mem') /\ \A a \in 1 .. Len(mem) : mem'[a] = mem[a]

Calm ==
  /\ Extends /\ UNCHANGED <<packet, tail, frames>>
  /\ \/ UNCHANGED <<val, pc>>
     \/ UNCHANGED val /\ AtJump /\ pc' \in {pc + 1, d}
     \/ /\ AtPlain /\ pc' = pc + 1
        /\ ins.op \notin Makers \cup Appends \cup JumpTargetOps
        /\ \A s \in Slots : s # d => val'[s] = val[s]

Ordinary ==
  AtPlain /\ ins.op \notin Makers \cup Appends \cup JumpTargetOps

LEMMA SameExtends == MInv /\ mem' = mem => Extends
<1> SUFFICES ASSUME MInv, mem' = mem PROVE Extends
  OBVIOUS
<1>1. Len(mem) <= Len(mem)
  BY MemorySize
<1>2. QED
  BY <1>1 DEF Extends

LEMMA FailCalm == MInv /\ Fail => Calm
  BY SameExtends DEF Fail, Calm

LEMMA GotoCalm ==
  ASSUME MInv, AtJump, NEW t \in {pc + 1, d}, Goto(t)
  PROVE  Calm
  BY SameExtends DEF Goto, Calm

LEMMA PointCalm ==
  ASSUME MInv, Ordinary, NEW a, NEW t, Point(a, t)
  PROVE  Calm
<1>1. /\ mem' = mem /\ UNCHANGED <<packet, tail, frames>> /\ pc' = pc + 1
      /\ val' = [val EXCEPT ![d] = a]
  BY DEF Point, Assign
<1>2. \A s \in Slots : s # d => val'[s] = val[s]
  BY <1>1 DEF MInv
<1>3. QED
  BY <1>1, <1>2, SameExtends DEF Calm, Ordinary

LEMMA StoreCalm ==
  ASSUME MInv, Ordinary, NEW c, NEW t, Store(c, t)
  PROVE  Calm
<1>1. /\ mem' = Append(mem, c) /\ UNCHANGED <<packet, tail, frames>> /\ pc' = pc + 1
      /\ val' = [val EXCEPT ![d] = Len(mem) + 1]
  BY DEF Store, Assign
<1>2. \A s \in Slots : s # d => val'[s] = val[s]
  BY <1>1 DEF MInv
<1>3. Extends
  <2>1. IsSequence(mem) /\ Len(mem) \in Nat
    BY MemorySize DEF MInv, IsMemory
  <2>2. Len(mem') = Len(mem) + 1 /\ \A a \in 1 .. Len(mem) : mem'[a] = mem[a]
    BY <1>1, <2>1, AppendAny
  <2>3. QED
    BY <2>1, <2>2 DEF Extends
<1>4. QED
  BY <1>1, <1>2, <1>3 DEF Calm, Ordinary

LEMMA AnswerCalm ==
  ASSUME MInv, Ordinary, NEW r, Sound(mem, r), Answer(r)
  PROVE  Calm
<1>1. /\ mem' = mem \o r.cells /\ UNCHANGED <<packet, tail, frames>> /\ pc' = pc + 1
      /\ val' = [val EXCEPT ![d] = r.at]
  BY DEF Answer, Assign
<1>2. \A s \in Slots : s # d => val'[s] = val[s]
  BY <1>1 DEF MInv
<1>3. Extends
  <2>1. IsMemory(mem) /\ Fit(mem, r.cells)
    BY DEF MInv, Sound
  <2>2. /\ Len(mem') = Len(mem) + Len(r.cells) /\ Len(mem) \in Nat /\ Len(r.cells) \in Nat
        /\ \A a \in 1 .. Len(mem) : mem'[a] = mem[a]
    BY <1>1, <2>1, Grown DEF Fit
  <2>3. QED
    BY <2>2 DEF Extends
<1>4. QED
  BY <1>1, <1>2, <1>3 DEF Calm, Ordinary

LEMMA FetchedOrdinary ==
  ASSUME NEW op, Fetched(op),
         op \notin {"ITER_SETUP", "ITER_COLLECT"} \cup Makers \cup Appends \cup JumpTargetOps
  PROVE  Ordinary
  BY DEF Fetched, Ordinary, AtPlain

LEMMA TestsOrdinary ==
  \A op \in DOMAIN TypeTests :
    op \notin {"ITER_SETUP", "ITER_COLLECT"} \cup Makers \cup Appends \cup JumpTargetOps
  BY DEF TypeTests, Makers, Appends, JumpTargetOps, JumpOps

LEMMA ScalarsCalm == MInv /\ Scalars => Calm
<1> SUFFICES ASSUME MInv, Scalars PROVE Calm
  OBVIOUS
<1>1. Scalars =>
        \E op \in {"LOAD_CONST", "LOAD_FIELD", "LOAD_NOTHING", "COPY", "ADD", "SUB",
                   "MUL", "DIV", "MOD", "NEGATE", "EQ", "NEQ", "LT", "GT", "LTE",
                   "GTE", "AND", "OR", "NOT", "STR_CONCAT", "TO_STRING", "TO_INT",
                   "TO_FLOAT", "TO_BOOL"} \cup DOMAIN TypeTests :
          /\ Fetched(op)
          /\ Fail \/ (\E a, t : Point(a, t)) \/ (\E c, t : Store(c, t))
  <2>1. CASE LoadConst \/ LoadField \/ LoadNothing \/ Copy
    BY <2>1 DEF LoadConst, LoadField, LoadNothing, Copy
  <2>2. CASE ArithmeticStep
    BY <2>2 DEF ArithmeticStep
  <2>3. CASE Negate \/ StrConcat \/ ToStringOp
    BY <2>3 DEF Negate, StrConcat, ToStringOp
  <2>4. CASE Equality
    BY <2>4 DEF Equality
  <2>5. CASE Ordering
    BY <2>5 DEF Ordering
  <2>6. CASE Connective
    BY <2>6 DEF Connective
  <2>7. CASE Not \/ ToBool
    BY <2>7 DEF Not, ToBool
  <2>8. CASE TypeTest
    BY <2>8 DEF TypeTest
  <2>9. CASE ToInt \/ ToFloat
    BY <2>9 DEF ToInt, ToFloat
  <2>10. QED
    BY <2>1, <2>2, <2>3, <2>4, <2>5, <2>6, <2>7, <2>8, <2>9 DEF Scalars
<1>2. PICK op : /\ Fetched(op)
                /\ op \in {"LOAD_CONST", "LOAD_FIELD", "LOAD_NOTHING", "COPY", "ADD",
                     "SUB", "MUL", "DIV", "MOD", "NEGATE", "EQ", "NEQ", "LT", "GT",
                     "LTE", "GTE", "AND", "OR", "NOT", "STR_CONCAT", "TO_STRING",
                     "TO_INT", "TO_FLOAT", "TO_BOOL"} \/ op \in DOMAIN TypeTests
                /\ Fail \/ (\E a, t : Point(a, t)) \/ (\E c, t : Store(c, t))
  BY <1>1
<1>3. Ordinary
  <2>1. op \notin {"ITER_SETUP", "ITER_COLLECT"} \cup Makers \cup Appends \cup JumpTargetOps
    BY <1>2, TestsOrdinary DEF Makers, Appends, JumpTargetOps, JumpOps
  <2>2. QED
    BY <1>2, <2>1, FetchedOrdinary
<1>4. QED
  BY <1>2, <1>3, FailCalm, PointCalm, StoreCalm

LEMMA ExternalCalm == IInv /\ MInv /\ External => Calm
<1> SUFFICES ASSUME IInv, MInv, External PROVE Calm
  OBVIOUS
<1> DEFINE ops == {"STDLIB_CALL", "STDLIB_CALL_1", "TAG_SET", "TAG_CHECK", "SOURCE_LOOKUP"}
<1>1. ASSUME NEW op \in ops, Fetched(op) PROVE Ordinary
  <2>1. op \notin {"ITER_SETUP", "ITER_COLLECT"} \cup Makers \cup Appends \cup JumpTargetOps
    BY DEF Makers, Appends, JumpTargetOps, JumpOps
  <2>2. QED
    BY <1>1, <2>1, FetchedOrdinary
<1>2. CASE StdlibCall \/ StdlibCall1
  <2>1. PICK op \in {"STDLIB_CALL", "STDLIB_CALL_1"} : Fetched(op) /\ CallLibrary
    BY <1>2 DEF StdlibCall, StdlibCall1
  <2>2. ins.o2 \in Slots /\ Ordinary /\ IsMemory(mem)
    <3>1. Reads(ins) \subseteq Slots /\ ins.op = op
      BY <2>1, Named DEF Fetched
    <3>2. ins.o2 \in Reads(ins)
      BY <3>1 DEF Reads, TypeTests
    <3>3. QED
      BY <1>1, <2>1, <3>1, <3>2 DEF MInv
  <2>3. \/ Fail \/ (\E a, t : Point(a, t)) \/ (\E c, t : Store(c, t))
        \/ \E f : CallFunction(f)
    BY <2>1 DEF CallLibrary
  <2>4. ASSUME NEW f, CallFunction(f)
        PROVE  Fail \/ \E r : Sound(mem, r) /\ Answer(r)
    <3>1. Fail \/ \E r \in Library!Call(f, mem, Arguments) : Answer(r)
      BY <2>4 DEF CallFunction
    <3>2. \A r \in Library!Call(f, mem, Arguments) : Sound(mem, r)
      BY <2>2, ArgumentsHold, CallSound
    <3>3. QED
      BY <3>1, <3>2
  <2>5. QED
    BY <2>2, <2>3, <2>4, FailCalm, PointCalm, StoreCalm, AnswerCalm
<1>3. CASE TagSet \/ TagCheck \/ SourceLookup
  <2>1. \E op \in ops : Fetched(op) /\ \E a, t : Point(a, t)
    BY <1>3 DEF TagSet, TagCheck, SourceLookup
  <2>2. QED
    BY <1>1, <2>1, PointCalm
<1>4. QED
  BY <1>2, <1>3 DEF External

LEMMA JumpingCalm == MInv /\ (Jumping \/ Coalesce \/ UnknownOpcode) => Calm
<1> SUFFICES ASSUME MInv, Jumping \/ Coalesce \/ UnknownOpcode PROVE Calm
  OBVIOUS
<1>1. CASE Jumping
  <2>1. AtJump /\ (Fail \/ Goto(pc + 1) \/ Goto(d))
    <3>1. CASE Jump \/ JumpIf \/ JumpIfNot \/ IsNothingJump
      BY <3>1 DEF Jump, JumpIf, JumpIfNot, IsNothingJump, AtJump, Fetched, JumpTargetOps
    <3>2. CASE CmpJumpEqual
      BY <3>2 DEF CmpJumpEqual, AtJump, Fetched, JumpTargetOps
    <3>3. CASE CmpJumpOrder
      BY <3>3 DEF CmpJumpOrder, AtJump, Fetched, JumpTargetOps
    <3>4. QED
      BY <1>1, <3>1, <3>2, <3>3 DEF Jumping
  <2>2. QED
    BY <2>1, FailCalm, GotoCalm
<1>2. CASE Coalesce
  <2>1. Ordinary
    BY <1>2, FetchedOrdinary DEF Coalesce, Makers, Appends, JumpTargetOps, JumpOps
  <2>2. QED
    BY <1>2, <2>1, PointCalm DEF Coalesce
<1>3. CASE UnknownOpcode
  BY <1>3, FailCalm DEF UnknownOpcode
<1>4. QED
  BY <1>1, <1>2, <1>3

(* Of the instructions on containers, those that neither make nor change   *)
(* one.                                                                    *)
Changing == RecordNew \/ ListNew \/ RecordNewSetC \/ RecordSet \/ RecordSetC \/ ListAppend

LEMMA ContainersCalm == MInv /\ Containers => Calm \/ (Changing /\ ~Fail)
<1> SUFFICES ASSUME MInv, Containers PROVE Calm \/ (Changing /\ ~Fail)
  OBVIOUS
<1> DEFINE ops == {"RECORD_GET", "RECORD_GET_C", "RECORD_HAS", "LIST_GET", "LIST_LENGTH"}
<1>1. CASE RecordGet \/ RecordGetC \/ RecordHas \/ ListGet \/ ListLength
  <2>1. PICK op \in ops :
          /\ Fetched(op)
          /\ Fail \/ (\E a, t : Point(a, t)) \/ (\E c, t : Store(c, t))
    BY <1>1 DEF RecordGet, RecordGetC, RecordHas, ListGet, ListLength, GetField
  <2>2. op \notin {"ITER_SETUP", "ITER_COLLECT"} \cup Makers \cup Appends \cup JumpTargetOps
    BY DEF Makers, Appends, JumpTargetOps, JumpOps
  <2>3. Ordinary
    BY <2>1, <2>2, FetchedOrdinary
  <2>4. QED
    BY <2>1, <2>3, FailCalm, PointCalm, StoreCalm
<1>2. CASE Fail
  BY <1>2, FailCalm
<1>3. QED
  BY <1>1, <1>2 DEF Containers, Changing
------------------------------------------------------------------------------
Under(s) == Within(packet.code, s, pc + 1)

(* Each container under construction, in a slot (s) or in a frame (-i),    *)
(* owns its cells: nobody else's chain, and no preloaded value, has them.  *)
Holding(own) ==
  /\ own \in [Int -> SUBSET (ValNothing + 1 .. Len(mem))]
  /\ \A g, h \in Int : g # h => own[g] \cap own[h] = {}
  /\ \A s \in Slots : Under(s) =>
       /\ val[s] \in ValNothing + 1 .. Len(mem)
       /\ Chained(mem, own[s], mem[val[s]].head, tail[s])
       /\ \A h \in Int : val[s] \notin own[h]
       /\ \A t \in Slots : Under(t) /\ t # s => val[t] # val[s]
  /\ \A i \in 1 .. Len(frames) : Chained(mem, own[-i], frames[i].head, frames[i].last)

FrameNamed(f) ==
  /\ f.elemSlot = packet.code[f.bodyStart].dest
  /\ f.resultDest = packet.code[f.collectPc + 1].dest

WInv ==
  /\ AppendsToOwn(packet.code)
  /\ \A i \in 1 .. Len(frames) : FrameNamed(frames[i])
  /\ \E own : Holding(own)

(* The cells of a container under construction, with its owner if it is in *)
(* a slot.                                                                 *)
Holder(h) == (h \in Slots /\ Under(h)) \/ -h \in 1 .. Len(frames)

Block(own, v, h) == own[h] \cup (IF h \in Slots THEN {v[h]} ELSE {})

(* A step goes on with at most one construction, h: it begins it with the  *)
(* cells it adds, or adds them to it, and changes no other cell.           *)
Grows(own, kept, h) ==
  /\ \E B \in {{}, Block(own, val, h)} :
       /\ B # {} => Holder(h)
       /\ Block(kept, val', h) = B \cup (Len(mem) + 1 .. Len(mem'))
       /\ \A a \in 1 .. Len(mem) : a \notin B => mem'[a] = mem[a]
  /\ \A t \in Slots : t # h => val'[t] \in 0 .. Len(mem)
  /\ \A i \in 1 .. Len(frames') : frames'[i].nextElem \in 0 .. Len(mem)

Carried(own, kept, h) ==
  /\ Holding(kept)'
  /\ \A g \in Int : g # h => kept[g] = own[g]
  /\ \A s \in Slots : Under(s)' /\ s # h => Under(s) /\ val'[s] = val[s]
  /\ \A i \in 1 .. Len(frames') : -i # h => i \in 1 .. Len(frames)
  /\ Holder(h)' => Grows(own, kept, h)

Carries(own) == \E kept : \E h \in Int : Carried(own, kept, h)

(* No step changes a preloaded value.                                      *)
Untouched == \A a \in 1 .. ValNothing : mem'[a] = mem[a]

LEMMA Places ==
  ASSUME MInv
  PROVE  /\ ValNothing \in Nat /\ Len(mem) \in Nat /\ ValNothing <= Len(mem)
         /\ \A s \in Slots : s \in Int /\ s >= 0
<1>1. Len(mem) \in Nat /\ Len(packet.mem) \in Nat /\ Len(packet.mem) + 3 <= Len(mem)
  BY MemorySize DEF MInv
<1>2. QED
  BY <1>1 DEF ValNothing, Slots

(* Steps that leave every next pointer, and what is under construction,    *)
(* alone.                                                                  *)
LEMMA Undisturbed ==
  ASSUME MInv, NEW own, Holding(own), UNCHANGED packet, Len(mem) <= Len(mem'),
         Len(mem') \in Nat,
         \A a \in 1 .. Len(mem) : mem'[a].next = mem[a].next,
         \A s \in Slots : Under(s)' =>
           /\ Under(s) /\ val'[s] = val[s] /\ tail'[s] = tail[s]
           /\ mem'[val[s]].head = mem[val[s]].head,
         \A i \in 1 .. Len(frames') :
           /\ i \in 1 .. Len(frames)
           /\ frames'[i].head = frames[i].head /\ frames'[i].last = frames[i].last
  PROVE  Holding(own)'
<1> DEFINE N == Len(mem)  M == Len(mem')  v == ValNothing
<1>1. N \in Nat /\ M \in Nat /\ N <= M /\ v \in Nat /\ v <= N
  BY Places
<1>2. ValNothing' = v /\ Slots' = Slots
  BY DEF ValNothing, Slots
<1>3. own \in [Int -> SUBSET (v + 1 .. N)]
  BY DEF Holding
<1>4. ASSUME NEW h \in Int, NEW first, NEW last, Chained(mem, own[h], first, last)
      PROVE  Chained(mem', own[h], first, last)
  <2>1. \A x \in own[h] : mem'[x].next = mem[x].next
    BY <1>1, <1>3
  <2>2. QED
    BY <1>4, <2>1 DEF Chained
<1>5. own \in [Int -> SUBSET (ValNothing' + 1 .. Len(mem'))]
  <2>1. v + 1 .. N \subseteq v + 1 .. M
    BY <1>1
  <2>2. QED
    BY <1>2, <1>3, <2>1
<1>6. ASSUME NEW s \in Slots, Under(s)'
      PROVE  /\ val'[s] \in ValNothing' + 1 .. Len(mem')
             /\ Chained(mem', own[s], mem'[val'[s]].head, tail'[s])
             /\ \A h \in Int : val'[s] \notin own[h]
             /\ \A t \in Slots : Under(t)' /\ t # s => val'[t] # val'[s]
  <2>1. /\ Under(s) /\ val'[s] = val[s] /\ tail'[s] = tail[s]
        /\ mem'[val[s]].head = mem[val[s]].head
    BY <1>6
  <2>2. s \in Int
    BY Places
  <2>3. /\ val[s] \in v + 1 .. N
        /\ Chained(mem, own[s], mem[val[s]].head, tail[s])
        /\ \A h \in Int : val[s] \notin own[h]
        /\ \A t \in Slots : Under(t) /\ t # s => val[t] # val[s]
    BY <2>1 DEF Holding
  <2>4. Chained(mem', own[s], mem[val[s]].head, tail[s])
    BY <1>4, <2>2, <2>3
  <2>5. val[s] \in v + 1 .. M
    BY <1>1, <2>3
  <2>6. \A t \in Slots : Under(t)' /\ t # s => val'[t] # val'[s]
    BY <2>1, <2>3
  <2>7. QED
    BY <1>2, <2>1, <2>3, <2>4, <2>5, <2>6
<1>7. \A i \in 1 .. Len(frames') : Chained(mem', own[-i], frames'[i].head, frames'[i].last)
  <2> SUFFICES ASSUME NEW i \in 1 .. Len(frames')
               PROVE  Chained(mem', own[-i], frames'[i].head, frames'[i].last)
    OBVIOUS
  <2>1. /\ i \in 1 .. Len(frames) /\ -i \in Int
        /\ frames'[i].head = frames[i].head /\ frames'[i].last = frames[i].last
    OBVIOUS
  <2>2. Chained(mem, own[-i], frames[i].head, frames[i].last)
    BY <2>1 DEF Holding
  <2>3. QED
    BY <1>4, <2>1, <2>2
<1>8. \A g, h \in Int : g # h => own[g] \cap own[h] = {}
  BY DEF Holding
<1>9. QED
  BY <1>2, <1>5, <1>6, <1>7, <1>8 DEF Holding

(* A calm step, from the place it stands at.                               *)
LEMMA CalmUnder ==
  ASSUME IInv, MInv, Calm, NEW s \in Slots, Under(s)'
  PROVE  Under(s) /\ val'[s] = val[s]
<1> DEFINE code == packet.code  p == pc + 1
<1>1. code \in Seq(Instruction) /\ pc \in Nat /\ packet' = packet
  BY DEF IInv, Calm
<1>2. Within(code, s, pc' + 1)
  BY <1>1 DEF Under
<1>3. CASE UNCHANGED <<val, pc>>
  BY <1>1, <1>2, <1>3 DEF Under
<1>4. CASE UNCHANGED val /\ AtJump /\ pc' \in {pc + 1, d}
  <2>1. p \in DOMAIN code /\ ins = code[p] /\ code[p].op \in JumpTargetOps
    BY <1>4, CurrentInstruction DEF AtJump
  <2>2. code[p].op \notin Makers
    BY <2>1 DEF Makers, JumpTargetOps, JumpOps
  <2>3. CASE pc' = d
    <3>1. Within(code, s, code[p].dest + 1)
      BY <1>2, <2>1, <2>3 DEF d
    <3> HIDE DEF code, p
    <3>2. Within(code, s, p)
      BY <1>1, <2>1, <3>1, JumpEntry
    <3>3. QED
      BY <1>4, <3>2 DEF Under, code, p
  <2>4. CASE pc' = pc + 1
    <3>1. Within(code, s, p + 1)
      BY <1>2, <2>4
    <3> HIDE DEF code, p
    <3>2. Within(code, s, p)
      BY <1>1, <2>1, <2>2, <3>1, PlainEntry
    <3>3. QED
      BY <1>4, <3>2 DEF Under, code, p
  <2>5. QED
    BY <1>4, <2>3, <2>4
<1>5. CASE /\ AtPlain /\ pc' = pc + 1
           /\ ins.op \notin Makers \cup Appends \cup JumpTargetOps
           /\ \A t \in Slots : t # d => val'[t] = val[t]
  <2>1. p \in DOMAIN code /\ ins = code[p]
    BY <1>5, CurrentInstruction DEF AtPlain
  <2>2. Within(code, s, p + 1)
    BY <1>2, <1>5
  <2>3. ins.op \notin Makers /\ ins.op \notin Appends \cup JumpTargetOps
    BY <1>5
  <2> HIDE DEF code, p
  <2>4. Within(code, s, p) /\ ~Overwrites(code, p, s)
    BY <1>1, <2>1, <2>2, <2>3, PlainEntry
  <2>5. s # d
    BY <2>1, <2>3, <2>4 DEF Overwrites, d
  <2>6. QED
    BY <1>5, <2>4, <2>5 DEF Under, code, p
<1>6. QED
  BY <1>3, <1>4, <1>5 DEF Calm

(* A step that goes on with no construction.                               *)
LEMMA NoneGrows ==
  ASSUME MInv, MInv', NEW own, Holding(own)', UNCHANGED packet,
         \A s \in Slots : Under(s)' => Under(s) /\ val'[s] = val[s],
         \A i \in 1 .. Len(frames') : i \in 1 .. Len(frames)
  PROVE  Carries(own)
<1>1. Len(frames) \in Nat /\ Slots' = Slots /\ \A s \in Slots : s \in Int /\ s >= 0
  BY Places DEF MInv, Slots
<1>2. PICK h \in Int : h = -(Len(frames) + 1) /\ h < 0 /\ -h = Len(frames) + 1
  BY <1>1
<1>3. ~Holder(h)'
  <2>1. h \notin Slots' /\ -h \notin 1 .. Len(frames)
    BY <1>1, <1>2
  <2>2. QED
    BY <2>1 DEF Holder
<1>4. Carried(own, own, h)
  BY <1>3 DEF Carried
<1>5. QED
  BY <1>4 DEF Carries

LEMMA CalmWInv ==
  ASSUME IInv, MInv, MInv', WInv, Calm, NEW own, Holding(own)
  PROVE  WInv' /\ Untouched /\ Carries(own)
<1>2. /\ Len(mem) <= Len(mem') /\ \A a \in 1 .. Len(mem) : mem'[a] = mem[a]
      /\ UNCHANGED <<packet, tail, frames>>
  BY DEF Calm, Extends
<1>3. Len(mem') \in Nat
  BY SequenceFact DEF MInv, IsMemory
<1>4. ValNothing \in Nat /\ Len(mem) \in Nat /\ ValNothing <= Len(mem)
  BY Places
<1>5. ASSUME NEW s \in Slots, Under(s)'
      PROVE  /\ Under(s) /\ val'[s] = val[s] /\ tail'[s] = tail[s]
             /\ mem'[val[s]].head = mem[val[s]].head
  <2>1. Under(s) /\ val'[s] = val[s]
    BY <1>5, CalmUnder
  <2>2. val[s] \in 1 .. Len(mem)
    BY <1>4, <2>1 DEF Holding
  <2>3. QED
    BY <1>2, <2>1, <2>2
<1>6. \A i \in 1 .. Len(frames') :
        /\ i \in 1 .. Len(frames)
        /\ frames'[i].head = frames[i].head /\ frames'[i].last = frames[i].last
  BY <1>2
<1>7. \A a \in 1 .. Len(mem) : mem'[a].next = mem[a].next
  BY <1>2
<1>8. Holding(own)'
  BY <1>2, <1>3, <1>5, <1>6, <1>7, Undisturbed
<1>9. Untouched
  BY <1>2, <1>4 DEF Untouched
<1>10. AppendsToOwn(packet.code)' /\ \A i \in 1 .. Len(frames') : FrameNamed(frames[i])'
  BY <1>2 DEF WInv, FrameNamed
<1>11. Carries(own)
  BY <1>2, <1>5, <1>6, <1>8, NoneGrows
<1>12. QED
  BY <1>8, <1>9, <1>10, <1>11 DEF WInv
------------------------------------------------------------------------------
(* Steps that change the cells of one holder, h: it keeps cells of its own *)
(* and takes new ones.                                                     *)
LEMMA Reheld ==
  ASSUME MInv, NEW own, Holding(own), UNCHANGED packet, Len(mem) <= Len(mem'),
         Len(mem') \in Nat, NEW h \in Int,
         NEW C, C \subseteq own[h] \cup (Len(mem) + 1 .. Len(mem')),
         \A a \in 1 .. Len(mem) : a \notin own[h] => mem'[a].next = mem[a].next,
         \A s \in Slots : Under(s)' /\ s # h =>
           /\ Under(s) /\ val'[s] = val[s] /\ tail'[s] = tail[s]
           /\ mem'[val[s]].head = mem[val[s]].head,
         \A s \in Slots : Under(s)' /\ s = h =>
           /\ val'[s] \in ValNothing + 1 .. Len(mem')
           /\ Chained(mem', C, mem'[val'[s]].head, tail'[s])
           /\ val'[s] \notin C /\ \A g \in Int : g # h => val'[s] \notin own[g]
           /\ \A t \in Slots : Under(t) /\ t # s => val[t] # val'[s],
         \A i \in 1 .. Len(frames') : -i # h =>
           /\ i \in 1 .. Len(frames)
           /\ frames'[i].head = frames[i].head /\ frames'[i].last = frames[i].last,
         \A i \in 1 .. Len(frames') : -i = h =>
           Chained(mem', C, frames'[i].head, frames'[i].last)
  PROVE  Holding([own EXCEPT ![h] = C])'
<1> DEFINE N == Len(mem)  M == Len(mem')  v == ValNothing
<1>1. N \in Nat /\ M \in Nat /\ N <= M /\ v \in Nat /\ v <= N
  BY Places
<1>2. ValNothing' = v /\ Slots' = Slots
  BY DEF ValNothing, Slots
<1>3. /\ own \in [Int -> SUBSET (v + 1 .. N)]
      /\ \A f, g \in Int : f # g => own[f] \cap own[g] = {}
  BY DEF Holding
<1>4. PICK new : new = [own EXCEPT ![h] = C]
  OBVIOUS
<1>5. new[h] = C /\ \A g \in Int : g # h => new[g] = own[g]
  BY <1>3, <1>4
<1>6. C \subseteq v + 1 .. M
  <2>1. own[h] \subseteq v + 1 .. N
    BY <1>3
  <2>2. v + 1 .. N \subseteq v + 1 .. M /\ N + 1 .. M \subseteq v + 1 .. M
    BY <1>1
  <2>3. QED
    BY <2>1, <2>2
<1>7. new \in [Int -> SUBSET (ValNothing' + 1 .. Len(mem'))]
  <2>1. v + 1 .. N \subseteq v + 1 .. M
    BY <1>1
  <2>2. QED
    BY <1>2, <1>3, <1>4, <1>6, <2>1
<1>8. ASSUME NEW g \in Int, g # h PROVE own[g] \cap C = {}
  <2>1. own[g] \cap own[h] = {} /\ own[g] \subseteq v + 1 .. N
    BY <1>3, <1>8
  <2>2. \A a \in N + 1 .. M : a \notin v + 1 .. N
    BY <1>1
  <2>3. QED
    BY <2>1, <2>2
<1>9. \A f, g \in Int : f # g => new[f] \cap new[g] = {}
  BY <1>3, <1>5, <1>8
<1>10. ASSUME NEW g \in Int, g # h, NEW first, NEW last, Chained(mem, own[g], first, last)
       PROVE  Chained(mem', own[g], first, last)
  <2>1. \A x \in own[g] : x \in 1 .. N /\ x \notin own[h]
    <3>1. v + 1 .. N \subseteq 1 .. N
      BY <1>1
    <3>2. QED
      BY <1>3, <1>10, <3>1
  <2>2. \A x \in own[g] : mem'[x].next = mem[x].next
    BY <2>1
  <2>3. QED
    BY <1>10, <2>2 DEF Chained
<1>11. ASSUME NEW s \in Slots, Under(s)', s # h
       PROVE  /\ val'[s] \in v + 1 .. M
              /\ Chained(mem', new[s], mem'[val'[s]].head, tail'[s])
              /\ \A g \in Int : val'[s] \notin new[g]
              /\ \A t \in Slots : Under(t)' /\ t # s => val'[t] # val'[s]
  <2>1. /\ Under(s) /\ val'[s] = val[s] /\ tail'[s] = tail[s]
        /\ mem'[val[s]].head = mem[val[s]].head
    BY <1>11
  <2>2. s \in Int
    BY Places
  <2>3. /\ val[s] \in v + 1 .. N
        /\ Chained(mem, own[s], mem[val[s]].head, tail[s])
        /\ \A g \in Int : val[s] \notin own[g]
        /\ \A t \in Slots : Under(t) /\ t # s => val[t] # val[s]
    BY <2>1 DEF Holding
  <2>4. Chained(mem', own[s], mem[val[s]].head, tail[s])
    BY <1>10, <1>11, <2>2, <2>3
  <2>5. val[s] \in v + 1 .. M /\ val[s] \notin N + 1 .. M
    BY <1>1, <2>3
  <2>6. val[s] \notin C
    BY <2>3, <2>5
  <2>7. \A t \in Slots : Under(t)' /\ t # s => val'[t] # val'[s]
    BY <2>1, <2>3
  <2>8. new[s] = own[s] /\ \A g \in Int : val[s] \notin new[g]
    BY <1>5, <1>11, <2>2, <2>3, <2>6
  <2>9. QED
    BY <2>1, <2>4, <2>5, <2>7, <2>8
<1>12. ASSUME NEW s \in Slots, Under(s)', s = h
       PROVE  /\ val'[s] \in v + 1 .. M
              /\ Chained(mem', new[s], mem'[val'[s]].head, tail'[s])
              /\ \A g \in Int : val'[s] \notin new[g]
              /\ \A t \in Slots : Under(t)' /\ t # s => val'[t] # val'[s]
  <2>1. /\ val'[s] \in v + 1 .. M
        /\ Chained(mem', C, mem'[val'[s]].head, tail'[s])
        /\ val'[s] \notin C /\ \A g \in Int : g # h => val'[s] \notin own[g]
        /\ \A t \in Slots : Under(t) /\ t # s => val[t] # val'[s]
    BY <1>12
  <2>2. \A t \in Slots : Under(t)' /\ t # s => Under(t) /\ val'[t] = val[t]
    BY <1>12
  <2>3. new[s] = C /\ \A g \in Int : val'[s] \notin new[g]
    BY <1>5, <1>12, <2>1
  <2>4. QED
    BY <2>1, <2>2, <2>3
<1>13. \A i \in 1 .. Len(frames') : Chained(mem', new[-i], frames'[i].head, frames'[i].last)
  <2> SUFFICES ASSUME NEW i \in 1 .. Len(frames')
               PROVE  Chained(mem', new[-i], frames'[i].head, frames'[i].last)
    OBVIOUS
  <2>1. CASE -i = h
    BY <1>5, <2>1
  <2>2. CASE -i # h
    <3>1. /\ i \in 1 .. Len(frames) /\ -i \in Int
          /\ frames'[i].head = frames[i].head /\ frames'[i].last = frames[i].last
      BY <2>2
    <3>2. Chained(mem, own[-i], frames[i].head, frames[i].last)
      BY <3>1 DEF Holding
    <3>3. new[-i] = own[-i]
      BY <1>5, <2>2, <3>1
    <3>4. QED
      BY <1>10, <2>2, <3>1, <3>2, <3>3
  <2>3. QED
    BY <2>1, <2>2
<1>14. Holding(new)'
  BY <1>2, <1>7, <1>9, <1>11, <1>12, <1>13 DEF Holding
<1>15. QED
  BY <1>4, <1>14

(* Falling through an instruction.                                         *)
LEMMA PlainUnder ==
  ASSUME IInv, pc < Len(packet.code), UNCHANGED packet, pc' = pc + 1, NEW s, Under(s)'
  PROVE  \/ ins.op \in Makers /\ d = s
         \/ Under(s) /\ (d = s => ins.op \in Appends \cup JumpTargetOps)
<1> DEFINE code == packet.code  p == pc + 1
<1>1. code \in Seq(Instruction) /\ p \in DOMAIN code /\ ins = code[p]
  BY CurrentInstruction DEF IInv
<1>2. Within(code, s, p + 1)
  BY DEF Under
<1> HIDE DEF code, p
<1>3. \/ code[p].op \in Makers /\ code[p].dest = s
      \/ Within(code, s, p) /\ ~Overwrites(code, p, s)
  BY <1>1, <1>2, PlainEntry
<1>4. QED
  BY <1>1, <1>3 DEF Under, Overwrites, d, code, p

(* The slot an append changes is one the packet builds its own value in.   *)
LEMMA AppendUnder ==
  ASSUME IInv, WInv, pc < Len(packet.code), ins.op \in Appends
  PROVE  Under(d)
<1> DEFINE code == packet.code  p == pc + 1
<1>1. code \in Seq(Instruction) /\ p \in DOMAIN code /\ ins = code[p] /\ pc \in Nat
  BY CurrentInstruction DEF IInv
<1>2. PICK c \in 1 .. p - 1 : Builds(code, c, p)
  BY <1>1 DEF WInv, AppendsToOwn
<1>3. c \in DOMAIN code /\ c < p /\ p \in c + 1 .. p
  <2>1. p <= Len(code) /\ Len(code) \in Nat /\ DOMAIN code = 1 .. Len(code)
    BY <1>1
  <2>2. p \in Nat
    BY <1>1
  <2> HIDE DEF code, p
  <2>3. QED
    BY <1>2, <2>1, <2>2
<1>4. QED
  BY <1>1, <1>2, <1>3 DEF Under, Within, d

LEMMA Overseen ==
  ASSUME IInv, MInv, pc < Len(packet.code), status = "running",
         ins.op \in Makers \cup Appends
  PROVE  d \in Slots /\ d \in Int /\ d >= 0
<1>1. d \in Slots
  BY Named DEF Makers, Appends, JumpTargetOps, JumpOps
<1>2. QED
  BY <1>1, Places

(* The rest of WInv is about the packet and the frames.                    *)
LEMMA HeldAgain ==
  ASSUME WInv, UNCHANGED packet, NEW own, Holding(own)',
         \A i \in 1 .. Len(frames') : FrameNamed(frames'[i])
  PROVE  WInv'
  BY DEF WInv, FrameNamed
------------------------------------------------------------------------------
LEMMA Making ==
  ASSUME IInv, MInv, MInv', WInv, NEW own, Holding(own), Extends, UNCHANGED <<packet, frames>>,
         status = "running", pc < Len(packet.code), ins.op \in Makers, pc' = pc + 1,
         NEW a \in Len(mem) + 1 .. Len(mem'), NEW l,
         val' = [val EXCEPT ![d] = a], tail' = [tail EXCEPT ![d] = l],
         NEW C, C \subseteq Len(mem) + 1 .. Len(mem'),
         Chained(mem', C, mem'[a].head, l), a \notin C,
         C \cup {a} = Len(mem) + 1 .. Len(mem')
  PROVE  WInv' /\ Untouched /\ Carries(own)
<1>1. Holding(own)
  OBVIOUS
<1>2. d \in Slots /\ d \in Int /\ d >= 0
  BY Overseen
<1>3. /\ Len(mem') \in Nat /\ Len(mem) <= Len(mem')
      /\ \A b \in 1 .. Len(mem) : mem'[b] = mem[b]
  BY SequenceFact DEF MInv, IsMemory, Extends
<1>4. ValNothing \in Nat /\ Len(mem) \in Nat /\ ValNothing <= Len(mem)
  BY Places
<1>5. ASSUME NEW s \in Slots, Under(s)', s # d
      PROVE  /\ Under(s) /\ val'[s] = val[s] /\ tail'[s] = tail[s]
             /\ mem'[val[s]].head = mem[val[s]].head
  <2>1. Under(s)
    BY <1>5, PlainUnder
  <2>2. val[s] \in 1 .. Len(mem)
    BY <1>1, <1>4, <2>1 DEF Holding
  <2>3. val'[s] = val[s] /\ tail'[s] = tail[s]
    BY <1>5 DEF MInv
  <2>4. QED
    BY <1>3, <2>1, <2>2, <2>3
<1>6. val'[d] = a /\ tail'[d] = l
  BY <1>2 DEF MInv
<1>7. /\ a \in ValNothing + 1 .. Len(mem') /\ \A g \in Int : a \notin own[g]
      /\ \A t \in Slots : Under(t) => val[t] # a
  <2>1. a \notin ValNothing + 1 .. Len(mem) /\ a \in ValNothing + 1 .. Len(mem')
    BY <1>3, <1>4
  <2>2. QED
    BY <1>1, <2>1 DEF Holding
<1>8. \A i \in 1 .. Len(frames') :
        /\ i \in 1 .. Len(frames) /\ -i # d
        /\ frames'[i].head = frames[i].head /\ frames'[i].last = frames[i].last
  <2>1. \A i \in 1 .. Len(frames) : -i # d
    BY <1>2
  <2>2. QED
    BY <2>1
<1>9. C \subseteq own[d] \cup (Len(mem) + 1 .. Len(mem'))
  OBVIOUS
<1>10. \A b \in 1 .. Len(mem) : b \notin own[d] => mem'[b].next = mem[b].next
  BY <1>3
<1>11. \A s \in Slots : Under(s)' /\ s = d =>
         /\ val'[s] \in ValNothing + 1 .. Len(mem')
         /\ Chained(mem', C, mem'[val'[s]].head, tail'[s])
         /\ val'[s] \notin C /\ \A g \in Int : g # d => val'[s] \notin own[g]
         /\ \A t \in Slots : Under(t) /\ t # s => val[t] # val'[s]
  BY <1>6, <1>7
<1>12. PICK h \in Int : h = d
  BY <1>2
<1>13. Holding([own EXCEPT ![h] = C])'
  <2>1. C \subseteq own[h] \cup (Len(mem) + 1 .. Len(mem'))
    BY <1>9
  <2>2. \A b \in 1 .. Len(mem) : b \notin own[h] => mem'[b].next = mem[b].next
    BY <1>10, <1>12
  <2>3. \A s \in Slots : Under(s)' /\ s # h =>
           /\ Under(s) /\ val'[s] = val[s] /\ tail'[s] = tail[s]
           /\ mem'[val[s]].head = mem[val[s]].head
    BY <1>5, <1>12
  <2>4. \A s \in Slots : Under(s)' /\ s = h =>
           /\ val'[s] \in ValNothing + 1 .. Len(mem')
           /\ Chained(mem', C, mem'[val'[s]].head, tail'[s])
           /\ val'[s] \notin C /\ \A g \in Int : g # h => val'[s] \notin own[g]
           /\ \A t \in Slots : Under(t) /\ t # s => val[t] # val'[s]
    BY <1>11, <1>12
  <2>5. \A i \in 1 .. Len(frames') : -i # h =>
           /\ i \in 1 .. Len(frames)
           /\ frames'[i].head = frames[i].head /\ frames'[i].last = frames[i].last
    BY <1>8
  <2>6. \A i \in 1 .. Len(frames') : -i = h =>
           Chained(mem', C, frames'[i].head, frames'[i].last)
    BY <1>8, <1>12
  <2>7. QED
    BY <1>1, <1>3, <2>1, <2>2, <2>3, <2>4, <2>5, <2>6, Reheld
<1>14. WInv'
  <2>1. \A i \in 1 .. Len(frames') : FrameNamed(frames'[i])
    BY DEF WInv
  <2>2. QED
    BY <1>13, <2>1, HeldAgain
<1>15. Untouched
  BY <1>3, <1>4 DEF Untouched
<1>16. Carries(own)
  <2>1. PICK kept : kept = [own EXCEPT ![h] = C]
    OBVIOUS
  <2>2. kept[h] = C /\ \A g \in Int : g # h => kept[g] = own[g]
    BY <1>1, <2>1 DEF Holding
  <2>3. /\ \A t \in Slots : t # h => val'[t] \in 0 .. Len(mem)
        /\ \A i \in 1 .. Len(frames') : frames'[i].nextElem \in 0 .. Len(mem)
    <3>1. \A t \in Slots : t # h => val'[t] = val[t]
      BY <1>12 DEF MInv
    <3>2. \A t \in Slots : val[t] \in 0 .. Len(mem)
      BY SlotHolds
    <3>3. \A i \in 1 .. Len(frames) : frames[i].nextElem \in 0 .. Len(mem)
      BY DEF MInv, FrameSound, Pointers
    <3>4. QED
      BY <3>1, <3>2, <3>3
  <2>4. Block(kept, val', h) = {} \cup (Len(mem) + 1 .. Len(mem'))
    BY <1>2, <1>6, <1>12, <2>2 DEF Block
  <2>5. Grows(own, kept, h)
    BY <1>3, <2>3, <2>4 DEF Grows
  <2>6. Holding(kept)'
    BY <1>13, <2>1
  <2>7. /\ \A s \in Slots : Under(s)' /\ s # h => Under(s) /\ val'[s] = val[s]
        /\ \A i \in 1 .. Len(frames') : -i # h => i \in 1 .. Len(frames)
    BY <1>5, <1>8, <1>12
  <2>8. Carried(own, kept, h)
    BY <2>2, <2>5, <2>6, <2>7 DEF Carried
  <2>9. QED
    BY <2>8 DEF Carries
<1>17. QED
  BY <1>14, <1>15, <1>16

LEMMA MadeWInv ==
  ASSUME IInv, MInv, MInv', WInv, NEW own, Holding(own), RecordNew \/ ListNew \/ RecordNewSetC, ~Fail
  PROVE  WInv' /\ Untouched /\ Carries(own)
<1>1. Len(mem) \in Nat /\ IsSequence(mem)
  BY MemorySize DEF MInv, IsMemory
<1>2. CASE RecordNew \/ ListNew
  <2>1. PICK c : /\ NewContainer(c) /\ c.head = NULL
                 /\ status = "running" /\ pc < Len(packet.code) /\ ins.op \in Makers
    BY <1>2 DEF RecordNew, ListNew, Fetched, Makers, RecordCell, ListCell, Cell
  <2>2. /\ mem' = Append(mem, c) /\ val' = [val EXCEPT ![d] = Len(mem) + 1]
        /\ tail' = [tail EXCEPT ![d] = NULL] /\ pc' = pc + 1
        /\ UNCHANGED <<packet, frames>>
    BY <2>1 DEF NewContainer, Assign
  <2>3. /\ Len(mem') = Len(mem) + 1 /\ mem'[Len(mem) + 1] = c
        /\ \A b \in 1 .. Len(mem) : mem'[b] = mem[b]
    BY <1>1, <2>2, AppendAny
  <2>4. PICK a \in Len(mem) + 1 .. Len(mem') : a = Len(mem) + 1
    BY <1>1, <2>3
  <2>5. Extends
    BY <1>1, <2>3 DEF Extends
  <2>6. PICK l, C : l = NULL /\ C = {}
    OBVIOUS
  <2>7. /\ Chained(mem', C, mem'[a].head, l) /\ a \notin C
        /\ C \cup {a} = Len(mem) + 1 .. Len(mem')
        /\ C \subseteq Len(mem) + 1 .. Len(mem')
        /\ val' = [val EXCEPT ![d] = a] /\ tail' = [tail EXCEPT ![d] = l]
    BY <1>1, <2>1, <2>2, <2>3, <2>4, <2>6 DEF Chained
  <2>8. QED
    BY <2>1, <2>2, <2>5, <2>7, Making
<1>3. CASE RecordNewSetC
  <2>1. PICK f, c :
          /\ mem' = mem \o <<f, c>> /\ f.next = NULL /\ c.head = Len(mem) + 1
          /\ val' = [val EXCEPT ![d] = Len(mem) + 1 + 1]
          /\ tail' = [tail EXCEPT ![d] = Len(mem) + 1] /\ pc' = pc + 1
          /\ UNCHANGED <<packet, frames>>
          /\ status = "running" /\ pc < Len(packet.code) /\ ins.op \in Makers
    <3>1. /\ mem' = mem \o <<FieldCell(mem[Constant(ins.o1)].s, V2), RecordCell(Len(mem) + 1)>>
          /\ Assign(d, Len(mem) + 1 + 1, tags[ins.o2])
          /\ tail' = [tail EXCEPT ![d] = Len(mem) + 1] /\ pc' = pc + 1
          /\ UNCHANGED <<packet, frames>>
          /\ Fetched("RECORD_NEW_SET_C")
      BY <1>3 DEF RecordNewSetC
    <3>2. \A s, v : FieldCell(s, v).next = NULL /\ RecordCell(v).head = v
      BY DEF FieldCell, RecordCell, Cell
    <3>3. ins.op \in Makers /\ status = "running" /\ pc < Len(packet.code)
      BY <3>1 DEF Fetched, Makers
    <3>4. PICK f, c : f = FieldCell(mem[Constant(ins.o1)].s, V2) /\ c = RecordCell(Len(mem) + 1)
      OBVIOUS
    <3>5. f.next = NULL /\ c.head = Len(mem) + 1 /\ mem' = mem \o <<f, c>>
      BY <3>1, <3>2, <3>4
    <3>6. val' = [val EXCEPT ![d] = Len(mem) + 1 + 1]
      BY <3>1 DEF Assign
    <3>7. QED
      BY <3>1, <3>3, <3>5, <3>6
  <2>2. /\ Len(mem') = Len(mem) + 2 /\ mem'[Len(mem) + 1] = f /\ mem'[Len(mem) + 2] = c
        /\ \A b \in 1 .. Len(mem) : mem'[b] = mem[b]
    <3>1. PICK t : t = <<f, c>>
      OBVIOUS
    <3>2. t \in Seq({f, c}) /\ Len(t) = 2 /\ t[1] = f /\ t[2] = c
      BY <3>1
    <3>3. IsSequence(t)
      BY <3>2 DEF IsSequence
    <3>4. /\ Len(mem \o t) = Len(mem) + Len(t)
          /\ \A i \in 1 .. Len(mem) : (mem \o t)[i] = mem[i]
          /\ \A i \in 1 .. Len(t) : (mem \o t)[Len(mem) + i] = t[i]
      BY <1>1, <3>3, ConcatFact
    <3>5. 1 \in 1 .. Len(t) /\ 2 \in 1 .. Len(t) /\ mem' = mem \o t
      BY <2>1, <3>1, <3>2
    <3>6. QED
      BY <3>2, <3>4, <3>5
  <2>3. PICK a \in Len(mem) + 1 .. Len(mem') : a = Len(mem) + 2 /\ a = Len(mem) + 1 + 1
    BY <1>1, <2>2
  <2>4. PICK l \in Len(mem) + 1 .. Len(mem') : l = Len(mem) + 1 /\ l # a /\ l # NULL
    BY <1>1, <2>2, <2>3 DEF NULL
  <2>5. Extends
    BY <1>1, <2>2 DEF Extends
  <2>6. mem'[a].head = l /\ mem'[l].next = NULL
    BY <2>1, <2>2, <2>3, <2>4
  <2>7. Chained(mem', {l}, mem'[a].head, l) /\ a \notin {l}
        /\ {l} \subseteq Len(mem) + 1 .. Len(mem')
    BY <2>4, <2>6 DEF Chained
  <2>8. val' = [val EXCEPT ![d] = a] /\ tail' = [tail EXCEPT ![d] = l]
    BY <2>1, <2>3, <2>4
  <2>9. PICK C : C = {l}
    OBVIOUS
  <2>10. C \cup {a} = Len(mem) + 1 .. Len(mem')
    BY <1>1, <2>2, <2>3, <2>4, <2>9
  <2>11. QED
    BY <2>1, <2>5, <2>7, <2>8, <2>9, <2>10, Making
<1>4. QED
  BY <1>2, <1>3

(* What an append finds in the slot it changes.                            *)
LEMMA Own ==
  ASSUME IInv, MInv, WInv, NEW own, Holding(own), status = "running",
         pc < Len(packet.code), ins.op \in Appends
  PROVE  /\ d \in Slots /\ d \in Int /\ d >= 0
         /\ val[d] \in ValNothing + 1 .. Len(mem)
         /\ Chained(mem, own[d], mem[val[d]].head, tail[d])
         /\ \A h \in Int : val[d] \notin own[h]
         /\ \A t \in Slots : Under(t) /\ t # d => val[t] # val[d]
         /\ own[d] \subseteq ValNothing + 1 .. Len(mem)
<1>1. d \in Slots /\ d \in Int /\ d >= 0
  BY Overseen
<1>2. Under(d)
  BY AppendUnder
<1>3. QED
  BY <1>1, <1>2 DEF Holding

(* The cell behind which a fresh one is linked, x, and its links then.     *)
LEMMA LinkFreshCells ==
  ASSUME MInv, d \in Slots, NEW C, C \subseteq 1 .. Len(mem), val[d] \in 1 .. Len(mem),
         val[d] \notin C, Chained(mem, C, mem[val[d]].head, tail[d]),
         NEW c, Loose(c, Len(mem)), LinkFresh(c)
  PROVE  /\ Len(mem') = Len(mem) + 1 /\ tail' = [tail EXCEPT ![d] = Len(mem) + 1]
         /\ Chained(mem', C \cup {Len(mem) + 1}, mem'[val[d]].head, Len(mem) + 1)
         /\ \A a \in 1 .. Len(mem) : a \notin C => mem'[a].next = mem[a].next
         /\ \A a \in 1 .. Len(mem) : a \notin C \cup {val[d]} => mem'[a] = mem[a]
<1> DEFINE n == Len(mem)  grown == Append(mem, c)  first == mem[val[d]].head
<1>1. n \in Nat /\ IsMemory(mem) /\ IsSequence(mem)
  BY MemorySize DEF MInv, IsMemory
<1>2. /\ IsMemory(grown) /\ Len(grown) = n + 1 /\ \A a \in 1 .. n : grown[a] = mem[a]
      /\ grown[n + 1] = c
  BY <1>1, Added, AppendAny
<1>3. c.next = NULL /\ n + 1 # NULL /\ n + 1 \notin C /\ NULL \notin C
      /\ n + 1 \notin 1 .. n
  BY <1>1 DEF Loose, NULL
<1>4. /\ tail' = [tail EXCEPT ![d] = n + 1]
      /\ tail[d] # NULL => mem' = [grown EXCEPT ![tail[d]].next = n + 1]
      /\ tail[d] = NULL /\ first = NULL => mem' = [grown EXCEPT ![val[d]].head = n + 1]
  BY DEF LinkFresh
<1> HIDE DEF grown, n
<1>5. \A a \in 1 .. n : a \in 1 .. n + 1 /\ a # n + 1
  BY <1>1, <1>3
<1>6. n + 1 \in 1 .. n + 1
  BY <1>1
<1>7. CASE tail[d] # NULL
  <2>1. tail[d] \in C /\ tail[d] \in 1 .. n
    BY <1>7 DEF Chained, n
  <2>2. PICK x \in 1 .. Len(grown) : x = tail[d]
    BY <1>2, <1>5, <2>1
  <2>3. /\ mem'[x].next = n + 1 /\ mem'[x].head = grown[x].head
        /\ \A a \in 1 .. Len(grown) : a # x => mem'[a] = grown[a]
    <3>1. PICK g, m, b : g = grown /\ m = mem' /\ b = n + 1
      OBVIOUS
    <3>2. IsMemory(g) /\ x \in 1 .. Len(g) /\ m = [g EXCEPT ![x].next = b]
      BY <1>2, <1>4, <1>7, <2>2, <3>1
    <3>3. m[x].next = b /\ m[x].head = g[x].head
          /\ \A a \in 1 .. Len(g) : a # x => m[a] = g[a]
      BY <3>2, NextSet
    <3>4. QED
      BY <3>1, <3>3
  <2>4. \A a \in 1 .. n : a # x => mem'[a] = mem[a]
    BY <1>2, <1>5, <2>3
  <2>5. mem'[n + 1].next = NULL
    BY <1>2, <1>3, <1>5, <1>6, <2>1, <2>2, <2>3
  <2>6. mem'[val[d]].head = first
    BY <2>1, <2>2, <2>4 DEF n
  <2>7. \A a \in C : a # tail[d] => mem'[a].next = mem[a].next
    BY <2>2, <2>4 DEF n
  <2>8. PICK last, new : last = tail[d] /\ new = n + 1
    OBVIOUS
  <2>9. Chained(mem', C \cup {new}, first, new)
    <3>1. PICK m, k, start : m = mem /\ k = mem' /\ start = first
      OBVIOUS
    <3>2. Chained(m, C, start, last) /\ NULL \notin C
      BY <1>3, <2>8, <3>1
    <3>3. k[new].next = NULL /\ new \notin C /\ new # NULL
      BY <1>3, <2>5, <2>8, <3>1
    <3>4. /\ \A a \in C : a # last => k[a].next = m[a].next
          /\ k[last].next = new /\ last # NULL
      BY <1>7, <2>2, <2>3, <2>7, <2>8, <3>1
    <3>5. Chained(k, C \cup {new}, start, new)
      BY <3>2, <3>3, <3>4 DEF Chained
    <3>6. QED
      BY <3>1, <3>5
  <2>10. Len(mem') = n + 1
    <3>1. \A a : Len([grown EXCEPT ![x] = a]) = n + 1
      BY <1>2, ExceptAny DEF IsMemory
    <3>2. mem' = [grown EXCEPT ![x] = [@ EXCEPT !.next = n + 1]]
      BY <1>4, <1>7, <2>2
    <3>3. QED
      BY <3>1, <3>2
  <2>11. QED
    BY <1>4, <1>7, <2>1, <2>2, <2>4, <2>6, <2>8, <2>9, <2>10 DEF n
<1>8. CASE tail[d] = NULL
  <2>1. first = NULL /\ C = {}
    BY <1>8 DEF Chained
  <2>2. PICK x \in 1 .. Len(grown) : x = val[d]
    BY <1>2, <1>5 DEF n
  <2>3. /\ mem'[x].head = n + 1 /\ mem'[x].next = grown[x].next
        /\ \A a \in 1 .. Len(grown) : a # x => mem'[a] = grown[a]
    <3>1. PICK g, m, b : g = grown /\ m = mem' /\ b = n + 1
      OBVIOUS
    <3>2. IsMemory(g) /\ x \in 1 .. Len(g) /\ m = [g EXCEPT ![x].head = b]
      BY <1>2, <1>4, <1>8, <2>1, <2>2, <3>1
    <3>3. m[x].head = b /\ m[x].next = g[x].next
          /\ \A a \in 1 .. Len(g) : a # x => m[a] = g[a]
      BY <3>2, HeadSet
    <3>4. QED
      BY <3>1, <3>3
  <2>4. \A a \in 1 .. n : a # x => mem'[a] = mem[a]
    BY <1>2, <1>5, <2>3
  <2>5. x \in 1 .. n /\ mem'[x].next = mem[x].next
    BY <1>2, <2>2, <2>3 DEF n
  <2>6. mem'[n + 1].next = NULL
    BY <1>2, <1>3, <1>5, <1>6, <2>3, <2>5
  <2>7. Chained(mem', {n + 1}, n + 1, n + 1)
    BY <1>3, <2>6 DEF Chained
  <2>8. Len(mem') = n + 1
    <3>1. \A a : Len([grown EXCEPT ![x] = a]) = n + 1
      BY <1>2, ExceptAny DEF IsMemory
    <3>2. mem' = [grown EXCEPT ![x] = [@ EXCEPT !.head = n + 1]]
      BY <1>4, <1>8, <2>1, <2>2
    <3>3. QED
      BY <3>1, <3>2
  <2>9. C \cup {n + 1} = {n + 1} /\ mem'[val[d]].head = n + 1
    BY <2>1, <2>2, <2>3
  <2>10. \A a \in 1 .. n : mem'[a].next = mem[a].next
    BY <2>4, <2>5
  <2>11. QED
    BY <1>4, <2>2, <2>4, <2>7, <2>8, <2>9, <2>10 DEF n
<1>9. QED
  BY <1>7, <1>8

LEMMA Linking ==
  ASSUME IInv, MInv, MInv', WInv, NEW own, Holding(own), UNCHANGED <<packet, frames, val>>,
         status = "running", pc < Len(packet.code), ins.op \in Appends, pc' = pc + 1,
         NEW c, Loose(c, Len(mem)), LinkFresh(c)
  PROVE  WInv' /\ Untouched /\ Carries(own)
<1>1. Holding(own)
  OBVIOUS
<1>2. PICK h \in Int : h = d
  BY Overseen
<1>3. /\ h \in Slots /\ h >= 0 /\ val[h] \in ValNothing + 1 .. Len(mem)
      /\ Chained(mem, own[h], mem[val[h]].head, tail[h])
      /\ \A g \in Int : val[h] \notin own[g]
      /\ \A t \in Slots : Under(t) /\ t # h => val[t] # val[h]
      /\ own[h] \subseteq ValNothing + 1 .. Len(mem)
  BY <1>1, <1>2, Own
<1>4. ValNothing \in Nat /\ Len(mem) \in Nat /\ ValNothing <= Len(mem)
  BY Places
<1>5. own[h] \subseteq 1 .. Len(mem) /\ val[h] \in 1 .. Len(mem)
  BY <1>3, <1>4
<1>6. PICK C : C = own[h]
  OBVIOUS
<1>7. PICK new : new = Len(mem) + 1
  OBVIOUS
<1>8. /\ Len(mem') = new /\ tail' = [tail EXCEPT ![h] = new]
      /\ Chained(mem', C \cup {new}, mem'[val[h]].head, new)
      /\ \A a \in 1 .. Len(mem) : a \notin C => mem'[a].next = mem[a].next
      /\ \A a \in 1 .. Len(mem) : a \notin C \cup {val[h]} => mem'[a] = mem[a]
  <2>1. /\ d \in Slots /\ C \subseteq 1 .. Len(mem) /\ val[d] \in 1 .. Len(mem)
        /\ val[d] \notin C /\ Chained(mem, C, mem[val[d]].head, tail[d])
    BY <1>2, <1>3, <1>5, <1>6
  <2>2. QED
    BY <1>2, <1>7, <2>1, LinkFreshCells
<1>9. new \in Nat /\ Len(mem) <= new /\ new \in Len(mem) + 1 .. new
      /\ \A a \in ValNothing + 1 .. Len(mem) : a \in ValNothing + 1 .. new /\ a # new
  BY <1>4, <1>7
<1>10. ASSUME NEW s \in Slots, Under(s)', s # h
       PROVE  /\ Under(s) /\ val'[s] = val[s] /\ tail'[s] = tail[s]
              /\ mem'[val[s]].head = mem[val[s]].head
  <2>1. Under(s)
    BY <1>2, <1>10, PlainUnder
  <2>2. val[s] \in ValNothing + 1 .. Len(mem) /\ val[s] \notin own[h] /\ val[s] # val[h]
    BY <1>1, <1>3, <1>10, <2>1 DEF Holding
  <2>3. val[s] \in 1 .. Len(mem)
    BY <1>4, <2>2
  <2>4. tail'[s] = tail[s]
    BY <1>8, <1>10 DEF MInv
  <2>5. QED
    BY <1>6, <1>8, <2>1, <2>2, <2>3, <2>4
<1>11. tail'[h] = new
  BY <1>3, <1>8 DEF MInv
<1>12. \A i \in 1 .. Len(frames') :
         /\ i \in 1 .. Len(frames) /\ -i # h
         /\ frames'[i].head = frames[i].head /\ frames'[i].last = frames[i].last
  <2>1. \A i \in 1 .. Len(frames) : -i # h
    BY <1>3
  <2>2. QED
    BY <2>1
<1>13. PICK D : D = C \cup {new}
  OBVIOUS
<1>14. Holding([own EXCEPT ![h] = D])'
  <2>1. D \subseteq own[h] \cup (Len(mem) + 1 .. Len(mem'))
    BY <1>6, <1>8, <1>9, <1>13
  <2>2. \A a \in 1 .. Len(mem) : a \notin own[h] => mem'[a].next = mem[a].next
    BY <1>6, <1>8
  <2>3. \A s \in Slots : Under(s)' /\ s # h =>
           /\ Under(s) /\ val'[s] = val[s] /\ tail'[s] = tail[s]
           /\ mem'[val[s]].head = mem[val[s]].head
    BY <1>10
  <2>4. \A s \in Slots : Under(s)' /\ s = h =>
           /\ val'[s] \in ValNothing + 1 .. Len(mem')
           /\ Chained(mem', D, mem'[val'[s]].head, tail'[s])
           /\ val'[s] \notin D /\ \A g \in Int : g # h => val'[s] \notin own[g]
           /\ \A t \in Slots : Under(t) /\ t # s => val[t] # val'[s]
    <3>1. val[h] \in ValNothing + 1 .. new /\ val[h] # new
      BY <1>3, <1>9
    <3>2. val[h] \notin D
      BY <1>3, <1>6, <1>13, <3>1
    <3>3. Chained(mem', D, mem'[val[h]].head, tail'[h])
      BY <1>8, <1>11, <1>13
    <3>4. QED
      BY <1>3, <1>8, <3>1, <3>2, <3>3
  <2>5. \A i \in 1 .. Len(frames') : -i # h =>
           /\ i \in 1 .. Len(frames)
           /\ frames'[i].head = frames[i].head /\ frames'[i].last = frames[i].last
    BY <1>12
  <2>6. \A i \in 1 .. Len(frames') : -i = h =>
           Chained(mem', D, frames'[i].head, frames'[i].last)
    BY <1>12
  <2>7. Len(mem) <= Len(mem') /\ Len(mem') \in Nat
    BY <1>8, <1>9
  <2>8. QED
    BY <1>1, <2>1, <2>2, <2>3, <2>4, <2>5, <2>6, <2>7, Reheld
<1>15. WInv'
  <2>1. \A i \in 1 .. Len(frames') : FrameNamed(frames'[i])
    BY DEF WInv
  <2>2. QED
    BY <1>14, <2>1, HeldAgain
<1>16. Untouched
  <2>1. \A a \in 1 .. ValNothing : a \in 1 .. Len(mem) /\ a \notin ValNothing + 1 .. Len(mem)
    BY <1>4
  <2>2. \A a \in 1 .. ValNothing : a \in 1 .. Len(mem) /\ a \notin C \cup {val[h]}
    BY <1>3, <1>6, <2>1
  <2>3. QED
    BY <1>8, <2>2 DEF Untouched
<1>17. Carries(own)
  <2>1. PICK kept : kept = [own EXCEPT ![h] = D]
    OBVIOUS
  <2>2. kept[h] = D /\ \A g \in Int : g # h => kept[g] = own[g]
    BY <1>1, <2>1 DEF Holding
  <2>3. /\ \A t \in Slots : val'[t] \in 0 .. Len(mem)
        /\ \A i \in 1 .. Len(frames') : frames'[i].nextElem \in 0 .. Len(mem)
    BY DEF MInv, Pointers, FrameSound
  <2>4. Block(kept, val', h) = Block(own, val, h) \cup (Len(mem) + 1 .. Len(mem'))
    <3>1. Len(mem) + 1 .. Len(mem') = {new}
      BY <1>4, <1>7, <1>8
    <3>2. QED
      BY <1>3, <1>6, <1>13, <2>2, <3>1 DEF Block
  <2>5. Block(own, val, h) = C \cup {val[h]}
    BY <1>3, <1>6 DEF Block
  <2>6. Holder(h)
    BY <1>2, <1>3, AppendUnder DEF Holder
  <2>7. Grows(own, kept, h)
    BY <1>8, <2>3, <2>4, <2>5, <2>6 DEF Grows
  <2>8. Holding(kept)'
    BY <1>14, <2>1
  <2>9. Carried(own, kept, h)
    BY <1>10, <1>12, <2>2, <2>7, <2>8 DEF Carried
  <2>10. QED
    BY <2>9 DEF Carries
<1>18. QED
  BY <1>15, <1>16, <1>17

LEMMA Overwriting ==
  ASSUME IInv, MInv, MInv', WInv, NEW own, Holding(own), UNCHANGED <<packet, frames, val, tail>>,
         status = "running", pc < Len(packet.code), ins.op \in Appends, pc' = pc + 1,
         NEW name, NEW f \in FieldNamed(mem, val[d], name), NEW b,
         mem' = [mem EXCEPT ![f].head = b]
  PROVE  WInv' /\ Untouched /\ Carries(own)
<1>1. Holding(own)
  OBVIOUS
<1>2. PICK h \in Int : h = d
  BY Overseen
<1>3. /\ h \in Slots /\ val[h] \in ValNothing + 1 .. Len(mem)
      /\ Chained(mem, own[h], mem[val[h]].head, tail[h])
      /\ own[h] \subseteq ValNothing + 1 .. Len(mem)
  BY <1>1, <1>2, Own
<1>4. /\ ValNothing \in Nat /\ Len(mem) \in Nat /\ ValNothing <= Len(mem)
      /\ IsMemory(mem)
  BY Places DEF MInv
<1>5. own[h] \subseteq 1 .. Len(mem) /\ val[h] \in 1 .. Len(mem)
  BY <1>3, <1>4
<1>6. f \in own[h]
  <2>1. PICK a \in 1 .. Len(mem) : a = val[h]
    BY <1>5
  <2>2. PICK C, last : C = own[h] /\ last = tail[h]
    OBVIOUS
  <2>3. C \subseteq 1 .. Len(mem) /\ Chained(mem, C, mem[a].head, last)
        /\ f \in FieldNamed(mem, a, name)
    BY <1>2, <1>3, <1>5, <2>1, <2>2
  <2>4. f \in C
    BY <1>4, <2>3, FieldWithin
  <2>5. QED
    BY <2>2, <2>4
<1>7. f \in ValNothing + 1 .. Len(mem) /\ f \in 1 .. Len(mem)
  BY <1>3, <1>5, <1>6
<1>8. mem'[f].next = mem[f].next /\ \A a \in 1 .. Len(mem) : a # f => mem'[a] = mem[a]
  BY <1>4, <1>7, HeadSet
<1>9. Len(mem') = Len(mem)
  <2>1. \A a : Len([mem EXCEPT ![f] = a]) = Len(mem)
    BY <1>4, <1>7, ExceptAny DEF IsMemory
  <2>2. mem' = [mem EXCEPT ![f] = [@ EXCEPT !.head = b]]
    OBVIOUS
  <2>3. QED
    BY <2>1, <2>2
<1>10. ASSUME NEW s \in Slots, Under(s)'
       PROVE  /\ Under(s) /\ val'[s] = val[s] /\ tail'[s] = tail[s]
              /\ mem'[val[s]].head = mem[val[s]].head
  <2>1. ins.op \notin Makers
    BY DEF Makers, Appends
  <2>2. Under(s)
    BY <1>10, <2>1, PlainUnder
  <2>3. val[s] \in ValNothing + 1 .. Len(mem) /\ val[s] \notin own[h]
    BY <1>1, <2>2 DEF Holding
  <2>4. val[s] \in 1 .. Len(mem) /\ val[s] # f
    BY <1>4, <1>6, <2>3
  <2>5. QED
    BY <1>8, <2>2, <2>4
<1>11. Holding(own)'
  <2>1. Len(mem) <= Len(mem') /\ Len(mem') \in Nat
    BY <1>4, <1>9
  <2>2. \A a \in 1 .. Len(mem) : mem'[a].next = mem[a].next
    BY <1>8
  <2>3. \A s \in Slots : Under(s)' =>
           /\ Under(s) /\ val'[s] = val[s] /\ tail'[s] = tail[s]
           /\ mem'[val[s]].head = mem[val[s]].head
    BY <1>10
  <2>4. \A i \in 1 .. Len(frames') :
           /\ i \in 1 .. Len(frames)
           /\ frames'[i].head = frames[i].head /\ frames'[i].last = frames[i].last
    OBVIOUS
  <2>5. QED
    BY <1>1, <2>1, <2>2, <2>3, <2>4, Undisturbed
<1>12. WInv'
  <2>1. \A i \in 1 .. Len(frames') : FrameNamed(frames'[i])
    BY DEF WInv
  <2>2. QED
    BY <1>11, <2>1, HeldAgain
<1>13. Untouched
  <2>1. \A a \in 1 .. ValNothing : a \in 1 .. Len(mem) /\ a \notin ValNothing + 1 .. Len(mem)
    BY <1>4
  <2>2. QED
    BY <1>7, <1>8, <2>1 DEF Untouched
<1>14. Carries(own)
  <2>1. /\ \A t \in Slots : val'[t] \in 0 .. Len(mem)
        /\ \A i \in 1 .. Len(frames') : frames'[i].nextElem \in 0 .. Len(mem)
    BY DEF MInv, Pointers, FrameSound
  <2>2. Len(mem) + 1 .. Len(mem') = {}
    BY <1>4, <1>9
  <2>3. Block(own, val', h) = Block(own, val, h) \cup (Len(mem) + 1 .. Len(mem'))
    BY <2>2 DEF Block
  <2>4. Holder(h)
    BY <1>2, <1>3, AppendUnder DEF Holder
  <2>5. \A a \in 1 .. Len(mem) : a \notin Block(own, val, h) => mem'[a] = mem[a]
    BY <1>6, <1>8 DEF Block
  <2>6. Grows(own, own, h)
    BY <2>1, <2>3, <2>4, <2>5 DEF Grows
  <2>7. Carried(own, own, h)
    BY <1>10, <1>11, <2>6 DEF Carried
  <2>8. QED
    BY <2>7 DEF Carries
<1>15. QED
  BY <1>12, <1>13, <1>14

LEMMA ChangedWInv ==
  ASSUME IInv, MInv, MInv', WInv, NEW own, Holding(own), RecordSet \/ RecordSetC \/ ListAppend, ~Fail
  PROVE  WInv' /\ Untouched /\ Carries(own)
<1>1. Len(mem) \in Nat /\ IsMemory(mem)
  BY MemorySize DEF MInv
<1>2. CASE ListAppend
  <2>1. /\ LinkFresh(CopyCell(mem, V1)) /\ Assign(d, val[d], tags[d] \cup tags[ins.o1])
        /\ UNCHANGED <<packet, frames>> /\ pc' = pc + 1 /\ Fetched("LIST_APPEND")
    BY <1>2 DEF ListAppend
  <2>2. d \in Slots /\ ins.o1 \in Slots
    BY <2>1, ContainerOperands
  <2>3. V1 \in 0 .. Len(mem)
    BY <2>2, SlotHolds DEF V1
  <2>4. PICK c : c = CopyCell(mem, V1)
    OBVIOUS
  <2>5. Loose(c, Len(mem)) /\ LinkFresh(c)
    BY <1>1, <2>1, <2>3, <2>4, CopiedCell
  <2>6. val' = val
    BY <2>1, <2>2 DEF Assign, MInv
  <2>7. status = "running" /\ pc < Len(packet.code) /\ ins.op \in Appends
    BY <2>1 DEF Fetched, Appends
  <2>8. QED
    BY <2>1, <2>5, <2>6, <2>7, Linking
<1>3. CASE RecordSet \/ RecordSetC
  <2>1. PICK op, name :
          op \in {"RECORD_SET", "RECORD_SET_C"} /\ Fetched(op) /\ SetField(name)
    BY <1>3 DEF RecordSet, RecordSetC
  <2>2. d \in Slots /\ ins.o2 \in Slots
    BY <2>1, ContainerOperands
  <2>3. /\ UNCHANGED <<packet, frames>> /\ pc' = pc + 1
        /\ Assign(d, val[d], tags[d] \cup tags[ins.o2])
        /\ \/ \E f \in FieldNamed(mem, val[d], name) :
                mem' = [mem EXCEPT ![f].head = V2] /\ tail' = tail
           \/ LinkFresh(FieldCell(name, V2))
    BY <2>1 DEF SetField
  <2>4. val' = val
    BY <2>2, <2>3 DEF Assign, MInv
  <2>5. status = "running" /\ pc < Len(packet.code) /\ ins.op \in Appends
    BY <2>1 DEF Fetched, Appends
  <2>6. CASE LinkFresh(FieldCell(name, V2))
    <3>1. PICK c : c = FieldCell(name, V2)
      OBVIOUS
    <3>2. Loose(c, Len(mem))
      <4>1. "field" \in Kinds /\ 0 \in Int /\ V2 \in 0 .. Len(mem)
        BY <2>2, SlotHolds DEF Kinds, V2
      <4>2. QED
        BY <1>1, <3>1, <4>1, NewLooseCell DEF FieldCell
    <3>3. LinkFresh(c)
      BY <2>6, <3>1
    <3>4. QED
      BY <2>3, <2>4, <2>5, <3>2, <3>3, Linking
  <2>7. CASE \E f \in FieldNamed(mem, val[d], name) :
               mem' = [mem EXCEPT ![f].head = V2] /\ tail' = tail
    <3>1. PICK f, b : /\ f \in FieldNamed(mem, val[d], name)
                      /\ mem' = [mem EXCEPT ![f].head = b] /\ tail' = tail
      BY <2>7
    <3>2. QED
      BY <2>3, <2>4, <2>5, <3>1, Overwriting
  <2>8. QED
    BY <2>3, <2>6, <2>7
<1>4. QED
  BY <1>2, <1>3
------------------------------------------------------------------------------
(* Loops.                                                                  *)
LEMMA EmptyWInv ==
  ASSUME IInv, MInv, MInv', WInv, NEW own, Holding(own), Fetched("ITER_SETUP"), CollectPc < Len(packet.code),
         Collector.op = "ITER_COLLECT", IterEmpty
  PROVE  WInv' /\ Untouched /\ Carries(own)
<1> DEFINE code == packet.code  k == pc + 1
<1>1. Holding(own)
  OBVIOUS
<1>2. /\ ValNothing \in Nat /\ Len(mem) \in Nat /\ ValNothing <= Len(mem)
      /\ IsSequence(mem)
  BY Places DEF MInv, IsMemory
<1>3. /\ k \in DOMAIN code /\ ins = code[k] /\ code \in Seq(Instruction) /\ pc \in Nat
      /\ BodiesNested(code) /\ k \in Setups(code) /\ ins.o2 \in Nat
  BY CurrentInstruction DEF Fetched, IInv, Setups
<1>4. /\ UNCHANGED <<packet, tail, frames>> /\ pc' = CollectPc + 1
      /\ \E a : val' = [val EXCEPT ![Collector.dest] = a]
      /\ mem' = mem \/ mem' = Append(mem, ListCell(NULL))
  BY DEF IterEmpty, Assign
<1>5. Last(code, k) + 2 = pc' + 1 /\ code[Last(code, k) + 1] = Collector
  <2>1. CollectPc = k + ins.o2 /\ Last(code, k) = k + ins.o2
    BY <1>3 DEF CollectPc, Last
  <2>2. k \in Nat
    BY <1>3
  <2> HIDE DEF k
  <2>3. QED
    BY <1>3, <1>4, <2>1, <2>2 DEF Collector
<1>6. Len(mem) <= Len(mem') /\ Len(mem') \in Nat /\ \A a \in 1 .. Len(mem) : mem'[a] = mem[a]
  BY <1>2, <1>4, AppendAny
<1>7. ASSUME NEW s \in Slots, Under(s)'
      PROVE  /\ Under(s) /\ val'[s] = val[s] /\ tail'[s] = tail[s]
             /\ mem'[val[s]].head = mem[val[s]].head
  <2>1. Within(code, s, Last(code, k) + 2)
    BY <1>4, <1>5, <1>7 DEF Under
  <2> HIDE DEF code, k
  <2>2. Within(code, s, k) /\ code[Last(code, k) + 1].dest # s
    BY <1>3, <2>1, SkipEntry
  <2>3. Under(s) /\ Collector.dest # s
    BY <1>5, <2>2 DEF Under, code, k
  <2>4. val[s] \in 1 .. Len(mem)
    BY <1>1, <1>2, <2>3 DEF Holding
  <2>5. val'[s] = val[s]
    BY <1>4, <2>3 DEF MInv
  <2>6. QED
    BY <1>4, <1>6, <2>3, <2>4, <2>5
<1>8. Holding(own)'
  <2>1. \A a \in 1 .. Len(mem) : mem'[a].next = mem[a].next
    BY <1>6
  <2>2. \A s \in Slots : Under(s)' =>
           /\ Under(s) /\ val'[s] = val[s] /\ tail'[s] = tail[s]
           /\ mem'[val[s]].head = mem[val[s]].head
    BY <1>7
  <2>3. \A i \in 1 .. Len(frames') :
           /\ i \in 1 .. Len(frames)
           /\ frames'[i].head = frames[i].head /\ frames'[i].last = frames[i].last
    BY <1>4
  <2>4. UNCHANGED packet
    BY <1>4
  <2>5. QED
    BY <1>1, <1>6, <2>1, <2>2, <2>3, <2>4, Undisturbed
<1>9. WInv'
  <2>1. UNCHANGED packet /\ \A i \in 1 .. Len(frames') : FrameNamed(frames'[i])
    BY <1>4 DEF WInv
  <2>2. QED
    BY <1>8, <2>1, HeldAgain
<1>10. Untouched
  <2>1. \A a \in 1 .. ValNothing : a \in 1 .. Len(mem)
    BY <1>2
  <2>2. QED
    BY <1>6, <2>1 DEF Untouched
<1>11. Carries(own)
  BY <1>4, <1>7, <1>8, NoneGrows
<1>12. QED
  BY <1>9, <1>10, <1>11

LEMMA PushWInv ==
  ASSUME IInv, MInv, MInv', WInv, NEW own, Holding(own), Fetched("ITER_SETUP"), IterPush
  PROVE  WInv' /\ Untouched /\ Carries(own)
<1> DEFINE code == packet.code  k == pc + 1  n == Len(frames)
<1>1. Holding(own)
  OBVIOUS
<1>2. /\ ValNothing \in Nat /\ Len(mem) \in Nat /\ ValNothing <= Len(mem)
      /\ \A s \in Slots : s \in Int /\ s >= 0
  BY Places
<1>3. /\ k \in DOMAIN code /\ ins = code[k] /\ code \in Seq(Instruction) /\ pc \in Nat
      /\ BodiesNested(code) /\ k \in Setups(code) /\ pc < Len(packet.code)
      /\ ins.op = "ITER_SETUP"
  BY CurrentInstruction DEF Fetched, IInv, Setups
<1>4. /\ UNCHANGED <<packet, mem, tail>> /\ pc' = pc + 1
      /\ \E a : val' = [val EXCEPT ![d] = a]
  BY DEF IterPush
<1>5. PICK f : /\ frames' = Append(frames, f) /\ f.head = NULL /\ f.last = NULL
               /\ f.elemSlot = d /\ f.resultDest = Collector.dest
               /\ f.bodyStart = pc + 1 /\ f.collectPc = CollectPc
  BY DEF IterPush
<1>6. FrameNamed(f)
  BY <1>3, <1>5 DEF FrameNamed, Collector, d
<1>7. IsSequence(frames)
  BY DEF IInv, FramesOf, IsSequence
<1>8. /\ n \in Nat /\ Len(frames') = n + 1 /\ frames'[n + 1] = f
      /\ \A i \in 1 .. n : frames'[i] = frames[i]
  BY <1>5, <1>7, SequenceFact, AppendAny
<1>9. PICK h \in Int : h = -(n + 1) /\ h < 0
  BY <1>8
<1>10. ASSUME NEW s \in Slots, Under(s)'
       PROVE  /\ Under(s) /\ val'[s] = val[s] /\ tail'[s] = tail[s]
              /\ mem'[val[s]].head = mem[val[s]].head /\ s # h
  <2>1. ins.op \notin Makers /\ ins.op \notin Appends \cup JumpTargetOps
    BY <1>3 DEF Makers, Appends, JumpTargetOps, JumpOps
  <2>2. Under(s) /\ d # s
    BY <1>3, <1>4, <1>10, <2>1, PlainUnder
  <2>3. val'[s] = val[s]
    BY <1>4, <2>2 DEF MInv
  <2>4. s # h
    BY <1>2, <1>9
  <2>5. QED
    BY <1>4, <2>2, <2>3, <2>4
<1> HIDE DEF n, k, code
<1>11. PICK C : C = {}
  OBVIOUS
<1>12. Holding([own EXCEPT ![h] = C])'
  <2>1. C \subseteq own[h] \cup (Len(mem) + 1 .. Len(mem'))
    BY <1>11
  <2>2. \A a \in 1 .. Len(mem) : a \notin own[h] => mem'[a].next = mem[a].next
    BY <1>4
  <2>3. \A s \in Slots : Under(s)' /\ s # h =>
           /\ Under(s) /\ val'[s] = val[s] /\ tail'[s] = tail[s]
           /\ mem'[val[s]].head = mem[val[s]].head
    BY <1>10
  <2>4. \A s \in Slots : Under(s)' /\ s = h =>
           /\ val'[s] \in ValNothing + 1 .. Len(mem')
           /\ Chained(mem', C, mem'[val'[s]].head, tail'[s])
           /\ val'[s] \notin C /\ \A g \in Int : g # h => val'[s] \notin own[g]
           /\ \A t \in Slots : Under(t) /\ t # s => val[t] # val'[s]
    BY <1>10
  <2>5. \A i \in 1 .. Len(frames') : -i # h =>
           /\ i \in 1 .. Len(frames)
           /\ frames'[i].head = frames[i].head /\ frames'[i].last = frames[i].last
    <3>1. \A i \in 1 .. Len(frames') : -i # h => i \in 1 .. n
      BY <1>8, <1>9
    <3>2. QED
      BY <1>8, <3>1 DEF n
  <2>6. \A i \in 1 .. Len(frames') : -i = h =>
           Chained(mem', C, frames'[i].head, frames'[i].last)
    <3>1. \A i \in 1 .. Len(frames') : -i = h => i = n + 1
      BY <1>8, <1>9
    <3>2. Chained(mem', C, f.head, f.last)
      BY <1>5, <1>11 DEF Chained
    <3>3. QED
      BY <1>8, <3>1, <3>2
  <2>7. UNCHANGED packet /\ Len(mem) <= Len(mem') /\ Len(mem') \in Nat
    BY <1>2, <1>4
  <2>8. QED
    BY <1>1, <2>1, <2>2, <2>3, <2>4, <2>5, <2>6, <2>7, Reheld
<1>13. WInv'
  <2>1. \A i \in 1 .. Len(frames') : FrameNamed(frames'[i])
    <3>1. \A i \in 1 .. n : FrameNamed(frames[i])
      BY DEF WInv, n
    <3>2. \A i \in 1 .. Len(frames') : i \in 1 .. n \/ i = n + 1
      BY <1>8
    <3>3. QED
      BY <1>6, <1>8, <3>1, <3>2
  <2>2. UNCHANGED packet
    BY <1>4
  <2>3. QED
    BY <1>12, <2>1, <2>2, HeldAgain
<1>14. Untouched
  BY <1>4 DEF Untouched
<1>15. Carries(own)
  <2>1. PICK kept : kept = [own EXCEPT ![h] = C]
    OBVIOUS
  <2>2. kept[h] = {} /\ \A g \in Int : g # h => kept[g] = own[g]
    BY <1>1, <1>11, <2>1 DEF Holding
  <2>3. h \notin Slots
    BY <1>2, <1>9
  <2>4. \A i \in 1 .. Len(frames') : -i # h => i \in 1 .. Len(frames)
    BY <1>8, <1>9 DEF n
  <2>5. \A s \in Slots : Under(s)' /\ s # h => Under(s) /\ val'[s] = val[s]
    BY <1>10
  <2>6. /\ \A t \in Slots : val'[t] \in 0 .. Len(mem)
        /\ \A i \in 1 .. Len(frames') : frames'[i].nextElem \in 0 .. Len(mem)
    BY <1>4 DEF MInv, Pointers, FrameSound, Slots
  <2>7. Block(kept, val', h) = {} /\ Len(mem) + 1 .. Len(mem') = {}
    <3>1. Len(mem) + 1 .. Len(mem) = {}
      BY <1>2
    <3>2. QED
      BY <1>4, <2>2, <2>3, <3>1 DEF Block
  <2>8. Grows(own, kept, h)
    BY <1>4, <2>6, <2>7 DEF Grows
  <2>9. Holding(kept)'
    BY <1>12, <2>1
  <2>10. Carried(own, kept, h)
    BY <2>2, <2>4, <2>5, <2>8, <2>9 DEF Carried
  <2>11. QED
    BY <2>10 DEF Carries
<1>16. QED
  BY <1>13, <1>14, <1>15

(* An element's result: a cell added behind those of the innermost frame.  *)
LEMMA CollectedCells ==
  ASSUME MInv, FrameSound(top, Slots, 0 .. Len(mem)), DOMAIN top = FrameFields,
         NEW C, C \subseteq 1 .. Len(mem), Chained(mem, C, top.head, top.last),
         NEW linked, linked = LinkCollected(mem \o Collected)
  PROVE  /\ IsMemory(linked) /\ Len(linked) \in Nat /\ Len(mem) <= Len(linked)
         /\ Chained(linked, C \cup (Len(mem) + 1 .. Len(linked)), Gathered.head, Gathered.last)
         /\ \A a \in 1 .. Len(mem) : linked[a].head = mem[a].head
         /\ \A a \in 1 .. Len(mem) : a \notin C => linked[a] = mem[a]
<1> DEFINE n == Len(mem)  m == mem \o Collected
<1>1. /\ n \in Nat /\ IsMemory(mem) /\ Fit(mem, Collected) /\ Len(Collected) \in Nat
      /\ (Collected # << >> => Len(Collected) = 1)
  BY MemorySize, CollectedFits DEF MInv
<1>2. PICK size : size = Len(mem) + Len(Collected)
  OBVIOUS
<1>3. IsMemory(linked) /\ Len(linked) = size /\ size \in Nat /\ Len(mem) <= size
  BY <1>2, LinkedSound
<1>4. /\ IsMemory(m) /\ Len(m) = size /\ \A a \in 1 .. n : m[a] = mem[a]
  <2>1. /\ IsMemory(m) /\ Len(m) = n + Len(Collected) /\ \A a \in 1 .. n : m[a] = mem[a]
    BY <1>1, Grown DEF Fit
  <2>2. QED
    BY <1>2, <2>1
<1>5. linked = IF Collected = << >> \/ top.last = NULL THEN m
               ELSE [m EXCEPT ![top.last].next = n + 1]
  BY DEF LinkCollected
<1>6. /\ Gathered.head = IF Collected # << >> /\ top.head = NULL THEN n + 1 ELSE top.head
      /\ Gathered.last = IF Collected # << >> THEN n + 1 ELSE top.last
  BY DEF Gathered, FrameFields
<1>7. CASE Collected = << >>
  <2>1. linked = m /\ Gathered.head = top.head /\ Gathered.last = top.last
    BY <1>5, <1>6, <1>7
  <2>2. \A a \in C : m[a] = mem[a]
    BY <1>4
  <2>3. Chained(linked, C, Gathered.head, Gathered.last)
    BY <2>1, <2>2 DEF Chained
  <2>4. C = C \cup (Len(mem) + 1 .. Len(linked))
    <3>1. Len(mem) + 1 .. Len(linked) = {}
      BY <1>1, <1>2, <1>3, <1>7
    <3>2. QED
      BY <3>1
  <2>5. QED
    BY <1>3, <1>4, <2>1, <2>3, <2>4
<1>8. CASE Collected # << >>
  <2>1. PICK new : new = n + 1
    OBVIOUS
  <2>2. /\ size = new /\ new \in Nat /\ new # NULL /\ new \notin 1 .. n /\ new \in 1 .. new
        /\ new \in n + 1 .. new
    <3>1. n \in Nat /\ size = n + 1
      BY <1>1, <1>2, <1>8
    <3> HIDE DEF n
    <3>2. QED
      BY <2>1, <3>1 DEF NULL
  <2>3. new \notin C /\ NULL \notin C
    BY <2>2 DEF NULL
  <2>4. m[new].next = NULL
    <3>1. m[n + 1] = Collected[1]
      <4>1. IsSequence(mem) /\ IsSequence(Collected) /\ 1 \in 1 .. Len(Collected)
        BY <1>1, <1>8 DEF Fit, IsMemory
      <4>2. QED
        BY <4>1, ConcatFact
    <3>2. Collected[1].next = NULL
      <4>1. Collected[1].next = NULL \/ Collected[1].next \in n + 1 + 1 .. n + 1
        <5>1. Len(Collected) = 1 /\ 1 \in 1 .. 1
          BY <1>1, <1>8
        <5>2. CellAt(Collected[1], n + 1, n + 1)
          BY <1>1, <5>1 DEF Fit
        <5> HIDE DEF n
        <5>3. QED
          BY <5>2 DEF CellAt
      <4> HIDE DEF n
      <4>2. QED
        BY <1>1, <4>1
    <3>3. QED
      BY <2>1, <3>1, <3>2
  <2>5. CASE top.last = NULL
    <3>1. top.head = NULL /\ C = {}
      BY <2>5 DEF Chained
    <3>2. linked = m /\ Gathered.head = new /\ Gathered.last = new
      BY <1>5, <1>6, <1>8, <2>1, <2>5, <3>1
    <3>3. Chained(linked, {new}, Gathered.head, Gathered.last)
      BY <2>2, <2>4, <3>2 DEF Chained
    <3>4. {new} = C \cup (Len(mem) + 1 .. Len(linked))
      BY <1>1, <1>3, <2>1, <2>2, <3>1
    <3>5. QED
      BY <1>3, <1>4, <3>2, <3>3, <3>4
  <2>6. CASE top.last # NULL
    <3>1. PICK x : x = top.last
      OBVIOUS
    <3>2. x \in C /\ top.head \in C /\ top.head # NULL
      BY <2>3, <2>6, <3>1 DEF Chained
    <3>3. x \in 1 .. Len(m) /\ x \in 1 .. n /\ x # new
      <4>1. x \in 1 .. n
        BY <3>2
      <4>2. QED
        BY <1>1, <1>3, <1>4, <2>2, <4>1
    <3>4. PICK g : g = m
      OBVIOUS
    <3>5. linked = [g EXCEPT ![x].next = new]
      BY <1>5, <1>8, <2>1, <2>6, <3>1, <3>4
    <3>6. /\ linked[x].next = new /\ linked[x].head = g[x].head
          /\ \A a \in 1 .. Len(g) : a # x => linked[a] = g[a]
      <4>1. IsMemory(g) /\ x \in 1 .. Len(g)
        BY <1>4, <3>3, <3>4
      <4> HIDE DEF n, m
      <4>2. QED
        BY <3>5, <4>1, NextSet
    <3>7. \A a \in 1 .. n : a \in 1 .. Len(g)
      BY <1>1, <1>3, <1>4, <3>4
    <3>8. \A a \in 1 .. n : a # x => linked[a] = mem[a]
      BY <1>4, <3>4, <3>6, <3>7
    <3>9. linked[new].next = NULL
      BY <1>4, <2>2, <2>4, <3>3, <3>4, <3>6
    <3>10. linked[x].head = mem[x].head
      BY <1>4, <3>3, <3>4, <3>6
    <3>11. PICK first, k : first = top.head /\ k = mem
      OBVIOUS
    <3>12. Chained(linked, C \cup {new}, first, new)
      <4>1. Chained(k, C, first, x) /\ x # NULL
        BY <2>6, <3>1, <3>11
      <4>2. \A a \in C : a # x => linked[a].next = k[a].next
        BY <3>8, <3>11
      <4>3. /\ linked[x].next = new /\ linked[new].next = NULL
            /\ new \notin C /\ new # NULL
        BY <2>2, <2>3, <3>6, <3>9
      <4> HIDE DEF n, m
      <4>4. QED
        BY <4>1, <4>2, <4>3 DEF Chained
    <3>13. Gathered.head = first /\ Gathered.last = new
      BY <1>6, <1>8, <2>1, <3>2, <3>11
    <3>14. Chained(linked, C \cup {new}, Gathered.head, Gathered.last)
      BY <3>12, <3>13
    <3>15. C \cup {new} = C \cup (Len(mem) + 1 .. Len(linked))
      BY <1>1, <1>3, <2>1, <2>2
    <3>16. \A a \in 1 .. n : linked[a].head = mem[a].head
      BY <3>8, <3>10
    <3>17. \A a \in 1 .. n : a \notin C => linked[a] = mem[a]
      BY <3>2, <3>8
    <3>18. QED
      BY <1>3, <3>14, <3>15, <3>16, <3>17
  <2>7. QED
    BY <2>5, <2>6
<1>9. QED
  BY <1>7, <1>8

(* What holds at an ITER_COLLECT before either of its outcomes.            *)
LEMMA Collecting ==
  ASSUME IInv, MInv, Fetched("ITER_COLLECT"), NEW own, Holding(own),
         NEW linked, linked = LinkCollected(mem \o Collected)
  PROVE  \E h \in Int :
         /\ h = -depth /\ h < 0 /\ depth \in Nat \ {0} /\ depth = Len(frames)
         /\ own[h] \subseteq ValNothing + 1 .. Len(mem)
         /\ IsMemory(linked) /\ Len(linked) \in Nat /\ Len(mem) <= Len(linked)
         /\ \E D : /\ D = own[h] \cup (Len(mem) + 1 .. Len(linked))
                   /\ Chained(linked, D, Gathered.head, Gathered.last)
         /\ \A a \in 1 .. Len(mem) : linked[a].head = mem[a].head
         /\ \A a \in 1 .. Len(mem) : a \notin own[h] => linked[a] = mem[a]
<1>1. /\ depth \in Nat \ {0} /\ depth \in 1 .. Len(frames) /\ DOMAIN top = FrameFields
      /\ FrameSound(top, Slots, 0 .. Len(mem)) /\ depth = Len(frames)
  BY TopSound DEF depth
<1>2. PICK h \in Int : h = -depth /\ h < 0
  BY <1>1
<1>3. own[h] \subseteq ValNothing + 1 .. Len(mem) /\ Chained(mem, own[h], top.head, top.last)
  BY <1>1, <1>2 DEF Holding, top
<1>4. PICK C : C = own[h]
  OBVIOUS
<1>5. C \subseteq 1 .. Len(mem) /\ Chained(mem, C, top.head, top.last)
  BY <1>3, <1>4, Places
<1>6. /\ IsMemory(linked) /\ Len(linked) \in Nat /\ Len(mem) <= Len(linked)
      /\ Chained(linked, C \cup (Len(mem) + 1 .. Len(linked)), Gathered.head, Gathered.last)
      /\ \A a \in 1 .. Len(mem) : linked[a].head = mem[a].head
      /\ \A a \in 1 .. Len(mem) : a \notin C => linked[a] = mem[a]
  BY <1>1, <1>5, CollectedCells
<1>7. QED
  BY <1>1, <1>2, <1>3, <1>4, <1>6

LEMMA AdvanceWInv ==
  ASSUME IInv, MInv, MInv', WInv, NEW own, Holding(own), Fetched("ITER_COLLECT"), IterAdvance
  PROVE  WInv' /\ Untouched /\ Carries(own)
<1>1. Holding(own)
  OBVIOUS
<1>2. PICK linked : linked = LinkCollected(mem \o Collected)
  OBVIOUS
<1>3. PICK h \in Int :
        /\ h = -depth /\ h < 0 /\ depth \in Nat \ {0} /\ depth = Len(frames)
        /\ own[h] \subseteq ValNothing + 1 .. Len(mem)
        /\ IsMemory(linked) /\ Len(linked) \in Nat /\ Len(mem) <= Len(linked)
        /\ \E D : /\ D = own[h] \cup (Len(mem) + 1 .. Len(linked))
                  /\ Chained(linked, D, Gathered.head, Gathered.last)
        /\ \A a \in 1 .. Len(mem) : linked[a].head = mem[a].head
        /\ \A a \in 1 .. Len(mem) : a \notin own[h] => linked[a] = mem[a]
  BY <1>1, <1>2, Collecting
<1>4. PICK D : /\ D = own[h] \cup (Len(mem) + 1 .. Len(linked))
               /\ Chained(linked, D, Gathered.head, Gathered.last)
  BY <1>3
<1>5. /\ ValNothing \in Nat /\ Len(mem) \in Nat /\ ValNothing <= Len(mem)
      /\ \A s \in Slots : s \in Int /\ s >= 0
  BY Places
<1>6. PICK f : f = [Gathered EXCEPT !.nextElem = mem[top.nextElem].next]
  OBVIOUS
<1>7. /\ mem' = linked /\ frames' = [frames EXCEPT ![depth] = f]
      /\ val' = [val EXCEPT ![top.elemSlot] = top.nextElem] /\ pc' = top.bodyStart
      /\ UNCHANGED <<packet, tail>>
  BY <1>2, <1>6 DEF IterAdvance
<1>8. /\ depth \in 1 .. Len(frames) /\ DOMAIN top = FrameFields /\ IsSequence(frames)
  BY TopSound
<1>9. /\ f.head = Gathered.head /\ f.last = Gathered.last
      /\ f.elemSlot = top.elemSlot /\ f.resultDest = top.resultDest
      /\ f.bodyStart = top.bodyStart /\ f.collectPc = top.collectPc
  BY <1>6, <1>8 DEF Gathered, FrameFields
<1>10. /\ Len(frames') = Len(frames) /\ frames'[depth] = f
       /\ \A i \in 1 .. Len(frames) : i # depth => frames'[i] = frames[i]
  BY <1>7, <1>8, ExceptAny
<1>11. FrameNamed(top) /\ \A i \in 1 .. Len(frames) : FrameNamed(frames[i])
  BY <1>8 DEF WInv, top
<1> DEFINE code == packet.code  k == top.bodyStart
<1>12. /\ k \in Setups(code) /\ pc = Last(code, k) /\ code \in Seq(Instruction)
       /\ BodiesNested(code)
  BY AtCollect DEF IInv
<1>13. ASSUME NEW s \in Slots, Under(s)'
       PROVE  /\ Under(s) /\ val'[s] = val[s] /\ tail'[s] = tail[s]
              /\ mem'[val[s]].head = mem[val[s]].head /\ s # h
  <2>1. Within(code, s, k + 1)
    BY <1>7, <1>13 DEF Under
  <2>2. top.elemSlot = code[k].dest
    BY <1>11 DEF FrameNamed
  <2> HIDE DEF code, k
  <2>3. Within(code, s, Last(code, k) + 1) /\ code[k].dest # s
    BY <1>12, <2>1, AgainEntry
  <2>4. Under(s) /\ top.elemSlot # s
    BY <1>12, <2>2, <2>3 DEF Under, code
  <2>5. val[s] \in 1 .. Len(mem)
    BY <1>1, <1>5, <2>4 DEF Holding
  <2>6. val'[s] = val[s] /\ s # h
    BY <1>3, <1>5, <1>7, <2>4 DEF MInv
  <2>7. QED
    BY <1>3, <1>7, <2>4, <2>5, <2>6
<1> HIDE DEF code, k
<1>14. Holding([own EXCEPT ![h] = D])'
  <2>1. D \subseteq own[h] \cup (Len(mem) + 1 .. Len(mem'))
    BY <1>4, <1>7
  <2>2. \A a \in 1 .. Len(mem) : a \notin own[h] => mem'[a].next = mem[a].next
    BY <1>3, <1>7
  <2>3. \A s \in Slots : Under(s)' /\ s # h =>
           /\ Under(s) /\ val'[s] = val[s] /\ tail'[s] = tail[s]
           /\ mem'[val[s]].head = mem[val[s]].head
    BY <1>13
  <2>4. \A s \in Slots : Under(s)' /\ s = h =>
           /\ val'[s] \in ValNothing + 1 .. Len(mem')
           /\ Chained(mem', D, mem'[val'[s]].head, tail'[s])
           /\ val'[s] \notin D /\ \A g \in Int : g # h => val'[s] \notin own[g]
           /\ \A t \in Slots : Under(t) /\ t # s => val[t] # val'[s]
    BY <1>13
  <2>5. \A i \in 1 .. Len(frames') : -i # h =>
           /\ i \in 1 .. Len(frames)
           /\ frames'[i].head = frames[i].head /\ frames'[i].last = frames[i].last
    BY <1>3, <1>10
  <2>6. \A i \in 1 .. Len(frames') : -i = h =>
           Chained(mem', D, frames'[i].head, frames'[i].last)
    <3>1. \A i \in 1 .. Len(frames') : -i = h => i = depth
      BY <1>3, <1>10
    <3>2. Chained(mem', D, f.head, f.last)
      BY <1>4, <1>7, <1>9
    <3>3. QED
      BY <1>10, <3>1, <3>2
  <2>7. UNCHANGED packet /\ Len(mem) <= Len(mem') /\ Len(mem') \in Nat
    BY <1>3, <1>7
  <2>8. QED
    BY <1>1, <2>1, <2>2, <2>3, <2>4, <2>5, <2>6, <2>7, Reheld
<1>15. WInv'
  <2>1. FrameNamed(f)
    BY <1>9, <1>11 DEF FrameNamed
  <2>2. \A i \in 1 .. Len(frames') : FrameNamed(frames'[i])
    BY <1>10, <1>11, <2>1
  <2>3. QED
    BY <1>7, <1>14, <2>2, HeldAgain
<1>16. Untouched
  <2>1. \A a \in 1 .. ValNothing : a \in 1 .. Len(mem) /\ a \notin ValNothing + 1 .. Len(mem)
    BY <1>5
  <2>2. QED
    BY <1>3, <1>7, <2>1 DEF Untouched
<1>17. Carries(own)
  <2>1. PICK kept : kept = [own EXCEPT ![h] = D]
    OBVIOUS
  <2>2. kept[h] = D /\ \A g \in Int : g # h => kept[g] = own[g]
    BY <1>1, <2>1 DEF Holding
  <2>3. h \notin Slots /\ Holder(h)
    BY <1>3, <1>5, <1>8 DEF Holder
  <2>4. /\ \A t \in Slots : val'[t] \in 0 .. Len(mem)
        /\ \A i \in 1 .. Len(frames') : frames'[i].nextElem \in 0 .. Len(mem)
    <3>1. /\ FrameSound(top, Slots, 0 .. Len(mem)) /\ top.nextElem # NULL
          /\ \A i \in 1 .. Len(frames) : frames[i].nextElem \in 0 .. Len(mem)
      BY TopSound DEF IterAdvance, MInv, Pointers, FrameSound
    <3>2. top.nextElem \in 1 .. Len(mem)
      BY <1>5, <3>1 DEF FrameSound, NULL
    <3>3. mem[top.nextElem].next \in 0 .. Len(mem)
      BY <3>2, CellFact DEF MInv
    <3>4. f.nextElem \in 0 .. Len(mem)
      BY <1>6, <1>8, <3>3 DEF Gathered, FrameFields
    <3>5. \A t \in Slots : val'[t] \in 0 .. Len(mem)
      BY <1>7, <3>1 DEF MInv, Pointers, FrameSound
    <3>6. QED
      BY <1>10, <3>1, <3>4, <3>5
  <2>5. Block(own, val, h) = own[h] /\ Block(kept, val', h) = D
    BY <2>2, <2>3 DEF Block
  <2>6. Block(kept, val', h) = Block(own, val, h) \cup (Len(mem) + 1 .. Len(mem'))
    BY <1>4, <1>7, <2>5
  <2>7. \A a \in 1 .. Len(mem) : a \notin Block(own, val, h) => mem'[a] = mem[a]
    BY <1>3, <1>7, <2>5
  <2>8. Grows(own, kept, h)
    BY <2>3, <2>4, <2>6, <2>7 DEF Grows
  <2>9. Holding(kept)'
    BY <1>14, <2>1
  <2>10. /\ \A s \in Slots : Under(s)' /\ s # h => Under(s) /\ val'[s] = val[s]
         /\ \A i \in 1 .. Len(frames') : -i # h => i \in 1 .. Len(frames)
    BY <1>10, <1>13
  <2>11. Carried(own, kept, h)
    BY <2>2, <2>8, <2>9, <2>10 DEF Carried
  <2>12. QED
    BY <2>11 DEF Carries
<1>18. QED
  BY <1>15, <1>16, <1>17

LEMMA FinishLoopWInv ==
  ASSUME IInv, MInv, MInv', WInv, NEW own, Holding(own), Fetched("ITER_COLLECT"), IterFinish
  PROVE  WInv' /\ Untouched /\ Carries(own)
<1>1. Holding(own)
  OBVIOUS
<1>2. PICK linked : linked = LinkCollected(mem \o Collected)
  OBVIOUS
<1>3. PICK h \in Int :
        /\ h = -depth /\ h < 0 /\ depth \in Nat \ {0} /\ depth = Len(frames)
        /\ own[h] \subseteq ValNothing + 1 .. Len(mem)
        /\ IsMemory(linked) /\ Len(linked) \in Nat /\ Len(mem) <= Len(linked)
        /\ \A a \in 1 .. Len(mem) : linked[a].head = mem[a].head
        /\ \A a \in 1 .. Len(mem) : a \notin own[h] => linked[a] = mem[a]
  BY <1>1, <1>2, Collecting
<1>4. /\ ValNothing \in Nat /\ Len(mem) \in Nat /\ ValNothing <= Len(mem)
      /\ \A s \in Slots : s \in Int /\ s >= 0
  BY Places
<1>5. /\ frames' = SubSeq(frames, 1, depth - 1) /\ UNCHANGED <<packet, tail>>
      /\ pc' = pc + 1 /\ \E a : val' = [val EXCEPT ![top.resultDest] = a]
      /\ mem' = linked \/ \E c : mem' = Append(linked, c)
  BY <1>2 DEF IterFinish, Assign
<1>6. /\ Len(linked) <= Len(mem') /\ Len(mem') \in Nat
      /\ \A a \in 1 .. Len(linked) : mem'[a] = linked[a]
  <2>1. CASE mem' = linked
    BY <1>3, <2>1
  <2>2. ASSUME NEW c, mem' = Append(linked, c)
        PROVE  /\ Len(linked) <= Len(mem') /\ Len(mem') \in Nat
               /\ \A a \in 1 .. Len(linked) : mem'[a] = linked[a]
    <3>1. Len(mem') = Len(linked) + 1 /\ \A a \in 1 .. Len(linked) : mem'[a] = linked[a]
      BY <1>3, <2>2, AppendAny DEF IsMemory
    <3>2. QED
      BY <1>3, <3>1
  <2>3. QED
    BY <1>5, <2>1, <2>2
<1>7. \A a \in 1 .. Len(mem) : a \in 1 .. Len(linked)
  BY <1>3, <1>4
<1>8. /\ Len(mem) <= Len(mem') /\ \A a \in 1 .. Len(mem) : mem'[a].head = mem[a].head
      /\ \A a \in 1 .. Len(mem) : a \notin own[h] => mem'[a] = mem[a]
  BY <1>3, <1>4, <1>6, <1>7
<1>9. PICK n \in Nat : n = depth - 1 /\ Len(frames) = n + 1
  BY <1>3
<1>10. Len(frames') = n /\ \A i \in 1 .. n : frames'[i] = frames[i]
  <2>1. IsSequence(frames) /\ frames' = SubSeq(frames, 1, n)
    BY <1>5, <1>9, TopSound
  <2>2. QED
    BY <1>9, <2>1, Popped
<1>11. \A i \in 1 .. n : i \in 1 .. Len(frames) /\ -i # h
  BY <1>3, <1>9
<1>12. top.resultDest = d
  <2>1. FrameNamed(top) /\ pc = top.collectPc
    BY AtCollect, TopSound DEF WInv, top
  <2>2. QED
    BY <2>1 DEF FrameNamed, d, ins
<1>13. ASSUME NEW s \in Slots, Under(s)'
       PROVE  /\ Under(s) /\ val'[s] = val[s] /\ tail'[s] = tail[s]
              /\ mem'[val[s]].head = mem[val[s]].head /\ s # h
  <2>1. ins.op \notin Makers /\ ins.op \notin Appends \cup JumpTargetOps
        /\ pc < Len(packet.code)
    BY DEF Fetched, Makers, Appends, JumpTargetOps, JumpOps
  <2>2. Under(s) /\ d # s
    BY <1>5, <1>13, <2>1, PlainUnder
  <2>3. val'[s] = val[s] /\ s # h
    BY <1>3, <1>4, <1>5, <1>12, <2>2 DEF MInv
  <2>4. val[s] \in 1 .. Len(mem)
    BY <1>1, <1>4, <2>2 DEF Holding
  <2>5. QED
    BY <1>5, <1>8, <2>2, <2>3, <2>4
<1>14. PICK C : C = {}
  OBVIOUS
<1>15. Holding([own EXCEPT ![h] = C])'
  <2>1. C \subseteq own[h] \cup (Len(mem) + 1 .. Len(mem'))
    BY <1>14
  <2>2. \A a \in 1 .. Len(mem) : a \notin own[h] => mem'[a].next = mem[a].next
    BY <1>8
  <2>3. \A s \in Slots : Under(s)' /\ s # h =>
           /\ Under(s) /\ val'[s] = val[s] /\ tail'[s] = tail[s]
           /\ mem'[val[s]].head = mem[val[s]].head
    BY <1>13
  <2>4. \A s \in Slots : Under(s)' /\ s = h =>
           /\ val'[s] \in ValNothing + 1 .. Len(mem')
           /\ Chained(mem', C, mem'[val'[s]].head, tail'[s])
           /\ val'[s] \notin C /\ \A g \in Int : g # h => val'[s] \notin own[g]
           /\ \A t \in Slots : Under(t) /\ t # s => val[t] # val'[s]
    BY <1>13
  <2>5. \A i \in 1 .. Len(frames') : -i # h =>
           /\ i \in 1 .. Len(frames)
           /\ frames'[i].head = frames[i].head /\ frames'[i].last = frames[i].last
    BY <1>10, <1>11
  <2>6. \A i \in 1 .. Len(frames') : -i = h =>
           Chained(mem', C, frames'[i].head, frames'[i].last)
    BY <1>10, <1>11
  <2>7. UNCHANGED packet /\ Len(mem) <= Len(mem') /\ Len(mem') \in Nat
    BY <1>5, <1>6, <1>8
  <2>8. QED
    BY <1>1, <2>1, <2>2, <2>3, <2>4, <2>5, <2>6, <2>7, Reheld
<1>16. WInv'
  <2>1. \A i \in 1 .. Len(frames') : FrameNamed(frames'[i])
    BY <1>10, <1>11 DEF WInv
  <2>2. QED
    BY <1>5, <1>15, <2>1, HeldAgain
<1>17. Untouched
  <2>1. \A a \in 1 .. ValNothing : a \in 1 .. Len(mem) /\ a \notin ValNothing + 1 .. Len(mem)
    BY <1>4
  <2>2. QED
    BY <1>3, <1>8, <2>1 DEF Untouched
<1>18. Carries(own)
  <2>1. PICK kept : kept = [own EXCEPT ![h] = C]
    OBVIOUS
  <2>2. \A g \in Int : g # h => kept[g] = own[g]
    BY <1>1, <2>1 DEF Holding
  <2>3. ~Holder(h)'
    <3>1. h \notin Slots' /\ -h \notin 1 .. Len(frames')
      BY <1>3, <1>4, <1>5, <1>9, <1>10 DEF Slots
    <3>2. QED
      BY <3>1 DEF Holder
  <2>4. /\ \A s \in Slots : Under(s)' /\ s # h => Under(s) /\ val'[s] = val[s]
        /\ \A i \in 1 .. Len(frames') : -i # h => i \in 1 .. Len(frames)
    BY <1>10, <1>11, <1>13
  <2>5. Holding(kept)'
    BY <1>15, <2>1
  <2>6. Carried(own, kept, h)
    BY <2>2, <2>3, <2>4, <2>5 DEF Carried
  <2>7. QED
    BY <2>6 DEF Carries
<1>19. QED
  BY <1>16, <1>17, <1>18

LEMMA LoopsWInv ==
  ASSUME IInv, MInv, MInv', WInv, NEW own, Holding(own), IterSetup \/ IterCollect
  PROVE  WInv' /\ Untouched /\ Carries(own)
<1>1. CASE Fail
  BY <1>1, FailCalm, CalmWInv
<1>2. CASE IterSetup /\ ~Fail
  <2>1. /\ Fetched("ITER_SETUP") /\ ~(CollectPc >= Len(packet.code))
        /\ Collector.op = "ITER_COLLECT" /\ (IterEmpty \/ IterPush)
    BY <1>2, Zenon DEF IterSetup
  <2>2. CollectPc < Len(packet.code)
    <3>1. ins.o2 \in Nat /\ pc \in Nat /\ Len(packet.code) \in Nat
      BY <2>1, CurrentInstruction DEF Fetched, IInv
    <3>2. QED
      BY <2>1, <3>1 DEF CollectPc
  <2>3. QED
    BY <2>1, <2>2, EmptyWInv, PushWInv
<1>3. CASE IterCollect
  <2>1. Fetched("ITER_COLLECT") /\ (depth = 0 \/ IterAdvance \/ IterFinish)
    BY <1>3 DEF IterCollect
  <2>2. depth # 0
    BY <2>1, TopSound
  <2>3. QED
    BY <2>1, <2>2, AdvanceWInv, FinishLoopWInv
<1>4. QED
  BY <1>1, <1>2, <1>3

LEMMA NextCarries ==
  ASSUME IInv, MInv, MInv', WInv, [Next]_vars, NEW own, Holding(own)
  PROVE  WInv' /\ Untouched /\ Carries(own)
<1>1. CASE Scalars
  BY <1>1, ScalarsCalm, CalmWInv
<1>2. CASE External
  BY <1>2, ExternalCalm, CalmWInv
<1>3. CASE Containers
  BY <1>3, ContainersCalm, CalmWInv, MadeWInv, ChangedWInv DEF Changing
<1>4. CASE Control
  <2>1. CASE IterSetup \/ IterCollect
    BY <2>1, LoopsWInv
  <2>2. CASE Jumping \/ Coalesce \/ UnknownOpcode
    BY <2>2, JumpingCalm, CalmWInv
  <2>3. CASE Finish
    <3>1. Calm
      BY <2>3, SameExtends DEF Finish, Calm
    <3>2. QED
      BY <3>1, CalmWInv
  <2>4. QED
    BY <1>4, <2>1, <2>2, <2>3 DEF Control, Jumping
<1>5. CASE UNCHANGED vars
  <2>1. Calm
    BY <1>5, SameExtends DEF vars, Calm
  <2>2. QED
    BY <2>1, CalmWInv
<1>6. QED
  BY <1>1, <1>2, <1>3, <1>4, <1>5 DEF Next

LEMMA NextWInv ==
  ASSUME IInv, MInv, MInv', WInv, [Next]_vars
  PROVE  WInv' /\ Untouched
<1>1. PICK own : Holding(own)
  BY DEF WInv
<1>2. QED
  BY <1>1, NextCarries

(* At first nothing is under construction: the place before the code has   *)
(* no maker before it.                                                     *)
LEMMA InitWInv ==
  ASSUME \A p \in Packets : WellFormed(p) /\ AppendsToOwn(p.code), Init
  PROVE  WInv
<1>1. IInv /\ MInv /\ AppendsToOwn(packet.code) /\ pc = 0 /\ frames = << >>
  <2>1. IInv /\ MInv
    BY InitIInv, InitMInv
  <2>2. QED
    BY <2>1 DEF Init, Load
<1>2. Len(frames) = 0 /\ 1 .. 0 = {}
  BY <1>1
<1>3. \A s : ~Under(s)
  <2>1. \A c \in DOMAIN packet.code : c \in Nat \ {0}
    BY <1>1, InstructionAt DEF IInv
  <2>2. \A c \in DOMAIN packet.code, i \in DOMAIN packet.code : 0 + 1 \notin c + 1 .. i
    BY <2>1
  <2>3. QED
    BY <1>1, <2>2 DEF Under, Within
<1>4. Holding([h \in Int |-> {}])
  <2>1. PICK own : own = [h \in Int |-> {}]
    OBVIOUS
  <2>2. Holding(own)
    BY <1>2, <1>3, <2>1 DEF Holding
  <2>3. QED
    BY <2>1, <2>2
<1>5. QED
  BY <1>1, <1>2, <1>4 DEF WInv

LEMMA WInvImpliesLast == IInv /\ MInv /\ WInv => TailIsLast
<1> SUFFICES ASSUME IInv, MInv, WInv, NEW op \in Appends, Fetched(op), tail[d] # NULL
             PROVE  /\ mem[val[d]].head # NULL
                    /\ tail[d] \in LastOf(mem, mem[val[d]].head)
  BY DEF TailIsLast, Appends
<1>1. PICK own : Holding(own)
  BY DEF WInv
<1>2. /\ d \in Int /\ Chained(mem, own[d], mem[val[d]].head, tail[d])
      /\ own[d] \subseteq ValNothing + 1 .. Len(mem)
  BY <1>1, Own DEF Fetched
<1>3. PICK C, first, last : C = own[d] /\ first = mem[val[d]].head /\ last = tail[d]
  OBVIOUS
<1>4. /\ C \subseteq 1 .. Len(mem) /\ IsMemory(mem) /\ last # NULL
      /\ Chained(mem, C, first, last)
  BY <1>2, <1>3, Places DEF MInv
<1>5. last \in LastOf(mem, first)
  BY <1>4, ChainLast
<1>6. first # NULL
  BY <1>4 DEF Chained, NULL
<1>7. QED
  BY <1>3, <1>5, <1>6

(* What vm_execute shares it does not write to: in every run of packets    *)
(* that append only to records and lists they made, no step changes a      *)
(* singleton, a constant, an input or a source value.                      *)
THEOREM LoadedValuesKept ==
  ASSUME \A p \in Packets : WellFormed(p) /\ AppendsToOwn(p.code)
  PROVE  Spec => LoadedImmutable
<1>1. Init => IInv /\ MInv /\ WInv
  BY InitIInv, InitMInv, InitWInv
<1>2. IInv /\ MInv /\ WInv /\ [Next]_vars => IInv' /\ MInv' /\ WInv'
  BY NextIInv, NextMInv, NextWInv
<1>3. IInv /\ MInv /\ WInv /\ [Next]_vars => [\A a \in 1 .. ValNothing : mem'[a] = mem[a]]_vars
  BY NextMInv, NextWInv DEF Untouched
<1>4. QED
  BY <1>1, <1>2, <1>3, PTL DEF Spec, LoadedImmutable

(* The tail pointer a slot keeps is never stale: when RECORD_SET or        *)
(* LIST_APPEND follows it, it leads to the last cell of the record or list *)
(* in that slot.                                                           *)
THEOREM TailsAreLast ==
  ASSUME \A p \in Packets : WellFormed(p) /\ AppendsToOwn(p.code)
  PROVE  Spec => []TailIsLast
<1>1. Init => IInv /\ MInv /\ WInv
  BY InitIInv, InitMInv, InitWInv
<1>2. IInv /\ MInv /\ WInv /\ [Next]_vars => IInv' /\ MInv' /\ WInv'
  BY NextIInv, NextMInv, NextWInv
<1>3. IInv /\ MInv /\ WInv => TailIsLast
  BY WInvImpliesLast
<1>4. QED
  BY <1>1, <1>2, <1>3, PTL DEF Spec
===============================================================================
