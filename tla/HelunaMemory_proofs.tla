------------------------- MODULE HelunaMemory_proofs --------------------------
(*****************************************************************************)
(* More proofs about HelunaVm.tla: values and fields are not mixed up, and   *)
(* slots are written before they are read; what a record or a list in the    *)
(* making owns nobody else leads to, so that adding to it in place changes   *)
(* no other value.                                                           *)
(*****************************************************************************)
EXTENDS HelunaVm_proofs

(* Values and fields are not mixed up: every cell points to cells of the   *)
(* kind it should.  A memory grows alike when no cell changes its kind.    *)
AllPoint(m) == \A a \in 1 .. Len(m) : PointsTo(m[a], ValueCells(m), FieldCells(m))

Alike(m, n) == Len(m) <= Len(n) /\ \A a \in 1 .. Len(m) : n[a].kind = m[a].kind

LEMMA AlikeCells ==
  ASSUME NEW m, IsMemory(m), NEW n, IsMemory(n), Alike(m, n)
  PROVE  ValueCells(m) \subseteq ValueCells(n) /\ FieldCells(m) \subseteq FieldCells(n)
<1>1. Len(m) \in Nat /\ Len(n) \in Nat /\ Len(m) <= Len(n)
  BY SequenceFact DEF IsMemory, Alike
<1>2. \A a \in 1 .. Len(m) : a \in 1 .. Len(n) /\ n[a].kind = m[a].kind
  BY <1>1 DEF Alike
<1>3. QED
  BY <1>2 DEF ValueCells, FieldCells, Addr

LEMMA PointsMore ==
  ASSUME NEW c, NEW V, NEW F, NEW W, NEW G, V \subseteq W, F \subseteq G,
         PointsTo(c, V, F)
  PROVE  PointsTo(c, W, G)
  BY DEF PointsTo

LEMMA CellsApart ==
  ASSUME NEW m, IsMemory(m)
  PROVE  /\ ValueCells(m) \subseteq 1 .. Len(m) /\ FieldCells(m) \subseteq 1 .. Len(m)
         /\ NULL \notin ValueCells(m) /\ NULL \notin FieldCells(m)
         /\ \A a \in 1 .. Len(m) :
              /\ a \in ValueCells(m) <=> m[a].kind # "field"
              /\ a \in FieldCells(m) <=> m[a].kind = "field"
  BY SequenceFact DEF ValueCells, FieldCells, Addr, NULL, IsMemory

LEMMA AllTidy ==
  ASSUME NEW m, IsMemory(m), AllPoint(m)
  PROVE  Tidy(m, ValueCells(m), FieldCells(m))
  BY CellsApart DEF AllPoint, Tidy

(* Cells that were there and stay, and new ones.                           *)
LEMMA GrownPoints ==
  ASSUME NEW m, IsMemory(m), AllPoint(m), NEW n, IsMemory(n), Len(m) <= Len(n),
         \A a \in 1 .. Len(m) : n[a] = m[a],
         \A a \in Len(m) + 1 .. Len(n) : PointsTo(n[a], ValueCells(n), FieldCells(n))
  PROVE  AllPoint(n) /\ Alike(m, n)
<1>1. Alike(m, n)
  BY DEF Alike
<1>2. ValueCells(m) \subseteq ValueCells(n) /\ FieldCells(m) \subseteq FieldCells(n)
  BY <1>1, AlikeCells
<1>3. Len(m) \in Nat /\ Len(n) \in Nat
  BY SequenceFact DEF IsMemory
<1>4. ASSUME NEW a \in 1 .. Len(n) PROVE PointsTo(n[a], ValueCells(n), FieldCells(n))
  <2>1. CASE a \in 1 .. Len(m)
    <3>1. n[a] = m[a] /\ PointsTo(m[a], ValueCells(m), FieldCells(m))
      BY <2>1 DEF AllPoint
    <3>2. QED
      BY <1>2, <3>1, PointsMore
  <2>2. CASE a \in Len(m) + 1 .. Len(n)
    BY <2>2
  <2>3. QED
    BY <1>3, <2>1, <2>2
<1>5. QED
  BY <1>1, <1>4 DEF AllPoint

(* The last cell of a walk is one of the set it stays in.                  *)
LEMMA LastStays ==
  ASSUME NEW m, IsMemory(m), NEW D, D \subseteq 1 .. Len(m),
         \A x \in D : m[x].next \in D \cup {NULL}, NEW a \in D
  PROVE  LastOf(m, a) \subseteq D
<1>1. PICK cells : cells = Chain(m, a)
  OBVIOUS
<1>2. cells \in Seq(D)
  BY <1>1, ChainStays
<1>3. cells # << >>
  <2>1. Chain(m, a) = <<a>> \o Chain(m, m[a].next)
    <3>1. a \in 0 .. Len(m) /\ a # NULL
      BY SequenceFact DEF IsMemory, NULL
    <3>2. QED
      BY <3>1, ChainUnfold
  <2>2. PICK t : t = Chain(m, m[a].next)
    OBVIOUS
  <2>3. t \in Seq(D)
    BY <2>2, ChainStays
  <2>4. <<a>> \o t # << >>
    BY <2>3
  <2>5. QED
    BY <1>1, <2>1, <2>2, <2>4
<1>4. cells[Len(cells)] \in D
  BY <1>2, <1>3
<1>5. QED
  BY <1>1, <1>4 DEF LastOf

(* The fields of a record hold values; the elements of a list are values.  *)
LEMMA SortedMembers ==
  ASSUME NEW m, IsMemory(m), AllPoint(m), NEW a \in ValueCells(m) \cup {NULL}
  PROVE  /\ KindAt(m, a) = "list" => Members(m, a) \in Seq(ValueCells(m))
         /\ \A name : FieldNamed(m, a, name) \subseteq FieldCells(m)
         /\ \A name : \A f \in FieldNamed(m, a, name) : m[f].head \in ValueCells(m)
<1> DEFINE V == ValueCells(m)  F == FieldCells(m)
<1>1. Region(m, V, F) /\ \A f \in F : m[f].head \in V
  <2>1. Tidy(m, V, F)
    BY AllTidy
  <2> HIDE DEF V, F
  <2>2. QED
    BY <2>1, TidyRegion DEF Tidy, PointsTo
<1> HIDE DEF V, F
<1>2. CASE a = NULL
  BY <1>2 DEF KindAt, FieldNamed
<1>3. CASE a \in V
  <2>1. KindAt(m, a) = "list" => Members(m, a) \in Seq(V)
    BY <1>1, <1>3 DEF Region
  <2>2. KindAt(m, a) = "record" => Members(m, a) \in Seq(F)
    BY <1>1, <1>3 DEF Region
  <2>3. \A name : FieldNamed(m, a, name) \subseteq F
    BY <2>2, NamedAmong
  <2>4. QED
    BY <1>1, <2>1, <2>3 DEF V, F
<1>4. QED
  BY <1>2, <1>3 DEF V

(* What every state holds, besides IInv, MInv and WInv: the machine points *)
(* to values only, a frame names the slots of its own ITER_COLLECT, and    *)
(* the slots that are assured where control or a loop stands hold a value. *)
Held(v, slots) == \A s \in Slots : s \in slots => v[s] # NULL

FrameSorted(f, values) ==
  /\ f.nextElem \in values \cup {NULL} /\ f.acc \in values \cup {NULL}
  /\ f.head \in values \cup {NULL} /\ f.last \in values \cup {NULL}
  /\ f.mode = packet.code[f.bodyStart].mode
  /\ f.slotA = packet.code[f.collectPc + 1].o1
  /\ f.slotB = packet.code[f.collectPc + 1].o2

Assuring(assured) ==
  /\ ReadsAssured(packet, assured)
  /\ pc <= Len(packet.code) => Held(val, assured[pc + 1])
  /\ \A i \in 1 .. Len(frames) : Held(val, assured[frames[i].bodyStart])

SInv ==
  /\ LoadedSorted(packet) /\ AllPoint(mem)
  /\ ValueCells(packet.mem) \cup {ValTrue, ValFalse, ValNothing} \subseteq ValueCells(mem)
  /\ \A s \in Slots : val[s] \in ValueCells(mem) \cup {NULL}
  /\ \A i \in 1 .. Len(frames) : FrameSorted(frames[i], ValueCells(mem))
  /\ \E assured : Assuring(assured)

(* A step that leaves the frames alone and, if it writes a slot, puts a    *)
(* value there.                                                            *)
Sorts == Alike(mem, mem') /\ AllPoint(mem')

Filled ==
  /\ UNCHANGED <<packet, frames>> /\ Sorts
  /\ \/ UNCHANGED <<val, pc>>
     \/ /\ AtJump /\ UNCHANGED val
        /\ pc' = d \/ (pc' = pc + 1 /\ ins.op # "JUMP")
     \/ /\ AtPlain /\ ins.op \notin JumpTargetOps /\ pc' = pc + 1
        /\ \E a \in ValueCells(mem') : val' = [val EXCEPT ![d] = a]

(* What is sorted and named stays so as memory grows.                      *)
LEMMA SortedStays ==
  ASSUME MInv, MInv', SInv, UNCHANGED packet, Sorts
  PROVE  /\ LoadedSorted(packet)' /\ AllPoint(mem)'
         /\ (ValueCells(packet.mem) \cup {ValTrue, ValFalse, ValNothing}
               \subseteq ValueCells(mem))'
         /\ ValueCells(mem) \subseteq ValueCells(mem')
<1>1. ValueCells(mem) \subseteq ValueCells(mem')
  BY AlikeCells DEF MInv, Sorts
<1>2. (ValueCells(packet.mem) \cup {ValTrue, ValFalse, ValNothing} \subseteq ValueCells(mem))'
  BY <1>1 DEF SInv, ValTrue, ValFalse, ValNothing
<1>3. LoadedSorted(packet)' /\ AllPoint(mem)'
  BY DEF SInv, Sorts
<1>4. QED
  BY <1>1, <1>2, <1>3

(* A slot that holds a value keeps holding one, as it gets values only.    *)
LEMMA HeldStays ==
  ASSUME MInv, MInv', UNCHANGED packet,
         \A s \in Slots : val'[s] = val[s] \/ val'[s] # NULL
  PROVE  \A S : Held(val, S) => Held(val', S)
  BY DEF Held

LEMMA AssuredAt ==
  ASSUME IInv, NEW assured, ReadsAssured(packet, assured), status = "running",
         pc < Len(packet.code)
  PROVE  /\ pc + 1 \in DOMAIN packet.code /\ ins = packet.code[pc + 1] /\ pc \in Nat
         /\ Reads(ins) \subseteq assured[pc + 1]
         /\ ins.op # "JUMP" => assured[pc + 2] \subseteq assured[pc + 1] \cup Writes(ins)
         /\ ins.op \in JumpTargetOps /\ d <= Len(packet.code) =>
              assured[d + 1] \subseteq assured[pc + 1]
<1>1. pc + 1 \in DOMAIN packet.code /\ ins = packet.code[pc + 1] /\ pc \in Nat
      /\ ins.dest \in Nat /\ Len(packet.code) \in Nat
  BY CurrentInstruction DEF IInv
<1>2. PICK k : k = pc + 1
  OBVIOUS
<1>3. k + 1 = pc + 2 /\ (d <= Len(packet.code) => ins.dest < Len(packet.code) + 1)
  BY <1>1, <1>2 DEF d
<1>4. /\ Reads(ins) \subseteq assured[k]
      /\ ins.op # "JUMP" => assured[k + 1] \subseteq assured[k] \cup Writes(ins)
      /\ ins.op \in JumpTargetOps /\ ins.dest < Len(packet.code) + 1 =>
           assured[ins.dest + 1] \subseteq assured[k]
  BY <1>1, <1>2 DEF ReadsAssured
<1>5. QED
  BY <1>1, <1>2, <1>3, <1>4 DEF d

LEMMA FilledAssuring ==
  ASSUME IInv, MInv, MInv', SInv, Filled, NEW assured, Assuring(assured)
  PROVE  Assuring(assured)'
<1>1. UNCHANGED <<packet, frames>> /\ Slots' = Slots
  BY DEF Filled, Slots
<1>2. \A s \in Slots : val'[s] = val[s] \/ val'[s] # NULL
  <2>1. CASE UNCHANGED val
    BY <2>1
  <2>2. CASE \E a \in ValueCells(mem') : val' = [val EXCEPT ![d] = a]
    <3>1. NULL \notin ValueCells(mem')
      BY CellsApart DEF MInv
    <3>2. QED
      BY <2>2, <3>1 DEF MInv
  <2>3. QED
    BY <2>1, <2>2 DEF Filled
<1>3. \A S : Held(val, S) => Held(val', S)
  BY <1>1, <1>2, HeldStays
<1>4. ReadsAssured(packet, assured)' /\ ReadsAssured(packet, assured)
  BY <1>1 DEF Assuring
<1>5. \A i \in 1 .. Len(frames') : Held(val', assured[frames'[i].bodyStart])
  BY <1>1, <1>3 DEF Assuring
<1>6. pc' <= Len(packet.code) => Held(val', assured[pc' + 1])
  <2>1. CASE UNCHANGED <<val, pc>>
    BY <1>3, <2>1 DEF Assuring
  <2>2. CASE /\ AtJump /\ UNCHANGED val
             /\ pc' = d \/ (pc' = pc + 1 /\ ins.op # "JUMP")
    <3>1. /\ ins.op # "JUMP" => assured[pc + 2] \subseteq assured[pc + 1] \cup Writes(ins)
          /\ d <= Len(packet.code) => assured[d + 1] \subseteq assured[pc + 1]
          /\ pc \in Nat /\ Len(packet.code) \in Nat /\ pc < Len(packet.code)
      BY <1>4, <2>2, AssuredAt DEF AtJump, IInv
    <3>2. Writes(ins) = {}
      BY <2>2 DEF AtJump, Writes
    <3>3. Held(val, assured[pc + 1])
      BY <3>1 DEF Assuring
    <3>4. CASE pc' = d
      BY <1>3, <3>1, <3>3, <3>4 DEF Held
    <3>5. CASE pc' = pc + 1 /\ ins.op # "JUMP"
      <4>1. pc' + 1 = pc + 2
        BY <3>1, <3>5
      <4>2. QED
        BY <1>3, <3>1, <3>2, <3>3, <3>5, <4>1 DEF Held
    <3>6. QED
      BY <2>2, <3>4, <3>5
  <2>3. CASE /\ AtPlain /\ ins.op \notin JumpTargetOps /\ pc' = pc + 1
             /\ \E a \in ValueCells(mem') : val' = [val EXCEPT ![d] = a]
    <3>1. /\ ins.op # "JUMP" => assured[pc + 2] \subseteq assured[pc + 1] \cup Writes(ins)
          /\ pc \in Nat /\ Len(packet.code) \in Nat /\ pc < Len(packet.code)
      BY <1>4, <2>3, AssuredAt DEF AtPlain, IInv
    <3>2. Writes(ins) = {d} /\ ins.op # "JUMP"
      BY <2>3 DEF Writes, d, JumpTargetOps
    <3>3. Held(val', assured[pc + 1])
      BY <1>3, <3>1 DEF Assuring
    <3>4. \A s \in Slots : s = d => val'[s] # NULL
      <4>1. NULL \notin ValueCells(mem')
        BY CellsApart DEF MInv
      <4>2. QED
        BY <2>3, <4>1 DEF MInv
    <3>5. pc' + 1 = pc + 2
      BY <2>3, <3>1
    <3>6. QED
      BY <1>1, <3>1, <3>2, <3>3, <3>4, <3>5 DEF Held
  <2>4. QED
    BY <2>1, <2>2, <2>3 DEF Filled
<1>7. \A S : Held(val', S) => Held(val, S)'
  BY <1>1 DEF Held
<1>8. (pc <= Len(packet.code) => Held(val, assured[pc + 1]))'
  BY <1>1, <1>6, <1>7
<1>9. (\A i \in 1 .. Len(frames) : Held(val, assured[frames[i].bodyStart]))'
  BY <1>5, <1>7
<1>10. QED
  BY <1>4, <1>8, <1>9 DEF Assuring

LEMMA FilledSInv == IInv /\ MInv /\ MInv' /\ SInv /\ Filled => SInv'
<1> SUFFICES ASSUME IInv, MInv, MInv', SInv, Filled PROVE SInv'
  OBVIOUS
<1>1. UNCHANGED <<packet, frames>> /\ Sorts /\ Slots' = Slots
  BY DEF Filled, Slots
<1>2. ValueCells(mem) \subseteq ValueCells(mem')
  BY <1>1, SortedStays
<1>3. \A s \in Slots : val'[s] \in ValueCells(mem') \cup {NULL}
  <2>1. CASE UNCHANGED val
    BY <1>2, <2>1 DEF SInv
  <2>2. CASE \E a \in ValueCells(mem') : val' = [val EXCEPT ![d] = a]
    BY <1>2, <2>2 DEF SInv, MInv
  <2>3. QED
    BY <2>1, <2>2 DEF Filled
<1>4. \A i \in 1 .. Len(frames') : FrameSorted(frames[i], ValueCells(mem))'
  <2>1. \A i \in 1 .. Len(frames) : FrameSorted(frames[i], ValueCells(mem))
    BY DEF SInv
  <2>2. QED
    BY <1>1, <1>2, <2>1 DEF FrameSorted
<1>5. \E assured : Assuring(assured)'
  BY FilledAssuring DEF SInv
<1>6. QED
  BY <1>1, <1>3, <1>4, <1>5, SortedStays DEF SInv

(* An instruction finds a value in every slot it reads.                    *)
LEMMA ReadsHeld ==
  ASSUME IInv, MInv, SInv, status = "running", pc < Len(packet.code)
  PROVE  \A s \in Reads(ins) : s \in Slots /\ val[s] \in ValueCells(mem) /\ val[s] # NULL
<1>1. PICK assured : Assuring(assured)
  BY DEF SInv
<1>2. Reads(ins) \subseteq assured[pc + 1] /\ pc <= Len(packet.code)
  <2>1. pc \in Nat /\ Len(packet.code) \in Nat
    BY DEF IInv
  <2>2. QED
    BY <1>1, <2>1, AssuredAt DEF Assuring
<1>3. Reads(ins) \subseteq Slots
  BY Named
<1>4. QED
  BY <1>1, <1>2, <1>3 DEF Assuring, Held, SInv

LEMMA Value1 ==
  ASSUME IInv, MInv, SInv, NEW op, Fetched(op),
         op \in {"LOAD_FIELD", "COPY", "NEGATE", "NOT", "TO_STRING", "TO_INT",
                 "TO_FLOAT", "TO_BOOL", "LIST_LENGTH", "ITER_SETUP", "TAG_CHECK",
                 "RECORD_GET_C"} \cup DOMAIN TypeTests
  PROVE  V1 \in ValueCells(mem)
<1>1. ins.op = op
  BY DEF Fetched
<1>2. ins.o1 \in Reads(ins)
  BY <1>1 DEF Reads, TypeTests
<1>3. QED
  BY <1>2, ReadsHeld DEF V1, Fetched

LEMMA Value2 ==
  ASSUME IInv, MInv, SInv, NEW op, Fetched(op),
         op \in {"COALESCE", "RECORD_GET", "RECORD_HAS", "LIST_GET"}
  PROVE  V1 \in ValueCells(mem) /\ V2 \in ValueCells(mem)
<1>1. ins.op = op
  BY DEF Fetched
<1>2. ins.o1 \in Reads(ins) /\ ins.o2 \in Reads(ins)
  BY <1>1 DEF Reads, TypeTests
<1>3. QED
  BY <1>2, ReadsHeld DEF V1, V2, Fetched

LEMMA SortedSingletons ==
  ASSUME SInv
  PROVE  ValNothing \in ValueCells(mem) /\ \A b : Boolean(b) \in ValueCells(mem)
  BY DEF SInv, Boolean

------------------------------------------------------------------------------
(* The ways an instruction writes its destination.                         *)
Free == AtPlain /\ ins.op \notin JumpTargetOps

LEMMA SameSorts == MInv /\ SInv /\ mem' = mem => Sorts
<1> SUFFICES ASSUME MInv, SInv, mem' = mem PROVE Sorts
  OBVIOUS
<1>1. Len(mem) <= Len(mem)
  BY MemorySize
<1>2. QED
  BY <1>1 DEF Sorts, SInv, Alike

LEMMA FailFilled == MInv /\ SInv /\ Fail => Filled
  BY SameSorts DEF Fail, Filled

LEMMA GotoFilled ==
  ASSUME MInv, SInv, AtJump, NEW t, t = d \/ (t = pc + 1 /\ ins.op # "JUMP"), Goto(t)
  PROVE  Filled
  BY SameSorts DEF Goto, Filled

LEMMA PointFilled ==
  ASSUME MInv, SInv, Free, NEW a \in ValueCells(mem), NEW t, Point(a, t)
  PROVE  Filled
  BY SameSorts DEF Point, Assign, Filled, Free

LEMMA BooleanFilled ==
  ASSUME MInv, SInv, Free, NEW b, NEW t, Point(Boolean(b), t)
  PROVE  Filled
  BY SortedSingletons, PointFilled

(* A cell added behind the memory.                                         *)
LEMMA AddedSorts ==
  ASSUME MInv, MInv', SInv, NEW c, mem' = Append(mem, c),
         PointsTo(c, ValueCells(mem), FieldCells(mem))
  PROVE  /\ Sorts /\ Len(mem') = Len(mem) + 1
         /\ c.kind # "field" => Len(mem) + 1 \in ValueCells(mem')
         /\ ValueCells(mem) \subseteq ValueCells(mem')
         /\ FieldCells(mem) \subseteq FieldCells(mem')
<1>1. IsMemory(mem) /\ IsMemory(mem') /\ IsSequence(mem) /\ AllPoint(mem)
      /\ Len(mem) \in Nat
  BY MemorySize DEF MInv, SInv, IsMemory
<1>2. /\ Len(mem') = Len(mem) + 1 /\ mem'[Len(mem) + 1] = c
      /\ \A a \in 1 .. Len(mem) : mem'[a] = mem[a]
  BY <1>1, AppendAny
<1>3. Alike(mem, mem')
  BY <1>1, <1>2 DEF Alike
<1>4. /\ ValueCells(mem) \subseteq ValueCells(mem')
      /\ FieldCells(mem) \subseteq FieldCells(mem')
  BY <1>1, <1>3, AlikeCells
<1>5. PointsTo(c, ValueCells(mem'), FieldCells(mem'))
  BY <1>4, PointsMore
<1>6. \A a \in Len(mem) + 1 .. Len(mem') : a = Len(mem) + 1
  BY <1>1, <1>2
<1>7. AllPoint(mem') /\ Alike(mem, mem')
  <2>1. Len(mem) <= Len(mem')
    BY <1>3 DEF Alike
  <2>2. \A a \in Len(mem) + 1 .. Len(mem') : PointsTo(mem'[a], ValueCells(mem'), FieldCells(mem'))
    BY <1>2, <1>5, <1>6
  <2>3. QED
    BY <1>1, <1>2, <2>1, <2>2, GrownPoints
<1>8. c.kind # "field" => Len(mem) + 1 \in ValueCells(mem')
  <2>1. Len(mem) + 1 \in 1 .. Len(mem')
    BY <1>1, <1>2
  <2>2. QED
    BY <1>1, <1>2, <2>1, CellsApart
<1>9. QED
  BY <1>2, <1>4, <1>7, <1>8 DEF Sorts

LEMMA StoreFilled ==
  ASSUME MInv, MInv', SInv, Free, NEW c, c.kind # "field",
         PointsTo(c, ValueCells(mem), FieldCells(mem)), NEW t, Store(c, t)
  PROVE  Filled
<1>1. /\ mem' = Append(mem, c) /\ UNCHANGED <<packet, frames>> /\ pc' = pc + 1
      /\ val' = [val EXCEPT ![d] = Len(mem) + 1]
  BY DEF Store, Assign
<1>2. Sorts /\ Len(mem) + 1 \in ValueCells(mem')
  BY <1>1, AddedSorts
<1>3. QED
  BY <1>1, <1>2 DEF Filled, Free

LEMMA ScalarFilled ==
  ASSUME MInv, MInv', SInv, Free, NEW c, Scalar(c), NEW t, Store(c, t)
  PROVE  Filled
<1>1. c.kind # "field" /\ PointsTo(c, ValueCells(mem), FieldCells(mem))
  <2>1. c.kind \notin {"field", "record"} /\ PointsTo(c, ValueCells(mem), FieldCells(mem))
    BY ScalarPoints
  <2>2. QED
    BY <2>1
<1>2. QED
  BY <1>1, StoreFilled

LEMMA ScalarCells ==
  /\ \A n \in Int : Scalar(IntegerCell(n)) /\ Scalar(FloatCell(n))
  /\ \A s : Scalar(StringCell(s))
  /\ \A kind \in {"integer", "float"}, n \in Int : Scalar(Cell(kind, n, "", NULL))
<1>1. 0 \in Int
  OBVIOUS
<1>2. QED
  BY <1>1, Zenon DEF Scalar, IntegerCell, FloatCell, StringCell, NULL

(* The operations that neither open, close nor change a container.         *)
LEMMA FreeOps ==
  ASSUME NEW op, Fetched(op), op \notin {"ITER_SETUP", "ITER_COLLECT"} \cup JumpTargetOps
  PROVE  Free
  BY DEF Fetched, Free, AtPlain

LEMMA FreeTests ==
  \A op \in DOMAIN TypeTests : op \notin {"ITER_SETUP", "ITER_COLLECT"} \cup JumpTargetOps
  BY DEF TypeTests, JumpTargetOps, JumpOps

------------------------------------------------------------------------------
(* Instructions that compute a value.                                      *)
LEMMA ScalarsFilled == IInv /\ MInv /\ MInv' /\ SInv /\ Scalars => Filled
<1> SUFFICES ASSUME IInv, MInv, MInv', SInv, Scalars PROVE Filled
  OBVIOUS
<1> USE FailFilled
<1>1. CASE LoadConst
  <2>1. Free
    BY <1>1, FreeOps DEF LoadConst, JumpTargetOps, JumpOps
  <2>2. packet.consts \in Seq(ValueCells(packet.mem)) /\ ins.o1 \in Nat
    BY <1>1, DestinationOnly DEF SInv, LoadedSorted, LoadConst, JumpTargetOps, JumpOps
  <2>3. PICK size : size = Len(packet.consts) /\ size \in Nat
    BY <2>2
  <2>4. ins.o1 < size => Constant(ins.o1) \in ValueCells(mem)
    <3>1. ins.o1 < size => packet.consts[ins.o1 + 1] \in ValueCells(packet.mem)
      BY <2>2, <2>3
    <3>2. QED
      BY <2>3, <3>1 DEF SInv, Constant
  <2>5. ins.o1 < size \/ ins.o1 >= size
    BY <2>2, <2>3
  <2>6. QED
    BY <1>1, <2>1, <2>3, <2>4, <2>5, PointFilled DEF LoadConst
<1>2. CASE LoadNothing
  <2>1. Free
    BY <1>2, FreeOps DEF LoadNothing, JumpTargetOps, JumpOps
  <2>2. QED
    BY <1>2, <2>1, SortedSingletons, PointFilled DEF LoadNothing
<1>3. CASE LoadField \/ Copy
  <2>1. Free /\ V1 \in ValueCells(mem)
    BY <1>3, FreeOps, Value1 DEF LoadField, Copy, JumpTargetOps, JumpOps
  <2>2. QED
    BY <1>3, <2>1, PointFilled DEF LoadField, Copy
<1>4. CASE ArithmeticStep
  <2>1. PICK op \in Operations :
          /\ Fetched(op)
          /\ IF V1 = NULL \/ V2 = NULL THEN Fail
             ELSE IF ArithmeticFails(op, mem[V1], mem[V2]) THEN Fail
             ELSE Store(Arithmetic(op, mem[V1], mem[V2]), Propagated(OperandTags))
    BY <1>4 DEF ArithmeticStep, Operations
  <2>2. /\ V1 \in 0 .. Len(mem) /\ V2 \in 0 .. Len(mem) /\ Free
    <3>1. op \notin {"ITER_SETUP", "ITER_COLLECT"} \cup JumpTargetOps
      BY DEF Operations, JumpTargetOps, JumpOps
    <3>2. QED
      BY <2>1, <3>1, Operands2, FreeOps
  <2>3. CASE V1 # NULL /\ V2 # NULL /\ ~ArithmeticFails(op, mem[V1], mem[V2])
    <3>1. mem[V1].n \in Int /\ mem[V2].n \in Int
      BY <2>2, <2>3, HeldCell
    <3>2. Arithmetic(op, mem[V1], mem[V2]) \in NumberCells
      BY <2>3, <3>1, ArithmeticNumber
    <3>3. Scalar(Arithmetic(op, mem[V1], mem[V2]))
      BY <3>2, ScalarCells DEF NumberCells
    <3>4. QED
      BY <2>1, <2>2, <2>3, <3>3, ScalarFilled
  <2>4. QED
    BY <2>1, <2>3
<1>5. CASE Negate
  <2>1. Free /\ V1 \in 0 .. Len(mem)
    BY <1>5, Operand1, FreeOps DEF Negate, JumpTargetOps, JumpOps
  <2>2. CASE V1 # NULL /\ IsNumber(mem[V1])
    <3>1. mem[V1].kind \in {"integer", "float"} /\ -mem[V1].n \in Int
      BY <2>1, <2>2, HeldCell DEF IsNumber
    <3>2. Scalar(Cell(mem[V1].kind, -mem[V1].n, "", NULL))
      BY <3>1, ScalarCells
    <3>3. QED
      BY <1>5, <2>1, <2>2, <3>2, ScalarFilled DEF Negate
  <2>3. QED
    BY <1>5, <2>2 DEF Negate
<1>6. CASE Equality
  <2>1. Free
    BY <1>6, FreeOps DEF Equality, JumpTargetOps, JumpOps
  <2>2. QED
    BY <1>6, <2>1, BooleanFilled DEF Equality
<1>7. CASE Ordering
  <2>1. PICK op \in {"LT", "GT", "LTE", "GTE"} :
          Fetched(op) /\ (Fail \/ \E b : Point(Boolean(b), {}))
    BY <1>7 DEF Ordering
  <2>2. Free
    BY <2>1, FreeOps DEF JumpTargetOps, JumpOps
  <2>3. QED
    BY <2>1, <2>2, BooleanFilled
<1>8. CASE Connective
  <2>1. PICK op \in {"AND", "OR"} :
          Fetched(op) /\ (Fail \/ \E b : Point(Boolean(b), {}))
    BY <1>8 DEF Connective
  <2>2. Free
    BY <2>1, FreeOps DEF JumpTargetOps, JumpOps
  <2>3. QED
    BY <2>1, <2>2, BooleanFilled
<1>9. CASE Not \/ ToBool
  <2>1. Free
    BY <1>9, FreeOps DEF Not, ToBool, JumpTargetOps, JumpOps
  <2>2. QED
    BY <1>9, <2>1, BooleanFilled DEF Not, ToBool
<1>10. CASE StrConcat \/ ToStringOp
  <2>1. Free
    BY <1>10, FreeOps DEF StrConcat, ToStringOp, JumpTargetOps, JumpOps
  <2>2. \E s, t : Store(StringCell(s), t)
    BY <1>10 DEF StrConcat, ToStringOp
  <2>3. QED
    BY <2>1, <2>2, ScalarCells, ScalarFilled
<1>11. CASE TypeTest
  <2>1. PICK op \in DOMAIN TypeTests : Fetched(op) /\ \E b : Point(Boolean(b), {})
    BY <1>11 DEF TypeTest
  <2>2. Free
    BY <2>1, FreeOps, FreeTests
  <2>3. QED
    BY <2>1, <2>2, BooleanFilled
<1>12. CASE ToInt
  <2>1. Free /\ V1 \in 0 .. Len(mem)
    BY <1>12, Operand1, FreeOps DEF ToInt, JumpTargetOps, JumpOps
  <2>2. CASE KindAt(mem, V1) \in {"integer", "float", "string", "boolean"}
    <3>1. mem[V1].n \in Int
      <4>1. V1 # NULL
        BY <2>2 DEF KindAt
      <4>2. QED
        BY <2>1, <4>1, HeldCell
    <3>2. CDiv(mem[V1].n, 2) \in Int /\ ParseInteger(mem[V1].s) \in Int
      BY <3>1, Halved, ParsedNumbers
    <3>3. \E n \in Int : Store(IntegerCell(n), tags[ins.o1])
      BY <1>12, <2>2, <3>1, <3>2 DEF ToInt
    <3>4. QED
      BY <2>1, <3>3, ScalarCells, ScalarFilled
  <2>3. QED
    BY <1>12, <2>2 DEF ToInt
<1>13. CASE ToFloat
  <2>1. Free /\ V1 \in 0 .. Len(mem)
    BY <1>13, Operand1, FreeOps DEF ToFloat, JumpTargetOps, JumpOps
  <2>2. CASE KindAt(mem, V1) \in {"integer", "float", "string"}
    <3>1. mem[V1].n \in Int
      <4>1. V1 # NULL
        BY <2>2 DEF KindAt
      <4>2. QED
        BY <2>1, <4>1, HeldCell
    <3>2. ToDouble(mem[V1]) \in Int /\ ParseHalves(mem[V1].s) \in Int
      BY <3>1, ParsedNumbers DEF ToDouble
    <3>3. \E n \in Int : Store(FloatCell(n), tags[ins.o1])
      BY <1>13, <2>2, <3>2 DEF ToFloat
    <3>4. QED
      BY <2>1, <3>3, ScalarCells, ScalarFilled
  <2>3. QED
    BY <1>13, <2>2 DEF ToFloat
<1>14. QED
  BY <1>1, <1>2, <1>3, <1>4, <1>5, <1>6, <1>7, <1>8, <1>9, <1>10, <1>11, <1>12,
     <1>13 DEF Scalars

------------------------------------------------------------------------------
(* Library calls, tags, sources and jumps.                                 *)
LEMMA ArgumentsSorted ==
  ASSUME MInv, SInv, V2 \in ValueCells(mem)
  PROVE  Arguments \in [Library!ArgNames -> ValueCells(mem) \cup {0}]
<1>1. ASSUME NEW name PROVE Argument(name) \in ValueCells(mem) \cup {0}
  <2>1. \A f \in FieldNamed(mem, V2, name) : mem[f].head \in ValueCells(mem)
    BY SortedMembers DEF MInv, SInv
  <2>2. FieldNamed(mem, V2, name) # {} =>
          mem[CHOOSE f \in FieldNamed(mem, V2, name) : TRUE].head \in ValueCells(mem)
    BY <2>1
  <2>3. QED
    BY <2>2 DEF Argument, NULL
<1>2. QED
  BY <1>1 DEF Arguments

LEMMA AnswerFilled ==
  ASSUME MInv, MInv', SInv, Free, NEW r, IsSequence(r.cells),
         Keeps(mem, ValueCells(mem), FieldCells(mem), r), Answer(r)
  PROVE  Filled
<1>1. /\ mem' = mem \o r.cells /\ UNCHANGED <<packet, frames>> /\ pc' = pc + 1
      /\ val' = [val EXCEPT ![d] = r.at]
  BY DEF Answer, Assign
<1>2. PICK W, G :
        /\ W \cup G = Len(mem) + 1 .. Len(mem) + Len(r.cells)
        /\ \A i \in 1 .. Len(r.cells) :
             /\ Len(mem) + i \in W <=> r.cells[i].kind # "field"
             /\ Len(mem) + i \in G <=> r.cells[i].kind = "field"
             /\ PointsTo(r.cells[i], ValueCells(mem) \cup W, FieldCells(mem) \cup G)
        /\ r.at \in ValueCells(mem) \cup W
  BY DEF Keeps
<1>3. IsMemory(mem) /\ IsMemory(mem') /\ IsSequence(mem) /\ AllPoint(mem)
      /\ Len(mem) \in Nat /\ Len(r.cells) \in Nat
  BY MemorySize, SequenceFact DEF MInv, SInv, IsMemory
<1>4. /\ Len(mem') = Len(mem) + Len(r.cells)
      /\ \A a \in 1 .. Len(mem) : mem'[a] = mem[a]
      /\ \A i \in 1 .. Len(r.cells) : mem'[Len(mem) + i] = r.cells[i]
  BY <1>1, <1>3, ConcatFact
<1>5. Alike(mem, mem')
  BY <1>3, <1>4 DEF Alike
<1>6. ValueCells(mem) \subseteq ValueCells(mem') /\ FieldCells(mem) \subseteq FieldCells(mem')
  BY <1>3, <1>5, AlikeCells
<1>7. \A a \in Len(mem) + 1 .. Len(mem') :
        \E i \in 1 .. Len(r.cells) : a = Len(mem) + i
  <2>1. ASSUME NEW a \in Len(mem) + 1 .. Len(mem')
        PROVE  a - Len(mem) \in 1 .. Len(r.cells) /\ a = Len(mem) + (a - Len(mem))
    BY <1>3, <1>4
  <2>2. QED
    BY <2>1
<1>8. W \subseteq ValueCells(mem') /\ G \subseteq FieldCells(mem')
  <2>1. ASSUME NEW a \in W \cup G
        PROVE  /\ a \in 1 .. Len(mem')
               /\ a \in W => mem'[a].kind # "field"
               /\ a \in G => mem'[a].kind = "field"
    <3>1. a \in Len(mem) + 1 .. Len(mem')
      BY <1>2, <1>4
    <3>2. PICK i \in 1 .. Len(r.cells) : a = Len(mem) + i
      BY <1>7, <3>1
    <3>3. mem'[a] = r.cells[i]
      BY <1>4, <3>2
    <3>4. a \in 1 .. Len(mem')
      BY <1>3, <1>4, <3>1
    <3>5. QED
      BY <1>2, <3>2, <3>3, <3>4
  <2>2. QED
    BY <1>3, <2>1, CellsApart
<1>9. \A a \in Len(mem) + 1 .. Len(mem') : PointsTo(mem'[a], ValueCells(mem'), FieldCells(mem'))
  <2>1. ASSUME NEW a \in Len(mem) + 1 .. Len(mem')
        PROVE  PointsTo(mem'[a], ValueCells(mem'), FieldCells(mem'))
    <3>1. PICK i \in 1 .. Len(r.cells) : a = Len(mem) + i
      BY <1>7
    <3>2. PICK V, F : V = ValueCells(mem) \cup W /\ F = FieldCells(mem) \cup G
      OBVIOUS
    <3>3. PointsTo(r.cells[i], V, F) /\ mem'[a] = r.cells[i]
      BY <1>2, <1>4, <3>1, <3>2
    <3>4. V \subseteq ValueCells(mem') /\ F \subseteq FieldCells(mem')
      BY <1>6, <1>8, <3>2
    <3>5. QED
      BY <3>3, <3>4, PointsMore
  <2>2. QED
    BY <2>1
<1>10. Sorts
  <2>1. Len(mem) <= Len(mem')
    BY <1>3, <1>4
  <2>2. QED
    BY <1>3, <1>4, <1>9, <2>1, GrownPoints DEF Sorts
<1>11. r.at \in ValueCells(mem')
  BY <1>2, <1>6, <1>8
<1>12. QED
  BY <1>1, <1>10, <1>11 DEF Filled, Free

LEMMA CallLibraryFilled ==
  ASSUME MInv, MInv', SInv, Free, ins.o2 \in Slots, V2 \in ValueCells(mem), CallLibrary
  PROVE  Filled
<1>1. V2 # NULL
  BY CellsApart DEF MInv
<1>2. \/ Point(V2, Propagated(tags[ins.o2]))
      \/ \E f : CallFunction(f)
      \/ Fail
      \/ \E n : Store(StringCell(n), Propagated(tags[ins.o2]))
  BY <1>1 DEF CallLibrary
<1>3. CASE \E f : CallFunction(f)
  <2>1. PICK f : CallFunction(f)
    BY <1>3
  <2>2. Fail \/ \E r \in Library!Call(f, mem, Arguments) : Answer(r)
    BY <2>1 DEF CallFunction
  <2>3. \A r \in Library!Call(f, mem, Arguments) : IsSequence(r.cells)
    <3>1. Arguments \in [Library!ArgNames -> 0 .. Len(mem)] /\ IsMemory(mem)
      BY ArgumentsHold DEF MInv
    <3>2. \A r \in Library!Call(f, mem, Arguments) : Sound(mem, r)
      BY <3>1, CallSound
    <3>3. QED
      BY <3>2 DEF Sound, Fit
  <2>4. \A r \in Library!Call(f, mem, Arguments) :
          Keeps(mem, ValueCells(mem), FieldCells(mem), r)
    <3>1. IsMemory(mem) /\ Tidy(mem, ValueCells(mem), FieldCells(mem))
      BY AllTidy DEF MInv, SInv
    <3>2. QED
      BY <3>1, ArgumentsSorted, CallKeeps
  <2>5. QED
    BY <2>2, <2>3, <2>4, AnswerFilled, FailFilled
<1>4. CASE Point(V2, Propagated(tags[ins.o2]))
  BY <1>4, PointFilled
<1>5. CASE \E n : Store(StringCell(n), Propagated(tags[ins.o2]))
  BY <1>5, ScalarCells, ScalarFilled
<1>6. QED
  BY <1>2, <1>3, <1>4, <1>5, FailFilled

(* The item a lookup finds is a value.                                     *)
LEMMA LookupSorted ==
  ASSUME MInv, SInv, NEW i \in 1 .. Len(packet.sources), NEW a \in LookupIn(packet.sources[i])
  PROVE  a \in ValueCells(mem)
<1>1. PICK source : source = packet.sources[i]
  OBVIOUS
<1>2. source.list \in ValueCells(mem) \cup {NULL}
  <2>1. PICK S : S = [list : ValueCells(packet.mem) \cup {NULL}, keyedBy : STRING]
    OBVIOUS
  <2>2. PICK sources : sources = packet.sources /\ sources \in Seq(S)
    BY <2>1 DEF SInv, LoadedSorted
  <2>3. sources[i] \in S
    BY <2>2, ElementOfSeq
  <2>4. source.list \in ValueCells(packet.mem) \cup {NULL}
    BY <1>1, <2>1, <2>2, <2>3
  <2>5. QED
    BY <2>4 DEF SInv
<1>3. KindAt(mem, source.list) = "list" => Members(mem, source.list) \in Seq(ValueCells(mem))
  BY <1>2, SortedMembers DEF MInv, SInv
<1>4. PICK items : items = IF KindAt(mem, source.list) = "list"
                           THEN Members(mem, source.list) ELSE << >>
  OBVIOUS
<1>5. items \in Seq(ValueCells(mem))
  BY <1>3, <1>4
<1>6. \E k \in DOMAIN items : items[k] = a
  <2>1. a \in LookupIn(source)
    BY <1>1
  <2>2. QED
    BY <1>4, <2>1 DEF LookupIn
<1>7. QED
  BY <1>5, <1>6

LEMMA ExternalFilled == IInv /\ MInv /\ MInv' /\ SInv /\ External => Filled
<1> SUFFICES ASSUME IInv, MInv, MInv', SInv, External PROVE Filled
  OBVIOUS
<1>1. CASE StdlibCall \/ StdlibCall1
  <2>1. PICK op \in {"STDLIB_CALL", "STDLIB_CALL_1"} : Fetched(op) /\ CallLibrary
    BY <1>1 DEF StdlibCall, StdlibCall1
  <2>2. Free
    BY <2>1, FreeOps DEF JumpTargetOps, JumpOps
  <2>3. ins.o2 \in Slots /\ V2 \in ValueCells(mem)
    <3>1. ins.op = op
      BY <2>1 DEF Fetched
    <3>2. ins.o2 \in Reads(ins)
      BY <3>1 DEF Reads, TypeTests
    <3>3. QED
      BY <2>1, <3>2, ReadsHeld DEF V2, Fetched
  <2>4. QED
    BY <2>1, <2>2, <2>3, CallLibraryFilled
<1>2. CASE TagSet
  <2>1. Free
    BY <1>2, FreeOps DEF TagSet, JumpTargetOps, JumpOps
  <2>2. val[d] \in ValueCells(mem)
    <3>1. ins.op = "TAG_SET"
      BY <1>2 DEF TagSet, Fetched
    <3>2. d \in Reads(ins)
      BY <3>1 DEF Reads, TypeTests, d
    <3>3. QED
      BY <1>2, <3>2, ReadsHeld DEF TagSet, Fetched
  <2>3. QED
    BY <1>2, <2>1, <2>2, PointFilled DEF TagSet
<1>3. CASE TagCheck
  <2>1. Free
    BY <1>3, FreeOps DEF TagCheck, JumpTargetOps, JumpOps
  <2>2. QED
    BY <1>3, <2>1, BooleanFilled DEF TagCheck
<1>4. CASE SourceLookup
  <2>1. Free
    BY <1>4, FreeOps DEF SourceLookup, JumpTargetOps, JumpOps
  <2>2. /\ ins.o1 \in Nat
        /\ packet.sources \in Seq([list : ValueCells(packet.mem) \cup {NULL}, keyedBy : STRING])
    BY <1>4, DestinationOnly DEF SourceLookup, JumpTargetOps, JumpOps, SInv, LoadedSorted
  <2>3. PICK i : i = ins.o1 + 1
    OBVIOUS
  <2>4. ins.o1 < Len(packet.sources) => i \in 1 .. Len(packet.sources)
    BY <2>2, <2>3
  <2>5. \/ Point(ValNothing, {})
        \/ i \in 1 .. Len(packet.sources) /\ \E a \in LookupIn(packet.sources[i]) : Point(a, {})
    BY <1>4, <2>3, <2>4 DEF SourceLookup
  <2>6. i \in 1 .. Len(packet.sources) =>
          \A a \in LookupIn(packet.sources[i]) : a \in ValueCells(mem)
    BY LookupSorted
  <2>7. QED
    BY <2>1, <2>5, <2>6, SortedSingletons, PointFilled
<1>5. QED
  BY <1>1, <1>2, <1>3, <1>4 DEF External

LEMMA JumpingFilled ==
  IInv /\ MInv /\ SInv /\ (Jumping \/ Coalesce \/ UnknownOpcode) => Filled
<1> SUFFICES ASSUME IInv, MInv, SInv, Jumping \/ Coalesce \/ UnknownOpcode PROVE Filled
  OBVIOUS
<1>1. CASE Jump
  <2>1. AtJump /\ Goto(d)
    BY <1>1 DEF Jump, Fetched, AtJump, JumpTargetOps
  <2>2. QED
    BY <2>1, GotoFilled
<1>2. CASE JumpIf \/ JumpIfNot \/ CmpJumpEqual \/ IsNothingJump
  <2>1. PICK op \in {"JUMP_IF", "JUMP_IF_NOT", "CMP_JUMP_EQ", "CMP_JUMP_NEQ", "IS_NOTHING_JUMP"} :
          Fetched(op) /\ \E t \in {d, pc + 1} : Goto(t)
    BY <1>2 DEF JumpIf, JumpIfNot, CmpJumpEqual, IsNothingJump
  <2>2. AtJump /\ ins.op # "JUMP"
    BY <2>1 DEF Fetched, AtJump, JumpTargetOps
  <2>3. QED
    BY <2>1, <2>2, GotoFilled
<1>3. CASE CmpJumpOrder
  <2>1. PICK op \in DOMAIN JumpOps : Fetched(op) /\ (Fail \/ \E t \in {d, pc + 1} : Goto(t))
    BY <1>3 DEF CmpJumpOrder
  <2>2. op \in JumpTargetOps /\ op # "JUMP"
    BY DEF JumpTargetOps, JumpOps
  <2>3. AtJump /\ ins.op # "JUMP"
    BY <2>1, <2>2 DEF Fetched, AtJump
  <2>4. QED
    BY <2>1, <2>3, FailFilled, GotoFilled
<1>4. CASE Coalesce
  <2>1. Free /\ V1 \in ValueCells(mem) /\ V2 \in ValueCells(mem)
    BY <1>4, FreeOps, Value2 DEF Coalesce, JumpTargetOps, JumpOps
  <2>2. QED
    BY <1>4, <2>1, PointFilled DEF Coalesce
<1>5. CASE UnknownOpcode
  BY <1>5, FailFilled DEF UnknownOpcode
<1>6. QED
  BY <1>1, <1>2, <1>3, <1>4, <1>5 DEF Jumping

LEMMA FinishFilled == MInv /\ SInv /\ Finish => Filled
  BY SameSorts DEF Finish, Filled

------------------------------------------------------------------------------
(* Memories that grow or are relinked.                                     *)
LEMMA AlikeAgain ==
  ASSUME NEW m, IsMemory(m), NEW n, IsMemory(n), NEW k, IsMemory(k), Alike(m, n), Alike(n, k)
  PROVE  Alike(m, k)
<1>1. Len(m) \in Nat /\ Len(n) \in Nat /\ Len(k) \in Nat
  BY SequenceFact DEF IsMemory
<1>2. Len(m) <= Len(n) /\ Len(n) <= Len(k)
  BY DEF Alike
<1>3. \A a \in 1 .. Len(m) : a \in 1 .. Len(n)
  BY <1>1, <1>2
<1>4. Len(m) <= Len(k)
  BY <1>1, <1>2
<1>5. QED
  BY <1>3, <1>4 DEF Alike

LEMMA AppendedPoints ==
  ASSUME NEW m, IsMemory(m), AllPoint(m), NEW c, NEW n, n = Append(m, c), IsMemory(n),
         PointsTo(c, ValueCells(m), FieldCells(m))
  PROVE  /\ AllPoint(n) /\ Alike(m, n) /\ Len(n) = Len(m) + 1
         /\ c.kind # "field" => Len(m) + 1 \in ValueCells(n)
         /\ c.kind = "field" => Len(m) + 1 \in FieldCells(n)
         /\ ValueCells(m) \subseteq ValueCells(n) /\ FieldCells(m) \subseteq FieldCells(n)
<1>1. IsSequence(m) /\ Len(m) \in Nat
  BY SequenceFact DEF IsMemory
<1>2. /\ Len(n) = Len(m) + 1 /\ n[Len(m) + 1] = c
      /\ \A a \in 1 .. Len(m) : n[a] = m[a]
  BY <1>1, AppendAny
<1>3. Alike(m, n)
  BY <1>1, <1>2 DEF Alike
<1>4. ValueCells(m) \subseteq ValueCells(n) /\ FieldCells(m) \subseteq FieldCells(n)
  BY <1>3, AlikeCells
<1>5. PointsTo(c, ValueCells(n), FieldCells(n))
  BY <1>4, PointsMore
<1>6. \A a \in Len(m) + 1 .. Len(n) : a = Len(m) + 1
  BY <1>1, <1>2
<1>7. AllPoint(n)
  <2>1. Len(m) <= Len(n)
    BY <1>3 DEF Alike
  <2>2. \A a \in Len(m) + 1 .. Len(n) : PointsTo(n[a], ValueCells(n), FieldCells(n))
    BY <1>2, <1>5, <1>6
  <2>3. QED
    BY <1>2, <2>1, <2>2, GrownPoints
<1>8. /\ c.kind # "field" => Len(m) + 1 \in ValueCells(n)
      /\ c.kind = "field" => Len(m) + 1 \in FieldCells(n)
  <2>1. Len(m) + 1 \in 1 .. Len(n)
    BY <1>1, <1>2
  <2>2. /\ Len(m) + 1 \in ValueCells(n) <=> n[Len(m) + 1].kind # "field"
        /\ Len(m) + 1 \in FieldCells(n) <=> n[Len(m) + 1].kind = "field"
    BY <1>1, <2>1, CellsApart
  <2>3. QED
    BY <1>2, <2>2
<1>9. QED
  BY <1>2, <1>3, <1>4, <1>7, <1>8

(* One cell changes, but not its kind.                                     *)
LEMMA ChangedPoints ==
  ASSUME NEW m, IsMemory(m), AllPoint(m), NEW x \in 1 .. Len(m), NEW n, IsMemory(n),
         Len(n) = Len(m), \A a \in 1 .. Len(m) : a # x => n[a] = m[a],
         n[x].kind = m[x].kind, PointsTo(n[x], ValueCells(m), FieldCells(m))
  PROVE  AllPoint(n) /\ Alike(m, n)
<1>1. Len(m) \in Nat
  BY SequenceFact DEF IsMemory
<1>2. Alike(m, n)
  BY <1>1 DEF Alike
<1>3. ValueCells(m) \subseteq ValueCells(n) /\ FieldCells(m) \subseteq FieldCells(n)
  BY <1>2, AlikeCells
<1>4. \A a \in 1 .. Len(m) : PointsTo(n[a], ValueCells(m), FieldCells(m))
  BY DEF AllPoint
<1>5. \A a \in 1 .. Len(n) : PointsTo(n[a], ValueCells(n), FieldCells(n))
  BY <1>3, <1>4, PointsMore
<1>6. QED
  BY <1>2, <1>5 DEF AllPoint

LEMMA RelinkedPoints ==
  ASSUME NEW m, IsMemory(m), AllPoint(m), NEW x \in 1 .. Len(m), NEW b,
         b \in (IF m[x].kind = "field" THEN FieldCells(m) ELSE ValueCells(m)),
         NEW n, IsMemory(n), n = [m EXCEPT ![x].next = b]
  PROVE  AllPoint(n) /\ Alike(m, n)
<1>1. DOMAIN m = 1 .. Len(m) /\ DOMAIN m[x] = CellFields /\ IsSequence(m)
  BY SequenceFact DEF IsMemory, CellAt
<1>2. /\ n[x].kind = m[x].kind /\ n[x].head = m[x].head /\ n[x].next = b
      /\ \A a \in 1 .. Len(m) : a # x => n[a] = m[a]
  BY <1>1 DEF CellFields
<1>3. Len(n) = Len(m)
  <2>1. \A a : Len([m EXCEPT ![x] = a]) = Len(m)
    BY <1>1, ExceptAny
  <2>2. n = [m EXCEPT ![x] = [@ EXCEPT !.next = b]]
    OBVIOUS
  <2>3. QED
    BY <2>1, <2>2
<1>4. PointsTo(m[x], ValueCells(m), FieldCells(m))
  BY DEF AllPoint
<1>5. PointsTo(n[x], ValueCells(m), FieldCells(m))
  BY <1>2, <1>4 DEF PointsTo
<1>6. QED
  BY <1>2, <1>3, <1>5, ChangedPoints

LEMMA ReheadedPoints ==
  ASSUME NEW m, IsMemory(m), AllPoint(m), NEW x \in 1 .. Len(m), NEW b,
         b \in (IF m[x].kind = "record" THEN FieldCells(m) ELSE ValueCells(m)),
         NEW n, IsMemory(n), n = [m EXCEPT ![x].head = b]
  PROVE  AllPoint(n) /\ Alike(m, n)
<1>1. DOMAIN m = 1 .. Len(m) /\ DOMAIN m[x] = CellFields /\ IsSequence(m)
  BY SequenceFact DEF IsMemory, CellAt
<1>2. /\ n[x].kind = m[x].kind /\ n[x].head = b /\ n[x].next = m[x].next
      /\ \A a \in 1 .. Len(m) : a # x => n[a] = m[a]
  BY <1>1 DEF CellFields
<1>3. Len(n) = Len(m)
  <2>1. \A a : Len([m EXCEPT ![x] = a]) = Len(m)
    BY <1>1, ExceptAny
  <2>2. n = [m EXCEPT ![x] = [@ EXCEPT !.head = b]]
    OBVIOUS
  <2>3. QED
    BY <2>1, <2>2
<1>4. PointsTo(m[x], ValueCells(m), FieldCells(m))
  BY DEF AllPoint
<1>5. PointsTo(n[x], ValueCells(m), FieldCells(m))
  BY <1>2, <1>4 DEF PointsTo
<1>6. QED
  BY <1>2, <1>3, <1>5, ChangedPoints

(* A field linked to a record, or an element to a list.                    *)
LEMMA LinkSorts ==
  ASSUME MInv, MInv', SInv, val[d] \in ValueCells(mem), NEW c, Loose(c, Len(mem)),
         PointsTo(c, ValueCells(mem), FieldCells(mem)),
         \/ mem[val[d]].kind = "record" /\ c.kind = "field"
         \/ mem[val[d]].kind = "list" /\ c.kind # "field",
         tail[d] # NULL =>
           mem[val[d]].head # NULL /\ tail[d] \in LastOf(mem, mem[val[d]].head),
         LinkFresh(c)
  PROVE  Sorts
<1>1. PICK owner : owner = val[d] /\ owner \in ValueCells(mem) /\ owner \in 1 .. Len(mem)
  BY CellsApart DEF MInv
<1>2. /\ IsMemory(mem) /\ AllPoint(mem) /\ IsMemory(mem') /\ Len(mem) \in Nat
      /\ IsSequence(mem)
  BY MemorySize DEF MInv, SInv, IsMemory
<1>3. PICK grown, new : grown = Append(mem, c) /\ new = Len(mem) + 1
  OBVIOUS
<1>4. IsMemory(grown)
  BY <1>2, <1>3, Added
<1>5. /\ AllPoint(grown) /\ Alike(mem, grown) /\ Len(grown) = new
      /\ c.kind # "field" => new \in ValueCells(grown)
      /\ c.kind = "field" => new \in FieldCells(grown)
  BY <1>2, <1>3, <1>4, AppendedPoints
<1>6. \A a \in 1 .. Len(mem) : a \in 1 .. Len(grown) /\ grown[a].kind = mem[a].kind
  BY <1>2, <1>3, <1>5 DEF Alike
<1>7. PICK D : D = IF c.kind = "field" THEN FieldCells(mem) ELSE ValueCells(mem)
  OBVIOUS
<1>8. D \subseteq 1 .. Len(mem) /\ \A x \in D : (c.kind = "field") = (mem[x].kind = "field")
  BY <1>2, <1>7, CellsApart
<1>9. \A x \in D : mem[x].next \in D \cup {NULL}
  BY <1>2, <1>7, <1>8 DEF AllPoint, PointsTo
<1>10. mem[owner].head \in D \cup {NULL}
  <2>1. PointsTo(mem[owner], ValueCells(mem), FieldCells(mem))
    BY <1>1, <1>2 DEF AllPoint
  <2>2. QED
    BY <1>1, <1>7, <2>1 DEF PointsTo
<1>11. ASSUME NEW x \in D, mem' = [grown EXCEPT ![x].next = new]
       PROVE  AllPoint(mem') /\ Alike(grown, mem')
  <2>1. x \in 1 .. Len(grown) /\ (c.kind = "field") = (grown[x].kind = "field")
    BY <1>6, <1>8
  <2>2. new \in (IF grown[x].kind = "field" THEN FieldCells(grown) ELSE ValueCells(grown))
    BY <1>5, <2>1
  <2>3. QED
    BY <1>2, <1>4, <1>5, <1>11, <2>1, <2>2, RelinkedPoints
<1>12. CASE mem' = [grown EXCEPT ![owner].head = new]
  <2>1. owner \in 1 .. Len(grown) /\ grown[owner].kind = mem[owner].kind
    BY <1>1, <1>6
  <2>2. new \in (IF grown[owner].kind = "record" THEN FieldCells(grown) ELSE ValueCells(grown))
    BY <1>1, <1>5, <2>1
  <2>3. AllPoint(mem') /\ Alike(grown, mem')
    BY <1>2, <1>4, <1>5, <1>12, <2>1, <2>2, ReheadedPoints
  <2>4. QED
    BY <1>2, <1>4, <1>5, <2>3, AlikeAgain DEF Sorts
<1>13. CASE \E x \in D : mem' = [grown EXCEPT ![x].next = new]
  <2>1. AllPoint(mem') /\ Alike(grown, mem')
    BY <1>11, <1>13
  <2>2. QED
    BY <1>2, <1>4, <1>5, <2>1, AlikeAgain DEF Sorts
<1>14. mem[owner].head # NULL => LastOf(mem, mem[owner].head) \subseteq D
  <2>1. PICK first : first = mem[owner].head
    OBVIOUS
  <2>2. first # NULL => first \in D
    BY <1>10, <2>1
  <2>3. first # NULL => LastOf(mem, first) \subseteq D
    BY <1>2, <1>8, <1>9, <2>2, LastStays
  <2>4. QED
    BY <2>1, <2>3
<1>15. QED
  <2>1. CASE tail[d] # NULL
    <3>1. tail[d] \in D
      BY <1>1, <1>14, <2>1
    <3>2. mem' = [grown EXCEPT ![tail[d]].next = new]
      BY <1>3, <2>1 DEF LinkFresh
    <3>3. QED
      BY <1>13, <3>1, <3>2
  <2>2. CASE tail[d] = NULL /\ mem[owner].head = NULL
    BY <1>1, <1>3, <1>12, <2>2 DEF LinkFresh
  <2>3. CASE tail[d] = NULL /\ mem[owner].head # NULL
    <3>1. \E x \in LastOf(mem, mem[owner].head) : mem' = [grown EXCEPT ![x].next = new]
      BY <1>1, <1>3, <2>3 DEF LinkFresh
    <3>2. QED
      BY <1>13, <1>14, <2>3, <3>1
  <2>4. QED
    BY <2>1, <2>2, <2>3

------------------------------------------------------------------------------
(* Instructions on records and lists.                                      *)
LEMMA EmptyPoints ==
  ASSUME NEW V, NEW F, NEW c, c = RecordCell(NULL) \/ c = ListCell(NULL)
  PROVE  PointsTo(c, V, F) /\ c.kind # "field"
<1>1. PICK kind \in {"record", "list"} : c = Cell(kind, 0, "", NULL)
  BY DEF RecordCell, ListCell
<1>2. c.kind = kind /\ c.head = NULL /\ c.next = NULL
  BY <1>1 DEF Cell
<1>3. QED
  BY <1>2 DEF PointsTo

LEMMA NewContainerFilled ==
  ASSUME MInv, MInv', SInv, Free, NEW c, c = RecordCell(NULL) \/ c = ListCell(NULL),
         NewContainer(c)
  PROVE  Filled
<1>1. /\ mem' = Append(mem, c) /\ UNCHANGED <<packet, frames>> /\ pc' = pc + 1
      /\ val' = [val EXCEPT ![d] = Len(mem) + 1]
  BY DEF NewContainer, Assign
<1>2. PointsTo(c, ValueCells(mem), FieldCells(mem)) /\ c.kind # "field"
  BY EmptyPoints
<1>3. Sorts /\ Len(mem) + 1 \in ValueCells(mem')
  BY <1>1, <1>2, AddedSorts
<1>4. QED
  BY <1>1, <1>3 DEF Filled, Free

LEMMA GetFieldFilled ==
  ASSUME MInv, SInv, Free, V1 \in ValueCells(mem), NEW key, GetField(key)
  PROVE  Filled
<1>1. \/ Point(ValNothing, {})
      \/ \E name : \E f \in FieldNamed(mem, V1, name) : Point(mem[f].head, tags[ins.o1])
  BY DEF GetField
<1>2. \A name : \A f \in FieldNamed(mem, V1, name) : mem[f].head \in ValueCells(mem)
  BY SortedMembers DEF MInv, SInv
<1>3. QED
  BY <1>1, <1>2, SortedSingletons, PointFilled

(* Appends write the container their slot holds.                           *)
LEMMA Appended ==
  ASSUME MInv, SInv, d \in Slots, val[d] # NULL, Free, UNCHANGED <<packet, frames>>,
         pc' = pc + 1, Sorts, MInv', NEW t, Assign(d, val[d], t)
  PROVE  Filled
<1>1. val[d] \in ValueCells(mem)
  BY DEF SInv
<1>2. ValueCells(mem) \subseteq ValueCells(mem')
  BY AlikeCells DEF MInv, Sorts
<1>3. val' = [val EXCEPT ![d] = val[d]] /\ val[d] \in ValueCells(mem')
  BY <1>1, <1>2 DEF Assign
<1>4. QED
  BY <1>3 DEF Filled, Free

LEMMA SetFieldFilled ==
  ASSUME IInv, MInv, MInv', WInv, SInv, NEW op \in {"RECORD_SET", "RECORD_SET_C"},
         Fetched(op), KindAt(mem, val[d]) = "record", NEW name, SetField(name)
  PROVE  Filled
<1>1. Free
  BY FreeOps DEF JumpTargetOps, JumpOps
<1>2. d \in Slots /\ val[d] # NULL
  BY ContainerOperands DEF KindAt
<1>3. val[d] \in ValueCells(mem) /\ mem[val[d]].kind = "record"
  BY <1>2 DEF SInv, KindAt
<1>4. V2 \in ValueCells(mem)
  <2>1. ins.op = op
    BY DEF Fetched
  <2>2. ins.o2 \in Reads(ins)
    BY <2>1 DEF Reads, TypeTests
  <2>3. QED
    BY <2>2, ReadsHeld DEF V2, Fetched
<1>5. /\ UNCHANGED <<packet, frames>> /\ pc' = pc + 1
      /\ \E t : Assign(d, val[d], t)
      /\ \/ \E f \in FieldNamed(mem, val[d], name) : mem' = [mem EXCEPT ![f].head = V2]
         \/ LinkFresh(FieldCell(name, V2))
  BY DEF SetField
<1>6. IsMemory(mem) /\ IsMemory(mem') /\ AllPoint(mem) /\ Len(mem) \in Nat
  BY MemorySize DEF MInv, SInv
<1>7. CASE \E f \in FieldNamed(mem, val[d], name) : mem' = [mem EXCEPT ![f].head = V2]
  <2>1. PICK f \in FieldNamed(mem, val[d], name) : mem' = [mem EXCEPT ![f].head = V2]
    BY <1>7
  <2>2. PICK b : b = V2 /\ b \in ValueCells(mem)
    BY <1>4
  <2>3. f \in FieldCells(mem)
    <3>1. \A n : FieldNamed(mem, val[d], n) \subseteq FieldCells(mem)
      BY <1>3, <1>6, SortedMembers
    <3>2. QED
      BY <3>1
  <2>4. f \in 1 .. Len(mem) /\ mem[f].kind = "field"
    BY <1>6, <2>3, CellsApart
  <2>5. mem' = [mem EXCEPT ![f].head = b]
        /\ b \in (IF mem[f].kind = "record" THEN FieldCells(mem) ELSE ValueCells(mem))
    BY <2>1, <2>2, <2>4
  <2>6. Sorts
    BY <1>6, <2>4, <2>5, ReheadedPoints DEF Sorts
  <2>7. QED
    BY <1>1, <1>2, <1>5, <2>6, Appended
<1>8. CASE LinkFresh(FieldCell(name, V2))
  <2>1. PICK b : b = V2 /\ b \in ValueCells(mem)
    BY <1>4
  <2>2. PICK c : c = FieldCell(name, b) /\ LinkFresh(c)
    BY <1>8, <2>1
  <2>3. Loose(c, Len(mem))
    <3>1. "field" \in Kinds /\ 0 \in Int /\ b \in 0 .. Len(mem)
      BY <1>6, <2>1, CellsApart DEF Kinds
    <3>2. QED
      BY <1>6, <2>2, <3>1, NewLooseCell DEF FieldCell
  <2>4. c.kind = "field" /\ PointsTo(c, ValueCells(mem), FieldCells(mem))
    <3>1. c.kind = "field" /\ c.head = b /\ c.next = NULL
      BY <2>2 DEF FieldCell, Cell
    <3>2. QED
      BY <2>1, <3>1 DEF PointsTo
  <2>5. tail[d] # NULL =>
          mem[val[d]].head # NULL /\ tail[d] \in LastOf(mem, mem[val[d]].head)
    BY WInvImpliesLast DEF TailIsLast
  <2>6. Sorts
    BY <1>3, <2>2, <2>3, <2>4, <2>5, LinkSorts
  <2>7. QED
    BY <1>1, <1>2, <1>5, <2>6, Appended
<1>9. QED
  BY <1>5, <1>7, <1>8

LEMMA ListAppendFilled == IInv /\ MInv /\ MInv' /\ WInv /\ SInv /\ ListAppend => Filled
<1> SUFFICES ASSUME IInv, MInv, MInv', WInv, SInv, ListAppend PROVE Filled
  OBVIOUS
<1>1. CASE Fail
  BY <1>1, FailFilled
<1>2. CASE ~Fail
  <2>1. /\ KindAt(mem, val[d]) = "list" /\ LinkFresh(CopyCell(mem, V1))
        /\ Assign(d, val[d], tags[d] \cup tags[ins.o1]) /\ pc' = pc + 1
        /\ UNCHANGED <<packet, frames, status>> /\ Fetched("LIST_APPEND")
    BY <1>2 DEF ListAppend
  <2>2. d \in Slots /\ ins.o1 \in Slots /\ val[d] # NULL /\ Free
    BY <2>1, ContainerOperands, FreeOps DEF KindAt, JumpTargetOps, JumpOps
  <2>3. val[d] \in ValueCells(mem) /\ mem[val[d]].kind = "list"
    BY <2>1, <2>2 DEF SInv, KindAt
  <2>4. V1 \in ValueCells(mem)
    <3>1. ins.op = "LIST_APPEND"
      BY <2>1 DEF Fetched
    <3>2. ins.o1 \in Reads(ins)
      BY <3>1 DEF Reads, TypeTests
    <3>3. QED
      BY <2>1, <3>2, ReadsHeld DEF V1, Fetched
  <2>5. IsMemory(mem) /\ Tidy(mem, ValueCells(mem), FieldCells(mem))
    BY AllTidy DEF MInv, SInv
  <2>6. PICK a, c : a = V1 /\ c = CopyCell(mem, a)
    OBVIOUS
  <2>7. a \in 0 .. Len(mem) /\ a \in ValueCells(mem) \cup {0}
    BY <2>2, <2>4, <2>6, SlotHolds DEF V1
  <2>8. Loose(c, Len(mem))
    BY <2>5, <2>6, <2>7, CopiedCell
  <2>9. c.kind # "field" /\ PointsTo(c, ValueCells(mem), FieldCells(mem))
    BY <2>5, <2>6, <2>7, CopyPoints
  <2>10. tail[d] # NULL =>
           mem[val[d]].head # NULL /\ tail[d] \in LastOf(mem, mem[val[d]].head)
    BY <2>1, WInvImpliesLast DEF TailIsLast
  <2>11. LinkFresh(c)
    BY <2>1, <2>6
  <2>12. Sorts
    BY <2>3, <2>8, <2>9, <2>10, <2>11, LinkSorts
  <2>13. QED
    BY <2>1, <2>2, <2>12, Appended
<1>3. QED
  BY <1>1, <1>2

LEMMA RecordNewSetCFilled == IInv /\ MInv /\ MInv' /\ SInv /\ RecordNewSetC => Filled
<1> SUFFICES ASSUME IInv, MInv, MInv', SInv, RecordNewSetC PROVE Filled
  OBVIOUS
<1> DEFINE n == Len(mem)
<1>1. CASE Fail
  BY <1>1, FailFilled
<1>2. CASE ~Fail
  <2>1. PICK name : mem' = mem \o <<FieldCell(name, V2), RecordCell(n + 1)>>
    BY <1>2 DEF RecordNewSetC
  <2>2. /\ val' = [val EXCEPT ![d] = n + 1 + 1] /\ pc' = pc + 1
        /\ UNCHANGED <<packet, frames>> /\ Fetched("RECORD_NEW_SET_C")
    BY <1>2 DEF RecordNewSetC, Assign
  <2>3. Free
    BY <2>2, FreeOps DEF JumpTargetOps, JumpOps
  <2>4. V2 \in ValueCells(mem)
    <3>1. ins.op = "RECORD_NEW_SET_C"
      BY <2>2 DEF Fetched
    <3>2. ins.o2 \in Reads(ins)
      BY <3>1 DEF Reads, TypeTests
    <3>3. QED
      BY <2>2, <3>2, ReadsHeld DEF V2, Fetched
  <2>5. PICK f, r : f = FieldCell(name, V2) /\ r = RecordCell(n + 1)
    OBVIOUS
  <2>6. /\ f.kind = "field" /\ f.head = V2 /\ f.next = NULL
        /\ r.kind = "record" /\ r.head = n + 1 /\ r.next = NULL
    BY <2>5 DEF FieldCell, RecordCell, Cell
  <2>7. IsMemory(mem) /\ IsMemory(mem') /\ IsSequence(mem) /\ AllPoint(mem) /\ n \in Nat
    BY MemorySize DEF MInv, SInv, IsMemory
  <2>8. PICK cells : cells = <<f, r>>
    OBVIOUS
  <2>9. /\ Len(mem') = n + 2 /\ mem'[n + 1] = f /\ mem'[n + 2] = r
        /\ \A a \in 1 .. n : mem'[a] = mem[a]
    <3>1. mem' = mem \o cells /\ 1 \in 1 .. 2 /\ 2 \in 1 .. 2
      BY <2>1, <2>5, <2>8
    <3>2. cells \in Seq({f, r}) /\ Len(cells) = 2 /\ cells[1] = f /\ cells[2] = r
      BY <2>8
    <3>3. IsSequence(cells)
      BY <3>2 DEF IsSequence
    <3>4. /\ Len(mem') = Len(mem) + Len(cells)
          /\ \A a \in 1 .. Len(mem) : mem'[a] = mem[a]
          /\ \A i \in 1 .. Len(cells) : mem'[Len(mem) + i] = cells[i]
      BY <2>7, <3>1, <3>3, ConcatFact
    <3>5. QED
      BY <3>1, <3>2, <3>4
  <2> HIDE DEF n
  <2>10. n + 1 \in 1 .. Len(mem') /\ n + 2 \in 1 .. Len(mem')
         /\ \A a \in n + 1 .. Len(mem') : a = n + 1 \/ a = n + 2
    BY <2>7, <2>9
  <2>11. n + 1 \in FieldCells(mem') /\ n + 2 \in ValueCells(mem')
    BY <2>6, <2>7, <2>9, <2>10, CellsApart
  <2>12. Alike(mem, mem')
    <3>1. Len(mem) <= Len(mem')
      BY <2>7, <2>9 DEF n
    <3>2. QED
      BY <2>9, <3>1 DEF Alike, n
  <2>13. ValueCells(mem) \subseteq ValueCells(mem')
    BY <2>7, <2>12, AlikeCells
  <2>14. PointsTo(f, ValueCells(mem'), FieldCells(mem'))
         /\ PointsTo(r, ValueCells(mem'), FieldCells(mem'))
    BY <2>4, <2>6, <2>11, <2>13 DEF PointsTo
  <2>15. \A a \in n + 1 .. Len(mem') : PointsTo(mem'[a], ValueCells(mem'), FieldCells(mem'))
    BY <2>9, <2>10, <2>14
  <2>16. Sorts
    <3>1. Len(mem) <= Len(mem')
      BY <2>12 DEF Alike
    <3>2. QED
      BY <2>7, <2>9, <2>15, <3>1, GrownPoints DEF Sorts, n
  <2>17. n + 1 + 1 = n + 2
    BY <2>7
  <2>18. QED
    BY <2>2, <2>3, <2>11, <2>16, <2>17 DEF Filled, Free, n
<1>3. QED
  BY <1>1, <1>2

LEMMA ContainersFilled == IInv /\ MInv /\ MInv' /\ WInv /\ SInv /\ Containers => Filled
<1> SUFFICES ASSUME IInv, MInv, MInv', WInv, SInv, Containers PROVE Filled
  OBVIOUS
<1>1. CASE RecordNew \/ ListNew
  <2>1. Free
    BY <1>1, FreeOps DEF RecordNew, ListNew, JumpTargetOps, JumpOps
  <2>2. QED
    BY <1>1, <2>1, NewContainerFilled DEF RecordNew, ListNew
<1>2. CASE RecordSet \/ RecordSetC
  <2>1. \/ Fail
        \/ \E op \in {"RECORD_SET", "RECORD_SET_C"} : \E name :
             Fetched(op) /\ KindAt(mem, val[d]) = "record" /\ SetField(name)
    BY <1>2 DEF RecordSet, RecordSetC
  <2>2. QED
    BY <2>1, FailFilled, SetFieldFilled
<1>3. CASE RecordGet
  <2>1. Free /\ V1 \in ValueCells(mem)
    BY <1>3, FreeOps, Value2 DEF RecordGet, JumpTargetOps, JumpOps
  <2>2. QED
    BY <1>3, <2>1, GetFieldFilled DEF RecordGet
<1>4. CASE RecordGetC
  <2>1. Free /\ V1 \in ValueCells(mem)
    BY <1>4, FreeOps, Value1 DEF RecordGetC, JumpTargetOps, JumpOps
  <2>2. QED
    BY <1>4, <2>1, GetFieldFilled DEF RecordGetC
<1>5. CASE RecordHas
  <2>1. Free
    BY <1>5, FreeOps DEF RecordHas, JumpTargetOps, JumpOps
  <2>2. QED
    BY <1>5, <2>1, BooleanFilled DEF RecordHas
<1>6. CASE ListAppend
  BY <1>6, ListAppendFilled
<1>7. CASE ListGet
  <2>1. Free /\ V1 \in ValueCells(mem)
    BY <1>7, FreeOps, Value2 DEF ListGet, JumpTargetOps, JumpOps
  <2>2. PICK items : items = Members(mem, V1)
    OBVIOUS
  <2>3. \/ Fail \/ Point(ValNothing, {})
        \/ /\ KindAt(mem, V1) = "list" /\ KindAt(mem, V2) = "integer"
           /\ \E e \in ElementAt(mem, V1, mem[V2].n) : Point(e, tags[ins.o1])
    BY <1>7 DEF ListGet
  <2>4. KindAt(mem, V1) = "list" => items \in Seq(ValueCells(mem))
    BY <2>1, <2>2, SortedMembers DEF MInv, SInv
  <2>5. ASSUME KindAt(mem, V1) = "list", KindAt(mem, V2) = "integer",
               NEW e \in ElementAt(mem, V1, mem[V2].n)
        PROVE  e \in ValueCells(mem)
    <3>1. mem[V2].n \in Int
      <4>1. V2 \in 0 .. Len(mem) /\ V2 # NULL
        BY <1>7, <2>5, Operands2 DEF ListGet, KindAt
      <4>2. QED
        BY <4>1, HeldCell
    <3>2. PICK i : i = IF mem[V2].n < 0 THEN 0 ELSE mem[V2].n
      OBVIOUS
    <3>3. i < Len(items) /\ items[i + 1] = e
      BY <2>2, <3>2 DEF ElementAt
    <3>4. i \in Nat
      BY <3>1, <3>2
    <3>5. QED
      BY <2>4, <2>5, <3>3, <3>4
  <2>6. QED
    BY <2>1, <2>3, <2>5, SortedSingletons, PointFilled, FailFilled
<1>8. CASE ListLength
  <2>1. Free /\ V1 \in ValueCells(mem)
    BY <1>8, FreeOps, Value1 DEF ListLength, JumpTargetOps, JumpOps
  <2>2. KindAt(mem, V1) = "list" => Members(mem, V1) \in Seq(ValueCells(mem))
    BY <2>1, SortedMembers DEF MInv, SInv
  <2>3. \E n \in Int : Store(IntegerCell(n), {})
    <3>1. KindAt(mem, V1) = "list" => Len(Members(mem, V1)) \in Int
      BY <2>2
    <3>2. QED
      BY <1>8, <3>1 DEF ListLength
  <2>4. QED
    BY <2>1, <2>3, ScalarCells, ScalarFilled
<1>9. CASE RecordNewSetC
  BY <1>9, RecordNewSetCFilled
<1>10. QED
  BY <1>1, <1>2, <1>3, <1>4, <1>5, <1>6, <1>7, <1>8, <1>9 DEF Containers

------------------------------------------------------------------------------
(* Loops.  A value put into a slot is held there, with those held before.  *)
LEMMA HeldToo ==
  ASSUME MInv, NEW slot \in Slots, NEW a, a # NULL, val' = [val EXCEPT ![slot] = a]
  PROVE  \A S, T : Held(val, S) /\ T \subseteq S \cup {slot} => Held(val', T)
<1>1. val'[slot] = a /\ \A s \in Slots : s # slot => val'[s] = val[s]
  BY DEF MInv
<1>2. QED
  BY <1>1 DEF Held

LEMMA SortedAgain ==
  ASSUME MInv, MInv', SInv, UNCHANGED packet, Sorts,
         NEW slot \in Slots, NEW a \in ValueCells(mem'), val' = [val EXCEPT ![slot] = a],
         \A i \in 1 .. Len(frames') : FrameSorted(frames'[i], ValueCells(mem')),
         NEW assured, ReadsAssured(packet, assured),
         pc' <= Len(packet.code) => Held(val', assured[pc' + 1]),
         \A i \in 1 .. Len(frames') : Held(val', assured[frames'[i].bodyStart])
  PROVE  SInv'
<1>1. Slots' = Slots /\ ValueCells(mem) \subseteq ValueCells(mem')
  BY SortedStays DEF Slots
<1>2. \A s \in Slots : val'[s] \in ValueCells(mem') \cup {NULL}
  BY <1>1 DEF SInv, MInv
<1>3. \A i \in 1 .. Len(frames') : FrameSorted(frames[i], ValueCells(mem))'
  BY DEF FrameSorted
<1>4. \A S : Held(val', S) => Held(val, S)'
  BY <1>1 DEF Held
<1>5. ReadsAssured(packet, assured)'
  OBVIOUS
<1>6. (pc <= Len(packet.code) => Held(val, assured[pc + 1]))'
  BY <1>4
<1>7. (\A i \in 1 .. Len(frames) : Held(val, assured[frames[i].bodyStart]))'
  BY <1>4
<1>8. Assuring(assured)'
  BY <1>5, <1>6, <1>7 DEF Assuring
<1>9. QED
  BY <1>1, <1>2, <1>3, <1>8, SortedStays DEF SInv

(* What is assured around a loop.                                          *)
LEMMA SetupAssured ==
  ASSUME IInv, MInv, Fetched("ITER_SETUP"), NEW assured, ReadsAssured(packet, assured)
  PROVE  /\ ins.mode = "fold" => Collector.o1 \in assured[pc + 1]
         /\ assured[CollectPc + 1 + 1] \subseteq assured[pc + 1] \cup {Collector.dest}
         /\ assured[pc + 1 + 1] \subseteq assured[pc + 1] \cup {d}
         /\ Collector = packet.code[CollectPc + 1] /\ ins = packet.code[pc + 1]
         /\ pc < Len(packet.code) /\ pc \in Nat /\ Len(packet.code) \in Nat
<1>1. /\ pc + 1 \in DOMAIN packet.code /\ ins = packet.code[pc + 1] /\ pc \in Nat
      /\ ins.o2 \in Nat /\ ins.op = "ITER_SETUP" /\ packet.code \in Seq(Instruction)
      /\ pc < Len(packet.code)
  BY CurrentInstruction DEF Fetched, IInv
<1>2. PICK k : k = pc + 1 /\ k \in Nat
  BY <1>1
<1>3. k \in Setups(packet.code) /\ ins = packet.code[k]
  BY <1>1, <1>2 DEF Setups
<1>4. CollectPc + 1 = k + 1 + ins.o2
  <2>1. CollectPc = k + ins.o2 /\ k \in Nat /\ ins.o2 \in Nat
    BY <1>1, <1>2 DEF CollectPc
  <2>2. QED
    BY <2>1
<1>5. /\ ins.mode = "fold" => Collector.o1 \in assured[k]
      /\ assured[CollectPc + 1 + 1] \subseteq assured[k] \cup {Collector.dest}
  BY <1>3, <1>4 DEF ReadsAssured, Collector
<1>6. assured[k + 1] \subseteq assured[k] \cup {d}
  <2>1. ins.op # "JUMP" /\ Writes(ins) = {d}
    BY <1>1 DEF Writes, JumpTargetOps, JumpOps, d
  <2>2. assured[k + 1] \subseteq assured[k] \cup Writes(ins)
    BY <1>1, <1>2, <2>1 DEF ReadsAssured
  <2>3. QED
    BY <2>1, <2>2
<1>7. Len(packet.code) \in Nat
  BY <1>1
<1>8. QED
  BY <1>1, <1>2, <1>5, <1>6, <1>7 DEF Collector

LEMMA EmptySInv ==
  ASSUME IInv, MInv, MInv', SInv, Fetched("ITER_SETUP"), CollectPc < Len(packet.code),
         Collector.op = "ITER_COLLECT", IterEmpty
  PROVE  SInv'
<1>1. PICK assured : Assuring(assured)
  BY DEF SInv
<1>2. ReadsAssured(packet, assured)
  BY <1>1 DEF Assuring
<1>3. /\ ins.mode = "fold" => Collector.o1 \in assured[pc + 1]
      /\ assured[CollectPc + 1 + 1] \subseteq assured[pc + 1] \cup {Collector.dest}
      /\ pc < Len(packet.code) /\ pc \in Nat /\ Len(packet.code) \in Nat
  BY <1>2, SetupAssured
<1>4. Collector.dest \in Slots /\ Collector.o1 \in Slots
  BY CollectorNames
<1>5. Held(val, assured[pc + 1])
  BY <1>1, <1>3 DEF Assuring
<1>6. UNCHANGED <<packet, frames>> /\ pc' = CollectPc + 1
  BY DEF IterEmpty
<1>7. PICK a \in ValueCells(mem') : val' = [val EXCEPT ![Collector.dest] = a] /\ Sorts
  <2>1. CASE ins.mode = "fold"
    <3>1. mem' = mem /\ val' = [val EXCEPT ![Collector.dest] = val[Collector.o1]]
      BY <2>1 DEF IterEmpty, Assign
    <3>2. val[Collector.o1] \in ValueCells(mem)
      BY <1>3, <1>4, <1>5, <2>1 DEF Held, SInv
    <3>3. QED
      BY <3>1, <3>2, SameSorts
  <2>2. CASE ins.mode # "fold"
    <3>1. PICK c : c = ListCell(NULL)
      OBVIOUS
    <3>2. mem' = Append(mem, c) /\ val' = [val EXCEPT ![Collector.dest] = Len(mem) + 1]
      BY <2>2, <3>1 DEF IterEmpty, Assign
    <3>3. PointsTo(c, ValueCells(mem), FieldCells(mem)) /\ c.kind # "field"
      BY <3>1, EmptyPoints
    <3>4. Sorts /\ Len(mem) + 1 \in ValueCells(mem')
      BY <3>2, <3>3, AddedSorts
    <3>5. QED
      BY <3>2, <3>4
  <2>3. QED
    BY <2>1, <2>2
<1>8. a # NULL /\ ValueCells(mem) \subseteq ValueCells(mem')
  BY <1>6, <1>7, CellsApart, SortedStays DEF MInv
<1>9. \A S, T : Held(val, S) /\ T \subseteq S \cup {Collector.dest} => Held(val', T)
  BY <1>4, <1>7, <1>8, HeldToo
<1>10. Held(val', assured[pc' + 1])
  BY <1>3, <1>5, <1>6, <1>9
<1>11. \A i \in 1 .. Len(frames') : Held(val', assured[frames'[i].bodyStart])
  BY <1>1, <1>6, <1>9 DEF Assuring
<1>12. \A i \in 1 .. Len(frames') : FrameSorted(frames'[i], ValueCells(mem'))
  BY <1>6, <1>8 DEF SInv, FrameSorted
<1>13. UNCHANGED packet
  BY <1>6
<1>14. QED
  BY <1>2, <1>4, <1>7, <1>10, <1>11, <1>12, <1>13, SortedAgain

LEMMA PushSInv ==
  ASSUME IInv, MInv, MInv', SInv, Fetched("ITER_SETUP"), KindAt(mem, V1) = "list",
         mem[V1].head # NULL, IterPush
  PROVE  SInv'
<1>1. PICK assured : Assuring(assured)
  BY DEF SInv
<1>2. ReadsAssured(packet, assured)
  BY <1>1 DEF Assuring
<1>3. /\ assured[pc + 1 + 1] \subseteq assured[pc + 1] \cup {d}
      /\ Collector = packet.code[CollectPc + 1] /\ ins = packet.code[pc + 1]
      /\ pc < Len(packet.code) /\ pc \in Nat /\ Len(packet.code) \in Nat
  BY <1>2, SetupAssured
<1>4. d \in Slots /\ V1 \in ValueCells(mem)
  BY Operand1, Value1
<1>5. Held(val, assured[pc + 1])
  BY <1>1, <1>3 DEF Assuring
<1>6. /\ IsMemory(mem) /\ \A x \in ValueCells(mem) : x \in 1 .. Len(mem) /\ x # NULL
      /\ \A x \in ValueCells(mem) : PointsTo(mem[x], ValueCells(mem), FieldCells(mem))
                                    /\ mem[x].kind # "field"
  BY CellsApart DEF MInv, SInv, AllPoint
<1>7. PICK first : first = mem[V1].head
  OBVIOUS
<1>8. first \in ValueCells(mem)
  <2>1. mem[V1].kind = "list"
    BY <1>4, <1>6 DEF KindAt
  <2>2. QED
    BY <1>4, <1>6, <1>7, <2>1 DEF PointsTo
<1>9. mem[first].next \in ValueCells(mem) \cup {NULL}
  BY <1>6, <1>8 DEF PointsTo
<1>10. PICK acc : acc = IF ins.mode = "fold" THEN val[Collector.o1] ELSE NULL
  OBVIOUS
<1>11. acc \in ValueCells(mem) \cup {NULL}
  <2>1. ins.mode = "fold" => Collector.o1 \in assured[pc + 1]
    BY <1>2, SetupAssured
  <2>2. packet.code[pc + 1] \in Instruction /\ SlotsInRange(packet)
    BY <1>3 DEF IInv, MInv
  <2>3. ins.mode = "fold" => Collector.o1 \in Slots
    <3>1. pc + 1 \in Setups(packet.code)
      BY CurrentInstruction DEF Fetched, Setups
    <3>2. PICK k \in Setups(packet.code) : k = pc + 1
      BY <3>1
    <3>3. CollectPc + 1 = k + 1 + ins.o2
      <4>1. ins.o2 \in Nat
        BY Named DEF Fetched
      <4>2. QED
        BY <1>3, <3>2, <4>1 DEF CollectPc
    <3>4. CollectReads(ins, Collector) \subseteq Slots
      BY <1>3, <2>2, <3>2, <3>3 DEF SlotsInRange, Slots
    <3>5. QED
      BY <3>4 DEF CollectReads
  <2>4. QED
    BY <1>10, <2>3 DEF SInv
<1>12. PICK f :
         /\ frames' = Append(frames, f)
         /\ f.mode = ins.mode /\ f.nextElem = mem[first].next
         /\ f.bodyStart = pc + 1 /\ f.collectPc = CollectPc
         /\ f.slotA = Collector.o1 /\ f.slotB = Collector.o2
         /\ f.head = NULL /\ f.last = NULL /\ f.acc = acc
  BY <1>7, <1>10 DEF IterPush
<1>13. /\ val' = [val EXCEPT ![d] = first] /\ pc' = pc + 1
       /\ UNCHANGED <<packet, mem>>
  BY <1>7 DEF IterPush
<1>14. FrameSorted(f, ValueCells(mem))
  BY <1>3, <1>9, <1>11, <1>12 DEF FrameSorted
<1>15. IsSequence(frames)
  BY DEF IInv, FramesOf, IsSequence
<1>16. /\ Len(frames') = Len(frames) + 1 /\ frames'[Len(frames) + 1] = f
       /\ \A i \in 1 .. Len(frames) : frames'[i] = frames[i]
       /\ \A i \in 1 .. Len(frames') : i \in 1 .. Len(frames) \/ i = Len(frames) + 1
  BY <1>12, <1>15, SequenceFact, AppendAny
<1>17. \A S, T : Held(val, S) /\ T \subseteq S \cup {d} => Held(val', T)
  BY <1>4, <1>6, <1>8, <1>13, HeldToo
<1>18. \A i \in 1 .. Len(frames') : FrameSorted(frames'[i], ValueCells(mem'))
  <2>1. \A i \in 1 .. Len(frames) : FrameSorted(frames[i], ValueCells(mem))
    BY DEF SInv
  <2>2. QED
    BY <1>13, <1>14, <1>16, <2>1
<1>19. \A i \in 1 .. Len(frames') : Held(val', assured[frames'[i].bodyStart])
  <2>1. \A i \in 1 .. Len(frames) : Held(val, assured[frames[i].bodyStart])
    BY <1>1 DEF Assuring
  <2>2. \A i \in 1 .. Len(frames') : Held(val, assured[frames'[i].bodyStart])
    BY <1>5, <1>12, <1>16, <2>1
  <2>3. QED
    BY <1>17, <2>2
<1>20. Held(val', assured[pc' + 1])
  BY <1>3, <1>5, <1>13, <1>17
<1>21. Sorts /\ first \in ValueCells(mem') /\ UNCHANGED packet
  BY <1>8, <1>13, SameSorts
<1>22. QED
  BY <1>2, <1>4, <1>13, <1>18, <1>19, <1>20, <1>21, SortedAgain

LEMMA SetupSInv == IInv /\ MInv /\ MInv' /\ SInv /\ IterSetup => SInv'
<1> SUFFICES ASSUME IInv, MInv, MInv', SInv, IterSetup PROVE SInv'
  OBVIOUS
<1>1. CASE Fail
  BY <1>1, FailFilled, FilledSInv
<1>2. CASE ~Fail
  <2>1. /\ Fetched("ITER_SETUP") /\ KindAt(mem, V1) = "list"
        /\ ~(CollectPc >= Len(packet.code)) /\ Collector.op = "ITER_COLLECT"
        /\ IterEmpty \/ (mem[V1].head # NULL /\ IterPush)
    BY <1>2, Zenon DEF IterSetup
  <2>2. CollectPc < Len(packet.code)
    <3>1. ins.o2 \in Nat /\ pc \in Nat /\ packet.code \in Seq(Instruction)
      BY <2>1, Named DEF Fetched, IInv
    <3>2. CollectPc \in Nat /\ Len(packet.code) \in Nat
      BY <3>1 DEF CollectPc
    <3>3. QED
      BY <2>1, <3>2
  <2>3. QED
    BY <2>1, <2>2, EmptySInv, PushSInv
<1>3. QED
  BY <1>1, <1>2

(* What is assured where a body ends, and around it.                       *)
LEMMA CollectAssured ==
  ASSUME IInv, Fetched("ITER_COLLECT"), NEW assured, ReadsAssured(packet, assured),
         NEW s, s = top.bodyStart
  PROVE  /\ s \in Setups(packet.code) /\ pc = top.collectPc
         /\ pc \in Nat /\ Len(packet.code) \in Nat /\ pc < Len(packet.code)
         /\ CollectReads(packet.code[s], packet.code[pc + 1]) \subseteq assured[pc + 1]
         /\ assured[pc + 1 + 1] \subseteq assured[s] \cup {packet.code[pc + 1].dest}
         /\ assured[s + 1] \subseteq assured[s] \cup {packet.code[s].dest}
<1>1. /\ s \in Setups(packet.code) /\ pc = Last(packet.code, s) /\ pc = top.collectPc
      /\ packet.code \in Seq(Instruction)
  BY AtCollect DEF IInv
<1>2. /\ pc \in Nat /\ Len(packet.code) \in Nat /\ pc < Len(packet.code)
  BY <1>1 DEF IInv, Fetched
<1>3. s \in DOMAIN packet.code /\ s \in Nat /\ packet.code[s].o2 \in Nat
      /\ packet.code[s].op = "ITER_SETUP"
  <2>1. s \in DOMAIN packet.code /\ packet.code[s].op = "ITER_SETUP"
    BY <1>1 DEF Setups
  <2>2. QED
    BY <1>1, <2>1, InstructionAt
<1>4. s + 1 + packet.code[s].o2 = pc + 1
  BY <1>1, <1>3 DEF Last
<1>5. /\ CollectReads(packet.code[s], packet.code[pc + 1]) \subseteq assured[pc + 1]
      /\ assured[pc + 1 + 1] \subseteq assured[s] \cup {packet.code[pc + 1].dest}
  BY <1>1, <1>4 DEF ReadsAssured
<1>6. assured[s + 1] \subseteq assured[s] \cup {packet.code[s].dest}
  <2>1. packet.code[s].op # "JUMP" /\ Writes(packet.code[s]) = {packet.code[s].dest}
    BY <1>3 DEF Writes, JumpTargetOps, JumpOps
  <2>2. assured[s + 1] \subseteq assured[s] \cup Writes(packet.code[s])
    BY <1>3, <2>1 DEF ReadsAssured
  <2>3. QED
    BY <2>1, <2>2
<1>7. QED
  BY <1>1, <1>2, <1>5, <1>6

(* An ITER_COLLECT finds values in the slots it reads.                     *)
LEMMA TopSorted ==
  ASSUME IInv, MInv, SInv, Fetched("ITER_COLLECT")
  PROVE  /\ FrameSorted(top, ValueCells(mem))
         /\ val[top.slotA] \in ValueCells(mem)
         /\ top.mode = "filter" => val[top.slotB] \in ValueCells(mem)
<1>1. PICK assured : Assuring(assured)
  BY DEF SInv
<1>2. PICK s : s = top.bodyStart
  OBVIOUS
<1>3. /\ pc = top.collectPc /\ pc \in Nat /\ Len(packet.code) \in Nat
      /\ pc < Len(packet.code)
      /\ CollectReads(packet.code[s], packet.code[pc + 1]) \subseteq assured[pc + 1]
  BY <1>1, <1>2, CollectAssured DEF Assuring
<1>4. FrameSorted(top, ValueCells(mem)) /\ FrameSound(top, Slots, 0 .. Len(mem))
  BY TopSound DEF SInv, top
<1>5. /\ top.mode = packet.code[s].mode /\ top.slotA = packet.code[pc + 1].o1
      /\ top.slotB = packet.code[pc + 1].o2
  BY <1>2, <1>3, <1>4 DEF FrameSorted
<1>6. top.slotA \in assured[pc + 1] /\ (top.mode = "filter" => top.slotB \in assured[pc + 1])
  BY <1>3, <1>5 DEF CollectReads
<1>7. top.slotA \in Slots /\ (top.mode = "filter" => top.slotB \in Slots)
  BY <1>4 DEF FrameSound
<1>8. Held(val, assured[pc + 1])
  BY <1>1, <1>3 DEF Assuring
<1>9. QED
  BY <1>4, <1>6, <1>7, <1>8 DEF Held, SInv

(* The cell it adds, if any, and the memory and the frame it leaves.       *)
LEMMA GrownCollected ==
  ASSUME IInv, MInv, SInv, Fetched("ITER_COLLECT"), NEW m, m = mem \o Collected
  PROVE  /\ IsMemory(m) /\ AllPoint(m) /\ Alike(mem, m)
         /\ Len(m) = Len(mem) + Len(Collected)
         /\ Collected # << >> => Len(mem) + 1 \in ValueCells(m)
<1>1. IsMemory(mem) /\ AllPoint(mem) /\ Len(mem) \in Nat
  BY MemorySize DEF MInv, SInv
<1>2. /\ Fit(mem, Collected) /\ Len(Collected) \in Nat
      /\ Collected # << >> => Len(Collected) = 1
  BY TopSound, CollectedFits
<1>3. /\ IsMemory(m) /\ Len(m) = Len(mem) + Len(Collected)
      /\ \A a \in 1 .. Len(mem) : m[a] = mem[a]
  BY <1>1, <1>2, Grown DEF Fit
<1>4. Collected = << >> \/ \E a \in ValueCells(mem) : Collected = <<CopyCell(mem, a)>>
  BY TopSorted DEF Collected
<1>5. CASE Collected = << >>
  <2>1. Len(Collected) = 0
    BY <1>5
  <2>2. Len(mem) <= Len(m) /\ \A a \in Len(mem) + 1 .. Len(m) : FALSE
    BY <1>1, <1>3, <2>1
  <2>3. QED
    BY <1>1, <1>3, <1>5, <2>2, GrownPoints
<1>6. ASSUME NEW a \in ValueCells(mem), Collected = <<CopyCell(mem, a)>>
      PROVE  /\ AllPoint(m) /\ Alike(mem, m) /\ Len(mem) + 1 \in ValueCells(m)
  <2>1. PICK c : c = CopyCell(mem, a)
    OBVIOUS
  <2>2. c.kind # "field" /\ PointsTo(c, ValueCells(mem), FieldCells(mem))
    <3>1. Tidy(mem, ValueCells(mem), FieldCells(mem))
      BY <1>1, AllTidy
    <3>2. QED
      BY <1>1, <2>1, <3>1, CopyPoints
  <2>3. Collected = <<c>> /\ Collected # << >> /\ Len(Collected) = 1
    BY <1>6, <2>1
  <2>4. m[Len(mem) + 1] = c
    <3>1. IsSequence(mem) /\ IsSequence(Collected) /\ Collected[1] = c
      BY <1>1, <1>2, <2>3 DEF IsMemory, Fit
    <3>2. \A i \in 1 .. Len(Collected) : (mem \o Collected)[Len(mem) + i] = Collected[i]
      BY <3>1, ConcatFact
    <3>3. 1 \in 1 .. Len(Collected)
      BY <2>3
    <3>4. QED
      BY <3>1, <3>2, <3>3
  <2>5. /\ Len(m) = Len(mem) + 1 /\ Len(mem) <= Len(m) /\ Len(mem) + 1 \in 1 .. Len(m)
        /\ \A i \in Len(mem) + 1 .. Len(m) : i = Len(mem) + 1
    BY <1>1, <1>3, <2>3
  <2>6. Alike(mem, m)
    BY <1>3, <2>5 DEF Alike
  <2>7. ValueCells(mem) \subseteq ValueCells(m) /\ FieldCells(mem) \subseteq FieldCells(m)
    BY <1>1, <1>3, <2>6, AlikeCells
  <2>8. PointsTo(c, ValueCells(m), FieldCells(m))
    BY <2>2, <2>7, PointsMore
  <2>9. \A i \in Len(mem) + 1 .. Len(m) : PointsTo(m[i], ValueCells(m), FieldCells(m))
    BY <2>4, <2>5, <2>8
  <2>10. AllPoint(m)
    BY <1>1, <1>3, <2>5, <2>9, GrownPoints
  <2>11. Len(mem) + 1 \in ValueCells(m)
    BY <1>3, <2>2, <2>4, <2>5, CellsApart
  <2>12. QED
    BY <2>6, <2>10, <2>11
<1>7. QED
  BY <1>3, <1>4, <1>5, <1>6

LEMMA CollectedSorted ==
  ASSUME IInv, MInv, SInv, Fetched("ITER_COLLECT"),
         NEW linked, linked = LinkCollected(mem \o Collected)
  PROVE  /\ IsMemory(linked) /\ AllPoint(linked) /\ Alike(mem, linked)
         /\ ValueCells(mem) \subseteq ValueCells(linked)
         /\ \A next \in ValueCells(linked) \cup {NULL} :
              FrameSorted([Gathered EXCEPT !.nextElem = next], ValueCells(linked))
         /\ Gathered.head \in ValueCells(linked) \cup {NULL}
         /\ Gathered.acc \in ValueCells(linked) \cup {NULL}
<1>1. PICK m : m = mem \o Collected
  OBVIOUS
<1>2. /\ IsMemory(m) /\ AllPoint(m) /\ Alike(mem, m) /\ IsMemory(mem)
      /\ Collected # << >> => Len(mem) + 1 \in ValueCells(m)
  BY <1>1, GrownCollected DEF MInv
<1>3. /\ DOMAIN top = FrameFields /\ FrameSound(top, Slots, 0 .. Len(mem))
      /\ FrameSorted(top, ValueCells(mem)) /\ val[top.slotA] \in ValueCells(mem)
  BY TopSound, TopSorted
<1>4. IsMemory(linked)
  <2>1. PICK size : size = Len(mem) + Len(Collected)
    OBVIOUS
  <2>2. QED
    BY <1>3, <2>1, LinkedSound
<1>5. ValueCells(mem) \subseteq ValueCells(m)
  BY <1>2, AlikeCells
<1>6. AllPoint(linked) /\ Alike(m, linked)
  <2>1. CASE Collected = << >> \/ top.last = NULL
    <3>1. linked = m
      BY <1>1, <2>1 DEF LinkCollected
    <3>2. Len(m) <= Len(m)
      BY <1>2, SequenceFact DEF IsMemory
    <3>3. QED
      BY <1>2, <3>1, <3>2 DEF Alike
  <2>2. CASE Collected # << >> /\ top.last # NULL
    <3>1. PICK x, b : x = top.last /\ b = Len(mem) + 1
      OBVIOUS
    <3>2. x \in ValueCells(m) /\ b \in ValueCells(m)
      BY <1>2, <1>3, <1>5, <2>2, <3>1 DEF FrameSorted
    <3>3. x \in 1 .. Len(m) /\ m[x].kind # "field"
      BY <1>2, <3>2, CellsApart
    <3>4. linked = [m EXCEPT ![x].next = b]
      BY <1>1, <2>2, <3>1 DEF LinkCollected
    <3>5. b \in (IF m[x].kind = "field" THEN FieldCells(m) ELSE ValueCells(m))
      BY <3>2, <3>3
    <3>6. QED
      BY <1>2, <1>4, <3>3, <3>4, <3>5, RelinkedPoints
  <2>3. QED
    BY <2>1, <2>2
<1>7. /\ Alike(mem, linked) /\ ValueCells(mem) \subseteq ValueCells(linked)
      /\ ValueCells(m) \subseteq ValueCells(linked)
  BY <1>2, <1>4, <1>6, AlikeAgain, AlikeCells
<1>8. PICK V : V = ValueCells(linked)
  OBVIOUS
<1>9. /\ top.head \in V \cup {NULL} /\ top.last \in V \cup {NULL}
      /\ top.acc \in V \cup {NULL} /\ val[top.slotA] \in V
      /\ Collected # << >> => Len(mem) + 1 \in V
  BY <1>2, <1>3, <1>7, <1>8 DEF FrameSorted
<1>10. /\ Gathered.head \in V \cup {NULL} /\ Gathered.last \in V \cup {NULL}
       /\ Gathered.acc \in V \cup {NULL}
  BY <1>3, <1>9 DEF Gathered, FrameFields
<1>11. /\ Gathered.mode = top.mode /\ Gathered.bodyStart = top.bodyStart
       /\ Gathered.collectPc = top.collectPc /\ Gathered.slotA = top.slotA
       /\ Gathered.slotB = top.slotB /\ DOMAIN Gathered = FrameFields
  BY <1>3 DEF Gathered, FrameFields
<1>12. ASSUME NEW next \in V \cup {NULL}
       PROVE  FrameSorted([Gathered EXCEPT !.nextElem = next], V)
  <2>1. PICK g, f : g = Gathered /\ f = [Gathered EXCEPT !.nextElem = next]
    OBVIOUS
  <2>2. /\ f.nextElem = next /\ f.head = g.head /\ f.last = g.last /\ f.acc = g.acc
        /\ f.mode = g.mode /\ f.bodyStart = g.bodyStart /\ f.collectPc = g.collectPc
        /\ f.slotA = g.slotA /\ f.slotB = g.slotB
    BY <1>11, <2>1 DEF FrameFields
  <2>3. QED
    BY <1>3, <1>10, <1>11, <2>1, <2>2 DEF FrameSorted
<1>13. QED
  BY <1>4, <1>6, <1>7, <1>8, <1>10, <1>12

LEMMA AdvanceSInv ==
  ASSUME IInv, MInv, MInv', WInv, SInv, Fetched("ITER_COLLECT"), IterAdvance
  PROVE  SInv'
<1>1. PICK assured : Assuring(assured)
  BY DEF SInv
<1>2. ReadsAssured(packet, assured)
  BY <1>1 DEF Assuring
<1>3. PICK linked : linked = LinkCollected(mem \o Collected)
  OBVIOUS
<1>4. /\ IsMemory(linked) /\ AllPoint(linked) /\ Alike(mem, linked)
      /\ ValueCells(mem) \subseteq ValueCells(linked)
      /\ \A next \in ValueCells(linked) \cup {NULL} :
           FrameSorted([Gathered EXCEPT !.nextElem = next], ValueCells(linked))
  BY <1>3, CollectedSorted
<1>5. PICK next, new : next = mem[top.nextElem].next /\ new = [Gathered EXCEPT !.nextElem = next]
  OBVIOUS
<1>6. /\ mem' = linked /\ frames' = [frames EXCEPT ![depth] = new]
      /\ val' = [val EXCEPT ![top.elemSlot] = top.nextElem] /\ pc' = top.bodyStart
      /\ UNCHANGED packet /\ top.nextElem # NULL
  BY <1>3, <1>5 DEF IterAdvance
<1>7. /\ depth \in 1 .. Len(frames) /\ DOMAIN top = FrameFields /\ IsSequence(frames)
      /\ top.elemSlot \in Slots
  BY TopSound DEF FrameSound
<1>8. top.nextElem \in ValueCells(mem)
  BY <1>6, TopSorted DEF FrameSorted
<1>9. next \in ValueCells(linked) \cup {NULL}
  <2>1. PointsTo(mem[top.nextElem], ValueCells(mem), FieldCells(mem))
        /\ mem[top.nextElem].kind # "field"
    BY <1>8, CellsApart DEF MInv, SInv, AllPoint
  <2>2. next \in ValueCells(mem) \cup {NULL}
    BY <1>5, <2>1 DEF PointsTo
  <2>3. QED
    BY <1>4, <2>2
<1>10. FrameSorted(new, ValueCells(linked)) /\ new.bodyStart = top.bodyStart
  <2>1. FrameSorted(new, ValueCells(linked))
    BY <1>4, <1>5, <1>9
  <2>2. new.bodyStart = top.bodyStart
    BY <1>5, <1>7 DEF Gathered, FrameFields
  <2>3. QED
    BY <2>1, <2>2
<1>11. /\ Len(frames') = Len(frames) /\ frames'[depth] = new
       /\ \A i \in 1 .. Len(frames) : i # depth => frames'[i] = frames[i]
  BY <1>6, <1>7, ExceptAny
<1>12. \A i \in 1 .. Len(frames') : frames'[i].bodyStart = frames[i].bodyStart
  BY <1>10, <1>11 DEF top
<1>13. \A i \in 1 .. Len(frames') : FrameSorted(frames'[i], ValueCells(mem'))
  <2>1. \A i \in 1 .. Len(frames) : FrameSorted(frames[i], ValueCells(linked))
    BY <1>4 DEF SInv, FrameSorted
  <2>2. QED
    BY <1>6, <1>10, <1>11, <2>1
<1>14. PICK s : s = top.bodyStart
  OBVIOUS
<1>15. assured[s + 1] \subseteq assured[s] \cup {packet.code[s].dest}
  BY <1>2, <1>14, CollectAssured
<1>16. top.elemSlot = packet.code[s].dest
  BY <1>7, <1>14 DEF WInv, FrameNamed, top
<1>17. \A S, T : Held(val, S) /\ T \subseteq S \cup {top.elemSlot} => Held(val', T)
  <2>1. PICK slot, a : slot = top.elemSlot /\ a = top.nextElem /\ slot \in Slots
    BY <1>7
  <2>2. a # NULL /\ val' = [val EXCEPT ![slot] = a]
    BY <1>6, <2>1
  <2>3. QED
    BY <2>1, <2>2, HeldToo
<1>18. Held(val, assured[s])
  BY <1>1, <1>7, <1>14 DEF Assuring, top
<1>19. Held(val', assured[pc' + 1])
  BY <1>6, <1>14, <1>15, <1>16, <1>17, <1>18
<1>20. \A i \in 1 .. Len(frames') : Held(val', assured[frames'[i].bodyStart])
  <2>1. \A i \in 1 .. Len(frames) : Held(val, assured[frames[i].bodyStart])
    BY <1>1 DEF Assuring
  <2>2. \A i \in 1 .. Len(frames') : Held(val, assured[frames'[i].bodyStart])
    BY <1>11, <1>12, <2>1
  <2>3. QED
    BY <1>17, <2>2
<1>21. Sorts /\ UNCHANGED packet
  BY <1>4, <1>6 DEF Sorts
<1>22. PICK slot \in Slots, a \in ValueCells(mem') : val' = [val EXCEPT ![slot] = a]
  BY <1>4, <1>6, <1>7, <1>8
<1>23. QED
  BY <1>2, <1>13, <1>19, <1>20, <1>21, <1>22, SortedAgain

LEMMA FinishLoopSInv ==
  ASSUME IInv, MInv, MInv', WInv, SInv, Fetched("ITER_COLLECT"), IterFinish
  PROVE  SInv'
<1>1. PICK assured : Assuring(assured)
  BY DEF SInv
<1>2. ReadsAssured(packet, assured)
  BY <1>1 DEF Assuring
<1>3. PICK linked, acc, first :
        /\ linked = LinkCollected(mem \o Collected)
        /\ acc = Gathered.acc /\ first = Gathered.head
  OBVIOUS
<1>4. /\ IsMemory(linked) /\ AllPoint(linked) /\ Alike(mem, linked) /\ IsMemory(mem)
      /\ ValueCells(mem) \subseteq ValueCells(linked)
      /\ first \in ValueCells(linked) \cup {NULL} /\ acc \in ValueCells(linked) \cup {NULL}
  BY <1>3, CollectedSorted DEF MInv
<1>5. /\ frames' = SubSeq(frames, 1, depth - 1) /\ UNCHANGED packet /\ pc' = pc + 1
      /\ \/ /\ mem' = linked
            /\ val' = [val EXCEPT ![top.resultDest] = IF acc = NULL THEN ValNothing ELSE acc]
         \/ /\ mem' = Append(linked, ListCell(first))
            /\ val' = [val EXCEPT ![top.resultDest] = Len(linked) + 1]
  BY <1>3 DEF IterFinish, Assign
<1>6. /\ depth \in Nat \ {0} /\ depth = Len(frames) /\ IsSequence(frames)
      /\ top.resultDest \in Slots /\ depth \in 1 .. Len(frames)
  BY TopSound DEF FrameSound, depth
<1>7. PICK n \in Nat : n = depth - 1 /\ Len(frames) = n + 1
  BY <1>6
<1>8. Len(frames') = n /\ \A i \in 1 .. n : frames'[i] = frames[i] /\ i \in 1 .. Len(frames)
  <2>1. frames' = SubSeq(frames, 1, n)
    BY <1>5, <1>7
  <2>2. \A i \in 1 .. n : i \in 1 .. Len(frames)
    BY <1>7
  <2>3. QED
    BY <1>6, <1>7, <2>1, <2>2, Popped
<1>9. PICK slot \in Slots, a \in ValueCells(mem') :
        slot = top.resultDest /\ val' = [val EXCEPT ![slot] = a] /\ Sorts
  <2>1. CASE /\ mem' = linked
             /\ val' = [val EXCEPT ![top.resultDest] = IF acc = NULL THEN ValNothing ELSE acc]
    <3>1. ValNothing \in ValueCells(linked)
      BY <1>4, SortedSingletons
    <3>2. PICK a : a = IF acc = NULL THEN ValNothing ELSE acc
      OBVIOUS
    <3>3. a \in ValueCells(mem') /\ Sorts
      BY <1>4, <2>1, <3>1, <3>2 DEF Sorts
    <3>4. QED
      BY <1>6, <2>1, <3>2, <3>3
  <2>2. CASE /\ mem' = Append(linked, ListCell(first))
             /\ val' = [val EXCEPT ![top.resultDest] = Len(linked) + 1]
    <3>1. PICK c : c = ListCell(first)
      OBVIOUS
    <3>2. c.kind = "list" /\ c.head = first /\ c.next = NULL
      BY <3>1 DEF ListCell, Cell
    <3>3. PointsTo(c, ValueCells(linked), FieldCells(linked)) /\ c.kind # "field"
      BY <1>4, <3>2 DEF PointsTo
    <3>4. mem' = Append(linked, c) /\ IsMemory(mem')
      BY <2>2, <3>1 DEF MInv
    <3>5. AllPoint(mem') /\ Alike(linked, mem') /\ Len(linked) + 1 \in ValueCells(mem')
      BY <1>4, <3>3, <3>4, AppendedPoints
    <3>6. Sorts
      BY <1>4, <3>4, <3>5, AlikeAgain DEF Sorts
    <3>7. QED
      BY <1>6, <2>2, <3>5, <3>6
  <2>3. QED
    BY <1>5, <2>1, <2>2
<1>10. a # NULL /\ ValueCells(mem) \subseteq ValueCells(mem')
  <2>1. Sorts /\ UNCHANGED packet
    BY <1>5, <1>9
  <2>2. ValueCells(mem) \subseteq ValueCells(mem')
    BY <2>1, SortedStays
  <2>3. a # NULL
    BY CellsApart DEF MInv
  <2>4. QED
    BY <2>2, <2>3
<1>11. \A S, T : Held(val, S) /\ T \subseteq S \cup {slot} => Held(val', T)
  BY <1>9, <1>10, HeldToo
<1>12. PICK s : s = top.bodyStart
  OBVIOUS
<1>13. /\ assured[pc + 1 + 1] \subseteq assured[s] \cup {packet.code[pc + 1].dest}
       /\ pc = top.collectPc
  BY <1>2, <1>12, CollectAssured
<1>14. slot = packet.code[pc + 1].dest
  <2>1. FrameNamed(top)
    BY <1>6 DEF WInv, top
  <2>2. QED
    BY <1>9, <1>13, <2>1 DEF FrameNamed
<1>15. Held(val, assured[s])
  BY <1>1, <1>6, <1>12 DEF Assuring, top
<1>16. Held(val', assured[pc' + 1])
  BY <1>5, <1>11, <1>13, <1>14, <1>15
<1>17. \A i \in 1 .. Len(frames') : Held(val', assured[frames'[i].bodyStart])
  <2>1. \A i \in 1 .. Len(frames) : Held(val, assured[frames[i].bodyStart])
    BY <1>1 DEF Assuring
  <2>2. \A i \in 1 .. Len(frames') : Held(val, assured[frames'[i].bodyStart])
    BY <1>8, <2>1
  <2>3. QED
    BY <1>11, <2>2
<1>18. \A i \in 1 .. Len(frames') : FrameSorted(frames'[i], ValueCells(mem'))
  <2>1. \A i \in 1 .. Len(frames) : FrameSorted(frames[i], ValueCells(mem'))
    BY <1>10 DEF SInv, FrameSorted
  <2>2. QED
    BY <1>8, <2>1
<1>19. UNCHANGED packet
  BY <1>5
<1>20. QED
  BY <1>2, <1>9, <1>16, <1>17, <1>18, <1>19, SortedAgain

LEMMA CollectSInv == IInv /\ MInv /\ MInv' /\ WInv /\ SInv /\ IterCollect => SInv'
<1> SUFFICES ASSUME IInv, MInv, MInv', WInv, SInv, IterCollect PROVE SInv'
  OBVIOUS
<1>1. Fetched("ITER_COLLECT") /\ (depth = 0 \/ IterAdvance \/ IterFinish)
  BY DEF IterCollect
<1>2. depth # 0
  BY <1>1, TopSound
<1>3. QED
  BY <1>1, <1>2, AdvanceSInv, FinishLoopSInv

LEMMA NextSInv == IInv /\ MInv /\ MInv' /\ WInv /\ SInv /\ [Next]_vars => SInv'
<1> SUFFICES ASSUME IInv, MInv, MInv', WInv, SInv, [Next]_vars PROVE SInv'
  OBVIOUS
<1>1. CASE Scalars
  BY <1>1, ScalarsFilled, FilledSInv
<1>2. CASE Containers
  BY <1>2, ContainersFilled, FilledSInv
<1>3. CASE External
  BY <1>3, ExternalFilled, FilledSInv
<1>4. CASE Control
  <2>1. CASE IterSetup
    BY <2>1, SetupSInv
  <2>2. CASE IterCollect
    BY <2>2, CollectSInv
  <2>3. CASE Finish
    BY <2>3, FinishFilled, FilledSInv
  <2>4. CASE Jumping \/ Coalesce \/ UnknownOpcode
    BY <2>4, JumpingFilled, FilledSInv
  <2>5. QED
    BY <1>4, <2>1, <2>2, <2>3, <2>4 DEF Control, Jumping
<1>5. CASE UNCHANGED vars
  <2>1. Filled
    BY <1>5, SameSorts DEF vars, Filled
  <2>2. QED
    BY <2>1, FilledSInv
<1>6. QED
  BY <1>1, <1>2, <1>3, <1>4, <1>5 DEF Next

(* At first the memory is the packet's cells and the singletons, and the   *)
(* inputs are written.                                                     *)
LEMMA JoinedFact ==
  ASSUME NEW s, IsSequence(s), NEW t, IsSequence(t), NEW m, m = s \o t
  PROVE  /\ \A i \in 1 .. Len(s) : m[i] = s[i]
         /\ \A i \in 1 .. Len(t) : m[Len(s) + i] = t[i]
  BY ConcatFact

LEMMA ThreeCells ==
  ASSUME NEW t, NEW f, NEW x, NEW cells, cells = <<t, f, x>>
  PROVE  IsSequence(cells) /\ Len(cells) = 3 /\ cells[1] = t /\ cells[2] = f /\ cells[3] = x
<1>1. cells \in Seq({t, f, x})
  OBVIOUS
<1>2. QED
  BY <1>1 DEF IsSequence

LEMMA LoadedPoints ==
  ASSUME NEW p, LoadedSound(p), LoadedSorted(p),
         NEW t, t = BooleanCell(TRUE), NEW f, f = BooleanCell(FALSE),
         NEW x, x = NothingCell, NEW s, s = p.mem, NEW cells, cells = <<t, f, x>>,
         NEW m, m = s \o cells
  PROVE  /\ AllPoint(m) /\ ValueCells(p.mem) \subseteq ValueCells(m)
         /\ {Len(p.mem) + 1, Len(p.mem) + 2, Len(p.mem) + 3} \subseteq ValueCells(m)
<1>1. PICK n : n = Len(p.mem)
  OBVIOUS
<1>2. /\ n \in Nat /\ IsMemory(m) /\ Len(m) = n + 3
  BY <1>1, LoadedMemory
<1>3. /\ p.mem \in Seq(LoadedCell(n))
      /\ \A a \in 1 .. n : p.mem[a].next # NULL => p.mem[a].next > a
  BY <1>1 DEF LoadedSound
<1>4. IsMemory(p.mem)
  BY <1>1, <1>3, LoadedCells
<1>5. AllPoint(p.mem)
  BY <1>4, SequenceFact DEF LoadedSorted, AllPoint, Addr, IsMemory
<1>6. /\ \A a \in 1 .. n : m[a] = p.mem[a]
      /\ m[n + 1] = t /\ m[n + 2] = f /\ m[n + 3] = x
  <2>1. IsSequence(s)
    BY <1>4 DEF IsMemory
  <2>2. /\ IsSequence(cells) /\ Len(cells) = 3
        /\ cells[1] = t /\ cells[2] = f /\ cells[3] = x
    BY ThreeCells
  <2>3. IsSequence(cells)
    BY <2>2
  <2>4. /\ \A i \in 1 .. Len(s) : m[i] = s[i]
        /\ \A i \in 1 .. Len(cells) : m[Len(s) + i] = cells[i]
    BY <2>1, <2>3, JoinedFact
  <2>5. 1 \in 1 .. Len(cells) /\ 2 \in 1 .. Len(cells) /\ 3 \in 1 .. Len(cells)
    BY <2>2
  <2>6. QED
    BY <1>1, <2>2, <2>4, <2>5
<1>7. \A c \in {t, f, x} : c.kind # "field" /\ \A V, F : PointsTo(c, V, F)
  <2>1. \A c \in {t, f, x} : \E kind \in {"boolean", "nothing"} : \E k : c = Cell(kind, k, "", NULL)
    BY DEF BooleanCell, NothingCell
  <2>2. ASSUME NEW c, NEW kind \in {"boolean", "nothing"}, NEW k, c = Cell(kind, k, "", NULL)
        PROVE  c.kind # "field" /\ \A V, F : PointsTo(c, V, F)
    <3>1. c.kind = kind /\ c.head = NULL /\ c.next = NULL
      BY <2>2 DEF Cell
    <3>2. QED
      BY <3>1 DEF PointsTo
  <2>3. QED
    BY <2>1, <2>2
<1>8. \A a \in n + 1 .. Len(m) : m[a] \in {t, f, x}
  <2>1. \A a \in n + 1 .. n + 3 : a = n + 1 \/ a = n + 2 \/ a = n + 3
    BY <1>2
  <2>2. QED
    BY <1>2, <1>6, <2>1
<1>9. AllPoint(m) /\ Alike(p.mem, m)
  <2>1. Len(p.mem) <= Len(m)
    BY <1>1, <1>2
  <2>2. \A a \in Len(p.mem) + 1 .. Len(m) : PointsTo(m[a], ValueCells(m), FieldCells(m))
    BY <1>1, <1>7, <1>8
  <2>3. \A a \in 1 .. Len(p.mem) : m[a] = p.mem[a]
    BY <1>1, <1>6
  <2>4. QED
    BY <1>2, <1>4, <1>5, <2>1, <2>2, <2>3, GrownPoints
<1>10. ValueCells(p.mem) \subseteq ValueCells(m)
  BY <1>2, <1>4, <1>9, AlikeCells
<1>11. {n + 1, n + 2, n + 3} \subseteq ValueCells(m)
  <2>1. \A a \in {n + 1, n + 2, n + 3} : a \in 1 .. Len(m)
    BY <1>2
  <2>2. \A a \in {n + 1, n + 2, n + 3} : m[a].kind # "field"
    BY <1>6, <1>7
  <2>3. QED
    BY <1>2, <2>1, <2>2, CellsApart
<1>12. QED
  BY <1>1, <1>9, <1>10, <1>11

Readable(p) == LoadedSorted(p) /\ \E assured : ReadsAssured(p, assured)

LEMMA InitSInv ==
  ASSUME \A p \in Packets : WellFormed(p) /\ Readable(p), Init
  PROVE  SInv
<1>1. PICK p \in Packets : Load(p)
  BY DEF Init
<1>2. /\ packet = p /\ LoadedSound(p) /\ LoadedSorted(p)
      /\ mem = p.mem \o <<BooleanCell(TRUE), BooleanCell(FALSE), NothingCell>>
      /\ pc = 0 /\ frames = << >>
  BY <1>1 DEF Load, WellFormed, Readable
<1>3. /\ AllPoint(mem) /\ ValueCells(packet.mem) \subseteq ValueCells(mem)
      /\ {ValTrue, ValFalse, ValNothing} \subseteq ValueCells(mem)
  <2>1. PICK s, t, f, x :
          s = p.mem /\ t = BooleanCell(TRUE) /\ f = BooleanCell(FALSE) /\ x = NothingCell
    OBVIOUS
  <2>2. PICK cells : cells = <<t, f, x>>
    OBVIOUS
  <2>3. mem = s \o cells
    BY <1>2, <2>1, <2>2
  <2>4. /\ AllPoint(mem) /\ ValueCells(p.mem) \subseteq ValueCells(mem)
        /\ {Len(p.mem) + 1, Len(p.mem) + 2, Len(p.mem) + 3} \subseteq ValueCells(mem)
    BY <1>2, <2>1, <2>2, <2>3, LoadedPoints
  <2>5. QED
    BY <1>2, <2>4 DEF ValTrue, ValFalse, ValNothing
<1>4. MInv /\ NULL \notin ValueCells(mem)
  BY InitMInv, CellsApart DEF MInv
<1>5. \A s \in Slots :
        val[s] = IF ~p.given \/ s >= Len(p.inputs) THEN NULL
                 ELSE IF p.inputs[s + 1].value = NULL THEN ValNothing
                 ELSE p.inputs[s + 1].value
  BY <1>1, <1>2 DEF Load, Slots, ValNothing
<1>6. Len(p.inputs) \in Nat /\ Slots \subseteq Nat /\ DOMAIN p.inputs = 1 .. Len(p.inputs)
  BY <1>2 DEF LoadedSound, Slots
<1>7. ASSUME NEW s \in Slots, p.given, s \in 0 .. Len(p.inputs) - 1
      PROVE  val[s] \in ValueCells(mem)
  <2>1. ~(s >= Len(p.inputs)) /\ s + 1 \in DOMAIN p.inputs
    BY <1>6, <1>7
  <2>2. p.inputs[s + 1].value \in ValueCells(packet.mem) \cup {NULL}
    BY <1>2, <2>1 DEF LoadedSorted
  <2>3. QED
    BY <1>3, <1>5, <1>7, <2>1, <2>2
<1>8. ASSUME NEW s \in Slots PROVE val[s] \in ValueCells(mem) \cup {NULL}
  <2>1. CASE ~p.given \/ s >= Len(p.inputs)
    BY <1>5, <2>1
  <2>2. CASE p.given /\ ~(s >= Len(p.inputs))
    <3>1. s \in 0 .. Len(p.inputs) - 1
      BY <1>6, <2>2
    <3>2. QED
      BY <1>7, <2>2, <3>1
  <2>3. QED
    BY <2>1, <2>2
<1>9. PICK assured : ReadsAssured(p, assured)
  BY DEF Readable
<1>10. Held(val, assured[1])
  <2>1. assured[1] \subseteq InputSlots(p)
    BY <1>9 DEF ReadsAssured
  <2>2. QED
    BY <1>4, <1>7, <2>1 DEF Held, InputSlots
<1>11. Assuring(assured) /\ 1 .. Len(frames) = {}
  <2>1. pc + 1 = 1 /\ 1 .. Len(frames) = {}
    BY <1>2
  <2>2. QED
    BY <1>2, <1>9, <1>10, <2>1 DEF Assuring
<1>12. QED
  BY <1>2, <1>3, <1>8, <1>11 DEF SInv

LEMMA SInvImpliesWritten == IInv /\ MInv /\ SInv => ReadsWritten
<1> SUFFICES ASSUME IInv, MInv, SInv, status = "running", pc < Len(packet.code)
             PROVE  /\ \A i \in Reads(ins) : val[i] # NULL
                    /\ ins.op = "ITER_COLLECT" /\ frames # << >> =>
                         val[top.slotA] # NULL
                         /\ (top.mode = "filter" => val[top.slotB] # NULL)
  BY DEF ReadsWritten
<1>1. \A i \in Reads(ins) : val[i] # NULL
  BY ReadsHeld
<1>2. ASSUME ins.op = "ITER_COLLECT"
      PROVE  val[top.slotA] # NULL /\ (top.mode = "filter" => val[top.slotB] # NULL)
  <2>1. Fetched("ITER_COLLECT") /\ NULL \notin ValueCells(mem)
    BY <1>2, CellsApart DEF Fetched, MInv
  <2>2. QED
    BY <2>1, TopSorted
<1>3. QED
  BY <1>1, <1>2

(* vm_execute never takes the NULL of a slot nobody wrote for nothing: in  *)
(* every run of packets whose every way to an instruction writes what it   *)
(* reads, the slots read, and those an ITER_COLLECT collects, hold values, *)
(* whichever jumps are taken and however often a body runs.                *)
THEOREM SlotsAssured ==
  ASSUME \A p \in Packets : WellFormed(p) /\ AppendsToOwn(p.code) /\ Readable(p)
  PROVE  Spec => []ReadsWritten
<1>1. Init => IInv /\ MInv /\ WInv /\ SInv
  BY InitIInv, InitMInv, InitWInv, InitSInv
<1>2. IInv /\ MInv /\ WInv /\ SInv /\ [Next]_vars => IInv' /\ MInv' /\ WInv' /\ SInv'
  BY NextIInv, NextMInv, NextWInv, NextSInv
<1>3. IInv /\ MInv /\ SInv => ReadsWritten
  BY SInvImpliesWritten
<1>4. QED
  BY <1>1, <1>2, <1>3, PTL DEF Spec

------------------------------------------------------------------------------
(* The slots an instruction reads: its operands, and those an ITER_COLLECT *)
(* names, at both ends of its loop.                                        *)
Reading(s) ==
  LET code == packet.code IN
  \/ s \in Operands(ins)
  \/ \E k \in Setups(code) :
       /\ pc + 1 = k \/ pc + 1 = k + 1 + code[k].o2
       /\ s \in CollectReads(code[k], code[k + 1 + code[k].o2])

(* A set of cells nothing outside it leads to, nor what an instruction     *)
(* reads.  A pointer is safe when it leads into no such set.               *)
Outside(B) ==
  /\ B \subseteq ValNothing + 1 .. Len(mem) /\ Sealed(mem, B)
  /\ \A s \in Slots : Reading(s) => val[s] \notin B
  /\ \A i \in 1 .. Len(frames) : frames[i].nextElem \notin B

Safe(x) == \A B : Outside(B) => x \notin B

SafeCells == {x \in 1 .. Len(mem) : Safe(x)}

(* Then a step leads nothing else there.                                   *)
Spared(B) ==
  /\ Sealed(mem', B)
  /\ \A t \in Slots : val'[t] \in B => val'[t] = val[t]
  /\ \A i \in 1 .. Len(frames') : frames'[i].nextElem \notin B

Harmless == Ranked(mem') /\ \A B : Outside(B) => Spared(B)

LEMMA SafePlaces ==
  ASSUME MInv
  PROVE  /\ \A x \in 0 .. ValNothing : Safe(x)
         /\ \A x \in Nat : x > Len(mem) => Safe(x)
         /\ Safe(NULL)
<1>1. ValNothing \in Nat /\ Len(mem) \in Nat /\ ValNothing <= Len(mem)
  BY Places
<1>2. \A x \in 0 .. ValNothing : x \notin ValNothing + 1 .. Len(mem)
  BY <1>1
<1>3. \A x \in Nat : x > Len(mem) => x \notin ValNothing + 1 .. Len(mem)
  BY <1>1
<1>4. NULL \in 0 .. ValNothing
  BY <1>1 DEF NULL
<1>5. QED
  BY <1>2, <1>3, <1>4 DEF Safe, Outside

LEMMA SafeRead == ASSUME NEW s \in Slots, Reading(s) PROVE Safe(val[s])
  BY DEF Safe, Outside

LEMMA SafeNext ==
  ASSUME NEW i \in 1 .. Len(frames) PROVE Safe(frames[i].nextElem)
  BY DEF Safe, Outside

LEMMA SafeLed ==
  ASSUME NEW a \in 1 .. Len(mem), Safe(a)
  PROVE  Safe(mem[a].head) /\ Safe(mem[a].next)
  BY DEF Safe, Outside, Sealed

LEMMA SafeChain ==
  ASSUME MInv, NEW a \in 0 .. Len(mem), Safe(a)
  PROVE  Chain(mem, a) \in Seq(SafeCells)
<1>1. IsMemory(mem) /\ SafeCells \subseteq 1 .. Len(mem)
  BY DEF MInv, SafeCells
<1>2. \A x \in SafeCells : mem[x].next \in SafeCells \cup {NULL}
  <2> SUFFICES ASSUME NEW x \in SafeCells, mem[x].next # NULL
               PROVE  mem[x].next \in SafeCells
    OBVIOUS
  <2>1. x \in 1 .. Len(mem) /\ Safe(x)
    BY DEF SafeCells
  <2>2. mem[x].next \in 1 .. Len(mem) /\ Safe(mem[x].next)
    BY <1>1, <2>1, SafeLed, CellFact
  <2>3. QED
    BY <2>2 DEF SafeCells
<1>3. a \in SafeCells \cup {NULL}
  BY DEF SafeCells, NULL
<1>4. QED
  BY <1>1, <1>2, <1>3, ChainStays

LEMMA SafeMembers ==
  ASSUME MInv, NEW a \in 1 .. Len(mem), Safe(a)
  PROVE  Members(mem, a) \in Seq(SafeCells)
<1>1. mem[a].head \in 0 .. Len(mem) /\ Safe(mem[a].head)
  BY SafeLed, CellFact DEF MInv
<1>2. QED
  BY <1>1, SafeChain DEF Members

(* What a step may do.                                                     *)
LEMMA SparedStep ==
  ASSUME MInv, NEW B, Outside(B),
         \A t \in Slots : val'[t] = val[t] \/ val'[t] \notin B,
         \A i \in 1 .. Len(frames') : frames'[i].nextElem \notin B,
         \A a \in 1 .. Len(mem) :
           /\ mem'[a].head = mem[a].head \/ mem'[a].head \notin B
           /\ mem'[a].next = mem[a].next \/ mem'[a].next \notin B,
         \A a \in Len(mem) + 1 .. Len(mem') : mem'[a].head \notin B /\ mem'[a].next \notin B,
         Len(mem') \in Nat
  PROVE  Spared(B)
<1>1. Len(mem) \in Nat
  BY Places
<1>2. Sealed(mem', B)
  <2> SUFFICES ASSUME NEW a \in 1 .. Len(mem'), a \notin B
               PROVE  mem'[a].head \notin B /\ mem'[a].next \notin B
    BY DEF Sealed
  <2>1. CASE a \in 1 .. Len(mem)
    <3>1. mem[a].head \notin B /\ mem[a].next \notin B
      BY <2>1 DEF Outside, Sealed
    <3>2. QED
      BY <2>1, <3>1
  <2>2. CASE a \in Len(mem) + 1 .. Len(mem')
    BY <2>2
  <2>3. QED
    BY <1>1, <2>1, <2>2
<1>3. QED
  BY <1>2 DEF Spared

LEMMA HarmlessStep ==
  ASSUME MInv, Ranked(mem'), Len(mem) <= Len(mem'), Len(mem') \in Nat,
         \A t \in Slots : val'[t] = val[t] \/ Safe(val'[t]),
         \A i \in 1 .. Len(frames') : Safe(frames'[i].nextElem),
         \A a \in 1 .. Len(mem) :
           /\ mem'[a].head = mem[a].head \/ Safe(mem'[a].head)
           /\ mem'[a].next = mem[a].next \/ Safe(mem'[a].next),
         \A a \in Len(mem) + 1 .. Len(mem') : Safe(mem'[a].head) /\ Safe(mem'[a].next)
  PROVE  Harmless
<1> SUFFICES ASSUME NEW B, Outside(B) PROVE Spared(B)
  BY DEF Harmless
<1>1. \A x : Safe(x) => x \notin B
  BY DEF Safe
<1>2. /\ \A t \in Slots : val'[t] = val[t] \/ val'[t] \notin B
      /\ \A i \in 1 .. Len(frames') : frames'[i].nextElem \notin B
      /\ \A a \in 1 .. Len(mem) :
           /\ mem'[a].head = mem[a].head \/ mem'[a].head \notin B
           /\ mem'[a].next = mem[a].next \/ mem'[a].next \notin B
      /\ \A a \in Len(mem) + 1 .. Len(mem') : mem'[a].head \notin B /\ mem'[a].next \notin B
  BY <1>1
<1>3. QED
  BY <1>2, SparedStep

LEMMA SameHarmless ==
  ASSUME MInv, Ranked(mem), UNCHANGED <<mem, val, frames>>
  PROVE  Harmless
<1>1. Len(mem) \in Nat /\ Len(mem) + 1 .. Len(mem) = {}
  BY Places
<1>2. QED
  BY <1>1, SafeNext, HarmlessStep

LEMMA PointHarmless ==
  ASSUME MInv, Ranked(mem), NEW a, Safe(a), NEW t, Point(a, t)
  PROVE  Harmless
<1>1. /\ UNCHANGED <<mem, frames>>
      /\ \A s \in Slots : val'[s] = val[s] \/ val'[s] = a
  BY DEF Point, Assign, MInv
<1>2. Len(mem) \in Nat /\ Len(mem) + 1 .. Len(mem) = {}
  BY Places
<1>3. QED
  BY <1>1, <1>2, SafeNext, HarmlessStep

(* One more cell.                                                          *)
LEMMA AddedRanked ==
  ASSUME NEW m, IsMemory(m), Ranked(m), NEW c, c.head \in 0 .. Len(m), c.next = NULL,
         IsMemory(Append(m, c))
  PROVE  Ranked(Append(m, c))
<1>1. PICK k : k = Append(m, c)
  OBVIOUS
<1>2. /\ Len(m) \in Nat /\ Len(k) = Len(m) + 1 /\ k[Len(m) + 1] = c
      /\ \A a \in 1 .. Len(m) : k[a] = m[a]
  BY <1>1, AppendAny, SequenceFact DEF IsMemory
<1>3. PICK B : B = {}
  OBVIOUS
<1>4. \A a \in Len(m) + 1 .. Len(k) : a = Len(m) + 1
  BY <1>2
<1>5. Relinks(m, k, B)
  BY <1>2, <1>3, <1>4 DEF Relinks
<1>6. Sealed(m, B) /\ B \subseteq 1 .. Len(m)
  BY <1>3 DEF Sealed
<1>7. QED
  BY <1>1, <1>5, <1>6, RelinkedRanked

LEMMA AddedHarmless ==
  ASSUME MInv, MInv', Ranked(mem), NEW c, c.head \in 0 .. Len(mem), c.next = NULL,
         Safe(c.head), mem' = Append(mem, c), UNCHANGED frames,
         \A s \in Slots : val'[s] = val[s] \/ val'[s] = Len(mem) + 1
  PROVE  Harmless
<1>1. IsMemory(mem) /\ IsMemory(mem') /\ IsSequence(mem) /\ Len(mem) \in Nat
  BY MemorySize DEF MInv, IsMemory
<1>2. Ranked(mem')
  BY <1>1, AddedRanked
<1>3. /\ Len(mem') = Len(mem) + 1 /\ mem'[Len(mem) + 1] = c
      /\ \A a \in 1 .. Len(mem) : mem'[a] = mem[a]
  BY <1>1, AppendAny
<1>4. \A a \in Len(mem) + 1 .. Len(mem') : a = Len(mem) + 1
  BY <1>1, <1>3
<1>5. Safe(NULL) /\ Safe(Len(mem) + 1)
  BY <1>1, SafePlaces
<1>6. Len(mem) <= Len(mem') /\ Len(mem') \in Nat
  BY <1>1, <1>3
<1>7. \A a \in Len(mem) + 1 .. Len(mem') : Safe(mem'[a].head) /\ Safe(mem'[a].next)
  BY <1>3, <1>4, <1>5
<1>8. QED
  BY <1>2, <1>3, <1>5, <1>6, <1>7, SafeNext, HarmlessStep

LEMMA StoreHarmless ==
  ASSUME MInv, MInv', Ranked(mem), NEW c, c.head \in 0 .. Len(mem), c.next = NULL,
         Safe(c.head), NEW t, Store(c, t)
  PROVE  Harmless
<1>1. /\ mem' = Append(mem, c) /\ UNCHANGED frames
      /\ \A s \in Slots : val'[s] = val[s] \/ val'[s] = Len(mem) + 1
  BY DEF Store, Assign, MInv
<1>2. QED
  BY <1>1, AddedHarmless

LEMMA ScalarHarmless ==
  ASSUME MInv, MInv', Ranked(mem), NEW c, Scalar(c), NEW t, Store(c, t)
  PROVE  Harmless
<1>1. c.head = NULL /\ c.next = NULL
  BY DEF Scalar, Cell, NULL
<1>2. NULL \in 0 .. Len(mem) /\ Safe(NULL)
  BY Places, SafePlaces DEF NULL
<1>3. QED
  BY <1>1, <1>2, StoreHarmless

LEMMA FailHarmless == ASSUME MInv, Ranked(mem), Fail PROVE Harmless
  BY SameHarmless DEF Fail

LEMMA GotoHarmless == ASSUME MInv, Ranked(mem), NEW t, Goto(t) PROVE Harmless
  BY SameHarmless DEF Goto

LEMMA BooleanHarmless ==
  ASSUME MInv, Ranked(mem), NEW b, NEW t, Point(Boolean(b), t)
  PROVE  Harmless
<1>1. Boolean(b) \in 0 .. ValNothing
  <2>1. Len(packet.mem) \in Nat
    BY MemorySize
  <2>2. QED
    BY <2>1 DEF Boolean, ValTrue, ValFalse, ValNothing
<1>2. Safe(Boolean(b))
  BY <1>1, SafePlaces
<1>3. QED
  BY <1>2, PointHarmless

LEMMA NothingHarmless ==
  ASSUME MInv, Ranked(mem), NEW t, Point(ValNothing, t)
  PROVE  Harmless
<1>1. ValNothing \in 0 .. ValNothing
  BY Places
<1>2. QED
  BY <1>1, SafePlaces, PointHarmless

(* What an instruction takes for an operand is safe.                       *)
LEMMA SafeConstant == ASSUME MInv, NEW i \in Nat PROVE Safe(Constant(i))
<1>1. PICK size : size = Len(packet.mem)
  OBVIOUS
<1>2. size \in Nat /\ packet.consts \in Seq(1 .. size) /\ ValNothing = size + 3
  BY <1>1, MemorySize DEF MInv, LoadedSound, ValNothing
<1>3. i < Len(packet.consts) => packet.consts[i + 1] \in 1 .. size
  BY <1>2
<1>4. Constant(i) \in 0 .. ValNothing
  BY <1>2, <1>3 DEF Constant, NULL
<1>5. QED
  BY <1>4, SafePlaces

LEMMA SafeFirst ==
  ASSUME IInv, MInv, NEW op, Fetched(op),
         op \in {"LOAD_FIELD", "COPY", "NEGATE", "NOT", "TO_STRING", "TO_INT",
                 "TO_FLOAT", "TO_BOOL", "LIST_LENGTH", "ITER_SETUP", "TAG_CHECK",
                 "RECORD_GET_C"} \cup DOMAIN TypeTests
  PROVE  Safe(V1)
<1>1. ins.op = op
  BY DEF Fetched
<1>2. ins.o1 \in Operands(ins)
  BY <1>1 DEF Operands, Reads, TypeTests
<1>3. ins.o1 \in Slots
  BY Operand1
<1>4. QED
  BY <1>2, <1>3, SafeRead DEF V1, Reading

LEMMA SafeBoth ==
  ASSUME IInv, MInv, NEW op, Fetched(op),
         op \in {"COALESCE", "RECORD_GET", "RECORD_HAS", "LIST_GET"}
  PROVE  Safe(V1) /\ Safe(V2)
<1>1. ins.op = op
  BY DEF Fetched
<1>2. ins.o1 \in Operands(ins) /\ ins.o2 \in Operands(ins)
  BY <1>1 DEF Operands, Reads, TypeTests
<1>3. ins.o1 \in Slots /\ ins.o2 \in Slots
  BY Operands2
<1>4. QED
  BY <1>2, <1>3, SafeRead DEF V1, V2, Reading

LEMMA SafeSecond ==
  ASSUME IInv, MInv, NEW op, Fetched(op),
         op \in {"STDLIB_CALL", "STDLIB_CALL_1", "RECORD_SET", "RECORD_SET_C",
                 "RECORD_NEW_SET_C"}
  PROVE  ins.o2 \in Slots /\ Safe(V2)
<1>1. ins.op = op
  BY DEF Fetched
<1>2. ins.o2 \in Operands(ins) /\ ins.o2 \in Reads(ins)
  BY <1>1 DEF Operands, Reads, TypeTests
<1>3. ins.o2 \in Slots
  BY <1>2, Named DEF Fetched
<1>4. QED
  BY <1>2, <1>3, SafeRead DEF V2, Reading

------------------------------------------------------------------------------
(* Instructions that compute a value.                                      *)
LEMMA ScalarsHarmless ==
  ASSUME IInv, MInv, MInv', Ranked(mem), Scalars
  PROVE  Harmless
<1> USE FailHarmless
<1>1. CASE LoadConst
  <2>1. ins.o1 \in Nat
    BY <1>1, DestinationOnly DEF LoadConst, JumpTargetOps, JumpOps
  <2>2. Safe(Constant(ins.o1))
    BY <2>1, SafeConstant
  <2>3. Fail \/ Point(Constant(ins.o1), {})
    BY <1>1 DEF LoadConst
  <2>4. QED
    BY <2>2, <2>3, PointHarmless
<1>2. CASE LoadNothing
  BY <1>2, NothingHarmless DEF LoadNothing
<1>3. CASE LoadField \/ Copy
  <2>1. Safe(V1)
    BY <1>3, SafeFirst DEF LoadField, Copy
  <2>2. QED
    BY <1>3, <2>1, PointHarmless DEF LoadField, Copy
<1>4. CASE ArithmeticStep
  <2>1. PICK op \in Operations :
          /\ Fetched(op)
          /\ IF V1 = NULL \/ V2 = NULL THEN Fail
             ELSE IF ArithmeticFails(op, mem[V1], mem[V2]) THEN Fail
             ELSE Store(Arithmetic(op, mem[V1], mem[V2]), Propagated(OperandTags))
    BY <1>4 DEF ArithmeticStep, Operations
  <2>2. V1 \in 0 .. Len(mem) /\ V2 \in 0 .. Len(mem)
    BY <2>1, Operands2
  <2>3. CASE V1 # NULL /\ V2 # NULL /\ ~ArithmeticFails(op, mem[V1], mem[V2])
    <3>1. mem[V1].n \in Int /\ mem[V2].n \in Int
      BY <2>2, <2>3, HeldCell
    <3>2. Arithmetic(op, mem[V1], mem[V2]) \in NumberCells
      BY <2>3, <3>1, ArithmeticNumber
    <3>3. Scalar(Arithmetic(op, mem[V1], mem[V2]))
      BY <3>2, ScalarCells DEF NumberCells
    <3>4. QED
      BY <2>1, <2>3, <3>3, ScalarHarmless
  <2>4. QED
    BY <2>1, <2>3
<1>5. CASE Negate
  <2>1. V1 \in 0 .. Len(mem)
    BY <1>5, Operand1 DEF Negate
  <2>2. CASE V1 # NULL /\ IsNumber(mem[V1])
    <3>1. mem[V1].kind \in {"integer", "float"} /\ -mem[V1].n \in Int
      BY <2>1, <2>2, HeldCell DEF IsNumber
    <3>2. Scalar(Cell(mem[V1].kind, -mem[V1].n, "", NULL))
      BY <3>1, ScalarCells
    <3>3. QED
      BY <1>5, <2>2, <3>2, ScalarHarmless DEF Negate
  <2>3. QED
    BY <1>5, <2>2 DEF Negate
<1>6. CASE Equality
  BY <1>6, BooleanHarmless DEF Equality
<1>7. CASE Ordering \/ Connective
  <2>1. Fail \/ \E b : Point(Boolean(b), {})
    BY <1>7 DEF Ordering, Connective
  <2>2. QED
    BY <2>1, BooleanHarmless
<1>8. CASE Not \/ ToBool
  BY <1>8, BooleanHarmless DEF Not, ToBool
<1>9. CASE StrConcat \/ ToStringOp
  <2>1. \E s, t : Store(StringCell(s), t)
    BY <1>9 DEF StrConcat, ToStringOp
  <2>2. QED
    BY <2>1, ScalarCells, ScalarHarmless
<1>10. CASE TypeTest
  <2>1. \E b : Point(Boolean(b), {})
    BY <1>10 DEF TypeTest
  <2>2. QED
    BY <2>1, BooleanHarmless
<1>11. CASE ToInt
  <2>1. V1 \in 0 .. Len(mem)
    BY <1>11, Operand1 DEF ToInt
  <2>2. CASE KindAt(mem, V1) \in {"integer", "float", "string", "boolean"}
    <3>1. mem[V1].n \in Int
      <4>1. V1 # NULL
        BY <2>2 DEF KindAt
      <4>2. QED
        BY <2>1, <4>1, HeldCell
    <3>2. CDiv(mem[V1].n, 2) \in Int /\ ParseInteger(mem[V1].s) \in Int
      BY <3>1, Halved, ParsedNumbers
    <3>3. \E n \in Int : Store(IntegerCell(n), tags[ins.o1])
      BY <1>11, <2>2, <3>1, <3>2 DEF ToInt
    <3>4. QED
      BY <3>3, ScalarCells, ScalarHarmless
  <2>3. QED
    BY <1>11, <2>2 DEF ToInt
<1>12. CASE ToFloat
  <2>1. V1 \in 0 .. Len(mem)
    BY <1>12, Operand1 DEF ToFloat
  <2>2. CASE KindAt(mem, V1) \in {"integer", "float", "string"}
    <3>1. mem[V1].n \in Int
      <4>1. V1 # NULL
        BY <2>2 DEF KindAt
      <4>2. QED
        BY <2>1, <4>1, HeldCell
    <3>2. ToDouble(mem[V1]) \in Int /\ ParseHalves(mem[V1].s) \in Int
      BY <3>1, ParsedNumbers DEF ToDouble
    <3>3. \E n \in Int : Store(FloatCell(n), tags[ins.o1])
      BY <1>12, <2>2, <3>2 DEF ToFloat
    <3>4. QED
      BY <3>3, ScalarCells, ScalarHarmless
  <2>3. QED
    BY <1>12, <2>2 DEF ToFloat
<1>13. QED
  BY <1>1, <1>2, <1>3, <1>4, <1>5, <1>6, <1>7, <1>8, <1>9, <1>10, <1>11, <1>12 DEF Scalars

------------------------------------------------------------------------------
(* Library calls, tags, sources and jumps: a function is called with safe  *)
(* values, and its new cells point to those and to each other.             *)
SafeValues == ValueCells(mem) \cap SafeCells
SafeFields == FieldCells(mem) \cap SafeCells

LEMMA SafeTidy ==
  ASSUME MInv, SInv
  PROVE  Tidy(mem, SafeValues, SafeFields)
<1>1. IsMemory(mem) /\ SafeCells \subseteq 1 .. Len(mem)
  BY DEF MInv, SafeCells
<1>2. ASSUME NEW a \in SafeValues \cup SafeFields
      PROVE  PointsTo(mem[a], SafeValues, SafeFields)
  <2>1. a \in 1 .. Len(mem) /\ Safe(a)
    BY DEF SafeValues, SafeFields, SafeCells
  <2>2. PointsTo(mem[a], ValueCells(mem), FieldCells(mem))
    BY <2>1 DEF SInv, AllPoint
  <2>3. Safe(mem[a].head) /\ Safe(mem[a].next)
    BY <2>1, SafeLed
  <2>4. \A x \in ValueCells(mem) : Safe(x) => x \in SafeValues
    BY <1>1, CellsApart DEF SafeValues, SafeCells
  <2>5. \A x \in FieldCells(mem) : Safe(x) => x \in SafeFields
    BY <1>1, CellsApart DEF SafeFields, SafeCells
  <2>6. QED
    BY <2>2, <2>3, <2>4, <2>5 DEF PointsTo
<1>3. QED
  BY <1>1, <1>2, CellsApart DEF Tidy, SafeValues, SafeFields

LEMMA SafeArguments ==
  ASSUME MInv, SInv, V2 \in SafeValues
  PROVE  Arguments \in [Library!ArgNames -> SafeValues \cup {0}]
<1>1. PICK V, F : V = SafeValues /\ F = SafeFields
  OBVIOUS
<1>2. Region(mem, V, F) /\ Tidy(mem, V, F)
  BY <1>1, SafeTidy, TidyRegion DEF MInv
<1>3. \A name : FieldNamed(mem, V2, name) \subseteq F
  BY <1>1, <1>2, NamedAmong DEF Region
<1>4. ASSUME NEW name PROVE Argument(name) \in V \cup {0}
  <2>1. \A f \in FieldNamed(mem, V2, name) : mem[f].head \in V \cup {0}
    BY <1>2, <1>3 DEF Region
  <2>2. FieldNamed(mem, V2, name) # {} =>
          mem[CHOOSE f \in FieldNamed(mem, V2, name) : TRUE].head \in V \cup {0}
    BY <2>1
  <2>3. QED
    BY <1>1, <2>2 DEF Argument, NULL
<1>5. QED
  BY <1>1, <1>4 DEF Arguments

LEMMA AnswerHarmless ==
  ASSUME MInv, MInv', Ranked(mem), NEW r, Fit(mem, r.cells), Layered(mem, r.cells),
         Keeps(mem, SafeValues, SafeFields, r), Answer(r)
  PROVE  Harmless
<1>1. /\ mem' = mem \o r.cells /\ UNCHANGED frames
      /\ \A s \in Slots : val'[s] = val[s] \/ val'[s] = r.at
  BY DEF Answer, Assign, MInv
<1>2. PICK W, G :
        /\ W \cup G = Len(mem) + 1 .. Len(mem) + Len(r.cells)
        /\ \A i \in 1 .. Len(r.cells) : PointsTo(r.cells[i], SafeValues \cup W, SafeFields \cup G)
        /\ r.at \in SafeValues \cup W
  BY DEF Keeps
<1>3. /\ IsMemory(mem) /\ IsSequence(mem) /\ IsSequence(r.cells)
      /\ Len(mem) \in Nat /\ Len(r.cells) \in Nat
  BY MemorySize, SequenceFact DEF MInv, IsMemory, Fit
<1>4. /\ Len(mem') = Len(mem) + Len(r.cells)
      /\ \A a \in 1 .. Len(mem) : mem'[a] = mem[a]
      /\ \A i \in 1 .. Len(r.cells) : mem'[Len(mem) + i] = r.cells[i]
  BY <1>1, <1>3, ConcatFact
<1>5. \A x \in SafeValues \cup SafeFields \cup W \cup G \cup {NULL} : Safe(x)
  <2>1. \A x \in SafeValues \cup SafeFields : Safe(x)
    BY DEF SafeValues, SafeFields, SafeCells
  <2>2. \A x \in W \cup G : x \in Nat /\ x > Len(mem)
    BY <1>2, <1>3
  <2>3. QED
    BY <2>1, <2>2, SafePlaces
<1>6. \A i \in 1 .. Len(r.cells) : Safe(r.cells[i].head) /\ Safe(r.cells[i].next)
  BY <1>2, <1>5 DEF PointsTo
<1>7. \A a \in Len(mem) + 1 .. Len(mem') : Safe(mem'[a].head) /\ Safe(mem'[a].next)
  <2> SUFFICES ASSUME NEW a \in Len(mem) + 1 .. Len(mem')
               PROVE  Safe(mem'[a].head) /\ Safe(mem'[a].next)
    OBVIOUS
  <2>1. PICK i : i = a - Len(mem)
    OBVIOUS
  <2>2. i \in 1 .. Len(r.cells) /\ a = Len(mem) + i
    BY <1>3, <1>4, <2>1
  <2>3. QED
    BY <1>4, <1>6, <2>2
<1>8. Ranked(mem')
  BY <1>1, <1>3, LayeredRanked
<1>9. Safe(r.at)
  BY <1>2, <1>5
<1>10. Len(mem) <= Len(mem') /\ Len(mem') \in Nat
  BY <1>3, <1>4
<1>11. QED
  BY <1>1, <1>4, <1>7, <1>8, <1>9, <1>10, SafeNext, HarmlessStep

LEMMA CallLibraryHarmless ==
  ASSUME IInv, MInv, MInv', SInv, Ranked(mem), ins.o2 \in Slots,
         V2 \in ValueCells(mem), Safe(V2), CallLibrary
  PROVE  Harmless
<1>1. V2 \in SafeValues /\ V2 # NULL
  BY CellsApart DEF SafeValues, SafeCells, MInv
<1>2. \/ Point(V2, Propagated(tags[ins.o2]))
      \/ \E f : CallFunction(f)
      \/ Fail
      \/ \E n : Store(StringCell(n), Propagated(tags[ins.o2]))
  BY <1>1 DEF CallLibrary
<1>3. CASE \E f : CallFunction(f)
  <2>1. PICK f : CallFunction(f)
    BY <1>3
  <2>2. Fail \/ \E r \in Library!Call(f, mem, Arguments) : Answer(r)
    BY <2>1 DEF CallFunction
  <2>3. \A r \in Library!Call(f, mem, Arguments) : Fit(mem, r.cells) /\ Layered(mem, r.cells)
    <3>1. Arguments \in [Library!ArgNames -> 0 .. Len(mem)] /\ IsMemory(mem)
      BY ArgumentsHold DEF MInv
    <3>2. \A r \in Library!Call(f, mem, Arguments) : Sound(mem, r)
      BY <3>1, CallSound
    <3>3. \A r \in Library!Call(f, mem, Arguments) : Layered(mem, r.cells)
      BY <3>1, CallLayered
    <3>4. QED
      BY <3>2, <3>3 DEF Sound
  <2>4. \A r \in Library!Call(f, mem, Arguments) : Keeps(mem, SafeValues, SafeFields, r)
    <3>1. IsMemory(mem) /\ Tidy(mem, SafeValues, SafeFields)
      BY SafeTidy DEF MInv
    <3>2. QED
      BY <1>1, <3>1, SafeArguments, CallKeeps
  <2>5. QED
    BY <2>2, <2>3, <2>4, AnswerHarmless, FailHarmless
<1>4. CASE Point(V2, Propagated(tags[ins.o2]))
  BY <1>4, PointHarmless
<1>5. CASE \E n : Store(StringCell(n), Propagated(tags[ins.o2]))
  BY <1>5, ScalarCells, ScalarHarmless
<1>6. QED
  BY <1>2, <1>3, <1>4, <1>5, FailHarmless

(* The item a lookup finds is loaded.                                      *)
LEMMA LookupSafe ==
  ASSUME MInv, SInv, NEW i \in 1 .. Len(packet.sources), NEW a \in LookupIn(packet.sources[i])
  PROVE  Safe(a)
<1>1. PICK source : source = packet.sources[i]
  OBVIOUS
<1>2. source.list \in 0 .. Len(packet.mem)
  <2>1. PICK S : S = [list : ValueCells(packet.mem) \cup {NULL}, keyedBy : STRING]
    OBVIOUS
  <2>2. PICK sources : sources = packet.sources /\ sources \in Seq(S)
    BY <2>1 DEF SInv, LoadedSorted
  <2>3. sources[i] \in S
    BY <2>2, ElementOfSeq
  <2>4. source.list \in ValueCells(packet.mem) \cup {NULL}
    BY <1>1, <2>1, <2>2, <2>3
  <2>5. QED
    BY <2>4, MemorySize DEF ValueCells, Addr, NULL
<1>3. Safe(source.list) /\ source.list \in 0 .. Len(mem)
  <2>1. /\ Len(packet.mem) \in Nat /\ ValNothing = Len(packet.mem) + 3
        /\ ValNothing <= Len(mem) /\ Len(mem) \in Nat
    BY MemorySize, Places DEF ValNothing
  <2>2. source.list \in 0 .. ValNothing /\ source.list \in 0 .. Len(mem)
    BY <1>2, <2>1
  <2>3. QED
    BY <2>2, SafePlaces
<1>4. PICK items : items = IF KindAt(mem, source.list) = "list"
                           THEN Members(mem, source.list) ELSE << >>
  OBVIOUS
<1>5. items \in Seq(SafeCells)
  <2>1. CASE KindAt(mem, source.list) = "list"
    <3>1. source.list # NULL
      BY <2>1 DEF KindAt
    <3>2. source.list \in 1 .. Len(mem)
      BY <1>3, <3>1, MemorySize DEF NULL
    <3>3. QED
      BY <1>3, <1>4, <2>1, <3>2, SafeMembers
  <2>2. QED
    BY <1>4, <2>1
<1>6. \E k \in DOMAIN items : items[k] = a
  <2>1. a \in LookupIn(source)
    BY <1>1
  <2>2. QED
    BY <1>4, <2>1 DEF LookupIn
<1>7. a \in SafeCells
  BY <1>5, <1>6
<1>8. QED
  BY <1>7 DEF SafeCells

LEMMA ExternalHarmless ==
  ASSUME IInv, MInv, MInv', SInv, Ranked(mem), External
  PROVE  Harmless
<1>1. CASE StdlibCall \/ StdlibCall1
  <2>1. PICK op \in {"STDLIB_CALL", "STDLIB_CALL_1"} : Fetched(op) /\ CallLibrary
    BY <1>1 DEF StdlibCall, StdlibCall1
  <2>2. ins.o2 \in Slots /\ Safe(V2)
    BY <2>1, SafeSecond
  <2>3. V2 \in ValueCells(mem)
    <3>1. ins.op = op
      BY <2>1 DEF Fetched
    <3>2. ins.o2 \in Reads(ins)
      BY <3>1 DEF Reads, TypeTests
    <3>3. QED
      BY <2>1, <3>2, ReadsHeld DEF V2, Fetched
  <2>4. QED
    BY <2>1, <2>2, <2>3, CallLibraryHarmless
<1>2. CASE TagSet
  <2>1. ins.op = "TAG_SET"
    BY <1>2 DEF TagSet, Fetched
  <2>2. d \in Operands(ins) /\ d \in Reads(ins)
    BY <2>1 DEF Operands, Reads, TypeTests, d
  <2>3. d \in Slots
    BY <1>2, <2>2, Named DEF TagSet, Fetched
  <2>4. Safe(val[d])
    BY <2>2, <2>3, SafeRead DEF Reading
  <2>5. QED
    BY <1>2, <2>4, PointHarmless DEF TagSet
<1>3. CASE TagCheck
  BY <1>3, BooleanHarmless DEF TagCheck
<1>4. CASE SourceLookup
  <2>1. /\ ins.o1 \in Nat
        /\ packet.sources \in Seq([list : ValueCells(packet.mem) \cup {NULL}, keyedBy : STRING])
    BY <1>4, DestinationOnly DEF SourceLookup, JumpTargetOps, JumpOps, SInv, LoadedSorted
  <2>2. PICK i : i = ins.o1 + 1
    OBVIOUS
  <2>3. ins.o1 < Len(packet.sources) => i \in 1 .. Len(packet.sources)
    BY <2>1, <2>2
  <2>4. \/ Point(ValNothing, {})
        \/ i \in 1 .. Len(packet.sources) /\ \E a \in LookupIn(packet.sources[i]) : Point(a, {})
    BY <1>4, <2>2, <2>3 DEF SourceLookup
  <2>5. i \in 1 .. Len(packet.sources) => \A a \in LookupIn(packet.sources[i]) : Safe(a)
    BY LookupSafe
  <2>6. QED
    BY <2>4, <2>5, NothingHarmless, PointHarmless
<1>5. QED
  BY <1>1, <1>2, <1>3, <1>4 DEF External

LEMMA JumpingHarmless ==
  ASSUME IInv, MInv, Ranked(mem), Jumping \/ Coalesce \/ UnknownOpcode \/ Finish
  PROVE  Harmless
<1>1. CASE Jumping
  <2>1. Fail \/ \E t : Goto(t)
    BY <1>1 DEF Jumping, Jump, JumpIf, JumpIfNot, CmpJumpEqual, CmpJumpOrder, IsNothingJump
  <2>2. QED
    BY <2>1, FailHarmless, GotoHarmless
<1>2. CASE Coalesce
  <2>1. Safe(V1) /\ Safe(V2)
    BY <1>2, SafeBoth DEF Coalesce
  <2>2. QED
    BY <1>2, <2>1, PointHarmless DEF Coalesce
<1>3. CASE UnknownOpcode
  BY <1>3, FailHarmless DEF UnknownOpcode
<1>4. CASE Finish
  BY <1>4, SameHarmless DEF Finish
<1>5. QED
  BY <1>1, <1>2, <1>3, <1>4

------------------------------------------------------------------------------
(* Reading and opening containers.                                         *)
LEMMA GetFieldHarmless ==
  ASSUME MInv, Ranked(mem), V1 \in 0 .. Len(mem), Safe(V1), NEW key, GetField(key)
  PROVE  Harmless
<1>1. \/ Point(ValNothing, {})
      \/ \E name : \E f \in FieldNamed(mem, V1, name) : Point(mem[f].head, tags[ins.o1])
  BY DEF GetField
<1>2. ASSUME NEW name, NEW f \in FieldNamed(mem, V1, name)
      PROVE  Safe(mem[f].head)
  <2>1. V1 \in 1 .. Len(mem)
    <3>1. V1 # NULL
      BY DEF FieldNamed, KindAt
    <3>2. QED
      BY <3>1, MemorySize DEF NULL
  <2>2. FieldNamed(mem, V1, name) \subseteq SafeCells
    BY <2>1, SafeMembers, NamedAmong
  <2>3. f \in 1 .. Len(mem) /\ Safe(f)
    BY <2>2 DEF SafeCells
  <2>4. QED
    BY <2>3, SafeLed
<1>3. QED
  BY <1>1, <1>2, NothingHarmless, PointHarmless

LEMMA ListGetHarmless ==
  ASSUME IInv, MInv, Ranked(mem), ListGet
  PROVE  Harmless
<1>1. Safe(V1) /\ V1 \in 0 .. Len(mem) /\ V2 \in 0 .. Len(mem)
  BY SafeBoth, Operands2 DEF ListGet
<1>2. PICK items : items = Members(mem, V1)
  OBVIOUS
<1>3. \/ Fail \/ Point(ValNothing, {})
      \/ /\ KindAt(mem, V1) = "list" /\ KindAt(mem, V2) = "integer"
         /\ \E e \in ElementAt(mem, V1, mem[V2].n) : Point(e, tags[ins.o1])
  BY DEF ListGet
<1>4. ASSUME KindAt(mem, V1) = "list", KindAt(mem, V2) = "integer",
             NEW e \in ElementAt(mem, V1, mem[V2].n)
      PROVE  Safe(e)
  <2>1. V1 # NULL /\ V2 # NULL
    BY <1>4 DEF KindAt
  <2>2. mem[V2].n \in Int /\ V1 \in 1 .. Len(mem)
    BY <1>1, <2>1, HeldCell
  <2>3. items \in Seq(SafeCells)
    BY <1>1, <1>2, <2>2, SafeMembers
  <2>4. PICK i : i = IF mem[V2].n < 0 THEN 0 ELSE mem[V2].n
    OBVIOUS
  <2>5. i < Len(items) /\ items[i + 1] = e
    BY <1>2, <2>4 DEF ElementAt
  <2>6. i \in Nat
    BY <2>2, <2>4
  <2>7. e \in SafeCells
    BY <2>3, <2>5, <2>6
  <2>8. QED
    BY <2>7 DEF SafeCells
<1>5. QED
  BY <1>3, <1>4, NothingHarmless, PointHarmless, FailHarmless

LEMMA NewContainerHarmless ==
  ASSUME MInv, MInv', Ranked(mem), NEW c, c = RecordCell(NULL) \/ c = ListCell(NULL),
         NewContainer(c)
  PROVE  Harmless
<1>1. /\ mem' = Append(mem, c) /\ UNCHANGED frames
      /\ \A s \in Slots : val'[s] = val[s] \/ val'[s] = Len(mem) + 1
  BY DEF NewContainer, Assign, MInv
<1>2. c.head = NULL /\ c.next = NULL
  <2>1. PICK kind \in {"record", "list"} : c = Cell(kind, 0, "", NULL)
    BY DEF RecordCell, ListCell
  <2>2. QED
    BY <2>1 DEF Cell
<1>3. NULL \in 0 .. Len(mem) /\ Safe(NULL)
  BY Places, SafePlaces DEF NULL
<1>4. QED
  BY <1>1, <1>2, <1>3, AddedHarmless

LEMMA RecordNewSetCHarmless ==
  ASSUME IInv, MInv, MInv', Ranked(mem), RecordNewSetC
  PROVE  Harmless
<1> DEFINE n == Len(mem)
<1>1. CASE Fail
  BY <1>1, FailHarmless
<1>2. CASE ~Fail
  <2>1. PICK name : mem' = mem \o <<FieldCell(name, V2), RecordCell(n + 1)>>
    BY <1>2 DEF RecordNewSetC
  <2>2. /\ val' = [val EXCEPT ![d] = n + 1 + 1]
        /\ UNCHANGED frames /\ Fetched("RECORD_NEW_SET_C")
    BY <1>2 DEF RecordNewSetC, Assign
  <2>3. Safe(V2) /\ V2 \in 0 .. n
    BY <2>2, SafeSecond, SlotHolds DEF V2
  <2>4. PICK f, r : f = FieldCell(name, V2) /\ r = RecordCell(n + 1)
    OBVIOUS
  <2>5. f.head = V2 /\ f.next = NULL /\ r.head = n + 1 /\ r.next = NULL
    BY <2>4 DEF FieldCell, RecordCell, Cell
  <2>6. IsMemory(mem) /\ IsMemory(mem') /\ IsSequence(mem) /\ n \in Nat
    BY MemorySize DEF MInv, IsMemory
  <2>7. PICK cells : cells = <<f, r>>
    OBVIOUS
  <2>8. mem' = mem \o cells
    BY <2>1, <2>4, <2>7
  <2>9. /\ IsSequence(cells) /\ Len(cells) = 2 /\ cells[1] = f /\ cells[2] = r
        /\ 1 \in 1 .. 2 /\ 2 \in 1 .. 2 /\ \A i \in 1 .. 2 : i = 1 \/ i = 2
    <3>1. cells \in Seq({f, r}) /\ Len(cells) = 2 /\ cells[1] = f /\ cells[2] = r
      BY <2>7
    <3>2. QED
      BY <3>1 DEF IsSequence
  <2>10. /\ Len(mem') = n + 2 /\ mem'[n + 1] = f /\ mem'[n + 2] = r
         /\ \A a \in 1 .. n : mem'[a] = mem[a]
         /\ \A i \in 1 .. Len(cells) : mem'[n + i] = cells[i]
    <3>1. IsSequence(cells) /\ IsSequence(mem)
      BY <2>6, <2>9
    <3>2. /\ Len(mem') = Len(mem) + Len(cells)
          /\ \A a \in 1 .. Len(mem) : mem'[a] = mem[a]
          /\ \A i \in 1 .. Len(cells) : mem'[Len(mem) + i] = cells[i]
      BY <2>8, <3>1, ConcatFact
    <3>3. QED
      BY <2>9, <3>2
  <2> HIDE DEF n
  <2>11. Fit(mem, cells)
    <3>1. \A i \in 1 .. 2 : n + i \in 1 .. Len(mem')
      BY <2>6, <2>10
    <3>2. \A i \in 1 .. 2 : CellAt(cells[i], n + i, n + 2)
      BY <2>6, <2>9, <2>10, <3>1 DEF IsMemory
    <3>3. QED
      BY <2>9, <3>2 DEF Fit, n
  <2>12. Layered(mem, cells)
    <3>1. PICK lay : lay = <<1, 2>>
      OBVIOUS
    <3>2. lay \in [1 .. 2 -> 1 .. 3] /\ lay[1] < lay[2]
      BY <3>1
    <3>3. PICK h : h = n + 1
      OBVIOUS
    <3>4. cells[1].head \in 0 .. Len(mem) /\ cells[2].head = Len(mem) + 1
          /\ cells[1].next = NULL /\ cells[2].next = NULL
      BY <2>3, <2>5, <2>9 DEF n
    <3>5. QED
      BY <2>9, <3>2, <3>4 DEF Layered
  <2>13. Ranked(mem')
    BY <2>6, <2>8, <2>11, <2>12, LayeredRanked
  <2>14. Safe(NULL) /\ Safe(n + 1) /\ Safe(n + 1 + 1)
    BY <2>6, SafePlaces DEF n
  <2>15. \A a \in n + 1 .. Len(mem') : a = n + 1 \/ a = n + 2
    BY <2>6, <2>10
  <2>16. \A a \in n + 1 .. Len(mem') : Safe(mem'[a].head) /\ Safe(mem'[a].next)
    BY <2>3, <2>5, <2>10, <2>14, <2>15
  <2>17. \A s \in Slots : val'[s] = val[s] \/ val'[s] = n + 1 + 1
    BY <2>2 DEF MInv
  <2>18. Len(mem) <= Len(mem') /\ Len(mem') \in Nat
    BY <2>6, <2>10 DEF n
  <2>19. QED
    BY <2>2, <2>10, <2>13, <2>14, <2>16, <2>17, <2>18, SafeNext, HarmlessStep DEF n
<1>3. QED
  BY <1>1, <1>2

------------------------------------------------------------------------------
(* Appends, which write the container their slot holds: nothing outside it *)
(* leads there.                                                            *)
LEMMA FreshLinks ==
  ASSUME MInv, d \in Slots, NEW C, C \subseteq 1 .. Len(mem), val[d] \in 1 .. Len(mem),
         Chained(mem, C, mem[val[d]].head, tail[d]),
         NEW c, Loose(c, Len(mem)), LinkFresh(c)
  PROVE  /\ Len(mem') = Len(mem) + 1
         /\ mem'[Len(mem) + 1].head = c.head /\ mem'[Len(mem) + 1].next = NULL
         /\ \A a \in 1 .. Len(mem) : a \notin C \cup {val[d]} => mem'[a] = mem[a]
         /\ \A a \in 1 .. Len(mem) :
              /\ mem'[a].head = mem[a].head \/ mem'[a].head = Len(mem) + 1
              /\ mem'[a].next = mem[a].next \/ mem'[a].next = Len(mem) + 1
<1> DEFINE n == Len(mem)  grown == Append(mem, c)  first == mem[val[d]].head
<1>1. n \in Nat /\ IsMemory(mem) /\ IsSequence(mem)
  BY MemorySize DEF MInv, IsMemory
<1>2. /\ IsMemory(grown) /\ Len(grown) = n + 1 /\ \A a \in 1 .. n : grown[a] = mem[a]
      /\ grown[n + 1] = c
  BY <1>1, Added, AppendAny
<1>3. c.next = NULL
  BY DEF Loose
<1>4. PICK x \in 1 .. n :
        /\ x \in C \cup {val[d]}
        /\ \/ mem' = [grown EXCEPT ![x].next = n + 1]
           \/ mem' = [grown EXCEPT ![x].head = n + 1]
  <2>1. CASE tail[d] # NULL
    <3>1. tail[d] \in C /\ tail[d] \in 1 .. n
      BY <2>1 DEF Chained, n
    <3>2. mem' = [grown EXCEPT ![tail[d]].next = n + 1]
      BY <2>1 DEF LinkFresh
    <3>3. QED
      BY <3>1, <3>2
  <2>2. CASE tail[d] = NULL
    <3>1. first = NULL
      BY <2>2 DEF Chained
    <3>2. mem' = [grown EXCEPT ![val[d]].head = n + 1]
      BY <2>2, <3>1 DEF LinkFresh
    <3>3. QED
      BY <3>2 DEF n
  <2>3. QED
    BY <2>1, <2>2
<1> HIDE DEF grown, n
<1>5. \A a \in 1 .. n : a \in 1 .. n + 1 /\ a # n + 1
  BY <1>1
<1>6. n + 1 \in 1 .. n + 1
  BY <1>1
<1>7. PICK g, m, b : g = grown /\ m = mem' /\ b = n + 1
  OBVIOUS
<1>8. IsMemory(g) /\ x \in 1 .. Len(g)
      /\ (m = [g EXCEPT ![x].next = b] \/ m = [g EXCEPT ![x].head = b])
  BY <1>2, <1>4, <1>5, <1>7
<1>9. /\ m[x].head = g[x].head \/ m[x].head = b
      /\ m[x].next = g[x].next \/ m[x].next = b
      /\ \A a \in 1 .. Len(g) : a # x => m[a] = g[a]
  <2>1. CASE m = [g EXCEPT ![x].next = b]
    BY <1>8, <2>1, NextSet
  <2>2. CASE m = [g EXCEPT ![x].head = b]
    BY <1>8, <2>2, HeadSet
  <2>3. QED
    BY <1>8, <2>1, <2>2
<1>10. Len(mem') = n + 1
  <2>1. \A a : Len([grown EXCEPT ![x] = a]) = n + 1
    BY <1>2, <1>5, ExceptAny DEF IsMemory
  <2>2. \/ mem' = [grown EXCEPT ![x] = [@ EXCEPT !.next = n + 1]]
        \/ mem' = [grown EXCEPT ![x] = [@ EXCEPT !.head = n + 1]]
    BY <1>4
  <2>3. QED
    BY <2>1, <2>2
<1>11. \A a \in 1 .. n : a # x => mem'[a] = mem[a]
  BY <1>2, <1>5, <1>7, <1>9
<1>12. /\ mem'[x].head = mem[x].head \/ mem'[x].head = n + 1
       /\ mem'[x].next = mem[x].next \/ mem'[x].next = n + 1
  BY <1>2, <1>4, <1>7, <1>9
<1>13. mem'[n + 1] = c
  BY <1>2, <1>4, <1>5, <1>6, <1>7, <1>9
<1>14. QED
  BY <1>3, <1>4, <1>10, <1>11, <1>12, <1>13 DEF n

(* A step changes cells of one set only.                                   *)
Changes(B) ==
  Len(mem) <= Len(mem') /\ \A a \in 1 .. Len(mem) : a \notin B => mem'[a] = mem[a]

LEMMA LinkingHarmless ==
  ASSUME IInv, MInv, MInv', WInv, Ranked(mem), NEW own, Holding(own),
         Outside(Block(own, val, d)), UNCHANGED <<frames, val>>,
         status = "running", pc < Len(packet.code), ins.op \in Appends,
         NEW c, Loose(c, Len(mem)), Safe(c.head), LinkFresh(c)
  PROVE  Harmless /\ Changes(Block(own, val, d))
<1> DEFINE n == Len(mem)
<1>1. /\ d \in Slots /\ d \in Int /\ val[d] \in ValNothing + 1 .. n
      /\ Chained(mem, own[d], mem[val[d]].head, tail[d])
      /\ own[d] \subseteq ValNothing + 1 .. n
  BY Own
<1>2. /\ ValNothing \in Nat /\ n \in Nat /\ IsMemory(mem) /\ IsMemory(mem')
  BY Places DEF MInv
<1>3. own[d] \subseteq 1 .. n /\ val[d] \in 1 .. n
  BY <1>1, <1>2
<1>4. PICK B : B = own[d] \cup {val[d]}
  OBVIOUS
<1>5. Block(own, val, d) = B /\ Outside(B) /\ Sealed(mem, B) /\ B \subseteq 1 .. n
  <2>1. Block(own, val, d) = B
    BY <1>1, <1>4 DEF Block
  <2>2. QED
    BY <1>3, <1>4, <2>1 DEF Outside
<1>6. /\ Len(mem') = n + 1 /\ mem'[n + 1].head = c.head /\ mem'[n + 1].next = NULL
      /\ \A a \in 1 .. n : a \notin B => mem'[a] = mem[a]
      /\ \A a \in 1 .. n : /\ mem'[a].head = mem[a].head \/ mem'[a].head = n + 1
                           /\ mem'[a].next = mem[a].next \/ mem'[a].next = n + 1
  <2>1. PICK C : C = own[d]
    OBVIOUS
  <2>2. C \subseteq 1 .. n /\ Chained(mem, C, mem[val[d]].head, tail[d])
    BY <1>1, <1>3, <2>1
  <2>3. /\ Len(mem') = n + 1 /\ mem'[n + 1].head = c.head /\ mem'[n + 1].next = NULL
        /\ \A a \in 1 .. n : a \notin C \cup {val[d]} => mem'[a] = mem[a]
        /\ \A a \in 1 .. n : /\ mem'[a].head = mem[a].head \/ mem'[a].head = n + 1
                             /\ mem'[a].next = mem[a].next \/ mem'[a].next = n + 1
    BY <1>1, <1>3, <2>2, FreshLinks
  <2>4. QED
    BY <1>4, <2>1, <2>3
<1>7. c.head \in 0 .. n /\ c.head \notin B
  BY <1>5 DEF Loose, CellAt, Safe
<1> HIDE DEF n
<1>8. /\ \A a \in n + 1 .. Len(mem') : a = n + 1
      /\ n + 1 \in 0 .. Len(mem') /\ n + 1 \notin B /\ n + 1 \in n + 1 .. Len(mem')
  BY <1>2, <1>5, <1>6
<1>9. Relinks(mem, mem', B)
  <2>1. Len(mem) <= Len(mem')
    BY <1>2, <1>6 DEF n
  <2>2. \A a \in n + 1 .. Len(mem') : mem'[a].head = c.head /\ mem'[a].next = NULL
    BY <1>6, <1>8
  <2>3. \A a \in 1 .. n :
          IF a \notin B THEN mem'[a].head = mem[a].head /\ mem'[a].next = mem[a].next
          ELSE /\ \/ mem'[a].head = mem[a].head
                  \/ mem'[a].head \in 0 .. Len(mem') /\ mem'[a].head \notin B
               /\ \/ mem'[a].next = mem[a].next
                  \/ mem'[a].next \in n + 1 .. Len(mem')
    BY <1>6, <1>8
  <2>4. QED
    BY <1>7, <2>1, <2>2, <2>3 DEF Relinks, n
<1>10. Ranked(mem')
  BY <1>2, <1>5, <1>9, RelinkedRanked DEF n
<1>11. Safe(NULL) /\ Safe(n + 1)
  BY <1>2, SafePlaces DEF n
<1>12. \A a \in n + 1 .. Len(mem') : Safe(mem'[a].head) /\ Safe(mem'[a].next)
  BY <1>6, <1>8, <1>11
<1>13. \A a \in 1 .. n : /\ mem'[a].head = mem[a].head \/ Safe(mem'[a].head)
                         /\ mem'[a].next = mem[a].next \/ Safe(mem'[a].next)
  BY <1>6, <1>11
<1>14. Len(mem) <= Len(mem') /\ Len(mem') \in Nat
  BY <1>2, <1>6 DEF n
<1>15. Changes(Block(own, val, d))
  BY <1>5, <1>6, <1>14 DEF Changes, n
<1>16. QED
  BY <1>10, <1>12, <1>13, <1>14, <1>15, SafeNext, HarmlessStep DEF n

LEMMA OverwritingHarmless ==
  ASSUME IInv, MInv, MInv', WInv, Ranked(mem), NEW own, Holding(own),
         Outside(Block(own, val, d)), UNCHANGED <<frames, val>>,
         status = "running", pc < Len(packet.code), ins.op \in Appends,
         NEW name, NEW f \in FieldNamed(mem, val[d], name), NEW b \in 0 .. Len(mem), Safe(b),
         mem' = [mem EXCEPT ![f].head = b]
  PROVE  Harmless /\ Changes(Block(own, val, d))
<1> DEFINE n == Len(mem)
<1>1. /\ d \in Slots /\ d \in Int /\ val[d] \in ValNothing + 1 .. n
      /\ Chained(mem, own[d], mem[val[d]].head, tail[d])
      /\ own[d] \subseteq ValNothing + 1 .. n
  BY Own
<1>2. /\ ValNothing \in Nat /\ n \in Nat /\ IsMemory(mem) /\ IsMemory(mem')
  BY Places DEF MInv
<1>3. own[d] \subseteq 1 .. n /\ val[d] \in 1 .. n
  BY <1>1, <1>2
<1>4. PICK B : B = own[d] \cup {val[d]}
  OBVIOUS
<1>5. Block(own, val, d) = B /\ Outside(B) /\ Sealed(mem, B) /\ B \subseteq 1 .. n
  <2>1. Block(own, val, d) = B
    BY <1>1, <1>4 DEF Block
  <2>2. QED
    BY <1>3, <1>4, <2>1 DEF Outside
<1>6. f \in B /\ f \in 1 .. n
  <2>1. PICK a \in 1 .. Len(mem) : a = val[d]
    BY <1>3
  <2>2. PICK C, last : C = own[d] /\ last = tail[d]
    OBVIOUS
  <2>3. C \subseteq 1 .. Len(mem) /\ Chained(mem, C, mem[a].head, last)
        /\ f \in FieldNamed(mem, a, name)
    BY <1>1, <1>3, <2>1, <2>2
  <2>4. f \in C
    BY <1>2, <2>3, FieldWithin
  <2>5. QED
    BY <1>3, <1>4, <2>2, <2>4
<1>7. /\ mem'[f].head = b /\ mem'[f].next = mem[f].next
      /\ \A a \in 1 .. n : a # f => mem'[a] = mem[a]
  BY <1>2, <1>6, HeadSet
<1>8. Len(mem') = n
  <2>1. \A a : Len([mem EXCEPT ![f] = a]) = n
    BY <1>2, <1>6, ExceptAny DEF IsMemory
  <2>2. mem' = [mem EXCEPT ![f] = [@ EXCEPT !.head = b]]
    OBVIOUS
  <2>3. QED
    BY <2>1, <2>2
<1>9. b \in 0 .. Len(mem') /\ b \notin B
  BY <1>5, <1>8 DEF Safe
<1> HIDE DEF n
<1>10. n + 1 .. Len(mem') = {} /\ Len(mem) <= Len(mem') /\ Len(mem') \in Nat
  BY <1>2, <1>8 DEF n
<1>11. Relinks(mem, mem', B)
  <2>1. \A a \in 1 .. n :
          IF a \notin B THEN mem'[a].head = mem[a].head /\ mem'[a].next = mem[a].next
          ELSE /\ \/ mem'[a].head = mem[a].head
                  \/ mem'[a].head \in 0 .. Len(mem') /\ mem'[a].head \notin B
               /\ \/ mem'[a].next = mem[a].next
                  \/ mem'[a].next \in n + 1 .. Len(mem')
    BY <1>6, <1>7, <1>9
  <2>2. QED
    BY <1>10, <2>1 DEF Relinks, n
<1>12. Ranked(mem')
  BY <1>2, <1>5, <1>11, RelinkedRanked DEF n
<1>13. \A a \in 1 .. n : /\ mem'[a].head = mem[a].head \/ Safe(mem'[a].head)
                         /\ mem'[a].next = mem[a].next \/ Safe(mem'[a].next)
  BY <1>7
<1>14. Changes(Block(own, val, d))
  BY <1>5, <1>6, <1>7, <1>10 DEF Changes, n
<1>15. QED
  BY <1>10, <1>12, <1>13, <1>14, SafeNext, HarmlessStep DEF n

LEMMA ChangedHarmless ==
  ASSUME IInv, MInv, MInv', WInv, Ranked(mem), NEW own, Holding(own),
         Holder(d) => Outside(Block(own, val, d)),
         RecordSet \/ RecordSetC \/ ListAppend
  PROVE  Harmless /\ (Changes({}) \/ (Holder(d) /\ Changes(Block(own, val, d))))
<1>1. Len(mem) \in Nat /\ IsMemory(mem)
  BY MemorySize DEF MInv
<1>2. CASE Fail
  <2>1. Changes({})
    BY <1>1, <1>2 DEF Fail, Changes
  <2>2. QED
    BY <1>2, <2>1, FailHarmless
<1> SUFFICES ASSUME ~Fail PROVE Harmless /\ Holder(d) /\ Changes(Block(own, val, d))
  BY <1>2
<1>3. ASSUME ins.op \in Appends, status = "running", pc < Len(packet.code)
      PROVE  Holder(d) /\ Outside(Block(own, val, d))
  <2>1. d \in Slots
    BY <1>3, Overseen
  <2>2. Holder(d)
    BY <1>3, <2>1, AppendUnder DEF Holder
  <2>3. QED
    BY <2>2
<1>4. CASE ListAppend
  <2>1. /\ LinkFresh(CopyCell(mem, V1)) /\ Assign(d, val[d], tags[d] \cup tags[ins.o1])
        /\ UNCHANGED frames /\ Fetched("LIST_APPEND")
    BY <1>4 DEF ListAppend
  <2>2. d \in Slots /\ ins.o1 \in Slots
    BY <2>1, ContainerOperands
  <2>3. V1 \in 0 .. Len(mem) /\ Safe(V1)
    <3>1. ins.o1 \in Operands(ins)
      BY <2>1 DEF Operands, Fetched
    <3>2. QED
      BY <2>2, <3>1, SlotHolds, SafeRead DEF V1, Reading
  <2>4. PICK c : c = CopyCell(mem, V1)
    OBVIOUS
  <2>5. Loose(c, Len(mem)) /\ LinkFresh(c)
    BY <1>1, <2>1, <2>3, <2>4, CopiedCell
  <2>6. Safe(c.head)
    <3>1. CASE V1 = NULL
      <4>1. c.head = NULL
        BY <2>4, <3>1 DEF CopyCell, NothingCell, Cell
      <4>2. QED
        BY <4>1, SafePlaces
    <3>2. CASE V1 # NULL
      <4>1. V1 \in 1 .. Len(mem)
        BY <1>1, <2>3, <3>2 DEF NULL
      <4>2. c.head = mem[V1].head
        BY <2>4, <3>2 DEF CopyCell
      <4>3. QED
        BY <2>3, <4>1, <4>2, SafeLed
    <3>3. QED
      BY <3>1, <3>2
  <2>7. val' = val
    BY <2>1, <2>2 DEF Assign, MInv
  <2>8. status = "running" /\ pc < Len(packet.code) /\ ins.op \in Appends
    BY <2>1 DEF Fetched, Appends
  <2>9. QED
    BY <1>3, <2>1, <2>5, <2>6, <2>7, <2>8, LinkingHarmless
<1>5. CASE RecordSet \/ RecordSetC
  <2>1. PICK op, name :
          op \in {"RECORD_SET", "RECORD_SET_C"} /\ Fetched(op) /\ SetField(name)
    BY <1>5 DEF RecordSet, RecordSetC
  <2>2. d \in Slots /\ ins.o2 \in Slots
    BY <2>1, ContainerOperands
  <2>3. /\ UNCHANGED frames
        /\ Assign(d, val[d], tags[d] \cup tags[ins.o2])
        /\ \/ \E f \in FieldNamed(mem, val[d], name) : mem' = [mem EXCEPT ![f].head = V2]
           \/ LinkFresh(FieldCell(name, V2))
    BY <2>1 DEF SetField
  <2>4. val' = val
    BY <2>2, <2>3 DEF Assign, MInv
  <2>5. status = "running" /\ pc < Len(packet.code) /\ ins.op \in Appends
    BY <2>1 DEF Fetched, Appends
  <2>6. PICK b : b = V2
    OBVIOUS
  <2>7. b \in 0 .. Len(mem) /\ Safe(b)
    BY <2>1, <2>2, <2>6, SlotHolds, SafeSecond DEF V2
  <2>8. CASE LinkFresh(FieldCell(name, V2))
    <3>1. PICK c : c = FieldCell(name, b)
      OBVIOUS
    <3>2. Loose(c, Len(mem))
      <4>1. "field" \in Kinds /\ 0 \in Int
        BY DEF Kinds
      <4>2. QED
        BY <1>1, <2>7, <3>1, <4>1, NewLooseCell DEF FieldCell
    <3>3. LinkFresh(c)
      BY <2>6, <2>8, <3>1
    <3>4. c.head = b
      BY <3>1 DEF FieldCell, Cell
    <3>5. QED
      BY <1>3, <2>3, <2>4, <2>5, <2>7, <3>2, <3>3, <3>4, LinkingHarmless
  <2>9. CASE \E f \in FieldNamed(mem, val[d], name) : mem' = [mem EXCEPT ![f].head = V2]
    <3>1. PICK f : f \in FieldNamed(mem, val[d], name) /\ mem' = [mem EXCEPT ![f].head = b]
      BY <2>6, <2>9
    <3>2. QED
      BY <1>3, <2>3, <2>4, <2>5, <2>7, <3>1, OverwritingHarmless
  <2>10. QED
    BY <2>3, <2>8, <2>9
<1>6. QED
  BY <1>4, <1>5

LEMMA ContainersHarmless ==
  ASSUME IInv, MInv, MInv', WInv, Ranked(mem), NEW own, Holding(own),
         Holder(d) => Outside(Block(own, val, d)), Containers
  PROVE  Harmless
<1>1. CASE RecordNew \/ ListNew
  BY <1>1, NewContainerHarmless DEF RecordNew, ListNew
<1>2. CASE RecordSet \/ RecordSetC \/ ListAppend
  BY <1>2, ChangedHarmless
<1>3. CASE RecordGet
  <2>1. V1 \in 0 .. Len(mem) /\ Safe(V1)
    BY <1>3, Operands2, SafeBoth DEF RecordGet
  <2>2. QED
    BY <1>3, <2>1, GetFieldHarmless DEF RecordGet
<1>4. CASE RecordGetC
  <2>1. V1 \in 0 .. Len(mem) /\ Safe(V1)
    BY <1>4, Operand1, SafeFirst DEF RecordGetC
  <2>2. QED
    BY <1>4, <2>1, GetFieldHarmless DEF RecordGetC
<1>5. CASE RecordHas
  BY <1>5, BooleanHarmless DEF RecordHas
<1>6. CASE ListGet
  BY <1>6, ListGetHarmless
<1>7. CASE ListLength
  <2>1. V1 \in 0 .. Len(mem)
    BY <1>7, Operand1 DEF ListLength
  <2>2. KindAt(mem, V1) = "list" => Members(mem, V1) \in Seq(1 .. Len(mem))
    <3>1. KindAt(mem, V1) = "list" => V1 \in 1 .. Len(mem)
      BY <2>1, MemorySize DEF KindAt, NULL
    <3>2. QED
      BY <3>1, MembersFact DEF MInv
  <2>3. \E n \in Int : Store(IntegerCell(n), {})
    <3>1. KindAt(mem, V1) = "list" => Len(Members(mem, V1)) \in Int
      BY <2>2
    <3>2. QED
      BY <1>7, <3>1 DEF ListLength
  <2>4. QED
    BY <2>3, ScalarCells, ScalarHarmless
<1>8. CASE RecordNewSetC
  BY <1>8, RecordNewSetCHarmless
<1>9. QED
  BY <1>1, <1>2, <1>3, <1>4, <1>5, <1>6, <1>7, <1>8 DEF Containers

(* Loops.  The pop of a frame leaves its list to a slot: the blocks to     *)
(* spare are those a construction holds before and after the step.         *)
Spares(own) ==
  /\ Ranked(mem')
  /\ \A g \in Int : Holder(g) /\ Holder(g)' /\ Outside(Block(own, val, g)) =>
       Spared(Block(own, val, g))

LEMMA HarmlessSpares == ASSUME Harmless, NEW own PROVE Spares(own)
  BY DEF Harmless, Spares

LEMMA CollectedReading ==
  ASSUME IInv, MInv, SInv, Fetched("ITER_COLLECT")
  PROVE  /\ Safe(val[top.slotA]) /\ val[top.slotA] \in 0 .. Len(mem)
         /\ top.mode = "filter" => Safe(val[top.slotB]) /\ val[top.slotB] \in 0 .. Len(mem)
<1>1. PICK k : k = top.bodyStart
  OBVIOUS
<1>2. /\ k \in Setups(packet.code) /\ pc = Last(packet.code, k) /\ pc = top.collectPc
      /\ packet.code \in Seq(Instruction)
  BY <1>1, AtCollect DEF IInv
<1>3. pc + 1 = k + 1 + packet.code[k].o2
  <2>1. k \in DOMAIN packet.code
    BY <1>2 DEF Setups
  <2>2. k \in Nat /\ packet.code[k].o2 \in Nat
    BY <1>2, <2>1, InstructionAt
  <2>3. QED
    BY <1>2, <2>2 DEF Last
<1>4. FrameSorted(top, ValueCells(mem)) /\ FrameSound(top, Slots, 0 .. Len(mem))
  BY TopSound, TopSorted
<1>5. /\ top.mode = packet.code[k].mode /\ top.slotA = packet.code[pc + 1].o1
      /\ top.slotB = packet.code[pc + 1].o2
  BY <1>1, <1>2, <1>4 DEF FrameSorted
<1>6. top.slotA \in Slots /\ (top.mode = "filter" => top.slotB \in Slots)
  BY <1>4 DEF FrameSound
<1>7. PICK collect : collect = packet.code[pc + 1]
  OBVIOUS
<1>8. /\ top.slotA \in CollectReads(packet.code[k], collect)
      /\ top.mode = "filter" => top.slotB \in CollectReads(packet.code[k], collect)
  BY <1>5, <1>7 DEF CollectReads
<1>9. /\ Reading(top.slotA)
      /\ top.mode = "filter" => Reading(top.slotB)
  BY <1>2, <1>3, <1>7, <1>8 DEF Reading
<1>10. QED
  BY <1>6, <1>9, SafeRead, SlotHolds

(* A copy leads where its value does.                                      *)
LEMMA SafeCopy ==
  ASSUME MInv, NEW a \in 0 .. Len(mem), Safe(a)
  PROVE  /\ Safe(CopyCell(mem, a).head) /\ CopyCell(mem, a).head \in 0 .. Len(mem)
         /\ CopyCell(mem, a).next = NULL
<1>1. Len(mem) \in Nat /\ IsMemory(mem) /\ NULL \in 0 .. Len(mem)
  BY Places DEF MInv, NULL
<1>2. PICK c : c = CopyCell(mem, a)
  OBVIOUS
<1>3. CASE a = NULL
  <2>1. c.head = NULL /\ c.next = NULL
    BY <1>2, <1>3 DEF CopyCell, NothingCell, Cell
  <2>2. QED
    BY <1>1, <1>2, <2>1, SafePlaces
<1>4. CASE a # NULL
  <2>1. a \in 1 .. Len(mem)
    BY <1>1, <1>4 DEF NULL
  <2>2. mem[a].head \in 0 .. Len(mem) /\ Safe(mem[a].head)
    BY <1>1, <2>1, SafeLed, CellFact
  <2>3. c.head = mem[a].head
    BY <1>2, <1>4 DEF CopyCell
  <2>4. c.next = NULL
    BY <1>1, <1>2, CopiedCell DEF Loose
  <2>5. QED
    BY <1>2, <2>2, <2>3, <2>4
<1>5. QED
  BY <1>3, <1>4

(* The memory an ITER_COLLECT leaves, when nothing else leads to the list  *)
(* of its frame.                                                           *)
LEMMA CollectedNew ==
  ASSUME IInv, MInv, SInv, Fetched("ITER_COLLECT"), NEW m, m = mem \o Collected
  PROVE  /\ IsMemory(m) /\ \A a \in 1 .. Len(mem) : m[a] = mem[a]
         /\ Len(m) = Len(mem) + Len(Collected)
         /\ Collected # << >> => Len(Collected) = 1
         /\ \A a \in Len(mem) + 1 .. Len(m) :
              Safe(m[a].head) /\ m[a].head \in 0 .. Len(mem) /\ m[a].next = NULL
<1>1. /\ Len(mem) \in Nat /\ IsMemory(mem) /\ Fit(mem, Collected) /\ Len(Collected) \in Nat
      /\ Collected # << >> => Len(Collected) = 1
  BY MemorySize, TopSound, CollectedFits DEF MInv
<1>2. /\ IsMemory(m) /\ Len(m) = Len(mem) + Len(Collected)
      /\ \A a \in 1 .. Len(mem) : m[a] = mem[a]
  BY <1>1, Grown DEF Fit
<1>3. Collected = << >>
      \/ \E a \in 0 .. Len(mem) : Safe(a) /\ Collected = <<CopyCell(mem, a)>>
  BY CollectedReading DEF Collected
<1>4. CASE Collected = << >>
  <2>1. Len(Collected) = 0
    BY <1>4
  <2>2. \A a \in Len(mem) + 1 .. Len(m) : FALSE
    BY <1>1, <1>2, <2>1
  <2>3. QED
    BY <1>1, <1>2, <2>2
<1>5. ASSUME NEW a \in 0 .. Len(mem), Safe(a), Collected = <<CopyCell(mem, a)>>
      PROVE  \A b \in Len(mem) + 1 .. Len(m) :
               Safe(m[b].head) /\ m[b].head \in 0 .. Len(mem) /\ m[b].next = NULL
  <2>1. PICK c : c = CopyCell(mem, a)
    OBVIOUS
  <2>2. Safe(c.head) /\ c.head \in 0 .. Len(mem) /\ c.next = NULL
    BY <1>5, <2>1, SafeCopy
  <2>3. Collected = <<c>> /\ Len(Collected) = 1 /\ Collected[1] = c
    BY <1>5, <2>1
  <2>4. m[Len(mem) + 1] = c
    <3>1. IsSequence(mem) /\ IsSequence(Collected)
      BY <1>1 DEF IsMemory, Fit
    <3>2. \A i \in 1 .. Len(Collected) : (mem \o Collected)[Len(mem) + i] = Collected[i]
      BY <3>1, ConcatFact
    <3>3. 1 \in 1 .. Len(Collected)
      BY <2>3
    <3>4. QED
      BY <2>3, <3>2, <3>3
  <2>5. \A b \in Len(mem) + 1 .. Len(m) : b = Len(mem) + 1
    BY <1>1, <1>2, <2>3
  <2>6. QED
    BY <2>2, <2>4, <2>5
<1>6. QED
  BY <1>1, <1>2, <1>3, <1>4, <1>5

LEMMA CollectedLinks ==
  ASSUME IInv, MInv, SInv, Ranked(mem), NEW own, Holding(own), Fetched("ITER_COLLECT"),
         NEW h \in Int, h = -depth, Outside(Block(own, val, h)),
         NEW linked, linked = LinkCollected(mem \o Collected)
  PROVE  /\ Ranked(linked) /\ IsMemory(linked)
         /\ Len(mem) <= Len(linked) /\ Len(linked) \in Nat
         /\ \A a \in 1 .. Len(mem) :
              /\ linked[a].head = mem[a].head
              /\ linked[a].next = mem[a].next \/ linked[a].next \in Len(mem) + 1 .. Len(linked)
         /\ \A a \in Len(mem) + 1 .. Len(linked) :
              Safe(linked[a].head) /\ linked[a].next = NULL
<1> DEFINE n == Len(mem)
<1>1. PICK m : m = mem \o Collected
  OBVIOUS
<1>2. PICK C : C = own[h]
  OBVIOUS
<1>3. /\ IsMemory(linked) /\ Len(linked) \in Nat /\ n <= Len(linked)
      /\ \A a \in 1 .. n : linked[a].head = mem[a].head
      /\ \A a \in 1 .. n : a \notin C => linked[a] = mem[a]
      /\ h < 0 /\ C \subseteq ValNothing + 1 .. n
  BY <1>2, Collecting
<1>4. /\ IsMemory(m) /\ \A a \in 1 .. n : m[a] = mem[a]
      /\ Len(m) = n + Len(Collected)
      /\ Collected # << >> => Len(Collected) = 1
      /\ \A a \in n + 1 .. Len(m) :
           Safe(m[a].head) /\ m[a].head \in 0 .. n /\ m[a].next = NULL
  BY <1>1, CollectedNew
<1>5. /\ ValNothing \in Nat /\ n \in Nat /\ IsMemory(mem) /\ \A s \in Slots : s >= 0
      /\ FrameSound(top, Slots, 0 .. n) /\ DOMAIN top = FrameFields
  BY Places, TopSound DEF MInv
<1>6. Block(own, val, h) = C /\ C \subseteq 1 .. n
  <2>1. h \notin Slots
    BY <1>3, <1>5
  <2>2. QED
    BY <1>2, <1>3, <1>5, <2>1 DEF Block
<1>7. Len(linked) = Len(m)
  <2>1. PICK size : size = Len(mem) + Len(Collected)
    OBVIOUS
  <2>2. Len(LinkCollected(mem \o Collected)) = size
    BY <1>5, <2>1, LinkedSound
  <2>3. QED
    BY <1>4, <2>1, <2>2
<1>8. /\ \A a \in 1 .. n : linked[a].next = mem[a].next \/ linked[a].next \in n + 1 .. Len(linked)
      /\ \A a \in n + 1 .. Len(linked) : linked[a] = m[a]
  <2>1. CASE Collected = << >> \/ top.last = NULL
    <3>1. linked = m
      BY <1>1, <2>1 DEF LinkCollected
    <3>2. QED
      BY <1>4, <3>1
  <2>2. CASE Collected # << >> /\ top.last # NULL
    <3>1. PICK x, b : x = top.last /\ b = n + 1
      OBVIOUS
    <3>2. linked = [m EXCEPT ![x].next = b]
      BY <1>1, <2>2, <3>1 DEF LinkCollected
    <3>3. x \in 0 .. n /\ x # NULL
      BY <1>5, <2>2, <3>1 DEF FrameSound
    <3>4. Len(m) = n + 1
      BY <1>4, <2>2
    <3> HIDE DEF n
    <3>5. x \in 1 .. n /\ x \in 1 .. Len(m) /\ b \in n + 1 .. Len(linked)
      BY <1>5, <1>7, <3>1, <3>3, <3>4 DEF NULL
    <3>6. linked[x].next = b /\ \A a \in 1 .. Len(m) : a # x => linked[a] = m[a]
      BY <1>4, <3>2, <3>5, NextSet
    <3>7. /\ \A a \in 1 .. n : a \in 1 .. Len(m)
          /\ \A a \in n + 1 .. Len(linked) : a \in 1 .. Len(m) /\ a # x
      BY <1>5, <1>7, <3>4, <3>5
    <3>8. QED
      BY <1>4, <3>5, <3>6, <3>7 DEF n
  <2>3. QED
    BY <2>1, <2>2
<1>9. \A a \in n + 1 .. Len(linked) :
        Safe(linked[a].head) /\ linked[a].head \in 0 .. n /\ linked[a].next = NULL
  BY <1>4, <1>7, <1>8
<1>10. Outside(C) /\ Sealed(mem, C)
  BY <1>6 DEF Outside
<1>11. \A x : Safe(x) => x \notin C
  BY <1>10 DEF Safe
<1> HIDE DEF n
<1>12. Relinks(mem, linked, C)
  <2>1. \A a \in 1 .. n :
          IF a \notin C THEN linked[a].head = mem[a].head /\ linked[a].next = mem[a].next
          ELSE /\ \/ linked[a].head = mem[a].head
                  \/ linked[a].head \in 0 .. Len(linked) /\ linked[a].head \notin C
               /\ \/ linked[a].next = mem[a].next
                  \/ linked[a].next \in n + 1 .. Len(linked)
    BY <1>3, <1>8
  <2>2. \A a \in n + 1 .. Len(linked) :
          /\ linked[a].head \in 0 .. n /\ linked[a].head \notin C
          /\ linked[a].next = NULL \/ linked[a].next \in n + 1 .. Len(linked)
    BY <1>9, <1>11
  <2>3. QED
    BY <1>3, <2>1, <2>2 DEF Relinks, n
<1>13. Ranked(linked)
  BY <1>3, <1>5, <1>6, <1>10, <1>12, RelinkedRanked DEF n
<1>14. QED
  BY <1>3, <1>8, <1>9, <1>13 DEF n

LEMMA AdvanceHarmless ==
  ASSUME IInv, MInv, SInv, Ranked(mem), NEW own, Holding(own),
         Fetched("ITER_COLLECT"), IterAdvance,
         NEW h \in Int, h = -depth, Outside(Block(own, val, h))
  PROVE  Harmless
<1>1. PICK linked : linked = LinkCollected(mem \o Collected)
  OBVIOUS
<1>2. /\ Ranked(linked) /\ Len(mem) <= Len(linked) /\ Len(linked) \in Nat
      /\ \A a \in 1 .. Len(mem) :
           /\ linked[a].head = mem[a].head
           /\ linked[a].next = mem[a].next \/ linked[a].next \in Len(mem) + 1 .. Len(linked)
      /\ \A a \in Len(mem) + 1 .. Len(linked) :
           Safe(linked[a].head) /\ linked[a].next = NULL
  BY <1>1, CollectedLinks
<1>3. PICK f : f = [Gathered EXCEPT !.nextElem = mem[top.nextElem].next]
  OBVIOUS
<1>4. /\ mem' = linked /\ frames' = [frames EXCEPT ![depth] = f]
      /\ val' = [val EXCEPT ![top.elemSlot] = top.nextElem] /\ top.nextElem # NULL
  BY <1>1, <1>3 DEF IterAdvance
<1>5. /\ depth \in 1 .. Len(frames) /\ DOMAIN top = FrameFields /\ IsSequence(frames)
      /\ FrameSound(top, Slots, 0 .. Len(mem))
  BY TopSound
<1>6. f.nextElem = mem[top.nextElem].next
  BY <1>3, <1>5 DEF Gathered, FrameFields
<1>7. top.nextElem \in 1 .. Len(mem) /\ Safe(top.nextElem)
  <2>1. top.nextElem \in 1 .. Len(mem)
    BY <1>4, <1>5, Places DEF FrameSound, NULL
  <2>2. QED
    BY <1>5, <2>1, SafeNext DEF top
<1>8. Safe(f.nextElem)
  BY <1>6, <1>7, SafeLed
<1>9. \A i \in 1 .. Len(frames') : Safe(frames'[i].nextElem)
  <2>1. /\ Len(frames') = Len(frames) /\ frames'[depth] = f
        /\ \A i \in 1 .. Len(frames) : i # depth => frames'[i] = frames[i]
    BY <1>4, <1>5, ExceptAny
  <2>2. QED
    BY <1>8, <2>1, SafeNext
<1>10. \A t \in Slots : val'[t] = val[t] \/ val'[t] = top.nextElem
  BY <1>4 DEF MInv
<1>11. \A a \in Len(mem) + 1 .. Len(linked) : Safe(a)
  <2>1. \A a \in Len(mem) + 1 .. Len(linked) : a \in Nat /\ a > Len(mem)
    BY <1>2, Places
  <2>2. QED
    BY <2>1, SafePlaces
<1>12. QED
  BY <1>2, <1>4, <1>7, <1>9, <1>10, <1>11, SafePlaces, HarmlessStep

LEMMA FinishLoopSpares ==
  ASSUME IInv, MInv, MInv', SInv, Ranked(mem), NEW own, Holding(own),
         Fetched("ITER_COLLECT"), IterFinish,
         NEW h \in Int, h = -depth, Outside(Block(own, val, h))
  PROVE  Spares(own)
<1> DEFINE n == Len(mem)
<1>1. PICK linked : linked = LinkCollected(mem \o Collected)
  OBVIOUS
<1>2. /\ Ranked(linked) /\ IsMemory(linked) /\ n <= Len(linked) /\ Len(linked) \in Nat
      /\ \A a \in 1 .. n :
           /\ linked[a].head = mem[a].head
           /\ linked[a].next = mem[a].next \/ linked[a].next \in n + 1 .. Len(linked)
      /\ \A a \in n + 1 .. Len(linked) :
           Safe(linked[a].head) /\ linked[a].next = NULL
  BY <1>1, CollectedLinks
<1>3. /\ n \in Nat /\ ValNothing \in Nat /\ ValNothing <= n
      /\ \A s \in Slots : s \in Int /\ s >= 0
  BY Places
<1>4. /\ depth \in Nat \ {0} /\ depth = Len(frames) /\ DOMAIN top = FrameFields
      /\ IsSequence(frames) /\ FrameSound(top, Slots, 0 .. n)
  BY TopSound DEF depth
<1>5. Len(frames') = depth - 1 /\ \A i \in 1 .. depth - 1 : frames'[i] = frames[i]
  <2>1. PICK j \in Nat : j = depth - 1 /\ Len(frames) = j + 1
    BY <1>4
  <2>2. frames' = SubSeq(frames, 1, j)
    BY <2>1 DEF IterFinish
  <2>3. QED
    BY <1>4, <2>1, <2>2, Popped
<1>6. \A i \in 1 .. Len(frames') : Safe(frames'[i].nextElem)
  <2>1. \A i \in 1 .. depth - 1 : i \in 1 .. Len(frames)
    BY <1>4
  <2>2. QED
    BY <1>5, <2>1, SafeNext
<1>7. \A a \in n + 1 .. Len(linked) : Safe(a)
  <2>1. \A a \in n + 1 .. Len(linked) : a \in Nat /\ a > n
    BY <1>2, <1>3
  <2>2. QED
    BY <2>1, SafePlaces
<1>8. CASE top.mode = "fold"
  <2>1. Gathered.acc = val[top.slotA]
    BY <1>4, <1>8 DEF Gathered, FrameFields
  <2>2. Safe(val[top.slotA]) /\ Safe(ValNothing)
    <3>1. ValNothing \in 0 .. ValNothing
      BY <1>3
    <3>2. QED
      BY <3>1, CollectedReading, SafePlaces
  <2>3. mem' = linked /\ \A t \in Slots : val'[t] = val[t] \/ Safe(val'[t])
    <3>1. PICK a : a = (IF Gathered.acc = NULL THEN ValNothing ELSE Gathered.acc)
      OBVIOUS
    <3>2. mem' = linked /\ val' = [val EXCEPT ![top.resultDest] = a]
      BY <1>1, <1>8, <3>1 DEF IterFinish, Assign
    <3>3. Safe(a)
      BY <2>1, <2>2, <3>1
    <3>4. QED
      BY <3>2, <3>3 DEF MInv
  <2>4. Harmless
    BY <1>2, <1>6, <1>7, <2>3, SafePlaces, HarmlessStep
  <2>5. QED
    BY <2>4, HarmlessSpares
<1>9. CASE top.mode # "fold"
  <2>1. PICK first : first = Gathered.head
    OBVIOUS
  <2>2. PICK c : c = ListCell(first)
    OBVIOUS
  <2>3. c.head = first /\ c.next = NULL
    BY <2>2 DEF ListCell, Cell
  <2>4. /\ mem' = Append(linked, c)
        /\ \A t \in Slots : val'[t] = val[t] \/ val'[t] = Len(linked) + 1
    <3>1. mem' = Append(linked, c) /\ val' = [val EXCEPT ![top.resultDest] = Len(linked) + 1]
      BY <1>1, <1>9, <2>1, <2>2 DEF IterFinish, Assign
    <3>2. QED
      BY <3>1 DEF MInv
  <2>5. /\ Len(mem') = Len(linked) + 1 /\ mem'[Len(linked) + 1] = c
        /\ \A a \in 1 .. Len(linked) : mem'[a] = linked[a]
    BY <1>2, <2>4, AppendAny DEF IsMemory
  <2>6. first \in 0 .. Len(linked)
    <3>1. PICK size : size = Len(mem) + Len(Collected)
      OBVIOUS
    <3>2. Gathered.head \in 0 .. size /\ Len(LinkCollected(mem \o Collected)) = size
      BY <1>4, <3>1, LinkedSound
    <3>3. QED
      BY <1>1, <2>1, <3>2
  <2>7. Ranked(mem')
    <3>1. IsMemory(Append(linked, c))
      BY <2>4 DEF MInv
    <3>2. QED
      BY <1>2, <2>3, <2>4, <2>6, <3>1, AddedRanked
  <2>8. first \in own[h] \/ first \in n + 1 .. Len(linked) \/ first = NULL
    <3>1. PICK D : /\ D = own[h] \cup (n + 1 .. Len(linked))
                   /\ Chained(linked, D, Gathered.head, Gathered.last)
      BY <1>1, Collecting
    <3>2. first \in D \/ first = NULL
      BY <2>1, <3>1 DEF Chained
    <3>3. QED
      BY <3>1, <3>2
  <2>9. ASSUME NEW g \in Int, Holder(g), Holder(g)', Outside(Block(own, val, g))
        PROVE  Spared(Block(own, val, g))
    <3>1. PICK B : B = Block(own, val, g)
      OBVIOUS
    <3>2. Outside(B) /\ B \subseteq ValNothing + 1 .. n
      BY <2>9, <3>1 DEF Outside
    <3>3. first \notin B
      <4>1. g # h
        <5>1. h \notin Slots' /\ ~(-h \in 1 .. Len(frames'))
          <6>1. Slots' = Slots
            BY DEF IterFinish, Slots
          <6>2. QED
            BY <1>3, <1>4, <1>5, <6>1
        <5>2. QED
          BY <2>9, <5>1 DEF Holder
      <4>2. B = own[g] \/ (g \in Slots /\ Under(g) /\ B = own[g] \cup {val[g]})
        <5>1. g \in Slots => Under(g)
          BY <1>3, <1>4, <2>9 DEF Holder
        <5>2. QED
          BY <3>1, <5>1 DEF Block
      <4>3. own[g] \cap own[h] = {} /\ (g \in Slots /\ Under(g) => val[g] \notin own[h])
        BY <4>1 DEF Holding
      <4>4. first \notin own[h] => first \notin B
        BY <1>2, <1>3, <2>8, <3>2 DEF NULL
      <4>5. QED
        BY <4>2, <4>3, <4>4
    <3>4. \A x : Safe(x) => x \notin B
      BY <3>2 DEF Safe
    <3>5. Len(linked) + 1 \notin B
      BY <1>2, <1>3, <3>2
    <3>6. \A t \in Slots : val'[t] = val[t] \/ val'[t] \notin B
      BY <2>4, <3>5
    <3>7. \A i \in 1 .. Len(frames') : frames'[i].nextElem \notin B
      BY <1>6, <3>4
    <3>8. \A a \in 1 .. n :
            /\ mem'[a].head = mem[a].head \/ mem'[a].head \notin B
            /\ mem'[a].next = mem[a].next \/ mem'[a].next \notin B
      <4>1. \A a \in 1 .. n : a \in 1 .. Len(linked)
        BY <1>2, <1>3
      <4>2. QED
        BY <1>2, <1>7, <2>5, <3>4, <4>1
    <3>9. \A a \in n + 1 .. Len(mem') : mem'[a].head \notin B /\ mem'[a].next \notin B
      <4>1. \A a \in n + 1 .. Len(mem') :
              a = Len(linked) + 1 \/ (a \in n + 1 .. Len(linked) /\ a \in 1 .. Len(linked))
        BY <1>2, <1>3, <2>5
      <4>2. NULL \notin B
        BY SafePlaces, <3>4
      <4>3. QED
        BY <1>2, <2>3, <2>5, <3>3, <3>4, <4>1, <4>2
    <3>10. Len(mem') \in Nat
      BY <1>2, <2>5
    <3>11. Spared(B)
      BY <3>2, <3>6, <3>7, <3>8, <3>9, <3>10, SparedStep
    <3>12. QED
      BY <3>1, <3>11
  <2>10. QED
    BY <2>7, <2>9 DEF Spares
<1>10. QED
  BY <1>8, <1>9

(* An ITER_SETUP reads the list, and, for a fold, its ITER_COLLECT's first *)
(* operand.                                                                *)
LEMMA FoldReading ==
  ASSUME IInv, MInv, Fetched("ITER_SETUP"), CollectPc < Len(packet.code),
         Collector.op = "ITER_COLLECT"
  PROVE  Safe(val[Collector.o1])
<1> DEFINE code == packet.code  k == pc + 1
<1>1. /\ k \in DOMAIN code /\ ins = code[k] /\ ins.o2 \in Nat /\ pc \in Nat
      /\ ins.op = "ITER_SETUP"
  BY Named DEF Fetched, IInv
<1>2. k \in Setups(code)
  BY <1>1 DEF Setups
<1>3. Collector = code[k + 1 + code[k].o2]
  <2>1. CollectPc + 1 = k + 1 + code[k].o2
    BY <1>1 DEF CollectPc
  <2>2. QED
    BY <2>1 DEF Collector
<1>4. Collector.o1 \in CollectReads(code[k], code[k + 1 + code[k].o2])
  BY <1>3 DEF CollectReads
<1>5. Reading(Collector.o1)
  BY <1>2, <1>4 DEF Reading
<1>6. QED
  BY <1>5, CollectorNames, SafeRead

LEMMA EmptyHarmless ==
  ASSUME IInv, MInv, MInv', Ranked(mem), Fetched("ITER_SETUP"),
         CollectPc < Len(packet.code), Collector.op = "ITER_COLLECT", IterEmpty
  PROVE  Harmless
<1>1. CASE ins.mode = "fold"
  <2>1. /\ UNCHANGED <<mem, frames>>
        /\ \A s \in Slots : val'[s] = val[s] \/ val'[s] = val[Collector.o1]
    BY <1>1 DEF IterEmpty, Assign, MInv
  <2>2. Len(mem) \in Nat /\ Len(mem) + 1 .. Len(mem) = {}
    BY Places
  <2>3. QED
    BY <2>1, <2>2, FoldReading, SafeNext, HarmlessStep
<1>2. CASE ins.mode # "fold"
  <2>1. PICK c : c = ListCell(NULL)
    OBVIOUS
  <2>2. /\ mem' = Append(mem, c) /\ UNCHANGED frames
        /\ \A s \in Slots : val'[s] = val[s] \/ val'[s] = Len(mem) + 1
    BY <1>2, <2>1 DEF IterEmpty, Assign, MInv
  <2>3. c.head = NULL /\ c.next = NULL
    BY <2>1 DEF ListCell, Cell
  <2>4. NULL \in 0 .. Len(mem) /\ Safe(NULL)
    BY Places, SafePlaces DEF NULL
  <2>5. QED
    BY <2>2, <2>3, <2>4, AddedHarmless
<1>3. QED
  BY <1>1, <1>2

LEMMA PushHarmless ==
  ASSUME IInv, MInv, Ranked(mem), Fetched("ITER_SETUP"), KindAt(mem, V1) = "list",
         mem[V1].head # NULL, IterPush
  PROVE  Harmless
<1>1. V1 \in 1 .. Len(mem) /\ Safe(V1)
  <2>1. V1 \in 0 .. Len(mem) /\ V1 # NULL
    BY Operand1 DEF KindAt
  <2>2. QED
    BY <2>1, HeldCell, SafeFirst
<1>2. PICK first : first = mem[V1].head
  OBVIOUS
<1>3. first \in 1 .. Len(mem) /\ Safe(first)
  <2>1. first \in 0 .. Len(mem) /\ Safe(first) /\ first # NULL
    BY <1>1, <1>2, SafeLed, CellFact DEF MInv
  <2>2. QED
    BY <2>1, HeldCell
<1>4. PICK f : frames' = Append(frames, f) /\ f.nextElem = mem[first].next
  BY <1>2 DEF IterPush
<1>5. mem' = mem /\ \A t \in Slots : val'[t] = val[t] \/ val'[t] = first
  BY <1>2 DEF IterPush, MInv
<1>6. Safe(f.nextElem)
  BY <1>3, <1>4, SafeLed
<1>7. \A i \in 1 .. Len(frames') : Safe(frames'[i].nextElem)
  <2>1. IsSequence(frames) /\ Len(frames) \in Nat
    BY SequenceFact DEF IInv, FramesOf, IsSequence
  <2>2. /\ Len(frames') = Len(frames) + 1 /\ frames'[Len(frames) + 1] = f
        /\ \A i \in 1 .. Len(frames) : frames'[i] = frames[i]
    BY <1>4, <2>1, AppendAny
  <2>3. \A i \in 1 .. Len(frames') : i \in 1 .. Len(frames) \/ i = Len(frames) + 1
    BY <2>1, <2>2
  <2>4. QED
    BY <1>6, <2>2, <2>3, SafeNext
<1>8. Len(mem) \in Nat /\ Len(mem) + 1 .. Len(mem) = {}
  BY Places
<1>9. QED
  BY <1>3, <1>5, <1>7, <1>8, HarmlessStep

LEMMA SetupHarmless ==
  ASSUME IInv, MInv, MInv', Ranked(mem), IterSetup
  PROVE  Harmless
<1>1. CASE Fail
  BY <1>1, FailHarmless
<1>2. CASE ~Fail
  <2>1. /\ Fetched("ITER_SETUP") /\ KindAt(mem, V1) = "list"
        /\ ~(CollectPc >= Len(packet.code)) /\ Collector.op = "ITER_COLLECT"
        /\ IterEmpty \/ (mem[V1].head # NULL /\ IterPush)
    BY <1>2, Zenon DEF IterSetup
  <2>2. CollectPc < Len(packet.code)
    <3>1. ins.o2 \in Nat /\ pc \in Nat /\ Len(packet.code) \in Nat
      BY <2>1, CurrentInstruction DEF Fetched, IInv
    <3>2. QED
      BY <2>1, <3>1 DEF CollectPc
  <2>3. QED
    BY <2>1, <2>2, EmptyHarmless, PushHarmless
<1>3. QED
  BY <1>1, <1>2

LEMMA CollectSpares ==
  ASSUME IInv, MInv, MInv', SInv, Ranked(mem), NEW own, Holding(own),
         \A g \in Int : Holder(g) => Outside(Block(own, val, g)), IterCollect
  PROVE  Spares(own)
<1>1. Fetched("ITER_COLLECT") /\ (depth = 0 \/ IterAdvance \/ IterFinish)
  BY DEF IterCollect
<1>2. depth \in Nat \ {0} /\ depth \in 1 .. Len(frames)
  BY <1>1, TopSound
<1>3. PICK h \in Int : h = -depth /\ -h = depth
  BY <1>2
<1>4. Outside(Block(own, val, h))
  BY <1>2, <1>3 DEF Holder
<1>5. QED
  BY <1>1, <1>2, <1>3, <1>4, AdvanceHarmless, FinishLoopSpares, HarmlessSpares

------------------------------------------------------------------------------
LEMMA HolderNumber ==
  ASSUME IInv, Containers
  PROVE  d \in Int
<1>1. \E op : Fetched(op)
  BY Zenon DEF Containers, RecordNew, ListNew, RecordSet, RecordSetC, ListAppend,
               RecordGet, RecordGetC, RecordHas, ListGet, ListLength, RecordNewSetC
<1>2. pc + 1 \in DOMAIN packet.code /\ ins = packet.code[pc + 1]
  BY <1>1, CurrentInstruction DEF Fetched
<1>3. ins \in Instruction
  BY <1>2 DEF IInv
<1>4. QED
  BY <1>3 DEF Instruction, d

(* A step leads nothing new into a container under construction.           *)
LEMMA NextSpares ==
  ASSUME IInv, MInv, MInv', WInv, SInv, Ranked(mem), NEW own, Holding(own),
         \A g \in Int : Holder(g) => Outside(Block(own, val, g)), [Next]_vars
  PROVE  Spares(own)
<1>1. CASE Scalars
  BY <1>1, ScalarsHarmless, HarmlessSpares
<1>2. CASE External
  BY <1>2, ExternalHarmless, HarmlessSpares
<1>3. CASE Jumping \/ Coalesce \/ UnknownOpcode \/ Finish
  BY <1>3, JumpingHarmless, HarmlessSpares
<1>4. CASE Containers
  <2>1. Holder(d) => Outside(Block(own, val, d))
    BY <1>4, HolderNumber
  <2>2. QED
    BY <1>4, <2>1, ContainersHarmless, HarmlessSpares
<1>5. CASE IterSetup
  BY <1>5, SetupHarmless, HarmlessSpares
<1>6. CASE IterCollect
  BY <1>6, CollectSpares
<1>7. CASE UNCHANGED vars
  BY <1>7, SameHarmless, HarmlessSpares DEF vars
<1>8. QED
  BY <1>1, <1>2, <1>3, <1>4, <1>5, <1>6, <1>7 DEF Next, Control, Jumping

(* A step changes no cell but those of one construction: its slot is the   *)
(* one its instruction names, or it is a frame.                            *)
ChangesOne(own) ==
  \/ Changes({})
  \/ \E h \in Int : /\ Holder(h) /\ (h \in Slots => h = d)
                    /\ Changes(Block(own, val, h))

LEMMA ExtendsChanges == ASSUME Extends, NEW own PROVE ChangesOne(own)
  BY DEF Extends, Changes, ChangesOne

LEMMA AddedExtends ==
  ASSUME MInv, NEW c, mem' = Append(mem, c)
  PROVE  Extends
<1>1. IsSequence(mem) /\ Len(mem) \in Nat
  BY MemorySize DEF MInv, IsMemory
<1>2. Len(mem') = Len(mem) + 1 /\ \A a \in 1 .. Len(mem) : mem'[a] = mem[a]
  BY <1>1, AppendAny
<1>3. QED
  BY <1>1, <1>2 DEF Extends

LEMMA ContainersChange ==
  ASSUME IInv, MInv, MInv', WInv, Ranked(mem), NEW own, Holding(own),
         Holder(d) => Outside(Block(own, val, d)), Containers
  PROVE  ChangesOne(own)
<1>1. CASE Calm
  BY <1>1, ExtendsChanges DEF Calm
<1>2. CASE RecordNew \/ ListNew
  BY <1>2, AddedExtends, ExtendsChanges DEF RecordNew, ListNew, NewContainer
<1>3. CASE RecordNewSetC /\ ~Fail
  <2>1. PICK f, r : mem' = mem \o <<f, r>>
    BY <1>3 DEF RecordNewSetC
  <2>2. PICK cells : cells = <<f, r>>
    OBVIOUS
  <2>3. mem' = mem \o cells /\ cells \in Seq({f, r})
    BY <2>1, <2>2
  <2>4. IsSequence(mem) /\ IsSequence(cells) /\ Len(mem) \in Nat /\ Len(cells) \in Nat
    BY <2>3, MemorySize DEF MInv, IsMemory, IsSequence
  <2>5. /\ Len(mem') = Len(mem) + Len(cells)
        /\ \A a \in 1 .. Len(mem) : mem'[a] = mem[a]
    BY <2>3, <2>4, ConcatFact
  <2>6. Extends
    BY <2>4, <2>5 DEF Extends
  <2>7. QED
    BY <2>6, ExtendsChanges
<1>4. CASE RecordSet \/ RecordSetC \/ ListAppend
  <2>1. Changes({}) \/ (Holder(d) /\ Changes(Block(own, val, d)))
    BY <1>4, ChangedHarmless
  <2>2. d \in Int
    BY HolderNumber
  <2>3. QED
    BY <2>1, <2>2 DEF ChangesOne
<1>5. QED
  BY <1>1, <1>2, <1>3, <1>4, ContainersCalm DEF Changing

LEMMA CollectChanges ==
  ASSUME IInv, MInv, NEW own, Holding(own), IterCollect
  PROVE  ChangesOne(own)
<1>1. Fetched("ITER_COLLECT") /\ (depth = 0 \/ IterAdvance \/ IterFinish)
  BY DEF IterCollect
<1>2. PICK linked : linked = LinkCollected(mem \o Collected)
  OBVIOUS
<1>3. PICK h \in Int :
        /\ h = -depth /\ h < 0 /\ depth \in Nat \ {0} /\ depth = Len(frames)
        /\ IsMemory(linked) /\ Len(linked) \in Nat /\ Len(mem) <= Len(linked)
        /\ \A a \in 1 .. Len(mem) : a \notin own[h] => linked[a] = mem[a]
  BY <1>1, <1>2, Collecting
<1>4. mem' = linked \/ \E c : mem' = Append(linked, c)
  BY <1>1, <1>2, <1>3 DEF IterAdvance, IterFinish
<1>5. Len(mem) \in Nat /\ \A a \in 1 .. Len(mem) : a \in 1 .. Len(linked)
  BY <1>3, Places
<1>6. /\ Len(linked) <= Len(mem') /\ Len(mem') \in Nat
      /\ \A a \in 1 .. Len(linked) : mem'[a] = linked[a]
  <2>1. CASE mem' = linked
    BY <1>3, <2>1
  <2>2. ASSUME NEW c, mem' = Append(linked, c)
        PROVE  /\ Len(linked) <= Len(mem') /\ Len(mem') \in Nat
               /\ \A a \in 1 .. Len(linked) : mem'[a] = linked[a]
    <3>1. Len(mem') = Len(linked) + 1 /\ \A a \in 1 .. Len(linked) : mem'[a] = linked[a]
      BY <1>3, <2>2, AppendAny DEF IsMemory
    <3>2. QED
      BY <1>3, <3>1
  <2>3. QED
    BY <1>4, <2>1, <2>2
<1>7. h \notin Slots /\ -h \in 1 .. Len(frames)
  BY <1>3, Places
<1>8. Block(own, val, h) = own[h]
  BY <1>7 DEF Block
<1>9. Changes(Block(own, val, h))
  BY <1>3, <1>5, <1>6, <1>8 DEF Changes
<1>10. QED
  BY <1>7, <1>9 DEF ChangesOne, Holder

LEMMA NextChanges ==
  ASSUME IInv, MInv, MInv', WInv, Ranked(mem), NEW own, Holding(own),
         \A g \in Int : Holder(g) => Outside(Block(own, val, g)), [Next]_vars
  PROVE  ChangesOne(own)
<1> USE ExtendsChanges
<1>1. CASE Scalars
  BY <1>1, ScalarsCalm DEF Calm
<1>2. CASE External
  BY <1>2, ExternalCalm DEF Calm
<1>3. CASE Jumping \/ Coalesce \/ UnknownOpcode
  BY <1>3, JumpingCalm DEF Calm
<1>4. CASE Containers
  <2>1. Holder(d) => Outside(Block(own, val, d))
    BY <1>4, HolderNumber
  <2>2. QED
    BY <1>4, <2>1, ContainersChange
<1>5. CASE IterSetup
  <2>1. mem' = mem \/ \E c : mem' = Append(mem, c)
    BY <1>5, Zenon DEF IterSetup, IterEmpty, IterPush, Fail
  <2>2. CASE mem' = mem
    BY <2>2, SameExtends
  <2>3. QED
    BY <2>1, <2>2, AddedExtends
<1>6. CASE IterCollect
  BY <1>6, CollectChanges
<1>7. CASE Finish \/ UNCHANGED vars
  BY <1>7, SameExtends DEF Finish, vars
<1>8. QED
  BY <1>1, <1>2, <1>3, <1>4, <1>5, <1>6, <1>7 DEF Next, Control, Jumping

LEMMA PacketStays ==
  ASSUME IInv, MInv, [Next]_vars PROVE UNCHANGED packet
<1>1. CASE Scalars \/ Containers \/ External \/ Jumping \/ Coalesce \/ UnknownOpcode
  <2>1. Moves
    BY <1>1, ScalarsMove, ContainersMove, ExternalMoves, JumpingMoves
  <2>2. QED
    BY <2>1 DEF Moves, Stays, Advance, Jumped
<1>2. CASE IterSetup
  BY <1>2, Zenon DEF IterSetup, IterEmpty, IterPush, Fail
<1>3. CASE IterCollect
  <2>1. depth # 0
    BY <1>3, TopSound DEF IterCollect
  <2>2. QED
    BY <1>3, <2>1 DEF IterCollect, IterAdvance, IterFinish
<1>4. CASE Finish \/ UNCHANGED vars
  BY <1>4 DEF Finish, vars
<1>5. QED
  BY <1>1, <1>2, <1>3, <1>4 DEF Next, Control, Jumping

------------------------------------------------------------------------------
(* Nothing but its holder leads to a construction.                         *)
Hidden(B, h) ==
  /\ Sealed(mem, B)
  /\ \A t \in Slots : t # h => val[t] \notin B
  /\ \A i \in 1 .. Len(frames) : frames[i].nextElem \notin B

Guarded(own) == \A h \in Int : Holder(h) => Hidden(Block(own, val, h), h)

(* Nor does an instruction read it while it is built.                      *)
LEMMA GuardedOutside ==
  ASSUME IInv, MInv, UnreadWhileBuilt(packet.code), NEW own, Holding(own), Guarded(own),
         NEW h \in Int, Holder(h)
  PROVE  Outside(Block(own, val, h))
<1> DEFINE code == packet.code
<1>1. PICK B : B = Block(own, val, h)
  OBVIOUS
<1>2. Hidden(B, h)
  BY <1>1 DEF Guarded
<1>3. h \in Slots => Under(h)
  <2>1. h \in Slots => ~(-h \in 1 .. Len(frames))
    BY Places
  <2>2. QED
    BY <2>1 DEF Holder
<1>4. B \subseteq ValNothing + 1 .. Len(mem)
  BY <1>1, <1>3 DEF Block, Holding
<1>5. ASSUME NEW s \in Slots, Reading(s) PROVE val[s] \notin B
  <2>1. CASE s # h
    BY <1>2, <2>1 DEF Hidden
  <2>2. CASE s = h
    <3>1. PICK c, i \in DOMAIN code :
            c < i /\ Builds(code, c, i) /\ code[i].dest = h /\ pc + 1 \in c + 1 .. i
      BY <1>3, <2>2 DEF Under, Within
    <3>2. /\ \A k \in c + 1 .. i : h \notin Operands(code[k])
          /\ \A k \in Setups(code) :
               k \in c + 1 .. i \/ k + 1 + code[k].o2 \in c + 1 .. i =>
                 h \notin CollectReads(code[k], code[k + 1 + code[k].o2])
      BY <3>1 DEF UnreadWhileBuilt
    <3>3. h \notin Operands(ins)
      BY <3>1, <3>2 DEF ins
    <3>4. QED
      BY <1>5, <2>2, <3>1, <3>2, <3>3 DEF Reading
  <2>3. QED
    BY <2>1, <2>2
<1>6. QED
  BY <1>1, <1>2, <1>4, <1>5 DEF Outside, Hidden

LEMMA GuardedAgain ==
  ASSUME MInv, MInv', UNCHANGED packet, NEW own, Holding(own), Guarded(own), Spares(own),
         \A g \in Int : Holder(g) => Outside(Block(own, val, g)),
         NEW kept, NEW h \in Int, Carried(own, kept, h)
  PROVE  Guarded(kept)'
<1>1. Slots' = Slots /\ Len(mem) \in Nat /\ \A s \in Slots : s \in Int /\ s >= 0
  BY Places DEF Slots
<1> SUFFICES ASSUME NEW g \in Int, Holder(g)' PROVE Hidden(Block(kept, val, g), g)'
  BY DEF Guarded
<1>2. CASE g # h
  <2>1. kept[g] = own[g]
    BY <1>2 DEF Carried
  <2>2. /\ Holder(g)
        /\ g \in Slots => val'[g] = val[g]
    <3>1. CASE g \in Slots
      <4>1. Under(g)'
        <5>1. ~(-g \in 1 .. Len(frames'))
          BY <1>1, <3>1
        <5>2. QED
          BY <5>1 DEF Holder
      <4>2. QED
        BY <1>2, <3>1, <4>1 DEF Carried, Holder
    <3>2. CASE g \notin Slots
      <4>1. -g \in 1 .. Len(frames')
        BY <1>1, <3>2 DEF Holder
      <4>2. PICK i \in 1 .. Len(frames') : i = -g /\ -i = g
        BY <4>1
      <4>3. i \in 1 .. Len(frames)
        BY <1>2, <4>2 DEF Carried
      <4>4. QED
        BY <3>2, <4>2, <4>3 DEF Holder
    <3>3. QED
      BY <3>1, <3>2
  <2>3. PICK B : B = Block(own, val, g)
    OBVIOUS
  <2>4. Block(kept, val', g) = B
    BY <2>1, <2>2, <2>3 DEF Block
  <2>5. Hidden(B, g) /\ Spared(B)
    BY <2>2, <2>3 DEF Guarded, Spares
  <2>6. Hidden(B, g)'
    BY <1>1, <2>5 DEF Hidden, Spared
  <2>7. Block(kept, val, g)' = B
    BY <1>1, <2>4 DEF Block
  <2>8. QED
    BY <2>6, <2>7
<1>3. CASE g = h
  <2>1. Grows(own, kept, h)
    BY <1>3 DEF Carried
  <2>2. PICK B \in {{}, Block(own, val, h)} :
          /\ B # {} => Holder(h)
          /\ Block(kept, val', h) = B \cup (Len(mem) + 1 .. Len(mem'))
          /\ \A a \in 1 .. Len(mem) : a \notin B => mem'[a] = mem[a]
    BY <2>1 DEF Grows
  <2>3. Hidden(B, h) /\ (B # {} => Spared(B))
    <3>1. CASE B = {}
      BY <3>1 DEF Hidden, Sealed
    <3>2. CASE B # {}
      BY <1>3, <2>2, <3>2 DEF Guarded, Spares
    <3>3. QED
      BY <3>1, <3>2
  <2>4. PICK K : K = B \cup (Len(mem) + 1 .. Len(mem'))
    OBVIOUS
  <2>5. \A x \in 0 .. Len(mem) : x \in K => x \in B
    BY <1>1, <2>4
  <2>6. Sealed(mem', K)
    <3> SUFFICES ASSUME NEW a \in 1 .. Len(mem'), a \notin K
                 PROVE  mem'[a].head \notin K /\ mem'[a].next \notin K
      BY DEF Sealed
    <3>1. a \in 1 .. Len(mem) /\ a \notin B
      <4>1. a \notin Len(mem) + 1 .. Len(mem') /\ a \notin B
        BY <2>4
      <4>2. QED
        BY <1>1, <4>1
    <3>2. mem'[a] = mem[a] /\ mem[a].head \notin B /\ mem[a].next \notin B
      BY <2>2, <2>3, <3>1 DEF Hidden, Sealed
    <3>3. mem[a].head \in 0 .. Len(mem) /\ mem[a].next \in 0 .. Len(mem)
      BY <3>1, CellFact DEF MInv
    <3>4. QED
      BY <2>5, <3>2, <3>3
  <2>7. \A t \in Slots : t # h => val'[t] \notin K
    <3> SUFFICES ASSUME NEW t \in Slots, t # h PROVE val'[t] \notin K
      OBVIOUS
    <3>1. val'[t] \in 0 .. Len(mem)
      BY <2>1 DEF Grows
    <3>2. val'[t] \notin B
      BY <2>3 DEF Hidden, Spared
    <3>3. QED
      BY <2>5, <3>1, <3>2
  <2>8. \A i \in 1 .. Len(frames') : frames'[i].nextElem \notin K
    <3> SUFFICES ASSUME NEW i \in 1 .. Len(frames') PROVE frames'[i].nextElem \notin K
      OBVIOUS
    <3>1. frames'[i].nextElem \in 0 .. Len(mem)
      BY <2>1 DEF Grows
    <3>2. frames'[i].nextElem \notin B
      BY <2>3 DEF Spared
    <3>3. QED
      BY <2>5, <3>1, <3>2
  <2>9. Hidden(K, h)'
    BY <1>1, <2>6, <2>7, <2>8 DEF Hidden
  <2>10. Block(kept, val, h)' = K
    BY <1>1, <2>2, <2>4 DEF Block
  <2>11. QED
    BY <1>3, <2>9, <2>10
<1>4. QED
  BY <1>2, <1>3

------------------------------------------------------------------------------
(* No value contains itself, and nothing but its holder leads to what is   *)
(* being built.                                                            *)
GInv ==
  /\ UnreadWhileBuilt(packet.code) /\ Ranked(mem)
  /\ \E own : Holding(own) /\ Guarded(own)

LEMMA ThreeRanked ==
  ASSUME NEW m, IsMemory(m), Ranked(m), NEW t, NEW f, NEW x,
         NEW k, k = m \o <<t, f, x>>, IsMemory(k),
         \A c \in {t, f, x} : c.head = NULL /\ c.next = NULL
  PROVE  Ranked(k)
<1>1. PICK cells : cells = <<t, f, x>>
  OBVIOUS
<1>2. cells \in Seq({t, f, x}) /\ Len(cells) = 3 /\ \A i \in 1 .. 3 : cells[i] \in {t, f, x}
  BY <1>1
<1>3. IsSequence(cells) /\ IsSequence(m) /\ Len(m) \in Nat /\ k = m \o cells
  BY <1>1, <1>2, SequenceFact DEF IsSequence, IsMemory
<1>4. /\ Len(k) = Len(m) + Len(cells)
      /\ \A i \in 1 .. Len(cells) : k[Len(m) + i] = cells[i]
  BY <1>3, ConcatFact
<1>5. Fit(m, cells)
  <2>1. \A i \in 1 .. Len(cells) : Len(m) + i \in 1 .. Len(k)
    BY <1>2, <1>3, <1>4
  <2>2. \A i \in 1 .. Len(cells) : CellAt(k[Len(m) + i], Len(m) + i, Len(k))
    BY <2>1 DEF IsMemory
  <2>3. QED
    BY <1>3, <1>4, <2>2 DEF Fit
<1>6. Layered(m, cells)
  <2>1. PICK lay : lay = [i \in 1 .. Len(cells) |-> 1]
    OBVIOUS
  <2>2. lay \in [1 .. Len(cells) -> 1 .. 3]
    BY <2>1
  <2>3. \A i \in 1 .. Len(cells) : cells[i].head \in 0 .. Len(m) /\ cells[i].next = NULL
    BY <1>2, <1>3 DEF NULL
  <2>4. QED
    BY <2>2, <2>3 DEF Layered
<1>7. QED
  BY <1>3, <1>5, <1>6, LayeredRanked

LEMMA InitGInv ==
  ASSUME \A p \in Packets : WellFormed(p) /\ AppendsToOwn(p.code)
                            /\ UnreadWhileBuilt(p.code) /\ Ranked(p.mem),
         Init
  PROVE  GInv
<1>1. PICK p \in Packets : Load(p)
  BY DEF Init
<1>2. IInv /\ MInv /\ WInv
  BY InitIInv, InitMInv, InitWInv
<1>3. /\ packet = p /\ LoadedSound(p) /\ UnreadWhileBuilt(p.code) /\ Ranked(p.mem)
      /\ mem = p.mem \o <<BooleanCell(TRUE), BooleanCell(FALSE), NothingCell>>
      /\ pc = 0 /\ frames = << >>
  BY <1>1 DEF Load, WellFormed
<1>4. Ranked(mem)
  <2>1. PICK m, t, f, x :
          m = p.mem /\ t = BooleanCell(TRUE) /\ f = BooleanCell(FALSE) /\ x = NothingCell
    OBVIOUS
  <2>2. /\ t.head = NULL /\ t.next = NULL /\ f.head = NULL /\ f.next = NULL
        /\ x.head = NULL /\ x.next = NULL
    BY <2>1 DEF BooleanCell, NothingCell, Cell
  <2>3. IsMemory(m)
    <3>1. PICK n : n = Len(m)
      OBVIOUS
    <3>2. m \in Seq(LoadedCell(n)) /\ \A a \in 1 .. n : m[a].next # NULL => m[a].next > a
      BY <1>3, <2>1, <3>1 DEF LoadedSound
    <3>3. QED
      BY <3>1, <3>2, LoadedCells
  <2>4. mem = m \o <<t, f, x>> /\ IsMemory(mem) /\ Ranked(m)
    BY <1>2, <1>3, <2>1 DEF MInv
  <2>5. QED
    BY <2>2, <2>3, <2>4, ThreeRanked
<1>5. \A h \in Int : ~Holder(h)
  <2>1. \A s : ~Under(s)
    <3>1. \A c \in DOMAIN packet.code : c \in Nat \ {0}
      BY <1>2, InstructionAt DEF IInv
    <3>2. \A c \in DOMAIN packet.code, i \in DOMAIN packet.code : 0 + 1 \notin c + 1 .. i
      BY <3>1
    <3>3. QED
      BY <1>3, <3>2 DEF Under, Within
  <2>2. Len(frames) = 0 /\ 1 .. 0 = {}
    BY <1>3
  <2>3. QED
    BY <2>1, <2>2 DEF Holder
<1>6. PICK own : Holding(own)
  BY <1>2 DEF WInv
<1>7. Guarded(own)
  BY <1>5 DEF Guarded
<1>8. QED
  BY <1>3, <1>4, <1>6, <1>7 DEF GInv

LEMMA NextGInv ==
  ASSUME IInv, MInv, MInv', WInv, SInv, GInv, [Next]_vars
  PROVE  GInv'
<1>1. PICK own : Holding(own) /\ Guarded(own)
  BY DEF GInv
<1>2. UnreadWhileBuilt(packet.code) /\ Ranked(mem)
  BY DEF GInv
<1>3. \A g \in Int : Holder(g) => Outside(Block(own, val, g))
  BY <1>1, <1>2, GuardedOutside
<1>4. Spares(own)
  BY <1>1, <1>2, <1>3, NextSpares
<1>5. Carries(own)
  BY <1>1, NextCarries
<1>6. PICK kept : \E h \in Int : Carried(own, kept, h)
  BY <1>5 DEF Carries
<1>7. PICK h \in Int : Carried(own, kept, h)
  BY <1>6
<1>8. UNCHANGED packet
  BY PacketStays
<1>9. Guarded(kept)'
  BY <1>1, <1>3, <1>4, <1>7, <1>8, GuardedAgain
<1>10. Holding(kept)' /\ Ranked(mem')
  BY <1>4, <1>7 DEF Carried, Spares
<1>11. QED
  BY <1>2, <1>8, <1>9, <1>10 DEF GInv

LEMMA NextUnseen ==
  ASSUME IInv, MInv, MInv', WInv, SInv, GInv, GInv', [Next]_vars
  PROVE  \A i \in Slots \ {ins.dest} : Reify(mem', val[i]) = Reify(mem, val[i])
<1>1. PICK own : Holding(own) /\ Guarded(own)
  BY DEF GInv
<1>2. UnreadWhileBuilt(packet.code) /\ Ranked(mem) /\ Ranked(mem')
  BY DEF GInv
<1>3. \A g \in Int : Holder(g) => Outside(Block(own, val, g))
  BY <1>1, <1>2, GuardedOutside
<1>4. IsMemory(mem) /\ IsMemory(mem') /\ Len(mem) \in Nat
  BY Places DEF MInv
<1>5. ChangesOne(own)
  BY <1>1, <1>2, <1>3, NextChanges
<1>6. \E B : Changes(B) /\ Sealed(mem, B) /\ \A t \in Slots \ {ins.dest} : val[t] \notin B
  <2>1. CASE Changes({})
    BY <2>1 DEF Sealed
  <2>2. CASE \E h \in Int : /\ Holder(h) /\ (h \in Slots => h = d)
                            /\ Changes(Block(own, val, h))
    <3>1. PICK h \in Int : /\ Holder(h) /\ (h \in Slots => h = d)
                           /\ Changes(Block(own, val, h))
      BY <2>2
    <3>2. PICK B : B = Block(own, val, h)
      OBVIOUS
    <3>3. Hidden(B, h) /\ Changes(B)
      BY <1>1, <3>1, <3>2 DEF Guarded
    <3>4. QED
      BY <3>1, <3>3 DEF Hidden, d
  <2>3. QED
    BY <1>5, <2>1, <2>2 DEF ChangesOne
<1>7. PICK B : Changes(B) /\ Sealed(mem, B) /\ \A t \in Slots \ {ins.dest} : val[t] \notin B
  BY <1>6
<1>8. PICK D : D = (1 .. Len(mem)) \ B
  OBVIOUS
<1>9. \A x \in 0 .. Len(mem) : x \notin B => x \in D \cup {NULL}
  BY <1>4, <1>8 DEF NULL
<1>10. SameCells(mem, mem', D)
  <2>1. ASSUME NEW x \in D
        PROVE  /\ mem[x].head \in D \cup {NULL} /\ mem[x].next \in D \cup {NULL}
               /\ mem'[x] = mem[x]
    <3>1. x \in 1 .. Len(mem) /\ x \notin B
      BY <1>8
    <3>2. /\ mem[x].head \in 0 .. Len(mem) /\ mem[x].next \in 0 .. Len(mem)
          /\ mem[x].head \notin B /\ mem[x].next \notin B
      BY <1>4, <1>7, <3>1, CellFact DEF Sealed
    <3>3. QED
      BY <1>7, <1>9, <3>1, <3>2 DEF Changes
  <2>2. QED
    BY <1>7, <1>8, <2>1 DEF SameCells, Changes
<1>11. ASSUME NEW i \in Slots \ {ins.dest}
       PROVE  Reify(mem', val[i]) = Reify(mem, val[i])
  <2>1. PICK a : a = val[i]
    OBVIOUS
  <2>2. a \in D \cup {NULL}
    BY <1>7, <1>9, <2>1, SlotHolds
  <2>3. Reify(mem', a) = Reify(mem, a)
    BY <1>2, <1>4, <1>10, <2>2, ReifyKept
  <2>4. QED
    BY <2>1, <2>3
<1>12. QED
  BY <1>11

(* RECORD_SET and LIST_APPEND of vm_execute link cells into containers     *)
(* that stand in slots, and COPY and the library share cells: still, in    *)
(* every run of packets that append only to what they made and read it     *)
(* only when it is complete, a step that writes to a cell changes the      *)
(* value of no slot but the one its instruction names.                     *)
THEOREM AppendsUnseen ==
  ASSUME \A p \in Packets : /\ WellFormed(p) /\ AppendsToOwn(p.code)
                            /\ UnreadWhileBuilt(p.code)
                            /\ Readable(p) /\ Ranked(p.mem)
  PROVE  Spec => NoAliasing
<1>1. Init => IInv /\ MInv /\ WInv /\ SInv /\ GInv
  BY InitIInv, InitMInv, InitWInv, InitSInv, InitGInv
<1>2. IInv /\ MInv /\ WInv /\ SInv /\ GInv /\ [Next]_vars
        => IInv' /\ MInv' /\ WInv' /\ SInv' /\ GInv'
  BY NextIInv, NextMInv, NextWInv, NextSInv, NextGInv
<1>3. IInv /\ MInv /\ WInv /\ SInv /\ GInv /\ [Next]_vars
        => [\/ SubSeq(mem', 1, Len(mem)) = mem
            \/ \A i \in Slots \ {ins.dest} :
                 Reify(mem', val[i]) = Reify(mem, val[i])]_vars
  BY <1>2, NextUnseen
<1>4. QED
  BY <1>1, <1>2, <1>3, PTL DEF Spec, NoAliasing
===============================================================================
