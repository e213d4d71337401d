------------------------------- MODULE HelunaVm -------------------------------
(***************************************************************************)
(* The execution engine of src/src/vm.c: vm_execute running one packet.    *)
(* A step is one turn of its loop.  The heap is modelled down to the HVal  *)
(* and HField cells and their next pointers, because the machine builds    *)
(* records and lists in place, shares what it copies, and keeps one tail   *)
(* pointer per scratchpad slot.                                            *)
(*                                                                         *)
(* An instruction is [op, dest, o1, o2, tmode, mode]: the opcode, its      *)
(* three operands and the two fields of the flags byte the machine reads.  *)
(* Slots, program counters and constant indices start at 0 as in C.        *)
(***************************************************************************)
EXTENDS HelunaHeap

CONSTANTS
  Packets,          \* the runs: a loaded packet together with its input
  MaxIterDepth,     \* VM_MAX_ITER_DEPTH
  MaxTag,           \* bound: the highest tag bit in use
  StdlibResults     \* outcomes of a standard library function (external)

ASSUME DepthAssumption == MaxIterDepth \in Nat

VARIABLES
  packet,   \* the packet and the input record it is run on
  mem,      \* the arena: every HVal and HField made so far
  val,      \* scratchpad[i].value
  tags,     \* scratchpad[i].tags, as the set of its bits
  tail,     \* slot_tails[i]: one union of a list and a record tail
  pc,
  frames,   \* iter_stack[0 .. iter_depth - 1]
  result,   \* result_slot
  status    \* "running", "done", or "error" once vm_error was called

vars == <<packet, mem, val, tags, tail, pc, frames, result, status>>

TagBits == 0 .. MaxTag

(* A packet: code, constants (addresses of preloaded cells), sources (the  *)
(* list a lookup searches, NULL when its file cannot be read, and the key  *)
(* field), scratchpad size, declared inputs and number of outputs.  given  *)
(* says whether the input is a record at all; each input is the address of *)
(* its value (NULL when the field is missing) and its declared tags.       *)
Max2(a, b) == IF a > b THEN a ELSE b

SlotCount(p) ==
  Max2(1, Max2(p.scratchpadSize, Len(p.inputs) + p.outputCount))
Slots == 0 .. SlotCount(packet) - 1

(* The singletons follow the preloaded cells.                              *)
ValTrue    == Len(packet.mem) + 1
ValFalse   == Len(packet.mem) + 2
ValNothing == Len(packet.mem) + 3
Boolean(b) == IF b THEN ValTrue ELSE ValFalse

Load(p) ==
  /\ packet = p
  /\ mem = p.mem \o <<BooleanCell(TRUE), BooleanCell(FALSE), NothingCell>>
  /\ val = [i \in 0 .. SlotCount(p) - 1 |->
              IF ~p.given \/ i >= Len(p.inputs) THEN NULL
              ELSE IF p.inputs[i + 1].value = NULL THEN Len(p.mem) + 3
              ELSE p.inputs[i + 1].value]
  /\ tags = [i \in 0 .. SlotCount(p) - 1 |->
              IF ~p.given \/ i >= Len(p.inputs) THEN {}
              ELSE p.inputs[i + 1].tags]
  /\ tail = [i \in 0 .. SlotCount(p) - 1 |-> NULL]
  /\ pc = 0
  /\ frames = << >>
  /\ result = 0
  /\ status = "running"

Init == \E p \in Packets : Load(p)

------------------------------------------------------------------------------
ins == packet.code[pc + 1]
d   == ins.dest

Fetched(op) ==
  status = "running" /\ pc < Len(packet.code) /\ ins.op = op

V1 == val[ins.o1]
V2 == val[ins.o2]

Constant(i) == IF i < Len(packet.consts) THEN packet.consts[i + 1] ELSE NULL

BitsOf(n) == {b \in TagBits : (n \div 2^b) % 2 = 1}

ConstantBits(i) ==
  IF KindAt(mem, Constant(i)) = "integer" THEN BitsOf(mem[Constant(i)].n) ELSE {}

(* propagate_tags on a slot whose tags have just been reset.               *)
Propagated(operandTags) ==
  CASE ins.tmode = "propagate" -> operandTags
    [] ins.tmode = "clear"     -> {}
    [] ins.tmode = "set"       -> ConstantBits(ins.o2)
    [] OTHER                   -> {}

Assign(slot, a, t) ==
  /\ val' = [val EXCEPT ![slot] = a]
  /\ tags' = [tags EXCEPT ![slot] = t]
  /\ result' = slot

(* The instruction writes a pointer to its destination, or a new cell.     *)
Point(a, t) ==
  /\ Assign(d, a, t)
  /\ pc' = pc + 1
  /\ UNCHANGED <<packet, mem, tail, frames, status>>

Store(cell, t) ==
  /\ mem' = Append(mem, cell)
  /\ Assign(d, Len(mem) + 1, t)
  /\ pc' = pc + 1
  /\ UNCHANGED <<packet, tail, frames, status>>

Goto(target) ==
  /\ pc' = target
  /\ UNCHANGED <<packet, mem, val, tags, tail, frames, result, status>>

Fail ==
  /\ status' = "error"
  /\ UNCHANGED <<packet, mem, val, tags, tail, pc, frames, result>>

------------------------------------------------------------------------------
LoadConst ==
  /\ Fetched("LOAD_CONST")
  /\ IF ins.o1 >= Len(packet.consts) THEN Fail ELSE Point(Constant(ins.o1), {})

LoadField   == Fetched("LOAD_FIELD") /\ Point(V1, tags[ins.o1])
LoadNothing == Fetched("LOAD_NOTHING") /\ Point(ValNothing, {})
Copy        == Fetched("COPY") /\ Point(V1, tags[ins.o1])

(* A faulty variant: the second operand's tags are forgotten.              *)
FirstTags == tags[ins.o1]

OperandTags == tags[ins.o1] \cup tags[ins.o2]

ArithmeticStep ==
  \E op \in {"ADD", "SUB", "MUL", "DIV", "MOD"} :
    /\ Fetched(op)
    /\ IF V1 = NULL \/ V2 = NULL THEN Fail
       ELSE IF ArithmeticFails(op, mem[V1], mem[V2]) THEN Fail
       ELSE Store(Arithmetic(op, mem[V1], mem[V2]), Propagated(OperandTags))

Negate ==
  /\ Fetched("NEGATE")
  /\ IF V1 = NULL THEN Fail
     ELSE IF ~IsNumber(mem[V1]) THEN Fail
     ELSE Store(Cell(mem[V1].kind, -mem[V1].n, "", NULL), tags[ins.o1])

Equality ==
  \/ Fetched("EQ")  /\ Point(Boolean(HvalEqual(mem, V1, V2)), {})
  \/ Fetched("NEQ") /\ Point(Boolean(~HvalEqual(mem, V1, V2)), {})

Ordering ==
  \E op \in {"LT", "GT", "LTE", "GTE"} :
    /\ Fetched(op)
    /\ IF V1 = NULL \/ V2 = NULL THEN Fail
       ELSE IF ~Comparable(mem[V1], mem[V2]) THEN Fail
       ELSE Point(Boolean(Holds(op, mem[V1], mem[V2])), {})

Connective ==
  \E op \in {"AND", "OR"} :
    /\ Fetched(op)
    /\ IF KindAt(mem, V1) # "boolean" \/ KindAt(mem, V2) # "boolean" THEN Fail
       ELSE LET p == IsTrue(mem, V1)  q == IsTrue(mem, V2)
            IN  Point(Boolean(IF op = "AND" THEN p /\ q ELSE p \/ q), {})

Not ==
  /\ Fetched("NOT")
  /\ IF KindAt(mem, V1) # "boolean" THEN Fail
     ELSE Point(Boolean(~IsTrue(mem, V1)), {})

StrConcat ==
  /\ Fetched("STR_CONCAT")
  /\ Store(StringCell(ValToStr(mem, V1) \o ValToStr(mem, V2)),
           Propagated(OperandTags))

(* IS_NOTHING also holds of a slot that was never written.                 *)
TypeTests ==
  [IS_STRING |-> {"string"}, IS_INT |-> {"integer"}, IS_FLOAT |-> {"float"},
   IS_BOOL |-> {"boolean"}, IS_NOTHING |-> {"nothing", "null"},
   IS_LIST |-> {"list"}, IS_RECORD |-> {"record"}]

TypeTest ==
  \E op \in DOMAIN TypeTests :
    Fetched(op) /\ Point(Boolean(KindAt(mem, V1) \in TypeTests[op]), {})

ToStringOp ==
  Fetched("TO_STRING") /\ Store(StringCell(ValToStr(mem, V1)), tags[ins.o1])

ToInt ==
  /\ Fetched("TO_INT")
  /\ LET k == KindAt(mem, V1) IN
     IF k \notin {"integer", "float", "string", "boolean"} THEN Fail
     ELSE Store(IntegerCell(
                  CASE k = "float"  -> CDiv(mem[V1].n, 2)
                    [] k = "string" -> ParseInteger(mem[V1].s)
                    [] OTHER        -> mem[V1].n), tags[ins.o1])

ToFloat ==
  /\ Fetched("TO_FLOAT")
  /\ LET k == KindAt(mem, V1) IN
     IF k \notin {"integer", "float", "string"} THEN Fail
     ELSE Store(FloatCell(IF k = "string" THEN ParseHalves(mem[V1].s)
                                          ELSE ToDouble(mem[V1])), tags[ins.o1])

ToBool ==
  /\ Fetched("TO_BOOL")
  /\ LET k == KindAt(mem, V1)
         b == CASE k \in {"integer", "float", "boolean"} -> mem[V1].n # 0
                [] k = "string"             -> mem[V1].s # ""
                [] k \in {"null", "nothing"} -> FALSE
                [] OTHER                    -> TRUE
     IN  Point(Boolean(b), {})

------------------------------------------------------------------------------
(* Records and lists.  New, empty ones forget the slot's tail pointer.     *)
(* Faulty variants: the tail pointer is kept, or a container the slot      *)
(* still holds is emptied and used again.                                  *)
NewContainerKeepsTail(cell) == Store(cell, {})

NewContainerRecycled(cell) ==
  LET again == KindAt(mem, val[d]) = cell.kind
      a     == IF again THEN val[d] ELSE Len(mem) + 1
  IN
  /\ mem' = IF again THEN [mem EXCEPT ![a].head = NULL] ELSE Append(mem, cell)
  /\ Assign(d, a, {})
  /\ tail' = [tail EXCEPT ![d] = NULL]
  /\ pc' = pc + 1
  /\ UNCHANGED <<packet, frames, status>>

NewContainer(cell) ==
  /\ mem' = Append(mem, cell)
  /\ Assign(d, Len(mem) + 1, {})
  /\ tail' = [tail EXCEPT ![d] = NULL]
  /\ pc' = pc + 1
  /\ UNCHANGED <<packet, frames, status>>

(* Link a fresh cell behind the container of slot d: after the slot's tail *)
(* pointer if it has one, as the head of an empty container, or after the  *)
(* last element, found by a walk.                                          *)
LinkFresh(cell) ==
  LET new   == Len(mem) + 1
      grown == Append(mem, cell)
      owner == val[d]
  IN
  /\ IF tail[d] # NULL
     THEN mem' = [grown EXCEPT ![tail[d]].next = new]
     ELSE IF mem[owner].head = NULL
     THEN mem' = [grown EXCEPT ![owner].head = new]
     ELSE \E last \in LastOf(mem, mem[owner].head) :
            mem' = [grown EXCEPT ![last].next = new]
  /\ tail' = [tail EXCEPT ![d] = new]

(* RECORD_SET with its key resolved: overwrite the field, or append one.   *)
SetField(name) ==
  LET existing == FieldNamed(mem, val[d], name) IN
  /\ \/ \E f \in existing :
          mem' = [mem EXCEPT ![f].head = V2] /\ UNCHANGED tail
     \/ existing = {} /\ LinkFresh(FieldCell(name, V2))
  /\ Assign(d, val[d], tags[d] \cup tags[ins.o2])
  /\ pc' = pc + 1
  /\ UNCHANGED <<packet, frames, status>>

GetField(key) ==
  LET found == IF KindAt(mem, key) = "string"
               THEN FieldNamed(mem, V1, mem[key].s) ELSE {}
  IN  \/ found = {} /\ Point(ValNothing, {})
      \/ \E f \in found : Point(mem[f].head, tags[ins.o1])

RecordNew == Fetched("RECORD_NEW") /\ NewContainer(RecordCell(NULL))

RecordSet ==
  /\ Fetched("RECORD_SET")
  /\ IF KindAt(mem, val[d]) # "record" \/ KindAt(mem, V1) # "string"
     THEN Fail ELSE SetField(mem[V1].s)

RecordGet == Fetched("RECORD_GET") /\ GetField(V2)

RecordHas ==
  /\ Fetched("RECORD_HAS")
  /\ Point(Boolean(/\ KindAt(mem, V2) = "string"
                   /\ FieldNamed(mem, V1, mem[V2].s) # {}), {})

ListNew == Fetched("LIST_NEW") /\ NewContainer(ListCell(NULL))

(* A faulty variant: the element itself is linked, not a copy of it.       *)
ListAppendShared ==
  /\ Fetched("LIST_APPEND")
  /\ mem' = IF tail[d] = NULL THEN [mem EXCEPT ![val[d]].head = V1]
            ELSE [mem EXCEPT ![tail[d]].next = V1]
  /\ tail' = [tail EXCEPT ![d] = V1]
  /\ Assign(d, val[d], tags[d] \cup tags[ins.o1])
  /\ pc' = pc + 1
  /\ UNCHANGED <<packet, frames, status>>

ListAppend ==
  /\ Fetched("LIST_APPEND")
  /\ IF KindAt(mem, val[d]) # "list" THEN Fail
     ELSE /\ LinkFresh(CopyCell(mem, V1))
          /\ Assign(d, val[d], tags[d] \cup tags[ins.o1])
          /\ pc' = pc + 1
          /\ UNCHANGED <<packet, frames, status>>

ListGet ==
  /\ Fetched("LIST_GET")
  /\ IF KindAt(mem, V1) # "list" \/ KindAt(mem, V2) # "integer" THEN Fail
     ELSE LET element == ElementAt(mem, V1, mem[V2].n)
          IN  \/ element = {} /\ Point(ValNothing, {})
              \/ \E e \in element : Point(e, tags[ins.o1])

ListLength ==
  /\ Fetched("LIST_LENGTH")
  /\ Store(IntegerCell(IF KindAt(mem, V1) = "list"
                       THEN Len(Members(mem, V1)) ELSE 0), {})

------------------------------------------------------------------------------
Jump == Fetched("JUMP") /\ Goto(d)

JumpIf == Fetched("JUMP_IF") /\ Goto(IF IsTrue(mem, V1) THEN d ELSE pc + 1)

JumpIfNot ==
  Fetched("JUMP_IF_NOT") /\ Goto(IF IsTrue(mem, V1) THEN pc + 1 ELSE d)

IsNothing(a) == KindAt(mem, a) \in {"null", "nothing"}

Coalesce ==
  /\ Fetched("COALESCE")
  /\ IF IsNothing(V1) THEN Point(V2, tags[ins.o2]) ELSE Point(V1, tags[ins.o1])

(* Iteration.  The body runs from the frame's bodyStart to the instruction *)
(* before ITER_COLLECT, once per element.                                  *)
CollectPc == pc + 1 + ins.o2
Collector == packet.code[CollectPc + 1]

(* An empty source: the result is the initial accumulator or an empty list *)
IterEmpty ==
  /\ IF ins.mode = "fold"
     THEN /\ Assign(Collector.dest, val[Collector.o1], {})
          /\ UNCHANGED mem
     ELSE /\ mem' = Append(mem, ListCell(NULL))
          /\ Assign(Collector.dest, Len(mem) + 1, {})
  /\ pc' = CollectPc + 1
  /\ UNCHANGED <<packet, tail, frames, status>>

IterPush ==
  LET first == mem[V1].head IN
  /\ frames' = Append(frames,
       [mode |-> ins.mode, nextElem |-> mem[first].next,
        elemSlot |-> d, sourceSlot |-> ins.o1,
        bodyStart |-> pc + 1, collectPc |-> CollectPc,
        resultDest |-> Collector.dest,
        slotA |-> Collector.o1, slotB |-> Collector.o2,
        head |-> NULL, last |-> NULL,
        acc |-> IF ins.mode = "fold" THEN val[Collector.o1] ELSE NULL])
  /\ val' = [val EXCEPT ![d] = first]
  /\ tags' = [tags EXCEPT ![d] = tags[ins.o1]]
  /\ pc' = pc + 1
  /\ UNCHANGED <<packet, mem, tail, result, status>>

(* A faulty variant: the depth of iter_stack is not checked.               *)
IterSetupUnbounded ==
  /\ Fetched("ITER_SETUP")
  /\ KindAt(mem, V1) = "list" /\ CollectPc < Len(packet.code)
  /\ IF mem[V1].head = NULL THEN IterEmpty ELSE IterPush

IterSetup ==
  /\ Fetched("ITER_SETUP")
  /\ IF KindAt(mem, V1) # "list" THEN Fail
     ELSE IF CollectPc >= Len(packet.code) THEN Fail
     ELSE IF Collector.op # "ITER_COLLECT" THEN Fail
     ELSE IF mem[V1].head = NULL THEN IterEmpty
     ELSE IF Len(frames) >= MaxIterDepth THEN Fail
     ELSE IterPush

depth == Len(frames)
top   == frames[depth]

(* The list cell this element adds: a copy of slot a (map), of slot b when *)
(* slot a is true (filter), or none.                                       *)
Collected ==
  CASE top.mode = "map"    -> <<CopyCell(mem, val[top.slotA])>>
    [] top.mode = "filter" ->
         IF IsTrue(mem, val[top.slotA])
         THEN <<CopyCell(mem, val[top.slotB])>> ELSE << >>
    [] OTHER -> << >>

(* The memory and the frame once the element's result is collected.        *)
LinkCollected(m) ==
  IF Collected = << >> \/ top.last = NULL THEN m
  ELSE [m EXCEPT ![top.last].next = Len(mem) + 1]

Gathered ==
  LET new == Len(mem) + 1 IN
  [top EXCEPT
     !.head = IF Collected # << >> /\ @ = NULL THEN new ELSE @,
     !.last = IF Collected # << >> THEN new ELSE @,
     !.acc  = IF top.mode = "fold" THEN val[top.slotA] ELSE @]

(* A faulty variant: the frame is read by value, and its updates are lost. *)
IterStuck ==
  /\ top.nextElem # NULL
  /\ val' = [val EXCEPT ![top.elemSlot] = top.nextElem]
  /\ tags' = [tags EXCEPT ![top.elemSlot] = tags[top.sourceSlot]]
  /\ pc' = top.bodyStart
  /\ UNCHANGED <<packet, mem, tail, frames, result, status>>

IterAdvance ==
  /\ top.nextElem # NULL
  /\ mem' = LinkCollected(mem \o Collected)
  /\ frames' = [frames EXCEPT ![depth] =
                  [Gathered EXCEPT !.nextElem = mem[top.nextElem].next]]
  /\ val' = [val EXCEPT ![top.elemSlot] = top.nextElem]
  /\ tags' = [tags EXCEPT ![top.elemSlot] = tags[top.sourceSlot]]
  /\ pc' = top.bodyStart
  /\ UNCHANGED <<packet, tail, result, status>>

(* A faulty variant: the frame stays on the stack.                         *)
IterUnpopped ==
  LET linked == LinkCollected(mem \o Collected) IN
  /\ top.nextElem = NULL
  /\ mem' = Append(linked, ListCell(Gathered.head))
  /\ Assign(top.resultDest, Len(linked) + 1, {})
  /\ pc' = pc + 1
  /\ UNCHANGED <<packet, tail, frames, status>>

(* The last element: pop the frame and store the result, with no tags.     *)
IterFinish ==
  LET linked == LinkCollected(mem \o Collected) IN
  /\ top.nextElem = NULL
  /\ frames' = SubSeq(frames, 1, depth - 1)
  /\ IF top.mode = "fold"
     THEN /\ mem' = linked
          /\ Assign(top.resultDest,
                    IF Gathered.acc = NULL THEN ValNothing ELSE Gathered.acc, {})
     ELSE /\ mem' = Append(linked, ListCell(Gathered.head))
          /\ Assign(top.resultDest, Len(linked) + 1, {})
  /\ pc' = pc + 1
  /\ UNCHANGED <<packet, tail, status>>

IterCollect ==
  /\ Fetched("ITER_COLLECT")
  /\ IF depth = 0 THEN Goto(pc + 1) ELSE IterAdvance \/ IterFinish

------------------------------------------------------------------------------
(* A field of a library function's argument record, which STDLIB_CALL_1    *)
(* builds around the one value of slot o2.                                 *)
Argument(name) ==
  IF ins.op = "STDLIB_CALL_1" THEN IF name = "value" THEN V2 ELSE NULL
  ELSE LET found == FieldNamed(mem, V2, name)
       IN  IF found = {} THEN NULL ELSE mem[CHOOSE f \in found : TRUE].head

Library == INSTANCE HelunaLibrary

Arguments == [name \in Library!ArgNames |-> Argument(name)]

Called(f) ==
  ins.o1 = Library!FunctionIds[f] /\ Library!ReadsAsNumbers(f, mem, Arguments)

(* A function adds cells of its own; its value is one of them, or one it   *)
(* was given.                                                              *)
Answer(r) ==
  /\ mem' = mem \o r.cells
  /\ Assign(d, r.at, Propagated(tags[ins.o2]))
  /\ pc' = pc + 1
  /\ UNCHANGED <<packet, tail, frames, status>>

CallFunction(f) ==
  \E results \in {Library!Call(f, mem, Arguments)} :
    \/ results = {} /\ Fail
    \/ \E r \in results : Answer(r)

(* Function 0 (a sanitizer) hands its argument through.  A function that   *)
(* is not modelled fails or makes a value.                                 *)
CallLibrary ==
  IF ins.o1 = 0
  THEN Point(IF V2 = NULL THEN ValNothing ELSE V2, Propagated(tags[ins.o2]))
  ELSE IF \E f \in DOMAIN Library!FunctionIds : Called(f)
  THEN \E f \in DOMAIN Library!FunctionIds : Called(f) /\ CallFunction(f)
  ELSE \/ "error" \in StdlibResults /\ Fail
       \/ \E n \in StdlibResults \ {"error"} :
            Store(StringCell(n), Propagated(tags[ins.o2]))

StdlibCall == Fetched("STDLIB_CALL") /\ CallLibrary

TagSet ==
  /\ Fetched("TAG_SET")
  /\ Point(val[d], tags[d] \cup ConstantBits(ins.o1))

TagCheck ==
  /\ Fetched("TAG_CHECK")
  /\ Point(Boolean(ConstantBits(ins.o2) \subseteq tags[ins.o1]), {})

(* record_string: the first string field of that name.                     *)
StringFields(a, name) ==
  IF KindAt(mem, a) # "record" THEN << >>
  ELSE SelectSeq(Members(mem, a),
         LAMBDA f : mem[f].s = name /\ KindAt(mem, mem[f].head) = "string")

KeyOf(a, name) ==
  LET fs == StringFields(a, name)
  IN  IF fs = << >> THEN << >> ELSE <<mem[mem[Head(fs)].head].s>>

(* resolve_file: the first item of the source's list with the same key.    *)
LookupIn(source) ==
  LET items == IF KindAt(mem, source.list) = "list"
               THEN Members(mem, source.list) ELSE << >>
      key   == KeyOf(V2, source.keyedBy)
      Match(i) == key # << >> /\ KeyOf(items[i], source.keyedBy) = key
  IN  {a \in Addr(mem) : \E i \in DOMAIN items :
         items[i] = a /\ Match(i) /\ \A j \in 1 .. i - 1 : ~Match(j)}

SourceLookup ==
  /\ Fetched("SOURCE_LOOKUP")
  /\ LET found == IF ins.o1 < Len(packet.sources)
                  THEN LookupIn(packet.sources[ins.o1 + 1]) ELSE {}
     IN  \/ found = {} /\ Point(ValNothing, {})
         \/ \E a \in found : Point(a, {})

------------------------------------------------------------------------------
(* Superinstructions: the key is a constant, or a test is fused with the   *)
(* jump that follows it.                                                   *)
RecordGetC == Fetched("RECORD_GET_C") /\ GetField(Constant(ins.o2))

RecordSetC ==
  /\ Fetched("RECORD_SET_C")
  /\ LET key == Constant(ins.o1) IN
     IF KindAt(mem, val[d]) # "record" \/ KindAt(mem, key) # "string"
     THEN Fail ELSE SetField(mem[key].s)

RecordNewSetC ==
  /\ Fetched("RECORD_NEW_SET_C")
  /\ LET key == Constant(ins.o1)
         nf  == Len(mem) + 1
     IN
     IF KindAt(mem, key) # "string" THEN Fail
     ELSE /\ mem' = mem \o <<FieldCell(mem[key].s, V2), RecordCell(nf)>>
          /\ Assign(d, nf + 1, tags[ins.o2])
          /\ tail' = [tail EXCEPT ![d] = nf]
          /\ pc' = pc + 1
          /\ UNCHANGED <<packet, frames, status>>

StdlibCall1 == Fetched("STDLIB_CALL_1") /\ CallLibrary

CmpJumpEqual ==
  \/ Fetched("CMP_JUMP_EQ")  /\ Goto(IF HvalEqual(mem, V1, V2) THEN pc + 1 ELSE d)
  \/ Fetched("CMP_JUMP_NEQ") /\ Goto(IF HvalEqual(mem, V1, V2) THEN d ELSE pc + 1)

JumpOps == [CMP_JUMP_LT |-> "LT", CMP_JUMP_GT |-> "GT",
            CMP_JUMP_LTE |-> "LTE", CMP_JUMP_GTE |-> "GTE"]

CmpJumpOrder ==
  \E op \in DOMAIN JumpOps :
    /\ Fetched(op)
    /\ IF V1 = NULL \/ V2 = NULL THEN Fail
       ELSE IF ~Comparable(mem[V1], mem[V2]) THEN Fail
       ELSE Goto(IF Holds(JumpOps[op], mem[V1], mem[V2]) THEN pc + 1 ELSE d)

IsNothingJump ==
  Fetched("IS_NOTHING_JUMP") /\ Goto(IF IsNothing(V1) THEN d ELSE pc + 1)

Opcodes ==
  {"LOAD_CONST", "LOAD_FIELD", "LOAD_NOTHING", "COPY", "ADD", "SUB", "MUL",
   "DIV", "MOD", "NEGATE", "EQ", "NEQ", "LT", "GT", "LTE", "GTE", "AND", "OR",
   "NOT", "STR_CONCAT", "TO_STRING", "TO_INT", "TO_FLOAT", "TO_BOOL",
   "RECORD_NEW", "RECORD_SET", "RECORD_GET", "RECORD_HAS", "LIST_NEW",
   "LIST_APPEND", "LIST_GET", "LIST_LENGTH", "JUMP", "JUMP_IF", "JUMP_IF_NOT",
   "COALESCE", "ITER_SETUP", "ITER_COLLECT", "STDLIB_CALL", "TAG_SET",
   "TAG_CHECK", "SOURCE_LOOKUP", "RECORD_GET_C", "RECORD_SET_C",
   "RECORD_NEW_SET_C", "STDLIB_CALL_1", "CMP_JUMP_EQ", "CMP_JUMP_NEQ",
   "IS_NOTHING_JUMP"} \cup DOMAIN TypeTests \cup DOMAIN JumpOps

UnknownOpcode ==
  /\ status = "running" /\ pc < Len(packet.code)
  /\ ins.op \notin Opcodes
  /\ Fail

(* The program counter has left the code: the result is what the slot      *)
(* written last holds, nothing if it holds no value.                       *)
Finish ==
  /\ status = "running" /\ pc >= Len(packet.code)
  /\ status' = "done"
  /\ UNCHANGED <<packet, mem, val, tags, tail, pc, frames, result>>

Output == IF val[result] = NULL THEN ValNothing ELSE val[result]

Scalars ==
  \/ LoadConst \/ LoadField \/ LoadNothing \/ Copy
  \/ ArithmeticStep \/ Negate \/ Equality \/ Ordering \/ Connective \/ Not
  \/ StrConcat \/ TypeTest \/ ToStringOp \/ ToInt \/ ToFloat \/ ToBool

Containers ==
  \/ RecordNew \/ RecordSet \/ RecordGet \/ RecordHas
  \/ ListNew \/ ListAppend \/ ListGet \/ ListLength
  \/ RecordGetC \/ RecordSetC \/ RecordNewSetC

Control ==
  \/ Jump \/ JumpIf \/ JumpIfNot \/ Coalesce \/ IterSetup \/ IterCollect
  \/ CmpJumpEqual \/ CmpJumpOrder \/ IsNothingJump
  \/ UnknownOpcode \/ Finish

External == StdlibCall \/ StdlibCall1 \/ TagSet \/ TagCheck \/ SourceLookup

Next == Scalars \/ Containers \/ Control \/ External

Spec == Init /\ [][Next]_vars

(* The loop of vm_execute runs on the caller's thread until it leaves it.  *)
FairSpec == Spec /\ WF_vars(Next)

------------------------------------------------------------------------------
(* What the machine relies on: the slots an instruction reads and writes   *)
(* are there (it does not check), jumps go forward (past the end, they     *)
(* leave the code), and an ITER_SETUP is closed by an ITER_COLLECT of its  *)
(* own, bodies are nested, and no jump crosses the boundary of a body.     *)
JumpTargetOps ==
  {"JUMP", "JUMP_IF", "JUMP_IF_NOT", "IS_NOTHING_JUMP", "CMP_JUMP_EQ",
   "CMP_JUMP_NEQ"} \cup DOMAIN JumpOps

(* The slots an instruction reads.                                         *)
Reads(i) ==
  CASE i.op \in {"LOAD_CONST", "LOAD_NOTHING", "RECORD_NEW", "LIST_NEW", "JUMP",
                 "ITER_COLLECT"} -> {}
    [] i.op \in {"LOAD_FIELD", "COPY", "NEGATE", "NOT", "TO_STRING", "TO_INT",
                 "TO_FLOAT", "TO_BOOL", "LIST_LENGTH", "JUMP_IF", "JUMP_IF_NOT",
                 "ITER_SETUP", "TAG_CHECK", "RECORD_GET_C", "IS_NOTHING_JUMP"}
                 \cup DOMAIN TypeTests -> {i.o1}
    [] i.op \in {"SOURCE_LOOKUP", "STDLIB_CALL", "STDLIB_CALL_1",
                 "RECORD_NEW_SET_C"} -> {i.o2}
    [] i.op = "TAG_SET"      -> {i.dest}
    [] i.op = "RECORD_SET_C" -> {i.dest, i.o2}
    [] i.op = "LIST_APPEND"  -> {i.dest, i.o1}
    [] i.op = "RECORD_SET"   -> {i.dest, i.o1, i.o2}
    [] OTHER -> {i.o1, i.o2}

(* ITER_COLLECT names the body's result, and in a filter the element.      *)
CollectReads(setup, collect) ==
  IF setup.mode = "filter" THEN {collect.o1, collect.o2} ELSE {collect.o1}

Body(code, i) == i + 1 .. i + code[i].o2     \* from 1; ITER_COLLECT follows

Instruction ==
  [op : STRING, dest : Nat, o1 : Nat, o2 : Nat,
   tmode : {"propagate", "clear", "set"}, mode : {"map", "filter", "fold"}]

Setups(code) == {i \in DOMAIN code : code[i].op = "ITER_SETUP"}

SlotsInRange(p) ==
  LET slots == 0 .. SlotCount(p) - 1  code == p.code IN
  /\ \A i \in DOMAIN code :
       /\ Reads(code[i]) \subseteq slots
       /\ code[i].op \notin JumpTargetOps => code[i].dest \in slots
  /\ \A i \in Setups(code) :
       CollectReads(code[i], code[i + 1 + code[i].o2]) \subseteq slots

BodiesNested(code) ==
  /\ \A i \in Setups(code) :
       /\ i + code[i].o2 < Len(code)
       /\ code[i + 1 + code[i].o2].op = "ITER_COLLECT"
  /\ \A j \in DOMAIN code : code[j].op = "ITER_COLLECT" =>
       \E i \in Setups(code) : j = i + 1 + code[i].o2
  /\ \A i \in Setups(code), j \in Setups(code) :
       j \in Body(code, i) => j + 1 + code[j].o2 \in Body(code, i)

JumpsForward(code) ==
  \A j \in DOMAIN code : code[j].op \in JumpTargetOps =>
    /\ code[j].dest >= j
    /\ \A i \in Setups(code) :
         j \in Body(code, i) <=> code[j].dest \in i .. i + code[i].o2

(* The cells a packet starts with are numbered so that a next pointer leads *)
(* to a later one: no chain of fields or elements meets itself.             *)
LoadedCell(size) ==
  [kind : Kinds, n : Int, s : STRING, head : 0 .. size, next : 0 .. size]

LoadedSound(p) ==
  LET size == Len(p.mem) IN
  /\ p.mem \in Seq(LoadedCell(size))
  /\ \A a \in 1 .. size : p.mem[a].next # NULL => p.mem[a].next > a
  /\ p.consts \in Seq(1 .. size)
  /\ p.inputs \in Seq([value : 0 .. size, tags : SUBSET TagBits])
  /\ p.scratchpadSize \in Nat /\ p.outputCount \in Nat

(* An HField is reached as a field of a record only and holds a value; an  *)
(* HVal is reached as a value or as an element, never as a field.          *)
FieldCells(m) == {a \in Addr(m) : m[a].kind = "field"}
ValueCells(m) == {a \in Addr(m) : m[a].kind # "field"}

PointsTo(c, values, fields) ==
  IF c.kind = "field"
  THEN c.head \in values /\ c.next \in fields \cup {NULL}
  ELSE /\ c.head \in (IF c.kind = "record" THEN fields ELSE values) \cup {NULL}
       /\ c.next \in values \cup {NULL}

LoadedSorted(p) ==
  LET values == ValueCells(p.mem) IN
  /\ \A a \in Addr(p.mem) : PointsTo(p.mem[a], values, FieldCells(p.mem))
  /\ p.consts \in Seq(values)
  /\ p.sources \in Seq([list : values \cup {NULL}, keyedBy : STRING])
  /\ \A i \in DOMAIN p.inputs : p.inputs[i].value \in values \cup {NULL}

WellFormed(p) ==
  /\ LoadedSound(p)
  /\ p.code \in Seq(Instruction)
  /\ BodiesNested(p.code)
  /\ JumpsForward(p.code)
  /\ SlotsInRange(p)

(* RECORD_SET and LIST_APPEND change a container in place.  They build one *)
(* of the packet's own when the instruction that made it stands before     *)
(* them, in the same bodies, and in between only appends write its slot    *)
(* and no jump leads there from outside.                                   *)
Makers  == {"RECORD_NEW", "LIST_NEW", "RECORD_NEW_SET_C"}
Appends == {"RECORD_SET", "RECORD_SET_C", "LIST_APPEND"}

Builds(code, c, i) ==
  /\ code[c].op \in Makers /\ code[i].op \in Appends
  /\ code[c].dest = code[i].dest
  /\ \A k \in c + 1 .. i - 1 :
       code[k].dest = code[i].dest => code[k].op \in Appends \cup JumpTargetOps
  /\ \A j \in DOMAIN code \ (c .. i - 1) :
       code[j].op \in JumpTargetOps => code[j].dest \notin c .. i - 1
  /\ \A k \in Setups(code) : c \in Body(code, k) <=> i \in Body(code, k)

AppendsToOwn(code) ==
  \A i \in DOMAIN code : code[i].op \in Appends =>
    \E c \in 1 .. i - 1 : Builds(code, c, i)

(* A container is not read while it is built: from its maker to an append, *)
(* no instruction takes it for an operand, nor does the ITER_COLLECT of a  *)
(* loop, which reads its slots for both ends of it.                        *)
Operands(i) ==
  CASE i.op = "LIST_APPEND"  -> {i.o1}
    [] i.op = "RECORD_SET"   -> {i.o1, i.o2}
    [] i.op = "RECORD_SET_C" -> {i.o2}
    [] OTHER -> Reads(i)

UnreadWhileBuilt(code) ==
  \A c, i \in DOMAIN code : c < i /\ Builds(code, c, i) =>
    /\ \A k \in c + 1 .. i : code[i].dest \notin Operands(code[k])
    /\ \A k \in Setups(code) :
         LET collect == k + 1 + code[k].o2 IN
         k \in c + 1 .. i \/ collect \in c + 1 .. i =>
           code[i].dest \notin CollectReads(code[k], code[collect])

(* Slots are assured at an instruction, from 1, when every way there has   *)
(* written them.  What the machine reads, as it checks for no NULL, must   *)
(* be; so must the initial value of a fold, which is read at its           *)
(* ITER_SETUP; a body that is not entered assures nothing.                 *)
InputSlots(p) == IF p.given THEN 0 .. Len(p.inputs) - 1 ELSE {}
Writes(i) == IF i.op \in JumpTargetOps THEN {} ELSE {i.dest}

ReadsAssured(p, assured) ==
  LET code == p.code  end == Len(code) + 1 IN
  /\ assured \in [1 .. end -> SUBSET Nat]
  /\ assured[1] \subseteq InputSlots(p)
  /\ \A k \in DOMAIN code :
       /\ Reads(code[k]) \subseteq assured[k]
       /\ code[k].op # "JUMP" => assured[k + 1] \subseteq assured[k] \cup Writes(code[k])
       /\ code[k].op \in JumpTargetOps /\ code[k].dest < end =>
            assured[code[k].dest + 1] \subseteq assured[k]
  /\ \A k \in Setups(code) :
       LET c == k + 1 + code[k].o2 IN
       /\ CollectReads(code[k], code[c]) \subseteq assured[c]
       /\ code[k].mode = "fold" => code[c].o1 \in assured[k]
       /\ assured[c + 1] \subseteq assured[k] \cup {code[c].dest}

Assured(p) ==
  LET code == p.code
      all  == InputSlots(p) \cup UNION {Writes(code[k]) : k \in DOMAIN code}
      At(j, before) ==
        LET jumps == {k \in 1 .. j - 1 : code[k].op \in JumpTargetOps /\ code[k].dest = j - 1}
            loops == {k \in 1 .. j - 1 : code[k].op = "ITER_SETUP" /\ k + code[k].o2 + 2 = j}
            last  == code[j - 1]
        IN  {s \in all :
               /\ last.op # "JUMP" => s \in before[j - 1] \cup Writes(last)
               /\ \A k \in jumps : s \in before[k]
               /\ \A k \in loops : s \in before[k] \cup {last.dest}}
      upto[j \in 1 .. Len(code) + 1] ==
        IF j = 1 THEN <<InputSlots(p)>>
        ELSE LET before == upto[j - 1] IN Append(before, At(j, before))
  IN  upto[Len(code) + 1]

(* An ITER_COLLECT without a frame, or reached around its ITER_SETUP, and  *)
(* an append to a value the packet did not make, and a read of a slot that *)
(* some way there has not written, are what the rules above exclude.       *)
PacketsWellFormed ==
  pc = 0 => WellFormed(packet) /\ AppendsToOwn(packet.code)
            /\ UnreadWhileBuilt(packet.code)
            /\ LoadedSorted(packet) /\ ReadsAssured(packet, Assured(packet))
            /\ Ranks(packet.mem, Depths(packet.mem))

(* Type correctness: every pointer the machine holds, in a slot, a cell, a *)
(* tail or a frame, is NULL or a cell made earlier, and the iteration      *)
(* stack stays within iter_stack.                                          *)
Pointers == 0 .. Len(mem)

TypeOK ==
  /\ \A a \in Addr(mem) : /\ mem[a].kind \in Kinds
                          /\ mem[a].head \in Pointers
                          /\ mem[a].next \in Pointers
  /\ val \in [Slots -> Pointers]
  /\ tags \in [Slots -> SUBSET TagBits]
  /\ tail \in [Slots -> Pointers]
  /\ pc \in Nat
  /\ Len(frames) <= MaxIterDepth
  /\ \A i \in DOMAIN frames :
       {frames[i].nextElem, frames[i].head, frames[i].last, frames[i].acc}
         \subseteq Pointers
  /\ result \in Slots
  /\ status \in {"running", "done", "error"}

(* The frames of the iteration stack are properly nested bodies, control   *)
(* is inside the innermost one, and no frame outlives the run: an          *)
(* ITER_COLLECT always closes the loop it belongs to.                      *)
FramesNested ==
  /\ \A i \in 1 .. Len(frames) - 1 :
       /\ frames[i].bodyStart < frames[i + 1].bodyStart
       /\ frames[i + 1].collectPc < frames[i].collectPc
  /\ frames # << >> => pc \in top.bodyStart .. top.collectPc
  /\ Fetched("ITER_COLLECT") => frames # << >> /\ pc = top.collectPc
  /\ status = "done" => frames = << >>

(* The singletons, constants, input and source values a run starts with    *)
(* are shared by every slot they are copied to; no step writes to them.    *)
LoadedImmutable ==
  [][\A a \in 1 .. ValNothing : mem'[a] = mem[a]]_vars

(* RECORD_SET and LIST_APPEND work in place and COPY shares: still, a step *)
(* changes no value but the one in the slot its instruction names.         *)
NoAliasing ==
  [][\/ SubSeq(mem', 1, Len(mem)) = mem
     \/ \A i \in Slots \ {ins.dest} :
          Reify(mem', val[i]) = Reify(mem, val[i])]_vars

(* The tail pointer of a slot, when the next instruction appends through   *)
(* it, is the last cell of the record or list in that slot.                *)
TailIsLast ==
  \A op \in {"LIST_APPEND", "RECORD_SET", "RECORD_SET_C"} :
    Fetched(op) /\ tail[d] # NULL =>
      /\ mem[val[d]].head # NULL
      /\ tail[d] \in LastOf(mem, mem[val[d]].head)

(* No instruction reads a slot that was never written.  The machine would  *)
(* take the NULL it finds for nothing.                                     *)
ReadsWritten ==
  status = "running" /\ pc < Len(packet.code) =>
    /\ \A i \in Reads(ins) : val[i] # NULL
    /\ ins.op = "ITER_COLLECT" /\ frames # << >> =>
         val[top.slotA] # NULL /\ (top.mode = "filter" => val[top.slotB] # NULL)

(* Every run ends, with an answer or an error.                             *)
Terminates == <>(status # "running")

==============================================================================
