----------------------------- MODULE HelunaCompiler ----------------------------
(***************************************************************************)
(* The code generator and the peephole optimizer of src/src/compiler.c, as *)
(* functions of a program.  The compiler's state is threaded through them: *)
(* a record of the instructions, the constant pool, the scope stack, the   *)
(* next free scratchpad slot and whether an error was recorded.            *)
(*                                                                         *)
(* Type hints are left out of the flags byte (the machine ignores them);   *)
(* the static type of a result is kept, because it chooses between ADD and *)
(* STR_CONCAT.  Slots, pool indices and jump targets are uint16_t.         *)
(***************************************************************************)
EXTENDS HelunaAst, SequencesExt, FiniteSets

CONSTANTS
  EndJumpCapacity,  \* the size of end_jumps, 64 in the code
  Stdlib,        \* external: the names of stdlib_table, as name :> function id
  Deps           \* the compiled program's uses: name :> program

Width == 65536

Instr(op, dest, o1, o2) ==
  [op |-> op, dest |-> dest % Width, o1 |-> o1 % Width, o2 |-> o2 % Width,
   tmode |-> "propagate", mode |-> "map"]

Compiler(prog, sources) ==
  [prog |-> prog, sources |-> sources, code |-> << >>, consts |-> << >>,
   scope |-> << >>, next |-> 0, failed |-> FALSE]

Result(c, slot, type) == [c |-> c, slot |-> slot, type |-> type]

Alloc(c) == [c EXCEPT !.next = @ + 1]
AddInstr(c, i) == [c EXCEPT !.code = Append(@, i)]
Emit(c, op, dest, o1, o2) == AddInstr(c, Instr(op, dest, o1, o2))
AddError(c) == [c EXCEPT !.failed = TRUE]
Here(c) == Len(c.code)

(* A faulty variant: the jump is patched with its own address.             *)
PatchJumpToSelf(c, at) == [c EXCEPT !.code[at + 1].dest = at]

PatchJump(c, at) == [c EXCEPT !.code[at + 1].dest = Here(c) % Width]
PatchJumps(c, ats) == FoldLeft(LAMBDA acc, at : PatchJump(acc, at), c, ats)

(* add_const_*: one entry per constant, shared by its uses.                *)
ConstIndex(c, k) ==
  LET i == SelectInSeq(c.consts, LAMBDA x : x = k)
  IN  IF i = 0 THEN Len(c.consts) ELSE i - 1

AddConst(c, k) ==
  IF Contains(c.consts, k) THEN c ELSE [c EXCEPT !.consts = Append(@, k)]

EmitConst(c, k, slot) ==
  Emit(AddConst(c, k), "LOAD_CONST", slot, ConstIndex(c, k), 0)

ScopePush(c, name, slot, type) ==
  [c EXCEPT !.scope = Append(@, [name |-> name, slot |-> slot, type |-> type])]

(* Leave a scope: the entries pushed since c0 go.                          *)
ScopePop(c, c0) == [c EXCEPT !.scope = c0.scope]

ScopeLookup(c, name) ==
  LET last == SelectLastInSeq(c.scope, LAMBDA s : s.name = name)
  IN  IF last = 0 THEN << >> ELSE <<c.scope[last]>>

(* The 4-step resolution of a called name: through a sanitizer's           *)
(* implementation, then the library, then an inlined dependency.           *)
Resolve(c, name) ==
  LET hits == SelectSeq(c.prog.sanitizers, LAMBDA s : s.name = name)
      impl == IF hits = << >> \/ hits[1].impl = "" THEN name ELSE hits[1].impl
  IN  [sanitizer |-> hits # << >>, impl |-> impl,
       kind |-> CASE impl \in DOMAIN Stdlib -> "stdlib"
                  [] impl \in DOMAIN Deps   -> "inline"
                  [] OTHER                  -> "unresolved"]

Conversions ==
  [n \in {"to-string", "to-float", "to-integer"} |->
     CASE n = "to-string"  -> [op |-> "TO_STRING", type |-> "string"]
       [] n = "to-float"   -> [op |-> "TO_FLOAT", type |-> "float"]
       [] n = "to-integer" -> [op |-> "TO_INT", type |-> "integer"]]

TypeTestOp ==
  [n \in {"string", "integer", "float", "boolean", "nothing", "list", "record"} |->
     CASE n = "string"  -> "IS_STRING"  [] n = "integer" -> "IS_INT"
       [] n = "float"   -> "IS_FLOAT"   [] n = "boolean" -> "IS_BOOL"
       [] n = "nothing" -> "IS_NOTHING" [] n = "list"    -> "IS_LIST"
       [] n = "record"  -> "IS_RECORD"]

(* The constant a literal or a key is: a string, or the literal itself.    *)
Key(name) == StrLit(name)
Value == Key("value")

------------------------------------------------------------------------------
RECURSIVE Expr(_, _, _), IfBranches(_, _, _, _, _), Clauses(_, _, _, _, _),
          Labels(_, _, _), Elements(_, _, _), LookupKeys(_, _, _),
          Test(_, _, _, _), Bindings(_, _, _),
          ElementTests(_, _, _, _, _), FieldTests(_, _, _, _)

(* An operand is compiled into a slot of its own.                          *)
Operand(c, e) == Expr(c, e, -1)

EmitResult(c, op, dest, o1, o2, type) ==
  Result(Emit(c, op, dest, o1, o2), dest, type)

CompileBinary(c, e, dest) ==
  LET l == Operand(c, e.kids[1])
      r == Operand(l.c, e.kids[2])
      types == {l.type, r.type}
      numeric == IF "float" \in types THEN "float" ELSE "integer"
      concat  == e.name = "ADD" /\ "string" \in types
  IN  EmitResult(r.c, IF concat THEN "STR_CONCAT" ELSE e.name, dest, l.slot, r.slot,
        CASE concat -> "string"
          [] e.name = "MOD" -> "integer"
          [] e.name \in {"ADD", "SUB", "MUL", "DIV"} -> numeric
          [] OTHER -> "boolean")

CompileUnary(c, e, dest) ==
  LET x == Operand(c, e.kids[1]) IN
  CASE e.kind = "negate" -> EmitResult(x.c, "NEGATE", dest, x.slot, 0, x.type)
    [] e.kind = "not"    -> EmitResult(x.c, "NOT", dest, x.slot, 0, "boolean")
    [] e.kind = "access" ->
         EmitResult(AddConst(x.c, Key(e.name)), "RECORD_GET_C", dest, x.slot,
                    ConstIndex(x.c, Key(e.name)), "unknown")
    [] e.kind = "is"     ->
         IF e.name \in DOMAIN TypeTestOp
         THEN EmitResult(x.c, TypeTestOp[e.name], dest, x.slot, 0, "boolean")
         ELSE Result(AddError(x.c), 0, "unknown")

(* A faulty variant: the name's slot is never copied to the destination.   *)
CompileNameUncopied(c, e, dest) ==
  LET hit == ScopeLookup(c, e.name) IN
  IF hit = << >> THEN Result(AddError(c), dest, "unknown")
  ELSE Result(c, dest, hit[1].type)

CompileName(c, e, dest) ==
  LET hit == ScopeLookup(c, e.name) IN
  IF hit = << >> THEN Result(AddError(c), dest, "unknown")
  ELSE IF hit[1].slot = dest THEN Result(c, dest, hit[1].type)
  ELSE EmitResult(c, "COPY", dest, hit[1].slot, 0, hit[1].type)

(* The jump to the end of an if or match is remembered for patching only   *)
(* while there is room.                                                    *)
Remember(ends, at) ==
  IF Len(ends) < EndJumpCapacity THEN Append(ends, at) ELSE ends

(* kids: condition, body, condition, body, ..., else body.                 *)
IfBranches(c, kids, dest, ends, type) ==
  IF kids = << >> THEN Result(PatchJumps(c, ends), dest, type)
  ELSE IF Len(kids) = 1
  THEN LET body == Expr(c, kids[1], dest)
       IN  Result(PatchJumps(body.c, ends), dest, body.type)
  ELSE
    LET cond  == Operand(c, kids[1])
        skip  == Here(cond.c)
        body  == Expr(Emit(cond.c, "JUMP_IF_NOT", 0, cond.slot, 0), kids[2], dest)
        last  == Len(kids) = 2
        after == IF last THEN body.c ELSE Emit(body.c, "JUMP", 0, 0, 0)
    IN  IfBranches(PatchJump(after, skip), SubSeq(kids, 3, Len(kids)), dest,
                   IF last THEN ends ELSE Remember(ends, Here(body.c)), body.type)

(* The when clauses of a match whose subject is in a slot; m.kids ends     *)
(* with the else body.                                                     *)
Clauses(c, clauses, subject, dest, ends) ==
  LET clause == clauses[1] IN
  IF Len(clauses) = 1
  THEN LET body == IF clause.kind = "absent"
                   THEN EmitResult(c, "LOAD_NOTHING", dest, 0, 0, "nothing")
                   ELSE Expr(c, clause, dest)
       IN  Result(PatchJumps(body.c, ends), dest, body.type)
  ELSE
    LET test    == c.next
        tested  == Test(Alloc(c), clause.kids[1], subject, test)
        bound   == Bindings(tested, clause.kids[1], subject)
        guard   == Operand(bound, clause.kids[2])
        guarded == IF clause.kids[2].kind = "absent" THEN bound
                   ELSE Emit(guard.c, "AND", test, test, guard.slot)
        body    == Expr(Emit(guarded, "JUMP_IF_NOT", 0, test, 0),
                        clause.kids[3], dest)
        after   == Emit(body.c, "JUMP", 0, 0, 0)
    IN  Clauses(ScopePop(PatchJump(after, Here(guarded)), c),
                Tail(clauses), subject, dest, Remember(ends, Here(body.c)))

CompileMatch(c, e, dest) ==
  LET subject == Operand(c, e.kids[1])
  IN  Clauses(subject.c, Tail(e.kids), subject.slot, dest, << >>)

CompileLet(c, e, dest) ==
  LET bound == Expr(Alloc(c), e.kids[1], c.next)
      body  == Expr(ScopePush(bound.c, e.name, c.next, bound.type), e.kids[2], dest)
  IN  Result(ScopePop(body.c, c), dest, body.type)

(* The first label creates the record, the others set a field of it.       *)
Labels(c, labels, dest) ==
  IF labels = << >> THEN c
  ELSE LET last  == labels[Len(labels)]
           rest  == Labels(c, Front(labels), dest)
           value == Operand(AddConst(rest, Key(last.name)), last.kids[1])
       IN  Emit(value.c,
                IF Len(labels) = 1 THEN "RECORD_NEW_SET_C" ELSE "RECORD_SET_C",
                dest, ConstIndex(rest, Key(last.name)), value.slot)

CompileRecord(c, e, dest) ==
  Result(IF e.kids = << >> THEN Emit(c, "RECORD_NEW", dest, 0, 0)
         ELSE Labels(c, e.kids, dest), dest, "record")

Elements(c, elements, dest) ==
  IF elements = << >> THEN Emit(c, "LIST_NEW", dest, 0, 0)
  ELSE LET value == Operand(Elements(c, Front(elements), dest), Last(elements))
       IN  Emit(value.c, "LIST_APPEND", dest, value.slot, 0)

(* filter and map, over a list already in a slot; a through compiles its   *)
(* left side to that slot.                                                 *)
CompileIteration(c, e, list, dest) ==
  LET elem  == c.next
      setup == Here(c)
      begun == AddInstr(ScopePush(Alloc(c), e.name, elem, "unknown"),
                 [Instr("ITER_SETUP", elem, list, 0) EXCEPT !.mode = e.kind])
      body  == Operand(begun, e.kids[2])
      sized == [body.c EXCEPT !.code[setup + 1].o2 = Here(body.c) - setup - 1]
      ended == Emit(sized, "ITER_COLLECT", dest, body.slot,
                    IF e.kind = "filter" THEN elem ELSE 0)
  IN  Result(ScopePop(ended, c), dest, "list")

IsFoldFunction(l) == l.name = "fn" /\ l.kids[1].kind = "string"

(* fold: only "multiply" multiplies, every other function adds.            *)
CompileFold(c, arg, dest) ==
  LET Arg(name) == SelectLastInSeq(arg.kids, LAMBDA l : l.name = name)
      fn    == SelectLastInSeq(arg.kids, IsFoldFunction)
      acc   == c.next
      first == Expr(Alloc(c), arg.kids[Arg("initial")].kids[1], acc)
      list  == Operand(first.c, arg.kids[Arg("list")].kids[1])
      elem  == list.c.next
      begun == AddInstr(Alloc(list.c),
                 [Instr("ITER_SETUP", elem, list.slot, 1) EXCEPT !.mode = "fold"])
      body  == Emit(begun, IF arg.kids[fn].kids[1].name = "multiply"
                           THEN "MUL" ELSE "ADD", acc, acc, elem)
  IN  EmitResult(body, "ITER_COLLECT", dest, acc, 0, "integer")

IsFold(e) ==
  LET labels == Range(e.kids[1].kids) IN
  /\ e.name = "fold"
  /\ {"list", "initial"} \subseteq {l.name : l \in labels}
  /\ \E l \in labels : IsFoldFunction(l)

(* A dependency's body is compiled in place, its inputs read from the      *)
(* argument record.                                                        *)
CompileInline(c, dep, arg, dest) ==
  LET Field(acc, f) ==
        LET key == acc.next
            loaded == EmitConst(Alloc(acc), Key(f.name), key)
        IN  ScopePush(Emit(Alloc(loaded), "RECORD_GET", key + 1, arg, key),
                      f.name, key + 1, f.type)
      body == Expr(FoldLeft(Field, c, dep.inputs), dep.body, dest)
  IN  Result(ScopePop(body.c, c), body.slot, body.type)

(* A call whose argument record (or, with op STDLIB_CALL_1, whose only     *)
(* value) is in a slot.                                                    *)
TagMode(c, i, res) ==
  AddInstr(c, [i EXCEPT !.tmode = IF res.sanitizer THEN "clear" ELSE "propagate"])

CompileResolved(c, res, op, arg, dest) ==
  CASE res.kind = "stdlib" ->
         Result(TagMode(c, Instr(op, dest, Stdlib[res.impl], arg), res),
                dest, "unknown")
    [] res.kind = "inline" ->
         LET r == CompileInline(c, Deps[res.impl], arg, dest)
         IN  Result(IF res.sanitizer
                    THEN TagMode(r.c, Instr("TAG_SET", r.slot, 0, 0), res)
                    ELSE r.c, r.slot, r.type)
    [] OTHER -> Result(AddError(c), dest, "unknown")

CompileCall(c, e, dest) ==
  LET arg  == e.kids[1]
      res  == Resolve(c, e.name)
      only == Len(arg.kids) = 1 /\ arg.kids[1].name = "value"
  IN
  IF e.name \in DOMAIN Conversions
  THEN LET conv == Conversions[e.name]
           rec  == Operand(c, arg)
           key  == ConstIndex(rec.c, Value)
           slot == rec.c.next
           read == Emit(Alloc(AddConst(rec.c, Value)), "RECORD_GET_C",
                        slot, rec.slot, key)
           made == Emit(Alloc(read), conv.op, slot + 1, slot, 0)
       IN  IF e.name = "to-string"
           THEN EmitResult(made, "RECORD_NEW_SET_C", dest, key, slot + 1, "record")
           ELSE Result(made, slot + 1, conv.type)
  ELSE IF IsFold(e) THEN CompileFold(c, arg, dest)
  ELSE IF res.kind = "stdlib" /\ only
  THEN LET value == Operand(c, arg.kids[1].kids[1])
       IN  CompileResolved(value.c, res, "STDLIB_CALL_1", value.slot, dest)
  ELSE LET rec == Operand(c, arg)
       IN  CompileResolved(rec.c, res, "STDLIB_CALL", rec.slot, dest)

(* left through right: the left value becomes field "value" of the call's  *)
(* argument record, or the list of a filter or map.                        *)
CompileThrough(c, e, dest) ==
  LET left  == Operand(c, e.kids[1])
      right == e.kids[2]
      res   == Resolve(left.c, right.name)
  IN
  IF right.kind \in {"filter", "map"}
  THEN CompileIteration(left.c, right, left.slot, dest)
  ELSE IF right.kind # "call" THEN Expr(left.c, right, dest)
  ELSE IF right.name \in DOMAIN Conversions
  THEN LET slot == left.c.next
           made == Emit(Alloc(left.c), Conversions[right.name].op, slot, left.slot, 0)
       IN  EmitResult(AddConst(made, Value), "RECORD_NEW_SET_C", dest,
                      ConstIndex(made, Value), slot, "record")
  ELSE IF res.kind = "stdlib" /\ right.kids[1].kids = << >>
  THEN CompileResolved(left.c, res, "STDLIB_CALL_1", left.slot, dest)
  ELSE LET arg == Operand(left.c, right.kids[1])
           set == Emit(AddConst(arg.c, Value), "RECORD_SET_C", arg.slot,
                       ConstIndex(arg.c, Value), left.slot)
       IN  CompileResolved(set, res, "STDLIB_CALL", arg.slot, dest)

LookupKeys(c, keys, rec) ==
  IF keys = << >> THEN c
  ELSE LET value == Operand(LookupKeys(c, Front(keys), rec), Last(keys).kids[1])
           slot  == value.c.next
           key   == EmitConst(Alloc(value.c), Key(Last(keys).name), slot)
       IN  Emit(key, "RECORD_SET", rec, slot, value.slot)

CompileLookup(c, e, dest) ==
  LET source == SelectInSeq(c.sources, LAMBDA s : s = e.name)
      rec    == c.next
      keys   == LookupKeys(Emit(Alloc(c), "RECORD_NEW", rec, 0, 0), e.kids, rec)
  IN  IF source = 0 THEN EmitResult(c, "LOAD_NOTHING", dest, 0, 0, "nothing")
      ELSE EmitResult(keys, "SOURCE_LOOKUP", dest, source - 1, rec, "record")

Expr(c0, e, target) ==
  LET fresh == target < 0
      c     == IF fresh THEN Alloc(c0) ELSE c0
      dest  == IF fresh THEN c0.next % Width ELSE target
  IN
  CASE e.kind \in Literals  -> Result(EmitConst(c, e, dest), dest, e.kind)
    [] e.kind = "nothing"   -> EmitResult(c, "LOAD_NOTHING", dest, 0, 0, "nothing")
    [] e.kind \in {"ident", "input"} -> CompileName(c, e, dest)
    [] e.kind = "binary"    -> CompileBinary(c, e, dest)
    [] e.kind \in {"negate", "not", "access", "is"} -> CompileUnary(c, e, dest)
    [] e.kind = "if"        -> IfBranches(c, e.kids, dest, << >>, "unknown")
    [] e.kind = "match"     -> CompileMatch(c, e, dest)
    [] e.kind = "let"       -> CompileLet(c, e, dest)
    [] e.kind = "record"    -> CompileRecord(c, e, dest)
    [] e.kind = "list"      -> Result(Elements(c, e.kids, dest), dest, "list")
    [] e.kind = "paren"     ->
         LET inner == Expr(c, e.kids[1], dest) IN Result(inner.c, dest, inner.type)
    [] e.kind = "call"      -> CompileCall(c, e, dest)
    [] e.kind \in {"filter", "map"} ->
         LET list == Operand(c, e.kids[1])
         IN  CompileIteration(list.c, e, list.slot, dest)
    [] e.kind = "through"   -> CompileThrough(c, e, dest)
    [] e.kind = "orElse"    ->
         LET p == Operand(c, e.kids[1])  f == Operand(p.c, e.kids[2])
         IN  EmitResult(f.c, "COALESCE", dest, p.slot, f.slot, f.type)
    [] e.kind = "lookup"    -> CompileLookup(c, e, dest)

------------------------------------------------------------------------------
(* Patterns: compute into a slot whether the subject matches.              *)
And(c, dest, slot) == Emit(c, "AND", dest, dest, slot)

Test(c, p, subject, dest) ==
  CASE p.kind \in {"absent", "wildcard", "binding"} ->
         EmitConst(c, BoolLit(TRUE), dest)
    [] p.kind = "literal" ->
         IF p.kids[1].kind = "nothing"
         THEN Emit(c, "IS_NOTHING", dest, subject, 0)
         ELSE LET lit == Operand(c, p.kids[1])
              IN  Emit(lit.c, "EQ", dest, subject, lit.slot)
    [] p.kind = "range" ->
         LET low  == Operand(c, p.kids[1])
             high == Operand(low.c, p.kids[2])
             gte  == high.c.next
             above == Emit(Alloc(high.c), "GTE", gte, subject, low.slot)
             below == Emit(Alloc(above), "LTE", gte + 1, subject, high.slot)
         IN  Emit(below, "AND", dest, gte, gte + 1)
    [] p.kind = "listPattern" ->
         LET s == c.next     \* is-list, length, expected length, length fits
             islist   == Emit(Alloc(c), "IS_LIST", s, subject, 0)
             length   == Emit(Alloc(islist), "LIST_LENGTH", s + 1, subject, 0)
             expected == EmitConst(Alloc(length), IntLit(Len(p.kids)), s + 2)
             fits     == Emit(Alloc(expected), IF p.n = 1 THEN "GTE" ELSE "EQ",
                              s + 3, s + 1, s + 2)
         IN  ElementTests(Emit(fits, "AND", dest, s, s + 3), p.kids, 0, subject, dest)
    [] p.kind = "recordPattern" ->
         LET isrec == Emit(Alloc(c), "IS_RECORD", c.next, subject, 0)
         IN  FieldTests(Emit(isrec, "COPY", dest, c.next, 0), p.kids, subject, dest)

(* The slot after idx's holds the element.                                 *)
ListGetAt(c, idx, subject) ==
  LET s == c.next
  IN  Emit(Alloc(EmitConst(Alloc(c), IntLit(idx), s)), "LIST_GET", s + 1, subject, s)

ElementTests(c, ps, idx, subject, dest) ==
  IF ps = << >> THEN c
  ELSE LET got == ListGetAt(c, idx, subject)
           sub == got.next
           ok  == Test(Alloc(got), ps[1], sub - 1, sub)
       IN  ElementTests(And(ok, dest, sub), Tail(ps), idx + 1, subject, dest)

FieldTests(c, fields, subject, dest) ==
  IF fields = << >> THEN c
  ELSE LET s   == c.next     \* key, has, field, sub-result
           key == EmitConst(Alloc(c), Key(fields[1].name), s)
           has == And(Emit(Alloc(key), "RECORD_HAS", s + 1, subject, s), dest, s + 1)
           got == Emit(Alloc(has), "RECORD_GET", s + 2, subject, s)
           ok  == Test(Alloc(got), fields[1].kids[1], s + 2, s + 3)
       IN  FieldTests(And(ok, dest, s + 3), Tail(fields), subject, dest)

(* Bring a pattern's names into scope.  The rest of a list pattern is not. *)
Bindings(c, p, subject) ==
  CASE p.kind = "binding" -> ScopePush(c, p.name, subject, "unknown")
    [] p.kind = "listPattern" ->
         LET Bind(acc, i) ==
               LET got == ListGetAt(acc, i - 1, subject)
               IN  Bindings(got, p.kids[i], got.next - 1)
         IN  FoldLeft(Bind, c, [i \in DOMAIN p.kids |-> i])
    [] p.kind = "recordPattern" ->
         LET Bind(acc, f) ==
               LET slot == acc.next
                   got  == Emit(Alloc(AddConst(acc, Key(f.name))), "RECORD_GET_C",
                                slot, subject, ConstIndex(acc, Key(f.name)))
               IN  Bindings(got, f.kids[1], slot)
         IN  FoldLeft(Bind, c, p.kids)
    [] OTHER -> c

------------------------------------------------------------------------------
(* The peephole optimizer: a comparison and the jump on its result become  *)
(* one instruction, and the code is compacted.                             *)
FusedOp ==
  [op \in {"EQ", "NEQ", "LT", "GT", "LTE", "GTE"} |-> "CMP_JUMP_" \o op]

JumpOpcodes ==
  {"JUMP", "JUMP_IF", "JUMP_IF_NOT", "IS_NOTHING_JUMP"} \cup
  {FusedOp[op] : op \in DOMAIN FusedOp}

IsJumpTarget(code, target) ==
  \E i \in DOMAIN code : code[i].op \in JumpOpcodes /\ code[i].dest = target % Width

(* What the pair of instructions at i and i + 1 (from 1) becomes.          *)
FusePair(code, i) ==
  LET a == code[i]  b == code[i + 1]
      fused == CASE a.op \in DOMAIN FusedOp /\ b.op = "JUMP_IF_NOT" -> FusedOp[a.op]
                 [] a.op = "IS_NOTHING" /\ b.op = "JUMP_IF" -> "IS_NOTHING_JUMP"
                 [] OTHER -> "NOP"
  IN  IF fused = "NOP" \/ a.dest # b.o1 \/ IsJumpTarget(code, i) THEN code
      ELSE [code EXCEPT ![i].op = fused, ![i].dest = b.dest, ![i + 1].op = "NOP"]

Fuse(code) == FoldLeft(FusePair, code, [i \in 1 .. Len(code) - 1 |-> i])

(* The new index of an instruction: the instructions kept before it.       *)
Remap(code, index) ==
  Cardinality({j \in 1 .. index : code[j].op # "NOP"})

(* Faulty variants: the size of a loop body is not updated, or the target  *)
(* of a fused jump is not.                                                 *)
RelocateJumps(code, i) ==
  LET a == code[i] IN
  IF a.op \in JumpOpcodes /\ a.dest < Len(code) % Width
  THEN [a EXCEPT !.dest = Remap(code, a.dest)] ELSE a

RelocateUnfused(code, i) ==
  LET a == code[i] IN
  CASE a.op \in {"JUMP", "JUMP_IF", "JUMP_IF_NOT"} ->
         [a EXCEPT !.dest = Remap(code, a.dest)]
    [] a.op = "ITER_SETUP" -> [a EXCEPT !.o2 = Remap(code, i + a.o2) - Remap(code, i)]
    [] OTHER -> a

Relocate(code, i) ==
  LET a == code[i]
      bodyEnd == i + a.o2
  IN  CASE a.op \in JumpOpcodes /\ a.dest < Len(code) % Width ->
             [a EXCEPT !.dest = Remap(code, a.dest)]
        [] a.op = "ITER_SETUP" /\ bodyEnd <= Len(code) ->
             [a EXCEPT !.o2 = Remap(code, bodyEnd) - Remap(code, i)]
        [] OTHER -> a

Optimize(code) ==
  LET fused == Fuse(code)
      moved == [i \in DOMAIN fused |-> Relocate(fused, i)]
  IN  SelectSeq(moved, LAMBDA a : a.op # "NOP")

(* compiler_compile: inputs take the first slots and are in scope, outputs *)
(* the next; the body goes to a slot of its own.                           *)
Compile(prog, sources) ==
  LET Declare(c, f) == ScopePush(Alloc(c), f.name, c.next, f.type)
      inputs == FoldLeft(Declare, Compiler(prog, sources), prog.inputs)
  IN  Operand([inputs EXCEPT !.next = @ + prog.outputCount], prog.body).c

==============================================================================
