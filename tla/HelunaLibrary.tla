----------------------------- MODULE HelunaLibrary -----------------------------
(***************************************************************************)
(* The library functions of src/src/vm_stdlib.c that work on the machine's *)
(* values: numbers, lists, records and conversions.  They allocate their   *)
(* results and share what they do not copy.  The elements of a list are    *)
(* linked through the values themselves, so each must be copied and its    *)
(* next pointer set anew.                                                  *)
(*                                                                         *)
(* arg maps the name of a parameter to its address in memory m, NULL when  *)
(* the argument record has no such field.  A function answers with the set *)
(* of results it may have, [cells, at]: the cells it adds to m and the     *)
(* address of its value.  The empty set is an error.                       *)
(***************************************************************************)
EXTENDS HelunaHeap

Seqs == INSTANCE SequencesExt

ArgNames ==
  {"value", "list", "a", "b", "min", "max", "field", "start", "end", "record",
   "fields", "initial", "fn"}

Error == {}
Given(a) == {[cells |-> << >>, at |-> a]}

(* New cells, the last of which is the value.                              *)
Made(m, cells) == {[cells |-> cells, at |-> Len(m) + Len(cells)]}

(* A faulty variant: the next pointers are copied with the values.         *)
LinkedAsBefore(m, cells) == cells

(* Cells chained in order, to be added to m.                               *)
Linked(m, cells) ==
  [i \in DOMAIN cells |->
     [cells[i] EXCEPT !.next = IF i = Len(cells) THEN NULL ELSE Len(m) + i + 1]]

First(m, cells) == IF cells = << >> THEN NULL ELSE Len(m) + 1
MadeList(m, items) ==
  Made(m, Linked(m, items) \o <<ListCell(First(m, items))>>)
MadeRecord(m, fields) ==
  Made(m, Linked(m, fields) \o <<RecordCell(First(m, fields))>>)

Copies(m, at) == [i \in DOMAIN at |-> CopyCell(m, at[i])]

(* The result of a function of the elements of a list, or of the fields of *)
(* a record.                                                               *)
OfList(m, a, result(_)) ==
  IF KindAt(m, a) # "list" THEN Error
  ELSE UNION {result(items) : items \in {Members(m, a)}}

OfRecord(m, a, result(_)) ==
  IF KindAt(m, a) # "record" THEN Error
  ELSE UNION {result(fields) : fields \in {Members(m, a)}}

IsList(m, a)    == KindAt(m, a) = "list"
IsString(m, a)  == KindAt(m, a) = "string"
IsInteger(m, a) == KindAt(m, a) = "integer"

------------------------------------------------------------------------------
(* abs, ceil, floor and round; halves are rounded away from zero.          *)
Rounded(f, halves) ==
  CASE f = "ceil"  -> -((-halves) \div 2)
    [] f = "floor" -> halves \div 2
    [] f = "round" -> Sign(halves) * ((Abs(halves) + 1) \div 2)

Numeric(f, m, v) ==
  IF v = NULL THEN Error
  ELSE IF ~IsNumber(m[v]) THEN Error
  ELSE IF f = "abs" THEN Made(m, <<Cell(m[v].kind, Abs(m[v].n), "", NULL)>>)
  ELSE Made(m, <<IntegerCell(IF m[v].kind = "integer" THEN m[v].n
                             ELSE Rounded(f, m[v].n))>>)

(* min and max prefer a; each answers with the kind of the operand.        *)
Extreme(f, m, a, b) ==
  IF a = NULL \/ b = NULL THEN Error
  ELSE LET x == ToDouble(m[a])  y == ToDouble(m[b])
           kept == IF (f = "min" /\ x <= y) \/ (f = "max" /\ x >= y) THEN a ELSE b
       IN  Made(m, <<CopyCell(m, kept)>>)

Clamped(x, lo, hi) ==
  LET above == IF x < lo THEN lo ELSE x
  IN  IF above > hi THEN hi ELSE above

Clamp(m, v, lo, hi) ==
  IF NULL \in {v, lo, hi} THEN Error
  ELSE LET x == Clamped(ToDouble(m[v]), ToDouble(m[lo]), ToDouble(m[hi]))
       IN  Made(m, <<IF \A a \in {v, lo, hi} : IsInteger(m, a)
                     THEN IntegerCell(CDiv(x, 2)) ELSE FloatCell(x)>>)

------------------------------------------------------------------------------
(* hval_compare: by kind, in the order of HValKind, then by value; records *)
(* and lists of any contents compare equal.                                *)
KindOrder ==
  [integer |-> 0, float |-> 1, string |-> 2, boolean |-> 3, nothing |-> 4,
   record |-> 5, list |-> 6]

HvalCompare(m, a, b) ==
  LET x == m[a]  y == m[b] IN
  CASE x.kind # y.kind   -> KindOrder[x.kind] - KindOrder[y.kind]
    [] x.kind = "string" -> Rank(x.s) - Rank(y.s)
    [] OTHER             -> x.n - y.n

(* sort_by_cmp: the fields of two records; equal if one has none.          *)
FieldCompare(m, field, a, b) ==
  LET fa == FieldNamed(m, a, field)  fb == FieldNamed(m, b, field) IN
  IF fa = {} \/ fb = {} THEN 0
  ELSE HvalCompare(m, m[CHOOSE f \in fa : TRUE].head, m[CHOOSE f \in fb : TRUE].head)

(* qsort (external): a permutation in order, where equal elements may come *)
(* in any order; if the comparison is no order, any permutation.           *)
Sorted(items, cmp(_, _)) ==
  LET n == Len(items)
      Ordered(s) == \A i, j \in 1..n : i < j => cmp(s[i], s[j]) <= 0
      Consistent == \A i, j, k \in 1..n :
        cmp(items[i], items[j]) <= 0 /\ cmp(items[j], items[k]) <= 0
          => cmp(items[i], items[k]) <= 0
      all == {[i \in 1..n |-> items[p[i]]] : p \in Seqs!Injection(1..n, 1..n)}
  IN  {s \in all : Consistent => Ordered(s)}

SortedLists(m, sorted) == UNION {MadeList(m, Copies(m, s)) : s \in sorted}

Sort(m, list) ==
  OfList(m, list, LAMBDA items :
    SortedLists(m, Sorted(items, LAMBDA a, b : HvalCompare(m, a, b))))

SortBy(m, list, field) ==
  IF ~IsString(m, field) THEN Error
  ELSE OfList(m, list, LAMBDA items :
         SortedLists(m, Sorted(items,
           LAMBDA a, b : FieldCompare(m, m[field].s, a, b))))

Reverse(m, list) ==
  OfList(m, list, LAMBDA items :
    MadeList(m, Copies(m, [i \in DOMAIN items |-> items[Len(items) + 1 - i]])))

(* An element is kept if no element kept so far equals it.                 *)
Unique(m, list) ==
  OfList(m, list, LAMBDA items :
    LET kept[i \in 0..Len(items)] ==
          IF i = 0 THEN << >>
          ELSE LET k == kept[i - 1] IN
               IF \E j \in DOMAIN k : HvalEqual(m, k[j], items[i])
               THEN k ELSE Append(k, items[i])
    IN  MadeList(m, Copies(m, kept[Len(items)])))

Flatten(m, list) ==
  OfList(m, list, LAMBDA items :
    MadeList(m, Copies(m, Seqs!FlattenSeq(
      [i \in DOMAIN items |-> IF IsList(m, items[i]) THEN Members(m, items[i])
                              ELSE <<items[i]>>]))))

(* The pairs share the elements of both lists.                             *)
Pairs(m, as, bs) ==
  LET n == IF Len(as) < Len(bs) THEN Len(as) ELSE Len(bs)
      FieldAt(i) == Len(m) + n + 2 * i - 1
      pairs  == [i \in 1..n |-> RecordCell(FieldAt(i))]
      fields == [k \in 1..2 * n |->
                   IF k % 2 = 1
                   THEN [FieldCell("a", as[(k + 1) \div 2])
                           EXCEPT !.next = FieldAt((k + 1) \div 2) + 1]
                   ELSE FieldCell("b", bs[k \div 2])]
  IN  Made(m, Linked(m, pairs) \o fields \o <<ListCell(First(m, pairs))>>)

Zip(m, a, b) ==
  OfList(m, a, LAMBDA as : OfList(m, b, LAMBDA bs : Pairs(m, as, bs)))

RangeOf(m, start, end) ==
  IF ~IsInteger(m, start) \/ ~IsInteger(m, end) THEN Error
  ELSE LET s == m[start].n  e == m[end].n IN
       MadeList(m, [i \in 1..Abs(e - s) + 1 |->
                      IntegerCell(IF s <= e THEN s + i - 1 ELSE s - i + 1)])

Slice(m, list, start, end) ==
  IF ~IsInteger(m, start) \/ ~IsInteger(m, end) THEN Error
  ELSE OfList(m, list, LAMBDA items :
         LET from == IF m[start].n < 0 THEN 0 ELSE m[start].n
             to   == IF m[end].n > Len(items) THEN Len(items) ELSE m[end].n
         IN  MadeList(m, Copies(m, SubSeq(items, from + 1, to))))

------------------------------------------------------------------------------
Keys(m, record) ==
  OfRecord(m, record, LAMBDA fs :
    MadeList(m, [i \in DOMAIN fs |-> StringCell(m[fs[i]].s)]))

Values(m, record) ==
  OfRecord(m, record, LAMBDA fs :
    MadeList(m, Copies(m, [i \in DOMAIN fs |-> m[fs[i]].head])))

FieldCopies(m, at) == [i \in DOMAIN at |-> FieldCell(m[at[i]].s, m[at[i]].head)]

(* A field replaces the value of the first one of its name, or is added.   *)
Overlay(cells, f) ==
  LET same == {i \in DOMAIN cells : cells[i].s = f.s} IN
  IF same = {} THEN Append(cells, f)
  ELSE [i \in DOMAIN cells |->
          IF i \in same /\ \A j \in same : i <= j
          THEN [cells[i] EXCEPT !.head = f.head] ELSE cells[i]]

Merge(m, a, b) ==
  OfRecord(m, a, LAMBDA as : OfRecord(m, b, LAMBDA bs :
    LET all[i \in 0..Len(bs)] ==
          IF i = 0 THEN FieldCopies(m, as)
          ELSE Overlay(all[i - 1], FieldCell(m[bs[i]].s, m[bs[i]].head))
    IN  MadeRecord(m, all[Len(bs)])))

(* pick takes the fields in the order of the names, omit in the record's.  *)
Pick(m, record, fields) ==
  OfRecord(m, record, LAMBDA fs : OfList(m, fields, LAMBDA names :
    LET Named(a) == IF IsString(m, a) THEN FieldNamed(m, record, m[a].s) ELSE {}
    IN  MadeRecord(m, FieldCopies(m, Seqs!FlattenSeq(
          [i \in DOMAIN names |-> IF Named(names[i]) = {} THEN << >>
                                  ELSE <<CHOOSE f \in Named(names[i]) : TRUE>>])))))

Omit(m, record, fields) ==
  OfRecord(m, record, LAMBDA fs : OfList(m, fields, LAMBDA names :
    LET Named(f) == \E i \in DOMAIN names :
                      IsString(m, names[i]) /\ m[names[i]].s = m[f].s
    IN  MadeRecord(m, FieldCopies(m, Seqs!FlattenSeq(
          [i \in DOMAIN fs |-> IF Named(fs[i]) THEN << >> ELSE <<fs[i]>>])))))

------------------------------------------------------------------------------
Length(m, list, value) ==
  LET lengths == IF IsList(m, list) THEN {Len(Members(m, list))}
                 ELSE IF IsString(m, value) THEN {Len(m[value].s)} ELSE {}
  IN  UNION {Made(m, <<IntegerCell(n)>>) : n \in lengths \cap Nat}

(* A string is handed back itself.                                         *)
ToStringOf(m, v) ==
  IF KindAt(m, v) \in {"null", "list", "record"} THEN Error
  ELSE IF IsString(m, v) THEN Given(v)
  ELSE Made(m, <<StringCell(ValToStr(m, v))>>)

ToFloatOf(m, v) ==
  IF KindAt(m, v) \notin {"integer", "float", "string"} THEN Error
  ELSE Made(m, <<FloatCell(IF IsString(m, v) THEN ParseHalves(m[v].s)
                           ELSE ToDouble(m[v]))>>)

ToIntegerOf(m, v) ==
  IF KindAt(m, v) \notin {"integer", "float", "string"} THEN Error
  ELSE Made(m, <<IntegerCell(
         CASE IsString(m, v)  -> ParseInteger(m[v].s)
           [] IsInteger(m, v) -> m[v].n
           [] OTHER           -> CDiv(m[v].n, 2))>>)

(* fold of vm_stdlib.c: an empty list hands the initial value back.        *)
Fold(m, list, initial, fn) ==
  IF initial = NULL \/ ~IsString(m, fn) THEN Error
  ELSE OfList(m, list, LAMBDA items :
         LET op == IF m[fn].s = "add" THEN "ADD" ELSE "MUL"
             acc[i \in 0..Len(items)] ==
               IF i = 0 THEN m[initial]
               ELSE Arithmetic(op, acc[i - 1], m[items[i]])
         IN  IF items = << >> THEN Given(initial)
             ELSE IF m[fn].s \notin {"add", "multiply"} THEN Error
             ELSE Made(m, <<acc[Len(items)]>>))

------------------------------------------------------------------------------
(* vm_stdlib_table; the functions on text, dates and encodings are not     *)
(* here.                                                                   *)
FunctionIds ==
  ("length" :> 13 @@ "abs" :> 32 @@ "ceil" :> 33 @@ "floor" :> 34 @@ "round" :> 35
   @@ "min" :> 36 @@ "max" :> 37 @@ "clamp" :> 38)
  @@ ("sort" :> 48 @@ "sort-by" :> 49 @@ "reverse" :> 50 @@ "unique" :> 51
   @@ "flatten" :> 52 @@ "zip" :> 53 @@ "range" :> 54 @@ "slice" :> 55)
  @@ ("keys" :> 64 @@ "values" :> 65 @@ "merge" :> 66 @@ "pick" :> 67 @@ "omit" :> 68
   @@ "to-string" :> 240 @@ "to-float" :> 241 @@ "to-integer" :> 242 @@ "fold" :> 243)

(* f is the name of one of these functions; the last one is fold.          *)
Call(f, m, arg) ==
  CASE f \in {"abs", "ceil", "floor", "round"} -> Numeric(f, m, arg["value"])
    [] f \in {"min", "max"} -> Extreme(f, m, arg["a"], arg["b"])
    [] f = "clamp"      -> Clamp(m, arg["value"], arg["min"], arg["max"])
    [] f = "sort"       -> Sort(m, arg["list"])
    [] f = "sort-by"    -> SortBy(m, arg["list"], arg["field"])
    [] f = "reverse"    -> Reverse(m, arg["list"])
    [] f = "unique"     -> Unique(m, arg["list"])
    [] f = "flatten"    -> Flatten(m, arg["list"])
    [] f = "zip"        -> Zip(m, arg["a"], arg["b"])
    [] f = "range"      -> RangeOf(m, arg["start"], arg["end"])
    [] f = "slice"      -> Slice(m, arg["list"], arg["start"], arg["end"])
    [] f = "keys"       -> Keys(m, arg["record"])
    [] f = "values"     -> Values(m, arg["record"])
    [] f = "merge"      -> Merge(m, arg["a"], arg["b"])
    [] f = "pick"       -> Pick(m, arg["record"], arg["fields"])
    [] f = "omit"       -> Omit(m, arg["record"], arg["fields"])
    [] f = "length"     -> Length(m, arg["list"], arg["value"])
    [] f = "to-string"  -> ToStringOf(m, arg["value"])
    [] f = "to-float"   -> ToFloatOf(m, arg["value"])
    [] f = "to-integer" -> ToIntegerOf(m, arg["value"])
    [] OTHER            -> Fold(m, arg["list"], arg["initial"], arg["fn"])

(* min, max, clamp and fold take any value that is no float for an integer *)
(* and read its union accordingly: their answer is meant for numbers only. *)
ReadsAsNumbers(f, m, arg) ==
  LET used == CASE f \in {"min", "max"} -> {arg["a"], arg["b"]}
                [] f = "clamp" -> {arg["value"], arg["min"], arg["max"]}
                [] f = "fold"  -> {arg["initial"]} \cup
                     (IF IsList(m, arg["list"])
                      THEN {a \in Addr(m) : \E i \in DOMAIN Members(m, arg["list"]) :
                                              Members(m, arg["list"])[i] = a}
                      ELSE {})
                [] OTHER -> {}
  IN  \A a \in used : a # NULL => IsNumber(m[a])

==============================================================================
