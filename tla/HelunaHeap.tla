------------------------------ MODULE HelunaHeap ------------------------------
(***************************************************************************)
(* The values of the virtual machine as it holds them: HVal and HField     *)
(* objects in the arena, linked by pointers.  A memory is a sequence of    *)
(* cells and an address an index into it; 0 is the NULL pointer.           *)
(*                                                                         *)
(* Floats are held as a number of halves, and the order of strings is      *)
(* given by StringOrder, so that both stay finite; the rest of a cell is   *)
(* what the C structures hold.                                             *)
(***************************************************************************)
EXTENDS Integers, Sequences, TLC

CONSTANTS
  StringOrder,    \* bound: the strings compared by <, in strcmp order
  MaxNumeral      \* bound: the numbers a string may spell

NULL == 0

(* One cell stands for an HVal or, with kind "field", for an HField, whose *)
(* name is s and whose value pointer is head.                              *)
Cell(kind, n, s, head) ==
  [kind |-> kind, n |-> n, s |-> s, head |-> head, next |-> NULL]

IntegerCell(n)    == Cell("integer", n, "", NULL)
FloatCell(halves) == Cell("float", halves, "", NULL)
StringCell(s)     == Cell("string", 0, s, NULL)
BooleanCell(b)    == Cell("boolean", IF b THEN 1 ELSE 0, "", NULL)
NothingCell       == Cell("nothing", 0, "", NULL)
RecordCell(field) == Cell("record", 0, "", field)
ListCell(item)    == Cell("list", 0, "", item)
FieldCell(name, value) == Cell("field", 0, name, value)

Kinds == {"integer", "float", "string", "boolean", "nothing", "record",
          "list", "field"}

Addr(m)   == 1 .. Len(m)
KindAt(m, a) == IF a = NULL THEN "null" ELSE m[a].kind

(* *item = *val with item->next = NULL; an absent value becomes nothing.   *)
CopyCell(m, a) == IF a = NULL THEN NothingCell ELSE [m[a] EXCEPT !.next = NULL]

------------------------------------------------------------------------------
(* The cells a pointer reaches through next, in order.                     *)
Chain(m, start) ==
  LET chain[a \in 0 .. Len(m)] ==
        IF a = NULL THEN << >> ELSE <<a>> \o chain[m[a].next]
  IN  chain[start]

Members(m, a) == Chain(m, m[a].head)

(* record_get_field: the first field of that name, as a set of at most one *)
(* address (empty when a is not a record, or has no such field).           *)
FieldNamed(m, a, name) ==
  LET First(fields) == {i \in DOMAIN fields :
                          /\ m[fields[i]].s = name
                          /\ \A j \in 1 .. i - 1 : m[fields[j]].s # name}
  IN  IF KindAt(m, a) # "record" THEN {}
      ELSE UNION {{fields[i] : i \in First(fields)} : fields \in {Members(m, a)}}

(* The element a walk of idx steps stops at: a negative index stops at the *)
(* first one; empty when the list is too short.                            *)
ElementAt(m, a, idx) ==
  LET items == Members(m, a)
      i     == IF idx < 0 THEN 0 ELSE idx
  IN  {e \in Addr(m) : i < Len(items) /\ items[i + 1] = e}

(* Walk to the last cell of a non-empty chain.                             *)
LastOf(m, start) ==
  LET cells == Chain(m, start) IN {e \in Addr(m) : e = cells[Len(cells)]}

------------------------------------------------------------------------------
IsNumber(c) == c.kind \in {"integer", "float"}
IsTrue(m, a) == KindAt(m, a) = "boolean" /\ m[a].n = 1

ToDouble(c) == IF c.kind = "integer" THEN 2 * c.n ELSE c.n

Abs(n)  == IF n < 0 THEN -n ELSE n
Sign(n) == IF n < 0 THEN -1 ELSE 1

(* C's integer division and remainder, which truncate toward zero.         *)
CDiv(a, b) == Sign(a) * Sign(b) * (Abs(a) \div Abs(b))
CMod(a, b) == Sign(a) * (Abs(a) % Abs(b))

IntegerOp(op, a, b) ==
  CASE op = "ADD" -> a + b
    [] op = "SUB" -> a - b
    [] op = "MUL" -> a * b
    [] op = "DIV" -> CDiv(a, b)
    [] op = "MOD" -> CMod(a, b)

(* The same on halves; fmod by zero gives NaN in C, which halves cannot    *)
(* hold: it is 0 here, and no program of the runs takes it.                *)
FloatOp(op, a, b) ==
  CASE op = "ADD" -> a + b
    [] op = "SUB" -> a - b
    [] op = "MUL" -> CDiv(a * b, 2)
    [] op = "DIV" -> CDiv(2 * a, b)
    [] op = "MOD" -> IF b = 0 THEN 0 ELSE CMod(a, b)

Arithmetic(op, a, b) ==
  IF a.kind = "integer" /\ b.kind = "integer"
  THEN IntegerCell(IntegerOp(op, a.n, b.n))
  ELSE FloatCell(FloatOp(op, ToDouble(a), ToDouble(b)))

(* DIV rejects a zero divisor of either kind, MOD only an integer one when *)
(* both operands are integers.                                             *)
ArithmeticFails(op, a, b) ==
  \/ ~IsNumber(a) \/ ~IsNumber(b)
  \/ op = "DIV" /\ b.n = 0
  \/ op = "MOD" /\ a.kind = "integer" /\ b.kind = "integer" /\ b.n = 0

Rank(s) == CHOOSE i \in DOMAIN StringOrder : StringOrder[i] = s

Comparable(a, b) ==
  \/ IsNumber(a) /\ IsNumber(b)
  \/ a.kind = "string" /\ b.kind = "string"

Holds(op, a, b) ==
  LET x == IF IsNumber(a) THEN ToDouble(a) ELSE Rank(a.s)
      y == IF IsNumber(b) THEN ToDouble(b) ELSE Rank(b.s)
  IN  CASE op = "LT"  -> x < y
        [] op = "GT"  -> x > y
        [] op = "LTE" -> x <= y
        [] op = "GTE" -> x >= y

(* hval_equal on two pointers: identity, then kind, then contents.  A      *)
(* record is compared field by field of the first against the second.      *)
HvalEqual(m, a, b) ==
  LET eq[p \in (0 .. Len(m)) \X (0 .. Len(m))] ==
        LET x == p[1]  y == p[2] IN
        \/ x = y
        \/ /\ x # NULL /\ y # NULL
           /\ m[x].kind = m[y].kind
           /\ CASE m[x].kind = "record" ->
                     LET xs == Members(m, x) IN
                     /\ Len(xs) = Len(Members(m, y))
                     /\ \A i \in DOMAIN xs :
                          \E f \in FieldNamed(m, y, m[xs[i]].s) :
                            /\ m[f].head # NULL
                            /\ eq[<<m[xs[i]].head, m[f].head>>]
                [] m[x].kind = "list" ->
                     LET xs == Members(m, x)  ys == Members(m, y) IN
                     /\ Len(xs) = Len(ys)
                     /\ \A i \in DOMAIN xs : eq[<<xs[i], ys[i]>>]
                [] OTHER -> m[x].n = m[y].n /\ m[x].s = m[y].s
  IN  eq[<<a, b>>]

HalvesToString(n) ==
  (IF n < 0 THEN "-" ELSE "") \o ToString(Abs(n) \div 2)
     \o (IF Abs(n) % 2 = 1 THEN ".5" ELSE ".0")

(* val_to_str                                                              *)
ValToStr(m, a) ==
  CASE KindAt(m, a) \in {"null", "nothing"} -> "nothing"
    [] KindAt(m, a) = "string"  -> m[a].s
    [] KindAt(m, a) = "integer" -> ToString(m[a].n)
    [] KindAt(m, a) = "float"   -> HalvesToString(m[a].n)
    [] KindAt(m, a) = "boolean" -> IF m[a].n = 1 THEN "true" ELSE "false"
    [] OTHER -> "<value>"

StartsWith(s, t) == Len(t) <= Len(s) /\ SubSeq(s, 1, Len(t)) = t

(* strtoll and strtod: the number the longest numeral at the start of s    *)
(* spells, 0 if there is none (no blanks, exponents or leading zeros).     *)
ParseInteger(s) ==
  LET spelled == {n \in -MaxNumeral .. MaxNumeral : StartsWith(s, ToString(n))}
      longest == {n \in spelled : \A k \in spelled :
                    Len(ToString(k)) <= Len(ToString(n))}
  IN  IF longest = {} THEN 0 ELSE CHOOSE n \in longest : TRUE

ParseHalves(s) ==
  LET spelled == {h \in -MaxNumeral .. MaxNumeral :
                    StartsWith(s, HalvesToString(h))}
      longest == {h \in spelled : \A k \in spelled :
                    Len(HalvesToString(k)) <= Len(HalvesToString(h))}
  IN  IF longest = {} THEN 2 * ParseInteger(s) ELSE CHOOSE h \in longest : TRUE

------------------------------------------------------------------------------
(* No value is part of itself: what a list, a record or a field leads to   *)
(* ranks lower, the cells of a chain no higher than its first.             *)
Ranks(m, rank) ==
  \A a \in Addr(m) :
    /\ m[a].head # NULL => rank[m[a].head] < rank[a]
    /\ m[a].next # NULL => rank[m[a].next] <= rank[a]

(* How deep a cell is nested, by which values without loops are ranked.    *)
Depths(m) ==
  LET deep[a \in 0 .. Len(m)] ==
        IF a = NULL THEN 0
        ELSE LET below == deep[m[a].head] + 1  behind == deep[m[a].next]
             IN  IF below > behind THEN below ELSE behind
  IN  deep

(* What a pointer means: the value with its sharing forgotten.             *)
Reify(m, start) ==
  LET value[a \in 0 .. Len(m)] ==
        [kind   |-> KindAt(m, a),
         n      |-> IF a = NULL THEN 0 ELSE m[a].n,
         s      |-> IF a = NULL THEN "" ELSE m[a].s,
         items  |-> IF KindAt(m, a) # "list" THEN << >>
                    ELSE LET xs == Members(m, a)
                         IN  [i \in DOMAIN xs |-> value[xs[i]]],
         fields |-> IF KindAt(m, a) # "record" THEN << >>
                    ELSE LET fs == Members(m, a)
                         IN  [i \in DOMAIN fs |->
                                [name |-> m[fs[i]].s, value |-> value[m[fs[i]].head]]]]
  IN  value[start]

==============================================================================
