------------------------- MODULE HelunaLibrary_proofs -------------------------
(*****************************************************************************)
(* Proofs about HelunaLibrary.tla: called on a memory whose pointers all     *)
(* lead to cells, a library function adds cells whose pointers do, and       *)
(* answers with one of those or with a value it was given; no cell it adds   *)
(* is part of itself.                                                        *)
(*                                                                           *)
(* The machine reaches the library as Library!..., which carries its own     *)
(* copy of the operators of HelunaHeap; the first lemmas identify the two.   *)
(*****************************************************************************)
EXTENDS HelunaVm, HelunaHeap_proofs

LEMMA SameKindAt == \A m, a : Library!KindAt(m, a) = KindAt(m, a)
  BY DEF Library!KindAt, KindAt, NULL, Library!NULL

LEMMA SameChain == \A m, a : Library!Chain(m, a) = Chain(m, a)
  BY DEF Library!Chain, Chain, NULL, Library!NULL

LEMMA SameMembers == \A m, a : Library!Members(m, a) = Members(m, a)
  BY SameChain DEF Library!Members, Members

LEMMA SameFieldNamed ==
  \A m, a, name : Library!FieldNamed(m, a, name) = FieldNamed(m, a, name)
  BY SameKindAt, SameMembers DEF Library!FieldNamed, FieldNamed

LEMMA SameCell == \A k, n, s, h : Library!Cell(k, n, s, h) = Cell(k, n, s, h)
  BY DEF Library!Cell, Cell, Library!NULL, NULL

LEMMA SameCopyCell == \A m, a : Library!CopyCell(m, a) = CopyCell(m, a)
  BY SameCell DEF Library!CopyCell, CopyCell, Library!NothingCell, NothingCell,
                  Library!NULL, NULL

------------------------------------------------------------------------------
(* The values V and the fields F of a part of a memory that is not left by *)
(* way of a list, a record or a field.                                     *)
Region(m, V, F) ==
  /\ V \subseteq 1 .. Len(m) /\ F \subseteq 1 .. Len(m)
  /\ \A a \in V : /\ KindAt(m, a) = "list" => Members(m, a) \in Seq(V)
                  /\ KindAt(m, a) = "record" => Members(m, a) \in Seq(F)
  /\ \A f \in F : m[f].head \in V \cup {0}

Scalar(c) ==
  \E kind \in {"integer", "float", "string"}, n \in Int : \E s : c = Cell(kind, n, s, 0)

ScalarItems(items) ==
  IsSequence(items) /\ \A i \in 1 .. Len(items) : Scalar(items[i])

(* New fields, for values that fields of F hold.                           *)
NewFields(m, F) ==
  [kind : {"field"}, n : {0}, s : {m[f].s : f \in F}, head : {m[f].head : f \in F},
   next : {0}]

(* What a function called with values of a region answers with.            *)
Form(m, V, F, r) ==
  \/ \E a \in V : r \in Library!Given(a) \cup Library!Made(m, <<CopyCell(m, a)>>)
  \/ \E c : Scalar(c) /\ r \in Library!Made(m, <<c>>)
  \/ \E at \in Seq(V \cup {0}) : r \in Library!MadeList(m, Library!Copies(m, at))
  \/ \E items : ScalarItems(items) /\ r \in Library!MadeList(m, items)
  \/ \E fields \in Seq(NewFields(m, F)) : r \in Library!MadeRecord(m, fields)
  \/ \E ls \in Seq(V), rs \in Seq(V) : r \in Library!Pairs(m, ls, rs)

LEMMA OneForm ==
  ASSUME NEW m, NEW V, NEW F
  PROVE  /\ \A a \in V : \A r \in Library!Given(a) : Form(m, V, F, r)
         /\ \A a \in V : \A r \in Library!Made(m, <<CopyCell(m, a)>>) : Form(m, V, F, r)
         /\ \A c : Scalar(c) => \A r \in Library!Made(m, <<c>>) : Form(m, V, F, r)
  BY DEF Form

LEMMA ListForm ==
  ASSUME NEW m, NEW V, NEW F
  PROVE  /\ \A at \in Seq(V \cup {0}) :
              \A r \in Library!MadeList(m, Library!Copies(m, at)) : Form(m, V, F, r)
         /\ \A items : ScalarItems(items) =>
              \A r \in Library!MadeList(m, items) : Form(m, V, F, r)
  BY DEF Form

LEMMA RecordForm ==
  ASSUME NEW m, NEW V, NEW F, NEW fields \in Seq(NewFields(m, F))
  PROVE  \A r \in Library!MadeRecord(m, fields) : Form(m, V, F, r)
  BY DEF Form

LEMMA PairsForm ==
  ASSUME NEW m, NEW V, NEW F, NEW ls \in Seq(V), NEW rs \in Seq(V)
  PROVE  \A r \in Library!Pairs(m, ls, rs) : Form(m, V, F, r)
  BY DEF Form

LEMMA RegionFact ==
  ASSUME NEW m, IsMemory(m), NEW V, NEW F, Region(m, V, F), NEW a \in V \cup {0}
  PROVE  /\ a \in 0 .. Len(m) /\ Len(m) \in Nat
         /\ a # 0 => a \in V /\ a \in 1 .. Len(m)
  BY SequenceFact DEF IsMemory, Region

(* The elements of a list of the region.                                   *)
LEMMA ListFact ==
  ASSUME NEW m, IsMemory(m), NEW V, NEW F, Region(m, V, F), NEW a \in V \cup {0},
         KindAt(m, a) = "list"
  PROVE  /\ Members(m, a) \in Seq(V) /\ Members(m, a) \in Seq(V \cup {0})
         /\ Len(Members(m, a)) \in Nat
         /\ \A i \in 1 .. Len(Members(m, a)) : Members(m, a)[i] \in V
<1>1. a \in V
  BY DEF KindAt, NULL
<1>2. Members(m, a) \in Seq(V) /\ V \subseteq V \cup {0}
  BY <1>1 DEF Region
<1>3. Members(m, a) \in Seq(V \cup {0})
  BY <1>2, SeqMonotonic, Zenon
<1> DEFINE s == Members(m, a)
<1> HIDE DEF s
<1>4. s \in Seq(V) => Len(s) \in Nat /\ \A i \in 1 .. Len(s) : s[i] \in V
  OBVIOUS
<1>5. QED
  BY <1>2, <1>3, <1>4 DEF s

(* The fields of a record of the region.                                   *)
LEMMA RecordFact ==
  ASSUME NEW m, IsMemory(m), NEW V, NEW F, Region(m, V, F), NEW a \in V \cup {0},
         KindAt(m, a) = "record"
  PROVE  /\ Members(m, a) \in Seq(F)
         /\ Len(Members(m, a)) \in Nat
         /\ \A i \in 1 .. Len(Members(m, a)) : Members(m, a)[i] \in F
<1>1. a \in V
  BY DEF KindAt, NULL
<1>2. Members(m, a) \in Seq(F)
  BY <1>1 DEF Region
<1> DEFINE s == Members(m, a)
<1> HIDE DEF s
<1>4. s \in Seq(F) => Len(s) \in Nat /\ \A i \in 1 .. Len(s) : s[i] \in F
  OBVIOUS
<1>5. QED
  BY <1>2, <1>4 DEF s

(* A function on 1 .. n whose values are scalars is a sequence of them.    *)
LEMMA ScalarsFact ==
  ASSUME NEW n \in Nat, NEW f, f = [i \in 1 .. n |-> f[i]],
         \A i \in 1 .. n : Scalar(f[i])
  PROVE  ScalarItems(f)
  BY FunctionFact DEF ScalarItems

------------------------------------------------------------------------------
(* Functions that answer with one new cell.                                *)
LEMMA NewScalar ==
  ASSUME NEW n \in Int, NEW s
  PROVE  /\ Scalar(Library!IntegerCell(n)) /\ Scalar(Library!FloatCell(n))
         /\ Scalar(Library!StringCell(s))
<1>1. /\ Library!IntegerCell(n) = Cell("integer", n, "", 0)
      /\ Library!FloatCell(n) = Cell("float", n, "", 0)
      /\ Library!StringCell(s) = Cell("string", 0, s, 0)
  BY SameCell DEF Library!IntegerCell, Library!FloatCell, Library!StringCell,
                  Library!NULL
<1>2. 0 \in Int
  OBVIOUS
<1>3. QED
  BY <1>1, <1>2 DEF Scalar

(* The operators on numbers are those of HelunaHeap.                       *)
LEMMA SameNumbers ==
  /\ \A n : Library!Abs(n) = Abs(n) /\ Library!Sign(n) = Sign(n)
  /\ \A a, b : Library!CDiv(a, b) = CDiv(a, b)
  /\ \A c : Library!ToDouble(c) = ToDouble(c)
  BY DEF Library!Abs, Abs, Library!Sign, Sign, Library!CDiv, CDiv,
         Library!ToDouble, ToDouble

LEMMA SameParsers ==
  /\ \A s : Library!ParseInteger(s) = ParseInteger(s)
  /\ \A s : Library!ParseHalves(s) = ParseHalves(s)
<1>1. \A s : Library!ParseInteger(s) = ParseInteger(s)
  BY DEF Library!ParseInteger, ParseInteger, Library!StartsWith, StartsWith
<1>2. \A s : Library!ParseHalves(s) = ParseHalves(s)
  BY DEF Library!ParseHalves, ParseHalves, Library!StartsWith, StartsWith,
         Library!HalvesToString, HalvesToString, Library!Abs, Abs,
         Library!ParseInteger, ParseInteger
<1>3. QED
  BY <1>1, <1>2

LEMMA NumberAt ==
  ASSUME NEW m, IsMemory(m), NEW V, NEW F, Region(m, V, F), NEW a \in V \cup {0}, a # 0
  PROVE  /\ a \in V /\ a \in 1 .. Len(m) /\ m[a].n \in Int /\ m[a].kind \in Kinds
         /\ ToDouble(m[a]) \in Int
<1>1. a \in V /\ a \in 1 .. Len(m)
  BY RegionFact
<1>2. m[a].n \in Int /\ m[a].kind \in Kinds
  BY <1>1, CellFact
<1>3. QED
  BY <1>1, <1>2 DEF ToDouble

LEMMA IntegerAt ==
  ASSUME NEW m, IsMemory(m), NEW V, NEW F, Region(m, V, F), NEW a \in V \cup {0}, Library!IsInteger(m, a)
  PROVE  m[a].n \in Int
<1>1. a # 0
  BY SameKindAt DEF Library!IsInteger, KindAt, NULL
<1>2. QED
  BY <1>1, NumberAt

LEMMA RoundedNumber ==
  ASSUME NEW h \in Int, NEW f \in {"ceil", "floor", "round"}
  PROVE  Library!Rounded(f, h) \in Int
<1>1. Abs(h) \in Int /\ Sign(h) \in {-1, 1}
  BY DEF Abs, Sign
<1>2. (-h) \div 2 \in Int /\ h \div 2 \in Int /\ (Abs(h) + 1) \div 2 \in Int
  BY <1>1
<1>3. \A x \in Int, s \in {-1, 1} : s * x \in Int /\ -x \in Int
  OBVIOUS
<1>4. QED
  BY <1>1, <1>2, <1>3, SameNumbers DEF Library!Rounded

LEMMA NumericForm ==
  ASSUME NEW m, IsMemory(m), NEW V, NEW F, Region(m, V, F), NEW f \in {"abs", "ceil", "floor", "round"},
         NEW v \in V \cup {0}
  PROVE  \A r \in Library!Numeric(f, m, v) : Form(m, V, F, r)
<1>1. CASE v = 0 \/ ~Library!IsNumber(m[v])
  BY <1>1 DEF Library!Numeric, Library!Error, Library!NULL
<1>2. CASE v # 0 /\ Library!IsNumber(m[v])
  <2>1. m[v].kind \in {"integer", "float"} /\ m[v].n \in Int
    BY <1>2, NumberAt DEF Library!IsNumber
  <2>2. CASE f = "abs"
    <3>1. Abs(m[v].n) \in Int
      BY <2>1 DEF Abs
    <3>2. Library!Numeric(f, m, v) =
            Library!Made(m, <<Library!Cell(m[v].kind, Abs(m[v].n), "", 0)>>)
      BY <1>2, <2>2, SameNumbers DEF Library!Numeric, Library!NULL
    <3>3. Scalar(Library!Cell(m[v].kind, Abs(m[v].n), "", 0))
      BY <2>1, <3>1, SameCell DEF Scalar
    <3>4. QED
      BY <3>2, <3>3, OneForm
  <2>3. CASE f # "abs"
    <3>1. Library!Rounded(f, m[v].n) \in Int
      BY <2>1, <2>3, RoundedNumber
    <3>2. \E n \in Int : Library!Numeric(f, m, v) =
                           Library!Made(m, <<Library!IntegerCell(n)>>)
      BY <1>2, <2>1, <2>3, <3>1 DEF Library!Numeric, Library!NULL
    <3>3. QED
      BY <3>2, NewScalar, OneForm
  <2>4. QED
    BY <2>2, <2>3
<1>3. QED
  BY <1>1, <1>2

LEMMA ExtremeForm ==
  ASSUME NEW m, IsMemory(m), NEW V, NEW F, Region(m, V, F), NEW f, NEW a \in V \cup {0}, NEW b \in V \cup {0}
  PROVE  \A r \in Library!Extreme(f, m, a, b) : Form(m, V, F, r)
<1>1. CASE a = 0 \/ b = 0
  BY <1>1 DEF Library!Extreme, Library!Error, Library!NULL
<1>2. CASE a # 0 /\ b # 0
  <2>1. \E kept \in {a, b} :
          Library!Extreme(f, m, a, b) = Library!Made(m, <<CopyCell(m, kept)>>)
    BY <1>2, SameCopyCell DEF Library!Extreme, Library!NULL
  <2>2. QED
    BY <1>2, <2>1, OneForm
<1>3. QED
  BY <1>1, <1>2

LEMMA ClampForm ==
  ASSUME NEW m, IsMemory(m), NEW V, NEW F, Region(m, V, F), NEW v \in V \cup {0}, NEW lo \in V \cup {0}, NEW hi \in V \cup {0}
  PROVE  \A r \in Library!Clamp(m, v, lo, hi) : Form(m, V, F, r)
<1>1. CASE 0 \in {v, lo, hi}
  BY <1>1 DEF Library!Clamp, Library!Error, Library!NULL
<1>2. CASE 0 \notin {v, lo, hi}
  <2> DEFINE x == Library!Clamped(ToDouble(m[v]), ToDouble(m[lo]), ToDouble(m[hi]))
  <2>1. ToDouble(m[v]) \in Int /\ ToDouble(m[lo]) \in Int /\ ToDouble(m[hi]) \in Int
    BY <1>2, NumberAt
  <2>2. x \in Int
    BY <2>1 DEF Library!Clamped
  <2>3. CDiv(x, 2) \in Int
    <3> HIDE DEF x
    <3>1. QED
      BY <2>2, Halved
  <2>4. \E c \in {Library!IntegerCell(CDiv(x, 2)), Library!FloatCell(x)} :
          Library!Clamp(m, v, lo, hi) = Library!Made(m, <<c>>)
    BY <1>2, SameNumbers DEF Library!Clamp, Library!NULL
  <2>5. QED
    BY <2>2, <2>3, <2>4, NewScalar, OneForm
<1>3. QED
  BY <1>1, <1>2

LEMMA ConversionsForm ==
  ASSUME NEW m, IsMemory(m), NEW V, NEW F, Region(m, V, F), NEW v \in V \cup {0}
  PROVE  /\ \A r \in Library!ToStringOf(m, v) : Form(m, V, F, r)
         /\ \A r \in Library!ToFloatOf(m, v) : Form(m, V, F, r)
         /\ \A r \in Library!ToIntegerOf(m, v) : Form(m, V, F, r)
<1>1. \/ Library!ToStringOf(m, v) = {}
      \/ v \in V /\ Library!ToStringOf(m, v) = Library!Given(v)
      \/ \E s : Library!ToStringOf(m, v) = Library!Made(m, <<Library!StringCell(s)>>)
  <2>1. v # 0 => v \in V
    OBVIOUS
  <2>2. v = 0 => KindAt(m, v) = "null"
    BY DEF KindAt, NULL
  <2>3. QED
    BY <2>1, <2>2, SameKindAt DEF Library!ToStringOf, Library!Error
<1>2. CASE KindAt(m, v) \notin {"integer", "float", "string"}
  <2>1. Library!ToFloatOf(m, v) = {} /\ Library!ToIntegerOf(m, v) = {}
    BY <1>2, SameKindAt DEF Library!ToFloatOf, Library!ToIntegerOf, Library!Error
  <2>2. 0 \in Int
    OBVIOUS
  <2>3. QED
    BY <1>1, <2>1, <2>2, NewScalar, OneForm
<1>3. CASE KindAt(m, v) \in {"integer", "float", "string"}
  <2>1. v # 0
    BY <1>3 DEF KindAt, NULL
  <2>2. m[v].n \in Int /\ ToDouble(m[v]) \in Int
    BY <2>1, NumberAt
  <2>3. CDiv(m[v].n, 2) \in Int
    BY <2>2, Halved
  <2>4. \E n \in Int : Library!ToFloatOf(m, v) =
                         Library!Made(m, <<Library!FloatCell(n)>>)
    BY <1>3, <2>2, ParsedNumbers, SameParsers, SameKindAt, SameNumbers
       DEF Library!ToFloatOf
  <2>5. \E n \in Int : Library!ToIntegerOf(m, v) =
                         Library!Made(m, <<Library!IntegerCell(n)>>)
    BY <1>3, <2>2, <2>3, ParsedNumbers, SameParsers, SameKindAt, SameNumbers
       DEF Library!ToIntegerOf
  <2>6. QED
    BY <1>1, <2>4, <2>5, NewScalar, OneForm
<1>4. QED
  BY <1>2, <1>3

LEMMA LengthForm ==
  ASSUME NEW m, NEW V, NEW F, NEW list, NEW v
  PROVE  \A r \in Library!Length(m, list, v) : Form(m, V, F, r)
<1>1. PICK S \in SUBSET Nat :
        Library!Length(m, list, v) = UNION {Library!Made(m, <<Library!IntegerCell(n)>>) : n \in S}
  BY DEF Library!Length
<1>2. ASSUME NEW r \in Library!Length(m, list, v) PROVE Form(m, V, F, r)
  <2>1. PICK n \in S : r \in Library!Made(m, <<Library!IntegerCell(n)>>)
    BY <1>1
  <2>2. n \in Int
    BY <1>1
  <2>3. QED
    BY <2>1, <2>2, NewScalar, OneForm
<1>3. QED
  BY <1>2


------------------------------------------------------------------------------
(* Functions of the elements of a list.                                    *)
LEMMA SortedListsForm ==
  ASSUME NEW m, NEW V, NEW F, NEW sorted, sorted \subseteq Seq(V \cup {0})
  PROVE  \A r \in Library!SortedLists(m, sorted) : Form(m, V, F, r)
  BY ListForm DEF Library!SortedLists

(* A rearrangement of the elements of a sequence of addresses.             *)
LEMMA Rearranged ==
  ASSUME NEW n \in Nat, NEW A, NEW items \in Seq(A), NEW k \in Nat,
         NEW p \in [1 .. k -> 1 .. Len(items)]
  PROVE  [i \in 1 .. k |-> items[p[i]]] \in Seq(A)
<1>1. [i \in 1 .. k |-> items[p[i]]] \in [1 .. k -> A]
  OBVIOUS
<1>2. QED
  BY <1>1

LEMMA FunctionSequence ==
  ASSUME NEW n \in Nat, NEW A, NEW f \in [1 .. n -> A]
  PROVE  f \in Seq(A)
  OBVIOUS

LEMMA SortForm ==
  ASSUME NEW m, IsMemory(m), NEW V, NEW F, Region(m, V, F), NEW list \in V \cup {0}
  PROVE  \A r \in Library!Sort(m, list) : Form(m, V, F, r)
<1>1. CASE KindAt(m, list) # "list"
  BY <1>1, SameKindAt DEF Library!Sort, Library!OfList, Library!Error
<1>2. CASE KindAt(m, list) = "list"
  <2> DEFINE items == Members(m, list)
             sorted == Library!Sorted(items, LAMBDA a, b : Library!HvalCompare(m, a, b))
  <2>1. sorted \subseteq {[i \in 1 .. Len(items) |-> items[p[i]]] :
                            p \in [1 .. Len(items) -> 1 .. Len(items)]}
    BY DEF Library!Sorted, Library!Seqs!Injection
  <2>2. items \in Seq(V \cup {0}) /\ Len(items) \in Nat
    BY <1>2, ListFact
  <2>3. Library!Sort(m, list) = Library!SortedLists(m, sorted)
    BY <1>2, SameKindAt, SameMembers DEF Library!Sort, Library!OfList
  <2> HIDE DEF items, sorted
  <2>4. ASSUME NEW s \in sorted PROVE s \in Seq(V \cup {0})
    <3>1. PICK p \in [1 .. Len(items) -> 1 .. Len(items)] :
            s = [i \in 1 .. Len(items) |-> items[p[i]]]
      BY <2>1
    <3>2. QED
      BY <2>2, <3>1, Rearranged
  <2>5. QED
    BY <2>3, <2>4, SortedListsForm
<1>3. QED
  BY <1>1, <1>2

LEMMA SortByForm ==
  ASSUME NEW m, IsMemory(m), NEW V, NEW F, Region(m, V, F), NEW list \in V \cup {0}, NEW field
  PROVE  \A r \in Library!SortBy(m, list, field) : Form(m, V, F, r)
<1>1. CASE ~Library!IsString(m, field)
  BY <1>1 DEF Library!SortBy, Library!Error
<1>2. CASE KindAt(m, list) # "list"
  BY <1>2, SameKindAt DEF Library!SortBy, Library!OfList, Library!Error
<1>3. CASE Library!IsString(m, field) /\ KindAt(m, list) = "list"
  <2> DEFINE items == Members(m, list)
             sorted == Library!Sorted(items,
                         LAMBDA a, b : Library!FieldCompare(m, m[field].s, a, b))
  <2>1. sorted \subseteq {[i \in 1 .. Len(items) |-> items[p[i]]] :
                            p \in [1 .. Len(items) -> 1 .. Len(items)]}
    BY DEF Library!Sorted, Library!Seqs!Injection
  <2>2. items \in Seq(V \cup {0}) /\ Len(items) \in Nat
    BY <1>3, ListFact
  <2>3. Library!SortBy(m, list, field) = Library!SortedLists(m, sorted)
    BY <1>3, SameKindAt, SameMembers DEF Library!SortBy, Library!OfList
  <2> HIDE DEF items, sorted
  <2>4. ASSUME NEW s \in sorted PROVE s \in Seq(V \cup {0})
    <3>1. PICK p \in [1 .. Len(items) -> 1 .. Len(items)] :
            s = [i \in 1 .. Len(items) |-> items[p[i]]]
      BY <2>1
    <3>2. QED
      BY <2>2, <3>1, Rearranged
  <2>5. QED
    BY <2>3, <2>4, SortedListsForm
<1>4. QED
  BY <1>1, <1>2, <1>3

LEMMA ReverseForm ==
  ASSUME NEW m, IsMemory(m), NEW V, NEW F, Region(m, V, F), NEW list \in V \cup {0}
  PROVE  \A r \in Library!Reverse(m, list) : Form(m, V, F, r)
<1>1. CASE KindAt(m, list) # "list"
  BY <1>1, SameKindAt DEF Library!Reverse, Library!OfList, Library!Error
<1>2. CASE KindAt(m, list) = "list"
  <2> DEFINE items == Members(m, list)  n == Len(items)
             back == [i \in DOMAIN items |-> items[n + 1 - i]]
  <2>1. Library!Reverse(m, list) = Library!MadeList(m, Library!Copies(m, back))
    BY <1>2, SameKindAt, SameMembers DEF Library!Reverse, Library!OfList
  <2>2. items \in Seq(V \cup {0}) /\ n \in Nat
    BY <1>2, ListFact
  <2> HIDE DEF items
  <2>3. back \in [1 .. n -> V \cup {0}]
    BY <2>2
  <2>4. back \in Seq(V \cup {0})
    BY <2>2, <2>3
  <2>5. QED
    BY <2>1, <2>4, ListForm
<1>3. QED
  BY <1>1, <1>2

LEMMA SliceForm ==
  ASSUME NEW m, IsMemory(m), NEW V, NEW F, Region(m, V, F), NEW list \in V \cup {0},
         NEW start \in V \cup {0}, NEW end \in V \cup {0}
  PROVE  \A r \in Library!Slice(m, list, start, end) : Form(m, V, F, r)
<1>1. CASE ~Library!IsInteger(m, start) \/ ~Library!IsInteger(m, end)
  BY <1>1 DEF Library!Slice, Library!Error
<1>2. CASE KindAt(m, list) # "list"
  BY <1>2, SameKindAt DEF Library!Slice, Library!OfList, Library!Error
<1>3. CASE /\ Library!IsInteger(m, start) /\ Library!IsInteger(m, end)
           /\ KindAt(m, list) = "list"
  <2> DEFINE items == Members(m, list)
             from == IF m[start].n < 0 THEN 0 ELSE m[start].n
             to   == IF m[end].n > Len(items) THEN Len(items) ELSE m[end].n
  <2>1. Library!Slice(m, list, start, end) =
          Library!MadeList(m, Library!Copies(m, SubSeq(items, from + 1, to)))
    BY <1>3, SameKindAt, SameMembers DEF Library!Slice, Library!OfList
  <2>2. items \in Seq(V \cup {0}) /\ Len(items) \in Nat
    BY <1>3, ListFact
  <2>3. from \in Nat /\ to \in Int /\ to <= Len(items)
    <3>1. m[start].n \in Int /\ m[end].n \in Int
      BY <1>3, IntegerAt
    <3> HIDE DEF items
    <3>2. QED
      BY <2>2, <3>1
  <2> HIDE DEF items, from, to
  <2>4. SubSeq(items, from + 1, to) \in Seq(V \cup {0})
    <3>1. \A i \in (from + 1) .. to : items[i] \in V \cup {0}
      BY <2>2, <2>3
    <3>2. from + 1 \in Int
      BY <2>3
    <3>3. QED
      BY <2>3, <3>1, <3>2, SubSeqProperties
  <2>5. QED
    BY <2>1, <2>4, ListForm
<1>4. QED
  BY <1>1, <1>2, <1>3
------------------------------------------------------------------------------
(* FlattenSeq of sequences over A is a sequence over A.                    *)
LEMMA FlattenFact ==
  ASSUME NEW A, NEW parts \in Seq(Seq(A))
  PROVE  Library!Seqs!FlattenSeq(parts) \in Seq(A)
<1> DEFINE n == Len(parts)
           R(f) == f = [i \in 1 .. n |-> IF i = 1 THEN parts[i] ELSE f[i - 1] \o parts[i]]
           c == CHOOSE f : R(f)
<1>1. n \in Nat /\ \A i \in 1 .. n : parts[i] \in Seq(A)
  OBVIOUS
<1>2. CASE n = 0
  <2>1. Library!Seqs!FlattenSeq(parts) = << >>
    BY <1>2 DEF Library!Seqs!FlattenSeq
  <2>2. QED
    BY <2>1
<1>3. CASE n # 0
  <2>1. Library!Seqs!FlattenSeq(parts) = c[n]
    BY <1>3 DEF Library!Seqs!FlattenSeq
  <2> DEFINE G == [x \in Seq(A) \X (1 + 1 .. n) |-> x[1] \o parts[x[2]]]
  <2> HIDE DEF n
  <2>2. G \in [Seq(A) \X (1 + 1 .. n) -> Seq(A)] /\ parts[1] \in Seq(A) /\ 1 <= n
    <3>1. \A x \in Seq(A) \X (1 + 1 .. n) : x[1] \in Seq(A) /\ x[2] \in 1 .. n
      BY <1>1
    <3>2. \A x \in Seq(A) \X (1 + 1 .. n) : x[1] \o parts[x[2]] \in Seq(A)
      BY <1>1, <3>1, ConcatProperties
    <3>3. QED
      BY <1>1, <1>3, <3>2
  <2>3. PICK f \in [1 .. n -> Seq(A)] :
          Follows(f, 1, n, parts[1], G)
    <3>1. 1 \in Nat /\ n \in Nat /\ Steps(G, 1, n, Seq(A))
      BY <1>1, <2>2 DEF Steps
    <3> HIDE DEF G
    <3>2. QED
      BY <2>2, <3>1, Iterated, Zenon
  <2>4. \A i \in 1 .. n : i # 1 => f[i - 1] \in Seq(A) /\ i \in 1 + 1 .. n
    BY <1>1, <2>3
  <2>5. \A i \in 1 .. n : f[i] = IF i = 1 THEN parts[i] ELSE f[i - 1] \o parts[i]
    BY <2>3, <2>4 DEF Follows
  <2>6. R(f)
    BY <2>5
  <2>7. R(c)
    BY <2>6
  <2> HIDE DEF c
  <2>8. \A i \in 1 .. n : c[i] = IF i = 1 THEN parts[i] ELSE c[i - 1] \o parts[i]
    BY <2>7
  <2>9. c[1] \in Seq(A) /\ 1 \in 1 .. n
    BY <1>1, <1>3, <2>2, <2>8
  <2>10. ASSUME NEW i \in 1 + 1 .. n, c[i - 1] \in Seq(A) PROVE c[i] \in Seq(A)
    <3>1. i \in 1 .. n /\ i # 1
      BY <1>1
    <3>2. c[i] = c[i - 1] \o parts[i] /\ parts[i] \in Seq(A)
      BY <1>1, <2>8, <3>1
    <3>3. QED
      BY <2>10, <3>2, ConcatProperties
  <2>11. \A i \in 1 .. n : c[i] \in Seq(A)
    BY <1>1, <2>2, <2>9, <2>10, Closed
  <2>12. n \in 1 .. n
    BY <1>1, <1>3
  <2>13. QED
    BY <2>1, <2>11, <2>12
<1>4. QED
  BY <1>2, <1>3

LEMMA FlattenForm ==
  ASSUME NEW m, IsMemory(m), NEW V, NEW F, Region(m, V, F), NEW list \in V \cup {0}
  PROVE  \A r \in Library!Flatten(m, list) : Form(m, V, F, r)
<1>1. CASE KindAt(m, list) # "list"
  BY <1>1, SameKindAt DEF Library!Flatten, Library!OfList, Library!Error
<1>2. CASE KindAt(m, list) = "list"
  <2> DEFINE items == Members(m, list)
             part(i) == IF KindAt(m, items[i]) = "list" THEN Members(m, items[i])
                        ELSE <<items[i]>>
             parts == [i \in DOMAIN items |-> part(i)]
  <2>1. Library!Flatten(m, list) =
          Library!MadeList(m, Library!Copies(m, Library!Seqs!FlattenSeq(parts)))
    BY <1>2, SameKindAt, SameMembers DEF Library!Flatten, Library!OfList, Library!IsList
  <2>2. items \in Seq(V \cup {0}) /\ Len(items) \in Nat
    BY <1>2, ListFact
  <2> HIDE DEF items
  <2>3. ASSUME NEW i \in 1 .. Len(items) PROVE part(i) \in Seq(V \cup {0})
    <3>1. items[i] \in V \cup {0}
      BY <2>2
    <3>2. CASE KindAt(m, items[i]) = "list"
      BY <3>1, <3>2, ListFact
    <3>3. CASE KindAt(m, items[i]) # "list"
      BY <3>1, <3>3
    <3>4. QED
      BY <3>2, <3>3
  <2> HIDE DEF part
  <2>4. parts \in [1 .. Len(items) -> Seq(V \cup {0})]
    BY <2>2, <2>3
  <2>5. parts \in Seq(Seq(V \cup {0}))
    BY <2>2, <2>4
  <2> HIDE DEF parts
  <2>6. QED
    BY <2>1, <2>5, FlattenFact, ListForm
<1>3. QED
  BY <1>1, <1>2

(* unique: the elements kept so far are elements of the list.              *)
LEMMA UniqueForm ==
  ASSUME NEW m, IsMemory(m), NEW V, NEW F, Region(m, V, F), NEW list \in V \cup {0}
  PROVE  \A r \in Library!Unique(m, list) : Form(m, V, F, r)
<1>1. CASE KindAt(m, list) # "list"
  BY <1>1, SameKindAt DEF Library!Unique, Library!OfList, Library!Error
<1>2. CASE KindAt(m, list) = "list"
  <2> DEFINE items == Members(m, list)
             n == Len(items)
             A == Seq(V \cup {0})
             step(k, i) == IF \E j \in DOMAIN k : Library!HvalEqual(m, k[j], items[i])
                           THEN k ELSE Append(k, items[i])
             R(f) == f = [i \in 0 .. n |-> IF i = 0 THEN << >> ELSE step(f[i - 1], i)]
             c == CHOOSE f : R(f)
             U(its) == Library!MadeList(m, Library!Copies(m,
                 (CHOOSE f : f = [i \in 0 .. Len(its) |->
                     IF i = 0 THEN << >>
                     ELSE IF \E j \in DOMAIN f[i - 1] :
                                Library!HvalEqual(m, f[i - 1][j], its[i])
                          THEN f[i - 1] ELSE Append(f[i - 1], its[i])])[Len(its)]))
  <2>1. Library!Unique(m, list) = Library!MadeList(m, Library!Copies(m, c[n]))
    <3>1. Library!KindAt(m, list) = "list" /\ Library!Members(m, list) = items
      BY <1>2, SameKindAt, SameMembers
    <3>2. Library!Unique(m, list) = UNION {U(its) : its \in {Library!Members(m, list)}}
      BY <3>1, Zenon DEF Library!Unique, Library!OfList
    <3>3. U(items) = Library!MadeList(m, Library!Copies(m, c[n]))
      OBVIOUS
    <3> HIDE DEF U, c, n, items
    <3>4. UNION {U(its) : its \in {items}} = U(items)
      OBVIOUS
    <3>5. QED
      BY <3>1, <3>2, <3>3, <3>4, Zenon
  <2>2. n \in Nat /\ \A i \in 1 .. n : items[i] \in V \cup {0}
    BY <1>2, ListFact
  <2> HIDE DEF items, n
  <2>3. ASSUME NEW k \in A, NEW i \in 1 .. n PROVE step(k, i) \in A
    <3>1. Append(k, items[i]) \in A
      BY <2>2
    <3> HIDE DEF A
    <3>2. QED
      BY <3>1, Zenon
  <2> DEFINE G == [x \in A \X (0 + 1 .. n) |-> step(x[1], x[2])]
  <2> HIDE DEF step
  <2>4. G \in [A \X (0 + 1 .. n) -> A] /\ << >> \in A /\ 0 <= n
    <3>1. \A x \in A \X (0 + 1 .. n) : x[1] \in A /\ x[2] \in 1 .. n
      BY <2>2
    <3>2. \A x \in A \X (0 + 1 .. n) : step(x[1], x[2]) \in A
      BY <2>3, <3>1
    <3>3. QED
      BY <2>2, <3>2
  <2>5. PICK f \in [0 .. n -> A] :
          Follows(f, 0, n, << >>, G)
    <3>1. 0 \in Nat /\ n \in Nat /\ Steps(G, 0, n, A)
      BY <2>2, <2>4 DEF Steps
    <3> HIDE DEF G, A
    <3>2. QED
      BY <2>4, <3>1, Iterated, Zenon
  <2>6. \A i \in 0 .. n : i # 0 => f[i - 1] \in A /\ i \in 0 + 1 .. n
    BY <2>2, <2>5
  <2>7. \A i \in 0 .. n : f[i] = IF i = 0 THEN << >> ELSE step(f[i - 1], i)
    BY <2>5, <2>6 DEF Follows
  <2>8. R(f)
    BY <2>7
  <2>9. R(c)
    BY <2>8
  <2> HIDE DEF c
  <2>10. \A i \in 0 .. n : c[i] = IF i = 0 THEN << >> ELSE step(c[i - 1], i)
    BY <2>9
  <2>11. c[0] \in A
    <3>1. 0 \in 0 .. n
      BY <2>2
    <3> HIDE DEF A
    <3>2. QED
      BY <2>4, <2>10, <3>1
  <2>12. ASSUME NEW i \in 0 + 1 .. n, c[i - 1] \in A PROVE c[i] \in A
    <3>1. i \in 0 .. n /\ i # 0 /\ i \in 1 .. n
      BY <2>2
    <3>2. QED
      BY <2>3, <2>10, <2>12, <3>1
  <2>13. \A i \in 0 .. n : c[i] \in A
    <3> HIDE DEF A
    <3>1. QED
      BY <2>2, <2>4, <2>11, <2>12, Closed
  <2>14. c[n] \in A
    BY <2>2, <2>13
  <2>15. QED
    BY <2>1, <2>14, ListForm
<1>3. QED
  BY <1>1, <1>2
LEMMA ZipForm ==
  ASSUME NEW m, IsMemory(m), NEW V, NEW F, Region(m, V, F), NEW a \in V \cup {0}, NEW b \in V \cup {0}
  PROVE  \A r \in Library!Zip(m, a, b) : Form(m, V, F, r)
<1>1. CASE KindAt(m, a) # "list" \/ KindAt(m, b) # "list"
  <2>1. Library!Zip(m, a, b) = {}
    BY <1>1, SameKindAt DEF Library!Zip, Library!OfList, Library!Error
  <2>2. QED
    BY <2>1
<1>2. CASE KindAt(m, a) = "list" /\ KindAt(m, b) = "list"
  <2>1. Library!Zip(m, a, b) = Library!Pairs(m, Members(m, a), Members(m, b))
    BY <1>2, SameKindAt, SameMembers DEF Library!Zip, Library!OfList
  <2>2. Members(m, a) \in Seq(V) /\ Members(m, b) \in Seq(V)
    BY <1>2, ListFact
  <2>3. QED
    BY <2>1, <2>2, PairsForm
<1>3. QED
  BY <1>1, <1>2
------------------------------------------------------------------------------
LEMMA RangeForm ==
  ASSUME NEW m, IsMemory(m), NEW V, NEW F, Region(m, V, F), NEW start \in V \cup {0}, NEW end \in V \cup {0}
  PROVE  \A r \in Library!RangeOf(m, start, end) : Form(m, V, F, r)
<1>1. CASE ~Library!IsInteger(m, start) \/ ~Library!IsInteger(m, end)
  BY <1>1 DEF Library!RangeOf, Library!Error
<1>2. CASE Library!IsInteger(m, start) /\ Library!IsInteger(m, end)
  <2> DEFINE s == m[start].n  e == m[end].n  n == Abs(e - s) + 1
             number(i) == IF s <= e THEN s + i - 1 ELSE s - i + 1
             f == [i \in 1 .. n |-> Library!IntegerCell(number(i))]
  <2>1. Library!RangeOf(m, start, end) = Library!MadeList(m, f)
    BY <1>2, SameNumbers DEF Library!RangeOf
  <2>2. s \in Int /\ e \in Int
    BY <1>2, IntegerAt
  <2> HIDE DEF s, e
  <2>3. n \in Nat
    BY <2>2 DEF Abs
  <2> HIDE DEF n
  <2>4. \A i \in 1 .. n : number(i) \in Int
    BY <2>2, <2>3
  <2> HIDE DEF number
  <2>6. \A i \in 1 .. n : Scalar(f[i])
    BY <2>4, NewScalar
  <2>7. f = [i \in 1 .. n |-> f[i]]
    OBVIOUS
  <2> HIDE DEF f
  <2>8. ScalarItems(f)
    BY <2>3, <2>6, <2>7, ScalarsFact
  <2>9. QED
    BY <2>1, <2>8, ListForm
<1>3. QED
  BY <1>1, <1>2

LEMMA KeysForm ==
  ASSUME NEW m, IsMemory(m), NEW V, NEW F, Region(m, V, F), NEW record \in V \cup {0}
  PROVE  /\ \A r \in Library!Keys(m, record) : Form(m, V, F, r)
         /\ \A r \in Library!Values(m, record) : Form(m, V, F, r)
<1>1. CASE KindAt(m, record) # "record"
  BY <1>1, SameKindAt DEF Library!Keys, Library!Values, Library!OfRecord, Library!Error
<1>2. CASE KindAt(m, record) = "record"
  <2> DEFINE fs == Members(m, record)
             keys == [i \in DOMAIN fs |-> Library!StringCell(m[fs[i]].s)]
             heads == [i \in DOMAIN fs |-> m[fs[i]].head]
  <2>1. /\ Library!Keys(m, record) = Library!MadeList(m, keys)
        /\ Library!Values(m, record) = Library!MadeList(m, Library!Copies(m, heads))
    BY <1>2, SameKindAt, SameMembers DEF Library!Keys, Library!Values, Library!OfRecord
  <2>2. /\ fs \in Seq(F) /\ Len(fs) \in Nat
        /\ \A i \in 1 .. Len(fs) : fs[i] \in F
    BY <1>2, RecordFact
  <2> HIDE DEF fs
  <2>3. keys = [i \in 1 .. Len(fs) |-> keys[i]] /\ DOMAIN fs = 1 .. Len(fs)
    BY <2>2
  <2>4. \A i \in 1 .. Len(fs) : Scalar(keys[i])
    <3>1. 0 \in Int
      OBVIOUS
    <3>2. QED
      BY <2>3, <3>1, NewScalar
  <2>5. ScalarItems(keys)
    <3> HIDE DEF keys
    <3>1. QED
      BY <2>2, <2>3, <2>4, ScalarsFact
  <2>6. heads \in Seq(V \cup {0})
    <3>1. \A i \in 1 .. Len(fs) : m[fs[i]].head \in V \cup {0}
      BY <2>2 DEF Region
    <3>2. heads \in [1 .. Len(fs) -> V \cup {0}]
      BY <2>3, <3>1
    <3>3. QED
      BY <2>2, <3>2
  <2> HIDE DEF keys, heads
  <2>7. QED
    BY <2>1, <2>5, <2>6, ListForm
<1>3. QED
  BY <1>1, <1>2

------------------------------------------------------------------------------
(* Functions that answer with a record of new fields.                      *)
LEMMA FieldSet ==
  ASSUME NEW m, NEW F
  PROVE  /\ \A f \in F : Library!FieldCell(m[f].s, m[f].head) \in NewFields(m, F)
         /\ \A c, f \in NewFields(m, F) : [c EXCEPT !.head = f.head] \in NewFields(m, F)
<1>1. \A s, h : Library!FieldCell(s, h) =
                  [kind |-> "field", n |-> 0, s |-> s, head |-> h, next |-> 0]
  BY SameCell DEF Library!FieldCell, Cell, NULL
<1>2. \A f \in F : Library!FieldCell(m[f].s, m[f].head) \in NewFields(m, F)
  BY <1>1 DEF NewFields
<1>3. \A c, f \in NewFields(m, F) : [c EXCEPT !.head = f.head] \in NewFields(m, F)
  BY DEF NewFields
<1>4. QED
  BY <1>2, <1>3

LEMMA FieldCopiesNew ==
  ASSUME NEW m, NEW F, NEW at \in Seq(F)
  PROVE  Library!FieldCopies(m, at) \in Seq(NewFields(m, F))
<1>1. /\ Len(at) \in Nat /\ DOMAIN at = 1 .. Len(at)
      /\ \A i \in 1 .. Len(at) : at[i] \in F
  OBVIOUS
<1>2. Library!FieldCopies(m, at) =
        [i \in 1 .. Len(at) |-> Library!FieldCell(m[at[i]].s, m[at[i]].head)]
  BY <1>1 DEF Library!FieldCopies
<1> DEFINE A == NewFields(m, F)
           field(i) == Library!FieldCell(m[at[i]].s, m[at[i]].head)
<1>3. \A i \in 1 .. Len(at) : field(i) \in A
  BY <1>1, FieldSet
<1> HIDE DEF A, field
<1>4. [i \in 1 .. Len(at) |-> field(i)] \in [1 .. Len(at) -> A]
  BY <1>3
<1>5. [i \in 1 .. Len(at) |-> field(i)] \in Seq(A)
  BY <1>1, <1>4, FunctionSequence
<1>6. QED
  BY <1>2, <1>5 DEF A, field

LEMMA PickOmitForm ==
  ASSUME NEW m, IsMemory(m), NEW V, NEW F, Region(m, V, F), NEW record \in V \cup {0}, NEW names \in V \cup {0}
  PROVE  /\ \A r \in Library!Pick(m, record, names) : Form(m, V, F, r)
         /\ \A r \in Library!Omit(m, record, names) : Form(m, V, F, r)
<1>1. CASE KindAt(m, record) # "record" \/ KindAt(m, names) # "list"
  <2>1. Library!Pick(m, record, names) = {} /\ Library!Omit(m, record, names) = {}
    BY <1>1, SameKindAt
       DEF Library!Pick, Library!Omit, Library!OfRecord, Library!OfList, Library!Error
  <2>2. QED
    BY <2>1
<1>2. CASE KindAt(m, record) = "record" /\ KindAt(m, names) = "list"
  <2> DEFINE fs == Library!Members(m, record)  ns == Library!Members(m, names)
             named(a) == IF Library!IsString(m, a)
                         THEN Library!FieldNamed(m, record, m[a].s) ELSE {}
             omitted(f) == \E i \in DOMAIN ns :
                             Library!IsString(m, ns[i]) /\ m[ns[i]].s = m[f].s
             picked == [i \in DOMAIN ns |-> IF named(ns[i]) = {} THEN << >>
                                            ELSE <<CHOOSE f \in named(ns[i]) : TRUE>>]
             left == [i \in DOMAIN fs |-> IF omitted(fs[i]) THEN << >> ELSE <<fs[i]>>]
  <2>0. Library!KindAt(m, record) = "record" /\ Library!KindAt(m, names) = "list"
    BY <1>2, SameKindAt
  <2>1. Library!Pick(m, record, names) = Library!MadeRecord(m,
          Library!FieldCopies(m, Library!Seqs!FlattenSeq(picked)))
    BY <2>0 DEF Library!Pick, Library!OfRecord, Library!OfList
  <2>2. Library!Omit(m, record, names) = Library!MadeRecord(m,
          Library!FieldCopies(m, Library!Seqs!FlattenSeq(left)))
    BY <2>0 DEF Library!Omit, Library!OfRecord, Library!OfList
  <2>3. /\ fs \in Seq(F) /\ Len(fs) \in Nat /\ DOMAIN fs = 1 .. Len(fs)
        /\ ns \in Seq(V) /\ Len(ns) \in Nat /\ DOMAIN ns = 1 .. Len(ns)
        /\ \A i \in 1 .. Len(fs) : fs[i] \in F
    <3>1. /\ Members(m, record) \in Seq(F) /\ Members(m, names) \in Seq(V)
      BY <1>2, ListFact, RecordFact
    <3>2. fs = Members(m, record) /\ ns = Members(m, names)
      BY SameMembers
    <3> HIDE DEF fs, ns
    <3>3. fs \in Seq(F) /\ ns \in Seq(V)
      BY <3>1, <3>2
    <3>4. QED
      BY <3>3
  <2> HIDE DEF fs, ns
  <2>4. \A a : named(a) \subseteq F
    BY <1>2, RecordFact, NamedAmong, SameFieldNamed
  <2> HIDE DEF named, omitted
  <2>5. \A i \in 1 .. Len(ns) :
          picked[i] = IF named(ns[i]) = {} THEN << >> ELSE <<CHOOSE f \in named(ns[i]) : TRUE>>
    BY <2>3
  <2>6. \A i \in 1 .. Len(fs) :
          left[i] = IF omitted(fs[i]) THEN << >> ELSE <<fs[i]>>
    BY <2>3
  <2>7. /\ picked = [i \in 1 .. Len(ns) |-> picked[i]]
        /\ left = [i \in 1 .. Len(fs) |-> left[i]]
    BY <2>3
  <2> HIDE DEF picked, left
  <2>8. << >> \in Seq(F) /\ \A a \in F : <<a>> \in Seq(F)
    OBVIOUS
  <2>9. ASSUME NEW i \in 1 .. Len(ns) PROVE picked[i] \in Seq(F)
    <3>1. CASE named(ns[i]) = {}
      BY <2>5, <2>8, <3>1, Zenon
    <3>2. CASE named(ns[i]) # {}
      <4>1. (CHOOSE f \in named(ns[i]) : TRUE) \in F
        BY <2>4, <3>2
      <4>2. QED
        BY <2>5, <2>8, <3>2, <4>1, Zenon
    <3>3. QED
      BY <3>1, <3>2
  <2>10. \A i \in 1 .. Len(fs) : left[i] \in Seq(F)
    BY <2>3, <2>6, <2>8, Zenon
  <2>11. picked \in Seq(Seq(F)) /\ left \in Seq(Seq(F))
    <3>1. /\ picked \in [1 .. Len(ns) -> Seq(F)]
          /\ left \in [1 .. Len(fs) -> Seq(F)]
      BY <2>7, <2>9, <2>10, Zenon
    <3>2. QED
      BY <2>3, <3>1, FunctionSequence
  <2>12. QED
    BY <2>1, <2>2, <2>11, FlattenFact, FieldCopiesNew, RecordForm
<1>3. QED
  BY <1>1, <1>2
------------------------------------------------------------------------------
LEMMA OverlayFields ==
  ASSUME NEW m, NEW S, NEW cells \in Seq(NewFields(m, S)), NEW f \in NewFields(m, S)
  PROVE  Library!Overlay(cells, f) \in Seq(NewFields(m, S))
<1> DEFINE F == NewFields(m, S)
           same == {i \in DOMAIN cells : cells[i].s = f.s}
           cell(i) == IF i \in same /\ \A j \in same : i <= j
                      THEN [cells[i] EXCEPT !.head = f.head] ELSE cells[i]
<1>1. \A c \in F : [c EXCEPT !.head = f.head] \in F
  BY FieldSet
<1>2. Library!Overlay(cells, f) =
        IF same = {} THEN Append(cells, f) ELSE [i \in DOMAIN cells |-> cell(i)]
  BY DEF Library!Overlay
<1> HIDE DEF same
<1>3. cells \in Seq(F) /\ f \in F
  OBVIOUS
<1> HIDE DEF F
<1>4. Append(cells, f) \in Seq(F)
  BY <1>3
<1>5. DOMAIN cells = 1 .. Len(cells) /\ Len(cells) \in Nat
  BY <1>3
<1>6. ASSUME NEW i \in 1 .. Len(cells) PROVE cell(i) \in F
  <2>1. cells[i] \in F
    BY <1>3
  <2>2. QED
    BY <1>1, <2>1
<1> HIDE DEF cell
<1>7. [i \in DOMAIN cells |-> cell(i)] \in [1 .. Len(cells) -> F]
  BY <1>5, <1>6
<1>8. [i \in DOMAIN cells |-> cell(i)] \in Seq(F)
  BY <1>5, <1>7, FunctionSequence
<1>9. Library!Overlay(cells, f) \in Seq(F)
  BY <1>2, <1>4, <1>8
<1>10. QED
  BY <1>9 DEF F

LEMMA MergeForm ==
  ASSUME NEW m, IsMemory(m), NEW V, NEW F, Region(m, V, F), NEW a \in V \cup {0}, NEW b \in V \cup {0}
  PROVE  \A r \in Library!Merge(m, a, b) : Form(m, V, F, r)
<1>1. CASE KindAt(m, a) # "record"
  BY <1>1, SameKindAt DEF Library!Merge, Library!OfRecord, Library!Error
<1>2. CASE KindAt(m, a) = "record" /\ KindAt(m, b) # "record"
  BY <1>2, SameKindAt DEF Library!Merge, Library!OfRecord, Library!Error
<1>3. CASE KindAt(m, a) = "record" /\ KindAt(m, b) = "record"
  <2> DEFINE fs == Members(m, a)  gs == Members(m, b)  n == Len(gs)
             new == NewFields(m, F)
             A == Seq(new)
             added(i) == Library!FieldCell(m[gs[i]].s, m[gs[i]].head)
             base == Library!FieldCopies(m, fs)
             R(f) == f = [i \in 0 .. n |-> IF i = 0 THEN base
                                           ELSE Library!Overlay(f[i - 1], added(i))]
             c == CHOOSE f : R(f)
  <2>1. Library!Merge(m, a, b) = Library!MadeRecord(m, c[n])
    <3>1. Library!KindAt(m, a) = "record" /\ Library!KindAt(m, b) = "record"
      BY <1>3, SameKindAt
    <3>2. fs = Library!Members(m, a) /\ gs = Library!Members(m, b)
      BY SameMembers
    <3> HIDE DEF fs, gs
    <3>3. QED
      BY <3>1, <3>2 DEF Library!Merge, Library!OfRecord
  <2>2. /\ n \in Nat /\ fs \in Seq(F) /\ \A i \in 1 .. n : gs[i] \in F
    BY <1>3, RecordFact
  <2> HIDE DEF fs, gs, n
  <2>3. \A x \in F : Library!FieldCell(m[x].s, m[x].head) \in new
    BY FieldSet
  <2> HIDE DEF new
  <2>4. \A i \in 1 .. n : added(i) \in new
    BY <2>2, <2>3
  <2>5. base \in A
    BY <2>2, FieldCopiesNew DEF new
  <2> HIDE DEF added, base
  <2>6. ASSUME NEW k \in A, NEW i \in 1 .. n PROVE Library!Overlay(k, added(i)) \in A
    BY <2>2, <2>4, OverlayFields DEF new
  <2> DEFINE G == [x \in A \X (0 + 1 .. n) |-> Library!Overlay(x[1], added(x[2]))]
  <2> HIDE DEF A
  <2>7. G \in [A \X (0 + 1 .. n) -> A] /\ 0 <= n
    <3>1. \A x \in A \X (0 + 1 .. n) : x[1] \in A /\ x[2] \in 1 .. n
      BY <2>2
    <3>2. \A x \in A \X (0 + 1 .. n) : Library!Overlay(x[1], added(x[2])) \in A
      BY <2>6, <3>1
    <3>3. QED
      BY <2>2, <3>2
  <2>8. PICK f \in [0 .. n -> A] : Follows(f, 0, n, base, G)
    <3>1. 0 \in Nat /\ n \in Nat /\ Steps(G, 0, n, A)
      BY <2>2, <2>7 DEF Steps
    <3> HIDE DEF G
    <3>2. QED
      BY <2>5, <2>7, <3>1, Iterated, Zenon
  <2>9. \A i \in 0 .. n : i # 0 => f[i - 1] \in A /\ i \in 0 + 1 .. n
    BY <2>2, <2>8
  <2>10. \A i \in 0 .. n :
           f[i] = IF i = 0 THEN base ELSE Library!Overlay(f[i - 1], added(i))
    BY <2>8, <2>9 DEF Follows
  <2>11. R(c)
    <3>1. R(f)
      BY <2>10
    <3>2. QED
      BY <3>1
  <2> HIDE DEF c
  <2>12. \A i \in 0 .. n :
           c[i] = IF i = 0 THEN base ELSE Library!Overlay(c[i - 1], added(i))
    BY <2>11
  <2>13. c[0] \in A
    <3>1. 0 \in 0 .. n
      BY <2>2
    <3>2. QED
      BY <2>5, <2>12, <3>1
  <2>14. ASSUME NEW i \in 0 + 1 .. n, c[i - 1] \in A PROVE c[i] \in A
    <3>1. i \in 0 .. n /\ i # 0 /\ i \in 1 .. n
      BY <2>2
    <3>2. QED
      BY <2>6, <2>12, <2>14, <3>1
  <2>15. \A i \in 0 .. n : c[i] \in A
    BY <2>2, <2>7, <2>13, <2>14, Closed
  <2>16. c[n] \in Seq(new)
    <3>1. n \in 0 .. n
      BY <2>2
    <3>2. QED
      BY <2>15, <3>1 DEF A
  <2>17. QED
    BY <2>1, <2>16, RecordForm DEF new
<1>4. QED
  BY <1>1, <1>2, <1>3
------------------------------------------------------------------------------
(* fold: what is accumulated stays a number if the initial value holds one.*)
LEMMA SameArithmetic == \A op, x, y : Library!Arithmetic(op, x, y) = Arithmetic(op, x, y)
<1>1. \A op, x, y : Library!IntegerOp(op, x, y) = IntegerOp(op, x, y)
  BY DEF Library!IntegerOp, IntegerOp, Library!CDiv, CDiv, Library!CMod, CMod,
         Library!Sign, Sign, Library!Abs, Abs
<1>2. \A op, x, y : Library!FloatOp(op, x, y) = FloatOp(op, x, y)
  BY DEF Library!FloatOp, FloatOp, Library!CDiv, CDiv, Library!CMod, CMod,
         Library!Sign, Sign, Library!Abs, Abs
<1>3. \A n : Library!IntegerCell(n) = IntegerCell(n) /\ Library!FloatCell(n) = FloatCell(n)
  BY SameCell DEF Library!IntegerCell, IntegerCell, Library!FloatCell, FloatCell,
                  Library!NULL, NULL
<1>4. QED
  BY <1>1, <1>2, <1>3, SameNumbers DEF Library!Arithmetic, Arithmetic

LEMMA FoldForm ==
  ASSUME NEW m, IsMemory(m), NEW V, NEW F, Region(m, V, F), NEW list \in V \cup {0},
         NEW initial \in V \cup {0}, NEW fn
  PROVE  \A r \in Library!Fold(m, list, initial, fn) : Form(m, V, F, r)
<1>1. CASE initial = 0 \/ ~Library!IsString(m, fn)
  BY <1>1 DEF Library!Fold, Library!Error, Library!NULL
<1>2. CASE KindAt(m, list) # "list"
  BY <1>2, SameKindAt DEF Library!Fold, Library!OfList, Library!Error
<1>3. CASE /\ initial # 0 /\ Library!IsString(m, fn)
           /\ KindAt(m, list) = "list"
  <2> DEFINE items == Members(m, list)  n == Len(items)
             op == IF m[fn].s = "add" THEN "ADD" ELSE "MUL"
             base == m[initial]
             A == NumberCells \cup {base}
             step(x, i) == Library!Arithmetic(op, x, m[items[i]])
             R(f) == f = [i \in 0 .. n |-> IF i = 0 THEN base ELSE step(f[i - 1], i)]
             c == CHOOSE f : R(f)
  <2>1. Library!Fold(m, list, initial, fn) =
          IF items = << >> THEN Library!Given(initial)
          ELSE IF m[fn].s \notin {"add", "multiply"} THEN Library!Error
          ELSE Library!Made(m, <<c[n]>>)
    <3>1. Library!KindAt(m, list) = "list"
      BY <1>3, SameKindAt
    <3>2. items = Library!Members(m, list)
      BY SameMembers
    <3> HIDE DEF items
    <3>3. QED
      BY <1>3, <3>1, <3>2 DEF Library!Fold, Library!OfList, Library!NULL
  <2>2. CASE items = << >>
    BY <1>3, <2>1, <2>2, OneForm
  <2>3. CASE items # << >> /\ m[fn].s \notin {"add", "multiply"}
    BY <2>1, <2>3 DEF Library!Error
  <2>4. CASE items # << >> /\ m[fn].s \in {"add", "multiply"}
    <3>1. /\ n \in Nat /\ n # 0 /\ Len(m) \in Nat
          /\ \A i \in 1 .. n : items[i] \in 1 .. Len(m)
      <4>1. items \in Seq(V) /\ Len(m) \in Nat /\ n \in Nat
            /\ \A i \in 1 .. n : items[i] \in 1 .. Len(m)
        <5>1. items \in Seq(V) /\ n \in Nat /\ \A i \in 1 .. n : items[i] \in V
          BY <1>3, ListFact
        <5>2. V \subseteq 1 .. Len(m) /\ Len(m) \in Nat
          BY SequenceFact DEF IsMemory, Region
        <5> HIDE DEF items
        <5>3. QED
          BY <5>1, <5>2
      <4> HIDE DEF items
      <4>2. n # 0
        BY <2>4, <4>1
      <4>3. QED
        BY <4>1, <4>2
    <3>2. op \in {"ADD", "MUL"} /\ op \in Operations
      BY DEF Operations
    <3>3. base.n \in Int
      BY <1>3, NumberAt
    <3> HIDE DEF items, n, op, base
    <3>4. \A x \in A : x.n \in Int
      BY <3>1, <3>3, NumberCell
    <3>5. \A x \in A, i \in 1 .. n : step(x, i) \in NumberCells
      <4>1. \A i \in 1 .. n : m[items[i]].n \in Int
        BY <3>1, CellFact
      <4> HIDE DEF A
      <4>2. \A x, y : x.n \in Int /\ y.n \in Int => Arithmetic(op, x, y) \in NumberCells
        BY <3>2, ArithmeticNumber
      <4>3. QED
        BY <3>4, <4>1, <4>2, SameArithmetic
    <3>6. NumberCells \subseteq A /\ base \in A
      OBVIOUS
    <3> HIDE DEF step, A
    <3> DEFINE G == [x \in A \X (0 + 1 .. n) |-> step(x[1], x[2])]
    <3>7. G \in [A \X (0 + 1 .. n) -> A] /\ 0 <= n
      <4>1. \A x \in A \X (0 + 1 .. n) : x[1] \in A /\ x[2] \in 1 .. n
        BY <3>1
      <4>2. \A x \in A \X (0 + 1 .. n) : step(x[1], x[2]) \in A
        BY <3>5, <3>6, <4>1
      <4>3. QED
        BY <3>1, <4>2
    <3>8. PICK f \in [0 .. n -> A] : Follows(f, 0, n, base, G)
      <4>1. 0 \in Nat /\ n \in Nat /\ Steps(G, 0, n, A)
        BY <3>1, <3>7 DEF Steps
      <4> HIDE DEF G
      <4>2. QED
        BY <3>6, <3>7, <4>1, Iterated, Zenon
    <3>9. \A i \in 0 .. n : i # 0 => f[i - 1] \in A /\ i \in 0 + 1 .. n
      BY <3>1, <3>8
    <3>10. \A i \in 0 .. n : f[i] = IF i = 0 THEN base ELSE step(f[i - 1], i)
      BY <3>8, <3>9 DEF Follows
    <3>11. R(c)
      <4>1. R(f)
        BY <3>10
      <4>2. QED
        BY <4>1
    <3> HIDE DEF c
    <3>12. \A i \in 0 .. n : c[i] = IF i = 0 THEN base ELSE step(c[i - 1], i)
      BY <3>11
    <3>13. c[0] \in A
      <4>1. 0 \in 0 .. n
        BY <3>1
      <4>2. QED
        BY <3>6, <3>12, <4>1
    <3>14. ASSUME NEW i \in 0 + 1 .. n, c[i - 1] \in A PROVE c[i] \in A
      <4>1. i \in 0 .. n /\ i # 0 /\ i \in 1 .. n
        BY <3>1
      <4>2. QED
        BY <3>5, <3>6, <3>12, <3>14, <4>1
    <3>15. \A i \in 0 .. n : c[i] \in A
      BY <3>1, <3>7, <3>13, <3>14, Closed
    <3>16. c[n] \in NumberCells
      <4>1. n \in 0 .. n /\ n - 1 \in 0 .. n /\ n \in 1 .. n
        BY <3>1
      <4>2. QED
        BY <3>1, <3>5, <3>12, <3>15, <4>1
    <3>17. Scalar(c[n])
      BY <3>16 DEF NumberCells, Scalar, IntegerCell, FloatCell, NULL
    <3>18. QED
      BY <2>1, <2>4, <3>17, OneForm
  <2>5. QED
    BY <2>2, <2>3, <2>4
<1>4. QED
  BY <1>1, <1>2, <1>3


------------------------------------------------------------------------------
(* Whatever function is called, with values of the region or NULL for its  *)
(* parameters.                                                             *)
THEOREM CallForm ==
  ASSUME NEW m, IsMemory(m), NEW V, NEW F, Region(m, V, F),
         NEW arg \in [Library!ArgNames -> V \cup {0}], NEW f
  PROVE  \A r \in Library!Call(f, m, arg) : Form(m, V, F, r)
<1>1. \A a \in Library!ArgNames : arg[a] \in V \cup {0}
  OBVIOUS
<1>2. /\ arg["value"] \in V \cup {0} /\ arg["list"] \in V \cup {0}
      /\ arg["a"] \in V \cup {0} /\ arg["b"] \in V \cup {0}
      /\ arg["min"] \in V \cup {0} /\ arg["max"] \in V \cup {0}
      /\ arg["field"] \in V \cup {0} /\ arg["start"] \in V \cup {0}
      /\ arg["end"] \in V \cup {0} /\ arg["record"] \in V \cup {0}
      /\ arg["fields"] \in V \cup {0} /\ arg["initial"] \in V \cup {0}
      /\ arg["fn"] \in V \cup {0}
  BY <1>1 DEF Library!ArgNames
<1>3. CASE f \in {"abs", "ceil", "floor", "round"}
  <2>1. Library!Call(f, m, arg) = Library!Numeric(f, m, arg["value"])
    BY <1>3 DEF Library!Call
  <2>2. QED
    BY <1>2, <1>3, <2>1, NumericForm
<1>4. CASE f \in {"min", "max"}
  <2>1. Library!Call(f, m, arg) = Library!Extreme(f, m, arg["a"], arg["b"])
    BY <1>4 DEF Library!Call
  <2>2. QED
    BY <1>2, <2>1, ExtremeForm
<1>5. CASE f \in {"clamp", "sort", "sort-by", "reverse", "unique", "flatten"}
  <2>1. \/ Library!Call(f, m, arg) = Library!Clamp(m, arg["value"], arg["min"], arg["max"])
        \/ Library!Call(f, m, arg) = Library!Sort(m, arg["list"])
        \/ Library!Call(f, m, arg) = Library!SortBy(m, arg["list"], arg["field"])
        \/ Library!Call(f, m, arg) = Library!Reverse(m, arg["list"])
        \/ Library!Call(f, m, arg) = Library!Unique(m, arg["list"])
        \/ Library!Call(f, m, arg) = Library!Flatten(m, arg["list"])
    BY <1>5 DEF Library!Call
  <2>2. \A r \in Library!Clamp(m, arg["value"], arg["min"], arg["max"]) : Form(m, V, F, r)
    BY <1>2, ClampForm, Zenon
  <2>3. \A r \in Library!Sort(m, arg["list"]) : Form(m, V, F, r)
    BY <1>2, SortForm, Zenon
  <2>4. \A r \in Library!SortBy(m, arg["list"], arg["field"]) : Form(m, V, F, r)
    BY <1>2, SortByForm, Zenon
  <2>5. \A r \in Library!Reverse(m, arg["list"]) : Form(m, V, F, r)
    BY <1>2, ReverseForm, Zenon
  <2>6. \A r \in Library!Unique(m, arg["list"]) : Form(m, V, F, r)
    BY <1>2, UniqueForm, Zenon
  <2>7. \A r \in Library!Flatten(m, arg["list"]) : Form(m, V, F, r)
    BY <1>2, FlattenForm, Zenon
  <2>8. QED
    BY <2>1, <2>2, <2>3, <2>4, <2>5, <2>6, <2>7
<1>6. CASE f \in {"zip", "range", "slice", "length"}
  <2>1. \/ Library!Call(f, m, arg) = Library!Zip(m, arg["a"], arg["b"])
        \/ Library!Call(f, m, arg) = Library!RangeOf(m, arg["start"], arg["end"])
        \/ Library!Call(f, m, arg) =
             Library!Slice(m, arg["list"], arg["start"], arg["end"])
        \/ Library!Call(f, m, arg) = Library!Length(m, arg["list"], arg["value"])
    BY <1>6 DEF Library!Call
  <2>2. \A r \in Library!Zip(m, arg["a"], arg["b"]) : Form(m, V, F, r)
    BY <1>2, ZipForm, Zenon
  <2>3. \A r \in Library!RangeOf(m, arg["start"], arg["end"]) : Form(m, V, F, r)
    BY <1>2, RangeForm, Zenon
  <2>4. \A r \in Library!Slice(m, arg["list"], arg["start"], arg["end"]) : Form(m, V, F, r)
    BY <1>2, SliceForm, Zenon
  <2>5. \A r \in Library!Length(m, arg["list"], arg["value"]) : Form(m, V, F, r)
    BY <1>2, LengthForm, Zenon
  <2>6. QED
    BY <2>1, <2>2, <2>3, <2>4, <2>5
<1>7. CASE f \in {"keys", "values", "merge", "pick", "omit"}
  <2>1. \/ Library!Call(f, m, arg) = Library!Keys(m, arg["record"])
        \/ Library!Call(f, m, arg) = Library!Values(m, arg["record"])
        \/ Library!Call(f, m, arg) = Library!Merge(m, arg["a"], arg["b"])
        \/ Library!Call(f, m, arg) = Library!Pick(m, arg["record"], arg["fields"])
        \/ Library!Call(f, m, arg) = Library!Omit(m, arg["record"], arg["fields"])
    BY <1>7 DEF Library!Call
  <2>2. /\ \A r \in Library!Keys(m, arg["record"]) : Form(m, V, F, r)
        /\ \A r \in Library!Values(m, arg["record"]) : Form(m, V, F, r)
    BY <1>2, KeysForm, Zenon
  <2>3. \A r \in Library!Merge(m, arg["a"], arg["b"]) : Form(m, V, F, r)
    BY <1>2, MergeForm, Zenon
  <2>4. /\ \A r \in Library!Pick(m, arg["record"], arg["fields"]) : Form(m, V, F, r)
        /\ \A r \in Library!Omit(m, arg["record"], arg["fields"]) : Form(m, V, F, r)
    BY <1>2, PickOmitForm, Zenon
  <2>5. QED
    BY <2>1, <2>2, <2>3, <2>4
<1>8. CASE f \in {"to-string", "to-float", "to-integer"}
  <2>1. \/ Library!Call(f, m, arg) = Library!ToStringOf(m, arg["value"])
        \/ Library!Call(f, m, arg) = Library!ToFloatOf(m, arg["value"])
        \/ Library!Call(f, m, arg) = Library!ToIntegerOf(m, arg["value"])
    BY <1>8 DEF Library!Call
  <2>2. QED
    BY <1>2, <2>1, ConversionsForm
<1>9. CASE f \notin {"abs", "ceil", "floor", "round", "min", "max", "clamp", "sort",
                     "sort-by", "reverse", "unique", "flatten", "zip", "range",
                     "slice", "length", "keys", "values", "merge", "pick", "omit",
                     "to-string", "to-float", "to-integer"}
  <2>1. Library!Call(f, m, arg) =
          Library!Fold(m, arg["list"], arg["initial"], arg["fn"])
    BY <1>9 DEF Library!Call
  <2>2. \A r \in Library!Fold(m, arg["list"], arg["initial"], arg["fn"]) : Form(m, V, F, r)
    BY <1>2, FoldForm, Zenon
  <2>3. QED
    BY <2>1, <2>2
<1>10. QED
  BY <1>3, <1>4, <1>5, <1>6, <1>7, <1>8, <1>9
------------------------------------------------------------------------------
(* Cells that may be added to m, and an answer that adds them.             *)
Fit(m, cells) ==
  /\ IsSequence(cells)
  /\ \A i \in 1 .. Len(cells) : CellAt(cells[i], Len(m) + i, Len(m) + Len(cells))

Sound(m, r) == Fit(m, r.cells) /\ r.at \in 0 .. Len(m) + Len(r.cells)

(* Cells not linked yet.                                                   *)
AllLoose(m, cells) ==
  /\ IsSequence(cells)
  /\ \A i \in 1 .. Len(cells) : Loose(cells[i], Len(m))

LEMMA GivenSound ==
  ASSUME NEW m, IsMemory(m), NEW a \in 0 .. Len(m)
  PROVE  \A r \in Library!Given(a) : Sound(m, r)
<1>1. Len(m) \in Nat
  BY SequenceFact DEF IsMemory
<1>2. IsSequence(<< >>) /\ Len(<< >>) = 0
  <2>1. << >> \in Seq({}) /\ Len(<< >>) = 0
    OBVIOUS
  <2>2. QED
    BY <2>1 DEF IsSequence
<1>3. Fit(m, << >>)
  BY <1>2 DEF Fit
<1>4. Library!Given(a) = {[cells |-> << >>, at |-> a]}
  BY DEF Library!Given
<1>5. QED
  BY <1>1, <1>2, <1>3, <1>4 DEF Sound

LEMMA MadeSound ==
  ASSUME NEW m, IsMemory(m), NEW cells, Fit(m, cells)
  PROVE  \A r \in Library!Made(m, cells) : Sound(m, r)
<1>1. Len(m) \in Nat /\ Len(cells) \in Nat
  BY SequenceFact DEF IsMemory, Fit
<1>2. Library!Made(m, cells) = {[cells |-> cells, at |-> Len(m) + Len(cells)]}
  BY DEF Library!Made
<1>3. QED
  BY <1>1, <1>2 DEF Sound

LEMMA MadeOne ==
  ASSUME NEW m, IsMemory(m), NEW c, Loose(c, Len(m))
  PROVE  \A r \in Library!Made(m, <<c>>) : Sound(m, r)
<1>1. Len(m) \in Nat
  BY SequenceFact DEF IsMemory
<1>2. <<c>> \in Seq({c}) /\ Len(<<c>>) = 1 /\ <<c>>[1] = c
  OBVIOUS
<1>3. CellAt(c, Len(m) + 1, Len(m) + 1)
  BY <1>1, LooseCell
<1>4. Fit(m, <<c>>)
  <2>1. \A i \in 1 .. 1 : i = 1
    OBVIOUS
  <2>2. QED
    BY <1>2, <1>3, <2>1 DEF Fit, IsSequence
<1>5. QED
  BY <1>4, MadeSound

------------------------------------------------------------------------------
(* Elements linked in order, and the list or record that holds them.       *)
LEMMA LinkedFact ==
  ASSUME NEW m, IsMemory(m), NEW items, AllLoose(m, items)
  PROVE  /\ IsSequence(Library!Linked(m, items))
         /\ Len(Library!Linked(m, items)) = Len(items)
         /\ \A i \in 1 .. Len(items) :
              CellAt(Library!Linked(m, items)[i], Len(m) + i, Len(m) + Len(items))
<1> DEFINE n == Len(items)  l == Library!Linked(m, items)
           next(i) == IF i = n THEN 0 ELSE Len(m) + i + 1
<1>1. Len(m) \in Nat /\ n \in Nat /\ DOMAIN items = 1 .. n
  BY SequenceFact DEF IsMemory, AllLoose
<1>2. l = [i \in 1 .. n |-> [items[i] EXCEPT !.next = next(i)]]
  BY <1>1 DEF Library!Linked, Library!NULL
<1>3. ASSUME NEW i \in 1 .. n
      PROVE  CellAt([items[i] EXCEPT !.next = next(i)], Len(m) + i, Len(m) + n)
  <2>1. CellAt(items[i], 0, Len(m))
    BY DEF AllLoose, Loose
  <2>2. next(i) = NULL \/ next(i) \in (Len(m) + i) + 1 .. Len(m) + n
    <3>1. CASE i = n
      BY <3>1 DEF NULL
    <3>2. CASE i # n
      <4>1. next(i) = Len(m) + i + 1
        BY <3>2
      <4>2. Len(m) + i + 1 \in (Len(m) + i) + 1 .. Len(m) + n
        <5>1. Len(m) \in Nat /\ n \in Nat /\ i \in 1 .. n /\ i # n
          BY <1>1, <3>2
        <5> HIDE DEF n
        <5>2. QED
          BY <5>1
      <4>3. QED
        BY <4>1, <4>2
    <3>3. QED
      BY <3>1, <3>2
  <2>3. Len(m) + n \in Nat /\ Len(m) <= Len(m) + n
    BY <1>1
  <2> HIDE DEF n, next
  <2>4. QED
    BY <1>1, <2>1, <2>2, <2>3, RelinkedCell
<1> HIDE DEF n, l, next
<1>4. l = [i \in 1 .. n |-> l[i]] /\ \A i \in 1 .. n : CellAt(l[i], Len(m) + i, Len(m) + n)
  BY <1>2, <1>3
<1>5. IsSequence(l) /\ Len(l) = n
  BY <1>1, <1>4, FunctionFact
<1>6. QED
  BY <1>4, <1>5 DEF l, n

(* The cells so far, with one behind them that points to them.             *)
LEMMA FitWithOwner ==
  ASSUME NEW m, IsMemory(m), NEW cells, Fit(m, cells), NEW c,
         Loose(c, Len(m) + Len(cells) + 1)
  PROVE  Fit(m, cells \o <<c>>)
<1> DEFINE all == cells \o <<c>>  n == Len(cells)
<1>1. Len(m) \in Nat /\ n \in Nat /\ IsSequence(cells)
  BY SequenceFact DEF IsMemory, Fit
<1>2. <<c>> \in Seq({c}) /\ Len(<<c>>) = 1 /\ <<c>>[1] = c /\ 1 \in 1 .. 1
  OBVIOUS
<1>3. /\ IsSequence(all) /\ Len(all) = n + 1
      /\ \A i \in 1 .. n : all[i] = cells[i]
      /\ all[n + 1] = c
  <2>1. IsSequence(<<c>>)
    BY <1>2 DEF IsSequence
  <2>2. QED
    BY <1>1, <1>2, <2>1, ConcatFact
<1>4. \A i \in 1 .. n : CellAt(cells[i], Len(m) + i, Len(m) + n)
  BY DEF Fit
<1>5. CellAt(c, Len(m) + (n + 1), Len(m) + (n + 1))
  <2>1. Len(m) + n + 1 \in Nat /\ Len(m) + (n + 1) = Len(m) + n + 1
    BY <1>1
  <2>2. Loose(c, Len(m) + n + 1)
    OBVIOUS
  <2>3. QED
    BY <2>1, <2>2, LooseCell
<1> HIDE DEF all, n
<1>6. ASSUME NEW i \in 1 .. n + 1
      PROVE  CellAt(all[i], Len(m) + i, Len(m) + (n + 1))
  <2>1. CASE i = n + 1
    BY <1>3, <1>5, <2>1
  <2>2. CASE i # n + 1
    <3>1. /\ i \in 1 .. n /\ Len(m) + n \in Nat /\ Len(m) + (n + 1) \in Nat
          /\ Len(m) + n <= Len(m) + (n + 1) /\ Len(m) + i \in Nat
      BY <1>1, <2>2
    <3>2. QED
      BY <1>3, <1>4, <3>1, CellKept
  <2>3. QED
    BY <2>1, <2>2
<1>7. Fit(m, all)
  BY <1>3, <1>6 DEF Fit
<1>8. QED
  BY <1>7 DEF all

LEMMA MadeContainers ==
  ASSUME NEW m, IsMemory(m), NEW items, AllLoose(m, items)
  PROVE  /\ \A r \in Library!MadeList(m, items) : Sound(m, r)
         /\ \A r \in Library!MadeRecord(m, items) : Sound(m, r)
<1> DEFINE l == Library!Linked(m, items)  first == Library!First(m, items)
           size == Len(m) + Len(l) + 1
<1>1. Len(m) \in Nat /\ Len(items) \in Nat /\ Len(l) = Len(items) /\ Fit(m, l)
  BY LinkedFact, SequenceFact DEF IsMemory, AllLoose, Fit
<1>2. first \in 0 .. size /\ size \in Nat
  BY <1>1 DEF Library!First, Library!NULL
<1> HIDE DEF l, first, size
<1>3. /\ Library!ListCell(first) = Cell("list", 0, "", first)
      /\ Library!RecordCell(first) = Cell("record", 0, "", first)
  BY SameCell DEF Library!ListCell, Library!RecordCell
<1>4. Loose(Cell("list", 0, "", first), size) /\ Loose(Cell("record", 0, "", first), size)
  <2>1. "list" \in Kinds /\ "record" \in Kinds /\ 0 \in Int
    BY DEF Kinds
  <2>2. QED
    BY <1>2, <2>1, NewLooseCell
<1>5. /\ Fit(m, l \o <<Library!ListCell(first)>>)
      /\ Fit(m, l \o <<Library!RecordCell(first)>>)
  BY <1>1, <1>3, <1>4, FitWithOwner DEF size
<1>6. QED
  BY <1>5, MadeSound DEF Library!MadeList, Library!MadeRecord, l, first

LEMMA CopiesLoose ==
  ASSUME NEW m, IsMemory(m), NEW at \in Seq(0 .. Len(m))
  PROVE  AllLoose(m, Library!Copies(m, at))
<1> DEFINE c == Library!Copies(m, at)
<1>1. Len(at) \in Nat /\ DOMAIN at = 1 .. Len(at) /\ \A i \in 1 .. Len(at) : at[i] \in 0 .. Len(m)
  OBVIOUS
<1>2. c = [i \in 1 .. Len(at) |-> CopyCell(m, at[i])]
  BY <1>1, SameCopyCell DEF Library!Copies
<1>3. \A i \in 1 .. Len(at) : Loose(c[i], Len(m))
  BY <1>1, <1>2, CopiedCell
<1> HIDE DEF c
<1>4. IsSequence(c) /\ Len(c) = Len(at)
  <2>1. c = [i \in 1 .. Len(at) |-> c[i]]
    BY <1>2
  <2>2. QED
    BY <1>1, <2>1, FunctionFact
<1>5. QED
  BY <1>3, <1>4 DEF AllLoose, c

(* zip adds the pairs, then their fields, then the list: its parts are     *)
(* placed one behind the other in a memory of that size.                   *)
Placed(cells, from, size) ==
  /\ IsSequence(cells)
  /\ \A i \in 1 .. Len(cells) : CellAt(cells[i], from + i, size)

LEMMA PlacedConcat ==
  ASSUME NEW s, NEW t, NEW from \in Nat, NEW size \in Nat,
         Placed(s, from, size), Placed(t, from + Len(s), size)
  PROVE  Placed(s \o t, from, size) /\ Len(s \o t) = Len(s) + Len(t)
<1> DEFINE j == s \o t  n == Len(s)  k == Len(t)
<1>1. n \in Nat /\ k \in Nat /\ IsSequence(s) /\ IsSequence(t)
  BY SequenceFact DEF Placed
<1>2. /\ IsSequence(j) /\ Len(j) = n + k
      /\ \A i \in 1 .. n : j[i] = s[i]
      /\ \A i \in 1 .. k : j[n + i] = t[i]
  BY <1>1, ConcatFact
<1>3. /\ \A i \in 1 .. n : CellAt(s[i], from + i, size)
      /\ \A i \in 1 .. k : CellAt(t[i], from + n + i, size)
  BY DEF Placed
<1> HIDE DEF j, n, k
<1>4. ASSUME NEW i \in 1 .. n + k PROVE CellAt(j[i], from + i, size)
  <2>1. CASE i \in 1 .. n
    BY <1>2, <1>3, <2>1
  <2>2. CASE i \notin 1 .. n
    <3>1. PICK h \in 1 .. k : i = n + h /\ from + i = from + n + h
      <4>1. i - n \in 1 .. k /\ i = n + (i - n) /\ from + i = from + n + (i - n)
        BY <1>1, <2>2
      <4>2. QED
        BY <4>1
    <3>2. j[i] = t[h] /\ CellAt(t[h], from + n + h, size)
      BY <1>2, <1>3, <3>1
    <3>3. QED
      BY <3>1, <3>2
  <2>3. QED
    BY <2>1, <2>2
<1>5. QED
  BY <1>2, <1>4 DEF Placed, j, n, k

LEMMA ShorterFact ==
  ASSUME NEW A, NEW s \in Seq(A), NEW t \in Seq(A)
  PROVE  LET n == IF Len(s) < Len(t) THEN Len(s) ELSE Len(t)
         IN  n \in Nat /\ \A i \in 1 .. n : s[i] \in A /\ t[i] \in A
  OBVIOUS

LEMMA PairsSound ==
  ASSUME NEW m, IsMemory(m), NEW ls \in Seq(0 .. Len(m)), NEW rs \in Seq(0 .. Len(m))
  PROVE  \A r \in Library!Pairs(m, ls, rs) : Sound(m, r)
<1> DEFINE N == Len(m)
           n == IF Len(ls) < Len(rs) THEN Len(ls) ELSE Len(rs)
           at(i) == N + n + 2 * i - 1
           half(k) == (k + 1) \div 2
           size == N + (n + 2 * n + 1)
           pairs == [i \in 1 .. n |-> Cell("record", 0, "", at(i))]
           field(k) == IF k % 2 = 1
                       THEN [Cell("field", 0, "a", ls[half(k)])
                               EXCEPT !.next = at(half(k)) + 1]
                       ELSE Cell("field", 0, "b", rs[k \div 2])
           fields == [k \in 1 .. 2 * n |-> field(k)]
           linked == Library!Linked(m, pairs)
           owner == Library!ListCell(Library!First(m, pairs))
<1>1. Library!Pairs(m, ls, rs) = Library!Made(m, linked \o fields \o <<owner>>)
  BY SameCell DEF Library!Pairs, Library!RecordCell, Library!FieldCell
<1>2. /\ N \in Nat /\ n \in Nat /\ size \in Nat
      /\ N <= size
      /\ \A i \in 1 .. n : ls[i] \in 0 .. N /\ rs[i] \in 0 .. N
  <2>1. Len(m) \in Nat
    BY SequenceFact DEF IsMemory
  <2>2. n \in Nat /\ \A i \in 1 .. n : ls[i] \in 0 .. Len(m) /\ rs[i] \in 0 .. Len(m)
    BY ShorterFact, Zenon
  <2> HIDE DEF n
  <2>3. QED
    BY <2>1, <2>2
<1> HIDE DEF N, n
<1>3. Placed(linked, N, size) /\ Len(linked) = n
  <2> DEFINE next(i) == IF i = n THEN 0 ELSE N + i + 1
  <2>1. IsSequence(pairs) /\ Len(pairs) = n /\ DOMAIN pairs = 1 .. n
    <3>1. pairs = [i \in 1 .. n |-> pairs[i]]
      OBVIOUS
    <3> HIDE DEF pairs
    <3>2. QED
      BY <1>2, <3>1, FunctionFact, SequenceFact
  <2>2. linked = [i \in 1 .. n |-> [pairs[i] EXCEPT !.next = next(i)]]
    BY <2>1 DEF Library!Linked, Library!NULL, N
  <2>3. ASSUME NEW i \in 1 .. n
        PROVE  CellAt([pairs[i] EXCEPT !.next = next(i)], N + i, size)
    <3>1. at(i) \in 0 .. size /\ N + i \in Nat
      BY <1>2
    <3>2. next(i) = NULL \/ next(i) \in (N + i) + 1 .. size
      BY <1>2 DEF NULL
    <3>3. "record" \in Kinds /\ 0 \in Int
      BY DEF Kinds
    <3>4. pairs[i] = Cell("record", 0, "", at(i))
      OBVIOUS
    <3> HIDE DEF at, next, size, pairs
    <3>5. CellAt(pairs[i], N + i, size)
      BY <1>2, <3>1, <3>3, <3>4, NewCell
    <3>6. size \in Nat /\ size <= size
      BY <1>2 DEF size
    <3>7. QED
      BY <3>2, <3>5, <3>6, RelinkedCell
  <2> HIDE DEF linked, pairs, next, size
  <2>4. linked = [i \in 1 .. n |-> linked[i]]
    BY <2>2
  <2>5. IsSequence(linked) /\ Len(linked) = n
    BY <1>2, <2>4, FunctionFact
  <2>6. \A i \in 1 .. n : CellAt(linked[i], N + i, size)
    BY <2>2, <2>3
  <2>7. QED
    BY <2>5, <2>6 DEF Placed
<1>4. Placed(fields, N + n, size) /\ Len(fields) = 2 * n
  <2>1. ASSUME NEW k \in 1 .. 2 * n PROVE CellAt(field(k), N + n + k, size)
    <3>1. "field" \in Kinds /\ 0 \in Int
      BY DEF Kinds
    <3>2. CASE k % 2 = 1
      <4> DEFINE c == Cell("field", 0, "a", ls[half(k)])
      <4>1. half(k) \in 1 .. n /\ 2 * half(k) = k + 1 /\ k < 2 * n
        BY <1>2, <3>2
      <4>2. ls[half(k)] \in 0 .. size
        <5>1. ls[half(k)] \in 0 .. N
          <6> HIDE DEF half
          <6>1. QED
            BY <1>2, <4>1
        <5>2. \A a \in 0 .. N : a \in 0 .. size
          BY <1>2
        <5>3. QED
          BY <5>1, <5>2
      <4>3. at(half(k)) + 1 \in (N + n + k) + 1 .. size
        BY <1>2, <4>1
      <4>4. field(k) = [c EXCEPT !.next = at(half(k)) + 1]
        BY <3>2
      <4> HIDE DEF size, at, half
      <4>5. CellAt(c, N + n + k, size)
        BY <1>2, <3>1, <4>2, NewCell
      <4> HIDE DEF c, field
      <4>6. CellAt([c EXCEPT !.next = at(half(k)) + 1], N + n + k, size)
        <5>1. size \in Nat /\ size <= size
          BY <1>2 DEF size
        <5> DEFINE here == N + n + k  next == at(half(k)) + 1
        <5>2. CellAt(c, here, size) /\ next \in here + 1 .. size
          BY <4>3, <4>5
        <5> HIDE DEF here, next
        <5>3. CellAt([c EXCEPT !.next = next], here, size)
          BY <5>1, <5>2, RelinkedCell
        <5>4. QED
          BY <5>3 DEF here, next
      <4>7. QED
        BY <4>4, <4>6
    <3>3. CASE k % 2 # 1
      <4>1. k \div 2 \in 1 .. n
        BY <1>2, <3>3
      <4>2. rs[k \div 2] \in 0 .. size
        <5>1. rs[k \div 2] \in 0 .. N
          BY <1>2, <4>1, Zenon
        <5>2. \A a \in 0 .. N : a \in 0 .. size
          BY <1>2
        <5>3. QED
          BY <5>1, <5>2
      <4>3. field(k) = Cell("field", 0, "b", rs[k \div 2])
        BY <3>3
      <4> HIDE DEF size, field
      <4>4. QED
        BY <1>2, <3>1, <4>2, <4>3, NewCell
    <3>4. QED
      BY <3>2, <3>3
  <2>2. 2 * n \in Nat
    BY <1>2
  <2> HIDE DEF field, size
  <2>3. fields = [k \in 1 .. 2 * n |-> fields[k]]
    OBVIOUS
  <2>4. \A k \in 1 .. 2 * n : CellAt(fields[k], N + n + k, size)
    BY <2>1
  <2> HIDE DEF fields
  <2>5. IsSequence(fields) /\ Len(fields) = 2 * n
    BY <2>2, <2>3, FunctionFact
  <2>6. QED
    BY <2>4, <2>5 DEF Placed
<1>5. Placed(<<owner>>, N + (n + 2 * n), size) /\ Len(<<owner>>) = 1
  <2>1. Library!First(m, pairs) \in 0 .. size
    <3>1. Library!First(m, pairs) \in {0, N + 1}
      BY DEF Library!First, Library!NULL, N
    <3>2. \A a \in {0, N + 1} : a \in 0 .. size
      BY <1>2
    <3> HIDE DEF pairs, size
    <3>3. QED
      BY <3>1, <3>2
  <2>2. "list" \in Kinds /\ 0 \in Int
    BY DEF Kinds
  <2>3. owner = Cell("list", 0, "", Library!First(m, pairs))
    BY SameCell DEF Library!ListCell
  <2> HIDE DEF size, pairs, owner
  <2>4. CellAt(owner, N + (n + 2 * n) + 1, size)
    BY <1>2, <2>1, <2>2, <2>3, NewCell
  <2>5. <<owner>> \in Seq({owner}) /\ Len(<<owner>>) = 1 /\ <<owner>>[1] = owner
    OBVIOUS
  <2>6. IsSequence(<<owner>>)
    BY <2>5 DEF IsSequence
  <2>7. \A i \in 1 .. 1 : i = 1
    OBVIOUS
  <2>8. QED
    BY <2>4, <2>5, <2>6, <2>7 DEF Placed
<1> HIDE DEF linked, fields, owner, pairs
<1>6. /\ Placed(linked \o fields, N, size)
      /\ Len(linked \o fields) = n + 2 * n
  <2> HIDE DEF size
  <2>1. QED
    BY <1>2, <1>3, <1>4, PlacedConcat
<1>7. /\ Placed(linked \o fields \o <<owner>>, N, size)
      /\ Len(linked \o fields \o <<owner>>) = n + 2 * n + 1
  <2> HIDE DEF size
  <2>1. QED
    BY <1>2, <1>5, <1>6, PlacedConcat
<1>8. Fit(m, linked \o fields \o <<owner>>)
  BY <1>7 DEF Placed, Fit, N
<1>9. QED
  BY <1>1, <1>8, MadeSound

LEMMA ScalarLoose ==
  ASSUME NEW c, Scalar(c), NEW size \in Nat
  PROVE  Loose(c, size)
<1>1. PICK kind, n, s :
        /\ kind \in {"integer", "float", "string"} /\ n \in Int
        /\ c = Cell(kind, n, s, 0)
  BY DEF Scalar
<1>2. kind \in Kinds /\ 0 \in 0 .. size
  BY <1>1 DEF Kinds
<1>3. QED
  BY <1>1, <1>2, NewLooseCell

LEMMA FormSound ==
  ASSUME NEW m, IsMemory(m), NEW V, NEW F, Region(m, V, F), NEW r, Form(m, V, F, r)
  PROVE  Sound(m, r)
<1>1. /\ Len(m) \in Nat /\ V \subseteq 1 .. Len(m) /\ F \subseteq 1 .. Len(m)
      /\ V \cup {0} \subseteq 0 .. Len(m) /\ V \subseteq 0 .. Len(m)
  BY SequenceFact DEF IsMemory, Region
<1>2. CASE \E a \in V : r \in Library!Given(a) \cup Library!Made(m, <<CopyCell(m, a)>>)
  BY <1>1, <1>2, GivenSound, CopiedCell, MadeOne
<1>3. CASE \E c : Scalar(c) /\ r \in Library!Made(m, <<c>>)
  BY <1>1, <1>3, ScalarLoose, MadeOne
<1>4. CASE \E at \in Seq(V \cup {0}) : r \in Library!MadeList(m, Library!Copies(m, at))
  <2>1. PICK at \in Seq(V \cup {0}) : r \in Library!MadeList(m, Library!Copies(m, at))
    BY <1>4
  <2>2. at \in Seq(0 .. Len(m))
    BY <1>1, SeqMonotonic, Zenon
  <2>3. QED
    BY <2>1, <2>2, CopiesLoose, MadeContainers
<1>5. CASE \E items : ScalarItems(items) /\ r \in Library!MadeList(m, items)
  <2>1. PICK items : ScalarItems(items) /\ r \in Library!MadeList(m, items)
    BY <1>5
  <2>2. AllLoose(m, items)
    BY <1>1, <2>1, ScalarLoose DEF ScalarItems, AllLoose
  <2>3. QED
    BY <2>1, <2>2, MadeContainers
<1>6. CASE \E fields \in Seq(NewFields(m, F)) : r \in Library!MadeRecord(m, fields)
  <2>1. PICK fields \in Seq(NewFields(m, F)) : r \in Library!MadeRecord(m, fields)
    BY <1>6
  <2>2. IsSequence(fields) /\ \A i \in 1 .. Len(fields) : fields[i] \in NewFields(m, F)
    BY DEF IsSequence
  <2>3. \A c \in NewFields(m, F) : Loose(c, Len(m))
    <3>1. \A f \in F : m[f].head \in 0 .. Len(m)
      BY <1>1, CellFact
    <3>2. QED
      BY <3>1 DEF NewFields, Loose, CellAt, CellFields, Kinds, NULL
  <2>4. AllLoose(m, fields)
    BY <2>2, <2>3 DEF AllLoose
  <2>5. QED
    BY <2>1, <2>4, MadeContainers
<1>7. CASE \E ls \in Seq(V), rs \in Seq(V) : r \in Library!Pairs(m, ls, rs)
  <2>1. PICK ls \in Seq(V), rs \in Seq(V) : r \in Library!Pairs(m, ls, rs)
    BY <1>7
  <2>2. ls \in Seq(0 .. Len(m)) /\ rs \in Seq(0 .. Len(m))
    BY <1>1, SeqMonotonic, Zenon
  <2>3. QED
    BY <2>1, <2>2, PairsSound
<1>8. QED
  BY <1>2, <1>3, <1>4, <1>5, <1>6, <1>7 DEF Form

(* Whatever function is called, with addresses of values or NULL for its   *)
(* parameters.                                                             *)
THEOREM CallSound ==
  ASSUME NEW m, IsMemory(m), NEW arg \in [Library!ArgNames -> 0 .. Len(m)], NEW f
  PROVE  \A r \in Library!Call(f, m, arg) : Sound(m, r)
<1> DEFINE A == 1 .. Len(m)
<1>1. Len(m) \in Nat /\ 0 .. Len(m) \subseteq A \cup {0}
  BY SequenceFact DEF IsMemory
<1>2. Region(m, A, A)
  <2>1. ASSUME NEW a \in A PROVE Members(m, a) \in Seq(A) /\ m[a].head \in A \cup {0}
    BY <1>1, CellFact, MembersFact
  <2> HIDE DEF A
  <2>2. QED
    BY <2>1 DEF Region, A
<1>3. arg \in [Library!ArgNames -> A \cup {0}]
  BY <1>1
<1> HIDE DEF A
<1>4. QED
  BY <1>2, <1>3, CallForm, FormSound

------------------------------------------------------------------------------
(* A part of a memory in which values and fields are told apart by their   *)
(* kinds and point as PointsTo says.                                       *)
Tidy(m, V, F) ==
  /\ V \subseteq 1 .. Len(m) /\ F \subseteq 1 .. Len(m)
  /\ \A a \in V : m[a].kind # "field" /\ PointsTo(m[a], V, F)
  /\ \A f \in F : m[f].kind = "field" /\ PointsTo(m[f], V, F)

(* An answer is a value of the part or a new one, and the new cells point  *)
(* into the part and to each other.                                        *)
Keeps(m, V, F, r) ==
  \E W, G :
    /\ W \cup G = Len(m) + 1 .. Len(m) + Len(r.cells)
    /\ \A i \in 1 .. Len(r.cells) :
         /\ Len(m) + i \in W <=> r.cells[i].kind # "field"
         /\ Len(m) + i \in G <=> r.cells[i].kind = "field"
         /\ PointsTo(r.cells[i], V \cup W, F \cup G)
    /\ r.at \in V \cup W

LEMMA TidyRegion ==
  ASSUME NEW m, IsMemory(m), NEW V, NEW F, Tidy(m, V, F)
  PROVE  Region(m, V, F)
<1>1. V \subseteq 1 .. Len(m) /\ F \subseteq 1 .. Len(m)
  BY DEF Tidy
<1>2. \A x \in V : m[x].next \in V \cup {NULL}
  BY DEF Tidy, PointsTo
<1>3. \A x \in F : m[x].next \in F \cup {NULL} /\ m[x].head \in V
  BY DEF Tidy, PointsTo
<1>4. ASSUME NEW a \in V, KindAt(m, a) = "list" PROVE Members(m, a) \in Seq(V)
  <2>1. m[a].kind = "list"
    BY <1>4 DEF KindAt, NULL
  <2>2. PointsTo(m[a], V, F)
    BY DEF Tidy
  <2>3. m[a].head \in V \cup {NULL}
    BY <2>1, <2>2 DEF PointsTo
  <2>4. QED
    BY <1>1, <1>2, <2>3, ChainStays DEF Members
<1>5. ASSUME NEW a \in V, KindAt(m, a) = "record" PROVE Members(m, a) \in Seq(F)
  <2>1. m[a].kind = "record"
    BY <1>5 DEF KindAt, NULL
  <2>2. PointsTo(m[a], V, F)
    BY DEF Tidy
  <2>3. m[a].head \in F \cup {NULL}
    BY <2>1, <2>2 DEF PointsTo
  <2>4. QED
    BY <1>1, <1>3, <2>3, ChainStays DEF Members
<1>6. QED
  BY <1>1, <1>3, <1>4, <1>5 DEF Region

(* What Linked does to cells, with their owner behind them.                *)
LEMMA LinkedCells ==
  ASSUME NEW m, IsMemory(m), NEW items, IsSequence(items),
         \A i \in 1 .. Len(items) : DOMAIN items[i] = CellFields
  PROVE  /\ IsSequence(Library!Linked(m, items))
         /\ Len(Library!Linked(m, items)) = Len(items)
         /\ Len(m) \in Nat /\ Len(items) \in Nat
         /\ \A i \in 1 .. Len(items) :
              /\ Library!Linked(m, items)[i].kind = items[i].kind
              /\ Library!Linked(m, items)[i].head = items[i].head
              /\ Library!Linked(m, items)[i].next =
                   IF i = Len(items) THEN 0 ELSE Len(m) + i + 1
<1> DEFINE n == Len(items)  l == Library!Linked(m, items)
           next(i) == IF i = n THEN 0 ELSE Len(m) + i + 1
<1>1. Len(m) \in Nat /\ n \in Nat /\ DOMAIN items = 1 .. n
  BY SequenceFact DEF IsMemory
<1>2. l = [i \in 1 .. n |-> [items[i] EXCEPT !.next = next(i)]]
  BY <1>1 DEF Library!Linked, Library!NULL
<1>3. \A i \in 1 .. n : DOMAIN items[i] = CellFields
  OBVIOUS
<1> HIDE DEF n, l
<1>4. \A i \in 1 .. n : /\ l[i].kind = items[i].kind /\ l[i].head = items[i].head
                        /\ l[i].next = next(i)
  <2> HIDE DEF next
  <2>1. QED
    BY <1>2, <1>3 DEF CellFields
<1>5. l = [i \in 1 .. n |-> l[i]]
  BY <1>2
<1>6. IsSequence(l) /\ Len(l) = n
  BY <1>1, <1>5, FunctionFact
<1>7. QED
  BY <1>1, <1>4, <1>6 DEF n, l

LEMMA OwnerBehind ==
  ASSUME NEW s, IsSequence(s), NEW c
  PROVE  /\ Len(s \o <<c>>) = Len(s) + 1 /\ (s \o <<c>>)[Len(s) + 1] = c
         /\ \A i \in 1 .. Len(s) : (s \o <<c>>)[i] = s[i]
<1>1. <<c>> \in Seq({c}) /\ Len(<<c>>) = 1 /\ <<c>>[1] = c /\ 1 \in 1 .. 1
  OBVIOUS
<1>2. IsSequence(<<c>>)
  BY <1>1 DEF IsSequence
<1>3. QED
  BY <1>1, <1>2, ConcatFact

LEMMA ListKeeps ==
  ASSUME NEW m, IsMemory(m), NEW V, NEW F, NEW items, IsSequence(items),
         \A i \in 1 .. Len(items) :
           /\ DOMAIN items[i] = CellFields /\ items[i].kind # "field"
           /\ items[i].head \in (IF items[i].kind = "record" THEN F ELSE V) \cup {NULL},
         NEW r \in Library!MadeList(m, items)
  PROVE  Keeps(m, V, F, r)
<1> DEFINE n == Len(items)  l == Library!Linked(m, items)
           owner == Library!ListCell(Library!First(m, items))
           W == Len(m) + 1 .. Len(m) + (n + 1)
<1>1. /\ r.cells = l \o <<owner>> /\ r.at = Len(m) + Len(r.cells)
  BY DEF Library!MadeList, Library!Made
<1>2. /\ IsSequence(l) /\ Len(l) = n /\ Len(m) \in Nat /\ n \in Nat
      /\ \A i \in 1 .. n : /\ l[i].kind = items[i].kind /\ l[i].head = items[i].head
                           /\ l[i].next = IF i = n THEN 0 ELSE Len(m) + i + 1
  BY LinkedCells
<1>3. owner = Cell("list", 0, "", Library!First(m, items))
  BY SameCell DEF Library!ListCell
<1>4. Library!First(m, items) \in {0, Len(m) + 1}
  BY DEF Library!First, Library!NULL
<1>5. \A i \in 1 .. n :
        /\ items[i].kind # "field"
        /\ items[i].head \in (IF items[i].kind = "record" THEN F ELSE V) \cup {NULL}
  OBVIOUS
<1> HIDE DEF l, owner, n
<1>6. /\ Len(r.cells) = n + 1 /\ r.cells[n + 1] = owner
      /\ \A i \in 1 .. n : r.cells[i] = l[i]
  <2>1. /\ Len(l \o <<owner>>) = Len(l) + 1 /\ (l \o <<owner>>)[Len(l) + 1] = owner
        /\ \A i \in 1 .. Len(l) : (l \o <<owner>>)[i] = l[i]
    BY <1>2, OwnerBehind
  <2>2. QED
    BY <1>1, <1>2, <2>1
<1>7. ASSUME NEW i \in 1 .. n + 1
      PROVE  r.cells[i].kind # "field" /\ PointsTo(r.cells[i], V \cup W, F)
  <2>1. CASE i = n + 1
    <3>1. r.cells[i].kind = "list" /\ r.cells[i].next = NULL
          /\ r.cells[i].head \in {0, Len(m) + 1}
      <4>1. PICK h \in {0, Len(m) + 1} : h = Library!First(m, items)
        BY <1>4
      <4>2. PICK c : c = Cell("list", 0, "", h)
        OBVIOUS
      <4>3. c.kind = "list" /\ c.next = NULL /\ c.head = h
        BY <4>2 DEF Cell
      <4>4. r.cells[i] = c
        BY <1>3, <1>6, <2>1, <4>1, <4>2
      <4>5. QED
        BY <4>1, <4>3, <4>4, Zenon
    <3>2. Len(m) + 1 \in W
      BY <1>2
    <3> HIDE DEF W
    <3>3. QED
      BY <3>1, <3>2 DEF PointsTo, NULL
  <2>2. CASE i # n + 1
    <3>1. i \in 1 .. n
      BY <1>2, <2>2
    <3>2. /\ r.cells[i].kind = items[i].kind /\ r.cells[i].head = items[i].head
          /\ r.cells[i].next = IF i = n THEN 0 ELSE Len(m) + i + 1
      BY <1>2, <1>6, <3>1
    <3>3. r.cells[i].next \in W \cup {NULL}
      BY <1>2, <3>1, <3>2 DEF NULL
    <3> HIDE DEF W
    <3>4. QED
      BY <1>5, <3>1, <3>2, <3>3 DEF PointsTo
  <2>3. QED
    BY <2>1, <2>2
<1>8. /\ \A i \in 1 .. n + 1 : Len(m) + i \in W
      /\ r.at \in W
  BY <1>1, <1>2, <1>6
<1> HIDE DEF W
<1>9. W = Len(m) + 1 .. Len(m) + Len(r.cells)
  BY <1>6 DEF W
<1>10. /\ W \cup {} = Len(m) + 1 .. Len(m) + Len(r.cells)
       /\ \A i \in 1 .. Len(r.cells) :
            /\ Len(m) + i \in W <=> r.cells[i].kind # "field"
            /\ Len(m) + i \in {} <=> r.cells[i].kind = "field"
            /\ PointsTo(r.cells[i], V \cup W, F \cup {})
       /\ r.at \in V \cup W
  <2>1. F \cup {} = F /\ W \cup {} = W
    OBVIOUS
  <2>2. QED
    BY <1>6, <1>7, <1>8, <1>9, <2>1
<1>11. QED
  BY <1>10, Zenon DEF Keeps

LEMMA RecordKeeps ==
  ASSUME NEW m, IsMemory(m), NEW V, NEW F, NEW items, IsSequence(items),
         \A i \in 1 .. Len(items) :
           /\ DOMAIN items[i] = CellFields /\ items[i].kind = "field"
           /\ items[i].head \in V,
         NEW r \in Library!MadeRecord(m, items)
  PROVE  Keeps(m, V, F, r)
<1> DEFINE n == Len(items)  l == Library!Linked(m, items)
           owner == Library!RecordCell(Library!First(m, items))
           G == Len(m) + 1 .. Len(m) + n
           W == {Len(m) + (n + 1)}
<1>1. /\ r.cells = l \o <<owner>> /\ r.at = Len(m) + Len(r.cells)
  <2> DEFINE cells == l \o <<owner>>
  <2>1. r \in Library!Made(m, cells)
    BY DEF Library!MadeRecord
  <2> HIDE DEF cells
  <2>2. r.cells = cells /\ r.at = Len(m) + Len(r.cells)
    BY <2>1 DEF Library!Made
  <2>3. QED
    BY <2>2 DEF cells
<1>2. /\ IsSequence(l) /\ Len(l) = n /\ Len(m) \in Nat /\ n \in Nat
      /\ \A i \in 1 .. n : /\ l[i].kind = items[i].kind /\ l[i].head = items[i].head
                           /\ l[i].next = IF i = n THEN 0 ELSE Len(m) + i + 1
  BY LinkedCells
<1>3. owner = Cell("record", 0, "", Library!First(m, items))
  BY SameCell DEF Library!RecordCell
<1>4. Library!First(m, items) \in G \cup {0}
  <2>1. items # << >> => n # 0
    BY SequenceFact DEF IsSequence
  <2>2. n # 0 => Len(m) + 1 \in G
    BY <1>2
  <2> HIDE DEF n, G
  <2>3. QED
    BY <2>1, <2>2 DEF Library!First, Library!NULL
<1>5. \A i \in 1 .. n : items[i].kind = "field" /\ items[i].head \in V
  OBVIOUS
<1> HIDE DEF l, owner, n
<1>6. /\ Len(r.cells) = n + 1 /\ r.cells[n + 1] = owner
      /\ \A i \in 1 .. n : r.cells[i] = l[i]
  <2>1. /\ Len(l \o <<owner>>) = Len(l) + 1 /\ (l \o <<owner>>)[Len(l) + 1] = owner
        /\ \A i \in 1 .. Len(l) : (l \o <<owner>>)[i] = l[i]
    BY <1>2, OwnerBehind
  <2>2. QED
    BY <1>1, <1>2, <2>1
<1>7. ASSUME NEW i \in 1 .. n + 1
      PROVE  /\ r.cells[i].kind = "field" <=> i # n + 1
             /\ PointsTo(r.cells[i], V \cup W, F \cup G)
  <2>1. CASE i = n + 1
    <3>1. r.cells[i].kind = "record" /\ r.cells[i].next = NULL
          /\ r.cells[i].head \in G \cup {0}
      <4>1. PICK h \in G \cup {0} : h = Library!First(m, items)
        BY <1>4
      <4>2. PICK c : c = Cell("record", 0, "", h)
        OBVIOUS
      <4>3. c.kind = "record" /\ c.next = NULL /\ c.head = h
        BY <4>2 DEF Cell
      <4>4. r.cells[i] = c
        BY <1>3, <1>6, <2>1, <4>1, <4>2
      <4>5. QED
        BY <4>1, <4>3, <4>4, Zenon
    <3>2. QED
      BY <2>1, <3>1 DEF PointsTo, NULL
  <2>2. CASE i # n + 1
    <3>1. i \in 1 .. n
      BY <1>2, <2>2
    <3>2. /\ r.cells[i].kind = items[i].kind /\ r.cells[i].head = items[i].head
          /\ r.cells[i].next = IF i = n THEN 0 ELSE Len(m) + i + 1
      BY <1>2, <1>6, <3>1
    <3>3. r.cells[i].next \in G \cup {NULL}
      BY <1>2, <3>1, <3>2 DEF NULL
    <3> HIDE DEF G, W
    <3>4. QED
      BY <1>5, <2>2, <3>1, <3>2, <3>3 DEF PointsTo
  <2>3. QED
    BY <2>1, <2>2
<1>8. /\ \A i \in 1 .. n + 1 : /\ Len(m) + i \in G <=> i # n + 1
                               /\ Len(m) + i \in W <=> i = n + 1
      /\ r.at \in W /\ W \cup G = Len(m) + 1 .. Len(m) + (n + 1)
  BY <1>1, <1>2, <1>6
<1> HIDE DEF W, G
<1>9. QED
  BY <1>6, <1>7, <1>8 DEF Keeps

LEMMA OneKeeps ==
  ASSUME NEW m, IsMemory(m), NEW V, NEW F
  PROVE  /\ \A a \in V : \A r \in Library!Given(a) : Keeps(m, V, F, r)
         /\ \A c : c.kind # "field" /\ PointsTo(c, V, F) =>
              \A r \in Library!Made(m, <<c>>) : Keeps(m, V, F, r)
<1>1. Len(m) \in Nat
  BY SequenceFact DEF IsMemory
<1>2. ASSUME NEW a \in V, NEW r \in Library!Given(a) PROVE Keeps(m, V, F, r)
  <2>1. r.cells = << >> /\ r.at = a /\ Len(<< >>) = 0
    BY DEF Library!Given
  <2>2. {} \cup {} = Len(m) + 1 .. Len(m) + 0
    BY <1>1
  <2>3. \A i \in 1 .. 0 : FALSE
    OBVIOUS
  <2>4. QED
    BY <2>1, <2>2, <2>3 DEF Keeps
<1>3. ASSUME NEW c, c.kind # "field", PointsTo(c, V, F), NEW r \in Library!Made(m, <<c>>)
      PROVE  Keeps(m, V, F, r)
  <2> DEFINE W == {Len(m) + 1}
  <2>1. r.cells = <<c>> /\ r.at = Len(m) + 1 /\ Len(<<c>>) = 1 /\ <<c>>[1] = c
    BY DEF Library!Made
  <2>2. W \cup {} = Len(m) + 1 .. Len(m) + 1 /\ \A i \in 1 .. 1 : i = 1
    BY <1>1
  <2>3. PointsTo(c, V \cup W, F \cup {})
    BY <1>3 DEF PointsTo
  <2> HIDE DEF W
  <2>4. r.at \in W /\ Len(m) + 1 \in W
    BY <2>1 DEF W
  <2>5. QED
    BY <1>3, <2>1, <2>2, <2>3, <2>4 DEF Keeps
<1>4. QED
  BY <1>2, <1>3

LEMMA PairsKeeps ==
  ASSUME NEW m, IsMemory(m), NEW V, NEW F, NEW ls \in Seq(V), NEW rs \in Seq(V),
         NEW r \in Library!Pairs(m, ls, rs)
  PROVE  Keeps(m, V, F, r)
<1> DEFINE N == Len(m)
           n == IF Len(ls) < Len(rs) THEN Len(ls) ELSE Len(rs)
           at(i) == N + n + 2 * i - 1
           half(k) == (k + 1) \div 2
           pairs == [i \in 1 .. n |-> Cell("record", 0, "", at(i))]
           odd(k) == [Cell("field", 0, "a", ls[half(k)]) EXCEPT !.next = at(half(k)) + 1]
           even(k) == Cell("field", 0, "b", rs[k \div 2])
           fields == [k \in 1 .. 2 * n |-> IF k % 2 = 1 THEN odd(k) ELSE even(k)]
           linked == Library!Linked(m, pairs)
           owner == Library!ListCell(Library!First(m, pairs))
           cells == linked \o fields \o <<owner>>
           last == n + 2 * n + 1
           W == {N + i : i \in 1 .. n} \cup {N + last}
           G == {N + n + k : k \in 1 .. 2 * n}
           Kept(c) == PointsTo(c, V \cup W, F \cup G)
<1>1. r.cells = cells /\ r.at = N + Len(cells)
  <2>1. Library!Pairs(m, ls, rs) = Library!Made(m, cells)
    BY SameCell DEF Library!Pairs, Library!RecordCell, Library!FieldCell
  <2> HIDE DEF cells
  <2>2. QED
    BY <2>1 DEF Library!Made
<1>2. N \in Nat /\ n \in Nat /\ \A i \in 1 .. n : ls[i] \in V /\ rs[i] \in V
  <2>1. Len(m) \in Nat
    BY SequenceFact DEF IsMemory
  <2>2. n \in Nat /\ \A i \in 1 .. n : ls[i] \in V /\ rs[i] \in V
    BY ShorterFact, Zenon
  <2> HIDE DEF n
  <2>3. QED
    BY <2>1, <2>2
<1> HIDE DEF N, n
<1>3. IsSequence(pairs) /\ Len(pairs) = n
  <2>1. pairs = [i \in 1 .. n |-> pairs[i]]
    OBVIOUS
  <2> HIDE DEF pairs
  <2>2. QED
    BY <1>2, <2>1, FunctionFact
<1>4. \A i \in 1 .. n : /\ DOMAIN pairs[i] = CellFields
                        /\ pairs[i].kind = "record" /\ pairs[i].head = at(i)
  <2>1. \A i \in 1 .. n : pairs[i] = Cell("record", 0, "", at(i))
    OBVIOUS
  <2> HIDE DEF pairs, at
  <2>2. \A h : LET c == Cell("record", 0, "", h)
               IN  DOMAIN c = CellFields /\ c.kind = "record" /\ c.head = h
    BY DEF Cell, CellFields
  <2>3. QED
    BY <2>1, <2>2, Zenon
<1>5. /\ IsSequence(linked) /\ Len(linked) = n
      /\ \A i \in 1 .. n : /\ linked[i].kind = "record" /\ linked[i].head = at(i)
                           /\ linked[i].next = IF i = n THEN 0 ELSE N + i + 1
  <2> HIDE DEF pairs, at
  <2>1. \A i \in 1 .. Len(pairs) : DOMAIN pairs[i] = CellFields
    BY <1>3, <1>4
  <2>2. /\ IsSequence(linked) /\ Len(linked) = Len(pairs)
        /\ \A i \in 1 .. Len(pairs) :
             /\ linked[i].kind = pairs[i].kind /\ linked[i].head = pairs[i].head
             /\ linked[i].next = IF i = Len(pairs) THEN 0 ELSE N + i + 1
    BY <1>3, <2>1, LinkedCells DEF N
  <2> HIDE DEF linked
  <2>3. QED
    BY <1>3, <1>4, <2>2
<1>6. IsSequence(fields) /\ Len(fields) = 2 * n
  <2>1. fields = [k \in 1 .. 2 * n |-> fields[k]] /\ 2 * n \in Nat
    BY <1>2
  <2> HIDE DEF fields
  <2>2. QED
    BY <2>1, FunctionFact
<1>7. /\ Len(cells) = last /\ cells[last] = owner
      /\ \A i \in 1 .. n : cells[i] = linked[i]
      /\ \A k \in 1 .. 2 * n : cells[n + k] = fields[k]
  <2> HIDE DEF linked, fields, owner
  <2>1. /\ IsSequence(linked \o fields) /\ Len(linked \o fields) = n + 2 * n
        /\ \A i \in 1 .. n : (linked \o fields)[i] = linked[i]
        /\ \A k \in 1 .. 2 * n : (linked \o fields)[n + k] = fields[k]
    <3>1. /\ IsSequence(linked \o fields)
          /\ Len(linked \o fields) = Len(linked) + Len(fields)
          /\ \A i \in 1 .. Len(linked) : (linked \o fields)[i] = linked[i]
          /\ \A k \in 1 .. Len(fields) : (linked \o fields)[Len(linked) + k] = fields[k]
      <4>1. IsSequence(linked) /\ IsSequence(fields)
        BY <1>5, <1>6
      <4>2. PICK x : x = linked /\ IsSequence(x)
        BY <4>1
      <4>3. PICK y : y = fields /\ IsSequence(y)
        BY <4>1
      <4>4. /\ IsSequence(x \o y) /\ Len(x \o y) = Len(x) + Len(y)
            /\ \A i \in 1 .. Len(x) : (x \o y)[i] = x[i]
            /\ \A k \in 1 .. Len(y) : (x \o y)[Len(x) + k] = y[k]
        BY <4>2, <4>3, ConcatFact
      <4>5. QED
        BY <4>2, <4>3, <4>4
    <3>2. Len(linked) = n /\ Len(fields) = 2 * n
      BY <1>5, <1>6
    <3>3. QED
      BY <3>1, <3>2
  <2> DEFINE both == linked \o fields
  <2> HIDE DEF both
  <2>2. /\ IsSequence(both) /\ Len(both) = n + 2 * n
        /\ \A i \in 1 .. n : both[i] = linked[i]
        /\ \A k \in 1 .. 2 * n : both[n + k] = fields[k]
    BY <2>1 DEF both
  <2>3. /\ Len(both \o <<owner>>) = Len(both) + 1
        /\ (both \o <<owner>>)[Len(both) + 1] = owner
        /\ \A i \in 1 .. Len(both) : (both \o <<owner>>)[i] = both[i]
    BY <2>2, OwnerBehind
  <2>4. cells = both \o <<owner>>
    BY DEF both
  <2> HIDE DEF cells
  <2>5. \A i \in 1 .. n : i \in 1 .. n + 2 * n
    BY <1>2
  <2>6. \A k \in 1 .. 2 * n : n + k \in 1 .. n + 2 * n
    BY <1>2
  <2>7. QED
    BY <2>2, <2>3, <2>4, <2>5, <2>6
<1>8. ASSUME NEW i \in 1 .. n PROVE linked[i].kind # "field" /\ Kept(linked[i])
  <2>1. at(i) \in G
    <3>1. at(i) = N + n + (2 * i - 1) /\ 2 * i - 1 \in 1 .. 2 * n
      BY <1>2
    <3> HIDE DEF at
    <3>2. QED
      BY <3>1
  <2>2. linked[i].next \in W \cup {NULL}
    <3>1. i # n => i + 1 \in 1 .. n /\ N + i + 1 = N + (i + 1)
      BY <1>2
    <3> HIDE DEF linked
    <3>2. linked[i].next = IF i = n THEN 0 ELSE N + i + 1
      BY <1>5
    <3>3. i # n => N + i + 1 \in W
      BY <3>1
    <3> HIDE DEF W
    <3>4. QED
      BY <3>2, <3>3 DEF NULL
  <2> HIDE DEF linked, at, W, G
  <2>3. QED
    BY <1>5, <2>1, <2>2 DEF PointsTo
<1>9. ASSUME NEW k \in 1 .. 2 * n PROVE fields[k].kind = "field" /\ Kept(fields[k])
  <2>1. CASE k % 2 = 1
    <3>1. half(k) \in 1 .. n /\ 2 * half(k) = k + 1 /\ k < 2 * n
      BY <1>2, <2>1
    <3>2. at(half(k)) + 1 = N + n + (k + 1) /\ k + 1 \in 1 .. 2 * n
      <4> HIDE DEF half
      <4>1. QED
        BY <1>2, <3>1
    <3>3. PICK x \in G : x = at(half(k)) + 1
      BY <3>2
    <3>4. PICK a \in V : a = ls[half(k)]
      <4> HIDE DEF half
      <4>1. QED
        BY <1>2, <3>1
    <3>5. fields[k] = [Cell("field", 0, "a", a) EXCEPT !.next = x]
      BY <2>1, <3>3, <3>4
    <3> HIDE DEF fields, G, W
    <3>6. PICK c : c = [Cell("field", 0, "a", a) EXCEPT !.next = x]
      OBVIOUS
    <3>7. c.kind = "field" /\ c.head = a /\ c.next = x
      BY <3>6 DEF Cell
    <3>8. c.kind = "field" /\ Kept(c)
      BY <3>7 DEF PointsTo
    <3>9. QED
      BY <3>5, <3>6, <3>8, Zenon
  <2>2. CASE k % 2 # 1
    <3>1. k \div 2 \in 1 .. n
      BY <1>2, <2>2
    <3>2. PICK a \in V : a = rs[k \div 2]
      BY <1>2, <3>1
    <3>3. fields[k] = Cell("field", 0, "b", a)
      BY <2>2, <3>2
    <3> HIDE DEF fields, G, W
    <3>4. PICK c : c = Cell("field", 0, "b", a)
      OBVIOUS
    <3>5. c.kind = "field" /\ c.head = a /\ c.next = NULL
      BY <3>4 DEF Cell
    <3>6. c.kind = "field" /\ Kept(c)
      BY <3>5 DEF PointsTo
    <3>7. QED
      BY <3>3, <3>4, <3>6, Zenon
  <2>3. QED
    BY <2>1, <2>2
<1>10. owner.kind # "field" /\ Kept(owner)
  <2>1. Library!First(m, pairs) \in W \cup {0}
    <3>1. pairs # << >> => n # 0
      <4> HIDE DEF pairs
      <4>1. PICK S : pairs \in Seq(S)
        BY <1>3 DEF IsSequence
      <4>2. Len(pairs) = 0 => pairs = << >>
        BY <4>1
      <4>3. QED
        BY <1>3, <4>2
    <3>2. n # 0 => N + 1 \in W
      BY <1>2
    <3> HIDE DEF pairs, W
    <3>3. QED
      BY <3>1, <3>2 DEF Library!First, Library!NULL, N
  <2>2. PICK h \in W \cup {0} : h = Library!First(m, pairs)
    BY <2>1
  <2>3. owner = Cell("list", 0, "", h)
    BY <2>2, SameCell DEF Library!ListCell
  <2> HIDE DEF owner, W, G
  <2>4. PICK c : c = Cell("list", 0, "", h)
    OBVIOUS
  <2>5. c.kind = "list" /\ c.head = h /\ c.next = NULL
    BY <2>4 DEF Cell
  <2>6. c.kind # "field" /\ Kept(c)
    BY <2>5 DEF PointsTo, NULL
  <2>7. QED
    BY <2>3, <2>4, <2>6, Zenon
<1> HIDE DEF cells, linked, fields, owner, Kept, pairs, at, half
<1>11. ASSUME NEW i \in 1 .. last
       PROVE  /\ N + i \in W <=> cells[i].kind # "field"
              /\ N + i \in G <=> cells[i].kind = "field"
              /\ Kept(cells[i])
  <2>1. CASE i \in 1 .. n
    <3>1. N + i \in W /\ N + i \notin G
      BY <1>2, <2>1
    <3> HIDE DEF W, G
    <3>2. QED
      BY <1>7, <1>8, <2>1, <3>1
  <2>2. CASE i \in n + 1 .. n + 2 * n
    <3>1. PICK k \in 1 .. 2 * n : i = n + k
      <4>1. i - n \in 1 .. 2 * n /\ i = n + (i - n)
        BY <1>2, <2>2
      <4>2. QED
        BY <4>1
    <3>2. N + i \notin W /\ N + i \in G
      <4>1. N + i = N + n + k
        BY <1>2, <3>1
      <4>2. \A j \in 1 .. n : N + i # N + j
        BY <1>2, <2>2
      <4>3. N + i # N + last
        BY <1>2, <2>2
      <4>4. QED
        BY <4>1, <4>2, <4>3
    <3> HIDE DEF W, G
    <3>3. QED
      BY <1>7, <1>9, <3>1, <3>2
  <2>3. CASE i = last
    <3>1. N + i \in W /\ N + i \notin G
      <4>1. \A k \in 1 .. 2 * n : N + i # N + n + k
        BY <1>2, <2>3
      <4> HIDE DEF last
      <4>2. QED
        BY <2>3, <4>1
    <3> HIDE DEF W, G, last
    <3>2. QED
      BY <1>7, <1>10, <2>3, <3>1
  <2>4. QED
    BY <1>2, <2>1, <2>2, <2>3
<1>12. W \cup G = N + 1 .. N + last
  <2>1. \A x \in W \cup G : x \in N + 1 .. N + last
    <3>1. \A i \in 1 .. n : N + i \in N + 1 .. N + last
      BY <1>2
    <3>2. \A k \in 1 .. 2 * n : N + n + k \in N + 1 .. N + last
      BY <1>2
    <3>3. N + last \in N + 1 .. N + last
      BY <1>2
    <3> HIDE DEF last
    <3>4. QED
      BY <3>1, <3>2, <3>3
  <2>2. ASSUME NEW x \in N + 1 .. N + last PROVE x \in W \cup G
    <3>1. PICK i \in 1 .. last : x = N + i
      <4>1. x - N \in 1 .. last /\ x = N + (x - N)
        BY <1>2
      <4> HIDE DEF last
      <4>2. QED
        BY <4>1
    <3> HIDE DEF W, G, last
    <3>2. QED
      BY <1>11, <3>1
  <2>3. QED
    BY <2>1, <2>2
<1>13. r.at \in V \cup W
  <2> HIDE DEF last
  <2>1. QED
    BY <1>1, <1>7
<1> HIDE DEF W, G, last
<1>14. QED
  BY <1>1, <1>7, <1>11, <1>12, <1>13 DEF Keeps, Kept, N

(* Copied, a value of the part still points into it.                       *)
LEMMA CopyPoints ==
  ASSUME NEW m, IsMemory(m), NEW V, NEW F, Tidy(m, V, F), NEW a \in V \cup {0}
  PROVE  /\ DOMAIN CopyCell(m, a) = CellFields
         /\ CopyCell(m, a).kind # "field" /\ PointsTo(CopyCell(m, a), V, F)
<1>1. CASE a = 0
  <2>1. CopyCell(m, a) = Cell("nothing", 0, "", NULL)
    BY <1>1 DEF CopyCell, NothingCell, NULL
  <2>2. PICK c : c = Cell("nothing", 0, "", NULL)
    OBVIOUS
  <2>3. DOMAIN c = CellFields /\ c.kind = "nothing" /\ c.head = NULL /\ c.next = NULL
    BY <2>2 DEF Cell, CellFields
  <2>4. QED
    BY <2>1, <2>2, <2>3 DEF PointsTo
<1>2. CASE a # 0
  <2>1. a \in V /\ a \in 1 .. Len(m) /\ m[a].kind # "field" /\ PointsTo(m[a], V, F)
    BY <1>2 DEF Tidy
  <2>2. DOMAIN m[a] = CellFields
    BY <2>1, CellFact DEF CellAt
  <2>3. CopyCell(m, a) = [m[a] EXCEPT !.next = NULL]
    BY <1>2 DEF CopyCell, NULL
  <2>4. PICK c : c = [m[a] EXCEPT !.next = NULL]
    OBVIOUS
  <2>5. /\ DOMAIN c = CellFields /\ c.kind = m[a].kind /\ c.head = m[a].head
        /\ c.next = NULL
    BY <2>2, <2>4 DEF CellFields
  <2>6. QED
    BY <2>1, <2>3, <2>4, <2>5 DEF PointsTo
<1>3. QED
  BY <1>1, <1>2

LEMMA ScalarPoints ==
  ASSUME NEW V, NEW F, NEW c, Scalar(c)
  PROVE  DOMAIN c = CellFields /\ c.kind \notin {"field", "record"} /\ c.head = NULL
         /\ PointsTo(c, V, F)
<1>1. PICK kind, n, s :
        /\ kind \in {"integer", "float", "string"} /\ n \in Int
        /\ c = Cell(kind, n, s, 0)
  BY DEF Scalar
<1>2. DOMAIN c = CellFields /\ c.kind = kind /\ c.head = 0 /\ c.next = NULL
  BY <1>1 DEF Cell, CellFields
<1>3. QED
  BY <1>1, <1>2 DEF PointsTo, NULL

LEMMA FormKeeps ==
  ASSUME NEW m, IsMemory(m), NEW V, NEW F, Tidy(m, V, F), NEW r, Form(m, V, F, r)
  PROVE  Keeps(m, V, F, r)
<1>1. CASE \E a \in V : r \in Library!Given(a) \cup Library!Made(m, <<CopyCell(m, a)>>)
  BY <1>1, OneKeeps, CopyPoints
<1>2. CASE \E c : Scalar(c) /\ r \in Library!Made(m, <<c>>)
  BY <1>2, OneKeeps, ScalarPoints
<1>3. CASE \E at \in Seq(V \cup {0}) : r \in Library!MadeList(m, Library!Copies(m, at))
  <2>1. PICK at \in Seq(V \cup {0}) : r \in Library!MadeList(m, Library!Copies(m, at))
    BY <1>3
  <2> DEFINE c == Library!Copies(m, at)
  <2>2. Len(at) \in Nat /\ DOMAIN at = 1 .. Len(at) /\ \A i \in 1 .. Len(at) : at[i] \in V \cup {0}
    OBVIOUS
  <2>3. c = [i \in 1 .. Len(at) |-> CopyCell(m, at[i])]
    BY <2>2, SameCopyCell DEF Library!Copies
  <2>4. r \in Library!MadeList(m, c)
    BY <2>1
  <2> HIDE DEF c
  <2>5. IsSequence(c) /\ Len(c) = Len(at)
    <3>1. c = [i \in 1 .. Len(at) |-> c[i]]
      BY <2>3
    <3>2. QED
      BY <2>2, <3>1, FunctionFact
  <2>6. ASSUME NEW i \in 1 .. Len(c)
        PROVE  /\ DOMAIN c[i] = CellFields /\ c[i].kind # "field"
               /\ c[i].head \in (IF c[i].kind = "record" THEN F ELSE V) \cup {NULL}
    <3>1. c[i] = CopyCell(m, at[i]) /\ at[i] \in V \cup {0}
      BY <2>2, <2>3, <2>5
    <3>2. PICK x \in V \cup {0} : c[i] = CopyCell(m, x)
      BY <3>1, Zenon
    <3>3. QED
      BY <3>2, CopyPoints DEF PointsTo
  <2>7. QED
    BY <2>4, <2>5, <2>6, ListKeeps
<1>4. CASE \E items : ScalarItems(items) /\ r \in Library!MadeList(m, items)
  <2>1. PICK items : ScalarItems(items) /\ r \in Library!MadeList(m, items)
    BY <1>4
  <2>2. IsSequence(items) /\ \A i \in 1 .. Len(items) : Scalar(items[i])
    BY <2>1 DEF ScalarItems
  <2>3. \A i \in 1 .. Len(items) :
          /\ DOMAIN items[i] = CellFields /\ items[i].kind # "field"
          /\ items[i].head \in (IF items[i].kind = "record" THEN F ELSE V) \cup {NULL}
    BY <2>2, ScalarPoints
  <2>4. QED
    BY <2>1, <2>2, <2>3, ListKeeps
<1>5. CASE \E fields \in Seq(NewFields(m, F)) : r \in Library!MadeRecord(m, fields)
  <2>1. PICK fields \in Seq(NewFields(m, F)) : r \in Library!MadeRecord(m, fields)
    BY <1>5
  <2>2. IsSequence(fields) /\ \A i \in 1 .. Len(fields) : fields[i] \in NewFields(m, F)
    BY DEF IsSequence
  <2>3. \A f \in F : m[f].head \in V
    BY DEF Tidy, PointsTo
  <2>4. \A c \in NewFields(m, F) : DOMAIN c = CellFields /\ c.kind = "field" /\ c.head \in V
    BY <2>3 DEF NewFields, CellFields
  <2>5. QED
    BY <2>1, <2>2, <2>4, RecordKeeps
<1>6. CASE \E ls \in Seq(V), rs \in Seq(V) : r \in Library!Pairs(m, ls, rs)
  BY <1>6, PairsKeeps
<1>7. QED
  BY <1>1, <1>2, <1>3, <1>4, <1>5, <1>6 DEF Form

(* Whatever function is called with values of a part, or NULL, does not    *)
(* mix values up with fields, and its answer is a value.                   *)
THEOREM CallKeeps ==
  ASSUME NEW m, IsMemory(m), NEW V, NEW F, Tidy(m, V, F),
         NEW arg \in [Library!ArgNames -> V \cup {0}], NEW f
  PROVE  \A r \in Library!Call(f, m, arg) : Keeps(m, V, F, r)
  BY TidyRegion, CallForm, FormKeeps

------------------------------------------------------------------------------
(* Cells to be added in layers: what a new cell leads to is old or in a    *)
(* lower layer, what follows it in no higher one.                          *)
Layered(m, cells) ==
  \E lay \in [1 .. Len(cells) -> 1 .. 3] :
    \A i \in 1 .. Len(cells) :
      /\ \/ cells[i].head \in 0 .. Len(m)
         \/ \E j \in 1 .. Len(cells) : cells[i].head = Len(m) + j /\ lay[j] < lay[i]
      /\ \/ cells[i].next = NULL
         \/ \E j \in 1 .. Len(cells) : cells[i].next = Len(m) + j /\ lay[j] <= lay[i]

LEMMA LayeredRanked ==
  ASSUME NEW m, IsMemory(m), Ranked(m), NEW cells, Fit(m, cells), Layered(m, cells)
  PROVE  Ranked(m \o cells)
<1> DEFINE N == Len(m)  n == Len(cells)  k == m \o cells
<1>1. /\ N \in Nat /\ n \in Nat /\ IsSequence(m) /\ IsSequence(cells)
  BY SequenceFact DEF IsMemory, Fit
<1>2. /\ Len(k) = N + n /\ \A a \in 1 .. N : k[a] = m[a]
      /\ \A i \in 1 .. n : k[N + i] = cells[i]
  BY <1>1, ConcatFact
<1>3. PICK bound \in Nat : \E rank \in [1 .. Len(m) -> 0 .. bound] : Ranks(m, rank)
  BY DEF Ranked
<1>4. PICK rank \in [1 .. Len(m) -> 0 .. bound] : Ranks(m, rank)
  BY <1>3
<1>5. PICK lay \in [1 .. Len(cells) -> 1 .. 3] :
        \A i \in 1 .. Len(cells) :
          /\ \/ cells[i].head \in 0 .. Len(m)
             \/ \E j \in 1 .. Len(cells) : cells[i].head = Len(m) + j /\ lay[j] < lay[i]
          /\ \/ cells[i].next = NULL
             \/ \E j \in 1 .. Len(cells) : cells[i].next = Len(m) + j /\ lay[j] <= lay[i]
  BY DEF Layered
<1> DEFINE up == [a \in 1 .. N + n |-> IF a <= N THEN rank[a] ELSE bound + lay[a - N]]
<1>6. \A a \in 1 .. N : a \in 1 .. N + n /\ up[a] = rank[a] /\ rank[a] \in Nat /\ rank[a] <= bound
  <2>1. \A a \in 1 .. N : a \in 1 .. N + n /\ a <= N
    BY <1>1
  <2>2. \A a \in 1 .. N : rank[a] \in Nat /\ rank[a] <= bound
    BY <1>3, <1>4
  <2> HIDE DEF N, n
  <2>3. QED
    BY <2>1, <2>2
<1>7. ASSUME NEW i \in 1 .. n
      PROVE  /\ N + i \in 1 .. N + n /\ up[N + i] = bound + lay[i]
             /\ lay[i] \in 1 .. 3
  <2>1. /\ N + i \in 1 .. N + n /\ ~(N + i <= N) /\ (N + i) - N = i
    BY <1>1
  <2>2. lay[i] \in 1 .. 3
    BY <1>5
  <2>3. QED
    BY <2>1, <2>2
<1>8. up \in [1 .. N + n -> 0 .. bound + 3]
  <2>1. ASSUME NEW a \in 1 .. N + n PROVE up[a] \in 0 .. bound + 3
    <3>1. CASE a <= N
      <4>1. a \in 1 .. N
        BY <1>1, <3>1
      <4> HIDE DEF up
      <4>2. QED
        BY <1>3, <1>6, <4>1
    <3>2. CASE ~(a <= N)
      <4>1. PICK i \in 1 .. n : a = N + i
        <5>1. a - N \in 1 .. n /\ a = N + (a - N)
          BY <1>1, <3>2
        <5>2. QED
          BY <5>1
      <4> HIDE DEF up
      <4>2. QED
        BY <1>3, <1>7, <4>1
    <3>3. QED
      BY <3>1, <3>2
  <2>2. QED
    BY <2>1
<1> HIDE DEF up, k
<1>9. ASSUME NEW a \in 1 .. N
      PROVE  /\ k[a].head # NULL => up[k[a].head] < up[a]
             /\ k[a].next # NULL => up[k[a].next] <= up[a]
  <2>1. /\ m[a].head # NULL => m[a].head \in 1 .. N /\ rank[m[a].head] < rank[a]
        /\ m[a].next # NULL => m[a].next \in 1 .. N /\ rank[m[a].next] <= rank[a]
    <3>1. m[a].head \in 0 .. N /\ m[a].next \in 0 .. N
      BY CellFact
    <3>2. QED
      BY <1>1, <1>4, <3>1 DEF Ranks, Addr, NULL
  <2>2. k[a] = m[a]
    BY <1>2
  <2>3. QED
    BY <1>6, <2>1, <2>2
<1>10. ASSUME NEW i \in 1 .. n
       PROVE  /\ cells[i].head # NULL => up[cells[i].head] < up[N + i]
              /\ cells[i].next # NULL => up[cells[i].next] <= up[N + i]
  <2>1. up[N + i] = bound + lay[i] /\ lay[i] \in 1 .. 3
    BY <1>7
  <2>2. ASSUME cells[i].head # NULL PROVE up[cells[i].head] < up[N + i]
    <3>1. CASE cells[i].head \in 0 .. Len(m)
      <4>1. PICK h \in 1 .. N : h = cells[i].head
        BY <1>1, <2>2, <3>1 DEF NULL
      <4>2. QED
        BY <1>3, <1>6, <2>1, <4>1
    <3>2. CASE \E j \in 1 .. Len(cells) : cells[i].head = Len(m) + j /\ lay[j] < lay[i]
      <4>1. PICK j \in 1 .. n : cells[i].head = N + j /\ lay[j] < lay[i]
        BY <3>2
      <4>2. up[cells[i].head] = bound + lay[j] /\ lay[j] \in 1 .. 3
        BY <1>7, <4>1
      <4>3. QED
        BY <1>3, <2>1, <4>1, <4>2
    <3>3. QED
      BY <1>5, <3>1, <3>2
  <2>3. ASSUME cells[i].next # NULL PROVE up[cells[i].next] <= up[N + i]
    <3>1. PICK j \in 1 .. n : cells[i].next = N + j /\ lay[j] <= lay[i]
      BY <1>5, <2>3
    <3>2. up[cells[i].next] = bound + lay[j] /\ lay[j] \in 1 .. 3
      BY <1>7, <3>1
    <3>3. QED
      BY <1>3, <2>1, <3>1, <3>2
  <2>4. QED
    BY <2>2, <2>3
<1>11. \A a \in 1 .. N + n : /\ k[a].head # NULL => up[k[a].head] < up[a]
                             /\ k[a].next # NULL => up[k[a].next] <= up[a]
  <2> SUFFICES ASSUME NEW a \in 1 .. N + n
               PROVE  /\ k[a].head # NULL => up[k[a].head] < up[a]
                      /\ k[a].next # NULL => up[k[a].next] <= up[a]
    OBVIOUS
  <2>1. CASE a <= N
    <3>1. a \in 1 .. N
      BY <1>1, <2>1
    <3>2. QED
      BY <1>9, <3>1
  <2>2. CASE ~(a <= N)
    <3>1. PICK i \in 1 .. n : a = N + i
      <4>1. a - N \in 1 .. n /\ a = N + (a - N)
        BY <1>1, <2>2
      <4>2. QED
        BY <4>1
    <3>2. k[N + i] = cells[i]
      BY <1>2
    <3>3. QED
      BY <1>10, <3>1, <3>2
  <2>3. QED
    BY <2>1, <2>2
<1>12. Ranks(k, up) /\ up \in [1 .. Len(k) -> 0 .. bound + 3] /\ bound + 3 \in Nat
  <2>1. bound + 3 \in Nat
    BY <1>3
  <2>2. PICK size : size = N + n
    OBVIOUS
  <2>3. Len(k) = size
    BY <1>2, <2>2
  <2>4. up \in [1 .. size -> 0 .. bound + 3]
    BY <1>8, <2>2
  <2>5. \A a \in 1 .. size : /\ k[a].head # NULL => up[k[a].head] < up[a]
                             /\ k[a].next # NULL => up[k[a].next] <= up[a]
    BY <1>11, <2>2
  <2>6. up \in [1 .. Len(k) -> 0 .. bound + 3]
    BY <2>3, <2>4, Zenon
  <2>7. Ranks(k, up)
    BY <2>3, <2>5 DEF Ranks, Addr
  <2>8. QED
    BY <2>1, <2>6, <2>7
<1>13. Ranked(k)
  BY <1>12 DEF Ranked
<1>14. QED
  BY <1>13 DEF k

LEMMA LayeredFew ==
  ASSUME NEW m, IsMemory(m)
  PROVE  /\ Layered(m, << >>)
         /\ \A c : c.head \in 0 .. Len(m) /\ c.next = NULL => Layered(m, <<c>>)
<1>1. Layered(m, << >>)
  <2>1. Len(<< >>) = 0 /\ [i \in 1 .. 0 |-> 1] \in [1 .. 0 -> 1 .. 3] /\ \A i \in 1 .. 0 : FALSE
    OBVIOUS
  <2>2. QED
    BY <2>1 DEF Layered
<1>2. ASSUME NEW c, c.head \in 0 .. Len(m), c.next = NULL PROVE Layered(m, <<c>>)
  <2>1. /\ Len(<<c>>) = 1 /\ <<c>>[1] = c /\ \A i \in 1 .. 1 : i = 1
        /\ [i \in 1 .. 1 |-> 1] \in [1 .. 1 -> 1 .. 3]
    OBVIOUS
  <2>2. QED
    BY <1>2, <2>1 DEF Layered
<1>3. QED
  BY <1>1, <1>2

(* Linked cells and their owner: two layers.                               *)
LEMMA OwnedLayered ==
  ASSUME NEW m, IsMemory(m), NEW items, IsSequence(items),
         \A i \in 1 .. Len(items) :
           DOMAIN items[i] = CellFields /\ items[i].head \in 0 .. Len(m),
         NEW c, c.head = Library!First(m, items), c.next = NULL
  PROVE  Layered(m, Library!Linked(m, items) \o <<c>>)
<1> DEFINE n == Len(items)  l == Library!Linked(m, items)  cells == l \o <<c>>
           lay == [i \in 1 .. n + 1 |-> IF i = n + 1 THEN 2 ELSE 1]
<1>1. /\ IsSequence(l) /\ Len(l) = n /\ Len(m) \in Nat /\ n \in Nat
      /\ \A i \in 1 .. n : /\ l[i].head = items[i].head
                           /\ l[i].next = IF i = n THEN 0 ELSE Len(m) + i + 1
  BY LinkedCells
<1>2. /\ Len(cells) = n + 1 /\ cells[n + 1] = c
      /\ \A i \in 1 .. n : cells[i] = l[i]
  <2> HIDE DEF l
  <2>1. /\ Len(l \o <<c>>) = Len(l) + 1 /\ (l \o <<c>>)[Len(l) + 1] = c
        /\ \A i \in 1 .. Len(l) : (l \o <<c>>)[i] = l[i]
    BY <1>1, OwnerBehind
  <2> HIDE DEF n
  <2>2. QED
    BY <1>1, <2>1
<1>3. \A i \in 1 .. n : items[i].head \in 0 .. Len(m)
  OBVIOUS
<1>4. c.head = 0 \/ (c.head = Len(m) + 1 /\ 1 \in 1 .. n)
  <2>1. items = << >> \/ n # 0
    <3>1. PICK S : items \in Seq(S)
      BY DEF IsSequence
    <3>2. QED
      BY <3>1
  <2>2. n # 0 => 1 \in 1 .. n
    BY <1>1
  <2>3. QED
    BY <2>1, <2>2 DEF Library!First, Library!NULL
<1> HIDE DEF l, cells, n
<1>5. \A i \in 1 .. n : i \in 1 .. n + 1 /\ lay[i] = 1
  BY <1>1
<1>6. n + 1 \in 1 .. n + 1 /\ lay[n + 1] = 2 /\ lay \in [1 .. n + 1 -> 1 .. 3]
  BY <1>1
<1> HIDE DEF lay
<1>7. ASSUME NEW i \in 1 .. n + 1
      PROVE  /\ \/ cells[i].head \in 0 .. Len(m)
                \/ \E j \in 1 .. n + 1 : cells[i].head = Len(m) + j /\ lay[j] < lay[i]
             /\ \/ cells[i].next = NULL
                \/ \E j \in 1 .. n + 1 : cells[i].next = Len(m) + j /\ lay[j] <= lay[i]
  <2>1. CASE i = n + 1
    <3>1. cells[i] = c /\ lay[i] = 2
      BY <1>2, <1>6, <2>1
    <3>2. CASE c.head = 0
      BY <1>1, <3>1, <3>2
    <3>3. CASE c.head = Len(m) + 1 /\ 1 \in 1 .. n
      <4>1. 1 \in 1 .. n + 1 /\ lay[1] < lay[i]
        BY <1>5, <3>1, <3>3
      <4>2. QED
        BY <3>1, <3>3, <4>1
    <3>4. QED
      BY <1>4, <3>2, <3>3
  <2>2. CASE i # n + 1
    <3>1. i \in 1 .. n
      BY <1>1, <2>2
    <3>2. cells[i].head \in 0 .. Len(m) /\ cells[i].next = IF i = n THEN 0 ELSE Len(m) + i + 1
      BY <1>1, <1>2, <1>3, <3>1
    <3>3. i # n => Len(m) + i + 1 = Len(m) + (i + 1) /\ i + 1 \in 1 .. n /\ i + 1 \in 1 .. n + 1
      BY <1>1, <3>1
    <3>4. i # n => lay[i + 1] <= lay[i]
      BY <1>5, <3>1, <3>3
    <3>5. QED
      BY <3>2, <3>3, <3>4 DEF NULL
  <2>3. QED
    BY <2>1, <2>2
<1>8. Layered(m, cells)
  BY <1>2, <1>6, <1>7 DEF Layered
<1>9. QED
  BY <1>8 DEF cells, l

(* What zip adds: n records, two fields for each, and the list.            *)
ZipCells(m, V, n, cells) ==
  /\ Len(cells) = n + 2 * n + 1
  /\ \A i \in 1 .. n :
       /\ cells[i].kind = "record" /\ cells[i].head = Len(m) + (n + (2 * i - 1))
       /\ cells[i].next = IF i = n THEN NULL ELSE Len(m) + (i + 1)
  /\ \A k \in 1 .. 2 * n :
       /\ cells[n + k].kind = "field" /\ cells[n + k].head \in V
       /\ cells[n + k].next \in {NULL} \cup (IF k < 2 * n THEN {Len(m) + (n + (k + 1))} ELSE {})
  /\ LET owner == cells[n + 2 * n + 1] IN
     /\ owner.kind = "list" /\ owner.next = NULL
     /\ owner.head \in {NULL} \cup (IF n > 0 THEN {Len(m) + 1} ELSE {})

LEMMA PairsCells ==
  ASSUME NEW m, IsMemory(m), NEW V, NEW ls \in Seq(V), NEW rs \in Seq(V),
         NEW r \in Library!Pairs(m, ls, rs)
  PROVE  \E n \in Nat : ZipCells(m, V, n, r.cells) /\ r.at = Len(m) + Len(r.cells)
<1> DEFINE N == Len(m)
           n == IF Len(ls) < Len(rs) THEN Len(ls) ELSE Len(rs)
           at(i) == N + n + 2 * i - 1
           half(k) == (k + 1) \div 2
           pairs == [i \in 1 .. n |-> Cell("record", 0, "", at(i))]
           odd(k) == [Cell("field", 0, "a", ls[half(k)]) EXCEPT !.next = at(half(k)) + 1]
           even(k) == Cell("field", 0, "b", rs[k \div 2])
           fields == [k \in 1 .. 2 * n |-> IF k % 2 = 1 THEN odd(k) ELSE even(k)]
           linked == Library!Linked(m, pairs)
           owner == Library!ListCell(Library!First(m, pairs))
           cells == linked \o fields \o <<owner>>
           last == n + 2 * n + 1
<1>1. r.cells = cells /\ r.at = N + Len(cells)
  <2>1. Library!Pairs(m, ls, rs) = Library!Made(m, cells)
    BY SameCell DEF Library!Pairs, Library!RecordCell, Library!FieldCell
  <2> HIDE DEF cells
  <2>2. QED
    BY <2>1 DEF Library!Made
<1>2. N \in Nat /\ n \in Nat /\ \A i \in 1 .. n : ls[i] \in V /\ rs[i] \in V
  <2>1. Len(m) \in Nat
    BY SequenceFact DEF IsMemory
  <2>2. n \in Nat /\ \A i \in 1 .. n : ls[i] \in V /\ rs[i] \in V
    BY ShorterFact, Zenon
  <2> HIDE DEF n
  <2>3. QED
    BY <2>1, <2>2
<1> HIDE DEF N, n
<1>3. IsSequence(pairs) /\ Len(pairs) = n
  <2>1. pairs = [i \in 1 .. n |-> pairs[i]]
    OBVIOUS
  <2> HIDE DEF pairs
  <2>2. QED
    BY <1>2, <2>1, FunctionFact
<1>4. \A i \in 1 .. n : /\ DOMAIN pairs[i] = CellFields
                        /\ pairs[i].kind = "record" /\ pairs[i].head = at(i)
  <2>1. \A i \in 1 .. n : pairs[i] = Cell("record", 0, "", at(i))
    OBVIOUS
  <2> HIDE DEF pairs, at
  <2>2. \A h : LET c == Cell("record", 0, "", h)
               IN  DOMAIN c = CellFields /\ c.kind = "record" /\ c.head = h
    BY DEF Cell, CellFields
  <2>3. QED
    BY <2>1, <2>2, Zenon
<1>5. /\ IsSequence(linked) /\ Len(linked) = n
      /\ \A i \in 1 .. n : /\ linked[i].kind = "record" /\ linked[i].head = at(i)
                           /\ linked[i].next = IF i = n THEN 0 ELSE N + i + 1
  <2> HIDE DEF pairs, at
  <2>1. \A i \in 1 .. Len(pairs) : DOMAIN pairs[i] = CellFields
    BY <1>3, <1>4
  <2>2. /\ IsSequence(linked) /\ Len(linked) = Len(pairs)
        /\ \A i \in 1 .. Len(pairs) :
             /\ linked[i].kind = pairs[i].kind /\ linked[i].head = pairs[i].head
             /\ linked[i].next = IF i = Len(pairs) THEN 0 ELSE N + i + 1
    BY <1>3, <2>1, LinkedCells DEF N
  <2> HIDE DEF linked
  <2>3. QED
    BY <1>3, <1>4, <2>2
<1>6. IsSequence(fields) /\ Len(fields) = 2 * n
  <2>1. fields = [k \in 1 .. 2 * n |-> fields[k]] /\ 2 * n \in Nat
    BY <1>2
  <2> HIDE DEF fields
  <2>2. QED
    BY <2>1, FunctionFact
<1>7. /\ Len(cells) = last /\ cells[last] = owner
      /\ \A i \in 1 .. n : cells[i] = linked[i]
      /\ \A k \in 1 .. 2 * n : cells[n + k] = fields[k]
  <2> HIDE DEF linked, fields, owner
  <2>1. /\ IsSequence(linked \o fields) /\ Len(linked \o fields) = n + 2 * n
        /\ \A i \in 1 .. n : (linked \o fields)[i] = linked[i]
        /\ \A k \in 1 .. 2 * n : (linked \o fields)[n + k] = fields[k]
    <3>1. /\ IsSequence(linked \o fields)
          /\ Len(linked \o fields) = Len(linked) + Len(fields)
          /\ \A i \in 1 .. Len(linked) : (linked \o fields)[i] = linked[i]
          /\ \A k \in 1 .. Len(fields) : (linked \o fields)[Len(linked) + k] = fields[k]
      <4>1. IsSequence(linked) /\ IsSequence(fields)
        BY <1>5, <1>6
      <4>2. PICK x : x = linked /\ IsSequence(x)
        BY <4>1
      <4>3. PICK y : y = fields /\ IsSequence(y)
        BY <4>1
      <4>4. /\ IsSequence(x \o y) /\ Len(x \o y) = Len(x) + Len(y)
            /\ \A i \in 1 .. Len(x) : (x \o y)[i] = x[i]
            /\ \A k \in 1 .. Len(y) : (x \o y)[Len(x) + k] = y[k]
        BY <4>2, <4>3, ConcatFact
      <4>5. QED
        BY <4>2, <4>3, <4>4
    <3>2. Len(linked) = n /\ Len(fields) = 2 * n
      BY <1>5, <1>6
    <3>3. QED
      BY <3>1, <3>2
  <2> DEFINE both == linked \o fields
  <2> HIDE DEF both
  <2>2. /\ IsSequence(both) /\ Len(both) = n + 2 * n
        /\ \A i \in 1 .. n : both[i] = linked[i]
        /\ \A k \in 1 .. 2 * n : both[n + k] = fields[k]
    BY <2>1 DEF both
  <2>3. /\ Len(both \o <<owner>>) = Len(both) + 1
        /\ (both \o <<owner>>)[Len(both) + 1] = owner
        /\ \A i \in 1 .. Len(both) : (both \o <<owner>>)[i] = both[i]
    BY <2>2, OwnerBehind
  <2>4. cells = both \o <<owner>>
    BY DEF both
  <2> HIDE DEF cells
  <2>5. \A i \in 1 .. n : i \in 1 .. n + 2 * n
    BY <1>2
  <2>6. \A k \in 1 .. 2 * n : n + k \in 1 .. n + 2 * n
    BY <1>2
  <2>7. QED
    BY <2>2, <2>3, <2>4, <2>5, <2>6
<1>8. ASSUME NEW i \in 1 .. n
      PROVE  /\ linked[i].kind = "record" /\ linked[i].head = N + (n + (2 * i - 1))
             /\ linked[i].next = IF i = n THEN NULL ELSE N + (i + 1)
  <2>1. at(i) = N + (n + (2 * i - 1)) /\ N + i + 1 = N + (i + 1)
    BY <1>2
  <2> HIDE DEF linked, at
  <2>2. QED
    BY <1>5, <2>1 DEF NULL
<1>9. ASSUME NEW k \in 1 .. 2 * n
      PROVE  /\ fields[k].kind = "field" /\ fields[k].head \in V
             /\ fields[k].next \in {NULL} \cup (IF k < 2 * n THEN {N + (n + (k + 1))} ELSE {})
  <2>1. CASE k % 2 = 1
    <3>1. half(k) \in 1 .. n /\ 2 * half(k) = k + 1 /\ k < 2 * n
      BY <1>2, <2>1
    <3>2. at(half(k)) + 1 = N + (n + (k + 1))
      <4> HIDE DEF half
      <4>1. QED
        BY <1>2, <3>1
    <3>3. PICK x : x = N + (n + (k + 1)) /\ x = at(half(k)) + 1
      BY <3>2
    <3>4. PICK a \in V : a = ls[half(k)]
      <4> HIDE DEF half
      <4>1. QED
        BY <1>2, <3>1
    <3>5. fields[k] = [Cell("field", 0, "a", a) EXCEPT !.next = x]
      BY <2>1, <3>3, <3>4
    <3> HIDE DEF fields
    <3>6. PICK c : c = [Cell("field", 0, "a", a) EXCEPT !.next = x]
      OBVIOUS
    <3>7. c.kind = "field" /\ c.head = a /\ c.next = x
      BY <3>6 DEF Cell
    <3>8. fields[k] = c
      BY <3>5, <3>6, Zenon
    <3> HIDE DEF half, at
    <3>9. QED
      BY <3>1, <3>3, <3>7, <3>8
  <2>2. CASE k % 2 # 1
    <3>1. k \div 2 \in 1 .. n
      BY <1>2, <2>2
    <3>2. PICK a \in V : a = rs[k \div 2]
      BY <1>2, <3>1
    <3>3. fields[k] = Cell("field", 0, "b", a)
      BY <2>2, <3>2
    <3> HIDE DEF fields
    <3>4. PICK c : c = Cell("field", 0, "b", a)
      OBVIOUS
    <3>5. c.kind = "field" /\ c.head = a /\ c.next = NULL
      BY <3>4 DEF Cell
    <3>6. fields[k] = c
      BY <3>3, <3>4, Zenon
    <3>7. QED
      BY <3>5, <3>6
  <2>3. QED
    BY <2>1, <2>2
<1>10. /\ owner.kind = "list" /\ owner.next = NULL
       /\ owner.head \in {NULL} \cup (IF n > 0 THEN {N + 1} ELSE {})
  <2>1. Library!First(m, pairs) \in {NULL} \cup (IF n > 0 THEN {N + 1} ELSE {})
    <3>1. pairs # << >> => n > 0
      <4> HIDE DEF pairs
      <4>1. PICK S : pairs \in Seq(S)
        BY <1>3 DEF IsSequence
      <4>2. Len(pairs) = 0 => pairs = << >>
        BY <4>1
      <4>3. QED
        BY <1>2, <1>3, <4>2
    <3> HIDE DEF pairs
    <3>2. QED
      BY <3>1 DEF Library!First, Library!NULL, N, NULL
  <2>2. PICK h : h = Library!First(m, pairs)
    OBVIOUS
  <2>3. owner = Cell("list", 0, "", h)
    BY <2>2, SameCell DEF Library!ListCell
  <2> HIDE DEF owner, pairs
  <2>4. PICK c : c = Cell("list", 0, "", h)
    OBVIOUS
  <2>5. c.kind = "list" /\ c.head = h /\ c.next = NULL
    BY <2>4 DEF Cell
  <2>6. owner = c
    BY <2>3, <2>4, Zenon
  <2>7. QED
    BY <2>1, <2>2, <2>5, <2>6
<1> HIDE DEF cells, linked, fields, owner, pairs, at, half
<1>11. ASSUME NEW i \in 1 .. n
       PROVE  /\ cells[i].kind = "record" /\ cells[i].head = Len(m) + (n + (2 * i - 1))
              /\ cells[i].next = IF i = n THEN NULL ELSE Len(m) + (i + 1)
  <2>1. cells[i] = linked[i]
    BY <1>7
  <2>2. QED
    BY <1>8, <2>1, Zenon DEF N
<1>12. ASSUME NEW k \in 1 .. 2 * n
       PROVE  /\ cells[n + k].kind = "field" /\ cells[n + k].head \in V
              /\ cells[n + k].next
                   \in {NULL} \cup (IF k < 2 * n THEN {Len(m) + (n + (k + 1))} ELSE {})
  <2>1. cells[n + k] = fields[k]
    BY <1>7
  <2>2. QED
    BY <1>9, <2>1, Zenon DEF N
<1>13. /\ cells[n + 2 * n + 1].kind = "list" /\ cells[n + 2 * n + 1].next = NULL
       /\ cells[n + 2 * n + 1].head \in {NULL} \cup (IF n > 0 THEN {Len(m) + 1} ELSE {})
  <2>1. cells[n + 2 * n + 1] = owner
    BY <1>7
  <2>2. QED
    BY <1>10, <2>1, Zenon DEF N
<1>14. Len(cells) = n + 2 * n + 1
  BY <1>7
<1>15. ZipCells(m, V, n, cells)
  BY <1>11, <1>12, <1>13, <1>14, Zenon DEF ZipCells
<1>16. QED
  BY <1>1, <1>2, <1>15 DEF N

(* Its cells are the records, the list and, in between, the fields.        *)
LEMMA ZipPlaces ==
  ASSUME NEW n \in Nat, NEW i \in 1 .. n + 2 * n + 1
  PROVE  i \in 1 .. n \/ (\E k \in 1 .. 2 * n : i = n + k) \/ i = n + 2 * n + 1
<1>1. CASE i \in n + 1 .. n + 2 * n
  <2>1. i - n \in 1 .. 2 * n /\ i = n + (i - n)
    BY <1>1
  <2>2. QED
    BY <2>1
<1>2. CASE i \notin n + 1 .. n + 2 * n
  BY <1>2
<1>3. QED
  BY <1>1, <1>2

LEMMA ZipLayered ==
  ASSUME NEW m, IsMemory(m), NEW V, V \subseteq 1 .. Len(m), NEW n \in Nat, NEW cells,
         ZipCells(m, V, n, cells)
  PROVE  Layered(m, cells)
<1> DEFINE N == Len(m)  last == n + 2 * n + 1
           lay == [i \in 1 .. last |-> IF i <= n THEN 2 ELSE IF i = last THEN 3 ELSE 1]
           Ok(i) == /\ \/ cells[i].head \in 0 .. N
                       \/ \E j \in 1 .. last : cells[i].head = N + j /\ lay[j] < lay[i]
                    /\ \/ cells[i].next = NULL
                       \/ \E j \in 1 .. last : cells[i].next = N + j /\ lay[j] <= lay[i]
<1>1. N \in Nat /\ last \in Nat /\ Len(cells) = last
  BY SequenceFact DEF IsMemory, ZipCells
<1>2. /\ \A i \in 1 .. n : i \in 1 .. last /\ lay[i] = 2
      /\ \A k \in 1 .. 2 * n : n + k \in 1 .. last /\ lay[n + k] = 1
      /\ last \in 1 .. last /\ lay[last] = 3
      /\ lay \in [1 .. last -> 1 .. 3]
  OBVIOUS
<1> HIDE DEF lay
<1>3. ASSUME NEW i \in 1 .. n PROVE Ok(i)
  <2>1. /\ cells[i].head = N + (n + (2 * i - 1)) /\ 2 * i - 1 \in 1 .. 2 * n
        /\ cells[i].next = IF i = n THEN NULL ELSE N + (i + 1)
    BY DEF ZipCells
  <2>2. i # n => i + 1 \in 1 .. n
    OBVIOUS
  <2>3. \E j \in 1 .. last : cells[i].head = N + j /\ lay[j] < lay[i]
    <3>1. n + (2 * i - 1) \in 1 .. last /\ lay[n + (2 * i - 1)] = 1 /\ lay[i] = 2
      BY <1>2, <2>1
    <3>2. PICK j \in 1 .. last : j = n + (2 * i - 1) /\ lay[j] = 1 /\ lay[i] = 2
      BY <3>1
    <3> HIDE DEF last, N
    <3>3. QED
      BY <2>1, <3>2
  <2>4. i # n => \E j \in 1 .. last : cells[i].next = N + j /\ lay[j] <= lay[i]
    <3>1. i # n => i + 1 \in 1 .. last /\ lay[i + 1] = 2 /\ lay[i] = 2
      BY <1>2, <2>2
    <3> HIDE DEF last, N
    <3>2. QED
      BY <2>1, <3>1
  <2>5. QED
    BY <2>1, <2>3, <2>4
<1>4. ASSUME NEW k \in 1 .. 2 * n PROVE Ok(n + k)
  <2>1. /\ cells[n + k].head \in V
        /\ cells[n + k].next = NULL \/ (k < 2 * n /\ cells[n + k].next = N + (n + (k + 1)))
    BY DEF ZipCells
  <2>2. cells[n + k].head \in 0 .. N
    <3>1. \A h \in V : h \in 0 .. N
      BY <1>1
    <3> HIDE DEF N
    <3>2. QED
      BY <2>1, <3>1
  <2>3. k < 2 * n => k + 1 \in 1 .. 2 * n
    OBVIOUS
  <2>4. k < 2 * n => n + (k + 1) \in 1 .. last /\ lay[n + (k + 1)] <= lay[n + k]
    BY <1>2, <2>3
  <2> HIDE DEF last, N
  <2>5. QED
    BY <2>1, <2>2, <2>4
<1>5. Ok(last)
  <2>1. /\ cells[last].next = NULL
        /\ cells[last].head = NULL \/ (n > 0 /\ cells[last].head = N + 1)
    BY DEF ZipCells
  <2>2. n > 0 => 1 \in 1 .. n
    OBVIOUS
  <2>3. n > 0 => 1 \in 1 .. last /\ lay[1] < lay[last]
    BY <1>2, <2>2
  <2>4. NULL \in 0 .. N
    BY <1>1 DEF NULL
  <2> HIDE DEF last, N
  <2>5. QED
    BY <2>1, <2>3, <2>4
<1> HIDE DEF Ok
<1>6. \A i \in 1 .. last : Ok(i)
  BY <1>3, <1>4, <1>5, ZipPlaces
<1>7. QED
  <2> USE DEF Ok
  <2> HIDE DEF last
  <2>1. QED
    BY <1>1, <1>2, <1>6 DEF Layered

LEMMA ZipKeeps ==
  ASSUME NEW m, IsMemory(m), NEW V, NEW F, NEW n \in Nat, NEW r, ZipCells(m, V, n, r.cells),
         r.at = Len(m) + Len(r.cells)
  PROVE  Keeps(m, V, F, r)
<1> DEFINE N == Len(m)  last == n + 2 * n + 1  cells == r.cells
           W == {N + i : i \in 1 .. n} \cup {N + last}
           G == {N + (n + k) : k \in 1 .. 2 * n}
           Ok(i) == /\ N + i \in W <=> cells[i].kind # "field"
                    /\ N + i \in G <=> cells[i].kind = "field"
                    /\ PointsTo(cells[i], V \cup W, F \cup G)
<1>1. N \in Nat /\ last \in Nat /\ Len(cells) = last
  BY SequenceFact DEF IsMemory, ZipCells
<1>2. /\ \A i \in 1 .. n : N + i \in W /\ N + i \notin G
      /\ N + last \in W /\ N + last \notin G
  BY <1>1
<1>3. ASSUME NEW k \in 1 .. 2 * n PROVE N + (n + k) \in G /\ N + (n + k) \notin W
  <2>1. N + (n + k) # N + last /\ \A i \in 1 .. n : N + (n + k) # N + i
    BY <1>1
  <2> HIDE DEF last
  <2>2. QED
    BY <2>1
<1>4. W \cup G = N + 1 .. N + last
  <2>1. \A x \in W \cup G : x \in N + 1 .. N + last
    <3>1. \A i \in 1 .. n : N + i \in N + 1 .. N + last
      BY <1>1
    <3>2. \A k \in 1 .. 2 * n : N + (n + k) \in N + 1 .. N + last
      BY <1>1
    <3>3. N + last \in N + 1 .. N + last
      BY <1>1
    <3> HIDE DEF last
    <3>4. QED
      BY <3>1, <3>2, <3>3
  <2>2. ASSUME NEW x \in N + 1 .. N + last PROVE x \in W \cup G
    <3>1. PICK i \in 1 .. last : x = N + i
      <4>1. x - N \in 1 .. last /\ x = N + (x - N)
        BY <1>1
      <4> HIDE DEF last
      <4>2. QED
        BY <4>1
    <3>2. i \in 1 .. n \/ (\E k \in 1 .. 2 * n : i = n + k) \/ i = last
      BY ZipPlaces
    <3> HIDE DEF W, G, last
    <3>3. QED
      BY <1>2, <1>3, <3>1, <3>2
  <2>3. QED
    BY <2>1, <2>2
<1>5. ASSUME NEW i \in 1 .. n PROVE Ok(i)
  <2>1. /\ cells[i].kind = "record" /\ cells[i].head = N + (n + (2 * i - 1))
        /\ cells[i].next = IF i = n THEN NULL ELSE N + (i + 1)
    BY DEF ZipCells
  <2>2. 2 * i - 1 \in 1 .. 2 * n /\ (i # n => i + 1 \in 1 .. n)
    OBVIOUS
  <2>3. cells[i].head \in G /\ (i # n => cells[i].next \in W)
    <3> HIDE DEF W, G
    <3>1. QED
      BY <1>2, <1>3, <2>1, <2>2
  <2> HIDE DEF W, G
  <2>4. QED
    BY <1>2, <2>1, <2>3 DEF PointsTo
<1>6. ASSUME NEW k \in 1 .. 2 * n PROVE Ok(n + k)
  <2>1. /\ cells[n + k].kind = "field" /\ cells[n + k].head \in V
        /\ cells[n + k].next = NULL \/ (k < 2 * n /\ cells[n + k].next = N + (n + (k + 1)))
    BY DEF ZipCells
  <2>2. k < 2 * n => k + 1 \in 1 .. 2 * n
    OBVIOUS
  <2>3. cells[n + k].next \in G \cup {NULL}
    <3> HIDE DEF W, G
    <3>1. QED
      BY <1>3, <2>1, <2>2
  <2> HIDE DEF W, G
  <2>4. QED
    BY <1>3, <2>1, <2>3 DEF PointsTo
<1>7. Ok(last)
  <2>1. /\ cells[last].kind = "list" /\ cells[last].next = NULL
        /\ cells[last].head = NULL \/ (n > 0 /\ cells[last].head = N + 1)
    BY DEF ZipCells
  <2>2. n > 0 => N + 1 \in W
    BY <1>1
  <2> HIDE DEF W, G, last
  <2>3. QED
    BY <1>2, <2>1, <2>2 DEF PointsTo
<1> HIDE DEF Ok
<1>8. \A i \in 1 .. last : Ok(i)
  BY <1>5, <1>6, <1>7, ZipPlaces
<1>9. r.at \in V \cup W
  BY <1>1, <1>2
<1> HIDE DEF W, G, last
<1>10. \A i \in 1 .. Len(r.cells) :
         /\ Len(m) + i \in W <=> r.cells[i].kind # "field"
         /\ Len(m) + i \in G <=> r.cells[i].kind = "field"
         /\ PointsTo(r.cells[i], V \cup W, F \cup G)
  BY <1>1, <1>8 DEF Ok
<1>11. W \cup G = Len(m) + 1 .. Len(m) + Len(r.cells)
  BY <1>1, <1>4
<1>12. QED
  BY <1>9, <1>10, <1>11 DEF Keeps

(* What the library adds is layered.                                       *)
LEMMA FormLayered ==
  ASSUME NEW m, IsMemory(m), NEW V, NEW F, Region(m, V, F), NEW r, Form(m, V, F, r)
  PROVE  Layered(m, r.cells)
<1>1. /\ Len(m) \in Nat /\ V \subseteq 1 .. Len(m) /\ F \subseteq 1 .. Len(m)
      /\ V \cup {0} \subseteq 0 .. Len(m) /\ V \subseteq 0 .. Len(m)
      /\ \A a \in 1 .. Len(m) : m[a].head \in 0 .. Len(m)
  BY CellFact, SequenceFact DEF IsMemory, Region
<1>2. \A items, c : \A r1 \in Library!Made(m, Library!Linked(m, items) \o <<c>>) :
        r1.cells = Library!Linked(m, items) \o <<c>>
  BY DEF Library!Made
<1>3. \A items : IsSequence(items)
          /\ (\A i \in 1 .. Len(items) : DOMAIN items[i] = CellFields /\ items[i].head \in 0 .. Len(m)) =>
        \A r1 \in Library!MadeList(m, items) \cup Library!MadeRecord(m, items) : Layered(m, r1.cells)
  <2> SUFFICES ASSUME NEW items, IsSequence(items),
                      \A i \in 1 .. Len(items) :
                        DOMAIN items[i] = CellFields /\ items[i].head \in 0 .. Len(m),
                      NEW r1 \in Library!MadeList(m, items) \cup Library!MadeRecord(m, items)
               PROVE  Layered(m, r1.cells)
    OBVIOUS
  <2> DEFINE first == Library!First(m, items)
  <2>1. PICK c \in {Library!ListCell(first), Library!RecordCell(first)} :
          r1.cells = Library!Linked(m, items) \o <<c>>
    BY <1>2 DEF Library!MadeList, Library!MadeRecord
  <2>2. \A h : /\ Library!ListCell(h).head = h /\ Library!ListCell(h).next = NULL
               /\ Library!RecordCell(h).head = h /\ Library!RecordCell(h).next = NULL
    BY DEF Library!ListCell, Library!RecordCell, Library!Cell, Library!NULL, NULL
  <2>3. c.head = first /\ c.next = NULL
    <3> HIDE DEF first
    <3>1. QED
      BY <2>2
  <2>4. Layered(m, Library!Linked(m, items) \o <<c>>)
    BY <2>3, OwnedLayered
  <2>5. QED
    BY <2>1, <2>4
<1>4. \A c : DOMAIN CopyCell(m, 0) = CellFields
  BY DEF CopyCell, NothingCell, Cell, CellFields, NULL
<1>5. \A a \in 0 .. Len(m) :
        /\ DOMAIN CopyCell(m, a) = CellFields
        /\ CopyCell(m, a).head \in 0 .. Len(m) /\ CopyCell(m, a).next = NULL
  <2> SUFFICES ASSUME NEW a \in 0 .. Len(m)
               PROVE  /\ DOMAIN CopyCell(m, a) = CellFields
                      /\ CopyCell(m, a).head \in 0 .. Len(m) /\ CopyCell(m, a).next = NULL
    OBVIOUS
  <2>1. Loose(CopyCell(m, a), Len(m))
    BY CopiedCell
  <2>2. QED
    BY <2>1 DEF Loose, CellAt
<1>6. CASE \E a \in V : r \in Library!Given(a) \cup Library!Made(m, <<CopyCell(m, a)>>)
  <2>1. PICK a \in V : r \in Library!Given(a) \cup Library!Made(m, <<CopyCell(m, a)>>)
    BY <1>6
  <2>2. r.cells = << >> \/ r.cells = <<CopyCell(m, a)>>
    BY <2>1 DEF Library!Given, Library!Made
  <2>3. a \in 0 .. Len(m)
    BY <1>1
  <2>4. QED
    BY <1>5, <2>2, <2>3, LayeredFew
<1>7. CASE \E c : Scalar(c) /\ r \in Library!Made(m, <<c>>)
  <2>1. PICK c : Scalar(c) /\ r \in Library!Made(m, <<c>>)
    BY <1>7
  <2>2. r.cells = <<c>>
    BY <2>1 DEF Library!Made
  <2>3. Loose(c, Len(m))
    BY <1>1, <2>1, ScalarLoose
  <2>4. c.head \in 0 .. Len(m) /\ c.next = NULL
    BY <2>3 DEF Loose, CellAt
  <2>5. QED
    BY <2>2, <2>4, LayeredFew
<1>8. CASE \E at \in Seq(V \cup {0}) : r \in Library!MadeList(m, Library!Copies(m, at))
  <2>1. PICK at \in Seq(V \cup {0}) : r \in Library!MadeList(m, Library!Copies(m, at))
    BY <1>8
  <2>2. at \in Seq(0 .. Len(m))
    BY <1>1, SeqMonotonic, Zenon
  <2>3. AllLoose(m, Library!Copies(m, at))
    BY <2>2, CopiesLoose
  <2>4. QED
    BY <1>3, <2>1, <2>3 DEF AllLoose, Loose, CellAt
<1>9. CASE \E items : ScalarItems(items) /\ r \in Library!MadeList(m, items)
  <2>1. PICK items : ScalarItems(items) /\ r \in Library!MadeList(m, items)
    BY <1>9
  <2>2. AllLoose(m, items)
    BY <1>1, <2>1, ScalarLoose DEF ScalarItems, AllLoose
  <2>3. QED
    BY <1>3, <2>1, <2>2 DEF AllLoose, Loose, CellAt
<1>10. CASE \E fields \in Seq(NewFields(m, F)) : r \in Library!MadeRecord(m, fields)
  <2>1. PICK fields \in Seq(NewFields(m, F)) : r \in Library!MadeRecord(m, fields)
    BY <1>10
  <2>2. IsSequence(fields) /\ \A i \in 1 .. Len(fields) : fields[i] \in NewFields(m, F)
    BY DEF IsSequence
  <2>3. \A c \in NewFields(m, F) : DOMAIN c = CellFields /\ c.head \in 0 .. Len(m)
    <3>1. \A f \in F : m[f].head \in 0 .. Len(m)
      BY <1>1
    <3>2. QED
      BY <3>1 DEF NewFields, CellFields
  <2>4. QED
    BY <1>3, <2>1, <2>2, <2>3
<1>11. CASE \E ls \in Seq(V), rs \in Seq(V) : r \in Library!Pairs(m, ls, rs)
  <2>1. PICK ls \in Seq(V), rs \in Seq(V) : r \in Library!Pairs(m, ls, rs)
    BY <1>11
  <2>2. PICK n \in Nat : ZipCells(m, V, n, r.cells)
    BY <2>1, PairsCells
  <2>3. QED
    BY <1>1, <2>2, ZipLayered
<1>12. QED
  BY <1>6, <1>7, <1>8, <1>9, <1>10, <1>11 DEF Form

(* So a library call never makes a value part of itself.                   *)
LEMMA CallLayered ==
  ASSUME NEW m, IsMemory(m), NEW arg \in [Library!ArgNames -> 0 .. Len(m)], NEW f
  PROVE  \A r \in Library!Call(f, m, arg) : Layered(m, r.cells)
<1> DEFINE A == 1 .. Len(m)
<1>1. Len(m) \in Nat /\ 0 .. Len(m) \subseteq A \cup {0}
  BY SequenceFact DEF IsMemory
<1>2. Region(m, A, A)
  <2>1. ASSUME NEW a \in A PROVE Members(m, a) \in Seq(A) /\ m[a].head \in A \cup {0}
    BY <1>1, CellFact, MembersFact
  <2> HIDE DEF A
  <2>2. QED
    BY <2>1 DEF Region, A
<1>3. arg \in [Library!ArgNames -> A \cup {0}]
  BY <1>1
<1> HIDE DEF A
<1>4. QED
  BY <1>2, <1>3, CallForm, FormLayered
===============================================================================
