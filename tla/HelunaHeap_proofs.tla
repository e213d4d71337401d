-------------------------- MODULE HelunaHeap_proofs ---------------------------
(*****************************************************************************)
(* Facts about HelunaHeap.tla: memories in which every pointer leads to a    *)
(* cell and every next pointer to a later one, how they grow and change,     *)
(* that a walk along next pointers meets cells only, and ends; that no value *)
(* contains itself, and that what a pointer stands for stays the same while  *)
(* the cells it leads to do.                                                 *)
(*****************************************************************************)
EXTENDS HelunaHeap, SequenceTheorems, WellFoundedInduction, TLAPS

(* A cell as it may stand at address a of a memory of size top.            *)
CellFields == {"kind", "n", "s", "head", "next"}

CellAt(c, a, top) ==
  /\ DOMAIN c = CellFields
  /\ c.kind \in Kinds /\ c.n \in Int
  /\ c.head \in 0 .. top
  /\ c.next = NULL \/ c.next \in a + 1 .. top

IsSequence(s) == \E S : s \in Seq(S)

IsMemory(m) ==
  /\ IsSequence(m)
  /\ \A a \in 1 .. Len(m) : CellAt(m[a], a, Len(m))

------------------------------------------------------------------------------
(* A non-empty set of naturals has a least element.                        *)
LEMMA LeastNat ==
  ASSUME NEW S, S \subseteq Nat, S # {}
  PROVE  \E i \in S : \A j \in S : i <= j
<1>1. PICK i \in S : \A j \in S : <<j, i>> \notin OpToRel(<, Nat)
  BY WFMin, NatLessThanWellFounded, Zenon
<1>2. \A j \in S : ~(j < i)
  BY <1>1, Zenon DEF OpToRel
<1>3. QED
  BY <1>2

LEMMA SequenceFact ==
  ASSUME NEW s, IsSequence(s)
  PROVE  Len(s) \in Nat /\ DOMAIN s = 1 .. Len(s)
<1>1. PICK S : s \in Seq(S)
  BY DEF IsSequence
<1>2. QED
  BY <1>1

LEMMA ConcatFact ==
  ASSUME NEW s, IsSequence(s), NEW t, IsSequence(t)
  PROVE  /\ IsSequence(s \o t) /\ Len(s \o t) = Len(s) + Len(t)
         /\ \A i \in 1 .. Len(s) : (s \o t)[i] = s[i]
         /\ \A i \in 1 .. Len(t) : (s \o t)[Len(s) + i] = t[i]
<1>1. PICK S : s \in Seq(S)
  BY DEF IsSequence
<1>2. PICK T : t \in Seq(T)
  BY DEF IsSequence
<1>3. s \in Seq(S \cup T) /\ t \in Seq(S \cup T)
  BY <1>1, <1>2
<1>4. Len(s) \in Nat /\ Len(t) \in Nat
  BY <1>3
<1>5. /\ s \o t \in Seq(S \cup T) /\ Len(s \o t) = Len(s) + Len(t)
      /\ \A i \in 1 .. Len(s) + Len(t) :
           (s \o t)[i] = IF i <= Len(s) THEN s[i] ELSE t[i - Len(s)]
  BY <1>3, ConcatProperties
<1>6. \A i \in 1 .. Len(s) : i \in 1 .. Len(s) + Len(t) /\ i <= Len(s)
  BY <1>4
<1>7. ASSUME NEW i \in 1 .. Len(t)
      PROVE  (s \o t)[Len(s) + i] = t[i]
  <2>1. PICK k \in 1 .. Len(s) + Len(t) : k = Len(s) + i /\ ~(k <= Len(s)) /\ k - Len(s) = i
    BY <1>4
  <2>2. QED
    BY <1>5, <2>1, Zenon
<1>8. QED
  BY <1>5, <1>6, <1>7, Zenon DEF IsSequence

LEMMA AppendAny ==
  ASSUME NEW s, IsSequence(s), NEW x
  PROVE  /\ IsSequence(Append(s, x)) /\ Len(Append(s, x)) = Len(s) + 1
         /\ \A i \in 1 .. Len(s) : Append(s, x)[i] = s[i]
         /\ Append(s, x)[Len(s) + 1] = x
<1>1. PICK S : s \in Seq(S)
  BY DEF IsSequence
<1>2. s \in Seq(S \cup {x})
  BY <1>1
<1>3. QED
  BY <1>2 DEF IsSequence

LEMMA ExceptAny ==
  ASSUME NEW s, IsSequence(s), NEW i \in 1 .. Len(s), NEW x
  PROVE  /\ IsSequence([s EXCEPT ![i] = x]) /\ Len([s EXCEPT ![i] = x]) = Len(s)
         /\ [s EXCEPT ![i] = x][i] = x
         /\ \A j \in 1 .. Len(s) : j # i => [s EXCEPT ![i] = x][j] = s[j]
<1>1. PICK S : s \in Seq(S)
  BY DEF IsSequence
<1>2. s \in Seq(S \cup {x})
  BY <1>1
<1>3. QED
  BY <1>2 DEF IsSequence

------------------------------------------------------------------------------
(* Cells.                                                                  *)
LEMMA NewCell ==
  ASSUME NEW kind \in Kinds, NEW n \in Int, NEW s, NEW top \in Nat, NEW head \in 0 .. top, NEW a
  PROVE  CellAt(Cell(kind, n, s, head), a, top)
  BY DEF CellAt, Cell, CellFields

LEMMA RelinkedCell ==
  ASSUME NEW c, NEW a, NEW b, NEW top \in Nat, NEW more \in Nat, top <= more,
         CellAt(c, a, top), NEW next, next = NULL \/ next \in b + 1 .. more
  PROVE  CellAt([c EXCEPT !.next = next], b, more)
  BY DEF CellAt, CellFields

LEMMA ReheadedCell ==
  ASSUME NEW c, NEW a, NEW top \in Nat, CellAt(c, a, top), NEW head \in 0 .. top
  PROVE  CellAt([c EXCEPT !.head = head], a, top)
  BY DEF CellAt, CellFields

(* A cell may stay where it is when the memory grows.                      *)
LEMMA CellKept ==
  ASSUME NEW c, NEW top \in Nat, NEW more \in Nat, top <= more, NEW a \in Nat,
         CellAt(c, a, top)
  PROVE  CellAt(c, a, more)
  BY DEF CellAt

LEMMA CellFact ==
  ASSUME NEW m, IsMemory(m), NEW a \in 1 .. Len(m)
  PROVE  /\ CellAt(m[a], a, Len(m)) /\ a \in Nat \ {0} /\ Len(m) \in Nat
         /\ m[a].kind \in Kinds /\ m[a].n \in Int /\ m[a].head \in 0 .. Len(m)
         /\ m[a].next \in 0 .. Len(m)
         /\ m[a].next # NULL => m[a].next \in 1 .. Len(m) /\ a < m[a].next
<1>1. CellAt(m[a], a, Len(m)) /\ Len(m) \in Nat
  BY SequenceFact DEF IsMemory
<1>2. QED
  BY <1>1 DEF CellAt, NULL

(* How memories grow and change.                                           *)
LEMMA Grown ==
  ASSUME NEW m, IsMemory(m), NEW cells, IsSequence(cells),
         \A i \in 1 .. Len(cells) :
           CellAt(cells[i], Len(m) + i, Len(m) + Len(cells))
  PROVE  /\ IsMemory(m \o cells) /\ Len(m \o cells) = Len(m) + Len(cells)
         /\ \A a \in 1 .. Len(m) : (m \o cells)[a] = m[a]
         /\ Len(m) \in Nat /\ Len(cells) \in Nat
<1> DEFINE g == m \o cells  n == Len(m)  k == Len(cells)
<1>1. IsSequence(m) /\ n \in Nat /\ k \in Nat
  BY SequenceFact DEF IsMemory
<1>2. /\ IsSequence(g) /\ Len(g) = n + k
      /\ \A i \in 1 .. n : g[i] = m[i]
      /\ \A i \in 1 .. k : g[n + i] = cells[i]
  BY <1>1, ConcatFact
<1>3. \A i \in 1 .. k : CellAt(cells[i], n + i, n + k)
  OBVIOUS
<1>4. \A a \in 1 .. n : CellAt(m[a], a, n)
  BY DEF IsMemory
<1> HIDE DEF g, n, k
<1>5. ASSUME NEW a \in 1 .. n + k PROVE CellAt(g[a], a, n + k)
  <2>1. CASE a <= n
    <3>1. a \in 1 .. n /\ n <= n + k /\ n + k \in Nat /\ a \in Nat
      BY <1>1, <2>1
    <3>2. QED
      BY <1>1, <1>2, <1>4, <3>1, CellKept
  <2>2. CASE ~(a <= n)
    <3>1. PICK i \in 1 .. k : a = n + i
      BY <1>1, <2>2
    <3>2. QED
      BY <1>2, <1>3, <3>1
  <2>3. QED
    BY <2>1, <2>2
<1>6. IsMemory(g)
  BY <1>2, <1>5 DEF IsMemory
<1>7. QED
  BY <1>1, <1>2, <1>6 DEF g, n, k

LEMMA GrownByOne ==
  ASSUME NEW m, IsMemory(m), NEW c, CellAt(c, Len(m) + 1, Len(m) + 1)
  PROVE  /\ IsMemory(Append(m, c)) /\ Len(Append(m, c)) = Len(m) + 1
         /\ \A a \in 1 .. Len(m) : Append(m, c)[a] = m[a]
         /\ Append(m, c)[Len(m) + 1] = c
         /\ Len(m) \in Nat
<1> DEFINE g == Append(m, c)  n == Len(m)
<1>1. IsSequence(m) /\ n \in Nat
  BY SequenceFact DEF IsMemory
<1>2. /\ IsSequence(g) /\ Len(g) = n + 1
      /\ \A i \in 1 .. n : g[i] = m[i]
      /\ g[n + 1] = c
  BY <1>1, AppendAny
<1>3. CellAt(c, n + 1, n + 1) /\ \A a \in 1 .. n : CellAt(m[a], a, n)
  BY DEF IsMemory
<1> HIDE DEF g, n
<1>4. ASSUME NEW a \in 1 .. n + 1 PROVE CellAt(g[a], a, n + 1)
  <2>1. CASE a = n + 1
    BY <1>2, <1>3, <2>1
  <2>2. CASE a # n + 1
    <3>1. a \in 1 .. n /\ n <= n + 1 /\ n + 1 \in Nat /\ a \in Nat
      BY <1>1, <2>2
    <3>2. QED
      BY <1>1, <1>2, <1>3, <3>1, CellKept
  <2>3. QED
    BY <2>1, <2>2
<1>5. IsMemory(g)
  BY <1>2, <1>4 DEF IsMemory
<1>6. QED
  BY <1>1, <1>2, <1>5 DEF g, n

LEMMA Changed ==
  ASSUME NEW m, IsMemory(m), NEW a \in 1 .. Len(m), NEW c, CellAt(c, a, Len(m))
  PROVE  /\ IsMemory([m EXCEPT ![a] = c]) /\ Len([m EXCEPT ![a] = c]) = Len(m)
         /\ [m EXCEPT ![a] = c][a] = c
         /\ \A b \in 1 .. Len(m) : b # a => [m EXCEPT ![a] = c][b] = m[b]
<1> DEFINE g == [m EXCEPT ![a] = c]
<1>1. /\ IsSequence(g) /\ Len(g) = Len(m)
      /\ g[a] = c /\ \A b \in 1 .. Len(m) : b # a => g[b] = m[b]
  BY ExceptAny DEF IsMemory
<1> HIDE DEF g
<1>2. QED
  BY <1>1 DEF IsMemory, g

------------------------------------------------------------------------------
(* Chain follows the next pointers: its recursion is well founded, since   *)
(* they lead to later cells.                                               *)
Links(m, f, D) ==
  f = [a \in D |-> IF a = NULL THEN << >> ELSE <<a>> \o f[m[a].next]]

LEMMA ChainExists ==
  ASSUME NEW m, IsMemory(m)
  PROVE  \E f : Links(m, f, 0 .. Len(m))
<1> DEFINE N == Len(m)
           D(k) == {a \in 0 .. N : a = 0 \/ a > N - k}
           Bad == {k \in 0 .. N : ~ \E f : Links(m, f, D(k))}
<1>1. N \in Nat
  BY SequenceFact DEF IsMemory
<1>2. D(N) = 0 .. N
  BY <1>1
<1>3. Links(m, [a \in {0} |-> << >>], D(0))
  <2>1. D(0) = {0}
    BY <1>1
  <2>2. QED
    BY <2>1 DEF Links, NULL
<1>4. ASSUME NEW k \in 0 .. N, k < N, NEW f, Links(m, f, D(k))
      PROVE  \E g : Links(m, g, D(k + 1))
  <2> DEFINE b == N - k
             g == [a \in D(k + 1) |-> IF a = b THEN <<b>> \o f[m[b].next] ELSE f[a]]
             L(h, a) == IF a = NULL THEN << >> ELSE <<a>> \o h[m[a].next]
  <2>1. /\ b \in 1 .. N /\ D(k + 1) = D(k) \cup {b} /\ b \notin D(k)
    BY <1>1, <1>4
  <2>2. ASSUME NEW a \in D(k + 1), a # 0
        PROVE  m[a].next \in D(k)
    <3>1. a \in 1 .. N
      BY <2>2
    <3>2. m[a].next = NULL \/ m[a].next \in a + 1 .. N
      BY <3>1 DEF IsMemory, CellAt
    <3>3. QED
      BY <1>1, <2>2, <3>2 DEF NULL
  <2>3. \A a \in D(k) : f[a] = L(f, a)
    BY <1>4 DEF Links
  <2> HIDE DEF D
  <2>4. \A a \in D(k) : a \in D(k + 1) /\ a # b
    BY <2>1
  <2>5. \A a \in D(k + 1) : g[a] = IF a = b THEN <<b>> \o f[m[b].next] ELSE f[a]
    OBVIOUS
  <2>6. b # NULL /\ b \in D(k + 1)
    BY <2>1 DEF NULL
  <2> HIDE DEF b
  <2>7. ASSUME NEW a \in D(k + 1) PROVE g[a] = L(g, a)
    <3>1. CASE a = NULL
      <4>1. a \in D(k) /\ a # b
        BY <2>1, <2>6, <3>1
      <4>2. QED
        BY <2>3, <2>5, <3>1, <4>1
    <3>2. CASE a # NULL
      <4>1. m[a].next \in D(k)
        BY <2>2, <3>2 DEF NULL
      <4>2. g[m[a].next] = f[m[a].next]
        BY <2>4, <2>5, <4>1
      <4>3. g[a] = <<a>> \o f[m[a].next]
        <5>1. CASE a = b
          BY <2>5, <5>1
        <5>2. CASE a # b
          BY <2>1, <2>3, <2>5, <3>2, <5>2
        <5>3. QED
          BY <5>1, <5>2
      <4>4. QED
        BY <3>2, <4>2, <4>3
    <3>3. QED
      BY <3>1, <3>2
  <2>8. g = [a \in D(k + 1) |-> L(g, a)]
    BY <2>7
  <2>9. Links(m, g, D(k + 1))
    BY <2>8 DEF Links
  <2>10. QED
    BY <2>9
<1> HIDE DEF D
<1>5. Bad = {}
  <2> SUFFICES ASSUME Bad # {} PROVE FALSE
    OBVIOUS
  <2>1. PICK k \in Bad : \A j \in Bad : k <= j
    <3>1. Bad \subseteq Nat
      BY <1>1
    <3>2. QED
      BY <3>1, LeastNat
  <2>2. k \in 0 .. N /\ k # 0
    BY <1>3
  <2>3. k - 1 \in 0 .. N /\ k - 1 < N /\ (k - 1) + 1 = k /\ ~(k <= k - 1)
    BY <1>1, <2>2
  <2>4. k - 1 \notin Bad
    BY <2>1, <2>3
  <2>5. PICK f : Links(m, f, D(k - 1))
    BY <2>3, <2>4
  <2>6. \E g : Links(m, g, D((k - 1) + 1))
    BY <1>4, <2>3, <2>5
  <2>7. QED
    BY <2>3, <2>6
<1>6. N \in 0 .. N
  BY <1>1
<1>7. \E f : Links(m, f, D(N))
  BY <1>5, <1>6
<1>8. QED
  BY <1>2, <1>7

(* Chain is that recursion.                                                *)
LEMMA ChainUnfold ==
  ASSUME NEW m, IsMemory(m), NEW a \in 0 .. Len(m)
  PROVE  Chain(m, a) = IF a = NULL THEN << >> ELSE <<a>> \o Chain(m, m[a].next)
<1> DEFINE c == CHOOSE f : Links(m, f, 0 .. Len(m))
<1>1. Links(m, c, 0 .. Len(m))
  BY ChainExists
<1>2. \A b : Chain(m, b) = c[b]
  BY DEF Chain, Links
<1> HIDE DEF c
<1>3. c[a] = IF a = NULL THEN << >> ELSE <<a>> \o c[m[a].next]
  BY <1>1 DEF Links
<1>4. QED
  BY <1>2, <1>3

(* A walk does not leave a set of cells that is closed under next.         *)
LEMMA ChainStays ==
  ASSUME NEW m, IsMemory(m), NEW D, D \subseteq 1 .. Len(m),
         \A x \in D : m[x].next \in D \cup {NULL}, NEW a \in D \cup {NULL}
  PROVE  Chain(m, a) \in Seq(D)
<1> DEFINE N == Len(m)
           Ok(b) == Chain(m, b) \in Seq(D)
           Bad == {k \in 0 .. N - 1 : N - k \in D /\ ~Ok(N - k)}
<1>1. N \in Nat
  BY SequenceFact DEF IsMemory
<1>2. Ok(NULL)
  <2>1. Chain(m, NULL) = << >>
    <3>1. NULL \in 0 .. Len(m)
      BY <1>1 DEF NULL
    <3>2. QED
      BY <3>1, ChainUnfold
  <2>2. QED
    BY <2>1
<1>3. ASSUME NEW b \in D, Ok(m[b].next) PROVE Ok(b)
  <2>1. Chain(m, b) = <<b>> \o Chain(m, m[b].next)
    <3>1. b \in 0 .. Len(m) /\ b # NULL
      BY <1>1 DEF NULL
    <3>2. QED
      BY <3>1, ChainUnfold
  <2>2. <<b>> \in Seq(D)
    OBVIOUS
  <2> HIDE DEF N
  <2>3. QED
    BY <1>3, <2>1, <2>2
<1>4. Bad = {}
  <2> SUFFICES ASSUME Bad # {} PROVE FALSE
    OBVIOUS
  <2>1. PICK k \in Bad : \A j \in Bad : k <= j
    <3>1. Bad \subseteq Nat
      BY <1>1
    <3>2. QED
      BY <3>1, LeastNat
  <2>2. PICK b \in D : b = N - k
    OBVIOUS
  <2>3. b \in 1 .. N /\ k \in 0 .. N - 1 /\ k = N - b
    BY <1>1, <2>2
  <2>4. ~Ok(m[b].next)
    <3>1. ~Ok(b)
      BY <2>2
    <3>2. QED
      BY <1>3, <3>1
  <2>5. m[b].next # NULL /\ m[b].next \in D
    BY <1>2, <2>4
  <2>6. m[b].next \in 1 .. Len(m) /\ b < m[b].next
    BY <2>3, <2>5, CellFact
  <2>7. PICK j \in 0 .. N - 1 : m[b].next = N - j /\ j < k
    <3>1. N - m[b].next \in 0 .. N - 1 /\ m[b].next = N - (N - m[b].next) /\ N - m[b].next < k
      BY <1>1, <2>3, <2>6
    <3>2. QED
      BY <3>1
  <2>8. j \in Bad
    BY <2>4, <2>5, <2>7
  <2>9. QED
    BY <2>1, <2>3, <2>7, <2>8
<1>5. CASE a = NULL
  BY <1>2, <1>5
<1>6. CASE a # NULL
  <2>1. PICK b \in D : b = a
    BY <1>6
  <2>2. N - b \in 0 .. N - 1 /\ N - (N - b) = b
    BY <1>1
  <2>3. QED
    BY <1>4, <2>1, <2>2
<1>7. QED
  BY <1>5, <1>6

(* A walk meets cells only, from the one it starts at on.                  *)
LEMMA ChainAddresses ==
  ASSUME NEW m, IsMemory(m), NEW a \in 0 .. Len(m)
  PROVE  Chain(m, a) \in Seq(1 .. Len(m))
<1>1. \A x \in 1 .. Len(m) : m[x].next \in 1 .. Len(m) \cup {NULL}
  BY CellFact, Zenon
<1>2. a \in 1 .. Len(m) \cup {NULL}
  BY SequenceFact DEF IsMemory, NULL
<1>3. QED
  BY <1>1, <1>2, ChainStays

LEMMA KindFact ==
  ASSUME NEW m, NEW a \in 0 .. Len(m), KindAt(m, a) # "null"
  PROVE  a \in 1 .. Len(m) /\ KindAt(m, a) = m[a].kind
  BY DEF KindAt, NULL

LEMMA MembersFact ==
  ASSUME NEW m, IsMemory(m), NEW a \in 1 .. Len(m)
  PROVE  Members(m, a) \in Seq(1 .. Len(m))
  BY CellFact, ChainAddresses DEF Members

(* The fields of a name are among the fields.                              *)
LEMMA NamedAmong ==
  ASSUME NEW m, NEW a, NEW name, NEW F,
         KindAt(m, a) = "record" => Members(m, a) \in Seq(F)
  PROVE  FieldNamed(m, a, name) \subseteq F
<1>1. CASE KindAt(m, a) # "record"
  BY <1>1 DEF FieldNamed
<1>2. CASE KindAt(m, a) = "record"
  <2> DEFINE fields == Members(m, a)
  <2>1. fields \in Seq(F)
    BY <1>2
  <2>2. ASSUME NEW f \in FieldNamed(m, a, name)
        PROVE  \E i \in DOMAIN fields : f = fields[i]
    BY <1>2 DEF FieldNamed
  <2> HIDE DEF fields
  <2>3. QED
    BY <2>1, <2>2
<1>3. QED
  BY <1>1, <1>2

LEMMA FieldsFact ==
  ASSUME NEW m, IsMemory(m), NEW a \in 0 .. Len(m), NEW name
  PROVE  FieldNamed(m, a, name) \subseteq 1 .. Len(m)
  BY KindFact, MembersFact, NamedAmong

(* A cell without a next pointer, wherever it is put.                      *)
Loose(c, top) == CellAt(c, 0, top) /\ c.next = NULL

LEMMA LooseCell ==
  ASSUME NEW c, NEW top \in Nat, NEW more \in Nat, top <= more, Loose(c, top), NEW a
  PROVE  CellAt(c, a, more)
  BY DEF Loose, CellAt

LEMMA NewLooseCell ==
  ASSUME NEW kind \in Kinds, NEW n \in Int, NEW s, NEW top \in Nat, NEW head \in 0 .. top
  PROVE  Loose(Cell(kind, n, s, head), top)
  BY DEF Loose, CellAt, Cell, CellFields

LEMMA CopiedCell ==
  ASSUME NEW m, IsMemory(m), NEW a \in 0 .. Len(m)
  PROVE  Loose(CopyCell(m, a), Len(m))
<1>1. Len(m) \in Nat
  BY SequenceFact DEF IsMemory
<1>2. CASE a = NULL
  <2>1. CopyCell(m, a) = Cell("nothing", 0, "", NULL) /\ "nothing" \in Kinds
    BY <1>2 DEF CopyCell, NothingCell, Kinds
  <2>2. NULL \in 0 .. Len(m) /\ 0 \in Int
    BY <1>1 DEF NULL
  <2>3. Loose(Cell("nothing", 0, "", NULL), Len(m))
    BY <1>1, <2>1, <2>2, NewLooseCell
  <2>4. QED
    BY <2>1, <2>3
<1>3. CASE a # NULL
  <2>1. a \in 1 .. Len(m)
    BY <1>3 DEF NULL
  <2>2. CellAt(m[a], a, Len(m)) /\ CopyCell(m, a) = [m[a] EXCEPT !.next = NULL]
    BY <1>3, <2>1, CellFact DEF CopyCell
  <2>3. QED
    BY <2>2 DEF Loose, CellAt, CellFields
<1>4. QED
  BY <1>2, <1>3

------------------------------------------------------------------------------
(* A function on 1 .. n is a sequence of length n.                         *)
LEMMA FunctionFact ==
  ASSUME NEW n \in Nat, NEW f, f = [i \in 1 .. n |-> f[i]]
  PROVE  IsSequence(f) /\ Len(f) = n
<1> DEFINE S == {f[i] : i \in 1 .. n}
<1>1. f \in [1 .. n -> S]
  OBVIOUS
<1>2. f \in Seq(S) /\ Len(f) = n
  BY <1>1
<1>3. QED
  BY <1>2 DEF IsSequence

(* Counting up to n.                                                       *)
LEMMA UpTo ==
  ASSUME NEW n \in Nat, NEW P, 0 \in P,
         \A k \in 0 .. n - 1 : k \in P => k + 1 \in P
  PROVE  0 .. n \subseteq P
<1> DEFINE Bad == {k \in 0 .. n : k \notin P}
<1>1. Bad = {}
  <2> SUFFICES ASSUME Bad # {} PROVE FALSE
    OBVIOUS
  <2>1. PICK k \in Bad : \A j \in Bad : k <= j
    <3>1. Bad \subseteq Nat
      OBVIOUS
    <3>2. QED
      BY <3>1, LeastNat
  <2>2. k - 1 \in 0 .. n - 1 /\ k - 1 \notin Bad /\ (k - 1) + 1 = k
    BY <2>1
  <2>3. QED
    BY <2>2
<1>2. QED
  BY <1>1

------------------------------------------------------------------------------
(* Numbers: what the operators on cells compute is a number.               *)
LEMMA Division ==
  ASSUME NEW a \in Int, NEW b \in Int, b # 0
  PROVE  CDiv(a, b) \in Int /\ CMod(a, b) \in Int
<1>1. Abs(a) \in Int /\ Abs(b) \in Int /\ Abs(b) > 0
  BY DEF Abs
<1>2. Abs(a) \div Abs(b) \in Int /\ Abs(a) % Abs(b) \in Int
  BY <1>1
<1>3. Sign(a) \in {-1, 1} /\ Sign(b) \in {-1, 1}
  BY DEF Sign
<1>4. \A x \in Int, s \in {-1, 1}, t \in {-1, 1} : s * t * x \in Int /\ s * x \in Int
  OBVIOUS
<1>5. QED
  BY <1>2, <1>3, <1>4 DEF CDiv, CMod

LEMMA Halved == \A k \in Int : CDiv(k, 2) \in Int
  BY Division

LEMMA ParsedNumbers == \A s : ParseInteger(s) \in Int /\ ParseHalves(s) \in Int
<1>1. ASSUME NEW s PROVE ParseInteger(s) \in Int
  BY DEF ParseInteger
<1>2. ASSUME NEW s PROVE ParseHalves(s) \in Int
  BY <1>1 DEF ParseHalves
<1>3. QED
  BY <1>1, <1>2

Operations == {"ADD", "SUB", "MUL", "DIV", "MOD"}

LEMMA OperationNumbers ==
  ASSUME NEW op \in Operations, NEW a \in Int, NEW b \in Int,
         op \in {"DIV", "MOD"} => b # 0
  PROVE  IntegerOp(op, a, b) \in Int /\ FloatOp(op, a, b) \in Int
<1>1. CASE op \in {"DIV", "MOD"}
  <2>1. 2 * a \in Int /\ b # 0
    BY <1>1
  <2>2. /\ CDiv(a, b) \in Int /\ CMod(a, b) \in Int /\ CDiv(2 * a, b) \in Int
    BY <2>1, Division
  <2>3. QED
    BY <1>1, <2>1, <2>2 DEF IntegerOp, FloatOp
<1>2. CASE op \in {"ADD", "SUB", "MUL"}
  <2>1. a * b \in Int
    OBVIOUS
  <2>2. CDiv(a * b, 2) \in Int
    BY <2>1, Division
  <2>3. QED
    BY <1>2, <2>1, <2>2 DEF IntegerOp, FloatOp
<1>3. QED
  BY <1>1, <1>2 DEF Operations

LEMMA FloatModulo ==
  ASSUME NEW a \in Int, NEW b \in Int
  PROVE  FloatOp("MOD", a, b) \in Int
<1>1. CASE b = 0
  BY <1>1 DEF FloatOp
<1>2. CASE b # 0
  BY <1>2, OperationNumbers DEF Operations
<1>3. QED
  BY <1>1, <1>2

(* Arithmetic on two numbers makes the cell of a number, which may stand   *)
(* anywhere.                                                               *)
NumberCells == {IntegerCell(n) : n \in Int} \cup {FloatCell(n) : n \in Int}

LEMMA NumberCell ==
  ASSUME NEW c \in NumberCells, NEW top \in Nat
  PROVE  Loose(c, top) /\ c.n \in Int
<1>1. {"integer", "float"} \subseteq Kinds /\ NULL \in 0 .. top
  BY DEF Kinds, NULL
<1>2. \A n \in Int : Loose(IntegerCell(n), top) /\ Loose(FloatCell(n), top)
  BY <1>1, NewLooseCell DEF IntegerCell, FloatCell
<1>3. QED
  BY <1>2 DEF NumberCells, Loose, CellAt

LEMMA ArithmeticNumber ==
  ASSUME NEW op \in Operations, NEW x, NEW y, x.n \in Int, y.n \in Int,
         ~ArithmeticFails(op, x, y) \/ op \in {"ADD", "MUL"}
  PROVE  Arithmetic(op, x, y) \in NumberCells
<1>1. ToDouble(x) \in Int /\ ToDouble(y) \in Int /\ (y.n # 0 => ToDouble(y) # 0)
  BY DEF ToDouble
<1>2. FloatOp(op, ToDouble(x), ToDouble(y)) \in Int
  <2>1. CASE op = "MOD"
    BY <1>1, <2>1, FloatModulo
  <2>2. CASE op # "MOD"
    <3>1. op \in {"DIV", "MOD"} => ToDouble(y) # 0
      BY <1>1, <2>2 DEF ArithmeticFails
    <3>2. QED
      BY <1>1, <3>1, OperationNumbers
  <2>3. QED
    BY <2>1, <2>2
<1>3. x.kind = "integer" /\ y.kind = "integer" => IntegerOp(op, x.n, y.n) \in Int
  <2> SUFFICES ASSUME x.kind = "integer", y.kind = "integer"
               PROVE  IntegerOp(op, x.n, y.n) \in Int
    OBVIOUS
  <2>1. op \in {"DIV", "MOD"} => y.n # 0
    BY DEF ArithmeticFails
  <2>2. QED
    BY <2>1, OperationNumbers
<1>4. QED
  BY <1>2, <1>3 DEF Arithmetic, NumberCells

LEMMA ArithmeticCell ==
  ASSUME NEW op \in Operations, NEW x, NEW y, x.n \in Int, y.n \in Int,
         ~ArithmeticFails(op, x, y) \/ op \in {"ADD", "MUL"}, NEW top \in Nat
  PROVE  Loose(Arithmetic(op, x, y), top)
  BY ArithmeticNumber, NumberCell

------------------------------------------------------------------------------
(* A recursion from b to n whose steps stay in S has a solution, and every *)
(* solution stays in S.                                                    *)
Steps(G, b, n, S) == G \in [S \X (b + 1 .. n) -> S]

Follows(f, b, n, base, G) ==
  \A i \in b .. n : f[i] = IF i = b THEN base ELSE G[<<f[i - 1], i>>]

LEMMA Iterated ==
  ASSUME NEW b \in Nat, NEW n \in Nat, b <= n, NEW S, NEW base \in S,
         NEW G, Steps(G, b, n, S)
  PROVE  \E f \in [b .. n -> S] : Follows(f, b, n, base, G)
<1> USE DEF Steps, Follows
<1> DEFINE Solves(f, k) ==
             \A i \in b .. b + k : f[i] = IF i = b THEN base ELSE G[<<f[i - 1], i>>]
           P == {k \in 0 .. n - b : \E f \in [b .. b + k -> S] : Solves(f, k)}
<1>1. 0 \in P
  <2> DEFINE f == [i \in b .. b + 0 |-> base]
  <2>1. f \in [b .. b + 0 -> S] /\ Solves(f, 0)
    OBVIOUS
  <2>2. \E h \in [b .. b + 0 -> S] : Solves(h, 0)
    <3> HIDE DEF f, Solves
    <3>1. QED
      BY <2>1
  <2>3. 0 \in 0 .. n - b
    OBVIOUS
  <2> HIDE DEF Solves
  <2>4. QED
    BY <2>2, <2>3
<1>2. ASSUME NEW k \in 0 .. (n - b) - 1, k \in P PROVE k + 1 \in P
  <2>1. PICK f \in [b .. b + k -> S] : Solves(f, k)
    BY <1>2
  <2> DEFINE t == b + k + 1
             g == [i \in b .. t |-> IF i = t THEN G[<<f[b + k], t>>] ELSE f[i]]
  <2>2. /\ t \in b + 1 .. n /\ t = b + (k + 1) /\ t - 1 = b + k /\ b + k \in b .. b + k
        /\ \A i \in b .. t : i # t => i \in b .. b + k /\ i - 1 # t
        /\ \A i \in b .. t : i # t /\ i # b => i - 1 \in b .. b + k /\ i - 1 \in b .. t
        /\ t # b /\ b + k \in b .. t /\ b + k # t
    OBVIOUS
  <2> HIDE DEF t
  <2>3. f[b + k] \in S
    BY <2>2
  <2>4. g \in [b .. t -> S]
    BY <2>2, <2>3
  <2>5. ASSUME NEW i \in b .. t
        PROVE  g[i] = IF i = b THEN base ELSE G[<<g[i - 1], i>>]
    <3>1. CASE i = t
      <4>1. g[i] = G[<<f[b + k], t>>] /\ i # b /\ i - 1 = b + k
        BY <2>2, <3>1
      <4>2. g[b + k] = f[b + k]
        BY <2>2
      <4>3. QED
        BY <3>1, <4>1, <4>2
    <3>2. CASE i # t
      <4>1. i \in b .. b + k /\ g[i] = f[i]
        BY <2>2, <3>2
      <4>2. f[i] = IF i = b THEN base ELSE G[<<f[i - 1], i>>]
        BY <2>1, <4>1
      <4>3. i # b => g[i - 1] = f[i - 1]
        BY <2>2, <3>2
      <4>4. QED
        BY <4>1, <4>2, <4>3
    <3>3. QED
      BY <3>1, <3>2
  <2>6. \E h \in [b .. b + (k + 1) -> S] : Solves(h, k + 1)
    BY <2>2, <2>4, <2>5
  <2>7. k + 1 \in 0 .. n - b
    OBVIOUS
  <2>8. QED
    BY <2>6, <2>7
<1>3. n - b \in Nat /\ b + (n - b) = n /\ n - b \in 0 .. n - b
  OBVIOUS
<1>4. n - b \in P
  <2> HIDE DEF P
  <2>1. QED
    BY <1>1, <1>2, <1>3, UpTo
<1>5. QED
  BY <1>3, <1>4

LEMMA Closed ==
  ASSUME NEW b \in Nat, NEW n \in Nat, b <= n, NEW S, NEW f, f[b] \in S,
         \A i \in b + 1 .. n : f[i - 1] \in S => f[i] \in S
  PROVE  \A i \in b .. n : f[i] \in S
<1> DEFINE P == {k \in 0 .. n - b : f[b + k] \in S}
<1>1. 0 \in P /\ n - b \in Nat
  OBVIOUS
<1>2. ASSUME NEW k \in 0 .. (n - b) - 1, k \in P PROVE k + 1 \in P
  <2>1. b + (k + 1) \in b + 1 .. n /\ b + (k + 1) - 1 = b + k /\ k + 1 \in 0 .. n - b
    OBVIOUS
  <2>2. f[b + (k + 1)] \in S
    BY <1>2, <2>1
  <2>3. QED
    BY <2>1, <2>2
<1>3. 0 .. n - b \subseteq P
  <2> HIDE DEF P
  <2>1. QED
    BY <1>1, <1>2, UpTo
<1>4. ASSUME NEW i \in b .. n PROVE f[i] \in S
  <2>1. i - b \in 0 .. n - b /\ b + (i - b) = i
    OBVIOUS
  <2>2. QED
    BY <1>3, <2>1
<1>5. QED
  BY <1>4

------------------------------------------------------------------------------
(* The cells first .. last of a chain under construction: closed under     *)
(* next, but for the last one, which has no successor yet.                 *)
Chained(m, cells, first, last) ==
  /\ IF last = NULL THEN first = NULL /\ cells = {}
     ELSE first \in cells /\ last \in cells /\ m[last].next = NULL
  /\ \A x \in cells : x # last => m[x].next \in cells

(* A walk that starts in the cells of a chain stays in them, and ends at   *)
(* the last one.                                                           *)
EndsAt(m, C, last) ==
  \A a \in C :
    /\ Chain(m, a) \in Seq(C) /\ Len(Chain(m, a)) \in Nat \ {0}
    /\ Chain(m, a)[Len(Chain(m, a))] = last

LEMMA ChainWithin ==
  ASSUME NEW m, IsMemory(m), NEW C, C \subseteq 1 .. Len(m), NEW first, NEW last,
         Chained(m, C, first, last)
  PROVE  EndsAt(m, C, last)
<1> SUFFICES ASSUME NEW a \in C
             PROVE  /\ Chain(m, a) \in Seq(C) /\ Len(Chain(m, a)) \in Nat \ {0}
                    /\ Chain(m, a)[Len(Chain(m, a))] = last
  BY DEF EndsAt
<1> DEFINE N == Len(m)
           Ok(b) == /\ Chain(m, b) \in Seq(C) /\ Len(Chain(m, b)) \in Nat \ {0}
                    /\ Chain(m, b)[Len(Chain(m, b))] = last
           Bad == {k \in 0 .. N - 1 : N - k \in C /\ ~Ok(N - k)}
<1>1. N \in Nat
  BY SequenceFact DEF IsMemory
<1>2. \A b \in C : Chain(m, b) = <<b>> \o Chain(m, m[b].next)
  <2>1. \A b \in C : b \in 0 .. Len(m) /\ b # NULL
    BY <1>1 DEF NULL
  <2>2. QED
    BY <2>1, ChainUnfold
<1>3. ASSUME NEW b \in C, b = last PROVE Ok(b)
  <2>1. m[b].next = NULL
    BY <1>3, <1>1 DEF Chained, NULL
  <2>2. Chain(m, NULL) = << >>
    <3>1. NULL \in 0 .. Len(m)
      BY <1>1 DEF NULL
    <3>2. QED
      BY <3>1, ChainUnfold
  <2>3. Chain(m, b) = <<b>>
    <3>1. <<b>> \o << >> = <<b>>
      OBVIOUS
    <3>2. QED
      BY <1>2, <2>1, <2>2, <3>1
  <2>4. <<b>> \in Seq(C) /\ Len(<<b>>) = 1 /\ <<b>>[1] = b
    OBVIOUS
  <2>5. QED
    BY <1>3, <2>3, <2>4
<1>4. ASSUME NEW b \in C, Ok(m[b].next) PROVE Ok(b)
  <2>1. PICK t : t = Chain(m, m[b].next)
    OBVIOUS
  <2>2. t \in Seq(C) /\ Len(t) \in Nat \ {0} /\ t[Len(t)] = last
    BY <1>4, <2>1
  <2>3. /\ <<b>> \o t \in Seq(C) /\ Len(<<b>> \o t) = Len(t) + 1
        /\ (<<b>> \o t)[Len(t) + 1] = t[Len(t)]
    BY <2>2
  <2>4. Chain(m, b) = <<b>> \o t
    BY <1>2, <2>1
  <2>5. Len(t) + 1 \in Nat \ {0}
    BY <2>2
  <2>6. QED
    BY <2>2, <2>3, <2>4, <2>5
<1>5. \A b \in C : b # last => m[b].next \in C
  BY DEF Chained
<1> HIDE DEF Ok
<1>6. Bad = {}
  <2> SUFFICES ASSUME Bad # {} PROVE FALSE
    OBVIOUS
  <2>1. PICK k \in Bad : \A j \in Bad : k <= j
    <3>1. Bad \subseteq Nat
      BY <1>1
    <3>2. QED
      BY <3>1, LeastNat
  <2>2. PICK b \in C : b = N - k
    OBVIOUS
  <2>3. ~Ok(b) /\ k \in 0 .. N - 1 /\ b \in 1 .. N
    BY <2>2
  <2>4. m[b].next \in C /\ ~Ok(m[b].next)
    BY <1>3, <1>4, <1>5, <2>3
  <2>5. b < m[b].next /\ m[b].next \in 1 .. N
    <3>1. m[b].next \in 1 .. N
      BY <2>4
    <3>2. m[b].next # NULL
      BY <3>1, <1>1 DEF NULL
    <3>3. QED
      BY <2>3, <3>1, <3>2, CellFact
  <2>6. PICK j \in 0 .. N - 1 : m[b].next = N - j /\ j < k
    <3>1. N - m[b].next \in 0 .. N - 1 /\ m[b].next = N - (N - m[b].next) /\ N - m[b].next < k
      BY <1>1, <2>2, <2>3, <2>5
    <3>2. QED
      BY <3>1
  <2>7. j \in Bad
    BY <2>4, <2>6
  <2>8. QED
    BY <2>1, <2>3, <2>6, <2>7
<1>7. N - a \in 0 .. N - 1 /\ a = N - (N - a)
  BY <1>1
<1>8. Ok(a)
  BY <1>6, <1>7
<1>9. QED
  BY <1>8 DEF Ok

LEMMA ChainLast ==
  ASSUME NEW m, IsMemory(m), NEW C, C \subseteq 1 .. Len(m), NEW first, NEW last,
         Chained(m, C, first, last), last # NULL
  PROVE  last \in LastOf(m, first)
<1>1. first \in C /\ last \in C
  BY DEF Chained
<1>2. \A a \in C : Chain(m, a) \in Seq(C) /\ Chain(m, a)[Len(Chain(m, a))] = last
  <2>1. EndsAt(m, C, last)
    BY ChainWithin, Zenon
  <2>2. QED
    BY <2>1 DEF EndsAt
<1>3. last \in Addr(m)
  BY <1>1, SequenceFact DEF Addr, IsMemory
<1>4. QED
  BY <1>1, <1>2, <1>3 DEF LastOf

LEMMA FieldWithin ==
  ASSUME NEW m, IsMemory(m), NEW C, C \subseteq 1 .. Len(m), NEW last, NEW a \in 1 .. Len(m),
         Chained(m, C, m[a].head, last), NEW name, NEW f \in FieldNamed(m, a, name)
  PROVE  f \in C
<1>1. PICK fields : fields = Members(m, a)
  OBVIOUS
<1>2. PICK i \in DOMAIN fields : f = fields[i]
  BY <1>1 DEF FieldNamed
<1>3. CASE last = NULL
  <2>1. m[a].head = NULL /\ NULL \in 0 .. Len(m)
    BY <1>3, SequenceFact DEF Chained, NULL, IsMemory
  <2>2. fields = << >>
    BY <1>1, <2>1, ChainUnfold DEF Members
  <2>3. QED
    BY <1>2, <2>2
<1>4. CASE last # NULL
  <2>1. m[a].head \in C
    BY <1>4 DEF Chained
  <2>2. fields \in Seq(C)
    <3>1. EndsAt(m, C, last)
      BY ChainWithin, Zenon
    <3>2. fields = Chain(m, m[a].head)
      BY <1>1 DEF Members
    <3>3. QED
      BY <2>1, <3>1, <3>2 DEF EndsAt
  <2>3. QED
    BY <1>2, <2>2
<1>5. QED
  BY <1>3, <1>4

LEMMA NextSet ==
  ASSUME NEW m, IsMemory(m), NEW x \in 1 .. Len(m), NEW b, NEW n, n = [m EXCEPT ![x].next = b]
  PROVE  /\ n[x].next = b /\ n[x].head = m[x].head
         /\ \A a \in 1 .. Len(m) : a # x => n[a] = m[a]
<1>1. DOMAIN m = 1 .. Len(m) /\ DOMAIN m[x] = CellFields
  BY SequenceFact DEF IsMemory, CellAt
<1>2. QED
  BY <1>1 DEF CellFields

LEMMA HeadSet ==
  ASSUME NEW m, IsMemory(m), NEW x \in 1 .. Len(m), NEW b, NEW n, n = [m EXCEPT ![x].head = b]
  PROVE  /\ n[x].head = b /\ n[x].next = m[x].next
         /\ \A a \in 1 .. Len(m) : a # x => n[a] = m[a]
<1>1. DOMAIN m = 1 .. Len(m) /\ DOMAIN m[x] = CellFields
  BY SequenceFact DEF IsMemory, CellAt
<1>2. QED
  BY <1>1 DEF CellFields

------------------------------------------------------------------------------
Ranked(m) ==
  \E bound \in Nat : \E rank \in [1 .. Len(m) -> 0 .. bound] : Ranks(m, rank)

(* One turn of the recursion of Reify, given the values f of what a cell   *)
(* leads to.                                                               *)
Value(m, f, a) ==
  [kind   |-> KindAt(m, a),
   n      |-> IF a = NULL THEN 0 ELSE m[a].n,
   s      |-> IF a = NULL THEN "" ELSE m[a].s,
   items  |-> IF KindAt(m, a) # "list" THEN << >>
              ELSE [i \in DOMAIN Members(m, a) |-> f[Members(m, a)[i]]],
   fields |-> IF KindAt(m, a) # "record" THEN << >>
              ELSE [i \in DOMAIN Members(m, a) |->
                      [name |-> m[Members(m, a)[i]].s,
                       value |-> f[m[Members(m, a)[i]].head]]]]

Values(m, f, D) == f = [a \in D |-> Value(m, f, a)]

LEMMA ReifyChosen ==
  \A m, a : Reify(m, a) = (CHOOSE f : Values(m, f, 0 .. Len(m)))[a]
  BY Zenon DEF Reify, Values, Value

(* What the members of a cell, and the values of its fields, are.          *)
Leads(m, a, D) ==
  /\ KindAt(m, a) = "list" =>
       \A i \in DOMAIN Members(m, a) : Members(m, a)[i] \in D
  /\ KindAt(m, a) = "record" =>
       \A i \in DOMAIN Members(m, a) : m[Members(m, a)[i]].head \in D

LEMMA SameItems ==
  ASSUME NEW f, NEW g, NEW xs, \A i \in DOMAIN xs : f[xs[i]] = g[xs[i]]
  PROVE  [i \in DOMAIN xs |-> f[xs[i]]] = [i \in DOMAIN xs |-> g[xs[i]]]
  OBVIOUS

LEMMA SameFields ==
  ASSUME NEW f, NEW g, NEW xs, NEW m, \A i \in DOMAIN xs : f[m[xs[i]].head] = g[m[xs[i]].head]
  PROVE  [i \in DOMAIN xs |-> [name |-> m[xs[i]].s, value |-> f[m[xs[i]].head]]]
           = [i \in DOMAIN xs |-> [name |-> m[xs[i]].s, value |-> g[m[xs[i]].head]]]
  OBVIOUS

LEMMA SameValue ==
  ASSUME NEW m, NEW a, NEW D, Leads(m, a, D), NEW f, NEW g, \A x \in D : f[x] = g[x]
  PROVE  Value(m, f, a) = Value(m, g, a)
<1>1. PICK xs : xs = Members(m, a)
  OBVIOUS
<1>2. KindAt(m, a) = "list" =>
        [i \in DOMAIN xs |-> f[xs[i]]] = [i \in DOMAIN xs |-> g[xs[i]]]
  <2>1. KindAt(m, a) = "list" => \A i \in DOMAIN xs : f[xs[i]] = g[xs[i]]
    BY <1>1 DEF Leads
  <2>2. QED
    BY <2>1, SameItems
<1>3. KindAt(m, a) = "record" =>
        [i \in DOMAIN xs |-> [name |-> m[xs[i]].s, value |-> f[m[xs[i]].head]]]
           = [i \in DOMAIN xs |-> [name |-> m[xs[i]].s, value |-> g[m[xs[i]].head]]]
  <2>1. KindAt(m, a) = "record" => \A i \in DOMAIN xs : f[m[xs[i]].head] = g[m[xs[i]].head]
    BY <1>1 DEF Leads
  <2>2. QED
    BY <2>1, SameFields
<1>4. PICK i1, i2, f1, f2 :
        /\ i1 = IF KindAt(m, a) # "list" THEN << >> ELSE [i \in DOMAIN xs |-> f[xs[i]]]
        /\ i2 = IF KindAt(m, a) # "list" THEN << >> ELSE [i \in DOMAIN xs |-> g[xs[i]]]
        /\ f1 = IF KindAt(m, a) # "record" THEN << >>
                ELSE [i \in DOMAIN xs |-> [name |-> m[xs[i]].s, value |-> f[m[xs[i]].head]]]
        /\ f2 = IF KindAt(m, a) # "record" THEN << >>
                ELSE [i \in DOMAIN xs |-> [name |-> m[xs[i]].s, value |-> g[m[xs[i]].head]]]
  OBVIOUS
<1>5. i1 = i2 /\ f1 = f2
  BY <1>2, <1>3, <1>4
<1>6. PICK k, n, s : /\ k = KindAt(m, a) /\ n = IF a = NULL THEN 0 ELSE m[a].n
                     /\ s = IF a = NULL THEN "" ELSE m[a].s
  OBVIOUS
<1>7. Value(m, f, a) = [kind |-> k, n |-> n, s |-> s, items |-> i1, fields |-> f1]
  BY <1>1, <1>4, <1>6, Zenon DEF Value
<1>8. Value(m, g, a) = [kind |-> k, n |-> n, s |-> s, items |-> i2, fields |-> f2]
  BY <1>1, <1>4, <1>6, Zenon DEF Value
<1>9. QED
  BY <1>5, <1>7, <1>8

(* What a cell leads to ranks lower than the cell.                         *)
Below(m, rank, a) == {x \in 0 .. Len(m) : x = 0 \/ rank[x] < rank[a]}

LEMMA LeadsBelow ==
  ASSUME NEW m, IsMemory(m), NEW rank \in [1 .. Len(m) -> Nat], Ranks(m, rank),
         NEW a \in 1 .. Len(m)
  PROVE  Leads(m, a, Below(m, rank, a))
<1> DEFINE D == {x \in 1 .. Len(m) : rank[x] < rank[a]}
<1>1. D \cup {NULL} = Below(m, rank, a)
  <2>1. Len(m) \in Nat
    BY SequenceFact DEF IsMemory
  <2>2. QED
    BY <2>1 DEF Below, NULL
<1>2. D \subseteq 1 .. Len(m)
  OBVIOUS
<1>3. ASSUME NEW x \in 1 .. Len(m)
      PROVE  /\ m[x].head \in 0 .. Len(m) /\ m[x].next \in 0 .. Len(m)
             /\ m[x].head # NULL => m[x].head \in 1 .. Len(m) /\ rank[m[x].head] < rank[x]
             /\ m[x].next # NULL => m[x].next \in 1 .. Len(m) /\ rank[m[x].next] <= rank[x]
  <2>1. /\ m[x].head \in 0 .. Len(m) /\ m[x].next \in 0 .. Len(m)
    BY CellFact
  <2>2. /\ m[x].head # NULL => m[x].head \in 1 .. Len(m)
        /\ m[x].next # NULL => m[x].next \in 1 .. Len(m)
    BY <2>1 DEF NULL
  <2>3. /\ m[x].head # NULL => rank[m[x].head] < rank[x]
        /\ m[x].next # NULL => rank[m[x].next] <= rank[x]
    BY DEF Ranks, Addr
  <2>4. QED
    BY <2>1, <2>2, <2>3
<1>4. \A x \in D : m[x].next \in D \cup {NULL}
  <2>1. SUFFICES ASSUME NEW x \in D, m[x].next # NULL PROVE m[x].next \in D
    OBVIOUS
  <2>2. m[x].next \in 1 .. Len(m) /\ rank[m[x].next] <= rank[x]
    BY <1>3, <2>1
  <2>3. PICK y \in 1 .. Len(m) : y = m[x].next
    BY <2>2
  <2>4. rank[y] \in Nat /\ rank[x] \in Nat /\ rank[a] \in Nat /\ rank[y] <= rank[x]
    BY <2>2, <2>3
  <2>5. rank[y] < rank[a]
    BY <2>4
  <2>6. QED
    BY <2>3, <2>5
<1>5. m[a].head \in D \cup {NULL}
  BY <1>3
<1> HIDE DEF D
<1>6. Members(m, a) \in Seq(D)
  BY <1>2, <1>4, <1>5, ChainStays DEF Members
<1>7. ASSUME NEW i \in DOMAIN Members(m, a)
      PROVE  Members(m, a)[i] \in D
  BY <1>6
<1>8. \A x \in D : m[x].head \in D \cup {NULL}
  <2>1. SUFFICES ASSUME NEW x \in D, m[x].head # NULL PROVE m[x].head \in D
    OBVIOUS
  <2>2. x \in 1 .. Len(m)
    BY <1>2
  <2>3. m[x].head \in 1 .. Len(m) /\ rank[m[x].head] < rank[x]
    BY <1>3, <2>1, <2>2
  <2>4. PICK y \in 1 .. Len(m) : y = m[x].head
    BY <2>3
  <2>5. rank[y] \in Nat /\ rank[x] \in Nat /\ rank[a] \in Nat /\ rank[y] < rank[x]
    BY <2>2, <2>3, <2>4
  <2>6. rank[x] < rank[a]
    BY DEF D
  <2>7. rank[y] < rank[a]
    BY <2>5, <2>6
  <2>8. QED
    BY <2>4, <2>7 DEF D
<1>9. QED
  BY <1>1, <1>7, <1>8 DEF Leads

LEMMA LeadsMore ==
  ASSUME NEW m, NEW a, NEW D, NEW E, D \subseteq E, Leads(m, a, D)
  PROVE  Leads(m, a, E)
  BY DEF Leads

(* NULL leads to nothing.                                                  *)
LEMMA LeadsNull == ASSUME NEW m, NEW D PROVE Leads(m, 0, D)
  BY DEF Leads, KindAt, NULL

(* So the recursion of Reify is well founded.                              *)
LEMMA ValuesExist ==
  ASSUME NEW m, IsMemory(m), Ranked(m)
  PROVE  \E f : Values(m, f, 0 .. Len(m))
<1> DEFINE N == Len(m)
<1>1. N \in Nat
  BY SequenceFact DEF IsMemory
<1>2. PICK bound \in Nat : \E rank \in [1 .. Len(m) -> 0 .. bound] : Ranks(m, rank)
  BY DEF Ranked
<1>3. PICK rank \in [1 .. Len(m) -> 0 .. bound] : Ranks(m, rank)
  BY <1>2
<1>4. rank \in [1 .. Len(m) -> Nat]
  BY <1>2, <1>3
<1> DEFINE D(k) == {x \in 0 .. N : x = 0 \/ rank[x] < k}
           Bad == {k \in 0 .. bound + 1 : ~ \E f : Values(m, f, D(k))}
<1>5. D(bound + 1) = 0 .. N
  <2>1. \A x \in 0 .. N : x # 0 => rank[x] \in 0 .. bound
    BY <1>1, <1>3
  <2>2. QED
    BY <1>2, <2>1
<1>6. \A k \in 0 .. bound + 1 : \A a \in D(k + 1) : Leads(m, a, D(k))
  <2> SUFFICES ASSUME NEW k \in 0 .. bound + 1, NEW a \in D(k + 1)
               PROVE  Leads(m, a, D(k))
    OBVIOUS
  <2>1. CASE a = 0
    BY <2>1, LeadsNull
  <2>2. CASE a # 0
    <3>1. a \in 1 .. Len(m) /\ rank[a] \in Nat /\ rank[a] <= k
      BY <1>1, <1>4, <2>2
    <3>2. Leads(m, a, Below(m, rank, a))
      BY <1>3, <1>4, <3>1, LeadsBelow
    <3>3. Below(m, rank, a) \subseteq D(k)
      <4>1. \A x \in 0 .. N : x # 0 => rank[x] \in Nat
        BY <1>1, <1>4
      <4>2. QED
        BY <3>1, <4>1 DEF Below
    <3>4. QED
      BY <3>2, <3>3, LeadsMore
  <2>3. QED
    BY <2>1, <2>2
<1>7. \A k \in 0 .. bound + 1 : D(k) \subseteq D(k + 1)
  <2>1. \A x \in 0 .. N : x # 0 => rank[x] \in Nat
    BY <1>1, <1>4
  <2>2. QED
    BY <2>1
<1> HIDE DEF D
<1>8. ASSUME NEW k \in 0 .. bound + 1, NEW f, Values(m, f, D(k))
      PROVE  \E g : Values(m, g, D(k + 1))
  <2> DEFINE g == [a \in D(k + 1) |-> Value(m, f, a)]
  <2>1. \A a \in D(k) : f[a] = Value(m, f, a)
    BY <1>8 DEF Values
  <2>2. \A a \in D(k) : f[a] = g[a]
    BY <1>7, <2>1
  <2>3. \A a \in D(k + 1) : Value(m, f, a) = Value(m, g, a)
    <3> HIDE DEF g
    <3>1. QED
      BY <1>6, <2>2, SameValue
  <2>4. g = [a \in D(k + 1) |-> Value(m, g, a)]
    BY <2>3, Zenon
  <2>5. QED
    BY <2>4 DEF Values
<1>9. \E f : Values(m, f, D(0))
  <2>1. D(0) = {0}
    <3>1. \A x \in 0 .. N : x # 0 => rank[x] \in Nat
      BY <1>1, <1>4
    <3>2. QED
      BY <1>1, <3>1 DEF D
  <2>2. ASSUME NEW f, NEW g PROVE Value(m, f, 0) = Value(m, g, 0)
    <3>1. Leads(m, 0, {})
      BY LeadsNull
    <3>2. QED
      BY <3>1, SameValue
  <2> DEFINE f == [a \in {0} |-> Value(m, [x \in {} |-> 0], a)]
  <2>3. f[0] = Value(m, f, 0)
    BY <2>2
  <2>4. f = [a \in {0} |-> Value(m, f, a)]
    BY <2>3
  <2>5. QED
    BY <2>1, <2>4 DEF Values
<1>10. Bad = {}
  <2> SUFFICES ASSUME Bad # {} PROVE FALSE
    OBVIOUS
  <2>1. PICK k \in Bad : \A j \in Bad : k <= j
    <3>1. Bad \subseteq Nat
      OBVIOUS
    <3>2. QED
      BY <3>1, LeastNat
  <2>2. k \in 0 .. bound + 1 /\ k # 0
    BY <1>9
  <2>3. k - 1 \in 0 .. bound + 1 /\ (k - 1) + 1 = k /\ ~(k <= k - 1)
    BY <1>2, <2>2
  <2>4. \E f : Values(m, f, D(k - 1))
    BY <2>1, <2>3
  <2>5. \E g : Values(m, g, D(k))
    <3>1. PICK j \in 0 .. bound + 1 : j = k - 1 /\ j + 1 = k
      BY <2>3
    <3>2. PICK f : Values(m, f, D(j))
      BY <2>4, <3>1
    <3>3. \E g : Values(m, g, D(j + 1))
      BY <1>8, <3>2
    <3>4. QED
      BY <3>1, <3>3
  <2>6. QED
    BY <2>5
<1>11. QED
  <2>1. bound + 1 \in 0 .. bound + 1
    BY <1>2
  <2>2. \E f : Values(m, f, D(bound + 1))
    BY <1>10, <2>1
  <2>3. QED
    BY <1>5, <2>2

LEMMA ReifyUnfold ==
  ASSUME NEW m, IsMemory(m), Ranked(m)
  PROVE  \E f : Values(m, f, 0 .. Len(m)) /\ \A a : Reify(m, a) = f[a]
<1> DEFINE c == CHOOSE f : Values(m, f, 0 .. Len(m))
<1>1. Values(m, c, 0 .. Len(m))
  BY ValuesExist
<1>2. \A a : Reify(m, a) = c[a]
  BY ReifyChosen
<1> HIDE DEF c
<1>3. QED
  BY <1>1, <1>2

------------------------------------------------------------------------------
(* Cells D of m that lead to none but each other, and stay as they are.    *)
SameCells(m, k, D) ==
  /\ D \subseteq 1 .. Len(m) /\ Len(m) <= Len(k)
  /\ \A x \in D : /\ m[x].head \in D \cup {NULL} /\ m[x].next \in D \cup {NULL}
                  /\ k[x] = m[x]

LEMMA ChainKept ==
  ASSUME NEW m, IsMemory(m), NEW k, IsMemory(k), NEW D, SameCells(m, k, D)
  PROVE  \A a \in D \cup {NULL} : Chain(k, a) = Chain(m, a)
<1> DEFINE N == Len(m)
           Bad == {j \in 0 .. N - 1 : N - j \in D /\ Chain(k, N - j) # Chain(m, N - j)}
<1>1. N \in Nat /\ Len(k) \in Nat /\ N <= Len(k) /\ D \subseteq 1 .. N
  BY SequenceFact DEF IsMemory, SameCells
<1>2. Chain(k, NULL) = << >> /\ Chain(m, NULL) = << >>
  <2>1. NULL \in 0 .. Len(m) /\ NULL \in 0 .. Len(k)
    BY <1>1 DEF NULL
  <2>2. QED
    BY <2>1, ChainUnfold
<1>3. \A b \in D : /\ Chain(m, b) = <<b>> \o Chain(m, m[b].next)
                   /\ Chain(k, b) = <<b>> \o Chain(k, m[b].next)
  <2> SUFFICES ASSUME NEW b \in D
               PROVE  /\ Chain(m, b) = <<b>> \o Chain(m, m[b].next)
                      /\ Chain(k, b) = <<b>> \o Chain(k, m[b].next)
    OBVIOUS
  <2>1. b \in 0 .. Len(m) /\ b \in 0 .. Len(k) /\ b # NULL
    BY <1>1 DEF NULL
  <2>2. k[b].next = m[b].next
    BY DEF SameCells
  <2>3. /\ Chain(m, b) = <<b>> \o Chain(m, m[b].next)
        /\ Chain(k, b) = <<b>> \o Chain(k, k[b].next)
    BY <2>1, ChainUnfold
  <2>4. QED
    BY <2>2, <2>3
<1>4. Bad = {}
  <2> SUFFICES ASSUME Bad # {} PROVE FALSE
    OBVIOUS
  <2>1. PICK i \in Bad : \A j \in Bad : i <= j
    <3>1. Bad \subseteq Nat
      BY <1>1
    <3>2. QED
      BY <3>1, LeastNat
  <2>2. PICK b \in D : b = N - i /\ Chain(k, b) # Chain(m, b)
    OBVIOUS
  <2>3. b \in 1 .. N /\ i \in 0 .. N - 1 /\ i = N - b
    BY <1>1, <2>2
  <2>4. Chain(k, m[b].next) # Chain(m, m[b].next)
    BY <1>3, <2>2
  <2>5. m[b].next # NULL
    BY <1>2, <2>4
  <2>6. m[b].next \in D
    BY <2>5 DEF SameCells
  <2>7. m[b].next \in 1 .. Len(m) /\ b < m[b].next
    BY <2>3, <2>5, CellFact
  <2>8. PICK j \in 0 .. N - 1 : m[b].next = N - j /\ j < i
    <3>1. N - m[b].next \in 0 .. N - 1 /\ m[b].next = N - (N - m[b].next) /\ N - m[b].next < i
      BY <1>1, <2>3, <2>7
    <3>2. QED
      BY <3>1
  <2>9. j \in Bad
    BY <2>4, <2>6, <2>8
  <2>10. QED
    BY <2>1, <2>3, <2>8, <2>9
<1>5. ASSUME NEW a \in D PROVE Chain(k, a) = Chain(m, a)
  <2>1. N - a \in 0 .. N - 1 /\ N - (N - a) = a
    BY <1>1
  <2>2. QED
    BY <1>4, <2>1
<1>6. QED
  BY <1>2, <1>5

(* One turn of the recursion gives the same in both memories.              *)
LEMMA SameTurn ==
  ASSUME NEW m, IsMemory(m), NEW k, IsMemory(k), NEW D, SameCells(m, k, D), NEW a \in D, NEW f
  PROVE  Value(m, f, a) = Value(k, f, a)
<1>1. Members(k, a) = Members(m, a)
  <2>1. m[a].head \in D \cup {NULL} /\ k[a] = m[a]
    BY DEF SameCells
  <2>2. QED
    BY <2>1, ChainKept DEF Members
<1>2. k[a] = m[a] /\ KindAt(k, a) = KindAt(m, a)
  BY DEF SameCells, KindAt
<1>3. ASSUME KindAt(m, a) = "record", NEW i \in DOMAIN Members(m, a)
      PROVE  k[Members(m, a)[i]] = m[Members(m, a)[i]]
  <2>1. m[a].head \in D \cup {NULL} /\ D \subseteq 1 .. Len(m)
        /\ \A x \in D : m[x].next \in D \cup {NULL}
    BY DEF SameCells
  <2>2. Members(m, a) \in Seq(D)
    BY <2>1, ChainStays DEF Members
  <2>3. Members(m, a)[i] \in D
    BY <2>2
  <2>4. QED
    BY <2>3 DEF SameCells
<1>4. PICK xs : xs = Members(m, a)
  OBVIOUS
<1>5. KindAt(m, a) = "record" =>
        [i \in DOMAIN xs |-> [name |-> m[xs[i]].s, value |-> f[m[xs[i]].head]]]
          = [i \in DOMAIN xs |-> [name |-> k[xs[i]].s, value |-> f[k[xs[i]].head]]]
  BY <1>3, <1>4
<1>6. PICK f1, f2 :
        /\ f1 = IF KindAt(m, a) # "record" THEN << >>
                ELSE [i \in DOMAIN xs |-> [name |-> m[xs[i]].s, value |-> f[m[xs[i]].head]]]
        /\ f2 = IF KindAt(m, a) # "record" THEN << >>
                ELSE [i \in DOMAIN xs |-> [name |-> k[xs[i]].s, value |-> f[k[xs[i]].head]]]
  OBVIOUS
<1>7. f1 = f2
  BY <1>5, <1>6
<1>8. PICK i1 : i1 = IF KindAt(m, a) # "list" THEN << >> ELSE [i \in DOMAIN xs |-> f[xs[i]]]
  OBVIOUS
<1>9. PICK kind, n, s : /\ kind = KindAt(m, a) /\ n = IF a = NULL THEN 0 ELSE m[a].n
                        /\ s = IF a = NULL THEN "" ELSE m[a].s
  OBVIOUS
<1>10. Value(m, f, a) = [kind |-> kind, n |-> n, s |-> s, items |-> i1, fields |-> f1]
  BY <1>4, <1>6, <1>8, <1>9, Zenon DEF Value
<1>11. Value(k, f, a) = [kind |-> kind, n |-> n, s |-> s, items |-> i1, fields |-> f2]
  BY <1>1, <1>2, <1>4, <1>6, <1>8, <1>9, Zenon DEF Value
<1>12. QED
  BY <1>7, <1>10, <1>11

(* What such cells mean stays as it was.                                   *)
LEMMA ReifyKept ==
  ASSUME NEW m, IsMemory(m), Ranked(m), NEW k, IsMemory(k), Ranked(k), NEW D, SameCells(m, k, D),
         NEW a \in D \cup {NULL}
  PROVE  Reify(k, a) = Reify(m, a)
<1> DEFINE N == Len(m)
<1>1. /\ N \in Nat /\ Len(k) \in Nat /\ 0 .. N \subseteq 0 .. Len(k)
      /\ D \subseteq 0 .. N /\ D \subseteq 1 .. N /\ 0 \in 0 .. N
  BY SequenceFact DEF IsMemory, SameCells
<1>2. PICK f : Values(m, f, 0 .. Len(m)) /\ \A x : Reify(m, x) = f[x]
  BY ReifyUnfold
<1>3. PICK g : Values(k, g, 0 .. Len(k)) /\ \A x : Reify(k, x) = g[x]
  BY ReifyUnfold
<1>4. /\ \A x \in 0 .. N : f[x] = Value(m, f, x)
      /\ \A x \in 0 .. N : g[x] = Value(k, g, x)
  BY <1>1, <1>2, <1>3 DEF Values
<1>5. f[0] = g[0]
  <2>1. Leads(m, 0, {})
    BY LeadsNull
  <2>2. Value(m, f, 0) = Value(m, g, 0)
    BY <2>1, SameValue
  <2>3. Value(m, g, 0) = Value(k, g, 0)
    BY DEF Value, KindAt, NULL
  <2>4. QED
    BY <1>1, <1>4, <2>2, <2>3
<1>6. PICK bound \in Nat : \E rank \in [1 .. Len(m) -> 0 .. bound] : Ranks(m, rank)
  BY DEF Ranked
<1>7. PICK rank \in [1 .. Len(m) -> 0 .. bound] : Ranks(m, rank)
  BY <1>6
<1>8. rank \in [1 .. Len(m) -> Nat]
  BY <1>6, <1>7
<1> DEFINE Bad == {r \in Nat : \E x \in D : rank[x] = r /\ f[x] # g[x]}
<1>9. Bad = {}
  <2> SUFFICES ASSUME Bad # {} PROVE FALSE
    OBVIOUS
  <2>1. PICK r \in Bad : \A j \in Bad : r <= j
    <3>1. Bad \subseteq Nat
      OBVIOUS
    <3>2. QED
      BY <3>1, LeastNat
  <2>2. PICK x \in D : rank[x] = r /\ f[x] # g[x]
    OBVIOUS
  <2>3. \A y \in D : rank[y] < rank[x] => f[y] = g[y]
    <3>1. \A y \in D : rank[y] \in Nat
      BY <1>1, <1>8
    <3>2. QED
      BY <2>1, <2>2, <3>1
  <2>4. x \in 1 .. Len(m)
    BY <1>1
  <2> DEFINE E == {y \in D \cup {NULL} : y = NULL \/ rank[y] < rank[x]}
  <2>5. Leads(m, x, E)
    <3>1. Leads(m, x, Below(m, rank, x))
      BY <1>7, <1>8, <2>4, LeadsBelow
    <3>2. m[x].head \in D \cup {NULL} /\ \A y \in D : m[y].next \in D \cup {NULL} /\ m[y].head \in D \cup {NULL}
      BY DEF SameCells
    <3>3. Members(m, x) \in Seq(D)
      BY <1>1, <3>2, ChainStays DEF Members
    <3>4. \A i \in DOMAIN Members(m, x) : Members(m, x)[i] \in D
      BY <3>3
    <3>5. \A i \in DOMAIN Members(m, x) : m[Members(m, x)[i]].head \in D \cup {NULL}
      BY <3>2, <3>4
    <3>6. QED
      BY <3>1, <3>4, <3>5 DEF Leads, Below, NULL
  <2>6. \A y \in E : f[y] = g[y]
    BY <1>5, <2>3 DEF NULL
  <2> HIDE DEF E
  <2>7. Value(m, f, x) = Value(m, g, x)
    BY <2>5, <2>6, SameValue
  <2>8. Value(m, g, x) = Value(k, g, x)
    BY SameTurn
  <2>9. QED
    BY <1>1, <1>4, <2>2, <2>7, <2>8
<1>10. \A x \in D : f[x] = g[x]
  <2>1. \A x \in D : rank[x] \in Nat
    BY <1>1, <1>8
  <2>2. QED
    BY <1>9, <2>1
<1>11. QED
  BY <1>2, <1>3, <1>5, <1>10 DEF NULL

------------------------------------------------------------------------------
(* Cells of B, which no other leads to, may be led to cells outside and to *)
(* new ones, which lead outside: the cells of B then rank above all.       *)
Sealed(m, B) ==
  \A a \in 1 .. Len(m) : a \notin B => m[a].head \notin B /\ m[a].next \notin B

Relinks(m, k, B) ==
  /\ Len(m) <= Len(k)
  /\ \A a \in 1 .. Len(m) :
       IF a \notin B THEN k[a].head = m[a].head /\ k[a].next = m[a].next
       ELSE /\ \/ k[a].head = m[a].head
               \/ k[a].head \in 0 .. Len(k) /\ k[a].head \notin B
            /\ \/ k[a].next = m[a].next
               \/ k[a].next \in Len(m) + 1 .. Len(k)
  /\ \A a \in Len(m) + 1 .. Len(k) :
       /\ k[a].head \in 0 .. Len(m) /\ k[a].head \notin B
       /\ k[a].next = NULL \/ k[a].next \in Len(m) + 1 .. Len(k)

LEMMA RelinkedRanked ==
  ASSUME NEW m, IsMemory(m), Ranked(m), NEW k, IsMemory(k), NEW B, B \subseteq 1 .. Len(m),
         Sealed(m, B), Relinks(m, k, B)
  PROVE  Ranked(k)
<1> DEFINE N == Len(m)  K == Len(k)
<1>1. N \in Nat /\ K \in Nat /\ N <= K /\ 1 .. N \subseteq 1 .. K
  BY SequenceFact DEF IsMemory, Relinks
<1>2. PICK bound \in Nat : \E rank \in [1 .. Len(m) -> 0 .. bound] : Ranks(m, rank)
  BY DEF Ranked
<1>3. PICK rank \in [1 .. Len(m) -> 0 .. bound] : Ranks(m, rank)
  BY <1>2
<1> DEFINE up == [a \in 1 .. K |-> IF a \in B THEN rank[a] + bound + 2
                                   ELSE IF a \in 1 .. N THEN rank[a] ELSE bound + 1]
<1>4. \A a \in 1 .. N : rank[a] \in Nat /\ rank[a] <= bound
  BY <1>2, <1>3
<1>5. /\ \A a \in B : up[a] = rank[a] + bound + 2 /\ a \in 1 .. N
      /\ \A a \in 1 .. N : a \notin B => up[a] = rank[a]
      /\ \A a \in N + 1 .. K : up[a] = bound + 1
  <2>1. \A a \in N + 1 .. K : a \notin B /\ a \notin 1 .. N /\ a \in 1 .. K
    BY <1>1
  <2>2. \A a \in 1 .. N : a \in 1 .. K
    BY <1>1
  <2>3. \A a \in B : a \in 1 .. N
    OBVIOUS
  <2> HIDE DEF N, K
  <2>4. QED
    BY <2>1, <2>2, <2>3
<1>6. up \in [1 .. K -> 0 .. 2 * bound + 2] /\ 2 * bound + 2 \in Nat
  <2>1. ASSUME NEW a \in 1 .. K PROVE up[a] \in 0 .. 2 * bound + 2
    <3>1. a \in 1 .. N \/ a \in N + 1 .. K
      BY <1>1
    <3> HIDE DEF N, K, up
    <3>2. QED
      BY <1>2, <1>4, <1>5, <3>1
  <2>2. QED
    BY <1>2, <2>1
<1> HIDE DEF up
<1>7. \A a \in 1 .. N :
        /\ m[a].head # NULL => m[a].head \in 1 .. N /\ rank[m[a].head] < rank[a]
        /\ m[a].next # NULL => m[a].next \in 1 .. N /\ rank[m[a].next] <= rank[a]
  <2>1. \A a \in 1 .. N : m[a].head \in 0 .. N /\ m[a].next \in 0 .. N
    BY CellFact
  <2>2. \A x \in 0 .. N : x # NULL => x \in 1 .. N
    BY <1>1 DEF NULL
  <2>3. QED
    BY <1>3, <2>1, <2>2 DEF Ranks, Addr
<1>8. ASSUME NEW a \in 1 .. N, a \notin B
      PROVE  /\ k[a].head # NULL => up[k[a].head] < up[a]
             /\ k[a].next # NULL => up[k[a].next] <= up[a]
  <2>1. k[a].head = m[a].head /\ k[a].next = m[a].next
    BY <1>8 DEF Relinks
  <2>2. m[a].head \notin B /\ m[a].next \notin B
    BY <1>8 DEF Sealed
  <2>3. QED
    BY <1>5, <1>7, <1>8, <2>1, <2>2
<1>9. ASSUME NEW a \in B
      PROVE  /\ k[a].head # NULL => up[k[a].head] < up[a]
             /\ k[a].next # NULL => up[k[a].next] <= up[a]
  <2>1. up[a] = rank[a] + bound + 2 /\ a \in 1 .. N /\ rank[a] \in Nat
    BY <1>4, <1>5
  <2>2. ASSUME k[a].head # NULL PROVE up[k[a].head] < up[a]
    <3>1. CASE k[a].head = m[a].head
      <4>1. PICK h \in 1 .. N : h = k[a].head /\ rank[h] < rank[a]
        BY <1>7, <2>1, <2>2, <3>1
      <4>2. rank[h] \in Nat /\ rank[h] <= bound
        BY <1>4
      <4>3. up[h] = rank[h] + bound + 2 \/ up[h] = rank[h]
        BY <1>5
      <4>4. rank[h] + bound + 2 < up[a] /\ rank[h] < up[a]
        BY <1>2, <2>1, <4>1, <4>2
      <4>5. QED
        BY <4>1, <4>3, <4>4
    <3>2. CASE k[a].head \in 0 .. Len(k) /\ k[a].head \notin B
      <4>1. PICK h \in 1 .. K : h = k[a].head /\ h \notin B
        BY <1>1, <2>2, <3>2 DEF NULL
      <4>2. h \in 1 .. N \/ h \in N + 1 .. K
        BY <1>1
      <4>3. up[h] \in Nat /\ up[h] <= bound + 1
        <5>1. CASE h \in 1 .. N
          <6>1. up[h] = rank[h] /\ rank[h] \in Nat /\ rank[h] <= bound
            BY <1>4, <1>5, <4>1, <5>1
          <6>2. QED
            BY <1>2, <6>1
        <5>2. CASE h \in N + 1 .. K
          <6>1. up[h] = bound + 1
            BY <1>5, <5>2
          <6>2. QED
            BY <1>2, <6>1
        <5>3. QED
          BY <4>2, <5>1, <5>2
      <4>4. QED
        BY <1>2, <2>1, <4>1, <4>3
    <3>3. QED
      BY <2>1, <3>1, <3>2 DEF Relinks
  <2>3. ASSUME k[a].next # NULL PROVE up[k[a].next] <= up[a]
    <3>1. CASE k[a].next = m[a].next
      <4>1. PICK h \in 1 .. N : h = k[a].next /\ rank[h] <= rank[a]
        BY <1>7, <2>1, <2>3, <3>1
      <4>2. rank[h] \in Nat /\ rank[h] <= bound
        BY <1>4
      <4>3. up[h] = rank[h] + bound + 2 \/ up[h] = rank[h]
        BY <1>5
      <4>4. QED
        BY <1>2, <2>1, <4>1, <4>2, <4>3
    <3>2. CASE k[a].next \in N + 1 .. K
      <4>1. up[k[a].next] = bound + 1
        BY <1>5, <3>2
      <4>2. QED
        BY <1>2, <2>1, <4>1
    <3>3. QED
      BY <2>1, <3>1, <3>2 DEF Relinks
  <2>4. QED
    BY <2>2, <2>3
<1>10. ASSUME NEW a \in N + 1 .. K
       PROVE  /\ k[a].head # NULL => up[k[a].head] < up[a]
              /\ k[a].next # NULL => up[k[a].next] <= up[a]
  <2>1. /\ k[a].head \in 0 .. N /\ k[a].head \notin B
        /\ k[a].next = NULL \/ k[a].next \in N + 1 .. K
    BY DEF Relinks
  <2>2. up[a] = bound + 1
    BY <1>5
  <2>3. k[a].next # NULL => up[k[a].next] = bound + 1
    BY <1>5, <2>1
  <2>4. ASSUME k[a].head # NULL PROVE up[k[a].head] < up[a]
    <3>1. PICK h \in 1 .. N : h = k[a].head /\ h \notin B
      BY <1>1, <2>1, <2>4 DEF NULL
    <3>2. QED
      BY <1>2, <1>4, <1>5, <2>2, <3>1
  <2>5. QED
    BY <1>2, <2>2, <2>3, <2>4
<1>11. \A a \in 1 .. K : a \in B \/ (a \in 1 .. N /\ a \notin B) \/ a \in N + 1 .. K
  BY <1>1
<1>12. Ranks(k, up)
  BY <1>8, <1>9, <1>10, <1>11 DEF Ranks, Addr
<1>13. QED
  BY <1>6, <1>12 DEF Ranked
===============================================================================
