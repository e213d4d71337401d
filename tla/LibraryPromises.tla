---------------------------- MODULE LibraryPromises ----------------------------
(***************************************************************************)
(* What a caller may expect of the library functions, stated on values by  *)
(* structure, without memory, pointers or sharing.  arg maps the names of  *)
(* parameters to values, of kind "null" where the argument has none.       *)
(***************************************************************************)
EXTENDS HelunaVm, FiniteSets

Halves(v) == IF v.kind = "integer" THEN 2 * v.n ELSE v.n
Value(r, name) == r.fields[CHOOSE i \in DOMAIN r.fields : r.fields[i].name = name].value
Names(r) == {r.fields[i].name : i \in DOMAIN r.fields}
HasNames(r) == Cardinality(Names(r)) = Len(r.fields)
Items(v) == {v.items[i] : i \in DOMAIN v.items}
Times(x, s) == Cardinality({i \in DOMAIN s : s[i] = x})
Strings(v) == {x.s : x \in {y \in Items(v) : y.kind = "string"}}

(* The same value, whatever the order of a record's fields.                *)
Alike(x, y) ==
  \/ x = y
  \/ /\ x.kind = "record" /\ y.kind = "record"
     /\ Len(x.fields) = Len(y.fields)
     /\ {x.fields[i] : i \in DOMAIN x.fields} = {y.fields[i] : i \in DOMAIN y.fields}

Numbers == {"integer", "float"}

(* Texts are in ascending order, and numbers of either kind.               *)
Above(x, y) ==
  IF {x.kind, y.kind} \subseteq Numbers THEN Halves(x) > Halves(y)
  ELSE {x.kind, y.kind} = {"string"} /\ Rank(x.s) > Rank(y.s)

(* The number a text is the numeral of, in halves, if there is one.        *)
Spelled(s) ==
  {h \in -MaxNumeral .. MaxNumeral :
     s = HalvesToString(h) \/ (h % 2 = 0 /\ s = ToString(h \div 2))}

Permuted(s, t) ==
  Len(s) = Len(t) /\ \A i \in DOMAIN s : Times(s[i], s) = Times(s[i], t)

RECURSIVE Total(_, _, _)
Total(f, start, items) ==
  IF items = << >> THEN start
  ELSE LET x == Halves(items[1]) IN
       Total(f, IF f = "add" THEN start + x ELSE CDiv(start * x, 2), Tail(items))

------------------------------------------------------------------------------
(* The input each function is documented to take, in stdlib.md.            *)
Is(arg, name, kinds) == arg[name].kind \in kinds
Missing(arg, name) == arg[name].kind = "null"

Accepts(f, arg) ==
  CASE f \in {"abs", "ceil", "floor", "round"} -> Is(arg, "value", Numbers)
    [] f \in {"min", "max"} -> Is(arg, "a", Numbers) /\ Is(arg, "b", Numbers)
    [] f = "clamp" -> \A name \in {"value", "min", "max"} : Is(arg, name, Numbers)
    [] f \in {"sort", "reverse", "unique", "flatten"} -> Is(arg, "list", {"list"})
    [] f = "length" -> \/ Is(arg, "list", {"list"})
                       \/ /\ Missing(arg, "list")
                          /\ Is(arg, "value", {"string"})
    [] f = "sort-by" -> Is(arg, "list", {"list"}) /\ Is(arg, "field", {"string"})
    [] f = "zip" -> Is(arg, "a", {"list"}) /\ Is(arg, "b", {"list"})
    [] f = "range" -> Is(arg, "start", {"integer"}) /\ Is(arg, "end", {"integer"})
    [] f = "slice" -> /\ Is(arg, "list", {"list"})
                      /\ Is(arg, "start", {"integer"}) /\ Is(arg, "end", {"integer"})
    [] f \in {"keys", "values"} -> Is(arg, "record", {"record"})
    [] f = "merge" -> /\ Is(arg, "a", {"record"}) /\ HasNames(arg["a"])
                      /\ Is(arg, "b", {"record"}) /\ HasNames(arg["b"])
    [] f \in {"pick", "omit"} -> /\ Is(arg, "record", {"record"}) /\ HasNames(arg["record"])
                                 /\ Is(arg, "fields", {"list"})
    [] f = "to-string" -> ~Missing(arg, "value")
    [] f \in {"to-float", "to-integer"} -> Is(arg, "value", Numbers \cup {"string"})
    [] f = "fold" -> /\ Is(arg, "list", {"list"}) /\ ~Missing(arg, "initial")
                     /\ arg["fn"].kind = "string" /\ arg["fn"].s \in {"add", "multiply"}

(* Inputs on which the code does otherwise than the documents say.  round  *)
(* is documented as "half up" and takes negative halves away from zero.    *)
(* to-string is documented for any value and fails on lists and records.   *)
(* fold is documented for any initial value and takes what is no number    *)
(* for one.  Lists are documented to be sorted in ascending order, and     *)
(* integers go before floats whatever they are worth.                      *)
BothKinds(values) == Numbers \subseteq {x.kind : x \in values}

Departs(f, arg) ==
  CASE f = "round"     -> Halves(arg["value"]) < 0 /\ Halves(arg["value"]) % 2 = 1
    [] f = "to-string" -> Is(arg, "value", {"list", "record"})
    [] f = "fold"      -> \E x \in Items(arg["list"]) \cup {arg["initial"]} : x.kind \notin Numbers
    [] f = "sort"      -> BothKinds(Items(arg["list"]))
    [] f = "sort-by"   -> BothKinds(
         UNION {{x.fields[i].value : i \in {k \in DOMAIN x.fields : x.fields[k].name = arg["field"].s}} :
                x \in {y \in Items(arg["list"]) : y.kind = "record"}})
    [] OTHER           -> FALSE

NumberPromise(f, arg, r) ==
  LET v == Halves(arg["value"])  a == Halves(arg["a"])  b == Halves(arg["b"])
      lo == Halves(arg["min"])  hi == Halves(arg["max"]) IN
  CASE f = "abs"   -> r.kind = arg["value"].kind /\ r.n \in {arg["value"].n, -arg["value"].n}
                      /\ r.n >= 0
    [] f = "ceil"  -> r.kind = "integer" /\ 2 * r.n - v \in {0, 1}
    [] f = "floor" -> r.kind = "integer" /\ v - 2 * r.n \in {0, 1}
    [] f = "round" -> r.kind = "integer" /\ 2 * r.n - v \in {0, 1}
    [] f = "min"   -> r \in {arg["a"], arg["b"]} /\ Halves(r) <= a /\ Halves(r) <= b
    [] f = "max"   -> r \in {arg["a"], arg["b"]} /\ Halves(r) >= a /\ Halves(r) >= b
    [] f = "clamp" -> /\ Halves(r) <= hi
                      /\ lo <= hi => lo <= Halves(r)
                      /\ v \in lo..hi => Halves(r) = v

ListPromise(f, arg, r) ==
  LET items == arg["list"].items IN
  /\ r.kind = "list"
  /\ CASE f = "sort" -> /\ Permuted(r.items, items)
                        /\ \A i, j \in DOMAIN r.items : i < j => ~Above(r.items[i], r.items[j])
       [] f = "sort-by" ->
            LET field == arg["field"].s IN
            /\ Permuted(r.items, items)
            /\ (\A x \in Items(arg["list"]) : x.kind = "record" /\ field \in Names(x)) =>
                 \A i, j \in DOMAIN r.items : i < j =>
                   ~Above(Value(r.items[i], field), Value(r.items[j], field))
       [] f = "reverse" -> /\ Len(r.items) = Len(items)
                           /\ \A i \in DOMAIN items : items[i] = r.items[Len(items) + 1 - i]
       [] f = "unique" ->
            LET fresh == SelectSeq([i \in DOMAIN items |-> <<i, items[i]>>],
                           LAMBDA p : \A j \in 1..p[1] - 1 : ~Alike(items[j], p[2]))
            IN  r.items = [i \in DOMAIN fresh |-> fresh[i][2]]
       [] f = "flatten" ->
            LET Size(x) == IF x.kind = "list" THEN Len(x.items) ELSE 1
                offset[i \in 0..Len(items)] ==
                  IF i = 0 THEN 0 ELSE offset[i - 1] + Size(items[i])
            IN  /\ Len(r.items) = offset[Len(items)]
                /\ \A i \in DOMAIN items :
                     SubSeq(r.items, offset[i - 1] + 1, offset[i]) =
                       IF items[i].kind = "list" THEN items[i].items ELSE <<items[i]>>

PairPromise(f, arg, r) ==
  LET as == arg["a"].items  bs == arg["b"].items
      s == arg["start"].n  e == arg["end"].n  items == arg["list"].items IN
  /\ r.kind = "list"
  /\ CASE f = "zip" ->
            /\ Len(r.items) = IF Len(as) < Len(bs) THEN Len(as) ELSE Len(bs)
            /\ \A i \in DOMAIN r.items :
                 r.items[i].fields = <<[name |-> "a", value |-> as[i]],
                                       [name |-> "b", value |-> bs[i]]>>
       [] f = "range" ->
            /\ r.items[1].n = s /\ r.items[Len(r.items)].n = e
            /\ \A i \in 1..Len(r.items) - 1 :
                 r.items[i + 1].n - r.items[i].n = IF s <= e THEN 1 ELSE -1
       [] f = "slice" ->
            LET in == {i \in DOMAIN items : s < i /\ i <= e} IN
            /\ Len(r.items) = Cardinality(in)
            /\ \A i \in DOMAIN r.items :
                 r.items[i] = items[i + (IF s < 0 THEN 0 ELSE s)]

RecordPromise(f, arg, r) ==
  LET rec == arg["record"]  a == arg["a"]  b == arg["b"]
      Taken(from, names) == /\ r.kind = "record" /\ Names(r) = Names(from) \cap names
                            /\ \A n \in Names(r) : Value(r, n) = Value(from, n)
  IN
  CASE f = "keys"   -> [i \in DOMAIN r.items |-> r.items[i].s] =
                         [i \in DOMAIN rec.fields |-> rec.fields[i].name]
    [] f = "values" -> /\ Len(r.items) = Len(rec.fields)
                       /\ \A i \in DOMAIN r.items :
                            \/ r.items[i] = rec.fields[i].value
                            \/ rec.fields[i].value.kind = "null" /\ r.items[i].kind = "nothing"
    [] f = "merge"  -> /\ HasNames(r) /\ Names(r) = Names(a) \cup Names(b)
                       /\ \A n \in Names(r) :
                            Value(r, n) = Value(IF n \in Names(b) THEN b ELSE a, n)
    [] f = "pick"   -> Taken(rec, Strings(arg["fields"]))
    [] f = "omit"   -> HasNames(r) /\ Taken(rec, Names(rec) \ Strings(arg["fields"]))

ConversionPromise(f, arg, r) ==
  LET v == arg["value"]
      worth == IF v.kind = "string" THEN Spelled(v.s) ELSE {Halves(v)}
      members == Items(arg["list"]) \cup {arg["initial"]} IN
  CASE f = "length"     -> /\ r.kind = "integer"
                           /\ r.n = IF Is(arg, "list", {"list"}) THEN Len(arg["list"].items)
                                    ELSE Len(v.s)
    [] f = "to-string"  -> /\ r.kind = "string"
                           /\ v.kind = "string"  => r = v
                           /\ v.kind = "integer" => ParseInteger(r.s) = v.n
                           /\ v.kind = "float"   => ParseHalves(r.s) = v.n
                           /\ v.kind = "boolean" => r.s = IF v.n = 1 THEN "true" ELSE "false"
                           /\ v.kind = "nothing" => r.s = "nothing"
    [] f = "to-float"   -> r.kind = "float" /\ \A h \in worth : r.n = h
    [] f = "to-integer" -> /\ r.kind = "integer"
                           /\ \A h \in worth : Abs(2 * r.n - h) <= 1 /\ Abs(2 * r.n) <= Abs(h)
    [] f = "fold"       -> /\ Halves(r) = Total(arg["fn"].s, Halves(arg["initial"]),
                                                arg["list"].items)
                           /\ r.kind = "integer" <=> \A x \in members : x.kind = "integer"

Promise(f, arg, r) ==
  CASE f \in {"abs", "ceil", "floor", "round", "min", "max", "clamp"} -> NumberPromise(f, arg, r)
    [] f \in {"sort", "sort-by", "reverse", "unique", "flatten"} -> ListPromise(f, arg, r)
    [] f \in {"zip", "range", "slice"} -> PairPromise(f, arg, r)
    [] f \in {"keys", "values", "merge", "pick", "omit"} -> RecordPromise(f, arg, r)
    [] OTHER -> ConversionPromise(f, arg, r)

------------------------------------------------------------------------------
(* A function called with an input it is documented to take succeeds with  *)
(* the value stdlib.md describes, however that input was made: the cells   *)
(* it shares and the chains it links never show.  The exceptions are the   *)
(* inputs of Departs, where the code does otherwise than the documents say.*)
LibraryAnswers ==
  [][Fetched("STDLIB_CALL") \/ Fetched("STDLIB_CALL_1") =>
       \A f \in {g \in DOMAIN Library!FunctionIds : ins.o1 = Library!FunctionIds[g]} :
         \A arg \in {[name \in Library!ArgNames |-> Reify(mem, Argument(name))]} :
           Accepts(f, arg) /\ ~Departs(f, arg) =>
             /\ status' = "running"
             /\ \A r \in {Reify(mem', val'[d])} : Promise(f, arg, r)]_vars

==============================================================================
