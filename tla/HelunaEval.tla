------------------------------- MODULE HelunaEval ------------------------------
(***************************************************************************)
(* The meaning of a program: the tree-walking evaluator of                 *)
(* src/src/evaluator.c, on values with their sharing forgotten (the form   *)
(* HelunaHeap!Reify gives them).  A NULL return, which is how the          *)
(* evaluator reports an error, is Failed.                                  *)
(***************************************************************************)
EXTENDS HelunaHeap, HelunaAst, SequencesExt

Composite(kind, items, fields) ==
  [kind |-> kind, n |-> 0, s |-> "", items |-> items, fields |-> fields]
Scalar(c) ==
  [kind |-> c.kind, n |-> c.n, s |-> c.s, items |-> << >>, fields |-> << >>]

Failed        == Composite("failed", << >>, << >>)
NothingV      == Scalar(NothingCell)
IntegerV(n)   == Scalar(IntegerCell(n))
StringV(s)    == Scalar(StringCell(s))
BooleanV(b)   == Scalar(BooleanCell(b))
ListV(items)  == Composite("list", items, << >>)
RecordV(fields) == Composite("record", << >>, fields)
Field(name, value) == [name |-> name, value |-> value]

Fails(v) == v.kind = "failed"
True(v)  == v.kind = "boolean" /\ v.n = 1

(* record_get: the first field of that name, Failed if there is none.      *)
Get(r, name) ==
  LET i == SelectInSeq(r.fields, LAMBDA f : f.name = name)
  IN  IF r.kind # "record" \/ i = 0 THEN Failed ELSE r.fields[i].value

RECURSIVE Equal(_, _)
Equal(a, b) ==
  /\ a.kind = b.kind /\ a.n = b.n /\ a.s = b.s
  /\ Len(a.items) = Len(b.items)
  /\ \A i \in DOMAIN a.items : Equal(a.items[i], b.items[i])
  /\ Len(a.fields) = Len(b.fields)
  /\ \A i \in DOMAIN a.fields :
       LET v == Get(b, a.fields[i].name)
       IN  ~Fails(v) /\ Equal(a.fields[i].value, v)

------------------------------------------------------------------------------
EvalBinary(op, a, b) ==
  LET integers == a.kind = "integer" /\ b.kind = "integer"
      p == True(a)  q == True(b)
  IN
  CASE op \in {"AND", "OR"} ->
         IF a.kind # "boolean" \/ b.kind # "boolean" THEN Failed
         ELSE BooleanV(IF op = "AND" THEN p /\ q ELSE p \/ q)
    [] op = "EQ"  -> BooleanV(Equal(a, b))
    [] op = "NEQ" -> BooleanV(~Equal(a, b))
    [] op \in {"LT", "GT", "LTE", "GTE"} ->
         IF Comparable(a, b) THEN BooleanV(Holds(op, a, b)) ELSE Failed
    [] op = "ADD" /\ a.kind = "string" /\ b.kind = "string" -> StringV(a.s \o b.s)
    [] OTHER ->
         IF \/ ~IsNumber(a) \/ ~IsNumber(b)
            \/ op \in {"DIV", "MOD"} /\ b.n = 0
            \/ op = "MOD" /\ ~integers
         THEN Failed ELSE Scalar(Arithmetic(op, a, b))

(* The functions of stdlib.c the programs of the runs call.                *)
FoldItem(fn, acc, item) ==
  IF Fails(acc) \/ fn \notin {"add", "multiply"} THEN Failed
  ELSE Scalar(Arithmetic(IF fn = "add" THEN "ADD" ELSE "MUL", acc, item))

ToStringText(v) ==
  CASE v.kind = "integer" -> ToString(v.n)
    [] v.kind = "float"   -> HalvesToString(v.n)
    [] v.kind = "boolean" -> IF v.n = 1 THEN "true" ELSE "false"
    [] v.kind = "nothing" -> "nothing"
    [] v.kind = "string"  -> v.s

LibraryCall(f, arg) ==
  LET v    == Get(arg, "value")
      list == Get(arg, "list")
  IN
  CASE f = "to-string" ->
         IF v.kind \in {"integer", "float", "boolean", "nothing", "string"}
         THEN RecordV(<<Field("value", StringV(ToStringText(v)))>>) ELSE Failed
    [] f = "to-float" ->
         IF v.kind = "string" THEN Scalar(FloatCell(ParseHalves(v.s)))
         ELSE IF IsNumber(v) THEN Scalar(FloatCell(ToDouble(v))) ELSE Failed
    [] f = "to-integer" ->
         IF v.kind = "string" THEN IntegerV(ParseInteger(v.s))
         ELSE IF v.kind = "integer" THEN v
         ELSE IF v.kind = "float" THEN IntegerV(CDiv(v.n, 2)) ELSE Failed
    [] f = "length" ->
         IF list.kind = "list" THEN IntegerV(Len(list.items))
         ELSE IF Fails(list) /\ v.kind = "string" THEN IntegerV(Len(v.s))
         ELSE Failed
    [] f = "fold" ->
         LET init == Get(arg, "initial")  fn == Get(arg, "fn") IN
         IF list.kind # "list" \/ Fails(init) \/ fn.kind # "string" THEN Failed
         ELSE FoldLeft(LAMBDA acc, x : FoldItem(fn.s, acc, x), init, list.items)
    [] OTHER -> Failed

------------------------------------------------------------------------------
(* The environment is a stack of names; the input record is apart from it. *)
Bind(env, name, v) == Append(env, Field(name, v))
LookupName(env, name) ==
  LET i == SelectLastInSeq(env, LAMBDA b : b.name = name)
  IN  IF i = 0 THEN Failed ELSE env[i].value

RECURSIVE Eval(_, _, _), EvalAll(_, _, _), EvalIf(_, _, _), EvalMatch(_, _, _, _),
          MatchPattern(_, _, _, _), MatchAll(_, _, _, _)

(* The values of expressions in order; the first failure fails them all.   *)
EvalAll(env, in, es) ==
  LET vs == [i \in DOMAIN es |-> Eval(env, in, es[i])]
  IN  IF \E i \in DOMAIN vs : Fails(vs[i]) THEN <<Failed>> ELSE vs

AllFail(vs) == vs # << >> /\ Fails(vs[1])

EvalIf(env, in, kids) ==
  IF kids = << >> THEN NothingV
  ELSE IF Len(kids) = 1 THEN Eval(env, in, kids[1])
  ELSE LET c == Eval(env, in, kids[1]) IN
       IF Fails(c) THEN Failed
       ELSE IF True(c) THEN Eval(env, in, kids[2])
       ELSE EvalIf(env, in, SubSeq(kids, 3, Len(kids)))

EvalMatch(env, in, subject, clauses) ==
  LET clause == clauses[1] IN
  IF Len(clauses) = 1
  THEN IF clause.kind = "absent" THEN NothingV ELSE Eval(env, in, clause)
  ELSE
    LET m     == MatchPattern(env, in, clause.kids[1], subject)
        guard == IF clause.kids[2].kind = "absent" THEN BooleanV(TRUE)
                 ELSE Eval(m.env, in, clause.kids[2])
    IN  IF ~m.ok THEN EvalMatch(env, in, subject, Tail(clauses))
        ELSE IF Fails(guard) THEN Failed
        ELSE IF True(guard) THEN Eval(m.env, in, clause.kids[3])
        ELSE EvalMatch(env, in, subject, Tail(clauses))

EvalIteration(env, in, e, list) ==
  LET at  == [i \in DOMAIN list.items |->
                Eval(Bind(env, e.name, list.items[i]), in, e.kids[2])]
      all == [i \in DOMAIN at |-> <<list.items[i], at[i]>>]
      kept == SelectSeq(all, LAMBDA p : True(p[2]))
  IN  IF list.kind # "list" \/ \E i \in DOMAIN at : Fails(at[i]) THEN Failed
      ELSE IF e.kind = "map" THEN ListV(at)
      ELSE ListV([i \in DOMAIN kept |-> kept[i][1]])

EvalThrough(env, in, left, right) ==
  IF Fails(left) THEN Failed
  ELSE IF right.kind \in {"filter", "map"} THEN EvalIteration(env, in, right, left)
  ELSE IF right.kind # "call" THEN Failed
  ELSE LET arg == Eval(env, in, right.kids[1]) IN
       IF Fails(arg) THEN Failed
       ELSE LibraryCall(right.name,
                        RecordV(<<Field("value", left)>> \o arg.fields))

Eval(env, in, e) ==
  LET Kid(i) == Eval(env, in, e.kids[i]) IN
  CASE e.kind \in Literals -> Scalar(Cell(e.kind, e.n, e.name, NULL))
    [] e.kind = "nothing"  -> NothingV
    [] e.kind = "ident"    -> LookupName(env, e.name)
    [] e.kind = "input"    -> Get(in, e.name)
    [] e.kind = "binary"   ->
         LET vs == EvalAll(env, in, e.kids)
         IN  IF AllFail(vs) THEN Failed ELSE EvalBinary(e.name, vs[1], vs[2])
    [] e.kind = "negate"   ->
         LET v == Kid(1)
         IN  IF IsNumber(v) THEN [v EXCEPT !.n = -@] ELSE Failed
    [] e.kind = "not"      ->
         LET v == Kid(1)
         IN  IF v.kind = "boolean" THEN BooleanV(~True(v)) ELSE Failed
    [] e.kind = "if"       -> EvalIf(env, in, e.kids)
    [] e.kind = "match"    ->
         LET subject == Kid(1)
         IN  IF Fails(subject) THEN Failed
             ELSE EvalMatch(env, in, subject, Tail(e.kids))
    [] e.kind = "let"      ->
         LET v == Kid(1)
         IN  IF Fails(v) THEN Failed
             ELSE Eval(Bind(env, e.name, v), in, e.kids[2])
    [] e.kind = "record"   ->
         LET vs == EvalAll(env, in, [i \in DOMAIN e.kids |-> e.kids[i].kids[1]])
         IN  IF AllFail(vs) THEN Failed
             ELSE RecordV([i \in DOMAIN vs |-> Field(e.kids[i].name, vs[i])])
    [] e.kind = "list"     ->
         LET vs == EvalAll(env, in, e.kids)
         IN  IF AllFail(vs) THEN Failed ELSE ListV(vs)
    [] e.kind = "access"   -> Get(Kid(1), e.name)
    [] e.kind = "paren"    -> Kid(1)
    [] e.kind = "call"     ->
         LET arg == Kid(1) IN IF Fails(arg) THEN Failed ELSE LibraryCall(e.name, arg)
    [] e.kind \in {"filter", "map"} -> EvalIteration(env, in, e, Kid(1))
    [] e.kind = "through"  -> EvalThrough(env, in, Kid(1), e.kids[2])
    [] e.kind = "lookup"   -> NothingV
    [] e.kind = "is"       ->
         LET v == Kid(1) IN IF Fails(v) THEN Failed ELSE BooleanV(v.kind = e.name)
    [] e.kind = "orElse"   ->
         LET v == Kid(1) IN IF v.kind = "nothing" THEN Kid(2) ELSE v

------------------------------------------------------------------------------
(* match_pattern: whether the value matches, and the environment with the  *)
(* names it binds (a failed match may leave names behind; its caller       *)
(* forgets them).  The expressions in a pattern are literals: none fails.  *)
Matched(ok, env) == [ok |-> ok, env |-> env]

MatchAll(env, in, ps, vs) ==
  IF ps = << >> THEN Matched(TRUE, env)
  ELSE LET m == MatchPattern(env, in, ps[1], vs[1])
       IN  IF m.ok THEN MatchAll(m.env, in, Tail(ps), Tail(vs)) ELSE m

MatchPattern(env, in, p, v) ==
  CASE p.kind \in {"absent", "wildcard"} -> Matched(TRUE, env)
    [] p.kind = "binding" -> Matched(TRUE, Bind(env, p.name, v))
    [] p.kind = "literal" ->
         LET lit == Eval(env, in, p.kids[1])
         IN  Matched(~Fails(lit) /\ Equal(lit, v), env)
    [] p.kind = "range" ->
         LET lo == Eval(env, in, p.kids[1])  hi == Eval(env, in, p.kids[2])
         IN  Matched(/\ IsNumber(lo) /\ IsNumber(hi) /\ IsNumber(v)
                     /\ Holds("GTE", v, lo) /\ Holds("LTE", v, hi), env)
    [] p.kind = "listPattern" ->
         LET k == Len(p.kids)  items == v.items
             m == MatchAll(env, in, p.kids, items)
             rest == ListV(SubSeq(items, k + 1, Len(items)))
         IN  IF v.kind # "list" \/ Len(items) < k \/ (p.n = 0 /\ Len(items) # k)
             THEN Matched(FALSE, env)
             ELSE IF m.ok /\ p.n = 1 /\ p.name # ""
             THEN Matched(TRUE, Bind(m.env, p.name, rest)) ELSE m
    [] p.kind = "recordPattern" ->
         LET got == [i \in DOMAIN p.kids |-> Get(v, p.kids[i].name)]
             bad == {i \in DOMAIN got : Fails(got[i])}
             has == IF bad = {} THEN Len(got) ELSE Min(bad) - 1
             m   == MatchAll(env, in, [i \in 1 .. has |-> p.kids[i].kids[1]],
                             SubSeq(got, 1, has))
         IN  IF v.kind = "record" /\ bad = {} THEN m ELSE Matched(FALSE, env)

(* evaluator_eval                                                          *)
Meaning(prog, in) == Eval(<< >>, in, prog.body)

==============================================================================
