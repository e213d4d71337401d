----------------------------- MODULE HelunaFormatter ----------------------------
(***************************************************************************)
(* The formatter: a program's tokens, in the order they are printed.       *)
(* Line breaks and indentation are left out.  That a minus sign is printed *)
(* right before its operand, where the lexer may take it for part of a     *)
(* number, is not, and neither is that a float is printed with six digits. *)
(* A field may be named by a number, as in x.1; such names are left out,   *)
(* for what the lexer makes of them depends on the spaces around them.     *)
(***************************************************************************)
EXTENDS HelunaSyntax

Separated(tss, separator) ==
  FlattenSeq([i \in DOMAIN tss |-> IF i = 1 THEN tss[i] ELSE <<separator>> \o tss[i]])
CommaSeparated(tss) == Separated(tss, Symbol(","))

Words(names) == [i \in DOMAIN names |-> Word(names[i])]
Only(condition, ts) == IF condition THEN ts ELSE << >>

OperatorToken ==
  [op \in DOMAIN BinaryLevels |->
     CASE op = "ADD" -> Symbol("+")   [] op = "SUB" -> Symbol("-")
       [] op = "MUL" -> Symbol("*")   [] op = "DIV" -> Symbol("/")
       [] op = "MOD" -> Word("mod")   [] op = "EQ"  -> Symbol("=")
       [] op = "NEQ" -> Symbol("!=")  [] op = "LT"  -> Symbol("<")
       [] op = "GT"  -> Symbol(">")   [] op = "LTE" -> Symbol("<=")
       [] op = "GTE" -> Symbol(">=")  [] op = "AND" -> Word("and")
       [] op = "OR"  -> Word("or")]

RECURSIVE FmtExpr(_), FmtPattern(_), FmtType(_)

FmtFields(kids, separator, Fmt(_)) ==
  CommaSeparated([i \in DOMAIN kids |->
    <<Word(kids[i].name), Symbol(separator)>> \o Fmt(kids[i].kids[1])])
FmtAll(kids) == [i \in DOMAIN kids |-> FmtExpr(kids[i])]

(* if c then a else if d then b else e end                                 *)
FmtIf(e) ==
  LET n == Len(e.kids)
      Part(i) == CASE i = n     -> <<Word("else")>>
                   [] i = 1     -> <<Word("if")>>
                   [] i % 2 = 1 -> <<Word("else"), Word("if")>>
                   [] OTHER     -> <<Word("then")>>
  IN  FlattenSeq([i \in 1 .. n |-> Part(i) \o FmtExpr(e.kids[i])]) \o <<Word("end")>>

FmtWhen(c) ==
  <<Word("when")>> \o FmtPattern(c.kids[1])
  \o Only(c.kids[2] # Absent, <<Word("and")>> \o FmtExpr(c.kids[2]))
  \o <<Word("then")>> \o FmtExpr(c.kids[3])

FmtMatch(e) ==
  LET n == Len(e.kids) IN
  <<Word("match")>> \o FmtExpr(e.kids[1])
  \o FlattenSeq([i \in 1 .. n - 2 |-> FmtWhen(e.kids[i + 1])])
  \o Only(e.kids[n] # Absent, <<Word("else")>> \o FmtExpr(e.kids[n])) \o <<Word("end")>>

FmtLet(e) ==
  <<Word("let"), Word(e.name), Word("be")>> \o FmtExpr(e.kids[1])
  \o (CASE e.kids[2] = Absent -> << >>
        [] e.kids[2].kind = "let" -> FmtExpr(e.kids[2])
        [] OTHER -> <<Word("result")>> \o FmtExpr(e.kids[2]))

(* A float, in halves, to six significant digits, as %g prints it: to the  *)
(* nearest multiple of a power of ten, of two equally near the even one.   *)
(* A half is a digit of its own below 100000; floats reach 10^9 at most.   *)
Nearest(n, unit) ==
  LET q == n \div unit
      r == 2 * (n % unit)
  IN  unit * (IF r > unit \/ (r = unit /\ q % 2 = 1) THEN q + 1 ELSE q)

SixDigits(n) ==
  LET distance == IF n < 0 THEN -n ELSE n
      unit == Min({u \in {1, 2, 20, 200, 2000} :
                     distance < IF u = 1 THEN 200000 ELSE 1000000 * u})
  IN  IF n < 0 THEN -Nearest(distance, unit) ELSE Nearest(distance, unit)

FmtLeaf(e) ==
  CASE e.kind = "integer" -> Integer(e.n)
    [] e.kind = "float"   -> Float(SixDigits(e.n))
    [] e.kind = "string"  -> Text(e.name)
    [] e.kind = "boolean" -> Word(IF e.n = 1 THEN "true" ELSE "false")
    [] e.kind = "nothing" -> Word("nothing")
    [] e.kind = "ident"   -> Word(e.name)
    [] e.kind = "input"   -> InputRef(e.name)

Infix(l, ts, r) == FmtExpr(l) \o ts \o FmtExpr(r)

(* A faulty variant: parentheses are only printed around a comparison.     *)
FmtParenSometimes(e) ==
  IF Level(e.kids[1]) = Compare
  THEN <<Symbol("(")>> \o FmtExpr(e.kids[1]) \o <<Symbol(")")>> ELSE FmtExpr(e.kids[1])

FmtParen(e) == <<Symbol("(")>> \o FmtExpr(e.kids[1]) \o <<Symbol(")")>>

FmtExpr(e) ==
  CASE e.kind = "absent"  -> << >>
    [] e.kind = "binary"  -> Infix(e.kids[1], <<OperatorToken[e.name]>>, e.kids[2])
    [] e.kind = "negate"  -> Minus(FmtExpr(e.kids[1]))
    [] e.kind = "not"     -> <<Word("not")>> \o FmtExpr(e.kids[1])
    [] e.kind = "paren"   -> FmtParen(e)
    [] e.kind = "if"      -> FmtIf(e)
    [] e.kind = "match"   -> FmtMatch(e)
    [] e.kind = "let"     -> FmtLet(e)
    [] e.kind = "filter"  ->
         <<Word("filter")>>
         \o Infix(e.kids[1], <<Word("where"), Word(e.name)>>, e.kids[2]) \o <<Word("end")>>
    [] e.kind = "map"     ->
         <<Word("map")>>
         \o Infix(e.kids[1], <<Word("as"), Word(e.name), Word("do")>>, e.kids[2])
         \o <<Word("end")>>
    [] e.kind = "through" -> Infix(e.kids[1], <<Word("through")>>, e.kids[2])
    [] e.kind = "orElse"  -> Infix(e.kids[1], <<Word("or"), Word("else")>>, e.kids[2])
    [] e.kind = "is"      -> FmtExpr(e.kids[1]) \o <<Word("is"), Word(e.name)>>
    [] e.kind = "access"  -> FmtExpr(e.kids[1]) \o <<Symbol("."), Word(e.name)>>
    [] e.kind = "call"    ->
         <<Word(e.name), Symbol("(")>> \o FmtExpr(e.kids[1]) \o <<Symbol(")")>>
    [] e.kind = "record"  ->
         <<Symbol("{")>> \o FmtFields(e.kids, ":", FmtExpr) \o <<Symbol("}")>>
    [] e.kind = "list"    ->
         <<Symbol("[")>> \o CommaSeparated(FmtAll(e.kids)) \o <<Symbol("]")>>
    [] e.kind = "lookup"  ->
         <<Word("lookup"), Word(e.name), Word("where")>>
         \o FmtFields(e.kids, "=", FmtExpr) \o <<Word("end")>>
    [] OTHER -> <<FmtLeaf(e)>>

FmtRest(p) ==
  Only(p.n = 1, <<(<<Symbol("..")>> \o Only(p.name # "", <<Word(p.name)>>))>>)

FmtPattern(p) ==
  CASE p.kind = "literal"  -> FmtExpr(p.kids[1])
    [] p.kind = "wildcard" -> <<Symbol("_")>>
    [] p.kind = "binding"  -> <<Word(p.name)>>
    [] p.kind = "range"    -> <<Word("between")>> \o Infix(p.kids[1], <<Word("and")>>, p.kids[2])
    [] p.kind = "listPattern" ->
         <<Symbol("[")>>
         \o CommaSeparated([i \in DOMAIN p.kids |-> FmtPattern(p.kids[i])] \o FmtRest(p))
         \o <<Symbol("]")>>
    [] p.kind = "recordPattern" ->
         <<Symbol("{")>> \o FmtFields(p.kids, ":", FmtPattern) \o <<Symbol("}")>>

FmtFieldDecl(f) ==
  LET tags == TagNames(f) IN
  <<Word(f.name), Word("as")>> \o FmtType(TypeOf(f))
  \o Only(tags # << >>, <<Word("tagged")>> \o Words(tags))
FmtFieldDecls(fields) == CommaSeparated([i \in DOMAIN fields |-> FmtFieldDecl(fields[i])])

FmtType(t) ==
  CASE t.name = "maybe"  -> <<Word("maybe")>> \o FmtType(t.kids[1])
    [] t.name = "list"   -> <<Word("list"), Word("of")>> \o FmtType(t.kids[1])
    [] t.name = "record" -> <<Word("record")>> \o FmtFieldDecls(t.kids) \o <<Word("end")>>
    [] OTHER -> <<Word(t.name)>>

------------------------------------------------------------------------------
FmtFieldRef(r) ==
  <<Word(IF r.output THEN "output" ELSE "input")>>
  \o FlattenSeq([i \in DOMAIN r.path |-> <<Symbol("."), Word(r.path[i])>>])

FmtReject(message) ==
  Only(message # "", <<Word("else"), Word("reject"), Text(message)>>)

(* The guard of a rule's when clause is not printed.                       *)
FmtRuleWhen(c) ==
  <<Word("when")>> \o FmtPattern(c.kids[1]) \o <<Word("then")>> \o FmtExpr(c.kids[3])

FmtRule(r) ==
  CASE r.kind = "forbidField" ->
         <<Word("forbid")>> \o FmtFieldRef(r.ref) \o <<Word("in"), Word("output")>>
    [] r.kind = "forbidTagged" ->
         <<Word("forbid"), Word("tagged"), Word(r.tag), Word("in"), Word("output")>>
    [] r.kind = "require" ->
         <<Word("require")>> \o FmtFieldRef(r.ref) \o FmtExpr(r.condition)
         \o FmtReject(r.message) \o <<Word("end")>>
    [] r.kind = "match" ->
         <<Word("match")>> \o FmtFieldRef(r.ref)
         \o FlattenSeq([i \in DOMAIN r.clauses |-> FmtRuleWhen(r.clauses[i])])
         \o FmtReject(r.message) \o <<Word("end")>>

FmtTest(tc) ==
  <<Word("test"), Text(tc.name), Word("given")>> \o FmtExpr(tc.given)
  \o <<Word("expect")>> \o FmtExpr(tc.wanted) \o <<Word("end")>>

FmtTag(tag) ==
  <<Word(tag.name)>> \o Only(tag.description # "", <<Text(tag.description)>>)

FmtSanitizer(s) ==
  <<Word(s.name)>> \o Only(s.impl # "", <<Word("using"), Word(s.impl)>>)
  \o <<Word("strips")>> \o Words(s.strips)

(* A section is printed if it has something in it.                         *)
Section(keyword, items, ts) == Only(items # << >>, <<Word(keyword)>> \o ts)
EndedSection(keyword, items, ts) == Section(keyword, items, ts \o <<Word("end")>>)

FmtBlock(keyword, fields) == <<Word(keyword)>> \o FmtFieldDecls(fields) \o <<Word("end")>>

Each(items, Fmt(_)) == [i \in DOMAIN items |-> Fmt(items[i])]

(* The names of uses are printed without commas, those of sources with.    *)
FmtContract(c) ==
  <<Word("contract"), Word(c.name)>>
  \o Section("uses", c.uses, Words(c.uses))
  \o EndedSection("tags", c.tags, CommaSeparated(Each(c.tags, FmtTag)))
  \o (CASE c.kind = "tag" -> << >>
        [] c.kind = "source" ->
             <<Word("source"), Text(c.source)>>
             \o EndedSection("config", c.config.kids, FmtFields(c.config.kids, ":", FmtExpr))
             \o <<Word("keyed-by")>> \o FmtFieldDecls(c.keyedBy)
             \o <<Word("returns")>> \o FmtType(c.returns)
        [] c.kind = "function" ->
             EndedSection("sanitizers", c.sanitizers,
                          CommaSeparated(Each(c.sanitizers, FmtSanitizer)))
             \o Section("sources", c.sources,
                        CommaSeparated([i \in DOMAIN c.sources |-> <<Word(c.sources[i])>>]))
             \o FmtBlock("input", c.input) \o FmtBlock("output", c.output)
             \o EndedSection("rules", c.rules, FlattenSeq(Each(c.rules, FmtRule)))
             \o EndedSection("tests", c.tests, FlattenSeq(Each(c.tests, FmtTest))))
  \o <<Word("end")>>

FmtFunction(fn) ==
  <<Word("define"), Word(fn.name), Word("with"), Word("input")>>
  \o Only(fn.body.kind # "let", <<Word("result")>>) \o FmtExpr(fn.body) \o <<Word("end")>>

Format(prog) ==
  FmtContract(prog.contract)
  \o Only(prog.function # NoFunction, FmtFunction(prog.function))

------------------------------------------------------------------------------
(* What printing keeps of a program, tree by tree.  It loses that a number *)
(* was negated, digits of floats, the guards of a match rule's clauses and *)
(* a configuration with nothing in it.                                     *)
RECURSIVE Leading(_), NegateLeading(_), Kept(_)

Leading(e) == IF e.kind = "access" THEN Leading(e.kids[1]) ELSE e
NegateLeading(e) ==
  IF e.kind = "access" THEN [e EXCEPT !.kids[1] = NegateLeading(@)] ELSE [e EXCEPT !.n = -@]

Kept(e) ==
  LET kept   == [e EXCEPT !.kids = [i \in DOMAIN @ |-> Kept(@[i])]]
      number == Leading(kept.kids[1])
  IN  CASE e.kind = "float" -> [e EXCEPT !.n = SixDigits(@)]
        [] e.kind = "negate" /\ number.kind \in {"integer", "float"} /\ number.n >= 0 ->
             NegateLeading(kept.kids[1])
        [] OTHER -> kept

KeptClause(c) == [Kept(c) EXCEPT !.kids[2] = Absent]
KeptRule(r) ==
  [r EXCEPT !.condition = Kept(@), !.clauses = [i \in DOMAIN @ |-> KeptClause(@[i])]]
KeptTest(tc) == [tc EXCEPT !.given = Kept(@), !.wanted = Kept(@)]

KeptProgram(prog) ==
  [contract |-> [prog.contract EXCEPT
                   !.rules  = [i \in DOMAIN @ |-> KeptRule(@[i])],
                   !.tests  = [i \in DOMAIN @ |-> KeptTest(@[i])],
                   !.config = IF @.kids = << >> THEN Absent ELSE Kept(@)],
   function |-> IF prog.function = NoFunction THEN NoFunction
                ELSE [prog.function EXCEPT !.body = Kept(@)]]

==============================================================================
