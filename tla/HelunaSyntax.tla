------------------------------ MODULE HelunaSyntax ------------------------------
(***************************************************************************)
(* The recursive-descent parser, as functions from a sequence of tokens    *)
(* and a place in it to a tree and the place after it.  Place 0 is where a *)
(* failed parse stands: no token is there, so nothing succeeds after it,   *)
(* as nothing does once the parser has set had_error.                      *)
(*                                                                         *)
(* A token is its kind, its text and, for a number, its value.  A keyword  *)
(* or a symbol is its own kind.                                            *)
(***************************************************************************)
EXTENDS HelunaContract, SequencesExt, TLC

Token(k, s, n) == [k |-> k, s |-> s, n |-> n]

ValueWords == {"true", "false", "nothing"}

(* The keywords that may name a field, and all of them.                    *)
NameWords ==
  {"and", "as", "be", "between", "boolean", "config", "contract", "define",
   "do", "else", "end", "expect", "filter", "float", "forbid", "given", "if",
   "in", "input", "integer", "is", "keyed-by", "let", "list", "lookup", "map",
   "match", "maybe", "mod", "not", "of", "or", "output", "record", "reject",
   "require", "result", "returns", "rules", "sanitizers", "source", "sources",
   "string", "strips", "tagged", "tags", "test", "tests", "then", "through",
   "uses", "using", "when", "where", "with"}
Keywords == NameWords \cup ValueWords

Word(s)    == Token(IF s \in Keywords THEN s ELSE "NAME", s, 0)
Symbol(s)  == Token(s, s, 0)
Integer(n) == Token("INT", ToString(n), n)
Float(n)   == Token("FLOAT", ToString(n), n)
Text(s)    == Token("STR", s, 0)
InputRef(s) == Token("REF", s, 0)

(* A minus sign right before a digit is part of the number.                *)
Minus(ts) ==
  IF ts[1].k \in {"INT", "FLOAT"} /\ ts[1].n >= 0
  THEN <<Token(ts[1].k, "-" \o ts[1].s, -ts[1].n)>> \o Tail(ts)
  ELSE <<Symbol("-")>> \o ts

------------------------------------------------------------------------------
Found(node, at) == [node |-> node, at |-> at]
NotFound == Found(Absent, 0)

Peek(t, i) == IF i \in DOMAIN t THEN t[i].k ELSE "EOF"
TextAt(t, i) == IF i \in DOMAIN t THEN t[i].s ELSE ""

Expect(t, i, k) == IF Peek(t, i) = k THEN i + 1 ELSE 0
ExpectName(t, i) == IF Peek(t, i) \in NameWords \cup {"NAME"} THEN i + 1 ELSE 0
Close(t, p, k) == Found(p.node, Expect(t, p.at, k))

Operators ==
  (OrLevel  :> ("or" :> "OR"))
  @@ (AndLevel :> ("and" :> "AND"))
  @@ (Compare  :> [k \in {"=", "!=", "<", ">", "<=", ">="} |->
                     CASE k = "=" -> "EQ"  [] k = "!=" -> "NEQ"  [] k = "<"  -> "LT"
                       [] k = ">" -> "GT"  [] k = "<=" -> "LTE"  [] k = ">=" -> "GTE"])
  @@ (Arith    :> ("+" :> "ADD" @@ "-" :> "SUB"))
  @@ (Term     :> ("*" :> "MUL" @@ "/" :> "DIV" @@ "%" :> "MOD" @@ "mod" :> "MOD"))

Literal(t, i) ==
  CASE Peek(t, i) = "INT"   -> IntLit(t[i].n)
    [] Peek(t, i) = "FLOAT" -> FloatLit(t[i].n)
    [] Peek(t, i) = "STR"   -> StrLit(t[i].s)
    [] Peek(t, i) = "true"  -> BoolLit(TRUE)
    [] Peek(t, i) = "false" -> BoolLit(FALSE)
    [] OTHER                -> NothingLit
LiteralTokens == {"INT", "FLOAT", "STR"} \cup ValueWords

RECURSIVE Parse(_, _, _), ParseLevel(_, _, _), LeftChain(_, _, _),
          ThroughChain(_, _), BranchChain(_, _), WhenClauses(_, _),
          Accessors(_, _), ListPattern(_, _, _), CommaList(_, _, _), Names(_, _, _),
          Path(_, _, _), Sanitizers(_, _), Rules(_, _), Tests(_, _), InOrder(_, _, _),
          ParseBody(_, _)

(* .field, any number of times: a name, a number or any keyword.           *)
Accessors(t, base) ==
  IF Peek(t, base.at) # "." THEN base
  ELSE IF Peek(t, base.at + 1) \notin Keywords \cup {"NAME", "INT"} THEN NotFound
  ELSE Accessors(t, Found(Access(base.node, TextAt(t, base.at + 1)), base.at + 2))

ParseRecord(t, i) ==
  IF Peek(t, i) = "}" THEN Found(Record(<< >>), i + 1)
  ELSE LET labels == CommaList(t, i, "label")
       IN  Close(t, Found(Record(labels.node), labels.at), "}")

ParseList(t, i) ==
  IF Peek(t, i) = "]" THEN Found(List(<< >>), i + 1)
  ELSE LET elements == CommaList(t, i, "expression")
       IN  Close(t, Found(List(elements.node), elements.at), "]")

(* The argument of a call is a record in parentheses.                      *)
ParseCall(t, i, name) ==
  LET arg == ParseRecord(t, Expect(t, i + 1, "{"))
  IN  Close(t, Found(Call(name, arg.node.kids), arg.at), ")")

ParseAtom(t, i) ==
  LET k == Peek(t, i) IN
  CASE k \in LiteralTokens -> Accessors(t, Found(Literal(t, i), i + 1))
    [] k \in {"NAME", "input", "output"} ->
         Accessors(t, IF Peek(t, i + 1) = "(" THEN Parse(t, i, "call")
                      ELSE Found(Ident(TextAt(t, i)), i + 1))
    [] k = "REF" -> Accessors(t, Found(Input(TextAt(t, i)), i + 1))
    [] k = "{"   -> Accessors(t, ParseRecord(t, i + 1))
    [] k = "["   -> Accessors(t, ParseList(t, i + 1))
    [] k = "("   -> LET inner == Parse(t, i + 1, "expression")
                    IN  Accessors(t, Close(t, Found(Paren(inner.node), inner.at), ")"))
    [] OTHER     -> NotFound

(* Operators of one level, from the left; or else is one of or's.          *)
LeftChain(t, left, level) ==
  LET k == Peek(t, left.at)
      orElse == k = "or" /\ Peek(t, left.at + 1) = "else"
      right  == ParseLevel(t, left.at + (IF orElse THEN 2 ELSE 1), level + 1)
  IN  IF k \notin DOMAIN Operators[level] THEN left
      ELSE LeftChain(t,
             Found(IF orElse THEN OrElse(left.node, right.node)
                   ELSE Binary(Operators[level][k], left.node, right.node), right.at),
             level)

ParseCompare(t, i) ==
  LET left  == ParseLevel(t, i, Arith)
      k     == Peek(t, left.at)
      right == ParseLevel(t, left.at + 1, Arith)
      type  == Peek(t, left.at + 1)
  IN  CASE k = "is" ->
             IF type \in {"string", "integer", "float", "boolean", "nothing", "list", "record"}
             THEN Found(IsType(left.node, type), left.at + 2) ELSE NotFound
        [] k \in DOMAIN Operators[Compare] ->
             Found(Binary(Operators[Compare][k], left.node, right.node), right.at)
        [] OTHER -> left

ParseLevel(t, i, level) ==
  LET prefixed(k, Make(_), lower) ==
        IF Peek(t, i) # k THEN ParseLevel(t, i, lower)
        ELSE LET operand == ParseLevel(t, i + 1, level)
             IN  Found(Make(operand.node), operand.at)
  IN  CASE level \in {OrLevel, AndLevel, Arith, Term} ->
             LeftChain(t, ParseLevel(t, i, level + 1), level)
        [] level = NotLevel -> prefixed("not", NotE, Compare)
        [] level = Compare  -> ParseCompare(t, i)
        [] level = Unary    -> prefixed("-", Neg, Atom)
        [] level = Atom     -> ParseAtom(t, i)

ParseFilter(t, i) ==
  LET list == Parse(t, i + 1, "expression")
      name == Expect(t, list.at, "where")
      pred == Parse(t, Expect(t, name, "NAME"), "condition")
  IN  Close(t, Found(Filter(TextAt(t, name), list.node, pred.node), pred.at), "end")

ParseMap(t, i) ==
  LET list == Parse(t, i + 1, "expression")
      name == Expect(t, list.at, "as")
      body == Parse(t, Expect(t, Expect(t, name, "NAME"), "do"), "expression")
  IN  Close(t, Found(MapE(TextAt(t, name), list.node, body.node), body.at), "end")

ThroughChain(t, left) ==
  LET i == left.at + 1
      right == CASE Peek(t, i) \in {"filter", "map"} -> Parse(t, i, Peek(t, i))
                 [] Peek(t, i) = "NAME" /\ Peek(t, i + 1) = "(" -> Parse(t, i, "call")
                 [] OTHER -> Found(Ident(TextAt(t, i)), Expect(t, i, "NAME"))
  IN  IF Peek(t, left.at) # "through" THEN left
      ELSE ThroughChain(t, Found(Through(left.node, right.node), right.at))

(* After "if": condition, body, condition, body, ..., else body.           *)
BranchChain(t, i) ==
  LET cond == Parse(t, i, "condition")
      body == Parse(t, Expect(t, cond.at, "then"), "expression")
      next == Expect(t, body.at, "else")
      more == IF Peek(t, next) = "if" THEN BranchChain(t, next + 1)
              ELSE LET last == Parse(t, next, "expression")
                   IN  Found(<<last.node>>, last.at)
  IN  Found(<<cond.node, body.node>> \o more.node, more.at)

ParseIf(t, i) ==
  LET kids == BranchChain(t, i)
  IN  Close(t, Found(If(kids.node), kids.at), "end")

(* A pattern, an optional guard and a body, of a match or of a match rule. *)
WhenClauses(t, i) ==
  LET pat   == Parse(t, i + 1, "pattern")
      guard == IF Peek(t, pat.at) = "and" THEN Parse(t, pat.at + 1, "condition")
               ELSE Found(Absent, pat.at)
      body  == Parse(t, Expect(t, guard.at, "then"), "expression")
      rest  == WhenClauses(t, body.at)
  IN  IF Peek(t, i) # "when" THEN Found(<< >>, i)
      ELSE Found(<<When(pat.node, guard.node, body.node)>> \o rest.node, rest.at)

ParseMatch(t, i) ==
  LET subject == Parse(t, i, "expression")
      clauses == WhenClauses(t, subject.at)
      else    == IF Peek(t, clauses.at) = "else" THEN Parse(t, clauses.at + 1, "expression")
                 ELSE Found(Absent, clauses.at)
  IN  Close(t, Found(Match(subject.node, clauses.node, else.node), else.at), "end")

(* A let has no body until the function's parser gives it one.             *)
ParseLet(t, i) ==
  LET binding == Parse(t, Expect(t, Expect(t, i, "NAME"), "be"), "expression")
  IN  Found(Let(TextAt(t, i), binding.node, Absent), binding.at)

ParseLookup(t, i) ==
  LET keys == CommaList(t, Expect(t, Expect(t, i, "NAME"), "where"), "key")
  IN  Close(t, Found(Lookup(TextAt(t, i), keys.node), keys.at), "end")

ParseExpression(t, i) ==
  LET k == Peek(t, i) IN
  CASE k = "let"    -> ParseLet(t, i + 1)
    [] k = "if"     -> ParseIf(t, i + 1)
    [] k = "match"  -> ParseMatch(t, i + 1)
    [] k \in {"filter", "map"} -> Parse(t, i, k)
    [] k = "lookup" -> ParseLookup(t, i + 1)
    [] OTHER        -> ThroughChain(t, Parse(t, i, "condition"))

(* After "[": the elements and the rest, which may be followed by a comma  *)
(* only when nothing comes before it.                                      *)
ListPattern(t, i, kids) ==
  IF Peek(t, i) = ".."
  THEN LET named == Peek(t, i + 1) = "NAME"
           after == i + (IF named THEN 2 ELSE 1)
           at    == IF kids = << >> /\ Peek(t, after) = "," THEN after + 1 ELSE after
       IN  Close(t, Found(PListRest(kids, IF named THEN TextAt(t, i + 1) ELSE ""), at), "]")
  ELSE LET p == Parse(t, i, "pattern")
           all == Append(kids, p.node)
       IN  IF Peek(t, p.at) = "," THEN ListPattern(t, p.at + 1, all)
           ELSE Close(t, Found(PList(all), p.at), "]")

ParsePattern(t, i) ==
  LET k == Peek(t, i)
      low    == Parse(t, i + 1, "bound")
      high   == Parse(t, Expect(t, low.at, "and"), "bound")
      fields == CommaList(t, i + 1, "fieldPattern")
  IN
  CASE k \in LiteralTokens -> Found(PLiteral(Literal(t, i)), i + 1)
    [] k = "-" -> IF Peek(t, i + 1) \in {"INT", "FLOAT"}
                  THEN Found(PLiteral([Literal(t, i + 1) EXCEPT !.n = -@]), i + 2)
                  ELSE NotFound
    [] k = "_"       -> Found(PWildcard, i + 1)
    [] k = "between" -> Found(PRange(low.node, high.node), high.at)
    [] k = "["       -> IF Peek(t, i + 1) = "]" THEN Found(PList(<< >>), i + 2)
                        ELSE ListPattern(t, i + 1, << >>)
    [] k = "{"       -> IF Peek(t, i + 1) = "}" THEN Found(PRecord(<< >>), i + 2)
                        ELSE Close(t, Found(PRecord(fields.node), fields.at), "}")
    [] k = "NAME"    -> Found(PBinding(TextAt(t, i)), i + 1)
    [] OTHER         -> NotFound

------------------------------------------------------------------------------
(* Types and declarations.                                                 *)
Scalars == {"string", "integer", "float", "boolean"}

(* The names of a tagged, strips or similar list: as many as follow.       *)
MaxTags == 32
Names(t, i, names) ==
  IF Peek(t, i) = "NAME" /\ Len(names) < MaxTags
  THEN Names(t, i + 1, Append(names, TextAt(t, i))) ELSE Found(names, i)

ParseType(t, i) ==
  LET k == Peek(t, i)
      inner  == Parse(t, IF k = "maybe" THEN i + 1 ELSE Expect(t, i + 1, "of"), "type")
      fields == CommaList(t, i + 1, "fieldDecl")
  IN  CASE k \in Scalars -> Found(Scalar(k), i + 1)
        [] k \in {"maybe", "list"} -> Found(Wrapped(k, inner.node), inner.at)
        [] k = "record" -> Close(t, Found(RecordType(fields.node), fields.at), "end")
        [] OTHER -> NotFound

(* A name, a separator and a tree.                                         *)
Named(t, i, separator, what) ==
  LET value == Parse(t, Expect(t, ExpectName(t, i), separator), what)
  IN  Found(Label(TextAt(t, i), value.node), value.at)

FieldDecl(t, i) ==
  LET type == Parse(t, Expect(t, ExpectName(t, i), "as"), "type")
      tags == IF Peek(t, type.at) = "tagged" THEN Names(t, type.at + 1, << >>)
              ELSE Found(<< >>, type.at)
  IN  Found(Declared(TextAt(t, i), type.node, tags.node), tags.at)

TagDef(t, i) ==
  LET at == Expect(t, i, "NAME") IN
  IF Peek(t, at) = "STR" THEN Found(Tag(TextAt(t, i), TextAt(t, at)), at + 1)
  ELSE Found(Tag(TextAt(t, i), ""), at)

CommaList(t, i, what) ==
  LET item == Parse(t, i, what)
      rest == CommaList(t, item.at + 1, what)
  IN  IF Peek(t, item.at) = "," THEN Found(<<item.node>> \o rest.node, rest.at)
      ELSE Found(<<item.node>>, item.at)

------------------------------------------------------------------------------
(* The sections of a contract, in their order; an absent one is empty.     *)
Optional(t, i, keyword, what) ==
  IF Peek(t, i) = keyword THEN CommaList(t, i + 1, what) ELSE Found(<< >>, i)

TagSection(t, i) ==
  IF Peek(t, i) = "tags" THEN Close(t, CommaList(t, i + 1, "tag"), "end")
  ELSE Found(<< >>, i)


Sanitizers(t, i) ==
  LET using  == Peek(t, i + 1) = "using"
      strips == Expect(t, IF using THEN Expect(t, i + 2, "NAME") ELSE i + 1, "strips")
      tags   == Names(t, strips, << >>)
      rest   == Sanitizers(t, IF Peek(t, tags.at) = "," THEN tags.at + 1 ELSE tags.at)
  IN  IF Peek(t, i) # "NAME" THEN Found(<< >>, i)
      ELSE Found(<<Sanitizer(TextAt(t, i), IF using THEN TextAt(t, i + 2) ELSE "",
                             tags.node)>> \o rest.node, rest.at)

SanitizerSection(t, i) ==
  IF Peek(t, i) = "sanitizers" THEN Close(t, Sanitizers(t, i + 1), "end")
  ELSE Found(<< >>, i)

(* input.a.b or output.a.b, in a rule: anything may follow a dot.          *)
Path(t, i, names) ==
  IF Peek(t, i) = "." /\ Len(names) < MaxTags
  THEN Path(t, i + 2, Append(names, TextAt(t, i + 1))) ELSE Found(names, i)

FieldRef(t, i) ==
  LET path == Path(t, i + 1, << >>) IN
  IF Peek(t, i) \in {"input", "output"}
  THEN Found(FieldRefTo(Peek(t, i) = "output", path.node), path.at)
  ELSE NotFound

Rejected(t, i) ==
  IF Peek(t, i) # "else" THEN Close(t, Found("", i), "end")
  ELSE LET at == Expect(t, i + 1, "reject")
       IN  Close(t, Found(TextAt(t, at), Expect(t, at, "STR")), "end")

ForbidRule(t, i) ==
  LET tagged == Peek(t, i) = "tagged"
      ref    == FieldRef(t, i)
      after  == IF tagged THEN Expect(t, i + 1, "NAME") ELSE ref.at
  IN  Found(IF tagged THEN ForbidTagged(TextAt(t, i + 1)) ELSE ForbidField(ref.node),
            Expect(t, Expect(t, after, "in"), "output"))

RequireRule(t, i) ==
  LET p == InOrder(t, i, <<"ref", "condition", "rejected">>)
  IN  Found(Require(p.node[1], p.node[2], p.node[3]), p.at)

MatchRule(t, i) ==
  LET p == InOrder(t, i, <<"ref", "clauses", "rejected">>)
  IN  Found(RuleMatch(p.node[1], p.node[2], p.node[3]), p.at)

Rules(t, i) ==
  LET rule == CASE Peek(t, i) = "forbid"  -> ForbidRule(t, i + 1)
                [] Peek(t, i) = "require" -> RequireRule(t, i + 1)
                [] Peek(t, i) = "match"   -> MatchRule(t, i + 1)
                [] OTHER -> NotFound
      rest == Rules(t, rule.at)
  IN  IF Peek(t, i) = "end" THEN Found(<< >>, i + 1)
      ELSE IF rule.at = 0 THEN Found(<< >>, 0)
      ELSE Found(<<rule.node>> \o rest.node, rest.at)

(* test "name" given { ... } expect { ... } end                            *)
Tests(t, i) ==
  LET given  == ParseRecord(t, Expect(t, Expect(t, Expect(t, i + 1, "STR"), "given"), "{"))
      wanted == ParseRecord(t, Expect(t, Expect(t, given.at, "expect"), "{"))
      rest   == Tests(t, Expect(t, wanted.at, "end"))
  IN  IF Peek(t, i) # "test" THEN Found(<< >>, i)
      ELSE Found(<<TestCase(TextAt(t, i + 1), given.node, wanted.node)>> \o rest.node, rest.at)

TestSection(t, i) ==
  IF Peek(t, i) = "tests" THEN Close(t, Tests(t, i + 1), "end") ELSE Found(<< >>, i)

Config(t, i) ==
  LET labels == CommaList(t, i + 1, "label") IN
  CASE Peek(t, i) # "config"     -> Found(Absent, i)
    [] Peek(t, i + 1) = "end"    -> Found(Record(<< >>), i + 2)
    [] OTHER -> Close(t, Found(Record(labels.node), labels.at), "end")

Block(t, i, keyword) ==
  Close(t, CommaList(t, Expect(t, i, keyword), "fieldDecl"), "end")

(* Trees that follow one another: the sequence of their nodes.             *)
InOrder(t, i, parts) ==
  LET Step(done, what) == LET part == Parse(t, done.at, what)
                          IN  Found(Append(done.node, part.node), part.at)
  IN  FoldLeft(Step, Found(<< >>, i), parts)

SourceContract(t, i, base) ==
  LET p == InOrder(t, i, <<"source", "config", "keyed-by", "returns">>)
  IN  Close(t, Found([base EXCEPT !.kind = "source", !.source = p.node[1],
                        !.config = p.node[2], !.keyedBy = p.node[3],
                        !.returns = p.node[4]], p.at), "end")

FunctionContract(t, i, base) ==
  LET p == InOrder(t, i, <<"sanitizers", "sources", "input", "output", "rules", "tests">>)
  IN  Close(t, Found([base EXCEPT !.sanitizers = p.node[1], !.sources = p.node[2],
                        !.input = p.node[3], !.output = p.node[4],
                        !.rules = p.node[5], !.tests = p.node[6]], p.at), "end")

ParseContract(t, i) ==
  LET p == InOrder(t, i, <<"name", "uses", "tags">>)
      base == [EmptyContract EXCEPT !.name = p.node[1], !.uses = p.node[2],
                                    !.tags = p.node[3]]
  IN  CASE Peek(t, p.at) = "source" -> SourceContract(t, p.at + 1, base)
        [] Peek(t, p.at) = "end"    -> Found([base EXCEPT !.kind = "tag"], p.at + 1)
        [] OTHER                    -> FunctionContract(t, p.at, base)

(* A body is lets, chained, and a result.                                  *)
ParseBody(t, i) ==
  IF Peek(t, i) # "let" THEN Parse(t, Expect(t, i, "result"), "expression")
  ELSE LET let  == ParseLet(t, i + 1)
           rest == ParseBody(t, let.at)
       IN  Found([let.node EXCEPT !.kids[2] = rest.node], rest.at)

ParseFunction(t, i) ==
  LET body == ParseBody(t, Expect(t, Expect(t, Expect(t, i, "NAME"), "with"), "input"))
  IN  Close(t, Found([name |-> TextAt(t, i), body |-> body.node], body.at), "end")

(* A contract, and a function for a function contract.                     *)
ContractThenFunction(t, i) ==
  LET c  == Parse(t, Expect(t, i, "contract"), "contract")
      fn == IF c.at # 0 /\ c.node.kind = "function"
            THEN Parse(t, Expect(t, c.at, "define"), "function")
            ELSE Found(NoFunction, c.at)
  IN  Found([contract |-> c.node, function |-> fn.node], fn.at)

(* The tree of each construct.                                             *)
Parse(t, i, what) ==
  CASE what = "expression"   -> ParseExpression(t, i)
    [] what = "condition"    -> ParseLevel(t, i, OrLevel)
    [] what = "bound"        -> ParseLevel(t, i, Compare)
    [] what = "filter"       -> ParseFilter(t, i)
    [] what = "map"          -> ParseMap(t, i)
    [] what = "call"         -> ParseCall(t, i + 1, TextAt(t, i))
    [] what = "clauses"      -> WhenClauses(t, i)
    [] what = "pattern"      -> ParsePattern(t, i)
    [] what = "type"         -> ParseType(t, i)
    [] what = "label"        -> Named(t, i, ":", "expression")
    [] what = "key"          -> Named(t, i, "=", "expression")
    [] what = "fieldPattern" -> Named(t, i, ":", "pattern")
    [] what = "fieldDecl"    -> FieldDecl(t, i)
    [] what = "name"         -> Found(TextAt(t, i), Expect(t, i, "NAME"))
    [] what = "tag"          -> TagDef(t, i)
    [] what = "ref"          -> FieldRef(t, i)
    [] what = "rejected"     -> Rejected(t, i)
    [] what = "uses"         -> Optional(t, i, "uses", "name")
    [] what = "tags"         -> TagSection(t, i)
    [] what = "source"       -> Found(TextAt(t, i), Expect(t, i, "STR"))
    [] what = "config"       -> Config(t, i)
    [] what = "keyed-by"     -> CommaList(t, Expect(t, i, "keyed-by"), "fieldDecl")
    [] what = "returns"      -> Parse(t, Expect(t, i, "returns"), "type")
    [] what = "sanitizers"   -> SanitizerSection(t, i)
    [] what = "sources"      -> Optional(t, i, "sources", "name")
    [] what \in {"input", "output"} -> Block(t, i, what)
    [] what = "rules" -> IF Peek(t, i) = "rules" THEN Rules(t, i + 1) ELSE Found(<< >>, i)
    [] what = "tests"        -> TestSection(t, i)
    [] what = "contract"     -> ParseContract(t, i)
    [] what = "function"     -> ParseFunction(t, i)
    [] what = "program"      -> ContractThenFunction(t, i)

(* A program, or << >> for a text that is none.                            *)
ParseProgram(t) ==
  LET p == Parse(t, 1, "program") IN IF p.at = Len(t) + 1 THEN <<p.node>> ELSE << >>

==============================================================================
