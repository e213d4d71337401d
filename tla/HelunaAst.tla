------------------------------- MODULE HelunaAst -------------------------------
(***************************************************************************)
(* Programs as the parser hands them on.  Expressions and patterns are     *)
(* trees of one shape, [kind, name, n, kids]: kind is the AstExprKind or   *)
(* AstPatternKind, name and n the literal, identifier or operator, kids    *)
(* the subtrees in the order of the AST's fields and lists.                *)
(***************************************************************************)
EXTENDS Integers, Sequences

Node(kind, name, n, kids) ==
  [kind |-> kind, name |-> name, n |-> n, kids |-> kids]

Absent == Node("absent", "", 0, << >>)

IntLit(n)     == Node("integer", "", n, << >>)
FloatLit(n)  == Node("float", "", n, << >>)
StrLit(s)     == Node("string", s, 0, << >>)
BoolLit(b)    == Node("boolean", "", IF b THEN 1 ELSE 0, << >>)
NothingLit == Node("nothing", "", 0, << >>)
Ident(x)   == Node("ident", x, 0, << >>)
Input(x)   == Node("input", x, 0, << >>)

Binary(op, l, r) == Node("binary", op, 0, <<l, r>>)
Neg(e)           == Node("negate", "", 0, <<e>>)
NotE(e)          == Node("not", "", 0, <<e>>)
Paren(e)         == Node("paren", "", 0, <<e>>)
Access(e, f)     == Node("access", f, 0, <<e>>)
IsType(e, type)  == Node("is", type, 0, <<e>>)
OrElse(e, f)     == Node("orElse", "", 0, <<e, f>>)
Let(x, e, body)  == Node("let", x, 0, <<e, body>>)
List(elements)   == Node("list", "", 0, elements)

(* A record's labels, a lookup's keys and a record pattern's fields.       *)
Label(f, e)      == Node("label", f, 0, <<e>>)
Record(labels)   == Node("record", "", 0, labels)
Lookup(s, keys)  == Node("lookup", s, 0, keys)
Call(f, labels)  == Node("call", f, 0, <<Record(labels)>>)

(* if c then a else if d then b else e has kids c, a, d, b, e: the parser  *)
(* insists on the else branch.                                             *)
If(kids)         == Node("if", "", 0, kids)

(* A when clause is its pattern, its guard (or Absent) and its body; the   *)
(* else body of a match may be Absent.                                     *)
When(p, g, body) == Node("when", "", 0, <<p, g, body>>)
Match(e, clauses, else) == Node("match", "", 0, <<e>> \o clauses \o <<else>>)

Filter(x, e, pred) == Node("filter", x, 0, <<e, pred>>)
MapE(x, e, body)   == Node("map", x, 0, <<e, body>>)
Through(l, r)      == Node("through", "", 0, <<l, r>>)

PLiteral(e)    == Node("literal", "", 0, <<e>>)
PWildcard      == Node("wildcard", "", 0, << >>)
PBinding(x)    == Node("binding", x, 0, << >>)
PRange(lo, hi) == Node("range", "", 0, <<lo, hi>>)
(* n = 1 for a list pattern with a rest, whose name is "" when unnamed.    *)
PList(ps)      == Node("listPattern", "", 0, ps)
PListRest(ps, x) == Node("listPattern", x, 1, ps)
PRecord(fields)  == Node("recordPattern", "", 0, fields)

Literals == {"integer", "float", "string", "boolean"}

------------------------------------------------------------------------------
(* The trees the parser builds.  An expression has the level of the parse  *)
(* function that makes its top node, from parse_expression to parse_atom,  *)
(* and each function takes its operands from the functions below it.       *)
Expression == 0    Pipeline == 1    OrLevel == 2     AndLevel == 3    NotLevel == 4
Compare == 5       Arith == 6       Term == 7        Unary == 8       Atom == 9

BinaryLevels ==
  [op \in {"OR", "AND", "EQ", "NEQ", "LT", "GT", "LTE", "GTE",
           "ADD", "SUB", "MUL", "DIV", "MOD"} |->
     CASE op = "OR"  -> OrLevel
       [] op = "AND" -> AndLevel
       [] op \in {"ADD", "SUB"} -> Arith
       [] op \in {"MUL", "DIV", "MOD"} -> Term
       [] OTHER -> Compare]

Level(e) ==
  CASE e.kind \in {"if", "match", "filter", "map", "lookup"} -> Expression
    [] e.kind = "through" -> Pipeline
    [] e.kind = "orElse"  -> OrLevel
    [] e.kind = "binary"  -> BinaryLevels[e.name]
    [] e.kind = "not"     -> NotLevel
    [] e.kind = "is"      -> Compare
    [] e.kind = "negate"  -> Unary
    [] OTHER              -> Atom

(* The level operand i of an expression is parsed at.                      *)
OperandLevel(e, i) ==
  LET top == Level(e) IN
  CASE e.kind \in {"binary", "is", "orElse"} ->
         IF top = Compare THEN Arith ELSE IF i = 1 THEN top ELSE top + 1
    [] e.kind = "through" -> IF i = 1 THEN OrLevel ELSE Expression
    [] e.kind \in {"not", "negate", "access"} -> top
    [] e.kind = "if"      -> IF i % 2 = 1 /\ i < Len(e.kids) THEN OrLevel ELSE Expression
    [] e.kind = "filter"  -> IF i = 2 THEN OrLevel ELSE Expression
    [] e.kind = "when"    -> IF i = 2 THEN OrLevel ELSE Expression
    [] e.kind = "range"   -> Compare
    [] OTHER              -> Expression

RECURSIVE Parses(_)
Parses(e) ==
  /\ e.kind # "let"
  /\ e.kind = "through" => e.kids[2].kind \in {"filter", "map", "call", "ident"}
  /\ \A i \in DOMAIN e.kids :
       Level(e.kids[i]) >= OperandLevel(e, i) /\ Parses(e.kids[i])

(* parse_function_def: the body is a chain of lets ended by the result.    *)
RECURSIVE IsBody(_)
IsBody(e) == IF e.kind = "let" THEN Parses(e.kids[1]) /\ IsBody(e.kids[2]) ELSE Parses(e)

(* A program: its input and output fields (a field is [name, type]), its   *)
(* sanitizers (name and implementation, "" for the name itself), and body. *)
Program(inputs, outputCount, sanitizers, body) ==
  [inputs |-> inputs, outputCount |-> outputCount,
   sanitizers |-> sanitizers, body |-> body]

==============================================================================
