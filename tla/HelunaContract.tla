----------------------------- MODULE HelunaContract -----------------------------
(***************************************************************************)
(* Contracts: what a program declares around its function.  Types and      *)
(* field declarations are trees like expressions; the other declarations   *)
(* and the contract are records of the AST's fields.  A text that is       *)
(* absent (no description, no message, no implementation) is "".           *)
(***************************************************************************)
EXTENDS HelunaAst

Scalar(name)       == Node("type", name, 0, << >>)
Wrapped(by, inner) == Node("type", by, 0, <<inner>>)
RecordType(fields) == Node("type", "record", 0, fields)

(* The kids of a declared field are its type and its tags.                 *)
Declared(name, type, tags) ==
  Node("field", name, 0, <<type>> \o [i \in DOMAIN tags |-> Ident(tags[i])])
TypeOf(field) == field.kids[1]
TagsOf(field) == {field.kids[i].name : i \in 2 .. Len(field.kids)}
TagNames(field) == [i \in 1 .. Len(field.kids) - 1 |-> field.kids[i + 1].name]

Tag(name, description) == [name |-> name, description |-> description]
Sanitizer(name, impl, strips) == [name |-> name, impl |-> impl, strips |-> strips]

FieldRefTo(output, path) == [output |-> output, path |-> path]
NoRef == FieldRefTo(FALSE, << >>)

Rule(kind, ref, tag, condition, clauses, message) ==
  [kind |-> kind, ref |-> ref, tag |-> tag, condition |-> condition,
   clauses |-> clauses, message |-> message]
ForbidField(ref)      == Rule("forbidField", ref, "", Absent, << >>, "")
ForbidTagged(tag)     == Rule("forbidTagged", NoRef, tag, Absent, << >>, "")
Require(ref, cond, message)       == Rule("require", ref, "", cond, << >>, message)
RuleMatch(ref, clauses, message)  == Rule("match", ref, "", Absent, clauses, message)

TestCase(name, given, wanted) == [name |-> name, given |-> given, wanted |-> wanted]

(* A function contract without sections; source and tag contracts use      *)
(* sections of their own.                                                  *)
EmptyContract ==
  [name |-> "", kind |-> "function", uses |-> << >>, tags |-> << >>,
   source |-> "", config |-> Absent, keyedBy |-> << >>, returns |-> Absent,
   sanitizers |-> << >>, sources |-> << >>, input |-> << >>, output |-> << >>,
   rules |-> << >>, tests |-> << >>]

NoFunction == [name |-> "", body |-> Absent]

==============================================================================
