------------------------------ MODULE HelunaTags ------------------------------
(***************************************************************************)
(* Security tags: the inputs an answer tells something about, so that it   *)
(* must carry their tags.  The evaluator decides: an input matters if      *)
(* another value of its kind changes the meaning.                          *)
(***************************************************************************)
EXTENDS HelunaPackage

CONSTANT Variants    \* bound: the values an input is replaced by

With(in, name, v) ==
  [in EXCEPT !.fields = [i \in DOMAIN @ |->
     IF @[i].name = name THEN Field(name, v) ELSE @[i]]]

Matters(s, f) ==
  \E v \in Variants :
    /\ v.kind = Get(s.input, f.name).kind
    /\ Means(s, With(s.input, f.name, v)) # Means(s, s.input)

(* Programs whose value is all that is told of an input: no comparison,    *)
(* branch, iteration or fold (what is told by the way taken is no tag's).  *)
StraightKinds ==
  {"integer", "float", "string", "boolean", "nothing", "ident", "input", "binary",
   "negate", "paren", "access", "orElse", "let", "list", "label", "record", "call",
   "through"}

RECURSIVE Straight(_)
Straight(e) ==
  /\ e.kind \in StraightKinds
  /\ e.kind = "binary" => e.name \in {"ADD", "SUB", "MUL", "DIV", "MOD"}
  /\ e.kind = "call" => e.name # "fold"
  /\ \A i \in DOMAIN e.kids : Straight(e.kids[i])

Influence(s) ==
  IF Straight(s.prog.body)
  THEN UNION {f.tags : f \in {g \in Range(s.prog.inputs) : Matters(s, g)}} ELSE {}

(* The packages with the tags their answers should carry.                  *)
Tagged == {Package(s) @@ [influence |-> Influence(s)] : s \in Sources}

==============================================================================
