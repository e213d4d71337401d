------------------------------ MODULE HelunaChecker ------------------------------
(***************************************************************************)
(* The checker: the errors of a program.  It walks the body with a stack   *)
(* of the names in scope, which every construct that adds names cuts back  *)
(* to what it was; names may not be bound again while they are in scope.   *)
(* An error is what is wrong and the name that is.                         *)
(***************************************************************************)
EXTENDS HelunaContract, SequencesExt

StdlibFunctions ==
  {"upper", "lower", "trim", "trim-start", "trim-end", "substring", "replace", "split",
   "join", "starts-with", "ends-with", "contains", "length", "pad-left", "pad-right",
   "regex-match", "regex-replace", "abs", "ceil", "floor", "round", "min", "max", "clamp",
   "sort", "sort-by", "reverse", "unique", "flatten", "zip", "range", "slice", "fold",
   "keys", "values", "merge", "pick", "omit", "parse-date", "format-date", "date-diff",
   "date-add", "now-date", "base64-encode", "base64-decode", "url-encode", "url-decode",
   "json-encode", "json-parse", "sha256", "hmac-sha256", "uuid", "to-string", "to-float",
   "to-integer"}

Checker(prog) == [prog |-> prog, scope |-> << >>, errors |-> {}]

ReportIf(c, wrong, what, name) ==
  IF wrong THEN [c EXCEPT !.errors = @ \cup {<<what, name>>}] ELSE c

PushName(c, name) == [c EXCEPT !.scope = Append(@, name)]

(* A faulty variant: the names of the construct stay in scope.             *)
KeepNames(c, entered) == c

CutBack(c, entered) == [c EXCEPT !.scope = SubSeq(@, 1, Len(entered.scope))]

NamesOf(items) == {items[i].name : i \in DOMAIN items}
Repeated(items) ==
  {items[j].name : j \in {k \in DOMAIN items : \E i \in 1 .. k - 1 : items[i].name = items[k].name}}

------------------------------------------------------------------------------
(* The body.                                                               *)
RECURSIVE CheckPattern(_, _), CheckExpr(_, _)

CheckAll(c, es) == FoldLeft(LAMBDA acc, e : CheckExpr(acc, e), c, es)

(* A name that is in scope already is not pushed again.                    *)
BindName(c, name) ==
  IF Contains(c.scope, name) THEN ReportIf(c, TRUE, "shadows", name) ELSE PushName(c, name)

CheckPattern(c, p) ==
  LET bound == FoldLeft(LAMBDA acc, q : CheckPattern(acc, q), c, p.kids) IN
  CASE p.kind \in {"binding", "listPattern"} /\ p.name # "" -> BindName(bound, p.name)
    [] p.kind \in {"listPattern", "recordPattern", "label"} -> bound
    [] OTHER -> c

CheckClause(c, clause) ==
  CutBack(CheckAll(CheckPattern(c, clause.kids[1]), Tail(clause.kids)), c)

(* A faulty variant: the name is in scope of what it names.                *)
BindBefore(c, e) ==
  CutBack(CheckAll(BindName(c, e.name), e.kids), c)

(* let, filter and map: what comes first does not see the name.            *)
CheckBinder(c, e) ==
  LET first == CheckExpr(c, e.kids[1])
      named == ReportIf(first, Contains(first.scope, e.name), "shadows", e.name)
  IN  CutBack(CheckExpr(PushName(named, e.name), e.kids[2]), first)

CheckCall(c, e) ==
  LET k == c.prog.contract
      known == StdlibFunctions \cup ToSet(k.uses) \cup NamesOf(k.sanitizers)
      self  == e.name = c.prog.function.name
      named == ReportIf(ReportIf(c, self, "calls itself", e.name),
                        ~self /\ e.name \notin known, "unknown function", e.name)
  IN  CheckAll(named, e.kids)

CheckLookup(c, e) ==
  CheckAll(ReportIf(c, ~Contains(c.prog.contract.sources, e.name), "undeclared source", e.name),
           e.kids)

CheckExpr(c, e) ==
  CASE e.kind = "ident"  -> ReportIf(c, ~Contains(c.scope, e.name), "undefined", e.name)
    [] e.kind = "input"  ->
         ReportIf(c, e.name \notin NamesOf(c.prog.contract.input), "no such input", e.name)
    [] e.kind = "when"   -> CheckClause(c, e)
    [] e.kind \in {"let", "filter", "map"} -> CheckBinder(c, e)
    [] e.kind = "call"   -> CheckCall(c, e)
    [] e.kind = "lookup" -> CheckLookup(c, e)
    [] OTHER             -> CheckAll(c, e.kids)

CheckFunction(prog) ==
  LET inputs == FoldLeft(LAMBDA c, f : PushName(c, f.name), Checker(prog), prog.contract.input)
  IN  CheckExpr(inputs, prog.function.body).errors

------------------------------------------------------------------------------
(* The contract.                                                           *)
Wrong(what, names) == {<<what, name>> : name \in names}

CheckConfig(config) ==
  Wrong("no literal", {l.name : l \in {l \in ToSet(config.kids) : l.kids[1].kind \notin Literals}})
  \cup Wrong("no field", {"type"} \ NamesOf(config.kids))

CheckOtherContract(k) ==
  Wrong("repeated tag", Repeated(k.tags))
  \cup (IF k.kind = "tag" /\ k.tags = << >> THEN {<<"no tags", k.name>>} ELSE {})
  \cup (IF k.kind = "source" /\ k.keyedBy = << >> THEN {<<"no keys", k.name>>} ELSE {})
  \cup (IF k.kind = "source" /\ k.returns = Absent THEN {<<"no type", k.name>>} ELSE {})
  \cup (IF k.kind = "source" /\ k.config # Absent THEN CheckConfig(k.config) ELSE {})

CheckFunctionContract(k, function) ==
  Wrong("other name", {function.name} \ {k.name})
  \cup (IF k.input = << >> THEN {<<"no inputs", k.name>>} ELSE {})
  \cup (IF k.output = << >> THEN {<<"no outputs", k.name>>} ELSE {})
  \cup Wrong("repeated input", Repeated(k.input))
  \cup Wrong("repeated output", Repeated(k.output))
  \cup Wrong("repeated tag", Repeated(k.tags))
  \cup Wrong("repeated sanitizer", Repeated(k.sanitizers))
  \cup Wrong("repeated test", Repeated(k.tests))

(* The tags of declared fields and of sanitizers; tags inside a record     *)
(* type are not looked at, nor those of a tag contract that is used.       *)
CheckTags(k) ==
  LET used == UNION ({TagsOf(f) : f \in ToSet(k.input) \cup ToSet(k.output)}
                     \cup {ToSet(s.strips) : s \in ToSet(k.sanitizers)})
  IN  Wrong("undeclared tag", used \ NamesOf(k.tags))

CheckSanitizers(k) ==
  Wrong("no such implementation",
        {s.impl : s \in ToSet(k.sanitizers)} \ ({""} \cup StdlibFunctions \cup ToSet(k.uses)))

(* Of a rule's field the first name is looked at; a rule's condition and   *)
(* clauses are not.                                                        *)
CheckRule(k, rule) ==
  LET fields == IF rule.ref.output THEN k.output ELSE k.input IN
  IF rule.kind = "forbidTagged" THEN Wrong("undeclared tag", {rule.tag} \ NamesOf(k.tags))
  ELSE Wrong("no such field", ToSet(SubSeq(rule.ref.path, 1, 1)) \ NamesOf(fields))

CheckTest(k, test) ==
  Wrong("no such field", NamesOf(test.given.kids) \ NamesOf(k.input))
  \cup Wrong("no such field", NamesOf(test.wanted.kids) \ NamesOf(k.output))

CheckerCheck(prog) ==
  LET k == prog.contract IN
  IF k.kind # "function" THEN CheckOtherContract(k)
  ELSE CheckFunctionContract(k, prog.function) \cup CheckTags(k) \cup CheckSanitizers(k)
       \cup UNION {CheckRule(k, rule) : rule \in ToSet(k.rules)}
       \cup UNION {CheckTest(k, test) : test \in ToSet(k.tests)}
       \cup CheckFunction(prog)

------------------------------------------------------------------------------
(* What the walk should find, from the tree alone: the names a tree needs  *)
(* from outside, those it binds, and whether it binds one again.           *)
RECURSIVE Binds(_), Needs(_), BindsAgain(_)

Binds(e) ==
  UNION {Binds(kid) : kid \in ToSet(e.kids)}
  \cup (IF e.kind \in {"let", "filter", "map", "binding", "listPattern"} /\ e.name # ""
        THEN {e.name} ELSE {})

(* The kids a construct binds names in, and those names.                   *)
ScopeOf(e) == CASE e.kind = "when" -> {2, 3}
                [] e.kind \in {"let", "filter", "map"} -> {2}
                [] OTHER -> {}
BoundIn(e) == IF e.kind = "when" THEN Binds(e.kids[1]) ELSE {e.name}

OfKids(e, places, F(_)) == UNION {F(e.kids[i]) : i \in places}

Needs(e) ==
  IF e.kind = "ident" THEN {e.name}
  ELSE OfKids(e, DOMAIN e.kids \ ScopeOf(e), Needs)
       \cup (OfKids(e, ScopeOf(e), Needs) \ BoundIn(e))

BindsAgain(e) ==
  \/ BoundIn(e) \cap OfKids(e, ScopeOf(e), Binds) # {}
  \/ \E i, j \in DOMAIN e.kids :
       /\ i < j /\ e.kind \in {"listPattern", "recordPattern"}
       /\ Binds(e.kids[i]) \cap Binds(e.kids[j]) # {}
  \/ e.kind = "listPattern" /\ e.name \in OfKids(e, DOMAIN e.kids, Binds)
  \/ \E kid \in ToSet(e.kids) : BindsAgain(kid)

WellScoped(prog) ==
  LET inputs == NamesOf(prog.contract.input)  body == prog.function.body IN
  Needs(body) \subseteq inputs /\ inputs \cap Binds(body) = {} /\ ~BindsAgain(body)

==============================================================================
