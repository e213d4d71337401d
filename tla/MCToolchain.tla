------------------------------ MODULE MCToolchain ------------------------------
(***************************************************************************)
(* The programs TLC sends through the tools: one contract around every     *)
(* body, and contracts that vary in each of their sections.                *)
(***************************************************************************)
EXTENDS Toolchain, MCPrograms

IntType == Scalar("integer")
StrType == Scalar("string")
Inner == RecordType(<<Declared("a", IntType, <<"pii">>), Declared("b", Wrapped("list", IntType), << >>)>>)
Types ==
  {IntType, StrType, Scalar("float"), Scalar("boolean"), Wrapped("maybe", StrType),
   Wrapped("list", Wrapped("maybe", IntType)), Inner, Wrapped("list", Inner),
   RecordType(<<Declared("r", Inner, <<"key", "pii">>), Declared("input", IntType, << >>)>>)}

(* The contract of the bodies.                                             *)
Plain ==
  [EmptyContract EXCEPT
     !.name = "main", !.uses = <<"double">>,
     !.tags = <<Tag("pii", "private"), Tag("money", ""), Tag("key", "a key"), Tag("raw", "")>>,
     !.input = <<Declared("x", IntType, <<"pii">>), Declared("s", StrType, <<"money">>),
                 Declared("l", Wrapped("list", IntType), <<"key">>),
                 Declared("m", Wrapped("maybe", IntType), <<"raw">>),
                 Declared("r", RecordType(<<Declared("a", IntType, << >>)>>), <<"pii", "key">>)>>,
     !.output = <<Declared("value", IntType, << >>), Declared("s", StrType, <<"money">>),
                  Declared("r", Inner, << >>)>>]
Untagged == [i \in DOMAIN Plain.input |-> [Plain.input[i] EXCEPT !.kids = <<@[1]>>]]

Main(body) == [name |-> "main", body |-> body]
AroundBody(body) == [contract |-> Plain, function |-> Main(body)]

(* Contracts: one section varied at a time.                                *)
TagLists == {<< >>, <<Tag("pii", "")>>, <<Tag("key", "a key"), Tag("pii", "private")>>}
SanitizerLists ==
  {<<Sanitizer("length", "", <<"pii">>)>>,
   <<Sanitizer("clean", "length", <<"pii", "key">>), Sanitizer("length", "", <<"pii">>)>>}
SourceLists == {<<"people">>, <<"people", "missing", "notes", "vocabulary", "broken">>}
FieldLists ==
  {<<Declared("f", type, tags)>> : type \in Types, tags \in {<< >>, <<"pii">>, <<"raw", "key">>}}
  \cup {<<Declared("f", a, <<"pii">>), Declared("g", b, << >>)>> : a \in Types, b \in Types}
Clauses1 ==
  <<When(PLiteral(IntLit(1)), Absent, BoolLit(TRUE)),
    When(PRecord(<<Label("a", PWildcard)>>), Absent, BoolLit(FALSE))>>
Guarded ==
  <<When(PLiteral(IntLit(1)), Binary("GT", Ident("s"), Neg(FloatLit(2000001))), BoolLit(TRUE))>> \o Clauses1
RuleLists ==
  {<<r>> : r \in {ForbidField(FieldRefTo(TRUE, <<"r", "a">>)), ForbidField(FieldRefTo(FALSE, <<"s">>)),
                  ForbidTagged("pii"), ForbidTagged("raw"),
                  RuleMatch(FieldRefTo(TRUE, <<"s">>), Clauses1, ""),
                  RuleMatch(FieldRefTo(FALSE, <<"x">>), Guarded, "no")}}
  \cup {<<Require(FieldRefTo(FALSE, <<"s">>), Binary("GT", Ident("s"), IntLit(0)), msg),
          ForbidTagged("key"), RuleMatch(FieldRefTo(TRUE, <<"s">>), Clauses1, "no")>> :
          msg \in {"", "too small"}}
TestLists ==
  {<<TestCase("one", Record(<<Label("x", IntLit(1))>>), Record(<<Label("value", List(<< >>))>>)),
     TestCase("none", Record(<< >>), Record(<<Label("value", NothingLit)>>))>>,
   <<TestCase("long", Record(<<Label("x", FloatLit(1999999))>>),
              Record(<<Label("value", Neg(IntLit(1)))>>))>>}

FunctionContracts ==
  {[Plain EXCEPT !.input = Untagged, !.tags = v] : v \in TagLists}
  \cup {[Plain EXCEPT !.sanitizers = v] : v \in SanitizerLists}
  \cup {[Plain EXCEPT !.sources = v] : v \in SourceLists}
  \cup {[Plain EXCEPT !.input = v] : v \in FieldLists}
  \cup {[Plain EXCEPT !.output = v] : v \in FieldLists}
  \cup {[Plain EXCEPT !.rules = v] : v \in RuleLists}
  \cup {[Plain EXCEPT !.tests = v] : v \in TestLists}
  \cup {[Plain EXCEPT !.tags = t, !.sanitizers = s, !.sources = n, !.input = Untagged,
                        !.output = <<f, Declared("s", IntType, << >>)>>, !.rules = r] :
           t \in TagLists, s \in SanitizerLists, n \in SourceLists, r \in RuleLists,
           f \in {Declared("r", Inner, <<"key">>), Declared("r", IntType, << >>)}}

(* Contracts the checker rejects, for each of its reasons.                 *)
RejectedContracts ==
  {[Plain EXCEPT !.name = "other"], [Plain EXCEPT !.input = Append(@, Plain.input[1])],
   [Plain EXCEPT !.output = Append(@, @[1])], [Plain EXCEPT !.tags = Append(@, @[1])],
   [Plain EXCEPT !.sanitizers = <<Sanitizer("clean", "launder", <<"pii">>)>>],
   [Plain EXCEPT !.sanitizers = <<Sanitizer("length", "", <<"pii">>), Sanitizer("length", "", <<"key">>)>>],
   [Plain EXCEPT !.output = <<Declared("value", IntType, <<"unknown">>)>>],
   [Plain EXCEPT !.rules = <<ForbidField(FieldRefTo(TRUE, <<"x">>))>>],
   [Plain EXCEPT !.tests = <<TestCase("one", Record(<<Label("q", IntLit(1))>>), Record(<< >>))>>],
   [Plain EXCEPT !.tests = [i \in 1 .. 2 |-> TestCase("one", Record(<< >>), Record(<< >>))]]}

Byname == Lookup("people", <<Label("id", StrLit("a")), Label("v", IntLit(1))>>)
Cleaned == Call("clean", <<Label("value", List(<<FloatLit(3), StrLit("")>>))>>)

(* Source and tag contracts have no function.                              *)
SourceContract1(config, keyed) ==
  [EmptyContract EXCEPT !.name = "people", !.kind = "source", !.source = "file",
     !.config = config, !.keyedBy = keyed, !.returns = Inner]
Keys1 == <<Declared("id", StrType, <<"key">>), Declared("v", IntType, << >>)>>
Config1 ==
  Record(<<Label("type", StrLit("file")), Label("ttl", IntLit(9)), Label("raw", BoolLit(FALSE)),
           Label("rate", FloatLit(200001)), Label("delay", FloatLit(-3))>>)
Untyped == Record(<<Label("path", StrLit("p.json")), Label("ttl", List(<< >>))>>)
Negated == Record(<<Label("type", StrLit("file")), Label("delay", Neg(FloatLit(3)))>>)
OtherContracts ==
  {SourceContract1(c, k) : c \in {Absent, Record(<< >>), Config1, Untyped, Negated}, k \in {Keys1, Tail(Keys1)}}
  \cup {[EmptyContract EXCEPT !.name = "vocabulary", !.kind = "tag", !.tags = t] :
          t \in TagLists \ {<< >>}}

MCSourceFiles ==
  "people" :> SourceContract1(Config1, Keys1) @@ "notes" :> SourceContract1(Absent, Tail(Keys1))
  @@ "broken" :> SourceContract1(Untyped, Keys1)
  @@ "vocabulary" :> [EmptyContract EXCEPT !.kind = "tag"]

(* Names in and out of scope: each binder around and next to each use.     *)
UsedNames == {Ident(n) : n \in {"x", "y", "z"}}
BindingPatterns ==
  {PBinding("y"), PRecord(<<Label("a", PBinding("y")), Label("b", PBinding("z"))>>),
   PListRest(<<PBinding("y")>>, "z"), PList(<<PBinding("y"), PBinding("y")>>)}
Binders1 ==
  {MapE(n, L, u) : n \in {"x", "y", "z"}, u \in UsedNames}
  \cup {Filter(n, L, u) : n \in {"x", "y", "z"}, u \in UsedNames}
  \cup {Match(L, <<When(p, Absent, u)>>, w) : p \in BindingPatterns, u \in UsedNames, w \in UsedNames}
  \cup {Match(X, <<When(PBinding("y"), u, w), When(PBinding("y"), Absent, u)>>, Absent) :
           u \in UsedNames, w \in UsedNames}
ScopedBodies ==
  Binders1 \cup {MapE(n, b, List(<<c, Ident("z")>>)) : n \in {"y", "z"}, b \in {L, MapE("y", L, Y)}, c \in Binders1}
  \cup {Let(n, b, u) : n \in {"x", "y", "z"}, b \in UsedNames \cup Binders1, u \in UsedNames}
  \cup {Let("y", X, Let("z", b, List(<<Y, u>>))) : b \in Binders1, u \in UsedNames}

(* What else may be wrong in a body.                                       *)
WrongBodies ==
  {Call("launder", <<Label("value", X)>>), Call("main", << >>), Input("q"), Byname,
   Call("fold", <<Label("list", L)>>), Through(L, Ident("length")),
   Through(L, FoldOf(L, X, "add")), Match(L, <<When(PListRest(<< >>, "n"), Absent, N)>>, Absent)}

(* Numbers that are not printed as they stand: too long, or negated.       *)
LongFloats == {FloatLit(n) : n \in {199999, 200001, 200003, 200005, 1999999, 20000010, 20000011}}
PrintedOtherwise ==
  UNION {{f, Neg(f), Neg(Neg(f)), Neg(Paren(f)), Access(f, "a"), Neg(Access(Access(f, "a"), "b")),
          Match(X, <<When(PRange(Neg(f), f), Absent, f)>>, N)} :
           f \in LongFloats \cup {IntLit(7), FloatLit(0)}}

(* Pairs of a function and its contract.                                   *)
MCParts ==
  ({<<NoFunction, c>> : c \in OtherContracts}
   \cup {<<Main(IntLit(1)), c>> : c \in FunctionContracts \cup RejectedContracts}
   \cup {<<Main(b), [Plain EXCEPT !.sources = s, !.sanitizers = z]>> :
            s \in SourceLists, z \in SanitizerLists, b \in {Byname, Cleaned, List(<<Byname, Cleaned>>)}})
  \cup ({<<Main(b), Plain>> : b \in ScopedBodies \cup (WrongBodies \cup PrintedOtherwise \cup {q[1] : q \in Inlined})}
        \cup {<<Main(b), Plain>> : b \in PlainBodies})

MCPrograms1 == {[contract |-> q[2], function |-> q[1]] : q \in MCParts}

(* A contract that uses two others.                                        *)
TwoUses == {[contract |-> [Plain EXCEPT !.uses = <<"double", "shift">>], function |-> Main(IntLit(1))]}

(* The packets.  TLC keeps statistics of what Init refers to, down to the  *)
(* parser and the compiler; it does not look into a LET, which saves half  *)
(* of its time.                                                            *)
MCWritten == LET journeys == Journeys IN journeys

==============================================================================
