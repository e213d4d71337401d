------------------------------ MODULE MCPrograms ------------------------------
(***************************************************************************)
(* Small bodies over five inputs, grouped by the construct they exercise,  *)
(* and the dependencies they call.                                         *)
(***************************************************************************)
EXTENDS HelunaAst, TLC

MCStdlib == "length" :> 13

Inputs ==
  <<[name |-> "x", type |-> "integer", tags |-> {0}],
    [name |-> "s", type |-> "string",  tags |-> {1}],
    [name |-> "l", type |-> "list",    tags |-> {2}],
    [name |-> "m", type |-> "unknown", tags |-> {3}],
    [name |-> "r", type |-> "record",  tags |-> {0, 2}]>>

(* The dependencies: one doubles its input; the other has an input and a  *)
(* local named like the caller's.                                          *)
MCDeps ==
  "double" :> Program(<<[name |-> "n", type |-> "integer", tags |-> {}]>>, 1, << >>,
                Record(<<Label("value", Binary("MUL", Input("n"), IntLit(2)))>>))
  @@ "shift" :> Program(<<[name |-> "x", type |-> "integer", tags |-> {}],
                          [name |-> "l", type |-> "list", tags |-> {}]>>, 1, << >>,
                Let("y", Binary("ADD", Input("x"), IntLit(1)),
                    Record(<<Label("v", Ident("y")), Label("l", Input("l"))>>)))

X == Input("x")   S == Input("s")   L == Input("l")   M == Input("m")
R == Input("r")

Atoms == {IntLit(0), IntLit(2), FloatLit(4), BoolLit(TRUE), X, M, L, R, NothingLit}
TestedOperators == {"ADD", "SUB", "MUL", "DIV", "MOD", "EQ", "NEQ", "LT", "GTE",
              "AND", "OR"}

Integers1 == {IntLit(0), Neg(IntLit(7)), Neg(IntLit(2)), X, IntLit(5)}

Scalars1 ==
  {Binary(op, a, b) : op \in TestedOperators \ {"MOD"}, a \in Atoms, b \in Atoms}
  \cup {Binary("MOD", a, b) : a \in Integers1, b \in Integers1}
  \cup {Binary(op, S, b) : op \in {"ADD", "EQ", "LTE", "GT"}, b \in {S, StrLit("ab")}}
  \cup {Neg(a) : a \in Atoms} \cup {NotE(a) : a \in Atoms}
  \cup {IsType(a, t) : a \in Atoms, t \in {"integer", "nothing", "list"}}

Conditions ==
  {Binary("EQ", X, IntLit(1)), Binary("LT", X, IntLit(1)), BoolLit(FALSE), X,
   IsType(M, "nothing"), Binary("NEQ", X, M), NotE(Binary("NEQ", X, M)),
   Paren(Binary("AND", Binary("GTE", X, IntLit(0)), Binary("EQ", M, NothingLit)))}

Bodies == {X, IntLit(2), List(<<X>>), Record(<<Label("a", M)>>)}

Conditionals ==
  {If(<<c, a, b>>) : c \in Conditions, a \in Bodies, b \in Bodies}
  \cup {If(<<c, IntLit(1), k, IntLit(2), X>>) : c \in Conditions, k \in Conditions}
  \cup {If(<<c, If(<<k, IntLit(1), X>>), IntLit(2)>>) : c \in Conditions, k \in Conditions}

N == Ident("n")

(* Clauses whose patterns any subject can be tested against.               *)
Patterns ==
  {PLiteral(IntLit(1)), PLiteral(NothingLit), PLiteral(StrLit("a")), PWildcard,
   PBinding("n"), PRecord(<<Label("a", PBinding("n"))>>),
   PRecord(<<Label("a", PLiteral(IntLit(1))), Label("b", PWildcard)>>)}
Guards == {Absent, Binary("EQ", X, IntLit(1))}

ListPatterns ==
  {PList(<< >>), PList(<<PBinding("n")>>), PList(<<PWildcard, PBinding("n")>>),
   PList(<<PLiteral(IntLit(1)), PBinding("n")>>), PListRest(<< >>, "")}

Ranges == {PRange(IntLit(0), IntLit(0)), PRange(IntLit(1), FloatLit(3))}

Matches ==
  {Match(e, <<When(p, g, IntLit(1)), When(q, Absent, IntLit(2))>>, o) :
     e \in {X, M, S, R, Record(<<Label("a", X), Label("b", L)>>)},
     p \in Patterns, g \in Guards, q \in Patterns, o \in {Absent, StrLit("a")}}
  \cup {Match(L, <<When(p, Absent, N), When(q, Absent, IntLit(2))>>, Absent) :
           p \in {p \in ListPatterns : \E i \in DOMAIN p.kids : p.kids[i] = PBinding("n")},
           q \in ListPatterns}
  \cup {Match(X, <<When(p, Absent, StrLit("a")), When(q, g, X)>>, IntLit(7)) :
           p \in Ranges, q \in Ranges, g \in Guards}
  \cup {Match(R, <<When(PRecord(<<Label("a", PBinding("n"))>>),
                        Binary("LT", N, X), List(<<N, N>>))>>,
               N0) : N0 \in {Absent, X}}

(* Containers, names and sharing.                                          *)
Y == Ident("y")
Containers1 ==
  {Let("y", e, Record(<<Label("a", Y), Label("b", List(<<Y, Y>>))>>)) : e \in Bodies}
  \cup {Let("y", e, Let("z", List(<<Y, X>>), Record(<<Label("a", Ident("z")),
           Label("b", f)>>))) : e \in Bodies, f \in {Y, List(<<Ident("z")>>)}}
  \cup {Access(e, "a") : e \in {R, Paren(R), Record(<<Label("b", X), Label("a", L)>>)}}
  \cup {Record(<< >>), List(<< >>), List(<<L, L>>), List(<<R, List(<<R>>)>>)}
  \cup {Binary("EQ", List(<<e>>), List(<<f>>)) : e \in Bodies, f \in Bodies}
  \cup {Binary("NEQ", Record(<<Label("a", e), Label("b", X)>>),
                       Record(<<Label("b", f), Label("a", X)>>)) :
           e \in {X, IntLit(1)}, f \in {X, IntLit(2)}}

(* Iteration, nested and in sequence.                                      *)
E == Ident("e")
Sources1 == {L, List(<<X, IntLit(2), X>>), List(<< >>), X}
MapBodies ==
  {E, X, Binary("ADD", E, X), Record(<<Label("a", E)>>), List(<<E, E>>),
   Record(<<Label("a", List(<<E>>)), Label("b", Record(<< >>))>>),
   If(<<Binary("LT", E, IntLit(2)), List(<<E>>), Record(<<Label("a", X)>>)>>),
   MapE("f", L, Binary("MUL", E, Ident("f"))),
   Filter("f", List(<<E, IntLit(1)>>), Binary("EQ", Ident("f"), E)),
   Match(E, <<When(PLiteral(IntLit(2)), Absent, L)>>, NothingLit)}
Predicates == {Binary("GTE", E, IntLit(2)), BoolLit(TRUE), E,
               Binary("EQ", Paren(MapE("f", L, E)), List(<<E, E>>))}
FoldOf(l, init, fn) ==
  Call("fold", <<Label("list", l), Label("initial", init), Label("fn", StrLit(fn))>>)

Iterations ==
  {MapE("e", l, b) : l \in Sources1, b \in MapBodies}
  \cup {Filter("e", l, p) : l \in Sources1, p \in Predicates}
  \cup {Through(l, MapE("e", L, b)) : l \in Sources1, b \in MapBodies}
  \cup {Through(Paren(MapE("g", l, List(<<Ident("g")>>))), Filter("e", X, p)) :
           l \in Sources1, p \in Predicates \ {Binary("GTE", E, IntLit(2))}}
  \cup {FoldOf(l, i, fn) : l \in Sources1, i \in {IntLit(1), FloatLit(1), X},
           fn \in {"add", "multiply"}}
  \cup {MapE("g", L, FoldOf(L, Ident("g"), "add")), FoldOf(MapE("e", L, FoldOf(L, E, "multiply")), X, "add")}

(* Calls: conversions, the library, pipelines.                             *)
Calls ==
  {Call(f, <<Label("value", e)>>) :
     f \in {"to-string", "to-float", "to-integer"},
     e \in {X, FloatLit(3), StrLit("2"), NothingLit}}
  \cup {Access(Call("to-string", <<Label("value", e)>>), "value") : e \in {X, S}}
  \cup {Through(e, Call("to-string", << >>)) : e \in {X, S, M}}
  \cup {Call("length", <<Label("value", e)>>) : e \in {S, X}}
  \cup {Call("length", <<Label("list", e)>>) : e \in {L, X}}
  \cup {Through(e, Call("length", ls)) : e \in {S, L}, ls \in {<< >>, <<Label("list", L)>>}}
  \cup {OrElse(M, e) : e \in Bodies}

PlainBodies ==
  Matches \cup (Scalars1 \cup (Conditionals \cup (Iterations \cup (Containers1 \cup Calls))))

(* Inlined calls and what they mean: the dependency's body, its inputs and *)
(* locals replaced and renamed apart.                                      *)
DoubleOf(e) == Access(Call("double", <<Label("n", e)>>), "value")
TwiceOf(e)  == Access(Record(<<Label("value", Binary("MUL", e, IntLit(2)))>>), "value")
ShiftOf(e)  == Call("shift", <<Label("x", e), Label("l", L)>>)
PlusOneOf(e) == Record(<<Label("v", Binary("ADD", e, IntLit(1))), Label("l", L)>>)

Around(F(_)) ==
  [plain    |-> F(X),
   nested   |-> F(Binary("ADD", X, IntLit(2))),
   local    |-> Let("y", X, List(<<F(Binary("ADD", Y, X)), Y, X>>)),
   iterated |-> MapE("e", L, F(E)),
   branch   |-> If(<<Binary("EQ", X, IntLit(1)), F(X), X>>),
   matched  |-> Match(X, <<When(PBinding("n"), Binary("LT", N, IntLit(1)), F(N))>>, X),
   twice    |-> List(<<F(X), F(IntLit(2)), F(X)>>)]

Inlined ==
  LET a == Around(DoubleOf)  b == Around(TwiceOf)
      c == Around(ShiftOf)   e == Around(PlusOneOf)
  IN  {<<a[k], b[k]>> : k \in DOMAIN a} \cup {<<c[k], e[k]>> : k \in DOMAIN c}

==============================================================================
