-------------------------------- MODULE MCTags --------------------------------
(***************************************************************************)
(* The programs of MCHeluna and more straight-line ones: arithmetic, text, *)
(* containers, names, library calls and inlined calls.                     *)
(***************************************************************************)
EXTENDS MCHeluna

Simple == {X, S, L, M, R, IntLit(2)}
Numeric == {X, IntLit(2), Access(R, "a"), Neg(X), OrElse(M, IntLit(3))}
Text == {S, StrLit("a"), Access(Call("to-string", <<Label("value", X)>>), "value")}

Combined ==
  UNION {
    {Binary(op, a, b) : op \in {"ADD", "SUB", "MUL"}, a \in Numeric, b \in Numeric},
    {Binary("ADD", a, b) : a \in Text, b \in {S, StrLit("a")}},
    {List(<<a, b>>) : a \in Simple, b \in Simple},
    {Record(<<Label("a", a), Label("b", b), Label("c", X)>>) : a \in {S, M, R}, b \in Simple},
    {Call("length", <<Label("list", L)>>), Call("length", <<Label("value", S)>>),
     Through(S, Call("length", << >>)), Through(L, Call("length", <<Label("list", L)>>)),
     Through(X, Call("to-string", << >>))}}

StraightBodies ==
  UNION {
    Combined,
    {Let("y", a, Record(<<Label("a", Y), Label("b", S)>>)) : a \in Combined},
    {Binary("SUB", a, List(<<X>>)) : a \in {X, L}}}

MCVariants ==
  {IntegerV(5), StringV("ab"), ListV(<<IntegerV(5)>>),
   RecordV(<<Field("a", IntegerV(5))>>)}

AllSources ==
  MCSources \cup
  SourcesOf({<<b, b>> : b \in StraightBodies}
            \cup {<<DoubleOf(a), TwiceOf(a)>> : a \in Numeric})

==============================================================================
