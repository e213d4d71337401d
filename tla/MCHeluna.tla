------------------------------- MODULE MCHeluna -------------------------------
(***************************************************************************)
(* The programs TLC compiles, runs and evaluates: small bodies over five   *)
(* inputs, grouped by the construct they exercise.                         *)
(***************************************************************************)
EXTENDS Heluna, MCPrograms

MCStringOrder == <<"", "a", "ab", "value", "x">>
InputRecord(x, l, m) ==
  RecordV(<<Field("x", IntegerV(x)), Field("s", StringV("a")), Field("l", ListV(l)),
            Field("m", m), Field("r", RecordV(<<Field("a", IntegerV(1))>>))>>)

InputValues ==
  {InputRecord(1, <<IntegerV(1), IntegerV(2)>>, NothingV),
   InputRecord(0, << >>, IntegerV(2))}

(* Lookups: the first entry with the key, nothing if there is none or the  *)
(* key is no string.                                                       *)
Entry(id, v) == RecordV(<<Field("id", id), Field("v", IntegerV(v))>>)
People ==
  [name |-> "people", keyedBy |-> "id",
   content |-> ListV(<<Entry(IntegerV(1), 0), IntegerV(3), Entry(StringV("a"), 1),
                       Entry(StringV("a"), 2), Entry(StringV("ab"), 4)>>)]

ById(e) == Lookup("people", <<Label("id", e)>>)
Found(id, v) == Record(<<Label("id", StrLit(id)), Label("v", IntLit(v))>>)

LookedUp ==
  {<<ById(S), Found("a", 1)>>, <<ById(StrLit("ab")), Found("ab", 4)>>,
   <<ById(StrLit("x")), NothingLit>>, <<ById(X), NothingLit>>,
   <<Lookup("people", <<Label("v", S)>>), NothingLit>>,
   <<Lookup("people", <<Label("v", X), Label("id", S)>>), Found("a", 1)>>,
   <<Let("y", ById(S), Record(<<Label("a", Y), Label("b", Access(Y, "v"))>>)),
     Record(<<Label("a", Found("a", 1)), Label("b", IntLit(1))>>)>>,
   <<MapE("e", List(<<StrLit("a"), StrLit("x"), S>>), ById(E)),
     List(<<Found("a", 1), NothingLit, Found("a", 1)>>)>>}

(* A program, what it means, and the sources its lookups read.             *)
RunsOf(programs) ==
  {[prog |-> Program(Inputs, 1, << >>, p[1]), means |-> p[2], lookups |-> p[3],
    input |-> in, fused |-> f] : p \in programs, in \in InputValues, f \in BOOLEAN}
SourcesOf(pairs) == RunsOf({<<p[1], p[2], << >>>> : p \in pairs})

MCSources ==
  RunsOf({<<b, b, << >>>> : b \in PlainBodies}
         \cup {<<p[1], p[2], << >>>> : p \in Inlined}
         \cup {<<p[1], p[2], <<People>>>> : p \in LookedUp})

(* The parser makes every one of these bodies.                             *)
ASSUME BodiesParse == \A p \in PlainBodies \cup {q[1] : q \in LookedUp} : IsBody(p)

==============================================================================
