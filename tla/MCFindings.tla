------------------------------ MODULE MCFindings ------------------------------
(***************************************************************************)
(* Programs on which the code departs from what its documents say, one set *)
(* for each run that is expected to find a violation.                      *)
(***************************************************************************)
EXTENDS MCTags

Plain(body) == SourcesOf({<<body, body>>})

(* let n be to-integer({ value: 1.5 }) in { a: n }                         *)
ConversionSources ==
  Plain(Let("n", Call("to-integer", <<Label("value", FloatLit(3))>>),
            Record(<<Label("a", N)>>)))

(* An if of one branch more than end_jumps holds, whose last branch before *)
(* the else is taken.                                                      *)
Ladder ==
  LET n == EndJumpCapacity + 1
      Rung(i) == <<Binary("EQ", X, IntLit(n + 1 - i)), IntLit(i)>>
  IN  If(FlattenSeq([i \in 1 .. n |-> Rung(i)]) \o <<IntLit(0)>>)
LadderSources == Plain(Ladder)

(* $x, tagged, as the answer of a contract that forbids the tag.           *)
ForbiddenSources == Plain(Record(<<Label("a", X)>>))

==============================================================================
