------------------------------ MODULE HelunaPackage -----------------------------
(***************************************************************************)
(* What the machine is started with: a program that is compiled            *)
(* (HelunaCompiler) and its input, in memory, next to what the program     *)
(* means (HelunaEval).  Both are made of the same tree, as the compile and *)
(* test tools do.                                                          *)
(***************************************************************************)
EXTENDS HelunaCompiler, HelunaEval

CONSTANT
  Sources    \* the runs: [prog, lookups, input, fused, means], the program,
             \* the sources its lookups read, its input, whether the code is
             \* optimized, and the body that says what the answer should be

(* The input as the JSON reader builds it: fresh cells, nothing shared.    *)
RECURSIVE Place(_, _)
PlaceAll(m, vs) ==
  LET Add(acc, v) == LET p == Place(acc.m, v)
                     IN  [m |-> p.m, at |-> Append(acc.at, p.a)]
  IN  FoldLeft(Add, [m |-> m, at |-> << >>], vs)

Link(m, at) ==
  [a \in DOMAIN m |->
     LET i == SelectInSeq(at, LAMBDA x : x = a)
     IN  IF i = 0 \/ i = Len(at) THEN m[a] ELSE [m[a] EXCEPT !.next = at[i + 1]]]

HeadOf(at) == IF at = << >> THEN NULL ELSE at[1]

Place(m, v) ==
  LET New(mm, cell) == [m |-> Append(mm, cell), a |-> Len(mm) + 1] IN
  CASE v.kind = "list" ->
         LET p == PlaceAll(m, v.items)
         IN  New(Link(p.m, p.at), ListCell(HeadOf(p.at)))
    [] v.kind = "record" ->
         LET p  == PlaceAll(m, [i \in DOMAIN v.fields |-> v.fields[i].value])
             n  == Len(v.fields)
             fs == [i \in 1 .. n |-> FieldCell(v.fields[i].name, p.at[i])]
             at == [i \in 1 .. n |-> Len(p.m) + i]
         IN  New(Link(p.m \o fs, at), RecordCell(HeadOf(at)))
    [] OTHER -> New(m, Cell(v.kind, v.n, v.s, NULL))

(* What the answer should be, on an input.                                 *)
Means(s, in) == Meaning([s.prog EXCEPT !.body = s.means], in)

(* compiler_compile and vm_packet_load: the constants become cells, the    *)
(* input fields the program declares are found in the input record.        *)
Package(s) ==
  LET c      == Compile(s.prog, [i \in DOMAIN s.lookups |-> s.lookups[i].name])
      consts == [i \in DOMAIN c.consts |->
                   Cell(c.consts[i].kind, c.consts[i].n, c.consts[i].name, NULL)]
      Missing(i) == Fails(Get(s.input, s.prog.inputs[i].name))
      given  == PlaceAll(consts, [i \in DOMAIN s.prog.inputs |->
                  IF Missing(i) THEN NothingV ELSE Get(s.input, s.prog.inputs[i].name)])
      files  == PlaceAll(given.m, [i \in DOMAIN s.lookups |-> s.lookups[i].content])
  IN [code   |-> IF s.fused THEN Optimize(c.code) ELSE c.code,
      consts |-> [i \in DOMAIN consts |-> i],
      mem    |-> files.m,
      sources |-> [i \in DOMAIN s.lookups |->
                     [list |-> files.at[i], keyedBy |-> s.lookups[i].keyedBy]],
      scratchpadSize |-> c.next,
      inputs |-> [i \in DOMAIN s.prog.inputs |->
                    [value |-> IF Missing(i) THEN NULL ELSE given.at[i],
                     tags  |-> s.prog.inputs[i].tags]],
      outputCount |-> s.prog.outputCount,
      given   |-> s.input.kind = "record",
      failed  |-> c.failed,
      meaning |-> Means(s, s.input)]

==============================================================================
