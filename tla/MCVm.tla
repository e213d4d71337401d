--------------------------------- MODULE MCVm ---------------------------------
(***************************************************************************)
(* Packets no compiler made: every instruction on operands of every kind,  *)
(* every arrangement of a few jumps and loops that is well formed, and     *)
(* library functions called on the results of one another.                 *)
(***************************************************************************)
EXTENDS LibraryPromises

MCStringOrder == <<"", "a", "add", "b", "multiply">>

Ins(op, dest, o1, o2) ==
  [op |-> op, dest |-> dest, o1 |-> o1, o2 |-> o2,
   tmode |-> "propagate", mode |-> "map"]

(* One value of each kind (1 to 10) and the items of a source (11 to 13);  *)
(* slots 0 to 6 hold an input of each kind, 7 and 8 nothing yet.           *)
Loaded ==
  <<IntegerCell(1), FloatCell(3), StringCell("a"), BooleanCell(TRUE), NothingCell,
    ListCell(7), [IntegerCell(2) EXCEPT !.next = 8], IntegerCell(0),
    RecordCell(10), FieldCell("a", 3),
    ListCell(12), RecordCell(13), FieldCell("a", 3)>>

Packet(code) ==
  [code |-> code, mem |-> Loaded, consts |-> <<3, 1>>,
   sources |-> <<[list |-> 11, keyedBy |-> "a"], [list |-> NULL, keyedBy |-> "a"]>>,
   scratchpadSize |-> 9, outputCount |-> 1, given |-> TRUE,
   inputs |-> [i \in 1 .. 7 |->
                 [value |-> <<1, 2, 3, 4, NULL, 6, 9>>[i], tags |-> {i % 2}]]]

Unknown == "NOP"

Single ==
  {Packet(<<Ins(op, dest, a, b)>>) :
     op \in Opcodes \cup {Unknown}, dest \in {5, 6, 8}, a \in 0 .. 7, b \in 0 .. 7}
  \cup {Packet(<<[Ins(op, 8, a, 1) EXCEPT !.tmode = m]>>) :
           op \in {"ADD", "STR_CONCAT", "STDLIB_CALL"}, a \in 0 .. 2, m \in {"clear", "set"}}
  \cup {[Packet(<<Ins("COPY", 8, 0, 0)>>) EXCEPT !.given = FALSE]}

(* Loops over slot 5 with their element in slot 8, jumps on slots 3 and 7. *)
Setup(n, mode) == [Ins("ITER_SETUP", 8, 5, n) EXCEPT !.mode = mode]
Collect == Ins("ITER_COLLECT", 8, 8, 8)
Step == Ins("COPY", 8, 3, 0)

Turns ==
  UNION {
    {Step, Collect, Setup(1, "filter")},
    {Ins("JUMP_IF_NOT", t, s, 0) : s \in {3, 7}, t \in {2, 5}},
    {Ins("JUMP", t, 0, 0) : t \in {1, 3, 5}}}

Around(n, before, after) ==
  Packet(<<Setup(n, "map")>> \o before \o <<Collect>> \o after)

Loops1 == {Around(1, <<a>>, <<b, c>>) : a \in Turns, b \in Turns, c \in Turns}
Loops2 == {Around(2, <<a, b>>, <<c>>) : a \in Turns, b \in Turns, c \in Turns}
Loops3 == {Around(3, <<a, b, c>>, << >>) : a \in Turns, b \in Turns, c \in Turns}
Loops4 ==
  {Packet(<<Ins("LIST_NEW", 5, 0, 0), Setup(1, m), Step, Collect>>) : m \in {"map", "fold"}}
  \cup {Packet(<<Setup(5, "map"), Setup(3, "filter"), Setup(1, m), Step,
                 Collect, Collect, Collect>>) : m \in {"map", "fold"}}

Arranged == Loops1 \cup (Loops2 \cup (Loops3 \cup Loops4))

(* Values for the library: [2, 1, 2] (4), ["b", "a"] (7), two records in a *)
(* list (13), [[2, 1, 2], 1.5] (17), the empty list (21) and record (22),  *)
(* two records that hold numbers of either kind in a list (24).            *)
Then(cell, a) == [cell EXCEPT !.next = a]
Stock ==
  <<Then(IntegerCell(2), 2), Then(IntegerCell(1), 3), IntegerCell(2), ListCell(1),
    Then(StringCell("b"), 6), StringCell("a"), ListCell(5),
    Then(RecordCell(9), 11), Then(FieldCell("b", 3), 10), FieldCell("a", 6),
    RecordCell(12), FieldCell("b", 2), ListCell(8), NothingCell,
    Then(ListCell(1), 16), FloatCell(3), ListCell(15), FloatCell(-1), IntegerCell(-1),
    StringCell("add"), ListCell(NULL), RecordCell(NULL), StringCell("multiply"),
    ListCell(25), Then(RecordCell(26), 27), FieldCell("a", 3), RecordCell(28),
    FieldCell("a", 16)>>

(* Argument records, which hold the arguments of every function at once.   *)
Params ==
  <<"value", "list", "a", "b", "min", "max", "field", "start", "end", "record",
    "fields", "initial", "fn">>
Given ==
  {<<3, 4, 4, 7, 19, 3, 5, 19, 3, 8, 7, 18, 20>>,
   <<18, 13, 8, 11, 18, 16, 6, 2, 3, 11, 7, 3, 23>>,
   <<16, 17, 16, 3, 3, 19, 5, 3, 19, 8, 21, 16, 23>>,
   <<19, 21, 21, 4, 2, 16, 5, 2, 2, 22, 13, 19, 6>>,
   <<6, 4, 2, 18, 19, 2, 4, 3, 2, 8, 17, 2, 20>>,
   <<14, 24, 13, 7, 16, 3, 6, 2, 3, 11, 7, 16, 23>>}

LibraryPacket(given, code) ==
  LET n == Len(Stock)
      keys == [i \in DOMAIN Params |-> StringCell(Params[i])]
      fields == [i \in DOMAIN given |->
                   Then(FieldCell(Params[i], given[i]),
                        IF i = Len(given) THEN NULL ELSE n + Len(Params) + i + 1)]
      record == RecordCell(n + Len(Params) + 1)
  IN  [Packet(code) EXCEPT
         !.mem = Stock \o keys \o fields \o <<record>>,
         !.consts = [i \in DOMAIN Params |-> n + i],
         !.inputs = <<[value |-> n + 2 * Len(Params) + 1, tags |-> {1}]>>,
         !.scratchpadSize = 3]

CallOf(dest, f) == Ins("STDLIB_CALL", dest, Library!FunctionIds[f], 0)
SetKey(i) == Ins("RECORD_SET_C", 0, i - 1, 1)
Again == [i \in 1 .. 4 |-> SetKey(<<1, 2, 3, 10>>[i])]

(* to-string is among them, so that what it writes is read back.           *)
Composite == {"sort", "sort-by", "reverse", "unique", "flatten", "zip", "range",
              "slice", "keys", "values", "merge", "pick", "omit", "to-string"}

One == {Packet(<<Ins("STDLIB_CALL_1", 8, Library!FunctionIds[f], b)>>) :
           f \in DOMAIN Library!FunctionIds, b \in 0 .. 7}

Chained ==
  {LibraryPacket(given, <<CallOf(1, f)>>) : given \in Given, f \in DOMAIN Library!FunctionIds}
  \cup {LibraryPacket(given, <<CallOf(1, f)>> \o Again \o <<CallOf(2, g)>>) :
           given \in Given, f \in Composite, g \in DOMAIN Library!FunctionIds}

MCPackets ==
  LET all == {p \in Arranged : WellFormed(p)} \cup {p \in Single : WellFormed(p)}
               \cup {p \in Chained : WellFormed(p)}
               \cup {p \in One : WellFormed(p)}
  IN  all

==============================================================================
