------------------------------- MODULE HelunaLoader ------------------------------
(***************************************************************************)
(* vm_load_packet: a cursor over the bytes of a file, read table by table. *)
(* Nothing but the counts, the lengths and the directory tells the cursor  *)
(* where an item starts.  Numbers beyond the end of the file are read as   *)
(* zero; a number or a text that is read where none of its kind was        *)
(* written has no value in the model: the cursor is Torn from there on.    *)
(***************************************************************************)
EXTENDS HelunaAst, SequencesExt, TLC

CONSTANTS
  Written,     \* the packets: records with at least their bytes, as
               \* HelunaPacket makes them; none for a program without packet
  CutSizes     \* bound: the sizes a failed write may leave

VARIABLES
  packet,      \* the packet that was written
  size,        \* how many of its bytes are in the file
  part,        \* the table to read next, "loaded" or "rejected"
  at,          \* where the cursor stands
  directory,   \* for each type of section, where it is: [start, length]
  loaded       \* the tables read so far, each a sequence of rows

vars == <<packet, size, part, at, directory, loaded>>

Torn == -1
Reading(v, i) == [v |-> v, at |-> i]

Boundary(i) == i \in 0 .. size /\ (i < size => packet.bytes[i + 1].kind # "rest")
Advance(i, n) == IF i = Torn THEN Torn ELSE i + n

Widths == [kind \in {"u8", "u16", "u32", "u64"} |->
             CASE kind = "u8" -> 1 [] kind = "u16" -> 2 [] kind = "u32" -> 4 [] kind = "u64" -> 8]
Zero(kind) == IF kind = "u64" THEN {} ELSE 0

(* The item of a kind and width that starts at i.                          *)
ItemAt(kind, width, i, otherwise) ==
  IF i \in 0 .. size - width /\ packet.bytes[i + 1].kind = kind /\ Boundary(i + width)
  THEN Reading(packet.bytes[i + 1].v, i + width) ELSE Reading(otherwise, Torn)

ReadNumber(kind, i) ==
  IF i + Widths[kind] > size THEN Reading(Zero(kind), i)
  ELSE ItemAt(kind, Widths[kind], i, Zero(kind))

ReadText(i) ==
  LET n == ReadNumber("u16", i) IN
  IF n.v = 0 THEN Reading("", n.at) ELSE ItemAt("text", n.v, n.at, "")

RECURSIVE SkipType(_), SkipDetails(_, _), SkipFields(_, _)

(* A faulty variant: the slot that ends a record's field is not skipped.   *)
SkipFieldsShort(n, i) ==
  IF n = 0 THEN i
  ELSE LET name == ReadNumber("u16", i)
       IN  SkipFields(n - 1, Advance(SkipType(Advance(name.at, name.v)), 8))

SkipFields(n, i) ==
  IF n = 0 THEN i
  ELSE LET name == ReadNumber("u16", i)
       IN  SkipFields(n - 1, Advance(SkipType(Advance(name.at, name.v)), 8 + 2))

(* What follows the code of a type: 6 is maybe, 7 list and 8 record.       *)
SkipDetails(code, i) ==
  CASE code \in {6, 7} -> SkipType(i)
    [] code = 8 -> LET n == ReadNumber("u16", i) IN SkipFields(n.v, n.at)
    [] OTHER    -> i

SkipType(i) == LET code == ReadNumber("u8", i) IN SkipDetails(code.v, code.at)

(* A field of a row, a row and a table.                                    *)
ReadField(kind, i) ==
  CASE kind = "text" -> ReadText(i)
    [] kind = "type" -> LET code == ReadNumber("u8", i)
                        IN  Reading(code.v, SkipDetails(code.v, code.at))
    [] OTHER -> ReadNumber(kind, i)

ReadRow(format, i) ==
  LET Step(r, kind) == LET f == ReadField(kind, r.at) IN Reading(Append(r.v, f.v), f.at)
  IN  FoldLeft(Step, Reading(<< >>, i), format)

ReadRows(n, Read(_), i) ==
  LET Step(r, k) == LET row == Read(r.at) IN Reading(Append(r.v, row.v), row.at)
  IN  FoldLeft(Step, Reading(<< >>, i), [k \in 1 .. n |-> k])

RuleFormats == <<<<"text", "u8">>, <<"u64", "u8">>, <<"text", "text">>, <<"text", "text">>>>
ReadRule(i) ==
  LET kind == ReadNumber("u8", i)
      row  == ReadRow(IF kind.v \in DOMAIN RuleFormats THEN RuleFormats[kind.v] ELSE << >>, kind.at)
  IN  Reading(<<kind.v>> \o row.v, row.at)

ReadTable(table, i) ==
  CASE table = "tags"                 -> ReadRow(<<"u8", "text", "text">>, i)
    [] table \in {"inputs", "outputs"} -> ReadRow(<<"text", "type", "u64", "u16">>, i)
    [] table = "sanitizers"           -> ReadRow(<<"text", "u16", "u64">>, i)
    [] table = "rules"                -> ReadRule(i)
    [] table = "stdlib"               -> ReadRow(<<"u16">>, i)
    [] table = "code"                 -> ReadRow(<<"u8", "u8", "u16", "u16", "u16">>, i)
    [] table = "sources"              -> ReadRow(<<"text", "text", "text">>, i)

(* A constant is its type, the length of its data, and the data.           *)
ReadConstant(i) ==
  LET head == ReadRow(<<"u8", "u32">>, i)
      type == head.v[1]
      n    == head.v[2]
      data == IF n = 0 THEN Reading(IF type = 1 THEN "" ELSE 0, head.at)
              ELSE ItemAt("data", n, head.at, IF type = 1 THEN "" ELSE 0)
  IN  Reading(CASE type = 1 -> StrLit(data.v)   [] type = 2 -> IntLit(data.v)
                [] type = 3 -> FloatLit(data.v) [] type = 4 -> BoolLit(data.v # 0)
                [] OTHER    -> NothingLit, data.at)

RECURSIVE CountConstants(_, _)
CountConstants(i, end) ==
  IF i < end /\ i + 5 <= size
  THEN LET head == ReadRow(<<"u8", "u32">>, i)
       IN  IF head.at = Torn THEN 1
           ELSE 1 + CountConstants(head.at + head.v[2], end)
  ELSE 0

------------------------------------------------------------------------------
(* heluna-compile leaves what was written of a packet when a write fails.  *)
Sizes(bytes) == {Len(bytes)} \cup {n \in CutSizes : n < Len(bytes)}

Init ==
  /\ packet \in Written
  /\ size \in Sizes(packet.bytes)
  /\ part = IF packet.bytes = << >> THEN "nothing" ELSE "header"
  /\ at = 0 /\ directory = << >> /\ loaded = << >>

(* A faulty variant: the size the header gives is not compared.            *)
HeaderFitsSize(magic, total) == size >= 88 /\ magic = 1212960321

HeaderFits(magic, total) == size >= 88 /\ magic = 1212960321 /\ total <= size

(* The header; its last 72 bytes are skipped.                              *)
ReadHeader ==
  /\ part = "header"
  /\ LET head == ReadRow(<<"u32", "u16", "u16", "u32", "u16", "u16">>, 0)
     IN  IF HeaderFits(head.v[1], head.v[4])
         THEN /\ part' = "directory" /\ at' = head.at + 72
              /\ loaded' = ("sections" :> head.v[5])
         ELSE part' = "rejected" /\ UNCHANGED <<at, loaded>>
  /\ UNCHANGED <<packet, size, directory>>

(* The last entry of a type counts; four types are required.               *)
ReadDirectory ==
  /\ part = "directory"
  /\ LET r == ReadRows(loaded["sections"], LAMBDA i : ReadRow(<<"u16", "u32", "u32">>, i), at)
         entries == [type \in {row[1] : row \in Range(r.v)} |->
                       LET row == r.v[SelectLastInSeq(r.v, LAMBDA e : e[1] = type)]
                       IN  [start |-> row[2], length |-> row[3]]]
     IN  /\ directory' = entries
         /\ at' = r.at
         /\ part' = IF 1 .. 4 \subseteq DOMAIN entries THEN "contract" ELSE "rejected"
  /\ UNCHANGED <<packet, size, loaded>>

Finish(rows, next) ==
  /\ loaded' = (part :> rows.v) @@ loaded
  /\ at' = rows.at /\ part' = next
  /\ UNCHANGED <<packet, size, directory>>

ReadContractHead ==
  /\ part = "contract"
  /\ Finish(ReadRow(<<"text", "u16", "u16", "u16", "u16", "u16", "u16">>, directory[1].start),
            "tags")

(* The tables of the contract section, in the order they are read, and the *)
(* places of their counts in its head.                                     *)
CountOf == "inputs" :> 3 @@ "outputs" :> 4 @@ "tags" :> 5 @@ "sanitizers" :> 6 @@ "rules" :> 7
After == "tags" :> "inputs" @@ "inputs" :> "outputs" @@ "outputs" :> "sanitizers"
         @@ "sanitizers" :> "rules" @@ "rules" :> "constants"

ReadContractTable ==
  /\ part \in DOMAIN CountOf
  /\ Finish(ReadRows(loaded["contract"][CountOf[part]], LAMBDA i : ReadTable(part, i), at),
            After[part])

ReadConstants ==
  /\ part = "constants"
  /\ LET start == directory[2].start
     IN  Finish(ReadRows(CountConstants(start, start + directory[2].length),
                         ReadConstant, start), "stdlib")

ReadLibrary ==
  /\ part = "stdlib"
  /\ LET n == ReadNumber("u16", directory[3].start)
     IN  Finish(ReadRows(n.v, LAMBDA i : ReadTable("stdlib", i), n.at), "code")

ReadCode ==
  /\ part = "code"
  /\ Finish(ReadRows(directory[4].length \div 8, LAMBDA i : ReadTable("code", i),
                     directory[4].start), "sources")

ReadSources ==
  /\ part = "sources"
  /\ IF 5 \in DOMAIN directory
     THEN LET n == ReadNumber("u16", directory[5].start)
          IN  Finish(ReadRows(n.v, LAMBDA i : ReadTable("sources", i), n.at), "loaded")
     ELSE Finish(Reading(<< >>, at), "loaded")

Next ==
  \/ ReadHeader \/ ReadDirectory \/ ReadContractHead \/ ReadContractTable
  \/ ReadConstants \/ ReadLibrary \/ ReadCode \/ ReadSources

Spec == Init /\ [][Next]_vars

------------------------------------------------------------------------------
(* The reader and the writer are in step: the cursor always stands at the  *)
(* start of an item, and where a section's last table ends, the section    *)
(* ends.  Nothing in vm_load_packet checks either.                         *)
SectionRead ==
  "constants" :> 1 @@ "stdlib" :> 2 @@ "code" :> 3 @@ "sources" :> 4 @@ "loaded" :> 5

ReadsInStep ==
  /\ Boundary(at)
  /\ part \in DOMAIN SectionRead /\ SectionRead[part] \in DOMAIN directory =>
       LET section == directory[SectionRead[part]] IN at = section.start + section.length

(* The part of a packet that a failed write leaves is never loaded, and a  *)
(* complete one always is (tools/heluna-compile.c:371 leaves the file).    *)
OnlyCompleteLoads ==
  /\ part = "loaded" => size = Len(packet.bytes)
  /\ part = "rejected" => size # Len(packet.bytes)

==============================================================================
