-------------------------------- MODULE Toolchain -------------------------------
(***************************************************************************)
(* A program on its way through the tools: heluna-fmt prints it,           *)
(* heluna-compile parses what was printed, checks it, compiles it and      *)
(* writes a packet to a file, and heluna-vm loads the file.                *)
(***************************************************************************)
EXTENDS HelunaFormatter, HelunaChecker, HelunaCompiler, HelunaPacket, HelunaLoader

CONSTANTS
  Programs,      \* the programs, as trees
  SourceFiles    \* the source contracts of the folder, by file name

------------------------------------------------------------------------------
(* The sources a program names, as far as there is a source contract       *)
(* without errors in a file of that name; the configuration goes into the  *)
(* packet as JSON.                                                         *)
MaxSources == 16

Decimal(halves) ==
  LET distance == IF halves < 0 THEN -halves ELSE halves
  IN  (IF halves < 0 THEN "-" ELSE "") \o ToString(distance \div 2)
      \o (IF distance % 2 = 1 THEN ".5" ELSE "")

JsonOf(e) == CASE e.kind = "string"  -> "\"" \o e.name \o "\""
               [] e.kind = "integer" -> ToString(e.n)
               [] e.kind = "float"   -> Decimal(SixDigits(e.n))
               [] e.kind = "boolean" -> IF e.n = 1 THEN "true" ELSE "false"
               [] OTHER -> "null"

ConfigToJson(config) ==
  IF config = Absent THEN ""
  ELSE FoldLeft(LAMBDA json, l :
         json \o (IF json = "{" THEN "" ELSE ",")
              \o "\"" \o l.name \o "\":" \o JsonOf(l.kids[1]), "{", config.kids) \o "}"

ResolveSources(names) ==
  LET Add(found, name) ==
        IF \/ \E i \in DOMAIN found : found[i].name = name
           \/ Len(found) = MaxSources \/ name \notin DOMAIN SourceFiles
        THEN found
        ELSE LET c == SourceFiles[name] IN
             IF c.kind # "source" \/ CheckOtherContract(c) # {} THEN found
             ELSE Append(found, [name |-> name, config |-> ConfigToJson(c.config),
                                 keyedBy |-> c.keyedBy[1].name])
  IN  FoldLeft(Add, << >>, names)

(* What the code generator takes from a tree.                              *)
CompileType(type) == IF type.name = "maybe" THEN "unknown" ELSE type.name

ProgramOf(p) ==
  Program([i \in DOMAIN p.contract.input |->
             LET f == p.contract.input[i] IN
             [name |-> f.name, type |-> CompileType(TypeOf(f)),
              tags |-> TagBits(p.contract, TagNames(f))]],
          Len(p.contract.output), p.contract.sanitizers, p.function.body)

(* The tables a packet should load as.                                     *)
BitsOf(contract, names) ==
  {bit \in 0 .. Len(contract.tags) - 1 : contract.tags[bit + 1].name \in names}

Declarations(contract, fields, slot) ==
  [i \in DOMAIN fields |->
     <<fields[i].name, TypeCode[TypeOf(fields[i]).name],
       BitsOf(contract, TagsOf(fields[i])), slot + i - 1>>]

RuleKinds == <<"forbidField", "forbidTagged", "require", "match">>
RuleRow(contract, r) ==
  CASE r.kind = "forbidField"  -> <<1, FirstStep(r.ref), IF r.ref.output THEN 1 ELSE 0>>
    [] r.kind = "forbidTagged" -> <<2, BitsOf(contract, {r.tag}), 1>>
    [] OTHER -> <<SelectInSeq(RuleKinds, LAMBDA k : k = r.kind), FirstStep(r.ref), r.message>>

Intended(c, b, sources) ==
  [contract |-> <<c.name, b.next, Len(c.input), Len(c.output), Len(c.tags),
                  Len(c.sanitizers), Len(c.rules)>>,
   tags     |-> [i \in DOMAIN c.tags |-> <<i - 1, c.tags[i].name, c.tags[i].description>>],
   inputs   |-> Declarations(c, c.input, 0),
   outputs  |-> Declarations(c, c.output, Len(c.input)),
   sanitizers |-> [i \in DOMAIN c.sanitizers |->
                     LET s == c.sanitizers[i]
                     IN  <<s.name, FunctionId(Stdlib, s.name), BitsOf(c, Range(s.strips))>>],
   rules    |-> [i \in DOMAIN c.rules |-> RuleRow(c, c.rules[i])],
   constants |-> b.consts,
   code     |-> [i \in DOMAIN b.code |->
                   LET a == b.code[i] IN <<a.op, <<a.tmode, a.mode>>, a.dest, a.o1, a.o2>>],
   sources  |-> [i \in DOMAIN sources |->
                   <<sources[i].name, sources[i].config, sources[i].keyedBy>>]]


------------------------------------------------------------------------------
(* What each tool adds to a program's journey: its text; what is parsed    *)
(* from that and how it prints; its errors; the sources that are found;    *)
(* what is compiled, if there are no errors and the contract is a          *)
(* function's; the bytes of the packet and the tables they should load as. *)
Formatted(p) == [program |-> p, text |-> Format(p)]
Parsed(j) == j @@ [tree |-> ParseProgram(j.text)]
Reprinted(j) == j @@ [again |-> IF j.tree = << >> THEN << >> ELSE Format(j.tree[1])]

(* A text that is no program has an error.                                 *)
NoProgram == <<"syntax", "">>
Checked(j) == j @@ [errors |-> IF j.tree = << >> THEN {NoProgram} ELSE CheckerCheck(j.tree[1])]

Located(j) ==
  j @@ [found |-> IF j.tree = << >> THEN << >> ELSE ResolveSources(j.tree[1].contract.sources)]

NotCompiled == [failed |-> TRUE]
Generated(j) ==
  j @@ [compiled |->
          IF j.errors # {} \/ j.tree[1].contract.kind # "function" THEN NotCompiled
          ELSE Compile(ProgramOf(j.tree[1]), [i \in DOMAIN j.found |-> j.found[i].name])]

Optimized(j) ==
  IF j.compiled.failed THEN j ELSE [j EXCEPT !.compiled.code = Optimize(@)]

Packed(j) ==
  [program |-> j.program, text |-> j.text, tree |-> j.tree, again |-> j.again,
   errors  |-> j.errors,
   bytes   |-> IF j.compiled.failed THEN << >>
               ELSE Assemble(Sections(j.tree[1].contract, j.compiled, Stdlib, j.found)),
   tables  |-> IF j.compiled.failed THEN << >>
               ELSE Intended(j.tree[1].contract, j.compiled, j.found)]

(* The packets the loader starts from.                                     *)
Journeys ==
  {Packed(Optimized(Generated(Located(Checked(Reprinted(Parsed(Formatted(p)))))))) : p \in Programs}

(* What the checker does not look at: whether the functions a contract     *)
(* uses can be found, and whether the code generator knows the function a  *)
(* sanitizer stands for, be it itself or the one after using (the checker  *)
(* lets it use the conversions and fold, which are no functions of the     *)
(* code generator); that the code generator knows no name for the rest of  *)
(* a list pattern, and of fold only calls with all of its arguments.       *)
Provided(k) ==
  /\ ToSet(k.uses) \subseteq DOMAIN Deps
  /\ \A s \in ToSet(k.sanitizers) :
       (IF s.impl = "" THEN s.name ELSE s.impl) \in DOMAIN Stdlib \cup DOMAIN Deps

RECURSIVE Generable(_)
Generable(e) ==
  /\ e.kind = "listPattern" => e.name = ""
  /\ e.kind = "call" /\ e.name = "fold" => IsFold(e)
  /\ e.kind = "through" => e.kids[2].name # "fold"
  /\ \A kid \in ToSet(e.kids) : Generable(kid)

(* What the checker accepts compiles: none of the errors of                *)
(* src/src/compiler.c is left to be found, apart from the above.           *)
CheckedCompiles ==
  LET p == packet.tree[1] IN
  packet.errors = {} /\ p.contract.kind = "function"
    /\ Provided(p.contract) /\ Generable(p.function.body)
  => packet.bytes # << >>

(* The checker's walk finds the names that are not in scope and the names  *)
(* bound again, and no others: src/src/checker.c:433-692 against what the  *)
(* tree of the body binds and needs.                                       *)
ScopeErrors == {"undefined", "shadows"}
BodyChecked ==
  LET p == packet.tree[1] IN
  packet.tree # << >> /\ p.contract.kind = "function" =>
    (WellScoped(p) <=> \A error \in packet.errors : error[1] \notin ScopeErrors)

(* What is printed is what was written, all but what printing is known to  *)
(* lose: the parser makes the same tree of it (src/src/formatter.c against *)
(* src/src/parser.c), except that a negated number is read as one number,  *)
(* a float has at most six digits, a match rule's clause has no guard and  *)
(* a configuration with nothing in it is gone.  A contract that uses       *)
(* several others need not parse at all (see FormatIdempotent); comments   *)
(* are in no tree.                                                         *)
FormatKeepsProgram ==
  Len(packet.program.contract.uses) <= 1 => packet.tree = <<KeptProgram(packet.program)>>

(* What is printed parses, and prints the same way again.                  *)
FormatIdempotent == packet.tree # << >> /\ packet.again = packet.text

(* Once a packet is loaded, the machine has the contract, the constants,   *)
(* the code and the sources that the compiler had.                         *)
LoadedAsWritten ==
  part = "loaded" => \A table \in DOMAIN packet.tables : loaded[table] = packet.tables[table]

==============================================================================
