------------------------------ MODULE HelunaPacket ------------------------------
(***************************************************************************)
(* Packet assembly: the sections of src/src/compiler.c, written one after  *)
(* the other into a sequence of bytes, and the directory that says where   *)
(* each of them starts.  The first byte of a number or a text carries its  *)
(* kind and value, the others are marks: what is kept of the encoding is   *)
(* where every item starts and how wide it is.                             *)
(***************************************************************************)
EXTENDS HelunaContract, SequencesExt, FiniteSets

Rest == [kind |-> "rest", v |-> 0]
Bytes(kind, width, v) ==
  IF width = 0 THEN << >>
  ELSE <<[kind |-> kind, v |-> v]>> \o [i \in 1 .. width - 1 |-> Rest]

U8(v)  == Bytes("u8", 1, v)
U16(n) == Bytes("u16", 2, n % 65536)
U32(v) == Bytes("u32", 4, v)
U64(bits) == Bytes("u64", 8, bits)     \* a set of tag bits

(* A length and that many bytes.                                           *)
Str(s) == U16(Len(s)) \o Bytes("text", Len(s), s)

WriteEach(items, Write(_, _)) == FlattenSeq([i \in DOMAIN items |-> Write(i, items[i])])

------------------------------------------------------------------------------
(* The contract section.                                                   *)
TypeCode ==
  [type \in {"string", "integer", "float", "boolean", "maybe", "list", "record"} |->
     CASE type = "string" -> 1 [] type = "integer" -> 2 [] type = "float" -> 3
       [] type = "boolean" -> 4 [] type = "maybe" -> 6 [] type = "list" -> 7
       [] type = "record" -> 8]

(* A faulty variant: the bits count from one, as the places do.            *)
TagBitsFromOne(contract, names) ==
  LET place(name) == SelectInSeq(contract.tags, LAMBDA tag : tag.name = name)
  IN  {place(name) : name \in {n \in Range(names) : place(n) > 0}}

(* A tag's bit is its place among the contract's tags, counted from zero;  *)
(* an unknown name has none.                                               *)
TagBits(contract, names) ==
  LET place(name) == SelectInSeq(contract.tags, LAMBDA tag : tag.name = name)
  IN  {place(name) - 1 : name \in {n \in Range(names) : place(n) > 0}}

RECURSIVE SerializeType(_)
SerializeType(t) ==
  U8(TypeCode[t.name]) \o
  (CASE t.name \in {"maybe", "list"} -> SerializeType(t.kids[1])
     [] t.name = "record" ->
          U16(Len(t.kids)) \o
          WriteEach(t.kids, LAMBDA i, f :
            Str(f.name) \o SerializeType(TypeOf(f)) \o U64({}) \o U16(0))
     [] OTHER -> << >>)

(* Inputs take the first slots, outputs the next.                          *)
SerializeFields(contract, fields, slot) ==
  WriteEach(fields, LAMBDA i, f :
    Str(f.name) \o SerializeType(TypeOf(f))
    \o U64(TagBits(contract, TagNames(f))) \o U16(slot + i - 1))

SerializeTag(i, tag) == U8((i - 1) % 256) \o Str(tag.name) \o Str(tag.description)

FirstStep(ref) == IF ref.path = << >> THEN "" ELSE ref.path[1]

(* Of a require or match rule only the field and the message are written.  *)
SerializeRule(contract, rule) ==
  CASE rule.kind = "forbidField" ->
         U8(1) \o Str(FirstStep(rule.ref))
         \o U8(IF rule.ref.path # << >> /\ rule.ref.output THEN 1 ELSE 0)
    [] rule.kind = "forbidTagged" -> U8(2) \o U64(TagBits(contract, <<rule.tag>>)) \o U8(1)
    [] rule.kind = "require" -> U8(3) \o Str(FirstStep(rule.ref)) \o Str(rule.message)
    [] rule.kind = "match"   -> U8(4) \o Str(FirstStep(rule.ref)) \o Str(rule.message)

(* A sanitizer's function is looked up by its own name.                    *)
FunctionId(ids, name) == IF name \in DOMAIN ids THEN ids[name] ELSE 0

SerializeContract(contract, scratchpad, ids) ==
  Str(contract.name) \o U16(scratchpad)
  \o U16(Len(contract.input)) \o U16(Len(contract.output)) \o U16(Len(contract.tags))
  \o U16(Len(contract.sanitizers)) \o U16(Len(contract.rules))
  \o WriteEach(contract.tags, SerializeTag)
  \o SerializeFields(contract, contract.input, 0)
  \o SerializeFields(contract, contract.output, Len(contract.input))
  \o WriteEach(contract.sanitizers, LAMBDA i, s :
       Str(s.name) \o U16(FunctionId(ids, s.name)) \o U64(TagBits(contract, s.strips)))
  \o WriteEach(contract.rules, LAMBDA i, r : SerializeRule(contract, r))

------------------------------------------------------------------------------
(* The other sections.                                                     *)
SerializeConstant(i, k) ==
  LET data == CASE k.kind = "string" -> Bytes("data", Len(k.name), k.name)
                [] k.kind \in {"integer", "float"} -> Bytes("data", 8, k.n)
                [] k.kind = "boolean" -> Bytes("data", 1, k.n)
  IN  U8(TypeCode[k.kind]) \o U32(Len(data)) \o data

(* track_stdlib: each function once, in the order of the first calls.      *)
LibraryDeps(code) ==
  LET calls == SelectSeq(code, LAMBDA a : a.op \in {"STDLIB_CALL", "STDLIB_CALL_1"})
  IN  FoldLeft(LAMBDA ids, a : IF Contains(ids, a.o1) THEN ids ELSE Append(ids, a.o1),
               << >>, calls)

SerializeLibrary(ids) == U16(Len(ids)) \o WriteEach(ids, LAMBDA i, id : U16(id))

SerializeCode(code) ==
  WriteEach(code, LAMBDA i, a :
    U8(a.op) \o U8(<<a.tmode, a.mode>>) \o U16(a.dest) \o U16(a.o1) \o U16(a.o2))

SerializeSources(sources) ==
  U16(Len(sources))
  \o WriteEach(sources, LAMBDA i, s : Str(s.name) \o Str(s.config) \o Str(s.keyedBy))

------------------------------------------------------------------------------
PacketMagic == 1212960321     \* 0x484C4E41
HeaderSize == 88
DirectoryEntry == 10

(* section.types: contract 1, constants 2, library 3, code 4, sources 5.   *)
Sections(contract, compiled, ids, sources) ==
  LET written ==
        <<SerializeContract(contract, compiled.next, ids),
          WriteEach(compiled.consts, SerializeConstant),
          SerializeLibrary(LibraryDeps(compiled.code)),
          SerializeCode(compiled.code)>>
  IN  IF sources = << >> THEN written ELSE Append(written, SerializeSources(sources))

SectionStart(sections, i) ==
  HeaderSize + Len(sections) * DirectoryEntry
  + Len(FlattenSeq(SubSeq(sections, 1, i - 1)))

Assemble(sections) ==
  LET n == Len(sections) IN
  U32(PacketMagic) \o U16(1) \o U16(1) \o U32(SectionStart(sections, n + 1)) \o U16(n)
  \o U16(0) \o Bytes("u64", 8, {}) \o Bytes("signature", 64, 0)
  \o WriteEach(sections, LAMBDA i, bytes :
       U16(i) \o U32(SectionStart(sections, i)) \o U32(Len(bytes)))
  \o FlattenSeq(sections)

==============================================================================
