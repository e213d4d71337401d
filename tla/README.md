# Heluna, modelled and checked

Heluna is a small pure functional language with contracts. This directory
models its implementation in C: the arena its values live in, the compiler that
turns a program into a packet of bytecode, the machine that runs the packet, and
the tree-walking evaluator that says what the program means. The central claim
is that the last two agree: *a compiled program answers what the evaluator
answers*.

- [The system](#the-system): components, state, operations, hazards
- [The modules](#the-modules): what models what
- [Data abstractions and bounds](#data-abstractions-and-bounds)
- [The runs](#the-runs), what they check, fairness
- [Where code and documents disagree](#where-code-and-documents-disagree)
- [The proofs](#the-proofs)
- [Not modelled](#not-modelled) and [the plan](#plan)

To check: `tlc -config MCArena.cfg MCArena`, and so on for the configurations in
the table below; `tlapm Arena_proofs.tla`, and so on for the eight modules that
hold proofs.

## The system

Text goes through `lexer.c`, `parser.c` and `checker.c` to a tree (`ast.h`). Two
back ends take the tree: `evaluator.c` walks it on an input record, and
`compiler.c` turns it into a packet that `vm.c` loads and runs on an input
record. Both allocate everything in an arena and free nothing until the end.
The whole system is single-threaded and calls go one way (tool → library →
arena); nothing is persisted but the packet file. What makes it hard is not
concurrency but **sharing** (values are built in place and shared by pointer),
**control** (jumps and iterations patched and moved by the compiler, trusted by
the machine), **two implementations of one meaning**, and **two readers of one
text**: what the formatter prints the parser reads, what the checker accepts
the compiler compiles, what the compiler writes the machine loads.

| component | state | operations | talks to | hard part | what makes it correct |
|---|---|---|---|---|---|
| arena (`arena.c`) | list of blocks, `current`, `first` | create, alloc, calloc, strdup, strndup, destroy | everything allocates in one | oversized requests, rounding, malloc failing | allocations are disjoint and inside live blocks; destroy frees each block once |
| lexer, parser (`lexer.c`, `parser.c`) | position, current token | next token, one function per grammar rule | build the tree in the arena | precedence: which trees exist | what is printed of a tree is read back as that tree |
| checker (`checker.c`) | scopes, dependency graph, errors | check expressions, contracts, rules, acyclicity | reads the tree | cycles vs. shared dependencies; shadowing | accepted programs have scoped names, acyclic uses |
| evaluator (`evaluator.c`, `stdlib.c`) | environment (a stack of names), error | `eval_expr`, `match_pattern`, `eval_binary`, `eval_through` | values in the arena | a failed pattern's bindings | one value or one error for each program and input |
| code generator (`compiler.c`) | instructions, constants, scope, next slot, sources | `compile_expr` per construct, patterns, inlining | reads the tree, loads dependencies | patching, slots, scopes of inlined bodies | the packet means what the tree means |
| peephole (`compiler.c`) | instructions | fuse, compact, remap | last pass before assembly | jump targets and body lengths | optimized code means the same |
| packet assembly, loader (`compiler.c`, `vm.c`) | section table, string offsets | serialize, parse with bounds checks | the packet file | two independent layouts in step | load after assemble is the identity |
| machine (`vm.c`) | scratchpad (value, tags), tail per slot, iteration stack, `pc`, result slot, error | one instruction per turn of the loop | arena, `vm_stdlib.c`, `vm_source.c` | in-place update, stale tails, loops, tags | no aliasing, nested loops, termination |
| source lookup (`vm_source.c`) | cache of parsed files by source index | resolve a key | JSON reader, files that others write | cache staleness | the first matching entry, or nothing, of one reading of the file |
| library (`stdlib.c`, `vm_stdlib.c`) | none | one pure function per name | called with a record | two versions of some functions | both agree |
| security tags (`vm.c`, `compiler.c`) | tag bits beside each slot, rules of the contract | propagate, set, clear, check | part of the machine | an instruction that forgets them | an answer carries the tags of what it tells about |
| formatter (`formatter.c`) | the text so far | one function per kind of node | reads the tree | separators, precedence, minus signs | what it prints parses as what it printed, but for what it is known to lose |
| compile tool (`heluna-compile.c`) | loaded dependencies, sources | load, check, compile, write | files, all of the above | shared, missing and circular dependencies; a failed write | each file loaded once; accepted calls resolve; a part of a packet is not taken for one |
| JSON, errors, other tools | text | print, read | at the edges | wording | round trips |

The hazards are listed in `PROJECT.json` at the line where each bites, with the
property that would catch it, or the reason none does yet.

## The modules

| module | models | correspondence |
|---|---|---|
| `Allocator` | what `arena.h` promises | abstract: a set of disjoint regions, opened, allocated, closed |
| `Arena` | `arena.c` | `blocks` in order of creation, `first`/`current` as block numbers with 0 for NULL, `held` the regions handed out; `AllocInCurrent` and `AllocNewBlock` are the two paths of `arena_alloc`, `OutOfMemory` and `CreateFails` those of malloc; `DestroyBegin`/`DestroyBlock`/`DestroyEnd` the loop of `arena_destroy`, one block per step |
| `HelunaHeap` | `HVal`, `HField` and what reads them | a heap is a sequence of cells `[kind, n, s, head, next]`; a pointer is an index, 0 is NULL; arithmetic, comparison and `hval_equal` on cells |
| `HelunaVm` | `vm_execute` | `val[i]`, `tags[i]` the scratchpad, `tail[i]` `slot_tails`, `frames` `iter_stack`, `result` `result_slot`, `status` the loop's end or `had_error`; one action per opcode, superinstructions and library calls included |
| `HelunaLibrary` | the functions of `vm_stdlib.c` on numbers, lists, records, conversions | each maps memory and arguments to the set of results it may have: the cells it adds and the address it answers. Two results where `qsort` may leave either order; the empty set is an error |
| `LibraryPromises` | what a caller may expect of them | stated on values by structure, without cells |
| `HelunaAst`, `HelunaContract` | `ast.h` and the expression ladder of `parser.c` | a node is `[kind, name, n, kids]`; a contract is a record of the fields of its C struct |
| `HelunaSyntax` | `parser.c`, tokens of `lexer.c` | each parse function maps tokens and a place to `[at, tree]`; place 0 is `had_error` |
| `HelunaFormatter` | `formatter.c` | each `fmt_` function as the tokens it prints, floats to six digits; `KeptProgram` is what printing does not lose |
| `HelunaChecker` | `checker.c` but its graph search | `scope_names` is a sequence, cut back as `scope_depth` is; each `check_` function gives a set of errors |
| `DepGraph`, `Acyclicity` | `check_acyclicity`, `dfs_visit`, `find_dep_node` | the recursion is the stack `path` with the place each call has got to, `colour` is `visited`; one action per entry, dependency and return |
| `Dependencies` | `resolve_deps` of the compile tool, `compile_inline_call` | two explicit stacks: the files being read, and the bodies being compiled inside each other; the library's names are three constants, for `stdlib_functions` of the checker, `stdlib_names` of the tool and `stdlib_table` of the compiler, and `CompileBuiltIn` is the code that `EXPR_CALL` has of its own for conversions and for a `fold` written out |
| `HelunaCompiler` | `compile_expr`, patterns, inlining, peephole | the `Compiler` struct is a record threaded through the functions; code positions and slots are naturals from 0 as in C |
| `HelunaPacket` | the `serialize_` functions, `assemble_packet` | bytes: the first of an item carries its kind and value, the others are marks, so widths and places are real |
| `HelunaLoader` | `vm_load_packet` | a cursor over the bytes of a file, one action per table; reads beyond the end give zero as in the code |
| `Toolchain` | `heluna-fmt`, `heluna-compile`, `heluna-vm` one after the other | composes formatter, parser, checker, compiler, packet and loader |
| `HelunaEval` | `evaluator.c` and the part of `stdlib.c` the compiler treats specially | values by structure; the environment is passed as a sequence of bindings, the innermost last; every error is the value `Failed` |
| `HelunaSem` | what a run promises | abstract: one answer, the program's meaning, then nothing more |
| `HelunaPackage` | compiled program and input, ready to run | `Package` puts the constants, the input fields and the sources' data into memory as the loader and the JSON reader do, next to what the program means |
| `HelunaTags` | which inputs an answer tells about | defined by the evaluator: an input matters if another value of its kind changes the meaning |
| `Heluna` | program to answer | composes the package and the machine; refinement of `HelunaSem`; tags and forbid rules of the answer |
| `VmSource` | `vm_source.c` | `cache` is `source_cache`; `Lookup` is `vm_source_resolve`, `VmInit` a new machine, `ChangeFile` what other programs do to the files |
| `MCPrograms`, `MCHeluna`, `MCTags`, `MCVm`, `MCToolchain`, `MCArena`, `MCAcyclicity`, `MCDependencies`, `MCVmSource`, `MCFindings` | instances for TLC | programs, packets, graphs, folders, files |
| `Arena_proofs`, `Acyclicity_proofs`, `Dependencies_proofs`, `VmSource_proofs`, `HelunaHeap_proofs`, `HelunaLibrary_proofs`, `HelunaVm_proofs`, `HelunaMemory_proofs` | theorems and the lemmas they rest on | see [the proofs](#the-proofs) |

The compiler and the evaluator are functions, not processes: they run to their
end before the machine starts, with no state another component sees meanwhile.
They are operators here, and the machine, whose every step can be observed to
alias or overrun, is the state machine. `Heluna` puts a compiled program in its
initial state, so a run of TLC is one run of the machine for each (program,
input, optimized or not).

Programs that call dependencies (`uses`) or look up sources cannot be compared
with the evaluator, which knows only library functions (`stdlib.c`) and takes
every lookup for `nothing` (`evaluator.c:608`). Their meaning is that of a program without them, written beside
it: `<<body, means>>` pairs in `MCHeluna` (`DoubleOf`/`TwiceOf`, `LookedUp`).

The compiler reports forms it cannot compile; only programs it compiles without
an error become packets (`Compiled`), as `compiler_compile` returns no packet
otherwise.

## Data abstractions and bounds

- Integers are unbounded and small; overflow of `int64_t` does not occur in the
  runs. Floats are multiples of one half (`1.5` is 3 halves), enough to tell
  truncation, integer division and mixed arithmetic apart; there is no NaN. Printed,
  those beyond six digits are rounded to integers and tens (`SixDigits`).
- Strings are values from `StringOrder`, a constant that also gives `strcmp`
  its order; parsing of numerals is modelled for 0 to `MaxNumeral` and what
  `strtoll` makes of other text (0).
- Type hints in an instruction's flags are read by nothing and left out; the tag
  mode and the iteration mode are kept.
- `MaxTag`: the highest of the 64 tag bits in use. `MaxIterDepth`:
  `VM_MAX_ITER_DEPTH`, 8 when running compiled programs (none reaches it) and 2
  for packets, where three nested loops overflow it. `EndJumpCapacity`: the
  length of `end_jumps`, 64 as in the code except in the ladder run, which uses 3
  so that an `if` of four branches overflows it.
- `MaxBlocks` bounds the arena's blocks (3: first, one between, last), requests are of 0 and
  9 bytes (empty, and rounded up to 16), block sizes 0 (the default, 16 here) and
  12, which a rounded request exceeds: every path of `arena_alloc` is taken in every
  order on one, two and three blocks.
- `StdlibResults`: what a library function on text may answer, including an
  error; those are abstract, the others are in `HelunaLibrary`.
- A text is a sequence of tokens; a comment is none, a number is one token with
  its value. Wording and layout are left out of errors and printed text.
- `CutSizes`: the sizes of the file that a failed `fwrite` may leave; 0, one byte
  less than the header, the header alone, and a size in the middle of the
  tables. Where a byte is read that was not written for that purpose, the loader
  of the model is `Torn`: its values from there on are not modelled.
- `MaxDeps`: the length of `deps` in the compile tool, 3 instead of 32, so that
  it can be full; `MaxNesting`: how many bodies may be inlined in each other before
  the process stack is full, 6, where four contracts without a cycle nest at most
  four deep.
- `MaxLookups`: three per machine, so that a lookup can find no file, the next
  its contents, and the third the contents after it changed.

The programs of `MCHeluna` go through each construct with each other construct
that interacts with it: operators on all operand kinds, nested conditions around
fused comparisons, every pattern on every subject, containers built in place and
shared by `let`, iterations nested in each position of an iteration, pipelines,
inlined dependencies whose names collide with the caller's, lookups. Inputs have
a full and an empty variant: a list of two and of none, a missing value given
and not, a zero and a one. About 2,800 programs × 2 inputs × fused or not; a bug in a construct needs one instance of it to show, and the faulty variants named in the
modules (each with a comment) are all found on this set.

## The runs

| run | configuration | what is checked | states |
|---|---|---|---|
| `arena` | `MCArena.cfg` | types, where pointers lead, disjointness, backing, leak freedom, no double free; destruction ends; refinement of `Allocator` | 13,700, seconds |
| `compiled` | `MCHeluna.cfg` | compiled code is well formed; tails, reads, sharing, constants, tags; answers as the evaluator; ends | 60,000, half a minute |
| `packets` | `MCVm.cfg` | types, nested frames, termination and the library's promises on packets no compiler made | 48,000, half a minute |
| `acyclicity` | `MCAcyclicity.cfg` | the graph search is right on every graph of up to three contracts, and ends | 30,000, seconds |
| `dependencies` | `MCDependencies.cfg` | loading, calls and inlining of dependencies in every folder of four contracts | 272,000, two minutes |
| `toolchain` | `MCToolchain.cfg` | printing, parsing, checking, compiling, packing and loading some 4,000 programs, `length` the only library function | 61,000, a minute |
| `source_files` | `MCVmSource.cfg` | lookups while the files change | 612,000, seventeen seconds |
| five runs | `Finding*.cfg` | one departure from a document each, see below | |

The properties:

- **`ImplementsMeaning`** (`Heluna`): the run, seen through its answer, is a
  behaviour of `HelunaSem` whose meaning is the evaluator's value. It covers
  the order of evaluation, failure, patching, scopes, the optimizer (the fused
  and the plain code of a program must both agree with it, so they agree with each
  other: the specification's claim for superinstructions, `heluna-vm-spec.md:508`).
- **`PacketsWellFormed`**: slots in range, bodies closed and nested, jumps
  forward and never across a body (`heluna-vm-spec.md:480`); constants and inputs
  in range, and what is loaded linked forward only (`LoadedSound`); and an
  append, which works in place, always has before it the instruction that made its
  container, in the same bodies, with nothing but appends to that slot between
  them and no jump from outside to there (`AppendsToOwn`); until its last append
  no instruction takes that container for an operand and no loop that begins or ends in
  between collects it (`UnreadWhileBuilt`); the loaded values do not contain themselves
  (`Ranks`, with `Depths` for the ranking); the loaded cells lead
  to cells of their kind, fields from records and values from the rest
  (`LoadedSorted`); and every way through the code to an instruction writes the
  slots it reads (`ReadsAssured`, with the sets of slots that `Assured` computes
  forward over the code: an intersection where ways meet, and past a loop only
  what was assured before it and its result). It is the hypothesis of
  the theorems about the machine: the compiler establishes on each program what
  the machine relies on and does not check. That it does so for *every* program
  is out of the prover's reach (the compiler is recursive over trees); the run
  checks it on the programs of `MCHeluna`.
- **`NoAliasing`, `LoadedImmutable`, `TailIsLast`**: building in place is not
  observable elsewhere (`heluna-vm-spec.md:407`), constants, inputs and the
  interned singletons are never written (`vm.h`: "never mutated"), and the
  cached tail of a slot is the end of what the slot holds.
- **`ReadsWritten`**: no slot is read before it is written. The machine would
  answer `nothing` quietly.
- **`LibraryAnswers`** (`LibraryPromises`): each library call answers a value
  that is one of those `stdlib.md` describes: `sort` orders and keeps the
  elements, `slice` is what lies between the bounds, and so on, on every input the
  function is documented to take (`Accepts`). It is stated on whole values, so an
  element linked twice or with its old `next` is found. Where the code departs from
  its description the property names the inputs (`Departs`) and holds for all
  others; without any one of the branches of `Departs` TLC finds the run violated.
- **`FramesNested`, `TypeOK`, `Terminates`** on arbitrary well-formed packets;
  `Terminates` on compiled programs too (`heluna-vm-spec.md:1076`).
- **`TagsCoverInputs`**: an input matters if another value of its kind changes
  the program's meaning; then its tags are on the answer. It is stated about
  *influence*, not about the instructions' own rule, for straight-line programs:
  comparisons, branches, iterations and lookups drop tags in the code, so that
  the loops' part of that hazard (`vm.c:1521`) has no property.
- **`CleanIsAcyclic`, `CycleIsReal`, `PathFits`, `SearchEnds`**: a graph passes
  exactly if it has no cycle, defined by closed walks; the names in the error are
  one; the array of one place per node is long enough; the recursion ends.
- **`DependenciesComplete`, `CheckedCallsResolve`, `AcyclicCompiles`**: what is
  reachable by `uses` and can be loaded is loaded once; without a cycle the inlining
  ends. A call the checker accepts is compiled, whatever the three tables of the
  library hold, unless one of these is so: a needed file is missing, broken, a source or
  declares sanitizers of its own (`Usable`); a sanitizer of the program stands for no
  function of the compiler's, such as one that is using `to-string` or `fold`
  (`Backed`); a `fold` is not written out (`FoldsWhole`); `deps` is full. The checker
  accepts all of these and the documents forbid none; without any one of the first three
  TLC finds the run violated.
- **`FormatKeepsProgram`**: the parser makes the same tree of what is printed,
  up to what the formatter is known to lose, which `KeptProgram` says of each kind of tree: a
  minus sign that the lexer reads into a number, digits of a float beyond the sixth,
  the guards of a match rule's clauses, a configuration with nothing in it. The
  programs of the run have each of these, and without any one of the four
  exceptions TLC finds it violated. An empty configuration is an error for the
  checker and none is not, so what is printed may be accepted where the
  original was rejected.
- **`BodyChecked`**: the checker's walk over a body, with its one scope stack cut
  back here and there, finds an error exactly if the tree uses a name it does not
  bind or binds one twice (`WellScoped`, which follows the tree and knows no
  stack). **`CheckedCompiles`**: what the checker accepts, the compiler can
  compile, apart from what `Provided` and `Generable` name.
- **`ReadsInStep`, `LoadedAsWritten`, `OnlyCompleteLoads`**: the loader's cursor
  never stands in the middle of an item; the tables it makes are those of the
  program; a file cut short is rejected.
- **`OneReading`, `NothingOlder`**: all answers of one machine from one source
  come from one reading of its file, after the lookups that could not read it; and
  from contents the file has had since the machine began. A file is read in one
  step, so one torn while it is replaced in place is not modelled. Two sources in one file
  have a cache each, so *they* may disagree; the property is not stated across
  sources because the code does not promise it.

**Fairness.** `vm_execute` is a loop on the caller's thread that does nothing
else and waits for nothing: weak fairness of `Next`. Likewise the loop of
`arena_destroy` once entered: weak fairness of its two steps, and none for
calling it; and the recursions of `dfs_visit`, `resolve_deps` and
`compile_inline_call`, which are plain calls: weak fairness of their `Next`.
Nothing is assumed of other programs' writes, or of lookups.

**Deadlock** is not an error where the system stops: a run that has answered, an
arena that is destroyed, a search, a compilation and a load at their end. It is
checked for source files, whose run never stops.

## Where code and documents disagree

Each is shown by a run that is expected to find a violation.

1. `to-integer` and `to-float` bound by `let` read as nothing:
   `compiler.c:984` against `stdlib.md:730` (`conversion_lost`).
2. An `if` of more than 64 branches jumps to the start of the code:
   `compiler.c:773` against `heluna-vm-spec.md:1076` (`if_ladder_loops`).
3. Contracts that use each other are compiled without end: `compiler.c:460`
   against `heluna-vm-spec.md:46` (`recursion_inlined`). In the run `main` uses `f`
   and `f` uses `main`; the program is loaded as a dependency of its own dependency, and
   the bodies are compiled as `main`, `f`, `main`, and so on; `g`, which is in the
   folder too, is never loaded. The search that would
   find the cycle is right (it is proved), but the compile tool never runs it.
4. Forbid rules are loaded and not evaluated: `vm.c:1820` against
   `heluna-vm-spec.md:679` (`forbid_not_enforced`).
5. `uses` with two names is printed without the comma and does not parse again:
   `formatter.c:411` against `syntax.txt:176` (`format_not_idempotent`).

Met while modelling and not given a run of their own. Where a property would fail
for one of them it names it as an exception; otherwise the programs of the passing
runs keep away from it, or the model does as the code does:

- *library* (all but the last three are branches of `Departs`): `round` takes
  negative halves away from zero, -0.5 to -1 (`vm_stdlib.c:520`), and is documented to
  round half up, to 0 (`stdlib.md:284`, `heluna-vm-spec.md:728`); `to-string` is
  documented for any value (`stdlib.md:703`) and fails on lists and records
  (`vm_stdlib.c:1455`), of which the TO_STRING instruction makes `<value>`; `fold` is
  documented for any initial value (`stdlib.md:747`) and reads what is no
  number as one; `sort` and `sort-by` put all integers before all floats, whatever
  they are worth, since `hval_compare` compares kinds first (`stdlib.md:335`: ascending order);
  `length` counts bytes (`vm_stdlib.c:349`) and is documented to
  count codepoints (`stdlib.md:179`; texts of the model are one byte a letter); the
  bounds of `clamp` are `min` and `max` in the code and in `stdlib.md:326`, `low` and
  `high` in `heluna-vm-spec.md:731`; `min`, `max` and `clamp` take what is no number for one.

- *machine and evaluator*: `or else` is eager in compiled code
  (`compiler.c:1312`, `language_introduction.md:282`), so a failing fallback fails
  the program; an element pattern reads with LIST_GET whether or not the subject is
  a list (`compiler.c:1466`), so a list pattern on a record fails the run where the
  evaluator tries the next clause; `$x through to-integer({})` wraps its operand in
  a record of field `value`, unlike the evaluator's pipeline; guards are evaluated
  even if the pattern failed; a missing input is `nothing` on the machine and an
  error in the evaluator; `fold` with a function that is neither `add` nor
  `multiply` adds; `mod` of a float by zero is NaN on the machine; a record with a
  label twice keeps one field on the machine and two in the evaluator; `+` on types
  the compiler does not know is ADD, which fails on strings (`compiler.c:650`).
- *tags*: `map`, `filter` and `fold` drop them (`vm.c:1521`,
  `heluna-vm-spec.md:671`); looked-up values carry none
  (`language_introduction.md:734` says source tags flow); `TAG_SET` with an empty
  mask clears nothing.
- *checker and compiler*: the name a list pattern gives to the rest is in scope
  for the checker and unbound in the compiler; `fold` without all its arguments, or
  as a stage of `through`, a sanitizer that nothing implements, and one that is
  using a conversion or `fold` (`checker.c:344` knows them as library functions,
  `heluna-llm-context.md:198`; `compiler.c:515` does not) are accepted and
  do not compile; conditions of rules are not looked at; `is_stdlib_name` lacks the
  conversions and `fold`; `resolve_call` looks only at the main program's
  sanitizers; tags of a tag contract in `uses` are unknown to both.
- *formatter*: the guard of a rule's `when` (`formatter.c:565`) and an empty
  configuration (`formatter.c:436`) are not printed; floats are printed with six
  digits (`formatter.c:173`). `heluna-fmt.c:10` names the loss of comments only.
  A field named by a number, as in `x.1 .2`, is printed as `x.1.2`, which the lexer reads as a
  float; such names are not in the model.
- *packet*: conditions of match and require rules are not written; a sanitizer's
  function number is looked up by its own name, not by its implementation's.
- *parser*: `let` inside an operand is given no body.

## The proofs

Checked by TLAPS for every value of the constants.

**`Arena_proofs`**, with `Arena`'s assumptions (sizes are naturals, the bound on
blocks). `TypeOK` and `NoOverlap` are not inductive. `TypeOK` says of the pointers that
each is NULL or leads to a block, and that the current block ends the list; what
proves it is in `IInv`, which adds: the region of
every caller lies below its block's `used` mark (`Backed`); the blocks are one
chain from `first` in order of creation (`Chain`), with `current` its last while
the arena is live and, during destruction, exactly the blocks before the cursor
freed (`Phases`); bump pointers and regions are aligned (`Aligned`), which the
abstract allocator promises; and regions are pairwise disjoint in its sense
(`Separate`). Disjointness is preserved since a new region starts at `used`,
which bounds every earlier region of the block. Theorems: `TypeCorrect`,
`AllocationsDisjoint`, `AllocationsBacked`, `DestroyFreesAll`, `DestroyFreesOnce`
(the cursor of the destruction never meets a freed block again, by `Phases`), and
`Refinement`: every behaviour is one of `Allocator`.

**`Acyclicity_proofs`**, with `Acyclicity`'s one assumption (the graphs are
sequences of nodes), of any size: `SearchTyped`, `CleanGraphsAcyclic`,
`ReportedCyclesReal`, `PathAlwaysFits`. What the properties say of the end has to
be carried through the search. `IInv` says: the nodes on the path are those being
visited, each once (`OnPath`), and each is at the dependency that the next one is
(`Chain`); what a node on the path has dealt with is finished, not merely seen
(`TriedSettled`); the dependencies of a finished node are finished (`DoneClosed`).
That the path fits its array is the pigeonhole principle on distinct nodes. That a
clean graph has no cycle needs one fact more, since a set of finished nodes closed
under dependencies may still be a circle: every non-empty set of finished nodes has
one that depends on none of the set (`DoneAcyclic`); a node that finishes keeps
this, as no node finished before depends on it.

**`Dependencies_proofs`**, for folders of any size, with any names, assuming that a
folder is finite, that a file that parses and checks calls only what it may call
(`FoldersAssumption`), that the tool's table has nothing the compiler's lacks and
the checker's nothing more than `fold` and the conversions (`LibraryAssumption`), and
that the two limits are naturals.
`ResolveDepsIsComplete`: reachability by `uses` is a least closed set, so one half
is that what is loaded or being loaded is reachable, the other that a file that
`resolve_deps` has left has all its names handled (`LoadedInv`, `LoadingInv`); when
the recursion is over what is loaded is closed, and the least closed set lies within it.
`CheckedCallsAreResolved`: in an inlined body too, each call is one the compiler has
code of its own for, or names a function of its table or a loaded one. The hypotheses
that the property must name are those the proof could not do without: in particular
each sanitizer of the program must stand for a function of the *compiler's*
(`Backed`), for the checker accepts one without `using`, which the compiler looks
up under its own name, and one that is using a function only the checker's table has.
`AcyclicNestsShallow` is the safety half
of `AcyclicCompiles`: without a cycle the bodies being inlined are distinct
dependencies, so they nest no deeper than there are dependencies. It needs
`OwnNames`: `resolve_call` knows one list of sanitizers, so that one of the main
program captures calls in the files that it inlines, and may lead them in a circle
that no `uses` clause shows.

**`VmSource_proofs`**: `AnswersFromOneReading` and `AnswersNotOlder`, for any
sources, files, contents and number of lookups, assuming that a source's path is a
file or missing and that there are contents. Neither property mentions the cache,
so neither is inductive. `IInv` adds that the answers of a source are those of its
cache from some lookup on, and nothing before (`TracedToCache`), and that what is
cached has been in the source's file since the machine began (`CacheHeld`).

**`HelunaHeap_proofs`** has the lemmas about memory. `IsMemory`: every pointer
in a cell is NULL or leads to a cell, and every `next` leads to a later cell than
its own. So a walk along `next` ends. A walk is a recursive function; that it is well
defined is shown by well-founded recursion on the address, and facts about all its steps
by taking the least address that fails. Further: what appending and overwriting
cells keep (`Grown`, `Changed`), what a comparison, an arithmetic operation and a
conversion answer, and `Chained(m, cells, first, last)`: exactly these cells lie on
the walk from `first`, and `last` is its end. Last, what aliasing is about: `Ranked`
(values nest without loops, so what a pointer stands for, `Reify`, is well defined
by recursion on rank and address), `ReifyKept` (a pointer stands for the same value while
the cells it leads to are the same), `Sealed` (no cell outside a set leads into it) and
`RelinkedRanked` (links to new cells, or from a sealed set outwards, close no loop).

**`HelunaLibrary_proofs`**: `CallSound`. Whatever the memory and the arguments,
each result of each modelled library function adds cells that lead only to cells, `next`
only forward, and answers an old cell or one of these (`Fit`, `Sound`). It covers
functions that copy, share, reorder and rename what they are given, and the two orders that `qsort` may
leave. `CallKeeps` says further that on
a memory whose cells lead to cells of their kind these do too, and that the answer is a value, never
a field. `CallLayered`: no cell a call adds is part of itself, whatever it copies
and shares.

**`HelunaVm_proofs`**, for any packets, any `MaxIterDepth` in Nat.

First `FramesAlwaysNested`, under the hypothesis that every
packet is `WellFormed`. `FramesNested` alone is not inductive: from it one cannot
tell that after a jump the top frame still belongs to the loop the counter is
in. The invariant `IInv` says exactly which frames there are: those of the
loops whose body encloses the program counter, outermost first. The argument:

1. Every instruction, library calls included, either stays, advances by one, jumps to its `dest`, or is
   one of the two iteration instructions (`Moves`, lemmas `ScalarsMove`,
   `ContainersMove`, `ExternalMoves`, `JumpingMoves`).
2. Advancing from an instruction that is no loop boundary, and jumping under
   `JumpsForward`, leave the enclosing loops as they are (`EnclosingAdvance`,
   `EnclosingJump`).
3. `ITER_SETUP` enters one body, whose enclosing loops are those around it and
   itself (`EnclosingBody`, `SetupIInv`); an empty source passes over it.
4. At an `ITER_COLLECT` the innermost enclosing loop is its own (`AtCollect`,
   from nesting), so it goes round that loop or pops that frame (`CollectIInv`).
5. Past the end of the code nothing encloses the counter (`NoFrames`), so no
   frame is left when the run is done.

The run `packets` checks the same property with TLC where frames overflow, and
`compiled` checks the hypothesis for what the compiler makes.

Then what pointers lead to and who owns which cells:

- `PointersLead`: `TypeOK` always holds, if each packet is `WellFormed`. The
  invariant `MInv` adds `IsMemory`, that the slots instructions and frames name
  are there, and that the loaded packet lies below the three singletons. Each
  action is shown to be `Written` (keeps all this with the frames as they are) or is one of
  the two iteration instructions.
- `LoadedValuesKept` and `TailsAreLast`: `LoadedImmutable` and `TailIsLast`
  always hold, if moreover each packet's code is `AppendsToOwn`. Neither is
  inductive: `COPY` shares a container between two slots, and a tail left over in a
  slot is wrong as soon as the other slot is appended to. What saves the machine is
  that it never follows such a tail. The invariant `WInv` says who owns what
  (`Holding`): for each slot whose container is under construction at the program
  counter (`Within`: between the maker and the last append), and for each frame, which collects
  into a list of its own, there is a set of cells that is exactly its chain, ends at
  its tail and holds nothing loaded; these sets are disjoint, and no container
  under construction is an element of one. The set is not in the state, so the
  invariant quantifies over it. The steps: instructions that neither make nor append
  keep it, since they only add cells (`Calm`); a maker starts an empty set
  (`Making`); an append adds one cell to one set (`Linking`) or writes the
  value of one it owns (`Overwriting`); entering a loop starts a set, a turn
  extends it, leaving it hands it to the destination slot, which is under construction
  nowhere (`Reheld`). A jump never enters a construction from outside, which
  is what `AppendsToOwn` asks of the code.

`AppendsToOwn` was found by the proof: `WellFormed` packets exist that append to a
constant, and on these the machine does write it.

**`HelunaMemory_proofs`**, about the same packets.

- `SlotsAssured`: `ReadsWritten` always holds, if moreover each packet is `Readable`,
  that is `LoadedSorted` and `ReadsAssured` for some sets of slots. That a slot was
  written is not enough: the machine would pass on a NULL too that came from a library
  answer, a field or an accumulator. So the invariant `SInv` says three things together. Every
  pointer leads to a cell of its kind, in memory (`AllPoint`: a field is reached only
  from a record or a field and holds a value), in a slot and in a frame
  (`FrameSorted`), so what is read out of a container is never NULL. The frame
  still names the slots of its own `ITER_COLLECT`. And there are sets of assured slots
  (`Assuring`) such that those where control stands hold values, and so do those
  where the `ITER_SETUP` of each open loop stands: a turn of the loop goes back there,
  when slots its body wrote are assured no more. Steps that keep the frames put at most
  one value in one slot (`Filled`), which needs of each instruction that it answers a value when
  its operands are values; for library calls that is `CallKeeps`, `CallSound`'s companion
  for the kinds of cells. Entering a loop, its next turn, leaving it and skipping it
  for an empty list each have a lemma of their own (`PushSInv`, `AdvanceSInv`,
  `FinishLoopSInv`, `EmptySInv`). TLC checks the hypothesis on compiled code.
- `AppendsUnseen`: `NoAliasing` always holds, if moreover each packet's code is
  `UnreadWhileBuilt` and its loaded values are `Ranked`. `WInv` says that the
  cells of a construction are its own, but not that nothing else *leads* to them: a
  field, an accumulator, a library answer or a list nested in another could.
  The invariant `GInv` says that nothing does. The block of a construction (its
  chain, and the cell that heads it) is `Hidden`: `Sealed` in memory, in no other
  slot, and no frame's next element. Call a pointer `Safe` if it leads into no
  block. While a container is built no instruction reads it (`GuardedOutside`), so
  every operand is safe; what an instruction stores from safe operands is safe or
  new (`NextSpares`; a library call reaches only what its arguments reach); and a
  step continues each construction by cells of its own, or ends it (`NextCarries`), so the
  blocks stay hidden (`GuardedAgain`). A step that changes cells changes those of one
  block only, held by the slot it names or by a frame (`NextChanges`). What the other
  slots hold lies outside that block, so by `ReifyKept` it stays the same
  value (`NextUnseen`). That values stay `Ranked` is part of the invariant, since
  without it `Reify` means nothing, and it needs the seal in turn: a container appended to
  itself would be a loop.

`UnreadWhileBuilt` too was found by the proof: a packet that copies a list, then
appends to it once more, keeps every other invariant and shows the append in both
slots. TLC checks all these hypotheses on compiled code (`PacketsWellFormed`).

**Only model-checked**, and why:

- *Everything about programs as trees*, that is parsing, printing, checking,
  compiling and meaning: `FormatKeepsProgram`, `BodyChecked`, `CheckedCompiles`,
  `PacketsWellFormed`, `ImplementsMeaning`, `TagsCoverInputs`. These are recursive
  operators, and statements about all trees need induction over data.
- *`LoadedAsWritten`, `ReadsInStep`, `OnlyCompleteLoads`*: the packet's layout is a
  recursive traversal of the contract (types within types), with folds over operators.
- *`LibraryAnswers`*: the promises are stated on values by structure, which is recursive too.
- *Liveness* (`Terminates`, `DestroyEnds`, `SearchEnds`, the other half of
  `AcyclicCompiles`).

## Not modelled

- *Text as characters*: scanning in `lexer.c` (escapes, comments, number formats),
  the JSON writer and lexical details of its reader, wording of errors, tree
  dumps, layout. Functions without state, from text to text.
- *Library functions on text, dates, encodings and hashes*: an error or some
  string; `regex-match` and the digests are algorithms of their own.
- *Widths*: 64-bit overflow, 16-bit slots and jumps, fixed
  arrays that no small program fills (`config_to_json`'s 2,048 bytes, 64 uses, 64
  tags, 64 dependency texts). The hazards name each.
- *Rules*: conditions of match and require rules, which the compiler drops.
- *The trees left after a syntax error*: a failed parse has no tree.
- *Tools* other than format, compile and run: `heluna-test`, `heluna-check`,
  `heluna-lex`, `heluna-parse` print what the modelled parts compute. Benchmarks.

`PROJECT.json` lists each component with its reason.

## Plan

Done: the arena, the machine and its library, compiler, optimizer, evaluator and
their composition; parser, formatter, checker, packets and loader as one chain;
dependencies; source files; the proofs above. Next, in this order:

1. `Terminates`' measure as a safety property: between two turns of a loop its
   remaining list is shorter.
2. The loader's cursor for packets without nested types.
3. Fixed-width arithmetic (`int64_t` at a reduced width) in `HelunaHeap`, with NaN.
4. The evaluator's library against `LibraryPromises`: the two versions of each
   function agree.
