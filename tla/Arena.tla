-------------------------------- MODULE Arena --------------------------------
(***************************************************************************)
(* The arena allocator of src/src/arena.c: a chain of blocks, a bump       *)
(* pointer in the current one, and a destructor that walks the chain.      *)
(* Blocks are numbered in the order malloc returns them; 0 is NULL.        *)
(***************************************************************************)
EXTENDS Integers, Sequences

CONSTANTS
  DefaultBlockSize,  \* what arena_create uses when it is given 0
  BlockSizes,        \* sizes arena_create is called with
  Sizes,             \* sizes the allocation functions are called with
  MaxBlocks          \* bound: blocks the system can still give us

ASSUME ArenaAssumption ==
  /\ DefaultBlockSize \in Nat \ {0}
  /\ BlockSizes \subseteq Nat
  /\ Sizes \subseteq Nat
  /\ MaxBlocks \in Nat \ {0}

VARIABLES
  status,     \* "absent", "live", "destroying", "destroyed" or "aborted"
  blocks,     \* the blocks malloc returned: next, size, used, freed
  first,      \* Arena.first
  current,    \* Arena.current
  default,    \* Arena.default_block_size
  cursor,     \* the local b of arena_destroy
  held        \* the regions callers got, as bytes they may touch (history)

vars == <<status, blocks, first, current, default, cursor, held>>

NULL == 0
Alignment == 8      \* ARENA_ALIGNMENT

Kinds == {"bytes", "string"}

(* Bytes a call asks for, and bytes its caller then writes: the string     *)
(* duplicators ask for a terminator of their own and write it.             *)
Requested(kind, n) == IF kind = "string" THEN n + 1 ELSE n
Written(kind, n)   == IF kind = "string" THEN n + 1 ELSE n

(* Faulty variants: rounding down, and not rounding at all.                *)
AlignDown(n) == (n \div Alignment) * Alignment
Unaligned(n) == n

AlignUp(n) == ((n + Alignment - 1) \div Alignment) * Alignment

NewBlock(size, used) ==
  [next |-> NULL, size |-> size, used |-> used, freed |-> FALSE]

------------------------------------------------------------------------------
Init ==
  /\ status = "absent"
  /\ blocks = << >>
  /\ first = NULL /\ current = NULL /\ cursor = NULL
  /\ default = 0
  /\ held = {}

Create(blockSize) ==
  /\ status = "absent"
  /\ LET size == IF blockSize = 0 THEN DefaultBlockSize ELSE blockSize
     IN  /\ blocks' = <<NewBlock(size, 0)>>
         /\ default' = size
  /\ first' = 1 /\ current' = 1
  /\ status' = "live"
  /\ UNCHANGED <<cursor, held>>

(* malloc fails in arena_create or its block_create: the process aborts.   *)
CreateFails ==
  /\ status = "absent"
  /\ status' = "aborted"
  /\ UNCHANGED <<blocks, first, current, default, cursor, held>>

(* A faulty variant: the block only has to have room left.                 *)
HasRoom(size) == blocks[current].used < blocks[current].size

Fits(size) == blocks[current].used + size <= blocks[current].size

(* The request fits in the current block: bump its used count.             *)
AllocInCurrent(kind, n) ==
  LET size == AlignUp(Requested(kind, n)) IN
  /\ status = "live"
  /\ Fits(size)
  /\ held' = held \cup {[blk |-> current, off |-> blocks[current].used,
                         len |-> Written(kind, n)]}
  /\ blocks' = [blocks EXCEPT ![current].used = @ + size]
  /\ UNCHANGED <<status, first, current, default, cursor>>

(* Faulty variants: the new block is not linked behind the current one, or *)
(* its own next pointer leads back to the first.                           *)
AllocUnlinked(kind, n) ==
  LET size == AlignUp(Requested(kind, n))  nb == Len(blocks) + 1 IN
  /\ status = "live" /\ ~Fits(size) /\ nb <= MaxBlocks
  /\ blocks' = Append(blocks, NewBlock(IF size > default THEN size ELSE default, size))
  /\ current' = nb
  /\ held' = held \cup {[blk |-> nb, off |-> 0, len |-> Written(kind, n)]}
  /\ UNCHANGED <<status, first, default, cursor>>

AllocCircular(kind, n) ==
  LET size == AlignUp(Requested(kind, n))  nb == Len(blocks) + 1
      block == NewBlock(IF size > default THEN size ELSE default, size)
  IN
  /\ status = "live" /\ ~Fits(size) /\ nb <= MaxBlocks
  /\ blocks' = Append([blocks EXCEPT ![current].next = nb], [block EXCEPT !.next = first])
  /\ current' = nb
  /\ held' = held \cup {[blk |-> nb, off |-> 0, len |-> Written(kind, n)]}
  /\ UNCHANGED <<status, first, default, cursor>>

(* It does not: link a new block, at least big enough, behind the current. *)
AllocNewBlock(kind, n) ==
  LET size    == AlignUp(Requested(kind, n))
      newSize == IF size > default THEN size ELSE default
      nb      == Len(blocks) + 1
  IN
  /\ status = "live"
  /\ ~Fits(size)
  /\ Len(blocks) < MaxBlocks
  /\ blocks' = Append([blocks EXCEPT ![current].next = nb],
                      NewBlock(newSize, size))
  /\ current' = nb
  /\ held' = held \cup {[blk |-> nb, off |-> 0, len |-> Written(kind, n)]}
  /\ UNCHANGED <<status, first, default, cursor>>

(* malloc returns NULL in block_create: the process aborts.                *)
OutOfMemory(kind, n) ==
  /\ status = "live"
  /\ ~Fits(AlignUp(Requested(kind, n)))
  /\ status' = "aborted"
  /\ UNCHANGED <<blocks, first, current, default, cursor, held>>

DestroyBegin ==
  /\ status = "live"
  /\ status' = "destroying"
  /\ cursor' = first
  /\ UNCHANGED <<blocks, first, current, default, held>>

(* One turn of the loop: next is read before the block is freed.           *)
DestroyBlock ==
  /\ status = "destroying"
  /\ cursor # NULL
  /\ blocks' = [blocks EXCEPT ![cursor].freed = TRUE]
  /\ cursor' = blocks[cursor].next
  /\ UNCHANGED <<status, first, current, default, held>>

DestroyEnd ==
  /\ status = "destroying"
  /\ cursor = NULL
  /\ status' = "destroyed"
  /\ UNCHANGED <<blocks, first, current, default, cursor, held>>

Alloc ==
  \E kind \in Kinds, n \in Sizes :
    AllocInCurrent(kind, n) \/ AllocNewBlock(kind, n) \/ OutOfMemory(kind, n)

Destroy == DestroyBegin \/ DestroyBlock \/ DestroyEnd

Next ==
  \/ \E blockSize \in BlockSizes : Create(blockSize)
  \/ CreateFails \/ Alloc \/ Destroy

Spec == Init /\ [][Next]_vars

(* arena_destroy runs to its end once called; nothing makes a caller       *)
(* call it, but every tool of src/tools does before it exits.              *)
FairSpec == Spec /\ WF_vars(DestroyBlock \/ DestroyEnd)

------------------------------------------------------------------------------
Block == [next : Nat, size : Nat, used : Nat, freed : BOOLEAN]

FieldTypes ==
  /\ status \in {"absent", "live", "destroying", "destroyed", "aborted"}
  /\ blocks \in Seq(Block)
  /\ first \in Nat /\ current \in Nat /\ cursor \in Nat
  /\ default \in Nat
  /\ held \subseteq [blk : Nat, off : Nat, len : Nat]

(* Every pointer of the arena is NULL or leads to one of its blocks, and   *)
(* the current block is the last of the list.                              *)
Pointers ==
  /\ {first, current, cursor} \subseteq 0 .. Len(blocks)
  /\ \A i \in 1 .. Len(blocks) : blocks[i].next \in 0 .. Len(blocks)
  /\ status = "live" => current # NULL /\ blocks[current].next = NULL

(* The types of the arena's fields and of the caller's regions; where its  *)
(* pointers lead, and that no block is used beyond its end.                *)
TypeOK ==
  /\ FieldTypes /\ Pointers
  /\ \A i \in 1 .. Len(blocks) : blocks[i].used <= blocks[i].size

Overlap(r, q) ==
  /\ r.blk = q.blk
  /\ r.off < q.off + q.len
  /\ q.off < r.off + r.len

(* arena_alloc never hands out a byte twice, in any order of small and     *)
(* oversized requests and whatever blocks they open.                       *)
NoOverlap ==
  \A r, q \in held : r # q /\ r.len > 0 /\ q.len > 0 => ~Overlap(r, q)

(* A caller's bytes lie inside a block that is still allocated while the   *)
(* arena is live, so a write through the pointer is a legal one.           *)
RegionsBacked ==
  status = "live" =>
    \A r \in held :
      /\ r.blk \in 1 .. Len(blocks)
      /\ ~blocks[r.blk].freed
      /\ r.off + r.len <= blocks[r.blk].size

(* arena_destroy leaves no block behind: the chain from first reaches      *)
(* every block arena_alloc linked, in the order they were opened.          *)
NoLeak ==
  status = "destroyed" => \A i \in 1 .. Len(blocks) : blocks[i].freed

(* The loop of arena_destroy never frees a block twice nor follows the     *)
(* next pointer of one it has freed.                                       *)
NoDoubleFree ==
  status = "destroying" /\ cursor # NULL =>
    cursor \in 1 .. Len(blocks) /\ ~blocks[cursor].freed

(* A destructor that was entered ends: the chain it walks has no cycle.    *)
DestroyEnds == status = "destroying" ~> status = "destroyed"

------------------------------------------------------------------------------
(* The arena implements the allocator its header promises.                 *)
phaseBar ==
  CASE status = "absent" -> "absent"
    [] status = "live"   -> "open"
    [] OTHER             -> "closed"

regionsBar == IF status = "live" THEN held ELSE {}

Abstract == INSTANCE Allocator WITH phase <- phaseBar, regions <- regionsBar

ImplementsAllocator == Abstract!Spec

==============================================================================
