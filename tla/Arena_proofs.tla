----------------------------- MODULE Arena_proofs -----------------------------
(***************************************************************************)
(* Proofs about Arena.tla: its safety invariants, for blocks and requests  *)
(* of any size and any number of them, and that every step of the arena    *)
(* is a step of the abstract allocator.                                    *)
(***************************************************************************)
EXTENDS Arena, TLAPS

Ids == 1 .. Len(blocks)

(* The blocks form one chain, in the order of their creation.              *)
Chain ==
  \A i \in Ids :
    blocks[i].next = IF i < Len(blocks) THEN i + 1 ELSE NULL

(* What each phase says of the fields that matter in it.                   *)
Phases ==
  /\ status = "absent" => blocks = << >> /\ held = {}
  /\ status = "live" =>
       /\ first = 1 /\ current = Len(blocks) /\ current \in Ids
       /\ \A i \in Ids : ~blocks[i].freed
  /\ status = "destroying" =>
       /\ cursor \in 0 .. Len(blocks)
       /\ \A i \in Ids : blocks[i].freed <=> (cursor = NULL \/ i < cursor)
  /\ status = "destroyed" => \A i \in Ids : blocks[i].freed

(* The arena's pointers lead to its blocks.                                *)
InChain == {first, current, cursor} \subseteq 0 .. Len(blocks)

(* Regions end below their block's bump pointer, which is inside it.       *)
Backed ==
  /\ \A i \in Ids : blocks[i].used <= blocks[i].size
  /\ \A r \in held :
       r.blk \in Ids /\ r.off + r.len <= blocks[r.blk].used

(* Bump pointers and regions are aligned.                                  *)
Aligned ==
  /\ \A i \in Ids : blocks[i].used % Alignment = 0
  /\ \A r \in held : r.off % Alignment = 0

Separate == \A r, q \in held : r # q => Abstract!Disjoint(r, q)

IInv == FieldTypes /\ InChain /\ Chain /\ Phases /\ Backed /\ Aligned /\ Separate

(* align_up returns a multiple of the alignment that is large enough.      *)
LEMMA AlignUpFact ==
  ASSUME NEW n \in Nat
  PROVE  /\ AlignUp(n) \in Nat
         /\ AlignUp(n) >= n
         /\ AlignUp(n) % Alignment = 0
  BY DEF AlignUp, Alignment

(* The bytes a caller writes are within the bytes it was given.            *)
LEMMA WrittenFits ==
  ASSUME NEW kind \in Kinds, NEW n \in Nat
  PROVE  /\ Requested(kind, n) \in Nat
         /\ Written(kind, n) \in Nat
         /\ Written(kind, n) <= AlignUp(Requested(kind, n))
  BY AlignUpFact DEF Requested, Written

(* A well-typed chain is a sequence of well-typed blocks.                  *)
LEMMA BlockFields ==
  ASSUME FieldTypes
  PROVE  \A i \in Ids :
           /\ blocks[i] \in Block
           /\ blocks[i].next \in Nat /\ blocks[i].size \in Nat
           /\ blocks[i].used \in Nat /\ blocks[i].freed \in BOOLEAN
<1>1. \A i \in Ids : blocks[i] \in Block
  BY DEF FieldTypes, Ids
<1>2. QED
  BY <1>1 DEF Block

(* Writing one block of the chain leaves the others as they were.          *)
LEMMA BlockUpdate ==
  ASSUME NEW s \in Seq(Block), NEW i \in 1 .. Len(s), NEW b \in Block
  PROVE  /\ [s EXCEPT ![i] = b] \in Seq(Block)
         /\ Len([s EXCEPT ![i] = b]) = Len(s)
         /\ \A j \in 1 .. Len(s) :
              [s EXCEPT ![i] = b][j] = IF j = i THEN b ELSE s[j]
  OBVIOUS

LEMMA InitIInv == Init => IInv
  BY DEF Init, IInv, FieldTypes, InChain, Chain, Phases, Backed, Aligned, Separate, Ids,
         NULL, Block

LEMMA NextIInv == IInv /\ [Next]_vars => IInv'
<1> SUFFICES ASSUME IInv, [Next]_vars PROVE IInv'
  OBVIOUS
<1> USE DEF IInv, NULL
<1>1. ASSUME NEW blockSize \in BlockSizes, Create(blockSize) PROVE IInv'
  <2> DEFINE size == IF blockSize = 0 THEN DefaultBlockSize ELSE blockSize
  <2>1. size \in Nat
    BY ArenaAssumption
  <2>2. /\ blocks' = <<NewBlock(size, 0)>> /\ default' = size
        /\ first' = 1 /\ current' = 1 /\ status' = "live"
        /\ cursor' = 0 /\ held' = {}
    <3>1. blocks = << >> /\ held = {}
      BY <1>1 DEF Create, Phases
    <3>2. cursor = 0
      BY <3>1 DEF InChain
    <3>3. QED
      BY <1>1, <3>1, <3>2 DEF Create
  <2>3. /\ Len(blocks') = 1
        /\ blocks'[1] = [next |-> 0, size |-> size, used |-> 0, freed |-> FALSE]
    BY <2>2 DEF NewBlock
  <2>4. FieldTypes'
    BY <2>1, <2>2 DEF FieldTypes, Block, NewBlock
  <2>5. InChain' /\ Chain' /\ Phases' /\ Backed' /\ Aligned' /\ Separate'
    BY <2>1, <2>2, <2>3
       DEF InChain, Chain, Phases, Backed, Aligned, Separate, Ids, Alignment
  <2>6. QED
    BY <2>4, <2>5
<1>2. ASSUME NEW kind \in Kinds, NEW n \in Sizes, AllocInCurrent(kind, n)
      PROVE  IInv'
  <2> DEFINE size == AlignUp(Requested(kind, n))
             r    == [blk |-> current, off |-> blocks[current].used,
                      len |-> Written(kind, n)]
  <2>1. /\ n \in Nat /\ Requested(kind, n) \in Nat
        /\ size \in Nat /\ size % Alignment = 0
        /\ Written(kind, n) \in Nat /\ Written(kind, n) <= size
    BY ArenaAssumption, WrittenFits, AlignUpFact
  <2> HIDE DEF size
  <2>2. /\ status = "live" /\ current \in Ids
        /\ blocks[current] \in Block
        /\ blocks[current].used + size <= blocks[current].size
        /\ blocks' = [blocks EXCEPT ![current].used = @ + size]
        /\ held' = held \cup {r}
        /\ UNCHANGED <<status, first, current, default, cursor>>
    BY <1>2 DEF AllocInCurrent, Fits, Phases, FieldTypes, Ids, size
  <2>3. /\ Len(blocks') = Len(blocks) /\ blocks' \in Seq(Block)
        /\ \A i \in Ids :
             /\ blocks'[i].next = blocks[i].next
             /\ blocks'[i].size = blocks[i].size
             /\ blocks'[i].freed = blocks[i].freed
             /\ blocks'[i].used = IF i = current THEN blocks[i].used + size
                                                 ELSE blocks[i].used
    <3> DEFINE bumped == [blocks[current] EXCEPT !.used = @ + size]
    <3>1. /\ bumped \in Block
          /\ bumped.next = blocks[current].next
          /\ bumped.size = blocks[current].size
          /\ bumped.freed = blocks[current].freed
          /\ bumped.used = blocks[current].used + size
      BY <2>1, <2>2 DEF Block
    <3>2. blocks' = [blocks EXCEPT ![current] = bumped]
      BY <2>2
    <3> HIDE DEF bumped
    <3> DEFINE updated == [blocks EXCEPT ![current] = bumped]
    <3>3. /\ updated \in Seq(Block) /\ Len(updated) = Len(blocks)
          /\ \A i \in Ids :
               updated[i] = IF i = current THEN bumped ELSE blocks[i]
      BY <2>2, <3>1, BlockUpdate DEF FieldTypes, Ids
    <3> HIDE DEF updated
    <3>4. blocks' = updated
      BY <3>2 DEF updated
    <3>5. QED
      BY <3>1, <3>3, <3>4
  <2>4. r \in [blk : Nat, off : Nat, len : Nat]
    BY <2>1, <2>2 DEF Block, Ids, FieldTypes
  <2>5. FieldTypes'
    BY <2>2, <2>3, <2>4 DEF FieldTypes
  <2>6. InChain' /\ Chain' /\ Phases'
    BY <2>2, <2>3 DEF InChain, Chain, Phases, Ids
  <2>7. Backed'
    <3>1. \A i \in Ids : blocks[i].used \in Nat /\ blocks[i].size \in Nat
      BY BlockFields
    <3>2. \A i \in Ids' : blocks'[i].used <= blocks'[i].size
      BY <2>2, <2>3, <3>1 DEF Backed, Ids
    <3>3. ASSUME NEW q \in held
          PROVE  q.blk \in Ids' /\ q.off + q.len <= blocks'[q.blk].used
      <4>1. q.blk \in Ids /\ q.off + q.len <= blocks[q.blk].used
        BY DEF Backed
      <4>2. q.off + q.len \in Nat
        BY DEF FieldTypes
      <4>3. blocks'[q.blk].used >= blocks[q.blk].used
        BY <2>1, <2>3, <3>1, <4>1
      <4>4. blocks'[q.blk].used \in Nat
        BY <2>1, <2>3, <3>1, <4>1
      <4>5. Ids' = Ids
        BY <2>3 DEF Ids
      <4>6. QED
        BY <3>1, <4>1, <4>2, <4>3, <4>4, <4>5
    <3>4. r.blk \in Ids' /\ r.off + r.len <= blocks'[r.blk].used
      BY <2>1, <2>2, <2>3, <3>1 DEF Ids
    <3>5. QED
      BY <2>2, <3>2, <3>3, <3>4 DEF Backed
  <2>8. Aligned'
    <3>1. \A i \in Ids : blocks[i].used \in Nat
      BY BlockFields
    <3>2. (blocks[current].used + size) % Alignment = 0
      BY <2>1, <2>2, <3>1 DEF Aligned, Alignment
    <3>3. \A i \in Ids' : blocks'[i].used % Alignment = 0
      BY <2>3, <3>2 DEF Aligned, Ids
    <3>4. QED
      BY <2>2, <3>3 DEF Aligned
  <2>9. Separate'
    <3>1. ASSUME NEW q \in held PROVE Abstract!Disjoint(r, q)
                                   /\ Abstract!Disjoint(q, r)
      BY <2>1, <2>2, <2>4 DEF Abstract!Disjoint, Backed, FieldTypes, Block, Ids
    <3>2. QED
      BY <2>2, <3>1 DEF Separate
  <2>10. QED
    BY <2>5, <2>6, <2>7, <2>8, <2>9
<1>3. ASSUME NEW kind \in Kinds, NEW n \in Sizes, AllocNewBlock(kind, n)
      PROVE  IInv'
  <2> DEFINE size    == AlignUp(Requested(kind, n))
             newSize == IF size > default THEN size ELSE default
             nb      == Len(blocks) + 1
             r       == [blk |-> nb, off |-> 0, len |-> Written(kind, n)]
             fresh   == [next |-> 0, size |-> newSize, used |-> size,
                         freed |-> FALSE]
             linked  == [blocks EXCEPT ![current].next = nb]
  <2>1. /\ n \in Nat /\ Requested(kind, n) \in Nat
        /\ size \in Nat /\ size % Alignment = 0
        /\ Written(kind, n) \in Nat /\ Written(kind, n) <= size
    BY ArenaAssumption, WrittenFits, AlignUpFact
  <2>2. blocks' = Append(linked, fresh)
    BY <1>3 DEF AllocNewBlock, NewBlock
  <2>3. /\ status = "live" /\ current \in Ids /\ current' = nb
        /\ held' = held \cup {r}
        /\ UNCHANGED <<status, first, default, cursor>>
    BY <1>3 DEF AllocNewBlock, Phases
  <2> HIDE DEF size
  <2>4. newSize \in Nat /\ newSize >= size
    BY <2>1 DEF FieldTypes
  <2>5. fresh \in Block
    BY <2>1, <2>4 DEF Block
  <2> DEFINE pred == [blocks[current] EXCEPT !.next = nb]
  <2>6. /\ pred \in Block /\ pred.next = nb
        /\ pred.size = blocks[current].size
        /\ pred.used = blocks[current].used
        /\ pred.freed = blocks[current].freed
    <3>1. blocks[current] \in Block /\ nb \in Nat
      BY <2>3, BlockFields DEF FieldTypes
    <3>2. QED
      BY <3>1 DEF Block
  <2> HIDE DEF pred
  <2>7. /\ linked \in Seq(Block) /\ Len(linked) = Len(blocks)
        /\ \A i \in Ids : linked[i] = IF i = current THEN pred ELSE blocks[i]
    BY <2>3, <2>6, BlockUpdate DEF FieldTypes, Ids, pred
  <2> HIDE DEF linked, fresh
  <2>8. /\ blocks' \in Seq(Block) /\ Len(blocks') = nb
        /\ \A i \in Ids : blocks'[i] = linked[i]
        /\ blocks'[nb] = fresh
    BY <2>2, <2>5, <2>7 DEF Ids
  <2>8a. /\ fresh.next = 0 /\ fresh.size = newSize /\ fresh.used = size
         /\ fresh.freed = FALSE
    BY DEF fresh
  <2>8b. \A i \in Ids :
          /\ blocks'[i].next = IF i = current THEN nb ELSE blocks[i].next
          /\ blocks'[i].size = blocks[i].size
          /\ blocks'[i].freed = blocks[i].freed
          /\ blocks'[i].used = blocks[i].used
    BY <2>6, <2>7, <2>8
  <2> HIDE DEF newSize
  <2>9. r \in [blk : Nat, off : Nat, len : Nat]
    BY <2>1 DEF FieldTypes
  <2>10. FieldTypes'
    BY <2>3, <2>8, <2>9 DEF FieldTypes
  <2>11. Ids' = Ids \cup {nb} /\ nb \notin Ids
    BY <2>8 DEF Ids, FieldTypes
  <2>12. Chain' /\ Phases'
    <3>1. /\ first = 1 /\ current = Len(blocks)
          /\ \A i \in Ids : ~blocks[i].freed
      BY <2>3 DEF Phases
    <3>2. \A i \in Ids : blocks'[i].next = i + 1 /\ i < nb
      BY <2>3, <2>8b, <3>1 DEF Chain, Ids
    <3>3. /\ Len(blocks') = nb /\ blocks'[nb].next = NULL
          /\ \A i \in Ids' : i \in Ids \/ i = nb
      BY <2>8, <2>8a, <2>11 DEF NULL
    <3>4. Chain'
      BY <3>2, <3>3 DEF Chain
    <3>5. \A i \in Ids' : ~blocks'[i].freed
      BY <2>8, <2>8a, <2>8b, <3>1, <3>3
    <3>6. nb \in Ids'
      BY <2>11
    <3>7. Phases'
      BY <2>3, <3>1, <3>3, <3>5, <3>6 DEF Phases
    <3>8. QED
      BY <3>4, <3>7
  <2>13. Backed'
    <3>1. \A i \in Ids' : blocks'[i].used <= blocks'[i].size
      BY <2>1, <2>4, <2>8, <2>8a, <2>8b, <2>11 DEF Backed
    <3>2. \A q \in held : q.blk \in Ids' /\ q.off + q.len <= blocks'[q.blk].used
      BY <2>8b, <2>11 DEF Backed
    <3>3. r.blk \in Ids' /\ r.off + r.len <= blocks'[r.blk].used
      BY <2>1, <2>8, <2>8a, <2>11
    <3>4. QED
      BY <2>3, <3>1, <3>2, <3>3 DEF Backed
  <2>14. Aligned'
    <3>1. \A i \in Ids' : blocks'[i].used % Alignment = 0
      BY <2>1, <2>8, <2>8a, <2>8b, <2>11 DEF Aligned
    <3>2. r.off % Alignment = 0
      BY DEF Alignment
    <3>3. QED
      BY <2>3, <3>1, <3>2 DEF Aligned
  <2>15. Separate'
    <3>1. ASSUME NEW q \in held PROVE q.blk # nb
      BY <2>11 DEF Backed
    <3>2. QED
      BY <2>3, <3>1 DEF Separate, Abstract!Disjoint
  <2>16. InChain'
    BY <2>3, <2>8 DEF InChain, FieldTypes
  <2>17. QED
    BY <2>10, <2>12, <2>13, <2>14, <2>15, <2>16
<1>4. ASSUME NEW kind \in Kinds, NEW n \in Sizes, OutOfMemory(kind, n)
      PROVE  IInv'
  BY <1>4 DEF OutOfMemory, FieldTypes, InChain, Chain, Phases, Backed, Aligned, Separate,
              Ids
<1>5. CASE DestroyBegin
  BY <1>5 DEF DestroyBegin, FieldTypes, InChain, Chain, Phases, Backed, Aligned, Separate,
              Ids
<1>6. CASE DestroyBlock
  <2>1. /\ status = "destroying" /\ cursor \in Ids
        /\ blocks' = [blocks EXCEPT ![cursor].freed = TRUE]
        /\ cursor' = blocks[cursor].next
        /\ UNCHANGED <<status, first, current, default, held>>
    BY <1>6 DEF DestroyBlock, Phases, Ids, FieldTypes
  <2>2. /\ Len(blocks') = Len(blocks) /\ blocks' \in Seq(Block)
        /\ \A i \in Ids :
             /\ blocks'[i].next = blocks[i].next
             /\ blocks'[i].size = blocks[i].size
             /\ blocks'[i].used = blocks[i].used
             /\ blocks'[i].freed = IF i = cursor THEN TRUE ELSE blocks[i].freed
    <3> DEFINE dead == [blocks[cursor] EXCEPT !.freed = TRUE]
    <3>1. /\ dead \in Block
          /\ dead.next = blocks[cursor].next
          /\ dead.size = blocks[cursor].size
          /\ dead.used = blocks[cursor].used
          /\ dead.freed = TRUE
      BY <2>1, BlockFields DEF Block
    <3>2. blocks' = [blocks EXCEPT ![cursor] = dead]
      BY <2>1
    <3> HIDE DEF dead
    <3> DEFINE updated == [blocks EXCEPT ![cursor] = dead]
    <3>3. /\ updated \in Seq(Block) /\ Len(updated) = Len(blocks)
          /\ \A i \in Ids :
               updated[i] = IF i = cursor THEN dead ELSE blocks[i]
      BY <2>1, <3>1, BlockUpdate DEF FieldTypes, Ids
    <3> HIDE DEF updated
    <3>4. blocks' = updated
      BY <3>2 DEF updated
    <3>5. QED
      BY <3>1, <3>3, <3>4
  <2>3. FieldTypes' /\ InChain' /\ Chain' /\ Backed' /\ Aligned' /\ Separate'
    <3>1. FieldTypes'
      BY <2>1, <2>2, BlockFields DEF FieldTypes
    <3>2. Ids' = Ids
      BY <2>2 DEF Ids
    <3>3. QED
      BY <2>1, <2>2, <3>1, <3>2 DEF InChain, Chain, Backed, Aligned, Separate, Ids, NULL
  <2>4. Phases'
    BY <2>1, <2>2 DEF Phases, Chain, Ids, FieldTypes
  <2>5. QED
    BY <2>3, <2>4
<1>7. CASE DestroyEnd
  BY <1>7 DEF DestroyEnd, FieldTypes, InChain, Chain, Phases, Backed, Aligned, Separate, Ids
<1>8. CASE UNCHANGED vars
  BY <1>8 DEF vars, FieldTypes, InChain, Chain, Phases, Backed, Aligned, Separate, Ids
<1>9. CASE CreateFails
  BY <1>9 DEF CreateFails, FieldTypes, InChain, Chain, Phases, Backed, Aligned, Separate, Ids
<1>10. QED
  BY <1>1, <1>2, <1>3, <1>4, <1>5, <1>6, <1>7, <1>8, <1>9
     DEF Next, Alloc, Destroy

LEMMA Invariance == Spec => []IInv
  BY InitIInv, NextIInv, PTL DEF Spec

(* The arena's fields keep their types, its pointers lead to its blocks,   *)
(* arena_alloc always starts from the last of them, and no bump pointer    *)
(* passes the end of its block: for blocks and requests of any size.       *)
THEOREM TypeCorrect == Spec => []TypeOK
<1>1. IInv => TypeOK
  <2> SUFFICES ASSUME IInv PROVE Pointers /\ \A i \in Ids : blocks[i].used <= blocks[i].size
    BY DEF IInv, TypeOK, Ids
  <2>1. \A i \in Ids : blocks[i].next \in 0 .. Len(blocks)
    BY DEF IInv, FieldTypes, Chain, Ids, NULL
  <2>2. status = "live" => current # NULL /\ blocks[current].next = NULL
    BY DEF IInv, Chain, Phases, Ids, NULL
  <2>3. QED
    BY <2>1, <2>2 DEF IInv, InChain, Backed, Pointers, Ids
<1>2. QED
  BY <1>1, Invariance, PTL

(* No byte is handed out twice, whatever the block size, the requests and  *)
(* the number of blocks.                                                   *)
THEOREM AllocationsDisjoint == Spec => []NoOverlap
<1>1. IInv => NoOverlap
  BY DEF IInv, Separate, NoOverlap, Overlap, Abstract!Disjoint, FieldTypes
<1>2. QED
  BY <1>1, Invariance, PTL

(* Every pointer a caller holds points into a block that is still there.   *)
THEOREM AllocationsBacked == Spec => []RegionsBacked
<1>1. IInv => RegionsBacked
  <2> SUFFICES ASSUME IInv, status = "live", NEW r \in held
               PROVE  /\ r.blk \in Ids /\ ~blocks[r.blk].freed
                      /\ r.off + r.len <= blocks[r.blk].size
    BY DEF RegionsBacked, Ids
  <2>1. r.blk \in Ids /\ r.off + r.len <= blocks[r.blk].used
    BY DEF IInv, Backed
  <2>2. r.off + r.len \in Nat
    BY DEF IInv, FieldTypes
  <2>3. blocks[r.blk].used \in Nat /\ blocks[r.blk].size \in Nat
    BY <2>1, BlockFields DEF IInv
  <2>4. QED
    BY <2>1, <2>2, <2>3 DEF IInv, Backed, Phases
<1>2. QED
  BY <1>1, Invariance, PTL

(* A destroyed arena has freed every block ...                             *)
THEOREM DestroyFreesAll == Spec => []NoLeak
<1>1. IInv => NoLeak
  BY DEF IInv, Phases, NoLeak, Ids, NULL, FieldTypes
<1>2. QED
  BY <1>1, Invariance, PTL

(* ... and no block is freed twice, or used after it is freed.             *)
THEOREM DestroyFreesOnce == Spec => []NoDoubleFree
<1>1. IInv => NoDoubleFree
  BY DEF IInv, Phases, NoDoubleFree, Ids, NULL, FieldTypes
<1>2. QED
  BY <1>1, Invariance, PTL

(* Every behaviour of the arena is one of the allocator arena.h describes. *)
THEOREM Refinement == Spec => ImplementsAllocator
<1> USE DEF phaseBar, regionsBar
<1>1. Init => Abstract!Init
  BY DEF Init, Abstract!Init
<1>2. IInv /\ IInv' /\ [Next]_vars => [Abstract!Next]_(Abstract!vars)
  <2> SUFFICES ASSUME IInv, IInv', [Next]_vars
               PROVE  Abstract!Next \/ UNCHANGED Abstract!vars
    OBVIOUS
  <2> USE DEF Abstract!Next, Abstract!vars
  <2>1. ASSUME NEW blockSize \in BlockSizes, Create(blockSize)
        PROVE  Abstract!Open
    BY <2>1 DEF Create, Abstract!Open, IInv, Phases
  <2>2. ASSUME NEW kind \in Kinds, NEW n \in Sizes,
               NEW r, status = "live", status' = "live", held' = held \cup {r}
        PROVE  Abstract!Reserve
    BY <2>2 DEF Abstract!Reserve, IInv, Aligned, Separate
  <2>3. ASSUME NEW kind \in Kinds, NEW n \in Sizes, AllocInCurrent(kind, n)
        PROVE  Abstract!Reserve
    BY <2>2, <2>3 DEF AllocInCurrent
  <2>4. ASSUME NEW kind \in Kinds, NEW n \in Sizes, AllocNewBlock(kind, n)
        PROVE  Abstract!Reserve
    BY <2>2, <2>4 DEF AllocNewBlock
  <2>5. ASSUME NEW kind \in Kinds, NEW n \in Sizes, OutOfMemory(kind, n)
        PROVE  Abstract!Close
    BY <2>5 DEF OutOfMemory, Abstract!Close
  <2>6. CASE DestroyBegin
    BY <2>6 DEF DestroyBegin, Abstract!Close
  <2>7. CASE DestroyBlock \/ DestroyEnd
    BY <2>7 DEF DestroyBlock, DestroyEnd
  <2>8. CASE UNCHANGED vars
    BY <2>8 DEF vars
  <2>9. CASE CreateFails
    BY <2>9 DEF CreateFails, Abstract!Close, IInv, Phases
  <2>10. QED
    BY <2>1, <2>3, <2>4, <2>5, <2>6, <2>7, <2>8, <2>9 DEF Next, Alloc, Destroy
<1>3. QED
  BY <1>1, <1>2, Invariance, PTL DEF Spec, Abstract!Spec, ImplementsAllocator

==============================================================================
