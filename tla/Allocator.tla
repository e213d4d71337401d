------------------------------ MODULE Allocator ------------------------------
(***************************************************************************)
(* What the arena of src/include/heluna/arena.h promises its callers,      *)
(* without blocks or bump pointers: every allocation is a region of        *)
(* memory nobody else holds, aligned, and held until everything is freed   *)
(* in one shot.  Arena.tla is shown to implement this.                     *)
(***************************************************************************)
EXTENDS Integers

CONSTANT Alignment      \* alignment of every region, in bytes

VARIABLES
  phase,      \* "absent", "open" or "closed"
  regions     \* the regions handed out: base object, offset, length

vars == <<phase, regions>>

(* Two regions share no byte (an empty region shares none with any).       *)
Disjoint(r, q) ==
  \/ r.blk # q.blk
  \/ r.off + r.len <= q.off
  \/ q.off + q.len <= r.off

Init == phase = "absent" /\ regions = {}

Open == phase = "absent" /\ phase' = "open" /\ UNCHANGED regions

(* An allocation: a new aligned region, disjoint from all held so far.     *)
Reserve ==
  /\ phase = "open"
  /\ \E r \in regions' :
       /\ regions' = regions \cup {r}
       /\ r.off % Alignment = 0
       /\ \A q \in regions \ {r} : Disjoint(r, q)
  /\ UNCHANGED phase

(* Everything is released together, or the process gives up.               *)
Close ==
  /\ phase # "closed"
  /\ phase' = "closed"
  /\ regions' = {}

Next == Open \/ Reserve \/ Close

Spec == Init /\ [][Next]_vars

==============================================================================
