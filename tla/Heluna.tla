-------------------------------- MODULE Heluna --------------------------------
(***************************************************************************)
(* A program from source to answer: the machine (HelunaVm) runs what the   *)
(* compiler made of it, against what the program means and whose inputs    *)
(* influence it.                                                           *)
(***************************************************************************)
EXTENDS HelunaTags, HelunaVm

CONSTANT Forbidden    \* the tags of the contract's forbid rules on the
                      \* output (serialize_contract and vm_load_packet
                      \* carry them into the packet)

(* Only what compiles without an error becomes a packet.                   *)
Compiled == LET packages == Tagged IN {p \in packages : ~p.failed}

------------------------------------------------------------------------------
(* A compiled program does what the evaluator does: it answers once, with  *)
(* the value of the program on its input, and fails exactly where the      *)
(* program has none.  The evaluator does not call dependencies, so the     *)
(* meaning of a program with uses is given by a body without them.         *)
Answered ==
  CASE status = "running" -> << >>
    [] status = "error"   -> <<Failed>>
    [] status = "done"    -> <<Reify(mem, Output)>>

Sem == INSTANCE HelunaSem WITH meaning <- packet.meaning, outcome <- Answered
ImplementsMeaning == Sem!Spec

(* Tags are sticky: the answer of a straight-line program carries every    *)
(* tag of every input it tells something about (propagate_tags; no         *)
(* sanitizer is called in these runs).                                     *)
TagsCoverInputs == status = "done" => packet.influence \subseteq tags[result]

(* A run whose output carries a forbidden tag does not succeed.            *)
ForbidEnforced == status = "done" => Forbidden \cap tags[result] = {}

==============================================================================
