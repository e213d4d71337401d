------------------------------- MODULE HelunaSem -------------------------------
(***************************************************************************)
(* What running a program promises: one answer, the value the program      *)
(* means on its input, or a failure where it means none.  Until then the   *)
(* caller has nothing, and afterwards the answer stays.                    *)
(***************************************************************************)
VARIABLES
  meaning,    \* the value of the program, fixed when it is started
  outcome     \* a sequence: empty, then the answer given

Init == outcome = << >>

Answer ==
  /\ outcome = << >>
  /\ outcome' = <<meaning>>
  /\ UNCHANGED meaning

Spec == Init /\ [][Answer]_<<meaning, outcome>>

==============================================================================
