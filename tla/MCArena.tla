------------------------------- MODULE MCArena -------------------------------
(***************************************************************************)
(* Arena for TLC: blocks of 16 bytes (arena_create's default, asked for    *)
(* with 0) or of 12 (not a multiple of the alignment); requests that are   *)
(* empty, that need rounding up, and that are larger than a block.      *)
(***************************************************************************)
EXTENDS Arena

MCBlockSizes == {0, 12}
MCSizes == {0, 9}

==============================================================================
