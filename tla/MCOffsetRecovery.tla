-------------------------- MODULE MCOffsetRecovery --------------------------
(* The chips of a board are interchangeable. *)
EXTENDS OffsetRecovery, TLC

ChipSymmetry == Permutations(Chips)
=============================================================================
