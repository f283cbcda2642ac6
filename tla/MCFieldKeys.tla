----------------------------- MODULE MCFieldKeys -----------------------------
(* Small instances of FieldKeys. *)
EXTENDS FieldKeys, TLC

CONSTANTS r1, r2, r3

MCRequests == {r1, r2, r3}
RequestSymmetry == Permutations(MCRequests)
=============================================================================
