----------------------------- MODULE MCStorage -----------------------------
(***************************************************************************)
(* Instances of Storage for TLC.                                           *)
(***************************************************************************)
EXTENDS Storage, TLC

CONSTANTS k1, k2

TwoKeys == {k1, k2}
TwoPages == 1 .. 2
Symmetry == Permutations(Keys)
=============================================================================
