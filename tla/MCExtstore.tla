----------------------------- MODULE MCExtstore -----------------------------
(***************************************************************************)
(* An instance of Extstore for TLC.                                        *)
(***************************************************************************)
EXTENDS Extstore, TLC

CONSTANTS b1, b2, t1, t2

TwoBuckets == {b1, b2}
OneBucket == {b1}
TwoThreads == {t1, t2}
OneThread == {t1}
Symmetry == Permutations(IOThreads)
=============================================================================
