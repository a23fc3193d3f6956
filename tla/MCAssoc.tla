------------------------------- MODULE MCAssoc ------------------------------
(***************************************************************************)
(* Instances of Assoc for TLC.  Keys are small integers and are their own  *)
(* hash values, so the choice of the keys is the choice of the collisions. *)
(***************************************************************************)
EXTENDS Assoc, TLC

CONSTANTS w1, w2

MCKeys2 == {1, 3, 4}
MCKeys1 == {0, 1}
MCHash == [k \in Keys |-> k]
MCWorkers2 == {w1, w2}
MCWorkers1 == {w1}
Symmetry == Permutations(Workers)
=============================================================================
