------------------------------- MODULE MCSlabs ------------------------------
(***************************************************************************)
(* Instances of Slabs for TLC: class 1 has two chunks to a page, class 2   *)
(* one.                                                                    *)
(***************************************************************************)
EXTENDS Slabs, TLC

CONSTANTS p1, p2, p3, k1, k2, w1, w2

Pages2 == {p1, p2}
Pages3 == {p1, p2, p3}
Keys1 == {k1}
Keys2 == {k1, k2}
Workers1 == {w1}
Workers2 == {w1, w2}
TwoClasses == {1, 2}
MCPerSlab == [c \in Classes |-> IF c = 1 THEN 2 ELSE 1]
Small == [k \in Keys |-> {1}]
AnySize == [k \in Keys |-> Classes]
ToClass == {<<1, 2>>}
OutOf2 == {<<2, 1>>, <<2, POOL>>}
FromPool == {<<POOL, 1>>}
Symmetry == Permutations(Pages) \cup Permutations(Keys) \cup Permutations(Workers)
=============================================================================
