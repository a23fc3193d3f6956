----------------------------- MODULE MCNetwork -----------------------------
(***************************************************************************)
(* Instances of Network for TLC: two descriptors.    *)
(***************************************************************************)
EXTENDS Network

TwoFds == 1 .. 2
=============================================================================
