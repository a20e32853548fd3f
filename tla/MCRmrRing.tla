----------------------------- MODULE MCRmrRing -----------------------------
(***************************************************************************)
(* Instances of RmrRing.                                                   *)
(***************************************************************************)
EXTENDS RmrRing, TLC

ReceiverSymmetry == Permutations(Receivers)
=============================================================================
