----------------------------- MODULE MCRmrCall -----------------------------
(***************************************************************************)
(* Instances of RmrCall.                                                   *)
(***************************************************************************)
EXTENDS RmrCall
=============================================================================
