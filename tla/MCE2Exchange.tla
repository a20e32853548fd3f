---------------------------- MODULE MCE2Exchange ----------------------------
(***************************************************************************)
(* Instances of E2Exchange.                                                *)
(***************************************************************************)
EXTENDS E2Exchange
=============================================================================
