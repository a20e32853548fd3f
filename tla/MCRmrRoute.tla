----------------------------- MODULE MCRmrRoute -----------------------------
(***************************************************************************)
(* Instances of RmrRoute.                                                  *)
(***************************************************************************)
EXTENDS RmrRoute, TLC

CONSTANT e1

\* An entry with two groups, and one routed by meid.  Which endpoint of a group gets
\* a message is left out, so one endpoint will do.
MCRoutes == {<<{e1}, {e1}>>, <<>>}

=============================================================================
