---------------------------- MODULE MCSubRestart ----------------------------
(***************************************************************************)
(* Instances of SubRestart: a and b are clients of different xApps that    *)
(* ask for the same content.                                               *)
(***************************************************************************)
EXTENDS SubRestart, TLC

EndpointOf == [c \in Clients |-> c]
Merging    == [c \in Clients |-> "report"]

ClientSymmetry == Permutations(Clients)

\* What decides how the manager goes on, and what the properties speak of: after a
\* restart they do not speak of the routes, which are written and never read.
Remembered ==
  <<lockVars, regVars, goVars, xappVars, db, node, e2Vars,
    IF restarts = 0 THEN routes ELSE <<>>, up, restarts, clean, merged, held>>
=============================================================================
