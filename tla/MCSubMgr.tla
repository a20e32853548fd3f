------------------------------ MODULE MCSubMgr ------------------------------
(***************************************************************************)
(* Instances of SubMgr.  The clients a, b and p belong to different xApps; *)
(* with Merging they ask for the same content, with Distinct for different *)
(* ones; p is the client with a POLICY.                                    *)
(***************************************************************************)
EXTENDS SubMgr, TLC

EndpointOf == [c \in Clients |-> c]
Merging    == [c \in Clients |-> "report"]
Distinct   == [c \in Clients |-> c]

ClientSymmetry == Permutations(Clients)

\* What decides how the manager goes on: the routes, the records and the node are
\* written and never read.
Remembered == <<lockVars, regVars, goVars, xappVars, e2Vars>>
=============================================================================
