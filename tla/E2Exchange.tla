----------------------------- MODULE E2Exchange -----------------------------
(***************************************************************************)
(* The exchange of the Subscription Manager with an E2 node about one      *)
(* subscription (control.go, transaction.go): SubMgr takes it as a single  *)
(* outcome, here every message is a step.                                  *)
(*                                                                         *)
(* A procedure holds the turn of the subscription and has a transaction.   *)
(* It sends a request, waits for an event with a time limit, and sends it  *)
(* again.  An answer of the node is handled by a goroutine of its own,     *)
(* which looks up the subscription by its id and the transaction that has  *)
(* the turn at that moment, and offers the answer to it for some time.     *)
(* Nothing in an answer tells which request it is for.                     *)
(*                                                                         *)
(* Requests reach the node in order or are lost; answers are lost and      *)
(* overtake each other.  The node is external: it accepts a request it has *)
(* accepted before.                                                        *)
(***************************************************************************)
EXTENDS Integers, Sequences, Bags

CONSTANTS
  E2MaxTryCount,             \* tries of a subscription request
  e2tMaxSubDelReqTryCount,   \* tries of a delete request
  MaxProcs                   \* bound: procedures

ASSUME TryAssumption ==
  /\ E2MaxTryCount \in Nat \ {0}
  /\ e2tMaxSubDelReqTryCount \in Nat \ {0}
  /\ MaxProcs \in Nat

VARIABLES
  trans,       \* the transactions so far; the last is that of the procedure
  proc,        \* the procedure: "create", "update" or "delete"
  phase,       \* where it is, "idle" when nobody has the turn
  tries,       \* requests it has sent in this phase
  event,       \* the answer to its subscription request
  delEvent,    \* the event that ended the wait of its delete request
  alone,       \* whether nothing of earlier exchanges was under way as it began
  registered,  \* whether the register has the subscription
  toNode,      \* requests on their way
  node,        \* the procedure whose request the node has accepted, or 0
  answers,     \* answers on their way
  handlers     \* handleE2T...: answers offered to a transaction

procVars == <<trans, proc, phase, tries, event, delEvent, alone, registered>>
netVars  == <<toNode, node, answers>>
vars     == <<procVars, netVars, handlers>>

Answers == {"resp", "fail", "delresp", "delfail"}
Empty   == EmptyBag

Add(bag, e)  == bag (+) SetToBag({e})
Drop(bag, e) == bag (-) SetToBag({e})

-----------------------------------------------------------------------------
(* The procedures: handleSubscriptionCreate and handleSubscriptionDelete *)

\* The turn is taken.  Only a subscription that was created is updated.
Start(what) ==
  /\ phase = "idle" /\ trans < MaxProcs
  /\ IF what = "create" THEN trans = 0 ELSE registered
  /\ trans' = trans + 1
  /\ proc' = what
  /\ phase' = IF what = "delete" THEN "del_send" ELSE "sub_send"
  /\ tries' = 0
  /\ event' = "nil"
  /\ delEvent' = "nil"
  /\ alone' = (toNode = <<>> /\ answers = Empty)
  /\ registered' = TRUE
  /\ UNCHANGED <<netVars, handlers>>

\* rmrSendToE2T: a send that fails is logged, and waited for all the same.
Send(msg) ==
  /\ \/ toNode' = Append(toNode, msg)
     \/ UNCHANGED toNode
  /\ tries' = tries + 1
  /\ UNCHANGED <<trans, proc, event, delEvent, alone, registered, node, answers, handlers>>

\* The request that is packed: that of this procedure.  The mutant sends the
\* one the subscription had before.
PackOld == IF trans > 1 THEN trans - 1 ELSE 1

PackSubscriptionRequest == trans

\* Whether there is another try.  The mutant counts none.
NoLimit(limit) == TRUE

TryAgain(limit) == tries < limit

SendSubReq ==
  /\ phase = "sub_send" /\ TryAgain(E2MaxTryCount)
  /\ phase' = "sub_wait"
  /\ Send([op |-> "sub", ver |-> PackSubscriptionRequest])

SendDelReq ==
  /\ phase = "del_send" /\ TryAgain(e2tMaxSubDelReqTryCount)
  /\ phase' = "del_wait"
  /\ Send([op |-> "del", ver |-> trans])

\* WaitEvent reaches its time limit.  The mutants wait for the answer to a
\* delete without one, and try the other request next.
TimeoutSubOnly ==
  /\ phase = "sub_wait"
  /\ phase' = "sub_send"
  /\ UNCHANGED <<trans, proc, tries, event, delEvent, alone, registered, netVars, handlers>>

TimeoutSwapped ==
  /\ phase \in {"sub_wait", "del_wait"}
  /\ phase' = "sub_send"
  /\ UNCHANGED <<trans, proc, tries, event, delEvent, alone, registered, netVars, handlers>>

Timeout ==
  /\ phase \in {"sub_wait", "del_wait"}
  /\ phase' = IF phase = "sub_wait" THEN "sub_send" ELSE "del_send"
  /\ UNCHANGED <<trans, proc, tries, event, delEvent, alone, registered, netVars, handlers>>

\* A create nobody has answered is deleted at the node; a policy that was
\* updated stays there.  The mutant does not tell them apart.
DeleteAlways == TRUE

DeleteOnTimeout == proc # "update"

\* The procedure goes on with no answer, or with one it does not expect.
NoAnswer ==
  /\ phase' = IF DeleteOnTimeout THEN "del_send" ELSE "remove"
  /\ tries' = 0
  /\ event' = "nil"

StopTrying ==
  /\ \/ /\ phase = "sub_send" /\ tries >= E2MaxTryCount
        /\ NoAnswer
     \/ /\ phase = "del_send" /\ tries >= e2tMaxSubDelReqTryCount
        /\ phase' = "remove"
        /\ UNCHANGED <<tries, event>>
  /\ UNCHANGED <<trans, proc, delEvent, alone, registered, netVars, handlers>>

\* RemoveFromSubscription, unless the subscription is valid.
Remove ==
  /\ phase = "remove"
  /\ phase' = "release"
  /\ registered' = (proc = "update" \/ (proc = "create" /\ event = "resp"))
  /\ UNCHANGED <<trans, proc, tries, event, delEvent, alone, netVars, handlers>>

ReleaseTransactionTurn ==
  /\ phase = "release"
  /\ phase' = "idle"
  /\ UNCHANGED <<trans, proc, tries, event, delEvent, alone, registered, netVars, handlers>>

Procedure == SendSubReq \/ SendDelReq \/ Timeout \/ StopTrying \/ Remove
             \/ ReleaseTransactionTurn

-----------------------------------------------------------------------------
(* handleE2TSubscriptionResponse, ...Failure, ...DeleteResponse,             *)
(* ...DeleteFailure                                                          *)

\* The goroutine looks the transaction up; without one the answer is dropped.
Handle(a) ==
  /\ BagIn(a, answers)
  /\ answers' = Drop(answers, a)
  /\ handlers' = IF registered /\ phase # "idle"
                 THEN Add(handlers, [trans |-> trans, answer |-> a]) ELSE handlers
  /\ UNCHANGED <<procVars, toNode, node>>

\* SendEvent meets WaitEvent.  Any event ends the wait of a delete.
SendEvent(h) ==
  /\ BagIn(h, handlers)
  /\ h.trans = trans
  /\ \/ /\ phase = "sub_wait"
        /\ IF h.answer \in {"resp", "fail"}
           THEN event' = h.answer /\ phase' = "remove" /\ UNCHANGED tries
           ELSE NoAnswer
        /\ UNCHANGED delEvent
     \/ /\ phase = "del_wait"
        /\ delEvent' = h.answer
        /\ phase' = "remove"
        /\ UNCHANGED <<tries, event>>
  /\ handlers' = Drop(handlers, h)
  /\ UNCHANGED <<trans, proc, alone, registered, netVars>>

\* SendEvent reaches its time limit, e2tRecvMsgTimeout.
GiveUp(h) ==
  /\ BagIn(h, handlers)
  /\ handlers' = Drop(handlers, h)
  /\ UNCHANGED <<procVars, netVars>>

Handlers == [trans : 1..trans, answer : Answers]

-----------------------------------------------------------------------------
(* E2 Termination and the E2 node *)

Lose ==
  \/ /\ toNode # <<>>
     /\ toNode' = Tail(toNode)
     /\ UNCHANGED <<procVars, node, answers, handlers>>
  \/ \E a \in BagToSet(answers) :
       /\ answers' = Drop(answers, a)
       /\ UNCHANGED <<procVars, toNode, node, handlers>>

\* The node accepts or refuses a request; it keeps the policy it has when it
\* refuses an update of it.  A delete it has nothing for fails.
Receive ==
  /\ toNode # <<>>
  /\ toNode' = Tail(toNode)
  /\ LET m == Head(toNode) IN
       \/ /\ m.op = "sub"
          /\ node' = m.ver
          /\ answers' = Add(answers, "resp")
       \/ /\ m.op = "sub" /\ node # m.ver
          /\ answers' = Add(answers, "fail")
          /\ UNCHANGED node
       \/ /\ m.op = "del"
          /\ node' = 0
          /\ answers' = Add(answers, IF node = 0 THEN "delfail" ELSE "delresp")
  /\ UNCHANGED <<procVars, handlers>>

-----------------------------------------------------------------------------
Init ==
  /\ trans = 0
  /\ proc = "create"
  /\ phase = "idle"
  /\ tries = 0
  /\ event = "nil"
  /\ delEvent = "nil"
  /\ alone = TRUE
  /\ registered = FALSE
  /\ toNode = <<>>
  /\ node = 0
  /\ answers = Empty
  /\ handlers = Empty

Next ==
  \/ \E what \in {"create", "update", "delete"} : Start(what)
  \/ Procedure
  \/ \E a \in Answers : Handle(a)
  \/ \E h \in Handlers : SendEvent(h) \/ GiveUp(h)
  \/ Lose
  \/ Receive

\* Goroutines run and timers expire; the network and the node promise nothing.
Spec == Init /\ [][Next]_vars /\ WF_vars(Procedure)

-----------------------------------------------------------------------------
(* Properties *)

\* The type of every variable; the tries stay within their limits.
TypeOK ==
  /\ trans \in 0..MaxProcs
  /\ proc \in {"create", "update", "delete"}
  /\ phase \in {"idle", "sub_send", "sub_wait", "del_send", "del_wait",
                "remove", "release"}
  /\ tries \in 0..E2MaxTryCount \cup 0..e2tMaxSubDelReqTryCount
  /\ event \in {"resp", "fail", "nil"}
  /\ delEvent \in Answers \cup {"nil"}
  /\ alone \in BOOLEAN
  /\ registered \in BOOLEAN
  /\ toNode \in Seq([op : {"sub", "del"}, ver : 1..MaxProcs])
  /\ node \in 0..MaxProcs
  /\ IsABag(answers) /\ BagToSet(answers) \subseteq Answers
  /\ IsABag(handlers) /\ BagToSet(handlers) \subseteq Handlers

\* A subscription that is registered when no procedure runs is at the node,
\* whatever was lost, delayed and sent again: neither a retry nor an update that
\* fails takes it away (handleSubscriptionCreate).
RegisteredAtNode == registered /\ phase = "idle" => node # 0

\* A success is that of the request itself, when no message of an earlier
\* exchange was under way as it began: the answers to its own tries and those
\* offered to an earlier transaction do not mislead it (GetTransaction).
SuccessIsOwn ==
  phase = "idle" /\ alone /\ event = "resp" => node = trans

\* A delete that was answered as such leaves nothing at the node, and nothing
\* that is still on its way brings the subscription back
\* (sendE2TSubscriptionDeleteRequest after the tries of a create).
DeletedForGood ==
  phase = "idle" /\ delEvent \in {"delresp", "delfail"} =>
    /\ node = 0
    /\ \A n \in 1..Len(toNode) : toNode[n].op = "del"

\* A procedure comes to an end: tries are limited and each one is supervised by
\* a timer (sendE2TSubscriptionRequest, sendE2TSubscriptionDeleteRequest).
ProcedureEnds == phase # "idle" ~> phase = "idle"
=============================================================================
