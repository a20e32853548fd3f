-------------------------- MODULE E2ExchangeProofs --------------------------
(***************************************************************************)
(* Proofs about E2Exchange, for any number of procedures and of tries, and *)
(* for every loss, delay and order of the answers: the types, that what is *)
(* registered is at the node, that a success is one's own, and that what   *)
(* was deleted stays so.                                                   *)
(***************************************************************************)
EXTENDS E2Exchange, SequenceTheorems, TLAPS

-----------------------------------------------------------------------------
(* Bags and sequences of messages *)

Requests == [op : {"sub", "del"}, ver : 1..MaxProcs]

\* The empty bag.
LEMMA EmptyIsBag == IsABag(Empty) /\ BagToSet(Empty) = {}
BY DEF Empty, EmptyBag, SetToBag, IsABag, BagToSet

\* A bag with one element more.
LEMMA AddToBag ==
  ASSUME NEW b, NEW e, IsABag(b)
  PROVE  IsABag(Add(b, e)) /\ BagToSet(Add(b, e)) = BagToSet(b) \cup {e}
BY DEF Add, SetToBag, (+), IsABag, BagToSet

\* A bag with one copy of an element less may still have another one.
LEMMA DropFromBag ==
  ASSUME NEW b, NEW e, IsABag(b)
  PROVE  IsABag(Drop(b, e)) /\ BagToSet(Drop(b, e)) \subseteq BagToSet(b)
BY DEF Drop, SetToBag, (-), IsABag, BagToSet

-----------------------------------------------------------------------------
(* The inductive invariant *)

\* An answer that is on its way or offered to a transaction.
Answered(a) ==
  \/ a \in BagToSet(answers)
  \/ \E h \in BagToSet(handlers) : h.answer = a

\* An answer that the procedure in progress may get.
OwnAnswered(a) ==
  \/ a \in BagToSet(answers)
  \/ \E h \in BagToSet(handlers) : h.answer = a /\ h.trans = trans

\* No delete request has been sent: the procedure is not deleting, and has not
\* deleted a subscription that nobody answered for.
Live ==
  /\ proc # "delete"
  /\ phase \notin {"del_send", "del_wait"}
  /\ proc = "create" /\ phase \in {"remove", "release", "idle"} => event # "nil" \/ trans = 0

\* How the procedures follow one another: the first creates, and what is
\* registered after it was accepted.
ProcOrder ==
  /\ trans = 0 => phase = "idle" /\ proc = "create" /\ event = "nil" /\ ~registered
  /\ proc = "create" => trans <= 1
  /\ proc # "create" => trans > 1
  /\ proc = "delete" => event = "nil" /\ phase \notin {"sub_send", "sub_wait"}
  /\ proc = "update" => phase \notin {"del_send", "del_wait"}
  /\ phase \in {"sub_send", "sub_wait", "del_send", "del_wait"} => event = "nil"
  /\ phase \in {"release", "idle"} /\ registered =>
       proc = "update" \/ (proc = "create" /\ event = "resp")

\* Before the first delete request nothing speaks of one.
NothingDeleted ==
  Live => /\ \A n \in 1..Len(toNode) : toNode[n].op = "sub"
          /\ ~Answered("delresp") /\ ~Answered("delfail") /\ delEvent = "nil"

\* What the node has accepted it keeps until a delete request.
Accepted ==
  Live /\ (Answered("resp") \/ event = "resp" \/ trans > 1) => node # 0

\* When nothing was under way as the procedure began, all requests on their way
\* are its own, and so is what the node has said yes to.
AloneIsOwn ==
  Live /\ alone =>
    /\ \A n \in 1..Len(toNode) : toNode[n].ver = trans
    /\ OwnAnswered("resp") \/ event = "resp" => node = trans

\* Requests arrive in order, and delete requests are the last.
DeletesLast ==
  \A m, n \in 1..Len(toNode) : m < n /\ toNode[m].op = "del" => toNode[n].op = "del"

\* The node has answered a delete request: all that follows are delete requests.
DeleteAnswered ==
  Answered("delresp") \/ Answered("delfail") \/ delEvent \in {"delresp", "delfail"} =>
    /\ node = 0
    /\ \A n \in 1..Len(toNode) : toNode[n].op = "del"

ExchangeInv ==
  /\ TypeOK /\ ProcOrder /\ NothingDeleted /\ Accepted /\ AloneIsOwn /\ DeletesLast
  /\ DeleteAnswered

-----------------------------------------------------------------------------
(* Types *)

\* Before the first procedure.
LEMMA InitExchange == Init => ExchangeInv
<1> SUFFICES ASSUME Init PROVE ExchangeInv
  OBVIOUS
<1>1. /\ BagToSet(answers) = {} /\ BagToSet(handlers) = {}
      /\ IsABag(answers) /\ IsABag(handlers)
  BY EmptyIsBag DEF Init
<1>2. toNode \in Seq(Requests) /\ Len(toNode) = 0
  BY DEF Init
<1>3. TypeOK
  <2>1. alone \in BOOLEAN /\ registered \in BOOLEAN
    BY Zenon DEF Init
  <2> QED
    BY <1>1, <1>2, <2>1, TryAssumption DEF Init, TypeOK, Requests, Answers
<1>4. ProcOrder
  BY DEF Init, ProcOrder
<1>5. ~Answered("resp") /\ ~Answered("delresp") /\ ~Answered("delfail") /\ ~OwnAnswered("resp")
  BY <1>1 DEF Answered, OwnAnswered
<1> QED
  BY <1>2, <1>3, <1>4, <1>5 DEF Init, ExchangeInv, NothingDeleted, Accepted, AloneIsOwn,
                             DeletesLast, DeleteAnswered

\* A procedure begins (WaitTransactionTurn).
LEMMA StartTypes ==
  ASSUME TypeOK, NEW what \in {"create", "update", "delete"}, Start(what)
  PROVE  TypeOK'
<1>1. alone' \in BOOLEAN /\ registered' \in BOOLEAN
  BY Zenon DEF Start
<1>2. trans' \in 0..MaxProcs /\ trans' = trans + 1 /\ trans \in Nat
  BY TryAssumption DEF Start, TypeOK
<1>3. Handlers \subseteq Handlers'
  BY <1>2 DEF Handlers
<1> QED
  BY <1>1, <1>2, <1>3, TryAssumption DEF Start, TypeOK, netVars, Answers

\* The other steps of a procedure.
LEMMA ProcedureTypes == TypeOK /\ ProcOrder /\ Procedure => TypeOK'
<1> SUFFICES ASSUME TypeOK, ProcOrder, Procedure PROVE TypeOK'
  OBVIOUS
<1>1. ASSUME NEW m \in Requests, Send(m), tries < E2MaxTryCount \/ tries < e2tMaxSubDelReqTryCount,
             phase' \in {"sub_wait", "del_wait"}
      PROVE  TypeOK'
  <2>1. toNode' \in Seq(Requests)
    <3>1. toNode \in Seq(Requests)
      BY DEF TypeOK, Requests
    <3>2. Append(toNode, m) \in Seq(Requests)
      BY <3>1, AppendProperties
    <3> QED
      BY <1>1, <3>1, <3>2 DEF Send
  <2>2. tries' \in 0..E2MaxTryCount \cup 0..e2tMaxSubDelReqTryCount
    BY <1>1, TryAssumption DEF Send, TypeOK
  <2> QED
    BY <1>1, <2>1, <2>2 DEF Send, TypeOK, Requests, Handlers
<1>2. phase # "idle" => trans \in 1..MaxProcs
  BY TryAssumption DEF TypeOK, ProcOrder
<1>3. CASE SendSubReq
  BY <1>1, <1>2, <1>3 DEF SendSubReq, TryAgain, PackSubscriptionRequest, Requests
<1>4. CASE SendDelReq
  BY <1>1, <1>2, <1>4 DEF SendDelReq, TryAgain, Requests
<1>5. CASE Timeout
  BY <1>5 DEF Timeout, TypeOK, Handlers, netVars
<1>6. CASE StopTrying
  BY <1>6, TryAssumption DEF StopTrying, NoAnswer, DeleteOnTimeout, TypeOK, Handlers, netVars
<1>7. CASE Remove
  <2>1. registered' \in BOOLEAN
    BY <1>7, Zenon DEF Remove
  <2> QED
    BY <1>7, <2>1 DEF Remove, TypeOK, Handlers, netVars
<1>8. CASE ReleaseTransactionTurn
  BY <1>8 DEF ReleaseTransactionTurn, TypeOK, Handlers, netVars
<1> QED
  BY <1>3, <1>4, <1>5, <1>6, <1>7, <1>8 DEF Procedure

\* The goroutines of the answers (handleE2T...).
LEMMA HandlerTypes ==
  ASSUME TypeOK, ProcOrder,
         (\E a \in Answers : Handle(a)) \/ (\E h \in Handlers : SendEvent(h) \/ GiveUp(h))
  PROVE  TypeOK'
<1>1. ASSUME NEW a \in Answers, Handle(a) PROVE TypeOK'
  <2>1. IsABag(answers') /\ BagToSet(answers') \subseteq Answers
    BY <1>1, DropFromBag DEF Handle, TypeOK
  <2>2. CASE registered /\ phase # "idle"
    <3>1. [trans |-> trans, answer |-> a] \in Handlers
      BY <1>1, <2>2, TryAssumption DEF TypeOK, ProcOrder, Handlers
    <3>2. IsABag(handlers') /\ BagToSet(handlers') \subseteq Handlers
      BY <1>1, <2>2, <3>1, AddToBag DEF Handle, TypeOK
    <3> QED
      BY <1>1, <2>1, <3>2 DEF Handle, TypeOK, procVars, Handlers
  <2>3. CASE ~(registered /\ phase # "idle")
    BY <1>1, <2>1, <2>3 DEF Handle, TypeOK, procVars, Handlers
  <2> QED
    BY <2>2, <2>3
<1>2. ASSUME NEW h \in Handlers, SendEvent(h) \/ GiveUp(h) PROVE TypeOK'
  <2>1. IsABag(handlers') /\ BagToSet(handlers') \subseteq Handlers
    BY <1>2, DropFromBag DEF SendEvent, GiveUp, TypeOK
  <2>2. CASE SendEvent(h)
    <3>1. h.answer \in Answers
      BY DEF Handlers
    <3> QED
      BY <2>1, <2>2, <3>1, TryAssumption
         DEF SendEvent, NoAnswer, DeleteOnTimeout, TypeOK, netVars, Handlers
  <2>3. CASE GiveUp(h)
    BY <2>1, <2>3 DEF GiveUp, TypeOK, procVars, netVars, Handlers
  <2> QED
    BY <1>2, <2>2, <2>3
<1> QED
  BY <1>1, <1>2

\* The network and the node.
LEMMA NetTypes == TypeOK /\ (Lose \/ Receive) => TypeOK'
<1> SUFFICES ASSUME TypeOK, Lose \/ Receive PROVE TypeOK'
  OBVIOUS
<1>1. toNode # <<>> => /\ Tail(toNode) \in Seq(Requests)
                       /\ Head(toNode) \in Requests
  BY HeadTailProperties DEF TypeOK, Requests
<1>2. CASE Lose
  <2>1. CASE toNode' = Tail(toNode) /\ toNode # <<>> /\ UNCHANGED <<procVars, node, answers, handlers>>
    BY <1>1, <2>1 DEF TypeOK, Requests, procVars, Handlers
  <2>2. ASSUME NEW a, answers' = Drop(answers, a), UNCHANGED <<procVars, toNode, node, handlers>>
        PROVE  TypeOK'
    <3>1. IsABag(answers') /\ BagToSet(answers') \subseteq Answers
      BY <2>2, DropFromBag DEF TypeOK
    <3> QED
      BY <2>2, <3>1 DEF TypeOK, procVars, Handlers
  <2> QED
    BY <1>2, <2>1, <2>2 DEF Lose
<1>3. CASE Receive
  <2>1. PICK a \in Answers : answers' = Add(answers, a)
    BY <1>3 DEF Receive, Answers
  <2>2. IsABag(answers') /\ BagToSet(answers') \subseteq Answers
    BY <2>1, AddToBag DEF TypeOK
  <2>3. toNode' \in Seq(Requests) /\ node' \in 0..MaxProcs
    <3>1. Head(toNode).ver \in 0..MaxProcs
      BY <1>1, <1>3, TryAssumption DEF Receive, Requests
    <3> QED
      BY <1>1, <1>3, <3>1, TryAssumption DEF Receive, TypeOK
  <2> QED
    BY <1>3, <2>2, <2>3 DEF Receive, TypeOK, Requests, procVars, Handlers
<1> QED
  BY <1>2, <1>3

\* Every step keeps the types.
LEMMA TypesKept == TypeOK /\ ProcOrder /\ [Next]_vars => TypeOK'
<1> SUFFICES ASSUME TypeOK, ProcOrder, [Next]_vars PROVE TypeOK'
  OBVIOUS
<1>1. CASE UNCHANGED vars
  BY <1>1 DEF vars, procVars, netVars, TypeOK, Handlers
<1> QED
  BY <1>1, StartTypes, ProcedureTypes, HandlerTypes, NetTypes DEF Next

-----------------------------------------------------------------------------
(* The order of the procedures *)

\* Every step keeps it.
LEMMA OrderKept == TypeOK /\ ProcOrder /\ [Next]_vars => ProcOrder'
<1> SUFFICES ASSUME TypeOK, ProcOrder, [Next]_vars PROVE ProcOrder'
  OBVIOUS
<1>0. trans \in Nat
  BY TryAssumption DEF TypeOK
<1>1. ASSUME NEW what \in {"create", "update", "delete"}, Start(what) PROVE ProcOrder'
  BY <1>0, <1>1 DEF Start, ProcOrder
<1>2. CASE SendSubReq
  BY <1>2 DEF SendSubReq, Send, ProcOrder
<1>3. CASE SendDelReq
  BY <1>3 DEF SendDelReq, Send, ProcOrder
<1>4. CASE Timeout
  BY <1>4 DEF Timeout, ProcOrder
<1>5. CASE StopTrying
  BY <1>5 DEF StopTrying, NoAnswer, DeleteOnTimeout, ProcOrder, TypeOK
<1>6. CASE Remove
  BY <1>6 DEF Remove, ProcOrder
<1>7. CASE ReleaseTransactionTurn
  BY <1>7 DEF ReleaseTransactionTurn, ProcOrder
<1>8. ASSUME NEW a \in Answers, Handle(a) PROVE ProcOrder'
  BY <1>8 DEF Handle, procVars, ProcOrder
<1>9. ASSUME NEW h \in Handlers, SendEvent(h) PROVE ProcOrder'
  BY <1>9 DEF SendEvent, NoAnswer, DeleteOnTimeout, ProcOrder, TypeOK
<1>10. ASSUME NEW h \in Handlers, GiveUp(h) PROVE ProcOrder'
  BY <1>10 DEF GiveUp, procVars, ProcOrder
<1>11. CASE Lose
  BY <1>11 DEF Lose, procVars, ProcOrder
<1>12. CASE Receive
  BY <1>12 DEF Receive, procVars, ProcOrder
<1>13. CASE UNCHANGED vars
  BY <1>13 DEF vars, procVars, ProcOrder
<1> QED
  BY <1>1, <1>2, <1>3, <1>4, <1>5, <1>6, <1>7, <1>8, <1>9, <1>10, <1>11, <1>12, <1>13
     DEF Next, Procedure

\* Once a delete request may have been sent, nothing leads back.
LEMMA LiveBefore == TypeOK /\ ProcOrder /\ [Next]_vars /\ Live' => Live
<1> SUFFICES ASSUME TypeOK, ProcOrder, [Next]_vars, Live' PROVE Live
  OBVIOUS
<1>0. trans \in Nat
  BY TryAssumption DEF TypeOK
<1>1. ASSUME NEW what \in {"create", "update", "delete"}, Start(what) PROVE Live
  BY <1>0, <1>1 DEF Start, ProcOrder, Live
<1>2. CASE Procedure
  BY <1>0, <1>2 DEF Procedure, SendSubReq, SendDelReq, Send, Timeout, StopTrying, NoAnswer,
     DeleteOnTimeout, Remove, ReleaseTransactionTurn, ProcOrder, Live, TypeOK
<1>3. ASSUME NEW h \in Handlers, SendEvent(h) PROVE Live
  BY <1>0, <1>3 DEF SendEvent, NoAnswer, DeleteOnTimeout, ProcOrder, Live, TypeOK
<1>4. CASE UNCHANGED procVars
  BY <1>4 DEF procVars, Live
<1>5. Next => \/ \E what \in {"create", "update", "delete"} : Start(what)
              \/ Procedure
              \/ \E h \in Handlers : SendEvent(h)
              \/ UNCHANGED procVars
  BY DEF Next, Handle, GiveUp, Lose, Receive
<1> QED
  BY <1>1, <1>2, <1>3, <1>4, <1>5 DEF vars

-----------------------------------------------------------------------------
(* The messages *)

MsgInv == NothingDeleted /\ Accepted /\ AloneIsOwn /\ DeletesLast /\ DeleteAnswered

\* The requests behind the first one.
LEMMA TailOfRequests ==
  ASSUME TypeOK, toNode # <<>>, toNode' = Tail(toNode)
  PROVE  /\ Len(toNode) \in Nat /\ Len(toNode) > 0 /\ Len(toNode') = Len(toNode) - 1
         /\ \A n \in 1..Len(toNode') : n + 1 \in 1..Len(toNode) /\ toNode'[n] = toNode[n + 1]
         /\ Head(toNode) = toNode[1] /\ 1 \in 1..Len(toNode)
<1>1. toNode \in Seq(Requests)
  BY DEF TypeOK, Requests
<1>2. /\ Tail(toNode) \in Seq(Requests) /\ Len(Tail(toNode)) = Len(toNode) - 1
      /\ \A n \in 1..Len(Tail(toNode)) : Tail(toNode)[n] = toNode[n + 1]
      /\ Head(toNode) = toNode[1]
  BY <1>1, HeadTailProperties
<1>3. Len(toNode) \in Nat /\ Len(toNode) # 0
  BY <1>1, LenProperties, EmptySeq
<1> QED
  BY <1>2, <1>3

\* A step after which no more is on its way than before, and which takes an answer
\* at most, changes nothing.
LEMMA NoneMore ==
  ASSUME ExchangeInv, Live' => Live, UNCHANGED <<trans, alone, node>>,
         \A a : Answered(a)' => Answered(a),
         \A a : OwnAnswered(a)' => OwnAnswered(a),
         event' = "resp" => event = "resp" \/ OwnAnswered("resp"),
         delEvent' = delEvent \/ (~Live' /\ Answered(delEvent')),
         toNode' = toNode \/ (toNode # <<>> /\ toNode' = Tail(toNode))
  PROVE  MsgInv'
<1>1. \A n \in 1..Len(toNode') : \E m \in 1..Len(toNode) : toNode'[n] = toNode[m]
  BY TailOfRequests DEF ExchangeInv
<1>2. DeletesLast'
  <2>1. CASE toNode' = toNode
    BY <2>1 DEF ExchangeInv, DeletesLast
  <2>2. CASE toNode # <<>> /\ toNode' = Tail(toNode)
    <3> SUFFICES ASSUME NEW m \in 1..Len(toNode'), NEW n \in 1..Len(toNode'), m < n,
                        toNode'[m].op = "del"
                 PROVE  toNode'[n].op = "del"
      BY DEF DeletesLast
    <3>1. /\ m + 1 \in 1..Len(toNode) /\ toNode'[m] = toNode[m + 1]
          /\ n + 1 \in 1..Len(toNode) /\ toNode'[n] = toNode[n + 1]
      BY <2>2, TailOfRequests DEF ExchangeInv
    <3>2. m + 1 < n + 1
      OBVIOUS
    <3> QED
      BY <3>1, <3>2 DEF ExchangeInv, DeletesLast
  <2> QED
    BY <2>1, <2>2
<1>3. OwnAnswered("resp") => Answered("resp")
  BY DEF OwnAnswered, Answered
<1>4. NothingDeleted'
  BY <1>1 DEF ExchangeInv, NothingDeleted
<1>5. Accepted'
  BY <1>3 DEF ExchangeInv, Accepted
<1>6. AloneIsOwn'
  BY <1>1 DEF ExchangeInv, AloneIsOwn
<1>7. DeleteAnswered'
  BY <1>1 DEF ExchangeInv, DeleteAnswered
<1> QED
  BY <1>2, <1>4, <1>5, <1>6, <1>7 DEF MsgInv

\* A procedure begins: the answers that are offered to earlier ones are not its own.
LEMMA StartMsgs ==
  ASSUME ExchangeInv, Live' => Live, NEW what \in {"create", "update", "delete"}, Start(what)
  PROVE  MsgInv'
<1>0. trans \in Nat /\ trans' = trans + 1
  BY TryAssumption DEF Start, ExchangeInv, TypeOK
<1>1. UNCHANGED <<toNode, node, answers, handlers>> /\ delEvent' = "nil" /\ event' = "nil"
  BY DEF Start, netVars
<1>2. \A a : Answered(a)' = Answered(a)
  BY <1>1 DEF Answered
<1>3. NothingDeleted' /\ DeletesLast' /\ DeleteAnswered'
  BY <1>1, <1>2 DEF ExchangeInv, NothingDeleted, DeletesLast, DeleteAnswered
<1>4. Accepted'
  <2> SUFFICES ASSUME Live', Answered("resp") \/ trans > 0 PROVE node # 0
    BY <1>0, <1>1, <1>2 DEF Accepted
  <2>1. CASE what = "create"
    BY <1>0, <2>1 DEF Start, ExchangeInv, Accepted
  <2>2. CASE what = "update"
    <3>1. registered /\ phase = "idle"
      BY <2>2 DEF Start
    <3>2. trans > 1 \/ event = "resp"
      BY <3>1 DEF ExchangeInv, ProcOrder
    <3> QED
      BY <3>2 DEF ExchangeInv, Accepted
  <2>3. CASE what = "delete"
    BY <2>3 DEF Start, Live
  <2> QED
    BY <2>1, <2>2, <2>3
<1>5. AloneIsOwn'
  <2> SUFFICES ASSUME alone' PROVE Len(toNode) = 0 /\ ~OwnAnswered("resp")'
    BY <1>1 DEF AloneIsOwn
  <2>1. toNode = <<>> /\ answers = Empty
    BY DEF Start
  <2>2. \A h \in BagToSet(handlers) : h.trans # trans + 1
    BY <1>0 DEF ExchangeInv, TypeOK, Handlers
  <2> QED
    BY <1>0, <1>1, <2>1, <2>2, EmptyIsBag DEF OwnAnswered
<1> QED
  BY <1>3, <1>4, <1>5 DEF MsgInv

\* A request is sent: a subscription request only before any delete request.
LEMMA SendMsgs ==
  ASSUME ExchangeInv, Live' => Live, SendSubReq \/ SendDelReq
  PROVE  MsgInv'
<1>0. trans \in 1..MaxProcs
  BY TryAssumption DEF SendSubReq, SendDelReq, ExchangeInv, TypeOK, ProcOrder
<1>1. /\ UNCHANGED <<trans, alone, event, delEvent, node, answers, handlers>>
  BY DEF SendSubReq, SendDelReq, Send
<1>2. \A a : Answered(a)' = Answered(a) /\ OwnAnswered(a)' = OwnAnswered(a)
  BY <1>1 DEF Answered, OwnAnswered
<1>3. CASE toNode' = toNode
  BY <1>1, <1>2, <1>3, NoneMore
<1>4. CASE toNode' # toNode
  <2> DEFINE m == IF SendSubReq THEN [op |-> "sub", ver |-> trans] ELSE [op |-> "del", ver |-> trans]
  <2>1. toNode \in Seq(Requests) /\ m \in Requests
    BY <1>0 DEF ExchangeInv, TypeOK, Requests
  <2>2. toNode' = Append(toNode, m)
    BY <1>4 DEF SendSubReq, SendDelReq, Send, PackSubscriptionRequest
  <2>3. /\ Len(toNode) \in Nat /\ Len(toNode') = Len(toNode) + 1
        /\ \A n \in 1..Len(toNode) : toNode'[n] = toNode[n]
        /\ toNode'[Len(toNode) + 1] = m
    BY <2>1, <2>2, AppendProperties, LenProperties
  <2>4. SendSubReq => Live
    BY DEF SendSubReq, Live, ExchangeInv, ProcOrder
  <2>5. SendDelReq => ~Live' /\ ~SendSubReq
    BY DEF SendDelReq, SendSubReq, Live
  <2>6. NothingDeleted'
    BY <1>1, <1>2, <2>3, <2>5 DEF ExchangeInv, NothingDeleted
  <2>7. Accepted'
    BY <1>1, <1>2 DEF ExchangeInv, Accepted
  <2>8. AloneIsOwn'
    BY <1>1, <1>2, <2>3 DEF ExchangeInv, AloneIsOwn
  <2>9. DeletesLast'
    <3>1. CASE SendSubReq
      BY <2>3, <2>4, <3>1 DEF ExchangeInv, NothingDeleted, DeletesLast
    <3>2. CASE SendDelReq
      BY <2>3, <2>5, <3>2 DEF ExchangeInv, DeletesLast
    <3> QED
      BY <3>1, <3>2
  <2>10. DeleteAnswered'
    BY <1>1, <1>2, <2>3, <2>4, <2>5 DEF ExchangeInv, NothingDeleted, DeleteAnswered
  <2> QED
    BY <2>6, <2>7, <2>8, <2>9, <2>10 DEF MsgInv
<1> QED
  BY <1>3, <1>4

\* The other steps of a procedure send nothing.
LEMMA QuietMsgs ==
  ASSUME ExchangeInv, Live' => Live, Timeout \/ StopTrying \/ Remove \/ ReleaseTransactionTurn
  PROVE  MsgInv'
<1>1. /\ UNCHANGED <<trans, alone, delEvent, toNode, node, answers, handlers>>
      /\ event' = event \/ event' = "nil"
  BY DEF Timeout, StopTrying, NoAnswer, Remove, ReleaseTransactionTurn, netVars
<1>2. \A a : Answered(a)' = Answered(a) /\ OwnAnswered(a)' = OwnAnswered(a)
  BY <1>1 DEF Answered, OwnAnswered
<1> QED
  BY <1>1, <1>2, NoneMore

\* An answer is handled: it was on its way, and is offered to the procedure that is
\* in progress.
LEMMA HandleMsgs ==
  ASSUME ExchangeInv, Live' => Live, NEW a \in Answers, Handle(a)
  PROVE  MsgInv'
<1> DEFINE h == [trans |-> trans, answer |-> a]
<1>1. UNCHANGED <<trans, alone, event, delEvent, toNode, node>>
  BY DEF Handle, procVars
<1>2. a \in BagToSet(answers) /\ BagToSet(answers') \subseteq BagToSet(answers)
  BY DropFromBag DEF Handle, BagIn, ExchangeInv, TypeOK
<1>3. BagToSet(handlers') \subseteq BagToSet(handlers) \cup {h}
  BY AddToBag DEF Handle, ExchangeInv, TypeOK
<1>4. \A x : Answered(x)' => Answered(x)
  BY <1>2, <1>3 DEF Answered
<1>5. \A x : OwnAnswered(x)' => OwnAnswered(x)
  BY <1>1, <1>2, <1>3 DEF OwnAnswered
<1> QED
  BY <1>1, <1>4, <1>5, NoneMore

\* The procedure gets an answer (SendEvent, WaitEvent), or nobody does.
LEMMA EventMsgs ==
  ASSUME ExchangeInv, Live' => Live, NEW h \in Handlers, SendEvent(h) \/ GiveUp(h)
  PROVE  MsgInv'
<1>1. UNCHANGED <<trans, alone, toNode, node, answers>>
  BY DEF SendEvent, GiveUp, procVars, netVars
<1>2. h \in BagToSet(handlers) /\ BagToSet(handlers') \subseteq BagToSet(handlers)
  BY DropFromBag DEF SendEvent, GiveUp, BagIn, ExchangeInv, TypeOK
<1>3. \A x : (Answered(x)' => Answered(x)) /\ (OwnAnswered(x)' => OwnAnswered(x))
  BY <1>1, <1>2 DEF Answered, OwnAnswered
<1>4. event' = "resp" => event = "resp" \/ OwnAnswered("resp")
  BY <1>2 DEF SendEvent, GiveUp, NoAnswer, procVars, OwnAnswered
<1>5. delEvent' = delEvent \/ (~Live' /\ Answered(delEvent'))
  <2>1. CASE phase = "del_wait" /\ SendEvent(h)
    <3>1. delEvent' = h.answer /\ phase' = "remove" /\ UNCHANGED <<proc, event, trans>>
      BY <2>1 DEF SendEvent
    <3>2. proc # "update" /\ event = "nil" /\ trans # 0
      BY <2>1 DEF ExchangeInv, ProcOrder
    <3>3. proc \in {"create", "delete"}
      BY <3>2 DEF ExchangeInv, TypeOK
    <3>4. ~Live'
      BY <3>1, <3>2, <3>3 DEF Live
    <3> QED
      BY <1>2, <3>1, <3>4 DEF Answered
  <2>2. CASE ~(phase = "del_wait" /\ SendEvent(h))
    BY <2>2 DEF SendEvent, GiveUp, procVars
  <2> QED
    BY <2>1, <2>2
<1> QED
  BY <1>1, <1>3, <1>4, <1>5, NoneMore

\* A message is lost.
LEMMA LoseMsgs ==
  ASSUME ExchangeInv, Live' => Live, Lose
  PROVE  MsgInv'
<1>1. UNCHANGED <<trans, alone, event, delEvent, node, handlers>>
  BY DEF Lose, procVars
<1>2. BagToSet(answers') \subseteq BagToSet(answers)
  BY DropFromBag DEF Lose, ExchangeInv, TypeOK
<1>3. \A x : (Answered(x)' => Answered(x)) /\ (OwnAnswered(x)' => OwnAnswered(x))
  BY <1>1, <1>2 DEF Answered, OwnAnswered
<1>4. toNode' = toNode \/ (toNode # <<>> /\ toNode' = Tail(toNode))
  BY DEF Lose
<1> QED
  BY <1>1, <1>3, <1>4, NoneMore

\* The node gets a request and answers.
LEMMA ReceiveMsgs ==
  ASSUME ExchangeInv, Live' => Live, Receive
  PROVE  MsgInv'
<1> DEFINE m == Head(toNode)
<1>1. UNCHANGED <<trans, alone, event, delEvent, handlers, proc, phase>> /\ toNode # <<>> /\ toNode' = Tail(toNode)
  BY DEF Receive, procVars
<1>2. m = toNode[1] /\ 1 \in 1..Len(toNode) /\ m \in Requests
  BY <1>1, TailOfRequests, HeadTailProperties DEF ExchangeInv, TypeOK, Requests
<1>3. \A n \in 1..Len(toNode') : /\ n + 1 \in 1..Len(toNode) /\ toNode'[n] = toNode[n + 1]
                                 /\ 1 < n + 1
  BY <1>1, TailOfRequests DEF ExchangeInv
<1>4. PICK a \in Answers :
        /\ BagToSet(answers') = BagToSet(answers) \cup {a}
        /\ a = "resp" => m.op = "sub" /\ node' = m.ver
        /\ a = "fail" => m.op = "sub" /\ node' = node
        /\ a \in {"delresp", "delfail"} => m.op = "del" /\ node' = 0
  <2>1. PICK b \in Answers : /\ answers' = Add(answers, b)
                             /\ b = "resp" => m.op = "sub" /\ node' = m.ver
                             /\ b = "fail" => m.op = "sub" /\ node' = node
                             /\ b \in {"delresp", "delfail"} => m.op = "del" /\ node' = 0
    BY DEF Receive, Answers
  <2> QED
    BY <2>1, AddToBag DEF ExchangeInv, TypeOK
<1>5. \A x : (Answered(x)' <=> Answered(x) \/ x = a) /\ (OwnAnswered(x)' <=> OwnAnswered(x) \/ x = a)
  BY <1>1, <1>4 DEF Answered, OwnAnswered
<1>6. m.ver # 0
  BY <1>2 DEF Requests
<1>7. Live' = Live
  BY <1>1 DEF Live
<1>8. Live => a \in {"resp", "fail"}
  BY <1>2, <1>4 DEF ExchangeInv, NothingDeleted, Answers
<1>9. NothingDeleted'
  BY <1>1, <1>3, <1>5, <1>7, <1>8 DEF ExchangeInv, NothingDeleted
<1>10. Accepted'
  <2>1. CASE a = "resp"
    BY <1>4, <1>6, <2>1 DEF Accepted
  <2>2. CASE a = "fail"
    BY <1>1, <1>4, <1>5, <1>7, <2>2 DEF ExchangeInv, Accepted
  <2> QED
    BY <1>7, <1>8, <2>1, <2>2 DEF Accepted
<1>11. AloneIsOwn'
  <2> SUFFICES ASSUME Live, alone
               PROVE  /\ \A n \in 1..Len(toNode') : toNode'[n].ver = trans
                      /\ OwnAnswered("resp")' \/ event = "resp" => node' = trans
    BY <1>1, <1>7 DEF AloneIsOwn
  <2>1. m.ver = trans
    BY <1>2 DEF ExchangeInv, AloneIsOwn
  <2>2. \A n \in 1..Len(toNode') : toNode'[n].ver = trans
    BY <1>3 DEF ExchangeInv, AloneIsOwn
  <2>3. CASE a = "resp"
    BY <1>4, <2>1, <2>2, <2>3
  <2>4. CASE a = "fail"
    BY <1>4, <1>5, <2>2, <2>4 DEF ExchangeInv, AloneIsOwn
  <2> QED
    BY <1>8, <2>3, <2>4
<1>12. DeletesLast'
  <2> SUFFICES ASSUME NEW i \in 1..Len(toNode'), NEW j \in 1..Len(toNode'), i < j,
                      toNode'[i].op = "del"
               PROVE  toNode'[j].op = "del"
    BY DEF DeletesLast
  <2>1. i + 1 < j + 1
    OBVIOUS
  <2> QED
    BY <1>3, <2>1 DEF ExchangeInv, DeletesLast
<1>13. DeleteAnswered'
  <2>1. CASE a \in {"delresp", "delfail"}
    <3>1. \A n \in 1..Len(toNode') : toNode'[n].op = "del"
      BY <1>2, <1>3, <1>4, <2>1 DEF ExchangeInv, DeletesLast
    <3> QED
      BY <1>4, <2>1, <3>1 DEF DeleteAnswered
  <2>2. CASE a \in {"resp", "fail"}
    <3>1. Answered("delresp")' \/ Answered("delfail")' \/ delEvent' \in {"delresp", "delfail"} =>
            m.op = "del"
      BY <1>1, <1>2, <1>5, <2>2 DEF ExchangeInv, DeleteAnswered
    <3> QED
      BY <1>4, <2>2, <3>1 DEF DeleteAnswered
  <2> QED
    BY <2>1, <2>2 DEF Answers
<1> QED
  BY <1>9, <1>10, <1>11, <1>12, <1>13 DEF MsgInv

\* Every step keeps the invariant.
LEMMA ExchangeKept == ExchangeInv /\ [Next]_vars => ExchangeInv'
<1> SUFFICES ASSUME ExchangeInv, [Next]_vars PROVE ExchangeInv'
  OBVIOUS
<1>1. TypeOK' /\ ProcOrder' /\ (Live' => Live)
  BY TypesKept, OrderKept, LiveBefore DEF ExchangeInv
<1>2. CASE UNCHANGED vars
  BY <1>2 DEF vars, procVars, netVars, ExchangeInv, TypeOK, Handlers, ProcOrder, NothingDeleted,
              Accepted, AloneIsOwn, DeletesLast, DeleteAnswered, Live, Answered, OwnAnswered
<1>3. CASE Next
  <2>1. MsgInv'
    BY <1>1, <1>3, StartMsgs, SendMsgs, QuietMsgs, HandleMsgs, EventMsgs, LoseMsgs, ReceiveMsgs
       DEF Next, Procedure
  <2> QED
    BY <1>1, <2>1 DEF ExchangeInv, MsgInv
<1> QED
  BY <1>2, <1>3

\* It is an invariant.
LEMMA ExchangeInvariant == Spec => []ExchangeInv
BY InitExchange, ExchangeKept, PTL DEF Spec

-----------------------------------------------------------------------------
(* The theorems *)

\* Every variable of the exchange keeps its type; the tries stay within their
\* limits (sendE2TSubscriptionRequest, sendE2TSubscriptionDeleteRequest).
THEOREM TypeCorrect == Spec => []TypeOK
<1>1. ExchangeInv => TypeOK
  BY DEF ExchangeInv
<1> QED
  BY <1>1, ExchangeInvariant, PTL

\* A subscription that is registered while no procedure runs is at the node, for
\* any number of procedures and tries and whatever is lost, late or out of order: a
\* delete request is sent only by a procedure that ends without the subscription
\* (handleSubscriptionCreate, handleSubscriptionDelete).
THEOREM RegisteredIsAtNode == Spec => []RegisteredAtNode
<1>1. ExchangeInv => RegisteredAtNode
  <2> SUFFICES ASSUME ExchangeInv, registered, phase = "idle" PROVE node # 0
    BY DEF RegisteredAtNode
  <2>1. proc = "update" \/ (proc = "create" /\ event = "resp")
    BY DEF ExchangeInv, ProcOrder
  <2>2. Live /\ (event = "resp" \/ trans > 1)
    BY <2>1 DEF Live, ExchangeInv, ProcOrder
  <2> QED
    BY <2>2 DEF ExchangeInv, Accepted
<1> QED
  BY <1>1, ExchangeInvariant, PTL

\* The success of a procedure that began with nothing under way is its own: the
\* answers to its several tries do not mislead it, and answers that are still offered
\* to earlier transactions do not reach it (GetTransaction, SendEvent).
THEOREM SuccessOfOwn == Spec => []SuccessIsOwn
<1>1. ExchangeInv => SuccessIsOwn
  <2> SUFFICES ASSUME ExchangeInv, phase = "idle", alone, event = "resp" PROVE node = trans
    BY DEF SuccessIsOwn
  <2>1. Live
    BY DEF Live, ExchangeInv, ProcOrder
  <2> QED
    BY <2>1 DEF ExchangeInv, AloneIsOwn
<1> QED
  BY <1>1, ExchangeInvariant, PTL

\* A delete that was answered as such is final: nothing is left at the node and no
\* request on its way brings the subscription back, because requests keep their order
\* and no subscription request follows a delete request.
THEOREM DeleteIsFinal == Spec => []DeletedForGood
<1>1. ExchangeInv => DeletedForGood
  BY DEF ExchangeInv, DeleteAnswered, DeletedForGood
<1> QED
  BY <1>1, ExchangeInvariant, PTL
=============================================================================
