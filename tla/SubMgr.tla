------------------------------- MODULE SubMgr -------------------------------
(***************************************************************************)
(* The E2 subscription procedures of the Subscription Manager              *)
(* (ric-plt-submgr/pkg/control): the Registry with its pool of E2 instance *)
(* ids, the Subscription objects, the goroutines Control starts for a      *)
(* create, a policy update and a delete, and the sweep that                *)
(* E2IfState.NotificationCb runs when an E2 node goes down or resets.      *)
(*                                                                         *)
(* A client is one E2 subscription an xApp asks for.  The goroutine that   *)
(* serves its REST request and the goroutine of the E2 procedure it starts *)
(* run strictly after one another, so they share one program counter; only *)
(* the tail of the second one, ReleaseTransactionTurn, overlaps with the   *)
(* first and is an action of its own.                                      *)
(*                                                                         *)
(* Registry.mutex and Subscription.mutex are explicit.  A critical section *)
(* that cannot block inside is one action whose guard is that the mutex is *)
(* free; a section that calls Routing Manager or sleeps with a mutex held  *)
(* is split there.                                                         *)
(***************************************************************************)
EXTENDS Integers, Sequences, FiniteSets

CONSTANTS
  Clients,        \* the E2 subscriptions xApps ask for
  Endpoint,       \* [Clients -> RMR endpoints]: the xApp behind a client
  Content,        \* [Clients -> contents]: event trigger and actions
  Policy,         \* the clients whose actions are of type POLICY
  Routed,         \* the clients that want an RMR route (CreateRMRRoute)
  MaxId,          \* the ids are 1..MaxId; 65534 in the code
  Objects,        \* where Subscription objects live; bounds those in use
  MaxOps,         \* bound: requests of all the clients
  MaxE2Events,    \* bound: E2 connection notifications
  E2Events,       \* which notifications occur, of {"down", "reset"}
  Faults,         \* what may fail, of {"rtmgr", "sdl", "pack", "race"}
  None

ASSUME ClientsAssumption ==
  /\ DOMAIN Endpoint = Clients
  /\ DOMAIN Content = Clients
  /\ Policy \subseteq Clients
  /\ Routed \subseteq Clients

ASSUME BoundsAssumption ==
  /\ MaxId \in Nat
  /\ MaxOps \in Nat
  /\ MaxE2Events \in Nat

ASSUME NoneAssumption ==
  /\ None \notin Clients
  /\ None \notin Objects
  /\ \A c \in Clients : None # Content[c]

VARIABLES
  rmutex,      \* Registry.mutex: the client that holds it, or None
  smutex,      \* Subscription.mutex of each object
  turn,        \* Subscription.TransLock of each object
  releasing,   \* objects whose procedure has yet to run ReleaseTransactionTurn
  register,    \* Registry.register: [id -> object or None]
  subIds,      \* Registry.subIds: the free ids, first in first out
  subs,        \* the Subscription objects
  pc,          \* where each client's goroutine is
  op,          \* the operation it runs: "create", "update" or "delete"
  cur,         \* the object it works on
  seen,        \* objects findExistingSubs has looked at
  count,       \* the counter value it read before it writes it back
  event,       \* what the procedure sent to the waiting goroutine
  told,        \* the E2 instance ids of the successes told to the xApp
  ops,         \* requests started
  routes,      \* Routing Manager: [id -> endpoints]
  db,          \* SDL: [id -> record or None]
  node,        \* the ids the E2 node has a subscription for
  e2,          \* "up", "down" or "reset": NbIdMap and NbIdStatusMap
  sweep,       \* DeleteAllE2Subscriptions: whether it runs, the ids it has
               \* yet to visit, the object it is deleting, how far it is with
               \* that, and the pool it has read
  events,      \* E2 notifications so far
  raced,       \* history: the pool was written between the sweep's read of it
               \* and its write
  pinned       \* objects that goroutines of other modules refer to

lockVars == <<rmutex, smutex, turn, releasing>>
regVars  == <<register, subIds, subs>>
goVars   == <<pc, op, cur, seen, count, event>>
xappVars == <<told, ops>>
envVars  == <<routes, db, node>>
e2Vars   == <<e2, sweep, events, raced, pinned>>
vars     == <<lockVars, regVars, goVars, xappVars, envVars, e2Vars>>

-----------------------------------------------------------------------------
(* Data *)

Ids       == 1..MaxId
Endpoints == {Endpoint[c] : c \in Clients}
Contents  == {Content[c] : c \in Clients}

\* What SubRFMsg holds: nothing, a response, a failure, or an error event.
Answers == {"nil", "resp", "fail", "error"}

\* Subscription (subscription.go): the fields the procedures read.  An object
\* that was never allocated has the id 0 and no content.
Subscription == [id : Ids \cup {0}, content : Contents \cup {None},
                 policy : BOOLEAN,
                 eps : SUBSET Endpoints, route : BOOLEAN,
                 valid : BOOLEAN, answer : Answers,
                 update : BOOLEAN, retry : BOOLEAN,
                 req : Int, del : Int]

\* SubscriptionInfo (sdl_e2SubsDb.go): what WriteSubscriptionToSdl stores.
SubscriptionInfo == [content : Contents \cup {None}, policy : BOOLEAN,
                     eps : SUBSET Endpoints, valid : BOOLEAN,
                     rcvd : BOOLEAN, update : BOOLEAN]

Info(s) == [content |-> subs[s].content, policy |-> subs[s].policy,
            eps |-> subs[s].eps, valid |-> subs[s].valid,
            rcvd |-> subs[s].answer = "resp", update |-> subs[s].update]

ASSUME RecordAssumption == None \notin SubscriptionInfo

\* The entries of Registry.register.
Registered == {register[i] : i \in Ids} \ {None}

\* WriteSubscriptionToDb; the mutant writes a record only once.
WriteOnce(s) == [db EXCEPT ![subs[s].id] = IF @ = None THEN Info(s) ELSE @]

WriteSubscriptionToDb(s) == [db EXCEPT ![subs[s].id] = Info(s)]

\* What Routing Manager and SDL hold after a call that may fail unnoticed.
MayFail(fault, was, now) == IF fault \in Faults THEN {was, now} ELSE {now}

\* RemoveSubscriptionFromDb: an error is logged only.
WithoutRecord(i) == MayFail("sdl", db, [db EXCEPT ![i] = None])

\* The end of a subscription puts its id at the end of the pool; the mutant
\* forgets to.
KeepId(i) == subIds

ReleaseId(i) == Append(subIds, i)

\* What DelEndpoint reports: whether the endpoint was in the list.
DelStatus(s, c) == Endpoint[c] \in subs[s].eps

\* IsMergeable, with the checks findExistingSubs repeats under the mutex.
\* Requests with equal content have the same trigger and the same actions;
\* only REPORT actions merge.
\* The mutant does not ask whether the subscription is being deleted.
MergeInvalid(s, c) ==
  /\ subs[s].eps # {} /\ subs[s].content = Content[c]
  /\ ~subs[s].policy /\ c \notin Policy

IsMergeable(s, c) ==
  /\ subs[s].valid
  /\ subs[s].eps # {}
  /\ subs[s].content = Content[c]
  /\ ~subs[s].policy
  /\ c \notin Policy

IsE2ConnectionUp         == e2 # "down"
IsE2ConnectionUnderReset == e2 = "reset"

Goto(c, l) == pc' = [pc EXCEPT ![c] = l]

\* The goroutine returns and its locals are gone.
Return(c) ==
  /\ Goto(c, "idle")
  /\ op' = [op EXCEPT ![c] = "create"]
  /\ cur' = [cur EXCEPT ![c] = None]
  /\ seen' = [seen EXCEPT ![c] = {}]
  /\ count' = [count EXCEPT ![c] = 0]
  /\ event' = [event EXCEPT ![c] = "nil"]

\* The objects nothing refers to: the garbage collector has them.
Garbage ==
  {s \in Objects : /\ s \notin Registered
                   /\ \A c \in Clients : cur[c] # s
                   /\ turn[s] = None
                   /\ sweep.obj # s
                   /\ s \notin pinned}

-----------------------------------------------------------------------------
(* Requests of the xApps *)

\* RESTSubscriptionHandler, reduced to the guard on the E2 connection.  An
\* xApp that was told of a success may ask again: it restarted and repeats
\* its request, or it updates the policy it has.
StartCreate(c) ==
  /\ pc[c] = "idle" /\ ops < MaxOps
  /\ IsE2ConnectionUp /\ ~IsE2ConnectionUnderReset
  /\ ops' = ops + 1
  /\ op' = [op EXCEPT ![c] = IF c \in Policy /\ told[c] # {}
                             THEN "update" ELSE "create"]
  /\ Goto(c, "assign")
  /\ UNCHANGED <<lockVars, regVars, cur, seen, count, event, told, envVars,
                 e2Vars>>

\* SubscriptionDeleteHandler up to the counter: the object is looked up under
\* Registry.mutex; an unknown id ends the request.
StartDelete(c, i) ==
  /\ pc[c] = "idle" /\ ops < MaxOps /\ i \in told[c]
  /\ rmutex = None
  /\ ops' = ops + 1
  /\ told' = [told EXCEPT ![c] = @ \ {i}]
  /\ LET s == register[i] IN
       \/ /\ s = None
          /\ UNCHANGED goVars
       \/ /\ s # None
          /\ op' = [op EXCEPT ![c] = "delete"]
          /\ cur' = [cur EXCEPT ![c] = s]
          /\ count' = [count EXCEPT ![c] = subs[s].del]
          /\ Goto(c, "begin")
          /\ UNCHANGED <<seen, event>>
  /\ UNCHANGED <<lockVars, regVars, envVars, e2Vars>>

-----------------------------------------------------------------------------
(* AssignToSubscription *)

\* Release of Registry.mutex by its holder.
Unlock == rmutex' = None

\* The Registry.mutex is taken.  A policy update goes to the object the id
\* names, everything else to findExistingSubs, which ranges over the map in
\* an arbitrary order: cur is the entry it looks at next.
AssignLock(c) ==
  /\ pc[c] = "assign" /\ rmutex = None
  /\ rmutex' = c
  /\ \/ \E i \in told[c] :
          /\ op[c] = "update" /\ register[i] # None
          /\ Goto(c, "policy")
          /\ cur' = [cur EXCEPT ![c] = register[i]]
          /\ UNCHANGED op
     \/ /\ op[c] = "update" => \A i \in told[c] : register[i] = None
        /\ Goto(c, "find")
        /\ op' = [op EXCEPT ![c] = "create"]
        /\ \/ Registered = {} /\ cur' = [cur EXCEPT ![c] = None]
           \/ \E s \in Registered : cur' = [cur EXCEPT ![c] = s]
  /\ UNCHANGED <<smutex, turn, releasing, regVars, seen, count, event,
                 xappVars, envVars, e2Vars>>

\* The POLICY branch: the existing object is reset for a new exchange.
AssignPolicy(c) ==
  LET s == cur[c] IN
  /\ pc[c] = "policy" /\ smutex[s] = None
  /\ subs' = [subs EXCEPT ![s] = [@ EXCEPT !.update = TRUE, !.answer = "nil",
                                           !.valid = TRUE]]
  /\ count' = [count EXCEPT ![c] = subs[s].req]
  /\ Unlock
  /\ Goto(c, "begin")
  /\ UNCHANGED <<smutex, turn, releasing, register, subIds, op, cur,
                 seen, event, xappVars, envVars, e2Vars>>

\* findExistingSubs looks at one entry, under that entry's mutex and with
\* Registry.mutex held.
FindExistingSubs(c) ==
  LET s == cur[c] IN
  /\ pc[c] = "find" /\ s # None /\ smutex[s] = None
  /\ \/ /\ IsMergeable(s, c) /\ Endpoint[c] \in subs[s].eps
        /\ subs' = [subs EXCEPT ![s].retry = TRUE]
        /\ op' = [op EXCEPT ![c] = "retry"]
        /\ count' = [count EXCEPT ![c] = subs[s].req]
        /\ seen' = [seen EXCEPT ![c] = {}]
        /\ Unlock
        /\ Goto(c, "begin")
        /\ UNCHANGED cur
     \/ /\ IsMergeable(s, c) /\ Endpoint[c] \notin subs[s].eps
        /\ subs' = [subs EXCEPT ![s].eps = @ \cup {Endpoint[c]}]
        /\ op' = [op EXCEPT ![c] = "merge"]
        /\ seen' = [seen EXCEPT ![c] = {}]
        /\ Goto(c, "merge")
        /\ UNCHANGED <<rmutex, cur, count>>
     \/ /\ ~IsMergeable(s, c)
        /\ seen' = [seen EXCEPT ![c] = @ \cup {s}]
        /\ LET rest == Registered \ seen'[c] IN
             \/ rest = {} /\ cur' = [cur EXCEPT ![c] = None]
             \/ \E n \in rest : cur' = [cur EXCEPT ![c] = n]
        /\ UNCHANGED <<subs, op, rmutex, pc, count>>
  /\ UNCHANGED <<smutex, turn, releasing, register, subIds, event, xappVars,
                 envVars, e2Vars>>

\* An entry to merge into: its mutex is taken again, and stays locked while
\* Registry.mutex is released for the route update.
MergeLock(c) ==
  LET s == cur[c] IN
  /\ pc[c] = "merge" /\ smutex[s] = None
  /\ smutex' = [smutex EXCEPT ![s] = c]
  /\ Unlock
  /\ Goto(c, "route")
  /\ UNCHANGED <<turn, releasing, regVars, op, cur, seen, count, event,
                 xappVars, envVars, e2Vars>>

NewSubscription(c, i) ==
  [id |-> i, content |-> Content[c], policy |-> c \in Policy,
   eps |-> {Endpoint[c]}, route |-> c \in Routed,
   valid |-> TRUE, answer |-> "nil",
   update |-> FALSE, retry |-> FALSE, req |-> 0, del |-> 0]

\* allocateSubs: the head of subIds, unless the pool is empty or that id is
\* still registered, in which case it goes to the end and the request fails.
AllocateSubs(c) ==
  /\ pc[c] = "find" /\ cur[c] = None
  /\ Unlock
  /\ \/ /\ subIds = <<>>
        /\ Return(c)
        /\ UNCHANGED <<smutex, subIds, subs>>
     \/ /\ subIds # <<>> /\ register[Head(subIds)] # None
        /\ subIds' = Append(Tail(subIds), Head(subIds))
        /\ Return(c)
        /\ UNCHANGED <<smutex, subs>>
     \/ /\ subIds # <<>> /\ register[Head(subIds)] = None
        /\ LET s == CHOOSE o \in Garbage : TRUE IN
             /\ Garbage # {}
             /\ subs' = [subs EXCEPT ![s] = NewSubscription(c, Head(subIds))]
             /\ cur' = [cur EXCEPT ![c] = s]
             /\ smutex' = [smutex EXCEPT ![s] = c]
        /\ subIds' = Tail(subIds)
        /\ seen' = [seen EXCEPT ![c] = {}]
        /\ Goto(c, "route")
        /\ UNCHANGED <<op, count, event>>
  /\ UNCHANGED <<turn, releasing, register, xappVars, envVars, e2Vars>>

\* RouteCreate or RouteCreateUpdate: Registry.mutex is free, the object's
\* mutex is held.  A call that fails leaves the routes as they were.
RouteCreate(c) ==
  LET s == cur[c] IN
  /\ pc[c] = "route"
  /\ \/ /\ event' = [event EXCEPT ![c] = "nil"]
        /\ routes' = IF c \in Routed
                     THEN [routes EXCEPT ![subs[s].id] = subs[s].eps]
                     ELSE routes
     \/ /\ c \in Routed /\ "rtmgr" \in Faults
        /\ event' = [event EXCEPT ![c] = "error"]
        /\ UNCHANGED routes
  /\ Goto(c, "insert")
  /\ UNCHANGED <<lockVars, regVars, op, cur, seen, count, xappVars, db, node,
                 e2Vars>>

\* The route could not be made: a new id goes back to the pool and the endpoint
\* leaves the list.  The mutants return the id of a merged subscription too,
\* return none, and leave the endpoint in the list.
ReturnAnyId(c, s) ==
  /\ subIds' = ReleaseId(subs[s].id)
  /\ subs' = [subs EXCEPT ![s].eps = @ \ {Endpoint[c]}]

ReturnNoId(c, s) ==
  /\ subIds' = subIds
  /\ subs' = [subs EXCEPT ![s].eps = @ \ {Endpoint[c]}]

KeepEndpoint(c, s) ==
  /\ subIds' = IF op[c] = "create" THEN ReleaseId(subs[s].id) ELSE subIds
  /\ subs' = subs

RollBack(c, s) ==
  /\ subIds' = IF op[c] = "create" THEN ReleaseId(subs[s].id) ELSE subIds
  /\ subs' = [subs EXCEPT ![s].eps = @ \ {Endpoint[c]}]

\* The end of AssignToSubscription: Registry.mutex is taken again with the
\* object's mutex held; the object is registered, or undone on an error.
AssignInsert(c) ==
  LET s == cur[c] IN
  /\ pc[c] = "insert" /\ rmutex = None
  /\ smutex' = [smutex EXCEPT ![s] = None]
  /\ \/ /\ event[c] = "error"
        /\ RollBack(c, s)
        /\ Return(c)
        /\ UNCHANGED register
     \/ /\ event[c] # "error"
        /\ register' = IF op[c] = "create"
                       THEN [register EXCEPT ![subs[s].id] = s] ELSE register
        /\ count' = [count EXCEPT ![c] = subs[s].req]
        /\ Goto(c, "begin")
        /\ UNCHANGED <<subIds, subs, op, cur, seen, event>>
  /\ UNCHANGED <<rmutex, turn, releasing, xappVars, envVars, e2Vars>>

-----------------------------------------------------------------------------
(* The E2 procedures: handleSubscriptionCreate, handleSubscriptionDelete *)

\* OngoingReqCount and OngoingDelCount change without a lock: a goroutine
\* writes back what is there now plus d or, when the updates of two of them
\* race, what it had read earlier plus d.
AddOngoing(c, d) ==
  LET s == cur[c]
      Read(now) == {now} \cup IF "race" \in Faults THEN {count[c]} ELSE {}
  IN
  /\ count' = [count EXCEPT ![c] = 0]
  /\ IF op[c] = "delete"
     THEN \E v \in Read(subs[s].del) : subs' = [subs EXCEPT ![s].del = v + d]
     ELSE \E v \in Read(subs[s].req) : subs' = [subs EXCEPT ![s].req = v + d]

Ongoing(c) == IF op[c] = "delete" THEN subs[cur[c]].del ELSE subs[cur[c]].req

\* The counter goes up and the goroutine of the procedure starts.
Begin(c) ==
  /\ pc[c] = "begin"
  /\ AddOngoing(c, 1)
  /\ Goto(c, "turn")
  /\ UNCHANGED <<lockVars, register, subIds, op, cur, seen, event,
                 xappVars, envVars, e2Vars>>

WaitTransactionTurn(c) ==
  LET s == cur[c] IN
  /\ pc[c] = "turn" /\ turn[s] = None
  /\ turn' = [turn EXCEPT ![s] = c]
  /\ Goto(c, IF op[c] = "delete" THEN "d_check" ELSE "cached")
  /\ UNCHANGED <<rmutex, smutex, releasing, regVars, op, cur, seen, count,
                 event, xappVars, envVars, e2Vars>>

\* GetCachedResponse: a merged or repeated request is answered from it.
GetCachedResponse(c) ==
  LET s == cur[c] IN
  /\ pc[c] = "cached" /\ smutex[s] = None
  /\ event' = [event EXCEPT ![c] = subs[s].answer]
  /\ Goto(c, IF subs[s].answer = "nil" /\ subs[s].valid THEN "e2req"
             ELSE IF subs[s].valid THEN "db_write" ELSE "db_remove")
  /\ UNCHANGED <<lockVars, regVars, op, cur, seen, count, xappVars, envVars,
                 e2Vars>>

\* SetCachedResponse
SetCachedResponse(s, a, v) ==
  [subs EXCEPT ![s] = [@ EXCEPT !.answer = a, !.valid = v]]

\* sendE2TSubscriptionRequest up to the first send: the request is packed and
\* the uncompleted subscription is stored.
SendSubReq(c) ==
  LET s == cur[c] IN
  /\ pc[c] = "e2req" /\ smutex[s] = None
  /\ \/ /\ {"pack", "sdl"} \cap Faults # {}
        /\ subs' = SetCachedResponse(s, "error", FALSE)
        /\ event' = [event EXCEPT ![c] = "error"]
        /\ Goto(c, "db_remove")
        /\ UNCHANGED db
     \/ /\ db' = WriteSubscriptionToDb(s)
        /\ Goto(c, "e2wait")
        /\ UNCHANGED <<subs, event>>
  /\ UNCHANGED <<lockVars, register, subIds, op, cur, seen, count,
                 xappVars, routes, node, e2Vars>>

\* A policy the E2 node accepted before stays when its update fails; the
\* mutant gives it up.
NeverKept(s) == FALSE

KeptOnFailure(s) == subs[s].update

\* The exchange with the E2 node, retries included, as its outcome.  A node
\* whose answer is lost may hold the subscription or not; a node behind a
\* broken connection holds nothing.
SubReqOutcome(c) ==
  LET s == cur[c]
      upd == KeptOnFailure(s)
      Have == IF IsE2ConnectionUp THEN node \cup {subs[s].id} ELSE node
  IN
  /\ pc[c] = "e2wait" /\ smutex[s] = None
  /\ \/ /\ subs' = SetCachedResponse(s, "resp", TRUE)
        /\ event' = [event EXCEPT ![c] = "resp"]
        /\ node' = Have
        /\ Goto(c, "db_write")
     \/ /\ subs' = SetCachedResponse(s, "fail", upd)
        /\ event' = [event EXCEPT ![c] = "fail"]
        /\ UNCHANGED node
        /\ Goto(c, IF upd THEN "db_write" ELSE "db_remove")
     \/ /\ subs' = SetCachedResponse(s, "nil", upd)
        /\ event' = [event EXCEPT ![c] = "nil"]
        /\ node' \in {node, Have}
        /\ Goto(c, IF upd THEN "db_write" ELSE "e2del")
  /\ UNCHANGED <<lockVars, register, subIds, op, cur, seen, count,
                 xappVars, routes, db, e2Vars>>

\* handleSubscriptionDelete: only the last endpoint of a valid subscription
\* is deleted at the E2 node.
CheckLastEndpoint(c) ==
  LET s == cur[c] IN
  /\ pc[c] = "d_check" /\ smutex[s] = None
  /\ IF subs[s].valid /\ subs[s].eps = {Endpoint[c]}
     THEN /\ subs' = [subs EXCEPT ![s].valid = FALSE]
          /\ Goto(c, "d_e2")
     ELSE /\ Goto(c, "rm_lock")
          /\ UNCHANGED subs
  /\ UNCHANGED <<lockVars, register, subIds, op, cur, seen, count,
                 event, xappVars, envVars, e2Vars>>

\* sendE2TSubscriptionDeleteRequest as its outcome, after a create that timed
\* out ("e2del"), after one whose record could not be stored ("undo") and for
\* a delete ("d_e2").  When no answer comes the manager stops trying.
DeleteAtNode(c) ==
  LET s == cur[c] IN
  /\ pc[c] \in {"e2del", "undo", "d_e2"} /\ smutex[s] = None
  /\ node' \in {node, node \ {subs[s].id}}
  /\ Goto(c, IF pc[c] = "e2del" THEN "db_remove" ELSE "rm_lock")
  /\ UNCHANGED <<lockVars, regVars, op, cur, seen, count, event, xappVars,
                 routes, db, e2Vars>>

\* UpdateSubscriptionInDB(subs, false).  A failed write makes the request
\* invalid: the subscription is deleted at the node and removed.
UpdateSubscriptionInDB(c) ==
  LET s == cur[c] IN
  /\ pc[c] = "db_write"
  /\ \/ /\ subs[s].retry
        /\ subs' = [subs EXCEPT ![s].retry = FALSE]
        /\ Goto(c, "event")
        /\ UNCHANGED db
     \/ /\ ~subs[s].retry
        /\ db' = WriteSubscriptionToDb(s)
        /\ Goto(c, "event")
        /\ UNCHANGED subs
     \/ /\ ~subs[s].retry /\ "sdl" \in Faults
        /\ Goto(c, "undo")
        /\ UNCHANGED <<subs, db>>
  /\ UNCHANGED <<lockVars, register, subIds, op, cur, seen, count,
                 event, xappVars, routes, node, e2Vars>>

\* UpdateSubscriptionInDB(subs, true)
RemoveSubscriptionFromDb(c) ==
  LET s == cur[c] IN
  /\ pc[c] = "db_remove"
  /\ db' \in WithoutRecord(subs[s].id)
  /\ subs' = [subs EXCEPT ![s].retry = FALSE]
  /\ Goto(c, "rm_lock")
  /\ UNCHANGED <<lockVars, register, subIds, op, cur, seen, count,
                 event, xappVars, routes, node, e2Vars>>

\* parentTrans.SendEvent: the goroutine of the request goes on and reads the
\* counter; the turn is yet to be released.
SendEvent(c) ==
  LET s == cur[c] IN
  /\ pc[c] = "event"
  /\ releasing' = releasing \cup {s}
  /\ count' = [count EXCEPT ![c] = Ongoing(c)]
  /\ Goto(c, "end")
  /\ UNCHANGED <<rmutex, smutex, turn, regVars, op, cur, seen, event,
                 xappVars, envVars, e2Vars>>

\* The mutant forgets to unlock TransLock.
KeepTurn(s) ==
  /\ s \in releasing /\ smutex[s] = None
  /\ releasing' = releasing \ {s}
  /\ UNCHANGED <<rmutex, smutex, turn, regVars, goVars, xappVars, envVars,
                 e2Vars>>

ReleaseTransactionTurn(s) ==
  /\ s \in releasing /\ smutex[s] = None
  /\ turn' = [turn EXCEPT ![s] = None]
  /\ releasing' = releasing \ {s}
  /\ UNCHANGED <<rmutex, smutex, regVars, goVars, xappVars, envVars, e2Vars>>

\* The counter goes down again.
End(c) ==
  /\ pc[c] = "end"
  /\ AddOngoing(c, -1)
  /\ Goto(c, "outcome")
  /\ UNCHANGED <<lockVars, register, subIds, op, cur, seen, event,
                 xappVars, envVars, e2Vars>>

\* The end of handleSubscriptionRequest and SubscriptionDeleteHandler: the
\* xApp is told of a success while the E2 connection is up; everything else
\* removes the endpoint once more, except from a policy that was updated.
Outcome(c) ==
  LET s == cur[c]
      success == op[c] # "delete" /\ event[c] = "resp"
  IN
  /\ pc[c] = "outcome"
  /\ \/ /\ success /\ IsE2ConnectionUp
        /\ told' = [told EXCEPT ![c] = @ \cup {subs[s].id}]
        /\ Return(c)
     \/ /\ op[c] # "delete" /\ event[c] # "resp" /\ subs[s].update
        /\ Return(c)
        /\ UNCHANGED told
     \/ /\ \/ op[c] = "delete"
           \/ success /\ ~IsE2ConnectionUp
           \/ ~success /\ ~subs[s].update
        /\ told' = [told EXCEPT ![c] = @ \ {subs[s].id}]
        /\ Goto(c, "p_lock")
        /\ UNCHANGED <<op, cur, seen, count, event>>
  /\ UNCHANGED <<lockVars, regVars, ops, envVars, e2Vars>>

-----------------------------------------------------------------------------
(* RemoveFromSubscription, by the procedure ("rm_") without waiting and by   *)
(* the goroutine of the request ("p_") with the wait for the route clean-up. *)

RemoveLock(c) ==
  /\ pc[c] \in {"rm_lock", "p_lock"} /\ rmutex = None
  /\ rmutex' = c
  /\ Goto(c, IF pc[c] = "rm_lock" THEN "rm_del" ELSE "p_del")
  /\ UNCHANGED <<smutex, turn, releasing, regVars, op, cur, seen, count,
                 event, xappVars, envVars, e2Vars>>

RemoveEndpoint(c) ==
  LET s == cur[c] IN
  /\ pc[c] \in {"rm_del", "p_del"} /\ smutex[s] = None
  /\ \/ /\ ~DelStatus(s, c)
        /\ Unlock
        /\ Goto(c, IF pc[c] = "rm_del" THEN "event" ELSE "done")
        /\ UNCHANGED <<smutex, subs>>
     \/ /\ DelStatus(s, c)
        /\ subs' = [subs EXCEPT ![s].eps = @ \ {Endpoint[c]}]
        /\ smutex' = [smutex EXCEPT ![s] = c]
        /\ IF pc[c] = "rm_del"
           THEN Goto(c, "rm_clean") /\ UNCHANGED rmutex
           ELSE Goto(c, "p_sleep") /\ Unlock
  /\ UNCHANGED <<turn, releasing, register, subIds, op, cur, seen,
                 count, event, xappVars, envVars, e2Vars>>

\* The wait is over: Registry.mutex is taken with the object's mutex held.
RemoveWake(c) ==
  /\ pc[c] = "p_sleep" /\ rmutex = None
  /\ rmutex' = c
  /\ Goto(c, "p_clean")
  /\ UNCHANGED <<smutex, turn, releasing, regVars, op, cur, seen, count,
                 event, xappVars, envVars, e2Vars>>

RemoveClean(c) ==
  LET s == cur[c]
      i == subs[s].id
  IN
  /\ pc[c] \in {"rm_clean", "p_clean"}
  /\ Unlock
  /\ smutex' = [smutex EXCEPT ![s] = None]
  /\ Goto(c, IF pc[c] = "rm_clean" THEN "event" ELSE "done")
  /\ IF subs[s].eps = {}
     THEN /\ routes' \in IF subs[s].route
                         THEN MayFail("rtmgr", routes,
                                [routes EXCEPT ![i] = @ \ {Endpoint[c]}])
                         ELSE {routes}
          /\ db' \in WithoutRecord(i)
          /\ register' = [register EXCEPT ![i] = None]
          /\ subIds' = ReleaseId(i)
     ELSE /\ routes' \in IF subs[s].route
                         THEN MayFail("rtmgr", routes,
                                [routes EXCEPT ![i] = subs[s].eps])
                         ELSE {routes}
          /\ db' \in MayFail("sdl", db, WriteSubscriptionToDb(s))
          /\ UNCHANGED <<register, subIds>>
  /\ UNCHANGED <<turn, releasing, subs, op, cur, seen, count, event,
                 xappVars, node, e2Vars>>

\* The request is over.  A success that came too late for the E2 connection
\* removes the record of its id once more and then, unless it was a policy update,
\* the endpoint a second time, as every other failure does.
Done(c) ==
  LET s == cur[c]
      late == op[c] # "delete" /\ event[c] = "resp"
  IN
  /\ pc[c] = "done"
  /\ db' \in IF late THEN WithoutRecord(subs[s].id) ELSE {db}
  /\ IF late /\ ~subs[s].update
     THEN /\ event' = [event EXCEPT ![c] = "error"]
          /\ Goto(c, "p_lock")
          /\ UNCHANGED <<op, cur, seen, count>>
     ELSE Return(c)
  /\ UNCHANGED <<lockVars, regVars, xappVars, routes, node, e2Vars>>

-----------------------------------------------------------------------------
(* E2IfState.NotificationCb and DeleteAllE2Subscriptions *)

NoSweep == [on |-> FALSE, todo |-> {}, obj |-> None, at |-> "look", ids |-> <<>>]

\* DISCONNECTED and UNDER_RESET start the sweep over the register; the E2
\* node has dropped its subscriptions.  An entry that appears while the map
\* is ranged over may be visited or not.
E2Break(kind) ==
  /\ kind \in E2Events /\ events < MaxE2Events
  /\ e2 # "down" /\ sweep = NoSweep
  /\ e2' = kind
  /\ events' = events + 1
  /\ sweep' = [NoSweep EXCEPT !.on = TRUE, !.todo = Ids]
  /\ node' = {}
  /\ UNCHANGED <<lockVars, regVars, goVars, xappVars, routes, db, raced, pinned>>

\* CONNECTED
E2Connect ==
  /\ e2 # "up" /\ sweep = NoSweep
  /\ e2' = "up"
  /\ UNCHANGED <<lockVars, regVars, goVars, xappVars, envVars, sweep, events, raced,
                 pinned>>

\* One entry of the map: it is left alone while a create or a delete is
\* counted on it.
SweepVisit(i) ==
  /\ i \in sweep.todo /\ sweep.at = "look"
  /\ LET s == register[i]
         quiet == s # None /\ subs[s].req = 0 /\ subs[s].del = 0
     IN sweep' = [sweep EXCEPT !.todo = @ \ {i},
                               !.obj = IF quiet THEN s ELSE None,
                               !.at = IF quiet THEN "routes" ELSE "look"]
  /\ UNCHANGED <<lockVars, regVars, goVars, xappVars, envVars, e2, events, raced,
                 pinned>>

\* The entry is deleted under no mutex: first its routes,
SweepRoutes ==
  LET s == sweep.obj
      i == subs[s].id
  IN
  /\ sweep.at = "routes"
  /\ routes' \in IF subs[s].route
                 THEN MayFail("rtmgr", routes,
                        [routes EXCEPT ![i] = @ \ subs[s].eps])
                 ELSE {routes}
  /\ sweep' = [sweep EXCEPT !.at = "delete"]
  /\ UNCHANGED <<lockVars, regVars, goVars, xappVars, db, node, e2, events, raced,
                 pinned>>

\* then the entry of the map; the append that follows reads the pool,
SweepDelete ==
  /\ sweep.at = "delete"
  /\ register' = [register EXCEPT ![subs[sweep.obj].id] = None]
  /\ sweep' = [sweep EXCEPT !.at = "append", !.ids = subIds]
  /\ UNCHANGED <<lockVars, subIds, subs, goVars, xappVars, envVars, e2, events, raced,
                 pinned>>

\* and writes it.  When a goroutine that has Registry.mutex writes the pool in
\* between, the sweep's write undoes that one, is undone by it, or (its read came
\* later) follows it.  A write that leaves the pool as it was is not noticed.
SweepReturn ==
  LET i == subs[sweep.obj].id
  IN
  /\ sweep.at = "append"
  /\ subIds' \in IF subIds = sweep.ids THEN {ReleaseId(i)}
                 ELSE {Append(sweep.ids, i), subIds, ReleaseId(i)}
  /\ raced' = (raced \/ subIds # sweep.ids)
  /\ sweep' = [sweep EXCEPT !.at = "record", !.ids = <<>>]
  /\ UNCHANGED <<lockVars, register, subs, goVars, xappVars, envVars, e2, events,
                 pinned>>

\* The record goes last, when the id may have been given away again.
SweepRecord ==
  /\ sweep.at = "record"
  /\ db' \in WithoutRecord(subs[sweep.obj].id)
  /\ sweep' = [sweep EXCEPT !.at = "look", !.obj = None]
  /\ UNCHANGED <<lockVars, regVars, goVars, xappVars, routes, node, e2, events, raced,
                 pinned>>

\* The REST subscriptions without a request in progress go too: their xApps
\* can no longer delete through them.
SweepEnd ==
  /\ sweep.on /\ sweep.todo = {} /\ sweep.at = "look"
  /\ sweep' = NoSweep
  /\ told' = [c \in Clients |-> IF pc[c] = "idle" THEN {} ELSE told[c]]
  /\ UNCHANGED <<lockVars, regVars, goVars, ops, envVars, e2, events, raced,
                 pinned>>

-----------------------------------------------------------------------------
(* The specification *)

Unused == [id |-> 0, content |-> None, policy |-> FALSE, eps |-> {},
           route |-> FALSE, valid |-> FALSE, answer |-> "nil",
           update |-> FALSE, retry |-> FALSE,
           req |-> 0, del |-> 0]

\* The ids Registry.Initialize puts into the pool; the mutant starts at 0.
IdsFromZero == [i \in Ids |-> i - 1]

InitialIds == [i \in Ids |-> i]

\* Registry.Initialize
Init ==
  /\ rmutex = None
  /\ smutex = [s \in Objects |-> None]
  /\ turn = [s \in Objects |-> None]
  /\ releasing = {}
  /\ register = [i \in Ids |-> None]
  /\ subIds = InitialIds
  /\ subs = [s \in Objects |-> Unused]
  /\ pc = [c \in Clients |-> "idle"]
  /\ op = [c \in Clients |-> "create"]
  /\ cur = [c \in Clients |-> None]
  /\ seen = [c \in Clients |-> {}]
  /\ count = [c \in Clients |-> 0]
  /\ event = [c \in Clients |-> "nil"]
  /\ told = [c \in Clients |-> {}]
  /\ ops = 0
  /\ routes = [i \in Ids |-> {}]
  /\ db = [i \in Ids |-> None]
  /\ node = {}
  /\ e2 = "up"
  /\ sweep = NoSweep
  /\ events = 0
  /\ raced = FALSE
  /\ pinned = {}

\* The steps of the goroutine of one client, its requests excepted.
Step(c) ==
  \/ AssignLock(c) \/ AssignPolicy(c) \/ FindExistingSubs(c)
  \/ MergeLock(c) \/ AllocateSubs(c) \/ RouteCreate(c) \/ AssignInsert(c)
  \/ Begin(c) \/ WaitTransactionTurn(c) \/ GetCachedResponse(c)
  \/ SendSubReq(c) \/ SubReqOutcome(c) \/ CheckLastEndpoint(c)
  \/ DeleteAtNode(c) \/ UpdateSubscriptionInDB(c)
  \/ RemoveSubscriptionFromDb(c) \/ SendEvent(c) \/ End(c) \/ Outcome(c)
  \/ RemoveLock(c) \/ RemoveEndpoint(c) \/ RemoveWake(c) \/ RemoveClean(c)
  \/ Done(c)

Sweep ==
  \/ \E i \in Ids : SweepVisit(i)
  \/ SweepRoutes \/ SweepDelete \/ SweepReturn \/ SweepRecord
  \/ SweepEnd

Next ==
  \/ \E c \in Clients : StartCreate(c) \/ Step(c)
  \/ \E c \in Clients, i \in Ids : StartDelete(c, i)
  \/ \E s \in Objects : ReleaseTransactionTurn(s)
  \/ \E kind \in {"down", "reset"} : E2Break(kind)
  \/ E2Connect
  \/ Sweep

\* Every goroutine runs and every mutex is handed on (sync.Mutex is fair to
\* a waiter that starves); xApps and E2 nodes promise nothing.
Fairness ==
  /\ \A c \in Clients : SF_vars(Step(c))
  /\ \A s \in Objects : WF_vars(ReleaseTransactionTurn(s))
  /\ WF_vars(Sweep)

Spec == Init /\ [][Next]_vars /\ Fairness

-----------------------------------------------------------------------------
(* Properties *)

\* Where a goroutine may be; at "c_sleep" only those that SubRestart starts.
Places == {"idle", "assign", "policy", "find", "merge", "route", "insert", "begin",
           "turn", "cached", "e2req", "e2wait", "e2del", "undo", "d_check",
           "d_e2", "db_write", "db_remove", "event", "end", "outcome",
           "rm_lock", "rm_del", "rm_clean",
           "p_lock", "p_del", "p_sleep", "p_clean", "done",
           "c_sleep"}

Operations == {"create", "merge", "retry", "update", "delete"}

LockTypes ==
  /\ rmutex \in Clients \cup {None}
  /\ smutex \in [Objects -> Clients \cup {None}]
  /\ turn \in [Objects -> Clients \cup {None}]
  /\ releasing \subseteq Objects

RegTypes ==
  /\ register \in [Ids -> Objects \cup {None}]
  /\ subIds \in Seq(Ids)
  /\ subs \in [Objects -> Subscription]

GoTypes ==
  /\ pc \in [Clients -> Places]
  /\ op \in [Clients -> Operations]
  /\ cur \in [Clients -> Objects \cup {None}]
  /\ seen \in [Clients -> SUBSET Objects]
  /\ count \in [Clients -> Int]
  /\ event \in [Clients -> Answers]

XappTypes ==
  /\ told \in [Clients -> SUBSET Ids]
  /\ ops \in 0..MaxOps

EnvTypes ==
  /\ routes \in [Ids -> SUBSET Endpoints]
  /\ db \in [Ids -> SubscriptionInfo \cup {None}]
  /\ node \subseteq Ids

E2Types ==
  /\ e2 \in {"up", "down", "reset"}
  /\ sweep \in [on : BOOLEAN, todo : SUBSET Ids, obj : Objects \cup {None},
                at : {"look", "routes", "delete", "append", "record"}, ids : Seq(Ids)]
  /\ sweep.at = "look" <=> sweep.obj = None
  /\ events \in 0..MaxE2Events
  /\ raced \in BOOLEAN
  /\ pinned \subseteq Objects

\* The type of every variable; in particular the pool never holds anything but
\* ids (subIds of registry.go).
TypeOK == LockTypes /\ RegTypes /\ GoTypes /\ XappTypes /\ EnvTypes /\ E2Types

\* The clients whose goroutine has allocated an id it has not registered yet.
Allocating == {c \in Clients : op[c] = "create" /\ pc[c] \in {"route", "insert"}}

\* Unique E2 instance ids: an id is in the free pool at most once, and no id
\* in the pool belongs to a registered subscription or to one that a request
\* is about to register (subIds of registry.go).
UniqueInstanceIds ==
  /\ \A m, n \in 1..Len(subIds) : subIds[m] = subIds[n] => m = n
  /\ \A n \in 1..Len(subIds) :
       /\ register[subIds[n]] = None
       /\ \A c \in Allocating : subs[cur[c]].id # subIds[n]
  /\ \A c \in Allocating : register[subs[cur[c]].id] = None
  /\ \A c, d \in Allocating : subs[cur[c]].id = subs[cur[d]].id => c = d

\* The sweep has taken the id out of the map and not put it into the pool yet.
Returning(i) == sweep.at = "append" /\ subs[sweep.obj].id = i

\* No id is lost: every id is free, registered, about to be registered or on its way
\* back to the pool, across route failures, late failures, deletes and sweeps that
\* run at the same time (registry.go).  The one way to lose an id is the unlocked
\* append of DeleteAllE2Subscriptions: when a request writes the pool between its
\* read and its write.
NoIdLost ==
  ~raced =>
    \A i \in Ids : \/ \E n \in 1..Len(subIds) : subIds[n] = i
                   \/ register[i] # None
                   \/ \E c \in Allocating : subs[cur[c]].id = i
                   \/ Returning(i)

Quiet(c) == pc[c] = "idle"

Quiescent ==
  /\ \A c \in Clients : Quiet(c)
  /\ releasing = {}
  /\ sweep = NoSweep

\* Client c is an endpoint of the registered, valid subscription with the id i,
\* which the E2 node holds too.
Subscribed(c, i) ==
  /\ i \in node
  /\ register[i] # None
  /\ LET s == register[i] IN
       /\ subs[s].valid
       /\ Endpoint[c] \in subs[s].eps
       /\ subs[s].content = Content[c]

\* An xApp that was told of a success and has no request in progress is an
\* endpoint of a registered, valid subscription with that id, which the E2
\* node holds too (handleSubscriptionRequest and the merge of
\* AssignToSubscription against the deletes of the other xApps).
SuccessMeansSubscribed ==
  \A c \in Clients : Quiet(c) => \A i \in told[c] : Subscribed(c, i)

\* The endpoints of the xApps that were told of a success for id i.
Owners(i) == {Endpoint[c] : c \in {d \in Clients : i \in told[d]}}

\* When nothing is in progress, the endpoints of every registered subscription
\* are exactly those of the xApps that were told of its id: failed merges and
\* deletes leave no endpoint behind and take none along (EpList in
\* AssignToSubscription and RemoveFromSubscription).
EndpointsAreOwners ==
  Quiescent =>
    \A i \in Ids :
      LET s == register[i] IN
      IF s = None THEN Owners(i) = {}
                  ELSE subs[s].id = i /\ subs[s].eps = Owners(i)

\* When nothing is in progress, SDL holds a record of every registered
\* subscription and of nothing else, and each of its endpoints is on record and
\* has a route (UpdateSubscriptionInDB, RouteCreate, RemoveFromSubscription).
\* A route that is refused to a merge may leave its endpoint on record.
RecordsAgree ==
  Quiescent =>
    \A i \in Ids :
      LET s == register[i] IN
      IF s = None THEN db[i] = None
                  ELSE /\ db[i] # None
                       /\ subs[s].eps \subseteq db[i].eps
                       /\ subs[s].route => subs[s].eps \subseteq routes[i]

\* Requests are queued "for a moment": each one comes to an end.
RequestsComplete == \A c \in Clients : pc[c] # "idle" ~> pc[c] = "idle"
=============================================================================
