---------------------------- MODULE SubMgrOwners ----------------------------
(***************************************************************************)
(* Proofs about who has a subscription in SubMgr: an xApp that was told of *)
(* a success is an endpoint of the subscription, the endpoints of a        *)
(* subscription are those of such xApps, and all of them are on record.    *)
(***************************************************************************)
EXTENDS SubMgrProofs

\* What the theorems assume: no E2 connection breaks, SDL does not fail, a
\* request can always be packed or has no POLICY to update, and a client is all
\* that its xApp asks for with that content.
Orderly ==
  /\ E2Events = {}
  /\ "sdl" \notin Faults
  /\ "pack" \in Faults => Policy = {}
  /\ \A c, d \in Clients : Endpoint[c] = Endpoint[d] /\ Content[c] = Content[d] => c = d

-----------------------------------------------------------------------------
(* The inductive invariant *)

\* Where a goroutine works on an object, where it has the turn of the object,
\* where its endpoint is in the list of the object, and where it has not asked
\* for the answer of the E2 node yet.
AtWork(c) == pc[c] \notin {"idle", "assign", "find"}

OnTurn(c) ==
  pc[c] \in {"cached", "e2req", "e2wait", "e2del", "d_check", "d_e2", "db_write",
             "db_remove", "rm_lock", "rm_del", "rm_clean", "event"}

Listed(c) ==
  pc[c] \in {"policy", "merge", "route", "insert", "begin", "turn", "cached", "e2req",
             "e2wait", "e2del", "d_check", "d_e2", "db_write", "db_remove", "rm_lock",
             "rm_del"}

Waiting(c) ==
  /\ pc[c] \in {"policy", "merge", "route", "insert", "begin", "turn", "cached"}
  /\ op[c] # "delete"

\* A request with a positive answer that the xApp was not told yet.
Succeeding(c) ==
  /\ pc[c] \in {"db_write", "event", "end", "outcome"}
  /\ op[c] # "delete" /\ event[c] = "resp"

\* A request that is about to remove its endpoint for want of a subscription.
Failing(c) ==
  \/ pc[c] \in {"e2del", "d_e2", "db_remove"}
  \/ pc[c] \in {"rm_lock", "rm_del"} /\ op[c] # "delete"

\* A request that has removed its endpoint.
Gone(c) ==
  \/ pc[c] \in {"rm_clean", "p_lock", "p_del", "done"}
  \/ /\ pc[c] \in {"event", "end", "outcome"}
     /\ \/ op[c] = "delete"
        \/ event[c] # "resp" /\ ~subs[cur[c]].update

\* What a goroutine knows by where it is.
ControlOf(c) ==
  /\ pc[c] \notin {"undo", "p_sleep", "p_clean", "c_sleep"}
  /\ op[c] = "update" => c \in Policy
  /\ pc[c] = "policy" => op[c] = "update"
  /\ pc[c] \in {"d_check", "d_e2"} => op[c] = "delete"
  /\ pc[c] \in {"policy", "merge", "route", "insert", "cached", "e2req", "e2wait", "e2del",
                "db_write", "db_remove"} => op[c] # "delete"
  /\ pc[c] \in {"e2del", "db_remove", "rm_lock", "rm_del", "rm_clean", "p_lock", "p_del",
                "done"} /\ op[c] # "delete"
       => event[c] # "resp"

\* One procedure at a time has the turn of an object.
TurnOf(c) == OnTurn(c) => turn[cur[c]] = c /\ cur[c] \notin releasing

\* The object is one client c may use.
Suits(c, s) == subs[s].content = Content[c] /\ (subs[s].policy <=> c \in Policy)

\* The id i that client c was told of is that of a subscription it has.
ToldOf(c) ==
  \A i \in told[c] :
    /\ Subscribed(c, i)
    /\ Suits(c, register[i])
    /\ subs[register[i]].answer = "resp" \/ subs[register[i]].update

\* What a goroutine at work knows of its object s.
WorkOf(c, s) ==
  /\ Suits(c, s)
  /\ Listed(c) \/ Succeeding(c) => Endpoint[c] \in subs[s].eps
  /\ Waiting(c) /\ subs[s].answer = "resp" => subs[s].valid
  /\ pc[c] \in {"e2req", "e2wait"} => subs[s].answer = "nil"
  /\ c \in Allocating => subs[s].answer = "nil"
  /\ Succeeding(c) => subs[s].valid /\ subs[s].answer = "resp" /\ subs[s].id \in node
  /\ Failing(c) => ~subs[s].valid
  /\ pc[c] = "db_write" /\ event[c] # "resp" => subs[s].update
  /\ op[c] = "delete" => subs[s].id \notin told[c]
  /\ pc[c] \in {"merge", "route", "insert"} => subs[s].id \notin told[c]
  /\ Gone(c) => Endpoint[c] \notin subs[s].eps /\ subs[s].id \notin told[c]
  /\ pc[c] = "policy" => subs[s].id \in told[c]
  /\ Listed(c) /\ op[c] # "delete" /\ subs[s].update => subs[s].id \in told[c]

\* What holds of every object.
ObjectOf(s) ==
  /\ subs[s].update => subs[s].policy
  /\ subs[s].policy => \A e, f \in subs[s].eps : e = f
  /\ subs[s].valid /\ subs[s].answer \in {"fail", "error"} => subs[s].update
  /\ s \in Registered /\ subs[s].valid /\ subs[s].answer = "resp" => subs[s].id \in node

\* Client c is why its endpoint is in the list of s: it is at work on it, or it
\* was told of it.
Owns(c, s) ==
  \/ cur[c] = s /\ (Listed(c) \/ Succeeding(c))
  \/ subs[s].id \in told[c] /\ register[subs[s].id] = s

Control == \A c \in Clients : ControlOf(c)
Turns   == /\ \A c \in Clients : TurnOf(c)
           /\ \A s \in releasing : turn[s] # None
Told    == \A c \in Clients : ToldOf(c)
Working == \A c \in Clients : AtWork(c) => WorkOf(c, cur[c])
Answered == \A s \in Objects : ObjectOf(s)
Owned   == \A s \in Objects : \A e \in subs[s].eps :
             \E c \in Clients : Endpoint[c] = e /\ Owns(c, s)

OwnInv == Control /\ Turns /\ Told /\ Working /\ Answered /\ Owned /\ e2 = "up"

-----------------------------------------------------------------------------
(* What a step leaves alone *)

\* A step of one goroutine leaves the others where they are, with the answers
\* and the ids they have.
OthersStay(c) ==
  /\ OthersKept(c)
  /\ \A d \in Clients \ {c} : event'[d] = event[d] /\ told'[d] = told[d]

LEMMA StayStart ==
  ASSUME TypeInv, NEW c \in Clients, StartCreate(c) \/ \E i \in Ids : StartDelete(c, i)
  PROVE  OthersStay(c) /\ UNCHANGED <<e2, turn, releasing>>
<1>1. OthersKept(c)
  BY StartOthers
<1>2. \A d \in Clients \ {c} : event'[d] = event[d] /\ told'[d] = told[d]
  BY DEF StartCreate, StartDelete, goVars, TypeInv, TypeOK, XappTypes
<1>3. UNCHANGED <<e2, turn, releasing>>
  BY DEF StartCreate, StartDelete, e2Vars, lockVars
<1> QED BY <1>1, <1>2, <1>3 DEF OthersStay

LEMMA StayStep ==
  ASSUME TypeInv, NEW c \in Clients, Step(c)
  PROVE  OthersStay(c) /\ UNCHANGED e2
<1>1. OthersKept(c)
  BY StepOthers
<1>2. (\A d \in Clients \ {c} : event'[d] = event[d] /\ told'[d] = told[d]) /\ UNCHANGED e2
  <2> USE DEF Return, TypeInv, TypeOK, GoTypes, XappTypes, xappVars, e2Vars
  <2>1. CASE AssignLock(c) \/ AssignPolicy(c) \/ FindExistingSubs(c) \/ MergeLock(c)
    BY <2>1 DEF AssignLock, AssignPolicy, FindExistingSubs, MergeLock
  <2>2. CASE AllocateSubs(c)
    <3>1. Return(c) \/ UNCHANGED event
      BY <2>2 DEF AllocateSubs
    <3>2. UNCHANGED <<told, e2>>
      BY <2>2 DEF AllocateSubs
    <3> QED BY <3>1, <3>2
  <2>3. CASE RouteCreate(c) \/ AssignInsert(c)
    BY <2>3 DEF RouteCreate, AssignInsert
  <2>4. CASE Begin(c) \/ WaitTransactionTurn(c) \/ GetCachedResponse(c) \/ SendSubReq(c)
    BY <2>4 DEF Begin, WaitTransactionTurn, GetCachedResponse, SendSubReq
  <2>5. CASE SubReqOutcome(c) \/ CheckLastEndpoint(c) \/ DeleteAtNode(c)
    BY <2>5 DEF SubReqOutcome, CheckLastEndpoint, DeleteAtNode
  <2>6. CASE UpdateSubscriptionInDB(c) \/ RemoveSubscriptionFromDb(c) \/ SendEvent(c)
    BY <2>6 DEF UpdateSubscriptionInDB, RemoveSubscriptionFromDb, SendEvent
  <2>7. CASE End(c) \/ Outcome(c) \/ Done(c)
    BY <2>7 DEF End, Outcome, Done
  <2>8. CASE RemoveLock(c) \/ RemoveEndpoint(c) \/ RemoveWake(c) \/ RemoveClean(c)
    BY <2>8 DEF RemoveLock, RemoveEndpoint, RemoveWake, RemoveClean
  <2> QED BY <2>1, <2>2, <2>3, <2>4, <2>5, <2>6, <2>7, <2>8 DEF Step
<1> QED BY <1>1, <1>2 DEF OthersStay

\* The object is what it was, except for its list of endpoints and what OwnInv
\* does not speak of.
Same(s) ==
  /\ subs'[s].id = subs[s].id
  /\ subs'[s].content = subs[s].content
  /\ subs'[s].policy = subs[s].policy
  /\ subs'[s].valid = subs[s].valid
  /\ subs'[s].answer = subs[s].answer
  /\ subs'[s].update = subs[s].update

\* Client d is in the list of s as it was.
SameFor(d, s) ==
  Suits(d, s) => (Endpoint[d] \in subs'[s].eps <=> Endpoint[d] \in subs[s].eps)

LEMMA OtherControl ==
  ASSUME NEW c \in Clients, OthersStay(c), NEW d \in Clients \ {c}, ControlOf(d)
  PROVE  ControlOf(d)'
BY DEF OthersStay, OthersKept, ControlOf

LEMMA OtherWork ==
  ASSUME NEW c \in Clients, OthersStay(c), NEW d \in Clients \ {c},
         WorkOf(d, cur[d]), Same(cur[d]), SameFor(d, cur[d]),
         Succeeding(d) => subs[cur[d]].id \in node'
  PROVE  WorkOf(d, cur[d])'
<1>1. /\ pc'[d] = pc[d] /\ cur'[d] = cur[d] /\ op'[d] = op[d] /\ event'[d] = event[d]
      /\ told'[d] = told[d]
  BY DEF OthersStay, OthersKept
<1>2. /\ Listed(d)' = Listed(d) /\ Waiting(d)' = Waiting(d) /\ Succeeding(d)' = Succeeding(d)
      /\ Failing(d)' = Failing(d) /\ Gone(d)' = Gone(d)
      /\ (d \in Allocating' <=> d \in Allocating)
  BY <1>1 DEF Listed, Waiting, Succeeding, Failing, Gone, Allocating, Same
<1>3. Suits(d, cur[d])' /\ Suits(d, cur[d])
  BY <1>1 DEF Same, Suits, WorkOf
<1>4. Endpoint[d] \in subs'[cur[d]].eps <=> Endpoint[d] \in subs[cur[d]].eps
  BY <1>3 DEF SameFor
<1> QED BY <1>1, <1>2, <1>3, <1>4 DEF WorkOf, Same

\* The ids a client was told of stay good.
LEMMA ToldKept ==
  ASSUME NEW d \in Clients, ToldOf(d), told'[d] \subseteq told[d],
         \A i \in told'[d] : /\ i \in node' /\ register'[i] = register[i]
                             /\ Same(register[i]) /\ SameFor(d, register[i])
  PROVE  ToldOf(d)'
BY DEF ToldOf, Subscribed, Suits, Same, SameFor

\* The turns stay where they are.
LEMMA TurnsKept ==
  ASSUME Turns, NEW c \in Clients, OthersStay(c), UNCHANGED <<turn, releasing>>,
         OnTurn(c)' => OnTurn(c) /\ cur'[c] = cur[c]
  PROVE  Turns'
BY DEF Turns, TurnOf, OnTurn, OthersStay, OthersKept

\* A client that is at work has an object, which has an id.
LEMMA AtObject ==
  ASSUME TypeInv, NEW c \in Clients, AtWork(c)
  PROVE  cur[c] \in Objects /\ subs[cur[c]].id \in Ids
BY DEF TypeInv, TypeOK, GoTypes, ObjectsInUse, InUse, AtWork

\* What a client was told of is registered.
LEMMA ToldObject ==
  ASSUME TypeInv, IdInv, OwnInv, NEW c \in Clients, NEW i \in told[c]
  PROVE  /\ i \in Ids /\ register[i] \in Objects /\ subs[register[i]].id = i
         /\ Suits(c, register[i]) /\ Endpoint[c] \in subs[register[i]].eps
         /\ subs[register[i]].valid /\ i \in node
BY DEF TypeInv, TypeOK, RegTypes, XappTypes, OwnInv, Told, ToldOf, Subscribed, IdInv, RegisteredIds

\* No two clients ask for the same with the same endpoint.
LEMMA Apart ==
  ASSUME Orderly, NEW c \in Clients, NEW d \in Clients \ {c}, NEW s, Suits(c, s), Suits(d, s)
  PROVE  Endpoint[c] # Endpoint[d]
BY DEF Orderly, Suits

\* An object with the endpoint of a client that may use it is registered,
\* unless that client is the one that makes it.
LEMMA Home ==
  ASSUME Orderly, TypeInv, IdInv, OwnInv, NEW c \in Clients, NEW s \in Objects,
         Suits(c, s), Endpoint[c] \in subs[s].eps, c \notin Allocating
  PROVE  s \in Registered /\ register[subs[s].id] = s
<1>1. ASSUME NEW x \in Allocating, cur[x] = s PROVE FALSE
  <2>1. x \in Clients \ {c} /\ AtWork(x)
    BY <1>1 DEF Allocating, AtWork
  <2>2. Suits(x, s)
    BY <1>1, <2>1 DEF OwnInv, Working, WorkOf
  <2>3. subs[s].eps = {Endpoint[x]}
    BY <1>1 DEF IdInv, AllocatedEps
  <2> QED BY <2>1, <2>2, <2>3, Apart
<1>2. s \in Registered
  BY <1>1 DEF IdInv, LeftEmpty
<1> QED BY <1>2 DEF IdInv, RegisteredIds, Registered

\* The lists stay owned when a step of c adds no endpoint but its own, takes
\* no object from the others, and c keeps those it is listed for.
LEMMA OwnedKept ==
  ASSUME OwnInv, NEW c \in Clients,
         \A o \in Objects : \A e \in subs'[o].eps :
           e \in subs[o].eps \/ (e = Endpoint[c] /\ Owns(c, o)'),
         \A o \in Objects : \A d \in Clients \ {c} :
           subs'[o].eps # {} /\ Owns(d, o) => Owns(d, o)',
         \A o \in Objects : Endpoint[c] \in subs'[o].eps /\ Owns(c, o) => Owns(c, o)'
  PROVE  Owned'
<1> SUFFICES ASSUME NEW o \in Objects, NEW e \in subs'[o].eps
             PROVE  \E x \in Clients : Endpoint[x] = e /\ Owns(x, o)'
  BY DEF Owned
<1>1. CASE e = Endpoint[c] /\ Owns(c, o)'
  BY <1>1
<1>2. CASE e \in subs[o].eps
  <2>1. PICK x \in Clients : Endpoint[x] = e /\ Owns(x, o)
    BY <1>2 DEF OwnInv, Owned
  <2>2. Owns(x, o)'
    BY <2>1
  <2> QED BY <2>1, <2>2
<1> QED BY <1>1, <1>2

\* The object of another client stays its own when its id and the entry of the
\* register are what they were.
LEMMA OtherOwns ==
  ASSUME NEW c \in Clients, OthersStay(c), NEW d \in Clients \ {c}, NEW o \in Objects,
         Owns(d, o), subs'[o].id = subs[o].id,
         register[subs[o].id] = o => register'[subs[o].id] = o
  PROVE  Owns(d, o)'
BY DEF Owns, Listed, Succeeding, OthersStay, OthersKept

\* The steps that change nothing OwnInv says of the objects.
LEMMA OwnPlain ==
  ASSUME TypeInv, OwnInv, IdInv, NEW c \in Clients, OthersStay(c), UNCHANGED <<register, node, e2>>,
         \A o \in Objects : Same(o) /\ subs'[o].eps = subs[o].eps,
         Turns', ControlOf(c)', ToldOf(c)', AtWork(c)' => WorkOf(c, cur[c])',
         \A o \in Objects : Endpoint[c] \in subs[o].eps /\ Owns(c, o) => Owns(c, o)'
  PROVE  OwnInv'
<1>1. Control'
  BY OtherControl DEF OwnInv, Control
<1>2. ASSUME NEW d \in Clients \ {c} PROVE ToldOf(d)'
  <2>1. \A i \in told[d] : register[i] \in Objects /\ i \in node
    BY ToldObject
  <2>2. told'[d] = told[d] /\ ToldOf(d)
    BY DEF OthersStay, OwnInv, Told
  <2> QED BY <2>1, <2>2, ToldKept DEF SameFor
<1>3. ASSUME NEW d \in Clients \ {c}, AtWork(d)' PROVE WorkOf(d, cur[d])'
  <2>1. AtWork(d)
    BY <1>3 DEF AtWork, OthersStay, OthersKept
  <2>2. WorkOf(d, cur[d]) /\ cur[d] \in Objects
    BY <2>1, AtObject DEF OwnInv, Working
  <2>3. Succeeding(d) => subs[cur[d]].id \in node'
    BY <2>2 DEF WorkOf
  <2> QED BY <2>2, <2>3, OtherWork DEF SameFor
<1>4. Answered'
  <2>1. Registered' = Registered
    BY DEF Registered
  <2> QED BY <2>1 DEF OwnInv, Answered, ObjectOf, Same
<1>5. Owned'
  <2>1. \A o \in Objects : \A d \in Clients \ {c} : Owns(d, o) => Owns(d, o)'
    BY OtherOwns DEF Same
  <2> QED BY <2>1, OwnedKept
<1>6. Told'
  BY <1>2 DEF Told
<1>7. Working'
  BY <1>3 DEF Working
<1> QED BY <1>1, <1>4, <1>5, <1>6, <1>7 DEF OwnInv

-----------------------------------------------------------------------------
(* Steps of a request on its object that change nothing of it *)

AllSame == \A o \in Objects : Same(o) /\ subs'[o].eps = subs[o].eps

\* The flag for repeated requests and the counters are not spoken of.
LEMMA SameFields ==
  ASSUME TypeInv, NEW s \in Objects, NEW v,
         \/ subs' = subs
         \/ subs' = [subs EXCEPT ![s].retry = v]
         \/ subs' = [subs EXCEPT ![s].req = v]
         \/ subs' = [subs EXCEPT ![s].del = v]
  PROVE  AllSame
<1>1. subs \in [Objects -> Subscription]
  BY DEF TypeInv, TypeOK, RegTypes
<1>2. CASE subs' = subs
  BY <1>2 DEF AllSame, Same
<1>3. CASE subs' = [subs EXCEPT ![s].retry = v]
  BY <1>1, <1>3 DEF AllSame, Same, Subscription
<1>4. CASE subs' = [subs EXCEPT ![s].req = v]
  BY <1>1, <1>4 DEF AllSame, Same, Subscription
<1>5. CASE subs' = [subs EXCEPT ![s].del = v]
  BY <1>1, <1>5 DEF AllSame, Same, Subscription
<1> QED BY <1>2, <1>3, <1>4, <1>5

LEMMA OwnMove ==
  ASSUME TypeInv, OwnInv, IdInv, NEW c \in Clients, OthersStay(c),
         UNCHANGED <<register, node, e2, cur, told>>, AllSame,
         Turns', AtWork(c), AtWork(c)', ControlOf(c)', WorkOf(c, cur[c])',
         Listed(c) \/ Succeeding(c) =>
           \/ Listed(c)' \/ Succeeding(c)'
           \/ subs[cur[c]].id \in told[c] /\ register[subs[cur[c]].id] = cur[c]
           \/ Endpoint[c] \notin subs[cur[c]].eps
  PROVE  OwnInv'
<1>1. ToldOf(c)'
  <2>1. \A i \in told[c] : register[i] \in Objects /\ i \in node
    BY ToldObject
  <2>2. told'[c] = told[c] /\ ToldOf(c)
    BY DEF OwnInv, Told
  <2> QED BY <2>1, <2>2, ToldKept DEF SameFor, AllSame
<1>2. \A o \in Objects : Endpoint[c] \in subs[o].eps /\ Owns(c, o) => Owns(c, o)'
  BY DEF Owns, AllSame, Same
<1> QED BY <1>1, <1>2, OwnPlain DEF AllSame

\* The common start of the proofs about these steps.
LEMMA WorkStart ==
  ASSUME TypeInv, OwnInv, NEW c \in Clients, Step(c), AtWork(c)
  PROVE  /\ OthersStay(c) /\ UNCHANGED e2 /\ e2 = "up"
         /\ cur[c] \in Objects /\ subs[cur[c]].id \in Ids
         /\ WorkOf(c, cur[c]) /\ ControlOf(c) /\ TurnOf(c) /\ ToldOf(c)
         /\ pc[c] \in Places
BY StayStep, AtObject DEF OwnInv, Control, Turns, Told, Working, TypeInv, TypeOK, GoTypes

LEMMA OwnMerging ==
  ASSUME TypeInv, LockInv, OwnInv, IdInv, NEW c \in Clients, MergeLock(c)
  PROVE  OwnInv'
<1>1. /\ OthersStay(c) /\ cur[c] \in Objects /\ WorkOf(c, cur[c]) /\ ControlOf(c)
      /\ UNCHANGED e2 /\ AtWork(c)
  BY WorkStart DEF MergeLock, Step, AtWork
<1>2. /\ pc[c] = "merge" /\ pc'[c] = "route" /\ op[c] = "merge"
      /\ UNCHANGED <<subs, register, node, cur, told, op, event, turn, releasing>>
  BY DEF MergeLock, Goto, TypeInv, TypeOK, GoTypes, regVars, xappVars, envVars, LockInv,
         FindCreates
<1>3. Turns'
  BY <1>1, <1>2, TurnsKept DEF OnTurn, OwnInv
<1>4. ControlOf(c)'
  BY <1>1, <1>2 DEF ControlOf
<1>5. WorkOf(c, cur[c])'
  BY <1>1, <1>2 DEF WorkOf, Suits, Listed, Succeeding, Waiting, Failing, Gone, Allocating
<1>6. AtWork(c)' /\ Listed(c)' /\ AllSame
  BY <1>1, <1>2, SameFields DEF AtWork, Listed
<1> QED BY <1>1, <1>2, <1>3, <1>4, <1>5, <1>6, OwnMove

LEMMA OwnRoute ==
  ASSUME TypeInv, OwnInv, IdInv, NEW c \in Clients, RouteCreate(c)
  PROVE  OwnInv'
<1>1. /\ OthersStay(c) /\ cur[c] \in Objects /\ WorkOf(c, cur[c]) /\ ControlOf(c)
      /\ UNCHANGED e2 /\ AtWork(c)
  BY WorkStart DEF RouteCreate, Step, AtWork
<1>2. /\ pc[c] = "route" /\ pc'[c] = "insert" /\ UNCHANGED <<subs, register, node, cur, told, op, turn, releasing>>
  BY DEF RouteCreate, Goto, TypeInv, TypeOK, GoTypes, regVars, xappVars, lockVars
<1>3. Turns'
  BY <1>1, <1>2, TurnsKept DEF OnTurn, OwnInv
<1>4. ControlOf(c)'
  BY <1>1, <1>2 DEF ControlOf
<1>5. WorkOf(c, cur[c])'
  BY <1>1, <1>2 DEF WorkOf, Suits, Listed, Succeeding, Waiting, Failing, Gone, Allocating
<1>6. AtWork(c)' /\ Listed(c)' /\ AllSame
  BY <1>1, <1>2, SameFields DEF AtWork, Listed
<1> QED BY <1>1, <1>2, <1>3, <1>4, <1>5, <1>6, OwnMove

LEMMA OwnBegin ==
  ASSUME TypeInv, OwnInv, IdInv, NEW c \in Clients, Begin(c)
  PROVE  OwnInv'
<1>1. /\ OthersStay(c) /\ cur[c] \in Objects /\ WorkOf(c, cur[c]) /\ ControlOf(c)
      /\ UNCHANGED e2 /\ AtWork(c)
  BY WorkStart DEF Begin, Step, AtWork
<1>2. /\ pc[c] = "begin" /\ pc'[c] = "turn"
      /\ UNCHANGED <<register, node, cur, told, op, event, turn, releasing>>
  BY DEF Begin, Goto, TypeInv, TypeOK, GoTypes, xappVars, envVars, lockVars
<1>3. Turns'
  BY <1>1, <1>2, TurnsKept DEF OnTurn, OwnInv
<1>4. ControlOf(c)'
  BY <1>1, <1>2 DEF ControlOf
<1>6. AtWork(c)' /\ Listed(c)' /\ AllSame
  BY <1>1, <1>2, SameFields DEF AtWork, Listed, Begin, AddOngoing
<1>5. WorkOf(c, cur[c])'
  BY <1>1, <1>2, <1>6 DEF WorkOf, Suits, Listed, Succeeding, Waiting, Failing, Gone, Allocating, AllSame, Same
<1> QED BY <1>1, <1>2, <1>3, <1>4, <1>5, <1>6, OwnMove

LEMMA OwnWait ==
  ASSUME TypeInv, OwnInv, IdInv, NEW c \in Clients, WaitTransactionTurn(c)
  PROVE  OwnInv'
<1>1. /\ OthersStay(c) /\ cur[c] \in Objects /\ WorkOf(c, cur[c]) /\ ControlOf(c)
      /\ UNCHANGED e2 /\ AtWork(c)
  BY WorkStart DEF WaitTransactionTurn, Step, AtWork
<1>2. /\ pc[c] = "turn" /\ pc'[c] = IF op[c] = "delete" THEN "d_check" ELSE "cached"
      /\ UNCHANGED <<subs, register, node, cur, told, op, event, releasing>>
      /\ turn[cur[c]] = None /\ turn' = [turn EXCEPT ![cur[c]] = c]
  BY DEF WaitTransactionTurn, Goto, TypeInv, TypeOK, GoTypes, xappVars, envVars, regVars
<1>3. Turns'
  <2>1. turn'[cur[c]] = c /\ \A o \in Objects \ {cur[c]} : turn'[o] = turn[o]
    BY <1>1, <1>2 DEF TypeInv, TypeOK, LockTypes
  <2>2. cur[c] \notin releasing /\ releasing \subseteq Objects
    BY <1>2 DEF OwnInv, Turns, TypeInv, TypeOK, LockTypes
  <2>3. ASSUME NEW d \in Clients \ {c}, OnTurn(d)' PROVE turn'[cur'[d]] = d /\ cur'[d] \notin releasing'
    <3>1. OnTurn(d) /\ cur'[d] = cur[d] /\ AtWork(d)
      BY <1>1, <2>3 DEF OnTurn, AtWork, OthersStay, OthersKept
    <3>2. turn[cur[d]] = d /\ cur[d] \notin releasing /\ cur[d] \in Objects
      BY <3>1, AtObject DEF OwnInv, Turns, TurnOf
    <3> QED BY <1>2, <2>1, <3>1, <3>2, NoneAssumption
  <2> QED BY <1>2, <2>1, <2>2, <2>3, NoneAssumption DEF Turns, TurnOf, OwnInv
<1>4. ControlOf(c)'
  BY <1>1, <1>2 DEF ControlOf
<1>5. WorkOf(c, cur[c])'
  BY <1>1, <1>2 DEF WorkOf, Suits, Listed, Succeeding, Waiting, Failing, Gone, Allocating
<1>6. AtWork(c)' /\ Listed(c)' /\ AllSame
  BY <1>1, <1>2, SameFields DEF AtWork, Listed
<1> QED BY <1>1, <1>2, <1>3, <1>4, <1>5, <1>6, OwnMove

LEMMA OwnCached ==
  ASSUME Orderly, TypeInv, OwnInv, IdInv, NEW c \in Clients, GetCachedResponse(c)
  PROVE  OwnInv'
<1>1. /\ OthersStay(c) /\ cur[c] \in Objects /\ WorkOf(c, cur[c]) /\ ControlOf(c)
      /\ UNCHANGED e2 /\ AtWork(c)
  BY WorkStart DEF GetCachedResponse, Step, AtWork
<1>2. PICK s \in Objects : s = cur[c]
  BY <1>1
<1>3. /\ pc[c] = "cached" /\ event'[c] = subs[s].answer
      /\ pc'[c] = IF subs[s].answer = "nil" /\ subs[s].valid THEN "e2req"
                  ELSE IF subs[s].valid THEN "db_write" ELSE "db_remove"
      /\ UNCHANGED <<subs, register, node, cur, told, op, turn, releasing>>
  BY <1>2 DEF GetCachedResponse, Goto, TypeInv, TypeOK, GoTypes, xappVars, envVars, regVars, lockVars
<1>4. pc'[c] \in {"e2req", "db_write", "db_remove"}
  BY <1>3
<1>5. Turns'
  BY <1>1, <1>3, TurnsKept DEF OnTurn, OwnInv
<1>6. op[c] # "delete" /\ Endpoint[c] \in subs[s].eps /\ Suits(c, s)
  BY <1>1, <1>2, <1>3 DEF ControlOf, WorkOf, Listed
<1>7. s \in Registered
  BY <1>3, <1>6, Home DEF Allocating
<1>8. /\ subs[s].answer = "resp" => subs[s].valid /\ subs[s].id \in node
      /\ subs[s].valid /\ subs[s].answer \notin {"nil", "resp"} => subs[s].update
  <2>1. subs[s].answer = "resp" => subs[s].valid
    BY <1>1, <1>2, <1>3, <1>6 DEF WorkOf, Waiting
  <2>2. ObjectOf(s) /\ subs[s].answer \in Answers
    BY DEF OwnInv, Answered, TypeInv, TypeOK, RegTypes, Subscription
  <2> QED BY <1>7, <2>1, <2>2 DEF ObjectOf, Answers
<1>9. ControlOf(c)'
  BY <1>1, <1>3, <1>4, <1>6, <1>8 DEF ControlOf
<1>10. WorkOf(c, s)'
  <2>1. /\ Suits(c, s)' /\ Endpoint[c] \in subs'[s].eps
        /\ ~Waiting(c)' /\ ~Gone(c)' /\ c \notin Allocating'
    BY <1>3, <1>4, <1>6 DEF Suits, Waiting, Gone, Allocating
  <2>2. subs[s].update => subs[s].id \in told[c]
    BY <1>1, <1>2, <1>3, <1>6 DEF WorkOf, Listed
  <2>3. CASE pc'[c] = "e2req"
    BY <1>3, <1>6, <2>1, <2>2, <2>3 DEF WorkOf, Succeeding, Failing
  <2>4. CASE pc'[c] = "db_write"
    BY <1>3, <1>6, <1>8, <2>1, <2>2, <2>4 DEF WorkOf, Succeeding, Failing
  <2>5. CASE pc'[c] = "db_remove"
    BY <1>3, <1>6, <2>1, <2>2, <2>5 DEF WorkOf, Succeeding, Failing
  <2> QED BY <1>4, <2>3, <2>4, <2>5
<1>11. AtWork(c)' /\ Listed(c)' /\ AllSame
  BY <1>1, <1>3, <1>4, SameFields DEF AtWork, Listed
<1> QED BY <1>1, <1>2, <1>3, <1>5, <1>9, <1>10, <1>11, OwnMove

LEMMA OwnSend ==
  ASSUME TypeInv, OwnInv, IdInv, NEW c \in Clients, SendSubReq(c), pc'[c] = "e2wait"
  PROVE  OwnInv'
<1>1. /\ OthersStay(c) /\ cur[c] \in Objects /\ WorkOf(c, cur[c]) /\ ControlOf(c)
      /\ UNCHANGED e2 /\ AtWork(c)
  BY WorkStart DEF SendSubReq, Step, AtWork
<1>2. /\ pc[c] = "e2req"
      /\ UNCHANGED <<subs, register, node, cur, told, op, event, turn, releasing>>
  BY DEF SendSubReq, Goto, TypeInv, TypeOK, GoTypes, xappVars, lockVars
<1>3. Turns'
  BY <1>1, <1>2, TurnsKept DEF OnTurn, OwnInv
<1>4. ControlOf(c)'
  BY <1>1, <1>2 DEF ControlOf
<1>5. WorkOf(c, cur[c])'
  BY <1>1, <1>2 DEF WorkOf, Suits, Listed, Succeeding, Waiting, Failing, Gone, Allocating
<1>6. AtWork(c)' /\ Listed(c)' /\ AllSame
  BY <1>1, <1>2, SameFields DEF AtWork, Listed
<1> QED BY <1>1, <1>2, <1>3, <1>4, <1>5, <1>6, OwnMove

LEMMA OwnCheckNot ==
  ASSUME TypeInv, OwnInv, IdInv, NEW c \in Clients, CheckLastEndpoint(c), UNCHANGED subs, pc'[c] = "rm_lock"
  PROVE  OwnInv'
<1>1. /\ OthersStay(c) /\ cur[c] \in Objects /\ WorkOf(c, cur[c]) /\ ControlOf(c)
      /\ UNCHANGED e2 /\ AtWork(c)
  BY WorkStart DEF CheckLastEndpoint, Step, AtWork
<1>2. /\ pc[c] = "d_check"
      /\ UNCHANGED <<register, node, cur, told, op, event, turn, releasing>>
  BY DEF CheckLastEndpoint, xappVars, envVars, lockVars
<1>3. Turns'
  BY <1>1, <1>2, TurnsKept DEF OnTurn, OwnInv
<1>4. ControlOf(c)'
  BY <1>1, <1>2 DEF ControlOf
<1>5. WorkOf(c, cur[c])'
  BY <1>1, <1>2 DEF WorkOf, Suits, Listed, Succeeding, Waiting, Failing, Gone, Allocating, ControlOf
<1>6. AtWork(c)' /\ Listed(c)' /\ AllSame
  BY <1>1, <1>2, SameFields DEF AtWork, Listed
<1> QED BY <1>1, <1>2, <1>3, <1>4, <1>5, <1>6, OwnMove

LEMMA OwnWrite ==
  ASSUME Orderly, TypeInv, OwnInv, IdInv, NEW c \in Clients, UpdateSubscriptionInDB(c)
  PROVE  OwnInv'
<1>1. /\ OthersStay(c) /\ cur[c] \in Objects /\ WorkOf(c, cur[c]) /\ ControlOf(c)
      /\ UNCHANGED e2 /\ AtWork(c)
  BY WorkStart DEF UpdateSubscriptionInDB, Step, AtWork
<1>2. /\ pc[c] = "db_write" /\ pc'[c] = "event"
      /\ UNCHANGED <<register, node, cur, told, op, event, turn, releasing>>
  BY DEF UpdateSubscriptionInDB, Goto, TypeInv, TypeOK, GoTypes, xappVars, lockVars, Orderly
<1>3. Turns'
  BY <1>1, <1>2, TurnsKept DEF OnTurn, OwnInv
<1>4. ControlOf(c)'
  BY <1>1, <1>2 DEF ControlOf
<1>5. AtWork(c)' /\ AllSame
  BY <1>1, <1>2, SameFields DEF AtWork, UpdateSubscriptionInDB
<1>6. WorkOf(c, cur[c])'
  BY <1>1, <1>2, <1>5 DEF WorkOf, Suits, Listed, Succeeding, Waiting, Failing, Gone, Allocating,
                          ControlOf, AllSame, Same
<1>7. CASE event[c] = "resp"
  <2>1. Succeeding(c)'
    BY <1>1, <1>2, <1>7 DEF Succeeding, ControlOf
  <2> QED BY <1>1, <1>2, <1>3, <1>4, <1>5, <1>6, <2>1, OwnMove
<1>8. CASE event[c] # "resp"
  <2>1. subs[cur[c]].id \in told[c] /\ Endpoint[c] \in subs[cur[c]].eps /\ Suits(c, cur[c])
    BY <1>1, <1>2, <1>8 DEF WorkOf, Listed, ControlOf
  <2>2. register[subs[cur[c]].id] = cur[c]
    BY <1>1, <1>2, <2>1, Home DEF Allocating
  <2> QED BY <1>1, <1>2, <1>3, <1>4, <1>5, <1>6, <2>1, <2>2, OwnMove
<1> QED BY <1>7, <1>8

LEMMA OwnErase ==
  ASSUME TypeInv, OwnInv, IdInv, NEW c \in Clients, RemoveSubscriptionFromDb(c)
  PROVE  OwnInv'
<1>1. /\ OthersStay(c) /\ cur[c] \in Objects /\ WorkOf(c, cur[c]) /\ ControlOf(c)
      /\ UNCHANGED e2 /\ AtWork(c)
  BY WorkStart DEF RemoveSubscriptionFromDb, Step, AtWork
<1>2. /\ pc[c] = "db_remove" /\ pc'[c] = "rm_lock"
      /\ UNCHANGED <<register, node, cur, told, op, event, turn, releasing>>
  BY DEF RemoveSubscriptionFromDb, Goto, TypeInv, TypeOK, GoTypes, xappVars, lockVars
<1>3. Turns'
  BY <1>1, <1>2, TurnsKept DEF OnTurn, OwnInv
<1>4. ControlOf(c)'
  BY <1>1, <1>2 DEF ControlOf
<1>5. AtWork(c)' /\ AllSame /\ Listed(c)'
  BY <1>1, <1>2, SameFields DEF AtWork, RemoveSubscriptionFromDb, Listed
<1>6. WorkOf(c, cur[c])'
  BY <1>1, <1>2, <1>5 DEF WorkOf, Suits, Listed, Succeeding, Waiting, Failing, Gone, Allocating,
                          ControlOf, AllSame, Same
<1> QED BY <1>1, <1>2, <1>3, <1>4, <1>5, <1>6, OwnMove

LEMMA OwnEvent ==
  ASSUME TypeInv, OwnInv, IdInv, NEW c \in Clients, SendEvent(c)
  PROVE  OwnInv'
<1>1. /\ OthersStay(c) /\ cur[c] \in Objects /\ WorkOf(c, cur[c]) /\ ControlOf(c)
      /\ UNCHANGED e2 /\ AtWork(c) /\ TurnOf(c)
  BY WorkStart DEF SendEvent, Step, AtWork
<1>2. /\ pc[c] = "event" /\ pc'[c] = "end" /\ releasing' = releasing \cup {cur[c]}
      /\ UNCHANGED <<subs, register, node, cur, told, op, event, turn>>
  BY DEF SendEvent, Goto, TypeInv, TypeOK, GoTypes, xappVars, regVars, envVars
<1>3. Turns'
  <2>1. turn[cur[c]] = c
    BY <1>1, <1>2 DEF TurnOf, OnTurn
  <2>2. ~OnTurn(c)' /\ \A d \in Clients \ {c} : (OnTurn(d)' <=> OnTurn(d)) /\ cur'[d] = cur[d]
    BY <1>1, <1>2 DEF OnTurn, OthersStay, OthersKept
  <2> QED BY <1>2, <2>1, <2>2, NoneAssumption DEF Turns, TurnOf, OwnInv
<1>4. ControlOf(c)'
  BY <1>1, <1>2 DEF ControlOf
<1>5. AtWork(c)' /\ AllSame
  BY <1>1, <1>2, SameFields DEF AtWork
<1>6. WorkOf(c, cur[c])'
  BY <1>1, <1>2 DEF WorkOf, Suits, Listed, Succeeding, Waiting, Failing, Gone, Allocating
<1>7. ~Listed(c) /\ (Succeeding(c) => Succeeding(c)')
  BY <1>2 DEF Listed, Succeeding
<1> QED BY <1>1, <1>2, <1>3, <1>4, <1>5, <1>6, <1>7, OwnMove

LEMMA OwnEnd ==
  ASSUME TypeInv, OwnInv, IdInv, NEW c \in Clients, End(c)
  PROVE  OwnInv'
<1>1. /\ OthersStay(c) /\ cur[c] \in Objects /\ WorkOf(c, cur[c]) /\ ControlOf(c)
      /\ UNCHANGED e2 /\ AtWork(c)
  BY WorkStart DEF End, Step, AtWork
<1>2. /\ pc[c] = "end" /\ pc'[c] = "outcome"
      /\ UNCHANGED <<register, node, cur, told, op, event, turn, releasing>>
  BY DEF End, Goto, TypeInv, TypeOK, GoTypes, xappVars, envVars, lockVars
<1>3. Turns'
  BY <1>1, <1>2, TurnsKept DEF OnTurn, OwnInv
<1>4. ControlOf(c)'
  BY <1>1, <1>2 DEF ControlOf
<1>5. AtWork(c)' /\ AllSame
  BY <1>1, <1>2, SameFields DEF AtWork, End, AddOngoing
<1>6. WorkOf(c, cur[c])'
  BY <1>1, <1>2, <1>5 DEF WorkOf, Suits, Listed, Succeeding, Waiting, Failing, Gone, Allocating,
                          AllSame, Same
<1>7. ~Listed(c) /\ (Succeeding(c) => Succeeding(c)')
  BY <1>2 DEF Listed, Succeeding
<1> QED BY <1>1, <1>2, <1>3, <1>4, <1>5, <1>6, <1>7, OwnMove

LEMMA OwnRemoveLock ==
  ASSUME TypeInv, OwnInv, IdInv, NEW c \in Clients, RemoveLock(c)
  PROVE  OwnInv'
<1>1. /\ OthersStay(c) /\ cur[c] \in Objects /\ WorkOf(c, cur[c]) /\ ControlOf(c)
      /\ UNCHANGED e2 /\ AtWork(c)
  BY WorkStart DEF RemoveLock, Step, AtWork
<1>2. /\ \/ pc[c] = "rm_lock" /\ pc'[c] = "rm_del"
         \/ pc[c] = "p_lock" /\ pc'[c] = "p_del"
      /\ UNCHANGED <<subs, register, node, cur, told, op, event, turn, releasing>>
  BY DEF RemoveLock, Goto, TypeInv, TypeOK, GoTypes, xappVars, regVars, envVars
<1>3. Turns'
  BY <1>1, <1>2, TurnsKept DEF OnTurn, OwnInv
<1>4. ControlOf(c)'
  BY <1>1, <1>2 DEF ControlOf
<1>5. AtWork(c)' /\ AllSame
  BY <1>1, <1>2, SameFields DEF AtWork
<1>6. WorkOf(c, cur[c])'
  BY <1>1, <1>2 DEF WorkOf, Suits, Listed, Succeeding, Waiting, Failing, Gone, Allocating
<1>7. (Listed(c) => Listed(c)') /\ ~Succeeding(c)
  BY <1>2 DEF Listed, Succeeding
<1> QED BY <1>1, <1>2, <1>3, <1>4, <1>5, <1>6, <1>7, OwnMove

\* A second RemoveFromSubscription finds nothing to remove, and the first one
\* always does.
LEMMA OwnNotFound ==
  ASSUME TypeInv, OwnInv, IdInv, NEW c \in Clients, RemoveEndpoint(c), pc[c] = "p_del"
  PROVE  OwnInv'
<1>1. /\ OthersStay(c) /\ cur[c] \in Objects /\ WorkOf(c, cur[c]) /\ ControlOf(c)
      /\ UNCHANGED e2 /\ AtWork(c)
  BY WorkStart DEF RemoveEndpoint, Step, AtWork
<1>2. ~DelStatus(cur[c], c) /\ Gone(c)
  BY <1>1 DEF WorkOf, Gone, DelStatus
<1>3. /\ pc'[c] = "done"
      /\ UNCHANGED <<subs, register, node, cur, told, op, event, turn, releasing>>
  BY <1>2 DEF RemoveEndpoint, Goto, TypeInv, TypeOK, GoTypes, xappVars, envVars
<1>4. Turns'
  BY <1>1, <1>3, TurnsKept DEF OnTurn, OwnInv
<1>5. ControlOf(c)'
  BY <1>1, <1>3 DEF ControlOf
<1>6. AtWork(c)' /\ AllSame
  BY <1>1, <1>3, SameFields DEF AtWork
<1>7. WorkOf(c, cur[c])'
  BY <1>1, <1>2, <1>3 DEF WorkOf, Suits, Listed, Succeeding, Waiting, Failing, Gone, Allocating
<1>8. ~Listed(c) /\ ~Succeeding(c)
  BY DEF Listed, Succeeding
<1> QED BY <1>1, <1>3, <1>4, <1>5, <1>6, <1>7, <1>8, OwnMove

LEMMA OwnMerged ==
  ASSUME TypeInv, OwnInv, IdInv, NEW c \in Clients, AssignInsert(c), UNCHANGED register,
         pc'[c] = "begin"
  PROVE  OwnInv'
<1>1. /\ OthersStay(c) /\ cur[c] \in Objects /\ WorkOf(c, cur[c]) /\ ControlOf(c)
      /\ UNCHANGED e2 /\ AtWork(c)
  BY WorkStart DEF AssignInsert, Step, AtWork
<1>2. /\ pc[c] = "insert"
      /\ UNCHANGED <<subs, node, cur, told, op, event, turn, releasing>>
  BY DEF AssignInsert, Return, Goto, TypeInv, TypeOK, GoTypes, xappVars, envVars
<1>3. Turns'
  BY <1>1, <1>2, TurnsKept DEF OnTurn, OwnInv
<1>4. ControlOf(c)'
  BY <1>1, <1>2 DEF ControlOf
<1>5. AtWork(c)' /\ AllSame /\ Listed(c)'
  BY <1>1, <1>2, SameFields DEF AtWork, Listed
<1>6. WorkOf(c, cur[c])'
  BY <1>1, <1>2 DEF WorkOf, Suits, Listed, Succeeding, Waiting, Failing, Gone, Allocating
<1> QED BY <1>1, <1>2, <1>3, <1>4, <1>5, <1>6, OwnMove

LEMMA OwnClean ==
  ASSUME TypeInv, OwnInv, IdInv, NEW c \in Clients, RemoveClean(c), UNCHANGED register
  PROVE  OwnInv'
<1>1. /\ OthersStay(c) /\ cur[c] \in Objects /\ WorkOf(c, cur[c]) /\ ControlOf(c)
      /\ UNCHANGED e2 /\ AtWork(c)
  BY WorkStart DEF RemoveClean, Step, AtWork
<1>2. /\ pc[c] = "rm_clean" /\ pc'[c] = "event"
      /\ UNCHANGED <<subs, node, cur, told, op, event, turn, releasing>>
  BY <1>1 DEF RemoveClean, Goto, TypeInv, TypeOK, GoTypes, xappVars, ControlOf
<1>3. Turns'
  BY <1>1, <1>2, TurnsKept DEF OnTurn, OwnInv
<1>4. ControlOf(c)'
  BY <1>1, <1>2 DEF ControlOf
<1>5. AtWork(c)' /\ AllSame
  BY <1>1, <1>2, SameFields DEF AtWork
<1>6. WorkOf(c, cur[c])'
  BY <1>1, <1>2 DEF WorkOf, Suits, Listed, Succeeding, Waiting, Failing, Gone, Allocating, ControlOf
<1>7. ~Listed(c) /\ ~Succeeding(c)
  BY <1>2 DEF Listed, Succeeding
<1> QED BY <1>1, <1>2, <1>3, <1>4, <1>5, <1>6, <1>7, OwnMove

-----------------------------------------------------------------------------
(* Steps that start and end a request, or look for its object *)

LEMMA OwnStart ==
  ASSUME TypeInv, OwnInv, IdInv, NEW c \in Clients, StartCreate(c)
  PROVE  OwnInv'
<1>1. OthersStay(c) /\ UNCHANGED <<e2, turn, releasing>>
  BY StayStart
<1>2. /\ pc[c] = "idle" /\ pc'[c] = "assign"
      /\ op'[c] \in {"create", "update"} /\ (op'[c] = "update" => c \in Policy)
      /\ UNCHANGED <<subs, register, node, cur, told, event>>
  BY DEF StartCreate, Goto, TypeInv, TypeOK, GoTypes, regVars, envVars
<1>3. AllSame
  BY <1>2 DEF AllSame, Same
<1>4. Turns'
  BY <1>1, <1>2, TurnsKept DEF OnTurn, OwnInv
<1>5. ControlOf(c)' /\ ~AtWork(c)'
  BY <1>2 DEF ControlOf, AtWork
<1>6. ToldOf(c)'
  BY <1>2 DEF ToldOf, Subscribed, Suits, OwnInv, Told
<1>7. \A o \in Objects : Owns(c, o) => Owns(c, o)'
  BY <1>2 DEF Owns, Listed, Succeeding
<1> QED BY <1>1, <1>2, <1>3, <1>4, <1>5, <1>6, <1>7, OwnPlain DEF AllSame

LEMMA OwnStartDelete ==
  ASSUME TypeInv, OwnInv, IdInv, NEW c \in Clients, NEW i \in Ids, StartDelete(c, i)
  PROVE  OwnInv'
<1>1. OthersStay(c) /\ UNCHANGED <<e2, turn, releasing>>
  BY StayStart
<1>2. i \in told[c]
  BY DEF StartDelete
<1>3. PICK s \in Objects : s = register[i]
  BY <1>2, ToldObject
<1>4. /\ pc[c] = "idle" /\ pc'[c] = "begin" /\ op'[c] = "delete" /\ cur'[c] = s
      /\ told'[c] = told[c] \ {i}
      /\ UNCHANGED <<subs, register, node, event>>
  BY <1>3, NoneAssumption DEF StartDelete, Goto, TypeInv, TypeOK, GoTypes, XappTypes, regVars, envVars
<1>5. AllSame
  BY <1>4 DEF AllSame, Same
<1>6. Turns'
  BY <1>1, <1>4, TurnsKept DEF OnTurn, OwnInv
<1>7. ControlOf(c)'
  BY <1>4 DEF ControlOf
<1>8. ToldOf(c)'
  BY <1>4 DEF ToldOf, Subscribed, Suits, OwnInv, Told
<1>9. subs[s].id = i /\ Suits(c, s) /\ Endpoint[c] \in subs[s].eps
  BY <1>2, <1>3, ToldObject
<1>10. WorkOf(c, s)'
  BY <1>4, <1>9 DEF WorkOf, Suits, Listed, Succeeding, Waiting, Failing, Gone, Allocating
<1>11. \A o \in Objects : Owns(c, o) => Owns(c, o)'
  <2>1. Listed(c)'
    BY <1>4 DEF Listed
  <2>2. ~Listed(c) /\ ~Succeeding(c)
    BY <1>4 DEF Listed, Succeeding
  <2> QED BY <1>3, <1>4, <1>9, <2>1, <2>2 DEF Owns
<1> QED BY <1>1, <1>4, <1>5, <1>6, <1>7, <1>8, <1>10, <1>11, OwnPlain DEF AllSame

\* A step of a request that neither was nor is at work.
LEMMA OwnSearch ==
  ASSUME TypeInv, OwnInv, IdInv, NEW c \in Clients, OthersStay(c),
         UNCHANGED <<register, node, e2, turn, releasing, told>>, AllSame,
         ~AtWork(c)', ~Listed(c), ~Succeeding(c), op'[c] = "update" => c \in Policy
  PROVE  OwnInv'
<1>1. Turns'
  BY TurnsKept DEF OnTurn, OwnInv, AtWork
<1>2. ControlOf(c)'
  BY DEF ControlOf, AtWork
<1>3. ToldOf(c)'
  <2>1. \A i \in told[c] : register[i] \in Objects /\ i \in node
    BY ToldObject
  <2>2. told'[c] = told[c] /\ ToldOf(c)
    BY DEF OwnInv, Told
  <2> QED BY <2>1, <2>2, ToldKept DEF SameFor, AllSame
<1>4. \A o \in Objects : Owns(c, o) => Owns(c, o)'
  BY DEF Owns, AllSame, Same
<1> QED BY <1>1, <1>2, <1>3, <1>4, OwnPlain DEF AllSame

LEMMA OwnAssign ==
  ASSUME TypeInv, OwnInv, IdInv, NEW c \in Clients, AssignLock(c)
  PROVE  OwnInv'
<1>1. OthersStay(c) /\ UNCHANGED e2
  BY StayStep DEF Step
<1>2. /\ pc[c] = "assign" /\ ~Listed(c) /\ ~Succeeding(c)
      /\ UNCHANGED <<subs, register, node, told, turn, releasing, event>>
  BY DEF AssignLock, Listed, Succeeding, regVars, xappVars, envVars
<1>3. AllSame
  BY <1>2 DEF AllSame, Same
<1>4. CASE pc'[c] = "find" /\ op'[c] = "create"
  BY <1>1, <1>2, <1>3, <1>4, OwnSearch DEF AtWork
<1>5. CASE \E i \in told[c] : /\ pc'[c] = "policy" /\ op[c] = "update" /\ op'[c] = "update"
                              /\ cur'[c] = register[i]
  <2>1. PICK i \in told[c] : /\ pc'[c] = "policy" /\ op[c] = "update" /\ op'[c] = "update"
                             /\ cur'[c] = register[i]
    BY <1>5
  <2>2. PICK s \in Objects : s = register[i]
    BY ToldObject
  <2>3. subs[s].id = i /\ Suits(c, s) /\ Endpoint[c] \in subs[s].eps /\ subs[s].valid
    BY <2>2, ToldObject
  <2>4. Turns'
    BY <1>1, <1>2, <2>1, TurnsKept DEF OnTurn, OwnInv
  <2>5. ControlOf(c)'
    BY <2>1 DEF ControlOf, OwnInv, Control
  <2>6. ToldOf(c)'
    BY <1>2 DEF ToldOf, Subscribed, Suits, OwnInv, Told
  <2>7. WorkOf(c, s)'
    BY <1>2, <2>1, <2>2, <2>3 DEF WorkOf, Suits, Listed, Succeeding, Waiting, Failing, Gone, Allocating
  <2>8. \A o \in Objects : Owns(c, o) => Owns(c, o)'
    BY <1>2 DEF Owns
  <2> QED BY <1>1, <1>2, <1>3, <2>1, <2>2, <2>4, <2>5, <2>6, <2>7, <2>8, OwnPlain DEF AllSame
<1> QED BY <1>4, <1>5 DEF AssignLock, Goto, TypeInv, TypeOK, GoTypes

LEMMA OwnNoMerge ==
  ASSUME TypeInv, LockInv, OwnInv, IdInv, NEW c \in Clients, FindExistingSubs(c), pc'[c] = "find"
  PROVE  OwnInv'
<1>1. OthersStay(c) /\ UNCHANGED e2
  BY StayStep DEF Step
<1>2. /\ pc[c] = "find" /\ ~Listed(c) /\ ~Succeeding(c) /\ ~AtWork(c)'
      /\ UNCHANGED <<register, node, told, turn, releasing, subs, op>>
  BY DEF FindExistingSubs, Goto, Listed, Succeeding, AtWork, regVars, xappVars, envVars,
         TypeInv, TypeOK, GoTypes
<1>3. AllSame
  BY <1>2 DEF AllSame, Same
<1> QED BY <1>1, <1>2, <1>3, OwnSearch DEF LockInv, FindCreates

LEMMA OwnRetry ==
  ASSUME TypeInv, LockInv, OwnInv, IdInv, NEW c \in Clients, FindExistingSubs(c), pc'[c] = "begin"
  PROVE  OwnInv'
<1>1. OthersStay(c) /\ UNCHANGED e2
  BY StayStep DEF Step
<1>2. PICK s \in Objects : s = cur[c]
  BY DEF FindExistingSubs, TypeInv, TypeOK, GoTypes
<1>3. /\ pc[c] = "find" /\ op'[c] = "retry" /\ cur'[c] = s
      /\ IsMergeable(s, c) /\ Endpoint[c] \in subs[s].eps
      /\ subs' = [subs EXCEPT ![s].retry = TRUE]
      /\ UNCHANGED <<register, node, told, turn, releasing, event>>
  BY <1>2 DEF FindExistingSubs, Goto, xappVars, envVars, TypeInv, TypeOK, GoTypes
<1>4. AllSame
  BY <1>3, SameFields
<1>5. Turns'
  BY <1>1, <1>3, TurnsKept DEF OnTurn, OwnInv
<1>6. ControlOf(c)'
  BY <1>3 DEF ControlOf
<1>7. ToldOf(c)'
  <2>1. \A i \in told[c] : register[i] \in Objects /\ i \in node
    BY ToldObject
  <2>2. told'[c] = told[c] /\ ToldOf(c)
    BY <1>3 DEF OwnInv, Told
  <2> QED BY <1>3, <1>4, <2>1, <2>2, ToldKept DEF SameFor, AllSame
<1>8. Suits(c, s) /\ subs[s].valid /\ ~subs[s].update
  BY <1>3 DEF IsMergeable, Suits, OwnInv, Answered, ObjectOf
<1>9. WorkOf(c, s)'
  BY <1>3, <1>4, <1>8 DEF WorkOf, Suits, Listed, Succeeding, Waiting, Failing, Gone, Allocating,
                          AllSame, Same
<1>10. \A o \in Objects : Owns(c, o) => Owns(c, o)'
  BY <1>3, <1>4 DEF Owns, Listed, Succeeding, AllSame, Same
<1> QED BY <1>1, <1>3, <1>4, <1>5, <1>6, <1>7, <1>9, <1>10, OwnPlain DEF AllSame

LEMMA OwnNoId ==
  ASSUME TypeInv, OwnInv, IdInv, NEW c \in Clients, AllocateSubs(c), Return(c), UNCHANGED subs
  PROVE  OwnInv'
<1>1. OthersStay(c) /\ UNCHANGED e2
  BY StayStep DEF Step
<1>2. /\ ~Listed(c) /\ ~Succeeding(c) /\ UNCHANGED <<register, node, told, turn, releasing>>
  BY DEF AllocateSubs, Listed, Succeeding, xappVars, envVars
<1>3. pc'[c] = "idle" /\ op'[c] = "create"
  BY DEF Return, Goto, TypeInv, TypeOK, GoTypes
<1>4. AllSame
  BY DEF AllSame, Same
<1> QED BY <1>1, <1>2, <1>3, <1>4, OwnSearch DEF AtWork

LEMMA OwnDone ==
  ASSUME TypeInv, OwnInv, IdInv, NEW c \in Clients, Done(c)
  PROVE  OwnInv'
<1>1. OthersStay(c) /\ UNCHANGED e2
  BY StayStep DEF Step
<1>2. /\ ~Listed(c) /\ ~Succeeding(c) /\ UNCHANGED <<subs, register, node, told, turn, releasing>>
  BY DEF Done, Listed, Succeeding, xappVars, regVars, lockVars
<1>3. pc'[c] = "idle" /\ op'[c] = "create"
  <2>1. op[c] # "delete" => event[c] # "resp"
    BY DEF Done, OwnInv, Control, ControlOf
  <2> QED BY <2>1 DEF Done, Return, Goto, TypeInv, TypeOK, GoTypes
<1>4. AllSame
  BY <1>2 DEF AllSame, Same
<1> QED BY <1>1, <1>2, <1>3, <1>4, OwnSearch DEF AtWork

\* The xApp is told of a success, of a failed update, or of a failure.
LEMMA OwnOutcome ==
  ASSUME Orderly, TypeInv, OwnInv, IdInv, NEW c \in Clients, Outcome(c)
  PROVE  OwnInv'
<1>1. /\ OthersStay(c) /\ cur[c] \in Objects /\ WorkOf(c, cur[c]) /\ ControlOf(c)
      /\ UNCHANGED e2 /\ AtWork(c) /\ e2 = "up" /\ subs[cur[c]].id \in Ids
  BY WorkStart DEF Outcome, Step, AtWork
<1>2. PICK s \in Objects : s = cur[c]
  BY <1>1
<1>3. /\ pc[c] = "outcome" /\ UNCHANGED <<subs, register, node, turn, releasing>>
      /\ told \in [Clients -> SUBSET Ids]
  BY DEF Outcome, regVars, lockVars, envVars, TypeInv, TypeOK, XappTypes
<1>4. AllSame /\ ~Listed(c)
  BY <1>3 DEF AllSame, Same, Listed
<1>5. CASE Succeeding(c)
  <2>1. /\ told'[c] = told[c] \cup {subs[s].id} /\ pc'[c] = "idle" /\ op'[c] = "create"
    BY <1>1, <1>2, <1>3, <1>5 DEF Outcome, Succeeding, IsE2ConnectionUp, Return, Goto, TypeInv, TypeOK, GoTypes
  <2>2. /\ Suits(c, s) /\ Endpoint[c] \in subs[s].eps /\ subs[s].valid
        /\ subs[s].answer = "resp" /\ subs[s].id \in node
    BY <1>1, <1>2, <1>5 DEF WorkOf
  <2>3. register[subs[s].id] = s
    BY <1>3, <2>2, Home DEF Allocating
  <2>4. ToldOf(c)'
    <3>1. ASSUME NEW i \in told'[c]
          PROVE  /\ Subscribed(c, i)' /\ Suits(c, register[i])'
                 /\ subs'[register'[i]].answer = "resp" \/ subs'[register'[i]].update
      <4>1. CASE i = subs[s].id
        BY <1>3, <2>2, <2>3, <4>1, NoneAssumption DEF Subscribed, Suits
      <4>2. CASE i \in told[c]
        BY <1>3, <4>2 DEF OwnInv, Told, ToldOf, Subscribed, Suits
      <4> QED BY <2>1, <4>1, <4>2
    <3> QED BY <3>1 DEF ToldOf
  <2>5. Turns'
    BY <1>1, <1>3, <2>1, TurnsKept DEF OnTurn, OwnInv
  <2>6. ControlOf(c)' /\ ~AtWork(c)'
    BY <2>1 DEF ControlOf, AtWork
  <2>7. \A o \in Objects : Owns(c, o) => Owns(c, o)'
    BY <1>2, <1>3, <1>4, <2>1, <2>3 DEF Owns
  <2> QED BY <1>1, <1>3, <1>4, <2>4, <2>5, <2>6, <2>7, OwnPlain DEF AllSame
<1>6. CASE ~Succeeding(c) /\ Return(c) /\ UNCHANGED told
  <2>1. pc'[c] = "idle" /\ op'[c] = "create"
    BY <1>6 DEF Return, Goto, TypeInv, TypeOK, GoTypes
  <2> QED BY <1>1, <1>3, <1>4, <1>6, <2>1, OwnSearch DEF AtWork
<1>7. CASE /\ ~Succeeding(c) /\ (op[c] = "delete" \/ ~subs[s].update)
           /\ told' = [told EXCEPT ![c] = @ \ {subs[s].id}]
           /\ Goto(c, "p_lock") /\ UNCHANGED <<op, cur, event>>
  <2>1. Gone(c) /\ Suits(c, s)
    BY <1>1, <1>2, <1>3, <1>7 DEF Gone, Succeeding, WorkOf
  <2>2. told' = told /\ subs[s].id \notin told[c] /\ Endpoint[c] \notin subs[s].eps
    <3>1. subs[s].id \notin told[c] /\ Endpoint[c] \notin subs[s].eps
      BY <1>1, <1>2, <2>1 DEF WorkOf
    <3> QED BY <1>3, <1>7, <3>1
  <2>3. pc'[c] = "p_lock"
    BY <1>7 DEF Goto, TypeInv, TypeOK, GoTypes
  <2>4. Turns'
    BY <1>1, <1>3, <2>3, TurnsKept DEF OnTurn, OwnInv
  <2>5. ControlOf(c)' /\ AtWork(c)'
    BY <1>1, <1>3, <1>7, <2>3 DEF ControlOf, AtWork, Succeeding
  <2>6. WorkOf(c, s)'
    BY <1>3, <1>7, <2>1, <2>2, <2>3 DEF WorkOf, Suits, Listed, Succeeding, Waiting, Failing, Gone, Allocating
  <2> QED BY <1>1, <1>2, <1>3, <1>4, <1>7, <2>2, <2>4, <2>5, <2>6, OwnMove
<1> QED BY <1>1, <1>2, <1>5, <1>6, <1>7 DEF Outcome, Succeeding, IsE2ConnectionUp

LEMMA OwnRelease ==
  ASSUME TypeInv, OwnInv, NEW s \in Objects, ReleaseTransactionTurn(s)
  PROVE  OwnInv'
<1>1. /\ s \in releasing /\ turn' = [turn EXCEPT ![s] = None] /\ releasing' = releasing \ {s}
      /\ UNCHANGED <<subs, register, node, pc, op, cur, event, told, e2>>
  BY DEF ReleaseTransactionTurn, regVars, goVars, xappVars, envVars, e2Vars
<1>2. Turns'
  <2>1. turn \in [Objects -> Clients \cup {None}]
    BY DEF TypeInv, TypeOK, LockTypes
  <2>2. \A c \in Clients : OnTurn(c) => cur[c] \in Objects
    BY AtObject DEF OnTurn, AtWork
  <2> QED BY <1>1, <2>1, <2>2 DEF Turns, TurnOf, OnTurn, OwnInv, TypeInv, TypeOK, LockTypes
<1>3. Control' /\ Told'
  BY <1>1 DEF OwnInv, Control, ControlOf, Told, ToldOf, Subscribed, Suits
<1>4. Working'
  BY <1>1 DEF OwnInv, Working, WorkOf, AtWork, Suits, Listed, Succeeding, Waiting, Failing, Gone, Allocating
<1>5. Answered' /\ Owned'
  BY <1>1 DEF OwnInv, Answered, ObjectOf, Registered, Owned, Owns, Listed, Succeeding
<1> QED BY <1>1, <1>2, <1>3, <1>4, <1>5 DEF OwnInv

-----------------------------------------------------------------------------
(* Steps that change one object *)

\* What the other clients and the other objects need of a step of c that
\* changes object s.
LEMMA OwnOne ==
  ASSUME TypeInv, OwnInv, IdInv, NEW c \in Clients, NEW s \in Objects, OthersStay(c),
         UNCHANGED <<register, e2>>, node \subseteq node',
         \A o \in Objects \ {s} : Same(o) /\ subs'[o].eps = subs[o].eps,
         subs'[s].id = subs[s].id,
         subs'[s].eps \subseteq subs[s].eps \cup {Endpoint[c]},
         Endpoint[c] \in subs'[s].eps \ subs[s].eps => Owns(c, s)',
         \A d \in Clients \ {c} : AtWork(d) /\ cur[d] = s => WorkOf(d, cur[d])',
         \A d \in Clients \ {c} : \A i \in told[d] :
           register[i] # s \/ (Same(s) /\ SameFor(d, s)),
         Turns', ControlOf(c)', ToldOf(c)', AtWork(c)' => WorkOf(c, cur[c])', ObjectOf(s)',
         \A o \in Objects : Endpoint[c] \in subs'[o].eps /\ Owns(c, o) => Owns(c, o)'
  PROVE  OwnInv'
<1>1. Control'
  BY OtherControl DEF OwnInv, Control
<1>2. ASSUME NEW d \in Clients \ {c} PROVE ToldOf(d)'
  <2>1. \A i \in told[d] : register[i] \in Objects /\ i \in node
    BY ToldObject
  <2>2. told'[d] = told[d] /\ ToldOf(d)
    BY DEF OthersStay, OwnInv, Told
  <2>3. \A i \in told[d] : Same(register[i]) /\ SameFor(d, register[i])
    BY <2>1 DEF SameFor
  <2> QED BY <2>1, <2>2, <2>3, ToldKept
<1>3. ASSUME NEW d \in Clients \ {c}, AtWork(d)' PROVE WorkOf(d, cur[d])'
  <2>1. AtWork(d)
    BY <1>3 DEF AtWork, OthersStay, OthersKept
  <2>2. WorkOf(d, cur[d]) /\ cur[d] \in Objects
    BY <2>1, AtObject DEF OwnInv, Working
  <2>3. Succeeding(d) => subs[cur[d]].id \in node'
    BY <2>2 DEF WorkOf
  <2>4. CASE cur[d] = s
    BY <2>1, <2>4
  <2>5. CASE cur[d] # s
    BY <2>2, <2>3, <2>5, OtherWork DEF SameFor
  <2> QED BY <2>4, <2>5
<1>4. Answered'
  <2>1. Registered' = Registered
    BY DEF Registered
  <2>2. ASSUME NEW o \in Objects \ {s} PROVE ObjectOf(o)'
    BY <2>1 DEF OwnInv, Answered, ObjectOf, Same
  <2> QED BY <2>2 DEF Answered
<1>5. Owned'
  <2>1. \A o \in Objects : \A d \in Clients \ {c} : Owns(d, o) => Owns(d, o)'
    BY OtherOwns DEF Same
  <2>2. \A o \in Objects : \A e \in subs'[o].eps :
          e \in subs[o].eps \/ (e = Endpoint[c] /\ Owns(c, o)')
    OBVIOUS
  <2> QED BY <2>1, <2>2, OwnedKept
<1>6. Told'
  BY <1>2 DEF Told
<1>7. Working'
  BY <1>3 DEF Working
<1> QED BY <1>1, <1>4, <1>5, <1>6, <1>7 DEF OwnInv

\* A step that only changes the list of the object, by the endpoint of c.
LEMMA ListChange ==
  ASSUME Orderly, NEW c \in Clients, OthersStay(c), NEW s \in Objects, Suits(c, s), Same(s),
         \/ subs'[s].eps = subs[s].eps \ {Endpoint[c]}
         \/ subs'[s].eps = subs[s].eps \cup {Endpoint[c]},
         OwnInv, node \subseteq node', NEW d \in Clients \ {c}
  PROVE  /\ SameFor(d, s)
         /\ AtWork(d) /\ cur[d] = s => WorkOf(d, cur[d])'
<1>1. SameFor(d, s)
  BY Apart DEF SameFor
<1>2. ASSUME AtWork(d), cur[d] = s PROVE WorkOf(d, cur[d])'
  <2>1. WorkOf(d, cur[d])
    BY <1>2 DEF OwnInv, Working
  <2>2. Succeeding(d) => subs[cur[d]].id \in node'
    BY <2>1 DEF WorkOf
  <2> QED BY <1>1, <1>2, <2>1, <2>2, OtherWork
<1> QED BY <1>1, <1>2

\* A client that is alone in the list of its object: no other one is listed.
LEMMA Alone ==
  ASSUME Orderly, OwnInv, TypeInv, IdInv, NEW c \in Clients, NEW s \in Objects, Suits(c, s),
         \A e \in subs[s].eps : e = Endpoint[c], NEW d \in Clients \ {c}
  PROVE  /\ AtWork(d) /\ cur[d] = s => Suits(d, s) /\ ~Listed(d) /\ ~Succeeding(d)
         /\ \A i \in told[d] : register[i] # s
<1>1. ASSUME AtWork(d), cur[d] = s PROVE Suits(d, s) /\ ~Listed(d) /\ ~Succeeding(d)
  BY <1>1, Apart DEF OwnInv, Working, WorkOf
<1>2. ASSUME NEW i \in told[d], register[i] = s PROVE FALSE
  <2>1. Suits(d, s) /\ Endpoint[d] \in subs[s].eps
    BY <1>2, ToldObject
  <2> QED BY <2>1, Apart
<1> QED BY <1>1, <1>2

LEMMA SameEps ==
  ASSUME TypeInv, NEW s \in Objects, NEW E, subs' = [subs EXCEPT ![s].eps = E]
  PROVE  /\ subs'[s].eps = E /\ \A o \in Objects : Same(o)
         /\ \A o \in Objects \ {s} : subs'[o].eps = subs[o].eps
BY DEF TypeInv, TypeOK, RegTypes, Subscription, Same

LEMMA OwnMerge ==
  ASSUME Orderly, TypeInv, LockInv, OwnInv, IdInv, NEW c \in Clients, FindExistingSubs(c),
         pc'[c] = "merge"
  PROVE  OwnInv'
<1>1. OthersStay(c) /\ UNCHANGED e2
  BY StayStep DEF Step
<1>2. PICK s \in Objects : s = cur[c]
  BY DEF FindExistingSubs, TypeInv, TypeOK, GoTypes
<1>3. /\ pc[c] = "find" /\ op'[c] = "merge" /\ cur'[c] = s
      /\ IsMergeable(s, c) /\ Endpoint[c] \notin subs[s].eps
      /\ subs' = [subs EXCEPT ![s].eps = @ \cup {Endpoint[c]}]
      /\ UNCHANGED <<register, node, told, turn, releasing, event>>
  BY <1>2 DEF FindExistingSubs, Goto, xappVars, envVars, TypeInv, TypeOK, GoTypes
<1>4. /\ \A o \in Objects : Same(o)
      /\ subs'[s].eps = subs[s].eps \cup {Endpoint[c]}
      /\ \A o \in Objects \ {s} : subs'[o].eps = subs[o].eps
  BY <1>3, SameEps
<1>5. Suits(c, s) /\ subs[s].valid /\ ~subs[s].update /\ ~subs[s].policy
  BY <1>3 DEF IsMergeable, Suits, OwnInv, Answered, ObjectOf
<1>6. \A i \in told[c] : register[i] # s
  BY <1>3, ToldObject
<1>7. Turns'
  BY <1>1, <1>3, TurnsKept DEF OnTurn, OwnInv
<1>8. ControlOf(c)'
  BY <1>3 DEF ControlOf
<1>9. ToldOf(c)'
  <2>1. \A i \in told[c] : register[i] \in Objects /\ i \in node
    BY ToldObject
  <2>2. told'[c] = told[c] /\ ToldOf(c)
    BY <1>3 DEF OwnInv, Told
  <2> QED BY <1>3, <1>4, <1>6, <2>1, <2>2, ToldKept DEF SameFor
<1>10. subs[s].id \notin told[c]
  <2>1. s \in Registered
    BY <1>2, <1>3, NoneAssumption DEF IdInv, FoundRegistered
  <2> QED BY <1>6, <2>1 DEF IdInv, RegisteredIds, Registered
<1>11. WorkOf(c, s)'
  BY <1>3, <1>4, <1>5, <1>10 DEF WorkOf, Suits, Listed, Succeeding, Waiting, Failing, Gone,
                                 Allocating, Same
<1>12. ObjectOf(s)'
  BY <1>3, <1>4, <1>5 DEF OwnInv, Answered, ObjectOf, Same, Registered
<1>13. Owns(c, s)' /\ \A o \in Objects : Owns(c, o) => Owns(c, o)'
  BY <1>3, <1>4 DEF Owns, Listed, Succeeding, Same
<1>14. \A d \in Clients \ {c} : SameFor(d, s) /\ (AtWork(d) /\ cur[d] = s => WorkOf(d, cur[d])')
  BY <1>1, <1>3, <1>4, <1>5, ListChange
<1> QED BY <1>1, <1>3, <1>4, <1>7, <1>8, <1>9, <1>11, <1>12, <1>13, <1>14, OwnOne

\* The route of a new or a merged request was refused.
LEMMA OwnRollBack ==
  ASSUME Orderly, TypeInv, LockInv, OwnInv, IdInv, NEW c \in Clients, AssignInsert(c),
         event[c] = "error"
  PROVE  OwnInv'
<1>1. /\ OthersStay(c) /\ cur[c] \in Objects /\ WorkOf(c, cur[c])
      /\ UNCHANGED e2 /\ AtWork(c)
  BY WorkStart DEF AssignInsert, Step, AtWork
<1>2. PICK s \in Objects : s = cur[c]
  BY <1>1
<1>3. /\ pc[c] = "insert" /\ pc'[c] = "idle" /\ op'[c] = "create"
      /\ subs' = [subs EXCEPT ![s].eps = @ \ {Endpoint[c]}]
      /\ UNCHANGED <<register, node, told, turn, releasing>>
  BY <1>2 DEF AssignInsert, RollBack, Return, Goto, TypeInv, TypeOK, GoTypes, xappVars, envVars
<1>4. /\ \A o \in Objects : Same(o)
      /\ subs'[s].eps = subs[s].eps \ {Endpoint[c]}
      /\ \A o \in Objects \ {s} : subs'[o].eps = subs[o].eps
  BY <1>3, SameEps
<1>5. Suits(c, s) /\ subs[s].id \notin told[c]
  BY <1>1, <1>2, <1>3 DEF WorkOf
<1>6. Turns'
  BY <1>1, <1>3, TurnsKept DEF OnTurn, OwnInv
<1>7. ControlOf(c)' /\ ~AtWork(c)'
  BY <1>3 DEF ControlOf, AtWork
<1>8. ToldOf(c)'
  <2>1. \A i \in told[c] : register[i] \in Objects \ {s} /\ i \in node
    BY <1>5, ToldObject
  <2>2. told'[c] = told[c] /\ ToldOf(c)
    BY <1>3 DEF OwnInv, Told
  <2> QED BY <1>3, <1>4, <2>1, <2>2, ToldKept DEF SameFor
<1>9. ObjectOf(s)'
  BY <1>3, <1>4 DEF OwnInv, Answered, ObjectOf, Same, Registered
<1>10. \A o \in Objects : Endpoint[c] \in subs'[o].eps /\ Owns(c, o) => Owns(c, o)'
  BY <1>2, <1>3, <1>4 DEF Owns, Same
<1>11. \A d \in Clients \ {c} : SameFor(d, s) /\ (AtWork(d) /\ cur[d] = s => WorkOf(d, cur[d])')
  BY <1>1, <1>3, <1>4, <1>5, ListChange
<1> QED BY <1>1, <1>3, <1>4, <1>6, <1>7, <1>8, <1>9, <1>10, <1>11, OwnOne

\* A delete, or a request that failed, leaves the list of its object.
LEMMA OwnRemove ==
  ASSUME Orderly, TypeInv, LockInv, OwnInv, IdInv, NEW c \in Clients, RemoveEndpoint(c),
         pc[c] = "rm_del"
  PROVE  OwnInv'
<1>1. /\ OthersStay(c) /\ cur[c] \in Objects /\ WorkOf(c, cur[c]) /\ ControlOf(c)
      /\ UNCHANGED e2 /\ AtWork(c)
  BY WorkStart DEF RemoveEndpoint, Step, AtWork
<1>2. PICK s \in Objects : s = cur[c]
  BY <1>1
<1>3. Suits(c, s) /\ Endpoint[c] \in subs[s].eps
  BY <1>1, <1>2 DEF WorkOf, Listed
<1>4. /\ pc'[c] = "rm_clean" /\ subs' = [subs EXCEPT ![s].eps = @ \ {Endpoint[c]}]
      /\ UNCHANGED <<register, node, told, turn, releasing, op, cur, event>>
  BY <1>2, <1>3 DEF RemoveEndpoint, DelStatus, Goto, TypeInv, TypeOK, GoTypes, xappVars, envVars
<1>5. /\ \A o \in Objects : Same(o)
      /\ subs'[s].eps = subs[s].eps \ {Endpoint[c]}
      /\ \A o \in Objects \ {s} : subs'[o].eps = subs[o].eps
  BY <1>4, SameEps
<1>6. subs[s].id \notin told[c]
  <2>1. CASE op[c] = "delete"
    BY <1>1, <1>2, <2>1 DEF WorkOf
  <2>2. CASE op[c] # "delete"
    <3>1. ~subs[s].valid
      BY <1>1, <1>2, <2>2 DEF WorkOf, Failing
    <3>2. register[subs[s].id] = s
      BY <1>3, Home DEF Allocating
    <3> QED BY <3>1, <3>2, ToldObject
  <2> QED BY <2>1, <2>2
<1>7. Turns'
  BY <1>1, <1>4, TurnsKept DEF OnTurn, OwnInv
<1>8. ControlOf(c)'
  BY <1>1, <1>4 DEF ControlOf
<1>9. ToldOf(c)'
  <2>1. \A i \in told[c] : register[i] \in Objects \ {s} /\ i \in node
    BY <1>6, ToldObject
  <2>2. told'[c] = told[c] /\ ToldOf(c)
    BY <1>4 DEF OwnInv, Told
  <2> QED BY <1>4, <1>5, <2>1, <2>2, ToldKept DEF SameFor
<1>10. WorkOf(c, s)'
  BY <1>3, <1>4, <1>5, <1>6 DEF WorkOf, Suits, Listed, Succeeding, Waiting, Failing, Gone,
                                Allocating, Same
<1>11. ObjectOf(s)'
  BY <1>4, <1>5 DEF OwnInv, Answered, ObjectOf, Same, Registered
<1>12. \A o \in Objects : Endpoint[c] \in subs'[o].eps /\ Owns(c, o) => Owns(c, o)'
  BY <1>2, <1>4, <1>5 DEF Owns, Same
<1>13. \A d \in Clients \ {c} : SameFor(d, s) /\ (AtWork(d) /\ cur[d] = s => WorkOf(d, cur[d])')
  BY <1>1, <1>3, <1>4, <1>5, ListChange
<1> QED BY <1>1, <1>2, <1>4, <1>5, <1>7, <1>8, <1>9, <1>10, <1>11, <1>12, <1>13, OwnOne

\* A client that is neither listed nor about to be told needs little of its
\* object.
LEMMA UnlistedWork ==
  ASSUME NEW c \in Clients, OthersStay(c), NEW d \in Clients \ {c}, AtWork(d),
         WorkOf(d, cur[d]), ~Listed(d), ~Succeeding(d),
         subs'[cur[d]].id = subs[cur[d]].id,
         subs'[cur[d]].content = subs[cur[d]].content,
         subs'[cur[d]].policy = subs[cur[d]].policy,
         subs'[cur[d]].eps = subs[cur[d]].eps,
         subs[cur[d]].update => subs'[cur[d]].update
  PROVE  WorkOf(d, cur[d])'
<1>1. /\ pc'[d] = pc[d] /\ cur'[d] = cur[d] /\ op'[d] = op[d] /\ event'[d] = event[d]
      /\ told'[d] = told[d]
  BY DEF OthersStay, OthersKept
<1>2. /\ ~Listed(d)' /\ ~Waiting(d)' /\ ~Succeeding(d)' /\ ~Failing(d)' /\ (Gone(d)' => Gone(d))
      /\ d \notin Allocating'
      /\ pc'[d] \notin {"e2req", "e2wait", "db_write", "merge", "route", "insert", "policy"}
  BY <1>1 DEF Listed, Waiting, Succeeding, Failing, Gone, Allocating
<1> QED BY <1>1, <1>2 DEF WorkOf, Suits

LEMMA OwnLast ==
  ASSUME Orderly, TypeInv, LockInv, OwnInv, IdInv, NEW c \in Clients, CheckLastEndpoint(c),
         subs[cur[c]].eps = {Endpoint[c]}, pc'[c] = "d_e2"
  PROVE  OwnInv'
<1>1. /\ OthersStay(c) /\ cur[c] \in Objects /\ WorkOf(c, cur[c]) /\ ControlOf(c)
      /\ UNCHANGED e2 /\ AtWork(c)
  BY WorkStart DEF CheckLastEndpoint, Step, AtWork
<1>2. PICK s \in Objects : s = cur[c]
  BY <1>1
<1>3. /\ pc[c] = "d_check" /\ subs' = [subs EXCEPT ![s].valid = FALSE]
      /\ UNCHANGED <<register, node, told, turn, releasing, op, cur, event>>
  BY <1>2 DEF CheckLastEndpoint, Goto, TypeInv, TypeOK, GoTypes, xappVars, envVars, lockVars
<1>4. /\ ~subs'[s].valid
      /\ subs'[s].id = subs[s].id /\ subs'[s].content = subs[s].content
      /\ subs'[s].policy = subs[s].policy /\ subs'[s].eps = subs[s].eps
      /\ subs'[s].update = subs[s].update
      /\ \A o \in Objects \ {s} : Same(o) /\ subs'[o].eps = subs[o].eps
  BY <1>3 DEF TypeInv, TypeOK, RegTypes, Subscription, Same
<1>5. Suits(c, s) /\ Endpoint[c] \in subs[s].eps /\ subs[s].id \notin told[c] /\ op[c] = "delete"
  BY <1>1, <1>2, <1>3 DEF WorkOf, Listed, ControlOf
<1>6. Turns'
  BY <1>1, <1>3, TurnsKept DEF OnTurn, OwnInv
<1>7. ControlOf(c)'
  BY <1>3, <1>5 DEF ControlOf
<1>8. ToldOf(c)'
  <2>1. \A i \in told[c] : register[i] \in Objects \ {s} /\ i \in node
    BY <1>5, ToldObject
  <2>2. told'[c] = told[c] /\ ToldOf(c)
    BY <1>3 DEF OwnInv, Told
  <2> QED BY <1>3, <1>4, <2>1, <2>2, ToldKept DEF SameFor
<1>9. WorkOf(c, s)'
  BY <1>3, <1>4, <1>5 DEF WorkOf, Suits, Listed, Succeeding, Waiting, Failing, Gone, Allocating
<1>10. ObjectOf(s)'
  BY <1>3, <1>4 DEF OwnInv, Answered, ObjectOf
<1>11. \A o \in Objects : Owns(c, o) => Owns(c, o)'
  BY <1>3, <1>4 DEF Owns, Same, Listed, Succeeding
<1>12. ASSUME NEW d \in Clients \ {c}
       PROVE  /\ AtWork(d) /\ cur[d] = s => WorkOf(d, cur[d])'
              /\ \A i \in told[d] : register[i] # s
  <2>1. /\ AtWork(d) /\ cur[d] = s => ~Listed(d) /\ ~Succeeding(d)
        /\ \A i \in told[d] : register[i] # s
    BY <1>2, <1>5, Alone
  <2>2. AtWork(d) => WorkOf(d, cur[d])
    BY DEF OwnInv, Working
  <2> QED BY <1>1, <1>4, <2>1, <2>2, UnlistedWork
<1> QED BY <1>1, <1>2, <1>3, <1>4, <1>6, <1>7, <1>8, <1>9, <1>10, <1>11, <1>12, OwnOne

\* The object s has a new answer, and is valid or not.
NewAnswer(s, a, v) ==
  /\ subs'[s].answer = a /\ (subs'[s].valid <=> v)
  /\ subs'[s].id = subs[s].id /\ subs'[s].content = subs[s].content
  /\ subs'[s].policy = subs[s].policy /\ subs'[s].eps = subs[s].eps
  /\ \A o \in Objects \ {s} : Same(o) /\ subs'[o].eps = subs[o].eps

LEMMA AnswerFields ==
  ASSUME NEW r \in Subscription, NEW a \in Answers, NEW v \in BOOLEAN
  PROVE  LET q == [r EXCEPT !.answer = a, !.valid = v]
         IN  /\ q.answer = a /\ q.valid = v /\ q.id = r.id /\ q.content = r.content
             /\ q.policy = r.policy /\ q.eps = r.eps /\ q.update = r.update
BY DEF Subscription

LEMMA PolicyFields ==
  ASSUME NEW r \in Subscription
  PROVE  LET q == [r EXCEPT !.update = TRUE, !.answer = "nil", !.valid = TRUE]
         IN  /\ q.answer = "nil" /\ q.valid = TRUE /\ q.id = r.id /\ q.content = r.content
             /\ q.policy = r.policy /\ q.eps = r.eps /\ q.update = TRUE
BY DEF Subscription

LEMMA SetCached ==
  ASSUME TypeInv, NEW s \in Objects, NEW a \in Answers, NEW v \in BOOLEAN,
         subs' = SetCachedResponse(s, a, v)
  PROVE  NewAnswer(s, a, v) /\ subs'[s].update = subs[s].update
<1>1. PICK r \in Subscription : r = subs[s]
  BY DEF TypeInv, TypeOK, RegTypes
<1>2. PICK q : q = [r EXCEPT !.answer = a, !.valid = v]
  OBVIOUS
<1>3. subs' = [subs EXCEPT ![s] = q] /\ subs \in [Objects -> Subscription]
  BY <1>1, <1>2 DEF SetCachedResponse, TypeInv, TypeOK, RegTypes
<1>4. /\ q.answer = a /\ q.valid = v /\ q.id = r.id /\ q.content = r.content
      /\ q.policy = r.policy /\ q.eps = r.eps /\ q.update = r.update
  BY <1>2, AnswerFields
<1>5. subs'[s] = q /\ \A o \in Objects \ {s} : subs'[o] = subs[o]
  BY <1>3
<1>6. \A o \in Objects \ {s} : Same(o) /\ subs'[o].eps = subs[o].eps
  BY <1>5 DEF Same
<1> QED BY <1>1, <1>4, <1>5, <1>6 DEF NewAnswer

LEMMA ResetPolicy ==
  ASSUME TypeInv, NEW c \in Clients, AssignPolicy(c), NEW s \in Objects, s = cur[c]
  PROVE  NewAnswer(s, "nil", TRUE) /\ subs'[s].update
<1>1. PICK r \in Subscription : r = subs[s]
  BY DEF TypeInv, TypeOK, RegTypes
<1>2. PICK q : q = [r EXCEPT !.update = TRUE, !.answer = "nil", !.valid = TRUE]
  OBVIOUS
<1>3. subs' = [subs EXCEPT ![s] = q] /\ subs \in [Objects -> Subscription] /\ "nil" \in Answers
  BY <1>1, <1>2 DEF AssignPolicy, TypeInv, TypeOK, RegTypes, Answers
<1>4. /\ q.answer = "nil" /\ q.valid = TRUE /\ q.id = r.id /\ q.content = r.content
      /\ q.policy = r.policy /\ q.eps = r.eps /\ q.update = TRUE
  BY <1>2, PolicyFields
<1>5. subs'[s] = q /\ \A o \in Objects \ {s} : subs'[o] = subs[o]
  BY <1>3
<1>6. \A o \in Objects \ {s} : Same(o) /\ subs'[o].eps = subs[o].eps
  BY <1>5 DEF Same
<1> QED BY <1>1, <1>4, <1>5, <1>6 DEF NewAnswer

LEMMA OwnPolicy ==
  ASSUME Orderly, TypeInv, LockInv, OwnInv, IdInv, NEW c \in Clients, AssignPolicy(c)
  PROVE  OwnInv'
<1>1. /\ OthersStay(c) /\ cur[c] \in Objects /\ WorkOf(c, cur[c]) /\ ControlOf(c)
      /\ UNCHANGED e2 /\ AtWork(c)
  BY WorkStart DEF AssignPolicy, Step, AtWork
<1>2. PICK s \in Objects : s = cur[c]
  BY <1>1
<1>3. /\ pc[c] = "policy" /\ pc'[c] = "begin"
      /\ UNCHANGED <<register, node, told, turn, releasing, op, cur, event>>
  BY <1>2 DEF AssignPolicy, Goto, TypeInv, TypeOK, GoTypes, xappVars, envVars
<1>4. NewAnswer(s, "nil", TRUE) /\ subs'[s].update
  BY <1>2, ResetPolicy
<1>5. /\ Suits(c, s) /\ Endpoint[c] \in subs[s].eps /\ subs[s].id \in told[c] /\ op[c] = "update"
      /\ subs[s].policy
  BY <1>1, <1>2, <1>3 DEF WorkOf, Listed, ControlOf, Suits
<1>6. \A e \in subs[s].eps : e = Endpoint[c]
  BY <1>5 DEF OwnInv, Answered, ObjectOf
<1>7. Turns'
  BY <1>1, <1>3, TurnsKept DEF OnTurn, OwnInv
<1>8. ControlOf(c)'
  BY <1>1, <1>3, <1>5 DEF ControlOf
<1>9. ToldOf(c)'
  <2>1. ASSUME NEW i \in told[c]
        PROVE  /\ Subscribed(c, i)' /\ Suits(c, register[i])'
               /\ subs'[register'[i]].answer = "resp" \/ subs'[register'[i]].update
    <3>1. /\ register[i] \in Objects /\ Suits(c, register[i]) /\ i \in node /\ i \in Ids
          /\ Endpoint[c] \in subs[register[i]].eps /\ subs[register[i]].valid
      BY ToldObject
    <3>2. subs[register[i]].answer = "resp" \/ subs[register[i]].update
      BY DEF OwnInv, Told, ToldOf
    <3>3. CASE register[i] = s
      BY <1>3, <1>4, <3>1, <3>3, NoneAssumption DEF NewAnswer, Subscribed, Suits
    <3>4. CASE register[i] # s
      BY <1>3, <1>4, <3>1, <3>2, <3>4, NoneAssumption DEF NewAnswer, Same, Subscribed, Suits
    <3> QED BY <3>3, <3>4
  <2> QED BY <1>3, <2>1 DEF ToldOf
<1>10. WorkOf(c, s)'
  BY <1>3, <1>4, <1>5 DEF WorkOf, Suits, Listed, Succeeding, Waiting, Failing, Gone, Allocating, NewAnswer
<1>11. ObjectOf(s)'
  BY <1>3, <1>4, <1>5, <1>6 DEF ObjectOf, NewAnswer
<1>12. \A o \in Objects : Owns(c, o) => Owns(c, o)'
  BY <1>3, <1>4 DEF Owns, Same, Listed, Succeeding, NewAnswer
<1>13. ASSUME NEW d \in Clients \ {c}
       PROVE  /\ AtWork(d) /\ cur[d] = s => WorkOf(d, cur[d])'
              /\ \A i \in told[d] : register[i] # s
  <2>1. /\ AtWork(d) /\ cur[d] = s => ~Listed(d) /\ ~Succeeding(d)
        /\ \A i \in told[d] : register[i] # s
    BY <1>2, <1>5, <1>6, Alone
  <2>2. AtWork(d) => WorkOf(d, cur[d])
    BY DEF OwnInv, Working
  <2> QED BY <1>1, <1>4, <2>1, <2>2, UnlistedWork DEF NewAnswer
<1>14. /\ subs'[s].id = subs[s].id /\ subs'[s].eps = subs[s].eps
       /\ \A o \in Objects \ {s} : Same(o) /\ subs'[o].eps = subs[o].eps
  BY <1>4 DEF NewAnswer
<1> QED BY <1>1, <1>2, <1>3, <1>7, <1>8, <1>9, <1>10, <1>11, <1>12, <1>13, <1>14, OwnOne

\* The turn keeps the others off the object while its answer is settled.
LEMMA OffTurnWork ==
  ASSUME TypeInv, LockInv, OwnInv, NEW c \in Clients, OthersStay(c), NEW d \in Clients \ {c},
         AtWork(d), cur[d] = cur[c], TurnOf(c), OnTurn(c), smutex[cur[c]] = None,
         subs[cur[c]].answer = "nil", subs'[cur[c]].update = subs[cur[c]].update,
         NEW a, NEW v \in BOOLEAN, NewAnswer(cur[c], a, v), a = "resp" => v
  PROVE  WorkOf(d, cur[d])'
<1>1. /\ pc'[d] = pc[d] /\ cur'[d] = cur[d] /\ op'[d] = op[d] /\ event'[d] = event[d]
      /\ told'[d] = told[d]
  BY DEF OthersStay, OthersKept
<1>2. WorkOf(d, cur[d]) /\ ~Succeeding(d)
  BY DEF OwnInv, Working, WorkOf
<1>3. ~OnTurn(d)
  BY DEF OwnInv, Turns, TurnOf
<1>4. d \notin Allocating
  BY NoneAssumption DEF LockInv, ObjectHeld, InObject, Allocating
<1>5. /\ Listed(d)' = Listed(d) /\ Waiting(d)' = Waiting(d) /\ ~Succeeding(d)' /\ ~Failing(d)'
      /\ Gone(d)' = Gone(d) /\ d \notin Allocating'
      /\ pc[d] \notin {"e2req", "e2wait", "db_write"}
  BY <1>1, <1>2, <1>3, <1>4 DEF Listed, Waiting, Succeeding, Failing, Gone, Allocating, OnTurn, NewAnswer
<1> QED BY <1>1, <1>2, <1>5 DEF WorkOf, Suits, NewAnswer

LEMMA OwnAnswer ==
  ASSUME Orderly, TypeInv, LockInv, OwnInv, IdInv, NEW c \in Clients, OthersStay(c),
         UNCHANGED <<register, e2, told, turn, releasing, op, cur>>, node \subseteq node',
         pc[c] \in {"e2req", "e2wait"}, smutex[cur[c]] = None,
         NEW a \in Answers, NEW v \in BOOLEAN, NewAnswer(cur[c], a, v),
         subs'[cur[c]].update = subs[cur[c]].update,
         a = "resp" => v /\ subs[cur[c]].id \in node',
         subs[cur[c]].update => v, v => a = "resp" \/ subs[cur[c]].update,
         event'[c] = a, pc'[c] \in {"db_write", "db_remove", "e2del"}, pc'[c] = "db_write" <=> v
  PROVE  OwnInv'
<1>1. AtWork(c) /\ OnTurn(c) /\ Listed(c)
  BY DEF AtWork, OnTurn, Listed
<1>2. cur[c] \in Objects /\ WorkOf(c, cur[c]) /\ ControlOf(c) /\ TurnOf(c)
  BY <1>1, AtObject DEF OwnInv, Working, Control, Turns
<1>3. PICK s \in Objects : s = cur[c]
  BY <1>2
<1>4. /\ Suits(c, s) /\ Endpoint[c] \in subs[s].eps /\ subs[s].answer = "nil" /\ op[c] # "delete"
      /\ subs[s].update => subs[s].id \in told[c]
  BY <1>1, <1>2, <1>3 DEF WorkOf, ControlOf
<1>5. register[subs[s].id] = s
  BY <1>4, Home DEF Allocating
<1>6. Turns'
  BY <1>1, TurnsKept DEF OwnInv
<1>7. ControlOf(c)'
  BY <1>2, <1>4 DEF ControlOf
<1>8. ToldOf(c)'
  <2>1. ASSUME NEW i \in told[c]
        PROVE  /\ Subscribed(c, i)' /\ Suits(c, register[i])'
               /\ subs'[register'[i]].answer = "resp" \/ subs'[register'[i]].update
    <3>1. /\ register[i] \in Objects /\ Suits(c, register[i]) /\ i \in node
          /\ Endpoint[c] \in subs[register[i]].eps /\ subs[register[i]].valid
      BY ToldObject
    <3>2. subs[register[i]].answer = "resp" \/ subs[register[i]].update
      BY DEF OwnInv, Told, ToldOf
    <3>3. CASE register[i] = s
      BY <1>3, <1>4, <3>1, <3>2, <3>3, NoneAssumption DEF NewAnswer, Subscribed, Suits
    <3>4. CASE register[i] # s
      BY <1>3, <3>1, <3>2, <3>4, NoneAssumption DEF NewAnswer, Same, Subscribed, Suits
    <3> QED BY <3>3, <3>4
  <2> QED BY <2>1 DEF ToldOf
<1>9. AtWork(c)' /\ Listed(c)' /\ ~Waiting(c)' /\ ~Gone(c)' /\ c \notin Allocating'
      /\ (Succeeding(c)' => a = "resp") /\ (Failing(c)' => ~v)
  BY DEF AtWork, Listed, Waiting, Gone, Allocating, Succeeding, Failing
<1>10. WorkOf(c, s)'
  BY <1>3, <1>4, <1>9 DEF WorkOf, Suits, NewAnswer
<1>11. ObjectOf(s)'
  <2>1. ObjectOf(s)
    BY DEF OwnInv, Answered
  <2> QED BY <1>3, <2>1 DEF ObjectOf, NewAnswer
<1>12. \A o \in Objects : Owns(c, o) => Owns(c, o)'
  BY <1>3, <1>9 DEF Owns, Same, NewAnswer
<1>13. ASSUME NEW d \in Clients \ {c}
       PROVE  /\ AtWork(d) /\ cur[d] = s => WorkOf(d, cur[d])'
              /\ \A i \in told[d] : register[i] # s
  <2>1. AtWork(d) /\ cur[d] = s => WorkOf(d, cur[d])'
    BY <1>1, <1>2, <1>3, <1>4, OffTurnWork
  <2>2. ASSUME NEW i \in told[d], register[i] = s PROVE FALSE
    <3>1. Suits(d, s) /\ Endpoint[d] \in subs[s].eps
      BY <2>2, ToldObject
    <3>2. subs[s].policy
      BY <1>4, <2>2 DEF OwnInv, Told, ToldOf, Answered, ObjectOf
    <3>3. Endpoint[d] = Endpoint[c]
      BY <1>4, <3>1, <3>2 DEF OwnInv, Answered, ObjectOf
    <3> QED BY <1>4, <3>1, <3>3, Apart
  <2> QED BY <2>1, <2>2
<1>14. /\ subs'[s].id = subs[s].id /\ subs'[s].eps = subs[s].eps
       /\ \A o \in Objects \ {s} : Same(o) /\ subs'[o].eps = subs[o].eps
  BY <1>3 DEF NewAnswer
<1> QED BY <1>3, <1>6, <1>7, <1>8, <1>9, <1>10, <1>11, <1>12, <1>13, <1>14, OwnOne

LEMMA OwnPackFails ==
  ASSUME Orderly, TypeInv, LockInv, OwnInv, IdInv, NEW c \in Clients, SendSubReq(c),
         pc'[c] # "e2wait"
  PROVE  OwnInv'
<1>1. /\ OthersStay(c) /\ cur[c] \in Objects /\ WorkOf(c, cur[c]) /\ UNCHANGED e2
  BY WorkStart DEF SendSubReq, Step, AtWork
<1>2. PICK s \in Objects : s = cur[c]
  BY <1>1
<1>3. /\ pc[c] = "e2req" /\ pc'[c] = "db_remove" /\ event'[c] = "error" /\ smutex[s] = None
      /\ {"pack", "sdl"} \cap Faults # {}
      /\ subs' = SetCachedResponse(s, "error", FALSE)
      /\ UNCHANGED <<register, node, told, turn, releasing, op, cur>>
  BY <1>2 DEF SendSubReq, Goto, TypeInv, TypeOK, GoTypes, xappVars, lockVars
<1>4. ~subs[s].update
  <2>1. Suits(c, s) /\ Policy = {} /\ ObjectOf(s)
    BY <1>1, <1>2, <1>3 DEF WorkOf, Orderly, OwnInv, Answered
  <2> QED BY <2>1 DEF Suits, ObjectOf
<1>5. NewAnswer(s, "error", FALSE) /\ subs'[s].update = subs[s].update /\ "error" \in Answers
  BY <1>3, SetCached DEF Answers
<1> QED BY <1>1, <1>2, <1>3, <1>4, <1>5, OwnAnswer

LEMMA OwnExchange ==
  ASSUME Orderly, TypeInv, LockInv, OwnInv, IdInv, NEW c \in Clients, SubReqOutcome(c)
  PROVE  OwnInv'
<1>1. /\ OthersStay(c) /\ cur[c] \in Objects /\ UNCHANGED e2 /\ e2 = "up"
  BY WorkStart DEF SubReqOutcome, Step, AtWork
<1>2. PICK s \in Objects : s = cur[c]
  BY <1>1
<1>3. /\ pc[c] = "e2wait" /\ smutex[s] = None
      /\ UNCHANGED <<register, told, turn, releasing, op, cur>>
  BY <1>2 DEF SubReqOutcome, xappVars, lockVars
<1>4. subs[s].update \in BOOLEAN /\ pc \in [Clients -> Places] /\ event \in [Clients -> Answers]
      /\ {"resp", "fail", "nil"} \subseteq Answers
  BY DEF TypeInv, TypeOK, RegTypes, GoTypes, Subscription, Answers
<1>5. CASE /\ subs' = SetCachedResponse(s, "resp", TRUE) /\ event' = [event EXCEPT ![c] = "resp"]
           /\ node' = node \cup {subs[s].id} /\ Goto(c, "db_write")
  <2>1. NewAnswer(s, "resp", TRUE) /\ subs'[s].update = subs[s].update
    BY <1>4, <1>5, SetCached
  <2>2. pc'[c] = "db_write" /\ event'[c] = "resp"
    BY <1>4, <1>5 DEF Goto
  <2> QED BY <1>1, <1>2, <1>3, <1>4, <1>5, <2>1, <2>2, OwnAnswer
<1>6. CASE /\ subs' = SetCachedResponse(s, "fail", subs[s].update)
           /\ event' = [event EXCEPT ![c] = "fail"] /\ UNCHANGED node
           /\ Goto(c, IF subs[s].update THEN "db_write" ELSE "db_remove")
  <2>1. NewAnswer(s, "fail", subs[s].update) /\ subs'[s].update = subs[s].update
    BY <1>4, <1>6, SetCached
  <2>2. /\ pc'[c] \in {"db_write", "db_remove"} /\ (pc'[c] = "db_write" <=> subs[s].update)
        /\ event'[c] = "fail"
    BY <1>4, <1>6 DEF Goto
  <2> QED BY <1>1, <1>2, <1>3, <1>4, <1>6, <2>1, <2>2, OwnAnswer
<1>7. CASE /\ subs' = SetCachedResponse(s, "nil", subs[s].update)
           /\ event' = [event EXCEPT ![c] = "nil"] /\ node \subseteq node'
           /\ Goto(c, IF subs[s].update THEN "db_write" ELSE "e2del")
  <2>1. NewAnswer(s, "nil", subs[s].update) /\ subs'[s].update = subs[s].update
    BY <1>4, <1>7, SetCached
  <2>2. /\ pc'[c] \in {"db_write", "e2del"} /\ (pc'[c] = "db_write" <=> subs[s].update)
        /\ event'[c] = "nil"
    BY <1>4, <1>7 DEF Goto
  <2> QED BY <1>1, <1>2, <1>3, <1>4, <1>7, <2>1, <2>2, OwnAnswer
<1> QED BY <1>1, <1>2, <1>5, <1>6, <1>7 DEF SubReqOutcome, KeptOnFailure, IsE2ConnectionUp

-----------------------------------------------------------------------------
(* Steps that change the E2 node, the register, or make an object *)

\* A subscription that is deleted at the E2 node is one nobody counts on.
LEMMA OwnDeleteAtNode ==
  ASSUME Orderly, TypeInv, LockInv, OwnInv, IdInv, NEW c \in Clients, DeleteAtNode(c)
  PROVE  OwnInv'
<1>1. /\ OthersStay(c) /\ cur[c] \in Objects /\ WorkOf(c, cur[c]) /\ ControlOf(c)
      /\ UNCHANGED e2 /\ AtWork(c)
  BY WorkStart DEF DeleteAtNode, Step, AtWork
<1>2. PICK s \in Objects : s = cur[c]
  BY <1>1
<1>3. /\ \/ pc[c] = "e2del" /\ pc'[c] = "db_remove"
         \/ pc[c] = "d_e2" /\ pc'[c] = "rm_lock"
      /\ UNCHANGED <<subs, register, told, turn, releasing, op, cur, event>>
      /\ node' \in {node, node \ {subs[s].id}}
  BY <1>1, <1>2 DEF DeleteAtNode, ControlOf, Goto, TypeInv, TypeOK, GoTypes, xappVars, regVars, lockVars
<1>4. Suits(c, s) /\ Endpoint[c] \in subs[s].eps /\ ~subs[s].valid
  BY <1>1, <1>2, <1>3 DEF WorkOf, Listed, Failing
<1>5. register[subs[s].id] = s
  BY <1>3, <1>4, Home DEF Allocating
<1>6. AllSame /\ Registered' = Registered
  BY <1>3 DEF AllSame, Same, Registered
<1>7. ASSUME NEW d \in Clients PROVE ToldOf(d)'
  <2>1. \A i \in told[d] : register[i] \in Objects /\ i \in node /\ subs[register[i]].valid
    BY ToldObject
  <2>2. \A i \in told[d] : i \in node'
    BY <1>3, <1>4, <1>5, <2>1
  <2>3. told'[d] = told[d] /\ ToldOf(d)
    BY <1>3 DEF OwnInv, Told
  <2> QED BY <1>3, <1>6, <2>1, <2>2, <2>3, ToldKept DEF SameFor, AllSame
<1>8. ASSUME NEW d \in Clients \ {c}, AtWork(d)' PROVE WorkOf(d, cur[d])'
  <2>1. AtWork(d)
    BY <1>1, <1>8 DEF AtWork, OthersStay, OthersKept
  <2>2. WorkOf(d, cur[d]) /\ cur[d] \in Objects
    BY <2>1, AtObject DEF OwnInv, Working
  <2>3. ASSUME Succeeding(d) PROVE subs[cur[d]].id \in node'
    <3>1. /\ subs[cur[d]].id \in node /\ subs[cur[d]].valid
          /\ Suits(d, cur[d]) /\ Endpoint[d] \in subs[cur[d]].eps
      BY <2>2, <2>3 DEF WorkOf
    <3>2. register[subs[cur[d]].id] = cur[d]
      BY <2>2, <2>3, <3>1, Home DEF Allocating, Succeeding
    <3> QED BY <1>3, <1>4, <1>5, <3>1, <3>2
  <2> QED BY <1>1, <1>6, <2>2, <2>3, OtherWork DEF SameFor, AllSame
<1>9. WorkOf(c, s)' /\ AtWork(c)' /\ Listed(c)'
  BY <1>1, <1>2, <1>3 DEF WorkOf, Suits, Listed, Succeeding, Waiting, Failing, Gone, Allocating,
                          ControlOf, AtWork
<1>10. Working'
  BY <1>2, <1>3, <1>8, <1>9 DEF Working
<1>11. Control'
  <2>1. ControlOf(c)'
    BY <1>1, <1>3 DEF ControlOf
  <2> QED BY <1>1, <2>1, OtherControl DEF OwnInv, Control
<1>12. Turns'
  BY <1>1, <1>3, TurnsKept DEF OnTurn, OwnInv
<1>13. Answered'
  <2>1. ASSUME NEW o \in Registered, subs[o].valid PROVE subs[o].id # subs[s].id
    BY <1>4, <1>5, <2>1 DEF IdInv, RegisteredIds, Registered
  <2> QED BY <1>3, <1>6, <2>1 DEF OwnInv, Answered, ObjectOf
<1>14. Owned'
  <2>1. \A o \in Objects : \A d \in Clients \ {c} : Owns(d, o) => Owns(d, o)'
    BY <1>1, <1>3, OtherOwns
  <2>2. \A o \in Objects : Owns(c, o) => Owns(c, o)'
    BY <1>3, <1>9 DEF Owns
  <2> QED BY <1>3, <2>1, <2>2, OwnedKept
<1> QED BY <1>1, <1>7, <1>10, <1>11, <1>12, <1>13, <1>14 DEF OwnInv, Told

\* An entry of the register comes or goes.
LEMMA OwnRegister ==
  ASSUME TypeInv, OwnInv, IdInv, NEW c \in Clients, OthersStay(c), NEW h \in Ids,
         UNCHANGED <<subs, node, e2, told, turn, releasing, op, cur, event>>,
         \A i \in Ids \ {h} : register'[i] = register[i],
         \A o \in Objects : register[h] = o => subs[o].eps = {},
         \A o \in Registered' \ Registered : o \in Objects => subs[o].answer = "nil",
         AtWork(c), AtWork(c)', ControlOf(c)', WorkOf(c, cur[c])', OnTurn(c)' => OnTurn(c),
         Listed(c) \/ Succeeding(c) => Listed(c)' \/ Succeeding(c)'
  PROVE  OwnInv'
<1>1. ASSUME NEW d \in Clients PROVE ToldOf(d)'
  <2>1. \A i \in told[d] : /\ i \in Ids /\ register[i] \in Objects /\ i \in node
                           /\ Endpoint[d] \in subs[register[i]].eps
    BY ToldObject
  <2>2. \A i \in told[d] : register'[i] = register[i]
    BY <2>1
  <2>3. told'[d] = told[d] /\ ToldOf(d)
    BY DEF OwnInv, Told
  <2> QED BY <2>1, <2>2, <2>3, ToldKept DEF SameFor, Same
<1>2. ASSUME NEW d \in Clients \ {c}, AtWork(d)' PROVE WorkOf(d, cur[d])'
  <2>1. AtWork(d)
    BY <1>2 DEF AtWork, OthersStay, OthersKept
  <2>2. WorkOf(d, cur[d]) /\ cur[d] \in Objects
    BY <2>1, AtObject DEF OwnInv, Working
  <2>3. Succeeding(d) => subs[cur[d]].id \in node'
    BY <2>2 DEF WorkOf
  <2> QED BY <2>2, <2>3, OtherWork DEF SameFor, Same
<1>3. Working'
  BY <1>2 DEF Working
<1>4. Control'
  BY OtherControl DEF OwnInv, Control
<1>5. Turns'
  BY TurnsKept DEF OwnInv
<1>6. Answered'
  BY DEF OwnInv, Answered, ObjectOf
<1>7. Owned'
  <2>1. ASSUME NEW o \in Objects, NEW d \in Clients, subs[o].eps # {}, Owns(d, o)
        PROVE  Owns(d, o)'
    <3>1. CASE cur[d] = o /\ (Listed(d) \/ Succeeding(d))
      BY <3>1 DEF Owns, Listed, Succeeding, OthersStay, OthersKept
    <3>2. CASE subs[o].id \in told[d] /\ register[subs[o].id] = o
      <4>1. subs[o].id \in Ids
        BY <3>2 DEF TypeInv, TypeOK, XappTypes
      <4> QED BY <2>1, <3>2, <4>1 DEF Owns
    <3> QED BY <2>1, <3>1, <3>2 DEF Owns
  <2> QED BY <2>1, OwnedKept
<1> QED BY <1>1, <1>3, <1>4, <1>5, <1>6, <1>7 DEF OwnInv, Told

LEMMA OwnInsert ==
  ASSUME TypeInv, LockInv, OwnInv, IdInv, NEW c \in Clients, AssignInsert(c),
         event[c] # "error", op[c] = "create"
  PROVE  OwnInv'
<1>1. /\ OthersStay(c) /\ cur[c] \in Objects /\ WorkOf(c, cur[c]) /\ ControlOf(c)
      /\ UNCHANGED e2 /\ AtWork(c) /\ subs[cur[c]].id \in Ids
  BY WorkStart DEF AssignInsert, Step, AtWork
<1>2. PICK s \in Objects : s = cur[c] /\ subs[s].id \in Ids
  BY <1>1
<1>3. PICK h \in Ids : h = subs[s].id
  BY <1>2
<1>4. /\ pc[c] = "insert" /\ pc'[c] = "begin" /\ register' = [register EXCEPT ![h] = s]
      /\ UNCHANGED <<subs, node, told, turn, releasing, op, cur, event>>
  BY <1>2, <1>3 DEF AssignInsert, Goto, TypeInv, TypeOK, GoTypes, xappVars, envVars
<1>5. register \in [Ids -> Objects \cup {None}] /\ c \in Allocating /\ register[h] = None
  BY <1>2, <1>3, <1>4 DEF TypeInv, TypeOK, RegTypes, Allocating, IdInv, UniqueInstanceIds
<1>6. /\ \A i \in Ids \ {h} : register'[i] = register[i]
      /\ Registered' \ Registered \subseteq {s} /\ subs[s].answer = "nil"
  <2>1. register'[h] = s /\ \A i \in Ids \ {h} : register'[i] = register[i]
    BY <1>4, <1>5
  <2>2. subs[s].answer = "nil"
    BY <1>1, <1>2, <1>5 DEF WorkOf
  <2> QED BY <2>1, <2>2 DEF Registered
<1>7. ControlOf(c)' /\ AtWork(c)' /\ Listed(c)' /\ ~OnTurn(c)'
  BY <1>1, <1>4 DEF ControlOf, AtWork, Listed, OnTurn
<1>8. WorkOf(c, s)'
  BY <1>1, <1>2, <1>4 DEF WorkOf, Suits, Listed, Succeeding, Waiting, Failing, Gone, Allocating
<1> QED BY <1>1, <1>2, <1>4, <1>5, <1>6, <1>7, <1>8, OwnRegister, NoneAssumption

LEMMA OwnCleanLast ==
  ASSUME TypeInv, LockInv, OwnInv, IdInv, NEW c \in Clients, RemoveClean(c),
         subs[cur[c]].eps = {}
  PROVE  OwnInv'
<1>1. /\ OthersStay(c) /\ cur[c] \in Objects /\ WorkOf(c, cur[c]) /\ ControlOf(c)
      /\ UNCHANGED e2 /\ AtWork(c) /\ subs[cur[c]].id \in Ids
  BY WorkStart DEF RemoveClean, Step, AtWork
<1>2. PICK s \in Objects : s = cur[c] /\ subs[s].id \in Ids
  BY <1>1
<1>3. PICK h \in Ids : h = subs[s].id
  BY <1>2
<1>4. /\ pc[c] = "rm_clean" /\ pc'[c] = "event" /\ register' = [register EXCEPT ![h] = None]
      /\ UNCHANGED <<subs, node, told, turn, releasing, op, cur, event>>
  BY <1>1, <1>2, <1>3 DEF RemoveClean, ControlOf, Goto, TypeInv, TypeOK, GoTypes, xappVars
<1>5. register \in [Ids -> Objects \cup {None}] /\ register[h] = s
  BY <1>2, <1>3, <1>4 DEF TypeInv, TypeOK, RegTypes, IdInv, CleaningRegistered, Cleaning
<1>6. /\ \A i \in Ids \ {h} : register'[i] = register[i]
      /\ Registered' \subseteq Registered
  BY <1>4, <1>5 DEF Registered
<1>7. ControlOf(c)' /\ AtWork(c)' /\ ~Listed(c) /\ ~Succeeding(c) /\ OnTurn(c)
  BY <1>1, <1>4 DEF ControlOf, AtWork, Listed, OnTurn, Succeeding
<1>8. WorkOf(c, s)'
  BY <1>1, <1>2, <1>4 DEF WorkOf, Suits, Listed, Succeeding, Waiting, Failing, Gone, Allocating,
                          ControlOf
<1> QED BY <1>1, <1>2, <1>4, <1>5, <1>6, <1>7, <1>8, OwnRegister

LEMMA OwnNew ==
  ASSUME TypeInv, LockInv, OwnInv, IdInv, NEW c \in Clients, AllocateSubs(c),
         NEW s \in Garbage, NewObject(c, s), UNCHANGED event
  PROVE  OwnInv'
<1>1. OthersStay(c) /\ UNCHANGED e2
  BY StayStep DEF Step
<1>2. PICK h \in Ids : h = Head(subIds)
  BY QueueTail DEF NewObject, TypeInv, TypeOK, RegTypes
<1>3. s \in Objects /\ s \notin Registered /\ \A d \in Clients : cur[d] # s
  BY DEF Garbage
<1>4. /\ pc[c] = "find" /\ pc'[c] = "route" /\ cur'[c] = s /\ op'[c] = "create"
      /\ UNCHANGED <<node, told, turn, releasing, register>>
  BY DEF AllocateSubs, NewObject, Goto, TypeInv, TypeOK, GoTypes, xappVars, envVars, LockInv, FindCreates
<1>5. register[h] = None /\ \A d \in Clients : h \notin told[d]
  <2>1. register[h] = None
    BY <1>2 DEF NewObject
  <2> QED BY <2>1, ToldObject, NoneAssumption
<1>6. /\ subs'[s] = NewSubscription(c, h)
      /\ \A o \in Objects \ {s} : subs'[o] = subs[o]
  BY <1>2, <1>3 DEF NewObject, TypeInv, TypeOK, RegTypes
<1>7. /\ subs'[s].id = h /\ subs'[s].content = Content[c] /\ (subs'[s].policy <=> c \in Policy)
      /\ subs'[s].eps = {Endpoint[c]} /\ subs'[s].valid /\ subs'[s].answer = "nil"
      /\ ~subs'[s].update
  <2>1. PICK q : q = NewSubscription(c, h)
    OBVIOUS
  <2>2. /\ q.id = h /\ q.content = Content[c] /\ q.eps = {Endpoint[c]} /\ q.answer = "nil"
        /\ q.policy = (c \in Policy) /\ q.valid = TRUE /\ q.update = FALSE
    BY <2>1 DEF NewSubscription
  <2> QED BY <1>6, <2>1, <2>2
<1>8. \A o \in Objects \ {s} : Same(o) /\ subs'[o].eps = subs[o].eps
  BY <1>6 DEF Same
<1>9. ASSUME NEW d \in Clients PROVE ToldOf(d)'
  <2>1. \A i \in told[d] : register[i] \in Objects \ {s} /\ i \in node
    BY <1>3, ToldObject, NoneAssumption DEF Registered
  <2>2. told'[d] = told[d] /\ ToldOf(d)
    BY <1>4 DEF OwnInv, Told
  <2> QED BY <1>4, <1>8, <2>1, <2>2, ToldKept DEF SameFor
<1>10. ASSUME NEW d \in Clients \ {c}, AtWork(d)' PROVE WorkOf(d, cur[d])'
  <2>1. AtWork(d)
    BY <1>1, <1>10 DEF AtWork, OthersStay, OthersKept
  <2>2. WorkOf(d, cur[d]) /\ cur[d] \in Objects \ {s}
    BY <1>3, <2>1, AtObject DEF OwnInv, Working
  <2>3. Succeeding(d) => subs[cur[d]].id \in node'
    BY <1>4, <2>2 DEF WorkOf
  <2> QED BY <1>1, <1>8, <2>2, <2>3, OtherWork DEF SameFor
<1>11. WorkOf(c, s)'
  BY <1>4, <1>5, <1>7 DEF WorkOf, Suits, Listed, Succeeding, Waiting, Failing, Gone, Allocating
<1>12. Working'
  BY <1>4, <1>10, <1>11 DEF Working
<1>13. Control'
  <2>1. ControlOf(c)'
    BY <1>4 DEF ControlOf
  <2> QED BY <1>1, <2>1, OtherControl DEF OwnInv, Control
<1>14. Turns'
  BY <1>1, <1>4, TurnsKept DEF OnTurn, OwnInv
<1>15. Answered'
  <2>1. ObjectOf(s)'
    BY <1>7 DEF ObjectOf
  <2>2. Registered' = Registered
    BY <1>4 DEF Registered
  <2>3. ASSUME NEW o \in Objects \ {s} PROVE ObjectOf(o)'
    BY <1>4, <1>8, <2>2 DEF OwnInv, Answered, ObjectOf, Same
  <2> QED BY <2>1, <2>3 DEF Answered
<1>16. Owned'
  <2>1. Owns(c, s)' /\ ~Listed(c) /\ ~Succeeding(c)
    BY <1>4 DEF Owns, Listed, Succeeding
  <2>2. \A d \in Clients : ~Owns(d, s)
    BY <1>3, NoneAssumption DEF Owns, Registered, TypeInv, TypeOK, XappTypes
  <2>3. ASSUME NEW o \in Objects \ {s}, NEW d \in Clients, Owns(d, o) PROVE Owns(d, o)'
    <3>1. CASE d = c
      BY <1>4, <1>8, <2>1, <2>3, <3>1 DEF Owns, Same
    <3>2. CASE d # c
      BY <1>1, <1>4, <1>8, <2>3, <3>2, OtherOwns DEF Same
    <3> QED BY <3>1, <3>2
  <2> QED BY <1>7, <1>8, <2>1, <2>2, <2>3, OwnedKept
<1> QED BY <1>1, <1>9, <1>12, <1>13, <1>14, <1>15, <1>16 DEF OwnInv, Told

-----------------------------------------------------------------------------
(* The theorems *)

LEMMA OwnInit == Init => OwnInv
<1> SUFFICES ASSUME Init PROVE OwnInv
  OBVIOUS
<1>1. Control /\ Turns
  BY DEF Init, Control, ControlOf, Turns, TurnOf, OnTurn
<1>2. Told /\ Working
  BY DEF Init, Told, ToldOf, Working, AtWork
<1>3. Answered /\ Owned
  BY DEF Init, Unused, Answered, ObjectOf, Registered, Owned
<1> QED BY <1>1, <1>2, <1>3 DEF Init, OwnInv

LEMMA OwnStep ==
  ASSUME Orderly, TypeInv, LockInv, IdInv, OwnInv, [Next]_vars
  PROVE  OwnInv'
<1>1. CASE UNCHANGED vars
  <2>1. UNCHANGED <<subs, register, node, pc, op, cur, event, told, e2, turn, releasing>>
    BY <1>1 DEF vars, regVars, goVars, xappVars, envVars, e2Vars, lockVars
  <2>2. Control' /\ Told' /\ Turns'
    BY <2>1 DEF OwnInv, Control, ControlOf, Told, ToldOf, Subscribed, Suits, Turns, TurnOf, OnTurn
  <2>3. Working'
    BY <2>1 DEF OwnInv, Working, WorkOf, AtWork, Suits, Listed, Succeeding, Waiting, Failing, Gone, Allocating
  <2>4. Answered' /\ Owned'
    BY <2>1 DEF OwnInv, Answered, ObjectOf, Registered, Owned, Owns, Listed, Succeeding
  <2> QED BY <2>1, <2>2, <2>3, <2>4 DEF OwnInv
<1>2. ASSUME NEW c \in Clients, Step(c)
      PROVE  OwnInv'
  <2>0. pc \in [Clients -> Places]
    BY DEF TypeInv, TypeOK, GoTypes
  <2>1. CASE FindExistingSubs(c)
    <3>1. pc'[c] \in {"find", "begin", "merge"}
      BY <2>0, <2>1 DEF FindExistingSubs, Goto
    <3> QED BY <2>1, <3>1, OwnNoMerge, OwnRetry, OwnMerge
  <2>2. CASE AllocateSubs(c)
    <3>1. CASE Return(c) /\ UNCHANGED subs
      BY <2>2, <3>1, OwnNoId
    <3>2. CASE \E s \in Garbage : NewObject(c, s) /\ UNCHANGED event
      BY <2>2, <3>2, OwnNew
    <3>3. Garbage # {} => (CHOOSE o \in Garbage : TRUE) \in Garbage
      OBVIOUS
    <3>4. CASE subIds # <<>> /\ register[Head(subIds)] = None
      BY <2>2, <3>2, <3>3, <3>4 DEF AllocateSubs, NewObject
    <3>5. CASE subIds = <<>> \/ register[Head(subIds)] # None
      BY <2>2, <3>1, <3>5 DEF AllocateSubs
    <3> QED BY <3>4, <3>5
  <2>3. CASE AssignInsert(c)
    <3>1. CASE event[c] = "error"
      BY <2>3, <3>1, OwnRollBack
    <3>2. CASE event[c] # "error" /\ op[c] = "create"
      BY <2>3, <3>2, OwnInsert
    <3>3. CASE event[c] # "error" /\ op[c] # "create"
      <4>1. UNCHANGED register /\ pc'[c] = "begin"
        BY <2>0, <2>3, <3>3 DEF AssignInsert, Goto
      <4> QED BY <2>3, <4>1, OwnMerged
    <3> QED BY <3>1, <3>2, <3>3
  <2>4. CASE SendSubReq(c)
    BY <2>4, OwnSend, OwnPackFails
  <2>5. CASE CheckLastEndpoint(c)
    <3>1. \/ UNCHANGED subs /\ pc'[c] = "rm_lock"
          \/ subs[cur[c]].eps = {Endpoint[c]} /\ pc'[c] = "d_e2"
      BY <2>0, <2>5 DEF CheckLastEndpoint, Goto
    <3> QED BY <2>5, <3>1, OwnCheckNot, OwnLast
  <2>6. CASE RemoveEndpoint(c)
    <3>1. pc[c] \in {"rm_del", "p_del"}
      BY <2>6 DEF RemoveEndpoint
    <3> QED BY <2>6, <3>1, OwnRemove, OwnNotFound
  <2>7. CASE RemoveClean(c)
    <3>1. subs[cur[c]].eps = {} \/ UNCHANGED register
      BY <2>7 DEF RemoveClean
    <3> QED BY <2>7, <3>1, OwnClean, OwnCleanLast
  <2>8. ~RemoveWake(c)
    BY DEF RemoveWake, OwnInv, Control, ControlOf
  <2> QED BY <1>2, <2>1, <2>2, <2>3, <2>4, <2>5, <2>6, <2>7, <2>8, OwnAssign, OwnPolicy,
             OwnMerging, OwnRoute, OwnBegin, OwnWait, OwnCached, OwnExchange, OwnDeleteAtNode, OwnWrite,
             OwnErase, OwnEvent, OwnEnd, OwnOutcome, OwnRemoveLock, OwnDone DEF Step
<1>3. ASSUME NEW c \in Clients, StartCreate(c) PROVE OwnInv'
  BY <1>3, OwnStart
<1>4. ASSUME NEW c \in Clients, NEW i \in Ids, StartDelete(c, i) PROVE OwnInv'
  BY <1>4, OwnStartDelete
<1>5. ASSUME NEW s \in Objects, ReleaseTransactionTurn(s) PROVE OwnInv'
  BY <1>5, OwnRelease
<1>6. ~Sweep /\ ~E2Connect /\ \A kind : ~E2Break(kind)
  <2>1. sweep = NoSweep
    BY DEF IdInv
  <2>2. ~Sweep
    BY <2>1 DEF NoSweep, Sweep, SweepVisit, SweepRoutes, SweepDelete, SweepReturn, SweepRecord,
                SweepEnd
  <2> QED BY <2>2 DEF E2Break, E2Connect, OwnInv, Orderly
<1> QED BY <1>1, <1>2, <1>3, <1>4, <1>5, <1>6 DEF Next

LEMMA OwnCorrect == ASSUME Orderly PROVE Spec => [](TypeInv /\ IdInv /\ OwnInv)
<1>1. E2Events = {}
  BY DEF Orderly
<1>2. Init => TypeInv /\ LockInv /\ IdInv /\ OwnInv
  BY TypeInit, LockInit, IdInit, OwnInit
<1>3. TypeInv /\ LockInv /\ IdInv /\ OwnInv /\ [Next]_vars
        => (TypeInv /\ LockInv /\ IdInv /\ OwnInv)'
  BY <1>1, TypeStep, LockStep, IdStep, OwnStep
<1> QED BY <1>2, <1>3, PTL DEF Spec

\* An xApp that was told of a success, and has no request in progress, has the
\* subscription: whatever the other xApps merge into it or delete from it in the
\* meantime, and whatever Routing Manager refuses, the object is registered and
\* valid, the xApp is in its list and the E2 node holds it
\* (handleSubscriptionRequest and RemoveFromSubscription).
THEOREM SuccessHolds ==
  ASSUME Orderly
  PROVE  Spec => []SuccessMeansSubscribed
<1>1. OwnInv => SuccessMeansSubscribed
  BY DEF OwnInv, Told, ToldOf, SuccessMeansSubscribed
<1> QED BY <1>1, OwnCorrect, PTL

\* When nothing is in progress, the endpoints of every registered subscription
\* are those of the xApps that were told of it: no failed merge and no delete
\* leaves an endpoint behind or takes one along (EpList of registry.go).
THEOREM OwnersListed ==
  ASSUME Orderly
  PROVE  Spec => []EndpointsAreOwners
<1>1. ASSUME TypeInv, IdInv, OwnInv PROVE EndpointsAreOwners
  <2> SUFFICES ASSUME Quiescent, NEW i \in Ids
               PROVE  IF register[i] = None
                      THEN Owners(i) = {}
                      ELSE subs[register[i]].id = i /\ subs[register[i]].eps = Owners(i)
    BY DEF EndpointsAreOwners
  <2>1. \A c \in Clients : i \in told[c] => /\ register[i] \in Objects
                                            /\ Endpoint[c] \in subs[register[i]].eps
    BY <1>1, ToldObject
  <2>2. CASE register[i] = None
    BY <2>1, <2>2, NoneAssumption DEF Owners
  <2>3. CASE register[i] # None
    <3>1. PICK s \in Objects : s = register[i] /\ subs[s].id = i
      BY <1>1, <2>3 DEF TypeInv, TypeOK, RegTypes, IdInv, RegisteredIds
    <3>2. Owners(i) \subseteq subs[s].eps
      BY <2>1, <3>1 DEF Owners
    <3>3. ASSUME NEW e \in subs[s].eps PROVE e \in Owners(i)
      <4>1. PICK c \in Clients : Endpoint[c] = e /\ Owns(c, s)
        BY <1>1 DEF OwnInv, Owned
      <4>2. ~Listed(c) /\ ~Succeeding(c)
        BY DEF Quiescent, Quiet, Listed, Succeeding
      <4> QED BY <3>1, <4>1, <4>2 DEF Owns, Owners
    <3>4. subs[s].eps = Owners(i)
      BY <3>2, <3>3
    <3> QED BY <2>3, <3>1, <3>4
  <2> QED BY <2>2, <2>3
<1> QED BY <1>1, OwnCorrect, PTL

-----------------------------------------------------------------------------
(* The records and the routes *)

\* xApps whose requests merge agree on whether they want a route: the merged
\* subscription keeps what the first one wanted (RMRRouteCreated).
UniformRoutes ==
  \A c, d \in Clients : Content[c] = Content[d] => (c \in Routed <=> d \in Routed)

\* A request that is about to write the record of its object, or to clear the
\* flag for repeated requests that keeps it from doing so.
Writing(c) ==
  /\ op[c] # "delete"
  /\ pc[c] \in {"policy", "begin", "turn", "cached", "e2req", "e2wait", "e2del", "db_write",
                "db_remove"}

\* A request that is about to remove its endpoint, which writes the record too.
Removing(c) ==
  \/ pc[c] \in {"e2del", "db_remove", "rm_lock", "rm_del", "rm_clean"}
  \/ pc[c] \in {"begin", "turn", "d_check", "d_e2"} /\ op[c] = "delete"

\* A new or a merged request on its way into the register, and one of these
\* whose route has not been made.
Joining(c)  == pc[c] \in {"merge", "route", "insert"}
Unrouted(c) == pc[c] \in {"merge", "route"} \/ (pc[c] = "insert" /\ event[c] = "error")

OnRecord(s, e) == db[subs[s].id] # None /\ e \in db[subs[s].id].eps

\* The whole list of s will be written.  While the flag for repeated requests
\* is up the next request to write clears it instead, so it takes two.
WriteDue(s) ==
  \/ \E d \in Clients : cur[d] = s /\ Removing(d)
  \/ \E d \in Clients : cur[d] = s /\ Writing(d) /\ ~subs[s].retry
  \/ \E d, x \in Clients : d # x /\ cur[d] = s /\ cur[x] = s /\ Writing(d) /\ Writing(x)

RecordOf(s) ==
  \A e \in subs[s].eps :
    \/ OnRecord(s, e)
    \/ WriteDue(s)
    \/ \E c \in Clients : cur[c] = s /\ Joining(c) /\ Endpoint[c] = e

RouteOf(s) ==
  subs[s].route =>
    \A e \in subs[s].eps :
      \/ e \in routes[subs[s].id]
      \/ \E c \in Clients : cur[c] = s /\ Unrouted(c) /\ Endpoint[c] = e

\* The flag is down unless a request is to clear it, and a list without
\* endpoints is about to go.
FlagOf(s)  == subs[s].retry => \E d \in Clients : cur[d] = s /\ Writing(d)
EmptyOf(s) == subs[s].eps = {} => \E d \in Clients : cur[d] = s /\ pc[d] = "rm_clean"

StoredOf(s) == RecordOf(s) /\ RouteOf(s) /\ FlagOf(s) /\ EmptyOf(s)

\* What a request knows that joins.
JoinOf(c) ==
  /\ c \in Allocating => ~subs[cur[c]].retry
  /\ c \in Allocating /\ ~Unrouted(c) /\ subs[cur[c]].route
       => subs[cur[c]].eps \subseteq routes[subs[cur[c]].id]
  /\ Joining(c) /\ c \notin Allocating => \E e \in subs[cur[c]].eps : e # Endpoint[c]
\* The object has a route if and only if the clients it suits want one.
WantOf(s) == \A c \in Clients : subs[s].content = Content[c] => (subs[s].route <=> c \in Routed)

NoRecord == \A i \in Ids : register[i] = None => db[i] = None
Records  == \A s \in Registered : StoredOf(s)
Joins    == \A c \in Clients : JoinOf(c)
Wanted   == \A s \in Objects : WantOf(s)

RecInv == NoRecord /\ Records /\ Joins /\ Wanted

\* The object is what it was, as far as RecInv speaks of it.
Keeps(s) ==
  /\ subs'[s].id = subs[s].id
  /\ subs'[s].content = subs[s].content
  /\ subs'[s].eps = subs[s].eps
  /\ subs'[s].route = subs[s].route
  /\ subs'[s].retry = subs[s].retry

Busy(c) == Writing(c) \/ Removing(c) \/ Joining(c)

\* A request goes on with its work on its object.
GoesOn(c) ==
  Busy(c) => /\ cur'[c] = cur[c]
             /\ Writing(c) => Writing(c)'
             /\ Removing(c) => Removing(c)'
             /\ pc[c] # "rm_clean" /\ ~Joining(c)

\* The others go on as they were.
LEMMA OthersBusy ==
  ASSUME NEW c \in Clients, OthersStay(c), NEW d \in Clients \ {c}
  PROVE  /\ cur'[d] = cur[d] /\ pc'[d] = pc[d] /\ op'[d] = op[d]
         /\ Writing(d)' = Writing(d) /\ Removing(d)' = Removing(d)
         /\ Joining(d)' = Joining(d) /\ Unrouted(d)' = Unrouted(d)
         /\ (d \in Allocating' <=> d \in Allocating)
BY DEF OthersStay, OthersKept, Writing, Removing, Joining, Unrouted, Allocating

\* A request that has to do with another object, or goes on with this one,
\* changes nothing of what holds of it.
LEMMA StoredKept ==
  ASSUME NEW c \in Clients, OthersStay(c), NEW s \in Objects, StoredOf(s), Keeps(s),
         db'[subs[s].id] = db[subs[s].id], routes'[subs[s].id] = routes[subs[s].id],
         cur[c] = s => GoesOn(c)
  PROVE  StoredOf(s)'
<1>1. ASSUME NEW d \in Clients, cur[d] = s
      PROVE  /\ Writing(d) => cur'[d] = s /\ Writing(d)'
             /\ Removing(d) => cur'[d] = s /\ Removing(d)'
             /\ Joining(d) => cur'[d] = s /\ Joining(d)'
             /\ Unrouted(d) => cur'[d] = s /\ Unrouted(d)'
             /\ pc[d] = "rm_clean" => cur'[d] = s /\ pc'[d] = "rm_clean"
  <2>1. CASE d = c
    BY <1>1, <2>1 DEF GoesOn, Busy, Joining, Unrouted, Removing
  <2>2. CASE d # c
    BY <1>1, <2>2, OthersBusy
  <2> QED BY <2>1, <2>2
<1>2. WriteDue(s) => WriteDue(s)'
  BY <1>1 DEF WriteDue, Keeps
<1>3. RecordOf(s)'
  BY <1>1, <1>2 DEF StoredOf, RecordOf, OnRecord, Keeps
<1>4. RouteOf(s)'
  BY <1>1 DEF StoredOf, RouteOf, Keeps
<1>5. FlagOf(s)' /\ EmptyOf(s)'
  BY <1>1 DEF StoredOf, FlagOf, EmptyOf, Keeps
<1> QED BY <1>3, <1>4, <1>5 DEF StoredOf

\* A registered object is filed under its id.
LEMMA Filed ==
  ASSUME TypeInv, IdInv, NEW s \in Registered
  PROVE  s \in Objects /\ subs[s].id \in Ids /\ register[subs[s].id] = s
BY DEF TypeInv, TypeOK, RegTypes, IdInv, RegisteredIds, Registered

\* A new object is not registered, nor has another one its id.
LEMMA NewApart ==
  ASSUME TypeInv, IdInv, NEW d \in Allocating
  PROVE  /\ d \in Clients /\ cur[d] \in Objects /\ cur[d] \notin Registered
         /\ subs[cur[d]].id \in Ids /\ register[subs[cur[d]].id] = None
         /\ \A s \in Registered : subs[s].id # subs[cur[d]].id
         /\ \A x \in Allocating \ {d} : subs[cur[x]].id # subs[cur[d]].id
<1>1. d \in Clients /\ AtWork(d)
  BY DEF Allocating, AtWork
<1>2. cur[d] \in Objects /\ subs[cur[d]].id \in Ids
  BY <1>1, AtObject
<1>3. register[subs[cur[d]].id] = None /\ \A x \in Allocating \ {d} : subs[cur[x]].id # subs[cur[d]].id
  BY DEF IdInv, UniqueInstanceIds
<1>4. \A s \in Registered : subs[s].id # subs[cur[d]].id
  BY <1>3, Filed, NoneAssumption
<1> QED BY <1>1, <1>2, <1>3, <1>4

\* What the requests that join know is kept by a step of another one that
\* leaves their objects alone.
LEMMA JoinKept ==
  ASSUME NEW c \in Clients, OthersStay(c), NEW d \in Clients \ {c}, JoinOf(d),
         Joining(d) => subs'[cur[d]].eps = subs[cur[d]].eps,
         d \in Allocating => /\ Keeps(cur[d])
                             /\ routes'[subs[cur[d]].id] = routes[subs[cur[d]].id]
  PROVE  JoinOf(d)'
<1>1. event'[d] = event[d]
  BY DEF OthersStay
<1> QED BY <1>1, OthersBusy DEF JoinOf, Keeps

\* The steps that change nothing RecInv says of the objects.
LEMMA RecPlain ==
  ASSUME TypeInv, IdInv, RecInv, NEW c \in Clients, OthersStay(c),
         UNCHANGED <<register, db, routes>>, \A o \in Objects : Keeps(o),
         GoesOn(c), JoinOf(c)'
  PROVE  RecInv'
<1>1. NoRecord'
  BY DEF RecInv, NoRecord
<1>2. Records'
  <2>1. Registered' = Registered
    BY DEF Registered
  <2>2. \A s \in Registered : s \in Objects /\ StoredOf(s)
    BY Filed DEF RecInv, Records
  <2> QED BY <2>1, <2>2, StoredKept DEF Records
<1>3. Joins'
  <2>1. ASSUME NEW d \in Clients \ {c} PROVE JoinOf(d)'
    <3>1. JoinOf(d)
      BY DEF RecInv, Joins
    <3>2. Joining(d) => cur[d] \in Objects
      BY AtObject DEF Joining, AtWork
    <3>3. d \in Allocating => cur[d] \in Objects
      BY NewApart
    <3> QED BY <3>1, <3>2, <3>3, JoinKept DEF Keeps
  <2> QED BY <2>1 DEF Joins
<1>4. Wanted'
  BY DEF RecInv, Wanted, WantOf, Keeps
<1> QED BY <1>1, <1>2, <1>3, <1>4 DEF RecInv

\* The steps of c that change its object s, its record or its routes.
LEMMA RecObject ==
  ASSUME TypeInv, IdInv, RecInv, NEW c \in Clients, OthersStay(c),
         NEW s \in Objects, NEW h \in Ids, h = subs[s].id, cur[c] = s,
         s \in Registered \/ c \in Allocating,
         \A o \in Objects \ {s} : Keeps(o),
         subs'[s].id = h, subs'[s].content = subs[s].content, subs'[s].route = subs[s].route,
         \A i \in Ids \ {h} : /\ register'[i] = register[i] /\ db'[i] = db[i]
                              /\ routes'[i] = routes[i],
         register'[h] \in {s, None},
         register'[h] = None => db'[h] = None,
         register'[h] = s => StoredOf(s)',
         \A d \in Clients \ {c} : Joining(d) /\ cur[d] = s => subs'[s].eps = subs[s].eps,
         JoinOf(c)'
  PROVE  RecInv'
<1>1. NoRecord'
  BY DEF RecInv, NoRecord
<1>2. ASSUME NEW o \in Objects \ {s}, o \in Registered PROVE subs[o].id \in Ids \ {h}
  <2>1. register[subs[o].id] = o /\ subs[o].id \in Ids
    BY <1>2, Filed
  <2>2. register[h] \in {s, None}
    BY Filed, NewApart
  <2> QED BY <2>1, <2>2, NoneAssumption
<1>3. Records'
  <2> SUFFICES ASSUME NEW o \in Registered' PROVE StoredOf(o)'
    BY DEF Records
  <2>1. PICK i \in Ids : o = register'[i] /\ o # None
    BY DEF Registered
  <2>2. CASE i = h
    BY <2>1, <2>2
  <2>3. CASE i # h
    <3>1. o = register[i] /\ o \in Registered
      BY <2>1, <2>3 DEF Registered
    <3>2. o \in Objects /\ subs[o].id = i
      BY <2>1, <3>1, Filed DEF IdInv, RegisteredIds
    <3>3. o # s
      BY <2>3, <3>2
    <3>4. StoredOf(o)
      BY <3>1 DEF RecInv, Records
    <3> QED BY <2>3, <3>2, <3>3, <3>4, StoredKept
  <2> QED BY <2>2, <2>3
<1>4. Joins'
  <2>1. ASSUME NEW d \in Clients \ {c} PROVE JoinOf(d)'
    <3>1. JoinOf(d)
      BY DEF RecInv, Joins
    <3>2. Joining(d) => cur[d] \in Objects
      BY AtObject DEF Joining, AtWork
    <3>3. Joining(d) => subs'[cur[d]].eps = subs[cur[d]].eps
      BY <3>2 DEF Keeps
    <3>4. ASSUME d \in Allocating
          PROVE  Keeps(cur[d]) /\ routes'[subs[cur[d]].id] = routes[subs[cur[d]].id]
      <4>1. cur[d] \in Objects /\ subs[cur[d]].id \in Ids /\ subs[cur[d]].id # h
        BY <3>4, NewApart
      <4> QED BY <4>1
    <3> QED BY <3>1, <3>3, <3>4, JoinKept
  <2> QED BY <2>1 DEF Joins
<1>5. Wanted'
  BY DEF RecInv, Wanted, WantOf, Keeps
<1> QED BY <1>1, <1>3, <1>4, <1>5 DEF RecInv

-----------------------------------------------------------------------------
(* The steps that neither join nor store anything *)

AllKept == \A o \in Objects : Keeps(o)

LEMMA KeptFields ==
  ASSUME TypeInv, NEW s \in Objects, NEW v,
         \/ subs' = subs
         \/ subs' = [subs EXCEPT ![s].valid = v]
         \/ subs' = [subs EXCEPT ![s].req = v]
         \/ subs' = [subs EXCEPT ![s].del = v]
  PROVE  AllKept
<1>1. subs \in [Objects -> Subscription]
  BY DEF TypeInv, TypeOK, RegTypes
<1>2. CASE subs' = subs
  BY <1>2 DEF AllKept, Keeps
<1>3. CASE subs' = [subs EXCEPT ![s].valid = v]
  BY <1>1, <1>3 DEF AllKept, Keeps, Subscription
<1>4. CASE subs' = [subs EXCEPT ![s].req = v]
  BY <1>1, <1>4 DEF AllKept, Keeps, Subscription
<1>5. CASE subs' = [subs EXCEPT ![s].del = v]
  BY <1>1, <1>5 DEF AllKept, Keeps, Subscription
<1> QED BY <1>2, <1>3, <1>4, <1>5

LEMMA KeptSame ==
  ASSUME UNCHANGED subs
  PROVE  AllKept
BY DEF AllKept, Keeps

LEMMA KeptAnswer ==
  ASSUME TypeInv, NEW s \in Objects, NEW a, NEW v, subs' = SetCachedResponse(s, a, v)
  PROVE  AllKept
<1>1. PICK r \in Subscription : r = subs[s]
  BY DEF TypeInv, TypeOK, RegTypes
<1>2. PICK q : q = [r EXCEPT !.answer = a, !.valid = v]
  OBVIOUS
<1>3. subs' = [subs EXCEPT ![s] = q] /\ subs \in [Objects -> Subscription]
  BY <1>1, <1>2 DEF SetCachedResponse, TypeInv, TypeOK, RegTypes
<1>4. /\ q.id = r.id /\ q.content = r.content /\ q.eps = r.eps /\ q.route = r.route
      /\ q.retry = r.retry
  BY <1>2 DEF Subscription
<1> QED BY <1>1, <1>3, <1>4 DEF AllKept, Keeps

LEMMA KeptPolicy ==
  ASSUME TypeInv, NEW c \in Clients, AssignPolicy(c), cur[c] \in Objects
  PROVE  AllKept
<1>1. PICK s \in Objects : s = cur[c]
  OBVIOUS
<1>2. PICK r \in Subscription : r = subs[s]
  BY DEF TypeInv, TypeOK, RegTypes
<1>3. PICK q : q = [r EXCEPT !.update = TRUE, !.answer = "nil", !.valid = TRUE]
  OBVIOUS
<1>4. subs' = [subs EXCEPT ![s] = q] /\ subs \in [Objects -> Subscription]
  BY <1>1, <1>2, <1>3 DEF AssignPolicy, TypeInv, TypeOK, RegTypes
<1>5. /\ q.id = r.id /\ q.content = r.content /\ q.eps = r.eps /\ q.route = r.route
      /\ q.retry = r.retry
  BY <1>3 DEF Subscription
<1> QED BY <1>2, <1>4, <1>5 DEF AllKept, Keeps

\* A request that does not join has nothing to know.
LEMMA NotJoining ==
  ASSUME NEW c \in Clients, pc'[c] \notin {"merge", "route", "insert"}
  PROVE  JoinOf(c)'
BY DEF JoinOf, Allocating, Joining

\* Most of these steps are those of a request that goes on.
LEMMA RecGoesOn ==
  ASSUME TypeInv, IdInv, RecInv, NEW c \in Clients, OthersStay(c),
         UNCHANGED <<register, db, routes>>, AllKept, GoesOn(c),
         pc'[c] \notin {"merge", "route", "insert"}
  PROVE  RecInv'
BY RecPlain, NotJoining DEF AllKept

LEMMA RecStart ==
  ASSUME TypeInv, IdInv, RecInv, NEW c \in Clients,
         StartCreate(c) \/ \E i \in Ids : StartDelete(c, i)
  PROVE  RecInv'
<1>1. OthersStay(c)
  BY StayStart
<1>2. /\ pc[c] = "idle" /\ pc'[c] \in {"idle", "assign", "begin"}
      /\ UNCHANGED <<register, db, routes, subs>>
  BY DEF StartCreate, StartDelete, Goto, goVars, regVars, envVars, TypeInv, TypeOK, GoTypes
<1>3. GoesOn(c) /\ AllKept
  BY <1>2, KeptSame DEF GoesOn, Busy, Writing, Removing, Joining
<1> QED BY <1>1, <1>2, <1>3, RecGoesOn

LEMMA RecSearch ==
  ASSUME TypeInv, IdInv, OwnInv, RecInv, NEW c \in Clients,
         \/ AssignLock(c)
         \/ FindExistingSubs(c) /\ pc'[c] = "find"
         \/ AllocateSubs(c) /\ Return(c) /\ UNCHANGED subs
  PROVE  RecInv'
<1>1. OthersStay(c)
  BY StayStep DEF Step
<1>2. /\ pc[c] \in {"assign", "find"} /\ pc'[c] \in {"policy", "find", "idle"}
      /\ UNCHANGED <<register, db, routes, subs>>
  <2>0. pc \in [Clients -> Places]
    BY DEF TypeInv, TypeOK, GoTypes
  <2>1. CASE AssignLock(c)
    BY <2>0, <2>1 DEF AssignLock, Goto, regVars, envVars
  <2>2. CASE FindExistingSubs(c) /\ pc'[c] = "find"
    BY <2>0, <2>2 DEF FindExistingSubs, Goto, envVars
  <2>3. CASE AllocateSubs(c) /\ Return(c) /\ UNCHANGED subs
    BY <2>0, <2>3 DEF AllocateSubs, Return, Goto, envVars
  <2> QED BY <2>1, <2>2, <2>3
<1>3. GoesOn(c) /\ AllKept
  BY <1>2, KeptSame DEF GoesOn, Busy, Writing, Removing, Joining
<1> QED BY <1>1, <1>2, <1>3, RecGoesOn

LEMMA RecPolicy ==
  ASSUME TypeInv, IdInv, OwnInv, RecInv, NEW c \in Clients, AssignPolicy(c)
  PROVE  RecInv'
<1>1. OthersStay(c) /\ cur[c] \in Objects /\ ControlOf(c)
  BY WorkStart DEF AssignPolicy, Step, AtWork
<1>2. /\ pc[c] = "policy" /\ pc'[c] = "begin" /\ UNCHANGED <<register, db, routes, cur, op>>
  BY DEF AssignPolicy, Goto, envVars, TypeInv, TypeOK, GoTypes
<1>3. GoesOn(c) /\ AllKept
  BY <1>1, <1>2, KeptPolicy DEF GoesOn, Busy, Writing, Removing, Joining, ControlOf
<1> QED BY <1>1, <1>2, <1>3, RecGoesOn

LEMMA RecBegin ==
  ASSUME TypeInv, IdInv, OwnInv, RecInv, NEW c \in Clients, Begin(c) \/ WaitTransactionTurn(c)
  PROVE  RecInv'
<1>1. OthersStay(c) /\ cur[c] \in Objects
  BY WorkStart DEF Begin, WaitTransactionTurn, Step, AtWork
<1>2. /\ \/ pc[c] = "begin" /\ pc'[c] = "turn"
         \/ pc[c] = "turn" /\ pc'[c] = IF op[c] = "delete" THEN "d_check" ELSE "cached"
      /\ UNCHANGED <<register, db, routes, cur, op>>
  BY DEF Begin, WaitTransactionTurn, Goto, regVars, envVars, TypeInv, TypeOK, GoTypes
<1>3. AllKept
  <2>1. CASE Begin(c)
    BY <1>1, <2>1, KeptFields DEF Begin, AddOngoing
  <2>2. CASE WaitTransactionTurn(c)
    BY <2>2, KeptSame DEF WaitTransactionTurn, regVars
  <2> QED BY <2>1, <2>2
<1>4. GoesOn(c)
  BY <1>2 DEF GoesOn, Busy, Writing, Removing, Joining
<1> QED BY <1>1, <1>2, <1>3, <1>4, RecGoesOn

LEMMA RecExchange ==
  ASSUME TypeInv, IdInv, OwnInv, RecInv, NEW c \in Clients,
         \/ GetCachedResponse(c)
         \/ SendSubReq(c) /\ pc'[c] = "db_remove"
         \/ SubReqOutcome(c)
  PROVE  RecInv'
<1>1. OthersStay(c) /\ cur[c] \in Objects /\ ControlOf(c)
  BY WorkStart DEF GetCachedResponse, SendSubReq, SubReqOutcome, Step, AtWork
<1>2. /\ pc[c] \in {"cached", "e2req", "e2wait"}
      /\ pc'[c] \in {"e2req", "db_write", "db_remove", "e2del"}
      /\ UNCHANGED <<register, db, routes, cur, op>>
  <2>0. pc \in [Clients -> Places]
    BY DEF TypeInv, TypeOK, GoTypes
  <2>1. CASE GetCachedResponse(c)
    BY <2>0, <2>1 DEF GetCachedResponse, Goto, regVars, envVars
  <2>2. CASE SendSubReq(c) /\ pc'[c] = "db_remove"
    BY <2>0, <2>2 DEF SendSubReq, Goto
  <2>3. CASE SubReqOutcome(c)
    BY <2>0, <2>3 DEF SubReqOutcome, Goto
  <2> QED BY <2>1, <2>2, <2>3
<1>3. AllKept
  <2>0. pc \in [Clients -> Places]
    BY DEF TypeInv, TypeOK, GoTypes
  <2>1. CASE GetCachedResponse(c)
    BY <2>1, KeptSame DEF GetCachedResponse, regVars
  <2>2. CASE SendSubReq(c) /\ pc'[c] = "db_remove"
    <3>1. subs' = SetCachedResponse(cur[c], "error", FALSE)
      BY <2>0, <2>2 DEF SendSubReq, Goto
    <3> QED BY <1>1, <3>1, KeptAnswer
  <2>3. CASE SubReqOutcome(c)
    <3>1. \E a, v : subs' = SetCachedResponse(cur[c], a, v)
      BY <2>3 DEF SubReqOutcome
    <3> QED BY <1>1, <3>1, KeptAnswer
  <2> QED BY <2>1, <2>2, <2>3
<1>4. GoesOn(c)
  BY <1>1, <1>2 DEF GoesOn, Busy, Writing, Removing, Joining, ControlOf
<1> QED BY <1>1, <1>2, <1>3, <1>4, RecGoesOn

LEMMA RecDelete ==
  ASSUME TypeInv, IdInv, OwnInv, RecInv, NEW c \in Clients,
         CheckLastEndpoint(c) \/ DeleteAtNode(c) \/ (RemoveLock(c) /\ pc[c] = "rm_lock")
  PROVE  RecInv'
<1>1. OthersStay(c) /\ cur[c] \in Objects /\ ControlOf(c)
  BY WorkStart DEF CheckLastEndpoint, DeleteAtNode, RemoveLock, Step, AtWork
<1>2. /\ \/ pc[c] = "d_check" /\ pc'[c] \in {"d_e2", "rm_lock"}
         \/ pc[c] = "e2del" /\ pc'[c] = "db_remove"
         \/ pc[c] = "d_e2" /\ pc'[c] = "rm_lock"
         \/ pc[c] = "rm_lock" /\ pc'[c] = "rm_del"
      /\ UNCHANGED <<register, db, routes, cur, op>>
  <2>0. pc \in [Clients -> Places]
    BY DEF TypeInv, TypeOK, GoTypes
  <2>1. CASE CheckLastEndpoint(c)
    BY <2>0, <2>1 DEF CheckLastEndpoint, Goto, envVars
  <2>2. CASE DeleteAtNode(c)
    BY <1>1, <2>0, <2>2 DEF DeleteAtNode, Goto, regVars, ControlOf
  <2>3. CASE RemoveLock(c) /\ pc[c] = "rm_lock"
    BY <2>0, <2>3 DEF RemoveLock, Goto, regVars, envVars
  <2> QED BY <2>1, <2>2, <2>3
<1>3. AllKept
  <2>1. CASE CheckLastEndpoint(c)
    BY <1>1, <2>1, KeptFields DEF CheckLastEndpoint
  <2>2. CASE DeleteAtNode(c) \/ RemoveLock(c)
    BY <2>2, KeptSame DEF DeleteAtNode, RemoveLock, regVars
  <2> QED BY <2>1, <2>2
<1>4. GoesOn(c)
  BY <1>1, <1>2 DEF GoesOn, Busy, Writing, Removing, Joining, ControlOf
<1> QED BY <1>1, <1>2, <1>3, <1>4, RecGoesOn

LEMMA RecReport ==
  ASSUME TypeInv, IdInv, OwnInv, RecInv, NEW c \in Clients,
         \/ SendEvent(c) \/ End(c) \/ Outcome(c) \/ Done(c)
         \/ RemoveLock(c) /\ pc[c] # "rm_lock"
         \/ RemoveEndpoint(c) /\ pc[c] # "rm_del"
  PROVE  RecInv'
<1>1. OthersStay(c) /\ cur[c] \in Objects /\ ControlOf(c) /\ WorkOf(c, cur[c]) /\ e2 = "up"
  BY WorkStart DEF SendEvent, End, Outcome, Done, RemoveLock, RemoveEndpoint, Step, AtWork
<1>2. pc \in [Clients -> Places] /\ op \in [Clients -> Operations] /\ event \in [Clients -> Answers]
  BY DEF TypeInv, TypeOK, GoTypes
<1>4. /\ pc[c] \in {"event", "end", "outcome", "p_lock", "p_del", "done"}
      /\ pc'[c] \in {"end", "outcome", "idle", "p_lock", "p_del", "done"}
      /\ UNCHANGED <<register, db, routes>>
      /\ AllKept
  <2>1. CASE SendEvent(c)
    BY <1>2, <2>1, KeptSame DEF SendEvent, Goto, regVars, envVars
  <2>2. CASE End(c)
    BY <1>1, <1>2, <2>2, KeptFields DEF End, AddOngoing, Goto, envVars
  <2>3. CASE Outcome(c)
    BY <1>1, <1>2, <2>3, KeptSame DEF Outcome, Return, Goto, regVars, envVars, IsE2ConnectionUp
  <2>4. CASE Done(c)
    BY <1>1, <1>2, <2>4, KeptSame DEF Done, Return, Goto, regVars, ControlOf
  <2>5. CASE RemoveLock(c) /\ pc[c] # "rm_lock"
    BY <1>2, <2>5, KeptSame DEF RemoveLock, Goto, regVars, envVars
  <2>6. CASE RemoveEndpoint(c) /\ pc[c] # "rm_del"
    <3>1. pc[c] = "p_del" /\ ~DelStatus(cur[c], c)
      BY <1>1, <2>6 DEF RemoveEndpoint, WorkOf, Gone, DelStatus
    <3> QED BY <1>2, <2>6, <3>1, KeptSame DEF RemoveEndpoint, Goto, envVars
  <2> QED BY <2>1, <2>2, <2>3, <2>4, <2>5, <2>6
<1>5. GoesOn(c)
  BY <1>4 DEF GoesOn, Busy, Writing, Removing, Joining
<1> QED BY <1>1, <1>4, <1>5, RecPlain, NotJoining DEF AllKept

\* A merged request locks its object.
LEMMA RecMerging ==
  ASSUME TypeInv, LockInv, IdInv, OwnInv, RecInv, NEW c \in Clients, MergeLock(c)
  PROVE  RecInv'
<1>1. OthersStay(c)
  BY StayStep DEF Step
<1>2. /\ pc[c] = "merge" /\ pc'[c] = "route" /\ op[c] = "merge"
      /\ UNCHANGED <<subs, register, db, routes, cur, op, event>>
  BY DEF MergeLock, Goto, TypeInv, TypeOK, GoTypes, regVars, envVars, LockInv, FindCreates
<1>3. ASSUME NEW d \in Clients
      PROVE  /\ Writing(d)' = Writing(d) /\ Removing(d)' = Removing(d)
             /\ Joining(d)' = Joining(d) /\ Unrouted(d)' = Unrouted(d)
             /\ (d \in Allocating' <=> d \in Allocating)
             /\ pc[d] = "rm_clean" => pc'[d] = "rm_clean"
  <2>1. CASE d = c
    BY <1>2, <2>1 DEF Writing, Removing, Joining, Unrouted, Allocating
  <2>2. CASE d # c
    BY <1>1, <2>2, OthersBusy
  <2> QED BY <2>1, <2>2
<1>4. NoRecord' /\ Wanted'
  BY <1>2 DEF RecInv, NoRecord, Wanted, WantOf
<1>5. Joins'
  BY <1>2, <1>3 DEF RecInv, Joins, JoinOf
<1>6. Records'
  BY <1>2, <1>3 DEF RecInv, Records, Registered, StoredOf, RecordOf, OnRecord, WriteDue,
                    RouteOf, FlagOf, EmptyOf
<1> QED BY <1>4, <1>5, <1>6 DEF RecInv

-----------------------------------------------------------------------------
(* The steps that join, and those that store or remove *)

\* The object of a request that joins is locked by it, or Registry.mutex is.
LEMMA JoinLocked ==
  ASSUME LockInv, NEW c \in Clients, NEW s, smutex[s] \in {None, c},
         InRegistry(c) \/ rmutex = None,
         NEW d \in Clients \ {c}, Joining(d)
  PROVE  cur[d] # s
<1>1. pc[d] # "merge"
  BY NoneAssumption DEF LockInv, RegistryHeld, InRegistry
<1> QED BY <1>1, NoneAssumption DEF LockInv, ObjectHeld, InObject, Joining

\* The search finds the endpoint already in the list: the flag goes up, and
\* the request is one more that is to write.
LEMMA RecRetry ==
  ASSUME TypeInv, LockInv, IdInv, OwnInv, RecInv, NEW c \in Clients, FindExistingSubs(c),
         pc'[c] = "begin"
  PROVE  RecInv'
<1>1. OthersStay(c)
  BY StayStep DEF Step
<1>2. PICK s \in Objects : s = cur[c]
  BY DEF FindExistingSubs, TypeInv, TypeOK, GoTypes
<1>3. s \in Registered
  BY <1>2, NoneAssumption DEF IdInv, FoundRegistered, FindExistingSubs
<1>4. PICK h \in Ids : h = subs[s].id /\ register[h] = s
  BY <1>3, Filed
<1>5. /\ pc[c] = "find" /\ op'[c] = "retry" /\ cur'[c] = s /\ smutex[s] = None
      /\ subs' = [subs EXCEPT ![s].retry = TRUE]
      /\ UNCHANGED <<register, db, routes>>
  BY <1>2 DEF FindExistingSubs, Goto, envVars, TypeInv, TypeOK, GoTypes
<1>6. /\ \A o \in Objects \ {s} : Keeps(o)
      /\ subs'[s].id = h /\ subs'[s].content = subs[s].content /\ subs'[s].route = subs[s].route
      /\ subs'[s].eps = subs[s].eps
  BY <1>4, <1>5 DEF TypeInv, TypeOK, RegTypes, Subscription, Keeps
<1>7. ~Busy(c) /\ Writing(c)'
  BY <1>5 DEF Busy, Writing, Removing, Joining
<1>8. StoredOf(s)'
  <2>1. StoredOf(s)
    BY <1>3 DEF RecInv, Records
  <2>2. ASSUME NEW d \in Clients, cur[d] = s
        PROVE  /\ Writing(d) => d # c /\ cur'[d] = s /\ Writing(d)'
               /\ Removing(d) => cur'[d] = s /\ Removing(d)'
               /\ Joining(d) => cur'[d] = s /\ Joining(d)'
               /\ Unrouted(d) => cur'[d] = s /\ Unrouted(d)'
               /\ pc[d] = "rm_clean" => cur'[d] = s /\ pc'[d] = "rm_clean"
    <3>1. CASE d = c
      BY <1>5, <1>7, <3>1 DEF Busy, Joining, Unrouted
    <3>2. CASE d # c
      BY <1>1, <2>2, <3>2, OthersBusy
    <3> QED BY <3>1, <3>2
  <2>3. WriteDue(s) => WriteDue(s)'
    BY <1>5, <1>7, <2>2 DEF WriteDue
  <2>4. RecordOf(s)'
    BY <1>4, <1>5, <1>6, <2>1, <2>2, <2>3 DEF StoredOf, RecordOf, OnRecord
  <2>5. RouteOf(s)' /\ EmptyOf(s)'
    BY <1>4, <1>5, <1>6, <2>1, <2>2 DEF StoredOf, RouteOf, EmptyOf
  <2>6. FlagOf(s)'
    BY <1>5, <1>7 DEF FlagOf
  <2> QED BY <2>4, <2>5, <2>6 DEF StoredOf
<1>9. JoinOf(c)'
  BY NotJoining
<1> QED BY <1>1, <1>2, <1>3, <1>4, <1>5, <1>6, <1>8, <1>9, NoneAssumption, RecObject

\* The search adds the endpoint: its route and its record are to come.
LEMMA RecMerge ==
  ASSUME TypeInv, LockInv, IdInv, OwnInv, RecInv, NEW c \in Clients, FindExistingSubs(c),
         pc'[c] = "merge"
  PROVE  RecInv'
<1>1. OthersStay(c)
  BY StayStep DEF Step
<1>2. PICK s \in Objects : s = cur[c]
  BY DEF FindExistingSubs, TypeInv, TypeOK, GoTypes
<1>3. s \in Registered
  BY <1>2, NoneAssumption DEF IdInv, FoundRegistered, FindExistingSubs
<1>4. PICK h \in Ids : h = subs[s].id /\ register[h] = s
  BY <1>3, Filed
<1>5. /\ pc[c] = "find" /\ op'[c] = "merge" /\ cur'[c] = s /\ smutex[s] = None
      /\ subs[s].eps # {} /\ Endpoint[c] \notin subs[s].eps
      /\ subs' = [subs EXCEPT ![s].eps = @ \cup {Endpoint[c]}]
      /\ UNCHANGED <<register, db, routes>>
  BY <1>2 DEF FindExistingSubs, IsMergeable, Goto, envVars, TypeInv, TypeOK, GoTypes
<1>6. /\ \A o \in Objects \ {s} : Keeps(o)
      /\ subs'[s].id = h /\ subs'[s].content = subs[s].content /\ subs'[s].route = subs[s].route
      /\ subs'[s].eps = subs[s].eps \cup {Endpoint[c]} /\ subs'[s].retry = subs[s].retry
  BY <1>4, <1>5 DEF TypeInv, TypeOK, RegTypes, Subscription, Keeps
<1>7. ~Busy(c) /\ Joining(c)' /\ Unrouted(c)'
  BY <1>5 DEF Busy, Writing, Removing, Joining, Unrouted
<1>8. StoredOf(s)'
  <2>1. StoredOf(s)
    BY <1>3 DEF RecInv, Records
  <2>2. ASSUME NEW d \in Clients, cur[d] = s
        PROVE  /\ Writing(d) => d # c /\ cur'[d] = s /\ Writing(d)'
               /\ Removing(d) => cur'[d] = s /\ Removing(d)'
               /\ Joining(d) => cur'[d] = s /\ Joining(d)'
               /\ Unrouted(d) => cur'[d] = s /\ Unrouted(d)'
    <3>1. CASE d = c
      BY <1>5, <1>7, <3>1 DEF Busy, Joining, Unrouted
    <3>2. CASE d # c
      BY <1>1, <2>2, <3>2, OthersBusy
    <3> QED BY <3>1, <3>2
  <2>3. WriteDue(s) => WriteDue(s)'
    BY <1>6, <2>2 DEF WriteDue
  <2>4. RecordOf(s)'
    BY <1>4, <1>5, <1>6, <1>7, <2>1, <2>2, <2>3 DEF StoredOf, RecordOf, OnRecord
  <2>5. RouteOf(s)' /\ EmptyOf(s)'
    BY <1>4, <1>5, <1>6, <1>7, <2>1, <2>2 DEF StoredOf, RouteOf, EmptyOf
  <2>6. FlagOf(s)'
    BY <1>6, <2>1, <2>2 DEF StoredOf, FlagOf
  <2> QED BY <2>4, <2>5, <2>6 DEF StoredOf
<1>9. JoinOf(c)'
  BY <1>5, <1>6 DEF JoinOf, Allocating
<1>10. \A d \in Clients \ {c} : Joining(d) => cur[d] # s
  BY <1>5, JoinLocked DEF InRegistry
<1> QED BY <1>1, <1>2, <1>3, <1>4, <1>5, <1>6, <1>8, <1>9, <1>10, NoneAssumption, RecObject

\* The route of a new or a merged request is made or refused.
LEMMA RecRoute ==
  ASSUME Orderly, TypeInv, LockInv, IdInv, OwnInv, RecInv, NEW c \in Clients, RouteCreate(c)
  PROVE  RecInv'
<1>1. OthersStay(c) /\ cur[c] \in Objects /\ WorkOf(c, cur[c]) /\ subs[cur[c]].id \in Ids
  BY WorkStart DEF RouteCreate, Step, AtWork
<1>2. PICK s \in Objects : s = cur[c]
  BY <1>1
<1>3. PICK h \in Ids : h = subs[s].id
  BY <1>1, <1>2
<1>4. /\ pc[c] = "route" /\ pc'[c] = "insert" /\ UNCHANGED <<register, db, subs, cur, op>>
      /\ \/ event'[c] = "error" /\ UNCHANGED routes
         \/ c \notin Routed /\ UNCHANGED routes
         \/ routes' = [routes EXCEPT ![h] = subs[s].eps]
  BY <1>2, <1>3 DEF RouteCreate, Goto, regVars, TypeInv, TypeOK, GoTypes
<1>5. /\ \A i \in Ids \ {h} : routes'[i] = routes[i]
      /\ \/ UNCHANGED routes
         \/ routes'[h] = subs[s].eps
  BY <1>4 DEF TypeInv, TypeOK, EnvTypes
<1>6. subs[s].route <=> c \in Routed
  BY <1>1, <1>2 DEF RecInv, Wanted, WantOf, WorkOf, Suits
<1>7. (\A o \in Objects : Keeps(o)) /\ Joining(c) /\ Joining(c)' /\ ~Writing(c) /\ ~Removing(c)
  BY <1>4 DEF Keeps, Joining, Writing, Removing
<1>8. JoinOf(c)'
  <2>1. JoinOf(c) /\ (c \in Allocating' <=> c \in Allocating)
    BY <1>4 DEF RecInv, Joins, Allocating
  <2>2. ~Unrouted(c)' /\ subs[s].route => subs[s].eps \subseteq routes'[h]
    BY <1>3, <1>4, <1>5, <1>6 DEF Unrouted, TypeInv, TypeOK, EnvTypes
  <2> QED BY <1>2, <1>3, <1>4, <1>7, <2>1, <2>2 DEF JoinOf
<1>9. ASSUME s \in Registered PROVE StoredOf(s)'
  <2>1. StoredOf(s)
    BY <1>9 DEF RecInv, Records
  <2>2. ASSUME NEW d \in Clients, cur[d] = s
        PROVE  /\ Writing(d) => cur'[d] = s /\ Writing(d)'
               /\ Removing(d) => cur'[d] = s /\ Removing(d)'
               /\ Joining(d) => cur'[d] = s /\ Joining(d)'
               /\ d # c /\ Unrouted(d) => cur'[d] = s /\ Unrouted(d)'
               /\ pc[d] = "rm_clean" => cur'[d] = s /\ pc'[d] = "rm_clean"
    <3>1. CASE d = c
      BY <1>2, <1>4, <1>7, <3>1
    <3>2. CASE d # c
      BY <1>1, <2>2, <3>2, OthersBusy
    <3> QED BY <3>1, <3>2
  <2>3. WriteDue(s) => WriteDue(s)'
    BY <1>4, <2>2 DEF WriteDue
  <2>4. RecordOf(s)'
    BY <1>4, <2>1, <2>2, <2>3 DEF StoredOf, RecordOf, OnRecord
  <2>5. EmptyOf(s)' /\ FlagOf(s)'
    BY <1>4, <2>1, <2>2 DEF StoredOf, FlagOf, EmptyOf
  <2>6. RouteOf(s)'
    <3>1. CASE routes' = [routes EXCEPT ![h] = subs[s].eps]
      BY <1>3, <1>4, <3>1 DEF RouteOf, TypeInv, TypeOK, EnvTypes
    <3>2. CASE c \notin Routed
      BY <1>4, <1>6, <3>2 DEF RouteOf
    <3>3. CASE event'[c] = "error" /\ UNCHANGED routes
      <4>1. Unrouted(c)' /\ cur'[c] = s
        BY <1>2, <1>4, <3>3 DEF Unrouted
      <4> QED BY <1>4, <2>1, <2>2, <3>3, <4>1 DEF StoredOf, RouteOf
    <3> QED BY <1>4, <3>1, <3>2, <3>3
  <2> QED BY <2>4, <2>5, <2>6 DEF StoredOf
<1>10. s \in Registered \/ c \in Allocating
  BY <1>1, <1>2, <1>4, Home DEF WorkOf, Listed
<1>11. CASE s \in Registered
  <2>1. register[h] = s
    BY <1>3, <1>11, Filed
  <2> QED BY <1>1, <1>2, <1>3, <1>4, <1>5, <1>7, <1>8, <1>9, <1>11, <2>1, NoneAssumption, RecObject DEF Keeps
<1>12. CASE c \in Allocating
  <2>1. register[h] = None /\ s \notin Registered /\ s # None
    BY <1>2, <1>3, <1>12, NewApart, NoneAssumption
  <2>2. db[h] = None
    BY <2>1 DEF RecInv, NoRecord
  <2> QED BY <1>1, <1>2, <1>3, <1>4, <1>5, <1>7, <1>8, <1>12, <2>1, <2>2, RecObject DEF Keeps
<1> QED BY <1>10, <1>11, <1>12

\* The refused route of a merged request takes its endpoint out again; the one
\* of a new request leaves an object that was never registered.
LEMMA RecRollBack ==
  ASSUME Orderly, TypeInv, LockInv, IdInv, OwnInv, RecInv, NEW c \in Clients, AssignInsert(c),
         event[c] = "error"
  PROVE  RecInv'
<1>1. OthersStay(c) /\ cur[c] \in Objects /\ WorkOf(c, cur[c]) /\ subs[cur[c]].id \in Ids
  BY WorkStart DEF AssignInsert, Step, AtWork
<1>2. PICK s \in Objects : s = cur[c]
  BY <1>1
<1>3. PICK h \in Ids : h = subs[s].id
  BY <1>1, <1>2
<1>4. /\ pc[c] = "insert" /\ pc'[c] = "idle" /\ UNCHANGED <<register, db, routes>>
      /\ subs' = [subs EXCEPT ![s].eps = @ \ {Endpoint[c]}]
  BY <1>2 DEF AssignInsert, RollBack, Return, Goto, envVars, TypeInv, TypeOK, GoTypes
<1>5. /\ \A o \in Objects \ {s} : Keeps(o)
      /\ subs'[s].id = h /\ subs'[s].content = subs[s].content /\ subs'[s].route = subs[s].route
      /\ subs'[s].eps = subs[s].eps \ {Endpoint[c]} /\ subs'[s].retry = subs[s].retry
  BY <1>3, <1>4 DEF TypeInv, TypeOK, RegTypes, Subscription, Keeps
<1>6. ~Writing(c) /\ ~Removing(c) /\ Joining(c) /\ JoinOf(c) /\ JoinOf(c)'
  BY <1>4, NotJoining DEF RecInv, Joins, Joining, Writing, Removing
<1>7. \A d \in Clients \ {c} : Joining(d) => cur[d] # s
  <2>1. smutex[s] = c
    BY <1>2, <1>4 DEF LockInv, ObjectHeld, InObject
  <2>2. rmutex = None
    BY DEF AssignInsert
  <2> QED BY <2>1, <2>2, JoinLocked
<1>8. CASE c \in Allocating
  <2>1. register[h] = None /\ s \notin Registered /\ s # None
    BY <1>2, <1>3, <1>8, NewApart, NoneAssumption
  <2>2. db[h] = None
    BY <2>1 DEF RecInv, NoRecord
  <2> QED BY <1>1, <1>2, <1>3, <1>4, <1>5, <1>6, <1>7, <1>8, <2>1, <2>2, RecObject
<1>9. CASE c \notin Allocating
  <2>1. s \in Registered
    BY <1>1, <1>2, <1>4, <1>9, Home DEF WorkOf, Listed
  <2>2. register[h] = s /\ StoredOf(s)
    BY <1>3, <2>1, Filed DEF RecInv, Records
  <2>3. ASSUME NEW d \in Clients, cur[d] = s
        PROVE  /\ Writing(d) => cur'[d] = s /\ Writing(d)'
               /\ Removing(d) => cur'[d] = s /\ Removing(d)'
               /\ d # c => ~Joining(d) /\ ~Unrouted(d)
    <3>1. CASE d = c
      BY <1>6, <3>1
    <3>2. CASE d # c
      BY <1>1, <1>7, <2>3, <3>2, OthersBusy DEF Joining, Unrouted
    <3> QED BY <3>1, <3>2
  <2>4. WriteDue(s) => WriteDue(s)'
    BY <1>5, <2>3 DEF WriteDue
  <2>5. RecordOf(s)'
    BY <1>3, <1>4, <1>5, <2>2, <2>3, <2>4 DEF StoredOf, RecordOf, OnRecord
  <2>6. RouteOf(s)'
    BY <1>3, <1>4, <1>5, <2>2, <2>3 DEF StoredOf, RouteOf
  <2>7. FlagOf(s)'
    BY <1>5, <2>2, <2>3 DEF StoredOf, FlagOf
  <2>8. EmptyOf(s)'
    BY <1>2, <1>5, <1>6, <1>9 DEF JoinOf, EmptyOf
  <2>9. StoredOf(s)'
    BY <2>5, <2>6, <2>7, <2>8 DEF StoredOf
  <2> QED BY <1>1, <1>2, <1>3, <1>4, <1>5, <1>6, <1>7, <2>1, <2>2, <2>9, NoneAssumption, RecObject
<1> QED BY <1>8, <1>9

\* A request enters the register, or the subscription it was merged into: its
\* record is due.
LEMMA RecInsert ==
  ASSUME Orderly, TypeInv, LockInv, IdInv, OwnInv, RecInv, NEW c \in Clients, AssignInsert(c),
         event[c] # "error"
  PROVE  RecInv'
<1>1. /\ OthersStay(c) /\ cur[c] \in Objects /\ WorkOf(c, cur[c]) /\ subs[cur[c]].id \in Ids
      /\ ControlOf(c)
  BY WorkStart DEF AssignInsert, Step, AtWork
<1>2. PICK s \in Objects : s = cur[c]
  BY <1>1
<1>3. PICK h \in Ids : h = subs[s].id
  BY <1>1, <1>2
<1>4. /\ pc[c] = "insert" /\ pc'[c] = "begin" /\ UNCHANGED <<db, routes, subs, op, cur>>
      /\ register' = IF op[c] = "create" THEN [register EXCEPT ![h] = s] ELSE register
  BY <1>2, <1>3 DEF AssignInsert, Goto, envVars, TypeInv, TypeOK, GoTypes
<1>5. /\ ~Writing(c) /\ ~Removing(c) /\ Joining(c) /\ ~Unrouted(c) /\ JoinOf(c) /\ JoinOf(c)'
      /\ Writing(c)' /\ cur'[c] = s
  BY <1>1, <1>2, <1>4, NotJoining DEF RecInv, Joins, Joining, Unrouted, Writing, Removing, ControlOf
<1>6. \A o \in Objects : Keeps(o)
  BY <1>4 DEF Keeps
<1>7. ASSUME NEW d \in Clients, cur[d] = s
      PROVE  /\ Writing(d) => d # c /\ cur'[d] = s /\ Writing(d)'
             /\ Removing(d) => cur'[d] = s /\ Removing(d)'
             /\ d # c /\ Joining(d) => cur'[d] = s /\ Joining(d)'
             /\ Unrouted(d) => cur'[d] = s /\ Unrouted(d)'
             /\ pc[d] = "rm_clean" => cur'[d] = s /\ pc'[d] = "rm_clean"
  <2>1. CASE d = c
    BY <1>4, <1>5, <2>1
  <2>2. CASE d # c
    BY <1>1, <1>7, <2>2, OthersBusy
  <2> QED BY <2>1, <2>2
<1>8. CASE op[c] = "create"
  <2>1. c \in Allocating
    BY <1>4, <1>8 DEF Allocating
  <2>2. register[h] = None /\ s # None
    BY <1>2, <1>3, <2>1, NewApart, NoneAssumption
  <2>3. register'[h] = s /\ \A i \in Ids \ {h} : register'[i] = register[i]
    BY <1>4, <1>8 DEF TypeInv, TypeOK, RegTypes
  <2>4. ~subs[s].retry /\ subs[s].eps = {Endpoint[c]}
    BY <1>2, <1>5, <2>1 DEF JoinOf, IdInv, AllocatedEps
  <2>5. WriteDue(s)' /\ EmptyOf(s)' /\ FlagOf(s)'
    BY <1>4, <1>5, <2>4 DEF WriteDue, EmptyOf, FlagOf
  <2>6. RouteOf(s)'
    BY <1>2, <1>4, <1>5, <2>1 DEF JoinOf, RouteOf
  <2>7. StoredOf(s)'
    BY <2>5, <2>6 DEF StoredOf, RecordOf
  <2> QED BY <1>1, <1>2, <1>3, <1>4, <1>5, <1>6, <2>1, <2>2, <2>3, <2>7, RecObject DEF Keeps
<1>9. CASE op[c] # "create"
  <2>1. s \in Registered
    BY <1>1, <1>2, <1>4, <1>9, Home DEF WorkOf, Listed, Allocating
  <2>2. register[h] = s /\ StoredOf(s) /\ register' = register
    BY <1>3, <1>4, <1>9, <2>1, Filed DEF RecInv, Records
  <2>3. WriteDue(s)'
    <3>1. CASE subs[s].retry
      <4>1. PICK d \in Clients : cur[d] = s /\ Writing(d)
        BY <2>2, <3>1 DEF StoredOf, FlagOf
      <4>2. d # c /\ cur'[d] = s /\ Writing(d)'
        BY <1>7, <4>1
      <4> QED BY <1>5, <4>2 DEF WriteDue
    <3>2. CASE ~subs[s].retry
      BY <1>4, <1>5, <3>2 DEF WriteDue
    <3> QED BY <3>1, <3>2
  <2>4. RouteOf(s)'
    BY <1>4, <1>7, <2>2 DEF StoredOf, RouteOf
  <2>5. FlagOf(s)' /\ EmptyOf(s)'
    BY <1>4, <1>5, <1>7, <2>2 DEF StoredOf, FlagOf, EmptyOf
  <2>6. StoredOf(s)'
    BY <2>3, <2>4, <2>5 DEF StoredOf, RecordOf
  <2> QED BY <1>1, <1>2, <1>3, <1>4, <1>5, <1>6, <2>1, <2>2, <2>6, NoneAssumption, RecObject DEF Keeps
<1> QED BY <1>8, <1>9

\* A new object is nobody's, and its id has no record.
LEMMA RecNew ==
  ASSUME UniformRoutes, TypeInv, LockInv, IdInv, OwnInv, RecInv, NEW c \in Clients, AllocateSubs(c),
         NEW s \in Garbage, NewObject(c, s)
  PROVE  RecInv'
<1>1. OthersStay(c)
  BY StayStep DEF Step
<1>2. PICK h \in Ids : h = Head(subIds)
  BY QueueTail DEF NewObject, TypeInv, TypeOK, RegTypes
<1>3. s \in Objects /\ s \notin Registered /\ \A d \in Clients : cur[d] # s
  BY DEF Garbage
<1>4. /\ pc[c] = "find" /\ pc'[c] = "route" /\ cur'[c] = s /\ op'[c] = "create"
      /\ UNCHANGED <<register, db, routes>>
  BY DEF AllocateSubs, NewObject, Goto, TypeInv, TypeOK, GoTypes, envVars, LockInv, FindCreates
<1>5. subs'[s] = NewSubscription(c, h) /\ \A o \in Objects \ {s} : subs'[o] = subs[o]
  BY <1>2, <1>3 DEF NewObject, TypeInv, TypeOK, RegTypes
<1>6. subs'[s].content = Content[c] /\ (subs'[s].route <=> c \in Routed) /\ ~subs'[s].retry
  <2>1. PICK q : q = NewSubscription(c, h)
    OBVIOUS
  <2>2. q.content = Content[c] /\ q.route = (c \in Routed) /\ q.retry = FALSE
    BY <2>1 DEF NewSubscription
  <2> QED BY <1>5, <2>1, <2>2
<1>7. \A o \in Objects \ {s} : Keeps(o)
  BY <1>5 DEF Keeps
<1>8. ~Busy(c) /\ Unrouted(c)' /\ c \in Allocating'
  BY <1>4 DEF Busy, Writing, Removing, Joining, Unrouted, Allocating
<1>9. NoRecord'
  BY <1>4 DEF RecInv, NoRecord
<1>10. Records'
  <2>1. Registered' = Registered
    BY <1>4 DEF Registered
  <2>2. \A o \in Registered : o \in Objects \ {s} /\ StoredOf(o)
    BY <1>3, Filed DEF RecInv, Records
  <2>3. GoesOn(c)
    BY <1>8 DEF GoesOn
  <2> QED BY <1>1, <1>4, <1>7, <2>1, <2>2, <2>3, StoredKept DEF Records
<1>11. Joins'
  <2>1. ASSUME NEW d \in Clients \ {c} PROVE JoinOf(d)'
    <3>1. JoinOf(d)
      BY DEF RecInv, Joins
    <3>2. Joining(d) => cur[d] \in Objects \ {s}
      BY <1>3, AtObject DEF Joining, AtWork
    <3>3. d \in Allocating => cur[d] \in Objects \ {s}
      BY <1>3, NewApart
    <3> QED BY <1>1, <1>4, <1>7, <3>1, <3>2, <3>3, JoinKept DEF Keeps
  <2>2. JoinOf(c)'
    BY <1>4, <1>6, <1>8 DEF JoinOf
  <2> QED BY <2>1, <2>2 DEF Joins
<1>12. Wanted'
  <2>1. WantOf(s)'
    BY <1>6 DEF WantOf, UniformRoutes
  <2>2. ASSUME NEW o \in Objects \ {s} PROVE WantOf(o)'
    BY <1>5 DEF RecInv, Wanted, WantOf
  <2> QED BY <2>1, <2>2 DEF Wanted
<1> QED BY <1>9, <1>10, <1>11, <1>12 DEF RecInv

\* A record that is written holds the whole list.
LEMMA Written ==
  ASSUME TypeInv, NEW s \in Objects, NEW h \in Ids, h = subs[s].id, db' = WriteSubscriptionToDb(s)
  PROVE  /\ db'[h] # None /\ db'[h].eps = subs[s].eps
         /\ \A i \in Ids \ {h} : db'[i] = db[i]
<1>1. PICK q : q = Info(s)
  OBVIOUS
<1>2. PICK r \in Subscription : r = subs[s]
  BY DEF TypeInv, TypeOK, RegTypes
<1>3. q.eps = subs[s].eps
  BY <1>1 DEF Info
<1>4. q \in SubscriptionInfo
  BY <1>1, <1>2 DEF Info, SubscriptionInfo, Subscription
<1>5. db'[h] = q /\ \A i \in Ids \ {h} : db'[i] = db[i]
  BY <1>1 DEF WriteSubscriptionToDb, TypeInv, TypeOK, EnvTypes
<1> QED BY <1>3, <1>4, <1>5, RecordAssumption

\* The record is written, before the request is sent or when it has been
\* answered, or the flag for repeated requests is cleared instead.
LEMMA RecStore ==
  ASSUME Orderly, TypeInv, LockInv, IdInv, OwnInv, RecInv, NEW c \in Clients,
         UpdateSubscriptionInDB(c) \/ (SendSubReq(c) /\ pc'[c] # "db_remove")
  PROVE  RecInv'
<1>1. /\ OthersStay(c) /\ cur[c] \in Objects /\ WorkOf(c, cur[c]) /\ subs[cur[c]].id \in Ids
      /\ ControlOf(c)
  BY WorkStart DEF UpdateSubscriptionInDB, SendSubReq, Step, AtWork
<1>2. PICK s \in Objects : s = cur[c]
  BY <1>1
<1>3. PICK h \in Ids : h = subs[s].id
  BY <1>1, <1>2
<1>4. /\ pc[c] \in {"e2req", "db_write"} /\ UNCHANGED <<register, routes, cur, op>>
      /\ \/ /\ pc'[c] = "e2wait" /\ pc[c] = "e2req" /\ db' = WriteSubscriptionToDb(s) /\ UNCHANGED subs
         \/ /\ pc'[c] = "event" /\ pc[c] = "db_write" /\ db' = WriteSubscriptionToDb(s)
            /\ UNCHANGED subs /\ ~subs[s].retry
         \/ /\ pc'[c] = "event" /\ pc[c] = "db_write" /\ UNCHANGED db
            /\ subs' = [subs EXCEPT ![s].retry = FALSE] /\ subs[s].retry
  <2>0. pc \in [Clients -> Places]
    BY DEF TypeInv, TypeOK, GoTypes
  <2>1. CASE UpdateSubscriptionInDB(c)
    BY <1>2, <2>0, <2>1 DEF UpdateSubscriptionInDB, Goto, Orderly
  <2>2. CASE SendSubReq(c) /\ pc'[c] # "db_remove"
    BY <1>2, <2>0, <2>2 DEF SendSubReq, Goto
  <2> QED BY <2>1, <2>2
<1>5. /\ \A o \in Objects \ {s} : Keeps(o)
      /\ subs'[s].id = h /\ subs'[s].content = subs[s].content /\ subs'[s].route = subs[s].route
      /\ subs'[s].eps = subs[s].eps
  BY <1>3, <1>4 DEF TypeInv, TypeOK, RegTypes, Subscription, Keeps
<1>6. \A i \in Ids \ {h} : db'[i] = db[i]
  BY <1>3, <1>4, Written
<1>7. Writing(c) /\ ~Removing(c) /\ ~Joining(c) /\ ~Unrouted(c) /\ JoinOf(c)'
  BY <1>1, <1>4, NotJoining DEF Writing, Removing, Joining, Unrouted, ControlOf
<1>8. s \in Registered
  BY <1>1, <1>2, <1>4, Home DEF WorkOf, Listed, Allocating
<1>9. register[h] = s /\ StoredOf(s)
  BY <1>3, <1>8, Filed DEF RecInv, Records
<1>10. ASSUME NEW d \in Clients, cur[d] = s
       PROVE  /\ d # c /\ Writing(d) => cur'[d] = s /\ Writing(d)'
              /\ Removing(d) => cur'[d] = s /\ Removing(d)'
              /\ Joining(d) => cur'[d] = s /\ Joining(d)'
              /\ Unrouted(d) => cur'[d] = s /\ Unrouted(d)'
              /\ pc[d] = "rm_clean" => cur'[d] = s /\ pc'[d] = "rm_clean"
  <2>1. CASE d = c
    BY <1>4, <1>7, <2>1
  <2>2. CASE d # c
    BY <1>1, <1>10, <2>2, OthersBusy
  <2> QED BY <2>1, <2>2
<1>11. RouteOf(s)' /\ EmptyOf(s)'
  BY <1>3, <1>4, <1>5, <1>9, <1>10 DEF StoredOf, RouteOf, EmptyOf
<1>12. FlagOf(s)'
  <2>1. CASE pc'[c] = "e2wait"
    BY <1>1, <1>2, <1>4, <2>1 DEF FlagOf, Writing, ControlOf
  <2>2. CASE ~subs'[s].retry
    BY <2>2 DEF FlagOf
  <2>3. subs' = [subs EXCEPT ![s].retry = FALSE] => subs'[s].retry = FALSE
    BY DEF TypeInv, TypeOK, RegTypes, Subscription
  <2> QED BY <1>4, <2>1, <2>2, <2>3
<1>13. RecordOf(s)'
  <2>1. CASE db' = WriteSubscriptionToDb(s)
    BY <1>3, <1>5, <2>1, Written DEF RecordOf, OnRecord
  <2>2. CASE UNCHANGED db /\ subs' = [subs EXCEPT ![s].retry = FALSE] /\ subs[s].retry
    <3>1. ~subs'[s].retry
      BY <2>2 DEF TypeInv, TypeOK, RegTypes, Subscription
    <3>2. WriteDue(s) => WriteDue(s)'
      BY <1>10, <2>2, <3>1 DEF WriteDue
    <3> QED BY <1>3, <1>5, <1>9, <1>10, <2>2, <3>2 DEF StoredOf, RecordOf, OnRecord
  <2> QED BY <1>4, <2>1, <2>2
<1>14. StoredOf(s)'
  BY <1>11, <1>12, <1>13 DEF StoredOf
<1> QED BY <1>1, <1>2, <1>3, <1>4, <1>5, <1>6, <1>7, <1>8, <1>9, <1>14, NoneAssumption, RecObject

\* The record is erased by a request that is about to remove its endpoint.
LEMMA RecErase ==
  ASSUME Orderly, TypeInv, LockInv, IdInv, OwnInv, RecInv, NEW c \in Clients,
         RemoveSubscriptionFromDb(c)
  PROVE  RecInv'
<1>1. /\ OthersStay(c) /\ cur[c] \in Objects /\ WorkOf(c, cur[c]) /\ subs[cur[c]].id \in Ids
  BY WorkStart DEF RemoveSubscriptionFromDb, Step, AtWork
<1>2. PICK s \in Objects : s = cur[c]
  BY <1>1
<1>3. PICK h \in Ids : h = subs[s].id
  BY <1>1, <1>2
<1>4. /\ pc[c] = "db_remove" /\ pc'[c] = "rm_lock" /\ UNCHANGED <<register, routes, cur>>
      /\ db' = [db EXCEPT ![h] = None] /\ subs' = [subs EXCEPT ![s].retry = FALSE]
  BY <1>2, <1>3 DEF RemoveSubscriptionFromDb, WithoutRecord, MayFail, Orderly, Goto, TypeInv,
                    TypeOK, GoTypes
<1>5. /\ \A o \in Objects \ {s} : Keeps(o)
      /\ subs'[s].id = h /\ subs'[s].content = subs[s].content /\ subs'[s].route = subs[s].route
      /\ subs'[s].eps = subs[s].eps /\ ~subs'[s].retry
  BY <1>3, <1>4 DEF TypeInv, TypeOK, RegTypes, Subscription, Keeps
<1>6. \A i \in Ids \ {h} : db'[i] = db[i]
  BY <1>4 DEF TypeInv, TypeOK, EnvTypes
<1>7. Removing(c)' /\ JoinOf(c)' /\ cur'[c] = s /\ ~Unrouted(c)
  BY <1>2, <1>4, NotJoining DEF Removing, Unrouted
<1>8. s \in Registered
  BY <1>1, <1>2, <1>4, Home DEF WorkOf, Listed, Allocating
<1>9. register[h] = s /\ StoredOf(s)
  BY <1>3, <1>8, Filed DEF RecInv, Records
<1>10. ASSUME NEW d \in Clients, cur[d] = s
       PROVE  /\ Unrouted(d) => cur'[d] = s /\ Unrouted(d)'
              /\ pc[d] = "rm_clean" => cur'[d] = s /\ pc'[d] = "rm_clean"
  <2>1. CASE d = c
    BY <1>4, <1>7, <2>1
  <2>2. CASE d # c
    BY <1>1, <1>10, <2>2, OthersBusy
  <2> QED BY <2>1, <2>2
<1>11. RouteOf(s)' /\ EmptyOf(s)'
  BY <1>3, <1>4, <1>5, <1>9, <1>10 DEF StoredOf, RouteOf, EmptyOf
<1>12. FlagOf(s)' /\ RecordOf(s)'
  BY <1>5, <1>7 DEF FlagOf, RecordOf, WriteDue
<1>13. StoredOf(s)'
  BY <1>11, <1>12 DEF StoredOf
<1> QED BY <1>1, <1>2, <1>3, <1>4, <1>5, <1>6, <1>7, <1>8, <1>9, <1>13, NoneAssumption, RecObject

\* An endpoint leaves the list; the object is cleaned next.
LEMMA RecRemove ==
  ASSUME Orderly, TypeInv, LockInv, IdInv, OwnInv, RecInv, NEW c \in Clients, RemoveEndpoint(c),
         pc[c] = "rm_del"
  PROVE  RecInv'
<1>1. /\ OthersStay(c) /\ cur[c] \in Objects /\ WorkOf(c, cur[c]) /\ subs[cur[c]].id \in Ids
  BY WorkStart DEF RemoveEndpoint, Step, AtWork
<1>2. PICK s \in Objects : s = cur[c]
  BY <1>1
<1>3. PICK h \in Ids : h = subs[s].id
  BY <1>1, <1>2
<1>4. DelStatus(s, c)
  BY <1>1, <1>2 DEF WorkOf, Listed, DelStatus
<1>5. /\ pc'[c] = "rm_clean" /\ UNCHANGED <<register, db, routes, cur>> /\ smutex[s] = None
      /\ subs' = [subs EXCEPT ![s].eps = @ \ {Endpoint[c]}]
  BY <1>2, <1>4 DEF RemoveEndpoint, Goto, envVars, TypeInv, TypeOK, GoTypes
<1>6. /\ \A o \in Objects \ {s} : Keeps(o)
      /\ subs'[s].id = h /\ subs'[s].content = subs[s].content /\ subs'[s].route = subs[s].route
      /\ subs'[s].eps = subs[s].eps \ {Endpoint[c]} /\ subs'[s].retry = subs[s].retry
  BY <1>3, <1>5 DEF TypeInv, TypeOK, RegTypes, Subscription, Keeps
<1>7. Removing(c)' /\ JoinOf(c)' /\ cur'[c] = s /\ ~Unrouted(c) /\ ~Writing(c)
  BY <1>2, <1>5, NotJoining DEF Removing, Unrouted, Writing
<1>8. s \in Registered
  BY <1>1, <1>2, Home DEF WorkOf, Listed, Allocating
<1>9. register[h] = s /\ StoredOf(s)
  BY <1>3, <1>8, Filed DEF RecInv, Records
<1>10. ASSUME NEW d \in Clients, cur[d] = s
       PROVE  /\ Unrouted(d) => cur'[d] = s /\ Unrouted(d)'
              /\ Writing(d) => cur'[d] = s /\ Writing(d)'
  <2>1. CASE d = c
    BY <1>7, <2>1
  <2>2. CASE d # c
    BY <1>1, <1>10, <2>2, OthersBusy
  <2> QED BY <2>1, <2>2
<1>11. RouteOf(s)' /\ FlagOf(s)'
  BY <1>3, <1>5, <1>6, <1>9, <1>10 DEF StoredOf, RouteOf, FlagOf
<1>12. EmptyOf(s)' /\ RecordOf(s)'
  BY <1>5, <1>7 DEF EmptyOf, RecordOf, WriteDue
<1>13. StoredOf(s)'
  BY <1>11, <1>12 DEF StoredOf
<1>14. \A d \in Clients \ {c} : Joining(d) => cur[d] # s
  <2>1. pc[c] = "rm_del"
    OBVIOUS
  <2> QED BY <1>5, <2>1, JoinLocked DEF InRegistry
<1> QED BY <1>1, <1>2, <1>3, <1>5, <1>6, <1>7, <1>8, <1>9, <1>13, <1>14, NoneAssumption, RecObject

\* The record of what is left is written, or the subscription ends.
LEMMA RecClean ==
  ASSUME Orderly, TypeInv, LockInv, IdInv, OwnInv, RecInv, NEW c \in Clients, RemoveClean(c)
  PROVE  RecInv'
<1>1. /\ OthersStay(c) /\ cur[c] \in Objects /\ subs[cur[c]].id \in Ids /\ ControlOf(c)
  BY WorkStart DEF RemoveClean, Step, AtWork
<1>2. PICK s \in Objects : s = cur[c]
  BY <1>1
<1>3. PICK h \in Ids : h = subs[s].id
  BY <1>1, <1>2
<1>4. /\ pc[c] = "rm_clean" /\ pc'[c] = "event" /\ UNCHANGED <<subs, cur>>
  BY <1>1 DEF RemoveClean, ControlOf, Goto, TypeInv, TypeOK, GoTypes
<1>5. register[h] = s /\ s # None
  BY <1>2, <1>3, <1>4, NoneAssumption DEF IdInv, CleaningRegistered, Cleaning
<1>6. s \in Registered
  BY <1>5 DEF Registered
<1>7. JoinOf(c)' /\ StoredOf(s) /\ ~Writing(c) /\ ~Unrouted(c) /\ \A o \in Objects : Keeps(o)
  BY <1>4, <1>6, NotJoining DEF RecInv, Records, Writing, Unrouted, Keeps
<1>8. \A i \in Ids \ {h} : routes'[i] = routes[i]
  BY <1>2, <1>3 DEF RemoveClean, MayFail, TypeInv, TypeOK, EnvTypes
<1>9. CASE subs[s].eps = {}
  <2>1. db' = [db EXCEPT ![h] = None] /\ register' = [register EXCEPT ![h] = None]
    BY <1>2, <1>3, <1>9 DEF RemoveClean, WithoutRecord, MayFail, Orderly
  <2>2. /\ db'[h] = None /\ register'[h] = None
        /\ \A i \in Ids \ {h} : register'[i] = register[i] /\ db'[i] = db[i]
    BY <2>1 DEF TypeInv, TypeOK, EnvTypes, RegTypes
  <2> QED BY <1>1, <1>2, <1>3, <1>4, <1>5, <1>6, <1>7, <1>8, <2>2, RecObject DEF Keeps
<1>10. CASE subs[s].eps # {}
  <2>1. /\ db' = WriteSubscriptionToDb(s) /\ UNCHANGED register
        /\ UNCHANGED routes \/ routes' = [routes EXCEPT ![h] = subs[s].eps]
    BY <1>2, <1>3, <1>10 DEF RemoveClean, MayFail, Orderly
  <2>2. /\ db'[h] # None /\ db'[h].eps = subs[s].eps
        /\ \A i \in Ids \ {h} : db'[i] = db[i]
    BY <1>3, <2>1, Written
  <2>3. UNCHANGED routes \/ routes'[h] = subs[s].eps
    BY <2>1 DEF TypeInv, TypeOK, EnvTypes
  <2>4. ASSUME NEW d \in Clients, cur[d] = s
        PROVE  /\ Unrouted(d) => cur'[d] = s /\ Unrouted(d)'
               /\ Writing(d) => cur'[d] = s /\ Writing(d)'
    <3>1. CASE d = c
      BY <1>7, <3>1
    <3>2. CASE d # c
      BY <1>1, <2>4, <3>2, OthersBusy
    <3> QED BY <3>1, <3>2
  <2>5. RecordOf(s)' /\ EmptyOf(s)'
    BY <1>3, <1>4, <1>10, <2>2 DEF RecordOf, OnRecord, EmptyOf
  <2>6. RouteOf(s)' /\ FlagOf(s)'
    BY <1>3, <1>4, <1>7, <2>3, <2>4 DEF StoredOf, RouteOf, FlagOf
  <2>7. StoredOf(s)'
    BY <2>5, <2>6 DEF StoredOf
  <2> QED BY <1>1, <1>2, <1>3, <1>4, <1>5, <1>6, <1>7, <1>8, <2>1, <2>2, <2>7, RecObject DEF Keeps
<1> QED BY <1>9, <1>10

LEMMA RecInit == Init => RecInv
<1> SUFFICES ASSUME Init PROVE RecInv
  OBVIOUS
<1>1. NoRecord /\ Records
  BY DEF Init, NoRecord, Records, Registered
<1>2. Joins
  BY DEF Init, Joins, JoinOf, Allocating, Joining
<1>3. Wanted
  <2>1. \A s \in Objects : subs[s].content = None
    BY DEF Init, Unused
  <2> QED BY <2>1, NoneAssumption DEF Wanted, WantOf
<1> QED BY <1>1, <1>2, <1>3 DEF RecInv

\* The steps that no request takes change nothing of this.
LEMMA RecSame ==
  ASSUME RecInv, UNCHANGED <<register, db, routes, subs, pc, op, cur, event>>
  PROVE  RecInv'
<1>1. NoRecord' /\ Wanted'
  BY DEF RecInv, NoRecord, Wanted, WantOf
<1>2. Joins'
  BY DEF RecInv, Joins, JoinOf, Allocating, Joining, Unrouted
<1>3. Records'
  BY DEF RecInv, Records, Registered, StoredOf, RecordOf, OnRecord, WriteDue, RouteOf, FlagOf,
         EmptyOf, Writing, Removing, Joining, Unrouted
<1> QED BY <1>1, <1>2, <1>3 DEF RecInv

LEMMA RecStep ==
  ASSUME Orderly, UniformRoutes, TypeInv, LockInv, IdInv, OwnInv, RecInv, [Next]_vars
  PROVE  RecInv'
<1>1. CASE UNCHANGED vars
  BY <1>1, RecSame DEF vars, regVars, goVars, envVars
<1>2. ASSUME NEW c \in Clients, Step(c)
      PROVE  RecInv'
  <2>0. pc \in [Clients -> Places]
    BY DEF TypeInv, TypeOK, GoTypes
  <2>1. CASE FindExistingSubs(c)
    <3>1. pc'[c] \in {"find", "begin", "merge"}
      BY <2>0, <2>1 DEF FindExistingSubs, Goto
    <3> QED BY <2>1, <3>1, RecSearch, RecRetry, RecMerge
  <2>2. CASE AllocateSubs(c)
    BY <2>2, AllocateCases, RecSearch, RecNew
  <2>3. CASE AssignInsert(c)
    BY <2>3, RecRollBack, RecInsert
  <2>4. CASE SendSubReq(c)
    BY <2>4, RecExchange, RecStore
  <2>5. CASE RemoveLock(c)
    BY <2>5, RecDelete, RecReport
  <2>6. CASE RemoveEndpoint(c)
    BY <2>6, RecRemove, RecReport
  <2>7. ~RemoveWake(c)
    BY DEF RemoveWake, OwnInv, Control, ControlOf
  <2> QED BY <1>2, <2>1, <2>2, <2>3, <2>4, <2>5, <2>6, <2>7, RecSearch, RecPolicy, RecMerging, RecRoute,
             RecBegin, RecExchange, RecDelete, RecStore, RecErase, RecReport, RecClean DEF Step
<1>3. ASSUME NEW c \in Clients, StartCreate(c) \/ \E i \in Ids : StartDelete(c, i)
      PROVE  RecInv'
  BY <1>3, RecStart
<1>4. ASSUME NEW s \in Objects, ReleaseTransactionTurn(s) PROVE RecInv'
  BY <1>4, RecSame DEF ReleaseTransactionTurn, regVars, goVars, envVars
<1>5. ~Sweep /\ ~E2Connect /\ \A kind : ~E2Break(kind)
  <2>1. sweep = NoSweep
    BY DEF IdInv
  <2>2. ~Sweep
    BY <2>1 DEF NoSweep, Sweep, SweepVisit, SweepRoutes, SweepDelete, SweepReturn, SweepRecord,
                SweepEnd
  <2> QED BY <2>2 DEF E2Break, E2Connect, OwnInv, Orderly
<1> QED BY <1>1, <1>2, <1>3, <1>4, <1>5 DEF Next

\* When nothing is in progress, SDL holds a record of every registered
\* subscription and of nothing else, and every endpoint of it is on record and
\* has its route: a write that a repeated request holds back is made up for by
\* that request or by another one, and a failed request that erases the record
\* of a subscription others are in writes it again (UpdateSubscriptionInDB,
\* RemoveFromSubscription).
THEOREM RecordsKept ==
  ASSUME Orderly, UniformRoutes
  PROVE  Spec => []RecordsAgree
<1>1. E2Events = {}
  BY DEF Orderly
<1>2. Init => TypeInv /\ LockInv /\ IdInv /\ OwnInv /\ RecInv
  BY TypeInit, LockInit, IdInit, OwnInit, RecInit
<1>3. TypeInv /\ LockInv /\ IdInv /\ OwnInv /\ RecInv /\ [Next]_vars
        => (TypeInv /\ LockInv /\ IdInv /\ OwnInv /\ RecInv)'
  BY <1>1, TypeStep, LockStep, IdStep, OwnStep, RecStep
<1>4. ASSUME TypeInv, IdInv, RecInv PROVE RecordsAgree
  <2> SUFFICES ASSUME Quiescent, NEW i \in Ids
               PROVE  IF register[i] = None
                      THEN db[i] = None
                      ELSE /\ db[i] # None
                           /\ subs[register[i]].eps \subseteq db[i].eps
                           /\ subs[register[i]].route => subs[register[i]].eps \subseteq routes[i]
    BY DEF RecordsAgree
  <2>1. CASE register[i] = None
    BY <1>4, <2>1 DEF RecInv, NoRecord
  <2>2. CASE register[i] # None
    <3>1. PICK s \in Registered : s = register[i] /\ subs[s].id = i
      BY <1>4, <2>2 DEF Registered, IdInv, RegisteredIds
    <3>2. StoredOf(s)
      BY <1>4 DEF RecInv, Records
    <3>3. \A c \in Clients : pc[c] = "idle"
      BY DEF Quiescent, Quiet
    <3>4. \A c \in Clients : ~Writing(c) /\ ~Removing(c) /\ ~Joining(c) /\ ~Unrouted(c)
      BY <3>3 DEF Writing, Removing, Joining, Unrouted
    <3>5. subs[s].eps # {}
      BY <3>2, <3>3 DEF StoredOf, EmptyOf
    <3>6. \A e \in subs[s].eps : OnRecord(s, e)
      BY <3>2, <3>4 DEF StoredOf, RecordOf, WriteDue
    <3>7. subs[s].route => subs[s].eps \subseteq routes[i]
      BY <3>1, <3>2, <3>4 DEF StoredOf, RouteOf
    <3> QED BY <2>2, <3>1, <3>5, <3>6, <3>7 DEF OnRecord
  <2> QED BY <2>1, <2>2
<1> QED BY <1>2, <1>3, <1>4, PTL DEF Spec
=============================================================================
