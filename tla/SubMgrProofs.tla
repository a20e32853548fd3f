---------------------------- MODULE SubMgrProofs ----------------------------
(***************************************************************************)
(* Proofs about SubMgr, for every set of clients, every number of ids and  *)
(* every bound: the types, who holds the mutexes, and the pool of E2       *)
(* instance ids, from which no id is ever lost and, as long as no E2       *)
(* connection breaks, no id is handed out twice.                           *)
(***************************************************************************)
EXTENDS SubMgr, TLAPS

\* A goroutine past the search of AssignToSubscription works on an object, and
\* an object that is referred to has an id.
InUse(s) == subs[s].id \in Ids

ObjectsInUse ==
  /\ \A c \in Clients :
       /\ pc[c] \notin {"idle", "assign", "find"} => cur[c] # None
       /\ cur[c] # None => InUse(cur[c])
  /\ \A i \in Ids : register[i] # None => InUse(register[i])
  /\ sweep.obj # None => InUse(sweep.obj)
  /\ \A s \in pinned : InUse(s)

TypeInv == TypeOK /\ ObjectsInUse

\* What sweep may hold.
Sweeps == [on : BOOLEAN, todo : SUBSET Ids, obj : Objects \cup {None},
           at : {"look", "routes", "delete", "append", "record"}, ids : Seq(Ids)]

LEMMA NoSweepTypes ==
  /\ NoSweep \in Sweeps /\ NoSweep.at = "look" /\ NoSweep.obj = None
  /\ [NoSweep EXCEPT !.on = TRUE, !.todo = Ids] \in Sweeps
  /\ [NoSweep EXCEPT !.on = TRUE, !.todo = Ids].at = "look"
  /\ [NoSweep EXCEPT !.on = TRUE, !.todo = Ids].obj = None
<1>1. NoSweep \in Sweeps
  BY DEF NoSweep, Sweeps
<1>2. NoSweep.at = "look" /\ NoSweep.obj = None
  BY DEF NoSweep
<1>3. PICK w \in Sweeps : w = NoSweep
  BY <1>1
<1> QED BY <1>1, <1>2, <1>3 DEF Sweeps

\* The initial states have the types.
LEMMA TypeInit == Init => TypeInv
<1> SUFFICES ASSUME Init PROVE TypeInv
  OBVIOUS
<1>1. LockTypes
  BY DEF Init, LockTypes
<1>2. RegTypes
  <2>1. Unused \in Subscription
    BY DEF Unused, Subscription, Answers
  <2>2. subIds \in Seq(Ids)
    BY BoundsAssumption DEF Init, InitialIds, Ids
  <2> QED BY <2>1, <2>2 DEF Init, RegTypes
<1>3. GoTypes
  BY DEF Init, GoTypes, Places, Operations, Answers
<1>4. XappTypes
  BY BoundsAssumption DEF Init, XappTypes
<1>5. EnvTypes
  BY DEF Init, EnvTypes
<1>6. E2Types
  <2>1. sweep \in Sweeps /\ (sweep.at = "look" <=> sweep.obj = None)
    BY DEF Init, NoSweep, Sweeps
  <2>2. raced \in BOOLEAN
    BY Zenon DEF Init
  <2>3. e2 = "up" /\ events \in 0..MaxE2Events /\ pinned = {}
    BY BoundsAssumption DEF Init
  <2> QED BY <2>1, <2>2, <2>3 DEF E2Types, Sweeps
<1>7. ObjectsInUse
  BY DEF Init, ObjectsInUse, NoSweep
<1> QED BY <1>1, <1>2, <1>3, <1>4, <1>5, <1>6, <1>7 DEF TypeInv, TypeOK

\* What a step leaves alone keeps its type.
LEMMA UnchangedTypes ==
  /\ LockTypes /\ UNCHANGED lockVars => LockTypes'
  /\ RegTypes /\ UNCHANGED regVars => RegTypes'
  /\ GoTypes /\ UNCHANGED goVars => GoTypes'
  /\ XappTypes /\ UNCHANGED xappVars => XappTypes'
  /\ EnvTypes /\ UNCHANGED envVars => EnvTypes'
  /\ E2Types /\ UNCHANGED e2Vars => E2Types'
BY DEF LockTypes, RegTypes, GoTypes, XappTypes, EnvTypes, E2Types, lockVars,
       regVars, goVars, xappVars, envVars, e2Vars

\* ObjectsInUse survives a step that keeps the ids of the objects and refers
\* to no object but those that were referred to before.
LEMMA InUseStep ==
  ASSUME TypeInv, RegTypes', GoTypes', E2Types',
         \A o \in Objects : subs[o].id \in Ids => subs'[o].id \in Ids,
         \A d \in Clients : pc'[d] \notin {"idle", "assign", "find"}
                              => cur'[d] # None,
         \A d \in Clients : \/ cur'[d] \in {cur[d], None} \cup Registered
                            \/ subs'[cur'[d]].id \in Ids,
         \A i \in Ids : \/ register'[i] \in {register[i], None}
                        \/ \E c \in Clients : register'[i] = cur[c],
         sweep'.obj \in {sweep.obj, None} \cup Registered,
         pinned' \subseteq pinned \cup Registered
  PROVE  ObjectsInUse'
<1> USE NoneAssumption
<1>1. \A o \in Registered : o \in Objects /\ subs[o].id \in Ids
  BY DEF TypeInv, TypeOK, RegTypes, Registered, ObjectsInUse, InUse
<1>2. \A c \in Clients : cur[c] # None => cur[c] \in Objects /\ subs[cur[c]].id \in Ids
  BY DEF TypeInv, TypeOK, GoTypes, ObjectsInUse, InUse
<1>3. \A d \in Clients : cur'[d] # None => subs'[cur'[d]].id \in Ids
  BY <1>1, <1>2
<1>4. \A i \in Ids : register'[i] # None => subs'[register'[i]].id \in Ids
  BY <1>1, <1>2 DEF TypeInv, TypeOK, RegTypes, Registered
<1>5. sweep'.obj # None => subs'[sweep'.obj].id \in Ids
  BY <1>1 DEF TypeInv, TypeOK, E2Types, ObjectsInUse, InUse
<1>6. \A o \in pinned' : subs'[o].id \in Ids
  BY <1>1 DEF TypeInv, TypeOK, E2Types, ObjectsInUse, InUse
<1> QED BY <1>3, <1>4, <1>5, <1>6 DEF ObjectsInUse, InUse

LEMMA FindSubs ==
  ASSUME TypeInv, NEW c \in Clients, FindExistingSubs(c)
  PROVE  /\ subs' \in [Objects -> Subscription]
         /\ \A o \in Objects : subs'[o].id = subs[o].id
<1>1. PICK s \in Objects : s = cur[c]
  BY DEF FindExistingSubs, TypeInv, TypeOK, GoTypes, RegTypes
<1>2. PICK e \in Endpoints : e = Endpoint[c]
  BY DEF Endpoints
<1>3. subs \in [Objects -> Subscription]
  BY DEF TypeInv, TypeOK, RegTypes
<1>4. CASE subs' = [subs EXCEPT ![s].retry = TRUE]
  BY <1>3, <1>4 DEF Subscription
<1>5. CASE subs' = [subs EXCEPT ![s].eps = @ \cup {e}]
  BY <1>3, <1>5 DEF Subscription
<1>6. CASE subs' = subs
  BY <1>3, <1>6
<1> QED BY <1>1, <1>2, <1>4, <1>5, <1>6 DEF FindExistingSubs

LEMMA FindTypes ==
  ASSUME TypeInv, NEW c \in Clients, FindExistingSubs(c)
  PROVE  TypeInv'
<1>1. PICK s \in Objects : s = cur[c]
  BY DEF FindExistingSubs, TypeInv, TypeOK, GoTypes, RegTypes
<1>2. LockTypes'
  BY <1>1 DEF FindExistingSubs, Unlock, TypeInv, TypeOK, LockTypes
<1>3. /\ subs' \in [Objects -> Subscription]
      /\ \A o \in Objects : subs'[o].id = subs[o].id
  BY FindSubs
<1>4. RegTypes'
  BY <1>3 DEF FindExistingSubs, TypeInv, TypeOK, RegTypes
<1>5. GoTypes'
  <2>1. cur' \in [Clients -> Objects \cup {None}]
    BY <1>1 DEF FindExistingSubs, TypeInv, TypeOK, GoTypes, RegTypes, Registered
  <2>2. seen' \in [Clients -> SUBSET Objects]
    BY <1>1 DEF FindExistingSubs, TypeInv, TypeOK, GoTypes
  <2>3. pc' \in [Clients -> Places]
    BY <1>1 DEF FindExistingSubs, Goto, TypeInv, TypeOK, GoTypes, Places
  <2>4. count' \in [Clients -> Int]
    BY <1>1 DEF FindExistingSubs, TypeInv, TypeOK, GoTypes, RegTypes, Subscription
  <2>5. op' \in [Clients -> Operations]
    BY <1>1 DEF FindExistingSubs, TypeInv, TypeOK, GoTypes, Operations
  <2> QED BY <2>1, <2>2, <2>3, <2>4, <2>5 DEF FindExistingSubs, TypeInv, TypeOK, GoTypes
<1>6. ObjectsInUse'
  <2>2. \A d \in Clients : cur'[d] \in {cur[d], None} \cup Registered
    BY <1>1 DEF FindExistingSubs, TypeInv, TypeOK, GoTypes
  <2>3. \A d \in Clients : pc'[d] \notin {"idle", "assign", "find"} => cur'[d] # None
    BY <1>1, NoneAssumption DEF FindExistingSubs, Goto, TypeInv, TypeOK, GoTypes, ObjectsInUse
  <2>4. UNCHANGED <<register, sweep, pinned>>
    BY DEF FindExistingSubs, e2Vars
  <2>5. E2Types'
    BY UnchangedTypes DEF FindExistingSubs, TypeInv, TypeOK
  <2> QED BY <1>3, <1>4, <1>5, <2>2, <2>3, <2>4, <2>5, InUseStep
<1> QED BY <1>2, <1>4, <1>5, <1>6, UnchangedTypes DEF FindExistingSubs, TypeInv, TypeOK

\* ObjectsInUse survives a step of one goroutine that keeps to its object.
LEMMA InUseMove ==
  ASSUME TypeInv, RegTypes', GoTypes', NEW c \in Clients,
         UNCHANGED <<cur, register, sweep, pinned>>,
         \A o \in Objects : subs'[o].id = subs[o].id,
         cur[c] # None,
         \A d \in Clients : d # c => pc'[d] = pc[d]
  PROVE  ObjectsInUse'
<1> USE NoneAssumption
<1>1. \A d \in Clients : cur[d] # None => InUse(cur[d]) /\ cur[d] \in Objects
  BY DEF TypeInv, TypeOK, GoTypes, ObjectsInUse
<1>2. \A d \in Clients : pc'[d] \notin {"idle", "assign", "find"} => cur'[d] # None
  BY DEF TypeInv, ObjectsInUse
<1>3. \A d \in Clients : cur'[d] # None => subs'[cur'[d]].id \in Ids
  BY <1>1 DEF InUse
<1>4. \A i \in Ids : register'[i] # None => subs'[register'[i]].id \in Ids
  BY DEF TypeInv, TypeOK, RegTypes, ObjectsInUse, InUse
<1>5. sweep'.obj # None => subs'[sweep'.obj].id \in Ids
  BY DEF TypeInv, TypeOK, E2Types, ObjectsInUse, InUse
<1>6. \A o \in pinned' : subs'[o].id \in Ids
  BY DEF TypeInv, TypeOK, E2Types, ObjectsInUse, InUse
<1> QED BY <1>2, <1>3, <1>4, <1>5, <1>6 DEF ObjectsInUse, InUse

\* What the two updates of several fields, and a record for SDL, look like.
LEMMA CachedUpdate ==
  ASSUME NEW r \in Subscription, NEW a \in Answers, NEW v \in BOOLEAN
  PROVE  /\ [r EXCEPT !.answer = a, !.valid = v] \in Subscription
         /\ [r EXCEPT !.answer = a, !.valid = v].id = r.id
         /\ [r EXCEPT !.answer = a, !.valid = v].eps = r.eps
         /\ [r EXCEPT !.update = TRUE, !.answer = a, !.valid = v] \in Subscription
         /\ [r EXCEPT !.update = TRUE, !.answer = a, !.valid = v].id = r.id
         /\ [r EXCEPT !.update = TRUE, !.answer = a, !.valid = v].eps = r.eps
BY DEF Subscription

LEMMA SetCachedTypes ==
  ASSUME RegTypes, NEW s \in Objects, NEW a \in Answers, NEW v \in BOOLEAN
  PROVE  /\ SetCachedResponse(s, a, v) \in [Objects -> Subscription]
         /\ \A o \in Objects : /\ SetCachedResponse(s, a, v)[o].id = subs[o].id
                               /\ SetCachedResponse(s, a, v)[o].eps = subs[o].eps
<1>1. PICK q \in Subscription : q = subs[s]
  BY DEF RegTypes
<1>2. PICK r : r = [q EXCEPT !.answer = a, !.valid = v]
  OBVIOUS
<1>3. r \in Subscription /\ r.id = subs[s].id /\ r.eps = subs[s].eps
  <2>1. r \in Subscription
    BY <1>2, CachedUpdate
  <2>2. r.id = q.id /\ r.eps = q.eps
    BY <1>2, CachedUpdate
  <2> QED BY <1>1, <2>1, <2>2
<1>4. SetCachedResponse(s, a, v) = [subs EXCEPT ![s] = r]
  BY <1>1, <1>2 DEF SetCachedResponse
<1> QED BY <1>3, <1>4 DEF RegTypes

LEMMA WriteTypes ==
  ASSUME RegTypes, EnvTypes, NEW s \in Objects
  PROVE  WriteSubscriptionToDb(s) \in [Ids -> SubscriptionInfo \cup {None}]
<1>1. Info(s) \in SubscriptionInfo
  BY DEF Info, SubscriptionInfo, RegTypes, Subscription
<1> QED BY <1>1 DEF EnvTypes, WriteSubscriptionToDb

LEMMA AssignPolicySubs ==
  ASSUME TypeInv, NEW c \in Clients, AssignPolicy(c)
  PROVE  /\ subs' \in [Objects -> Subscription]
         /\ \A o \in Objects : /\ subs'[o].id = subs[o].id
                               /\ subs'[o].eps = subs[o].eps
<1>1. PICK s \in Objects : s = cur[c]
  BY NoneAssumption DEF AssignPolicy, TypeInv, TypeOK, GoTypes, ObjectsInUse
<1>2. subs \in [Objects -> Subscription] /\ "nil" \in Answers
  BY DEF TypeInv, TypeOK, RegTypes, Answers
<1>3. PICK q \in Subscription : q = subs[s]
  BY <1>2
<1>4. PICK r : r = [q EXCEPT !.update = TRUE, !.answer = "nil", !.valid = TRUE]
  OBVIOUS
<1>5. r \in Subscription /\ r.id = subs[s].id /\ r.eps = subs[s].eps
  <2>1. r \in Subscription
    BY <1>2, <1>4, CachedUpdate
  <2>2. r.id = q.id /\ r.eps = q.eps
    BY <1>2, <1>4, CachedUpdate
  <2> QED BY <1>3, <2>1, <2>2
<1>6. subs' = [subs EXCEPT ![s] = r]
  BY <1>1, <1>3, <1>4 DEF AssignPolicy
<1> QED BY <1>2, <1>5, <1>6

LEMMA AssignPolicyTypes ==
  ASSUME TypeInv, NEW c \in Clients, AssignPolicy(c)
  PROVE  TypeInv'
<1>1. PICK s \in Objects : s = cur[c]
  BY NoneAssumption DEF AssignPolicy, TypeInv, TypeOK, GoTypes, ObjectsInUse
<1>2. LockTypes'
  BY <1>1 DEF AssignPolicy, Unlock, TypeInv, TypeOK, LockTypes, goVars
<1>3. /\ subs' \in [Objects -> Subscription]
      /\ \A o \in Objects : subs'[o].id = subs[o].id
  BY AssignPolicySubs
<1>4. RegTypes'
  BY <1>3 DEF AssignPolicy, TypeInv, TypeOK, RegTypes
<1>5. GoTypes'
  BY <1>1 DEF AssignPolicy, Goto, TypeInv, TypeOK, GoTypes, RegTypes, Places, Subscription
<1>6. ObjectsInUse'
  <2>1. UNCHANGED <<cur, register, sweep, pinned>>
    BY DEF AssignPolicy, regVars, e2Vars
  <2>2. cur[c] # None /\ \A d \in Clients : d # c => pc'[d] = pc[d]
    BY <1>1, NoneAssumption DEF AssignPolicy, Goto, TypeInv, TypeOK, GoTypes
  <2> QED BY <1>3, <1>4, <1>5, <2>1, <2>2, InUseMove
<1> QED BY <1>2, <1>4, <1>5, <1>6, UnchangedTypes DEF AssignPolicy, TypeInv, TypeOK

LEMMA RouteCreateTypes ==
  ASSUME TypeInv, NEW c \in Clients, RouteCreate(c)
  PROVE  TypeInv'
<1>1. PICK s \in Objects : s = cur[c]
  BY NoneAssumption DEF RouteCreate, TypeInv, TypeOK, GoTypes, ObjectsInUse
<1>2. LockTypes'
  BY UnchangedTypes DEF RouteCreate, TypeInv, TypeOK
<1>3. \A o \in Objects : subs'[o].id = subs[o].id
  BY DEF RouteCreate, regVars
<1>4. RegTypes'
  BY UnchangedTypes DEF RouteCreate, TypeInv, TypeOK
<1>5. GoTypes'
  BY <1>1 DEF RouteCreate, Goto, TypeInv, TypeOK, GoTypes, RegTypes, Places, Answers
<1>7. EnvTypes'
  BY <1>1 DEF RouteCreate, TypeInv, TypeOK, EnvTypes, RegTypes, Subscription
<1>6. ObjectsInUse'
  <2>1. UNCHANGED <<cur, register, sweep, pinned>>
    BY DEF RouteCreate, regVars, e2Vars
  <2>2. cur[c] # None /\ \A d \in Clients : d # c => pc'[d] = pc[d]
    BY <1>1, NoneAssumption DEF RouteCreate, Goto, TypeInv, TypeOK, GoTypes
  <2> QED BY <1>3, <1>4, <1>5, <2>1, <2>2, InUseMove
<1> QED BY <1>2, <1>4, <1>5, <1>6, <1>7, UnchangedTypes DEF RouteCreate, TypeInv, TypeOK

LEMMA BeginSubs ==
  ASSUME TypeInv, NEW c \in Clients, Begin(c)
  PROVE  /\ subs' \in [Objects -> Subscription]
         /\ \A o \in Objects : /\ subs'[o].id = subs[o].id
                               /\ subs'[o].eps = subs[o].eps
<1>1. PICK s \in Objects : s = cur[c]
  BY NoneAssumption DEF Begin, TypeInv, TypeOK, GoTypes, ObjectsInUse
<1>s0. subs \in [Objects -> Subscription]
  BY DEF TypeInv, TypeOK, RegTypes
<1>s1. CASE \E v \in Int : subs' = [subs EXCEPT ![s].del = v + 1]
  BY <1>s0, <1>s1 DEF Subscription
<1>s2. CASE \E v \in Int : subs' = [subs EXCEPT ![s].req = v + 1]
  BY <1>s0, <1>s2 DEF Subscription
<1>s9. count[c] \in Int /\ subs[s].del \in Int /\ subs[s].req \in Int
  BY DEF TypeInv, TypeOK, GoTypes, RegTypes, Subscription
<1> QED BY <1>1, <1>s1, <1>s2, <1>s9 DEF Begin, AddOngoing

LEMMA BeginTypes ==
  ASSUME TypeInv, NEW c \in Clients, Begin(c)
  PROVE  TypeInv'
<1>1. PICK s \in Objects : s = cur[c]
  BY NoneAssumption DEF Begin, TypeInv, TypeOK, GoTypes, ObjectsInUse
<1>2. LockTypes'
  BY UnchangedTypes DEF Begin, TypeInv, TypeOK
<1>3. /\ subs' \in [Objects -> Subscription]
      /\ \A o \in Objects : subs'[o].id = subs[o].id
  BY BeginSubs
<1>4. RegTypes'
  BY <1>3 DEF Begin, TypeInv, TypeOK, RegTypes
<1>5. GoTypes'
  BY <1>1 DEF Begin, Goto, TypeInv, TypeOK, GoTypes, RegTypes, Places, AddOngoing
<1>6. ObjectsInUse'
  <2>1. UNCHANGED <<cur, register, sweep, pinned>>
    BY DEF Begin, regVars, e2Vars
  <2>2. cur[c] # None /\ \A d \in Clients : d # c => pc'[d] = pc[d]
    BY <1>1, NoneAssumption DEF Begin, Goto, TypeInv, TypeOK, GoTypes
  <2> QED BY <1>3, <1>4, <1>5, <2>1, <2>2, InUseMove
<1> QED BY <1>2, <1>4, <1>5, <1>6, UnchangedTypes DEF Begin, TypeInv, TypeOK

LEMMA WaitTransactionTurnTypes ==
  ASSUME TypeInv, NEW c \in Clients, WaitTransactionTurn(c)
  PROVE  TypeInv'
<1>1. PICK s \in Objects : s = cur[c]
  BY NoneAssumption DEF WaitTransactionTurn, TypeInv, TypeOK, GoTypes, ObjectsInUse
<1>2. LockTypes'
  BY <1>1 DEF WaitTransactionTurn, TypeInv, TypeOK, LockTypes, goVars
<1>3. \A o \in Objects : subs'[o].id = subs[o].id
  BY DEF WaitTransactionTurn, regVars
<1>4. RegTypes'
  BY UnchangedTypes DEF WaitTransactionTurn, TypeInv, TypeOK
<1>5. GoTypes'
  BY <1>1 DEF WaitTransactionTurn, Goto, TypeInv, TypeOK, GoTypes, RegTypes, Places
<1>6. ObjectsInUse'
  <2>1. UNCHANGED <<cur, register, sweep, pinned>>
    BY DEF WaitTransactionTurn, regVars, e2Vars
  <2>2. cur[c] # None /\ \A d \in Clients : d # c => pc'[d] = pc[d]
    BY <1>1, NoneAssumption DEF WaitTransactionTurn, Goto, TypeInv, TypeOK, GoTypes
  <2> QED BY <1>3, <1>4, <1>5, <2>1, <2>2, InUseMove
<1> QED BY <1>2, <1>4, <1>5, <1>6, UnchangedTypes DEF WaitTransactionTurn, TypeInv, TypeOK

LEMMA GetCachedResponseTypes ==
  ASSUME TypeInv, NEW c \in Clients, GetCachedResponse(c)
  PROVE  TypeInv'
<1>1. PICK s \in Objects : s = cur[c]
  BY NoneAssumption DEF GetCachedResponse, TypeInv, TypeOK, GoTypes, ObjectsInUse
<1>2. LockTypes'
  BY UnchangedTypes DEF GetCachedResponse, TypeInv, TypeOK
<1>3. \A o \in Objects : subs'[o].id = subs[o].id
  BY DEF GetCachedResponse, regVars
<1>4. RegTypes'
  BY UnchangedTypes DEF GetCachedResponse, TypeInv, TypeOK
<1>5. GoTypes'
  BY <1>1 DEF GetCachedResponse, Goto, TypeInv, TypeOK, GoTypes, RegTypes, Places, Answers, Subscription
<1>6. ObjectsInUse'
  <2>1. UNCHANGED <<cur, register, sweep, pinned>>
    BY DEF GetCachedResponse, regVars, e2Vars
  <2>2. cur[c] # None /\ \A d \in Clients : d # c => pc'[d] = pc[d]
    BY <1>1, NoneAssumption DEF GetCachedResponse, Goto, TypeInv, TypeOK, GoTypes
  <2> QED BY <1>3, <1>4, <1>5, <2>1, <2>2, InUseMove
<1> QED BY <1>2, <1>4, <1>5, <1>6, UnchangedTypes DEF GetCachedResponse, TypeInv, TypeOK

LEMMA SendSubReqSubs ==
  ASSUME TypeInv, NEW c \in Clients, SendSubReq(c)
  PROVE  /\ subs' \in [Objects -> Subscription]
         /\ \A o \in Objects : /\ subs'[o].id = subs[o].id
                               /\ subs'[o].eps = subs[o].eps
<1>1. PICK s \in Objects : s = cur[c]
  BY NoneAssumption DEF SendSubReq, TypeInv, TypeOK, GoTypes, ObjectsInUse
<1>s0. subs \in [Objects -> Subscription]
  BY DEF TypeInv, TypeOK, RegTypes
<1>s1. CASE subs' = SetCachedResponse(s, "error", FALSE)
  BY <1>s1, SetCachedTypes DEF TypeInv, TypeOK, Answers
<1>s2. CASE subs' = subs
  BY <1>s0, <1>s2 DEF Subscription
<1> QED BY <1>1, <1>s1, <1>s2 DEF SendSubReq

LEMMA SendSubReqTypes ==
  ASSUME TypeInv, NEW c \in Clients, SendSubReq(c)
  PROVE  TypeInv'
<1>1. PICK s \in Objects : s = cur[c]
  BY NoneAssumption DEF SendSubReq, TypeInv, TypeOK, GoTypes, ObjectsInUse
<1>2. LockTypes'
  BY UnchangedTypes DEF SendSubReq, TypeInv, TypeOK
<1>3. /\ subs' \in [Objects -> Subscription]
      /\ \A o \in Objects : subs'[o].id = subs[o].id
  BY SendSubReqSubs
<1>4. RegTypes'
  BY <1>3 DEF SendSubReq, TypeInv, TypeOK, RegTypes
<1>5. GoTypes'
  BY <1>1 DEF SendSubReq, Goto, TypeInv, TypeOK, GoTypes, RegTypes, Places, Answers
<1>7. EnvTypes'
  BY <1>1, WriteTypes DEF SendSubReq, TypeInv, TypeOK, EnvTypes
<1>6. ObjectsInUse'
  <2>1. UNCHANGED <<cur, register, sweep, pinned>>
    BY DEF SendSubReq, regVars, e2Vars
  <2>2. cur[c] # None /\ \A d \in Clients : d # c => pc'[d] = pc[d]
    BY <1>1, NoneAssumption DEF SendSubReq, Goto, TypeInv, TypeOK, GoTypes
  <2> QED BY <1>3, <1>4, <1>5, <2>1, <2>2, InUseMove
<1> QED BY <1>2, <1>4, <1>5, <1>6, <1>7, UnchangedTypes DEF SendSubReq, TypeInv, TypeOK

LEMMA SubReqOutcomeSubs ==
  ASSUME TypeInv, NEW c \in Clients, SubReqOutcome(c)
  PROVE  /\ subs' \in [Objects -> Subscription]
         /\ \A o \in Objects : /\ subs'[o].id = subs[o].id
                               /\ subs'[o].eps = subs[o].eps
<1>1. PICK s \in Objects : s = cur[c]
  BY NoneAssumption DEF SubReqOutcome, TypeInv, TypeOK, GoTypes, ObjectsInUse
<1>s0. subs \in [Objects -> Subscription]
  BY DEF TypeInv, TypeOK, RegTypes
<1>s9. PICK v \in BOOLEAN : v = subs[s].update
  BY <1>s0 DEF Subscription
<1>s1. CASE subs' = SetCachedResponse(s, "resp", TRUE)
  BY <1>s1, SetCachedTypes DEF TypeInv, TypeOK, Answers
<1>s2. CASE subs' = SetCachedResponse(s, "fail", v)
  BY <1>s2, SetCachedTypes DEF TypeInv, TypeOK, Answers
<1>s3. CASE subs' = SetCachedResponse(s, "nil", v)
  BY <1>s3, SetCachedTypes DEF TypeInv, TypeOK, Answers
<1> QED BY <1>1, <1>s1, <1>s2, <1>s3, <1>s9 DEF SubReqOutcome, KeptOnFailure

LEMMA SubReqOutcomeTypes ==
  ASSUME TypeInv, NEW c \in Clients, SubReqOutcome(c)
  PROVE  TypeInv'
<1>1. PICK s \in Objects : s = cur[c]
  BY NoneAssumption DEF SubReqOutcome, TypeInv, TypeOK, GoTypes, ObjectsInUse
<1>2. LockTypes'
  BY UnchangedTypes DEF SubReqOutcome, TypeInv, TypeOK
<1>3. /\ subs' \in [Objects -> Subscription]
      /\ \A o \in Objects : subs'[o].id = subs[o].id
  BY SubReqOutcomeSubs
<1>4. RegTypes'
  BY <1>3 DEF SubReqOutcome, TypeInv, TypeOK, RegTypes
<1>5. GoTypes'
  BY <1>1 DEF SubReqOutcome, Goto, TypeInv, TypeOK, GoTypes, RegTypes, Places, Answers
<1>7. EnvTypes'
  BY <1>1 DEF SubReqOutcome, TypeInv, TypeOK, EnvTypes, ObjectsInUse, InUse
<1>6. ObjectsInUse'
  <2>1. UNCHANGED <<cur, register, sweep, pinned>>
    BY DEF SubReqOutcome, regVars, e2Vars
  <2>2. cur[c] # None /\ \A d \in Clients : d # c => pc'[d] = pc[d]
    BY <1>1, NoneAssumption DEF SubReqOutcome, Goto, TypeInv, TypeOK, GoTypes
  <2> QED BY <1>3, <1>4, <1>5, <2>1, <2>2, InUseMove
<1> QED BY <1>2, <1>4, <1>5, <1>6, <1>7, UnchangedTypes DEF SubReqOutcome, TypeInv, TypeOK

LEMMA CheckLastEndpointSubs ==
  ASSUME TypeInv, NEW c \in Clients, CheckLastEndpoint(c)
  PROVE  /\ subs' \in [Objects -> Subscription]
         /\ \A o \in Objects : /\ subs'[o].id = subs[o].id
                               /\ subs'[o].eps = subs[o].eps
<1>1. PICK s \in Objects : s = cur[c]
  BY NoneAssumption DEF CheckLastEndpoint, TypeInv, TypeOK, GoTypes, ObjectsInUse
<1>s0. subs \in [Objects -> Subscription]
  BY DEF TypeInv, TypeOK, RegTypes
<1>s1. CASE subs' = [subs EXCEPT ![s].valid = FALSE]
  BY <1>s0, <1>s1 DEF Subscription
<1>s2. CASE subs' = subs
  BY <1>s0, <1>s2 DEF Subscription
<1> QED BY <1>1, <1>s1, <1>s2 DEF CheckLastEndpoint

LEMMA CheckLastEndpointTypes ==
  ASSUME TypeInv, NEW c \in Clients, CheckLastEndpoint(c)
  PROVE  TypeInv'
<1>1. PICK s \in Objects : s = cur[c]
  BY NoneAssumption DEF CheckLastEndpoint, TypeInv, TypeOK, GoTypes, ObjectsInUse
<1>2. LockTypes'
  BY UnchangedTypes DEF CheckLastEndpoint, TypeInv, TypeOK
<1>3. /\ subs' \in [Objects -> Subscription]
      /\ \A o \in Objects : subs'[o].id = subs[o].id
  BY CheckLastEndpointSubs
<1>4. RegTypes'
  BY <1>3 DEF CheckLastEndpoint, TypeInv, TypeOK, RegTypes
<1>5. GoTypes'
  BY <1>1 DEF CheckLastEndpoint, Goto, TypeInv, TypeOK, GoTypes, RegTypes, Places
<1>6. ObjectsInUse'
  <2>1. UNCHANGED <<cur, register, sweep, pinned>>
    BY DEF CheckLastEndpoint, regVars, e2Vars
  <2>2. cur[c] # None /\ \A d \in Clients : d # c => pc'[d] = pc[d]
    BY <1>1, NoneAssumption DEF CheckLastEndpoint, Goto, TypeInv, TypeOK, GoTypes
  <2> QED BY <1>3, <1>4, <1>5, <2>1, <2>2, InUseMove
<1> QED BY <1>2, <1>4, <1>5, <1>6, UnchangedTypes DEF CheckLastEndpoint, TypeInv, TypeOK

LEMMA DeleteAtNodeTypes ==
  ASSUME TypeInv, NEW c \in Clients, DeleteAtNode(c)
  PROVE  TypeInv'
<1>1. PICK s \in Objects : s = cur[c]
  BY NoneAssumption DEF DeleteAtNode, TypeInv, TypeOK, GoTypes, ObjectsInUse
<1>2. LockTypes'
  BY UnchangedTypes DEF DeleteAtNode, TypeInv, TypeOK
<1>3. \A o \in Objects : subs'[o].id = subs[o].id
  BY DEF DeleteAtNode, regVars
<1>4. RegTypes'
  BY UnchangedTypes DEF DeleteAtNode, TypeInv, TypeOK
<1>5. GoTypes'
  BY <1>1 DEF DeleteAtNode, Goto, TypeInv, TypeOK, GoTypes, RegTypes, Places
<1>7. EnvTypes'
  BY <1>1 DEF DeleteAtNode, TypeInv, TypeOK, EnvTypes, RegTypes, Subscription
<1>6. ObjectsInUse'
  <2>1. UNCHANGED <<cur, register, sweep, pinned>>
    BY DEF DeleteAtNode, regVars, e2Vars
  <2>2. cur[c] # None /\ \A d \in Clients : d # c => pc'[d] = pc[d]
    BY <1>1, NoneAssumption DEF DeleteAtNode, Goto, TypeInv, TypeOK, GoTypes
  <2> QED BY <1>3, <1>4, <1>5, <2>1, <2>2, InUseMove
<1> QED BY <1>2, <1>4, <1>5, <1>6, <1>7, UnchangedTypes DEF DeleteAtNode, TypeInv, TypeOK

LEMMA UpdateSubscriptionInDBSubs ==
  ASSUME TypeInv, NEW c \in Clients, UpdateSubscriptionInDB(c)
  PROVE  /\ subs' \in [Objects -> Subscription]
         /\ \A o \in Objects : /\ subs'[o].id = subs[o].id
                               /\ subs'[o].eps = subs[o].eps
<1>1. PICK s \in Objects : s = cur[c]
  BY NoneAssumption DEF UpdateSubscriptionInDB, TypeInv, TypeOK, GoTypes, ObjectsInUse
<1>s0. subs \in [Objects -> Subscription]
  BY DEF TypeInv, TypeOK, RegTypes
<1>s1. CASE subs' = [subs EXCEPT ![s].retry = FALSE]
  BY <1>s0, <1>s1 DEF Subscription
<1>s2. CASE subs' = subs
  BY <1>s0, <1>s2 DEF Subscription
<1> QED BY <1>1, <1>s1, <1>s2 DEF UpdateSubscriptionInDB

LEMMA UpdateSubscriptionInDBTypes ==
  ASSUME TypeInv, NEW c \in Clients, UpdateSubscriptionInDB(c)
  PROVE  TypeInv'
<1>1. PICK s \in Objects : s = cur[c]
  BY NoneAssumption DEF UpdateSubscriptionInDB, TypeInv, TypeOK, GoTypes, ObjectsInUse
<1>2. LockTypes'
  BY UnchangedTypes DEF UpdateSubscriptionInDB, TypeInv, TypeOK
<1>3. /\ subs' \in [Objects -> Subscription]
      /\ \A o \in Objects : subs'[o].id = subs[o].id
  BY UpdateSubscriptionInDBSubs
<1>4. RegTypes'
  BY <1>3 DEF UpdateSubscriptionInDB, TypeInv, TypeOK, RegTypes
<1>5. GoTypes'
  BY <1>1 DEF UpdateSubscriptionInDB, Goto, TypeInv, TypeOK, GoTypes, RegTypes, Places
<1>7. EnvTypes'
  BY <1>1, WriteTypes DEF UpdateSubscriptionInDB, TypeInv, TypeOK, EnvTypes
<1>6. ObjectsInUse'
  <2>1. UNCHANGED <<cur, register, sweep, pinned>>
    BY DEF UpdateSubscriptionInDB, regVars, e2Vars
  <2>2. cur[c] # None /\ \A d \in Clients : d # c => pc'[d] = pc[d]
    BY <1>1, NoneAssumption DEF UpdateSubscriptionInDB, Goto, TypeInv, TypeOK, GoTypes
  <2> QED BY <1>3, <1>4, <1>5, <2>1, <2>2, InUseMove
<1> QED BY <1>2, <1>4, <1>5, <1>6, <1>7, UnchangedTypes DEF UpdateSubscriptionInDB, TypeInv, TypeOK

LEMMA RemoveSubscriptionFromDbSubs ==
  ASSUME TypeInv, NEW c \in Clients, RemoveSubscriptionFromDb(c)
  PROVE  /\ subs' \in [Objects -> Subscription]
         /\ \A o \in Objects : /\ subs'[o].id = subs[o].id
                               /\ subs'[o].eps = subs[o].eps
<1>1. PICK s \in Objects : s = cur[c]
  BY NoneAssumption DEF RemoveSubscriptionFromDb, TypeInv, TypeOK, GoTypes, ObjectsInUse
<1>s0. subs \in [Objects -> Subscription]
  BY DEF TypeInv, TypeOK, RegTypes
<1>s1. CASE subs' = [subs EXCEPT ![s].retry = FALSE]
  BY <1>s0, <1>s1 DEF Subscription
<1> QED BY <1>1, <1>s1 DEF RemoveSubscriptionFromDb

LEMMA RemoveSubscriptionFromDbTypes ==
  ASSUME TypeInv, NEW c \in Clients, RemoveSubscriptionFromDb(c)
  PROVE  TypeInv'
<1>1. PICK s \in Objects : s = cur[c]
  BY NoneAssumption DEF RemoveSubscriptionFromDb, TypeInv, TypeOK, GoTypes, ObjectsInUse
<1>2. LockTypes'
  BY UnchangedTypes DEF RemoveSubscriptionFromDb, TypeInv, TypeOK
<1>3. /\ subs' \in [Objects -> Subscription]
      /\ \A o \in Objects : subs'[o].id = subs[o].id
  BY RemoveSubscriptionFromDbSubs
<1>4. RegTypes'
  BY <1>3 DEF RemoveSubscriptionFromDb, TypeInv, TypeOK, RegTypes
<1>5. GoTypes'
  BY <1>1 DEF RemoveSubscriptionFromDb, Goto, TypeInv, TypeOK, GoTypes, RegTypes, Places
<1>7. EnvTypes'
  <2>1. db' \in {db, [db EXCEPT ![subs[s].id] = None]}
    BY <1>1 DEF RemoveSubscriptionFromDb, WithoutRecord, MayFail
  <2> QED BY <2>1 DEF RemoveSubscriptionFromDb, TypeInv, TypeOK, EnvTypes
<1>6. ObjectsInUse'
  <2>1. UNCHANGED <<cur, register, sweep, pinned>>
    BY DEF RemoveSubscriptionFromDb, regVars, e2Vars
  <2>2. cur[c] # None /\ \A d \in Clients : d # c => pc'[d] = pc[d]
    BY <1>1, NoneAssumption DEF RemoveSubscriptionFromDb, Goto, TypeInv, TypeOK, GoTypes
  <2> QED BY <1>3, <1>4, <1>5, <2>1, <2>2, InUseMove
<1> QED BY <1>2, <1>4, <1>5, <1>6, <1>7, UnchangedTypes DEF RemoveSubscriptionFromDb, TypeInv, TypeOK

LEMMA SendEventTypes ==
  ASSUME TypeInv, NEW c \in Clients, SendEvent(c)
  PROVE  TypeInv'
<1>1. PICK s \in Objects : s = cur[c]
  BY NoneAssumption DEF SendEvent, TypeInv, TypeOK, GoTypes, ObjectsInUse
<1>2. LockTypes'
  BY <1>1 DEF SendEvent, TypeInv, TypeOK, LockTypes, goVars
<1>3. \A o \in Objects : subs'[o].id = subs[o].id
  BY DEF SendEvent, regVars
<1>4. RegTypes'
  BY UnchangedTypes DEF SendEvent, TypeInv, TypeOK
<1>5. GoTypes'
  BY <1>1 DEF SendEvent, Goto, TypeInv, TypeOK, GoTypes, RegTypes, Places, Ongoing, Subscription
<1>6. ObjectsInUse'
  <2>1. UNCHANGED <<cur, register, sweep, pinned>>
    BY DEF SendEvent, regVars, e2Vars
  <2>2. cur[c] # None /\ \A d \in Clients : d # c => pc'[d] = pc[d]
    BY <1>1, NoneAssumption DEF SendEvent, Goto, TypeInv, TypeOK, GoTypes
  <2> QED BY <1>3, <1>4, <1>5, <2>1, <2>2, InUseMove
<1> QED BY <1>2, <1>4, <1>5, <1>6, UnchangedTypes DEF SendEvent, TypeInv, TypeOK

LEMMA EndSubs ==
  ASSUME TypeInv, NEW c \in Clients, End(c)
  PROVE  /\ subs' \in [Objects -> Subscription]
         /\ \A o \in Objects : /\ subs'[o].id = subs[o].id
                               /\ subs'[o].eps = subs[o].eps
<1>1. PICK s \in Objects : s = cur[c]
  BY NoneAssumption DEF End, TypeInv, TypeOK, GoTypes, ObjectsInUse
<1>s0. subs \in [Objects -> Subscription]
  BY DEF TypeInv, TypeOK, RegTypes
<1>s1. CASE \E v \in Int : subs' = [subs EXCEPT ![s].del = v + (-1)]
  BY <1>s0, <1>s1 DEF Subscription
<1>s2. CASE \E v \in Int : subs' = [subs EXCEPT ![s].req = v + (-1)]
  BY <1>s0, <1>s2 DEF Subscription
<1>s9. count[c] \in Int /\ subs[s].del \in Int /\ subs[s].req \in Int
  BY DEF TypeInv, TypeOK, GoTypes, RegTypes, Subscription
<1> QED BY <1>1, <1>s1, <1>s2, <1>s9 DEF End, AddOngoing

LEMMA EndTypes ==
  ASSUME TypeInv, NEW c \in Clients, End(c)
  PROVE  TypeInv'
<1>1. PICK s \in Objects : s = cur[c]
  BY NoneAssumption DEF End, TypeInv, TypeOK, GoTypes, ObjectsInUse
<1>2. LockTypes'
  BY UnchangedTypes DEF End, TypeInv, TypeOK
<1>3. /\ subs' \in [Objects -> Subscription]
      /\ \A o \in Objects : subs'[o].id = subs[o].id
  BY EndSubs
<1>4. RegTypes'
  BY <1>3 DEF End, TypeInv, TypeOK, RegTypes
<1>5. GoTypes'
  BY <1>1 DEF End, Goto, TypeInv, TypeOK, GoTypes, RegTypes, Places, AddOngoing
<1>6. ObjectsInUse'
  <2>1. UNCHANGED <<cur, register, sweep, pinned>>
    BY DEF End, regVars, e2Vars
  <2>2. cur[c] # None /\ \A d \in Clients : d # c => pc'[d] = pc[d]
    BY <1>1, NoneAssumption DEF End, Goto, TypeInv, TypeOK, GoTypes
  <2> QED BY <1>3, <1>4, <1>5, <2>1, <2>2, InUseMove
<1> QED BY <1>2, <1>4, <1>5, <1>6, UnchangedTypes DEF End, TypeInv, TypeOK

LEMMA RemoveLockTypes ==
  ASSUME TypeInv, NEW c \in Clients, RemoveLock(c)
  PROVE  TypeInv'
<1>1. PICK s \in Objects : s = cur[c]
  BY NoneAssumption DEF RemoveLock, TypeInv, TypeOK, GoTypes, ObjectsInUse
<1>2. LockTypes'
  BY <1>1 DEF RemoveLock, TypeInv, TypeOK, LockTypes, goVars
<1>3. \A o \in Objects : subs'[o].id = subs[o].id
  BY DEF RemoveLock, regVars
<1>4. RegTypes'
  BY UnchangedTypes DEF RemoveLock, TypeInv, TypeOK
<1>5. GoTypes'
  BY <1>1 DEF RemoveLock, Goto, TypeInv, TypeOK, GoTypes, RegTypes, Places
<1>6. ObjectsInUse'
  <2>1. UNCHANGED <<cur, register, sweep, pinned>>
    BY DEF RemoveLock, regVars, e2Vars
  <2>2. cur[c] # None /\ \A d \in Clients : d # c => pc'[d] = pc[d]
    BY <1>1, NoneAssumption DEF RemoveLock, Goto, TypeInv, TypeOK, GoTypes
  <2> QED BY <1>3, <1>4, <1>5, <2>1, <2>2, InUseMove
<1> QED BY <1>2, <1>4, <1>5, <1>6, UnchangedTypes DEF RemoveLock, TypeInv, TypeOK

LEMMA RemoveEndpointSubs ==
  ASSUME TypeInv, NEW c \in Clients, RemoveEndpoint(c)
  PROVE  /\ subs' \in [Objects -> Subscription]
         /\ \A o \in Objects : subs'[o].id = subs[o].id
<1>1. PICK s \in Objects : s = cur[c]
  BY NoneAssumption DEF RemoveEndpoint, TypeInv, TypeOK, GoTypes, ObjectsInUse
<1>e. PICK e \in Endpoints : e = Endpoint[c]
  BY DEF Endpoints
<1>s0. subs \in [Objects -> Subscription]
  BY DEF TypeInv, TypeOK, RegTypes
<1>s1. CASE subs' = [subs EXCEPT ![s].eps = @ \ {e}]
  BY <1>s0, <1>s1 DEF Subscription
<1>s2. CASE subs' = subs
  BY <1>s0, <1>s2 DEF Subscription
<1> QED BY <1>1, <1>e, <1>s1, <1>s2 DEF RemoveEndpoint

LEMMA RemoveEndpointTypes ==
  ASSUME TypeInv, NEW c \in Clients, RemoveEndpoint(c)
  PROVE  TypeInv'
<1>1. PICK s \in Objects : s = cur[c]
  BY NoneAssumption DEF RemoveEndpoint, TypeInv, TypeOK, GoTypes, ObjectsInUse
<1>e. PICK e \in Endpoints : e = Endpoint[c]
  BY DEF Endpoints
<1>2. LockTypes'
  BY <1>1 DEF RemoveEndpoint, Unlock, TypeInv, TypeOK, LockTypes, goVars
<1>3. /\ subs' \in [Objects -> Subscription]
      /\ \A o \in Objects : subs'[o].id = subs[o].id
  BY RemoveEndpointSubs
<1>4. RegTypes'
  BY <1>3 DEF RemoveEndpoint, TypeInv, TypeOK, RegTypes
<1>5. GoTypes'
  <2>1. \E l \in {"event", "done", "rm_clean", "p_sleep"} : Goto(c, l)
    BY <1>1 DEF RemoveEndpoint, Goto
  <2> QED BY <2>1 DEF RemoveEndpoint, Goto, TypeInv, TypeOK, GoTypes, Places
<1>6. ObjectsInUse'
  <2>1. UNCHANGED <<cur, register, sweep, pinned>>
    BY DEF RemoveEndpoint, regVars, e2Vars
  <2>2. cur[c] # None /\ \A d \in Clients : d # c => pc'[d] = pc[d]
    BY <1>1, NoneAssumption DEF RemoveEndpoint, Goto, TypeInv, TypeOK, GoTypes
  <2> QED BY <1>3, <1>4, <1>5, <2>1, <2>2, InUseMove
<1> QED BY <1>2, <1>4, <1>5, <1>6, UnchangedTypes DEF RemoveEndpoint, TypeInv, TypeOK

LEMMA RemoveWakeTypes ==
  ASSUME TypeInv, NEW c \in Clients, RemoveWake(c)
  PROVE  TypeInv'
<1>1. PICK s \in Objects : s = cur[c]
  BY NoneAssumption DEF RemoveWake, TypeInv, TypeOK, GoTypes, ObjectsInUse
<1>2. LockTypes'
  BY <1>1 DEF RemoveWake, TypeInv, TypeOK, LockTypes, goVars
<1>3. \A o \in Objects : subs'[o].id = subs[o].id
  BY DEF RemoveWake, regVars
<1>4. RegTypes'
  BY UnchangedTypes DEF RemoveWake, TypeInv, TypeOK
<1>5. GoTypes'
  BY <1>1 DEF RemoveWake, Goto, TypeInv, TypeOK, GoTypes, RegTypes, Places
<1>6. ObjectsInUse'
  <2>1. UNCHANGED <<cur, register, sweep, pinned>>
    BY DEF RemoveWake, regVars, e2Vars
  <2>2. cur[c] # None /\ \A d \in Clients : d # c => pc'[d] = pc[d]
    BY <1>1, NoneAssumption DEF RemoveWake, Goto, TypeInv, TypeOK, GoTypes
  <2> QED BY <1>3, <1>4, <1>5, <2>1, <2>2, InUseMove
<1> QED BY <1>2, <1>4, <1>5, <1>6, UnchangedTypes DEF RemoveWake, TypeInv, TypeOK

LEMMA MergeLockTypes ==
  ASSUME TypeInv, NEW c \in Clients, MergeLock(c)
  PROVE  TypeInv'
<1>1. PICK s \in Objects : s = cur[c]
  BY NoneAssumption DEF MergeLock, TypeInv, TypeOK, GoTypes, ObjectsInUse
<1>2. LockTypes'
  BY <1>1 DEF MergeLock, Unlock, TypeInv, TypeOK, LockTypes
<1>3. \A o \in Objects : subs'[o].id = subs[o].id
  BY DEF MergeLock, regVars
<1>4. RegTypes'
  BY UnchangedTypes DEF MergeLock, TypeInv, TypeOK
<1>5. GoTypes'
  BY <1>1 DEF MergeLock, Goto, TypeInv, TypeOK, GoTypes, RegTypes, Places
<1>6. ObjectsInUse'
  <2>1. UNCHANGED <<cur, register, sweep, pinned>>
    BY DEF MergeLock, regVars, e2Vars
  <2>2. cur[c] # None /\ \A d \in Clients : d # c => pc'[d] = pc[d]
    BY <1>1, NoneAssumption DEF MergeLock, Goto, TypeInv, TypeOK, GoTypes
  <2> QED BY <1>3, <1>4, <1>5, <2>1, <2>2, InUseMove
<1> QED BY <1>2, <1>4, <1>5, <1>6, UnchangedTypes DEF MergeLock, TypeInv, TypeOK

LEMMA StartTypes ==
  ASSUME TypeInv, NEW c \in Clients,
         StartCreate(c) \/ \E i \in Ids : StartDelete(c, i)
  PROVE  TypeInv'
<1>1. XappTypes'
  BY BoundsAssumption DEF StartCreate, StartDelete, TypeInv, TypeOK, XappTypes
<1>2. CASE StartCreate(c)
  <2>1. GoTypes'
    BY <1>2 DEF StartCreate, Goto, TypeInv, TypeOK, GoTypes, Places, Operations
  <2>2. ObjectsInUse'
    BY <1>2 DEF StartCreate, Goto, TypeInv, TypeOK, GoTypes, ObjectsInUse, InUse,
                regVars, e2Vars
  <2> QED BY <1>1, <1>2, <2>1, <2>2, UnchangedTypes DEF StartCreate, TypeInv, TypeOK
<1>3. ASSUME NEW i \in Ids, StartDelete(c, i)
      PROVE  TypeInv'
  <2>1. GoTypes'
    <3>1. CASE UNCHANGED goVars
      BY <3>1, UnchangedTypes DEF TypeInv, TypeOK
    <3>2. CASE ~UNCHANGED goVars
      <4>1. PICK s \in Objects : s = register[i]
        BY <1>3, <3>2 DEF StartDelete, TypeInv, TypeOK, RegTypes
      <4>2. subs[s].del \in Int
        BY DEF TypeInv, TypeOK, RegTypes, Subscription
      <4> QED BY <1>3, <3>2, <4>1, <4>2
              DEF StartDelete, Goto, TypeInv, TypeOK, GoTypes, Places, Operations
    <3> QED BY <3>1, <3>2
  <2>2. /\ RegTypes' /\ E2Types' /\ UNCHANGED <<subs, register, sweep, pinned>>
    BY <1>3, UnchangedTypes DEF StartDelete, TypeInv, TypeOK, regVars, e2Vars
  <2>3. \A d \in Clients : /\ cur'[d] \in {cur[d], None} \cup Registered
                           /\ pc'[d] \notin {"idle", "assign", "find"}
                                => cur'[d] # None
    BY <1>3 DEF StartDelete, Goto, goVars, TypeInv, TypeOK, GoTypes, ObjectsInUse,
                Registered
  <2>4. ObjectsInUse'
    BY <2>1, <2>2, <2>3, InUseStep
  <2> QED BY <1>1, <1>3, <2>1, <2>4, UnchangedTypes DEF StartDelete, TypeInv, TypeOK
<1> QED BY <1>2, <1>3

LEMMA AssignLockTypes ==
  ASSUME TypeInv, NEW c \in Clients, AssignLock(c)
  PROVE  TypeInv'
<1>1. LockTypes'
  BY DEF AssignLock, TypeInv, TypeOK, LockTypes
<1>2. \A d \in Clients : cur'[d] \in {cur[d], None} \cup Registered
  BY DEF AssignLock, TypeInv, TypeOK, GoTypes, XappTypes, Registered
<1>3. Registered \subseteq Objects
  BY DEF Registered, TypeInv, TypeOK, RegTypes
<1>4. GoTypes'
  <2>1. cur' \in [Clients -> Objects \cup {None}]
    BY <1>3 DEF AssignLock, TypeInv, TypeOK, GoTypes, RegTypes, XappTypes
  <2>2. pc' \in [Clients -> Places] /\ op' \in [Clients -> Operations]
    BY DEF AssignLock, Goto, TypeInv, TypeOK, GoTypes, Places, Operations
  <2> QED BY <2>1, <2>2 DEF AssignLock, TypeInv, TypeOK, GoTypes
<1>5. ObjectsInUse'
  <2>1. RegTypes' /\ E2Types' /\ UNCHANGED <<subs, register, sweep, pinned>>
    BY UnchangedTypes DEF AssignLock, TypeInv, TypeOK, regVars, e2Vars
  <2>2. \A d \in Clients : pc'[d] \notin {"idle", "assign", "find"} => cur'[d] # None
    BY DEF AssignLock, Goto, TypeInv, TypeOK, GoTypes, XappTypes, ObjectsInUse
  <2> QED BY <1>2, <1>4, <2>1, <2>2, InUseStep
<1> QED BY <1>1, <1>4, <1>5, UnchangedTypes DEF AssignLock, TypeInv, TypeOK

\* A goroutine that returns refers to no object.
LEMMA ReturnTypes ==
  ASSUME TypeInv, NEW c \in Clients, Return(c)
  PROVE  /\ GoTypes'
         /\ \A d \in Clients : /\ cur'[d] \in {cur[d], None} \cup Registered
                               /\ pc'[d] \notin {"idle", "assign", "find"}
                                    => cur'[d] # None
BY DEF Return, Goto, TypeInv, TypeOK, GoTypes, Places, Operations, Answers,
       ObjectsInUse

LEMMA OutcomeTypes ==
  ASSUME TypeInv, NEW c \in Clients, Outcome(c)
  PROVE  TypeInv'
<1>1. PICK s \in Objects : s = cur[c] /\ subs[s].id \in Ids
  BY NoneAssumption DEF Outcome, TypeInv, TypeOK, GoTypes, ObjectsInUse, InUse
<1>2. RegTypes' /\ E2Types' /\ UNCHANGED <<subs, register, sweep, pinned>>
  BY UnchangedTypes DEF Outcome, TypeInv, TypeOK, regVars, e2Vars
<1>3. XappTypes'
  BY <1>1 DEF Outcome, TypeInv, TypeOK, XappTypes
<1>4. GoTypes' /\ ObjectsInUse'
  <2>1. CASE Return(c)
    <3>1. /\ GoTypes'
          /\ \A d \in Clients : /\ cur'[d] \in {cur[d], None} \cup Registered
                                /\ pc'[d] \notin {"idle", "assign", "find"}
                                     => cur'[d] # None
      BY <2>1, ReturnTypes
    <3> QED BY <1>2, <3>1, InUseStep
  <2>2. CASE Goto(c, "p_lock") /\ UNCHANGED <<op, cur, seen, count, event>>
    <3>1. GoTypes'
      BY <2>2 DEF Goto, TypeInv, TypeOK, GoTypes, Places
    <3>2. cur[c] # None /\ \A d \in Clients : d # c => pc'[d] = pc[d]
      BY <1>1, <2>2, NoneAssumption DEF Goto, TypeInv, TypeOK, GoTypes
    <3> QED BY <1>2, <2>2, <3>1, <3>2, InUseMove
  <2> QED BY <2>1, <2>2 DEF Outcome
<1> QED BY <1>2, <1>3, <1>4, UnchangedTypes DEF Outcome, TypeInv, TypeOK

LEMMA DoneTypes ==
  ASSUME TypeInv, NEW c \in Clients, Done(c)
  PROVE  TypeInv'
<1>1. PICK s \in Objects : s = cur[c] /\ subs[s].id \in Ids
  BY NoneAssumption DEF Done, TypeInv, TypeOK, GoTypes, ObjectsInUse, InUse
<1>2. RegTypes' /\ E2Types' /\ UNCHANGED <<subs, register, sweep, pinned>>
  BY UnchangedTypes DEF Done, TypeInv, TypeOK, regVars, e2Vars
<1>3. EnvTypes'
  <2>1. db' \in {db, [db EXCEPT ![subs[s].id] = None]}
    BY <1>1 DEF Done, WithoutRecord, MayFail
  <2> QED BY <1>1, <2>1 DEF Done, TypeInv, TypeOK, EnvTypes
<1>4. GoTypes' /\ ObjectsInUse'
  <2>1. CASE Return(c)
    <3>1. /\ GoTypes'
          /\ \A d \in Clients : /\ cur'[d] \in {cur[d], None} \cup Registered
                                /\ pc'[d] \notin {"idle", "assign", "find"}
                                     => cur'[d] # None
      BY <2>1, ReturnTypes
    <3> QED BY <1>2, <3>1, InUseStep
  <2>2. CASE /\ event' = [event EXCEPT ![c] = "error"]
             /\ Goto(c, "p_lock") /\ UNCHANGED <<op, cur, seen, count>>
    <3>1. GoTypes'
      BY <2>2 DEF Goto, TypeInv, TypeOK, GoTypes, Places, Answers
    <3>2. cur[c] # None /\ \A d \in Clients : d # c => pc'[d] = pc[d]
      BY <1>1, <2>2, NoneAssumption DEF Goto, TypeInv, TypeOK, GoTypes
    <3> QED BY <1>2, <2>2, <3>1, <3>2, InUseMove
  <2> QED BY <2>1, <2>2 DEF Done
<1> QED BY <1>2, <1>3, <1>4, UnchangedTypes DEF Done, TypeInv, TypeOK

LEMMA AllocateTypes ==
  ASSUME TypeInv, NEW c \in Clients, AllocateSubs(c)
  PROVE  TypeInv'
<1>1. E2Types' /\ UNCHANGED <<register, sweep, pinned>>
  BY UnchangedTypes DEF AllocateSubs, TypeInv, TypeOK, e2Vars
<1>2. CASE Return(c) /\ UNCHANGED <<smutex, subs>>
  <2>1. /\ GoTypes'
        /\ \A d \in Clients : /\ cur'[d] \in {cur[d], None} \cup Registered
                              /\ pc'[d] \notin {"idle", "assign", "find"}
                                   => cur'[d] # None
    BY <1>2, ReturnTypes
  <2>2. RegTypes'
    BY <1>2 DEF AllocateSubs, TypeInv, TypeOK, RegTypes
  <2>3. LockTypes'
    BY <1>2 DEF AllocateSubs, Unlock, TypeInv, TypeOK, LockTypes
  <2>4. ObjectsInUse'
    BY <1>1, <1>2, <2>1, <2>2, InUseStep
  <2> QED BY <1>1, <2>1, <2>2, <2>3, <2>4, UnchangedTypes
          DEF AllocateSubs, TypeInv, TypeOK
<1>3. CASE /\ subIds # <<>> /\ register[Head(subIds)] = None
           /\ Goto(c, "route")
           /\ subIds' = Tail(subIds)
           /\ UNCHANGED <<op, count, event>>
           /\ seen' = [seen EXCEPT ![c] = {}]
           /\ \E s \in Garbage :
                /\ subs' = [subs EXCEPT ![s] = NewSubscription(c, Head(subIds))]
                /\ cur' = [cur EXCEPT ![c] = s]
                /\ smutex' = [smutex EXCEPT ![s] = c]
  <2>1. PICK s \in Garbage :
                /\ subs' = [subs EXCEPT ![s] = NewSubscription(c, Head(subIds))]
                /\ cur' = [cur EXCEPT ![c] = s]
                /\ smutex' = [smutex EXCEPT ![s] = c]
    BY <1>3
  <2>2. s \in Objects
    BY DEF Garbage
  <2>3. Head(subIds) \in Ids /\ Tail(subIds) \in Seq(Ids)
    BY <1>3 DEF TypeInv, TypeOK, RegTypes
  <2>4. /\ NewSubscription(c, Head(subIds)) \in Subscription
        /\ NewSubscription(c, Head(subIds)).id \in Ids
    BY <2>3 DEF NewSubscription, Subscription, Contents, Endpoints, Answers
  <2>5. RegTypes'
    BY <1>1, <1>3, <2>1, <2>2, <2>3, <2>4 DEF TypeInv, TypeOK, RegTypes
  <2>6. LockTypes'
    BY <2>1, <2>2 DEF AllocateSubs, Unlock, TypeInv, TypeOK, LockTypes
  <2>7. GoTypes'
    BY <1>3, <2>1, <2>2 DEF Goto, TypeInv, TypeOK, GoTypes, Places
  <2>8. \A o \in Objects : subs[o].id \in Ids => subs'[o].id \in Ids
    BY <2>1, <2>2, <2>4 DEF TypeInv, TypeOK, RegTypes
  <2>9. \A d \in Clients : \/ cur'[d] \in {cur[d], None} \cup Registered
                           \/ subs'[cur'[d]].id \in Ids
    BY <2>1, <2>2, <2>4 DEF TypeInv, TypeOK, RegTypes, GoTypes
  <2>10. \A d \in Clients : pc'[d] \notin {"idle", "assign", "find"}
                                => cur'[d] # None
    BY <1>3, <2>1, <2>2, NoneAssumption
       DEF Goto, TypeInv, TypeOK, GoTypes, ObjectsInUse
  <2>11. ObjectsInUse'
    BY <1>1, <2>5, <2>7, <2>8, <2>9, <2>10, InUseStep
  <2> QED BY <1>1, <2>5, <2>6, <2>7, <2>11, UnchangedTypes
          DEF AllocateSubs, TypeInv, TypeOK
<1>4. CASE /\ subIds # <<>> /\ register[Head(subIds)] = None
  <2>1. Garbage # {} => (CHOOSE o \in Garbage : TRUE) \in Garbage
    OBVIOUS
  <2> QED BY <1>3, <1>4, <2>1 DEF AllocateSubs
<1> QED BY <1>2, <1>4 DEF AllocateSubs

LEMMA InsertTypes ==
  ASSUME TypeInv, NEW c \in Clients, AssignInsert(c)
  PROVE  TypeInv'
<1>1. PICK s \in Objects : s = cur[c] /\ subs[s].id \in Ids
  BY NoneAssumption DEF AssignInsert, TypeInv, TypeOK, GoTypes, ObjectsInUse, InUse
<1>2. LockTypes'
  BY <1>1 DEF AssignInsert, TypeInv, TypeOK, LockTypes
<1>3. E2Types' /\ UNCHANGED <<sweep, pinned>>
  BY UnchangedTypes DEF AssignInsert, TypeInv, TypeOK, e2Vars
<1>e. PICK e \in Endpoints : e = Endpoint[c]
  BY DEF Endpoints
<1>4. CASE RollBack(c, s) /\ Return(c) /\ UNCHANGED register
  <2>1. /\ GoTypes'
        /\ \A d \in Clients : /\ cur'[d] \in {cur[d], None} \cup Registered
                              /\ pc'[d] \notin {"idle", "assign", "find"}
                                   => cur'[d] # None
    BY <1>4, ReturnTypes
  <2>2. subs' = [subs EXCEPT ![s].eps = @ \ {e}]
    BY <1>4, <1>e DEF RollBack
  <2>3. /\ subs' \in [Objects -> Subscription]
        /\ \A o \in Objects : subs'[o].id = subs[o].id
    <3>1. subs \in [Objects -> Subscription]
      BY DEF TypeInv, TypeOK, RegTypes
    <3> QED BY <2>2, <3>1 DEF Subscription
  <2>4. RegTypes'
    BY <1>1, <1>4, <2>3 DEF RollBack, ReleaseId, TypeInv, TypeOK, RegTypes
  <2>5. ObjectsInUse'
    BY <1>3, <1>4, <2>1, <2>3, <2>4, InUseStep
  <2> QED BY <1>2, <1>3, <2>1, <2>4, <2>5, UnchangedTypes
          DEF AssignInsert, TypeInv, TypeOK
<1>5. CASE /\ register' = IF op[c] = "create"
                          THEN [register EXCEPT ![subs[s].id] = s] ELSE register
           /\ count' = [count EXCEPT ![c] = subs[s].req]
           /\ Goto(c, "begin")
           /\ UNCHANGED <<subIds, subs, op, cur, seen, event>>
  <2>1. RegTypes'
    BY <1>1, <1>5 DEF TypeInv, TypeOK, RegTypes
  <2>2. subs[s].req \in Int
    BY DEF TypeInv, TypeOK, RegTypes, Subscription
  <2>3. GoTypes'
    BY <1>5, <2>2 DEF Goto, TypeInv, TypeOK, GoTypes, Places
  <2>4. \A d \in Clients : pc'[d] \notin {"idle", "assign", "find"} => cur'[d] # None
    BY <1>1, <1>5, NoneAssumption DEF Goto, TypeInv, TypeOK, GoTypes, ObjectsInUse
  <2>5. \A i \in Ids : \/ register'[i] \in {register[i], None}
                       \/ \E d \in Clients : register'[i] = cur[d]
    BY <1>1, <1>5 DEF TypeInv, TypeOK, RegTypes
  <2>6. ObjectsInUse'
    BY <1>3, <1>5, <2>1, <2>3, <2>4, <2>5, InUseStep
  <2> QED BY <1>2, <1>3, <2>1, <2>3, <2>6, UnchangedTypes
          DEF AssignInsert, TypeInv, TypeOK
<1> QED BY <1>1, <1>4, <1>5 DEF AssignInsert
LEMMA CleanTypes ==
  ASSUME TypeInv, NEW c \in Clients, RemoveClean(c)
  PROVE  TypeInv'
<1>1. PICK s \in Objects : s = cur[c] /\ subs[s].id \in Ids
  BY NoneAssumption DEF RemoveClean, TypeInv, TypeOK, GoTypes, ObjectsInUse, InUse
<1>2. LockTypes'
  BY <1>1 DEF RemoveClean, Unlock, TypeInv, TypeOK, LockTypes
<1>3. E2Types' /\ UNCHANGED <<subs, cur, sweep, pinned>>
  BY UnchangedTypes DEF RemoveClean, TypeInv, TypeOK, e2Vars
<1>4. RegTypes'
  <2>1. subIds' \in Seq(Ids)
    <3>1. subIds' \in {subIds, Append(subIds, subs[s].id)}
      BY <1>1 DEF RemoveClean, ReleaseId
    <3> QED BY <1>1, <3>1 DEF TypeInv, TypeOK, RegTypes
  <2>2. register' \in [Ids -> Objects \cup {None}]
    BY <1>1 DEF RemoveClean, TypeInv, TypeOK, RegTypes
  <2> QED BY <1>3, <2>1, <2>2 DEF TypeInv, TypeOK, RegTypes
<1>5. GoTypes'
  BY DEF RemoveClean, Goto, TypeInv, TypeOK, GoTypes, Places
<1>6. EnvTypes'
  <2>1. routes' \in [Ids -> SUBSET Endpoints]
    <3>1. /\ routes \in [Ids -> SUBSET Endpoints]
          /\ subs[s].eps \subseteq Endpoints
      BY DEF TypeInv, TypeOK, EnvTypes, RegTypes, Subscription
    <3>2. \E e \in SUBSET Endpoints :
            routes' \in {routes, [routes EXCEPT ![subs[s].id] = e]}
      <4>1. routes' \in {routes, [routes EXCEPT ![subs[s].id] = @ \ {Endpoint[c]}],
                         [routes EXCEPT ![subs[s].id] = subs[s].eps]}
        BY <1>1 DEF RemoveClean, MayFail
      <4>2. routes[subs[s].id] \ {Endpoint[c]} \in SUBSET Endpoints
        BY <1>1, <3>1
      <4> QED BY <3>1, <4>1, <4>2
    <3> QED BY <1>1, <3>1, <3>2
  <2>2. db' \in [Ids -> SubscriptionInfo \cup {None}]
    BY <1>1, WriteTypes DEF RemoveClean, MayFail, WithoutRecord, TypeInv, TypeOK, EnvTypes
  <2> QED BY <2>1, <2>2 DEF RemoveClean, TypeInv, TypeOK, EnvTypes
<1>7. ObjectsInUse'
  <2>1. \A i \in Ids : register'[i] \in {register[i], None}
    BY <1>1 DEF RemoveClean, TypeInv, TypeOK, RegTypes
  <2>2. \A d \in Clients : pc'[d] \notin {"idle", "assign", "find"} => cur'[d] # None
    BY <1>1, <1>3, NoneAssumption
       DEF RemoveClean, Goto, TypeInv, TypeOK, GoTypes, ObjectsInUse
  <2> QED BY <1>3, <1>4, <1>5, <2>1, <2>2, InUseStep
<1> QED BY <1>2, <1>3, <1>4, <1>5, <1>6, <1>7, UnchangedTypes
        DEF RemoveClean, TypeInv, TypeOK

LEMMA ReleaseTypes ==
  ASSUME TypeInv, NEW s \in Objects, ReleaseTransactionTurn(s)
  PROVE  TypeInv'
<1>1. LockTypes'
  BY DEF ReleaseTransactionTurn, TypeInv, TypeOK, LockTypes
<1>2. ObjectsInUse'
  BY DEF ReleaseTransactionTurn, TypeInv, ObjectsInUse, InUse, regVars, goVars, e2Vars
<1> QED BY <1>1, <1>2, UnchangedTypes DEF ReleaseTransactionTurn, TypeInv, TypeOK

\* The steps of the E2 connection, and the end of the sweep.
LEMMA E2StepTypes ==
  ASSUME TypeInv,
         E2Connect \/ SweepEnd \/ \E kind \in {"down", "reset"} : E2Break(kind)
  PROVE  TypeInv'
<1>1. UNCHANGED <<lockVars, regVars, goVars>>
  BY DEF E2Connect, SweepEnd, E2Break
<1>2. LockTypes' /\ RegTypes' /\ GoTypes'
  BY <1>1, UnchangedTypes DEF TypeInv, TypeOK
<1>3. E2Types'
  <2>1. events' \in 0..MaxE2Events
    BY BoundsAssumption DEF E2Connect, SweepEnd, E2Break, TypeInv, TypeOK, E2Types
  <2>2. e2' \in {"up", "down", "reset"}
    BY DEF E2Connect, SweepEnd, E2Break, TypeInv, TypeOK, E2Types
  <2>3. /\ sweep' \in Sweeps
        /\ sweep'.at = "look" <=> sweep'.obj = None
    <3>1. sweep' \in {sweep, NoSweep, [NoSweep EXCEPT !.on = TRUE, !.todo = Ids]}
      BY DEF E2Connect, SweepEnd, E2Break
    <3>2. CASE sweep' = sweep
      BY <3>2 DEF Sweeps, TypeInv, TypeOK, E2Types
    <3>3. CASE sweep' = NoSweep
      BY <3>3, NoSweepTypes
    <3>4. CASE sweep' = [NoSweep EXCEPT !.on = TRUE, !.todo = Ids]
      BY <3>4, NoSweepTypes
    <3> QED BY <3>1, <3>2, <3>3, <3>4
  <2>4. UNCHANGED pinned
    BY DEF E2Connect, SweepEnd, E2Break
  <2>5. raced' \in BOOLEAN
    BY Zenon DEF E2Connect, SweepEnd, E2Break, TypeInv, TypeOK, E2Types
  <2> QED BY <2>1, <2>2, <2>3, <2>4, <2>5 DEF E2Types, Sweeps, TypeInv, TypeOK
<1>4. XappTypes' /\ EnvTypes'
  BY DEF E2Connect, SweepEnd, E2Break, TypeInv, TypeOK, XappTypes, EnvTypes,
         xappVars, envVars
<1>5. ObjectsInUse'
  <2>1. UNCHANGED <<pc, cur, register, subs, pinned>>
    BY <1>1 DEF E2Connect, SweepEnd, E2Break, regVars, goVars
  <2>2. sweep'.obj \in {sweep.obj, None}
    BY NoSweepTypes DEF E2Connect, SweepEnd, E2Break
  <2> QED BY <2>1, <2>2 DEF TypeInv, ObjectsInUse, InUse
<1> QED BY <1>2, <1>3, <1>4, <1>5 DEF TypeInv, TypeOK

\* The steps of the sweep that work on one entry.
LEMMA SweepTypes ==
  ASSUME TypeInv,
         \/ SweepRoutes \/ SweepDelete \/ SweepReturn \/ SweepRecord
         \/ \E i \in Ids : SweepVisit(i)
  PROVE  TypeInv'
<1>1. /\ LockTypes' /\ GoTypes' /\ XappTypes'
      /\ UNCHANGED <<subs, pc, cur, e2, events, pinned>>
  BY UnchangedTypes DEF SweepRoutes, SweepDelete, SweepReturn, SweepRecord, SweepVisit,
                        TypeInv, TypeOK, goVars, regVars
<1>2. PICK w \in Sweeps : w = sweep /\ (w.at = "look" <=> w.obj = None)
  BY DEF TypeInv, TypeOK, E2Types, Sweeps
<1>3. subIds \in Seq(Ids) /\ subIds' \in Seq(Ids)
  <2>1. subIds \in Seq(Ids)
    BY DEF TypeInv, TypeOK, RegTypes
  <2>2. CASE SweepReturn
    <3>1. PICK i \in Ids : i = subs[w.obj].id
      BY <1>2, <2>2 DEF SweepReturn, TypeInv, ObjectsInUse, InUse
    <3>2. w.ids \in Seq(Ids)
      BY DEF Sweeps
    <3>3. subIds' \in {Append(subIds, i), Append(w.ids, i), subIds}
      BY <1>2, <2>2, <3>1 DEF SweepReturn, ReleaseId
    <3>4. \A q \in Seq(Ids) : Append(q, i) \in Seq(Ids)
      BY <3>1
    <3> QED BY <2>1, <3>2, <3>3, <3>4
  <2>3. CASE UNCHANGED subIds
    BY <2>1, <2>3
  <2> QED BY <2>1, <2>2, <2>3 DEF SweepRoutes, SweepDelete, SweepRecord, SweepVisit, regVars
<1>4. \A i \in Ids : register'[i] \in {register[i], None}
  <2>1. CASE SweepDelete
    BY <2>1 DEF SweepDelete, TypeInv, TypeOK, RegTypes
  <2> QED BY <2>1 DEF SweepRoutes, SweepReturn, SweepRecord, SweepVisit, regVars
<1>5. RegTypes'
  <2>1. register' \in [Ids -> Objects \cup {None}]
    BY DEF SweepRoutes, SweepDelete, SweepReturn, SweepRecord, SweepVisit, regVars, TypeInv,
           TypeOK, RegTypes
  <2> QED BY <1>1, <1>3, <2>1 DEF TypeInv, TypeOK, RegTypes
<1>6. EnvTypes'
  <2>1. CASE SweepRoutes
    <3>1. routes' \in {routes, [routes EXCEPT ![subs[sweep.obj].id]
                                             = @ \ subs[sweep.obj].eps]}
      BY <2>1 DEF SweepRoutes, MayFail
    <3> QED BY <2>1, <3>1 DEF SweepRoutes, TypeInv, TypeOK, EnvTypes
  <2>2. CASE SweepRecord
    <3>1. db' \in {db, [db EXCEPT ![subs[sweep.obj].id] = None]}
      BY <2>2 DEF SweepRecord, WithoutRecord, MayFail
    <3> QED BY <2>2, <3>1 DEF SweepRecord, TypeInv, TypeOK, EnvTypes
  <2>3. CASE UNCHANGED envVars
    BY <2>3, UnchangedTypes DEF TypeInv, TypeOK
  <2> QED BY <2>1, <2>2, <2>3 DEF SweepDelete, SweepReturn, SweepVisit
<1>7. /\ sweep' \in Sweeps /\ (sweep'.at = "look" <=> sweep'.obj = None)
      /\ sweep'.obj \in {sweep.obj, None} \cup Registered
  <2>1. CASE SweepRoutes \/ SweepReturn \/ SweepRecord
    <3>z. <<>> \in Seq(Ids)
      OBVIOUS
    <3>e. PICK e \in Seq(Ids) : e = <<>>
      BY <3>z, Zenon
    <3>0. PICK u : u = [w EXCEPT !.ids = e]
      OBVIOUS
    <3>1. u \in Sweeps /\ u.obj = w.obj
      BY <3>0 DEF Sweeps
    <3>2. \/ sweep' = [w EXCEPT !.at = "delete"] /\ w.at = "routes"
          \/ sweep' = [u EXCEPT !.at = "record"] /\ w.at = "append"
          \/ sweep' = [w EXCEPT !.at = "look", !.obj = None]
      <4>1. CASE SweepRoutes
        BY <1>2, <4>1 DEF SweepRoutes
      <4>2. CASE SweepReturn
        <5>1. [u EXCEPT !.at = "record"] = [w EXCEPT !.at = "record", !.ids = <<>>]
          BY <3>e, <3>0 DEF Sweeps
        <5> QED BY <1>2, <4>2, <5>1 DEF SweepReturn
      <4>3. CASE SweepRecord
        BY <1>2, <4>3 DEF SweepRecord
      <4> QED BY <2>1, <4>1, <4>2, <4>3
    <3>3. CASE sweep' = [w EXCEPT !.at = "delete"] /\ w.at = "routes"
      BY <1>2, <3>3 DEF Sweeps
    <3>4. CASE sweep' = [u EXCEPT !.at = "record"] /\ w.at = "append"
      BY <1>2, <3>1, <3>4 DEF Sweeps
    <3>5. CASE sweep' = [w EXCEPT !.at = "look", !.obj = None]
      BY <3>5 DEF Sweeps
    <3> QED BY <3>2, <3>3, <3>4, <3>5
  <2>2. CASE SweepDelete
    <3>1. sweep' = [w EXCEPT !.at = "append", !.ids = subIds] /\ w.at = "delete"
      BY <1>2, <2>2 DEF SweepDelete
    <3> QED BY <1>2, <1>3, <3>1 DEF Sweeps
  <2>3. ASSUME NEW i \in Ids, SweepVisit(i)
        PROVE  /\ sweep' \in Sweeps /\ (sweep'.at = "look" <=> sweep'.obj = None)
               /\ sweep'.obj \in {sweep.obj, None} \cup Registered
    <3>1. PICK s \in Objects \cup {None} : s = register[i]
      BY DEF TypeInv, TypeOK, RegTypes
    <3>2. s # None => s \in Registered
      BY <3>1 DEF Registered
    <3>3. \/ sweep' = [w EXCEPT !.todo = @ \ {i}, !.obj = None, !.at = "look"]
          \/ s # None /\ sweep' = [w EXCEPT !.todo = @ \ {i}, !.obj = s, !.at = "routes"]
      BY <1>2, <2>3, <3>1 DEF SweepVisit
    <3>4. CASE sweep' = [w EXCEPT !.todo = @ \ {i}, !.obj = None, !.at = "look"]
      BY <3>4 DEF Sweeps
    <3>5. CASE s # None /\ sweep' = [w EXCEPT !.todo = @ \ {i}, !.obj = s, !.at = "routes"]
      <4>1. PICK u : u = [w EXCEPT !.todo = @ \ {i}, !.obj = s, !.at = "routes"]
        OBVIOUS
      <4>2. u \in Sweeps /\ u.obj = s /\ u.at = "routes"
        BY <3>1, <4>1 DEF Sweeps
      <4> QED BY <3>2, <3>5, <4>1, <4>2
    <3> QED BY <3>3, <3>4, <3>5
  <2> QED BY <2>1, <2>2, <2>3
<1>8. raced' \in BOOLEAN
  BY Zenon DEF SweepRoutes, SweepDelete, SweepReturn, SweepRecord, SweepVisit, TypeInv,
               TypeOK, E2Types
<1>9. E2Types'
  <2>1. /\ e2' \in {"up", "down", "reset"} /\ events' \in 0..MaxE2Events
        /\ pinned' \subseteq Objects
    BY <1>1 DEF TypeInv, TypeOK, E2Types
  <2>2. sweep' \in [on : BOOLEAN, todo : SUBSET Ids, obj : Objects \cup {None},
                    at : {"look", "routes", "delete", "append", "record"}, ids : Seq(Ids)]
    BY <1>7 DEF Sweeps
  <2> QED BY <1>7, <1>8, <2>1, <2>2, Zenon DEF E2Types
<1>10. ObjectsInUse'
  BY <1>1, <1>4, <1>5, <1>7, <1>9, InUseStep DEF TypeInv, ObjectsInUse
<1> QED BY <1>1, <1>5, <1>6, <1>9, <1>10 DEF TypeInv, TypeOK

\* Every step keeps the types.
LEMMA TypeStep == TypeInv /\ [Next]_vars => TypeInv'
<1> SUFFICES ASSUME TypeInv, [Next]_vars PROVE TypeInv'
  OBVIOUS
<1>1. CASE UNCHANGED vars
  <2>1. UNCHANGED <<subs, pc, cur, register, sweep, pinned>>
    BY <1>1 DEF vars, regVars, goVars, e2Vars
  <2>2. ObjectsInUse'
    BY <2>1 DEF TypeInv, ObjectsInUse, InUse
  <2> QED BY <1>1, <2>2, UnchangedTypes DEF vars, TypeInv, TypeOK
<1>2. ASSUME NEW c \in Clients, StartCreate(c) \/ Step(c)
      PROVE  TypeInv'
  BY <1>2, StartTypes, AssignLockTypes, AssignPolicyTypes, FindTypes,
     MergeLockTypes, AllocateTypes,
     RouteCreateTypes, InsertTypes, BeginTypes, WaitTransactionTurnTypes,
     GetCachedResponseTypes, SendSubReqTypes, SubReqOutcomeTypes,
     CheckLastEndpointTypes, DeleteAtNodeTypes, UpdateSubscriptionInDBTypes,
     RemoveSubscriptionFromDbTypes, SendEventTypes, EndTypes, OutcomeTypes,
     RemoveLockTypes, RemoveEndpointTypes, RemoveWakeTypes, CleanTypes, DoneTypes
     DEF Step
<1>3. ASSUME NEW c \in Clients, NEW i \in Ids, StartDelete(c, i)
      PROVE  TypeInv'
  BY <1>3, StartTypes
<1>4. ASSUME NEW s \in Objects, ReleaseTransactionTurn(s)
      PROVE  TypeInv'
  BY <1>4, ReleaseTypes
<1>5. CASE (\E kind \in {"down", "reset"} : E2Break(kind)) \/ E2Connect \/ Sweep
  BY <1>5, E2StepTypes, SweepTypes DEF Sweep
<1> QED BY <1>1, <1>2, <1>3, <1>4, <1>5 DEF Next

\* Type correctness of every reachable state: whatever fails and whenever the
\* E2 connection breaks, the pool and the register of registry.go hold ids and
\* objects and nothing else.
THEOREM TypeCorrect == Spec => []TypeOK
<1>1. TypeInv => TypeOK
  BY DEF TypeInv
<1> QED BY <1>1, TypeInit, TypeStep, PTL DEF Spec

-----------------------------------------------------------------------------
(* The mutexes *)

\* Where a goroutine holds Registry.mutex, and where the mutex of its object.
InRegistry(c) ==
  pc[c] \in {"policy", "find", "merge", "rm_del", "p_del", "rm_clean", "p_clean"}

InObject(c) ==
  pc[c] \in {"route", "insert", "rm_clean", "p_sleep", "p_clean", "c_sleep"}

RegistryHeld == \A c \in Clients : InRegistry(c) => rmutex = c

ObjectHeld == \A c \in Clients : InObject(c) => smutex[cur[c]] = c

\* Every new subscription comes from a request that found none to merge into.
FindCreates ==
  \A c \in Clients : /\ pc[c] = "find" => op[c] = "create"
                     /\ pc[c] = "merge" => op[c] = "merge"

LockInv == RegistryHeld /\ ObjectHeld /\ FindCreates

-----------------------------------------------------------------------------
(* The ids *)

\* An entry of the register is filed under the id of its object.
RegisteredIds == \A i \in Ids : register[i] # None => subs[register[i]].id = i

\* findExistingSubs looks at registered objects only.
FoundRegistered ==
  \A c \in Clients : pc[c] = "find" /\ cur[c] # None => cur[c] \in Registered

\* A subscription that is not registered yet has the endpoint it was made for.
AllocatedEps == \A c \in Allocating : subs[cur[c]].eps = {Endpoint[c]}

\* Only a registered subscription has its last endpoint removed.
Cleaning == {c \in Clients : pc[c] \in {"rm_clean", "p_sleep", "p_clean", "c_sleep"}}

CleaningRegistered ==
  \A c \in Cleaning : register[subs[cur[c]].id] = cur[c]

\* An object that is not registered has no endpoints, unless it is new: a
\* second RemoveFromSubscription finds nothing to remove.
LeftEmpty ==
  \A s \in Objects :
    s \notin Registered /\ subs[s].eps # {} => \E c \in Allocating : cur[c] = s

IdInv ==
  /\ UniqueInstanceIds
  /\ RegisteredIds
  /\ FoundRegistered
  /\ AllocatedEps
  /\ CleaningRegistered
  /\ LeftEmpty
  /\ sweep = NoSweep

-----------------------------------------------------------------------------
(* Proofs about the mutexes *)

\* A step of one goroutine leaves the others where they are.
OthersKept(c) ==
  \A d \in Clients \ {c} : /\ pc'[d] = pc[d]
                           /\ cur'[d] = cur[d]
                           /\ op'[d] = op[d]

LEMMA StartOthers ==
  ASSUME TypeInv, NEW c \in Clients, StartCreate(c) \/ \E i \in Ids : StartDelete(c, i)
  PROVE  OthersKept(c)
BY DEF StartCreate, StartDelete, OthersKept, Goto, goVars, TypeInv, TypeOK, GoTypes

LEMMA StepOthers ==
  ASSUME TypeInv, NEW c \in Clients, Step(c)
  PROVE  OthersKept(c)
<1> USE DEF OthersKept, Goto, Return, TypeInv, TypeOK, GoTypes
<1>1. CASE AssignLock(c)
  BY <1>1 DEF AssignLock
<1>2. CASE AssignPolicy(c)
  BY <1>2 DEF AssignPolicy
<1>3. CASE FindExistingSubs(c) \/ MergeLock(c)
  BY <1>3 DEF FindExistingSubs, MergeLock
<1>4. CASE AllocateSubs(c)
  <2>1. Return(c) \/ (UNCHANGED op /\ Goto(c, "route") /\ \E s : cur' = [cur EXCEPT ![c] = s])
    BY <1>4 DEF AllocateSubs
  <2> QED BY <2>1
<1>5. CASE RouteCreate(c) \/ AssignInsert(c)
  BY <1>5 DEF RouteCreate, AssignInsert
<1>6. CASE Begin(c) \/ WaitTransactionTurn(c) \/ GetCachedResponse(c) \/ SendSubReq(c)
  BY <1>6 DEF Begin, WaitTransactionTurn, GetCachedResponse, SendSubReq
<1>7. CASE SubReqOutcome(c) \/ CheckLastEndpoint(c) \/ DeleteAtNode(c)
  BY <1>7 DEF SubReqOutcome, CheckLastEndpoint, DeleteAtNode
<1>8. CASE UpdateSubscriptionInDB(c) \/ RemoveSubscriptionFromDb(c) \/ SendEvent(c)
  BY <1>8 DEF UpdateSubscriptionInDB, RemoveSubscriptionFromDb, SendEvent
<1>9. CASE End(c) \/ Outcome(c) \/ Done(c)
  BY <1>9 DEF End, Outcome, Done
<1>10. CASE RemoveLock(c) \/ RemoveEndpoint(c) \/ RemoveWake(c) \/ RemoveClean(c)
  BY <1>10 DEF RemoveLock, RemoveEndpoint, RemoveWake, RemoveClean
<1> QED BY <1>1, <1>2, <1>3, <1>4, <1>5, <1>6, <1>7, <1>8, <1>9, <1>10 DEF Step

\* The mutexes stay with their holders when the step takes none that is held,
\* releases none but its own, and leaves its goroutine in the right place.
LEMMA LockKeep ==
  ASSUME LockInv, TypeInv, NEW c \in Clients, OthersKept(c),
         rmutex' = rmutex \/ rmutex \in {None, c},
         \A s \in Objects : smutex'[s] = smutex[s] \/ smutex[s] \in {None, c},
         InRegistry(c)' => rmutex' = c,
         InObject(c)' => smutex'[cur'[c]] = c,
         pc'[c] = "find" => op'[c] = "create",
         pc'[c] = "merge" => op'[c] = "merge"
  PROVE  LockInv'
<1>1. ASSUME NEW d \in Clients \ {c}, InObject(d)
      PROVE  cur[d] \in Objects /\ smutex[cur[d]] = d
  BY <1>1 DEF InObject, LockInv, ObjectHeld, TypeInv, TypeOK, GoTypes, ObjectsInUse
<1>2. ObjectHeld'
  BY <1>1, NoneAssumption DEF ObjectHeld, InObject, OthersKept
<1>3. RegistryHeld'
  BY NoneAssumption DEF LockInv, RegistryHeld, InRegistry, OthersKept
<1>4. FindCreates'
  BY DEF LockInv, FindCreates, OthersKept
<1> QED BY <1>2, <1>3, <1>4 DEF LockInv

\* A step outside the critical sections.
LEMMA LockPlain ==
  ASSUME LockInv, TypeInv, NEW c \in Clients, OthersKept(c),
         UNCHANGED <<rmutex, smutex>>,
         ~InRegistry(c)', ~InObject(c)'
  PROVE  LockInv'
BY LockKeep DEF InRegistry

LEMMA LockStep == TypeInv /\ LockInv /\ [Next]_vars => LockInv'
<1> SUFFICES ASSUME TypeInv, LockInv, [Next]_vars PROVE LockInv'
  OBVIOUS
<1>1. CASE UNCHANGED <<rmutex, smutex, pc, cur, op>>
  BY <1>1 DEF LockInv, RegistryHeld, ObjectHeld, FindCreates, InRegistry, InObject
<1>2. ASSUME NEW c \in Clients, StartCreate(c) \/ \E i \in Ids : StartDelete(c, i)
      PROVE  LockInv'
  <2>1. UNCHANGED <<rmutex, smutex>>
    BY <1>2 DEF StartCreate, StartDelete, lockVars
  <2>2. ~InRegistry(c)' /\ ~InObject(c)'
    BY <1>2 DEF StartCreate, StartDelete, Goto, goVars, InRegistry, InObject, TypeInv,
                TypeOK, GoTypes
  <2> QED BY <1>2, <2>1, <2>2, StartOthers, LockPlain
<1>3. ASSUME NEW c \in Clients, Step(c)
      PROVE  LockInv'
  <2> USE DEF Goto, Return, InRegistry, InObject
  <2>0. OthersKept(c) /\ pc \in [Clients -> Places] /\ op \in [Clients -> Operations]
    BY <1>3, StepOthers DEF TypeInv, TypeOK, GoTypes
  <2>1. CASE AssignLock(c)
    BY <2>0, <2>1, LockKeep DEF AssignLock
  <2>2. CASE AssignPolicy(c)
    BY <2>0, <2>2, LockKeep DEF AssignPolicy, Unlock, LockInv, RegistryHeld
  <2>3. CASE FindExistingSubs(c)
    <3>1. rmutex = c /\ cur[c] \in Objects /\ op[c] = "create"
      BY <2>3 DEF FindExistingSubs, LockInv, RegistryHeld, FindCreates, TypeInv, TypeOK, GoTypes
    <3> QED BY <2>0, <2>3, <3>1, LockKeep DEF FindExistingSubs, Unlock, TypeInv, TypeOK,
               LockTypes, GoTypes
  <2>m. CASE MergeLock(c)
    <3>1. rmutex = c /\ cur[c] \in Objects
      BY <2>m DEF MergeLock, LockInv, RegistryHeld, TypeInv, TypeOK, GoTypes, ObjectsInUse
    <3> QED BY <2>0, <2>m, <3>1, LockKeep DEF MergeLock, Unlock, TypeInv, TypeOK, LockTypes
  <2>4. CASE AllocateSubs(c)
    <3>1. rmutex = c /\ rmutex' = None
      BY <2>4 DEF AllocateSubs, Unlock, LockInv, RegistryHeld
    <3>2. CASE Return(c) /\ UNCHANGED smutex
      BY <2>0, <3>1, <3>2, LockKeep
    <3>3. CASE ~(Return(c) /\ UNCHANGED smutex)
      <4>1. PICK s : /\ Garbage # {} /\ s = CHOOSE o \in Garbage : TRUE
                     /\ cur' = [cur EXCEPT ![c] = s]
                     /\ smutex' = [smutex EXCEPT ![s] = c]
                     /\ Goto(c, "route")
        BY <2>4, <3>3 DEF AllocateSubs
      <4>2. s \in Garbage /\ s \in Objects
        BY <4>1 DEF Garbage
      <4>3. \A d \in Clients \ {c} : InObject(d)' => smutex'[cur'[d]] = d
        BY <2>0, <4>1, <4>2 DEF Garbage, OthersKept, LockInv, ObjectHeld, TypeInv, TypeOK,
           LockTypes, GoTypes
      <4>4. smutex'[cur'[c]] = c /\ pc'[c] = "route"
        BY <2>0, <4>1, <4>2 DEF TypeInv, TypeOK, LockTypes, GoTypes
      <4>5. ObjectHeld'
        BY <4>3, <4>4 DEF ObjectHeld
      <4>6. RegistryHeld'
        BY <2>0, <3>1, <4>4, NoneAssumption DEF LockInv, RegistryHeld, OthersKept
      <4>7. FindCreates'
        BY <2>0, <4>4 DEF LockInv, FindCreates, OthersKept
      <4> QED BY <4>5, <4>6, <4>7 DEF LockInv
    <3> QED BY <3>2, <3>3
  <2>5. CASE RouteCreate(c) \/ AssignInsert(c)
    <3>1. smutex[cur[c]] = c /\ cur[c] \in Objects
      BY <2>5 DEF RouteCreate, AssignInsert, LockInv, ObjectHeld, TypeInv, TypeOK, GoTypes,
                  ObjectsInUse
    <3> QED BY <2>0, <2>5, <3>1, LockKeep DEF RouteCreate, AssignInsert, lockVars, TypeInv,
               TypeOK, LockTypes
  <2>6. CASE Begin(c) \/ WaitTransactionTurn(c) \/ GetCachedResponse(c) \/ SendSubReq(c)
    BY <2>0, <2>6, LockPlain
       DEF Begin, WaitTransactionTurn, GetCachedResponse, SendSubReq, lockVars
  <2>7. CASE SubReqOutcome(c) \/ CheckLastEndpoint(c) \/ DeleteAtNode(c)
    BY <2>0, <2>7, LockPlain DEF SubReqOutcome, CheckLastEndpoint, DeleteAtNode, lockVars
  <2>8. CASE UpdateSubscriptionInDB(c) \/ RemoveSubscriptionFromDb(c) \/ SendEvent(c)
    BY <2>0, <2>8, LockPlain
       DEF UpdateSubscriptionInDB, RemoveSubscriptionFromDb, SendEvent, lockVars
  <2>9. CASE End(c) \/ Outcome(c) \/ Done(c)
    BY <2>0, <2>9, LockPlain DEF End, Outcome, Done, lockVars
  <2>10. CASE RemoveLock(c)
    BY <2>0, <2>10, LockKeep DEF RemoveLock
  <2>11. CASE RemoveEndpoint(c)
    <3>1. rmutex = c /\ cur[c] \in Objects
      BY <2>11 DEF RemoveEndpoint, LockInv, RegistryHeld, TypeInv, TypeOK, GoTypes, ObjectsInUse
    <3> QED BY <2>0, <2>11, <3>1, LockKeep DEF RemoveEndpoint, Unlock, TypeInv, TypeOK,
               LockTypes
  <2>12. CASE RemoveWake(c) \/ RemoveClean(c)
    <3>1. smutex[cur[c]] = c /\ cur[c] \in Objects
      BY <2>12 DEF RemoveWake, RemoveClean, LockInv, ObjectHeld, TypeInv, TypeOK, GoTypes,
                   ObjectsInUse
    <3>2. CASE RemoveWake(c)
      BY <2>0, <3>1, <3>2, LockKeep DEF RemoveWake
    <3>3. CASE RemoveClean(c)
      <4>1. rmutex = c /\ rmutex' = None /\ pc'[c] \in {"event", "done"}
        BY <2>0, <3>3 DEF RemoveClean, Unlock, LockInv, RegistryHeld
      <4> QED BY <2>0, <3>1, <3>3, <4>1, LockKeep DEF RemoveClean, TypeInv, TypeOK, LockTypes
    <3> QED BY <2>12, <3>2, <3>3
  <2> QED BY <1>3, <2>1, <2>2, <2>3, <2>m, <2>4, <2>5, <2>6, <2>7, <2>8, <2>9, <2>10, <2>11,
             <2>12 DEF Step
<1>4. ASSUME NEW s \in Objects, ReleaseTransactionTurn(s)
      PROVE  LockInv'
  BY <1>1, <1>4 DEF ReleaseTransactionTurn, goVars
<1>5. CASE (\E kind \in {"down", "reset"} : E2Break(kind)) \/ E2Connect \/ Sweep
  BY <1>1, <1>5 DEF E2Break, E2Connect, Sweep, SweepVisit, SweepRoutes, SweepDelete,
                    SweepReturn, SweepRecord, SweepEnd, goVars, lockVars
<1>6. CASE UNCHANGED vars
  BY <1>1, <1>6 DEF vars, goVars, lockVars
<1> QED BY <1>2, <1>3, <1>4, <1>5, <1>6 DEF Next

LEMMA LockInit == Init => LockInv
BY DEF Init, LockInv, RegistryHeld, ObjectHeld, FindCreates, InRegistry, InObject

\* The critical sections of registry.go are critical sections: a goroutine
\* that reads or changes the register, or waits for Routing Manager with a
\* subscription locked, holds the mutex it is written to hold, whatever fails.
THEOREM MutexesHeld == Spec => [](TypeInv /\ LockInv)
<1>1. TypeInv /\ LockInv /\ [Next]_vars => (TypeInv /\ LockInv)'
  BY TypeStep, LockStep
<1> QED BY <1>1, TypeInit, LockInit, PTL DEF Spec

-----------------------------------------------------------------------------
(* No id is lost *)

Free(i) == \E n \in 1..Len(subIds) : subIds[n] = i

Used(i) == register[i] # None \/ \E c \in Allocating : subs[cur[c]].id = i

Held(i) == Used(i) \/ Returning(i)

Kept == \A i \in Ids : Free(i) \/ Held(i)

LEMMA LostDef == NoIdLost <=> raced \/ Kept
BY DEF NoIdLost, Kept, Free, Held, Used

\* An id stays on its way to the pool while the sweep and its object rest.
LEMMA ReturningKept ==
  ASSUME TypeInv, UNCHANGED sweep,
         sweep.obj # None => subs'[sweep.obj].id = subs[sweep.obj].id
  PROVE  \A i \in Ids : Returning(i)' <=> Returning(i)
BY DEF Returning, TypeInv, TypeOK, E2Types

\* What the queue operations do to the set of free ids.
LEMMA QueueAppend ==
  ASSUME NEW q \in Seq(Ids), NEW i \in Ids
  PROVE  /\ Append(q, i) \in Seq(Ids)
         /\ Len(Append(q, i)) = Len(q) + 1
         /\ \A n \in 1..Len(q) : Append(q, i)[n] = q[n]
         /\ Append(q, i)[Len(q) + 1] = i
OBVIOUS

LEMMA QueueTail ==
  ASSUME NEW q \in Seq(Ids), q # <<>>
  PROVE  /\ Head(q) = q[1] /\ Head(q) \in Ids
         /\ Tail(q) \in Seq(Ids)
         /\ Len(Tail(q)) = Len(q) - 1
         /\ \A n \in 1..Len(q) - 1 : Tail(q)[n] = q[n + 1]
OBVIOUS

LEMMA FreeAppend ==
  ASSUME NEW i \in Ids, subIds \in Seq(Ids), subIds' = Append(subIds, i)
  PROVE  Free(i)' /\ \A j \in Ids : Free(j) => Free(j)'
<1>1. Len(subIds) \in Nat
  OBVIOUS
<1>2. Free(i)'
  <2>1. Len(subIds) + 1 \in 1..Len(subIds') /\ subIds'[Len(subIds) + 1] = i
    BY <1>1, QueueAppend
  <2> QED BY <2>1 DEF Free
<1>3. ASSUME NEW j \in Ids, Free(j) PROVE Free(j)'
  <2>1. PICK n \in 1..Len(subIds) : subIds[n] = j
    BY <1>3 DEF Free
  <2>2. n \in 1..Len(subIds') /\ subIds'[n] = j
    BY <1>1, <2>1, QueueAppend
  <2> QED BY <2>2 DEF Free
<1> QED BY <1>2, <1>3

LEMMA FreeTail ==
  ASSUME subIds \in Seq(Ids), subIds # <<>>, subIds' = Tail(subIds)
  PROVE  \A j \in Ids : Free(j) => j = Head(subIds) \/ Free(j)'
<1> SUFFICES ASSUME NEW j \in Ids, Free(j), j # Head(subIds) PROVE Free(j)'
  OBVIOUS
<1>1. PICK n \in 1..Len(subIds) : subIds[n] = j
  BY DEF Free
<1>2. n # 1 /\ Len(subIds) \in Nat
  BY <1>1, QueueTail
<1>3. n - 1 \in 1..Len(subIds') /\ subIds'[n - 1] = j
  BY <1>1, <1>2, QueueTail
<1> QED BY <1>3 DEF Free

LEMMA FreeRotate ==
  ASSUME subIds \in Seq(Ids), subIds # <<>>, subIds' = Append(Tail(subIds), Head(subIds))
  PROVE  \A j \in Ids : Free(j) => Free(j)'
<1> SUFFICES ASSUME NEW j \in Ids, Free(j) PROVE Free(j)'
  OBVIOUS
<1>1. PICK n \in 1..Len(subIds) : subIds[n] = j
  BY DEF Free
<1>2. PICK t \in Seq(Ids) : /\ t = Tail(subIds) /\ Len(t) = Len(subIds) - 1
                            /\ \A k \in 1..Len(subIds) - 1 : t[k] = subIds[k + 1]
  BY QueueTail
<1>3. Head(subIds) \in Ids /\ Head(subIds) = subIds[1] /\ Len(subIds) \in Nat
  BY QueueTail
<1>4. CASE n = 1
  <2>1. Len(t) + 1 \in 1..Len(subIds') /\ subIds'[Len(t) + 1] = j
    BY <1>1, <1>2, <1>3, <1>4, QueueAppend
  <2> QED BY <2>1 DEF Free
<1>5. CASE n # 1
  <2>1. n - 1 \in 1..Len(t) /\ t[n - 1] = j
    BY <1>1, <1>2, <1>3, <1>5
  <2>2. n - 1 \in 1..Len(subIds') /\ subIds'[n - 1] = j
    BY <1>2, <1>3, <2>1, QueueAppend
  <2> QED BY <2>2 DEF Free
<1> QED BY <1>4, <1>5

\* A step that takes no id from the pool, empties no entry of the register and
\* ends no allocation loses no id.
LEMMA LostKeep ==
  ASSUME Kept, TypeInv, UNCHANGED <<subIds, sweep>>,
         \A i \in Ids : register[i] # None => register'[i] # None,
         \A o \in Objects : subs'[o].id = subs[o].id,
         \A d \in Allocating : d \in Allocating' /\ cur'[d] = cur[d]
  PROVE  Kept'
<1>1. \A d \in Allocating : cur[d] \in Objects
  BY DEF Allocating, TypeInv, TypeOK, GoTypes, ObjectsInUse
<1>2. \A i \in Ids : Returning(i)' <=> Returning(i)
  BY ReturningKept DEF TypeInv, TypeOK, E2Types
<1>3. \A i \in Ids : (Free(i) => Free(i)') /\ (Used(i) => Used(i)')
  BY <1>1 DEF Free, Used
<1> QED BY <1>2, <1>3 DEF Kept, Held

\* The same when the step of goroutine c is not part of an allocation.
LEMMA LostPlain ==
  ASSUME Kept, TypeInv, NEW c \in Clients, OthersKept(c),
         UNCHANGED <<subIds, register, sweep>>,
         \A o \in Objects : subs'[o].id = subs[o].id,
         pc[c] \notin {"route", "insert"}
  PROVE  Kept'
<1>1. \A d \in Allocating : d \in Allocating' /\ cur'[d] = cur[d]
  BY DEF Allocating, OthersKept
<1> QED BY <1>1, LostKeep

-----------------------------------------------------------------------------
(* The steps that touch neither the register nor the pool nor an endpoint list *)

PlainStep(c) ==
  \/ StartCreate(c) \/ \E i \in Ids : StartDelete(c, i)
  \/ AssignPolicy(c) \/ Begin(c) \/ WaitTransactionTurn(c) \/ GetCachedResponse(c)
  \/ SendSubReq(c) \/ SubReqOutcome(c) \/ CheckLastEndpoint(c) \/ DeleteAtNode(c)
  \/ UpdateSubscriptionInDB(c) \/ RemoveSubscriptionFromDb(c) \/ SendEvent(c)
  \/ End(c) \/ Outcome(c) \/ RemoveLock(c) \/ Done(c)

\* The ids and endpoints of every object are what they were.
SubsKept ==
  \A o \in Objects : subs'[o].id = subs[o].id /\ subs'[o].eps = subs[o].eps

LEMMA PlainSubs ==
  ASSUME TypeInv, NEW c \in Clients, PlainStep(c)
  PROVE  SubsKept
<1>1. CASE UNCHANGED subs
  BY <1>1 DEF SubsKept
<1>2. CASE StartCreate(c) \/ \E i \in Ids : StartDelete(c, i)
  BY <1>1, <1>2 DEF StartCreate, StartDelete, regVars
<1>3. CASE WaitTransactionTurn(c) \/ GetCachedResponse(c) \/ DeleteAtNode(c)
  BY <1>1, <1>3 DEF WaitTransactionTurn, GetCachedResponse, DeleteAtNode, regVars
<1>4. CASE SendEvent(c) \/ Outcome(c) \/ RemoveLock(c) \/ Done(c)
  BY <1>1, <1>4 DEF SendEvent, Outcome, RemoveLock, Done, regVars
<1>5. CASE AssignPolicy(c) \/ Begin(c) \/ SendSubReq(c) \/ SubReqOutcome(c)
  BY <1>5, AssignPolicySubs, BeginSubs, SendSubReqSubs, SubReqOutcomeSubs DEF SubsKept
<1>6. CASE CheckLastEndpoint(c) \/ UpdateSubscriptionInDB(c)
           \/ RemoveSubscriptionFromDb(c) \/ End(c)
  BY <1>6, CheckLastEndpointSubs, UpdateSubscriptionInDBSubs,
     RemoveSubscriptionFromDbSubs, EndSubs DEF SubsKept
<1> QED BY <1>2, <1>3, <1>4, <1>5, <1>6 DEF PlainStep

LEMMA PlainKeeps ==
  ASSUME TypeInv, NEW c \in Clients, PlainStep(c)
  PROVE  /\ OthersKept(c) /\ SubsKept
         /\ UNCHANGED <<register, subIds, smutex, sweep>>
         /\ ~InObject(c) /\ ~InObject(c)' /\ pc'[c] # "find"
<1>1. OthersKept(c)
  BY StartOthers, StepOthers DEF PlainStep, Step
<1>2. UNCHANGED <<register, subIds, smutex, sweep>>
  <2> USE DEF regVars, lockVars, e2Vars
  <2>1. CASE StartCreate(c) \/ \E i \in Ids : StartDelete(c, i)
    BY <2>1 DEF StartCreate, StartDelete
  <2>2. CASE AssignPolicy(c) \/ Begin(c) \/ WaitTransactionTurn(c) \/ GetCachedResponse(c)
    BY <2>2 DEF AssignPolicy, Begin, WaitTransactionTurn, GetCachedResponse
  <2>3. CASE SendSubReq(c) \/ SubReqOutcome(c) \/ CheckLastEndpoint(c) \/ DeleteAtNode(c)
    BY <2>3 DEF SendSubReq, SubReqOutcome, CheckLastEndpoint, DeleteAtNode
  <2>4. CASE UpdateSubscriptionInDB(c) \/ RemoveSubscriptionFromDb(c) \/ SendEvent(c)
    BY <2>4 DEF UpdateSubscriptionInDB, RemoveSubscriptionFromDb, SendEvent
  <2>5. CASE End(c) \/ Outcome(c) \/ RemoveLock(c) \/ Done(c)
    BY <2>5 DEF End, Outcome, RemoveLock, Done
  <2> QED BY <2>1, <2>2, <2>3, <2>4, <2>5 DEF PlainStep
<1>3. ~InObject(c) /\ ~InObject(c)' /\ pc'[c] # "find"
  <2> USE DEF InObject, Goto, Return, goVars
  <2>0. pc \in [Clients -> Places]
    BY DEF TypeInv, TypeOK, GoTypes
  <2>1. CASE StartCreate(c) \/ \E i \in Ids : StartDelete(c, i)
    BY <2>0, <2>1 DEF StartCreate, StartDelete
  <2>2. CASE AssignPolicy(c) \/ Begin(c) \/ WaitTransactionTurn(c) \/ GetCachedResponse(c)
    BY <2>0, <2>2 DEF AssignPolicy, Begin, WaitTransactionTurn, GetCachedResponse
  <2>3. CASE SendSubReq(c) \/ SubReqOutcome(c) \/ CheckLastEndpoint(c) \/ DeleteAtNode(c)
    BY <2>0, <2>3 DEF SendSubReq, SubReqOutcome, CheckLastEndpoint, DeleteAtNode
  <2>4. CASE UpdateSubscriptionInDB(c) \/ RemoveSubscriptionFromDb(c) \/ SendEvent(c)
    BY <2>0, <2>4 DEF UpdateSubscriptionInDB, RemoveSubscriptionFromDb, SendEvent
  <2>5. CASE End(c) \/ Outcome(c) \/ RemoveLock(c) \/ Done(c)
    BY <2>0, <2>5 DEF End, Outcome, RemoveLock, Done
  <2> QED BY <2>1, <2>2, <2>3, <2>4, <2>5 DEF PlainStep
<1> QED BY <1>1, <1>2, <1>3, PlainSubs

\* The three ends of allocateSubs.
NewObject(c, s) ==
  /\ subIds # <<>> /\ register[Head(subIds)] = None
  /\ subs' = [subs EXCEPT ![s] = NewSubscription(c, Head(subIds))]
  /\ cur' = [cur EXCEPT ![c] = s]
  /\ smutex' = [smutex EXCEPT ![s] = c]
  /\ subIds' = Tail(subIds)
  /\ Goto(c, "route")
  /\ UNCHANGED op

LEMMA AllocateCases ==
  ASSUME TypeInv, NEW c \in Clients, AllocateSubs(c)
  PROVE  /\ UNCHANGED <<register, sweep>>
         /\ \/ Return(c) /\ UNCHANGED <<subIds, subs, smutex>>
            \/ /\ Return(c) /\ UNCHANGED <<subs, smutex>>
               /\ subIds # <<>> /\ register[Head(subIds)] # None
               /\ subIds' = Append(Tail(subIds), Head(subIds))
            \/ \E s \in Garbage : NewObject(c, s)
<1>1. Garbage # {} => (CHOOSE o \in Garbage : TRUE) \in Garbage
  OBVIOUS
<1>2. CASE subIds # <<>> /\ register[Head(subIds)] = None
  BY <1>1, <1>2 DEF AllocateSubs, NewObject, e2Vars
<1>3. CASE subIds = <<>> \/ register[Head(subIds)] # None
  BY <1>3 DEF AllocateSubs, e2Vars
<1> QED BY <1>2, <1>3

LEMMA AllocateLost ==
  ASSUME TypeInv, LockInv, Kept, NEW c \in Clients, AllocateSubs(c)
  PROVE  Kept'
<1>1. /\ OthersKept(c) /\ UNCHANGED <<register, sweep>>
      /\ pc[c] = "find" /\ op[c] = "create"
  BY StepOthers, AllocateCases DEF Step, AllocateSubs, LockInv, FindCreates
<1>2. subIds \in Seq(Ids)
  BY DEF TypeInv, TypeOK, RegTypes
<1>3. c \notin Allocating /\ \A d \in Allocating : d \in Allocating' /\ cur'[d] = cur[d]
  BY <1>1 DEF Allocating, OthersKept
<1>4. CASE UNCHANGED <<subIds, subs>>
  BY <1>1, <1>4, LostPlain
<1>5. CASE /\ UNCHANGED subs /\ subIds # <<>>
           /\ subIds' = Append(Tail(subIds), Head(subIds))
  <2>1. \A i \in Ids : Free(i) => Free(i)'
    BY <1>2, <1>5, FreeRotate
  <2>2. \A i \in Ids : Held(i) => Held(i)'
    BY <1>1, <1>3, <1>5, ReturningKept DEF Held, Used
  <2>3. \A i \in Ids : Free(i)' \/ Held(i)'
    BY <2>1, <2>2 DEF Kept
  <2> QED BY <2>3, LostDef DEF Kept
<1>6. ASSUME NEW s \in Garbage, NewObject(c, s)
      PROVE  Kept'
  <2>0. PICK h \in Ids : h = Head(subIds)
    BY <1>2, <1>6, QueueTail DEF NewObject
  <2>1. s \in Objects /\ sweep.obj # s /\ \A d \in Clients : cur[d] # s
    BY DEF Garbage
  <2>2. cur'[c] = s /\ c \in Allocating'
    BY <1>1, <1>6 DEF NewObject, Goto, Allocating, TypeInv, TypeOK, GoTypes
  <2>3. subs'[s].id = h /\ \A o \in Objects \ {s} : subs'[o] = subs[o]
    BY <1>6, <2>0, <2>1 DEF NewObject, NewSubscription, TypeInv, TypeOK, RegTypes
  <2>4. Held(h)'
    BY <2>2, <2>3 DEF Held, Used
  <2>5. \A d \in Allocating : cur[d] \in Objects \ {s}
    BY <2>1 DEF Allocating, TypeInv, TypeOK, GoTypes, ObjectsInUse
  <2>6. \A i \in Ids : Held(i) => Held(i)'
    <3>1. \A i \in Ids : Returning(i)' <=> Returning(i)
      BY <1>1, <2>1, <2>3, ReturningKept DEF TypeInv, TypeOK, E2Types
    <3>2. \A i \in Ids : Used(i) => Used(i)'
      BY <1>1, <1>3, <2>3, <2>5 DEF Used
    <3> QED BY <3>1, <3>2 DEF Held
  <2>7. \A i \in Ids : Free(i) => i = h \/ Free(i)'
    BY <1>2, <1>6, <2>0, FreeTail DEF NewObject
  <2>8. \A i \in Ids : Free(i)' \/ Held(i)'
    BY <2>4, <2>6, <2>7 DEF Kept
  <2> QED BY <2>8 DEF Kept
<1> QED BY <1>4, <1>5, <1>6, AllocateCases

LEMMA InsertLost ==
  ASSUME TypeInv, LockInv, Kept, NEW c \in Clients, AssignInsert(c)
  PROVE  Kept'
<1>1. OthersKept(c) /\ UNCHANGED sweep
  BY StepOthers DEF Step, AssignInsert, e2Vars
<1>2. PICK s \in Objects : s = cur[c] /\ subs[s].id \in Ids
  BY NoneAssumption DEF AssignInsert, TypeInv, TypeOK, GoTypes, ObjectsInUse, InUse
<1>3. subIds \in Seq(Ids) /\ subs \in [Objects -> Subscription]
      /\ register \in [Ids -> Objects \cup {None}]
  BY DEF TypeInv, TypeOK, RegTypes
<1>4. \A d \in Allocating \ {c} : d \in Allocating' /\ cur'[d] = cur[d]
  BY <1>1 DEF Allocating, OthersKept
<1>5. \A o \in Objects : subs'[o].id = subs[o].id
  <2>1. CASE \E e : subs' = [subs EXCEPT ![s].eps = @ \ {e}]
    BY <1>3, <2>1 DEF Subscription
  <2>2. CASE UNCHANGED subs
    BY <2>2
  <2> QED BY <1>2, <2>1, <2>2 DEF AssignInsert, RollBack
<1>6. \A d \in Allocating : cur[d] \in Objects
  BY DEF Allocating, TypeInv, TypeOK, GoTypes, ObjectsInUse
<1>r. \A i \in Ids : Returning(i)' <=> Returning(i)
  BY <1>1, <1>5, ReturningKept DEF TypeInv, TypeOK, E2Types
<1>7. CASE subIds' = Append(subIds, subs[s].id) /\ UNCHANGED register
  <2>0. PICK h \in Ids : h = subs[s].id
    BY <1>2
  <2>1. Free(h)' /\ \A i \in Ids : Free(i) => Free(i)'
    BY <1>2, <1>3, <1>7, <2>0, FreeAppend
  <2>2. \A i \in Ids : Held(i) => Held(i)' \/ i = h
    BY <1>2, <1>4, <1>5, <1>6, <1>r, <1>7, <2>0 DEF Held, Used
  <2>3. \A i \in Ids : Free(i)' \/ Held(i)'
    BY <2>1, <2>2 DEF Kept
  <2> QED BY <2>3 DEF Kept
<1>8. CASE UNCHANGED subIds /\ register' = [register EXCEPT ![subs[s].id] = s]
  <2>1. \A i \in Ids : register[i] # None => register'[i] # None
    BY <1>2, <1>3, <1>8, NoneAssumption
  <2>2. register'[subs[s].id] # None
    BY <1>2, <1>3, <1>8, NoneAssumption
  <2>3. \A i \in Ids : Held(i) => Held(i)'
    BY <1>2, <1>4, <1>5, <1>6, <1>r, <2>1, <2>2 DEF Held, Used
  <2>4. \A i \in Ids : Free(i) => Free(i)'
    BY <1>8 DEF Free
  <2>5. \A i \in Ids : Free(i)' \/ Held(i)'
    BY <2>3, <2>4 DEF Kept
  <2> QED BY <2>5 DEF Kept
<1>9. CASE op[c] # "create" /\ UNCHANGED <<subIds, register>>
  <2>1. c \notin Allocating
    BY <1>9 DEF Allocating
  <2>2. \A d \in Allocating : d \in Allocating' /\ cur'[d] = cur[d]
    BY <1>4, <2>1
  <2> QED BY <1>1, <1>5, <1>9, <2>2, LostKeep
<1> QED BY <1>2, <1>7, <1>8, <1>9 DEF AssignInsert, RollBack, ReleaseId

\* The end of a subscription: its entry goes and its id is free.
LEMMA ReleaseLost ==
  ASSUME TypeInv, Kept, NEW i \in Ids, UNCHANGED sweep,
         register' = [register EXCEPT ![i] = None],
         subIds' = Append(subIds, i),
         \A o \in Objects : subs'[o].id = subs[o].id,
         \A d \in Allocating : d \in Allocating' /\ cur'[d] = cur[d]
  PROVE  Kept'
<1>1. subIds \in Seq(Ids) /\ register \in [Ids -> Objects \cup {None}]
  BY DEF TypeInv, TypeOK, RegTypes
<1>2. Free(i)' /\ \A j \in Ids : Free(j) => Free(j)'
  BY <1>1, FreeAppend
<1>3. \A d \in Allocating : cur[d] \in Objects
  BY DEF Allocating, TypeInv, TypeOK, GoTypes, ObjectsInUse
<1>4. \A j \in Ids : Held(j) => Held(j)' \/ j = i
  <2>1. \A j \in Ids : Returning(j)' <=> Returning(j)
    BY ReturningKept DEF TypeInv, TypeOK, E2Types
  <2>2. \A j \in Ids : Used(j) => Used(j)' \/ j = i
    BY <1>1, <1>3 DEF Used
  <2> QED BY <2>1, <2>2 DEF Held
<1>5. \A j \in Ids : Free(j)' \/ Held(j)'
  BY <1>2, <1>4 DEF Kept
<1> QED BY <1>5 DEF Kept

\* The sweep takes the id of its entry out of the map and puts it into the pool.
LEMMA SweepLost ==
  ASSUME TypeInv, Kept, SweepDelete \/ SweepReturn
  PROVE  raced' \/ Kept'
<1>1. PICK i \in Ids : i = subs[sweep.obj].id
  BY DEF SweepDelete, SweepReturn, TypeInv, TypeOK, E2Types, ObjectsInUse, InUse
<1>2. UNCHANGED <<subs, pc, cur, op>> /\ Allocating' = Allocating
  BY DEF SweepDelete, SweepReturn, goVars, Allocating
<1>3. CASE SweepDelete
  <2>1. Returning(i)' /\ UNCHANGED subIds /\ \A j \in Ids : ~Returning(j)
    BY <1>1, <1>2, <1>3 DEF SweepDelete, Returning, TypeInv, TypeOK, E2Types
  <2>2. \A j \in Ids : Used(j) => Used(j)' \/ j = i
    BY <1>1, <1>2, <1>3 DEF SweepDelete, Used, TypeInv, TypeOK, RegTypes
  <2>3. \A j \in Ids : Free(j) => Free(j)'
    BY <2>1 DEF Free
  <2> QED BY <2>1, <2>2, <2>3 DEF Kept, Held
<1>4. CASE SweepReturn /\ subIds = sweep.ids
  <2>1. subIds' = Append(subIds, i) /\ UNCHANGED register
    BY <1>1, <1>4 DEF SweepReturn, ReleaseId
  <2>2. Free(i)' /\ \A j \in Ids : Free(j) => Free(j)'
    BY <2>1, FreeAppend DEF TypeInv, TypeOK, RegTypes
  <2>3. \A j \in Ids : Held(j) => Used(j)' \/ j = i
    BY <1>1, <1>2, <2>1 DEF Held, Used, Returning
  <2> QED BY <2>2, <2>3 DEF Kept, Held
<1>5. CASE SweepReturn /\ subIds # sweep.ids
  BY <1>5 DEF SweepReturn
<1> QED BY <1>3, <1>4, <1>5

LEMMA RacedStays == TypeInv /\ [Next]_vars /\ raced => raced'
<1> SUFFICES ASSUME TypeInv, [Next]_vars, raced PROVE raced'
  OBVIOUS
<1>1. CASE UNCHANGED e2Vars
  BY <1>1 DEF e2Vars
<1>2. ASSUME NEW c \in Clients, Step(c)
      PROVE  UNCHANGED e2Vars
  BY <1>2 DEF Step, AssignLock, AssignPolicy, FindExistingSubs, MergeLock, AllocateSubs,
     RouteCreate, AssignInsert, Begin, WaitTransactionTurn, GetCachedResponse, SendSubReq,
     SubReqOutcome, CheckLastEndpoint, DeleteAtNode, UpdateSubscriptionInDB,
     RemoveSubscriptionFromDb, SendEvent, End, Outcome, RemoveLock, RemoveEndpoint,
     RemoveWake, RemoveClean, Done
<1>3. CASE (\E kind \in {"down", "reset"} : E2Break(kind)) \/ E2Connect \/ Sweep
  BY <1>3, Zenon DEF E2Break, E2Connect, Sweep, SweepVisit, SweepRoutes, SweepDelete,
     SweepReturn, SweepRecord, SweepEnd
<1> QED BY <1>1, <1>2, <1>3
        DEF Next, vars, StartCreate, StartDelete, ReleaseTransactionTurn

LEMMA LostStep == TypeInv /\ LockInv /\ NoIdLost /\ [Next]_vars => NoIdLost'
<1> SUFFICES ASSUME TypeInv, LockInv, NoIdLost, [Next]_vars, ~raced PROVE raced' \/ Kept'
  <2>1. NoIdLost' <=> raced' \/ Kept'
    BY LostDef, PTL
  <2> QED BY <2>1, RacedStays, Zenon
<1>0. Kept
  BY LostDef
<1>1. CASE /\ UNCHANGED <<subIds, register, subs, pc, cur, op>>
           /\ UNCHANGED sweep \/ sweep.at # "append"
  BY <1>0, <1>1 DEF Kept, Free, Held, Used, Returning, Allocating
<1>2. ASSUME NEW c \in Clients, PlainStep(c)
      PROVE  Kept'
  BY <1>0, <1>2, PlainKeeps, LostPlain DEF InObject, SubsKept
<1>3. ASSUME NEW c \in Clients, AssignLock(c) \/ MergeLock(c)
      PROVE  Kept'
  <2>1. /\ OthersKept(c) /\ UNCHANGED <<subIds, register, subs, sweep>>
        /\ pc[c] \in {"assign", "merge"}
    BY <1>3, StepOthers DEF Step, AssignLock, MergeLock, regVars, e2Vars
  <2> QED BY <1>0, <2>1, LostPlain
<1>4. ASSUME NEW c \in Clients, FindExistingSubs(c)
      PROVE  Kept'
  <2>1. OthersKept(c) /\ UNCHANGED <<subIds, register, sweep>> /\ pc[c] = "find"
    BY <1>4, StepOthers DEF Step, FindExistingSubs, e2Vars
  <2>2. \A o \in Objects : subs'[o].id = subs[o].id
    BY <1>4, FindSubs
  <2> QED BY <1>0, <2>1, <2>2, LostPlain
<1>5. ASSUME NEW c \in Clients, AllocateSubs(c) \/ AssignInsert(c)
      PROVE  Kept'
  BY <1>0, <1>5, AllocateLost, InsertLost
<1>6. ASSUME NEW c \in Clients, RouteCreate(c)
      PROVE  Kept'
  <2>1. /\ OthersKept(c) /\ UNCHANGED <<subIds, register, subs, cur, op, sweep>>
        /\ pc'[c] = "insert"
    BY <1>6, StepOthers DEF Step, RouteCreate, regVars, e2Vars, Goto, TypeInv, TypeOK, GoTypes
  <2>2. \A d \in Allocating : d \in Allocating' /\ cur'[d] = cur[d]
    BY <2>1 DEF Allocating, OthersKept
  <2> QED BY <1>0, <2>1, <2>2, LostKeep
<1>7. ASSUME NEW c \in Clients, RemoveEndpoint(c) \/ RemoveWake(c)
      PROVE  Kept'
  <2>1. /\ OthersKept(c) /\ UNCHANGED <<subIds, register, sweep>>
        /\ pc[c] \notin {"route", "insert"}
    BY <1>7, StepOthers DEF Step, RemoveEndpoint, RemoveWake, regVars, e2Vars
  <2>2. \A o \in Objects : subs'[o].id = subs[o].id
    BY <1>7, RemoveEndpointSubs DEF RemoveWake, regVars
  <2> QED BY <1>0, <2>1, <2>2, LostPlain
<1>8. ASSUME NEW c \in Clients, RemoveClean(c)
      PROVE  Kept'
  <2>1. OthersKept(c) /\ UNCHANGED <<subs, sweep>> /\ pc[c] \notin {"route", "insert"}
    BY <1>8, StepOthers DEF Step, RemoveClean, e2Vars
  <2>2. PICK i \in Ids : i = subs[cur[c]].id
    BY <1>8 DEF RemoveClean, TypeInv, TypeOK, GoTypes, ObjectsInUse, InUse
  <2>3. \A d \in Allocating : d \in Allocating' /\ cur'[d] = cur[d]
    BY <2>1 DEF Allocating, OthersKept
  <2>4. CASE UNCHANGED <<subIds, register>>
    BY <1>0, <2>1, <2>4, LostPlain
  <2>5. CASE subIds' = Append(subIds, i) /\ register' = [register EXCEPT ![i] = None]
    BY <1>0, <2>1, <2>3, <2>5, ReleaseLost
  <2> QED BY <1>8, <2>2, <2>4, <2>5 DEF RemoveClean, ReleaseId
<1>9. CASE SweepDelete \/ SweepReturn
  BY <1>0, <1>9, SweepLost
<1>10. CASE \/ SweepRoutes \/ SweepRecord \/ SweepEnd \/ (\E i \in Ids : SweepVisit(i))
            \/ E2Connect \/ (\E kind \in {"down", "reset"} : E2Break(kind))
  <2>1. sweep.at # "append" \/ UNCHANGED sweep
    BY <1>10 DEF SweepRoutes, SweepRecord, SweepEnd, SweepVisit, E2Connect, E2Break, NoSweep
  <2> QED BY <1>1, <1>10, <2>1 DEF SweepRoutes, SweepRecord, SweepEnd, SweepVisit, E2Connect,
          E2Break, regVars, goVars
<1>11. ASSUME NEW s \in Objects, ReleaseTransactionTurn(s)
       PROVE  Kept'
  BY <1>1, <1>11 DEF ReleaseTransactionTurn, regVars, goVars, e2Vars
<1>12. CASE UNCHANGED vars
  BY <1>1, <1>12 DEF vars, regVars, goVars, e2Vars
<1>13. ASSUME NEW c \in Clients, StartCreate(c) \/ Step(c) \/ \E i \in Ids : StartDelete(c, i)
       PROVE  Kept'
  BY <1>2, <1>3, <1>4, <1>5, <1>6, <1>7, <1>8, <1>13 DEF Step, PlainStep
<1> QED BY <1>9, <1>10, <1>11, <1>12, <1>13 DEF Next, Sweep

LEMMA LostInit == Init => NoIdLost
<1> SUFFICES ASSUME Init, NEW i \in Ids
             PROVE  \E n \in 1..Len(subIds) : subIds[n] = i
  BY DEF NoIdLost
<1>1. subIds = [n \in 1..MaxId |-> n] /\ Len(subIds) = MaxId
  BY BoundsAssumption DEF Init, InitialIds, Ids
<1> QED BY <1>1 DEF Ids

\* Whatever fails, whenever an E2 connection breaks and however the goroutines of
\* registry.go interleave, an id is lost in one way only: DeleteAllE2Subscriptions
\* appends to the pool without Registry.mutex, and a request wrote the pool between
\* its read and its write (raced).  Without that every id is free, in the register,
\* in a request that is about to register it, or in the sweep that has just taken it
\* out of the register.
THEOREM IdsKept == Spec => []NoIdLost
<1>1. /\ Init => TypeInv /\ LockInv /\ NoIdLost
      /\ TypeInv /\ LockInv /\ NoIdLost /\ [Next]_vars => (TypeInv /\ LockInv /\ NoIdLost)'
  BY TypeInit, LockInit, LostInit, TypeStep, LockStep, LostStep
<1> QED BY <1>1, PTL DEF Spec

-----------------------------------------------------------------------------
(* No id is handed out twice, as long as no E2 connection breaks *)

NoRepeats(q) == \A m, n \in 1..Len(q) : q[m] = q[n] => m = n

LEMMA NoRepeatsAppend ==
  ASSUME NEW q \in Seq(Ids), NoRepeats(q), NEW i \in Ids,
         \A n \in 1..Len(q) : q[n] # i
  PROVE  NoRepeats(Append(q, i))
<1>1. PICK r \in Seq(Ids) : /\ r = Append(q, i) /\ Len(r) = Len(q) + 1
                            /\ \A n \in 1..Len(q) : r[n] = q[n]
                            /\ r[Len(q) + 1] = i
  BY QueueAppend
<1>2. Len(q) \in Nat
  OBVIOUS
<1>3. NoRepeats(r)
  BY <1>1, <1>2 DEF NoRepeats
<1> QED BY <1>1, <1>3

LEMMA NoRepeatsTail ==
  ASSUME NEW q \in Seq(Ids), q # <<>>, NoRepeats(q)
  PROVE  /\ NoRepeats(Tail(q))
         /\ \A n \in 1..Len(Tail(q)) : Tail(q)[n] # Head(q)
         /\ \A n \in 1..Len(Tail(q)) : \E k \in 1..Len(q) : q[k] = Tail(q)[n]
<1>1. PICK r \in Seq(Ids) : /\ r = Tail(q) /\ Len(r) = Len(q) - 1
                            /\ \A n \in 1..Len(q) - 1 : r[n] = q[n + 1]
  BY QueueTail
<1>2. Len(q) \in Nat /\ Len(q) # 0 /\ Head(q) = q[1]
  BY QueueTail
<1>3. \A n \in 1..Len(r) : /\ n + 1 \in 1..Len(q) /\ n + 1 # 1
                           /\ r[n] = q[n + 1]
  BY <1>1, <1>2
<1>4. 1 \in 1..Len(q)
  BY <1>2
<1>5. \A n \in 1..Len(r) : r[n] # Head(q)
  BY <1>2, <1>3, <1>4 DEF NoRepeats
<1>6. NoRepeats(r)
  <2>1. SUFFICES ASSUME NEW m \in 1..Len(r), NEW n \in 1..Len(r), r[m] = r[n]
                 PROVE  m = n
    BY DEF NoRepeats
  <2>2. m + 1 = n + 1
    BY <1>3, <2>1 DEF NoRepeats
  <2> QED BY <2>2
<1> QED BY <1>1, <1>3, <1>5, <1>6

\* UniqueInstanceIds in terms of the free and the held ids.
LEMMA UniqueDef ==
  ASSUME TypeInv
  PROVE  UniqueInstanceIds <=>
           /\ NoRepeats(subIds)
           /\ \A i \in Ids : Free(i) => ~Used(i)
           /\ \A c \in Allocating : register[subs[cur[c]].id] = None
           /\ \A c, d \in Allocating : subs[cur[c]].id = subs[cur[d]].id => c = d
<1>1. \A n \in 1..Len(subIds) : subIds[n] \in Ids
  BY DEF TypeInv, TypeOK, RegTypes
<1>2. (\A i \in Ids : Free(i) => ~Used(i)) <=>
        \A n \in 1..Len(subIds) : /\ register[subIds[n]] = None
                                  /\ \A c \in Allocating : subs[cur[c]].id # subIds[n]
  BY <1>1 DEF Free, Used
<1> QED BY <1>2 DEF UniqueInstanceIds, NoRepeats

\* What a step may do that allocates and releases no id.
LEMMA IdKeep ==
  ASSUME TypeInv, TypeInv', IdInv, NEW c \in Clients, OthersKept(c),
         UNCHANGED <<register, subIds, sweep>>,
         \A o \in Objects : subs'[o].id = subs[o].id,
         \A o \in Objects :
           \/ subs'[o].eps = subs[o].eps
           \/ /\ o \in Registered \/ subs'[o].eps \subseteq subs[o].eps
              /\ \A d \in Allocating : cur[d] # o,
         Allocating' = Allocating,
         \A d \in Allocating : cur'[d] = cur[d],
         c \in Cleaning' => register[subs[cur'[c]].id] = cur'[c],
         pc'[c] = "find" /\ cur'[c] # None => cur'[c] \in Registered
  PROVE  IdInv'
<1>1. /\ \A d \in Allocating : cur[d] \in Objects
      /\ \A d \in Cleaning : cur[d] \in Objects
      /\ \A d \in Cleaning' : cur'[d] \in Objects
  BY DEF Allocating, Cleaning, TypeInv, TypeOK, GoTypes, ObjectsInUse
<1>2. /\ Registered' = Registered
      /\ \A i \in Ids : register[i] # None => register[i] \in Objects
  BY DEF Registered, TypeInv, TypeOK, RegTypes
<1>3. UniqueInstanceIds'
  BY <1>1 DEF IdInv, UniqueInstanceIds
<1>4. RegisteredIds'
  BY <1>2 DEF IdInv, RegisteredIds
<1>5. FoundRegistered'
  BY <1>2 DEF IdInv, FoundRegistered, OthersKept
<1>6. AllocatedEps'
  BY <1>1 DEF IdInv, AllocatedEps
<1>7. CleaningRegistered'
  <2>1. \A d \in Cleaning' : d # c => d \in Cleaning /\ cur'[d] = cur[d]
    BY DEF Cleaning, OthersKept
  <2> QED BY <1>1, <2>1 DEF IdInv, CleaningRegistered
<1>8. LeftEmpty'
  BY <1>2 DEF IdInv, LeftEmpty
<1> QED BY <1>3, <1>4, <1>5, <1>6, <1>7, <1>8 DEF IdInv

LEMMA IdPlain ==
  ASSUME TypeInv, TypeInv', IdInv, NEW c \in Clients, PlainStep(c)
  PROVE  IdInv'
<1>1. /\ OthersKept(c) /\ SubsKept
      /\ UNCHANGED <<register, subIds, smutex, sweep>>
      /\ ~InObject(c) /\ ~InObject(c)' /\ pc'[c] # "find"
  BY PlainKeeps
<1>2. Allocating' = Allocating /\ \A d \in Allocating : cur'[d] = cur[d]
  BY <1>1 DEF Allocating, OthersKept, InObject
<1>3. c \notin Cleaning'
  BY <1>1 DEF Cleaning, InObject
<1> QED BY <1>1, <1>2, <1>3, IdKeep DEF SubsKept

\* An object whose mutex is free, or held by a goroutine that allocates
\* nothing, is no new object.
LEMMA NotNew ==
  ASSUME TypeInv, LockInv, NEW s \in Objects,
         smutex[s] = None \/ smutex[s] \in Clients \ Allocating
  PROVE  \A d \in Allocating : cur[d] # s
<1>1. \A d \in Allocating : d \in Clients /\ smutex[cur[d]] = d
  BY DEF LockInv, ObjectHeld, InObject, Allocating
<1> QED BY <1>1, NoneAssumption

LEMMA IdSearch ==
  ASSUME TypeInv, TypeInv', LockInv, IdInv, NEW c \in Clients,
         AssignLock(c) \/ FindExistingSubs(c)
  PROVE  IdInv'
<1>1. OthersKept(c) /\ UNCHANGED <<register, subIds, sweep>>
  BY StepOthers DEF Step, AssignLock, FindExistingSubs, regVars, e2Vars
<1>2. CASE AssignLock(c)
  <2>1. UNCHANGED subs /\ pc[c] = "assign" /\ pc'[c] \in {"policy", "find"}
    BY <1>2 DEF AssignLock, Goto, regVars, TypeInv, TypeOK, GoTypes
  <2>2. Allocating' = Allocating /\ \A d \in Allocating : cur'[d] = cur[d]
    BY <1>1, <2>1 DEF Allocating, OthersKept
  <2>3. pc'[c] = "find" /\ cur'[c] # None => cur'[c] \in Registered
    BY <1>2 DEF AssignLock, Goto, TypeInv, TypeOK, GoTypes
  <2>4. c \notin Cleaning'
    BY <2>1 DEF Cleaning
  <2> QED BY <1>1, <2>1, <2>2, <2>3, <2>4, IdKeep
<1>3. CASE FindExistingSubs(c)
  <2>1. PICK s \in Registered : s = cur[c] /\ s \in Objects /\ smutex[s] = None
    BY <1>3 DEF FindExistingSubs, IdInv, FoundRegistered, TypeInv, TypeOK, GoTypes
  <2>2. \A o \in Objects : subs'[o].id = subs[o].id
    BY <1>3, FindSubs
  <2>3. \A o \in Objects : o # s => subs'[o].eps = subs[o].eps
    BY <1>3, <2>1 DEF FindExistingSubs, TypeInv, TypeOK, RegTypes
  <2>4. /\ pc[c] = "find" /\ pc'[c] \in {"begin", "merge", "find"}
        /\ pc'[c] = "find" => cur'[c] \in Registered \cup {None}
    BY <1>3 DEF FindExistingSubs, Goto, TypeInv, TypeOK, GoTypes
  <2>5. Allocating' = Allocating /\ \A d \in Allocating : cur'[d] = cur[d]
    BY <1>1, <2>4 DEF Allocating, OthersKept
  <2>6. c \notin Cleaning'
    BY <2>4 DEF Cleaning
  <2>7. \A d \in Allocating : cur[d] # s
    BY <2>1, NotNew
  <2> QED BY <1>1, <2>1, <2>2, <2>3, <2>4, <2>5, <2>6, <2>7, IdKeep
<1> QED BY <1>2, <1>3

LEMMA IdRoute ==
  ASSUME TypeInv, TypeInv', LockInv, IdInv, NEW c \in Clients,
         MergeLock(c) \/ RouteCreate(c)
  PROVE  IdInv'
<1>1. /\ OthersKept(c) /\ UNCHANGED <<register, subIds, sweep, subs, cur, op>>
      /\ \/ pc[c] = "route" /\ pc'[c] = "insert"
         \/ pc[c] = "merge" /\ pc'[c] = "route"
  BY StepOthers DEF Step, MergeLock, RouteCreate, regVars, e2Vars, Goto, TypeInv, TypeOK,
                    GoTypes
<1>2. pc[c] = "merge" => op[c] = "merge"
  BY DEF LockInv, FindCreates
<1>3. Allocating' = Allocating
  BY <1>1, <1>2 DEF Allocating, OthersKept
<1>4. c \notin Cleaning' /\ pc'[c] # "find"
  BY <1>1 DEF Cleaning
<1> QED BY <1>1, <1>3, <1>4, IdKeep

LEMMA IdRemove ==
  ASSUME TypeInv, TypeInv', LockInv, IdInv, NEW c \in Clients,
         RemoveEndpoint(c) \/ RemoveWake(c)
  PROVE  IdInv'
<1>1. /\ OthersKept(c) /\ UNCHANGED <<register, subIds, sweep, cur, op>>
      /\ pc[c] \in {"rm_del", "p_del", "p_sleep"}
      /\ pc'[c] \in {"rm_clean", "p_sleep", "p_clean", "event", "done"}
  BY StepOthers DEF Step, RemoveEndpoint, RemoveWake, regVars, e2Vars, Goto, TypeInv, TypeOK,
                    GoTypes
<1>2. Allocating' = Allocating
  BY <1>1 DEF Allocating, OthersKept
<1>3. CASE RemoveWake(c)
  <2>1. UNCHANGED subs /\ c \in Cleaning
    BY <1>3 DEF RemoveWake, regVars, Cleaning
  <2>2. register[subs[cur'[c]].id] = cur'[c]
    BY <1>1, <2>1 DEF IdInv, CleaningRegistered
  <2>3. pc'[c] # "find"
    BY <1>1
  <2> QED BY <1>1, <1>2, <2>1, <2>2, <2>3, IdKeep
<1>4. CASE RemoveEndpoint(c)
  <2>1. PICK s \in Objects : s = cur[c] /\ smutex[s] = None
    BY <1>4 DEF RemoveEndpoint, TypeInv, TypeOK, GoTypes, ObjectsInUse
  <2>2. \A o \in Objects : subs'[o].id = subs[o].id
    BY <1>4, RemoveEndpointSubs
  <2>3. \A o \in Objects : o # s => subs'[o].eps = subs[o].eps
    BY <1>4, <2>1 DEF RemoveEndpoint, TypeInv, TypeOK, RegTypes
  <2>4. subs'[s].eps \subseteq subs[s].eps
    <3>1. subs \in [Objects -> Subscription]
      BY DEF TypeInv, TypeOK, RegTypes
    <3>2. CASE subs' = [subs EXCEPT ![s].eps = @ \ {Endpoint[c]}]
      BY <3>1, <3>2 DEF Subscription
    <3> QED BY <1>4, <2>1, <3>2 DEF RemoveEndpoint
  <2>5. \A d \in Allocating : cur[d] # s
    BY <2>1, NotNew
  <2>6. c \in Cleaning' => register[subs[s].id] = s
    <3> SUFFICES ASSUME c \in Cleaning' PROVE register[subs[s].id] = s
      OBVIOUS
    <3>1. subs[s].eps # {}
      BY <1>4, <2>1 DEF RemoveEndpoint, DelStatus, Cleaning, Goto, TypeInv, TypeOK, GoTypes
    <3>2. s \in Registered
      BY <2>5, <3>1 DEF IdInv, LeftEmpty
    <3> QED BY <3>2 DEF Registered, IdInv, RegisteredIds
  <2>7. pc'[c] # "find"
    BY <1>1
  <2> QED BY <1>1, <1>2, <2>1, <2>2, <2>3, <2>4, <2>5, <2>6, <2>7, IdKeep
<1> QED BY <1>3, <1>4

LEMMA IdAllocate ==
  ASSUME TypeInv, TypeInv', LockInv, IdInv, NEW c \in Clients, AllocateSubs(c)
  PROVE  IdInv'
<1>1. /\ OthersKept(c) /\ UNCHANGED <<register, sweep>>
      /\ pc[c] = "find" /\ op[c] = "create"
  BY StepOthers, AllocateCases DEF Step, AllocateSubs, LockInv, FindCreates
<1>2. subIds \in Seq(Ids) /\ subs \in [Objects -> Subscription]
      /\ cur \in [Clients -> Objects \cup {None}] /\ pc \in [Clients -> Places]
  BY DEF TypeInv, TypeOK, RegTypes, GoTypes
<1>3. c \notin Allocating /\ c \notin Cleaning
      /\ \A d \in Allocating : d \in Allocating' /\ cur'[d] = cur[d]
  BY <1>1 DEF Allocating, Cleaning, OthersKept
<1>4. CASE Return(c) /\ UNCHANGED subs
  <2>1. pc'[c] = "idle" /\ Allocating' = Allocating /\ c \notin Cleaning'
    BY <1>1, <1>2, <1>4 DEF Return, Goto, Allocating, Cleaning, OthersKept
  <2>2. CASE UNCHANGED subIds
    BY <1>1, <1>3, <1>4, <2>1, <2>2, IdKeep
  <2>3. CASE subIds # <<>> /\ register[Head(subIds)] # None
    <3>1. 1 \in 1..Len(subIds) /\ Head(subIds) = subIds[1]
      BY <1>2, <2>3
    <3> QED BY <2>3, <3>1 DEF IdInv, UniqueInstanceIds
  <2>4. \A s : ~NewObject(c, s)
    BY <1>2, <2>1 DEF NewObject, Goto
  <2> QED BY <2>2, <2>3, <2>4, AllocateCases
<1>5. ASSUME NEW s \in Garbage, NewObject(c, s)
      PROVE  IdInv'
  <2>1. s \in Objects /\ s \notin Registered /\ \A d \in Clients : cur[d] # s
    BY DEF Garbage
  <2>2. PICK h \in Ids : h = Head(subIds)
    BY <1>2, <1>5, QueueTail DEF NewObject
  <2>3. cur'[c] = s /\ pc'[c] = "route" /\ Allocating' = Allocating \cup {c}
    BY <1>1, <1>2, <1>5 DEF NewObject, Goto, Allocating, OthersKept
  <2>4. /\ subs'[s].id = h /\ subs'[s].eps = {Endpoint[c]}
        /\ \A o \in Objects \ {s} : subs'[o] = subs[o]
    BY <1>2, <1>5, <2>1, <2>2 DEF NewObject, NewSubscription
  <2>5. \A d \in Allocating : cur[d] \in Objects \ {s} /\ d # c
    BY <1>3, <2>1 DEF Allocating, TypeInv, TypeOK, GoTypes, ObjectsInUse
  <2>6. Free(h) /\ ~Used(h) /\ register[h] = None /\ NoRepeats(subIds)
    <3>1. 1 \in 1..Len(subIds) /\ subIds[1] = h
      BY <1>2, <1>5, <2>2 DEF NewObject
    <3>2. Free(h)
      BY <3>1 DEF Free
    <3> QED BY <3>2, UniqueDef DEF IdInv, Used
  <2>7. /\ NoRepeats(subIds')
        /\ \A i \in Ids : Free(i)' => Free(i) /\ i # h
    <3>1. subIds' = Tail(subIds) /\ subIds # <<>>
      BY <1>5 DEF NewObject
    <3> QED BY <1>2, <2>2, <2>6, <3>1, NoRepeatsTail DEF Free
  <2>8. Registered' = Registered
    BY <1>1 DEF Registered
  <2>9. \A i \in Ids : Used(i)' => Used(i) \/ i = h
    BY <1>1, <1>3, <2>3, <2>4, <2>5 DEF Used
  <2>10. \A d \in Allocating : subs[cur[d]].id # h
    BY <2>6 DEF Used
  <2>11. UniqueInstanceIds'
    <3>1. \A i \in Ids : Free(i)' => ~Used(i)'
      BY <2>7, <2>9, UniqueDef DEF IdInv
    <3>2. \A d \in Allocating' : register'[subs'[cur'[d]].id] = None
      BY <1>1, <1>3, <2>3, <2>4, <2>5, <2>6, UniqueDef DEF IdInv
    <3>3. \A d, e \in Allocating' : subs'[cur'[d]].id = subs'[cur'[e]].id => d = e
      BY <1>3, <2>3, <2>4, <2>5, <2>10, UniqueDef DEF IdInv
    <3>4. \A n \in 1..Len(subIds') : subIds'[n] \in Ids
      BY DEF TypeInv, TypeOK, RegTypes
    <3>5. \A n \in 1..Len(subIds') : /\ register'[subIds'[n]] = None
                                     /\ \A d \in Allocating' : subs'[cur'[d]].id # subIds'[n]
      BY <3>1, <3>4 DEF Free, Used
    <3> QED BY <2>7, <3>2, <3>3, <3>5 DEF UniqueInstanceIds, NoRepeats
  <2>12. RegisteredIds'
    <3>1. \A i \in Ids : register[i] # None => register[i] \in Objects \ {s}
      BY <2>1 DEF Registered, TypeInv, TypeOK, RegTypes
    <3> QED BY <1>1, <2>4, <3>1 DEF IdInv, RegisteredIds
  <2>13. FoundRegistered'
    BY <1>1, <2>3, <2>8 DEF IdInv, FoundRegistered, OthersKept
  <2>14. AllocatedEps'
    BY <1>3, <2>3, <2>4, <2>5 DEF IdInv, AllocatedEps
  <2>15. CleaningRegistered'
    <3>1. \A d \in Cleaning' : d \in Cleaning /\ cur'[d] = cur[d] /\ cur[d] \in Objects \ {s}
      BY <1>1, <2>1, <2>3 DEF Cleaning, OthersKept, TypeInv, TypeOK, GoTypes, ObjectsInUse
    <3> QED BY <1>1, <2>4, <3>1 DEF IdInv, CleaningRegistered
  <2>16. LeftEmpty'
    BY <1>3, <2>3, <2>4, <2>8 DEF IdInv, LeftEmpty
  <2> QED BY <1>1, <2>11, <2>12, <2>13, <2>14, <2>15, <2>16 DEF IdInv
<1> QED BY <1>4, <1>5, AllocateCases

LEMMA IdInsert ==
  ASSUME TypeInv, TypeInv', LockInv, IdInv, NEW c \in Clients, AssignInsert(c)
  PROVE  IdInv'
<1>1. /\ OthersKept(c) /\ UNCHANGED sweep /\ pc[c] = "insert"
      /\ pc'[c] \in {"idle", "begin"}
  BY StepOthers DEF Step, AssignInsert, e2Vars, Return, Goto, TypeInv, TypeOK, GoTypes
<1>2. PICK s \in Objects : s = cur[c] /\ smutex[s] = c /\ subs[s].id \in Ids
  BY NoneAssumption DEF AssignInsert, TypeInv, TypeOK, GoTypes, ObjectsInUse, InUse, LockInv,
                        ObjectHeld, InObject
<1>3. PICK h \in Ids : h = subs[s].id
  BY <1>2
<1>4. subIds \in Seq(Ids) /\ subs \in [Objects -> Subscription]
      /\ register \in [Ids -> Objects \cup {None}]
  BY DEF TypeInv, TypeOK, RegTypes
<1>5. /\ \A o \in Objects : subs'[o].id = subs[o].id
      /\ \A o \in Objects \ {s} : subs'[o].eps = subs[o].eps
      /\ subs' = subs \/ subs'[s].eps = subs[s].eps \ {Endpoint[c]}
  <2>1. CASE subs' = [subs EXCEPT ![s].eps = @ \ {Endpoint[c]}]
    BY <1>4, <2>1 DEF Subscription
  <2>2. CASE UNCHANGED subs
    BY <2>2
  <2> QED BY <1>2, <2>1, <2>2 DEF AssignInsert, RollBack
<1>6. /\ Allocating' = Allocating \ {c} /\ c \notin Cleaning'
      /\ \A d \in Allocating \ {c} : cur'[d] = cur[d]
  BY <1>1 DEF Allocating, Cleaning, OthersKept
<1>7. \A d \in Allocating : cur[d] \in Objects
  BY DEF Allocating, TypeInv, TypeOK, GoTypes, ObjectsInUse
<1>8. \A d \in Cleaning' : d \in Cleaning /\ cur'[d] = cur[d] /\ cur[d] \in Objects
  BY <1>1, <1>6 DEF Cleaning, OthersKept, TypeInv, TypeOK, GoTypes, ObjectsInUse
<1>9. CASE op[c] # "create"
  <2>1. UNCHANGED <<register, subIds>>
    BY <1>9 DEF AssignInsert, RollBack
  <2>2. c \notin Allocating
    BY <1>9 DEF Allocating
  <2>3. \A d \in Allocating : cur[d] # s
    BY <1>2, <2>2, NotNew
  <2>4. pc'[c] # "find" /\ Allocating' = Allocating
    BY <1>1, <1>6, <2>2
  <2>5. \A o \in Objects : \/ subs'[o].eps = subs[o].eps
                           \/ /\ subs'[o].eps \subseteq subs[o].eps
                              /\ \A d \in Allocating : cur[d] # o
    BY <1>5, <2>3
  <2> QED BY <1>1, <1>5, <1>6, <2>1, <2>2, <2>4, <2>5, IdKeep
<1>10. CASE op[c] = "create"
  <2>1. /\ c \in Allocating /\ register[h] = None /\ Used(h) /\ ~Free(h)
        /\ subs[s].eps = {Endpoint[c]}
    <3>1. c \in Allocating
      BY <1>1, <1>10 DEF Allocating
    <3>2. register[h] = None /\ Used(h) /\ subs[s].eps = {Endpoint[c]}
      BY <1>2, <1>3, <3>1 DEF Used, IdInv, UniqueInstanceIds, AllocatedEps
    <3> QED BY <3>1, <3>2, UniqueDef DEF IdInv
  <2>2. \A d \in Allocating' : /\ d \in Allocating /\ d # c /\ cur'[d] = cur[d]
                               /\ subs'[cur'[d]].id = subs[cur[d]].id
                               /\ subs[cur[d]].id # h
                               /\ register[subs[cur[d]].id] = None
    BY <1>2, <1>3, <1>5, <1>6, <1>7, <2>1, UniqueDef DEF IdInv
  <2>3. \A d, e \in Allocating' : subs'[cur'[d]].id = subs'[cur'[e]].id => d = e
    BY <2>2, UniqueDef DEF IdInv
  <2>4. AllocatedEps'
    <3>1. \A d \in Allocating' : cur[d] \in Objects \ {s}
      BY <1>3, <1>7, <2>2
    <3> QED BY <1>5, <2>2, <3>1 DEF IdInv, AllocatedEps
  <2>5. \A d \in Cleaning' : /\ subs'[cur'[d]].id = subs[cur[d]].id
                             /\ register[subs[cur[d]].id] = cur[d]
                             /\ subs[cur[d]].id # h
    BY <1>5, <1>8, <2>1, NoneAssumption DEF IdInv, CleaningRegistered
  <2>6. CASE event[c] = "error"
    <3>1. UNCHANGED register /\ subIds' = Append(subIds, h) /\ subs'[s].eps = {}
      <4>1. /\ UNCHANGED register /\ subIds' = Append(subIds, h)
            /\ subs' = [subs EXCEPT ![s].eps = @ \ {Endpoint[c]}]
        BY <1>2, <1>3, <1>10, <2>6 DEF AssignInsert, RollBack, ReleaseId
      <4>2. subs'[s].eps = subs[s].eps \ {Endpoint[c]}
        BY <1>4, <4>1 DEF Subscription
      <4> QED BY <2>1, <4>1, <4>2
    <3>2. NoRepeats(subIds')
      BY <1>4, <2>1, <3>1, NoRepeatsAppend, UniqueDef DEF IdInv, Free
    <3>3. \A n \in 1..Len(subIds') : /\ register'[subIds'[n]] = None
                                     /\ \A d \in Allocating' : subs'[cur'[d]].id # subIds'[n]
      <4>1. \A n \in 1..Len(subIds') : \/ subIds'[n] = h
                                       \/ \E m \in 1..Len(subIds) : subIds[m] = subIds'[n]
        BY <1>4, <3>1, QueueAppend
      <4> QED BY <2>1, <2>2, <3>1, <4>1 DEF IdInv, UniqueInstanceIds
    <3>4. UniqueInstanceIds'
      BY <2>2, <2>3, <3>1, <3>2, <3>3 DEF UniqueInstanceIds, NoRepeats
    <3>5. Registered' = Registered
      BY <3>1 DEF Registered
    <3>6. RegisteredIds'
      BY <1>4, <1>5, <3>1 DEF IdInv, RegisteredIds
    <3>7. FoundRegistered'
      BY <1>1, <3>5 DEF IdInv, FoundRegistered, OthersKept
    <3>8. CleaningRegistered'
      BY <1>8, <2>5, <3>1 DEF CleaningRegistered
    <3>9. LeftEmpty'
      BY <1>2, <1>5, <1>6, <3>1, <3>5 DEF IdInv, LeftEmpty
    <3> QED BY <1>1, <2>4, <3>4, <3>6, <3>7, <3>8, <3>9 DEF IdInv
  <2>7. CASE event[c] # "error"
    <3>1. register' = [register EXCEPT ![h] = s] /\ UNCHANGED <<subIds, subs>>
      BY <1>2, <1>3, <1>10, <2>7 DEF AssignInsert
    <3>2. /\ register'[h] = s
          /\ \A i \in Ids \ {h} : register'[i] = register[i]
      BY <1>4, <3>1
    <3>3. Registered' = Registered \cup {s}
      BY <1>3, <2>1, <3>2, NoneAssumption DEF Registered
    <3>4. \A n \in 1..Len(subIds) : subIds[n] # h /\ subIds[n] \in Ids
      BY <1>4, <2>1 DEF Free
    <3>5. UniqueInstanceIds'
      <4>1. \A d \in Allocating' : subs[cur[d]].id \in Ids
        BY <1>7, <2>2 DEF TypeInv, ObjectsInUse, InUse, Allocating
      <4>2. \A d \in Allocating' : register'[subs'[cur'[d]].id] = None
        BY <2>2, <3>2, <4>1
      <4>3. \A n \in 1..Len(subIds') : /\ register'[subIds'[n]] = None
                                       /\ \A d \in Allocating' : subs'[cur'[d]].id # subIds'[n]
        BY <2>2, <3>1, <3>2, <3>4 DEF IdInv, UniqueInstanceIds
      <4> QED BY <2>3, <3>1, <4>2, <4>3 DEF IdInv, UniqueInstanceIds
    <3>6. RegisteredIds'
      BY <1>3, <3>1, <3>2 DEF IdInv, RegisteredIds
    <3>7. FoundRegistered'
      BY <1>1, <3>3 DEF IdInv, FoundRegistered, OthersKept
    <3>8. CleaningRegistered'
      <4>1. \A d \in Cleaning' : subs[cur[d]].id \in Ids
        BY <1>8, NoneAssumption DEF TypeInv, ObjectsInUse, InUse, Cleaning
      <4> QED BY <1>8, <2>5, <3>2, <4>1 DEF CleaningRegistered
    <3>9. LeftEmpty'
      BY <1>2, <1>6, <3>1, <3>3 DEF IdInv, LeftEmpty
    <3> QED BY <1>1, <2>4, <3>5, <3>6, <3>7, <3>8, <3>9 DEF IdInv
  <2> QED BY <2>6, <2>7
<1> QED BY <1>9, <1>10

LEMMA IdClean ==
  ASSUME TypeInv, TypeInv', LockInv, IdInv, NEW c \in Clients, RemoveClean(c)
  PROVE  IdInv'
<1>1. /\ OthersKept(c) /\ UNCHANGED <<sweep, subs, cur>>
      /\ pc[c] \in {"rm_clean", "p_clean"} /\ pc'[c] \in {"event", "done"}
  BY StepOthers DEF Step, RemoveClean, e2Vars, Goto, TypeInv, TypeOK, GoTypes
<1>2. PICK s \in Objects : s = cur[c] /\ smutex[s] = c /\ subs[s].id \in Ids
  BY <1>1, NoneAssumption DEF TypeInv, TypeOK, GoTypes, ObjectsInUse, InUse, LockInv,
                              ObjectHeld, InObject
<1>3. PICK h \in Ids : h = subs[s].id
  BY <1>2
<1>4. Allocating' = Allocating /\ c \notin Allocating /\ c \in Cleaning /\ c \notin Cleaning'
  BY <1>1 DEF Allocating, Cleaning, OthersKept, RemoveClean
<1>5. CASE UNCHANGED <<register, subIds>>
  <2>1. pc'[c] # "find"
    BY <1>1
  <2> QED BY <1>1, <1>4, <1>5, <2>1, IdKeep
<1>6. CASE /\ subs[s].eps = {} /\ register' = [register EXCEPT ![h] = None]
           /\ subIds' = Append(subIds, h)
  <2>1. subIds \in Seq(Ids) /\ register \in [Ids -> Objects \cup {None}]
    BY DEF TypeInv, TypeOK, RegTypes
  <2>2. register[h] = s
    BY <1>2, <1>3, <1>4 DEF IdInv, CleaningRegistered
  <2>3. Used(h) /\ ~Free(h)
    <3>1. Used(h)
      BY <2>2, NoneAssumption DEF Used
    <3> QED BY <3>1, UniqueDef DEF IdInv
  <2>4. /\ register'[h] = None
        /\ \A i \in Ids \ {h} : register'[i] = register[i]
    BY <1>6, <2>1
  <2>5. Registered' = Registered \ {s}
    <3>1. \A i \in Ids \ {h} : register[i] # s
      BY <1>3, <2>2, NoneAssumption DEF IdInv, RegisteredIds
    <3> QED BY <2>2, <2>4, <3>1, NoneAssumption DEF Registered
  <2>6. \A d \in Allocating : /\ subs[cur[d]].id \in Ids /\ subs[cur[d]].id # h
                              /\ register[subs[cur[d]].id] = None
    BY <2>2, NoneAssumption
       DEF IdInv, UniqueInstanceIds, Allocating, TypeInv, ObjectsInUse, InUse
  <2>7. NoRepeats(subIds')
    BY <1>6, <2>1, <2>3, NoRepeatsAppend, UniqueDef DEF IdInv, Free
  <2>8. UniqueInstanceIds'
    <3>1. \A n \in 1..Len(subIds') : \/ subIds'[n] = h
                                     \/ \E m \in 1..Len(subIds) : subIds[m] = subIds'[n]
      BY <1>6, <2>1, QueueAppend
    <3>2. \A n \in 1..Len(subIds') : subIds'[n] \in Ids
      BY DEF TypeInv, TypeOK, RegTypes
    <3>3. \A n \in 1..Len(subIds') : register'[subIds'[n]] = None
      BY <2>4, <3>1, <3>2 DEF IdInv, UniqueInstanceIds
    <3>4. \A n \in 1..Len(subIds') : \A d \in Allocating : subs[cur[d]].id # subIds'[n]
      BY <2>6, <3>1 DEF IdInv, UniqueInstanceIds
    <3>5. \A d \in Allocating : register'[subs[cur[d]].id] = None
      BY <2>4, <2>6
    <3> QED BY <1>1, <1>4, <2>7, <3>3, <3>4, <3>5 DEF IdInv, UniqueInstanceIds, NoRepeats
  <2>9. RegisteredIds'
    BY <1>1, <2>4 DEF IdInv, RegisteredIds
  <2>10. FoundRegistered'
    <3>1. rmutex = c
      BY <1>1 DEF LockInv, RegistryHeld, InRegistry
    <3>2. \A d \in Clients \ {c} : pc'[d] # "find"
      BY <1>1, <3>1 DEF LockInv, RegistryHeld, InRegistry, OthersKept
    <3> QED BY <1>1, <3>2 DEF FoundRegistered
  <2>11. AllocatedEps'
    BY <1>1, <1>4 DEF IdInv, AllocatedEps
  <2>12. CleaningRegistered'
    <3>1. \A d \in Cleaning' : /\ d \in Cleaning /\ d # c
                               /\ register[subs[cur[d]].id] = cur[d]
                               /\ smutex[cur[d]] = d /\ subs[cur[d]].id \in Ids
      BY <1>1, <1>4, NoneAssumption DEF Cleaning, OthersKept, IdInv, CleaningRegistered,
         LockInv, ObjectHeld, InObject, TypeInv, ObjectsInUse, InUse
    <3>2. \A d \in Cleaning' : subs[cur[d]].id # h
      BY <1>2, <2>2, <3>1
    <3> QED BY <1>1, <2>4, <3>1, <3>2 DEF CleaningRegistered
  <2>13. LeftEmpty'
    BY <1>1, <1>4, <1>6, <2>5 DEF IdInv, LeftEmpty
  <2> QED BY <1>1, <2>8, <2>9, <2>10, <2>11, <2>12, <2>13 DEF IdInv
<1> QED BY <1>2, <1>3, <1>5, <1>6 DEF RemoveClean, ReleaseId

LEMMA IdInit == Init => IdInv
<1> SUFFICES ASSUME Init PROVE IdInv
  OBVIOUS
<1>1. subIds = [n \in 1..MaxId |-> n] /\ Len(subIds) = MaxId
  BY BoundsAssumption DEF Init, InitialIds, Ids
<1>2. Allocating = {} /\ Cleaning = {}
  BY DEF Init, Allocating, Cleaning
<1>3. UniqueInstanceIds
  BY <1>1, <1>2 DEF UniqueInstanceIds, Init, Ids
<1>4. RegisteredIds /\ FoundRegistered
  BY DEF Init, RegisteredIds, FoundRegistered
<1>5. LeftEmpty
  BY DEF Init, LeftEmpty, Unused
<1> QED BY <1>2, <1>3, <1>4, <1>5 DEF Init, IdInv, AllocatedEps, CleaningRegistered

LEMMA IdStep ==
  ASSUME TypeInv, TypeInv', LockInv, IdInv, [Next]_vars, E2Events = {} \/ events' = 0
  PROVE  IdInv'
<1>1. CASE UNCHANGED <<subIds, register, subs, pc, cur, op, sweep>>
  BY <1>1 DEF IdInv, UniqueInstanceIds, RegisteredIds, FoundRegistered, AllocatedEps,
              CleaningRegistered, LeftEmpty, Allocating, Cleaning, Registered
<1>2. ASSUME NEW c \in Clients, StartCreate(c) \/ Step(c) \/ \E i \in Ids : StartDelete(c, i)
      PROVE  IdInv'
  BY <1>2, IdPlain, IdSearch, IdAllocate, IdRoute, IdInsert, IdRemove, IdClean
     DEF Step, PlainStep
<1>3. ASSUME NEW s \in Objects, ReleaseTransactionTurn(s)
      PROVE  IdInv'
  BY <1>1, <1>3 DEF ReleaseTransactionTurn, regVars, goVars, e2Vars
<1>4. CASE E2Connect
  BY <1>1, <1>4 DEF E2Connect, regVars, goVars
<1>5. ~Sweep /\ \A kind : ~E2Break(kind)
  BY DEF IdInv, NoSweep, Sweep, SweepVisit, SweepRoutes, SweepDelete, SweepReturn, SweepRecord,
         SweepEnd, E2Break, TypeInv, TypeOK, E2Types
<1>6. CASE UNCHANGED vars
  BY <1>1, <1>6 DEF vars, regVars, goVars, e2Vars
<1> QED BY <1>2, <1>3, <1>4, <1>5, <1>6 DEF Next

\* As long as no E2 connection breaks, an E2 instance id is free, registered or
\* being registered, and only one of these: allocateSubs never hands out an id
\* that is in use, whatever Routing Manager and SDL do.  The run that lets a
\* connection break shows that the assumption is needed.
THEOREM IdsUnique ==
  ASSUME E2Events = {}
  PROVE  Spec => []UniqueInstanceIds
<1>1. /\ Init => TypeInv /\ LockInv /\ IdInv
      /\ TypeInv /\ LockInv /\ IdInv /\ [Next]_vars => (TypeInv /\ LockInv /\ IdInv)'
  BY TypeInit, LockInit, IdInit, TypeStep, LockStep, IdStep
<1>2. IdInv => UniqueInstanceIds
  BY DEF IdInv
<1> QED BY <1>1, <1>2, PTL DEF Spec
=============================================================================
