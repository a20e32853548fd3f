-------------------------- MODULE SubRestartProofs --------------------------
(***************************************************************************)
(* Proofs about SubRestart: whenever the process ends and however often,   *)
(* the pool of E2 instance ids is complete after the records have been     *)
(* read, no id on record is handed out again, and the successes that were  *)
(* told before the first restart stay.                                     *)
(***************************************************************************)
EXTENDS SubRestart, SubMgrOwners, SequenceTheorems

-----------------------------------------------------------------------------
(* The inductive invariant *)

\* While the records are read nothing else runs.
NothingRuns ==
  /\ \A c \in Clients : pc[c] = "idle" /\ op[c] = "create" /\ cur[c] = None
  /\ sweep = NoSweep /\ raced = FALSE
  /\ pinned = {}

\* clean is a record, and the object HandleUncompletedSubscriptions deletes is
\* the one that is pinned.
CleanInv ==
  /\ clean = [todo |-> clean.todo, late |-> clean.late, obj |-> clean.obj,
              size |-> clean.size, at |-> clean.at, passed |-> clean.passed,
              busy |-> clean.busy]
  /\ clean.obj \in pinned \cup {None}
  /\ clean.todo \subseteq Ids

\* The ids are as they should be: none is lost and, as long as no E2 connection
\* has broken, none is in use twice.
PoolInv ==
  /\ TypeInv
  /\ LockInv
  /\ NoIdLost
  /\ events = 0 => IdInv

RestartInv ==
  /\ PoolInv
  /\ CleanInv
  /\ ~up => NothingRuns /\ IdInv /\ clean = Idle

-----------------------------------------------------------------------------
(* The requests and the E2 connection *)

\* The number of notifications never goes down.
LEMMA EventsGrow ==
  ASSUME TypeInv, [Next]_vars
  PROVE  events' = 0 => events = 0
<1>1. CASE UNCHANGED events
  BY <1>1
<1>2. ASSUME NEW c \in Clients, StartCreate(c) \/ Step(c) \/ \E i \in Ids : StartDelete(c, i)
      PROVE  UNCHANGED events
  BY <1>2 DEF StartCreate, StartDelete, Step, AssignLock, AssignPolicy, FindExistingSubs,
     MergeLock, AllocateSubs, RouteCreate, AssignInsert, Begin, WaitTransactionTurn, GetCachedResponse,
     SendSubReq, SubReqOutcome, CheckLastEndpoint, DeleteAtNode, UpdateSubscriptionInDB,
     RemoveSubscriptionFromDb, SendEvent, End, Outcome, RemoveLock, RemoveEndpoint,
     RemoveWake, RemoveClean, Done, e2Vars
<1>3. ASSUME NEW kind, E2Break(kind)
      PROVE  events' # 0
  BY <1>3 DEF E2Break, TypeInv, TypeOK, E2Types
<1>4. CASE E2Connect \/ Sweep \/ UNCHANGED vars \/ \E s \in Objects : ReleaseTransactionTurn(s)
  BY <1>1, <1>4 DEF E2Connect, Sweep, SweepVisit, SweepRoutes, SweepDelete, SweepReturn,
     SweepRecord, SweepEnd, ReleaseTransactionTurn, vars, e2Vars
<1> QED BY <1>1, <1>2, <1>3, <1>4 DEF Next

\* A step of SubMgr keeps the pool as it should be.
LEMMA PoolNext ==
  ASSUME PoolInv, [Next]_vars
  PROVE  PoolInv'
<1>1. TypeInv'
  BY TypeStep DEF PoolInv
<1>2. LockInv' /\ NoIdLost'
  BY LockStep, LostStep DEF PoolInv
<1>3. events' = 0 => IdInv'
  BY <1>1, EventsGrow, IdStep DEF PoolInv
<1> QED BY <1>1, <1>2, <1>3 DEF PoolInv

\* The objects that are pinned are not touched by SubMgr.
LEMMA PinnedKept ==
  ASSUME Next
  PROVE  UNCHANGED pinned
<1>1. ASSUME NEW c \in Clients, StartCreate(c) \/ Step(c) \/ \E i \in Ids : StartDelete(c, i)
      PROVE  UNCHANGED pinned
  BY <1>1 DEF StartCreate, StartDelete, Step, AssignLock, AssignPolicy, FindExistingSubs,
     MergeLock, AllocateSubs, RouteCreate, AssignInsert, Begin, WaitTransactionTurn, GetCachedResponse,
     SendSubReq, SubReqOutcome, CheckLastEndpoint, DeleteAtNode, UpdateSubscriptionInDB,
     RemoveSubscriptionFromDb, SendEvent, End, Outcome, RemoveLock, RemoveEndpoint,
     RemoveWake, RemoveClean, Done, e2Vars
<1>2. CASE E2Connect \/ Sweep \/ (\E kind \in {"down", "reset"} : E2Break(kind))
           \/ \E s \in Objects : ReleaseTransactionTurn(s)
  BY <1>2 DEF E2Connect, E2Break, Sweep, SweepVisit, SweepRoutes, SweepDelete, SweepReturn,
     SweepRecord, SweepEnd, ReleaseTransactionTurn, e2Vars
<1> QED BY <1>1, <1>2 DEF Next

LEMMA RunStep ==
  ASSUME RestartInv, Run
  PROVE  RestartInv'
<1>1. PoolInv'
  BY PoolNext DEF RestartInv, Run
<1>2. CleanInv'
  BY PinnedKept DEF RestartInv, Run, CleanInv
<1> QED BY <1>1, <1>2 DEF RestartInv, Run

-----------------------------------------------------------------------------
(* The end of the process and the reading of the records *)

\* The manager of a new process, before it reads the first record.
Started ==
  /\ register = [i \in Ids |-> None]
  /\ subIds = InitialIds
  /\ subs = [s \in Objects |-> Unused]
  /\ NothingRuns
  /\ LockTypes /\ GoTypes /\ XappTypes /\ EnvTypes /\ E2Types

LEMMA StartedInv == Started => TypeInv /\ LockInv /\ NoIdLost /\ IdInv
<1> SUFFICES ASSUME Started PROVE TypeInv /\ LockInv /\ NoIdLost /\ IdInv
  OBVIOUS
<1>1. subIds = [n \in 1..MaxId |-> n] /\ Len(subIds) = MaxId /\ subIds \in Seq(Ids)
  BY BoundsAssumption DEF Started, InitialIds, Ids
<1>2. Allocating = {} /\ Cleaning = {}
  BY DEF Started, NothingRuns, Allocating, Cleaning
<1>3. TypeInv
  <2>1. Unused \in Subscription
    BY DEF Unused, Subscription, Answers
  <2>2. RegTypes
    BY <1>1, <2>1 DEF Started, RegTypes
  <2>3. ObjectsInUse
    BY DEF Started, NothingRuns, NoSweep, ObjectsInUse
  <2> QED BY <2>2, <2>3 DEF Started, TypeInv, TypeOK
<1>4. LockInv
  BY DEF Started, NothingRuns, LockInv, RegistryHeld, ObjectHeld, FindCreates, InRegistry,
         InObject
<1>5. NoIdLost
  BY <1>1 DEF NoIdLost, Ids
<1>6. UniqueInstanceIds
  BY <1>1, <1>2 DEF Started, UniqueInstanceIds, Ids
<1>7. RegisteredIds /\ FoundRegistered
  BY DEF Started, NothingRuns, RegisteredIds, FoundRegistered
<1>8. LeftEmpty
  BY DEF Started, LeftEmpty, Unused
<1> QED BY <1>2, <1>3, <1>4, <1>5, <1>6, <1>7, <1>8
        DEF Started, NothingRuns, IdInv, AllocatedEps, CleaningRegistered

\* The same of the state a step leads to.
LEMMA StartedNext == Started' => (TypeInv /\ LockInv /\ NoIdLost /\ IdInv)'
BY StartedInv, PTL

LEMMA IdleRecord ==
  /\ Idle.obj = None /\ Idle.todo = {} /\ Idle.late = {} /\ Idle.busy = None
  /\ Idle = [todo |-> Idle.todo, late |-> Idle.late, obj |-> Idle.obj, size |-> Idle.size,
             at |-> Idle.at, passed |-> Idle.passed, busy |-> Idle.busy]
BY DEF Idle

\* A process that ends leaves what Initialize makes.
LEMMA CrashStep ==
  ASSUME RestartInv, Crash
  PROVE  RestartInv'
<1>1. NothingRuns'
  BY DEF Crash, NoGoroutines, NothingRuns
<1>2. LockTypes' /\ GoTypes'
  BY DEF Crash, NoGoroutines, LockTypes, GoTypes, Places, Operations, Answers
<1>3. XappTypes' /\ EnvTypes'
  BY UnchangedTypes DEF Crash, RestartInv, PoolInv, TypeInv, TypeOK
<1>4. E2Types'
  <2>1. sweep' = NoSweep /\ raced' = FALSE /\ pinned' = {}
    BY <1>1 DEF NothingRuns
  <2>2. e2' \in {"up", "down", "reset"} /\ events' \in 0..MaxE2Events
    BY DEF Crash, RestartInv, PoolInv, TypeInv, TypeOK, E2Types
  <2>3. /\ sweep' \in [on : BOOLEAN, todo : SUBSET Ids, obj : Objects \cup {None},
                       at : {"look", "routes", "delete", "append", "record"}, ids : Seq(Ids)]
        /\ sweep'.at = "look" <=> sweep'.obj = None
    BY <2>1, NoSweepTypes DEF Sweeps
  <2> QED BY <2>1, <2>2, <2>3, Zenon DEF E2Types
<1>5. Started'
  BY <1>1, <1>2, <1>3, <1>4 DEF Crash, Fresh, Started
<1>6. CleanInv'
  BY IdleRecord DEF Crash, NoGoroutines, CleanInv
<1> QED BY <1>1, <1>5, <1>6, StartedNext DEF Crash, NoGoroutines, RestartInv, PoolInv

\* A record that cannot be restored makes the manager start over.
LEMMA ReadAgainStep ==
  ASSUME RestartInv, NEW i \in Ids, ReadAgain(i)
  PROVE  RestartInv'
<1>1. NothingRuns /\ NothingRuns'
  BY DEF ReadAgain, RestartInv, NothingRuns, goVars, e2Vars
<1>2. LockTypes' /\ GoTypes' /\ XappTypes' /\ EnvTypes' /\ E2Types'
  BY UnchangedTypes DEF ReadAgain, RestartInv, PoolInv, TypeInv, TypeOK
<1>3. Started'
  BY <1>1, <1>2 DEF ReadAgain, Fresh, Started
<1>4. CleanInv'
  BY DEF ReadAgain, RestartInv, CleanInv, e2Vars
<1> QED BY <1>1, <1>3, <1>4, StartedNext DEF ReadAgain, RestartInv, PoolInv

LEMMA RestartInit == RInit => RestartInv
<1> SUFFICES ASSUME RInit PROVE RestartInv
  OBVIOUS
<1>1. PoolInv
  BY TypeInit, LockInit, LostInit, IdInit DEF RInit, PoolInv
<1>2. CleanInv
  BY IdleRecord DEF RInit, CleanInv
<1> QED BY <1>1, <1>2 DEF RInit, RestartInv

LEMMA PartOfPool ==
  ASSUME NEW q \in Seq(Ids), NEW a \in Int, NEW b \in Int, NEW y, y = SubSeq(q, a, b),
         \A n \in a..b : q[n] \in Ids
  PROVE  /\ y \in Seq(Ids)
         /\ Len(y) = IF a <= b THEN b - a + 1 ELSE 0
         /\ \A n \in 1..b - a + 1 : y[n] = q[a + n - 1]
BY SubSeqProperties

\* removeNumber takes the id out of the pool and leaves the others; a pool without
\* repetitions stays one, and is without the id then.
LEMMA PoolWithout ==
  ASSUME NEW q \in Seq(Ids), NEW i \in Ids, NEW m \in 1..Len(q), q[m] = i
  PROVE  /\ removeNumber(q, i) \in Seq(Ids)
         /\ \A j \in Ids : (\E n \in 1..Len(q) : q[n] = j) /\ j # i
              => \E n \in 1..Len(removeNumber(q, i)) : removeNumber(q, i)[n] = j
         /\ NoRepeats(q) =>
              /\ NoRepeats(removeNumber(q, i))
              /\ \A n \in 1..Len(removeNumber(q, i)) :
                   /\ removeNumber(q, i)[n] # i
                   /\ \E k \in 1..Len(q) : q[k] = removeNumber(q, i)[n]
<1>1. PICK k \in 1..Len(q) : /\ q[k] = i
                             /\ removeNumber(q, i) = SubSeq(q, 1, k - 1) \o SubSeq(q, k + 1, Len(q))
  BY DEF removeNumber
<1>2. Len(q) \in Nat /\ k \in Nat /\ k >= 1 /\ k <= Len(q) /\ k - 1 \in Nat /\ Len(q) - k \in Nat
  OBVIOUS
<1>3. PICK x \in Seq(Ids) : /\ x = SubSeq(q, 1, k - 1) /\ Len(x) = k - 1
                            /\ \A n \in 1..k - 1 : x[n] = q[n]
  <2>1. \A n \in 1..k - 1 : q[n] \in Ids
    BY <1>2
  <2>2. PICK x : x = SubSeq(q, 1, k - 1)
    OBVIOUS
  <2>3. /\ x \in Seq(Ids)
        /\ Len(x) = IF 1 <= k - 1 THEN k - 1 - 1 + 1 ELSE 0
        /\ \A n \in 1..k - 1 - 1 + 1 : x[n] = q[1 + n - 1]
    <3>1. PICK b \in Int : b = k - 1
      BY <1>2
    <3>2. PICK a \in Int : a = 1
      OBVIOUS
    <3>3. /\ x \in Seq(Ids)
          /\ Len(x) = IF a <= b THEN b - a + 1 ELSE 0
          /\ \A n \in 1..b - a + 1 : x[n] = q[a + n - 1]
      BY <2>1, <2>2, <3>1, <3>2, PartOfPool
    <3> QED BY <3>1, <3>2, <3>3, Zenon
  <2>4. Len(x) = k - 1 /\ k - 1 - 1 + 1 = k - 1
    BY <1>2, <2>3
  <2>5. ASSUME NEW n \in 1..k - 1 PROVE x[n] = q[n]
    <3>1. 1 + n - 1 = n
      BY <1>2
    <3> QED BY <2>3, <2>4, <3>1
  <2> QED BY <2>2, <2>3, <2>4, <2>5
<1>4. PICK y \in Seq(Ids) : /\ y = SubSeq(q, k + 1, Len(q)) /\ Len(y) = Len(q) - k
                            /\ \A n \in 1..Len(q) - k : y[n] = q[k + n]
  <2>1. \A n \in k + 1..Len(q) : q[n] \in Ids
    BY <1>2
  <2>2. PICK y : y = SubSeq(q, k + 1, Len(q))
    OBVIOUS
  <2>3. /\ y \in Seq(Ids)
        /\ Len(y) = IF k + 1 <= Len(q) THEN Len(q) - (k + 1) + 1 ELSE 0
        /\ \A n \in 1..Len(q) - (k + 1) + 1 : y[n] = q[k + 1 + n - 1]
    <3>1. PICK a \in Int : a = k + 1
      BY <1>2
    <3>2. PICK b \in Int : b = Len(q)
      BY <1>2
    <3>3. /\ y \in Seq(Ids)
          /\ Len(y) = IF a <= b THEN b - a + 1 ELSE 0
          /\ \A n \in 1..b - a + 1 : y[n] = q[a + n - 1]
      BY <2>1, <2>2, <3>1, <3>2, PartOfPool
    <3> QED BY <3>1, <3>2, <3>3, Zenon
  <2>4. Len(y) = Len(q) - k /\ Len(q) - (k + 1) + 1 = Len(q) - k
    BY <1>2, <2>3
  <2>5. ASSUME NEW n \in 1..Len(q) - k PROVE y[n] = q[k + n]
    <3>1. k + 1 + n - 1 = k + n
      BY <1>2
    <3> QED BY <2>3, <2>4, <3>1
  <2> QED BY <2>2, <2>3, <2>4, <2>5
<1>5. PICK r \in Seq(Ids) : /\ r = removeNumber(q, i)
                            /\ Len(r) = Len(q) - 1
                            /\ \A n \in 1..k - 1 : r[n] = q[n]
                            /\ \A n \in k..Len(q) - 1 : r[n] = q[n + 1]
  <2>0. Len(x) = k - 1 /\ Len(y) = Len(q) - k
    BY <1>3, <1>4
  <2>1. PICK r : r = x \o y
    OBVIOUS
  <2>2. r \in Seq(Ids) /\ Len(r) = Len(x) + Len(y)
    BY <2>1
  <2>3. \A n \in 1..Len(x) : r[n] = x[n]
    BY <2>1
  <2>4. \A n \in Len(x) + 1..Len(x) + Len(y) : r[n] = y[n - Len(x)]
    BY <2>1
  <2>5. \A n \in k..Len(q) - 1 : r[n] = q[n + 1]
    <3> SUFFICES ASSUME NEW n \in k..Len(q) - 1 PROVE r[n] = q[n + 1]
      OBVIOUS
    <3>1. n \in Len(x) + 1..Len(x) + Len(y) /\ n - Len(x) \in 1..Len(q) - k
      BY <1>2, <2>0
    <3>2. k + (n - Len(x)) = n + 1
      BY <1>2, <2>0
    <3> QED BY <1>4, <2>4, <3>1, <3>2
  <2>6. Len(r) = Len(q) - 1
    BY <1>2, <2>0, <2>2
  <2>7. \A n \in 1..k - 1 : r[n] = q[n]
    BY <1>3, <2>0, <2>3
  <2>8. r = removeNumber(q, i)
    BY <1>1, <1>3, <1>4, <2>1
  <2> QED BY <2>2, <2>5, <2>6, <2>7, <2>8
<1>6. ASSUME NEW j \in Ids, j # i, NEW n \in 1..Len(q), q[n] = j
      PROVE  \E p \in 1..Len(r) : r[p] = j
  <2>1. CASE n < k
    <3>1. n \in 1..k - 1 /\ n \in 1..Len(r)
      BY <1>2, <1>5, <2>1
    <3> QED BY <1>5, <1>6, <3>1
  <2>2. CASE n > k
    <3>1. n - 1 \in k..Len(q) - 1 /\ n - 1 \in 1..Len(r) /\ (n - 1) + 1 = n
      BY <1>2, <1>5, <2>2
    <3> QED BY <1>5, <1>6, <3>1
  <2> QED BY <1>1, <1>2, <1>6, <2>1, <2>2
<1>7. ASSUME NoRepeats(q)
      PROVE  /\ NoRepeats(r)
             /\ \A n \in 1..Len(r) : r[n] # i /\ \E p \in 1..Len(q) : q[p] = r[n]
  <2>1. \A n \in 1..Len(r) : \/ n < k /\ n \in 1..Len(q) /\ r[n] = q[n]
                             \/ n >= k /\ n + 1 \in 1..Len(q) /\ r[n] = q[n + 1]
    BY <1>2, <1>5
  <2>2. \A n \in 1..Len(r) : r[n] # i /\ \E p \in 1..Len(q) : q[p] = r[n]
    BY <1>1, <1>2, <1>7, <2>1 DEF NoRepeats
  <2>3. NoRepeats(r)
    <3> SUFFICES ASSUME NEW a \in 1..Len(r), NEW b \in 1..Len(r), r[a] = r[b] PROVE a = b
      BY DEF NoRepeats
    <3> QED BY <1>2, <1>7, <2>1 DEF NoRepeats
  <2> QED BY <2>2, <2>3
<1> QED BY <1>5, <1>6, <1>7

\* The object made of a record.
LEMMA RestoredObject ==
  ASSUME TypeInv, NEW i \in Ids, db[i] # None
  PROVE  /\ CreateSubscription(i) \in Subscription
         /\ CreateSubscription(i).id = i
<1>1. PICK r \in SubscriptionInfo : r = db[i]
  BY DEF TypeInv, TypeOK, EnvTypes
<1>2. PICK a \in Answers : a = IF r.rcvd THEN "resp" ELSE "nil"
  BY DEF Answers
<1>3. PICK u \in Subscription : u = Unused
  <2>1. Unused \in Subscription
    BY DEF Unused, Subscription, Answers
  <2> QED BY <2>1
<1>4. PICK q : q = [u EXCEPT !.id = i, !.content = r.content, !.policy = r.policy,
                             !.eps = r.eps, !.valid = r.valid, !.answer = a,
                             !.update = r.update]
  OBVIOUS
<1>5. q \in Subscription /\ q.id = i
  BY <1>4 DEF Subscription, SubscriptionInfo
<1>6. CreateSubscription(i) = q
  BY <1>1, <1>2, <1>3, <1>4, Zenon DEF CreateSubscription
<1> QED BY <1>5, <1>6

\* One record: its id leaves the pool and is registered.
LEMMA ReadRecordStep ==
  ASSUME RestartInv, NEW i \in Ids, ReadRecord(i)
  PROVE  RestartInv'
<1>1. /\ TypeInv /\ NoIdLost /\ IdInv /\ NothingRuns /\ ~up /\ clean = Idle
      /\ register[i] = None /\ db[i] # None
  BY DEF ReadRecord, RestartInv, PoolInv
<1>2. PICK s \in Objects : /\ s \notin Registered
                           /\ register' = [register EXCEPT ![i] = s]
                           /\ subs' = [subs EXCEPT ![s] = CreateSubscription(i)]
  BY DEF ReadRecord
<1>3. PICK q \in Subscription : q = CreateSubscription(i) /\ q.id = i
  BY <1>1, RestoredObject
<1>4. PICK m \in 1..Len(subIds) : subIds[m] = i
  BY <1>1 DEF NoIdLost, NothingRuns, Allocating, Returning, NoSweep
<1>5. subIds \in Seq(Ids) /\ subIds' = removeNumber(subIds, i)
  BY <1>1 DEF ReadRecord, TypeInv, TypeOK, RegTypes
<1>6. NothingRuns' /\ Allocating = {} /\ Allocating' = {} /\ Cleaning' = {}
  BY <1>1 DEF ReadRecord, NothingRuns, goVars, e2Vars, Allocating, Cleaning
<1>7. /\ register \in [Ids -> Objects \cup {None}] /\ subs \in [Objects -> Subscription]
      /\ s # None
  BY <1>1, NoneAssumption DEF TypeInv, TypeOK, RegTypes
<1>8. Registered' = Registered \cup {s}
  BY <1>1, <1>2, <1>7 DEF Registered
<1>9. \A j \in Ids : register[j] # None => /\ register'[j] = register[j]
                                           /\ subs'[register[j]] = subs[register[j]]
  BY <1>1, <1>2, <1>7 DEF Registered
<1>10. TypeInv'
  <2>1. RegTypes'
    BY <1>2, <1>3, <1>4, <1>5, <1>7, PoolWithout DEF RegTypes
  <2>2. LockTypes' /\ GoTypes' /\ XappTypes' /\ EnvTypes' /\ E2Types'
    BY <1>1, UnchangedTypes DEF ReadRecord, TypeInv, TypeOK
  <2>3. \A j \in Ids : register'[j] # None => subs'[register'[j]].id \in Ids
    BY <1>1, <1>2, <1>3, <1>7, <1>9 DEF TypeInv, ObjectsInUse, InUse
  <2>4. ObjectsInUse'
    BY <1>6, <2>3 DEF NothingRuns, NoSweep, ObjectsInUse, InUse
  <2> QED BY <2>1, <2>2, <2>4 DEF TypeInv, TypeOK
<1>11. LockInv'
  BY <1>6 DEF NothingRuns, LockInv, RegistryHeld, ObjectHeld, FindCreates, InRegistry, InObject
<1>12. NoIdLost'
  <2> SUFFICES ASSUME NEW j \in Ids
               PROVE  register'[j] # None \/ \E n \in 1..Len(subIds') : subIds'[n] = j
    BY DEF NoIdLost
  <2>1. CASE j = i
    BY <1>2, <1>7, <2>1
  <2>2. CASE register[j] # None
    BY <1>9, <2>2
  <2>3. CASE j # i /\ register[j] = None
    <3>1. \E n \in 1..Len(subIds) : subIds[n] = j
      BY <1>1, <1>6, <2>3 DEF NoIdLost, NothingRuns, Returning, NoSweep
    <3>2. \E n \in 1..Len(removeNumber(subIds, i)) : removeNumber(subIds, i)[n] = j
      BY <1>4, <1>5, <2>3, <3>1, PoolWithout
    <3> QED BY <1>5, <3>2
  <2> QED BY <2>1, <2>2, <2>3
<1>13. IdInv'
  <2>1. NoRepeats(subIds) /\ \A n \in 1..Len(subIds) : register[subIds[n]] = None
    BY <1>1 DEF IdInv, UniqueInstanceIds, NoRepeats
  <2>2. /\ NoRepeats(subIds')
        /\ \A n \in 1..Len(subIds') : /\ subIds'[n] # i
                                      /\ \E k \in 1..Len(subIds) : subIds[k] = subIds'[n]
    BY <1>4, <1>5, <2>1, PoolWithout
  <2>3. \A n \in 1..Len(subIds') : register'[subIds'[n]] = None
    <3> SUFFICES ASSUME NEW n \in 1..Len(subIds') PROVE register'[subIds'[n]] = None
      OBVIOUS
    <3>1. PICK k \in 1..Len(subIds) : subIds[k] = subIds'[n]
      BY <2>2
    <3>2. subIds[k] \in Ids /\ subIds[k] # i
      BY <1>5, <2>2, <3>1
    <3> QED BY <1>2, <1>7, <2>1, <3>1, <3>2
  <2>4. UniqueInstanceIds'
    BY <1>6, <2>2, <2>3 DEF UniqueInstanceIds, NoRepeats
  <2>5. RegisteredIds'
    BY <1>1, <1>2, <1>3, <1>7, <1>9 DEF IdInv, RegisteredIds
  <2>6. FoundRegistered' /\ AllocatedEps' /\ CleaningRegistered'
    BY <1>6 DEF NothingRuns, FoundRegistered, AllocatedEps, CleaningRegistered
  <2>7. LeftEmpty'
    BY <1>1, <1>2, <1>6, <1>7, <1>8 DEF IdInv, LeftEmpty
  <2> QED BY <1>6, <2>4, <2>5, <2>6, <2>7 DEF NothingRuns, IdInv
<1>14. CleanInv'
  BY DEF ReadRecord, RestartInv, CleanInv, e2Vars
<1> QED BY <1>1, <1>6, <1>10, <1>11, <1>12, <1>13, <1>14 DEF ReadRecord, RestartInv, PoolInv

LEMMA RestoreStep ==
  ASSUME RestartInv, Restore
  PROVE  RestartInv'
<1>1. TypeInv' /\ LockInv' /\ NoIdLost' /\ (events = 0 => IdInv)'
  <2>1. UNCHANGED vars
    BY DEF Restore
  <2>2. PoolInv'
    BY <2>1, PoolNext DEF RestartInv
  <2> QED BY <2>2 DEF PoolInv
<1>2. PICK t \in SUBSET Ids, l \in SUBSET Ids : clean' = [Idle EXCEPT !.todo = t, !.late = l]
  BY DEF Restore
<1>3. CleanInv'
  BY <1>2 DEF CleanInv, Idle
<1> QED BY <1>1, <1>3 DEF Restore, RestartInv, PoolInv

-----------------------------------------------------------------------------
(* HandleUncompletedSubscriptions *)

\* The steps that change clean only, and what is pinned.
LEMMA PinStep ==
  ASSUME RestartInv, CleanInv', up, up', pinned' \subseteq pinned \cup Registered,
         UNCHANGED <<lockVars, regVars, goVars, xappVars, envVars, e2, sweep, events, raced>>
  PROVE  RestartInv'
<1>1. TypeInv /\ Registered \subseteq Objects
  BY DEF RestartInv, PoolInv, TypeInv, TypeOK, RegTypes, Registered
<1>2. LockTypes' /\ RegTypes' /\ GoTypes' /\ XappTypes' /\ EnvTypes'
  BY <1>1, UnchangedTypes DEF TypeInv, TypeOK
<1>3. E2Types'
  BY <1>1, Zenon DEF TypeInv, TypeOK, E2Types
<1>4. UNCHANGED <<subs, pc, cur, register, subIds, op, rmutex, smutex>>
  BY DEF regVars, goVars, lockVars
<1>5. ObjectsInUse'
  BY <1>1, <1>2, <1>3, <1>4, InUseStep DEF TypeInv, ObjectsInUse
<1>6. LockInv'
  BY <1>4 DEF RestartInv, PoolInv, LockInv, RegistryHeld, ObjectHeld, FindCreates, InRegistry,
              InObject
<1>7. NoIdLost'
  BY <1>4, Zenon DEF RestartInv, PoolInv, NoIdLost, Returning, Allocating
<1>8. (events = 0 => IdInv)'
  BY <1>4 DEF RestartInv, PoolInv, IdInv, UniqueInstanceIds, RegisteredIds, FoundRegistered,
              AllocatedEps, CleaningRegistered, LeftEmpty, Allocating, Cleaning, Registered
<1> QED BY <1>2, <1>3, <1>5, <1>6, <1>7, <1>8 DEF RestartInv, PoolInv, TypeInv, TypeOK

LEMMA CleanVisitStep ==
  ASSUME RestartInv, NEW i \in Ids, CleanVisit(i)
  PROVE  RestartInv'
<1>1. CASE /\ clean' = [clean EXCEPT !.todo = @ \ {i}, !.late = @ \ {i}]
           /\ UNCHANGED pinned
  <2>1. CleanInv'
    BY <1>1 DEF RestartInv, CleanInv
  <2> QED BY <1>1, <2>1, PinStep DEF CleanVisit
<1>2. ASSUME NEW s, NEW n, s = register[i], s # None, pinned' = {s},
             clean' = [clean EXCEPT !.todo = @ \ {i}, !.late = @ \ {i},
                                    !.obj = s, !.size = n]
      PROVE  RestartInv'
  <2>1. CleanInv'
    BY <1>2 DEF RestartInv, CleanInv
  <2>2. s \in Registered
    BY <1>2 DEF Registered
  <2> QED BY <1>2, <2>1, <2>2, PinStep DEF CleanVisit
<1> QED BY <1>1, <1>2 DEF CleanVisit

LEMMA CleanNextStep ==
  ASSUME RestartInv, CleanNext
  PROVE  RestartInv'
<1>1. up /\ up'
  BY IdleRecord DEF RestartInv, CleanNext
<1>2. PICK t \in SUBSET Ids : t = clean.todo
  BY DEF RestartInv, CleanInv
<1>3. PICK l : l = clean.late
  OBVIOUS
<1>4. clean' = [Idle EXCEPT !.todo = t, !.late = l] /\ pinned' = {}
  BY <1>2, <1>3 DEF CleanNext
<1>5. CleanInv'
  BY <1>4 DEF CleanInv, Idle
<1> QED BY <1>1, <1>4, <1>5, PinStep DEF CleanNext

LEMMA CleanStopStep ==
  ASSUME RestartInv, CleanStop
  PROVE  RestartInv'
<1>1. up /\ up'
  BY IdleRecord DEF RestartInv, CleanStop
<1>2. CleanInv'
  BY IdleRecord DEF CleanInv, CleanStop
<1> QED BY <1>1, <1>2, PinStep DEF CleanStop, vars, e2Vars

LEMMA CleanBlankStep ==
  ASSUME RestartInv, CleanBlank
  PROVE  RestartInv'
<1>1. up /\ up'
  BY IdleRecord DEF RestartInv, CleanBlank
<1>2. CleanInv'
  BY DEF RestartInv, CleanInv, CleanBlank, vars, e2Vars
<1> QED BY <1>1, <1>2, PinStep DEF CleanBlank, vars, e2Vars

\* A step of the delete of one endpoint that touches neither the register nor
\* the pool nor an object.
LEMMA DeleteStep ==
  ASSUME RestartInv, TypeInv', LockInv', CleanInv', up, up', NEW c \in Clients, OthersKept(c),
         UNCHANGED <<regVars, sweep, events, raced>>,
         pc[c] \notin {"route", "insert"}, pc'[c] \notin {"route", "insert", "find"},
         c \in Cleaning' => c \in Cleaning /\ cur'[c] = cur[c]
  PROVE  RestartInv'
<1>1. /\ TypeInv /\ LockInv /\ NoIdLost
      /\ UNCHANGED <<subs, register, subIds>>
  BY DEF RestartInv, PoolInv, regVars
<1>2. NoIdLost'
  <2>1. NoIdLost' <=> raced' \/ Kept'
    BY LostDef, PTL
  <2>2. Kept => Kept'
    BY <1>1, LostPlain
  <2>3. raced \/ Kept
    BY <1>1, LostDef, Zenon
  <2> QED BY <2>1, <2>2, <2>3, Zenon
<1>3. ASSUME events' = 0 PROVE IdInv'
  <2>1. IdInv
    BY <1>3 DEF RestartInv, PoolInv
  <2>2. Allocating' = Allocating /\ \A d \in Allocating : cur'[d] = cur[d]
    BY DEF Allocating, OthersKept
  <2>3. c \in Cleaning' => register[subs[cur'[c]].id] = cur'[c]
    BY <2>1 DEF IdInv, CleaningRegistered
  <2> QED BY <1>1, <2>1, <2>2, <2>3, IdKeep
<1> QED BY <1>2, <1>3 DEF RestartInv, PoolInv

LEMMA CleanDeleteStep ==
  ASSUME RestartInv, NEW c \in Clients, CleanDelete(c)
  PROVE  RestartInv'
<1>0. up /\ up' /\ TypeInv /\ LockInv
  BY IdleRecord DEF RestartInv, PoolInv, CleanDelete
<1>1. PICK i \in Ids : i = subs[clean.obj].id
  BY DEF RestartInv, PoolInv, CleanInv, CleanDelete, TypeInv, ObjectsInUse, InUse
<1>2. CleanInv'
  BY DEF RestartInv, CleanInv, CleanDelete, e2Vars
<1>3. /\ UNCHANGED <<regVars, lockVars, xappVars, envVars, e2Vars, seen, event>>
      /\ pc[c] = "idle"
  BY DEF CleanDelete
<1>4. CASE UNCHANGED <<op, cur, count, pc>>
  BY <1>0, <1>2, <1>3, <1>4, PinStep DEF goVars, e2Vars
<1>5. ASSUME NEW s, s = register[i], s # None, op' = [op EXCEPT ![c] = "delete"],
             cur' = [cur EXCEPT ![c] = s], count' = [count EXCEPT ![c] = subs[s].del],
             Goto(c, "begin")
      PROVE  RestartInv'
  <2>1. s \in Objects /\ subs[s].del \in Int /\ s \in Registered
    BY <1>0, <1>5 DEF TypeInv, TypeOK, RegTypes, Subscription, Registered
  <2>2. GoTypes'
    BY <1>0, <1>3, <1>5, <2>1 DEF Goto, TypeInv, TypeOK, GoTypes, Places, Operations
  <2>3. OthersKept(c) /\ cur'[c] = s /\ pc'[c] = "begin"
    BY <1>0, <1>5 DEF Goto, OthersKept, TypeInv, TypeOK, GoTypes
  <2>4. LockTypes' /\ RegTypes' /\ XappTypes' /\ EnvTypes' /\ E2Types'
    BY <1>0, <1>3, UnchangedTypes DEF TypeInv, TypeOK
  <2>5. /\ \A d \in Clients : /\ cur'[d] \in {cur[d], None} \cup Registered
                              /\ pc'[d] \notin {"idle", "assign", "find"} => cur'[d] # None
        /\ UNCHANGED <<subs, register, subIds, sweep, pinned, rmutex, smutex, events, raced>>
    BY <1>0, <1>3, <1>5, <2>1, <2>3
       DEF OthersKept, TypeInv, ObjectsInUse, regVars, lockVars, e2Vars
  <2>6. ObjectsInUse'
    BY <1>0, <2>2, <2>4, <2>5, InUseStep
  <2>7. TypeInv'
    BY <2>2, <2>4, <2>6 DEF TypeInv, TypeOK
  <2>8. LockInv'
    BY <1>0, <2>3, <2>5, LockPlain DEF InRegistry, InObject
  <2>9. c \notin Cleaning'
    BY <2>3 DEF Cleaning
  <2> QED BY <1>0, <1>2, <1>3, <2>3, <2>5, <2>7, <2>8, <2>9, DeleteStep
<1> QED BY <1>1, <1>4, <1>5 DEF CleanDelete

LEMMA CleanWaitStep ==
  ASSUME RestartInv, NEW c \in Clients, CleanSleep(c) \/ CleanWake(c)
  PROVE  RestartInv'
<1>1. up /\ up' /\ TypeInv /\ LockInv
  BY IdleRecord, NoneAssumption DEF RestartInv, PoolInv, NothingRuns, CleanSleep, CleanWake
<1>2. /\ UNCHANGED <<regVars, turn, releasing, smutex, op, cur, seen, count, event, xappVars, envVars,
                     e2Vars, clean>>
      /\ pc[c] \in {"rm_clean", "c_sleep"}
  BY DEF CleanSleep, CleanWake
<1>3. /\ pc'[c] \in {"rm_clean", "c_sleep"}
      /\ OthersKept(c) /\ pc' \in [Clients -> Places]
      /\ \A d \in Clients : d # c => pc'[d] = pc[d]
  BY <1>1, <1>2 DEF CleanSleep, CleanWake, Goto, OthersKept, TypeInv, TypeOK, GoTypes, Places
<1>4. cur[c] # None /\ cur[c] \in Objects
  BY <1>1, <1>2 DEF TypeInv, TypeOK, GoTypes, ObjectsInUse
<1>5. TypeInv'
  <2>1. rmutex' \in Clients \cup {None}
    BY DEF CleanSleep, CleanWake, Unlock
  <2>2. LockTypes'
    BY <1>1, <1>2, <2>1 DEF TypeInv, TypeOK, LockTypes
  <2>3. GoTypes'
    BY <1>1, <1>2, <1>3 DEF TypeInv, TypeOK, GoTypes
  <2>4. RegTypes' /\ XappTypes' /\ EnvTypes' /\ E2Types'
    BY <1>1, <1>2, UnchangedTypes DEF TypeInv, TypeOK
  <2>5. ObjectsInUse'
    BY <1>1, <1>2, <1>3, <1>4, <2>3, <2>4, InUseMove DEF regVars, e2Vars
  <2> QED BY <2>2, <2>3, <2>4, <2>5 DEF TypeInv, TypeOK
<1>6. LockInv'
  <2>1. smutex[cur[c]] = c
    BY <1>1, <1>2 DEF LockInv, ObjectHeld, InObject
  <2>2. CASE CleanSleep(c)
    <3>1. rmutex = c /\ pc'[c] = "c_sleep"
      BY <1>1, <2>2 DEF CleanSleep, Goto, LockInv, RegistryHeld, InRegistry, TypeInv, TypeOK, GoTypes
    <3> QED BY <1>1, <1>2, <1>3, <2>1, <3>1, LockKeep DEF InRegistry, InObject
  <2>3. CASE CleanWake(c)
    BY <1>1, <1>2, <1>3, <2>1, <2>3, LockKeep DEF CleanWake, InRegistry, InObject
  <2> QED BY <2>2, <2>3
<1>7. CleanInv'
  BY <1>2 DEF RestartInv, CleanInv, e2Vars
<1>8. c \in Cleaning /\ cur'[c] = cur[c]
  BY <1>2 DEF Cleaning
<1> QED BY <1>1, <1>2, <1>3, <1>5, <1>6, <1>7, <1>8, DeleteStep DEF e2Vars

LEMMA CleanEndStep ==
  ASSUME RestartInv, NEW c \in Clients, CleanEnd(c)
  PROVE  RestartInv'
<1>1. up /\ up' /\ TypeInv /\ LockInv
  BY IdleRecord, NoneAssumption DEF RestartInv, PoolInv, CleanEnd
<1>2. /\ UNCHANGED <<regVars, lockVars, xappVars, envVars, e2Vars>>
      /\ pc[c] = "outcome" /\ Return(c)
  BY DEF CleanEnd
<1>3. OthersKept(c) /\ pc'[c] = "idle"
  BY <1>1, <1>2 DEF Return, Goto, OthersKept, TypeInv, TypeOK, GoTypes
<1>4. CleanInv'
  BY <1>2 DEF RestartInv, CleanInv, CleanEnd, e2Vars
<1>5. TypeInv'
  <2>1. /\ GoTypes'
        /\ \A d \in Clients : /\ cur'[d] \in {cur[d], None} \cup Registered
                              /\ pc'[d] \notin {"idle", "assign", "find"} => cur'[d] # None
    BY <1>1, <1>2, ReturnTypes
  <2>2. LockTypes' /\ RegTypes' /\ XappTypes' /\ EnvTypes' /\ E2Types'
    BY <1>1, <1>2, UnchangedTypes DEF TypeInv, TypeOK
  <2>3. UNCHANGED <<subs, register, sweep, pinned>>
    BY <1>2 DEF regVars, e2Vars
  <2>4. ObjectsInUse'
    BY <1>1, <2>1, <2>2, <2>3, InUseStep
  <2> QED BY <2>1, <2>2, <2>4 DEF TypeInv, TypeOK
<1>6. LockInv'
  BY <1>1, <1>2, <1>3, LockPlain DEF InRegistry, InObject, lockVars
<1>7. c \notin Cleaning'
  BY <1>3 DEF Cleaning
<1> QED BY <1>1, <1>2, <1>3, <1>4, <1>5, <1>6, <1>7, DeleteStep DEF e2Vars

-----------------------------------------------------------------------------
(* The theorem *)

LEMMA RestartStep ==
  ASSUME RestartInv, [RNext]_rvars
  PROVE  RestartInv'
<1>1. CASE UNCHANGED rvars
  <2>1. UNCHANGED <<vars, clean, up>>
    BY <1>1 DEF rvars
  <2>2. PoolInv'
    BY <2>1, PoolNext DEF RestartInv
  <2>3. CleanInv'
    BY <2>1 DEF RestartInv, CleanInv, vars, e2Vars
  <2>4. NothingRuns => NothingRuns'
    BY <2>1 DEF NothingRuns, vars, goVars, e2Vars
  <2>5. IdInv => IdInv'
    BY <2>1, <2>2, IdStep DEF RestartInv, PoolInv, IdInv, UniqueInstanceIds, RegisteredIds,
       FoundRegistered, AllocatedEps, CleaningRegistered, LeftEmpty, Allocating, Cleaning,
       Registered, vars, regVars, goVars, e2Vars
  <2> QED BY <2>1, <2>2, <2>3, <2>4, <2>5 DEF RestartInv
<1>2. CASE Run \/ Crash
  BY <1>2, RunStep, CrashStep
<1>3. CASE Reading
  BY <1>3, RestoreStep, ReadRecordStep, ReadAgainStep DEF Reading
<1>4. CASE CleanUp
  BY <1>4, CleanVisitStep, CleanDeleteStep, CleanWaitStep, CleanEndStep, CleanBlankStep,
     CleanNextStep, CleanStopStep DEF CleanUp
<1> QED BY <1>1, <1>2, <1>3, <1>4 DEF RNext

\* Whenever the process ends and however often, whatever fails and whatever
\* HandleUncompletedSubscriptions does next to the requests: once
\* ReadAllSubscriptionsFromSdl has read the records no id is lost, and as long
\* as no E2 connection has broken none is in the pool and in use.
THEOREM IdsSurviveRestart == RSpec => []IdsRestored
<1>1. RestartInv => IdsRestored
  BY DEF RestartInv, PoolInv, IdInv, IdsRestored
<1>2. RestartInv /\ [RNext]_rvars => RestartInv'
  BY RestartStep
<1> QED BY <1>1, <1>2, RestartInit, PTL DEF RSpec

-----------------------------------------------------------------------------
(* What is on record before the first restart *)

\* The record of id i restores the subscription of client c.
GoodRecord(c, i) ==
  /\ db[i] # None
  /\ Endpoint[c] \in db[i].eps
  /\ db[i].content = Content[c]
  /\ db[i].policy <=> c \in Policy
  /\ db[i].valid
  /\ db[i].rcvd \/ (db[i].update /\ c \in Policy)

\* A repeated request that is to write the record of s.  While the flag is up it
\* takes two of them, as the first one clears the flag instead.
Repeats(d, s) == cur[d] = s /\ op[d] = "retry" /\ Writing(d)

RepeatDue(s) ==
  \/ ~subs[s].retry /\ \E d \in Clients : Repeats(d, s)
  \/ \E d, e \in Clients : d # e /\ Repeats(d, s) /\ Repeats(e, s)

RepeatFlag(s) == subs[s].retry => \E d \in Clients : Repeats(d, s)

\* Client c was told of a success with id i, or is about to be.
Reported(c) ==
  pc[c] \in {"event", "end", "outcome"} /\ op[c] # "delete" /\ event[c] = "resp"

Knows(c, i) == i \in told[c] \/ (Reported(c) /\ subs[cur[c]].id = i)

KnownOf(c) == \A i \in Ids : Knows(c, i) => GoodRecord(c, i) \/ RepeatDue(register[i])

\* A request that removes its endpoint at last has no success to report, and one
\* that joins is not a repeated one.
LateOf(c) ==
  /\ pc[c] \in {"p_lock", "p_del", "p_sleep", "p_clean", "done"} /\ op[c] # "delete"
       => event[c] # "resp"
  /\ pc[c] # "undo"
  /\ op[c] = "update" => c \in Policy
  /\ pc[c] \in {"merge", "route", "insert"} => op[c] # "retry"

\* A request is repeated by a client that was told of its success.
RepeatOf(c) == op[c] = "retry" /\ Writing(c) => subs[cur[c]].id \in told[c]

KnownInv ==
  /\ \A s \in Objects : RepeatFlag(s)
  /\ \A c \in Clients : LateOf(c) /\ RepeatOf(c) /\ KnownOf(c)

\* The success a client knows of is that of the registered object.
LEMMA KnownObject ==
  ASSUME Orderly, TypeInv, IdInv, OwnInv, NEW c \in Clients, NEW i \in Ids, Knows(c, i)
  PROVE  /\ register[i] \in Objects /\ register[i] \in Registered /\ subs[register[i]].id = i
         /\ Suits(c, register[i]) /\ Endpoint[c] \in subs[register[i]].eps
         /\ subs[register[i]].valid /\ i \in node
         /\ subs[register[i]].answer = "resp" \/ (subs[register[i]].update /\ c \in Policy)
<1>1. CASE i \in told[c]
  <2>1. /\ register[i] \in Objects /\ subs[register[i]].id = i
        /\ Suits(c, register[i]) /\ Endpoint[c] \in subs[register[i]].eps
        /\ subs[register[i]].valid /\ i \in node
    BY <1>1, ToldObject
  <2>2. subs[register[i]].answer = "resp" \/ subs[register[i]].update
    BY <1>1 DEF OwnInv, Told, ToldOf
  <2>3. subs[register[i]].update => c \in Policy
    BY <2>1 DEF OwnInv, Answered, ObjectOf, Suits
  <2> QED BY <2>1, <2>2, <2>3, NoneAssumption DEF Registered
<1>2. CASE Reported(c) /\ subs[cur[c]].id = i
  <2>1. AtWork(c) /\ Succeeding(c) /\ c \notin Allocating
    BY <1>2 DEF Reported, AtWork, Succeeding, Allocating
  <2>2. cur[c] \in Objects /\ WorkOf(c, cur[c])
    BY <2>1, AtObject DEF OwnInv, Working
  <2>3. cur[c] \in Registered /\ register[i] = cur[c]
    BY <1>2, <2>1, <2>2, Home DEF WorkOf
  <2> QED BY <1>2, <2>1, <2>2, <2>3 DEF WorkOf
<1> QED BY <1>1, <1>2 DEF Knows

\* The others know and repeat what they did.
LEMMA OthersKnow ==
  ASSUME NEW c \in Clients, OthersStay(c), NEW d \in Clients \ {c}
  PROVE  /\ \A s : Repeats(d, s)' <=> Repeats(d, s)
         /\ Reported(d)' = Reported(d) /\ told'[d] = told[d] /\ cur'[d] = cur[d]
         /\ LateOf(d) => LateOf(d)'
         /\ RepeatOf(d) /\ (AtWork(d) => subs'[cur[d]].id = subs[cur[d]].id) => RepeatOf(d)'
BY DEF OthersStay, OthersKept, Repeats, Writing, Reported, LateOf, RepeatOf, AtWork

\* The steps of c that leave the records alone and the flags where they are.
LEMMA KnownPlain ==
  ASSUME Orderly, TypeInv, IdInv, OwnInv, KnownInv, NEW c \in Clients, OthersStay(c), UNCHANGED db,
         \A o \in Objects :
           \/ subs'[o].id = subs[o].id /\ subs'[o].retry = subs[o].retry
           \/ o \notin Registered /\ ~subs'[o].retry /\ \A d \in Clients \ {c} : cur[d] # o,
         \A i \in Ids : register[i] # None => register'[i] = register[i],
         op[c] = "retry" /\ Writing(c) =>
           op'[c] = "retry" /\ Writing(c)' /\ cur'[c] = cur[c],
         \A i \in Ids : Knows(c, i)' => Knows(c, i),
         LateOf(c)', RepeatOf(c)'
  PROVE  KnownInv'
<1>1. \A d \in Clients, s \in Objects : Repeats(d, s) => Repeats(d, s)'
  BY OthersKnow DEF Repeats
<1>2. \A s \in Objects : RepeatFlag(s)'
  BY <1>1 DEF KnownInv, RepeatFlag
<1>3. ASSUME NEW d \in Clients \ {c} PROVE LateOf(d)' /\ RepeatOf(d)'
  <2>1. AtWork(d) => subs'[cur[d]].id = subs[cur[d]].id
    BY AtObject
  <2> QED BY <2>1, OthersKnow DEF KnownInv
<1>4. ASSUME NEW d \in Clients, NEW i \in Ids, Knows(d, i)' PROVE Knows(d, i)
  <2>1. CASE d = c
    BY <1>4, <2>1
  <2>2. CASE d # c
    <3>1. Reported(d) => subs'[cur[d]].id = subs[cur[d]].id
      BY <2>2, AtObject DEF Reported, AtWork
    <3> QED BY <1>4, <2>2, <3>1, OthersKnow DEF Knows
  <2> QED BY <2>1, <2>2
<1>5. ASSUME NEW d \in Clients, NEW i \in Ids, Knows(d, i)
      PROVE  GoodRecord(d, i)' \/ RepeatDue(register[i])'
  <2>1. /\ register[i] \in Objects /\ register[i] \in Registered
        /\ register'[i] = register[i]
    BY <1>5, KnownObject, NoneAssumption
  <2>2. subs'[register[i]].retry = subs[register[i]].retry
    BY <2>1
  <2>3. CASE GoodRecord(d, i)
    BY <2>3 DEF GoodRecord
  <2>4. CASE RepeatDue(register[i])
    BY <1>1, <2>1, <2>2, <2>4 DEF RepeatDue
  <2> QED BY <1>5, <2>3, <2>4 DEF KnownInv, KnownOf
<1> QED BY <1>2, <1>3, <1>4, <1>5 DEF KnownInv, KnownOf

\* The steps of c that change the record or the flag of its object s.
LEMMA KnownChange ==
  ASSUME Orderly, TypeInv, IdInv, OwnInv, KnownInv, NEW c \in Clients, OthersStay(c),
         NEW s \in Objects, NEW h \in Ids, h = subs[s].id, register[h] = s, cur[c] = s,
         \A o \in Objects : subs'[o].id = subs[o].id,
         \A o \in Objects \ {s} : subs'[o].retry = subs[o].retry,
         \A i \in Ids \ {h} : db'[i] = db[i] /\ register'[i] = register[i],
         RepeatFlag(s)', LateOf(c)', RepeatOf(c)',
         \A d \in Clients : Knows(d, h)' => GoodRecord(d, h)' \/ RepeatDue(register[h])',
         \A i \in Ids \ {h} : Knows(c, i)' => Knows(c, i)
  PROVE  KnownInv'
<1>1. \A d \in Clients, o \in Objects \ {s} : Repeats(d, o) => Repeats(d, o)'
  BY OthersKnow DEF Repeats
<1>2. \A o \in Objects : RepeatFlag(o)'
  BY <1>1 DEF KnownInv, RepeatFlag
<1>3. ASSUME NEW d \in Clients \ {c} PROVE LateOf(d)' /\ RepeatOf(d)'
  <2>1. AtWork(d) => subs'[cur[d]].id = subs[cur[d]].id
    BY AtObject
  <2> QED BY <2>1, OthersKnow DEF KnownInv
<1>4. ASSUME NEW d \in Clients, NEW i \in Ids \ {h}, Knows(d, i)' PROVE Knows(d, i)
  <2>1. CASE d = c
    BY <1>4, <2>1
  <2>2. CASE d # c
    <3>1. Reported(d) => subs'[cur[d]].id = subs[cur[d]].id
      BY <2>2, AtObject DEF Reported, AtWork
    <3> QED BY <1>4, <2>2, <3>1, OthersKnow DEF Knows
  <2> QED BY <2>1, <2>2
<1>5. ASSUME NEW d \in Clients, NEW i \in Ids \ {h}, Knows(d, i)
      PROVE  GoodRecord(d, i)' \/ RepeatDue(register[i])'
  <2>1. register[i] \in Objects \ {s} /\ register'[i] = register[i]
    BY <1>5, KnownObject
  <2>2. CASE GoodRecord(d, i)
    BY <2>2 DEF GoodRecord
  <2>3. CASE RepeatDue(register[i])
    BY <1>1, <2>1, <2>3 DEF RepeatDue
  <2> QED BY <1>5, <2>2, <2>3 DEF KnownInv, KnownOf
<1> QED BY <1>2, <1>3, <1>4, <1>5 DEF KnownInv, KnownOf

\* The objects have the ids and the flags they had, except for a new one.
FlagsKept(c) ==
  \A o \in Objects :
    \/ subs'[o].id = subs[o].id /\ subs'[o].retry = subs[o].retry
    \/ o \notin Registered /\ ~subs'[o].retry /\ \A d \in Clients \ {c} : cur[d] # o

EntriesKept == \A i \in Ids : register[i] # None => register'[i] = register[i]

\* What of this does not follow from where a request can be.
LateFree(c) ==
  /\ pc[c] \in {"p_lock", "p_del", "done"} /\ op[c] # "delete" => event[c] # "resp"
  /\ pc[c] \in {"merge", "route", "insert"} => op[c] # "retry"

LEMMA LateKept ==
  ASSUME OwnInv', NEW c \in Clients, LateFree(c)'
  PROVE  LateOf(c)'
BY DEF OwnInv, Control, ControlOf, LateOf, LateFree

\* Most steps are those of a request that goes on with its object.
LEMMA KnownGoesOn ==
  ASSUME Orderly, TypeInv, IdInv, OwnInv, OwnInv', KnownInv, NEW c \in Clients, OthersStay(c),
         UNCHANGED <<db, cur, op, told>>, AllKept, EntriesKept, AtWork(c),
         op[c] = "retry" => (Writing(c) <=> Writing(c)'), Reported(c)' => Reported(c), LateFree(c)'
  PROVE  KnownInv'
<1>1. cur[c] \in Objects
  BY AtObject
<1>2. subs'[cur[c]].id = subs[cur[c]].id
  BY <1>1 DEF AllKept, Keeps
<1>3. \A i \in Ids : Knows(c, i)' => Knows(c, i)
  BY <1>2 DEF Knows
<1>4. RepeatOf(c)'
  BY <1>2 DEF KnownInv, RepeatOf
<1>5. LateOf(c)'
  BY LateKept
<1> QED BY <1>3, <1>4, <1>5, KnownPlain DEF AllKept, Keeps, EntriesKept

\* The others are those of a request that is yet to find its object, or that has
\* been answered.
LEMMA KnownOutside ==
  ASSUME Orderly, TypeInv, IdInv, OwnInv, OwnInv', KnownInv, NEW c \in Clients, OthersStay(c),
         UNCHANGED db, FlagsKept(c), EntriesKept,
         op[c] = "retry" => ~Writing(c), op'[c] = "retry" => ~Writing(c)',
         ~Reported(c)', \A i \in told'[c] : Knows(c, i), LateFree(c)'
  PROVE  KnownInv'
<1>1. \A i \in Ids : Knows(c, i)' => Knows(c, i)
  BY DEF Knows
<1>2. RepeatOf(c)' /\ LateOf(c)'
  BY LateKept DEF RepeatOf
<1> QED BY <1>1, <1>2, KnownPlain DEF FlagsKept, EntriesKept

LEMMA KnownStart ==
  ASSUME Orderly, TypeInv, IdInv, OwnInv, OwnInv', KnownInv, NEW c \in Clients,
         StartCreate(c) \/ \E i \in Ids : StartDelete(c, i)
  PROVE  KnownInv'
<1>1. OthersStay(c)
  BY StayStart
<1>2. /\ pc[c] = "idle" /\ pc'[c] \in {"idle", "assign", "begin"}
      /\ pc'[c] = "begin" => op'[c] = "delete"
      /\ UNCHANGED <<register, db, subs>>
      /\ told'[c] \subseteq told[c]
  BY DEF StartCreate, StartDelete, Goto, goVars, regVars, envVars, TypeInv, TypeOK, GoTypes, XappTypes
<1>3. FlagsKept(c) /\ EntriesKept /\ ~Writing(c) /\ ~Reported(c)' /\ LateFree(c)' /\ ~Writing(c)'
  BY <1>2 DEF FlagsKept, EntriesKept, Writing, Reported, LateFree
<1>4. \A i \in told'[c] : Knows(c, i)
  BY <1>2 DEF Knows
<1> QED BY <1>1, <1>2, <1>3, <1>4, KnownOutside

LEMMA KnownSearch ==
  ASSUME Orderly, TypeInv, LockInv, IdInv, OwnInv, OwnInv', KnownInv, NEW c \in Clients,
         \/ AssignLock(c)
         \/ FindExistingSubs(c) /\ pc'[c] = "find"
         \/ AllocateSubs(c) /\ Return(c) /\ UNCHANGED subs
  PROVE  KnownInv'
<1>1. OthersStay(c)
  BY StayStep DEF Step
<1>2. /\ pc[c] \in {"assign", "find"} /\ pc'[c] \in {"policy", "find", "idle"}
      /\ pc'[c] = "policy" => op'[c] = "update"
      /\ UNCHANGED <<register, db, subs, told>>
  <2>0. pc \in [Clients -> Places]
    BY DEF TypeInv, TypeOK, GoTypes
  <2>1. CASE AssignLock(c)
    BY <2>0, <2>1 DEF AssignLock, Goto, regVars, envVars, xappVars
  <2>2. CASE FindExistingSubs(c) /\ pc'[c] = "find"
    BY <2>0, <2>2 DEF FindExistingSubs, Goto, envVars, xappVars
  <2>3. CASE AllocateSubs(c) /\ Return(c) /\ UNCHANGED subs
    BY <2>0, <2>3 DEF AllocateSubs, Return, Goto, envVars, xappVars
  <2> QED BY <2>1, <2>2, <2>3
<1>3. /\ FlagsKept(c) /\ EntriesKept /\ ~Writing(c) /\ ~Reported(c)' /\ LateFree(c)'
      /\ op'[c] = "retry" => ~Writing(c)'
  BY <1>2 DEF FlagsKept, EntriesKept, Writing, Reported, LateFree
<1>4. \A i \in told'[c] : Knows(c, i)
  BY <1>2 DEF Knows
<1> QED BY <1>1, <1>2, <1>3, <1>4, KnownOutside

\* The search adds the endpoint, or takes a new object.
LEMMA KnownJoin ==
  ASSUME Orderly, TypeInv, LockInv, IdInv, OwnInv, OwnInv', KnownInv, NEW c \in Clients,
         \/ FindExistingSubs(c) /\ pc'[c] = "merge"
         \/ AllocateSubs(c) /\ \E s \in Garbage : NewObject(c, s)
  PROVE  KnownInv'
<1>1. OthersStay(c)
  BY StayStep DEF Step
<1>2. /\ pc[c] = "find" /\ pc'[c] \in {"merge", "route"} /\ op'[c] # "retry"
      /\ UNCHANGED <<register, db, told>>
  BY DEF FindExistingSubs, AllocateSubs, NewObject, Goto, envVars, xappVars, TypeInv, TypeOK, GoTypes,
         LockInv, FindCreates
<1>3. FlagsKept(c)
  <2>1. CASE FindExistingSubs(c) /\ pc'[c] = "merge"
    <3>1. subs' = [subs EXCEPT ![cur[c]].eps = @ \cup {Endpoint[c]}]
      BY <2>1 DEF FindExistingSubs, Goto, TypeInv, TypeOK, GoTypes
    <3> QED BY <3>1 DEF FlagsKept, TypeInv, TypeOK, RegTypes, Subscription
  <2>2. ASSUME NEW s \in Garbage, NewObject(c, s) PROVE FlagsKept(c)
    <3>1. PICK q : q = NewSubscription(c, Head(subIds))
      OBVIOUS
    <3>2. subs' = [subs EXCEPT ![s] = q] /\ s \in Objects /\ s \notin Registered /\ \A d \in Clients : cur[d] # s
      BY <2>2, <3>1 DEF NewObject, Garbage
    <3>3. q.retry = FALSE
      BY <3>1 DEF NewSubscription
    <3> QED BY <3>2, <3>3 DEF FlagsKept, TypeInv, TypeOK, RegTypes
  <2> QED BY <2>1, <2>2
<1>4. EntriesKept /\ ~Writing(c) /\ ~Reported(c)' /\ LateFree(c)' /\ ~Writing(c)'
  BY <1>2 DEF EntriesKept, Writing, Reported, LateFree
<1>5. \A i \in told'[c] : Knows(c, i)
  BY <1>2 DEF Knows
<1> QED BY <1>1, <1>2, <1>3, <1>4, <1>5, KnownOutside

\* The route is made or refused; the object is registered, or the request undone.
LEMMA KnownInsert ==
  ASSUME Orderly, TypeInv, LockInv, IdInv, OwnInv, OwnInv', KnownInv, NEW c \in Clients,
         MergeLock(c) \/ RouteCreate(c) \/ AssignInsert(c)
  PROVE  KnownInv'
<1>1. OthersStay(c) /\ cur[c] \in Objects /\ AtWork(c) /\ subs[cur[c]].id \in Ids
  BY WorkStart DEF MergeLock, RouteCreate, AssignInsert, Step, AtWork
<1>2. op[c] # "retry"
  BY DEF MergeLock, RouteCreate, AssignInsert, KnownInv, LateOf
<1>3. EntriesKept
  <2>1. CASE AssignInsert(c) /\ register' # register
    <3>1. /\ c \in Allocating /\ register' = [register EXCEPT ![subs[cur[c]].id] = cur[c]]
      BY <2>1 DEF AssignInsert, Allocating
    <3>2. register[subs[cur[c]].id] = None
      BY <3>1, NewApart
    <3> QED BY <1>1, <3>1, <3>2 DEF EntriesKept, TypeInv, TypeOK, RegTypes
  <2>2. CASE UNCHANGED register
    BY <2>2 DEF EntriesKept
  <2> QED BY <2>1, <2>2 DEF MergeLock, RouteCreate, regVars
<1>4. CASE pc'[c] # "idle"
  <2>1. /\ pc'[c] \in {"route", "insert", "begin"} /\ UNCHANGED <<db, cur, op, told, subs>>
    BY <1>4 DEF MergeLock, RouteCreate, AssignInsert, Return, Goto, regVars, envVars, xappVars, TypeInv, TypeOK, GoTypes
  <2>2. AllKept /\ LateFree(c)' /\ ~Reported(c)'
    BY <1>2, <2>1, KeptSame DEF LateFree, Reported
  <2> QED BY <1>1, <1>2, <1>3, <2>1, <2>2, KnownGoesOn
<1>5. CASE pc'[c] = "idle"
  <2>1. /\ AssignInsert(c) /\ event[c] = "error" /\ UNCHANGED <<db, told>>
    BY <1>5 DEF MergeLock, RouteCreate, AssignInsert, Goto, envVars, xappVars, TypeInv, TypeOK, GoTypes
  <2>2. subs' = [subs EXCEPT ![cur[c]].eps = @ \ {Endpoint[c]}]
    BY <2>1 DEF AssignInsert, RollBack
  <2>3. FlagsKept(c)
    BY <1>1, <2>2 DEF FlagsKept, TypeInv, TypeOK, RegTypes, Subscription
  <2>4. ~Writing(c)' /\ ~Reported(c)' /\ LateFree(c)'
    BY <1>5 DEF Writing, Reported, LateFree
  <2>5. \A i \in told'[c] : Knows(c, i)
    BY <2>1 DEF Knows
  <2> QED BY <1>1, <1>2, <1>3, <2>1, <2>3, <2>4, <2>5, KnownOutside
<1> QED BY <1>4, <1>5

LEMMA KnownExchange ==
  ASSUME Orderly, TypeInv, LockInv, IdInv, OwnInv, OwnInv', KnownInv, NEW c \in Clients,
         \/ AssignPolicy(c) \/ Begin(c) \/ WaitTransactionTurn(c) \/ GetCachedResponse(c)
         \/ SendSubReq(c) /\ pc'[c] = "db_remove"
         \/ SubReqOutcome(c)
  PROVE  KnownInv'
<1>1. OthersStay(c) /\ cur[c] \in Objects /\ AtWork(c) /\ ControlOf(c)
  BY WorkStart DEF AssignPolicy, Begin, WaitTransactionTurn, GetCachedResponse, SendSubReq,
                   SubReqOutcome, Step, AtWork
<1>2. /\ pc[c] \in {"policy", "begin", "turn", "cached", "e2req", "e2wait"}
      /\ \/ pc'[c] \in {"begin", "turn", "e2req", "db_write", "db_remove", "e2del"}
         \/ pc'[c] = IF op[c] = "delete" THEN "d_check" ELSE "cached"
      /\ UNCHANGED <<register, db, cur, op, told>>
  <2>0. pc \in [Clients -> Places]
    BY DEF TypeInv, TypeOK, GoTypes
  <2>1. CASE AssignPolicy(c) \/ Begin(c) \/ WaitTransactionTurn(c)
    BY <2>0, <2>1 DEF AssignPolicy, Begin, WaitTransactionTurn, Goto, regVars, envVars, xappVars
  <2>2. CASE GetCachedResponse(c) \/ (SendSubReq(c) /\ pc'[c] = "db_remove")
    BY <2>0, <2>2 DEF GetCachedResponse, SendSubReq, Goto, regVars, envVars, xappVars
  <2>3. CASE SubReqOutcome(c)
    BY <2>0, <2>3 DEF SubReqOutcome, Goto, xappVars
  <2> QED BY <2>1, <2>2, <2>3
<1>3. AllKept
  <2>0. pc \in [Clients -> Places]
    BY DEF TypeInv, TypeOK, GoTypes
  <2>1. CASE AssignPolicy(c)
    BY <1>1, <2>1, KeptPolicy
  <2>2. CASE Begin(c)
    BY <1>1, <2>2, KeptFields DEF Begin, AddOngoing
  <2>3. CASE WaitTransactionTurn(c) \/ GetCachedResponse(c)
    BY <2>3, KeptSame DEF WaitTransactionTurn, GetCachedResponse, regVars
  <2>4. CASE SendSubReq(c) /\ pc'[c] = "db_remove"
    <3>1. subs' = SetCachedResponse(cur[c], "error", FALSE)
      BY <2>0, <2>4 DEF SendSubReq, Goto
    <3> QED BY <1>1, <3>1, KeptAnswer
  <2>5. CASE SubReqOutcome(c)
    <3>1. \E a, v : subs' = SetCachedResponse(cur[c], a, v)
      BY <2>5 DEF SubReqOutcome
    <3> QED BY <1>1, <3>1, KeptAnswer
  <2> QED BY <2>1, <2>2, <2>3, <2>4, <2>5
<1>4. /\ EntriesKept /\ ~Reported(c)' /\ LateFree(c)'
      /\ op[c] = "retry" => (Writing(c) <=> Writing(c)')
  BY <1>2 DEF EntriesKept, Reported, LateFree, Writing
<1> QED BY <1>1, <1>2, <1>3, <1>4, KnownGoesOn

LEMMA KnownDelete ==
  ASSUME Orderly, TypeInv, LockInv, IdInv, OwnInv, OwnInv', KnownInv, NEW c \in Clients,
         \/ CheckLastEndpoint(c) \/ DeleteAtNode(c) \/ SendEvent(c) \/ End(c)
         \/ RemoveLock(c) /\ pc[c] = "rm_lock"
  PROVE  KnownInv'
<1>1. OthersStay(c) /\ cur[c] \in Objects /\ AtWork(c) /\ ControlOf(c)
  BY WorkStart DEF CheckLastEndpoint, DeleteAtNode, RemoveLock, SendEvent, End, Step, AtWork
<1>2. /\ \/ pc[c] = "d_check" /\ pc'[c] \in {"d_e2", "rm_lock"}
         \/ pc[c] = "e2del" /\ pc'[c] = "db_remove"
         \/ pc[c] = "d_e2" /\ pc'[c] = "rm_lock"
         \/ pc[c] = "rm_lock" /\ pc'[c] = "rm_del"
         \/ pc[c] = "event" /\ pc'[c] = "end"
         \/ pc[c] = "end" /\ pc'[c] = "outcome"
      /\ UNCHANGED <<register, db, cur, op, event, told>>
  <2>0. pc \in [Clients -> Places]
    BY DEF TypeInv, TypeOK, GoTypes
  <2>1. CASE CheckLastEndpoint(c)
    BY <2>0, <2>1 DEF CheckLastEndpoint, Goto, envVars, xappVars
  <2>2. CASE DeleteAtNode(c)
    BY <1>1, <2>0, <2>2 DEF DeleteAtNode, Goto, regVars, xappVars, ControlOf
  <2>3. CASE RemoveLock(c) /\ pc[c] = "rm_lock"
    BY <2>0, <2>3 DEF RemoveLock, Goto, regVars, envVars, xappVars
  <2>4. CASE SendEvent(c) \/ End(c)
    BY <2>0, <2>4 DEF SendEvent, End, Goto, regVars, envVars, xappVars
  <2> QED BY <2>1, <2>2, <2>3, <2>4
<1>3. AllKept
  <2>1. CASE CheckLastEndpoint(c)
    BY <1>1, <2>1, KeptFields DEF CheckLastEndpoint
  <2>2. CASE DeleteAtNode(c) \/ RemoveLock(c) \/ SendEvent(c)
    BY <2>2, KeptSame DEF DeleteAtNode, RemoveLock, SendEvent, regVars
  <2>3. CASE End(c)
    BY <1>1, <2>3, KeptFields DEF End, AddOngoing
  <2> QED BY <2>1, <2>2, <2>3
<1>4. /\ EntriesKept /\ (Reported(c)' => Reported(c)) /\ LateFree(c)'
      /\ Writing(c) <=> Writing(c)'
  BY <1>1, <1>2 DEF EntriesKept, Reported, LateFree, Writing, ControlOf
<1> QED BY <1>1, <1>2, <1>3, <1>4, KnownGoesOn

LEMMA KnownReport ==
  ASSUME Orderly, TypeInv, LockInv, IdInv, OwnInv, OwnInv', KnownInv, NEW c \in Clients,
         \/ Outcome(c) \/ Done(c) \/ RemoveEndpoint(c)
         \/ RemoveLock(c) /\ pc[c] # "rm_lock"
  PROVE  KnownInv'
<1>1. OthersStay(c) /\ cur[c] \in Objects /\ ControlOf(c) /\ WorkOf(c, cur[c]) /\ e2 = "up"
  BY WorkStart DEF Outcome, Done, RemoveLock, RemoveEndpoint, Step, AtWork
<1>2. pc \in [Clients -> Places] /\ op \in [Clients -> Operations] /\ event \in [Clients -> Answers]
  BY DEF TypeInv, TypeOK, GoTypes
<1>3. LateOf(c) /\ told \in [Clients -> SUBSET Ids]
  BY DEF KnownInv, TypeInv, TypeOK, XappTypes
<1>4. /\ pc[c] \in {"outcome", "p_lock", "p_del", "rm_del", "done"}
      /\ pc'[c] \in {"idle", "p_lock", "p_del", "rm_clean", "event", "done"}
      /\ LateFree(c)' /\ ~Reported(c)'
      /\ UNCHANGED <<register, db>>
      /\ \A i \in told'[c] : Knows(c, i)
  <2>1. CASE Outcome(c)
    BY <1>1, <1>2, <1>3, <2>1 DEF Outcome, Return, Goto, regVars, envVars, IsE2ConnectionUp, LateFree, Reported, Knows
  <2>2. CASE Done(c)
    BY <1>2, <1>3, <2>2 DEF Done, Return, Goto, regVars, xappVars, LateOf, LateFree, Reported, Knows
  <2>3. CASE RemoveLock(c) /\ pc[c] # "rm_lock"
    BY <1>2, <1>3, <2>3 DEF RemoveLock, Goto, regVars, envVars, xappVars, LateOf, LateFree, Reported, Knows
  <2>4. CASE RemoveEndpoint(c)
    <3>1. pc[c] = "p_del" => ~DelStatus(cur[c], c)
      BY <1>1 DEF WorkOf, Gone, DelStatus
    <3> QED BY <1>1, <1>2, <1>3, <2>4, <3>1 DEF RemoveEndpoint, Goto, envVars, xappVars, ControlOf, LateOf, LateFree, Reported, Knows
  <2> QED BY <2>1, <2>2, <2>3, <2>4
<1>5. FlagsKept(c)
  <2>1. UNCHANGED subs \/ subs' = [subs EXCEPT ![cur[c]].eps = @ \ {Endpoint[c]}]
    BY DEF Outcome, Done, RemoveLock, RemoveEndpoint, regVars
  <2>2. CASE UNCHANGED subs
    BY <2>2 DEF FlagsKept
  <2>3. CASE subs' = [subs EXCEPT ![cur[c]].eps = @ \ {Endpoint[c]}]
    BY <1>1, <2>3 DEF FlagsKept, TypeInv, TypeOK, RegTypes, Subscription
  <2> QED BY <2>1, <2>2, <2>3
<1>6. EntriesKept /\ ~Writing(c) /\ ~Writing(c)'
  BY <1>4 DEF EntriesKept, Writing
<1> QED BY <1>1, <1>4, <1>5, <1>6, KnownOutside

\* What KnownObject says, of the next state.
KnownAt(c, i) ==
  /\ register[i] \in Objects /\ register[i] \in Registered /\ subs[register[i]].id = i
  /\ Suits(c, register[i]) /\ Endpoint[c] \in subs[register[i]].eps
  /\ subs[register[i]].valid /\ i \in node
  /\ subs[register[i]].answer = "resp" \/ (subs[register[i]].update /\ c \in Policy)

KnownStates == TypeInv /\ IdInv /\ OwnInv => \A c \in Clients, i \in Ids : Knows(c, i) => KnownAt(c, i)

LEMMA KnownNext ==
  ASSUME Orderly
  PROVE  KnownStates'
<1>1. KnownStates
  BY KnownObject DEF KnownStates, KnownAt
<1> QED BY <1>1, PTL

\* The fields of a record that is written.
LEMMA WrittenFields ==
  ASSUME TypeInv, NEW s \in Objects, NEW h \in Ids, h = subs[s].id, db' = WriteSubscriptionToDb(s)
  PROVE  /\ db'[h] # None /\ db'[h].eps = subs[s].eps /\ db'[h].content = subs[s].content
         /\ db'[h].policy = subs[s].policy /\ db'[h].valid = subs[s].valid
         /\ db'[h].rcvd = (subs[s].answer = "resp") /\ db'[h].update = subs[s].update
<1>1. PICK q : q = Info(s)
  OBVIOUS
<1>2. /\ q.eps = subs[s].eps /\ q.content = subs[s].content /\ q.policy = subs[s].policy
      /\ q.valid = subs[s].valid /\ q.rcvd = (subs[s].answer = "resp") /\ q.update = subs[s].update
  BY <1>1 DEF Info
<1>3. db'[h] = q /\ db'[h] # None
  BY <1>1, Written DEF WriteSubscriptionToDb, TypeInv, TypeOK, EnvTypes
<1> QED BY <1>2, <1>3

\* It is good for every client that knows of the subscription.
LEMMA WrittenGood ==
  ASSUME Orderly, TypeInv, TypeInv', IdInv', OwnInv', NEW s \in Objects, NEW h \in Ids,
         h = subs[s].id, register[h] = s, UNCHANGED <<subs, register>>,
         db' = WriteSubscriptionToDb(s), NEW d \in Clients, Knows(d, h)'
  PROVE  GoodRecord(d, h)'
<1>1. KnownAt(d, h)'
  BY KnownNext DEF KnownStates
<1>2. PICK q : q = db'[h]
  OBVIOUS
<1>3. PICK r : r = subs[s]
  OBVIOUS
<1>4. /\ q # None /\ q.eps = r.eps /\ q.content = r.content /\ q.policy = r.policy
      /\ q.valid = r.valid /\ q.rcvd = (r.answer = "resp") /\ q.update = r.update
  BY <1>2, <1>3, WrittenFields
<1>5. /\ r.content = Content[d] /\ (r.policy <=> d \in Policy) /\ Endpoint[d] \in r.eps /\ r.valid
      /\ r.answer = "resp" \/ (r.update /\ d \in Policy)
  BY <1>1, <1>3 DEF KnownAt, Suits
<1>6. /\ q # None /\ Endpoint[d] \in q.eps /\ q.content = Content[d] /\ (q.policy <=> d \in Policy)
      /\ q.valid /\ (q.rcvd \/ (q.update /\ d \in Policy))
  BY <1>4, <1>5, Zenon
<1> QED BY <1>2, <1>6 DEF GoodRecord

\* The search finds the endpoint in the list: its client is the one that was
\* told of it.
LEMMA KnownRetry ==
  ASSUME Orderly, TypeInv, LockInv, IdInv, OwnInv, OwnInv', KnownInv, NEW c \in Clients,
         FindExistingSubs(c), pc'[c] = "begin"
  PROVE  KnownInv'
<1>1. OthersStay(c)
  BY StayStep DEF Step
<1>2. PICK s \in Objects : s = cur[c]
  BY DEF FindExistingSubs, TypeInv, TypeOK, GoTypes
<1>3. s \in Registered
  BY <1>2, NoneAssumption DEF IdInv, FoundRegistered, FindExistingSubs
<1>4. PICK h \in Ids : h = subs[s].id /\ register[h] = s
  BY <1>3, Filed
<1>5. /\ pc[c] = "find" /\ op'[c] = "retry" /\ cur'[c] = s
      /\ IsMergeable(s, c) /\ Endpoint[c] \in subs[s].eps
      /\ subs' = [subs EXCEPT ![s].retry = TRUE]
      /\ UNCHANGED <<register, db, told>>
  BY <1>2 DEF FindExistingSubs, Goto, envVars, xappVars, TypeInv, TypeOK, GoTypes
<1>6. /\ \A o \in Objects : subs'[o].id = subs[o].id
      /\ \A o \in Objects \ {s} : subs'[o].retry = subs[o].retry
  BY <1>5 DEF TypeInv, TypeOK, RegTypes, Subscription
<1>7. Suits(c, s)
  BY <1>5 DEF IsMergeable, Suits
<1>8. h \in told[c]
  <2>1. PICK y \in Clients : Endpoint[y] = Endpoint[c] /\ Owns(y, s)
    BY <1>5 DEF OwnInv, Owned
  <2>2. CASE cur[y] = s /\ (Listed(y) \/ Succeeding(y))
    <3>1. AtWork(y) /\ y # c
      BY <1>5, <2>2 DEF Listed, Succeeding, AtWork
    <3>2. Suits(y, s)
      BY <2>2, <3>1 DEF OwnInv, Working, WorkOf
    <3> QED BY <1>7, <2>1, <3>1, <3>2, Apart
  <2>3. CASE h \in told[y]
    <3>1. Suits(y, s)
      BY <1>4, <2>3, ToldObject
    <3> QED BY <1>7, <2>1, <2>3, <3>1, Apart
  <2> QED BY <1>4, <2>1, <2>2, <2>3 DEF Owns
<1>9. Repeats(c, s)' /\ ~Repeats(c, s) /\ ~Reported(c)' /\ LateOf(c)'
  BY <1>5, LateKept DEF Repeats, Writing, Reported, LateFree
<1>10. RepeatFlag(s)' /\ RepeatOf(c)'
  BY <1>4, <1>5, <1>6, <1>8, <1>9 DEF RepeatFlag, RepeatOf
<1>11. ASSUME NEW d \in Clients, Knows(d, h)' PROVE GoodRecord(d, h)' \/ RepeatDue(register[h])'
  <2>1. Knows(d, h)
    <3>1. CASE d = c
      BY <1>5, <1>8, <3>1 DEF Knows
    <3>2. CASE d # c
      <4>1. Reported(d) => subs'[cur[d]].id = subs[cur[d]].id
        BY <1>6, AtObject DEF Reported, AtWork
      <4> QED BY <1>1, <1>11, <3>2, <4>1, OthersKnow DEF Knows
    <3> QED BY <3>1, <3>2
  <2>2. CASE GoodRecord(d, h)
    BY <1>5, <2>2 DEF GoodRecord
  <2>3. CASE RepeatDue(s)
    <3>1. PICK x \in Clients : Repeats(x, s)
      BY <2>3 DEF RepeatDue
    <3>2. x # c /\ Repeats(x, s)'
      BY <1>1, <1>9, <3>1, OthersKnow
    <3> QED BY <1>4, <1>5, <1>9, <3>2 DEF RepeatDue
  <2> QED BY <1>4, <2>1, <2>2, <2>3 DEF KnownInv, KnownOf
<1>12. \A i \in Ids \ {h} : Knows(c, i)' => Knows(c, i)
  BY <1>5, <1>9 DEF Knows
<1> QED BY <1>1, <1>2, <1>4, <1>5, <1>6, <1>9, <1>10, <1>11, <1>12, KnownChange

\* The record is written, before the request is sent or when it has been
\* answered, or the flag for repeated requests is cleared instead.
LEMMA KnownStore ==
  ASSUME Orderly, TypeInv, TypeInv', LockInv, IdInv, IdInv', OwnInv, OwnInv', KnownInv,
         NEW c \in Clients,
         UpdateSubscriptionInDB(c) \/ (SendSubReq(c) /\ pc'[c] # "db_remove")
  PROVE  KnownInv'
<1>1. /\ OthersStay(c) /\ cur[c] \in Objects /\ WorkOf(c, cur[c]) /\ subs[cur[c]].id \in Ids
      /\ ControlOf(c)
  BY WorkStart DEF UpdateSubscriptionInDB, SendSubReq, Step, AtWork
<1>2. PICK s \in Objects : s = cur[c]
  BY <1>1
<1>3. PICK h \in Ids : h = subs[s].id
  BY <1>1, <1>2
<1>4. /\ pc[c] \in {"e2req", "db_write"} /\ UNCHANGED <<register, cur, op, told>>
      /\ \/ /\ pc'[c] = "e2wait" /\ pc[c] = "e2req" /\ db' = WriteSubscriptionToDb(s) /\ UNCHANGED subs
         \/ /\ pc'[c] = "event" /\ pc[c] = "db_write" /\ db' = WriteSubscriptionToDb(s)
            /\ UNCHANGED subs /\ ~subs[s].retry
         \/ /\ pc'[c] = "event" /\ pc[c] = "db_write" /\ UNCHANGED db
            /\ subs' = [subs EXCEPT ![s].retry = FALSE] /\ subs[s].retry
  <2>0. pc \in [Clients -> Places]
    BY DEF TypeInv, TypeOK, GoTypes
  <2>1. CASE UpdateSubscriptionInDB(c)
    BY <1>2, <2>0, <2>1 DEF UpdateSubscriptionInDB, Goto, Orderly, xappVars
  <2>2. CASE SendSubReq(c) /\ pc'[c] # "db_remove"
    BY <1>2, <2>0, <2>2 DEF SendSubReq, Goto, xappVars
  <2> QED BY <2>1, <2>2
<1>5. /\ \A o \in Objects : subs'[o].id = subs[o].id
      /\ \A o \in Objects \ {s} : subs'[o].retry = subs[o].retry
  <2>1. CASE UNCHANGED subs
    BY <2>1
  <2>2. CASE subs' = [subs EXCEPT ![s].retry = FALSE]
    BY <2>2 DEF TypeInv, TypeOK, RegTypes, Subscription
  <2> QED BY <1>4, <2>1, <2>2
<1>6. \A i \in Ids \ {h} : db'[i] = db[i]
  BY <1>3, <1>4, Written
<1>7. register[h] = s
  BY <1>1, <1>2, <1>3, <1>4, Home DEF WorkOf, Listed, Allocating
<1>8. \A i \in Ids \ {h} : Knows(c, i)' => Knows(c, i)
  BY <1>2, <1>3, <1>4, <1>5 DEF Knows
<1>9. LateOf(c)' /\ ~Reported(c)
  BY <1>4, LateKept DEF LateFree, Reported
<1>10. RepeatOf(c)'
  BY <1>2, <1>4, <1>5 DEF RepeatOf, Writing, KnownInv
<1>11. \A x \in Clients \ {c} : Repeats(x, s)' <=> Repeats(x, s)
  BY <1>1, OthersKnow
<1>12. CASE db' = WriteSubscriptionToDb(s) /\ UNCHANGED subs
  <2>1. RepeatFlag(s)'
    <3>1. CASE pc'[c] = "e2wait"
      <4>1. Repeats(c, s) => Repeats(c, s)'
        BY <1>4, <3>1 DEF Repeats, Writing
      <4> QED BY <1>11, <1>12, <4>1 DEF RepeatFlag, KnownInv
    <3>2. CASE ~subs[s].retry
      BY <1>12, <3>2 DEF RepeatFlag
    <3>3. CASE UNCHANGED db /\ subs' = [subs EXCEPT ![s].retry = FALSE] /\ subs[s].retry
      <4>1. subs'[s].retry = FALSE
        BY <3>3 DEF TypeInv, TypeOK, RegTypes, Subscription
      <4> QED BY <4>1 DEF RepeatFlag
    <3> QED BY <1>4, <3>1, <3>2, <3>3
  <2>2. \A d \in Clients : Knows(d, h)' => GoodRecord(d, h)'
    BY <1>3, <1>4, <1>7, <1>12, WrittenGood
  <2> QED BY <1>1, <1>2, <1>3, <1>4, <1>5, <1>6, <1>7, <1>8, <1>9, <1>10, <2>1, <2>2, KnownChange
<1>13. CASE UNCHANGED db /\ subs' = [subs EXCEPT ![s].retry = FALSE] /\ subs[s].retry
  <2>1. ~subs'[s].retry
    BY <1>13 DEF TypeInv, TypeOK, RegTypes, Subscription
  <2>2. RepeatFlag(s)'
    BY <2>1 DEF RepeatFlag
  <2>3. CASE \E x \in Clients \ {c} : Repeats(x, s)
    <3>1. RepeatDue(register[h])'
      BY <1>4, <1>7, <1>11, <2>1, <2>3 DEF RepeatDue
    <3> QED BY <1>1, <1>2, <1>3, <1>4, <1>5, <1>6, <1>7, <1>8, <1>9, <1>10, <2>2, <3>1, KnownChange
  <2>4. CASE \A x \in Clients \ {c} : ~Repeats(x, s)
    <3>1. Repeats(c, s)
      BY <1>13, <2>4 DEF KnownInv, RepeatFlag
    <3>2. h \in told[c]
      BY <1>2, <1>3, <3>1 DEF KnownInv, RepeatOf, Repeats
    <3>3. ASSUME NEW d \in Clients, Knows(d, h)' PROVE GoodRecord(d, h)'
      <4>1. Knows(d, h)
        <5>1. CASE d = c
          BY <3>2, <5>1 DEF Knows
        <5>2. CASE d # c
          <6>1. Reported(d) => subs'[cur[d]].id = subs[cur[d]].id
            BY <1>5, AtObject DEF Reported, AtWork
          <6> QED BY <1>1, <3>3, <5>2, <6>1, OthersKnow DEF Knows
        <5> QED BY <5>1, <5>2
      <4>2. ~RepeatDue(s)
        BY <1>13, <2>4 DEF RepeatDue
      <4>3. GoodRecord(d, h)
        BY <1>7, <4>1, <4>2 DEF KnownInv, KnownOf
      <4> QED BY <1>13, <4>3 DEF GoodRecord
    <3> QED BY <1>1, <1>2, <1>3, <1>4, <1>5, <1>6, <1>7, <1>8, <1>9, <1>10, <2>2, <3>3, KnownChange
  <2> QED BY <2>3, <2>4
<1> QED BY <1>4, <1>12, <1>13

\* Nobody knows of a subscription whose record is erased.
LEMMA KnownErase ==
  ASSUME Orderly, TypeInv, TypeInv', LockInv, IdInv, IdInv', OwnInv, OwnInv', KnownInv,
         NEW c \in Clients, RemoveSubscriptionFromDb(c)
  PROVE  KnownInv'
<1>1. /\ OthersStay(c) /\ cur[c] \in Objects /\ WorkOf(c, cur[c]) /\ subs[cur[c]].id \in Ids
  BY WorkStart DEF RemoveSubscriptionFromDb, Step, AtWork
<1>2. PICK s \in Objects : s = cur[c]
  BY <1>1
<1>3. PICK h \in Ids : h = subs[s].id
  BY <1>1, <1>2
<1>4. /\ pc[c] = "db_remove" /\ pc'[c] = "rm_lock" /\ UNCHANGED <<register, cur, told>>
      /\ db' = [db EXCEPT ![h] = None] /\ subs' = [subs EXCEPT ![s].retry = FALSE]
  BY <1>2, <1>3 DEF RemoveSubscriptionFromDb, WithoutRecord, MayFail, Orderly, Goto, xappVars,
                    TypeInv, TypeOK, GoTypes
<1>5. /\ \A o \in Objects : subs'[o].id = subs[o].id
      /\ \A o \in Objects \ {s} : subs'[o].retry = subs[o].retry
      /\ ~subs'[s].retry /\ subs'[s].valid = subs[s].valid
  BY <1>4 DEF TypeInv, TypeOK, RegTypes, Subscription
<1>6. \A i \in Ids \ {h} : db'[i] = db[i]
  BY <1>4 DEF TypeInv, TypeOK, EnvTypes
<1>7. register[h] = s
  BY <1>1, <1>2, <1>3, <1>4, Home DEF WorkOf, Listed, Allocating
<1>8. \A d \in Clients : ~Knows(d, h)'
  <2>1. ~subs'[register'[h]].valid
    BY <1>1, <1>2, <1>4, <1>5, <1>7 DEF WorkOf, Failing
  <2> QED BY <2>1, KnownNext DEF KnownStates, KnownAt
<1>9. LateOf(c)' /\ RepeatOf(c)' /\ RepeatFlag(s)' /\ ~Reported(c)'
  BY <1>4, <1>5, LateKept DEF LateFree, RepeatOf, Writing, RepeatFlag, Reported
<1>10. \A i \in Ids \ {h} : Knows(c, i)' => Knows(c, i)
  BY <1>4, <1>9 DEF Knows
<1> QED BY <1>1, <1>2, <1>3, <1>4, <1>5, <1>6, <1>7, <1>8, <1>9, <1>10, KnownChange

\* The record of what is left is written, or the subscription ends.
LEMMA KnownClean ==
  ASSUME Orderly, TypeInv, TypeInv', LockInv, IdInv, IdInv', OwnInv, OwnInv', KnownInv,
         NEW c \in Clients, RemoveClean(c)
  PROVE  KnownInv'
<1>1. /\ OthersStay(c) /\ cur[c] \in Objects /\ subs[cur[c]].id \in Ids /\ ControlOf(c)
  BY WorkStart DEF RemoveClean, Step, AtWork
<1>2. PICK s \in Objects : s = cur[c]
  BY <1>1
<1>3. PICK h \in Ids : h = subs[s].id
  BY <1>1, <1>2
<1>4. /\ pc[c] = "rm_clean" /\ pc'[c] = "event" /\ UNCHANGED <<subs, cur, op, event, told>>
  BY <1>1 DEF RemoveClean, ControlOf, Goto, xappVars, TypeInv, TypeOK, GoTypes
<1>5. register[h] = s
  BY <1>2, <1>3, <1>4 DEF IdInv, CleaningRegistered, Cleaning
<1>6. LateOf(c)' /\ RepeatOf(c)' /\ ~Reported(c)'
  BY <1>1, <1>4, LateKept DEF LateFree, RepeatOf, Writing, Reported, ControlOf
<1>7. RepeatFlag(s)'
  <2>1. ~Repeats(c, s)
    BY <1>4 DEF Repeats, Writing
  <2>2. \A x \in Clients \ {c} : Repeats(x, s)' <=> Repeats(x, s)
    BY <1>1, OthersKnow
  <2> QED BY <1>4, <2>1, <2>2 DEF KnownInv, RepeatFlag
<1>8. \A i \in Ids \ {h} : Knows(c, i)' => Knows(c, i)
  BY <1>4, <1>6 DEF Knows
<1>9. CASE subs[s].eps = {}
  <2>1. db' = [db EXCEPT ![h] = None] /\ register' = [register EXCEPT ![h] = None]
    BY <1>2, <1>3, <1>9 DEF RemoveClean, WithoutRecord, MayFail, Orderly
  <2>2. /\ register'[h] = None
        /\ \A i \in Ids \ {h} : register'[i] = register[i] /\ db'[i] = db[i]
    BY <2>1 DEF TypeInv, TypeOK, EnvTypes, RegTypes
  <2>3. \A d \in Clients : ~Knows(d, h)'
    BY <2>2, KnownNext, NoneAssumption DEF KnownStates, KnownAt
  <2> QED BY <1>1, <1>2, <1>3, <1>4, <1>5, <1>6, <1>7, <1>8, <2>2, <2>3, KnownChange
<1>10. CASE subs[s].eps # {}
  <2>1. db' = WriteSubscriptionToDb(s) /\ UNCHANGED register
    BY <1>2, <1>3, <1>10 DEF RemoveClean, MayFail, Orderly
  <2>2. \A d \in Clients : Knows(d, h)' => GoodRecord(d, h)'
    BY <1>3, <1>4, <1>5, <2>1, WrittenGood
  <2>3. \A i \in Ids \ {h} : db'[i] = db[i]
    BY <1>3, <2>1, Written
  <2> QED BY <1>1, <1>2, <1>3, <1>4, <1>5, <1>6, <1>7, <1>8, <2>1, <2>2, <2>3, KnownChange
<1> QED BY <1>9, <1>10

LEMMA KnownInit == Init => KnownInv
<1> SUFFICES ASSUME Init PROVE KnownInv
  OBVIOUS
<1>1. \A s \in Objects : RepeatFlag(s)
  BY DEF Init, Unused, RepeatFlag
<1>2. \A c \in Clients : LateOf(c) /\ RepeatOf(c) /\ KnownOf(c)
  BY DEF Init, LateOf, RepeatOf, Writing, KnownOf, Knows, Reported
<1> QED BY <1>1, <1>2 DEF KnownInv

LEMMA KnownSame ==
  ASSUME KnownInv, UNCHANGED <<register, db, subs, pc, op, cur, event, told>>
  PROVE  KnownInv'
BY DEF KnownInv, RepeatFlag, Repeats, Writing, LateOf, RepeatOf, KnownOf, Knows, Reported,
       GoodRecord, RepeatDue

LEMMA KnownStep ==
  ASSUME Orderly, TypeInv, TypeInv', LockInv, IdInv, IdInv', OwnInv, OwnInv', KnownInv, [Next]_vars
  PROVE  KnownInv'
<1>1. CASE UNCHANGED vars
  BY <1>1, KnownSame DEF vars, regVars, goVars, envVars, xappVars
<1>2. ASSUME NEW c \in Clients, Step(c)
      PROVE  KnownInv'
  <2>0. pc \in [Clients -> Places]
    BY DEF TypeInv, TypeOK, GoTypes
  <2>1. CASE FindExistingSubs(c)
    <3>1. pc'[c] \in {"find", "begin", "merge"}
      BY <2>0, <2>1 DEF FindExistingSubs, Goto
    <3> QED BY <2>1, <3>1, KnownSearch, KnownRetry, KnownJoin
  <2>2. CASE AllocateSubs(c)
    BY <2>2, AllocateCases, KnownSearch, KnownJoin
  <2>3. CASE SendSubReq(c)
    BY <2>3, KnownExchange, KnownStore
  <2>4. CASE RemoveLock(c)
    BY <2>4, KnownDelete, KnownReport
  <2>5. ~RemoveWake(c)
    BY DEF RemoveWake, OwnInv, Control, ControlOf
  <2>6. CASE AssignLock(c) \/ MergeLock(c) \/ RouteCreate(c) \/ AssignInsert(c)
    BY <2>6, KnownSearch, KnownInsert
  <2>7. CASE \/ AssignPolicy(c) \/ Begin(c) \/ WaitTransactionTurn(c) \/ GetCachedResponse(c)
             \/ SubReqOutcome(c)
    BY <2>7, KnownExchange
  <2>8. CASE CheckLastEndpoint(c) \/ DeleteAtNode(c) \/ SendEvent(c) \/ End(c)
    BY <2>8, KnownDelete
  <2>9. CASE Outcome(c) \/ RemoveEndpoint(c) \/ Done(c)
    BY <2>9, KnownReport
  <2>10. CASE UpdateSubscriptionInDB(c) \/ RemoveSubscriptionFromDb(c) \/ RemoveClean(c)
    BY <2>10, KnownStore, KnownErase, KnownClean
  <2> QED BY <1>2, <2>1, <2>2, <2>3, <2>4, <2>5, <2>6, <2>7, <2>8, <2>9, <2>10 DEF Step
<1>3. ASSUME NEW c \in Clients, StartCreate(c) \/ \E i \in Ids : StartDelete(c, i)
      PROVE  KnownInv'
  BY <1>3, KnownStart
<1>4. ASSUME NEW s \in Objects, ReleaseTransactionTurn(s) PROVE KnownInv'
  BY <1>4, KnownSame DEF ReleaseTransactionTurn, regVars, goVars, envVars, xappVars
<1>5. ~Sweep /\ ~E2Connect /\ \A kind : ~E2Break(kind)
  <2>1. sweep = NoSweep
    BY DEF IdInv
  <2>2. ~Sweep
    BY <2>1 DEF NoSweep, Sweep, SweepVisit, SweepRoutes, SweepDelete, SweepReturn, SweepRecord,
                SweepEnd
  <2> QED BY <2>2 DEF E2Break, E2Connect, OwnInv, Orderly
<1> QED BY <1>1, <1>2, <1>3, <1>4, <1>5 DEF Next

-----------------------------------------------------------------------------
(* A success that was told before the first restart *)

\* No E2 connection has broken, and the requests are where LateOf says.
Calm ==
  /\ e2 = "up" /\ sweep = NoSweep /\ events = 0
  /\ \A c \in Clients : LateOf(c)

\* Client d may have been told of the subscription of client c.
Fellow(d, c) ==
  /\ Content[d] = Content[c]
  /\ d \in Policy <=> c \in Policy
  /\ c \in Policy => d = c

\* Client d, at work on the subscription of client c, cannot end it.
Harmless(d, c) ==
  /\ d # c /\ Content[d] = Content[c] /\ c \notin Policy /\ d \notin Policy
  /\ pc[d] \notin {"policy", "e2req", "e2wait", "e2del", "undo", "d_e2", "db_remove"}

\* The object s is that of a success of client c.  HandleUncompletedSubscriptions
\* leaves it alone.
HeldObject(c, s) ==
  /\ Suits(c, s) /\ subs[s].valid /\ Endpoint[c] \in subs[s].eps
  /\ subs[s].answer = "resp" \/ (subs[s].update /\ c \in Policy)
  /\ clean.obj # s
  /\ \A d \in Clients : cur[d] = s /\ AtWork(d) => Harmless(d, c)

\* The id i client c was told of is on record, at the E2 node and, once the
\* record has been read, registered.
HeldOf(c, i) ==
  /\ GoodRecord(c, i) /\ i \in node
  /\ \A d \in Clients : i \in told[d] => Fellow(d, c)
  /\ \A o \in Objects : subs[o].id = i => register[i] = o
  /\ register[i] # None => HeldObject(c, register[i])
  /\ up => register[i] # None
  /\ pc[c] \notin {"assign", "find"}

HeldInv ==
  /\ Calm
  /\ restarts \in Nat /\ held \in [Clients -> SUBSET Ids]
  /\ restarts = 0 => up /\ clean = Idle /\ OwnInv /\ KnownInv /\ \A c \in Clients : held[c] = {}
  /\ \A c \in Clients : \A i \in held[c] : HeldOf(c, i)

\* The requests stay where LateOf says.
LEMMA LateStart ==
  ASSUME TypeInv, NEW c \in Clients, LateOf(c), StartCreate(c) \/ \E i \in Ids : StartDelete(c, i)
  PROVE  LateOf(c)'
BY DEF StartCreate, StartDelete, Goto, goVars, TypeInv, TypeOK, GoTypes, LateOf

LEMMA LateStep ==
  ASSUME Orderly, TypeInv, LockInv, e2 = "up", NEW c \in Clients, LateOf(c), Step(c)
  PROVE  LateOf(c)'
<1>1. pc \in [Clients -> Places] /\ op \in [Clients -> Operations] /\ event \in [Clients -> Answers]
  BY DEF TypeInv, TypeOK, GoTypes
<1> USE <1>1 DEF LateOf, Goto, Return
<1>2. CASE AssignLock(c) \/ AssignPolicy(c)
  BY <1>2 DEF AssignLock, AssignPolicy
<1>3. CASE FindExistingSubs(c) \/ MergeLock(c)
  BY <1>3 DEF FindExistingSubs, MergeLock
<1>4. CASE AllocateSubs(c)
  <2>1. (Return(c) \/ (Goto(c, "route") /\ UNCHANGED op)) /\ pc[c] = "find"
    BY <1>4 DEF AllocateSubs
  <2> QED BY <2>1 DEF LockInv, FindCreates
<1>5. CASE RouteCreate(c) \/ AssignInsert(c)
  BY <1>5 DEF RouteCreate, AssignInsert
<1>6. CASE Begin(c) \/ WaitTransactionTurn(c) \/ GetCachedResponse(c)
  BY <1>6 DEF Begin, WaitTransactionTurn, GetCachedResponse
<1>7. CASE SendSubReq(c) \/ SubReqOutcome(c)
  BY <1>7 DEF SendSubReq, SubReqOutcome
<1>8. CASE CheckLastEndpoint(c) \/ DeleteAtNode(c)
  BY <1>8 DEF CheckLastEndpoint, DeleteAtNode
<1>9. CASE UpdateSubscriptionInDB(c) \/ RemoveSubscriptionFromDb(c)
  BY <1>9 DEF UpdateSubscriptionInDB, RemoveSubscriptionFromDb, Orderly
<1>10. CASE SendEvent(c) \/ End(c)
  BY <1>10 DEF SendEvent, End
<1>11. CASE Outcome(c)
  BY <1>11 DEF Outcome, IsE2ConnectionUp
<1>12. CASE RemoveLock(c) \/ RemoveEndpoint(c)
  BY <1>12 DEF RemoveLock, RemoveEndpoint
<1>13. CASE RemoveWake(c) \/ RemoveClean(c) \/ Done(c)
  BY <1>13 DEF RemoveWake, RemoveClean, Done
<1> QED BY <1>2, <1>3, <1>4, <1>5, <1>6, <1>7, <1>8, <1>9, <1>10, <1>11, <1>12, <1>13 DEF Step

\* Only goroutines of requests take steps.
LEMMA CalmNext ==
  ASSUME Orderly, Calm, Next
  PROVE  \/ \E c \in Clients : StartCreate(c) \/ Step(c) \/ \E i \in Ids : StartDelete(c, i)
         \/ \E s \in Objects : ReleaseTransactionTurn(s)
<1>1. ~Sweep /\ ~E2Connect /\ \A kind : ~E2Break(kind)
  <2>1. ~Sweep
    BY DEF Calm, NoSweep, Sweep, SweepVisit, SweepRoutes, SweepDelete, SweepReturn, SweepRecord,
           SweepEnd
  <2> QED BY <2>1 DEF Calm, E2Break, E2Connect, Orderly
<1> QED BY <1>1 DEF Next

LEMMA SweepKept ==
  ASSUME NEW c \in Clients, StartCreate(c) \/ Step(c) \/ \E i \in Ids : StartDelete(c, i)
  PROVE  UNCHANGED <<e2, sweep, events>>
BY DEF StartCreate, StartDelete, Step, AssignLock, AssignPolicy, FindExistingSubs,
     MergeLock, AllocateSubs, RouteCreate, AssignInsert, Begin, WaitTransactionTurn, GetCachedResponse,
     SendSubReq, SubReqOutcome, CheckLastEndpoint, DeleteAtNode, UpdateSubscriptionInDB,
     RemoveSubscriptionFromDb, SendEvent, End, Outcome, RemoveLock, RemoveEndpoint,
     RemoveWake, RemoveClean, Done, e2Vars

LEMMA CalmStep ==
  ASSUME Orderly, TypeInv, LockInv, Calm, Next
  PROVE  Calm'
<1>1. ASSUME NEW c \in Clients, StartCreate(c) \/ Step(c) \/ \E i \in Ids : StartDelete(c, i)
      PROVE  Calm'
  <2>1. UNCHANGED <<e2, sweep, events>>
    BY <1>1, SweepKept
  <2>2. OthersStay(c)
    BY <1>1, StayStart, StayStep
  <2>3. \A d \in Clients \ {c} : LateOf(d)'
    BY <2>2, OthersKnow DEF Calm
  <2>4. LateOf(c)'
    BY <1>1, LateStart, LateStep DEF Calm
  <2> QED BY <2>1, <2>3, <2>4 DEF Calm
<1>2. ASSUME NEW s \in Objects, ReleaseTransactionTurn(s) PROVE Calm'
  BY <1>2 DEF ReleaseTransactionTurn, goVars, e2Vars, Calm, LateOf
<1> QED BY <1>1, <1>2, CalmNext

-----------------------------------------------------------------------------
(* The steps of other requests, and of those on other objects *)

\* What a goroutine at work on t, with the id h, leaves alone.
OnlyOf(d, t, h) ==
  /\ \A o \in Objects \ {t} : subs'[o] = subs[o]
  /\ subs'[t].id = h
  /\ \A j \in Ids \ {h} : /\ register'[j] = register[j] /\ db'[j] = db[j]
                          /\ j \in node => j \in node'
                          /\ j \in told'[d] => j \in told[d]
  /\ cur'[d] \in {t, None}
  /\ pc'[d] \notin {"assign", "find"}

\* The object of the goroutine is the only one that changes, and keeps its id.
LEMMA OneObject ==
  ASSUME TypeInv, NEW t \in Objects, NEW v, NEW w,
         \/ subs' = subs
         \/ subs' = [subs EXCEPT ![t].eps = v]
         \/ subs' = [subs EXCEPT ![t].valid = v]
         \/ subs' = [subs EXCEPT ![t].retry = v]
         \/ subs' = [subs EXCEPT ![t].req = v]
         \/ subs' = [subs EXCEPT ![t].del = v]
         \/ subs' = SetCachedResponse(t, v, w)
  PROVE  (\A o \in Objects \ {t} : subs'[o] = subs[o]) /\ subs'[t].id = subs[t].id
<1>1. subs \in [Objects -> Subscription]
  BY DEF TypeInv, TypeOK, RegTypes
<1>2. CASE subs' = subs \/ subs' = [subs EXCEPT ![t].eps = v] \/ subs' = [subs EXCEPT ![t].valid = v]
  BY <1>1, <1>2 DEF Subscription
<1>3. CASE subs' = [subs EXCEPT ![t].retry = v] \/ subs' = [subs EXCEPT ![t].req = v]
           \/ subs' = [subs EXCEPT ![t].del = v]
  BY <1>1, <1>3 DEF Subscription
<1>4. CASE subs' = SetCachedResponse(t, v, w)
  <2>1. \A o \in Objects \ {t} : subs'[o] = subs[o]
    BY <1>1, <1>4 DEF SetCachedResponse
  <2>2. AllKept
    BY <1>4, KeptAnswer
  <2> QED BY <2>1, <2>2 DEF AllKept, Keeps
<1> QED BY <1>2, <1>3, <1>4

LEMMA StepLocal ==
  ASSUME TypeInv, NEW d \in Clients, Step(d), AtWork(d), NEW t \in Objects, t = cur[d],
         NEW h \in Ids, h = subs[t].id
  PROVE  OnlyOf(d, t, h)
<1>1. /\ pc \in [Clients -> Places] /\ cur \in [Clients -> Objects \cup {None}]
      /\ told \in [Clients -> SUBSET Ids] /\ register \in [Ids -> Objects \cup {None}]
      /\ db \in [Ids -> SubscriptionInfo \cup {None}]
  BY DEF TypeInv, TypeOK, GoTypes, XappTypes, RegTypes, EnvTypes
<1>2. (\A o \in Objects \ {t} : subs'[o] = subs[o]) /\ subs'[t].id = h
  <2>1. CASE AssignPolicy(d)
    <3>1. \A o \in Objects \ {t} : subs'[o] = subs[o]
      BY <2>1 DEF AssignPolicy, TypeInv, TypeOK, RegTypes
    <3>2. AllKept
      BY <2>1, KeptPolicy
    <3> QED BY <3>1, <3>2 DEF AllKept, Keeps
  <2>2. CASE AssignInsert(d) \/ RemoveEndpoint(d)
    BY <2>2, OneObject DEF AssignInsert, RollBack, RemoveEndpoint
  <2>3. CASE Begin(d) \/ End(d)
    BY <2>3, OneObject DEF Begin, End, AddOngoing
  <2>4. CASE SendSubReq(d) \/ SubReqOutcome(d)
    <3>1. UNCHANGED subs \/ \E a, v : subs' = SetCachedResponse(t, a, v)
      BY <2>4 DEF SendSubReq, SubReqOutcome
    <3> QED BY <3>1, OneObject
  <2>5. CASE CheckLastEndpoint(d) \/ UpdateSubscriptionInDB(d) \/ RemoveSubscriptionFromDb(d)
    BY <2>5, OneObject DEF CheckLastEndpoint, UpdateSubscriptionInDB, RemoveSubscriptionFromDb
  <2>6. CASE \/ MergeLock(d) \/ RouteCreate(d) \/ WaitTransactionTurn(d)
             \/ GetCachedResponse(d) \/ DeleteAtNode(d)
             \/ SendEvent(d) \/ Outcome(d) \/ RemoveLock(d) \/ RemoveWake(d) \/ RemoveClean(d)
             \/ Done(d)
    BY <2>6 DEF MergeLock, RouteCreate, WaitTransactionTurn, GetCachedResponse, DeleteAtNode, SendEvent,
       Outcome, RemoveLock, RemoveWake, RemoveClean, Done, regVars
  <2>7. ~AssignLock(d) /\ ~FindExistingSubs(d) /\ ~AllocateSubs(d)
    BY DEF AtWork, AssignLock, FindExistingSubs, AllocateSubs
  <2> QED BY <2>1, <2>2, <2>3, <2>4, <2>5, <2>6, <2>7 DEF Step
<1>3. /\ \A j \in Ids \ {h} : /\ register'[j] = register[j] /\ db'[j] = db[j]
                              /\ j \in node => j \in node'
                              /\ j \in told'[d] => j \in told[d]
      /\ cur'[d] \in {t, None}
      /\ pc'[d] \notin {"assign", "find"}
  <2>1. CASE AssignPolicy(d) \/ MergeLock(d) \/ RouteCreate(d) \/ Begin(d) \/ WaitTransactionTurn(d)
    BY <1>1, <2>1 DEF AssignPolicy, MergeLock, RouteCreate, Begin, WaitTransactionTurn, Goto, regVars, envVars, xappVars
  <2>2. CASE AssignInsert(d)
    BY <1>1, <2>2 DEF AssignInsert, Return, Goto, envVars, xappVars
  <2>3. CASE GetCachedResponse(d) \/ CheckLastEndpoint(d) \/ DeleteAtNode(d)
    BY <1>1, <2>3 DEF GetCachedResponse, CheckLastEndpoint, DeleteAtNode, Goto, regVars, envVars, xappVars
  <2>4. CASE SendSubReq(d) \/ UpdateSubscriptionInDB(d) \/ RemoveSubscriptionFromDb(d)
    BY <1>1, <2>4 DEF SendSubReq, UpdateSubscriptionInDB, RemoveSubscriptionFromDb,
       WriteSubscriptionToDb, WithoutRecord, MayFail, Goto, xappVars
  <2>5. CASE SubReqOutcome(d)
    BY <1>1, <2>5 DEF SubReqOutcome, Goto, xappVars
  <2>6. CASE SendEvent(d) \/ End(d) \/ Outcome(d)
    BY <1>1, <2>6 DEF SendEvent, End, Outcome, Return, Goto, regVars, envVars, xappVars
  <2>7. CASE RemoveLock(d) \/ RemoveEndpoint(d) \/ RemoveWake(d)
    BY <1>1, <2>7 DEF RemoveLock, RemoveEndpoint, RemoveWake, Goto, regVars, envVars, xappVars
  <2>8. CASE RemoveClean(d)
    BY <1>1, <2>8 DEF RemoveClean, WithoutRecord, MayFail, WriteSubscriptionToDb, Goto, xappVars
  <2>9. CASE Done(d)
    BY <1>1, <2>9 DEF Done, WithoutRecord, MayFail, Return, Goto, regVars, xappVars
  <2>10. ~AssignLock(d) /\ ~FindExistingSubs(d) /\ ~AllocateSubs(d)
    BY DEF AtWork, AssignLock, FindExistingSubs, AllocateSubs
  <2> QED BY <2>1, <2>2, <2>3, <2>4, <2>5, <2>6, <2>7, <2>8, <2>9, <2>10 DEF Step
<1> QED BY <1>2, <1>3 DEF OnlyOf

\* The object that is held is the only one with its id.
LEMMA HeldFacts ==
  ASSUME TypeInv, IdInv, NEW c \in Clients, NEW i \in Ids, HeldOf(c, i), up
  PROVE  /\ register[i] \in Objects /\ register[i] \in Registered /\ subs[register[i]].id = i
         /\ HeldObject(c, register[i])
         /\ \A o \in Objects : subs[o].id = i => o = register[i]
         /\ \A j \in Ids : register[j] = register[i] => j = i
<1>1. register[i] # None
  BY DEF HeldOf
<1>2. register[i] \in Objects /\ subs[register[i]].id = i
  BY <1>1 DEF TypeInv, TypeOK, RegTypes, IdInv, RegisteredIds
<1>3. \A j \in Ids : register[j] = register[i] => j = i
  BY <1>1, <1>2 DEF IdInv, RegisteredIds
<1> QED BY <1>1, <1>2, <1>3 DEF HeldOf, Registered

\* What a step of goroutine d has to leave of it.
LEMMA HeldKeep ==
  ASSUME NEW c \in Clients, NEW i \in Ids, NEW s \in Objects, HeldOf(c, i), register[i] = s, s # None,
         NEW d \in Clients, OthersStay(d), UNCHANGED clean,
         register'[i] = s, i \in node', GoodRecord(c, i)',
         Same(s), Endpoint[c] \in subs'[s].eps,
         \A o \in Objects : subs'[o].id = i => o = s,
         i \in told'[d] => Fellow(d, c),
         cur'[d] = s /\ AtWork(d)' => Harmless(d, c)',
         pc'[c] \notin {"assign", "find"}
  PROVE  HeldOf(c, i)'
<1>1. HeldObject(c, s) /\ \A x \in Clients : i \in told[x] => Fellow(x, c)
  BY DEF HeldOf
<1>2. \A x \in Clients : i \in told'[x] => Fellow(x, c)
  BY <1>1 DEF OthersStay
<1>3. \A x \in Clients : cur'[x] = s /\ AtWork(x)' => Harmless(x, c)'
  BY <1>1 DEF HeldObject, Harmless, AtWork, OthersStay, OthersKept
<1>4. HeldObject(c, s)'
  BY <1>1, <1>3 DEF HeldObject, Same, Suits
<1> QED BY <1>2, <1>4 DEF HeldOf, Fellow

\* A goroutine at work on another object.
LEMMA HeldApart ==
  ASSUME TypeInv, IdInv, up, UNCHANGED clean, NEW c \in Clients, NEW i \in Ids, HeldOf(c, i),
         NEW d \in Clients, Step(d), AtWork(d), cur[d] # register[i]
  PROVE  HeldOf(c, i)'
<1>1. PICK s \in Objects : s = register[i]
  BY HeldFacts
<1>2. PICK t \in Objects : t = cur[d] /\ t # s
  BY <1>1, AtObject
<1>3. PICK h \in Ids : h = subs[t].id /\ h # i
  <2>1. subs[t].id \in Ids
    BY <1>2, AtObject
  <2>2. subs[t].id # i
    BY <1>1, <1>2, HeldFacts
  <2> QED BY <2>1, <2>2
<1>4. OnlyOf(d, t, h)
  BY <1>2, <1>3, StepLocal
<1>5. OthersStay(d)
  BY StayStep
<1>6. HeldObject(c, s) /\ s # None
  BY <1>1, HeldFacts, NoneAssumption
<1>7. /\ register'[i] = s /\ db'[i] = db[i] /\ i \in node'
      /\ subs'[s] = subs[s] /\ cur'[d] # s
      /\ i \in told'[d] => Fellow(d, c)
      /\ pc'[c] \notin {"assign", "find"}
  BY <1>1, <1>2, <1>3, <1>4, <1>5, <1>6, NoneAssumption DEF OnlyOf, HeldOf, OthersStay, OthersKept
<1>8. \A o \in Objects : subs'[o].id = i => o = s
  BY <1>1, <1>2, <1>3, <1>4, HeldFacts DEF OnlyOf
<1>9. GoodRecord(c, i)'
  BY <1>7 DEF GoodRecord, HeldOf
<1>10. Same(s) /\ Endpoint[c] \in subs'[s].eps
  BY <1>6, <1>7 DEF Same, HeldObject
<1> QED BY <1>1, <1>5, <1>6, <1>7, <1>8, <1>9, <1>10, HeldKeep

\* A request of another client starts: a delete of the same subscription finds
\* that of a client that shares it.
LEMMA HeldStart ==
  ASSUME TypeInv, IdInv, up, UNCHANGED clean, NEW c \in Clients, NEW i \in Ids, HeldOf(c, i),
         NEW d \in Clients \ {c}, StartCreate(d) \/ \E j \in Ids : StartDelete(d, j)
  PROVE  HeldOf(c, i)'
<1>1. PICK s \in Objects : s = register[i]
  BY HeldFacts
<1>2. OthersStay(d)
  BY StayStart
<1>3. HeldObject(c, s) /\ s # None
  BY <1>1, HeldFacts, NoneAssumption
<1>4. UNCHANGED <<register, subs, db, node>> /\ told'[d] \subseteq told[d]
  BY DEF StartCreate, StartDelete, regVars, envVars, TypeInv, TypeOK, XappTypes
<1>5. ASSUME cur'[d] = s, AtWork(d)' PROVE Harmless(d, c)'
  <2>1. PICK j \in Ids : StartDelete(d, j) /\ register[j] # None
    BY <1>5 DEF StartCreate, StartDelete, Goto, goVars, AtWork, TypeInv, TypeOK, GoTypes
  <2>2. j \in told[d] /\ cur'[d] = register[j] /\ pc'[d] = "begin"
    BY <2>1 DEF StartDelete, Goto, TypeInv, TypeOK, GoTypes
  <2>3. j = i
    BY <1>1, <1>5, <2>2, HeldFacts
  <2>4. Fellow(d, c)
    BY <2>2, <2>3 DEF HeldOf
  <2> QED BY <2>2, <2>4 DEF Fellow, Harmless
<1>6. i \in told'[d] => Fellow(d, c)
  BY <1>4 DEF HeldOf
<1>7. GoodRecord(c, i)' /\ Same(s) /\ Endpoint[c] \in subs'[s].eps /\ i \in node'
  BY <1>3, <1>4 DEF GoodRecord, HeldOf, Same, HeldObject
<1>8. pc'[c] \notin {"assign", "find"}
  BY <1>2 DEF HeldOf, OthersStay, OthersKept
<1>9. \A o \in Objects : subs'[o].id = i => o = s
  BY <1>1, <1>4, HeldFacts
<1> QED BY <1>1, <1>2, <1>3, <1>4, <1>5, <1>6, <1>7, <1>8, <1>9, HeldKeep

\* A policy is updated by the client that has it, and no other.
LEMMA HeldAssign ==
  ASSUME TypeInv, IdInv, Calm, up, UNCHANGED clean, NEW c \in Clients, NEW i \in Ids, HeldOf(c, i),
         NEW d \in Clients, AssignLock(d)
  PROVE  HeldOf(c, i)'
<1>1. PICK s \in Objects : s = register[i]
  BY HeldFacts
<1>2. OthersStay(d) /\ d # c
  BY StayStep DEF Step, AssignLock, HeldOf
<1>3. HeldObject(c, s) /\ s # None
  BY <1>1, HeldFacts, NoneAssumption
<1>4. UNCHANGED <<register, subs, db, node, told>>
  BY DEF AssignLock, regVars, envVars, xappVars
<1>5. ASSUME cur'[d] = s, AtWork(d)' PROVE FALSE
  <2>1. PICK j \in told[d] : op[d] = "update" /\ register[j] # None /\ cur'[d] = register[j]
    BY <1>5 DEF AssignLock, Goto, AtWork, TypeInv, TypeOK, GoTypes
  <2>2. j \in Ids /\ j = i
    BY <1>1, <1>5, <2>1, HeldFacts DEF TypeInv, TypeOK, XappTypes
  <2>3. d \in Policy
    BY <2>1 DEF Calm, LateOf
  <2> QED BY <1>2, <2>1, <2>2, <2>3 DEF HeldOf, Fellow
<1>6. i \in told'[d] => Fellow(d, c)
  BY <1>4 DEF HeldOf
<1>7. GoodRecord(c, i)' /\ Same(s) /\ Endpoint[c] \in subs'[s].eps /\ i \in node'
  BY <1>3, <1>4 DEF GoodRecord, HeldOf, Same, HeldObject
<1>8. pc'[c] \notin {"assign", "find"}
  BY <1>2 DEF HeldOf, OthersStay, OthersKept
<1>9. \A o \in Objects : subs'[o].id = i => o = s
  BY <1>1, <1>4, HeldFacts
<1> QED BY <1>1, <1>2, <1>3, <1>4, <1>5, <1>6, <1>7, <1>8, <1>9, HeldKeep

\* Another request finds the subscription and merges into it, or repeats its own.
LEMMA HeldFind ==
  ASSUME TypeInv, IdInv, up, UNCHANGED clean, NEW c \in Clients, NEW i \in Ids, HeldOf(c, i),
         NEW d \in Clients, FindExistingSubs(d)
  PROVE  HeldOf(c, i)'
<1>1. PICK s \in Objects : s = register[i]
  BY HeldFacts
<1>2. OthersStay(d) /\ d # c /\ pc[d] = "find"
  BY StayStep DEF Step, FindExistingSubs, HeldOf
<1>3. HeldObject(c, s) /\ s # None
  BY <1>1, HeldFacts, NoneAssumption
<1>4. UNCHANGED <<register, db, node, told>>
  BY DEF FindExistingSubs, envVars, xappVars
<1>5. PICK t \in Objects : t = cur[d]
  BY DEF FindExistingSubs, TypeInv, TypeOK, GoTypes
<1>6. \/ UNCHANGED subs
      \/ subs' = [subs EXCEPT ![t].retry = TRUE]
      \/ subs' = [subs EXCEPT ![t].eps = @ \cup {Endpoint[d]}]
  BY <1>5 DEF FindExistingSubs
<1>7. \A o \in Objects : Same(o) /\ subs[o].eps \subseteq subs'[o].eps
  <2>1. CASE UNCHANGED subs
    BY <2>1 DEF Same
  <2>2. CASE subs' = [subs EXCEPT ![t].retry = TRUE]
    BY <2>2 DEF Same, TypeInv, TypeOK, RegTypes, Subscription
  <2>3. CASE subs' = [subs EXCEPT ![t].eps = @ \cup {Endpoint[d]}]
    BY <2>3 DEF Same, TypeInv, TypeOK, RegTypes, Subscription
  <2> QED BY <1>6, <2>1, <2>2, <2>3
<1>8. ASSUME cur'[d] = s, AtWork(d)' PROVE Harmless(d, c)'
  <2>1. pc'[d] \in {"begin", "merge"} /\ IsMergeable(s, d)
    BY <1>2, <1>8 DEF FindExistingSubs, Goto, AtWork, TypeInv, TypeOK, GoTypes
  <2>2. Content[d] = Content[c] /\ c \notin Policy /\ d \notin Policy
    BY <1>3, <2>1 DEF IsMergeable, HeldObject, Suits
  <2> QED BY <1>2, <2>1, <2>2 DEF Harmless
<1>9. i \in told'[d] => Fellow(d, c)
  BY <1>4 DEF HeldOf
<1>10. GoodRecord(c, i)' /\ Endpoint[c] \in subs'[s].eps /\ i \in node'
  BY <1>3, <1>4, <1>7 DEF GoodRecord, HeldOf, HeldObject
<1>11. pc'[c] \notin {"assign", "find"}
  BY <1>2 DEF HeldOf, OthersStay, OthersKept
<1>12. \A o \in Objects : subs'[o].id = i => o = s
  BY <1>1, <1>7, HeldFacts DEF Same
<1> QED BY <1>1, <1>2, <1>3, <1>4, <1>7, <1>8, <1>9, <1>10, <1>11, <1>12, HeldKeep

\* A new object has another id.
LEMMA HeldAllocate ==
  ASSUME TypeInv, IdInv, up, UNCHANGED clean, NEW c \in Clients, NEW i \in Ids, HeldOf(c, i),
         NEW d \in Clients, AllocateSubs(d)
  PROVE  HeldOf(c, i)'
<1>1. PICK s \in Objects : s = register[i]
  BY HeldFacts
<1>2. OthersStay(d) /\ d # c /\ pc[d] = "find"
  BY StayStep DEF Step, AllocateSubs, HeldOf
<1>3. HeldObject(c, s) /\ s # None /\ s \in Registered
  BY <1>1, HeldFacts, NoneAssumption
<1>4. UNCHANGED <<register, db, node, told>>
  BY DEF AllocateSubs, envVars, xappVars
<1>5. /\ subs'[s] = subs[s] /\ \A o \in Objects : subs'[o].id = i => o = s
      /\ cur'[d] = s => ~AtWork(d)'
  <2>1. CASE Return(d) /\ UNCHANGED subs
    BY <1>1, <2>1, HeldFacts DEF Return, Goto, AtWork, TypeInv, TypeOK, GoTypes
  <2>2. ASSUME NEW t \in Garbage, NewObject(d, t)
        PROVE  /\ subs'[s] = subs[s] /\ \A o \in Objects : subs'[o].id = i => o = s
               /\ cur'[d] # s
    <3>1. PICK q : q = NewSubscription(d, Head(subIds))
      OBVIOUS
    <3>2. q.id = Head(subIds) /\ Head(subIds) # i
      BY <1>1, <1>3, <2>2, <3>1 DEF NewSubscription, NewObject
    <3>3. t \in Objects /\ t # s /\ cur'[d] = t /\ subs' = [subs EXCEPT ![t] = q]
      BY <1>3, <2>2, <3>1 DEF Garbage, NewObject, TypeInv, TypeOK, GoTypes
    <3> QED BY <1>1, <3>2, <3>3, HeldFacts DEF TypeInv, TypeOK, RegTypes
  <2> QED BY <2>1, <2>2, AllocateCases
<1>6. i \in told'[d] => Fellow(d, c)
  BY <1>4 DEF HeldOf
<1>7. GoodRecord(c, i)' /\ Same(s) /\ Endpoint[c] \in subs'[s].eps /\ i \in node'
  BY <1>3, <1>4, <1>5 DEF GoodRecord, HeldOf, Same, HeldObject
<1>8. pc'[c] \notin {"assign", "find"}
  BY <1>2 DEF HeldOf, OthersStay, OthersKept
<1> QED BY <1>1, <1>2, <1>3, <1>4, <1>5, <1>6, <1>7, <1>8, HeldKeep

\* Another request works on the subscription: whatever it does, client c keeps
\* its endpoint, so that it is neither deleted at the E2 node nor removed.
LEMMA HeldShared ==
  ASSUME Orderly, TypeInv, IdInv, Calm, up, UNCHANGED clean, NEW c \in Clients, NEW i \in Ids,
         HeldOf(c, i), NEW d \in Clients, Step(d), AtWork(d), cur[d] = register[i]
  PROVE  HeldOf(c, i)'
<1>1. PICK s \in Objects : s = register[i] /\ s = cur[d] /\ subs[s].id = i
  BY HeldFacts
<1>2. OthersStay(d)
  BY StayStep
<1>3. HeldObject(c, s) /\ s # None
  BY <1>1, HeldFacts, NoneAssumption
<1>4. Harmless(d, c)
  BY <1>1, <1>3 DEF HeldObject
<1>5. /\ d # c /\ Fellow(d, c) /\ Endpoint[d] # Endpoint[c]
      /\ subs[s].valid /\ subs[s].answer = "resp" /\ Endpoint[c] \in subs[s].eps
  BY <1>3, <1>4 DEF HeldObject, Harmless, Fellow, Orderly
<1>6. d \notin Allocating
  BY <1>1, <1>3 DEF IdInv, UniqueInstanceIds
<1>7. /\ pc \in [Clients -> Places] /\ op \in [Clients -> Operations] /\ register \in [Ids -> Objects \cup {None}]
      /\ subs \in [Objects -> Subscription]
  BY DEF TypeInv, TypeOK, GoTypes, RegTypes
<1>8. OnlyOf(d, s, i)
  BY <1>1, StepLocal
<1> DEFINE Ends == {"policy", "e2req", "e2wait", "e2del", "undo", "d_e2", "db_remove"}
           Well == /\ Same(s) /\ Endpoint[c] \in subs'[s].eps
                   /\ register'[i] = s /\ UNCHANGED node
                   /\ pc'[d] \notin Ends
                   /\ db'[i] = db[i] \/ db' = WriteSubscriptionToDb(s)
<1>9. ASSUME UNCHANGED subs PROVE Same(s) /\ Endpoint[c] \in subs'[s].eps
  BY <1>5, <1>9 DEF Same
<1>10. ASSUME subs' = [subs EXCEPT ![s].eps = @ \ {Endpoint[d]}]
       PROVE  Same(s) /\ Endpoint[c] \in subs'[s].eps
  BY <1>5, <1>7, <1>10 DEF Same, Subscription
<1>11. pc[d] \notin Ends
  BY <1>4 DEF Harmless
<1>12. Well
  <2>1. CASE MergeLock(d) \/ RouteCreate(d) \/ WaitTransactionTurn(d) \/ SendEvent(d)
    BY <1>1, <1>7, <1>9, <2>1 DEF MergeLock, RouteCreate, WaitTransactionTurn, SendEvent, Goto, regVars, envVars
  <2>2. CASE AssignInsert(d)
    <3>1. UNCHANGED register
      BY <1>6, <2>2 DEF AssignInsert, Allocating
    <3>2. UNCHANGED subs \/ subs' = [subs EXCEPT ![s].eps = @ \ {Endpoint[d]}]
      BY <1>1, <2>2 DEF AssignInsert, RollBack
    <3> QED BY <1>1, <1>7, <1>9, <1>10, <2>2, <3>1, <3>2 DEF AssignInsert, Return, Goto, envVars
  <2>3. CASE Begin(d) \/ End(d)
    <3>1. AllSame
      <4>1. \E v : subs' = [subs EXCEPT ![s].req = v] \/ subs' = [subs EXCEPT ![s].del = v]
        BY <1>1, <2>3 DEF Begin, End, AddOngoing
      <4> QED BY <4>1, SameFields
    <3>2. Same(s) /\ Endpoint[c] \in subs'[s].eps
      BY <1>5, <3>1 DEF AllSame
    <3> QED BY <1>1, <1>7, <2>3, <3>2 DEF Begin, End, Goto, envVars
  <2>4. CASE GetCachedResponse(d)
    BY <1>1, <1>5, <1>7, <1>9, <2>4 DEF GetCachedResponse, Goto, regVars, envVars
  <2>5. CASE CheckLastEndpoint(d)
    <3>1. subs[s].eps # {Endpoint[d]}
      BY <1>5
    <3> QED BY <1>1, <1>7, <1>9, <2>5, <3>1 DEF CheckLastEndpoint, Goto, envVars
  <2>6. CASE UpdateSubscriptionInDB(d)
    <3>1. UNCHANGED subs \/ subs' = [subs EXCEPT ![s].retry = FALSE]
      BY <1>1, <2>6 DEF UpdateSubscriptionInDB
    <3>2. AllSame
      BY <3>1, SameFields
    <3>3. Same(s) /\ Endpoint[c] \in subs'[s].eps
      BY <1>5, <3>2 DEF AllSame
    <3> QED BY <1>1, <1>7, <2>6, <3>3 DEF UpdateSubscriptionInDB, Goto, Orderly
  <2>7. CASE Outcome(d)
    BY <1>1, <1>7, <1>9, <2>7 DEF Outcome, Return, Goto, regVars, envVars
  <2>8. CASE RemoveLock(d) \/ RemoveWake(d)
    BY <1>1, <1>7, <1>9, <2>8 DEF RemoveLock, RemoveWake, Goto, regVars, envVars
  <2>9. CASE RemoveEndpoint(d)
    <3>1. UNCHANGED subs \/ subs' = [subs EXCEPT ![s].eps = @ \ {Endpoint[d]}]
      BY <1>1, <2>9 DEF RemoveEndpoint
    <3> QED BY <1>1, <1>7, <1>9, <1>10, <2>9, <3>1 DEF RemoveEndpoint, Goto, envVars
  <2>10. CASE RemoveClean(d)
    <3>1. subs[s].eps # {}
      BY <1>5
    <3> QED BY <1>1, <1>7, <1>9, <2>10, <3>1 DEF RemoveClean, MayFail, Goto, Orderly
  <2>11. CASE Done(d)
    <3>1. op[d] = "delete" \/ event[d] # "resp"
      BY <2>11 DEF Done, Calm, LateOf
    <3> QED BY <1>1, <1>7, <1>9, <2>11, <3>1 DEF Done, Return, Goto, regVars
  <2>12. /\ ~AssignLock(d) /\ ~FindExistingSubs(d) /\ ~AllocateSubs(d) /\ ~AssignPolicy(d)
         /\ ~SendSubReq(d) /\ ~SubReqOutcome(d) /\ ~DeleteAtNode(d) /\ ~RemoveSubscriptionFromDb(d)
    BY <1>11 DEF AtWork, AssignLock, FindExistingSubs, AllocateSubs, AssignPolicy, SendSubReq,
       SubReqOutcome, DeleteAtNode, RemoveSubscriptionFromDb
  <2> QED BY <2>1, <2>2, <2>3, <2>4, <2>5, <2>6, <2>7, <2>8, <2>9, <2>10, <2>11, <2>12 DEF Step
<1>13. GoodRecord(c, i)'
  <2>1. CASE db'[i] = db[i]
    BY <2>1 DEF HeldOf, GoodRecord
  <2>2. CASE db' = WriteSubscriptionToDb(s)
    <3>1. PICK q : q = db'[i]
      OBVIOUS
    <3>2. PICK r : r = subs[s]
      OBVIOUS
    <3>3. /\ q # None /\ q.eps = r.eps /\ q.content = r.content /\ q.policy = r.policy
          /\ q.valid = r.valid /\ q.rcvd = (r.answer = "resp")
      BY <1>1, <2>2, <3>1, <3>2, WrittenFields
    <3>4. /\ r.content = Content[c] /\ (r.policy <=> c \in Policy) /\ Endpoint[c] \in r.eps /\ r.valid
          /\ r.answer = "resp"
      BY <1>3, <1>5, <3>2 DEF HeldObject, Suits
    <3>5. /\ q # None /\ Endpoint[c] \in q.eps /\ q.content = Content[c] /\ (q.policy <=> c \in Policy)
          /\ q.valid /\ q.rcvd
      BY <3>3, <3>4, Zenon
    <3> QED BY <3>1, <3>5 DEF GoodRecord
  <2> QED BY <1>12, <2>1, <2>2
<1>14. Harmless(d, c)'
  BY <1>4, <1>12 DEF Harmless
<1>15. \A o \in Objects : subs'[o].id = i => o = s
  BY <1>1, <1>8, HeldFacts DEF OnlyOf
<1>16. pc'[c] \notin {"assign", "find"} /\ i \in node'
  BY <1>2, <1>5, <1>12 DEF HeldOf, OthersStay, OthersKept
<1> QED BY <1>1, <1>2, <1>3, <1>5, <1>12, <1>13, <1>14, <1>15, <1>16, HeldKeep

LEMMA HeldSame ==
  ASSUME NEW c \in Clients, NEW i \in Ids, HeldOf(c, i),
         UNCHANGED <<register, subs, db, node, told, pc, cur, up, clean>>
  PROVE  HeldOf(c, i)'
BY DEF HeldOf, GoodRecord, HeldObject, Suits, Harmless, AtWork, Fellow

\* A client that starts a request is no longer held.
LEMMA AskingEnds ==
  ASSUME TypeInv, NEW c \in Clients, StartCreate(c) \/ \E j \in Ids : StartDelete(c, j)
  PROVE  Asks(c)
<1>1. pc[c] = "idle" /\ ops' # ops
  BY BoundsAssumption DEF StartCreate, StartDelete, TypeInv, TypeOK, XappTypes
<1>2. pc'[c] # "idle" \/ told'[c] # told[c]
  BY DEF StartCreate, StartDelete, Goto, TypeInv, TypeOK, GoTypes, XappTypes
<1> QED BY <1>1, <1>2 DEF Asks

LEMMA HeldRun ==
  ASSUME Orderly, RestartInv, HeldInv, Run
  PROVE  HeldInv'
<1>1. TypeInv /\ LockInv /\ IdInv /\ Calm /\ up /\ Next
  BY DEF RestartInv, PoolInv, HeldInv, Calm, Run
<1>2. Calm'
  BY <1>1, CalmStep
<1>3. TypeInv' /\ IdInv'
  BY <1>2, RunStep DEF RestartInv, PoolInv, Calm
<1>4. UNCHANGED <<up, restarts, clean>> /\ held' = [c \in Clients |-> IF Asks(c) THEN {} ELSE held[c]]
  BY DEF Run
<1>5. held' \in [Clients -> SUBSET Ids]
  BY <1>4 DEF HeldInv
<1>6. ASSUME restarts = 0 PROVE up' /\ clean' = Idle /\ OwnInv' /\ KnownInv' /\ \A c \in Clients : held'[c] = {}
  <2>1. up /\ clean = Idle /\ OwnInv /\ KnownInv /\ \A c \in Clients : held[c] = {}
    BY <1>6 DEF HeldInv
  <2>2. OwnInv'
    BY <1>1, <2>1, OwnStep
  <2>3. KnownInv'
    BY <1>1, <1>3, <2>1, <2>2, KnownStep
  <2> QED BY <1>4, <2>1, <2>2, <2>3
<1>7. ASSUME NEW c \in Clients, NEW i \in held'[c] PROVE HeldOf(c, i)'
  <2>1. i \in held[c] /\ ~Asks(c) /\ i \in Ids /\ HeldOf(c, i)
    BY <1>4, <1>7 DEF HeldInv
  <2>2. ASSUME NEW d \in Clients, StartCreate(d) \/ \E j \in Ids : StartDelete(d, j)
        PROVE  HeldOf(c, i)'
    <3>1. d # c
      BY <1>1, <2>1, <2>2, AskingEnds
    <3> QED BY <1>1, <1>4, <2>1, <2>2, <3>1, HeldStart
  <2>3. ASSUME NEW d \in Clients, Step(d) PROVE HeldOf(c, i)'
    <3>1. CASE AtWork(d)
      BY <1>1, <1>4, <2>1, <2>3, <3>1, HeldApart, HeldShared
    <3>2. CASE ~AtWork(d)
      <4>1. AssignLock(d) \/ FindExistingSubs(d) \/ AllocateSubs(d)
        BY <2>3, <3>2 DEF AtWork, Step, AssignPolicy, MergeLock, RouteCreate, AssignInsert, Begin,
           WaitTransactionTurn, GetCachedResponse, SendSubReq, SubReqOutcome, CheckLastEndpoint,
           DeleteAtNode, UpdateSubscriptionInDB, RemoveSubscriptionFromDb, SendEvent, End, Outcome,
           RemoveLock, RemoveEndpoint, RemoveWake, RemoveClean, Done
      <4> QED BY <1>1, <1>4, <2>1, <4>1, HeldAssign, HeldFind, HeldAllocate
    <3> QED BY <3>1, <3>2
  <2>4. ASSUME NEW o \in Objects, ReleaseTransactionTurn(o) PROVE HeldOf(c, i)'
    BY <1>4, <2>1, <2>4, HeldSame DEF ReleaseTransactionTurn, regVars, goVars, xappVars, envVars
  <2> QED BY <1>1, <2>2, <2>3, <2>4, CalmNext
<1> QED BY <1>2, <1>4, <1>5, <1>6, <1>7 DEF HeldInv

-----------------------------------------------------------------------------
(* The end of the process and the reading of the records *)

\* A manager that has read nothing has to do with what is on record and at the
\* E2 node only.
LEMMA HeldFresh ==
  ASSUME NEW c \in Clients, NEW i \in Ids, GoodRecord(c, i), i \in node,
         \A d \in Clients : i \in told[d] => Fellow(d, c),
         UNCHANGED <<db, node, told>>, Fresh, ~up', pc'[c] = "idle"
  PROVE  HeldOf(c, i)'
<1>1. GoodRecord(c, i)' /\ i \in node' /\ \A d \in Clients : i \in told'[d] => Fellow(d, c)
  BY DEF GoodRecord
<1>2. register'[i] = None /\ \A o \in Objects : subs'[o].id # i
  <2>1. PICK u : u = Unused
    OBVIOUS
  <2>2. u.id = 0
    BY <2>1 DEF Unused
  <2> QED BY <2>1, <2>2, BoundsAssumption DEF Fresh, Ids
<1> QED BY <1>1, <1>2 DEF HeldOf, Fellow

\* Where no request runs the invariant says little of them.
LEMMA CalmIdle ==
  ASSUME NEW c \in Clients, pc'[c] = "idle", op'[c] = "create"
  PROVE  LateOf(c)'
BY DEF LateOf

\* The process ends.  The first time this leaves the successes that are on
\* record, which are all of them when no request is repeated.
LEMMA HeldCrash ==
  ASSUME Orderly, RestartInv, HeldInv, Crash
  PROVE  HeldInv'
<1>1. TypeInv /\ IdInv /\ Calm
  BY DEF RestartInv, PoolInv, HeldInv, Calm
<1>2. \A c \in Clients : pc'[c] = "idle" /\ op'[c] = "create"
  BY DEF Crash, NoGoroutines
<1>3. Calm'
  BY <1>1, <1>2, CalmIdle DEF Crash, NoGoroutines, Calm
<1>4. restarts \in Nat /\ restarts' \in Nat /\ restarts' # 0
  BY DEF HeldInv, Crash
<1>5. /\ ~up' /\ Fresh /\ UNCHANGED <<db, node, told>>
  BY DEF Crash, xappVars, envVars
<1>6. CASE restarts > 0
  <2>1. held' = held
    BY <1>6 DEF Crash
  <2>2. ASSUME NEW c \in Clients, NEW i \in held'[c] PROVE HeldOf(c, i)'
    <3>1. HeldOf(c, i) /\ i \in Ids
      BY <2>1 DEF HeldInv
    <3> QED BY <1>2, <1>5, <3>1, HeldFresh DEF HeldOf
  <2> QED BY <1>3, <1>4, <2>1, <2>2 DEF HeldInv
<1>7. CASE restarts = 0
  <2>1. held' = [c \in Clients |-> IF pc[c] = "idle" /\ ~Repeating THEN told[c] ELSE {}]
    BY <1>7 DEF Crash
  <2>2. OwnInv /\ KnownInv
    BY <1>7 DEF HeldInv
  <2>3. held' \in [Clients -> SUBSET Ids]
    BY <1>1, <2>1 DEF TypeInv, TypeOK, XappTypes
  <2>4. ASSUME NEW c \in Clients, NEW i \in held'[c] PROVE HeldOf(c, i)'
    <3>1. i \in told[c] /\ ~Repeating /\ i \in Ids /\ Knows(c, i)
      BY <2>1, <2>3 DEF Knows
    <3>2. GoodRecord(c, i)
      <4>1. ~RepeatDue(register[i])
        BY <3>1 DEF Repeating, RepeatDue, Repeats
      <4> QED BY <2>2, <3>1, <4>1 DEF KnownInv, KnownOf
    <3>3. PICK s \in Objects : /\ s = register[i] /\ Suits(c, s) /\ Endpoint[c] \in subs[s].eps
                               /\ i \in node
      BY <1>1, <2>2, <3>1, ToldObject
    <3>4. ASSUME NEW d \in Clients, i \in told[d] PROVE Fellow(d, c)
      <4>1. Suits(d, s) /\ Endpoint[d] \in subs[s].eps
        BY <1>1, <2>2, <3>3, <3>4, ToldObject
      <4>2. c \in Policy => Endpoint[d] = Endpoint[c]
        BY <2>2, <3>3, <4>1 DEF OwnInv, Answered, ObjectOf, Suits
      <4> QED BY <3>3, <4>1, <4>2 DEF Suits, Fellow, Orderly
    <3> QED BY <1>2, <1>5, <3>1, <3>2, <3>3, <3>4, HeldFresh
  <2> QED BY <1>3, <1>4, <2>3, <2>4 DEF HeldInv
<1> QED BY <1>4, <1>6, <1>7

\* The steps that no client takes part in with a request.
LEMMA HeldFrame ==
  ASSUME HeldInv, restarts # 0, UNCHANGED <<restarts, held>>, Calm',
         \A c \in Clients, i \in Ids : HeldOf(c, i) => HeldOf(c, i)'
  PROVE  HeldInv'
BY DEF HeldInv

\* The fields an object gets from a record.
LEMMA RestoredFields ==
  ASSUME TypeInv, NEW i \in Ids, db[i] # None
  PROVE  /\ CreateSubscription(i).content = db[i].content
         /\ CreateSubscription(i).policy = db[i].policy
         /\ CreateSubscription(i).eps = db[i].eps
         /\ CreateSubscription(i).valid = db[i].valid
         /\ CreateSubscription(i).update = db[i].update
         /\ db[i].rcvd => CreateSubscription(i).answer = "resp"
<1>1. PICK r \in SubscriptionInfo : r = db[i]
  BY DEF TypeInv, TypeOK, EnvTypes
<1>2. PICK a \in Answers : a = IF r.rcvd THEN "resp" ELSE "nil"
  BY DEF Answers
<1>3. PICK u \in Subscription : u = Unused
  <2>1. Unused \in Subscription
    BY DEF Unused, Subscription, Answers
  <2> QED BY <2>1
<1>4. PICK q : q = [u EXCEPT !.id = i, !.content = r.content, !.policy = r.policy,
                             !.eps = r.eps, !.valid = r.valid, !.answer = a,
                             !.update = r.update]
  OBVIOUS
<1>5. /\ q.content = r.content /\ q.policy = r.policy /\ q.eps = r.eps /\ q.valid = r.valid
      /\ q.update = r.update /\ q.answer = a
  BY <1>4 DEF Subscription, SubscriptionInfo
<1>6. CreateSubscription(i) = q
  BY <1>1, <1>2, <1>3, <1>4, Zenon DEF CreateSubscription
<1> QED BY <1>1, <1>2, <1>5, <1>6

LEMMA HeldReadRecord ==
  ASSUME RestartInv, HeldInv, NEW j \in Ids, ReadRecord(j)
  PROVE  HeldInv'
<1>1. /\ TypeInv /\ IdInv /\ NothingRuns /\ ~up /\ clean = Idle /\ register[j] = None /\ db[j] # None
      /\ UNCHANGED <<up, clean, db, node, told, pc, op, cur, event, e2, sweep, events, restarts, held>>
  BY DEF ReadRecord, RestartInv, PoolInv, goVars, xappVars, envVars, e2Vars
<1>2. PICK t \in Objects : /\ t \notin Registered
                           /\ register' = [register EXCEPT ![j] = t]
                           /\ subs' = [subs EXCEPT ![t] = CreateSubscription(j)]
  BY DEF ReadRecord
<1>3. /\ register'[j] = t /\ subs'[t] = CreateSubscription(j) /\ t # None
      /\ \A k \in Ids \ {j} : register'[k] = register[k]
      /\ \A o \in Objects \ {t} : subs'[o] = subs[o]
  BY <1>1, <1>2, NoneAssumption DEF TypeInv, TypeOK, RegTypes
<1>4. restarts # 0 /\ Calm'
  BY <1>1 DEF HeldInv, Calm, LateOf
<1>5. \A d \in Clients : ~AtWork(d)'
  BY <1>1 DEF NothingRuns, AtWork
<1>6. ASSUME NEW c \in Clients, NEW i \in Ids, HeldOf(c, i) PROVE HeldOf(c, i)'
  <2>1. /\ GoodRecord(c, i)' /\ i \in node' /\ pc'[c] \notin {"assign", "find"}
        /\ \A d \in Clients : i \in told'[d] => Fellow(d, c)
    BY <1>1, <1>6 DEF HeldOf, GoodRecord
  <2>2. CreateSubscription(j).id = j
    BY <1>1, RestoredObject
  <2>3. CASE i = j
    <3>1. \A o \in Objects : subs'[o].id = i => register'[i] = o
      BY <1>1, <1>3, <1>6, <2>3, NoneAssumption DEF HeldOf
    <3>2. PICK q : q = CreateSubscription(j)
      OBVIOUS
    <3>3. /\ q.content = db[j].content /\ q.policy = db[j].policy /\ q.eps = db[j].eps
          /\ q.valid = db[j].valid /\ q.update = db[j].update
          /\ db[j].rcvd => q.answer = "resp"
      BY <1>1, <3>2, RestoredFields
    <3>4. GoodRecord(c, j)
      BY <1>6, <2>3 DEF HeldOf
    <3>5. /\ q.content = Content[c] /\ (q.policy <=> c \in Policy) /\ q.valid /\ Endpoint[c] \in q.eps
          /\ q.answer = "resp" \/ (q.update /\ c \in Policy)
      BY <3>3, <3>4, Zenon DEF GoodRecord
    <3>6. clean'.obj # t
      BY <1>1, <1>3, IdleRecord
    <3>7. HeldObject(c, t)'
      BY <1>3, <1>5, <3>2, <3>5, <3>6 DEF HeldObject, Suits
    <3> QED BY <1>1, <1>3, <2>1, <2>3, <3>1, <3>7 DEF HeldOf, Fellow
  <2>4. CASE i # j
    <3>1. register'[i] = register[i] /\ register[i] # t
      BY <1>2, <1>3, <2>4 DEF Registered
    <3>2. \A o \in Objects : subs'[o].id = i => register'[i] = o
      BY <1>3, <1>6, <2>2, <2>4, <3>1 DEF HeldOf
    <3>3. register[i] # None => HeldObject(c, register[i])'
      <4>1. register[i] # None => subs'[register[i]] = subs[register[i]]
        BY <1>1, <1>3, <3>1 DEF TypeInv, TypeOK, RegTypes
      <4>2. register[i] # None => HeldObject(c, register[i])
        BY <1>6 DEF HeldOf
      <4> QED BY <1>1, <1>5, <3>1, <4>1, <4>2 DEF HeldObject, Suits
    <3> QED BY <1>1, <2>1, <3>1, <3>2, <3>3 DEF HeldOf, Fellow
  <2> QED BY <2>3, <2>4
<1> QED BY <1>1, <1>4, <1>6, HeldFrame

LEMMA HeldReadAgain ==
  ASSUME RestartInv, HeldInv, NEW j \in Ids, ReadAgain(j)
  PROVE  HeldInv'
<1>1. /\ NothingRuns /\ ~up /\ Fresh
      /\ UNCHANGED <<up, clean, db, node, told, pc, op, cur, event, e2, sweep, events, restarts, held>>
  BY DEF ReadAgain, RestartInv, goVars, xappVars, envVars, e2Vars
<1>2. restarts # 0 /\ Calm'
  BY <1>1 DEF HeldInv, Calm, LateOf
<1>3. ASSUME NEW c \in Clients, NEW i \in Ids, HeldOf(c, i) PROVE HeldOf(c, i)'
  BY <1>1, <1>3, HeldFresh DEF HeldOf, NothingRuns
<1> QED BY <1>1, <1>2, <1>3, HeldFrame

LEMMA HeldRestore ==
  ASSUME RestartInv, HeldInv, Restore
  PROVE  HeldInv'
<1>1. /\ TypeInv /\ ~up /\ up' /\ \A i \in Ids : db[i] # None => register[i] # None
      /\ UNCHANGED <<register, subs, db, node, told, pc, op, cur, event, e2, sweep, events, restarts, held>>
  BY DEF Restore, RestartInv, PoolInv, vars, regVars, goVars, xappVars, envVars, e2Vars
<1>2. restarts # 0 /\ Calm'
  BY <1>1 DEF HeldInv, Calm, LateOf
<1>3. clean'.obj = None
  BY DEF Restore, Idle
<1>4. ASSUME NEW c \in Clients, NEW i \in Ids, HeldOf(c, i) PROVE HeldOf(c, i)'
  <2>1. register[i] # None
    BY <1>1, <1>4 DEF HeldOf, GoodRecord
  <2>2. HeldObject(c, register[i])'
    BY <1>1, <1>3, <1>4, <2>1 DEF HeldOf, HeldObject, Suits, Harmless, AtWork
  <2> QED BY <1>1, <1>4, <2>1, <2>2 DEF HeldOf, GoodRecord, Fellow
<1> QED BY <1>1, <1>2, <1>4, HeldFrame

-----------------------------------------------------------------------------
(* HandleUncompletedSubscriptions *)

\* It starts after a restart.
LEMMA CleanRestarted ==
  ASSUME RestartInv, HeldInv, CleanUp
  PROVE  restarts # 0 /\ up /\ UNCHANGED <<up, restarts, held>>
<1>1. UNCHANGED <<up, restarts, held>>
  BY DEF CleanUp, CleanVisit, CleanDelete, CleanSleep, CleanWake, CleanEnd, CleanBlank, CleanNext,
         CleanStop
<1>2. ASSUME clean = Idle PROVE \E c \in Clients : pc[c] = "c_sleep"
  BY <1>2, IdleRecord, NoneAssumption
     DEF CleanUp, CleanVisit, CleanDelete, CleanSleep, CleanWake, CleanEnd, CleanBlank, CleanNext,
         CleanStop
<1>3. restarts # 0
  BY <1>2 DEF HeldInv, OwnInv, Control, ControlOf
<1>4. up
  BY <1>2 DEF RestartInv, NothingRuns
<1> QED BY <1>1, <1>3, <1>4

\* What its steps leave of a success.
LEMMA HeldThere ==
  ASSUME TypeInv, IdInv, up, up', NEW c \in Clients, NEW i \in Ids, HeldOf(c, i),
         UNCHANGED <<register, subs, db, node, told>>, clean'.obj # register[i],
         \A d \in Clients : cur'[d] = register[i] /\ AtWork(d)' => Harmless(d, c)',
         pc'[c] \notin {"assign", "find"}
  PROVE  HeldOf(c, i)'
<1>1. PICK s \in Objects : s = register[i]
  BY HeldFacts
<1>2. HeldObject(c, s) /\ s # None
  BY <1>1, HeldFacts, NoneAssumption
<1>3. HeldObject(c, s)'
  BY <1>1, <1>2 DEF HeldObject, Suits
<1> QED BY <1>1, <1>2, <1>3 DEF HeldOf, GoodRecord, Fellow

\* The steps that start or end no delete.  Only uncompleted subscriptions are
\* taken up.
LEMMA HeldVisit ==
  ASSUME RestartInv, HeldInv, CleanUp,          \/ \E j \in Ids : CleanVisit(j)
         \/ CleanBlank \/ CleanNext \/ CleanStop
  PROVE  HeldInv'
<1>1. restarts # 0 /\ up /\ UNCHANGED <<up, restarts, held>>
  BY CleanRestarted
<1>2. UNCHANGED <<register, subs, db, node, told, pc, op, cur, event, e2, sweep, events>>
  BY DEF CleanVisit, CleanBlank, CleanNext, CleanStop, vars, regVars, goVars, xappVars, envVars, e2Vars
<1>3. TypeInv /\ IdInv /\ Calm
  BY DEF RestartInv, PoolInv, HeldInv, Calm
<1>4. Calm'
  BY <1>2, <1>3 DEF Calm, LateOf
<1>5. ASSUME NEW c \in Clients, NEW i \in Ids, HeldOf(c, i) PROVE HeldOf(c, i)'
  <2>1. PICK s \in Objects : s = register[i]
    BY <1>1, <1>3, <1>5, HeldFacts
  <2>2. HeldObject(c, s) /\ s # None
    BY <1>1, <1>3, <1>5, <2>1, HeldFacts, NoneAssumption
  <2>3. clean'.obj # s
    <3>1. ASSUME NEW j \in Ids, CleanVisit(j) PROVE clean'.obj # s
      <4>1. ~Uncompleted(s) /\ clean.obj # s
        BY <2>2 DEF HeldObject, Uncompleted
      <4>2. \/ clean'.obj = register[j] /\ Uncompleted(register[j])
            \/ clean'.obj = clean.obj
        BY <3>1 DEF CleanVisit, RestartInv, CleanInv
      <4> QED BY <4>1, <4>2
    <3>2. ASSUME CleanBlank PROVE clean'.obj # s
      BY <2>2, <3>2 DEF CleanBlank, RestartInv, CleanInv, HeldObject
    <3>3. ASSUME CleanNext PROVE clean'.obj # s
      BY <2>2, <3>3 DEF CleanNext, Idle
    <3>4. ASSUME CleanStop PROVE clean'.obj # s
      BY <2>2, <3>4, IdleRecord DEF CleanStop
    <3> QED BY <3>1, <3>2, <3>3, <3>4
  <2>4. \A d \in Clients : cur'[d] = s /\ AtWork(d)' => Harmless(d, c)'
    BY <1>2, <2>2 DEF HeldObject, Harmless, AtWork
  <2>5. pc'[c] \notin {"assign", "find"}
    BY <1>2, <1>5 DEF HeldOf
  <2> QED BY <1>1, <1>2, <1>3, <1>5, <2>1, <2>3, <2>4, <2>5, HeldThere
<1> QED BY <1>1, <1>4, <1>5, HeldFrame

\* The steps of a delete in the place of client d.
LEMMA HeldCleaning ==
  ASSUME RestartInv, HeldInv, CleanUp, NEW d \in Clients, OthersStay(d), LateOf(d)',
         UNCHANGED <<register, subs, db, node, told, e2, sweep, events>>,
         clean'.obj = clean.obj, pc'[d] \notin {"assign", "find"},
         \A c \in Clients, i \in Ids :
           HeldOf(c, i) /\ cur'[d] = register[i] /\ AtWork(d)' => Harmless(d, c)'
  PROVE  HeldInv'
<1>1. restarts # 0 /\ up /\ UNCHANGED <<up, restarts, held>>
  BY CleanRestarted
<1>2. TypeInv /\ IdInv /\ Calm
  BY DEF RestartInv, PoolInv, HeldInv, Calm
<1>3. Calm'
  <2>1. \A c \in Clients \ {d} : LateOf(c)'
    BY <1>2, OthersKnow DEF Calm
  <2> QED BY <1>2, <2>1 DEF Calm
<1>4. ASSUME NEW c \in Clients, NEW i \in Ids, HeldOf(c, i) PROVE HeldOf(c, i)'
  <2>1. PICK s \in Objects : s = register[i]
    BY <1>1, <1>2, <1>4, HeldFacts
  <2>2. HeldObject(c, s) /\ s # None
    BY <1>1, <1>2, <1>4, <2>1, HeldFacts, NoneAssumption
  <2>3. \A x \in Clients \ {d} : cur'[x] = s /\ AtWork(x)' => Harmless(x, c)'
    BY <2>2 DEF HeldObject, Harmless, AtWork, OthersStay, OthersKept
  <2>4. cur'[d] = s /\ AtWork(d)' => Harmless(d, c)'
    BY <1>4, <2>1, <2>2
  <2>5. pc'[c] \notin {"assign", "find"} /\ clean'.obj # s
    BY <1>4, <2>2 DEF HeldOf, HeldObject, OthersStay, OthersKept
  <2> QED BY <1>1, <1>2, <1>4, <2>1, <2>3, <2>4, <2>5, HeldThere
<1> QED BY <1>1, <1>3, <1>4, HeldFrame

LEMMA HeldDelete ==
  ASSUME RestartInv, HeldInv, CleanUp, NEW d \in Clients, CleanDelete(d)
  PROVE  HeldInv'
<1>1. up /\ TypeInv /\ IdInv /\ Calm
  BY CleanRestarted DEF RestartInv, PoolInv, HeldInv, Calm
<1>2. clean.obj \in Objects
  BY <1>1 DEF CleanDelete, RestartInv, CleanInv, TypeInv, TypeOK, E2Types
<1>3. /\ UNCHANGED <<register, subs, db, node, told, e2, sweep, events>>
      /\ OthersStay(d)
  BY <1>1 DEF CleanDelete, regVars, xappVars, envVars, e2Vars, OthersStay, OthersKept, Goto, TypeInv,
     TypeOK, GoTypes
<1>4. clean'.obj = clean.obj
  BY DEF CleanDelete, RestartInv, CleanInv
<1>5. \/ UNCHANGED <<pc, op, cur>> /\ pc[d] = "idle"
      \/ pc'[d] = "begin" /\ op'[d] = "delete" /\ cur'[d] = register[subs[clean.obj].id]
  BY <1>1 DEF CleanDelete, Goto, TypeInv, TypeOK, GoTypes
<1>6. LateOf(d)'
  BY <1>1, <1>5 DEF Calm, LateOf
<1>7. ASSUME NEW c \in Clients, NEW i \in Ids, HeldOf(c, i), cur'[d] = register[i], AtWork(d)'
      PROVE  FALSE
  <2>1. PICK s \in Objects : s = register[i]
    BY <1>1, <1>7, HeldFacts
  <2>2. HeldObject(c, s) /\ s # None
    BY <1>1, <1>7, <2>1, HeldFacts, NoneAssumption
  <2>3. register[subs[clean.obj].id] = s
    BY <1>5, <1>7, <2>1 DEF AtWork
  <2>4. subs[clean.obj].id \in Ids
    BY <1>1 DEF RestartInv, CleanInv, CleanDelete, TypeInv, ObjectsInUse, InUse
  <2>5. subs[clean.obj].id = i
    BY <1>1, <1>7, <2>1, <2>3, <2>4, HeldFacts
  <2>6. clean.obj = s
    BY <1>1, <1>2, <1>7, <2>1, <2>5, HeldFacts
  <2> QED BY <2>2, <2>6 DEF HeldObject
<1>8. pc'[d] \notin {"assign", "find"}
  BY <1>5
<1> QED BY <1>3, <1>4, <1>6, <1>7, <1>8, HeldCleaning

LEMMA HeldWait ==
  ASSUME RestartInv, HeldInv, CleanUp, NEW d \in Clients, CleanSleep(d) \/ CleanWake(d)
  PROVE  HeldInv'
<1>1. up /\ TypeInv /\ IdInv /\ Calm
  BY CleanRestarted DEF RestartInv, PoolInv, HeldInv, Calm
<1>2. /\ UNCHANGED <<register, subs, db, node, told, e2, sweep, events, cur, op, event, clean>>
      /\ OthersStay(d)
      /\ pc[d] \in {"rm_clean", "c_sleep"} /\ pc'[d] \in {"rm_clean", "c_sleep"}
  BY <1>1 DEF CleanSleep, CleanWake, regVars, xappVars, envVars, e2Vars, OthersStay, OthersKept, Goto,
     TypeInv, TypeOK, GoTypes
<1>3. LateOf(d)'
  BY <1>1, <1>2 DEF Calm, LateOf
<1>4. ASSUME NEW c \in Clients, NEW i \in Ids, HeldOf(c, i), cur'[d] = register[i], AtWork(d)'
      PROVE  Harmless(d, c)'
  <2>1. HeldObject(c, register[i])
    BY <1>1, <1>4, HeldFacts
  <2>2. Harmless(d, c)
    BY <1>2, <1>4, <2>1 DEF HeldObject, AtWork
  <2> QED BY <1>2, <2>2 DEF Harmless
<1> QED BY <1>2, <1>3, <1>4, HeldCleaning

LEMMA HeldEnd ==
  ASSUME RestartInv, HeldInv, CleanUp, NEW d \in Clients, CleanEnd(d)
  PROVE  HeldInv'
<1>1. up /\ TypeInv /\ IdInv /\ Calm
  BY CleanRestarted DEF RestartInv, PoolInv, HeldInv, Calm
<1>2. /\ UNCHANGED <<register, subs, db, node, told, e2, sweep, events>>
      /\ OthersStay(d) /\ pc'[d] = "idle" /\ op'[d] \in {op[d], "create"}
  BY <1>1 DEF CleanEnd, Return, regVars, xappVars, envVars, e2Vars, OthersStay, OthersKept, Goto,
     TypeInv, TypeOK, GoTypes
<1>3. clean'.obj = clean.obj
  BY DEF CleanEnd, RestartInv, CleanInv
<1>4. LateOf(d)'
  BY <1>1, <1>2 DEF Calm, LateOf
<1> QED BY <1>2, <1>3, <1>4, HeldCleaning DEF AtWork

-----------------------------------------------------------------------------
(* The theorem *)

LEMMA HeldInit == RInit => HeldInv
<1> SUFFICES ASSUME RInit PROVE HeldInv
  OBVIOUS
<1>1. OwnInv /\ KnownInv
  BY OwnInit, KnownInit DEF RInit
<1>2. \A c \in Clients : pc[c] = "idle" /\ op[c] = "create"
  BY DEF RInit, Init
<1>3. Calm
  BY <1>2 DEF Calm, LateOf, RInit, Init
<1> QED BY <1>1, <1>3 DEF HeldInv, RInit

LEMMA HeldStep ==
  ASSUME Orderly, RestartInv, HeldInv, [RNext]_rvars
  PROVE  HeldInv'
<1>1. CASE UNCHANGED rvars
  <2>1. UNCHANGED <<vars, up, restarts, clean, held>>
    BY <1>1 DEF rvars
  <2>2. UNCHANGED <<register, subs, db, node, told, pc, cur, op, event, e2, sweep, events>>
    BY <2>1 DEF vars, regVars, goVars, xappVars, envVars, e2Vars
  <2>3. TypeInv /\ LockInv /\ IdInv /\ Calm
    BY DEF RestartInv, PoolInv, HeldInv, Calm
  <2>4. Calm'
    BY <2>2, <2>3 DEF Calm, LateOf
  <2>5. TypeInv' /\ IdInv'
    BY <1>1, <2>4, RestartStep DEF RestartInv, PoolInv, Calm
  <2>6. restarts = 0 => OwnInv'
    BY <2>1, <2>3, OwnStep DEF HeldInv
  <2>7. restarts = 0 => KnownInv'
    BY <2>1, <2>3, <2>5, <2>6, KnownStep DEF HeldInv
  <2>8. \A c \in Clients : \A i \in held'[c] : HeldOf(c, i)'
    BY <2>1, <2>2, HeldSame DEF HeldInv
  <2> QED BY <2>1, <2>4, <2>6, <2>7, <2>8 DEF HeldInv
<1>2. CASE Run \/ Crash
  BY <1>2, HeldRun, HeldCrash
<1>3. CASE Reading
  BY <1>3, HeldRestore, HeldReadRecord, HeldReadAgain DEF Reading
<1>4. CASE CleanUp
  BY <1>4, HeldVisit, HeldDelete, HeldWait, HeldEnd DEF CleanUp
<1> QED BY <1>1, <1>2, <1>3, <1>4 DEF RNext

\* As long as the E2 connection and SDL are there (Orderly): a success an xApp was
\* told of before the first restart, with no repeated request in progress, is a
\* valid registered subscription with its endpoint whenever the manager is up
\* again.  It does not matter how often the process ends and where its goroutines
\* are then, in which order ReadAllSubscriptionsFromSdl takes the records, what
\* HandleUncompletedSubscriptions deletes and what other xApps ask for; it lasts
\* until its own xApp asks again.
THEOREM SuccessSurvivesRestart ==
  ASSUME Orderly
  PROVE  RSpec => []SuccessSurvives
<1>1. RInit => RestartInv /\ HeldInv
  BY RestartInit, HeldInit
<1>2. RestartInv /\ HeldInv /\ [RNext]_rvars => (RestartInv /\ HeldInv)'
  BY RestartStep, HeldStep
<1>3. RestartInv /\ HeldInv => SuccessSurvives
  <2> SUFFICES ASSUME RestartInv, HeldInv, up, NEW c \in Clients, NEW i \in held[c]
               PROVE  Subscribed(c, i)
    BY DEF SuccessSurvives
  <2>1. TypeInv /\ IdInv /\ i \in Ids /\ HeldOf(c, i)
    BY DEF RestartInv, PoolInv, HeldInv, Calm
  <2>2. register[i] # None /\ HeldObject(c, register[i]) /\ i \in node
    BY <2>1, HeldFacts, NoneAssumption DEF HeldOf
  <2> QED BY <2>2 DEF Subscribed, HeldObject, Suits
<1> QED BY <1>1, <1>2, <1>3, PTL DEF RSpec

=============================================================================
