----------------------------- MODULE SubRestart -----------------------------
(***************************************************************************)
(* The Subscription Manager with restarts: the process ends at any moment, *)
(* what it held in memory is lost, and the next one restores the register  *)
(* from the records in SDL (ReadE2Subscriptions).  A goroutine then        *)
(* deletes the subscriptions that were not completed                       *)
(* (HandleUncompletedSubscriptions) while requests arrive.                 *)
(*                                                                         *)
(* The delete of one endpoint of such a subscription is the procedure of   *)
(* SubMgr, run in the place of the client the endpoint belongs to, whose   *)
(* own requests come before or after it.                                   *)
(***************************************************************************)
EXTENDS SubMgr

CONSTANT MaxRestarts   \* bound: restarts

ASSUME RestartAssumption == MaxRestarts \in Nat

VARIABLES
  up,         \* whether the manager has read its records
  restarts,   \* restarts so far
  clean,      \* HandleUncompletedSubscriptions: the ids it has yet to visit, the
              \* ones it visits if they appear, the object it deletes, how many
              \* endpoints that had and which entry of their list is next, the
              \* endpoints in the entries before, and the client in whose place
              \* it deletes one (the object is the one that is pinned)
  merged,     \* history: the ids it found with several endpoints
  held        \* history: the successes told before the first restart whose
              \* clients have asked for nothing since

rvars == <<vars, up, restarts, clean, merged, held>>

Idle == [todo |-> {}, late |-> {}, obj |-> None, size |-> 0, at |-> 0,
         passed |-> {}, busy |-> None]

RInit ==
  /\ Init
  /\ up = TRUE
  /\ restarts = 0
  /\ clean = Idle
  /\ merged = {}
  /\ held = [c \in Clients |-> {}]

-----------------------------------------------------------------------------
\* Goroutines and locals are gone with the process.
NoGoroutines ==
  /\ rmutex' = None
  /\ smutex' = [s \in Objects |-> None]
  /\ turn' = [s \in Objects |-> None]
  /\ releasing' = {}
  /\ pc' = [c \in Clients |-> "idle"]
  /\ op' = [c \in Clients |-> "create"]
  /\ cur' = [c \in Clients |-> None]
  /\ seen' = [c \in Clients |-> {}]
  /\ count' = [c \in Clients |-> 0]
  /\ event' = [c \in Clients |-> "nil"]
  /\ sweep' = NoSweep
  /\ raced' = FALSE
  /\ clean' = Idle
  /\ pinned' = {}

\* The register and the pool of a manager that has read nothing.
Fresh ==
  /\ register' = [i \in Ids |-> None]
  /\ subIds' = InitialIds
  /\ subs' = [s \in Objects |-> Unused]

\* Whether a request that is repeated is in progress.
Repeating == \E c \in Clients : op[c] = "retry"

Crash ==
  /\ up
  /\ restarts < MaxRestarts
  /\ up' = FALSE
  /\ restarts' = restarts + 1
  /\ NoGoroutines
  /\ Fresh
  /\ merged' = {}
  /\ held' = IF restarts > 0 THEN held
             ELSE [c \in Clients |-> IF pc[c] = "idle" /\ ~Repeating THEN told[c] ELSE {}]
  /\ UNCHANGED <<xappVars, envVars, e2, events>>

\* CreateSubscription: RMRRouteCreated and the counters are not in the record.
\* The mutant forgets the endpoints.
ForgetEndpoints(i) ==
  [Unused EXCEPT !.id = i, !.content = db[i].content, !.policy = db[i].policy,
                 !.valid = db[i].valid,
                 !.answer = IF db[i].rcvd THEN "resp" ELSE "nil",
                 !.update = db[i].update]

CreateSubscription(i) ==
  [Unused EXCEPT !.id = i, !.content = db[i].content, !.policy = db[i].policy,
                 !.eps = db[i].eps, !.valid = db[i].valid,
                 !.answer = IF db[i].rcvd THEN "resp" ELSE "nil",
                 !.update = db[i].update]

\* removeNumber.  The mutant leaves the id in the pool.
KeepNumber(s, i)   == s
removeNumber(s, i) ==
  LET k == CHOOSE n \in 1..Len(s) : s[n] = i
  IN  SubSeq(s, 1, k - 1) \o SubSeq(s, k + 1, Len(s))

\* ReadAllSubscriptionsFromSdl takes the records in any order.
ReadRecord(i) ==
  /\ ~up
  /\ db[i] # None /\ register[i] = None
  /\ i < Len(subIds)
  /\ LET s == CHOOSE o \in Objects \ Registered : TRUE
     IN  /\ Objects \ Registered # {}
         /\ register' = [register EXCEPT ![i] = s]
         /\ subs' = [subs EXCEPT ![s] = CreateSubscription(i)]
  /\ subIds' = removeNumber(subIds, i)
  /\ UNCHANGED <<lockVars, goVars, xappVars, envVars, e2Vars, up, restarts, clean, merged, held>>

\* It gives up on an id that is not less than the length of what is left of the
\* pool, and ReadE2Subscriptions tries again from the start.
ReadAgain(i) ==
  /\ ~up
  /\ db[i] # None /\ register[i] = None
  /\ i >= Len(subIds)
  /\ Fresh
  /\ UNCHANGED <<lockVars, goVars, xappVars, envVars, e2Vars, up, restarts, clean, merged, held>>

\* All the records are read.  HandleUncompletedSubscriptions ranges over the map that
\* is the register from now on: an entry that appears meanwhile may be visited or not.
\* Over an empty map the loop ends at once.
Restore ==
  /\ ~up
  /\ \A i \in Ids : db[i] # None => register[i] # None
  /\ LET restored == {i \in Ids : register[i] # None}
     IN  clean' = [Idle EXCEPT !.todo = restored,
                               !.late = IF restored = {} THEN {} ELSE Ids \ restored]
  /\ up' = TRUE
  /\ UNCHANGED <<vars, restarts, merged, held>>

Reading == Restore \/ \E i \in Ids : ReadRecord(i) \/ ReadAgain(i)

-----------------------------------------------------------------------------
(* HandleUncompletedSubscriptions *)

\* Whether the subscription is to be deleted: it has no response, and is not
\* an update of a policy.  The mutant asks whether it is valid.
StillValid(s)  == ~subs[s].valid /\ ~subs[s].update
Uncompleted(s) == subs[s].answer # "resp" /\ ~subs[s].update

\* A visit of a late entry that is completed would change nothing.
CleanVisit(i) ==
  /\ up
  /\ i \in clean.todo \/ (i \in clean.late /\ register[i] # None /\ Uncompleted(register[i]))
  /\ clean.obj = None
  /\ LET s == register[i]
         n == Cardinality(subs[s].eps)
     IN  IF s # None /\ Uncompleted(s)
         THEN /\ clean' = [clean EXCEPT !.todo = @ \ {i}, !.late = @ \ {i},
                                   !.obj = s, !.size = n]
              /\ pinned' = {s}
              /\ merged' = IF n > 1 THEN merged \cup {i} ELSE merged
         ELSE /\ clean' = [clean EXCEPT !.todo = @ \ {i}, !.late = @ \ {i}]
              /\ UNCHANGED <<merged, pinned>>
  /\ UNCHANGED <<lockVars, regVars, goVars, xappVars, envVars, e2, sweep, events, raced, up,
                 restarts, held>>

\* SendSubscriptionDeleteReq ranges over the list of endpoints, from which each
\* delete takes one: DelEndpoint puts the last into its place and leaves a blank
\* entry behind.
EpList == subs[clean.obj].eps
AtEntry(c) == clean.at < Cardinality(EpList) /\ Endpoint[c] \in EpList \ clean.passed
Blank    == clean.at >= Cardinality(EpList)

\* handleXAPPSubscriptionDeleteRequest: the delete of one endpoint starts, if the
\* id is still registered.
CleanDelete(c) ==
  LET i    == subs[clean.obj].id
      s    == register[i]
      e    == Endpoint[c]
      rest == EpList \ (clean.passed \cup {e})
  IN
  /\ clean.obj # None
  /\ clean.busy = None
  /\ clean.at < clean.size
  /\ AtEntry(c)
  /\ pc[c] = "idle"
  /\ rmutex = None
  /\ IF s # None /\ IsE2ConnectionUp
     THEN /\ op' = [op EXCEPT ![c] = "delete"]
          /\ cur' = [cur EXCEPT ![c] = s]
          /\ count' = [count EXCEPT ![c] = subs[s].del]
          /\ Goto(c, "begin")
          /\ \E last \in IF rest = {} THEN {{}} ELSE {{l} : l \in rest} :
               clean' = [clean EXCEPT !.at = @ + 1, !.passed = @ \cup last, !.busy = c]
     ELSE /\ clean' = [clean EXCEPT !.at = @ + 1, !.passed = @ \cup {e}]
          /\ UNCHANGED <<op, cur, count, pc>>
  /\ UNCHANGED <<lockVars, regVars, seen, event, xappVars, envVars, e2Vars, up, restarts,
                 merged, held>>

\* The delete of a blank endpoint, which the subscription does not have, changes
\* nothing.
CleanBlank ==
  /\ clean.obj # None
  /\ clean.busy = None
  /\ clean.at < clean.size
  /\ Blank
  /\ clean' = [clean EXCEPT !.at = @ + 1]
  /\ UNCHANGED <<vars, up, restarts, merged, held>>

\* RemoveFromSubscription is told to wait for the route clean-up here.
CleanSleep(c) ==
  /\ clean.busy = c
  /\ pc[c] = "rm_clean"
  /\ Unlock
  /\ Goto(c, "c_sleep")
  /\ UNCHANGED <<smutex, turn, releasing, regVars, op, cur, seen, count, event,
                 xappVars, envVars, e2Vars, up, restarts, clean, merged, held>>

CleanWake(c) ==
  /\ pc[c] = "c_sleep"
  /\ rmutex = None
  /\ rmutex' = c
  /\ Goto(c, "rm_clean")
  /\ UNCHANGED <<smutex, turn, releasing, regVars, op, cur, seen, count, event,
                 xappVars, envVars, e2Vars, up, restarts, clean, merged, held>>

\* The procedure is over; no response goes to the xApp (NoRespToXapp).
CleanEnd(c) ==
  /\ clean.busy = c
  /\ pc[c] = "outcome"
  /\ Return(c)
  /\ clean' = [clean EXCEPT !.busy = None]
  /\ UNCHANGED <<lockVars, regVars, xappVars, envVars, e2Vars, up, restarts, merged, held>>

\* All the entries are done.
CleanNext ==
  /\ clean.obj # None
  /\ clean.busy = None
  /\ clean.at = clean.size
  /\ clean' = [Idle EXCEPT !.todo = clean.todo, !.late = clean.late]
  /\ pinned' = {}
  /\ UNCHANGED <<lockVars, regVars, goVars, xappVars, envVars, e2, sweep, events, raced, up,
                 restarts, merged, held>>

\* The loop ends: every restored entry is visited, and of the others those that
\* appeared in time.
CleanStop ==
  /\ clean.obj = None
  /\ clean.todo = {}
  /\ clean.late # {}
  /\ clean' = Idle
  /\ UNCHANGED <<vars, up, restarts, merged, held>>

-----------------------------------------------------------------------------
\* A request of client c starts.
Asks(c) == /\ pc[c] = "idle" /\ ops' # ops
           /\ pc'[c] # "idle" \/ told'[c] # told[c]

\* The manager that is up runs as in SubMgr, but for the end of a delete of
\* HandleUncompletedSubscriptions.
Run ==
  /\ up
  /\ Next
  /\ clean.busy # None /\ pc[clean.busy] = "outcome" => pc'[clean.busy] = "outcome"
  /\ held' = [c \in Clients |-> IF Asks(c) THEN {} ELSE held[c]]
  /\ UNCHANGED <<up, restarts, clean, merged>>

CleanUp ==
  \/ \E i \in Ids : CleanVisit(i)
  \/ \E c \in Clients : CleanDelete(c) \/ CleanSleep(c) \/ CleanWake(c) \/ CleanEnd(c)
  \/ CleanBlank \/ CleanNext \/ CleanStop

RNext == Run \/ Crash \/ Reading \/ CleanUp

RSpec == RInit /\ [][RNext]_rvars /\ WF_rvars(Reading)

-----------------------------------------------------------------------------
(* Properties *)

Cleaned == up /\ clean = Idle

\* The ids of restored subscriptions are not handed out again, nor are ids lost
\* by a restart (ReadAllSubscriptionsFromSdl takes them out of the pool).
IdsRestored ==
  up => NoIdLost /\ (events = 0 => UniqueInstanceIds)

\* A success an xApp was told of survives the end of the process at any moment,
\* the clean-up after the restart and whatever other xApps ask for then, until
\* its own xApp asks again: the subscription is registered and valid, with its
\* endpoint, and the E2 node has it (the record is written before the
\* notification).  A request that is repeated may keep another one's record
\* back until it ends; those restarts are left out.
SuccessSurvives ==
  up /\ events = 0 =>
    \A c \in Clients : \A i \in held[c] : Subscribed(c, i)

\* After a restart and its clean-up, when nothing is in progress, every
\* registered subscription has been completed (HandleUncompletedSubscriptions).
\* Of one that was merged before its first answer the clean-up leaves half of the
\* endpoints (SendSubscriptionDeleteReq ranges over the list it shrinks); those
\* are left out.
UncompletedGone ==
  Cleaned /\ Quiescent /\ events = 0 =>
    \A i \in Ids :
      LET s == register[i] IN
      s # None /\ i \notin merged => subs[s].answer = "resp" \/ subs[s].update

\* When nothing is in progress, the register, SDL and (until a restart forgets
\* which subscriptions have a route) Routing Manager agree on the endpoints, so
\* that another restart would find what there is.
RecordsRestored ==
  Cleaned /\ Quiescent /\ events = 0 =>
    \A i \in Ids :
      LET s   == register[i]
          eps == IF s = None THEN {} ELSE subs[s].eps
      IN  /\ IF s = None THEN db[i] = None
                         ELSE db[i] # None /\ db[i].eps = eps
          /\ restarts = 0 => routes[i] = eps

\* The manager comes up again whatever is on record: "In start up Subscription
\* Manager restores REST request ids, E2 subscriptions and their mapping from
\* db" (user-guide.rst).
RestartCompletes == ~up ~> up
=============================================================================
