# A TLA+ model of the O-RAN SC near-RT RIC

The repository collects the near-real-time RAN Intelligent Controller of the
O-RAN Software Community: some forty former repositories side by side, one
directory each.  This project models, checks and proves the parts whose logic is
concurrent and stateful: the heart of the platform, the Subscription Manager
(`ric-plt-submgr`), through which every xApp gets its data, and the library under
everything, RMR (`ric-plt-lib-rmr`).

## The system

| part | directory | state it keeps | operations | how it interacts |
|---|---|---|---|---|
| Subscription Manager | `ric-plt-submgr` | `Registry` (register, pool of ids, REST subscriptions), `Subscription` objects, `Tracker`, `DuplicateCtrl`, `E2IfState` | create, update and delete subscriptions, merge equal ones, clean up after E2 breaks, restore after a restart | REST from and to xApps, REST to Routing Manager, RMR to E2 Termination, SDL for records, RNIB notifications |
| Routing Manager | `ric-plt-rtmgr` | endpoints, routes, subscriptions | REST changes, route table distribution | called by submgr, e2mgr and appmgr; pushes tables to every RMR user |
| E2 Manager | `ric-plt-e2mgr` | RNIB: nodes, E2T instances and their associations | E2 setup, reset, E2T keep-alive and loss | RMR with E2 Termination, REST to Routing Manager, notifications through SDL |
| E2 Termination | `ric-plt-e2` | SCTP associations | message relay and ASN.1 | between E2 nodes and RMR |
| RMR library | `ric-plt-lib-rmr` | route tables, rings, wormholes | send, receive, call, route table updates | linked into every component |
| A1 Mediator | `ric-plt-a1` | policy types, instances, status | create, delete, status | REST north, RMR to xApps, SDL |
| Alarm manager | `ric-plt-alarm-go` | active alarms, history, definitions | raise, clear, suppress | RMR and REST |
| SDL | `ric-plt-sdl`, `-sdlgo`, `-sdlpy`, `-dbaas` | key-value store over Redis | get, set, compare-and-set, publish | used by all |
| the rest | | configuration, charts, codecs, xApps | | |

`PROJECT.json` lists every part with its status; what is left out is left out for
the reason given there.

### The hard behaviours of the Subscription Manager

A REST request starts one goroutine per request and one per E2 procedure.  They
share the register, the pool and the `Subscription` objects under two kinds of
mutex, `Registry.mutex` and one `Subscription.mutex` per object, plus `TransLock`,
which serialises the E2 procedures of one subscription.  The difficulties:

* requests with the same content merge into one subscription while others leave it;
* `Registry.mutex` is released in the middle of `AssignToSubscription` and
  `RemoveFromSubscription`, for a call to Routing Manager or a sleep, with the
  mutex of the object held;
* each of the E2 node, Routing Manager and SDL can fail at each step, and the
  steps taken before have to be undone;
* the sweep after an E2 break, `DeleteAllE2Subscriptions`, takes no mutex at all
  and relies on two counters that are changed without one;
* ids are taken from and returned to a pool by four different paths.

The component is correct when ids are neither lost nor handed out twice, an xApp
that was told of a success has a subscription, a registered subscription serves
exactly the xApps that own it, the records in SDL and Routing Manager agree with
the register, all of this survives a restart and lost messages, and every request
ends.

### The hard behaviours of RMR

RMR has a collector thread that makes messages of the bytes of many connections and
hands them to the application, another thread that replaces route tables under the
feet of the threads that send, and callers that wait for an answer with a time limit.
Nearly all of it is without locks: a ring with one writer, a pointer to the active
table with reference counts, a pointer in a chute.  It is correct when messages come
out of a stream as they went in, the ring is a queue and wakes its receivers, a call
returns its own answer or ends, and neither a table nor an entry is freed or changed
while somebody uses it.

`PROJECT.json` lists the hazards with the lines where they bite.

## The modules

| module | contents |
|---|---|
| `SubMgr` | the E2 procedures, the registry, the E2 state and the sweep; its properties |
| `SubRestart` | `SubMgr` with a process that ends at any moment and is restored from SDL |
| `E2Exchange` | the messages between the Subscription Manager and an E2 node |
| `RmrQueue` | what the message ring of RMR promises: a bounded queue |
| `RmrRing` | the ring, its collector thread and its receivers; implements `RmrQueue` |
| `RmrStream` | messages out of the bytes of a connection |
| `RmrCall` | calls with an answer, through a chute |
| `RmrRoute` | route tables, their collector and the threads that send |
| `SubMgrProofs` | the types, the mutexes and the pool of ids of `SubMgr`, proved |
| `SubMgrOwners` | who has a subscription in `SubMgr`, and what is on record, proved |
| `SubRestartProofs` | that the ids and the successes of `SubRestart` survive restarts, proved |
| `E2ExchangeProofs` | the three safety properties of `E2Exchange`, proved |
| `RmrRingProofs` | that the ring implements the queue and what becomes of wake-ups, proved |
| `RmrStreamProofs` | framing, promptness and bounds of `RmrStream`, proved |
| `RmrCallProofs` | the life of a message and the answer of a call in `RmrCall`, proved |
| `RmrRouteProofs` | reference counts and contents of the tables of `RmrRoute`, proved |
| `MCSubMgr`, `MCSubRestart`, `MCE2Exchange`, `MCRmrRing`, `MCRmrStream`, `MCRmrCall`, `MCRmrRoute` | instances for TLC |

How they fit together: `SubRestart` extends `SubMgr`, every action of which it takes
as it is (the variable `pinned` and the place `"c_sleep"` of `SubMgr` are there for it: an
object its clean-up refers to is not a free slot).  `E2Exchange` opens up the one step of
`SubMgr` that stands for the exchange with the node: its `RegisteredAtNode` and `SuccessIsOwn` are what `SubMgr` takes for
granted when an outcome is a success.  In RMR a message goes through `RmrStream`, then
into the ring (`RmrRing`) or a chute (`RmrCall`), while `RmrRoute` says where an
outgoing one is sent.

## The Subscription Manager

### SubMgr

A *client* is one E2 subscription that an xApp asks for.  The goroutine of its
REST request and the goroutine of its E2 procedure run strictly after one another
(the first waits for the event of the second), so they share a program counter
`pc`.  The one overlap, the deferred `ReleaseTransactionTurn` after the event has
been sent, is an action of its own.

State: `register`, `subIds` and `subs` are the fields of `Registry` and of the
`Subscription` objects; `rmutex`, `smutex` and `turn` are the locks; `cur`, `op`,
`seen`, `count` and `event` are the locals of the goroutines; `told` is what the
xApp has been notified of; `routes`, `db` and `node` are what Routing Manager, SDL
and the E2 node hold; `e2` and `sweep` belong to the E2 state.

| code | actions |
|---|---|
| `RESTSubscriptionHandler`, `SubscriptionDeleteHandler` | `StartCreate`, `StartDelete` |
| `AssignToSubscription`, `findExistingSubs`, `allocateSubs` | `AssignLock`, `AssignPolicy`, `FindExistingSubs`, `MergeLock`, `AllocateSubs`, `RouteCreate`, `AssignInsert` |
| `handleSubscriptionCreate` | `Begin`, `WaitTransactionTurn`, `GetCachedResponse`, `SendSubReq`, `SubReqOutcome`, `DeleteAtNode`, `UpdateSubscriptionInDB`, `RemoveSubscriptionFromDb`, `SendEvent` |
| `handleSubscriptionDelete` | `Begin`, `WaitTransactionTurn`, `CheckLastEndpoint`, `DeleteAtNode`, `SendEvent` |
| `RemoveFromSubscription` | `RemoveLock`, `RemoveEndpoint`, `RemoveWake`, `RemoveClean` |
| end of `handleSubscriptionRequest` | `End`, `Outcome`, `Done` |
| `NotificationCb`, `DeleteAllE2Subscriptions` | `E2Break`, `E2Connect`, `SweepVisit`, `SweepRoutes`, `SweepDelete`, `SweepReturn`, `SweepRecord`, `SweepEnd` |

A critical section that cannot block inside is one action whose guard is that its
mutex is free.  A section that waits (for the mutex of an object, for Routing
Manager, for the clean-up time) is split at the wait, so every lock order the code
has is in the model.  `findExistingSubs` releases the mutex of an object it can merge into
(`registry.go:347`) and `AssignToSubscription` takes it again (407), the registry's held:
the place `"merge"` lies between.

The sweep takes no mutex, so each of its accesses is a step: the routes, the entry of the
register, the read of the pool and its write (`subIds = append(subIds, subId)`,
`registry.go:652`), the record.  The deletion from the map and the read of the pool are
one step, because the code has nothing between them that another goroutine could tell
apart.  A request with `Registry.mutex` may write the pool between the sweep's read and
write; then the sweep's write undoes the other, is undone by it, or, its read having been
the later one in truth, follows it, and the history variable `raced` keeps that it
happened.  A data race in Go may also leave a torn slice header, or end the process at the
map (`concurrent map writes`): both are left out, as is a write to the pool that leaves it
as it was.

Abstractions.  The content of a request is a model value: equal contents are what
`IsMergeable` finds mergeable.  All clients talk to one E2 node.  The exchange with
the node, with its two tries, is one step with the outcomes the code tells apart:
accepted, refused, no answer (the node may or may not hold the subscription);
`E2Exchange` has the messages.  A client has one request at a time: the tracker, which
turns away a second one of the same subscription (`control.go:635`, `866`), is left out
with what it turns away.  Removing a record from SDL may fail and is only logged
(`control.go:1506`); writing one may fail as well, and what then follows is `SendEvent`'s
affair.  A success that finds the E2 connection down (`control.go:690`) removes the
subscription in `Outcome` and a second time in `Done` (702).
`Objects` are slots of a garbage-collected heap: a slot that nothing refers to is
reused.  An unsynchronised increment of a counter writes the current value plus one or, with the
fault `"race"`, the value that the goroutine had read earlier plus one.

Bounds.  `MaxOps` bounds the requests of all clients together, `MaxE2Events` the
breaks, `MaxId` the pool (65534 in the code), `Objects` the objects in use.  Four
requests let two clients create, merge, delete and come back; one id exhausts the
pool, which is where an id that is returned twice or too early is handed out again,
two ids let a fresh subscription and an old one exist side by side, and a policy and a
report be registered at once (`live`).  The objects are never all in use.  The run `down`
has one break and two requests of two xApps, so that a request is at every place while the
sweep is at every other.  Its `VIEW` leaves out what Routing Manager, SDL and the node
hold: the manager writes these three and never reads them while it runs, and `NoIdLost`
does not speak of them, so that states that differ in them only have the same futures as
far as the property goes.

Fairness.  Every goroutine that can run does (weak fairness of the Go scheduler),
and a goroutine that waits for a mutex gets it eventually, since `sync.Mutex` hands
the lock to a waiter that starves: together strong fairness of `Step(c)`.  Nothing
is assumed of xApps or of the E2 node's connection.

Properties:

* `TypeOK`: the types of all variables.
* `UniqueInstanceIds`: an id is in the pool at most once and not while it is in use.
* `NoIdLost`: every id is in the pool, registered, about to be registered or taken out by
  the sweep and about to be returned, unless the sweep's unlocked append has met another
  write of the pool (`raced`).
* `SuccessMeansSubscribed`: an xApp that was told of a success is an endpoint of a
  valid registered subscription that the E2 node holds.
* `EndpointsAreOwners`: at rest, the endpoints of a subscription are exactly those
  of the xApps that were told of it.
* `RecordsAgree`: at rest, SDL has a record of every registered subscription and of no
  other, its endpoints are on record, and those of a routed one have routes.  A merge
  whose route is refused may leave its endpoint on record.
* `RequestsComplete`: every request ends.

### SubRestart

The process may end between any two steps (`Crash`).  Everything in memory is gone; SDL,
Routing Manager, the E2 node and what xApps were told stay.

| code | actions |
|---|---|
| `ReadAllSubscriptionsFromSdl`, `CreateSubscription`, `removeNumber`: one record | `ReadRecord` |
| the error return of `ReadAllSubscriptionsFromSdl`, and the loop of `ReadE2Subscriptions` | `ReadAgain` |
| the end of `ReadE2Subscriptions` | `Restore` |
| `HandleUncompletedSubscriptions` | `CleanVisit`, `CleanNext`, `CleanStop` |
| `SendSubscriptionDeleteReq` | `CleanDelete`, `CleanBlank` |
| the delete procedure with `waitRouteCleanup` set and no response to the xApp | the actions of `SubMgr`, `CleanSleep`, `CleanWake`, `CleanEnd` |

The records come out of a Go map, so `ReadRecord` takes them in any order.  Nothing else
runs until `Restore`; a reading that fails leaves nothing behind (`Fresh`).

A delete of the clean-up is the procedure of `SubMgr`, run in the place of the client
the endpoint belongs to; the client's own requests come before or after it, which
leaves out the case that both are in progress at once.  `SendSubscriptionDeleteReq`
ranges over a list that each delete shortens (`DelEndpoint` of the xApp framework, an
external part, moves the last entry into the hole and blanks the last); `clean` keeps
the position in it.  `HandleUncompletedSubscriptions` ranges over the live register
(`control.go:228`, `365`): entries that requests add meanwhile, `late`, may be visited or
not, which is what Go promises of a map that grows under a loop; a loop that starts over
an empty map ends at once.

* `IdsRestored`: a restart neither loses ids nor hands out one that is in use.  An id that
  the sweep lost to a race is back: the pool is made from nothing.
* `RecordsRestored`: at rest after the clean-up, the records and the register agree.
* `UncompletedGone`: at rest after the clean-up, no uncompleted subscription is left,
  except one that was merged before its first answer (below).
* `SuccessSurvives`: a success told before the restart is still one after it, until its
  own xApp asks again.
* `RestartCompletes` (run `restart_full`, violated): the manager comes up again.
  `removeNumber` gives up on an id that is not less than the length of what is left of
  the pool, so one record with the highest id is enough to keep it from starting.

What the model shows besides: routes are not in the record, so that after a restart the
clean-up does not remove them, although the user guide (356-357) says so
(`RecordsRestored` compares routes only before the first restart); a request that is
repeated (`RetryFromXapp`, `control.go:1494`) keeps the record of another request from
being written until it ends, so restarts in that window are left out of
`SuccessSurvives`.

Bounds.  One restart and three requests of two xApps: the restart finds a completed and
an uncompleted subscription, merged or not, and requests arrive during the clean-up.
With three ids `removeNumber` has room for two records in one order and gives up in the
other, so that the reading is tried again.  The `VIEW` leaves out the routes after a
restart, which are written and never read and of which the properties do not speak then.
The only fairness is that of
`Reading`: `ReadE2Subscriptions` goes on.

### E2Exchange

One subscription, its successive procedures and every message they exchange with the
node (`sendE2TSubscriptionRequest`, `sendE2TSubscriptionDeleteRequest`,
`handleE2TSubscription...`, `Transaction.SendEvent` and `WaitEvent`).  Nothing in an
answer tells which request it belongs to: the goroutine that handles it takes the
transaction that has the turn.

| code | actions |
|---|---|
| `handleSubscriptionCreate`, `handleSubscriptionDelete` | `Start`, `Remove`, `ReleaseTransactionTurn` |
| `sendE2TSubscriptionRequest`, `sendE2TSubscriptionDeleteRequest` | `SendSubReq`, `SendDelReq`, `Timeout`, `StopTrying` |
| `handleE2TSubscriptionResponse`, `...Failure`, `...DeleteResponse`, `...DeleteFailure` | `Handle`, `SendEvent`, `GiveUp` |
| E2 Termination and the node (external) | `Receive`, `Lose` |

Requests reach the node in their order or are lost, answers are lost, delayed and
overtake each other.  The node accepts a request that it has accepted before.

* `RegisteredAtNode`: at rest, a registered subscription is at the node.
* `SuccessIsOwn`: a success is that of the request itself if nothing was under way when
  it began.
* `DeletedForGood`: after a delete that the node has answered as one nothing is left
  there and nothing on its way brings it back.
* `ProcedureEnds`: tries are limited and timed, so a procedure ends, whatever the
  network does.  Weak fairness of the goroutine and its timers; the network and the node
  promise nothing.

The conditions in `SuccessIsOwn` and `DeletedForGood` are needed: a late response to the
subscription request ends the wait of a delete, which is not tried again; a late failure
of an earlier try removes a subscription that the node accepts afterwards; an update of a
policy may take the answer to an earlier one.  Two tries of each request, as in the code,
and three procedures let an answer outlive its procedure by two.

## RMR

### RmrRing

`rmr_init` starts a collector thread that puts every received message into a ring of
4096 slots (`queue_normal`, `uta_ring_insert`) and posts a semaphore; the threads of
the application take messages out with `rmr_mt_rcv`: a poll (`max_wait` 0) goes
straight to the ring and takes a count of the semaphore afterwards, the others wait
for the semaphore first.  The receivers have a lock between them, `rgate`; between
them and the collector there is none, so every read and write of `head`, `tail` and
`data` that the other side can observe is a step of its own.

| code | actions |
|---|---|
| `queue_normal`, `uta_ring_insert` | `Arrive` (with the check for a full ring), `Store`, `AdvanceHead`, `WrapHead`, `Signal`, `Post` |
| `rmr_mt_rcv` | `Call`, `Woken`, `TimeOut`, `Pop` |
| `uta_ring_extract` | `Peek`, `Compare`, `Lock`, `Recheck`, `AdvanceTail`, `WrapTail`, `Drain`, `Take`, `Clear` |

`r->head++` and `r->head = 0` are two stores in a build without optimisation, which
is what `CMakeLists.txt` gives by default, and may be one in an optimised build: the
constant `SplitStores` chooses.  Stores of a thread are seen in their order (x86).

The look at the ring before the lock is taken, `r->tail == r->head`
(`ring_static.c:192`), is two loads, in the order the compiler likes: `Peek` and `Compare`.
Between them another receiver may move `tail` and the collector `head`, and a receiver
that has got the semaphore may find the two equal although the ring is not empty.  It
returns without a message, and its count of the semaphore is gone.  Two history variables
keep this: `overtaken`, the receivers during whose look `tail` moved, and `missed`, how
many looks have sent away a receiver with a count.

`RmrQueue` is the specification: a message that arrives is appended or, when the
queue is full, dropped; a receiver takes the first one.  The refinement mapping reads
the queue off `data` between `tail` and `head`; a message counts as taken when `tail`
moves past it, although its slot is read some steps later.  That it is still there
then is what the slot that always stays free is for.

* `IsQueue`: the ring implements `RmrQueue`.
* `WakeUpsCover`: every message in the ring has a count of the semaphore, a receiver
  on its way or a post to come, but for one message for each look that sent a receiver
  away.
* `WokenFindsMessage`: a receiver that got the semaphore returns with a message, unless
  another receiver moved `tail` between the two loads of its look.  In particular the look
  again under the lock never disappoints it, and a lone receiver is never sent away.
* `CounterMaintained`: at rest the event descriptor counts the messages.
* `Delivered`: every message in the ring is taken, but for as many as looks have sent
  receivers away; these wait until another one arrives.

Without the exception the first, the second and the last are violated: with a ring of
three, one receiver loads `tail`, another takes the message, the collector wraps `head` to
what the first one has loaded.  `IsQueue` and `CounterMaintained` need no exception, because
what moves `tail` is decided by the second look, under `rgate`.

The last four are promises to receivers that wait.  As soon as one polls they fail: the
poll takes the message first and a count afterwards, and the count may be that of
another message.

Three slots and four messages fill the ring, let it wrap and drop
messages; two receivers meet at the lock and at the look.  `Delivered` assumes that the threads run
and that the application calls again (weak fairness); nothing is assumed of the order
in which the lock and the semaphore serve those that wait.

### RmrStream

`mt_data_cb` gets the bytes of a connection in pieces of any size, and keeps a *river*
for each descriptor: the bytes of an unfinished message, or of an unfinished length
field.  `mt_disc_cb` resets it.  A byte is its position in the stream, so a byte that is
lost, doubled or taken from another message shows.  `Turn` is one turn of the loop
(`TakePartOfSize`, `TakeMessage`).

* `Framed`: the messages given to `buf2mbuf` are those that were sent, also after a
  connection that broke in the middle of one.
* `NoneHeldBack`: when the callback returns, every complete message has been given.
* `InBounds`: the accumulator has room for what is copied, for huge messages too.

The frames of a peer are taken to be well formed: the handling of a negative length
(`RS_RESET`) is not modelled, nor are the drops of a river whose memory ran out.  Two
descriptors, each with two connections, and messages of the smallest, of a usual and of a
huge size, in every way of cutting them up.

### RmrCall

`rmr_mt_call` sends a message and waits in a chute.  The collector stores every message
with the call id there and posts a semaphore; each access to `chute->mbuf` is a step.

| code | actions |
|---|---|
| end of `buf2mbuf` | `Store`, `Post` |
| `mt_call` | `Begin`, `FreeDelayed`, `ClearDelayed`, `Send`, `Loop`, `Woken`, `TimeOut`, `Interrupted`, `Vet`, `Compare`, `Reject`, `Rejected`, `Leave`, `Taken` |

* `MessageOwned`: a message is freed or returned once, and never used after that.
* `OwnAnswerUnlessStray`: a call returns its own answer, unless an answer to an earlier
  call arrives while it runs.
* `AnswerEndsCall`: a call whose answer arrives ends, also one without a time limit.
* `TimedCallEnds`: a call with a limit ends.

The exception is real: a late answer that is stored after the chute was cleared and
before the loop is tested is returned without a look at its transaction id
(`rmr_si.c:1147`).  A signal that comes together with the answer makes the call return
NULL.  `max_wait` 0 is a limit that has passed at once, although a comment
(`rmr_si.c:1183`) says that it means none.  A message that overwrites another is lost to
the heap.  Three calls, three messages, answers that come twice and one signal; weak
fairness of the caller, its timer and the collector.

### RmrRoute

The route table collector builds a table from records and rolls it in, while threads send
by the active or still by the old one.

| code | actions |
|---|---|
| `parse_rt_rec`, `meid_parser`, one record | `StartTable`, `AddEntry`, `DelEntry`, `SetMeid`, `EndTable`, `RefuseTable` |
| `prep_new_rt` | `StartTable` up to the wait, `PrepNewRt` from it on |
| the route manager, `rmr.go` | `Begin`, `Record`, `Ended` |
| the way from the route manager (external) | `LoseRecord` |
| `mtosend_msg` | `GetRt`, `FindRte`, `SendGroup`, `CloneFails` |

Three ghosts, which no guard reads, compare the result with what the route manager
describes: `want` is the table it is sending, `meant` the last one that ended, and
`right` the spaces (`"mt"`, message types; `"me"`, meids) for which the collector owes it
that table.  A space stops being right when a table about it ends that was loaded in
error, or that lost a record and has no count; an update cannot make it right again, the
next complete `newrt` can.

* `TablesInUse`: `ref_count` counts the users; nobody uses a table that is being filled.
* `EntriesCounted`: `refs` counts the tables with the entry; no table and no entry leaks.
* `EntryStable`: an entry stays as it was found until its sender is done with it.
* `ActiveAsMeant`: the active table is what the route manager last described, in each space
  that is right.
* `DrainEnds`: the wait for the senders in the old table ends.

Abstractions.  One message type; endpoints are never freed and have no connection state,
so which of a group is picked by the round robin and the status a send returns are left
out.  Records of every kind may be lost, a start record is taken to arrive: an end record
that has a count and comes without its start dereferences a NULL `new_rtable`
(`rt_generic_static.c:1006`, for a meid map 778), and what the records of a table without
its start do to the one before is not modelled.  Without an active table a send ends at
once.  The lock in `get_rt` makes it one step with `release_rt` and `roll_tables`.  The
route manager of this repository gives a count for a meid map (`rmr.go:128`) and none for
the others (95, 173), so that a route table that lost a record is accepted as it stands
and answered with OK, as is one in error that is not rolled in: then `ActiveAsMeant`
promises nothing of that space until a complete `newrt` has come, and keeps its promise of
the other.

Bounds.  Two senders, two keys, two tables (three are never live), three entries, three
tables of one record each, and every clone may run out of memory.  Weak fairness of the
senders in a call and of the collector in `prep_new_rt`.

## Runs

| run | question | answer |
|---|---|---|
| `merge` | two xApps with equal content, one id, refused routes and requests that cannot be packed | all six invariants hold |
| `live` | a policy and a report, registered at once | an accepted policy survives a failed update; every request ends |
| `down` | the E2 connection breaks or resets while requests merge, counters race and SDL may fail | no id is lost but in a race of the sweep's append |
| `lockorder` | requests that merge | **violated** (`RequestsComplete`): two requests wait for each other's mutex for ever |
| `restart` | the process ends at any moment | ids, records and successes are restored, what was not completed is cleaned up |
| `restart_full` | a restart with a subscription on record whose id is the last of the pool | **violated** (`RestartCompletes`): the manager never comes up |
| `exchange` | lost, late and reordered messages with an E2 node | the four properties of `E2Exchange` hold |
| `ring_queue` | polls and blocking calls, indexes wrap in one store | the ring is a bounded queue |
| `ring_wait` | calls that wait, with and without limit, indexes wrap in two stores | a queue, wake-ups lost to an overtaken look only, the event descriptor exact, every other message in the ring is taken |
| `stream` | bytes in any pieces, broken connections | messages come out as they went in |
| `call` | late and repeated answers, time limits, a signal | the four properties of `RmrCall` hold |
| `route` | tables that are replaced while two threads send | the five properties of `RmrRoute` hold |

The violated properties state what the user guide or a comment says; `findings` in
`PROJECT.json` quotes it.  Deadlock is not checked: xApps that have used up their
requests, receivers without messages and peers that say nothing more may leave the system
at rest.

Other instances show where the limits of the properties are.  They are not among the
runs, and each is a change of a constant or of one condition:

* `SubMgr` with `E2Events = {"down"}`: `UniqueInstanceIds` fails, the sweep returns an id
  that the request returns again (`registry.go:651`, `652`); with `{"reset"}` a subscription
  that is being created outlives the reset (`registry.go:634`); with E2 events the
  requests of `live` meet the deadlock of `lockorder`;
* `SubMgr`, `down` without the condition `~raced`: `NoIdLost` fails, a request takes an id
  while the sweep appends to the pool, and the sweep's id is gone (`registry.go:652`);
* `SubMgr` with the fault `"race"`: an increment is lost, and a counter is not zero with
  nothing in progress, so that the sweep passes over the subscription (`registry.go:634`);
* `SubMgr` with the fault `"sdl"`: `SuccessMeansSubscribed` fails, the xApp is told of a
  success although the record could not be written and the subscription was deleted
  (`control.go:1188`);
* `SubMgr` with a policy and the fault `"pack"` (`live` with `Faults = {"pack"}`):
  `SuccessMeansSubscribed` fails.  An update that cannot be packed makes the subscription
  invalid without a look at `PolicyUpdate` (`control.go:1153`), which the failure and the
  time-out respect: the manager forgets a policy that the E2 node keeps and returns its id,
  although a comment (`control.go:699`) says that a policy that was created "must be
  deleted on both sides";
* `SubRestart` without the exception of `UncompletedGone`: two merged endpoints of a
  subscription without an answer; the first delete sees two endpoints and sends nothing
  to the node, the second finds a blank entry, the subscription stays.  The user guide
  (356-357) says that it is deleted at the node;
* `RmrRing` without the exceptions for `missed` and `overtaken`: `WakeUpsCover`,
  `WokenFindsMessage` and `Delivered` fail, the look takes `tail` of one moment and `head`
  of another (`ring_static.c:192`);
* `RmrRing` with polls: `WakeUpsCover` fails (`rmr_si.c:980`); with polls and
  `SplitStores = TRUE` so does `IsQueue` (`ring_static.c:270`), a poll takes an empty
  slot;
* `RmrCall` without `stray`: an answer to another call is returned.

## Proofs

Every safety property of the passing runs is a theorem, except `UncompletedGone` and
`RecordsRestored` of `SubRestart`.  The theorems hold for every value of the constants that the
named assumptions allow, the bounds included: for any number of clients, receivers,
senders, descriptors, messages, tries, ids and so on.

### SubMgr

For every combination of faults, where nothing else is said:

* `TypeCorrect` (`SubMgrProofs`): `Spec => []TypeOK`.  The types alone are not
  inductive, because an id is read through the object a goroutine works on; the
  inductive invariant `TypeInv` adds `ObjectsInUse`: a goroutine past its search
  has an object, and every object that is referred to has an id.
* `MutexesHeld` (`SubMgrProofs`): `LockInv` says at which places of the code a
  goroutine holds which mutex.  It is inductive with `TypeInv`, since a mutex is
  taken only when free and released only by its holder, and a new object comes from
  the slots nobody refers to.
* `IdsKept`: `Spec => []NoIdLost`.  Each path that empties an entry of the register
  returns the id, and each path that takes one from the pool is on the way to
  register it.  E2 breaks are included: between the steps of the sweep the id it has taken
  out is accounted for by `Returning`, and as long as its append has met no other write of
  the pool what it writes is the pool with that id added.  Once it has, nothing is said any
  more, since an id may then really be lost.
* `IdsUnique`: `Spec => []UniqueInstanceIds` if no E2 connection breaks
  (`E2Events = {}`).  The inductive invariant `IdInv` needs to know that entries are
  filed under their own ids (`RegisteredIds`), that the search sees registered
  objects only (`FoundRegistered`), that a new subscription has one endpoint
  (`AllocatedEps`), and above all that an object outside the register has no
  endpoints left (`LeftEmpty`): this is why the second `RemoveFromSubscription` of a
  failed request finds nothing to remove and does not return the id again.  With
  `E2Events = {"down"}` TLC finds an id twice in the pool.
* `SuccessHolds` and `OwnersListed` (`SubMgrOwners`): `Spec => []SuccessMeansSubscribed`
  and `Spec => []EndpointsAreOwners`, if `Orderly`: no E2 connection breaks, SDL does not
  fail, requests can be packed or none is for a policy, and no two clients have the same
  endpoint and content.  TLC has a counterexample without each of the first three (see the
  other instances above); the fourth says that a client is all an xApp asks for with
  one content, as it is defined.  Routing Manager may refuse anything, requests of any
  kind that do not concern policies may not be packable, and counters may race.  The runs
  `merge` and `live` are instances.
  The inductive invariant `OwnInv` goes with `TypeInv`, `LockInv` and `IdInv`.  It says
  what a goroutine knows of its object at each place (`Working`), that one procedure at
  a time has the turn of an object (`Turns`), how the cached answer and validity go
  together (`Answered`), that what an xApp was told of is registered and valid
  (`Told`), and for every endpoint of an object which client put it there and is at work
  on it or was told of it (`Owned`).  Three facts carry the proof.  While one request
  settles the answer, its turn keeps the others off.  A request that removes its
  endpoint was not told of the id (`Gone`).  And an object that a client is listed in,
  with its content, is one object, not two (`Home`, `Apart`), so that a delete that
  finds its endpoint to be the last (`Alone`) takes nothing from another.
* `RecordsKept` (`SubMgrOwners`): `Spec => []RecordsAgree`, if `Orderly` and
  `UniformRoutes`: xApps with the same content all have routes or all have none.  A merged
  subscription keeps what its first xApp wanted (`RMRRouteCreated`), so that without the
  second hypothesis the routes of a later one depend on who came first.  While requests are
  in progress the record is behind the object, and the inductive invariant `RecInv` says
  who will make up for it: for every endpoint of a registered subscription, it is on
  record, or its own request is still joining, or the whole list is due to be written
  (`WriteDue`).  The last is the hard part.  A repeated request raises a flag on the
  object, at which the next request to write clears the flag and does not write.  So a
  write is due if a request is about to remove its endpoint (which writes the list), if one
  is about to write and the flag is down, or if two are about to write.

### SubRestart

`SubRestartProofs`, for any number of restarts:

* `IdsSurviveRestart`: `RSpec => []IdsRestored`, for every combination of faults and E2
  breaks, except that after a race of the sweep's append ids may be missing until the next
  restart, which makes the pool anew.  `RestartInv` takes `TypeInv`, `LockInv` and `IdInv` of `SubMgr` over the steps of
  the clean-up, and adds that nothing runs while records are read.  The lemma on
  `removeNumber` (`PoolWithout`) says that the pool without one id has every other id still,
  none of them twice if none was before.  `IdInv` holds after the reading because the objects outside the register
  are unused then.
* `SuccessSurvivesRestart`: `RSpec => []SuccessSurvives`, if `Orderly`.  The argument has
  two halves.  Up to the first end of the process, `OwnInv` holds and with it `KnownInv`: of
  a success that was told, or is just being reported, there is a record that restores it
  (`GoodRecord`: content, endpoint, valid, and answered or a policy), or a repeated request
  is to write it (`RepeatDue`); the record is written before the event is sent.  From then
  on `OwnInv` no longer holds, since a process may end between the record and the
  notification and leave endpoints that nobody was told of.  `HeldInv` needs less.  It
  says of a success that is held: its record is good, the node has it, no other object
  has its id, the clean-up does not work on it, and whoever is at work on it is another
  client with the same content that is not at a place where it could end the
  subscription (`Harmless`).  A delete of another endpoint never gets to such a place,
  because it sees two endpoints in the list; a request that merges finds the answer
  cached; the clean-up passes over what has an answer.  The run `restart` is an instance.

### E2Exchange

`E2ExchangeProofs`, with the one inductive invariant `ExchangeInv`:

* `TypeCorrect`: `Spec => []TypeOK`.
* `RegisteredIsAtNode`: `Spec => []RegisteredAtNode`.  As long as the first delete request
  has not been sent (`Live`) nothing on its way can be one (`NothingDeleted`), and what
  the node accepted it keeps (`Accepted`), whether the answer is on its way, offered to
  some transaction or lost.
* `SuccessOfOwn`: `Spec => []SuccessIsOwn`.  If nothing was under way, all requests on
  their way are of this procedure, and so is what a positive answer speaks of
  (`AloneIsOwn`).
* `DeleteIsFinal`: `Spec => []DeletedForGood`.  Requests keep their order, so that behind
  a delete request come only delete requests (`DeletesLast`), and an answer to one means
  that the node has nothing and will get nothing (`DeleteAnswered`).

Tries and procedures are bounded by constants of any value, and the messages under way
not at all.

### RmrRing

`RmrRingProofs`, for every number of receivers, slots and messages:

* `TypeCorrect`: `Spec => []TypeOK`, in every mode, also when an index wraps in two
  stores.  The invariant adds who holds the read lock (`GateHeld`) and that an index is
  past the end only while it wraps (`IndexesIn`).
* `RingIsQueue`: `Spec => IsQueue` if an index wraps in one store or nobody polls
  (`SafeUse`); with two stores and polls TLC finds a counterexample.
  The inductive invariant `QueueInv` says that there is room while the collector
  stores (`RoomToStore`: receivers only make more room after the check) and that the
  slot a receiver reads after it has moved `tail` is the one just behind `tail`
  (`SlotBehindTail`).  With the free slot the collector can therefore neither fill
  that slot nor lose what a receiver clears.  On top of it `HeadMoves` and
  `TailMoves` show that the two index updates are `Append` and `Tail` on the sequence
  between the indexes, and `CollectorMaps` and `StepMaps` map every action.  With two
  stores an index is past the end for a moment; that nobody is misled by it then follows
  from the count of the semaphore (`Counted`): a receiver that was woken has a message.
* `WakeUpsAreCovered`, `WokenAreServed`, `CounterIsMaintained`: `WakeUpsCover`,
  `WokenFindsMessage` and `CounterMaintained`, if nobody polls, with one store or two.
  `Counted` is the account of the semaphore behind the first: the messages are its counts,
  the receivers on their way, the post to come and the looks that missed; it has the
  account of the event descriptor, behind the third, beside it.  The second needs in addition that a receiver between its two
  loads that nobody has overtaken has loaded the `tail` there still is, or saw a `head` that
  has only moved away from it since, and that the queue never gives an empty slot, which is
  shown of `RmrQueue` and carried over by the refinement (`Filled`).

### RmrStream

`RmrStreamProofs`, for any set of streams and every way of cutting them up, with the
inductive invariant `StreamInv`:

* `TypeCorrect`, `MessagesAreWhole` (`Framed`), `NothingIsHeldBack` (`NoneHeldBack`) and
  `CopiesFit` (`InBounds`).  At every turn of the loop the bytes of a connection are the
  messages given out, the bytes in the river, the bytes left in the buffer of the callback
  and the bytes to come, in this order (`Progress`, `Collected`, `BufferRest`), and the
  handled bytes end before the end of the next message.  The lemmas about runs of bytes
  (`BytesJoin` and so on) are what the copies of `mt_data_cb` come down to.

### RmrCall

`RmrCallProofs`:

* `TypeCorrect`: with `Kept`: only the caller empties the chute, so that between its
  test and its use the message may be replaced but not gone.
* `OwnedOnce`: `Spec => []MessageOwned`.  What the caller has freed or given away stays in
  the chute until its next step only (`LiveInChute`).
* `AnswerIsOwn`: `Spec => OwnAnswerUnlessStray`, an action property: a message that came to
  the chute since the call began is its answer, or another one is, and then `stray` is set
  (`SinceBegin`).

### RmrRoute

`RmrRouteProofs`, with the inductive invariant `RouteInv`:

* `TypeCorrect`: the type of `refs` says that no count falls below zero, which follows
  from counting only, so the induction takes it as an integer (`Types`).
* `TablesAreCounted` and `EntriesAreCounted`: `TablesInUse` and `EntriesCounted`.  The
  collector's tables are different ones (`TablesApart`) and an entry has one key in a table
  (`OneKey`), so that cloning and clearing a table change each count by one at most.
* `EntryIsStable`: `EntryStable`.  The table of a sender is active, old or draining, none of
  which is written to, and it holds the entry (`SenderHolds`).
* `ActiveIsAsMeant`: `ActiveAsMeant`.  What it says is conditional on `right`, which depends
  on what was lost and counted and never on what the collector built.  As long as no record
  is lost and the clone was whole, the table under construction is what has been described
  so far in the spaces that are right; if one is lost, fewer updates have been counted than
  sent, so that a count gives the loss away (`AsMeant`).  The work is in the clones and
  rolls: a table starts as a copy of the active one, which shares entries with it, and may
  replace it, be refused or be dropped.

### Assumptions

The assumptions on the constants are `ClientsAssumption`, `BoundsAssumption`,
`NoneAssumption` and `RecordAssumption` (no record is the value for a missing one) of
`SubMgr`, `RestartAssumption` of `SubRestart`, `TryAssumption` of `E2Exchange`,
`RingAssumption`,
`StreamAssumption` (a message is not shorter than its length field, and messages follow
one another), `CallAssumption` and `RouteAssumption`.  TLC evaluates them in the runs.

### Only model-checked

`UncompletedGone` and `RecordsRestored` of `SubRestart`.  Both speak of subscriptions that
nobody was told of.  After a restart these have endpoints without an owner, to which
`OwnInv` and `RecInv` do not apply; their proof needs an account, in the place of `Owned`,
of which delete of the clean-up is to take which endpoint, while requests of the same
xApps come before and after it.  `RecordsRestored` is also stronger than `RecordsAgree`: it
asks for the same endpoints on record, which holds only if Routing Manager refuses nothing.
`RequestsComplete`, `RestartCompletes`, `ProcedureEnds`, `Delivered`, `AnswerEndsCall`,
`TimedCallEnds` and `DrainEnds` are liveness properties under fairness and out of the
prover's reach.

## Not modelled

* In the Subscription Manager: REST subscriptions and the lookup of repeated requests
  (`DuplicateCtrl`), in whose place a client of `SubMgr` may ask, repeat and delete
  at any time; several E2 nodes; `handleE2TSubscriptionDeleteRequired`; a clean-up
  delete and a request of the same endpoint in progress at once; metrics, the debug
  interface and configuration.
* In RMR: the state of a connection.  `uta_link2` opens an endpoint under its lock, then
  `uta_epsock_rr` sets `open` again without it (`rtable_si_static.c:379`): a disconnect in
  between leaves an endpoint that is open with socket -1.  It is listed among the hazards
  and needs a model of its own.  Wormholes, `rmr_rts_msg`, health checks and the transport
  library below the callbacks are left out too.
* E2 Manager, E2 Termination, Routing Manager, the A1 Mediator and the alarm manager have
  state of their own that would bear a model; here they appear as what the Subscription
  Manager and RMR see of them.
* Codecs and generated code, charts, scripts and the xApps have no state machine worth
  checking.

Theorems worth proving next: `UncompletedGone` and `RecordsRestored`, with an invariant that
says of each endpoint after a restart whether a client, or the clean-up, is to answer for it.
