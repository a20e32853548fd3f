------------------------------ MODULE RmrRing ------------------------------
(***************************************************************************)
(* The message ring of RMR (ric-plt-lib-rmr): the collector thread puts a  *)
(* message into the ring and posts the semaphore of chute 0 (queue_normal, *)
(* uta_ring_insert); the receivers of an application take messages out     *)
(* (rmr_mt_rcv, uta_ring_extract) as they poll, wait for some time or wait *)
(* for ever.                                                               *)
(*                                                                         *)
(* The ring has a lock between the receivers, rgate, and none between them *)
(* and the collector: every access to head, tail and data is a step.       *)
(***************************************************************************)
EXTENDS Integers, Sequences, FiniteSets

CONSTANTS
  Receivers,     \* the threads that receive
  NElements,     \* ring_t.nelements; 4096 in the code
  MaxMsgs,       \* bound: messages that arrive
  Modes,         \* how receivers call, of {"poll", "timed", "block"}
  SplitStores,   \* whether index++ and the wrap to 0 are two stores, as in a
                 \* build without optimisation
  Nil            \* NULL, no receiver and no message

ASSUME RingAssumption ==
  /\ NElements \in Nat \ {0, 1}
  /\ MaxMsgs \in Nat
  /\ Modes \subseteq {"poll", "timed", "block"}
  /\ SplitStores \in BOOLEAN
  /\ Nil \notin Receivers
  /\ Nil \notin Nat

VARIABLES
  head,      \* ring_t.head: where the next message goes
  tail,      \* ring_t.tail: where the next message comes from
  data,      \* ring_t.data
  rgate,     \* ring_t.rgate: the receiver that holds it, or Nil
  pfd,       \* the counter of the ring's event file descriptor
  barrier,   \* the semaphore of chute 0
  arrived,   \* messages that have arrived; the last one is in insertion
             \* unless the collector waits for input
  wpc,       \* where the collector is
  rpc,       \* where each receiver is
  mode,      \* how it called
  ti,        \* its index into data
  got,       \* the message it has taken
  taken,     \* the messages taken, in the order of the read lock
  result,    \* how its last call ended
  looked,    \* the index it has loaded, while it looks at the ring unlocked
  overtaken, \* history: receivers with a count of the semaphore whose look
             \* another one overtook: tail moved between the two loads
  missed     \* history: receivers with a count whose look has sent them away

writerVars == <<head, arrived, wpc>>
lookVars   == <<looked, overtaken, missed>>
readerVars == <<tail, rgate, rpc, mode, ti, got, taken, result, lookVars>>
vars       == <<writerVars, readerVars, data, pfd, barrier>>

Slots    == 0..NElements - 1
Messages == 1..MaxMsgs

-----------------------------------------------------------------------------
(* The collector thread: queue_normal and uta_ring_insert *)

\* The ring is full when one slot is left.  The mutant uses that slot too.
FullNoGap(h, t) == FALSE

Full(h, t) == h + 1 = t \/ (h + 1 >= NElements /\ t = 0)

\* A message arrives; it is freed when the ring is full.
Arrive ==
  /\ wpc = "idle" /\ arrived < MaxMsgs
  /\ arrived' = arrived + 1
  /\ wpc' = IF Full(head, tail) THEN "idle" ELSE "store"
  /\ UNCHANGED <<head, readerVars, data, pfd, barrier>>

\* The message goes into its slot.
Store ==
  /\ wpc = "store"
  /\ data' = [data EXCEPT ![head] = arrived]
  /\ wpc' = "advance"
  /\ UNCHANGED <<head, arrived, readerVars, pfd, barrier>>

\* An index moves on; in a build without optimisation it holds NElements
\* for a moment when it wraps.  The mutant wraps one slot late.
WrappedLate(i) == IF i + 1 > NElements THEN 0 ELSE i + 1

Wrapped(i) == IF i + 1 >= NElements THEN 0 ELSE i + 1

AdvanceHead ==
  /\ wpc = "advance"
  /\ \/ /\ SplitStores /\ head + 1 >= NElements
        /\ head' = head + 1
        /\ wpc' = "wrap"
     \/ /\ ~(SplitStores /\ head + 1 >= NElements)
        /\ head' = Wrapped(head)
        /\ wpc' = "signal"
  /\ UNCHANGED <<arrived, readerVars, data, pfd, barrier>>

WrapHead ==
  /\ wpc = "wrap"
  /\ head' = 0
  /\ wpc' = "signal"
  /\ UNCHANGED <<arrived, readerVars, data, pfd, barrier>>

\* The event descriptor counts up.
Signal ==
  /\ wpc = "signal"
  /\ pfd' = pfd + 1
  /\ wpc' = "post"
  /\ UNCHANGED <<head, arrived, readerVars, data, barrier>>

\* sem_post; the mutant posts only when somebody could be waiting already.
PostWhenEmpty == IF barrier = 0 THEN 1 ELSE barrier

PostCount == barrier + 1

Post ==
  /\ wpc = "post"
  /\ barrier' = PostCount
  /\ wpc' = "idle"
  /\ UNCHANGED <<head, arrived, readerVars, data, pfd>>

Collector == Arrive \/ Store \/ AdvanceHead \/ WrapHead \/ Signal \/ Post

-----------------------------------------------------------------------------
(* A receiver: rmr_mt_rcv and uta_ring_extract *)

Goto(r, l) == rpc' = [rpc EXCEPT ![r] = l]

\* The call returns with or without a message.
Return(r, how) ==
  /\ Goto(r, "idle")
  /\ result' = [result EXCEPT ![r] = how]

\* A poll looks at the ring at once, the others wait for the semaphore.
Call(r, m) ==
  /\ rpc[r] = "idle"
  /\ mode' = [mode EXCEPT ![r] = m]
  /\ got' = [got EXCEPT ![r] = Nil]
  /\ Goto(r, IF m = "poll" THEN "peek" ELSE "wait")
  /\ overtaken' = overtaken \ {r}
  /\ UNCHANGED <<writerVars, tail, rgate, ti, taken, result, data, pfd, barrier, looked,
                 missed>>

\* sem_wait or sem_timedwait got the semaphore.
Woken(r) ==
  /\ rpc[r] = "wait" /\ barrier > 0
  /\ barrier' = barrier - 1
  /\ Goto(r, "peek")
  /\ UNCHANGED <<writerVars, tail, rgate, mode, ti, got, taken, result, data, pfd, lookVars>>

\* sem_timedwait ran out of time.
TimeOut(r) ==
  /\ rpc[r] = "wait" /\ mode[r] = "timed" /\ barrier = 0
  /\ Return(r, "timeout")
  /\ UNCHANGED <<writerVars, tail, rgate, mode, ti, got, taken, data, pfd, barrier, lookVars>>

\* The look at the ring before the lock is taken: tail == head is two loads, in
\* the order the compiler chooses, while the collector and the receiver inside go
\* on.
Peek(r) ==
  /\ rpc[r] = "peek"
  /\ \/ looked' = [looked EXCEPT ![r] = tail] /\ Goto(r, "peek_head")
     \/ looked' = [looked EXCEPT ![r] = head] /\ Goto(r, "peek_tail")
  /\ UNCHANGED <<writerVars, tail, rgate, mode, ti, got, taken, result, data, pfd, barrier,
                 overtaken, missed>>

Compare(r) ==
  /\ rpc[r] \in {"peek_head", "peek_tail"}
  /\ LET other == IF rpc[r] = "peek_head" THEN head ELSE tail IN
     \/ /\ looked[r] = other
        /\ Return(r, "empty")
        /\ missed' = IF mode[r] = "poll" THEN missed ELSE missed + 1
        /\ UNCHANGED overtaken
     \/ /\ looked[r] # other
        /\ Goto(r, "lock")
        /\ overtaken' = overtaken \ {r}
        /\ UNCHANGED <<result, missed>>
  /\ looked' = [looked EXCEPT ![r] = 0]
  /\ UNCHANGED <<writerVars, tail, rgate, mode, ti, got, taken, data, pfd, barrier>>

Lock(r) ==
  /\ rpc[r] = "lock" /\ rgate = Nil
  /\ rgate' = r
  /\ Goto(r, "recheck")
  /\ UNCHANGED <<writerVars, tail, mode, ti, got, taken, result, data, pfd, barrier, lookVars>>

\* The ring may have gone empty during the wait for the lock; the mutant does
\* not look again.
NeverEmpty == FALSE

EmptyNow == tail = head

Recheck(r) ==
  /\ rpc[r] = "recheck"
  /\ \/ /\ EmptyNow
        /\ rgate' = Nil
        /\ Return(r, "empty")
        /\ UNCHANGED ti
     \/ /\ ~EmptyNow
        /\ ti' = [ti EXCEPT ![r] = tail]
        /\ Goto(r, "advance")
        /\ UNCHANGED <<rgate, result>>
  /\ UNCHANGED <<writerVars, tail, mode, got, taken, data, pfd, barrier, lookVars>>

\* The receivers with a count of the semaphore between the two loads of their look.
Looking == {q \in Receivers : mode[q] # "poll" /\ rpc[q] \in {"peek_head", "peek_tail"}}

AdvanceTail(r) ==
  /\ rpc[r] = "advance"
  /\ overtaken' = overtaken \cup Looking
  /\ \/ /\ SplitStores /\ tail + 1 >= NElements
        /\ tail' = tail + 1
        /\ Goto(r, "wrap")
     \/ /\ ~(SplitStores /\ tail + 1 >= NElements)
        /\ tail' = Wrapped(tail)
        /\ Goto(r, "drain")
  /\ UNCHANGED <<writerVars, rgate, mode, ti, got, taken, result, data, pfd, barrier, looked,
                 missed>>

WrapTail(r) ==
  /\ rpc[r] = "wrap"
  /\ overtaken' = overtaken \cup Looking
  /\ tail' = 0
  /\ Goto(r, "drain")
  /\ UNCHANGED <<writerVars, rgate, mode, ti, got, taken, result, data, pfd, barrier, looked,
                 missed>>

\* The read of the event descriptor does not block: at zero it fails.  The mutant
\* reads it without semaphore mode.
DrainAll == 0

DrainOne == IF pfd > 0 THEN pfd - 1 ELSE 0

Drain(r) ==
  /\ rpc[r] = "drain"
  /\ pfd' = DrainOne
  /\ Goto(r, "take")
  /\ UNCHANGED <<writerVars, tail, rgate, mode, ti, got, taken, result, data, barrier, lookVars>>

Take(r) ==
  /\ rpc[r] = "take"
  /\ got' = [got EXCEPT ![r] = data[ti[r]]]
  /\ taken' = Append(taken, data[ti[r]])
  /\ Goto(r, "clear")
  /\ UNCHANGED <<writerVars, tail, rgate, mode, ti, result, data, pfd, barrier, lookVars>>

\* The slot is cleared and the lock released.  A poll that has a message takes
\* the count of the semaphore next; the others return.
Clear(r) ==
  /\ rpc[r] = "clear"
  /\ data' = [data EXCEPT ![ti[r]] = Nil]
  /\ rgate' = Nil
  /\ IF got[r] # Nil /\ mode[r] = "poll"
     THEN Goto(r, "pop") /\ UNCHANGED result
     ELSE Return(r, IF got[r] = Nil THEN "empty" ELSE "message")
  /\ UNCHANGED <<writerVars, tail, mode, ti, got, taken, pfd, barrier, lookVars>>

\* sem_timedwait with a time that has passed: it takes a count if there is one.
Pop(r) ==
  /\ rpc[r] = "pop"
  /\ barrier' = IF barrier > 0 THEN barrier - 1 ELSE 0
  /\ Return(r, "message")
  /\ UNCHANGED <<writerVars, tail, rgate, mode, ti, got, taken, data, pfd, lookVars>>

Step(r) ==
  \/ Woken(r) \/ TimeOut(r) \/ Peek(r) \/ Compare(r) \/ Lock(r) \/ Recheck(r)
  \/ AdvanceTail(r) \/ WrapTail(r) \/ Drain(r) \/ Take(r) \/ Clear(r) \/ Pop(r)

Calls(r) == \E m \in Modes : Call(r, m)

-----------------------------------------------------------------------------
(* The specification *)

\* uta_mk_ring
Init ==
  /\ head = 0
  /\ tail = 0
  /\ data = [i \in Slots |-> Nil]
  /\ rgate = Nil
  /\ pfd = 0
  /\ barrier = 0
  /\ arrived = 0
  /\ wpc = "idle"
  /\ rpc = [r \in Receivers |-> "idle"]
  /\ mode = [r \in Receivers |-> "block"]
  /\ ti = [r \in Receivers |-> 0]
  /\ got = [r \in Receivers |-> Nil]
  /\ taken = <<>>
  /\ result = [r \in Receivers |-> "none"]
  /\ looked = [r \in Receivers |-> 0]
  /\ overtaken = {}
  /\ missed = 0

Next == Collector \/ \E r \in Receivers : Calls(r) \/ Step(r)

\* Threads run, and an application that receives calls again.  Nothing is assumed
\* of the order in which the lock and the semaphore serve those that wait.
Fairness ==
  /\ WF_vars(Collector)
  /\ \A r \in Receivers : WF_vars(Calls(r)) /\ WF_vars(Step(r))

Spec == Init /\ [][Next]_vars /\ Fairness

-----------------------------------------------------------------------------
(* Properties *)

TypeOK ==
  /\ head \in 0..NElements
  /\ tail \in 0..NElements
  /\ data \in [Slots -> Messages \cup {Nil}]
  /\ rgate \in Receivers \cup {Nil}
  /\ pfd \in Nat
  /\ barrier \in Nat
  /\ arrived \in 0..MaxMsgs
  /\ wpc \in {"idle", "store", "advance", "wrap", "signal", "post"}
  /\ rpc \in [Receivers -> {"idle", "wait", "peek", "peek_head", "peek_tail", "lock",
                            "recheck", "advance", "wrap", "drain", "take", "clear", "pop"}]
  /\ mode \in [Receivers -> {"poll", "timed", "block"}]
  /\ ti \in [Receivers -> Slots]
  /\ got \in [Receivers -> Messages \cup {Nil}]
  /\ taken \in Seq(Messages \cup {Nil})
  /\ result \in [Receivers -> {"none", "message", "empty", "timeout"}]
  /\ looked \in [Receivers -> 0..NElements]
  /\ overtaken \subseteq Receivers
  /\ missed \in Nat

\* Where an index points, also while it wraps; the number of messages between
\* tail and head, the slot of the n-th one, and the messages themselves.
Pos(i) == IF i = NElements THEN 0 ELSE i

Count == Pos(head) - Pos(tail) + IF Pos(head) < Pos(tail) THEN NElements ELSE 0

Slot(n) == Pos(tail) + n - 1 - IF Pos(tail) + n > NElements THEN NElements ELSE 0

Waiting == [n \in 1..Count |-> data[Slot(n)]]

\* The receiver that has moved tail and not read its slot yet.
Reading == {r \in Receivers : rpc[r] \in {"wrap", "drain", "take"}}

\* The messages taken, counting the one whose slot is being read.
Out == IF Reading = {} THEN taken
       ELSE Append(taken, data[ti[CHOOSE r \in Reading : TRUE]])

\* A message has arrived for the queue when it is in the ring or dropped.
Arrived == IF wpc \in {"store", "advance"} THEN arrived - 1 ELSE arrived

Queue == INSTANCE RmrQueue WITH Capacity <- NElements - 1, arrived <- Arrived,
                                queue <- Waiting, out <- Out

\* The ring is a queue: without a lock between the collector and the receivers,
\* no message is lost but those that find it full, none is taken twice, and they
\* are taken in order; the slot a receiver reads after it has moved tail is not
\* filled again before it has been read and cleared.
IsQueue == Queue!Spec

\* The receivers on their way to the ring with a count of the semaphore.
Coming == {r \in Receivers :
             /\ mode[r] # "poll"
             /\ rpc[r] \in {"peek", "peek_head", "peek_tail", "lock", "recheck", "advance"}}

\* A wake-up is lost in one way only: every message in the ring is covered by a
\* count of the semaphore, by a receiver that has taken one and comes for it, by
\* the collector that is about to post (queue_normal, rmr_mt_rcv), or by a receiver
\* that its unlocked look has sent away (ring_static.c:192).  In particular
\* the collector posts for every message, and no receiver that looked again under
\* the lock goes without one.
WakeUpsCover ==
  Count <= barrier + Cardinality(Coming) + missed + IF wpc \in {"wrap", "signal", "post"} THEN 1 ELSE 0

\* A message in the ring is taken, but for as many messages as looks have sent
\* receivers away: those are left without a count until another one arrives.
Delivered == \A m \in Messages :
  (m \in {Waiting[n] : n \in 1..Count}) ~> (m \in {taken[n] : n \in 1..Len(taken)} \/ Count <= missed)

\* "If max_wait is -1 then the function blocks until a message is ready on the
\* ring", and a wait with a limit ends with a message or a time-out (rmr_mt_rcv).
\* The code keeps this unless another receiver overtakes the look: one that got
\* the semaphore and comes back empty-handed saw tail of one moment and head of
\* another, with tail moved in between.  A lone receiver always finds its message,
\* wherever the collector is.
WokenFindsMessage ==
  \A r \in Receivers :
    rpc[r] = "idle" /\ mode[r] # "poll" /\ result[r] = "empty" => r \in overtaken

\* "In semaphore mode counter is maintained with each insert/extract"
\* (uta_mk_ring): at rest the event descriptor counts the messages in the ring.
CounterMaintained ==
  wpc = "idle" /\ (\A r \in Receivers : rpc[r] \in {"idle", "wait"}) => pfd = Count
=============================================================================
