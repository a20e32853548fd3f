--------------------------- MODULE RmrRingProofs ---------------------------
(***************************************************************************)
(* Proofs about RmrRing, for any number of receivers, slots and messages:  *)
(* the types and the read lock; that the ring implements RmrQueue, in      *)
(* every mode when the indexes wrap in one store and with two stores when  *)
(* no receiver polls; and in which one way a wake-up is lost then.         *)
(***************************************************************************)
EXTENDS RmrRing, FiniteSetTheorems, SequenceTheorems, TLAPS

-----------------------------------------------------------------------------
(* Types and the read lock *)

\* Where a receiver holds the read lock.
Inside == {"recheck", "advance", "wrap", "drain", "take", "clear"}

GateHeld == \A r \in Receivers : rpc[r] \in Inside <=> rgate = r

\* An index points past the end only while it wraps, and the collector works on a
\* message that has arrived.
IndexesIn ==
  /\ head = NElements <=> wpc = "wrap"
  /\ tail = NElements <=> \E r \in Receivers : rpc[r] = "wrap"
  /\ wpc # "idle" => arrived > 0

TypeInv == TypeOK /\ GateHeld /\ IndexesIn

\* The initial state of the ring (uta_mk_ring) has the types.
LEMMA InitTypes == Init => TypeInv
<1> SUFFICES ASSUME Init PROVE TypeInv
  OBVIOUS
<1>1. TypeOK
  <2>1. taken \in Seq(Messages \cup {Nil})
    BY DEF Init
  <2> QED
    BY <2>1, RingAssumption DEF Init, TypeOK, Slots
<1>2. GateHeld
  BY RingAssumption DEF Init, GateHeld, Inside
<1>3. IndexesIn
  BY RingAssumption DEF Init, IndexesIn
<1> QED
  BY <1>1, <1>2, <1>3 DEF TypeInv

\* A step of the collector (queue_normal, uta_ring_insert) keeps the types.
LEMMA CollectorTypes == TypeInv /\ Collector => TypeInv'
<1> SUFFICES ASSUME TypeInv, Collector PROVE TypeInv'
  OBVIOUS
<1> USE RingAssumption DEF TypeInv, TypeOK, IndexesIn, GateHeld, readerVars, lookVars, Slots, Messages
<1>1. CASE Arrive
  BY <1>1 DEF Arrive
<1>2. CASE Store
  BY <1>2 DEF Store
<1>3. CASE AdvanceHead
  BY <1>3 DEF AdvanceHead, Wrapped
<1>4. CASE WrapHead
  BY <1>4 DEF WrapHead
<1>5. CASE Signal
  BY <1>5 DEF Signal
<1>6. CASE Post
  BY <1>6 DEF Post, PostCount
<1> QED
  BY <1>1, <1>2, <1>3, <1>4, <1>5, <1>6 DEF Collector

\* The same for a receiver that calls (rmr_mt_rcv).
LEMMA CallTypes == ASSUME TypeInv, NEW r \in Receivers, NEW m \in Modes, Call(r, m)
                   PROVE  TypeInv'
<1> USE RingAssumption DEF TypeInv, TypeOK, IndexesIn, GateHeld, Inside, Goto, Call, writerVars
<1>1. TypeOK' /\ GateHeld'
  OBVIOUS
<1>2. IndexesIn'
  OBVIOUS
<1> QED
  BY <1>1, <1>2

\* The same for its other steps (rmr_mt_rcv, uta_ring_extract).
LEMMA StepTypes == ASSUME TypeInv, NEW r \in Receivers, Step(r)
                   PROVE  TypeInv'
<1> USE RingAssumption DEF TypeInv, TypeOK, IndexesIn, GateHeld, Inside, Goto, Return,
                           writerVars, lookVars, Looking, Slots, Messages
<1>0. rpc[r] \in Inside => \A q \in Receivers \ {r} : rpc[q] \notin Inside
  OBVIOUS
<1>1. CASE Woken(r)
  BY <1>1 DEF Woken
<1>2. CASE TimeOut(r)
  BY <1>2 DEF TimeOut
<1>3. CASE Peek(r)
  <2>1. /\ UNCHANGED <<writerVars, tail, rgate, mode, ti, got, taken, result, data, pfd, barrier,
                       overtaken, missed>>
        /\ rpc[r] = "peek"
        /\ rpc' \in {[rpc EXCEPT ![r] = "peek_head"], [rpc EXCEPT ![r] = "peek_tail"]}
        /\ looked' \in {[looked EXCEPT ![r] = tail], [looked EXCEPT ![r] = head]}
    BY <1>3 DEF Peek
  <2>2. TypeOK'
    <3>1. looked' \in [Receivers -> 0..NElements]
      <4>1. PICK v \in 0..NElements : looked' = [looked EXCEPT ![r] = v]
        BY <2>1
      <4> QED
        BY <4>1
    <3>2. rpc' \in [Receivers -> {"idle", "wait", "peek", "peek_head", "peek_tail", "lock",
                                  "recheck", "advance", "wrap", "drain", "take", "clear", "pop"}]
      <4>1. PICK l \in {"peek_head", "peek_tail"} : rpc' = [rpc EXCEPT ![r] = l]
        BY <2>1
      <4> QED
        BY <4>1
    <3> QED
      BY <2>1, <3>1, <3>2
  <2>3. \A q \in Receivers : rpc'[q] \in Inside <=> rpc[q] \in Inside
    BY <2>1
  <2>4. \A q \in Receivers : rpc'[q] = "wrap" <=> rpc[q] = "wrap"
    BY <2>1
  <2>5. GateHeld'
    BY <2>1, <2>3
  <2>6. IndexesIn'
    BY <2>1, <2>4
  <2> QED
    BY <2>2, <2>5, <2>6
<1>12. CASE Compare(r)
  <2>1. /\ UNCHANGED <<writerVars, tail, rgate, mode, ti, got, taken, data, pfd, barrier>>
        /\ rpc[r] \in {"peek_head", "peek_tail"}
        /\ rpc' \in {[rpc EXCEPT ![r] = "idle"], [rpc EXCEPT ![r] = "lock"]}
    BY <1>12 DEF Compare
  <2>2. /\ result' \in {result, [result EXCEPT ![r] = "empty"]}
        /\ looked' = [looked EXCEPT ![r] = 0]
        /\ overtaken' \in {overtaken, overtaken \ {r}}
        /\ missed' \in {missed, missed + 1}
    BY <1>12 DEF Compare
  <2>3. TypeOK'
    <3>1. result' \in [Receivers -> {"none", "message", "empty", "timeout"}]
      BY <2>2
    <3>5. looked' \in [Receivers -> 0..NElements]
      BY <2>2
    <3>2. rpc' \in [Receivers -> {"idle", "wait", "peek", "peek_head", "peek_tail", "lock",
                                  "recheck", "advance", "wrap", "drain", "take", "clear", "pop"}]
      BY <2>1
    <3>3. overtaken' \subseteq Receivers
      BY <2>2
    <3>4. missed' \in Nat
      BY <2>2
    <3> QED
      BY <2>1, <3>1, <3>2, <3>3, <3>4, <3>5
  <2>4. \A q \in Receivers : rpc'[q] \in Inside <=> rpc[q] \in Inside
    BY <2>1
  <2>5. \A q \in Receivers : rpc'[q] = "wrap" <=> rpc[q] = "wrap"
    BY <2>1
  <2>6. GateHeld'
    BY <2>1, <2>4
  <2>7. IndexesIn'
    BY <2>1, <2>5
  <2> QED
    BY <2>3, <2>6, <2>7
<1>4. CASE Lock(r)
  BY <1>4 DEF Lock
<1>5. CASE Recheck(r)
  <2>1. tail \in Slots
    BY <1>5, <1>0 DEF Recheck
  <2>2. CASE EmptyNow
    <3>1. TypeOK'
      BY <1>5, <2>2 DEF Recheck
    <3>2. GateHeld'
      <4>1. rpc' = [rpc EXCEPT ![r] = "idle"] /\ rgate' = Nil /\ rpc[r] = "recheck"
        BY <1>5, <2>2 DEF Recheck
      <4>2. \A q \in Receivers : rpc'[q] \notin Inside
        BY <1>0, <4>1
      <4> QED
        BY <4>1, <4>2
    <3>3. IndexesIn'
      BY <1>5, <2>2, <1>0, <2>1 DEF Recheck
    <3> QED
      BY <3>1, <3>2, <3>3
  <2>3. CASE ~EmptyNow
    <3>1. TypeOK'
      <4>1. ti' = [ti EXCEPT ![r] = tail] /\ rpc' = [rpc EXCEPT ![r] = "advance"]
        BY <1>5, <2>3 DEF Recheck
      <4>2. ti' \in [Receivers -> Slots]
        BY <2>1, <4>1
      <4> QED
        BY <1>5, <2>3, <4>1, <4>2 DEF Recheck
    <3>2. GateHeld'
      BY <1>5, <2>3, <1>0 DEF Recheck
    <3>3. IndexesIn'
      BY <1>5, <2>3, <1>0, <2>1 DEF Recheck
    <3> QED
      BY <3>1, <3>2, <3>3
  <2> QED
    BY <2>2, <2>3
<1>6. CASE AdvanceTail(r)
  <2>1. tail \in Slots
    BY <1>6, <1>0 DEF AdvanceTail
  <2>2. TypeOK'
    <3>1. tail' \in 0..NElements
      BY <1>6, <2>1 DEF AdvanceTail, Wrapped
    <3>2. rpc' \in {[rpc EXCEPT ![r] = "wrap"], [rpc EXCEPT ![r] = "drain"]}
      BY <1>6 DEF AdvanceTail
    <3> QED
      BY <1>6, <3>1, <3>2 DEF AdvanceTail
  <2>3. GateHeld'
    <3>1. rpc' \in {[rpc EXCEPT ![r] = "wrap"], [rpc EXCEPT ![r] = "drain"]} /\ rgate' = rgate
      BY <1>6 DEF AdvanceTail
    <3> QED
      BY <1>6, <3>1 DEF AdvanceTail
  <2>4. IndexesIn'
    BY <1>6, <1>0, <2>1 DEF AdvanceTail, Wrapped
  <2> QED
    BY <2>2, <2>3, <2>4
<1>7. CASE WrapTail(r)
  BY <1>7 DEF WrapTail
<1>8. CASE Drain(r)
  BY <1>8 DEF Drain, DrainOne
<1>9. CASE Take(r)
  <2>1. taken' \in Seq(Messages \cup {Nil})
    BY <1>9, AppendProperties DEF Take
  <2> QED
    BY <1>9, <2>1 DEF Take
<1>10. CASE Clear(r)
  <2>1. TypeOK'
    BY <1>10 DEF Clear
  <2>2. GateHeld'
    BY <1>10, <1>0 DEF Clear
  <2>3. IndexesIn'
    BY <1>10, <1>0 DEF Clear
  <2> QED
    BY <2>1, <2>2, <2>3
<1>11. CASE Pop(r)
  BY <1>11 DEF Pop
<1> QED
  BY <1>1, <1>2, <1>3, <1>4, <1>5, <1>6, <1>7, <1>8, <1>9, <1>10, <1>11, <1>12 DEF Step

\* The types and the read lock are kept by every step, stuttering included.
LEMMA TypesKept == TypeInv /\ [Next]_vars => TypeInv'
<1> SUFFICES ASSUME TypeInv, [Next]_vars PROVE TypeInv'
  OBVIOUS
<1>1. CASE Collector
  BY <1>1, CollectorTypes
<1>2. CASE \E r \in Receivers : Calls(r) \/ Step(r)
  BY <1>2, CallTypes, StepTypes DEF Calls
<1>3. CASE UNCHANGED vars
  BY <1>3 DEF TypeInv, TypeOK, GateHeld, IndexesIn, vars, writerVars, readerVars, lookVars
<1> QED
  BY <1>1, <1>2, <1>3 DEF Next

\* Every variable of the ring keeps its type, with indexes that wrap in one store
\* or in two: no index leaves the array of slots but for the moment in which it
\* wraps, when nobody uses it as an index (ring_static.c).
THEOREM TypeCorrect == Spec => []TypeOK
<1>1. Spec => []TypeInv
  BY InitTypes, TypesKept, PTL DEF Spec
<1>2. TypeInv => TypeOK
  BY DEF TypeInv
<1> QED
  BY <1>1, <1>2, PTL

-----------------------------------------------------------------------------
(* The invariant of the ring *)

\* What the proofs about the queue rest on: a build in which an index wraps in one
\* store, or receivers that wait for the semaphore before they look at the ring.
SafeUse == SplitStores = FALSE \/ "poll" \notin Modes

\* No index is seen past the end if it wraps in one store.
NoWrap == SplitStores = FALSE => wpc # "wrap" /\ \A r \in Receivers : rpc[r] # "wrap"

\* There is room while the collector stores a message, and the message is in its
\* slot when head moves: the receivers only make more room.
RoomToStore ==
  /\ wpc \in {"store", "advance"} => ~Full(head, tail)
  /\ wpc = "advance" => data[head] = arrived

\* A receiver that found a message under the lock takes the first one, and the
\* slot it reads after it has moved tail is the one just behind tail.
SlotBehindTail ==
  \A r \in Receivers :
    /\ rpc[r] = "advance" => ti[r] = tail /\ Pos(head) # tail
    /\ rpc[r] \in {"wrap", "drain", "take", "clear"} => Pos(tail) = Wrapped(ti[r])

One(b) == IF b THEN 1 ELSE 0

\* Receivers that do not poll: every message in the ring has its own count of the
\* semaphore, receiver that comes with one, or post that is due; and its own count
\* of the event descriptor, but for a signal or a read of it that is due.
Counted ==
  "poll" \notin Modes =>
    /\ \A r \in Receivers : mode[r] # "poll" /\ rpc[r] # "pop"
    /\ IsFiniteSet(Coming)
    /\ Count = barrier + Cardinality(Coming) + missed + One(wpc \in {"wrap", "signal", "post"})
    /\ pfd + One(wpc \in {"wrap", "signal"})
         = Count + One(\E r \in Receivers : rpc[r] \in {"wrap", "drain"})

QueueInv == TypeInv /\ NoWrap /\ RoomToStore /\ SlotBehindTail /\ Counted

\* Where the indexes point are slots; an index points past the end only while it
\* wraps.
LEMMA IndexFacts ==
  ASSUME TypeInv
  PROVE  /\ NElements \in Nat /\ NElements > 1
         /\ Pos(head) \in 0..NElements - 1
         /\ Pos(tail) \in 0..NElements - 1
         /\ wpc # "wrap" => Pos(head) = head
         /\ (\A r \in Receivers : rpc[r] # "wrap") => Pos(tail) = tail
         /\ wpc # "wrap" => (Full(head, tail) <=> Full(Pos(head), Pos(tail)))
BY RingAssumption DEF TypeInv, TypeOK, IndexesIn, Pos, Full

\* How many messages there are; none when the indexes meet, one less than the
\* slots when the ring is full.
LEMMA CountFacts ==
  ASSUME TypeInv
  PROVE  /\ Count \in 0..NElements - 1
         /\ Count = 0 <=> Pos(head) = Pos(tail)
         /\ Full(Pos(head), Pos(tail)) <=> Count = NElements - 1
<1> DEFINE h == Pos(head)
           t == Pos(tail)
<1>1. h \in 0..NElements - 1 /\ t \in 0..NElements - 1 /\ NElements \in Nat /\ NElements > 1
  BY IndexFacts
<1>2. Count = h - t + IF h < t THEN NElements ELSE 0
  BY DEF Count
<1> HIDE DEF h, t
<1>3. /\ Count \in 0..NElements - 1
      /\ Count = 0 <=> h = t
      /\ Full(h, t) <=> Count = NElements - 1
  <2>1. CASE h < t
    BY <1>1, <1>2, <2>1 DEF Full
  <2>2. CASE ~(h < t)
    BY <1>1, <1>2, <2>2 DEF Full
  <2> QED
    BY <2>1, <2>2
<1> QED
  BY <1>3 DEF h, t

\* The receivers exclude one another.
LEMMA OneInside ==
  ASSUME TypeInv, NEW r \in Receivers, rpc[r] \in Inside
  PROVE  /\ \A q \in Receivers \ {r} : rpc[q] \notin Inside
         /\ rpc[r] # "wrap" => tail = Pos(tail)
<1>1. \A q \in Receivers \ {r} : rpc[q] \notin Inside
  BY DEF TypeInv, GateHeld
<1>2. rpc[r] # "wrap" => \A q \in Receivers : rpc[q] # "wrap"
  BY <1>1 DEF Inside
<1> QED
  BY <1>1, <1>2, IndexFacts

\* One message more when head moves, one less when tail does.
LEMMA CountHead ==
  ASSUME TypeInv, wpc = "advance", ~Full(head, tail), UNCHANGED tail,
         (head' = head + 1 /\ head' = NElements) \/ (head' = Wrapped(head) /\ head' # NElements)
  PROVE  Pos(head)' = Wrapped(head) /\ Count' = Count + 1
<1>1. head = Pos(head) /\ head \in 0..NElements - 1 /\ Pos(tail) \in 0..NElements - 1
      /\ NElements \in Nat /\ NElements > 1 /\ ~Full(head, Pos(tail))
  BY IndexFacts
<1>2. Pos(head)' = Wrapped(head) /\ Pos(tail)' = Pos(tail)
  <2>1. CASE head' = head + 1 /\ head' = NElements
    BY <1>1, <2>1 DEF Pos, Wrapped
  <2>2. CASE head' = Wrapped(head) /\ head' # NElements
    BY <2>2 DEF Pos
  <2> QED
    BY <2>1, <2>2
<1> DEFINE t == Pos(tail)
<1>3. /\ Count = head - t + IF head < t THEN NElements ELSE 0
      /\ Count' = Wrapped(head) - t + IF Wrapped(head) < t THEN NElements ELSE 0
  BY <1>1, <1>2 DEF Count
<1> HIDE DEF t
<1> QED
  BY <1>1, <1>2, <1>3 DEF Wrapped, Full, t

LEMMA CountTail ==
  ASSUME TypeInv, tail = Pos(tail), Pos(head) # tail, UNCHANGED head,
         (tail' = tail + 1 /\ tail' = NElements) \/ (tail' = Wrapped(tail) /\ tail' # NElements)
  PROVE  Pos(tail)' = Wrapped(tail) /\ Count' = Count - 1
<1>1. tail \in 0..NElements - 1 /\ Pos(head) \in 0..NElements - 1
      /\ NElements \in Nat /\ NElements > 1
  BY IndexFacts
<1>2. Pos(tail)' = Wrapped(tail) /\ Pos(head)' = Pos(head)
  <2>1. CASE tail' = tail + 1 /\ tail' = NElements
    BY <1>1, <2>1 DEF Pos, Wrapped
  <2>2. CASE tail' = Wrapped(tail) /\ tail' # NElements
    BY <2>2 DEF Pos
  <2> QED
    BY <2>1, <2>2
<1> DEFINE h == Pos(head)
<1>3. /\ Count = h - tail + IF h < tail THEN NElements ELSE 0
      /\ Count' = h - Wrapped(tail) + IF h < Wrapped(tail) THEN NElements ELSE 0
  BY <1>1, <1>2 DEF Count
<1>4. h # tail
  OBVIOUS
<1> HIDE DEF h
<1> QED
  BY <1>1, <1>2, <1>3, <1>4 DEF Wrapped, h

\* The steps that move an index.
LEMMA HeadStep ==
  ASSUME TypeInv, RoomToStore, AdvanceHead
  PROVE  /\ wpc = "advance" /\ head = Pos(head) /\ ~Full(head, tail)
         /\ Pos(head)' = Wrapped(head) /\ Count' = Count + 1
         /\ wpc' \in {"wrap", "signal"} /\ (wpc' = "wrap" => SplitStores)
<1>1. head \in 0..NElements - 1 /\ NElements \in Nat /\ wpc = "advance" /\ head = Pos(head) /\ ~Full(head, tail)
  BY IndexFacts DEF AdvanceHead, RoomToStore
<1>2. (head' = head + 1 /\ head' = NElements) \/ (head' = Wrapped(head) /\ head' # NElements)
  BY <1>1 DEF AdvanceHead, Wrapped
<1>3. UNCHANGED tail
  BY DEF AdvanceHead, readerVars
<1> QED
  BY <1>1, <1>2, <1>3, CountHead DEF AdvanceHead

LEMMA TailStep ==
  ASSUME TypeInv, SlotBehindTail, NEW r \in Receivers, AdvanceTail(r)
  PROVE  /\ rpc[r] = "advance" /\ tail = Pos(tail) /\ ti[r] = tail /\ Pos(head) # tail
         /\ Pos(tail)' = Wrapped(tail) /\ Count' = Count - 1
         /\ rpc' \in {[rpc EXCEPT ![r] = "wrap"], [rpc EXCEPT ![r] = "drain"]}
         /\ (rpc' = [rpc EXCEPT ![r] = "wrap"] /\ SplitStores) \/ rpc' = [rpc EXCEPT ![r] = "drain"]
<1>1. rpc[r] = "advance" /\ tail = Pos(tail) /\ ti[r] = tail /\ Pos(head) # tail
  BY OneInside DEF AdvanceTail, SlotBehindTail, Inside
<1>2. tail \in 0..NElements - 1 /\ NElements \in Nat
  BY <1>1, IndexFacts
<1>3. (tail' = tail + 1 /\ tail' = NElements) \/ (tail' = Wrapped(tail) /\ tail' # NElements)
  BY <1>2 DEF AdvanceTail, Wrapped
<1>4. UNCHANGED head
  BY DEF AdvanceTail, writerVars
<1>5. /\ rpc' \in {[rpc EXCEPT ![r] = "wrap"], [rpc EXCEPT ![r] = "drain"]}
      /\ (rpc' = [rpc EXCEPT ![r] = "wrap"] /\ SplitStores) \/ rpc' = [rpc EXCEPT ![r] = "drain"]
  BY DEF AdvanceTail, Goto
<1> QED
  BY <1>1, <1>3, <1>4, <1>5, CountTail

\* It holds in the empty ring (uta_mk_ring).
LEMMA InitQueue == Init => QueueInv
<1> SUFFICES ASSUME Init PROVE QueueInv
  OBVIOUS
<1>1. NoWrap /\ RoomToStore /\ SlotBehindTail
  BY DEF Init, NoWrap, RoomToStore, SlotBehindTail
<1>2. TypeInv
  BY InitTypes
<1>3. Count = 0
  BY <1>2, CountFacts DEF Init
<1>4. Coming = {}
  BY DEF Init, Coming
<1>5. Counted
  BY <1>3, <1>4, FS_EmptySet DEF Init, Counted, One
<1> QED
  BY <1>1, <1>2, <1>5 DEF QueueInv

\* A receiver that comes with a count of the semaphore has a message to find.
LEMMA ComingFinds ==
  ASSUME QueueInv, "poll" \notin Modes, NEW r \in Receivers,
         rpc[r] \in {"peek", "peek_head", "peek_tail", "lock", "recheck", "advance"}
  PROVE  Count > 0 /\ Pos(head) # Pos(tail) /\ head # tail
<1>1. r \in Coming /\ IsFiniteSet(Coming)
  BY DEF Coming, QueueInv, Counted
<1>2. Cardinality(Coming) \in Nat /\ Cardinality(Coming) # 0
  BY <1>1, FS_EmptySet, FS_CardinalityType
<1>3. barrier \in Nat /\ missed \in Nat /\ One(wpc \in {"wrap", "signal", "post"}) \in Nat
  BY DEF QueueInv, TypeInv, TypeOK, One
<1>4. Count = barrier + Cardinality(Coming) + missed + One(wpc \in {"wrap", "signal", "post"})
  BY DEF QueueInv, Counted
<1>5. Count > 0
  BY <1>2, <1>3, <1>4
<1> QED
  BY <1>5, CountFacts DEF QueueInv, Pos

\* The collector keeps the invariant: it fills no slot that a receiver reads.
LEMMA CollectorQueue ==
  ASSUME QueueInv, Collector
  PROVE  NoWrap' /\ RoomToStore' /\ SlotBehindTail'
<1>1. /\ NElements \in Nat /\ NElements > 1
      /\ Pos(head) \in 0..NElements - 1 /\ Pos(tail) \in 0..NElements - 1
  BY IndexFacts DEF QueueInv
<1> USE DEF QueueInv, NoWrap, RoomToStore, SlotBehindTail, readerVars
<1>2. CASE Arrive
  <2>1. UNCHANGED <<head, tail, data, rpc, ti>>
    BY <1>2 DEF Arrive
  <2>2. Pos(head)' = Pos(head) /\ Pos(tail)' = Pos(tail)
    BY <2>1 DEF Pos
  <2> QED
    BY <1>2, <2>1, <2>2 DEF Arrive
<1>3. CASE Store
  <2>1. UNCHANGED <<head, tail, rpc, ti, arrived>> /\ wpc = "store" /\ wpc' = "advance"
    BY <1>3 DEF Store
  <2>2. Pos(head)' = Pos(head) /\ Pos(tail)' = Pos(tail)
    BY <2>1 DEF Pos
  <2>3. head \in Slots
    BY <1>1, <2>1, IndexFacts DEF Slots
  <2>4. data'[head] = arrived
    BY <1>3, <2>3 DEF Store, TypeInv, TypeOK
  <2> QED
    BY <2>1, <2>2, <2>4
<1>4. CASE AdvanceHead
  <2>1. /\ head = Pos(head) /\ ~Full(head, tail)
        /\ Pos(head)' = Wrapped(head)
        /\ wpc' \in {"wrap", "signal"} /\ (wpc' = "wrap" => SplitStores)
    BY <1>4, HeadStep
  <2>2. UNCHANGED <<tail, rpc, ti>>
    BY <1>4 DEF AdvanceHead
  <2>3. Pos(tail)' = Pos(tail)
    BY <2>2 DEF Pos
  <2>4. NoWrap' /\ RoomToStore'
    BY <2>1, <2>2
  <2>5. ASSUME NEW r \in Receivers, rpc[r] = "advance" PROVE Wrapped(head) # tail
    <3>1. tail = Pos(tail)
      BY <2>5, OneInside DEF Inside
    <3> QED
      BY <1>1, <2>1, <3>1 DEF Wrapped, Full
  <2> QED
    BY <2>1, <2>2, <2>3, <2>4, <2>5
<1>5. CASE WrapHead
  <2>1. head = NElements /\ head' = 0 /\ UNCHANGED <<tail, rpc, ti>> /\ wpc = "wrap" /\ wpc' = "signal"
    BY <1>5 DEF WrapHead, TypeInv, IndexesIn
  <2>2. Pos(head)' = Pos(head) /\ Pos(tail)' = Pos(tail)
    BY <1>1, <2>1 DEF Pos
  <2> QED
    BY <2>1, <2>2
<1>6. CASE Signal \/ Post
  <2>1. UNCHANGED <<head, tail, rpc, ti>> /\ wpc' \in {"post", "idle"}
    BY <1>6 DEF Signal, Post
  <2>2. Pos(head)' = Pos(head) /\ Pos(tail)' = Pos(tail)
    BY <2>1 DEF Pos
  <2> QED
    BY <2>1, <2>2
<1> QED
  BY <1>2, <1>3, <1>4, <1>5, <1>6 DEF Collector

\* So do the receivers: they clear no slot that the collector fills.
LEMMA StepQueue ==
  ASSUME SafeUse, QueueInv, NEW r \in Receivers, Step(r)
  PROVE  NoWrap' /\ RoomToStore' /\ SlotBehindTail'
<1>1. /\ NElements \in Nat /\ NElements > 1
      /\ Pos(head) \in 0..NElements - 1 /\ Pos(tail) \in 0..NElements - 1
  BY IndexFacts DEF QueueInv
<1>2. rpc[r] \in Inside => \A q \in Receivers \ {r} : rpc[q] \notin Inside
  BY OneInside DEF QueueInv
<1>3. rpc = [q \in Receivers |-> rpc[q]] /\ ti \in [Receivers -> Slots]
  BY DEF QueueInv, TypeInv, TypeOK
<1> USE <1>3 DEF QueueInv, NoWrap, RoomToStore, SlotBehindTail, writerVars, Goto, Return
<1>4. CASE Woken(r) \/ TimeOut(r) \/ Peek(r) \/ Compare(r) \/ Lock(r) \/ Drain(r) \/ Take(r) \/ Pop(r)
  <2>1. UNCHANGED <<head, tail, data, ti, wpc, arrived>>
    BY <1>4 DEF Woken, TimeOut, Peek, Compare, Lock, Drain, Take, Pop
  <2>2. Pos(head)' = Pos(head) /\ Pos(tail)' = Pos(tail)
    BY <2>1 DEF Pos
  <2>3. \A q \in Receivers :
          rpc'[q] = rpc[q] \/ (rpc'[q] \in {"take", "clear"} /\ rpc[q] \in {"drain", "take"})
                           \/ rpc'[q] \in {"idle", "peek", "peek_head", "peek_tail", "lock", "recheck"}
    BY <1>4 DEF Woken, TimeOut, Peek, Compare, Lock, Drain, Take, Pop
  <2> QED
    BY <2>1, <2>2, <2>3
<1>8. CASE Recheck(r)
  <2>0. UNCHANGED <<head, tail, data, wpc, arrived>> /\ rpc[r] = "recheck"
    BY <1>8 DEF Recheck
  <2>1. Pos(head)' = Pos(head) /\ Pos(tail)' = Pos(tail)
    BY <2>0 DEF Pos
  <2>2. CASE EmptyNow
    <3>1. rpc' = [rpc EXCEPT ![r] = "idle"] /\ ti' = ti
      BY <1>8, <2>2 DEF Recheck
    <3> QED
      BY <2>0, <2>1, <3>1
  <2>3. CASE ~EmptyNow
    <3>1. rpc' = [rpc EXCEPT ![r] = "advance"] /\ ti' = [ti EXCEPT ![r] = tail]
      BY <1>8, <2>3 DEF Recheck
    <3>2. tail = Pos(tail)
      BY <2>0, OneInside DEF Inside
    <3>3. Pos(head) # tail
      <4>1. CASE SplitStores = FALSE
        BY <4>1, <2>3, IndexFacts DEF EmptyNow
      <4>2. CASE "poll" \notin Modes
        BY <4>2, <2>0, <3>2, ComingFinds
      <4> QED
        BY <4>1, <4>2 DEF SafeUse
    <3>4. NoWrap' /\ RoomToStore'
      BY <2>0, <3>1
    <3>5. SlotBehindTail'
      BY <2>0, <2>1, <3>1, <3>3
    <3> QED
      BY <3>4, <3>5
  <2> QED
    BY <2>2, <2>3
<1>9. CASE AdvanceTail(r)
  <2>1. /\ rpc[r] = "advance" /\ tail = Pos(tail) /\ ti[r] = tail /\ Pos(head) # tail
        /\ Pos(tail)' = Wrapped(tail)
        /\ (rpc' = [rpc EXCEPT ![r] = "wrap"] /\ SplitStores) \/ rpc' = [rpc EXCEPT ![r] = "drain"]
    BY <1>9, TailStep
  <2>2. UNCHANGED <<head, data, ti, wpc, arrived>> /\ (tail' = NElements \/ tail' = Wrapped(tail))
    BY <1>1, <1>9, <2>1 DEF AdvanceTail
  <2>3. NoWrap'
    BY <2>1, <2>2
  <2>4. RoomToStore'
    <3>1. wpc \in {"store", "advance"} => ~Full(head, tail')
      <4> SUFFICES ASSUME wpc \in {"store", "advance"} PROVE ~Full(head, tail')
        OBVIOUS
      <4>1. head = Pos(head)
        BY IndexFacts
      <4>2. tail' = NElements => tail + 1 >= NElements
        BY <1>1, <1>9, <2>1 DEF AdvanceTail, Wrapped
      <4>3. ~Full(head, tail) /\ head # tail /\ head \in 0..NElements - 1 /\ tail \in 0..NElements - 1
        BY <1>1, <2>1, <4>1
      <4> QED
        BY <1>1, <2>2, <4>2, <4>3 DEF Wrapped, Full
    <3> QED
      BY <2>2, <3>1
  <2>5. SlotBehindTail'
    <3>1. \A q \in Receivers \ {r} : rpc'[q] \notin Inside
      BY <1>2, <2>1 DEF Inside
    <3>2. rpc'[r] \in {"wrap", "drain"} /\ ti'[r] = tail
      BY <2>1, <2>2
    <3> QED
      BY <2>1, <3>1, <3>2 DEF Inside
  <2> QED
    BY <2>3, <2>4, <2>5
<1>10. CASE WrapTail(r)
  <2>1. tail = NElements /\ tail' = 0 /\ UNCHANGED <<head, data, ti, wpc, arrived>>
        /\ rpc[r] = "wrap" /\ rpc' = [rpc EXCEPT ![r] = "drain"]
    BY <1>10 DEF WrapTail, TypeInv, IndexesIn
  <2>2. Pos(head)' = Pos(head) /\ Pos(tail)' = Pos(tail)
    BY <1>1, <2>1 DEF Pos
  <2>3. RoomToStore'
    <3>1. wpc \in {"store", "advance"} => head = Pos(head) /\ ~Full(head, Pos(tail))
      BY IndexFacts
    <3>2. Pos(tail) = 0
      BY <2>1 DEF Pos
    <3> QED
      BY <2>1, <3>1, <3>2
  <2>4. \A q \in Receivers \ {r} : rpc'[q] \notin Inside
    BY <1>2, <2>1 DEF Inside
  <2> QED
    BY <2>1, <2>2, <2>3, <2>4 DEF Inside
<1>13. CASE Clear(r)
  <2>1. UNCHANGED <<head, tail, ti, wpc, arrived>> /\ data' = [data EXCEPT ![ti[r]] = Nil]
        /\ rpc[r] = "clear" /\ rpc' \in {[rpc EXCEPT ![r] = "pop"], [rpc EXCEPT ![r] = "idle"]}
    BY <1>13 DEF Clear
  <2>2. Pos(head)' = Pos(head) /\ Pos(tail)' = Pos(tail)
    BY <2>1 DEF Pos
  <2>3. wpc = "advance" => ti[r] # head
    <3>1. Pos(tail) = Wrapped(ti[r])
      BY <2>1
    <3>2. wpc = "advance" => head = Pos(head) /\ ~Full(head, Pos(tail))
      BY IndexFacts
    <3> QED
      BY <1>1, <3>1, <3>2 DEF Wrapped, Full
  <2>4. NoWrap' /\ SlotBehindTail'
    BY <2>1, <2>2
  <2>5. RoomToStore'
    BY <2>1, <2>3 DEF TypeInv, TypeOK
  <2> QED
    BY <2>4, <2>5
<1> QED
  BY <1>4, <1>8, <1>9, <1>10, <1>13 DEF Step

\* The counts, when the collector works.
LEMMA CollectorCounted == ASSUME QueueInv, Collector PROVE Counted'
<1> SUFFICES ASSUME "poll" \notin Modes PROVE Counted'
  BY DEF Counted
<1>1. UNCHANGED <<tail, rpc, mode, missed>>
  BY DEF Collector, Arrive, Store, AdvanceHead, WrapHead, Signal, Post, readerVars, lookVars
<1>2. Coming' = Coming
  BY <1>1 DEF Coming
<1>3. (\E r \in Receivers : rpc'[r] \in {"wrap", "drain"}) <=> (\E r \in Receivers : rpc[r] \in {"wrap", "drain"})
  BY <1>1
<1>4. /\ \A r \in Receivers : mode[r] # "poll" /\ rpc[r] # "pop"
      /\ IsFiniteSet(Coming)
      /\ Count = barrier + Cardinality(Coming) + missed + One(wpc \in {"wrap", "signal", "post"})
      /\ pfd + One(wpc \in {"wrap", "signal"})
           = Count + One(\E r \in Receivers : rpc[r] \in {"wrap", "drain"})
  BY DEF QueueInv, Counted
<1>5. Cardinality(Coming) \in Nat /\ missed \in Nat /\ barrier \in Nat /\ pfd \in Nat /\ Count \in Nat
  BY <1>4, FS_CardinalityType, CountFacts, RingAssumption DEF QueueInv, TypeInv, TypeOK
<1> DEFINE reads == One(\E r \in Receivers : rpc[r] \in {"wrap", "drain"})
<1>6. reads' = reads /\ reads \in Nat
  BY <1>3 DEF One
<1> SUFFICES /\ Count' = barrier' + Cardinality(Coming) + missed' + One(wpc' \in {"wrap", "signal", "post"})
             /\ pfd' + One(wpc' \in {"wrap", "signal"}) = Count' + reads
  BY <1>1, <1>2, <1>4, <1>6 DEF Counted
<1> HIDE DEF reads
<1>7. /\ Count = barrier + Cardinality(Coming) + missed + One(wpc \in {"wrap", "signal", "post"})
      /\ pfd + One(wpc \in {"wrap", "signal"}) = Count + reads
  BY <1>4 DEF reads
<1>8. CASE Arrive \/ Store
  <2>1. UNCHANGED <<head, pfd, barrier>> /\ wpc \in {"idle", "store"} /\ wpc' \in {"idle", "store", "advance"}
    BY <1>8 DEF Arrive, Store
  <2>2. Count' = Count
    BY <1>1, <2>1 DEF Count, Pos
  <2> QED
    BY <1>1, <1>5, <1>7, <2>1, <2>2 DEF One
<1>9. CASE AdvanceHead
  <2>1. wpc = "advance" /\ Count' = Count + 1 /\ wpc' \in {"wrap", "signal"} /\ UNCHANGED <<pfd, barrier>>
    BY <1>9, HeadStep DEF QueueInv, AdvanceHead
  <2> QED
    BY <1>1, <1>5, <1>6, <1>7, <2>1 DEF One
<1>10. CASE WrapHead
  <2>1. head = NElements /\ head' = 0 /\ wpc = "wrap" /\ wpc' = "signal" /\ UNCHANGED <<pfd, barrier>>
    BY <1>10 DEF WrapHead, QueueInv, TypeInv, IndexesIn
  <2>2. Pos(head)' = Pos(head) /\ Pos(tail)' = Pos(tail)
    BY <1>1, <2>1, RingAssumption DEF Pos
  <2>3. Count' = Count
    BY <2>2 DEF Count
  <2> QED
    BY <1>1, <1>5, <1>7, <2>1, <2>3 DEF One
<1>11. CASE Signal
  <2>1. UNCHANGED <<head, barrier>> /\ wpc = "signal" /\ wpc' = "post" /\ pfd' = pfd + 1
    BY <1>11 DEF Signal
  <2>2. Count' = Count
    BY <1>1, <2>1 DEF Count, Pos
  <2> QED
    BY <1>1, <1>5, <1>6, <1>7, <2>1, <2>2 DEF One
<1>12. CASE Post
  <2>1. UNCHANGED <<head, pfd>> /\ wpc = "post" /\ wpc' = "idle" /\ barrier' = barrier + 1
    BY <1>12 DEF Post, PostCount
  <2>2. Count' = Count
    BY <1>1, <2>1 DEF Count, Pos
  <2> QED
    BY <1>1, <1>5, <1>6, <1>7, <2>1, <2>2 DEF One
<1> QED
  BY <1>8, <1>9, <1>10, <1>11, <1>12 DEF Collector

\* The counts, when a receiver does.  One that comes with a count has a message to
\* find, so it never returns empty once it has the lock; one that its look sends away
\* leaves its message to be counted as missed; and an event descriptor that is read
\* is not at zero.
LEMMA StepCounted == ASSUME QueueInv, NEW r \in Receivers, Step(r) PROVE Counted'
<1> SUFFICES ASSUME "poll" \notin Modes PROVE Counted'
  BY DEF Counted
<1>1. /\ \A q \in Receivers : mode[q] # "poll" /\ rpc[q] # "pop"
      /\ IsFiniteSet(Coming)
      /\ Count = barrier + Cardinality(Coming) + missed + One(wpc \in {"wrap", "signal", "post"})
      /\ pfd + One(wpc \in {"wrap", "signal"})
           = Count + One(\E q \in Receivers : rpc[q] \in {"wrap", "drain"})
  BY DEF QueueInv, Counted
<1>2. rpc = [q \in Receivers |-> rpc[q]]
  BY DEF QueueInv, TypeInv, TypeOK
<1>3. rpc[r] \in Inside => \A q \in Receivers \ {r} : rpc[q] \notin Inside
  BY OneInside DEF QueueInv
<1>4. UNCHANGED <<head, wpc, mode>> /\ \A q \in Receivers \ {r} : rpc'[q] = rpc[q]
  BY <1>2 DEF Step, Woken, TimeOut, Peek, Compare, Lock, Recheck, AdvanceTail, WrapTail, Drain, Take, Clear,
          Pop, Goto, Return, writerVars
<1>5. Cardinality(Coming) \in Nat /\ missed \in Nat /\ barrier \in Nat /\ pfd \in Nat /\ Count \in Nat
  BY <1>1, FS_CardinalityType, CountFacts, RingAssumption DEF QueueInv, TypeInv, TypeOK
<1>6. One(wpc \in {"wrap", "signal", "post"}) \in Nat /\ One(wpc \in {"wrap", "signal"}) \in Nat
  BY DEF One
<1> DEFINE reads == \E q \in Receivers : rpc[q] \in {"wrap", "drain"}
<1>7. CASE Woken(r)
  <2>1. UNCHANGED <<tail, pfd, missed>> /\ rpc[r] = "wait" /\ barrier > 0 /\ barrier' = barrier - 1 /\ rpc'[r] = "peek"
    BY <1>2, <1>7 DEF Woken, Goto, lookVars
  <2>2. r \notin Coming /\ Coming' = Coming \cup {r}
    BY <1>1, <1>4, <2>1 DEF Coming
  <2>3. IsFiniteSet(Coming') /\ Cardinality(Coming') = Cardinality(Coming) + 1
    BY <1>1, <2>2, FS_AddElement
  <2>4. reads' <=> reads
    BY <1>4, <2>1
  <2>5. Count' = Count
    BY <1>4, <2>1 DEF Count, Pos
  <2>6. \A q \in Receivers : mode'[q] # "poll" /\ rpc'[q] # "pop"
    BY <1>1, <1>4, <2>1
  <2>7. Count' = barrier' + Cardinality(Coming') + missed' + One(wpc' \in {"wrap", "signal", "post"})
    BY <1>1, <1>4, <1>5, <1>6, <2>1, <2>3, <2>5
  <2>8. pfd' + One(wpc' \in {"wrap", "signal"}) = Count' + One(reads')
    BY <1>1, <1>4, <2>1, <2>4, <2>5 DEF One
  <2> QED
    BY <2>3, <2>6, <2>7, <2>8 DEF Counted
<1>8. CASE TimeOut(r) \/ Take(r) \/ Clear(r) \/ WrapTail(r) \/ Pop(r)
  <2>1. UNCHANGED <<pfd, barrier, missed>> /\ rpc[r] \in {"wait", "take", "clear", "wrap"} /\ rpc'[r] \in {"idle", "clear", "drain"}
        /\ (rpc[r] = "wrap" <=> rpc'[r] = "drain")
    BY <1>1, <1>2, <1>8 DEF TimeOut, Take, Clear, WrapTail, Pop, Goto, Return, lookVars
  <2>2. Coming' = Coming
    BY <1>4, <2>1 DEF Coming
  <2>3. reads' <=> reads
    BY <1>4, <2>1
  <2>4. Count' = Count
    <3>1. Pos(tail)' = Pos(tail)
      BY <1>8, RingAssumption DEF TimeOut, Take, Clear, WrapTail, Pop, Pos, QueueInv, TypeInv, IndexesIn
    <3> QED
      BY <1>4, <3>1 DEF Count, Pos
  <2>5. \A q \in Receivers : mode'[q] # "poll" /\ rpc'[q] # "pop"
    BY <1>1, <1>4, <2>1
  <2>6. Count' = barrier' + Cardinality(Coming') + missed' + One(wpc' \in {"wrap", "signal", "post"})
    BY <1>1, <1>4, <2>1, <2>2, <2>4
  <2>7. pfd' + One(wpc' \in {"wrap", "signal"}) = Count' + One(reads')
    BY <1>1, <1>4, <2>1, <2>3, <2>4 DEF One
  <2> QED
    BY <1>1, <2>2, <2>5, <2>6, <2>7 DEF Counted
<1>9. CASE Peek(r) \/ Lock(r) \/ Recheck(r)
  <2>1. rpc[r] \in {"peek", "lock", "recheck"} /\ UNCHANGED <<pfd, barrier, tail, missed>>
    BY <1>9 DEF Peek, Lock, Recheck, lookVars
  <2>2. head # tail
    BY <2>1, ComingFinds
  <2>3. rpc'[r] \in {"peek_head", "peek_tail", "recheck", "advance"}
    BY <1>2, <1>9, <2>2 DEF Peek, Lock, Recheck, EmptyNow, Goto
  <2>4. Coming' = Coming
    BY <1>4, <2>1, <2>3 DEF Coming
  <2>5. reads' <=> reads
    BY <1>4, <2>1, <2>3
  <2>6. Count' = Count
    BY <1>4, <2>1 DEF Count, Pos
  <2>7. \A q \in Receivers : mode'[q] # "poll" /\ rpc'[q] # "pop"
    BY <1>1, <1>4, <2>3
  <2>8. Count' = barrier' + Cardinality(Coming') + missed' + One(wpc' \in {"wrap", "signal", "post"})
    BY <1>1, <1>4, <2>1, <2>4, <2>6
  <2>9. pfd' + One(wpc' \in {"wrap", "signal"}) = Count' + One(reads')
    BY <1>1, <1>4, <2>1, <2>5, <2>6 DEF One
  <2> QED
    BY <1>1, <2>4, <2>7, <2>8, <2>9 DEF Counted
<1>10. CASE AdvanceTail(r)
  <2>1. UNCHANGED <<pfd, barrier, missed>> /\ rpc[r] = "advance" /\ Count' = Count - 1 /\ rpc'[r] \in {"wrap", "drain"}
    BY <1>2, <1>10, TailStep DEF AdvanceTail, QueueInv
  <2>2. r \in Coming /\ Coming' = Coming \ {r}
    BY <1>1, <1>4, <2>1 DEF Coming
  <2>3. IsFiniteSet(Coming') /\ Cardinality(Coming') = Cardinality(Coming) - 1
    BY <1>1, <2>2, FS_RemoveElement
  <2>4. ~reads /\ reads'
    BY <1>3, <2>1 DEF Inside
  <2>5. \A q \in Receivers : mode'[q] # "poll" /\ rpc'[q] # "pop"
    BY <1>1, <1>4, <2>1
  <2>6. Count' = barrier' + Cardinality(Coming') + missed' + One(wpc' \in {"wrap", "signal", "post"})
    BY <1>1, <1>4, <1>5, <1>6, <2>1, <2>3
  <2>7. pfd' + One(wpc' \in {"wrap", "signal"}) = Count' + One(reads')
    BY <1>1, <1>4, <1>5, <1>6, <2>1, <2>4 DEF One
  <2> QED
    BY <2>3, <2>5, <2>6, <2>7 DEF Counted
<1>11. CASE Drain(r)
  <2>1. UNCHANGED <<barrier, tail, missed>> /\ rpc[r] = "drain" /\ rpc'[r] = "take" /\ pfd' = IF pfd > 0 THEN pfd - 1 ELSE 0
    BY <1>2, <1>11 DEF Drain, DrainOne, Goto, lookVars
  <2>2. Coming' = Coming
    BY <1>4, <2>1 DEF Coming
  <2>3. reads /\ ~reads'
    BY <1>3, <1>4, <2>1 DEF Inside
  <2>4. Count' = Count
    BY <1>4, <2>1 DEF Count, Pos
  <2>5. \A q \in Receivers : mode'[q] # "poll" /\ rpc'[q] # "pop"
    BY <1>1, <1>4, <2>1
  <2>6. Count' = barrier' + Cardinality(Coming') + missed' + One(wpc' \in {"wrap", "signal", "post"})
    BY <1>1, <1>4, <2>1, <2>2, <2>4
  <2>7. pfd + One(wpc \in {"wrap", "signal"}) = Count + 1
    BY <1>1, <2>3 DEF One
  <2>8. wpc \in {"wrap", "signal"} => Count >= 1
    BY <1>1, <1>5 DEF One
  <2>9. pfd > 0
    BY <1>5, <2>7, <2>8 DEF One
  <2>10. pfd' + One(wpc' \in {"wrap", "signal"}) = Count' + One(reads')
    BY <1>4, <1>5, <1>6, <2>1, <2>3, <2>4, <2>7, <2>9 DEF One
  <2> QED
    BY <1>1, <2>2, <2>5, <2>6, <2>10 DEF Counted
<1>12. CASE Compare(r)
  <2>1. /\ rpc[r] \in {"peek_head", "peek_tail"} /\ UNCHANGED <<pfd, barrier, tail>>
        /\ \/ rpc' = [rpc EXCEPT ![r] = "idle"] /\ missed' = missed + 1
           \/ rpc' = [rpc EXCEPT ![r] = "lock"] /\ missed' = missed
    BY <1>1, <1>12 DEF Compare, Return, Goto
  <2>2. Count' = Count
    BY <1>4, <2>1 DEF Count, Pos
  <2>3. \A q \in Receivers : mode'[q] # "poll" /\ rpc'[q] # "pop"
    BY <1>1, <1>2, <1>4, <2>1
  <2>4. reads' <=> reads
    BY <1>2, <1>4, <2>1
  <2>5. pfd' + One(wpc' \in {"wrap", "signal"}) = Count' + One(reads')
    BY <1>1, <1>4, <2>1, <2>2, <2>4 DEF One
  <2>6. CASE rpc' = [rpc EXCEPT ![r] = "idle"] /\ missed' = missed + 1
    <3>1. r \in Coming /\ Coming' = Coming \ {r}
      BY <1>1, <1>2, <1>4, <2>1, <2>6 DEF Coming
    <3>2. IsFiniteSet(Coming') /\ Cardinality(Coming') = Cardinality(Coming) - 1
      BY <1>1, <3>1, FS_RemoveElement
    <3>3. Count' = barrier' + Cardinality(Coming') + missed' + One(wpc' \in {"wrap", "signal", "post"})
      BY <1>1, <1>4, <1>5, <1>6, <2>1, <2>2, <2>6, <3>2
    <3> QED
      BY <2>3, <2>5, <3>2, <3>3 DEF Counted
  <2>7. CASE rpc' = [rpc EXCEPT ![r] = "lock"] /\ missed' = missed
    <3>1. Coming' = Coming
      BY <1>2, <1>4, <2>1, <2>7 DEF Coming
    <3>2. Count' = barrier' + Cardinality(Coming') + missed' + One(wpc' \in {"wrap", "signal", "post"})
      BY <1>1, <1>4, <2>1, <2>2, <2>7, <3>1
    <3> QED
      BY <1>1, <2>3, <2>5, <3>1, <3>2 DEF Counted
  <2> QED
    BY <2>1, <2>6, <2>7
<1> QED
  BY <1>7, <1>8, <1>9, <1>10, <1>11, <1>12 DEF Step

\* And when one calls.
LEMMA CallCounted ==
  ASSUME QueueInv, NEW r \in Receivers, NEW m \in Modes, Call(r, m)
  PROVE  NoWrap' /\ RoomToStore' /\ SlotBehindTail' /\ Counted'
<1>1. UNCHANGED <<head, tail, data, arrived, wpc, ti, pfd, barrier, missed>> /\ rpc[r] = "idle"
  BY DEF Call, writerVars
<1>2. \A q \in Receivers : /\ q # r => rpc'[q] = rpc[q] /\ mode'[q] = mode[q]
                           /\ q = r => rpc'[q] \in {"peek", "wait"} /\ mode'[q] = m /\ (rpc'[q] = "peek" => m = "poll")
  BY DEF Call, Goto, QueueInv, TypeInv, TypeOK
<1>3. Pos(head)' = Pos(head) /\ Pos(tail)' = Pos(tail)
  BY <1>1 DEF Pos
<1>4. NoWrap' /\ RoomToStore' /\ SlotBehindTail'
  BY <1>1, <1>2, <1>3 DEF QueueInv, NoWrap, RoomToStore, SlotBehindTail
<1>5. Counted'
  <2> SUFFICES ASSUME "poll" \notin Modes PROVE Counted'
    BY DEF Counted
  <2>1. /\ \A q \in Receivers : mode[q] # "poll" /\ rpc[q] # "pop"
        /\ IsFiniteSet(Coming)
        /\ Count = barrier + Cardinality(Coming) + missed + One(wpc \in {"wrap", "signal", "post"})
        /\ pfd + One(wpc \in {"wrap", "signal"})
             = Count + One(\E q \in Receivers : rpc[q] \in {"wrap", "drain"})
    BY DEF QueueInv, Counted
  <2>2. Coming' = Coming
    BY <1>1, <1>2 DEF Coming
  <2>3. Count' = Count
    BY <1>3 DEF Count
  <2>4. (\E q \in Receivers : rpc'[q] \in {"wrap", "drain"}) <=> (\E q \in Receivers : rpc[q] \in {"wrap", "drain"})
    BY <1>1, <1>2
  <2>5. \A q \in Receivers : mode'[q] # "poll" /\ rpc'[q] # "pop"
    BY <1>2, <2>1
  <2>6. pfd' + One(wpc' \in {"wrap", "signal"})
             = Count' + One(\E q \in Receivers : rpc'[q] \in {"wrap", "drain"})
    BY <1>1, <2>1, <2>3, <2>4 DEF One
  <2>7. Count' = barrier' + Cardinality(Coming') + missed' + One(wpc' \in {"wrap", "signal", "post"})
    BY <1>1, <2>1, <2>2, <2>3
  <2> QED
    BY <2>1, <2>2, <2>5, <2>6, <2>7 DEF Counted
<1> QED
  BY <1>4, <1>5

\* Every step keeps the invariant, stuttering included.
LEMMA QueueKept == SafeUse /\ QueueInv /\ [Next]_vars => QueueInv'
<1> SUFFICES ASSUME SafeUse, QueueInv, [Next]_vars PROVE QueueInv'
  OBVIOUS
<1>1. TypeInv'
  BY TypesKept DEF QueueInv
<1>2. NoWrap' /\ RoomToStore' /\ SlotBehindTail' /\ Counted'
  <2>1. CASE Collector
    BY <2>1, CollectorQueue, CollectorCounted
  <2>2. CASE \E r \in Receivers : Step(r)
    BY <2>2, StepQueue, StepCounted
  <2>3. CASE \E r \in Receivers : Calls(r)
    BY <2>3, CallCounted DEF Calls
  <2>4. CASE UNCHANGED vars
    BY <2>4 DEF QueueInv, NoWrap, RoomToStore, SlotBehindTail, Counted, Coming, Count, Pos, vars, writerVars, readerVars, lookVars
  <2> QED
    BY <2>1, <2>2, <2>3, <2>4 DEF Next
<1> QED
  BY <1>1, <1>2 DEF QueueInv

-----------------------------------------------------------------------------
(* The messages between tail and head, as a sequence *)

\* Where they are: none is in the slot at head, and none just behind tail.
LEMMA SlotFacts ==
  ASSUME QueueInv, NEW n \in 1..Count
  PROVE  /\ Slot(n) \in Slots
         /\ Slot(n) # Pos(head)
         /\ Wrapped(Slot(n)) # Pos(tail)
<1> DEFINE h == Pos(head)
           t == Pos(tail)
<1>1. h \in 0..NElements - 1 /\ t \in 0..NElements - 1 /\ NElements \in Nat /\ NElements > 1
  BY IndexFacts DEF QueueInv
<1>2. Count = h - t + IF h < t THEN NElements ELSE 0
  BY DEF Count
<1>3. Slot(n) = t + n - 1 - IF t + n > NElements THEN NElements ELSE 0
  BY DEF Slot
<1> HIDE DEF h, t
<1>4. n \in Nat /\ n > 0 /\ n <= h - t + (IF h < t THEN NElements ELSE 0)
  BY <1>1, <1>2
<1>5. Slot(n) \in Slots /\ Slot(n) # h /\ Wrapped(Slot(n)) # t
  <2>1. CASE t + n > NElements
    <3>1. Slot(n) = t + n - 1 - NElements
      BY <1>3, <2>1
    <3> QED
      BY <1>1, <1>4, <2>1, <3>1 DEF Wrapped, Slots
  <2>2. CASE ~(t + n > NElements)
    <3>1. Slot(n) = t + n - 1
      BY <1>1, <1>3, <1>4, <2>2
    <3> QED
      BY <1>1, <1>4, <2>2, <3>1 DEF Wrapped, Slots
  <2> QED
    BY <2>1, <2>2
<1> QED
  BY <1>5 DEF h, t

\* They form a sequence.
LEMMA WaitingSeq ==
  ASSUME QueueInv
  PROVE  /\ Waiting \in Seq(Messages \cup {Nil})
         /\ Len(Waiting) = Count
         /\ \A n \in 1..Count : Waiting[n] = data[Slot(n)]
<1>1. Count \in Nat
  BY CountFacts, RingAssumption DEF QueueInv
<1>2. Waiting \in [1..Count -> Messages \cup {Nil}]
  BY SlotFacts DEF Waiting, QueueInv, TypeInv, TypeOK
<1>3. Waiting \in Seq(Messages \cup {Nil})
  BY <1>1, <1>2, SeqDef
<1>4. Len(Waiting) \in Nat /\ DOMAIN Waiting = 1..Len(Waiting)
  BY <1>3, LenProperties
<1>5. DOMAIN Waiting = 1..Count
  BY DEF Waiting
<1>6. Len(Waiting) = Count
  <2>1. ASSUME NEW k \in Nat, 1..k = 1..Count PROVE k = Count
    <3>1. k = 0 \/ k \in 1..k
      OBVIOUS
    <3>2. Count = 0 \/ Count \in 1..Count
      BY <1>1
    <3> QED
      BY <1>1, <2>1, <3>1, <3>2
  <2> QED
    BY <1>4, <1>5, <2>1
<1> QED
  BY <1>3, <1>6 DEF Waiting

\* The queue stays as it is when the indexes and the slots of its messages do.
LEMMA SameWaiting ==
  ASSUME QueueInv, Pos(head)' = Pos(head), Pos(tail)' = Pos(tail),
         \A n \in 1..Count : data'[Slot(n)] = data[Slot(n)]
  PROVE  Waiting' = Waiting
BY DEF Waiting, Count, Slot

\* What has been taken, while nobody reads a slot.
LEMMA OutNobody ==
  ASSUME \A r \in Receivers : rpc[r] \notin {"wrap", "drain", "take"}
  PROVE  Out = taken
BY DEF Out, Reading

\* And while somebody does.
LEMMA OutSomebody ==
  ASSUME QueueInv, NEW r \in Receivers, rpc[r] \in {"wrap", "drain", "take"}
  PROVE  Out = Append(taken, data[ti[r]])
<1>1. Reading = {r}
  BY OneInside DEF Reading, Inside, QueueInv
<1> QED
  BY <1>1 DEF Out

\* It stays as it is while the collector works, if the slot that is read does.
LEMMA SameOut ==
  ASSUME UNCHANGED <<rpc, ti, taken>>,
         \A r \in Receivers : rpc[r] \in {"wrap", "drain", "take"} => data'[ti[r]] = data[ti[r]]
  PROVE  Out' = Out
<1>1. Reading' = Reading
  BY DEF Reading
<1>2. CASE Reading = {}
  BY <1>1, <1>2 DEF Out
<1>3. CASE Reading # {}
  <2>1. (CHOOSE r \in Reading : TRUE) \in Reading
    BY <1>3
  <2>2. (CHOOSE r \in Reading : TRUE) \in Receivers /\ rpc[CHOOSE r \in Reading : TRUE] \in {"wrap", "drain", "take"}
    BY <2>1 DEF Reading
  <2> QED
    BY <1>1, <1>3, <2>2 DEF Out
<1> QED
  BY <1>2, <1>3

\* A message that head moves past is appended (uta_ring_insert).
LEMMA HeadMoves ==
  ASSUME QueueInv, AdvanceHead
  PROVE  Waiting' = Append(Waiting, arrived) /\ Len(Waiting) < NElements - 1
<1>0. /\ Pos(head)' = Wrapped(head) /\ head = Pos(head) /\ Count' = Count + 1
      /\ ~Full(head, Pos(tail)) /\ UNCHANGED <<tail, data>> /\ data[head] = arrived
  BY HeadStep, IndexFacts DEF QueueInv, RoomToStore, AdvanceHead, readerVars
<1>1. head \in 0..NElements - 1 /\ Pos(tail) \in 0..NElements - 1 /\ NElements \in Nat /\ NElements > 1
  BY <1>0, IndexFacts DEF QueueInv
<1>2. Count \in 0..NElements - 2
  BY <1>0, <1>1, CountFacts DEF QueueInv
<1>3. Pos(tail)' = Pos(tail)
  BY <1>0 DEF Pos
<1>4. Slot(Count + 1) = head
  <2> DEFINE t == Pos(tail)
  <2>1. /\ Count = head - t + IF head < t THEN NElements ELSE 0
        /\ Slot(Count + 1) = t + (Count + 1) - 1 - IF t + (Count + 1) > NElements THEN NElements ELSE 0
    BY <1>0 DEF Count, Slot
  <2> HIDE DEF t
  <2>2. t \in 0..NElements - 1
    BY <1>1 DEF t
  <2> QED
    BY <1>1, <1>2, <2>1, <2>2
<1>5. \A n \in 1..Count + 1 : Slot(n)' = Slot(n)
  BY <1>3 DEF Slot
<1>6. data[head] \in Messages \cup {Nil}
  BY <1>1 DEF QueueInv, TypeInv, TypeOK, Slots
<1> DEFINE w == Append(Waiting, data[head])
<1>7. /\ w \in Seq(Messages \cup {Nil})
      /\ Len(w) = Count + 1
      /\ \A n \in 1..Count : w[n] = Waiting[n]
      /\ w[Count + 1] = data[head]
  BY <1>6, WaitingSeq, AppendProperties
<1>8. w = [n \in 1..Count + 1 |-> w[n]]
  BY <1>7, LenProperties
<1>9. \A n \in 1..Count + 1 : w[n] = data[Slot(n)]
  BY <1>2, <1>4, <1>7, WaitingSeq
<1>10. Waiting' = [n \in 1..Count + 1 |-> data[Slot(n)]]
  BY <1>0, <1>5 DEF Waiting
<1>11. Waiting' = w
  BY <1>8, <1>9, <1>10
<1> QED
  BY <1>0, <1>1, <1>2, <1>11, WaitingSeq

\* A message that tail moves past is the first one (uta_ring_extract).
LEMMA TailMoves ==
  ASSUME QueueInv, NEW r \in Receivers, AdvanceTail(r)
  PROVE  Waiting # <<>> /\ Head(Waiting) = data[tail] /\ Waiting' = Tail(Waiting)
<1>0. /\ Pos(tail)' = Wrapped(tail) /\ tail = Pos(tail) /\ Pos(head) # tail /\ Count' = Count - 1
      /\ UNCHANGED <<head, data>>
  BY TailStep DEF QueueInv, AdvanceTail, writerVars
<1>1. Pos(head) \in 0..NElements - 1 /\ tail \in 0..NElements - 1 /\ NElements \in Nat /\ NElements > 1
  BY <1>0, IndexFacts DEF QueueInv
<1>2. Count \in 1..NElements - 1
  BY <1>0, <1>1, CountFacts DEF QueueInv
<1>4. Slot(1) = tail
  BY <1>0, <1>1 DEF Slot
<1>5. \A n \in 1..Count - 1 : Slot(n)' = Slot(n + 1)
  <2> SUFFICES ASSUME NEW n \in 1..Count - 1 PROVE Slot(n)' = Slot(n + 1)
    OBVIOUS
  <2>1. /\ Slot(n)' = Wrapped(tail) + n - 1 - IF Wrapped(tail) + n > NElements THEN NElements ELSE 0
        /\ Slot(n + 1) = tail + (n + 1) - 1 - IF tail + (n + 1) > NElements THEN NElements ELSE 0
    BY <1>0 DEF Slot
  <2> QED
    BY <1>1, <1>2, <2>1 DEF Wrapped
<1>6. Waiting # <<>>
  BY <1>2, WaitingSeq, EmptySeq
<1> DEFINE w == Tail(Waiting)
<1>7. /\ Head(Waiting) = Waiting[1]
      /\ w \in Seq(Messages \cup {Nil})
      /\ Len(w) = Count - 1
      /\ \A n \in 1..Count - 1 : w[n] = Waiting[n + 1]
  BY <1>6, WaitingSeq, HeadTailProperties
<1>8. w = [n \in 1..Count - 1 |-> w[n]]
  BY <1>7, LenProperties
<1>9. \A n \in 1..Count - 1 : w[n] = data[Slot(n + 1)]
  BY <1>2, <1>7, WaitingSeq
<1>10. Waiting' = [n \in 1..Count - 1 |-> data[Slot(n + 1)]]
  BY <1>0, <1>5 DEF Waiting
<1>11. Waiting' = w
  BY <1>8, <1>9, <1>10
<1>12. Head(Waiting) = data[tail]
  BY <1>2, <1>4, <1>7, WaitingSeq
<1> QED
  BY <1>6, <1>11, <1>12

-----------------------------------------------------------------------------
(* Every step of the ring is a step of the queue, or none *)

\* The empty ring is the empty queue.
LEMMA InitMaps == Init => Queue!Init
<1> SUFFICES ASSUME Init PROVE Arrived = 0 /\ Waiting = <<>> /\ Out = <<>>
  BY DEF Queue!Init
<1>1. Arrived = 0
  BY DEF Init, Arrived
<1>2. Out = <<>>
  BY OutNobody DEF Init
<1>3. QueueInv
  BY InitQueue
<1>4. Len(Waiting) = 0 /\ Waiting \in Seq(Messages \cup {Nil})
  BY <1>3, WaitingSeq, CountFacts DEF Init, QueueInv
<1>5. Waiting = <<>>
  BY <1>4, EmptySeq
<1> QED
  BY <1>1, <1>2, <1>5

\* A message is dropped where the ring is found full and appended where head moves
\* past it; the other steps of the collector are not seen.
LEMMA CollectorMaps ==
  ASSUME QueueInv, Collector
  PROVE  Queue!Next \/ UNCHANGED <<Arrived, Waiting, Out>>
<1>0. arrived \in Nat
  BY RingAssumption DEF QueueInv, TypeInv, TypeOK
<1>1. CASE Arrive
  <2>1. Waiting' = Waiting /\ Out' = Out
    BY <1>1, SameWaiting, SameOut DEF Arrive, readerVars, Pos
  <2>2. CASE Full(head, tail)
    <3>1. Len(Waiting) = NElements - 1
      BY <1>1, <2>2, WaitingSeq, CountFacts, IndexFacts DEF Arrive, QueueInv
    <3>2. Arrived' = Arrived + 1
      BY <1>0, <1>1, <2>2 DEF Arrive, Arrived
    <3> QED
      BY <2>1, <3>1, <3>2 DEF Queue!Next, Queue!Drop
  <2>3. CASE ~Full(head, tail)
    BY <1>0, <1>1, <2>1, <2>3 DEF Arrive, Arrived
  <2> QED
    BY <2>2, <2>3
<1>2. CASE Store
  <2>1. data' = [data EXCEPT ![head] = arrived] /\ UNCHANGED <<head, tail, rpc, ti, taken>>
    BY <1>2 DEF Store, readerVars
  <2>0. head = Pos(head) /\ Pos(head)' = Pos(head) /\ Pos(tail)' = Pos(tail) /\ ~Full(head, Pos(tail))
        /\ head \in 0..NElements - 1 /\ NElements \in Nat
    BY <1>2, <2>1, IndexFacts DEF Store, QueueInv, RoomToStore, Pos
  <2>2. Waiting' = Waiting
    BY <2>0, <2>1, SlotFacts, SameWaiting DEF QueueInv, TypeInv, TypeOK
  <2>3. \A r \in Receivers : rpc[r] \in {"wrap", "drain", "take"} => ti[r] # head
    BY <2>0 DEF QueueInv, SlotBehindTail, Full, Wrapped
  <2>4. Out' = Out
    BY <2>1, <2>3, SameOut DEF QueueInv, TypeInv, TypeOK
  <2> QED
    BY <1>2, <2>2, <2>4 DEF Store, Arrived
<1>3. CASE AdvanceHead
  <2>1. UNCHANGED <<tail, data, rpc, ti, taken>>
    BY <1>3 DEF AdvanceHead, readerVars
  <2>2. Waiting' = Append(Waiting, arrived) /\ Len(Waiting) < NElements - 1
    BY <1>3, HeadMoves
  <2>3. Arrived' = arrived /\ arrived = Arrived + 1
    BY <1>0, <1>3 DEF AdvanceHead, Arrived
  <2>4. Out' = Out
    BY <2>1, SameOut
  <2> QED
    BY <2>2, <2>3, <2>4 DEF Queue!Next, Queue!Put
<1>4. CASE WrapHead
  <2>1. head = NElements /\ head' = 0 /\ wpc = "wrap" /\ wpc' = "signal" /\ UNCHANGED <<tail, data, rpc, ti, taken, arrived>>
    BY <1>4 DEF WrapHead, QueueInv, TypeInv, IndexesIn, readerVars
  <2>2. Pos(head)' = Pos(head) /\ Pos(tail)' = Pos(tail)
    BY <2>1, RingAssumption DEF Pos
  <2>3. Waiting' = Waiting /\ Out' = Out
    BY <2>1, <2>2, SameWaiting, SameOut
  <2> QED
    BY <2>1, <2>3 DEF Arrived
<1>5. CASE Signal \/ Post
  <2>1. UNCHANGED <<head, tail, data, rpc, ti, taken, arrived>>
    BY <1>5 DEF Signal, Post, readerVars
  <2>2. Waiting' = Waiting /\ Out' = Out
    BY <2>1, SameWaiting, SameOut DEF Pos
  <2>3. Arrived' = Arrived
    BY <1>5 DEF Signal, Post, Arrived
  <2> QED
    BY <2>2, <2>3
<1> QED
  BY <1>1, <1>2, <1>3, <1>4, <1>5 DEF Collector

\* The first message is taken where tail moves past it; that its slot is read
\* later is not seen, for nobody fills the slot in between.
LEMMA StepMaps ==
  ASSUME QueueInv, NEW r \in Receivers, Step(r)
  PROVE  Queue!Next \/ UNCHANGED <<Arrived, Waiting, Out>>
<1>0. Arrived' = Arrived
  BY DEF Step, Woken, TimeOut, Peek, Compare, Lock, Recheck, AdvanceTail, WrapTail, Drain, Take, Clear,
         Pop, writerVars, Arrived
<1>1. rpc = [q \in Receivers |-> rpc[q]]
  BY DEF QueueInv, TypeInv, TypeOK
<1>2. rpc[r] \in Inside => \A q \in Receivers \ {r} : rpc[q] \notin Inside
  BY OneInside DEF QueueInv
<1>3. CASE Woken(r) \/ TimeOut(r) \/ Peek(r) \/ Compare(r) \/ Lock(r) \/ Recheck(r) \/ Pop(r)
  <2>1. UNCHANGED <<head, tail, data, taken>>
    BY <1>3 DEF Woken, TimeOut, Peek, Compare, Lock, Recheck, Pop, writerVars
  <2>2. Waiting' = Waiting
    BY <2>1, SameWaiting DEF Pos
  <2>3. /\ rpc[r] \notin {"wrap", "drain", "take"}
        /\ rpc'[r] \notin {"wrap", "drain", "take"}
        /\ \A q \in Receivers \ {r} : rpc'[q] = rpc[q] /\ ti'[q] = ti[q]
    BY <1>1, <1>3 DEF Woken, TimeOut, Peek, Compare, Lock, Recheck, Pop, Goto, Return, QueueInv, TypeInv, TypeOK
  <2>4. Reading' = Reading
    BY <2>3 DEF Reading
  <2>5. Out' = Out
    <3>1. CASE Reading = {}
      BY <2>1, <2>4, <3>1 DEF Out
    <3>2. CASE Reading # {}
      <4>1. (CHOOSE q \in Reading : TRUE) \in Receivers \ {r}
        BY <2>3, <3>2 DEF Reading
      <4> QED
        BY <2>1, <2>3, <2>4, <3>2, <4>1 DEF Out
    <3> QED
      BY <3>1, <3>2
  <2> QED
    BY <1>0, <2>2, <2>5
<1>4. CASE AdvanceTail(r)
  <2>1. UNCHANGED <<head, data, ti, taken>>
    BY <1>4 DEF AdvanceTail, writerVars
  <2>2. /\ rpc[r] = "advance" /\ ti[r] = tail
        /\ rpc' \in {[rpc EXCEPT ![r] = "wrap"], [rpc EXCEPT ![r] = "drain"]}
    BY <1>4, TailStep DEF QueueInv
  <2>3. Waiting # <<>> /\ Head(Waiting) = data[tail] /\ Waiting' = Tail(Waiting)
    BY <1>4, TailMoves
  <2>4. Out = taken
    BY <1>2, <2>2, OutNobody DEF Inside
  <2>5. Reading' = {r}
    BY <1>1, <1>2, <2>2 DEF Reading, Inside
  <2>6. Out' = Append(taken, data[tail])
    BY <2>1, <2>2, <2>5 DEF Out
  <2> QED
    BY <1>0, <2>3, <2>4, <2>6 DEF Queue!Next, Queue!Take
<1>5. CASE WrapTail(r)
  <2>1. tail = NElements /\ tail' = 0 /\ rpc[r] = "wrap" /\ rpc' = [rpc EXCEPT ![r] = "drain"]
        /\ UNCHANGED <<head, data, ti, taken>>
    BY <1>5 DEF WrapTail, Goto, QueueInv, TypeInv, IndexesIn, writerVars
  <2>2. Pos(head)' = Pos(head) /\ Pos(tail)' = Pos(tail)
    BY <2>1, RingAssumption DEF Pos
  <2>3. Waiting' = Waiting
    BY <2>1, <2>2, SameWaiting
  <2>4. Reading' = Reading
    BY <1>1, <2>1 DEF Reading
  <2>5. Out' = Out
    BY <2>1, <2>4 DEF Out
  <2> QED
    BY <1>0, <2>3, <2>5
<1>6. CASE Drain(r)
  <2>1. UNCHANGED <<head, tail, data, ti, taken>> /\ rpc[r] = "drain" /\ rpc' = [rpc EXCEPT ![r] = "take"]
    BY <1>6 DEF Drain, Goto, writerVars
  <2>2. Waiting' = Waiting
    BY <2>1, SameWaiting DEF Pos
  <2>3. Reading' = Reading
    BY <1>1, <2>1 DEF Reading
  <2>4. Out' = Out
    BY <2>1, <2>3 DEF Out
  <2> QED
    BY <1>0, <2>2, <2>4
<1>7. CASE Take(r)
  <2>1. /\ UNCHANGED <<head, tail, data, ti>> /\ rpc[r] = "take"
        /\ rpc' = [rpc EXCEPT ![r] = "clear"] /\ taken' = Append(taken, data[ti[r]])
    BY <1>7 DEF Take, Goto, writerVars
  <2>2. Waiting' = Waiting
    BY <2>1, SameWaiting DEF Pos
  <2>3. Out = Append(taken, data[ti[r]])
    BY <2>1, OutSomebody
  <2>4. Reading' = {}
    BY <1>1, <1>2, <2>1 DEF Reading, Inside
  <2>5. Out' = taken'
    BY <2>4 DEF Out
  <2> QED
    BY <1>0, <2>1, <2>2, <2>3, <2>5
<1>8. CASE Clear(r)
  <2>1. /\ UNCHANGED <<head, tail, ti, taken>> /\ rpc[r] = "clear"
        /\ data' = [data EXCEPT ![ti[r]] = Nil]
        /\ rpc' \in {[rpc EXCEPT ![r] = "pop"], [rpc EXCEPT ![r] = "idle"]}
    BY <1>8 DEF Clear, Goto, Return, writerVars
  <2>2. Pos(tail) = Wrapped(ti[r]) /\ Pos(head)' = Pos(head) /\ Pos(tail)' = Pos(tail)
    BY <2>1 DEF QueueInv, SlotBehindTail, Pos
  <2>3. Waiting' = Waiting
    BY <2>1, <2>2, SlotFacts, SameWaiting DEF QueueInv, TypeInv, TypeOK
  <2>4. Out = taken
    BY <1>2, <2>1, OutNobody DEF Inside
  <2>5. Reading' = {}
    BY <1>1, <1>2, <2>1 DEF Reading, Inside
  <2>6. Out' = taken
    BY <2>1, <2>5 DEF Out
  <2> QED
    BY <1>0, <2>3, <2>4, <2>6
<1> QED
  BY <1>3, <1>4, <1>5, <1>6, <1>7, <1>8 DEF Step

\* All steps together.
LEMMA NextMaps == QueueInv /\ [Next]_vars => [Queue!Next]_(Queue!vars)
<1> SUFFICES ASSUME QueueInv, [Next]_vars
             PROVE  Queue!Next \/ UNCHANGED <<Arrived, Waiting, Out>>
  BY DEF Queue!vars
<1>1. CASE Collector
  BY <1>1, CollectorMaps
<1>2. CASE \E r \in Receivers : Step(r)
  BY <1>2, StepMaps
<1>3. CASE \E r \in Receivers : Calls(r)
  <2>1. PICK r \in Receivers, m \in Modes : Call(r, m)
    BY <1>3 DEF Calls
  <2>2. UNCHANGED <<head, tail, data, ti, taken, arrived, wpc>>
    BY <2>1 DEF Call, writerVars
  <2>3. rpc' \in {[rpc EXCEPT ![r] = "peek"], [rpc EXCEPT ![r] = "wait"]} /\ rpc[r] = "idle"
    BY <2>1 DEF Call, Goto
  <2>4. Reading' = Reading
    BY <2>3 DEF Reading, QueueInv, TypeInv, TypeOK
  <2>5. Waiting' = Waiting
    BY <2>2, SameWaiting DEF Pos
  <2> QED
    BY <2>2, <2>4, <2>5 DEF Out, Arrived
<1>4. CASE UNCHANGED vars
  BY <1>4 DEF vars, writerVars, readerVars, lookVars, Arrived, Waiting, Count, Slot, Out, Reading
<1> QED
  BY <1>1, <1>2, <1>3, <1>4 DEF Next

\* The ring is a bounded queue, for any number of receivers, slots and messages, in
\* every mode if an index wraps in one store, and with indexes that wrap in two if
\* no receiver polls: no message in the ring is lost, overwritten, taken twice or
\* out of order, although the collector takes no lock (uta_ring_insert,
\* uta_ring_extract).
THEOREM RingIsQueue ==
  ASSUME SafeUse
  PROVE  Spec => IsQueue
<1>1. Spec => []QueueInv
  <2>1. Init => QueueInv
    BY InitQueue
  <2>2. QueueInv /\ [Next]_vars => QueueInv'
    BY QueueKept
  <2> QED
    BY <2>1, <2>2, PTL DEF Spec
<1>2. Init => Queue!Init
  BY InitMaps
<1>3. QueueInv /\ [Next]_vars => [Queue!Next]_(Queue!vars)
  BY NextMaps
<1> QED
  BY <1>1, <1>2, <1>3, PTL DEF Spec, IsQueue, Queue!Spec

-----------------------------------------------------------------------------
(* Wake-ups: receivers that wait for the semaphore *)

\* The queue holds and gives messages, never an empty slot.
Filled == Waiting \in Seq(Nat) /\ Out \in Seq(Nat)

\* A receiver has taken a message before it clears the slot.
Answers == \A r \in Receivers : rpc[r] = "clear" => got[r] # Nil

\* A look that no other receiver has overtaken tells the truth: the tail it has
\* loaded is the tail there is, and the head it has loaded is not that tail.  So a
\* call that its look sent away was overtaken.
LooksTrue ==
  "poll" \notin Modes => \A r \in Receivers \ overtaken :
    /\ rpc[r] = "peek_head" => looked[r] = tail
    /\ rpc[r] = "peek_tail" => looked[r] # tail
    /\ rpc[r] = "idle" => result[r] # "empty"

MessageInv == QueueInv /\ Filled /\ Answers /\ LooksTrue

\* What is true of the queue is true of the ring.
LEMMA FilledKept == ASSUME QueueInv, Filled, [Next]_vars PROVE Filled'
<1>1. Arrived \in Nat
  BY RingAssumption DEF QueueInv, TypeInv, TypeOK, IndexesIn, Arrived
<1>2. Queue!Next \/ UNCHANGED <<Arrived, Waiting, Out>>
  BY NextMaps DEF Queue!vars
<1>3. CASE Queue!Put
  <2>1. Waiting' = Append(Waiting, Arrived + 1) /\ Out' = Out
    BY <1>3 DEF Queue!Put
  <2> QED
    BY <1>1, <2>1, AppendProperties DEF Filled
<1>4. CASE Queue!Drop
  BY <1>4 DEF Queue!Drop, Filled
<1>5. CASE Queue!Take
  <2>1. Waiting # <<>> /\ Out' = Append(Out, Head(Waiting)) /\ Waiting' = Tail(Waiting)
    BY <1>5 DEF Queue!Take
  <2>2. Head(Waiting) \in Nat /\ Waiting' \in Seq(Nat)
    BY <2>1, HeadTailProperties DEF Filled
  <2> QED
    BY <2>1, <2>2, AppendProperties DEF Filled
<1> QED
  BY <1>2, <1>3, <1>4, <1>5 DEF Queue!Next, Filled

\* A receiver reads a message.
LEMMA AnswersKept == ASSUME QueueInv, Filled, Answers, [Next]_vars PROVE Answers'
<1>0. /\ rpc = [q \in Receivers |-> rpc[q]] /\ got = [q \in Receivers |-> got[q]]
  BY DEF QueueInv, TypeInv, TypeOK
<1> USE DEF Answers
<1>1. CASE Collector \/ UNCHANGED vars
  <2>1. UNCHANGED <<rpc, got, result>>
    BY <1>1 DEF Collector, Arrive, Store, AdvanceHead, WrapHead, Signal, Post, vars, readerVars
  <2> QED
    BY <2>1
<1>2. ASSUME NEW r \in Receivers, NEW m \in Modes, Call(r, m) PROVE Answers'
  BY <1>0, <1>2 DEF Call, Goto
<1>3. ASSUME NEW r \in Receivers, Step(r) PROVE Answers'
  <2>1. CASE Take(r)
    <3>1. rpc[r] = "take" /\ got' = [got EXCEPT ![r] = data[ti[r]]] /\ UNCHANGED result
          /\ rpc' = [rpc EXCEPT ![r] = "clear"]
      BY <2>1 DEF Take, Goto
    <3>2. Out = Append(taken, data[ti[r]])
      BY <3>1, OutSomebody
    <3>3. taken \in Seq(Messages \cup {Nil}) /\ data[ti[r]] \in Messages \cup {Nil}
      BY DEF QueueInv, TypeInv, TypeOK
    <3>4. Len(Out) = Len(taken) + 1 /\ Out[Len(taken) + 1] = data[ti[r]] /\ Len(taken) \in Nat
      BY <3>2, <3>3, AppendProperties, LenProperties
    <3>5. data[ti[r]] \in Nat
      BY <3>4, ElementOfSeq DEF Filled
    <3> QED
      BY <1>0, <3>1, <3>5, RingAssumption
  <2>2. CASE ~Take(r)
    <3>1. UNCHANGED got /\ \A q \in Receivers : rpc'[q] = rpc[q] \/ rpc'[q] # "clear"
      BY <1>0, <1>3, <2>2 DEF Step, Woken, TimeOut, Peek, Compare, Lock, Recheck, AdvanceTail,
         WrapTail, Drain, Clear, Pop, Goto, Return
    <3> QED
      BY <3>1
  <2> QED
    BY <2>1, <2>2
<1> QED
  BY <1>1, <1>2, <1>3 DEF Next, Calls

\* The looks stay true: who moves tail marks the looks it overtakes, and the collector
\* moves head only, which a look that has loaded head does not load again.
LEMMA LooksKept == ASSUME QueueInv, Answers, LooksTrue, [Next]_vars PROVE LooksTrue'
<1> SUFFICES ASSUME "poll" \notin Modes PROVE LooksTrue'
  BY DEF LooksTrue
<1>0. /\ rpc = [q \in Receivers |-> rpc[q]] /\ result = [q \in Receivers |-> result[q]]
      /\ looked = [q \in Receivers |-> looked[q]] /\ overtaken \subseteq Receivers
      /\ \A q \in Receivers : mode[q] # "poll" /\ rpc[q] # "pop"
  BY DEF QueueInv, TypeInv, TypeOK, Counted
<1> USE DEF LooksTrue
<1>1. CASE Collector \/ UNCHANGED vars
  <2>1. UNCHANGED <<tail, rpc, result, looked, overtaken>>
    BY <1>1 DEF Collector, Arrive, Store, AdvanceHead, WrapHead, Signal, Post, vars, readerVars, lookVars
  <2> QED
    BY <2>1
<1>2. ASSUME NEW r \in Receivers, NEW m \in Modes, Call(r, m) PROVE LooksTrue'
  <2>1. /\ UNCHANGED <<tail, result, looked>> /\ overtaken' = overtaken \ {r}
        /\ rpc' \in {[rpc EXCEPT ![r] = "peek"], [rpc EXCEPT ![r] = "wait"]}
    BY <1>2 DEF Call, Goto
  <2> QED
    BY <1>0, <2>1
<1>3. ASSUME NEW r \in Receivers, Step(r) PROVE LooksTrue'
  <2>1. CASE Peek(r)
    <3>1. head # tail /\ UNCHANGED <<tail, result, overtaken>> /\ rpc[r] = "peek"
      BY <2>1, ComingFinds DEF Peek
    <3>2. \/ looked' = [looked EXCEPT ![r] = tail] /\ rpc' = [rpc EXCEPT ![r] = "peek_head"]
          \/ looked' = [looked EXCEPT ![r] = head] /\ rpc' = [rpc EXCEPT ![r] = "peek_tail"]
      BY <2>1 DEF Peek, Goto
    <3> QED
      BY <1>0, <3>1, <3>2
  <2>2. CASE Compare(r)
    <3>1. rpc[r] \in {"peek_head", "peek_tail"} /\ looked' = [looked EXCEPT ![r] = 0] /\ UNCHANGED tail
      BY <2>2 DEF Compare
    <3>2. head # tail
      BY <3>1, ComingFinds
    <3>3. CASE looked[r] = IF rpc[r] = "peek_head" THEN head ELSE tail
      <4>1. rpc' = [rpc EXCEPT ![r] = "idle"] /\ UNCHANGED overtaken
            /\ result' = [result EXCEPT ![r] = "empty"]
        BY <2>2, <3>3 DEF Compare, Return, Goto
      <4>2. r \in overtaken
        BY <3>1, <3>2, <3>3
      <4> QED
        BY <1>0, <3>1, <4>1, <4>2
    <3>4. CASE looked[r] # IF rpc[r] = "peek_head" THEN head ELSE tail
      <4>1. rpc' = [rpc EXCEPT ![r] = "lock"] /\ overtaken' = overtaken \ {r} /\ UNCHANGED result
        BY <2>2, <3>4 DEF Compare, Return, Goto
      <4> QED
        BY <1>0, <3>1, <4>1
    <3> QED
      BY <3>3, <3>4
  <2>3. CASE AdvanceTail(r) \/ WrapTail(r)
    <3>1. /\ overtaken' = overtaken \cup Looking /\ UNCHANGED <<looked, result>>
          /\ rpc' \in {[rpc EXCEPT ![r] = "wrap"], [rpc EXCEPT ![r] = "drain"]}
      BY <2>3 DEF AdvanceTail, WrapTail, Goto
    <3>2. \A q \in Receivers : rpc[q] \in {"peek_head", "peek_tail"} => q \in Looking
      BY <1>0 DEF Looking
    <3> QED
      BY <1>0, <3>1, <3>2
  <2>4. CASE Recheck(r)
    <3>1. rpc[r] = "recheck"
      BY <2>4 DEF Recheck
    <3>2. ~EmptyNow
      BY <3>1, ComingFinds DEF EmptyNow
    <3>3. UNCHANGED <<tail, looked, overtaken, result>> /\ rpc' = [rpc EXCEPT ![r] = "advance"]
      BY <2>4, <3>2 DEF Recheck, Goto, lookVars
    <3> QED
      BY <1>0, <3>3
  <2>5. CASE Clear(r)
    <3>1. rpc[r] = "clear" /\ got[r] # Nil /\ mode[r] # "poll"
      BY <1>0, <2>5 DEF Clear, Answers
    <3>2. /\ UNCHANGED <<tail, looked, overtaken>> /\ rpc' = [rpc EXCEPT ![r] = "idle"]
          /\ result' = [result EXCEPT ![r] = "message"]
      BY <2>5, <3>1 DEF Clear, Return, Goto, lookVars
    <3> QED
      BY <1>0, <3>2
  <2>6. CASE Woken(r) \/ Lock(r) \/ Drain(r) \/ Take(r)
    <3>1. /\ UNCHANGED <<tail, looked, overtaken, result>>
          /\ rpc' \in {[rpc EXCEPT ![r] = l] : l \in {"peek", "recheck", "take", "clear"}}
      BY <2>6 DEF Woken, Lock, Drain, Take, Goto, lookVars
    <3> QED
      BY <1>0, <3>1
  <2>7. CASE TimeOut(r)
    <3>1. /\ UNCHANGED <<tail, looked, overtaken>> /\ rpc' = [rpc EXCEPT ![r] = "idle"]
          /\ result' = [result EXCEPT ![r] = "timeout"]
      BY <2>7 DEF TimeOut, Return, Goto, lookVars
    <3> QED
      BY <1>0, <3>1
  <2>8. ~Pop(r)
    BY <1>0 DEF Pop
  <2> QED
    BY <1>3, <2>1, <2>2, <2>3, <2>4, <2>5, <2>6, <2>7, <2>8 DEF Step
<1> QED
  BY <1>1, <1>2, <1>3 DEF Next, Calls

\* In all.
LEMMA MessageSafe ==
  ASSUME SafeUse
  PROVE  Spec => []MessageInv
<1>1. Init => MessageInv
  <2> SUFFICES ASSUME Init PROVE MessageInv
    OBVIOUS
  <2>1. Waiting = <<>> /\ Out = <<>>
    BY InitMaps DEF Queue!Init
  <2>2. Answers /\ LooksTrue
    BY DEF Init, Answers, LooksTrue
  <2> QED
    BY <2>1, <2>2, InitQueue DEF MessageInv, Filled
<1>2. MessageInv /\ [Next]_vars => MessageInv'
  BY QueueKept, FilledKept, AnswersKept, LooksKept DEF MessageInv
<1> QED
  BY <1>1, <1>2, PTL DEF Spec

\* A wake-up is lost in one way only, for any number of receivers that wait, with
\* or without a limit, and of messages: each message in the ring has a count of the
\* semaphore, a receiver that comes for it, a post that is due, or a receiver that
\* the unlocked look at the ring has sent away (ring_static.c:192).
THEOREM WakeUpsAreCovered ==
  ASSUME "poll" \notin Modes
  PROVE  Spec => []WakeUpsCover
<1>1. SafeUse
  BY DEF SafeUse
<1>2. MessageInv => WakeUpsCover
  <2> SUFFICES ASSUME MessageInv PROVE WakeUpsCover
    OBVIOUS
  <2>1. Count = barrier + Cardinality(Coming) + missed + One(wpc \in {"wrap", "signal", "post"})
    BY DEF MessageInv, QueueInv, Counted
  <2>2. Count \in Nat
    BY CountFacts, RingAssumption DEF MessageInv, QueueInv
  <2> QED
    BY <2>1, <2>2 DEF WakeUpsCover, One
<1> QED
  BY <1>1, <1>2, MessageSafe, PTL

\* A receiver that got the semaphore comes back empty-handed only if another one
\* moved tail between the two loads of its look: "blocks until a message is ready"
\* (rmr_mt_rcv) holds of a lone receiver, and of each look that is not overtaken,
\* wherever the collector is.
THEOREM WokenAreServed ==
  ASSUME "poll" \notin Modes
  PROVE  Spec => []WokenFindsMessage
<1>1. SafeUse
  BY DEF SafeUse
<1>2. MessageInv => WokenFindsMessage
  BY DEF MessageInv, LooksTrue, WokenFindsMessage
<1> QED
  BY <1>1, <1>2, MessageSafe, PTL

\* The event descriptor counts the messages of a ring at rest: "counter is
\* maintained with each insert/extract" (uta_mk_ring).
THEOREM CounterIsMaintained ==
  ASSUME "poll" \notin Modes
  PROVE  Spec => []CounterMaintained
<1>1. SafeUse
  BY DEF SafeUse
<1>2. MessageInv => CounterMaintained
  <2> SUFFICES ASSUME MessageInv, wpc = "idle", \A r \in Receivers : rpc[r] \in {"idle", "wait"}
               PROVE  pfd = Count
    BY DEF CounterMaintained
  <2>1. pfd + One(wpc \in {"wrap", "signal"})
           = Count + One(\E r \in Receivers : rpc[r] \in {"wrap", "drain"})
    BY DEF MessageInv, QueueInv, Counted
  <2>2. Count \in Nat /\ pfd \in Nat
    BY CountFacts, RingAssumption DEF MessageInv, QueueInv, TypeInv, TypeOK
  <2> QED
    BY <2>1, <2>2 DEF One
<1> QED
  BY <1>1, <1>2, MessageSafe, PTL
=============================================================================
