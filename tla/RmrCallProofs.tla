--------------------------- MODULE RmrCallProofs ---------------------------
(***************************************************************************)
(* Proofs about RmrCall, for any number of calls, messages and signals and *)
(* for peers that answer once or often: the types, that a message is freed *)
(* or returned once, and that a call returns its own answer unless that of *)
(* another call arrives while it runs.                                     *)
(***************************************************************************)
EXTENDS RmrCall, SequenceTheorems, TLAPS

-----------------------------------------------------------------------------
(* Types *)

\* The chute holds a message that has arrived.
ChuteIn == mbuf # Nil => mbuf \in DOMAIN rcvd

\* A call that is in progress has a number.
InCall == pc # "idle" => xid \in Calls

\* errno is set by a wait that failed, and not while the caller waits.
ErrnoMeansFailed == (errno => state = 1) /\ (pc = "wait" => ~errno)

Kept ==
  \* Where the caller uses the message in the chute there is one: only the caller
  \* empties the chute.
  /\ pc \in {"drop", "compare", "reject"} => mbuf # Nil
  /\ pc = "leave" /\ ~errno => mbuf # Nil

TypeInv == TypeOK /\ ChuteIn /\ InCall /\ ErrnoMeansFailed /\ Kept

\* It holds before the first call.
LEMMA InitTypes == Init => TypeInv
<1> SUFFICES ASSUME Init PROVE TypeInv
  OBVIOUS
<1>1. rcvd \in Seq([xid : Calls, st : {"live", "freed", "returned"}]) /\ Len(rcvd) = 0
  BY DEF Init
<1>2. TypeOK
  <2>1. /\ posting \in BOOLEAN /\ timed \in BOOLEAN /\ errno \in BOOLEAN
        /\ own \in BOOLEAN /\ stray \in BOOLEAN
    BY Zenon DEF Init
  <2>2. /\ mbuf \in Msgs \cup {Nil} /\ sem \in Nat /\ sent \subseteq Calls
        /\ interrupts \in 0..MaxInterrupts /\ xid \in 0..MaxCalls /\ state \in {0, 1}
    BY CallAssumption DEF Init
  <2>3. ret \in [how : {"none", "unsent", "nil", "message"}, xid : 0 .. MaxCalls]
    BY CallAssumption DEF Init
  <2> QED
    BY <1>1, <2>1, <2>2, <2>3, CallAssumption DEF Init, TypeOK
<1> QED
  BY <1>2 DEF Init, TypeInv, ChuteIn, InCall, ErrnoMeansFailed, Kept

\* A message that is marked is still a message that arrived (rmr_free_msg, or its
\* return to the application).
LEMMA Marked ==
  ASSUME TypeInv, mbuf # Nil, NEW st \in {"freed", "returned"}, rcvd' = Mark(st)
  PROVE  /\ rcvd' \in Seq([xid : Calls, st : {"live", "freed", "returned"}])
         /\ Len(rcvd') = Len(rcvd)
         /\ DOMAIN rcvd' = DOMAIN rcvd
         /\ \A i \in DOMAIN rcvd : /\ rcvd'[i].xid = rcvd[i].xid
                                   /\ i # mbuf => rcvd'[i] = rcvd[i]
<1> DEFINE M == [xid : Calls, st : {"live", "freed", "returned"}]
<1>1. rcvd \in Seq(M) /\ mbuf \in 1..Len(rcvd)
  BY LenProperties DEF TypeInv, TypeOK, ChuteIn
<1>2. rcvd' = [rcvd EXCEPT ![mbuf] = [rcvd[mbuf] EXCEPT !.st = st]]
  BY DEF Mark
<1>3. rcvd[mbuf] \in M
  BY <1>1, ElementOfSeq
<1>4. [rcvd[mbuf] EXCEPT !.st = st] \in M /\ [rcvd[mbuf] EXCEPT !.st = st].xid = rcvd[mbuf].xid
  BY <1>3
<1>5. rcvd' \in Seq(M) /\ Len(rcvd') = Len(rcvd)
  BY <1>1, <1>2, <1>4, ExceptSeq
<1> QED
  BY <1>1, <1>2, <1>4, <1>5

\* The collector (the end of buf2mbuf) keeps the types and fills the chute with a
\* message that has just arrived.
LEMMA StoreTypes == ASSUME TypeInv, NEW x \in Calls, Store(x) PROVE TypeInv'
<1> DEFINE M == [xid : Calls, st : {"live", "freed", "returned"}]
<1> DEFINE m == [xid |-> x, st |-> "live"]
<1>1. rcvd \in Seq(M) /\ m \in M /\ rcvd' = Append(rcvd, m) /\ mbuf' = Len(rcvd) + 1
  BY DEF Store, TypeInv, TypeOK
<1>2. /\ rcvd' \in Seq(M) /\ Len(rcvd') = Len(rcvd) + 1 /\ Len(rcvd) \in Nat
      /\ DOMAIN rcvd' = 1..Len(rcvd')
  BY <1>1, AppendProperties, LenProperties
<1>3. /\ mbuf' \in DOMAIN rcvd' /\ mbuf' \in Msgs /\ Len(rcvd') <= MaxMsgs
  BY <1>1, <1>2, CallAssumption DEF Store, Msgs
<1>4. own' \in BOOLEAN /\ stray' \in BOOLEAN /\ posting' \in BOOLEAN
  BY Zenon DEF Store, TypeInv, TypeOK
<1>5. TypeOK'
  BY <1>2, <1>3, <1>4 DEF Store, TypeInv, TypeOK, callerVars
<1>6. mbuf' # Nil
  BY <1>3, CallAssumption DEF Msgs
<1> QED
  BY <1>3, <1>5, <1>6 DEF Store, TypeInv, ChuteIn, InCall, ErrnoMeansFailed, Kept, callerVars

\* So does its post (sem_post).
LEMMA PostTypes == TypeInv /\ Post => TypeInv'
<1> SUFFICES ASSUME TypeInv, Post PROVE TypeInv'
  OBVIOUS
<1> USE DEF Post, PostCount, callerVars, ghosts, TypeInv
<1>1. posting' \in BOOLEAN
  BY Zenon
<1>2. TypeOK'
  BY <1>1 DEF TypeOK
<1> QED
  BY <1>2 DEF ChuteIn, InCall, ErrnoMeansFailed, Kept

\* A call begins (mt_call).
LEMMA BeginTypes == ASSUME TypeInv, NEW limit \in BOOLEAN, Begin(limit) PROVE TypeInv'
<1> USE DEF Begin, Delayed, Goto, chuteVars, TypeInv
<1>1. timed' \in BOOLEAN /\ own' \in BOOLEAN /\ stray' \in BOOLEAN
  BY Zenon
<1>2. xid' \in Calls
  BY CallAssumption DEF TypeOK, Calls
<1>3. TypeOK'
  BY <1>1, <1>2, CallAssumption DEF TypeOK, Calls
<1> QED
  BY <1>2, <1>3 DEF ChuteIn, InCall, ErrnoMeansFailed, Kept

\* The other steps of a call.
LEMMA GoOnTypes == TypeInv /\ (GoOn \/ Interrupted) => TypeInv'
<1> SUFFICES ASSUME TypeInv, GoOn \/ Interrupted PROVE TypeInv'
  OBVIOUS
<1> USE DEF TypeInv, ChuteIn, InCall, ErrnoMeansFailed, Kept, Goto, chuteVars, ghosts
<1>1. CASE FreeDelayed
  BY <1>1, Marked DEF FreeDelayed, TypeOK
<1>2. CASE ClearDelayed
  BY <1>2 DEF ClearDelayed, TypeOK
<1>3. CASE Send
  <2>1. CASE pc' = "loop"
    <3>1. errno' = FALSE /\ errno' \in BOOLEAN /\ state' = 0 /\ sent' = sent \cup {xid} /\ UNCHANGED ret
      BY <1>3, <2>1, Zenon DEF Send
    <3> QED
      BY <1>3, <2>1, <3>1 DEF Send, TypeOK
  <2>2. CASE pc' = "idle"
    <3>1. ret' = [how |-> "unsent", xid |-> 0] /\ UNCHANGED <<sent, state, errno>>
      BY <1>3, <2>2 DEF Send
    <3> QED
      BY <1>3, <2>2, <3>1, CallAssumption DEF Send, TypeOK
  <2> QED
    BY <1>3, <2>1, <2>2 DEF Send
<1>4. CASE Loop
  BY <1>4 DEF Loop, TypeOK
<1>5. CASE Woken
  BY <1>5 DEF Woken, Counted, TypeOK
<1>6. CASE TimeOut
  BY <1>6 DEF TimeOut, HasLimit, TypeOK
<1>7. CASE Interrupted
  BY <1>7, CallAssumption DEF Interrupted, TypeOK
<1>8. CASE Vet
  BY <1>8 DEF Vet, TypeOK
<1>9. CASE Compare
  BY <1>9 DEF Compare, TypeOK
<1>10. CASE Reject
  BY <1>10, Marked DEF Reject, TypeOK
<1>11. CASE Rejected
  BY <1>11 DEF Rejected, ClearMbuf, TypeOK
<1>12. CASE Leave
  <2>1. CASE state # 0
    <3>1. ret' = [how |-> "nil", xid |-> 0] /\ UNCHANGED rcvd /\ pc' = "idle"
      BY <1>12, <2>1 DEF Leave
    <3> QED
      BY <1>12, <3>1, CallAssumption DEF Leave, TypeOK
  <2>2. CASE state = 0
    <3>1. mbuf # Nil
      BY <1>12, <2>2 DEF Leave
    <3>2. rcvd[mbuf].xid \in Calls
      <4> DEFINE M == [xid : Calls, st : {"live", "freed", "returned"}]
      <4>1. rcvd \in Seq(M) /\ mbuf \in DOMAIN rcvd
        BY <3>1 DEF TypeOK
      <4>2. DOMAIN rcvd = 1..Len(rcvd)
        BY <4>1, LenProperties
      <4>3. rcvd[mbuf] \in M
        BY <4>1, <4>2, ElementOfSeq
      <4> QED
        BY <4>3
    <3>3. ret' = [how |-> "message", xid |-> rcvd[mbuf].xid] /\ rcvd' = Mark("returned") /\ pc' = "taken"
      BY <1>12, <2>2 DEF Leave
    <3>4. ret' \in [how : {"none", "unsent", "nil", "message"}, xid : 0 .. MaxCalls]
      BY <3>2, <3>3, CallAssumption DEF Calls
    <3> QED
      BY <1>12, <3>1, <3>3, <3>4, Marked DEF Leave, TypeOK
  <2> QED
    BY <2>1, <2>2
<1>13. CASE Taken
  BY <1>13 DEF Taken, TypeOK
<1> QED
  BY <1>1, <1>2, <1>3, <1>4, <1>5, <1>6, <1>7, <1>8, <1>9, <1>10, <1>11, <1>12, <1>13 DEF GoOn

\* The types and what goes with them are kept by every step.
LEMMA TypesKept == TypeInv /\ [Next]_vars => TypeInv'
<1> SUFFICES ASSUME TypeInv, [Next]_vars PROVE TypeInv'
  OBVIOUS
<1>1. CASE \E x \in Calls : Store(x)
  BY <1>1, StoreTypes
<1>2. CASE \E limit \in BOOLEAN : Begin(limit)
  BY <1>2, BeginTypes
<1>3. CASE UNCHANGED vars
  BY <1>3 DEF vars, chuteVars, callerVars, ghosts, TypeInv, TypeOK, ChuteIn, InCall,
              ErrnoMeansFailed, Kept
<1> QED
  BY <1>1, <1>2, <1>3, PostTypes, GoOnTypes DEF Next

\* Every variable of a call keeps its type, and with the types: the caller never
\* looks into an empty chute (mt_call).
THEOREM TypeCorrect == Spec => []TypeOK
<1>1. Spec => []TypeInv
  BY InitTypes, TypesKept, PTL DEF Spec
<1>2. TypeInv => TypeOK
  BY DEF TypeInv
<1> QED
  BY <1>1, <1>2, PTL

-----------------------------------------------------------------------------
(* A message is freed or returned once *)

\* A message in the chute that is not the caller's any more is on its way out.
LiveInChute ==
  mbuf # Nil /\ rcvd[mbuf].st # "live" => pc \in {"clear", "rejected", "taken"}

\* A message that has come to the chute since the call began is its answer, or the
\* call has met the answer to another one.
SinceBegin ==
  pc \notin {"idle", "drop", "clear", "taken"} /\ mbuf # Nil => rcvd[mbuf].xid = xid \/ stray

CallInv == TypeInv /\ LiveInChute /\ SinceBegin

\* It holds before the first call.
LEMMA InitCall == Init => CallInv
BY InitTypes DEF Init, CallInv, LiveInChute, SinceBegin

\* A step keeps it: the collector stores what is live, and what the caller gives
\* away it takes out of the chute in its next step.
LEMMA CallKept == CallInv /\ [Next]_vars => CallInv'
<1> SUFFICES ASSUME CallInv, [Next]_vars PROVE LiveInChute' /\ SinceBegin'
  BY TypesKept DEF CallInv
<1> USE DEF CallInv, LiveInChute, SinceBegin, Goto, chuteVars, ghosts
<1>0. TypeInv /\ TypeInv'
  BY TypesKept
<1>1. ASSUME NEW x \in Calls, Store(x) PROVE LiveInChute' /\ SinceBegin'
  <2> DEFINE m == [xid |-> x, st |-> "live"]
  <2>1. rcvd'[mbuf'] = m
    <3>1. m \in [xid : Calls, st : {"live", "freed", "returned"}]
      OBVIOUS
    <3> QED
      BY <1>0, <1>1, <3>1, AppendProperties DEF Store, TypeInv, TypeOK
  <2>2. x = xid \/ pc = "idle" \/ stray'
    BY <1>1 DEF Store
  <2> QED
    BY <1>1, <2>1, <2>2 DEF Store, callerVars
<1>2. CASE Post
  BY <1>2 DEF Post, callerVars
<1>3. ASSUME NEW limit \in BOOLEAN, Begin(limit) PROVE LiveInChute' /\ SinceBegin'
  BY <1>3 DEF Begin, Delayed
<1>4. CASE Interrupted
  BY <1>4 DEF Interrupted
<1>5. CASE UNCHANGED vars
  BY <1>5 DEF vars, callerVars
<1>6. CASE FreeDelayed
  BY <1>0, <1>6, Marked DEF FreeDelayed
<1>7. CASE ClearDelayed
  BY <1>7 DEF ClearDelayed
<1>8. CASE Send
  BY <1>8 DEF Send
<1>9. CASE Loop
  BY <1>9 DEF Loop
<1>10. CASE Woken
  BY <1>10 DEF Woken
<1>11. CASE TimeOut
  BY <1>11 DEF TimeOut
<1>12. CASE Vet
  BY <1>12 DEF Vet
<1>13. CASE Compare
  BY <1>13 DEF Compare
<1>14. CASE Reject
  BY <1>0, <1>14, Marked DEF Reject, TypeInv, Kept, ChuteIn
<1>15. CASE Rejected
  BY <1>15 DEF Rejected, ClearMbuf
<1>16. CASE Leave
  <2>1. CASE state # 0
    BY <1>16, <2>1 DEF Leave
  <2>2. CASE state = 0
    BY <1>16, <2>2 DEF Leave
  <2> QED
    BY <2>1, <2>2
<1>17. CASE Taken
  BY <1>17 DEF Taken
<1> QED
  BY <1>1, <1>2, <1>3, <1>4, <1>5, <1>6, <1>7, <1>8, <1>9, <1>10, <1>11, <1>12, <1>13, <1>14,
     <1>15, <1>16, <1>17 DEF Next, GoOn

\* It is an invariant.
LEMMA CallInvariant == Spec => []CallInv
BY InitCall, CallKept, PTL DEF Spec

\* A message that answers a call is freed or handed to the application once, and
\* used no more: whatever the collector stores between two accesses of the caller
\* to chute->mbuf, and however many calls, answers and signals there are (mt_call,
\* buf2mbuf).
THEOREM OwnedOnce == Spec => []MessageOwned
<1>1. CallInv => MessageOwned
  BY DEF CallInv, TypeInv, Kept, ErrnoMeansFailed, LiveInChute, MessageOwned
<1> QED
  BY <1>1, CallInvariant, PTL

\* A call returns the answer to its own message, unless an answer to another call
\* arrives while it runs: answers that came before, whether they are in the chute or
\* only left a count of the semaphore, are not returned (mt_call).
THEOREM AnswerIsOwn == Spec => OwnAnswerUnlessStray
<1>1. CallInv /\ [Next]_vars => [Answers => ret'.xid = xid \/ stray]_vars
  <2> SUFFICES ASSUME CallInv, Next, pc = "leave", pc' = "taken"
               PROVE  ret'.xid = xid \/ stray
    BY DEF Answers
  <2>1. Leave
    BY DEF Next, GoOn, Store, Post, Begin, Interrupted, FreeDelayed, ClearDelayed, Send, Loop,
           Woken, TimeOut, Vet, Compare, Reject, Rejected, Taken, Goto, callerVars
  <2>2. state = 0 /\ ret' = [how |-> "message", xid |-> rcvd[mbuf].xid]
    BY <2>1 DEF Leave, Goto
  <2>3. mbuf # Nil
    BY <2>2 DEF CallInv, TypeInv, Kept, ErrnoMeansFailed
  <2> QED
    BY <2>2, <2>3 DEF CallInv, SinceBegin
<1> QED
  BY <1>1, CallInvariant, PTL DEF Spec, OwnAnswerUnlessStray
=============================================================================
