------------------------------ MODULE RmrCall ------------------------------
(***************************************************************************)
(* rmr_mt_call of RMR (ric-plt-lib-rmr): a thread sends a message and      *)
(* waits for the answer in the chute of its call id.  The collector thread *)
(* puts every message that carries the call id into the chute, whatever it *)
(* finds there, and posts the semaphore of the chute.  The caller looks    *)
(* whether the message has its transaction id.                             *)
(*                                                                         *)
(* There is no lock: each access to chute->mbuf is a step of its own.  A   *)
(* call id belongs to one thread, and its chute to no other, so one chute  *)
(* is modelled.  Call number x has the transaction id x.                   *)
(***************************************************************************)
EXTENDS Naturals, Sequences

CONSTANTS
  MaxCalls,       \* bound: calls
  MaxMsgs,        \* bound: messages that arrive for the call id
  MaxInterrupts,  \* bound: signals that interrupt a wait
  Repeats,        \* whether a peer may answer a call more than once
  Nil             \* NULL

ASSUME CallAssumption ==
  /\ MaxCalls \in Nat
  /\ MaxMsgs \in Nat
  /\ MaxInterrupts \in Nat
  /\ Repeats \in BOOLEAN
  /\ Nil \notin Nat

VARIABLES
  mbuf,      \* chute->mbuf: Nil, or the number of a message that arrived
  sem,       \* chute->barrier
  rcvd,      \* the messages that arrived: transaction id, and what became of it
  posting,   \* whether the collector is between the store and the post
  sent,      \* the calls whose message went out
  interrupts,\* signals so far
  \* the caller
  pc,
  xid,       \* the number of its call, and chute->expect
  timed,     \* whether the call has a time limit
  state,     \* what the last wait returned: 0, or -1 (here 1)
  errno,     \* whether errno is set
  ret,       \* what the last call returned
  \* what arrived since the call began
  own,       \* its answer
  stray      \* the answer to another call

chuteVars  == <<mbuf, sem, rcvd>>
callerVars == <<pc, xid, timed, state, errno, ret>>
ghosts     == <<own, stray>>
vars       == <<chuteVars, posting, sent, interrupts, callerVars, ghosts>>

Calls == 1 .. MaxCalls
Msgs  == 1 .. MaxMsgs

Init ==
  /\ mbuf = Nil /\ sem = 0 /\ rcvd = <<>>
  /\ posting = FALSE
  /\ sent = {}
  /\ interrupts = 0
  /\ pc = "idle" /\ xid = 0 /\ timed = FALSE
  /\ state = 0 /\ errno = FALSE /\ ret = [how |-> "none", xid |-> 0]
  /\ own = FALSE /\ stray = FALSE

-----------------------------------------------------------------------------
(* The collector: the end of buf2mbuf *)

\* A message for the call id arrives and is stored in the chute.  It answers a
\* call that was sent: the present one, or an earlier one that gave up or has had
\* an answer.
Store(x) ==
  /\ ~posting
  /\ x \in sent
  /\ Len(rcvd) < MaxMsgs
  /\ Repeats \/ \A i \in DOMAIN rcvd : rcvd[i].xid # x
  /\ rcvd' = Append(rcvd, [xid |-> x, st |-> "live"])
  /\ mbuf' = Len(rcvd) + 1
  /\ posting' = TRUE
  /\ own' = (own \/ (pc # "idle" /\ x = xid))
  /\ stray' = (stray \/ (pc # "idle" /\ x # xid))
  /\ UNCHANGED <<sem, sent, interrupts, callerVars>>

\* sem_post.  The mutant forgets it.
PostNone  == sem
PostCount == sem + 1
Post ==
  /\ posting
  /\ posting' = FALSE
  /\ sem' = PostCount
  /\ UNCHANGED <<mbuf, rcvd, sent, interrupts, callerVars, ghosts>>

-----------------------------------------------------------------------------
(* The caller: mt_call *)

Mark(st)   == [rcvd EXCEPT ![mbuf].st = st]
Goto(next) == pc' = next

\* A call begins: is there a delayed message in the chute?  The mutant does not
\* look.
SeeNothing == FALSE
Delayed    == mbuf # Nil
Begin(limit) ==
  /\ pc = "idle"
  /\ xid < MaxCalls
  /\ xid' = xid + 1
  /\ timed' = limit
  /\ Goto(IF Delayed THEN "drop" ELSE "send")
  /\ own' = FALSE
  /\ stray' = FALSE
  /\ UNCHANGED <<chuteVars, posting, sent, interrupts, state, errno, ret>>

\* The delayed message is freed and the chute cleared, in two steps.
FreeDelayed ==
  /\ pc = "drop"
  /\ rcvd' = Mark("freed")
  /\ Goto("clear")
  /\ UNCHANGED <<mbuf, sem, posting, sent, interrupts, xid, timed, state, errno, ret, ghosts>>

ClearDelayed ==
  /\ pc = "clear"
  /\ mbuf' = Nil
  /\ Goto("send")
  /\ UNCHANGED <<sem, rcvd, posting, sent, interrupts, xid, timed, state, errno, ret, ghosts>>

\* The message goes out, or cannot be sent and is returned to the caller.
Send ==
  /\ pc = "send"
  /\ \/ /\ sent' = sent \cup {xid}
        /\ state' = 0
        /\ errno' = FALSE
        /\ Goto("loop")
        /\ UNCHANGED ret
     \/ /\ ret' = [how |-> "unsent", xid |-> 0]
        /\ Goto("idle")
        /\ UNCHANGED <<sent, state, errno>>
  /\ UNCHANGED <<chuteVars, posting, interrupts, xid, timed, ghosts>>

\* The test of the loop.
Loop ==
  /\ pc = "loop"
  /\ Goto(IF mbuf = Nil /\ ~errno THEN "wait" ELSE "leave")
  /\ UNCHANGED <<chuteVars, posting, sent, interrupts, xid, timed, state, errno, ret, ghosts>>

\* sem_wait or sem_timedwait gets a count.  The mutant goes on without one.
NoWait  == TRUE
Counted == sem > 0
Woken ==
  /\ pc = "wait"
  /\ Counted
  /\ sem' = sem - 1
  /\ state' = 0
  /\ Goto("vet")
  /\ UNCHANGED <<mbuf, rcvd, posting, sent, interrupts, xid, timed, errno, ret, ghosts>>

\* Or the time is up, if the flag is set that makes it a timed wait.  The mutant
\* does not set it.
NoLimit  == FALSE
HasLimit == timed
TimeOut ==
  /\ pc = "wait"
  /\ sem = 0
  /\ HasLimit
  /\ state' = 1
  /\ errno' = TRUE
  /\ Goto("vet")
  /\ UNCHANGED <<chuteVars, posting, sent, interrupts, xid, timed, ret, ghosts>>

\* Or a signal interrupts it, which clears errno.
Interrupted ==
  /\ pc = "wait"
  /\ sem = 0
  /\ interrupts < MaxInterrupts
  /\ interrupts' = interrupts + 1
  /\ state' = 1
  /\ Goto("vet")
  /\ UNCHANGED <<chuteVars, posting, sent, xid, timed, errno, ret, ghosts>>

\* After the wait: is there a message, and is it the expected one?
Vet ==
  /\ pc = "vet"
  /\ Goto(IF mbuf = Nil THEN "loop" ELSE "compare")
  /\ UNCHANGED <<chuteVars, posting, sent, interrupts, xid, timed, state, errno, ret, ghosts>>

Compare ==
  /\ pc = "compare"
  /\ Goto(IF rcvd[mbuf].xid = xid THEN "loop" ELSE "reject")
  /\ UNCHANGED <<chuteVars, posting, sent, interrupts, xid, timed, state, errno, ret, ghosts>>

Reject ==
  /\ pc = "reject"
  /\ rcvd' = Mark("freed")
  /\ Goto("rejected")
  /\ UNCHANGED <<mbuf, sem, posting, sent, interrupts, xid, timed, state, errno, ret, ghosts>>

\* The chute is cleared.  The mutant leaves the freed message in it.
KeepMbuf  == mbuf
ClearMbuf == Nil
Rejected ==
  /\ pc = "rejected"
  /\ mbuf' = ClearMbuf
  /\ errno' = FALSE
  /\ Goto("loop")
  /\ UNCHANGED <<sem, rcvd, posting, sent, interrupts, xid, timed, state, ret, ghosts>>

\* After the loop: nothing is returned if the last wait failed, else the
\* message in the chute.
Leave ==
  /\ pc = "leave"
  /\ IF state # 0
     THEN /\ ret' = [how |-> "nil", xid |-> 0]
          /\ Goto("idle")
          /\ UNCHANGED rcvd
     ELSE /\ ret' = [how |-> "message", xid |-> rcvd[mbuf].xid]
          /\ rcvd' = Mark("returned")
          /\ Goto("taken")
  /\ UNCHANGED <<mbuf, sem, posting, sent, interrupts, xid, timed, state, errno, ghosts>>

Taken ==
  /\ pc = "taken"
  /\ mbuf' = Nil
  /\ Goto("idle")
  /\ UNCHANGED <<sem, rcvd, posting, sent, interrupts, xid, timed, state, errno, ret, ghosts>>

-----------------------------------------------------------------------------
\* The steps of a call in progress
GoOn ==
  \/ FreeDelayed \/ ClearDelayed \/ Send
  \/ Loop \/ Woken \/ TimeOut \/ Vet \/ Compare \/ Reject \/ Rejected
  \/ Leave \/ Taken

Next ==
  \/ \E x \in Calls : Store(x)
  \/ Post
  \/ \E limit \in BOOLEAN : Begin(limit)
  \/ GoOn
  \/ Interrupted

Spec == Init /\ [][Next]_vars

\* The caller goes on when it can, its time runs out, and the collector posts.
Fairness == WF_vars(GoOn) /\ WF_vars(Post)

FairSpec == Spec /\ Fairness

-----------------------------------------------------------------------------
(* Properties *)

\* The variables have their types.
TypeOK ==
  /\ mbuf \in Msgs \cup {Nil}
  /\ sem \in Nat
  /\ rcvd \in Seq([xid : Calls, st : {"live", "freed", "returned"}])
  /\ Len(rcvd) <= MaxMsgs
  /\ posting \in BOOLEAN
  /\ sent \subseteq Calls
  /\ interrupts \in 0 .. MaxInterrupts
  /\ pc \in {"idle", "drop", "clear", "send", "loop", "wait", "vet", "compare",
             "reject", "rejected", "leave", "taken"}
  /\ xid \in 0 .. MaxCalls
  /\ timed \in BOOLEAN
  /\ state \in {0, 1}
  /\ errno \in BOOLEAN
  /\ ret \in [how : {"none", "unsent", "nil", "message"}, xid : 0 .. MaxCalls]
  /\ own \in BOOLEAN
  /\ stray \in BOOLEAN

\* A message is freed or handed to the application once: wherever the caller
\* uses chute->mbuf the message is there and has neither been freed nor
\* returned, though the collector may replace it between any two of its reads.
MessageOwned ==
  /\ pc \in {"drop", "compare", "reject"} \/ (pc = "leave" /\ state = 0) =>
       mbuf # Nil
  /\ mbuf # Nil /\ rcvd[mbuf].st # "live" => pc \in {"clear", "rejected", "taken"}

\* The call returns a message.
Answers == pc = "leave" /\ pc' = "taken"

\* A call returns the answer to its own message, the one whose transaction id
\* chute->expect holds, unless the answer to an earlier call arrives during this
\* one: what earlier calls left in the chute or in the semaphore does no harm.
OwnAnswerUnlessStray ==
  [][Answers => ret'.xid = xid \/ stray]_vars

\* A call whose answer arrives ends, with or without a time limit: the store
\* comes before the post, and the caller looks into the chute after each wait.
AnswerEndsCall == own /\ ~stray ~> pc = "idle" \/ stray

\* A call with a time limit ends, whatever arrives or does not.
TimedCallEnds == timed /\ pc # "idle" ~> pc = "idle"
=============================================================================
