------------------------------ MODULE RmrRoute ------------------------------
(***************************************************************************)
(* The route tables of RMR (ric-plt-lib-rmr).  The route table collector   *)
(* thread (rtc) gets records from the route manager, builds a new table    *)
(* and rolls it in; threads that send pick the active table up, look up    *)
(* the entry of their message and send it to an endpoint of each group.    *)
(*                                                                         *)
(* Tables are counted by the senders that use them (ref_count), entries by *)
(* the tables that hold them (refs): an update starts from a clone of the  *)
(* active table that shares its entries.  A table or an entry that is      *)
(* freed may be allocated again at the same address.                       *)
(*                                                                         *)
(* One message type is modelled, so the key of an entry is its             *)
(* subscription id, AnyKey standing for UNSET_SUBID.                       *)
(***************************************************************************)
EXTENDS Integers, Sequences, FiniteSets

CONSTANTS
  Senders,      \* the threads that send
  Keys,         \* subscription ids that have entries
  AnyKey,       \* UNSET_SUBID, the key of the entry for the type alone
  Meids,        \* managed entity ids
  Eps,          \* endpoints, never freed
  Routes,       \* what an entry may list: a sequence of groups of endpoints;
                \* no group means that the meid of the message decides
  Tabs,         \* addresses of tables
  Rtes,         \* addresses of entries
  Nil,          \* NULL
  MaxTables,    \* bound: tables the route manager starts to send
  MaxRecs,      \* bound: records of a table
  MallocFails   \* whether the clone of a table or a message may fail

ASSUME RouteAssumption ==
  /\ AnyKey \in Keys
  /\ Routes \subseteq Seq(SUBSET Eps \ {{}})
  /\ Nil \notin Tabs \cup Rtes \cup Eps \cup Keys \cup Meids
  /\ MaxTables \in Nat
  /\ MaxRecs \in Nat
  /\ MallocFails \in BOOLEAN

VARIABLES
  liveTabs,   \* allocated tables
  hash,       \* the entries of each table, class 0 of its hash
  me,         \* the owner of each meid, class RT_ME_SPACE of its hash
  refCount,   \* route_table_t.ref_count
  err,        \* route_table_t.error
  updates,    \* route_table_t.updates, mupdates for a meid map
  refs,       \* rtable_ent_t.refs; 0 when it is not allocated
  groups,     \* rtable_ent_t.rrgroups; Nil when it is not allocated
  rtable,     \* the active table
  newRt,      \* new_rtable, the one under construction
  oldRt,      \* old_rtable, the one that drains
  drain,      \* the table prep_new_rt waits for, or Nil
  rtc,        \* the collector: between records, or inside prep_new_rt
  fullRt,     \* CFL_FULLRT
  tableId,    \* table_id
  lastAck,    \* the last table state sent to the route manager
  snd,        \* the senders
  \* what the route manager does, and what it meant
  sending,    \* the kind of table it sends, or Nil
  nsent,      \* records of that table it has sent
  lost,       \* whether one of them was lost
  want,       \* the table it describes
  right,      \* history: the spaces, "mt" and "me", in which the application has
              \* got every record of the tables it has acknowledged
  meant       \* the tables described and acknowledged; not kept for a space that
              \* is not right

tabVars  == <<liveTabs, hash, me, refCount, err, updates>>
rteVars  == <<refs, groups>>
ctxVars  == <<rtable, newRt, oldRt, drain, rtc, fullRt, tableId, lastAck>>
rmVars   == <<sending, nsent, lost, want, right, meant>>
vars     == <<tabVars, rteVars, ctxVars, snd, rmVars>>

Kinds == {"newrt", "update", "meid"}

\* The bindings of keys to routes and of meids to endpoints in a table.
NoRoute     == [k \in Keys |-> Nil]
NoOwner     == [m \in Meids |-> Nil]
EmptyTable  == [mt |-> NoRoute, me |-> NoOwner]
Content(h, g, o) == [mt |-> [k \in Keys |-> IF h[k] = Nil THEN Nil ELSE g[h[k]]],
                     me |-> o]

IdleSender == [pc |-> "idle", rt |-> Nil, rte |-> Nil, listed |-> <<>>, grp |-> 1]

Init ==
  /\ liveTabs = {}
  /\ hash = [t \in Tabs |-> NoRoute]
  /\ me = [t \in Tabs |-> NoOwner]
  /\ refCount = [t \in Tabs |-> 0]
  /\ err = [t \in Tabs |-> FALSE]
  /\ updates = [t \in Tabs |-> 0]
  /\ refs = [r \in Rtes |-> 0]
  /\ groups = [r \in Rtes |-> Nil]
  /\ rtable = Nil /\ newRt = Nil /\ oldRt = Nil /\ drain = Nil
  /\ rtc = "idle"
  /\ fullRt = FALSE
  /\ tableId = 0
  /\ lastAck = [id |-> 0, ok |-> FALSE]
  /\ snd = [s \in Senders |-> IdleSender]
  /\ sending = Nil /\ nsent = 0 /\ lost = FALSE
  /\ want = EmptyTable
  /\ meant = EmptyTable
  /\ right = {"mt", "me"}

-----------------------------------------------------------------------------
(* Tables and entries *)

Entries(h) == {h[k] : k \in Keys} \ {Nil}

\* One reference more, one less: del_rte frees the entry when it is the last.
Ref(rf, S)     == [r \in Rtes |-> IF r \in S THEN rf[r] + 1 ELSE rf[r]]
del_rte(rf, S) == [r \in Rtes |-> IF r \in S THEN rf[r] - 1 ELSE rf[r]]

\* What is left in the entries, given their references.
Kept(g, rf) == [r \in Rtes |-> IF rf[r] = 0 THEN Nil ELSE g[r]]

\* An entry at a free address takes the place of the one the key had, which
\* loses a reference.  The mutant forgets the latter.
AddNoDel(h, rf, g, k, route) ==
  {[h |-> [h EXCEPT ![k] = r],
    rf |-> [rf EXCEPT ![r] = 1],
    g |-> [g EXCEPT ![r] = route]] : r \in {a \in Rtes : rf[a] = 0}}
uta_add_rte(h, rf, g, k, route) ==
  {[h |-> [h EXCEPT ![k] = r],
    rf |-> [del_rte(rf, {h[k]}) EXCEPT ![r] = 1],
    g |-> [Kept(g, del_rte(rf, {h[k]})) EXCEPT ![r] = route]] : r \in {a \in Rtes : rf[a] = 0}}

\* An incomplete table is dropped: its entries lose a reference, and the table
\* is freed.
uta_rt_drop(t) ==
  /\ refs' = del_rte(refs, Entries(hash[t]))
  /\ groups' = Kept(groups, refs')
  /\ hash' = [hash EXCEPT ![t] = NoRoute]
  /\ me' = [me EXCEPT ![t] = NoOwner]
  /\ err' = [err EXCEPT ![t] = FALSE]
  /\ updates' = [updates EXCEPT ![t] = 0]
  /\ liveTabs' = liveTabs \ {t}

\* rt_clone_space and uta_rt_clone: what a table that is to be filled starts
\* with.  A newrt starts with the meids of the active table, the other kinds
\* share its entries too.  A space whose clone runs out of memory stays empty.
\* The mutant takes no references to the entries.
CloneNoRef(rf, S) == rf
CloneRefs(rf, S)  == Ref(rf, S)
uta_rt_clone(all, failed) ==
  [mt |-> IF rtable = Nil \/ ~all \/ "mt" \in failed THEN NoRoute ELSE hash[rtable],
   me |-> IF rtable = Nil \/ "me" \in failed THEN NoOwner ELSE me[rtable]]

-----------------------------------------------------------------------------
(* The collector: parse_rt_rec and meid_parser, one record at a time *)

\* send_rt_ack, with the id of the table that was being loaded
Ack(ok) == lastAck' = [id |-> tableId, ok |-> ok]

\* The route manager begins a table, from nothing or from what it has described
\* before; it may have given up an earlier one.
Begin(kind) ==
  /\ sending' = kind
  /\ nsent' = 0
  /\ lost' = FALSE
  /\ want' = [mt |-> IF kind = "newrt" THEN NoRoute ELSE meant.mt, me |-> meant.me]

\* A start record: a table in progress is dropped and refused, then
\* prep_new_rt takes the old table to wait until nobody uses it.  An update is
\* ignored before the first full table.  Start records arrive: what the code does
\* with the rest of a table whose start is lost is not modelled.
StartTable(kind) ==
  /\ rtc = "idle"
  /\ tableId < MaxTables
  /\ kind = "update" => fullRt
  /\ Begin(kind)
  /\ IF newRt # Nil
     THEN uta_rt_drop(newRt) /\ Ack(FALSE)
     ELSE UNCHANGED <<liveTabs, hash, me, err, updates, rteVars, lastAck>>
  /\ tableId' = tableId + 1
  /\ newRt' = Nil
  /\ drain' = oldRt
  /\ oldRt' = Nil
  /\ rtc' = "prep"
  /\ UNCHANGED <<refCount, rtable, fullRt, snd, meant, right>>

\* The old table is free of users.  The mutant does not wait for them.
DrainedNow(t) == TRUE
Drained(t)    == refCount[t] = 0

\* The rest of prep_new_rt: clear the old table, or get one, and clone.
PrepNewRt ==
  /\ rtc = "prep"
  /\ drain # Nil => Drained(drain)
  /\ \E t \in IF drain # Nil THEN {drain} ELSE Tabs \ liveTabs,
        failed \in IF MallocFails THEN SUBSET {"mt", "me"} ELSE {{}} :
       LET cleared == IF drain # Nil THEN del_rte(refs, Entries(hash[drain])) ELSE refs
           clone   == uta_rt_clone(sending # "newrt", failed)
       IN  /\ liveTabs' = liveTabs \cup {t}
           /\ hash' = [hash EXCEPT ![t] = clone.mt]
           /\ me' = [me EXCEPT ![t] = clone.me]
           /\ refs' = CloneRefs(cleared, Entries(clone.mt))
           /\ groups' = Kept(groups, refs')
           /\ refCount' = [refCount EXCEPT ![t] = 0]
           /\ err' = [err EXCEPT ![t] = rtable # Nil /\ failed # {}]
           /\ updates' = [updates EXCEPT ![t] = 0]
           /\ newRt' = t
  /\ drain' = Nil
  /\ rtc' = "idle"
  /\ UNCHANGED <<rtable, oldRt, fullRt, tableId, lastAck, snd, rmVars>>

\* It has sent the end record.
Ended ==
  /\ sending' = Nil
  /\ nsent' = 0
  /\ lost' = FALSE
  /\ want' = EmptyTable

\* Another record of the table, which the route manager has counted.
Record(mt, owner) ==
  /\ rtc = "idle"
  /\ newRt # Nil
  /\ sending # Nil
  /\ nsent < MaxRecs
  /\ nsent' = nsent + 1
  /\ want' = [mt |-> mt, me |-> owner]
  /\ UNCHANGED <<sending, meant, right>>

Arrives ==
  /\ updates' = [updates EXCEPT ![newRt] = @ + 1]
  /\ UNCHANGED <<liveTabs, refCount, err, ctxVars, snd, lost>>

\* An rte or mse record: build_entry.
AddEntry(k, route) ==
  /\ sending \in {"newrt", "update"}
  /\ Record([want.mt EXCEPT ![k] = route], want.me)
  /\ Arrives
  /\ \E n \in uta_add_rte(hash[newRt], refs, groups, k, route) :
       /\ hash' = [hash EXCEPT ![newRt] = n.h]
       /\ refs' = n.rf
       /\ groups' = n.g
  /\ UNCHANGED me

\* A del record: trash_entry.
DelEntry(k) ==
  /\ sending = "update"
  /\ Record([want.mt EXCEPT ![k] = Nil], want.me)
  /\ Arrives
  /\ hash' = [hash EXCEPT ![newRt][k] = Nil]
  /\ refs' = del_rte(refs, {hash[newRt][k]})
  /\ groups' = Kept(groups, refs')
  /\ UNCHANGED me

\* An mme_ar record (parse_meid_ar) or, with no owner, an mme_del record
\* (parse_meid_del).
SetMeid(m, owner) ==
  /\ sending = "meid"
  /\ Record(want.mt, [want.me EXCEPT ![m] = owner])
  /\ Arrives
  /\ me' = [me EXCEPT ![newRt][m] = owner]
  /\ UNCHANGED <<hash, refs, groups>>

\* A record of any kind that is lost on the way.
LoseRecord ==
  /\ \/ /\ sending \in {"newrt", "update"}
        /\ \E k \in Keys, route \in Routes : Record([want.mt EXCEPT ![k] = route], want.me)
     \/ /\ sending = "update"
        /\ \E k \in Keys : Record([want.mt EXCEPT ![k] = Nil], want.me)
     \/ /\ sending = "meid"
        /\ \E m \in Meids, owner \in Eps \cup {Nil} :
             Record(want.mt, [want.me EXCEPT ![m] = owner])
  /\ lost' = TRUE
  /\ UNCHANGED <<tabVars, rteVars, ctxVars, snd>>

-----------------------------------------------------------------------------
\* The end record gives the number of records, or nothing (the route manager
\* of this repository counts the records of a meid map only).  The mutant accepts
\* any number.
AnyCount(counted)    == TRUE
CountFits(counted)   == counted => updates[newRt] = nsent

\* roll_tables: the active table becomes the old one.  A table in error does
\* not become active.
roll_tables ==
  IF err[newRt]
  THEN oldRt' = newRt /\ UNCHANGED rtable
  ELSE oldRt' = rtable /\ rtable' = newRt

\* The spaces that are right once a table of some kind has ended: the one it was
\* about if it got every record and became active, starting from one that was
\* right or, as a newrt does, from nothing; and the other one if it was right.
Settled(kind, complete) ==
  {sp \in {"mt", "me"} :
     IF sp = (IF kind = "meid" THEN "me" ELSE "mt")
     THEN complete /\ (kind = "newrt" \/ sp \in right)
     ELSE sp \in right}

\* The table is taken and the route manager told so, also if it is in error and does
\* not become active.
EndTable(counted) ==
  /\ rtc = "idle"
  /\ sending # Nil
  /\ newRt # Nil
  /\ CountFits(counted)
  /\ roll_tables
  /\ newRt' = Nil
  /\ Ack(TRUE)
  /\ fullRt' = (fullRt \/ sending = "newrt")
  /\ Ended
  /\ right' = Settled(sending, (counted \/ ~lost) /\ ~err[newRt])
  /\ meant' = [mt |-> IF "mt" \in right' THEN want.mt ELSE NoRoute,
               me |-> IF "me" \in right' THEN want.me ELSE NoOwner]
  /\ UNCHANGED <<tabVars, rteVars, drain, rtc, tableId, snd>>

\* The number is wrong: the table is refused and dropped.
RefuseTable ==
  /\ rtc = "idle"
  /\ sending # Nil
  /\ newRt # Nil
  /\ ~CountFits(TRUE)
  /\ Ack(FALSE)
  /\ uta_rt_drop(newRt)
  /\ newRt' = Nil
  /\ Ended
  /\ UNCHANGED <<refCount, rtable, oldRt, drain, rtc, fullRt, tableId, snd, meant, right>>

-----------------------------------------------------------------------------
(* A sender: mtosend_msg *)

\* get_rt: the active table gets one user more; without one the call ends at once.
GetRt(s) ==
  /\ snd[s].pc = "idle"
  /\ rtable # Nil
  /\ snd' = [snd EXCEPT ![s].pc = "find", ![s].rt = rtable]
  /\ refCount' = [refCount EXCEPT ![rtable] = @ + 1]
  /\ UNCHANGED <<liveTabs, hash, me, err, updates, rteVars, ctxVars, rmVars>>

\* release_rt does not go below zero.  The mutant forgets to release.
KeepRt(t)     == UNCHANGED refCount
release_rt(t) == refCount' = [refCount EXCEPT ![t] = IF @ > 0 THEN @ - 1 ELSE @]

\* uta_get_rte: the entry of the subscription, else that of the type alone.
uta_get_rte(h, k) == IF h[k] # Nil THEN h[k] ELSE h[AnyKey]

\* Look the entry of the message up; without one the call ends.
FindRte(s, k) ==
  /\ snd[s].pc = "find"
  /\ LET e == uta_get_rte(hash[snd[s].rt], k)
     IN  IF e = Nil
         THEN /\ release_rt(snd[s].rt)
              /\ snd' = [snd EXCEPT ![s] = IdleSender]
         ELSE /\ snd' = [snd EXCEPT ![s].pc = "send", ![s].rte = e,
                                    ![s].listed = groups[e]]
              /\ UNCHANGED refCount
  /\ UNCHANGED <<liveTabs, hash, me, err, updates, rteVars, ctxVars, rmVars>>

\* Whether there is another group; the owner of a meid is one of its own.
More(s) == snd[s].grp < Len(groups[snd[s].rte])

\* One turn of the loop over the groups: the message goes to an endpoint of the
\* group or to the owner of the meid, or the endpoint cannot be connected or does
\* not take it.  After the last one the table is released.  Which endpoint the
\* round robin picks, and the status the call returns, are left out.
SendGroup(s) ==
  /\ snd[s].pc = "send"
  /\ IF More(s)
     THEN /\ snd' = [snd EXCEPT ![s].grp = @ + 1]
          /\ UNCHANGED refCount
     ELSE /\ snd' = [snd EXCEPT ![s] = IdleSender]
          /\ release_rt(snd[s].rt)
  /\ UNCHANGED <<liveTabs, hash, me, err, updates, rteVars, ctxVars, rmVars>>

\* There is no memory for the copy of the message that the next group needs: the
\* call ends here, whatever the groups before have got.
CloneFails(s) ==
  /\ MallocFails
  /\ snd[s].pc = "send"
  /\ More(s)
  /\ snd' = [snd EXCEPT ![s] = IdleSender]
  /\ release_rt(snd[s].rt)
  /\ UNCHANGED <<liveTabs, hash, me, err, updates, rteVars, ctxVars, rmVars>>

-----------------------------------------------------------------------------
Collector ==
  \/ \E kind \in Kinds : StartTable(kind)
  \/ PrepNewRt
  \/ \E k \in Keys, route \in Routes : AddEntry(k, route)
  \/ \E k \in Keys : DelEntry(k)
  \/ \E m \in Meids, owner \in Eps \cup {Nil} : SetMeid(m, owner)
  \/ LoseRecord
  \/ \E counted \in BOOLEAN : EndTable(counted)
  \/ RefuseTable

GoOn(s) ==
  \/ \E k \in Keys : FindRte(s, k)
  \/ SendGroup(s)
  \/ CloneFails(s)

Next ==
  \/ Collector
  \/ \E s \in Senders : GetRt(s) \/ GoOn(s)

Spec == Init /\ [][Next]_vars

\* A sender in a call goes on, and so does the collector inside prep_new_rt.
Fairness ==
  /\ \A s \in Senders : WF_vars(GoOn(s))
  /\ WF_vars(PrepNewRt)

FairSpec == Spec /\ Fairness

-----------------------------------------------------------------------------
(* Properties *)

Users(t)   == {s \in Senders : snd[s].rt = t}
Holders(r) == {t \in liveTabs : r \in Entries(hash[t])}

SenderType ==
  [pc : {"idle", "find", "send"}, rt : Tabs \cup {Nil}, rte : Rtes \cup {Nil},
   listed : Routes \cup {<<>>}, grp : Nat \ {0}]

TableType == [mt : [Keys -> Routes \cup {Nil}], me : [Meids -> Eps \cup {Nil}]]

\* The variables have their types; counters never go below zero.
TypeOK ==
  /\ liveTabs \subseteq Tabs
  /\ hash \in [Tabs -> [Keys -> Rtes \cup {Nil}]]
  /\ me \in [Tabs -> [Meids -> Eps \cup {Nil}]]
  /\ refCount \in [Tabs -> Nat]
  /\ err \in [Tabs -> BOOLEAN]
  /\ updates \in [Tabs -> Nat]
  /\ refs \in [Rtes -> Nat]
  /\ groups \in [Rtes -> Routes \cup {Nil}]
  /\ {rtable, newRt, oldRt, drain} \subseteq Tabs \cup {Nil}
  /\ rtc \in {"idle", "prep"}
  /\ fullRt \in BOOLEAN
  /\ tableId \in Nat
  /\ lastAck \in [id : Nat, ok : BOOLEAN]
  /\ snd \in [Senders -> SenderType]
  /\ sending \in Kinds \cup {Nil}
  /\ nsent \in Nat
  /\ lost \in BOOLEAN
  /\ want \in TableType
  /\ meant \in TableType
  /\ right \subseteq {"mt", "me"}

\* ref_count is the number of senders inside get_rt .. release_rt, and nobody
\* uses the table under construction: a table is cleared and refilled
\* (prep_new_rt) only when no thread can still look into it.
TablesInUse ==
  /\ \A t \in Tabs : refCount[t] = Cardinality(Users(t))
  /\ newRt # Nil => Users(newRt) = {}
  /\ \A s \in Senders : snd[s].pc # "idle" =>
       snd[s].rt \in liveTabs /\ snd[s].rt \in {rtable, oldRt, drain}

\* refs is the number of tables that hold the entry (rt_clone_space, del_rte):
\* none is freed while a table has it, and none is lost when no table has it.
EntriesCounted ==
  /\ \A r \in Rtes : refs[r] = Cardinality(Holders(r))
  /\ liveTabs = {rtable, newRt, oldRt, drain} \ {Nil}

\* Between its look-up and release_rt a sender's entry is allocated, and still
\* lists the groups that it found: whatever tables are rolled, dropped or
\* refilled meanwhile, and whatever address is used again.
EntryStable ==
  \A s \in Senders : snd[s].pc = "send" =>
    /\ refs[snd[s].rte] > 0
    /\ groups[snd[s].rte] = snd[s].listed

\* The active table routes as the route manager believes, in each space that is
\* right: all the while the next table is built from a clone of it, is refused or is
\* dropped; after records are lost from a table that has a count, which is refused;
\* after a loss in the other space; and from the next complete newrt on after
\* entries are lost without a count or from a table in error, which the code takes
\* with RMR_OK all the same (roll_tables, uta_rt_clone, parse_rt_rec).
ActiveAsMeant ==
  rtable # Nil => LET is == Content(hash[rtable], groups, me[rtable])
                  IN  /\ "mt" \in right => is.mt = meant.mt
                      /\ "me" \in right => is.me = meant.me

\* prep_new_rt waits for the senders in the old table, and no longer: senders
\* that come take the active one.
DrainEnds == rtc = "prep" ~> rtc = "idle"
=============================================================================
