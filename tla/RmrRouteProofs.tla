--------------------------- MODULE RmrRouteProofs ---------------------------
(***************************************************************************)
(* Proofs about RmrRoute, for any number of senders, keys, meids, tables,  *)
(* entries and records, and with clones that may fail: the types, that     *)
(* tables and entries are counted exactly and stay while they are used,    *)
(* and that the active table routes as the route manager means where no    *)
(* loss is left unrepaired.                                                *)
(***************************************************************************)
EXTENDS RmrRoute, FiniteSetTheorems, TLAPS

-----------------------------------------------------------------------------
(* The inductive invariant *)

TabTypes ==
  /\ liveTabs \subseteq Tabs
  /\ hash \in [Tabs -> [Keys -> Rtes \cup {Nil}]]
  /\ me \in [Tabs -> [Meids -> Eps \cup {Nil}]]
  /\ refCount \in [Tabs -> Nat]
  /\ updates \in [Tabs -> Nat]

RteTypes ==
  /\ refs \in [Rtes -> Int]
  /\ groups \in [Rtes -> Routes \cup {Nil}]

CtxTypes ==
  /\ {rtable, newRt, oldRt, drain} \subseteq Tabs \cup {Nil}
  /\ rtc \in {"idle", "prep"}
  /\ tableId \in Nat

FlagTypes ==
  /\ err \in [Tabs -> BOOLEAN]
  /\ fullRt \in BOOLEAN
  /\ lost \in BOOLEAN
  /\ lastAck \in [id : Nat, ok : BOOLEAN]

SndTypes == snd \in [Senders -> SenderType]

RmTypes ==
  /\ sending \in Kinds \cup {Nil}
  /\ nsent \in Nat
  /\ want \in TableType
  /\ meant \in TableType
  /\ right \subseteq {"mt", "me"}

Types == TabTypes /\ RteTypes /\ CtxTypes /\ FlagTypes /\ SndTypes /\ RmTypes

\* The tables the collector knows are different ones, and no others are allocated;
\* when it builds one, the old one has drained.
TablesApart ==
  /\ rtable # Nil => rtable \notin {newRt, oldRt, drain}
  /\ newRt # Nil => oldRt = Nil /\ rtc = "idle"
  /\ rtc = "idle" => drain = Nil
  /\ rtc = "prep" => newRt = Nil /\ oldRt = Nil
  /\ liveTabs = {rtable, newRt, oldRt, drain} \ {Nil}

\* An entry has one key in a table.
OneKey ==
  \A t \in Tabs : \A j, k \in Keys : hash[t][j] = hash[t][k] /\ hash[t][j] # Nil => j = k

\* The references of an entry are the tables that hold it, and an entry that is
\* held lists groups.
EntryRefs ==
  \A r \in Rtes : /\ IsFiniteSet(Holders(r)) /\ refs[r] = Cardinality(Holders(r))
                  /\ refs[r] # 0 => groups[r] \in Routes

\* The users of a table are counted, and are in a table that has been active.
TableUsers ==
  /\ \A t \in Tabs : IsFiniteSet(Users(t)) /\ refCount[t] = Cardinality(Users(t))
  /\ \A s \in Senders : /\ snd[s].pc = "idle" => snd[s].rt = Nil
                        /\ snd[s].pc # "idle" => snd[s].rt \in {rtable, oldRt, drain} \ {Nil}

\* The table of a sender has the entry it works on.
SenderHolds ==
  \A s \in Senders : snd[s].pc = "send" =>
    /\ snd[s].rte \in Entries(hash[snd[s].rt])
    /\ groups[snd[s].rte] = snd[s].listed

ContentOf(t) == Content(hash[t], groups, me[t])

\* The table that the route manager begins from.
Basis(kind) == [mt |-> IF kind = "newrt" THEN NoRoute ELSE meant.mt, me |-> meant.me]

\* The bindings of two tables are the same in some spaces.
Agrees(c, w, S) == ("mt" \in S => c.mt = w.mt) /\ ("me" \in S => c.me = w.me)

\* What the route manager meant is active in the spaces that are right; and what it
\* describes is what the table under construction has, in the spaces that would be
\* right if that table ended now, unless its clone is not whole.
AsMeant ==
  /\ rtable = Nil => Agrees(EmptyTable, meant, right)
  /\ rtable # Nil => Agrees(ContentOf(rtable), meant, right)
  /\ rtc = "prep" => nsent = 0 /\ ~lost /\ want = Basis(sending)
  /\ newRt # Nil =>
       /\ IF lost THEN updates[newRt] < nsent ELSE updates[newRt] = nsent
       /\ IF sending = "meid" THEN want.mt = meant.mt ELSE want.me = meant.me
       /\ ~err[newRt] => Agrees(ContentOf(newRt), want, Settled(sending, ~lost))

RouteInv ==
  Types /\ TablesApart /\ OneKey /\ EntryRefs /\ TableUsers /\ SenderHolds /\ AsMeant

-----------------------------------------------------------------------------
(* Types *)

\* NULL is no address.
LEMMA NilApart ==
  /\ Nil \notin Tabs /\ Nil \notin Rtes /\ Nil \notin Eps /\ Nil \notin Keys
  /\ AnyKey \in Keys /\ MaxTables \in Nat /\ MaxRecs \in Nat
BY RouteAssumption

\* The contents of a table are bindings.
LEMMA ContentType ==
  ASSUME TabTypes, RteTypes, NEW t \in Tabs
  PROVE  ContentOf(t) \in TableType
BY NilApart DEF TabTypes, RteTypes, ContentOf, Content, TableType

\* An empty table is one.
LEMMA EmptyType == NoRoute \in [Keys -> Rtes \cup {Nil}] /\ NoOwner \in [Meids -> Eps \cup {Nil}] /\ EmptyTable \in TableType
BY DEF NoRoute, NoOwner, EmptyTable, TableType

\* The initial state: no table.
LEMMA InitTypes == Init => Types
<1> SUFFICES ASSUME Init PROVE Types
  OBVIOUS
<1>1. TabTypes /\ RteTypes /\ CtxTypes
  BY EmptyType DEF Init, TabTypes, RteTypes, CtxTypes
<1>2. FlagTypes
  <2>1. fullRt \in BOOLEAN /\ lost \in BOOLEAN
    BY Zenon DEF Init
  <2> QED
    BY <2>1 DEF Init, FlagTypes
<1>3. SndTypes
  BY DEF Init, SndTypes, IdleSender, SenderType
<1>4. RmTypes
  BY EmptyType DEF Init, RmTypes
<1> QED
  BY <1>1, <1>2, <1>3, <1>4 DEF Types

\* A table is dropped (uta_rt_drop).
LEMMA DropTypes ==
  ASSUME Types, NEW t \in Tabs, uta_rt_drop(t)
  PROVE  /\ liveTabs' \subseteq Tabs
         /\ hash' \in [Tabs -> [Keys -> Rtes \cup {Nil}]]
         /\ me' \in [Tabs -> [Meids -> Eps \cup {Nil}]]
         /\ updates' \in [Tabs -> Nat]
         /\ err' \in [Tabs -> BOOLEAN]
         /\ RteTypes'
<1>1. refs' \in [Rtes -> Int] /\ groups' \in [Rtes -> Routes \cup {Nil}]
  BY DEF uta_rt_drop, del_rte, Kept, Types, RteTypes
<1>2. err' \in [Tabs -> BOOLEAN]
  BY DEF uta_rt_drop, Types, FlagTypes
<1> QED
  BY <1>1, <1>2, EmptyType DEF uta_rt_drop, Types, TabTypes, RteTypes

\* A start record.
LEMMA StartTypes == ASSUME Types, NEW kind \in Kinds, StartTable(kind) PROVE Types'
<1> USE DEF StartTable
<1>1. CASE newRt # Nil
  <2>1. uta_rt_drop(newRt) /\ Ack(FALSE) /\ newRt \in Tabs
    BY <1>1 DEF Types, CtxTypes
  <2>2. TabTypes' /\ RteTypes'
    BY <2>1, DropTypes DEF Types, TabTypes
  <2>3. lastAck' \in [id : Nat, ok : BOOLEAN]
    BY <2>1 DEF Ack, Types, CtxTypes
  <2>4. lost' \in BOOLEAN /\ fullRt' \in BOOLEAN
    BY Zenon DEF Begin, Types, FlagTypes
  <2>5. FlagTypes'
    BY <2>1, <2>3, <2>4, DropTypes DEF FlagTypes
  <2>6. CtxTypes' /\ SndTypes'
    BY NilApart DEF Types, CtxTypes, SndTypes
  <2>7. RmTypes'
    BY EmptyType DEF Begin, Types, RmTypes, TableType, NoRoute
  <2> QED
    BY <2>2, <2>5, <2>6, <2>7 DEF Types
<1>2. CASE newRt = Nil
  <2>1. UNCHANGED <<liveTabs, hash, me, err, updates, rteVars, lastAck>>
    BY <1>2
  <2>2. TabTypes' /\ RteTypes'
    BY <2>1 DEF Types, TabTypes, RteTypes, rteVars
  <2>4. lost' \in BOOLEAN /\ fullRt' \in BOOLEAN
    BY Zenon DEF Begin, Types, FlagTypes
  <2>5. FlagTypes'
    BY <2>1, <2>4 DEF FlagTypes, Types
  <2>6. CtxTypes' /\ SndTypes'
    BY NilApart DEF Types, CtxTypes, SndTypes
  <2>7. RmTypes'
    BY EmptyType DEF Begin, Types, RmTypes, TableType, NoRoute
  <2> QED
    BY <2>2, <2>5, <2>6, <2>7 DEF Types
<1> QED
  BY <1>1, <1>2

\* The table that prep_new_rt fills, and what it starts with.
LEMMA PrepFills ==
  ASSUME Types, PrepNewRt
  PROVE  \E t \in Tabs, mt \in [Keys -> Rtes \cup {Nil}], o \in [Meids -> Eps \cup {Nil}], bad \in BOOLEAN :
           /\ IF drain # Nil THEN t = drain /\ Drained(t) ELSE t \notin liveTabs
           /\ mt = NoRoute \/ (rtable # Nil /\ mt = hash[rtable])
           /\ ~bad => /\ rtable = Nil => mt = NoRoute /\ o = NoOwner
                      /\ rtable # Nil => o = me[rtable]
                      /\ rtable # Nil => mt = IF sending = "newrt" THEN NoRoute ELSE hash[rtable]
           /\ liveTabs' = liveTabs \cup {t}
           /\ hash' = [hash EXCEPT ![t] = mt]
           /\ me' = [me EXCEPT ![t] = o]
           /\ refs' = Ref(IF drain # Nil THEN del_rte(refs, Entries(hash[drain])) ELSE refs, Entries(mt))
           /\ groups' = Kept(groups, refs')
           /\ refCount' = [refCount EXCEPT ![t] = 0]
           /\ err' = [err EXCEPT ![t] = bad]
           /\ updates' = [updates EXCEPT ![t] = 0]
           /\ newRt' = t
<1> USE DEF PrepNewRt
<1>1. PICK t \in IF drain # Nil THEN {drain} ELSE Tabs \ liveTabs,
           failed \in IF MallocFails THEN SUBSET {"mt", "me"} ELSE {{}} :
        LET cleared == IF drain # Nil THEN del_rte(refs, Entries(hash[drain])) ELSE refs
            clone   == uta_rt_clone(sending # "newrt", failed)
        IN  /\ liveTabs' = liveTabs \cup {t}
            /\ hash' = [hash EXCEPT ![t] = clone.mt]
            /\ me' = [me EXCEPT ![t] = clone.me]
            /\ refs' = CloneRefs(cleared, Entries(clone.mt))
            /\ groups' = Kept(groups, refs')
            /\ refCount' = [refCount EXCEPT ![t] = 0]
            /\ err' = [err EXCEPT ![t] = rtable # Nil /\ failed # {}]
            /\ updates' = [updates EXCEPT ![t] = 0]
            /\ newRt' = t
  BY Zenon
<1> DEFINE mt == uta_rt_clone(sending # "newrt", failed).mt
           o == uta_rt_clone(sending # "newrt", failed).me
           bad == rtable # Nil /\ failed # {}
<1>2. t \in Tabs
  BY DEF Types, CtxTypes
<1>3. mt \in [Keys -> Rtes \cup {Nil}]
  BY EmptyType DEF uta_rt_clone, Types, TabTypes, CtxTypes
<1>4. o \in [Meids -> Eps \cup {Nil}]
  BY EmptyType DEF uta_rt_clone, Types, TabTypes, CtxTypes
<1>5. IF drain # Nil THEN t = drain /\ Drained(t) ELSE t \notin liveTabs
  BY SMT
<1>6. mt = NoRoute \/ (rtable # Nil /\ mt = hash[rtable])
  BY DEF uta_rt_clone
<1>7. ~bad => /\ rtable = Nil => mt = NoRoute /\ o = NoOwner
              /\ rtable # Nil => o = me[rtable]
              /\ rtable # Nil => mt = IF sending = "newrt" THEN NoRoute ELSE hash[rtable]
  BY DEF uta_rt_clone
<1>8. bad \in BOOLEAN
  BY Zenon
<1> HIDE DEF mt, o, bad
<1>9. /\ liveTabs' = liveTabs \cup {t}
      /\ hash' = [hash EXCEPT ![t] = mt]
      /\ me' = [me EXCEPT ![t] = o]
      /\ refs' = Ref(IF drain # Nil THEN del_rte(refs, Entries(hash[drain])) ELSE refs, Entries(mt))
      /\ groups' = Kept(groups, refs')
      /\ refCount' = [refCount EXCEPT ![t] = 0]
      /\ err' = [err EXCEPT ![t] = bad]
      /\ updates' = [updates EXCEPT ![t] = 0]
      /\ newRt' = t
  BY <1>1, Zenon DEF mt, o, bad, CloneRefs
<1> WITNESS t \in Tabs, mt \in [Keys -> Rtes \cup {Nil}], o \in [Meids -> Eps \cup {Nil}], bad \in BOOLEAN
<1> QED
  BY <1>5, <1>6, <1>7, <1>9, Zenon

\* prep_new_rt ends.
LEMMA PrepTypes == ASSUME Types, PrepNewRt PROVE Types'
<1>1. PICK t \in Tabs, mt \in [Keys -> Rtes \cup {Nil}], o \in [Meids -> Eps \cup {Nil}], bad \in BOOLEAN :
           /\ liveTabs' = liveTabs \cup {t}
           /\ hash' = [hash EXCEPT ![t] = mt]
           /\ me' = [me EXCEPT ![t] = o]
           /\ refs' = Ref(IF drain # Nil THEN del_rte(refs, Entries(hash[drain])) ELSE refs, Entries(mt))
           /\ groups' = Kept(groups, refs')
           /\ refCount' = [refCount EXCEPT ![t] = 0]
           /\ err' = [err EXCEPT ![t] = bad]
           /\ updates' = [updates EXCEPT ![t] = 0]
           /\ newRt' = t
  BY PrepFills, Zenon
<1> USE DEF Types
<1>2. TabTypes'
  BY <1>1 DEF TabTypes
<1>3. refs' \in [Rtes -> Int]
  BY <1>1 DEF RteTypes, Ref, del_rte
<1>4. RteTypes'
  BY <1>1, <1>3 DEF RteTypes, Kept
<1>5. CtxTypes' /\ SndTypes'
  BY <1>1, NilApart DEF PrepNewRt, CtxTypes, SndTypes
<1>6. RmTypes'
  BY DEF PrepNewRt, RmTypes, rmVars
<1>7. err' \in [Tabs -> BOOLEAN]
  BY <1>1 DEF FlagTypes
<1>8. fullRt' \in BOOLEAN /\ lost' \in BOOLEAN
  BY Zenon DEF PrepNewRt, rmVars, FlagTypes
<1> QED
  BY <1>2, <1>4, <1>5, <1>6, <1>7, <1>8 DEF PrepNewRt, FlagTypes

\* The entry that a record adds.
LEMMA AddTakes ==
  ASSUME NEW k \in Keys, NEW route \in Routes, AddEntry(k, route)
  PROVE  \E r \in Rtes :
           /\ refs[r] = 0
           /\ hash' = [hash EXCEPT ![newRt] = [hash[newRt] EXCEPT ![k] = r]]
           /\ refs' = [del_rte(refs, {hash[newRt][k]}) EXCEPT ![r] = 1]
           /\ groups' = [Kept(groups, del_rte(refs, {hash[newRt][k]})) EXCEPT ![r] = route]
<1>1. PICK n \in uta_add_rte(hash[newRt], refs, groups, k, route) :
       /\ hash' = [hash EXCEPT ![newRt] = n.h]
       /\ refs' = n.rf
       /\ groups' = n.g
  BY Zenon DEF AddEntry
<1>2. PICK r \in {a \in Rtes : refs[a] = 0} :
        n = [h |-> [hash[newRt] EXCEPT ![k] = r],
             rf |-> [del_rte(refs, {hash[newRt][k]}) EXCEPT ![r] = 1],
             g |-> [Kept(groups, del_rte(refs, {hash[newRt][k]})) EXCEPT ![r] = route]]
  BY <1>1, Zenon DEF uta_add_rte
<1>3. /\ n.h = [hash[newRt] EXCEPT ![k] = r]
      /\ n.rf = [del_rte(refs, {hash[newRt][k]}) EXCEPT ![r] = 1]
      /\ n.g = [Kept(groups, del_rte(refs, {hash[newRt][k]})) EXCEPT ![r] = route]
  BY <1>2, Zenon
<1> QED
  BY <1>1, <1>2, <1>3, Zenon

\* What a record that arrives leaves alone.
LEMMA ArriveTypes ==
  ASSUME Types, Arrives, newRt # Nil
  PROVE  /\ liveTabs' \subseteq Tabs
         /\ refCount' \in [Tabs -> Nat]
         /\ updates' \in [Tabs -> Nat]
         /\ CtxTypes' /\ FlagTypes' /\ SndTypes'
<1> USE DEF Arrives, ctxVars, Types
<1>1. CtxTypes' /\ SndTypes'
  BY DEF CtxTypes, SndTypes
<1>2. FlagTypes'
  BY Zenon DEF FlagTypes
<1>3. newRt \in Tabs
  BY DEF CtxTypes
<1> QED
  BY <1>1, <1>2, <1>3 DEF TabTypes

\* A record.
LEMMA AddTypes ==
  ASSUME Types, NEW k \in Keys, NEW route \in Routes, AddEntry(k, route)
  PROVE  Types'
<1>1. PICK r \in Rtes :
           /\ refs[r] = 0
           /\ hash' = [hash EXCEPT ![newRt] = [hash[newRt] EXCEPT ![k] = r]]
           /\ refs' = [del_rte(refs, {hash[newRt][k]}) EXCEPT ![r] = 1]
           /\ groups' = [Kept(groups, del_rte(refs, {hash[newRt][k]})) EXCEPT ![r] = route]
  BY AddTakes
<1>2. Arrives /\ UNCHANGED <<me, sending, meant, right>> /\ newRt \in Tabs /\ newRt # Nil
  BY DEF AddEntry, Record, Types, CtxTypes
<1>3. TabTypes'
  <2>1. hash' \in [Tabs -> [Keys -> Rtes \cup {Nil}]]
    BY <1>1, <1>2 DEF Types, TabTypes
  <2> QED
    BY <2>1, <1>2, ArriveTypes DEF Types, TabTypes
<1>4. RteTypes'
  BY <1>1 DEF Types, RteTypes, del_rte, Kept
<1>5. RmTypes'
  BY DEF AddEntry, Record, Types, RmTypes, TableType
<1> QED
  BY <1>2, <1>3, <1>4, <1>5, ArriveTypes DEF Types

\* A del record.
LEMMA DelTypes ==
  ASSUME Types, NEW k \in Keys, DelEntry(k)
  PROVE  Types'
<1>2. Arrives /\ UNCHANGED <<me, sending, meant, right>> /\ newRt \in Tabs /\ newRt # Nil
  BY DEF DelEntry, Record, Types, CtxTypes
<1>3. TabTypes'
  <2>1. hash' \in [Tabs -> [Keys -> Rtes \cup {Nil}]]
    BY <1>2 DEF Types, TabTypes, DelEntry
  <2> QED
    BY <2>1, <1>2, ArriveTypes DEF Types, TabTypes
<1>4. RteTypes'
  BY DEF Types, RteTypes, del_rte, Kept, DelEntry
<1>5. RmTypes'
  BY DEF DelEntry, Record, Types, RmTypes, TableType
<1> QED
  BY <1>2, <1>3, <1>4, <1>5, ArriveTypes DEF Types

\* A record of the meid map.
LEMMA MeidTypes ==
  ASSUME Types, NEW m \in Meids, NEW owner \in Eps \cup {Nil}, SetMeid(m, owner)
  PROVE  Types'
<1>2. Arrives /\ UNCHANGED <<hash, refs, groups, sending, meant>> /\ newRt \in Tabs /\ newRt # Nil
  BY DEF SetMeid, Record, Types, CtxTypes
<1>3. TabTypes'
  <2>1. me' \in [Tabs -> [Meids -> Eps \cup {Nil}]]
    BY <1>2 DEF Types, TabTypes, SetMeid
  <2> QED
    BY <2>1, <1>2, ArriveTypes DEF Types, TabTypes
<1>4. RteTypes'
  BY <1>2 DEF Types, RteTypes
<1>5. RmTypes'
  BY DEF SetMeid, Record, Types, RmTypes, TableType
<1> QED
  BY <1>2, <1>3, <1>4, <1>5, ArriveTypes DEF Types

\* A record that is lost is one that could have come: it leaves the space alone that
\* the table is not about.
LEMMA LostRecord ==
  ASSUME Types, LoseRecord
  PROVE  \E w \in TableType : /\ Record(w.mt, w.me)
                              /\ IF sending = "meid" THEN w.mt = want.mt ELSE w.me = want.me
<1> USE DEF Types, RmTypes, TableType
<1>1. CASE /\ sending \in {"newrt", "update"}
           /\ \E k \in Keys, route \in Routes : Record([want.mt EXCEPT ![k] = route], want.me)
  <2>1. PICK k \in Keys, route \in Routes : Record([want.mt EXCEPT ![k] = route], want.me)
    BY <1>1
  <2>2. PICK w : w = [mt |-> [want.mt EXCEPT ![k] = route], me |-> want.me]
    OBVIOUS
  <2>3. w \in TableType /\ w.mt = [want.mt EXCEPT ![k] = route] /\ w.me = want.me
    BY <2>2
  <2>4. Record(w.mt, w.me)
    BY <2>1, <2>3
  <2> QED
    BY <1>1, <2>3, <2>4
<1>2. CASE sending = "update" /\ \E k \in Keys : Record([want.mt EXCEPT ![k] = Nil], want.me)
  <2>1. PICK k \in Keys : Record([want.mt EXCEPT ![k] = Nil], want.me)
    BY <1>2
  <2>2. PICK w : w = [mt |-> [want.mt EXCEPT ![k] = Nil], me |-> want.me]
    OBVIOUS
  <2>3. w \in TableType /\ w.mt = [want.mt EXCEPT ![k] = Nil] /\ w.me = want.me
    BY <2>2
  <2>4. Record(w.mt, w.me)
    BY <2>1, <2>3
  <2> QED
    BY <1>2, <2>3, <2>4
<1>3. CASE /\ sending = "meid"
           /\ \E m \in Meids, owner \in Eps \cup {Nil} :
                Record(want.mt, [want.me EXCEPT ![m] = owner])
  <2>1. PICK m \in Meids, owner \in Eps \cup {Nil} : Record(want.mt, [want.me EXCEPT ![m] = owner])
    BY <1>3
  <2>2. PICK w : w = [mt |-> want.mt, me |-> [want.me EXCEPT ![m] = owner]]
    OBVIOUS
  <2>3. w \in TableType /\ w.mt = want.mt /\ w.me = [want.me EXCEPT ![m] = owner]
    BY <2>2
  <2>4. Record(w.mt, w.me)
    BY <2>1, <2>3
  <2> QED
    BY <1>3, <2>3, <2>4
<1> QED
  BY <1>1, <1>2, <1>3, Zenon DEF LoseRecord

\* A record that is lost.
LEMMA LoseTypes == ASSUME Types, LoseRecord PROVE Types'
<1> USE DEF LoseRecord, Types, tabVars, rteVars, ctxVars
<1>1. TabTypes' /\ RteTypes' /\ CtxTypes' /\ SndTypes'
  BY DEF TabTypes, RteTypes, CtxTypes, SndTypes
<1>2. FlagTypes'
  BY Zenon DEF FlagTypes
<1>3. RmTypes'
  <2>1. PICK w \in TableType : Record(w.mt, w.me)
    BY LostRecord
  <2> QED
    BY <2>1 DEF Record, RmTypes, TableType
<1> QED
  BY <1>1, <1>2, <1>3

\* The end record.
LEMMA EndTypes ==
  ASSUME Types, NEW counted \in BOOLEAN, EndTable(counted)
  PROVE  Types'
<1> USE DEF EndTable, Types, tabVars, rteVars
<1>1. TabTypes' /\ RteTypes' /\ SndTypes'
  BY DEF TabTypes, RteTypes, SndTypes
<1>2. CtxTypes'
  BY NilApart DEF CtxTypes, roll_tables
<1>3. FlagTypes'
  <2>1. fullRt' \in BOOLEAN /\ lost' \in BOOLEAN
    BY Zenon DEF Ended
  <2> QED
    BY <2>1 DEF FlagTypes, Ack, CtxTypes
<1>4. RmTypes'
  <2>1. want.mt \in [Keys -> Routes \cup {Nil}] /\ want.me \in [Meids -> Eps \cup {Nil}]
    BY DEF RmTypes, TableType
  <2>2. NoRoute \in [Keys -> Routes \cup {Nil}] /\ NoOwner \in [Meids -> Eps \cup {Nil}]
    BY DEF NoRoute, NoOwner
  <2>3. meant' \in TableType
    BY <2>1, <2>2 DEF TableType
  <2>4. right' \subseteq {"mt", "me"}
    BY DEF Settled
  <2> QED
    BY <2>3, <2>4, EmptyType DEF RmTypes, Ended
<1> QED
  BY <1>1, <1>2, <1>3, <1>4

\* A table that is refused.
LEMMA RefuseTypes == ASSUME Types, RefuseTable PROVE Types'
<1> USE DEF RefuseTable, Types
<1>1. newRt \in Tabs /\ uta_rt_drop(newRt)
  BY DEF CtxTypes
<1>2. TabTypes' /\ RteTypes' /\ err' \in [Tabs -> BOOLEAN]
  BY <1>1, DropTypes DEF TabTypes
<1>3. CtxTypes' /\ SndTypes'
  BY NilApart DEF CtxTypes, SndTypes
<1>4. FlagTypes'
  <2>1. fullRt' \in BOOLEAN /\ lost' \in BOOLEAN
    BY Zenon DEF Ended, FlagTypes
  <2> QED
    BY <2>1, <1>2 DEF FlagTypes, Ack, CtxTypes
<1>5. RmTypes'
  BY EmptyType DEF RmTypes, Ended
<1> QED
  BY <1>2, <1>3, <1>4, <1>5

\* An entry that an allocated table holds is allocated, and lists groups.
LEMMA HeldLists ==
  ASSUME Types, EntryRefs, NEW t \in liveTabs, NEW r \in Entries(hash[t])
  PROVE  r \in Rtes /\ refs[r] > 0 /\ groups[r] \in Routes
<1>1. r \in Rtes
  BY DEF Types, TabTypes, Entries
<1>2. t \in Holders(r)
  BY DEF Holders
<1>3. IsFiniteSet(Holders(r)) /\ refs[r] = Cardinality(Holders(r)) /\ (refs[r] # 0 => groups[r] \in Routes)
  BY <1>1 DEF EntryRefs
<1>4. refs[r] # 0 /\ refs[r] \in Nat
  BY <1>2, <1>3, FS_EmptySet, FS_CardinalityType
<1> QED
  BY <1>1, <1>3, <1>4

\* A sender in a call uses an allocated table.
LEMMA UsedIsLive ==
  ASSUME Types, TablesApart, TableUsers, NEW s \in Senders, snd[s].pc # "idle"
  PROVE  snd[s].rt \in liveTabs /\ snd[s].rt \in Tabs /\ snd[s].rt # Nil /\ snd[s].rt # newRt
BY NilApart DEF Types, CtxTypes, TablesApart, TableUsers

\* What a sender looks up is an entry of its table.
LEMMA LookUp ==
  ASSUME Types, NEW t \in Tabs, NEW k \in Keys, uta_get_rte(hash[t], k) # Nil
  PROVE  uta_get_rte(hash[t], k) \in Entries(hash[t])
BY NilApart DEF uta_get_rte, Entries

\* A sender's step leaves all but its state and the counts of users alone.
LEMMA SenderLeaves ==
  ASSUME Types, UNCHANGED <<liveTabs, hash, me, err, updates, rteVars, ctxVars, rmVars>>,
         refCount' \in [Tabs -> Nat], SndTypes'
  PROVE  Types'
<1> USE DEF rteVars, ctxVars, rmVars, Types
<1>1. TabTypes' /\ RteTypes' /\ CtxTypes' /\ RmTypes'
  BY DEF TabTypes, RteTypes, CtxTypes, RmTypes
<1>2. FlagTypes'
  BY Zenon DEF FlagTypes
<1> QED
  BY <1>1, <1>2

\* A table is released.
LEMMA ReleaseType ==
  ASSUME Types, NEW t \in Tabs, release_rt(t)
  PROVE  refCount' \in [Tabs -> Nat]
BY DEF Types, TabTypes, release_rt

\* A sender's call that ends.
LEMMA IdleType ==
  ASSUME Types, NEW s \in Senders, snd' = [snd EXCEPT ![s] = IdleSender]
  PROVE  SndTypes'
BY DEF Types, SndTypes, SenderType, IdleSender

\* The steps of a sender.
LEMMA GetTypes ==
  ASSUME Types, NEW s \in Senders, GetRt(s)
  PROVE  Types'
<1>1. rtable \in Tabs
  BY DEF GetRt, Types, CtxTypes
<1>2. refCount' \in [Tabs -> Nat]
  BY <1>1 DEF GetRt, Types, TabTypes
<1>3. SndTypes'
  <2>1. PICK u \in SenderType : u = snd[s]
    BY DEF Types, SndTypes
  <2>2. PICK v : v = [u EXCEPT !.pc = "find", !.rt = rtable]
    OBVIOUS
  <2>3. v \in SenderType
    BY <1>1, <2>2 DEF SenderType
  <2>4. snd' = [snd EXCEPT ![s] = v]
    BY <2>1, <2>2, Zenon DEF GetRt, Types, SndTypes
  <2> QED
    BY <2>3, <2>4 DEF Types, SndTypes
<1> QED
  BY <1>2, <1>3, SenderLeaves DEF GetRt

LEMMA FindTypes ==
  ASSUME Types, TablesApart, EntryRefs, TableUsers, NEW s \in Senders, NEW k \in Keys, FindRte(s, k)
  PROVE  Types'
<1> DEFINE e == uta_get_rte(hash[snd[s].rt], k)
<1>1. snd[s].rt \in liveTabs /\ snd[s].rt \in Tabs
  BY UsedIsLive DEF FindRte
<1>2. CASE e = Nil
  <2>1. release_rt(snd[s].rt) /\ snd' = [snd EXCEPT ![s] = IdleSender]
    BY <1>2 DEF FindRte
  <2> QED
    BY <2>1, <1>1, ReleaseType, IdleType, SenderLeaves DEF FindRte
<1>3. CASE e # Nil
  <2>1. /\ snd' = [snd EXCEPT ![s].pc = "send", ![s].rte = e, ![s].listed = groups[e]]
        /\ UNCHANGED refCount
    BY <1>3 DEF FindRte
  <2>2. e \in Rtes /\ groups[e] \in Routes
    BY <1>1, <1>3, LookUp, HeldLists
  <2> HIDE DEF e
  <2>3. SndTypes'
    <3>1. snd[s] \in SenderType /\ DOMAIN snd = Senders
      BY DEF Types, SndTypes
    <3> DEFINE n == [snd[s] EXCEPT !.pc = "send", !.rte = e, !.listed = groups[e]]
    <3>2. n \in SenderType
      BY <3>1, <2>2 DEF SenderType
    <3>3. snd' = [snd EXCEPT ![s] = n]
      BY <2>1, <3>1
    <3> HIDE DEF n
    <3> QED
      BY <3>2, <3>3 DEF Types, SndTypes
  <2> QED
    BY <2>1, <2>3, SenderLeaves DEF FindRte, Types, TabTypes
<1> QED
  BY <1>2, <1>3

LEMMA SendTypes ==
  ASSUME Types, TablesApart, TableUsers, NEW s \in Senders, SendGroup(s)
  PROVE  Types'
<1>1. snd[s].rt \in Tabs
  BY UsedIsLive DEF SendGroup
<1>2. CASE More(s)
  <2>1. snd' = [snd EXCEPT ![s].grp = @ + 1] /\ UNCHANGED refCount
    BY <1>2 DEF SendGroup
  <2>2. SndTypes'
    BY <2>1 DEF Types, SndTypes, SenderType
  <2> QED
    BY <2>1, <2>2, SenderLeaves DEF SendGroup, Types, TabTypes
<1>3. CASE ~More(s)
  <2>1. release_rt(snd[s].rt) /\ snd' = [snd EXCEPT ![s] = IdleSender]
    BY <1>3 DEF SendGroup
  <2> QED
    BY <2>1, <1>1, ReleaseType, IdleType, SenderLeaves DEF SendGroup
<1> QED
  BY <1>2, <1>3

LEMMA CloneTypes ==
  ASSUME Types, TablesApart, TableUsers, NEW s \in Senders, CloneFails(s)
  PROVE  Types'
<1>1. snd[s].rt \in Tabs
  BY UsedIsLive DEF CloneFails
<1> QED
  BY <1>1, ReleaseType, IdleType, SenderLeaves DEF CloneFails

-----------------------------------------------------------------------------
(* The tables of the collector *)

\* Each step keeps its tables apart, and frees or keeps every one.
LEMMA StartApart ==
  ASSUME Types, TablesApart, NEW kind \in Kinds, StartTable(kind)
  PROVE  TablesApart'
<1>1. newRt # Nil => liveTabs' = liveTabs \ {newRt}
  BY DEF StartTable, uta_rt_drop
<1>2. newRt = Nil => liveTabs' = liveTabs
  BY DEF StartTable
<1> QED
  BY <1>1, <1>2 DEF StartTable, TablesApart

LEMMA PrepApart == ASSUME Types, TablesApart, PrepNewRt PROVE TablesApart'
<1>1. PICK t \in Tabs :
        /\ IF drain # Nil THEN t = drain /\ Drained(t) ELSE t \notin liveTabs
        /\ liveTabs' = liveTabs \cup {t}
        /\ newRt' = t
  BY PrepFills, Zenon
<1> QED
  BY <1>1, NilApart DEF PrepNewRt, TablesApart

LEMMA RecordApart ==
  ASSUME TablesApart, UNCHANGED <<liveTabs, ctxVars>>
  PROVE  TablesApart'
BY DEF TablesApart, ctxVars

LEMMA EndApart ==
  ASSUME Types, TablesApart, NEW counted \in BOOLEAN, EndTable(counted)
  PROVE  TablesApart'
BY DEF EndTable, TablesApart, roll_tables, tabVars

LEMMA RefuseApart == ASSUME Types, TablesApart, RefuseTable PROVE TablesApart'
BY DEF RefuseTable, TablesApart, uta_rt_drop

-----------------------------------------------------------------------------
(* An entry has one key in a table *)

LEMMA EmptyKeys == \A k \in Keys : NoRoute[k] = Nil
BY DEF NoRoute

LEMMA StartOneKey ==
  ASSUME Types, OneKey, NEW kind \in Kinds, StartTable(kind)
  PROVE  OneKey'
<1>1. CASE newRt # Nil
  <2>1. hash' = [hash EXCEPT ![newRt] = NoRoute]
    BY <1>1 DEF StartTable, uta_rt_drop
  <2> QED
    BY <2>1, EmptyKeys DEF OneKey, Types, TabTypes
<1>2. CASE newRt = Nil
  BY <1>2 DEF StartTable, OneKey
<1> QED
  BY <1>1, <1>2

LEMMA PrepOneKey == ASSUME Types, OneKey, PrepNewRt PROVE OneKey'
<1>1. PICK t \in Tabs, mt \in [Keys -> Rtes \cup {Nil}] :
        /\ mt = NoRoute \/ (rtable # Nil /\ mt = hash[rtable])
        /\ hash' = [hash EXCEPT ![t] = mt]
  BY PrepFills, Zenon
<1>2. \A j, k \in Keys : mt[j] = mt[k] /\ mt[j] # Nil => j = k
  BY <1>1, EmptyKeys DEF OneKey, Types, CtxTypes
<1> QED
  BY <1>1, <1>2 DEF OneKey, Types, TabTypes

\* A free entry is in no table.
LEMMA FreeUnheld ==
  ASSUME Types, EntryRefs, NEW r \in Rtes, refs[r] = 0, NEW t \in liveTabs
  PROVE  r \notin Entries(hash[t])
BY HeldLists

LEMMA AddOneKey ==
  ASSUME Types, TablesApart, EntryRefs, OneKey, NEW k \in Keys, NEW route \in Routes, AddEntry(k, route)
  PROVE  OneKey'
<1>1. PICK r \in Rtes :
           /\ refs[r] = 0
           /\ hash' = [hash EXCEPT ![newRt] = [hash[newRt] EXCEPT ![k] = r]]
           /\ refs' = [del_rte(refs, {hash[newRt][k]}) EXCEPT ![r] = 1]
           /\ groups' = [Kept(groups, del_rte(refs, {hash[newRt][k]})) EXCEPT ![r] = route]
  BY AddTakes
<1>2. newRt \in liveTabs /\ newRt \in Tabs
  BY DEF AddEntry, Record, TablesApart, Types, CtxTypes
<1>3. \A j \in Keys : hash[newRt][j] # r
  BY <1>1, <1>2, FreeUnheld, NilApart DEF Entries
<1> QED
  BY <1>1, <1>2, <1>3 DEF OneKey, Types, TabTypes

LEMMA DelOneKey ==
  ASSUME Types, OneKey, NEW k \in Keys, DelEntry(k)
  PROVE  OneKey'
<1>1. newRt \in Tabs
  BY DEF DelEntry, Record, Types, CtxTypes
<1> QED
  BY <1>1 DEF DelEntry, OneKey, Types, TabTypes

LEMMA RefuseOneKey == ASSUME Types, OneKey, RefuseTable PROVE OneKey'
BY EmptyKeys DEF RefuseTable, uta_rt_drop, OneKey, Types, TabTypes

-----------------------------------------------------------------------------
(* The references of the entries *)

\* The references follow a table that lets an entry go, or takes it.
LEMMA OneHolderLess ==
  ASSUME NEW S, IsFiniteSet(S), NEW n, n = Cardinality(S), NEW t
  PROVE  /\ IsFiniteSet(S \ {t})
         /\ (IF t \in S THEN n - 1 ELSE n) = Cardinality(S \ {t})
<1>1. CASE t \in S
  BY <1>1, FS_RemoveElement
<1>2. CASE t \notin S
  <2>1. S \ {t} = S
    BY <1>2
  <2> QED
    BY <1>2, <2>1
<1> QED
  BY <1>1, <1>2

LEMMA OneHolderMore ==
  ASSUME NEW S, IsFiniteSet(S), NEW n, n = Cardinality(S), NEW t, t \notin S
  PROVE  IsFiniteSet(S \cup {t}) /\ n + 1 = Cardinality(S \cup {t})
BY FS_AddElement

\* A table that lets all its entries go.
LEMMA DropRefs ==
  ASSUME Types, EntryRefs, NEW t \in liveTabs, uta_rt_drop(t)
  PROVE  EntryRefs'
<1> SUFFICES ASSUME NEW r \in Rtes
             PROVE  /\ IsFiniteSet(Holders(r)') /\ refs'[r] = Cardinality(Holders(r)')
                    /\ refs'[r] # 0 => groups'[r] \in Routes
  BY DEF EntryRefs
<1>1. IsFiniteSet(Holders(r)) /\ refs[r] = Cardinality(Holders(r))
  BY DEF EntryRefs
<1>2. Holders(r)' = Holders(r) \ {t}
  BY DEF Holders, uta_rt_drop, Entries, Types, TabTypes
<1>3. t \in Holders(r) <=> r \in Entries(hash[t])
  BY DEF Holders
<1>4. refs'[r] = IF t \in Holders(r) THEN refs[r] - 1 ELSE refs[r]
  BY <1>3 DEF uta_rt_drop, del_rte
<1>5. IsFiniteSet(Holders(r)') /\ refs'[r] = Cardinality(Holders(r)')
  <2>1. /\ IsFiniteSet(Holders(r) \ {t})
        /\ (IF t \in Holders(r) THEN refs[r] - 1 ELSE refs[r]) = Cardinality(Holders(r) \ {t})
    BY <1>1, OneHolderLess, ZenonT(40)
  <2> QED
    BY <2>1, <1>2, <1>4
<1>6. ASSUME refs'[r] # 0 PROVE groups'[r] \in Routes
  <2>1. groups'[r] = groups[r]
    BY <1>6 DEF uta_rt_drop, Kept
  <2>2. refs[r] # 0
    <3>1. CASE t \in Holders(r)
      BY <3>1, <1>1, FS_EmptySet
    <3>2. CASE t \notin Holders(r)
      BY <3>2, <1>4, <1>6
    <3> QED
      BY <3>1, <3>2
  <2> QED
    BY <2>1, <2>2 DEF EntryRefs
<1> QED
  BY <1>5, <1>6

LEMMA StartRefs ==
  ASSUME Types, TablesApart, EntryRefs, NEW kind \in Kinds, StartTable(kind)
  PROVE  EntryRefs'
<1>1. CASE newRt # Nil
  <2>1. newRt \in liveTabs /\ uta_rt_drop(newRt)
    BY <1>1 DEF StartTable, TablesApart
  <2> QED
    BY <2>1, DropRefs
<1>2. CASE newRt = Nil
  BY <1>2 DEF StartTable, rteVars, EntryRefs, Holders
<1> QED
  BY <1>1, <1>2

LEMMA RefuseRefs == ASSUME Types, TablesApart, EntryRefs, RefuseTable PROVE EntryRefs'
<1>1. newRt \in liveTabs /\ uta_rt_drop(newRt)
  BY DEF RefuseTable, TablesApart
<1> QED
  BY <1>1, DropRefs

\* A table that is refilled lets its entries go and takes those of the clone.
LEMMA PrepRefs == ASSUME Types, TablesApart, EntryRefs, PrepNewRt PROVE EntryRefs'
<1>1. PICK t \in Tabs, mt \in [Keys -> Rtes \cup {Nil}] :
        /\ IF drain # Nil THEN t = drain /\ Drained(t) ELSE t \notin liveTabs
        /\ mt = NoRoute \/ (rtable # Nil /\ mt = hash[rtable])
        /\ liveTabs' = liveTabs \cup {t}
        /\ hash' = [hash EXCEPT ![t] = mt]
        /\ refs' = Ref(IF drain # Nil THEN del_rte(refs, Entries(hash[drain])) ELSE refs, Entries(mt))
        /\ groups' = Kept(groups, refs')
  BY PrepFills, Zenon
<1> SUFFICES ASSUME NEW r \in Rtes
             PROVE  /\ IsFiniteSet(Holders(r)') /\ refs'[r] = Cardinality(Holders(r)')
                    /\ refs'[r] # 0 => groups'[r] \in Routes
  BY DEF EntryRefs
<1> DEFINE S == Holders(r) \ {t}
           n == IF t \in Holders(r) THEN refs[r] - 1 ELSE refs[r]
<1>2. IsFiniteSet(Holders(r)) /\ refs[r] = Cardinality(Holders(r))
  BY DEF EntryRefs
<1>3. IsFiniteSet(S) /\ n = Cardinality(S)
  BY <1>2, OneHolderLess, ZenonT(40)
<1>4. Holders(r)' = IF r \in Entries(mt) THEN S \cup {t} ELSE S
  BY <1>1 DEF Holders, Entries, Types, TabTypes
<1>5. t \in Holders(r) <=> (drain # Nil /\ r \in Entries(hash[drain]))
  BY <1>1 DEF Holders, TablesApart
<1>6. refs'[r] = IF r \in Entries(mt) THEN n + 1 ELSE n
  BY <1>1, <1>5 DEF Ref, del_rte, Types, RteTypes
<1>7. IsFiniteSet(Holders(r)') /\ refs'[r] = Cardinality(Holders(r)')
  <2>1. CASE r \in Entries(mt)
    <3>1. t \notin S
      OBVIOUS
    <3> HIDE DEF S, n
    <3> QED
      BY <2>1, <3>1, <1>3, <1>4, <1>6, OneHolderMore
  <2>2. CASE r \notin Entries(mt)
    BY <2>2, <1>3, <1>4, <1>6, Zenon
  <2> QED
    BY <2>1, <2>2
<1>8. ASSUME refs'[r] # 0 PROVE groups'[r] \in Routes
  <2>1. groups'[r] = groups[r]
    BY <1>1, <1>8 DEF Kept
  <2>2. refs[r] # 0
    <3>1. CASE t \in Holders(r)
      BY <3>1, <1>2, FS_EmptySet
    <3>2. CASE t \notin Holders(r) /\ r \notin Entries(mt)
      BY <3>2, <1>6, <1>8
    <3>3. CASE r \in Entries(mt)
      <4>1. rtable \in Holders(r)
        BY <3>3, <1>1, EmptyKeys DEF Entries, Holders, TablesApart
      <4> QED
        BY <4>1, <1>2, FS_EmptySet
    <3> QED
      BY <3>1, <3>2, <3>3
  <2> QED
    BY <2>1, <2>2 DEF EntryRefs
<1> QED
  BY <1>7, <1>8

\* What a key of the table under construction loses.
LEMMA KeyLost ==
  ASSUME Types, TablesApart, OneKey, EntryRefs, newRt # Nil, NEW k \in Keys, NEW r \in Rtes
  PROVE  /\ newRt \in Tabs /\ newRt \in liveTabs
         /\ r = hash[newRt][k] => newRt \in Holders(r) /\ \A j \in Keys \ {k} : hash[newRt][j] # r
         /\ r = hash[newRt][k] => refs[r] # 0
<1>1. newRt \in Tabs /\ newRt \in liveTabs
  BY DEF TablesApart, Types, CtxTypes
<1>2. ASSUME r = hash[newRt][k] PROVE newRt \in Holders(r) /\ \A j \in Keys \ {k} : hash[newRt][j] # r
  BY <1>1, <1>2, NilApart DEF Holders, Entries, OneKey
<1>3. IsFiniteSet(Holders(r)) /\ refs[r] = Cardinality(Holders(r))
  BY DEF EntryRefs
<1>4. r = hash[newRt][k] => refs[r] # 0
  BY <1>2, <1>3, FS_EmptySet
<1> QED
  BY <1>1, <1>2, <1>4

LEMMA AddRefs ==
  ASSUME Types, TablesApart, OneKey, EntryRefs, NEW k \in Keys, NEW route \in Routes, AddEntry(k, route)
  PROVE  EntryRefs'
<1>1. PICK a \in Rtes :
           /\ refs[a] = 0
           /\ hash' = [hash EXCEPT ![newRt] = [hash[newRt] EXCEPT ![k] = a]]
           /\ refs' = [del_rte(refs, {hash[newRt][k]}) EXCEPT ![a] = 1]
           /\ groups' = [Kept(groups, del_rte(refs, {hash[newRt][k]})) EXCEPT ![a] = route]
  BY AddTakes
<1>2. newRt # Nil /\ liveTabs' = liveTabs
  BY DEF AddEntry, Record, Arrives
<1>3. newRt \in Tabs /\ newRt \in liveTabs /\ hash[newRt] \in [Keys -> Rtes \cup {Nil}] /\ a # hash[newRt][k]
  BY <1>1, <1>2, KeyLost DEF Types, TabTypes
<1> SUFFICES ASSUME NEW r \in Rtes
             PROVE  /\ IsFiniteSet(Holders(r)') /\ refs'[r] = Cardinality(Holders(r)')
                    /\ refs'[r] # 0 => groups'[r] \in Routes
  BY DEF EntryRefs
<1>4. IsFiniteSet(Holders(r)) /\ refs[r] = Cardinality(Holders(r)) /\ (refs[r] # 0 => groups[r] \in Routes)
  BY DEF EntryRefs
<1>5. CASE r = a
  <2>1. Holders(r) = {}
    BY <1>1, <1>4, <1>5, FS_EmptySet
  <2>2. Holders(r)' = {} \cup {newRt}
    BY <2>1, <1>1, <1>2, <1>3, <1>5, NilApart DEF Holders, Entries, Types, TabTypes
  <2>3. refs'[r] = 1 /\ groups'[r] = route
    BY <1>1, <1>5 DEF del_rte, Kept
  <2>4. IsFiniteSet(Holders(r)') /\ 0 + 1 = Cardinality(Holders(r)')
    BY <2>2, FS_EmptySet, OneHolderMore
  <2> QED
    BY <2>3, <2>4
<1>6. CASE r = hash[newRt][k]
  <2>1. newRt \in Holders(r) /\ \A j \in Keys \ {k} : hash[newRt][j] # r
    BY <1>2, <1>6, KeyLost
  <2>2. Holders(r)' = Holders(r) \ {newRt}
    BY <2>1, <1>1, <1>2, <1>3, <1>6 DEF Holders, Entries, Types, TabTypes
  <2>3. refs'[r] = refs[r] - 1 /\ (refs'[r] # 0 => groups'[r] = groups[r])
    BY <1>1, <1>3, <1>6 DEF del_rte, Kept
  <2>4. IsFiniteSet(Holders(r)') /\ refs[r] - 1 = Cardinality(Holders(r)')
    BY <1>4, <2>1, <2>2, OneHolderLess
  <2>5. refs[r] # 0
    BY <1>2, <1>6, KeyLost
  <2> QED
    BY <1>4, <2>3, <2>4, <2>5
<1>7. CASE r # a /\ r # hash[newRt][k]
  <2>1. Holders(r)' = Holders(r)
    BY <1>1, <1>2, <1>3, <1>7 DEF Holders, Entries, Types, TabTypes
  <2>2. refs'[r] = refs[r] /\ (refs'[r] # 0 => groups'[r] = groups[r])
    BY <1>1, <1>7 DEF del_rte, Kept
  <2> QED
    BY <1>4, <2>1, <2>2
<1> QED
  BY <1>5, <1>6, <1>7

LEMMA DelRefs ==
  ASSUME Types, TablesApart, OneKey, EntryRefs, NEW k \in Keys, DelEntry(k)
  PROVE  EntryRefs'
<1>1. /\ hash' = [hash EXCEPT ![newRt][k] = Nil]
      /\ refs' = del_rte(refs, {hash[newRt][k]})
      /\ groups' = Kept(groups, refs')
      /\ newRt # Nil /\ liveTabs' = liveTabs
  BY DEF DelEntry, Record, Arrives
<1>3. newRt \in Tabs /\ newRt \in liveTabs /\ hash[newRt] \in [Keys -> Rtes \cup {Nil}]
  BY <1>1, KeyLost DEF Types, TabTypes, CtxTypes, TablesApart
<1> SUFFICES ASSUME NEW r \in Rtes
             PROVE  /\ IsFiniteSet(Holders(r)') /\ refs'[r] = Cardinality(Holders(r)')
                    /\ refs'[r] # 0 => groups'[r] \in Routes
  BY DEF EntryRefs
<1>4. IsFiniteSet(Holders(r)) /\ refs[r] = Cardinality(Holders(r)) /\ (refs[r] # 0 => groups[r] \in Routes)
  BY DEF EntryRefs
<1>6. CASE r = hash[newRt][k]
  <2>1. newRt \in Holders(r) /\ \A j \in Keys \ {k} : hash[newRt][j] # r
    BY <1>1, <1>6, KeyLost
  <2>2. Holders(r)' = Holders(r) \ {newRt}
    BY <2>1, <1>1, <1>3, <1>6, NilApart DEF Holders, Entries, Types, TabTypes
  <2>3. refs'[r] = refs[r] - 1 /\ (refs'[r] # 0 => groups'[r] = groups[r])
    BY <1>1, <1>3, <1>6 DEF del_rte, Kept
  <2>4. IsFiniteSet(Holders(r)') /\ refs[r] - 1 = Cardinality(Holders(r)')
    BY <1>4, <2>1, <2>2, OneHolderLess
  <2>5. refs[r] # 0
    BY <1>1, <1>6, KeyLost
  <2> QED
    BY <1>4, <2>3, <2>4, <2>5
<1>7. CASE r # hash[newRt][k]
  <2>1. Holders(r)' = Holders(r)
    BY <1>1, <1>3, <1>7, NilApart DEF Holders, Entries, Types, TabTypes
  <2>2. refs'[r] = refs[r] /\ (refs'[r] # 0 => groups'[r] = groups[r])
    BY <1>1, <1>7 DEF del_rte, Kept
  <2> QED
    BY <1>4, <2>1, <2>2
<1> QED
  BY <1>6, <1>7

-----------------------------------------------------------------------------
(* The users of the tables *)

\* A table nobody counts has no user, and neither has one that is not allocated.
LEMMA Unused ==
  ASSUME Types, TablesApart, TableUsers, NEW t \in Tabs, t \notin liveTabs \/ refCount[t] = 0
  PROVE  Users(t) = {} /\ refCount[t] = 0
<1>1. IsFiniteSet(Users(t)) /\ refCount[t] = Cardinality(Users(t))
  BY DEF TableUsers
<1>2. CASE t \notin liveTabs
  <2>1. \A s \in Senders : snd[s].rt # t
    BY <1>2, UsedIsLive, NilApart DEF TableUsers
  <2>2. Users(t) = {}
    BY <2>1 DEF Users
  <2> QED
    BY <2>2, <1>1, FS_EmptySet
<1>3. CASE refCount[t] = 0
  BY <1>3, <1>1, FS_EmptySet
<1> QED
  BY <1>2, <1>3

\* The collector moves tables, never their users.
LEMMA StartUsers ==
  ASSUME Types, TablesApart, TableUsers, NEW kind \in Kinds, StartTable(kind)
  PROVE  TableUsers'
<1>1. UNCHANGED <<refCount, snd, rtable>> /\ drain = Nil /\ drain' = oldRt
  BY DEF StartTable, TablesApart
<1> QED
  BY <1>1 DEF TableUsers, Users

LEMMA PrepUsers == ASSUME Types, TablesApart, TableUsers, PrepNewRt PROVE TableUsers'
<1>1. PICK t \in Tabs :
        /\ IF drain # Nil THEN t = drain /\ Drained(t) ELSE t \notin liveTabs
        /\ refCount' = [refCount EXCEPT ![t] = 0]
  BY PrepFills, Zenon
<1>2. Users(t) = {} /\ refCount[t] = 0
  BY <1>1, Unused DEF Drained
<1>3. refCount' = refCount /\ UNCHANGED <<snd, rtable, oldRt>>
  BY <1>1, <1>2 DEF PrepNewRt, Types, TabTypes
<1>4. \A s \in Senders : snd[s].rt # drain \/ drain = Nil
  BY <1>1, <1>2 DEF Users
<1> QED
  BY <1>3, <1>4 DEF TableUsers, Users

LEMMA SameUsers ==
  ASSUME TableUsers, UNCHANGED <<refCount, snd, rtable, oldRt, drain>>
  PROVE  TableUsers'
BY DEF TableUsers, Users

LEMMA EndUsers ==
  ASSUME Types, TablesApart, TableUsers, NEW counted \in BOOLEAN, EndTable(counted)
  PROVE  TableUsers'
<1>1. UNCHANGED <<refCount, snd, drain>>
  BY DEF EndTable, tabVars
<1>2. {rtable, oldRt, drain} \ {Nil} \subseteq {rtable', oldRt', drain'} \ {Nil}
  BY DEF EndTable, roll_tables, TablesApart
<1> QED
  BY <1>1, <1>2 DEF TableUsers, Users

\* A sender comes.
LEMMA GetUsers ==
  ASSUME Types, TablesApart, TableUsers, NEW s \in Senders, GetRt(s)
  PROVE  TableUsers'
<1>1. rtable \in Tabs /\ snd[s].rt = Nil /\ rtable # Nil /\ UNCHANGED <<rtable, oldRt, drain>>
  BY DEF GetRt, Types, CtxTypes, TableUsers, ctxVars
<1>2. \A u \in Senders : /\ u # s => snd'[u] = snd[u]
                         /\ u = s => snd'[u].pc = "find" /\ snd'[u].rt = rtable
  BY DEF GetRt, Types, SndTypes, SenderType
<1>3. ASSUME NEW t \in Tabs PROVE IsFiniteSet(Users(t)') /\ refCount'[t] = Cardinality(Users(t)')
  <2>1. IsFiniteSet(Users(t)) /\ refCount[t] = Cardinality(Users(t))
    BY DEF TableUsers
  <2>2. CASE t = rtable
    <3>1. s \notin Users(t) /\ Users(t)' = Users(t) \cup {s}
      BY <1>1, <1>2, <2>2 DEF Users
    <3>2. refCount'[t] = refCount[t] + 1
      BY <2>2 DEF GetRt, Types, TabTypes
    <3> QED
      BY <2>1, <3>1, <3>2, OneHolderMore
  <2>3. CASE t # rtable
    <3>1. Users(t)' = Users(t)
      BY <1>1, <1>2, <2>3, NilApart DEF Users
    <3>2. refCount'[t] = refCount[t]
      BY <2>3 DEF GetRt, Types, TabTypes
    <3> QED
      BY <2>1, <3>1, <3>2
  <2> QED
    BY <2>2, <2>3
<1> QED
  BY <1>1, <1>2, <1>3 DEF TableUsers

\* A sender goes.
LEMMA ReleaseUsers ==
  ASSUME Types, TablesApart, TableUsers, NEW s \in Senders, snd[s].pc # "idle",
         release_rt(snd[s].rt), snd' = [snd EXCEPT ![s] = IdleSender], UNCHANGED ctxVars
  PROVE  TableUsers'
<1>1. snd[s].rt \in Tabs /\ UNCHANGED <<rtable, oldRt, drain>>
  BY UsedIsLive DEF ctxVars
<1>2. \A u \in Senders : /\ u # s => snd'[u] = snd[u]
                         /\ u = s => snd'[u].pc = "idle" /\ snd'[u].rt = Nil
  BY DEF IdleSender, Types, SndTypes
<1>3. ASSUME NEW t \in Tabs PROVE IsFiniteSet(Users(t)') /\ refCount'[t] = Cardinality(Users(t)')
  <2>1. IsFiniteSet(Users(t)) /\ refCount[t] = Cardinality(Users(t))
    BY DEF TableUsers
  <2>2. CASE t = snd[s].rt
    <3>1. s \in Users(t) /\ Users(t)' = Users(t) \ {s}
      BY <1>2, <2>2, NilApart DEF Users
    <3>2. refCount[t] # 0 /\ refCount[t] \in Nat
      BY <2>1, <3>1, FS_EmptySet DEF Types, TabTypes
    <3>3. refCount'[t] = refCount[t] - 1
      BY <2>2, <3>2 DEF release_rt, Types, TabTypes
    <3> QED
      BY <2>1, <3>1, <3>3, OneHolderLess
  <2>3. CASE t # snd[s].rt
    <3>1. Users(t)' = Users(t)
      BY <1>2, <2>3, NilApart DEF Users
    <3>2. refCount'[t] = refCount[t]
      BY <2>3 DEF release_rt, Types, TabTypes
    <3> QED
      BY <2>1, <3>1, <3>2
  <2> QED
    BY <2>2, <2>3
<1> QED
  BY <1>1, <1>2, <1>3 DEF TableUsers

\* A sender goes on.
LEMMA GoOnUsers ==
  ASSUME TableUsers, UNCHANGED <<refCount, ctxVars>>,
         \A u \in Senders : snd'[u].rt = snd[u].rt /\ (snd[u].pc = "idle" <=> snd'[u].pc = "idle")
  PROVE  TableUsers'
<1>1. \A t : Users(t)' = Users(t)
  BY DEF Users
<1>2. UNCHANGED <<refCount, rtable, oldRt, drain>>
  BY DEF ctxVars
<1> QED
  BY <1>1, <1>2 DEF TableUsers

-----------------------------------------------------------------------------
(* What the entries list *)

\* An entry that stays allocated in a step lists what it did.
StableGroups == \A r \in Rtes : refs[r] # 0 /\ refs'[r] # 0 => groups'[r] = groups[r]

\* The routes of a table that a step leaves alone do not change.
LEMMA Untouched ==
  ASSUME Types, EntryRefs, EntryRefs', StableGroups, NEW t \in liveTabs, t \in liveTabs',
         hash'[t] = hash[t]
  PROVE  \A r \in Entries(hash[t]) : groups'[r] = groups[r]
<1> SUFFICES ASSUME NEW r \in Entries(hash[t]) PROVE groups'[r] = groups[r]
  OBVIOUS
<1>1. r \in Rtes /\ refs[r] # 0
  BY HeldLists DEF Types, RteTypes
<1>2. t \in Holders(r)'
  BY DEF Holders
<1>3. IsFiniteSet(Holders(r)') /\ refs'[r] = Cardinality(Holders(r)')
  BY <1>1 DEF EntryRefs
<1>4. refs'[r] # 0
  BY <1>2, <1>3, FS_EmptySet
<1> QED
  BY <1>1, <1>4 DEF StableGroups

LEMMA SameContent ==
  ASSUME Types, EntryRefs, EntryRefs', StableGroups, NEW t \in liveTabs, t \in liveTabs',
         hash'[t] = hash[t], me'[t] = me[t]
  PROVE  ContentOf(t)' = ContentOf(t)
<1>1. \A r \in Entries(hash[t]) : groups'[r] = groups[r]
  BY Untouched
<1>2. \A k \in Keys : hash[t][k] # Nil => hash[t][k] \in Entries(hash[t])
  BY DEF Entries
<1> QED
  BY <1>1, <1>2 DEF ContentOf, Content

\* The entries that a step may free or reuse.
LEMMA DropStable == ASSUME NEW t, uta_rt_drop(t) PROVE StableGroups
BY DEF uta_rt_drop, Kept, StableGroups

LEMMA StartStable == ASSUME NEW kind, StartTable(kind) PROVE StableGroups
<1>1. CASE newRt # Nil
  BY <1>1, DropStable DEF StartTable
<1>2. CASE newRt = Nil
  BY <1>2 DEF StartTable, rteVars, StableGroups
<1> QED
  BY <1>1, <1>2

LEMMA PrepStable == ASSUME Types, PrepNewRt PROVE StableGroups
<1>1. groups' = Kept(groups, refs')
  BY PrepFills, Zenon
<1> QED
  BY <1>1 DEF Kept, StableGroups

LEMMA AddStable == ASSUME NEW k \in Keys, NEW route \in Routes, AddEntry(k, route) PROVE StableGroups
<1>1. PICK a \in Rtes :
           /\ refs[a] = 0
           /\ hash' = [hash EXCEPT ![newRt] = [hash[newRt] EXCEPT ![k] = a]]
           /\ refs' = [del_rte(refs, {hash[newRt][k]}) EXCEPT ![a] = 1]
           /\ groups' = [Kept(groups, del_rte(refs, {hash[newRt][k]})) EXCEPT ![a] = route]
  BY AddTakes
<1> QED
  BY <1>1 DEF Kept, del_rte, StableGroups

LEMMA DelStable == ASSUME NEW k, DelEntry(k) PROVE StableGroups
BY DEF DelEntry, Kept, StableGroups

-----------------------------------------------------------------------------
(* The entry of a sender *)

\* A step of the collector leaves the tables that are used alone.
LEMMA CollectorHolds ==
  ASSUME Types, TablesApart, TableUsers, EntryRefs, SenderHolds,
         TablesApart', TableUsers', EntryRefs', UNCHANGED snd, StableGroups,
         \A t \in Tabs : Users(t) # {} => hash'[t] = hash[t]
  PROVE  SenderHolds'
<1> SUFFICES ASSUME NEW s \in Senders, snd[s].pc = "send"
             PROVE  /\ snd[s].rte \in Entries(hash'[snd[s].rt])
                    /\ groups'[snd[s].rte] = snd[s].listed
  BY DEF SenderHolds, Entries
<1>1. snd[s].rt \in liveTabs /\ snd[s].rt \in Tabs
  BY UsedIsLive
<1>2. s \in Users(snd[s].rt)
  BY DEF Users
<1>3. hash'[snd[s].rt] = hash[snd[s].rt]
  BY <1>1, <1>2
<1>4. snd[s].rt \in liveTabs'
  BY DEF TableUsers, TablesApart
<1>5. snd[s].rte \in Entries(hash[snd[s].rt]) /\ groups[snd[s].rte] = snd[s].listed
  BY DEF SenderHolds
<1>6. groups'[snd[s].rte] = groups[snd[s].rte]
  BY <1>1, <1>3, <1>4, <1>5, Untouched
<1> QED
  BY <1>3, <1>5, <1>6

\* Nobody uses the table under construction.
LEMMA NewUnused ==
  ASSUME Types, TablesApart, TableUsers, newRt # Nil
  PROVE  Users(newRt) = {}
BY UsedIsLive DEF Users, TableUsers

\* A sender's own steps.
LEMMA GetHolds ==
  ASSUME Types, SenderHolds, NEW s \in Senders, GetRt(s)
  PROVE  SenderHolds'
<1>1. \A u \in Senders : /\ u # s => snd'[u] = snd[u]
                         /\ u = s => snd'[u].pc = "find"
  BY DEF GetRt, Types, SndTypes, SenderType
<1>2. UNCHANGED <<hash, groups>>
  BY DEF GetRt, rteVars
<1> SUFFICES ASSUME NEW u \in Senders, snd'[u].pc = "send"
             PROVE  /\ snd'[u].rte \in Entries(hash[snd'[u].rt])
                    /\ groups[snd'[u].rte] = snd'[u].listed
  BY <1>2 DEF SenderHolds
<1>3. snd'[u] = snd[u]
  BY <1>1
<1> QED
  BY <1>3 DEF SenderHolds

LEMMA EndHolds ==
  ASSUME Types, SenderHolds, NEW s \in Senders, snd' = [snd EXCEPT ![s] = IdleSender],
         UNCHANGED <<hash, groups>>
  PROVE  SenderHolds'
<1>1. \A u \in Senders : /\ u # s => snd'[u] = snd[u]
                         /\ u = s => snd'[u].pc = "idle"
  BY DEF Types, SndTypes, IdleSender
<1> QED
  BY <1>1 DEF SenderHolds

LEMMA FindHolds ==
  ASSUME Types, TablesApart, TableUsers, SenderHolds, NEW s \in Senders, NEW k \in Keys, FindRte(s, k)
  PROVE  SenderHolds' /\ TableUsers'
<1> DEFINE e == uta_get_rte(hash[snd[s].rt], k)
<1>0. UNCHANGED <<hash, groups>> /\ snd[s].pc # "idle" /\ UNCHANGED ctxVars
  BY DEF FindRte, rteVars
<1>1. snd[s].rt \in Tabs
  BY UsedIsLive DEF FindRte
<1>2. CASE e = Nil
  <2>1. release_rt(snd[s].rt) /\ snd' = [snd EXCEPT ![s] = IdleSender]
    BY <1>2 DEF FindRte
  <2> QED
    BY <1>0, <2>1, EndHolds, ReleaseUsers
<1>3. CASE e # Nil
  <2>1. /\ snd' = [snd EXCEPT ![s].pc = "send", ![s].rte = e, ![s].listed = groups[e]]
        /\ UNCHANGED refCount
    BY <1>3 DEF FindRte
  <2>2. e \in Entries(hash[snd[s].rt])
    BY <1>1, <1>3, LookUp
  <2> HIDE DEF e
  <2>3. \A u \in Senders : /\ u # s => snd'[u] = snd[u]
                           /\ u = s => /\ snd'[u].pc = "send" /\ snd'[u].rt = snd[u].rt
                                       /\ snd'[u].rte = e /\ snd'[u].listed = groups[e]
    BY <2>1 DEF Types, SndTypes, SenderType
  <2>4. SenderHolds'
    BY <1>0, <2>2, <2>3 DEF SenderHolds
  <2>5. TableUsers'
    BY <1>0, <2>1, <2>3, GoOnUsers
  <2> QED
    BY <2>4, <2>5
<1> QED
  BY <1>2, <1>3

LEMMA SendHolds ==
  ASSUME Types, TablesApart, TableUsers, SenderHolds, NEW s \in Senders, SendGroup(s)
  PROVE  SenderHolds' /\ TableUsers'
<1>0. UNCHANGED <<hash, groups>> /\ snd[s].pc # "idle" /\ UNCHANGED ctxVars
  BY DEF SendGroup, rteVars
<1>2. CASE More(s)
  <2>1. snd' = [snd EXCEPT ![s].grp = @ + 1] /\ UNCHANGED refCount
    BY <1>2 DEF SendGroup
  <2>2. \A u \in Senders : /\ snd'[u].pc = snd[u].pc /\ snd'[u].rt = snd[u].rt
                           /\ snd'[u].rte = snd[u].rte /\ snd'[u].listed = snd[u].listed
    BY <2>1 DEF Types, SndTypes, SenderType
  <2>3. SenderHolds'
    BY <1>0, <2>2 DEF SenderHolds
  <2>4. TableUsers'
    BY <1>0, <2>1, <2>2, GoOnUsers
  <2> QED
    BY <2>3, <2>4
<1>3. CASE ~More(s)
  <2>1. release_rt(snd[s].rt) /\ snd' = [snd EXCEPT ![s] = IdleSender]
    BY <1>3 DEF SendGroup
  <2> QED
    BY <1>0, <2>1, EndHolds, ReleaseUsers
<1> QED
  BY <1>2, <1>3

LEMMA CloneHolds ==
  ASSUME Types, TablesApart, TableUsers, SenderHolds, NEW s \in Senders, CloneFails(s)
  PROVE  SenderHolds' /\ TableUsers'
<1>0. UNCHANGED <<hash, groups>> /\ snd[s].pc # "idle" /\ UNCHANGED ctxVars
  BY DEF CloneFails, rteVars
<1>1. release_rt(snd[s].rt) /\ snd' = [snd EXCEPT ![s] = IdleSender]
  BY DEF CloneFails
<1> QED
  BY <1>0, <1>1, EndHolds, ReleaseUsers

-----------------------------------------------------------------------------
(* What the route manager meant *)

\* When the spaces are right, once the table has ended.
LEMMA SettledIs ==
  ASSUME NEW kind, NEW full
  PROVE  /\ "mt" \in Settled(kind, full) <=>
              IF kind = "meid" THEN "mt" \in right ELSE full /\ (kind = "newrt" \/ "mt" \in right)
         /\ "me" \in Settled(kind, full) <=>
              IF kind = "meid" THEN full /\ "me" \in right ELSE "me" \in right
BY DEF Settled

\* A step that leaves the active table alone leaves its routes alone.
LEMMA ActiveSame ==
  ASSUME Types, TablesApart, EntryRefs, TablesApart', EntryRefs', StableGroups, AsMeant,
         UNCHANGED <<rtable, meant, right>>,
         rtable # Nil => hash'[rtable] = hash[rtable] /\ me'[rtable] = me[rtable]
  PROVE  /\ rtable' = Nil => Agrees(EmptyTable, meant', right')
         /\ rtable' # Nil => Agrees(ContentOf(rtable)', meant', right')
<1>1. CASE rtable = Nil
  BY <1>1 DEF AsMeant
<1>2. CASE rtable # Nil
  <2>1. rtable \in liveTabs /\ rtable \in liveTabs'
    BY <1>2 DEF TablesApart
  <2>2. Content(hash[rtable], groups, me[rtable])' = Content(hash[rtable], groups, me[rtable])
    <3>1. \A r \in Entries(hash[rtable]) : groups'[r] = groups[r]
      BY <1>2, <2>1, Untouched
    <3>2. \A k \in Keys : hash[rtable][k] # Nil => hash[rtable][k] \in Entries(hash[rtable])
      BY DEF Entries
    <3> QED
      BY <1>2, <3>1, <3>2 DEF Content
  <2> QED
    BY <1>2, <2>2 DEF AsMeant, ContentOf, Agrees
<1> QED
  BY <1>1, <1>2

LEMMA StartMeant ==
  ASSUME Types, TablesApart, EntryRefs, TablesApart', EntryRefs', AsMeant,
         NEW kind \in Kinds, StartTable(kind)
  PROVE  AsMeant'
<1>1. StableGroups
  BY StartStable
<1>2. UNCHANGED <<rtable, meant, right>>
  BY DEF StartTable
<1>3. rtable # Nil => hash'[rtable] = hash[rtable] /\ me'[rtable] = me[rtable]
  <2>1. CASE newRt # Nil
    BY <2>1 DEF StartTable, uta_rt_drop, TablesApart, Types, TabTypes
  <2>2. CASE newRt = Nil
    BY <2>2 DEF StartTable
  <2> QED
    BY <2>1, <2>2
<1>4. /\ rtable' = Nil => Agrees(EmptyTable, meant', right')
      /\ rtable' # Nil => Agrees(ContentOf(rtable)', meant', right')
  BY <1>1, <1>2, <1>3, ActiveSame
<1>5. nsent' = 0 /\ ~lost' /\ newRt' = Nil
  BY DEF StartTable, Begin
<1>6. want' = Basis(sending)'
  BY <1>2 DEF StartTable, Begin, Basis
<1> QED
  BY <1>4, <1>5, <1>6 DEF AsMeant

LEMMA PrepMeant ==
  ASSUME Types, TablesApart, EntryRefs, TablesApart', EntryRefs', AsMeant, PrepNewRt
  PROVE  AsMeant'
<1>1. PICK t \in Tabs, mt \in [Keys -> Rtes \cup {Nil}], o \in [Meids -> Eps \cup {Nil}], bad \in BOOLEAN :
           /\ IF drain # Nil THEN t = drain /\ Drained(t) ELSE t \notin liveTabs
           /\ mt = NoRoute \/ (rtable # Nil /\ mt = hash[rtable])
           /\ ~bad => /\ rtable = Nil => mt = NoRoute /\ o = NoOwner
                      /\ rtable # Nil => o = me[rtable]
                      /\ rtable # Nil => mt = IF sending = "newrt" THEN NoRoute ELSE hash[rtable]
           /\ liveTabs' = liveTabs \cup {t}
           /\ hash' = [hash EXCEPT ![t] = mt]
           /\ me' = [me EXCEPT ![t] = o]
           /\ refs' = Ref(IF drain # Nil THEN del_rte(refs, Entries(hash[drain])) ELSE refs, Entries(mt))
           /\ groups' = Kept(groups, refs')
           /\ refCount' = [refCount EXCEPT ![t] = 0]
           /\ err' = [err EXCEPT ![t] = bad]
           /\ updates' = [updates EXCEPT ![t] = 0]
           /\ newRt' = t
  BY PrepFills, Zenon
<1>2. StableGroups
  BY PrepStable
<1>3. UNCHANGED <<rtable, meant, right, sending, want, nsent, lost>> /\ rtc' = "idle" /\ rtc = "prep"
  BY DEF PrepNewRt, rmVars
<1>4. rtable # Nil => hash'[rtable] = hash[rtable] /\ me'[rtable] = me[rtable] /\ rtable # t
  BY <1>1 DEF TablesApart, Types, TabTypes
<1>5. /\ rtable' = Nil => Agrees(EmptyTable, meant', right')
      /\ rtable' # Nil => Agrees(ContentOf(rtable)', meant', right')
  BY <1>2, <1>3, <1>4, ActiveSame
<1>6. nsent = 0 /\ ~lost /\ want = Basis(sending)
  BY <1>3 DEF AsMeant
<1>7. updates'[t] = nsent /\ err'[t] = bad /\ hash'[t] = mt /\ me'[t] = o
  BY <1>1, <1>6 DEF Types, TabTypes, FlagTypes
<1>8. ASSUME ~bad PROVE Agrees(ContentOf(t)', want, Settled(sending, ~lost))
  <2>1. /\ "mt" \in Settled(sending, ~lost) => sending = "newrt" \/ "mt" \in right
        /\ "me" \in Settled(sending, ~lost) => "me" \in right
    BY SettledIs
  <2>2. /\ want.mt = IF sending = "newrt" THEN NoRoute ELSE meant.mt
        /\ want.me = meant.me
    BY <1>6 DEF Basis
  <2>3. CASE rtable = Nil
    <3>1. mt = NoRoute /\ o = NoOwner /\ Agrees(EmptyTable, meant, right)
      BY <1>1, <1>8, <2>3 DEF AsMeant
    <3>2. ContentOf(t)' = EmptyTable
      BY <3>1, <1>7 DEF ContentOf, Content, EmptyTable, NoRoute
    <3>3. EmptyTable.mt = NoRoute /\ EmptyTable.me = NoOwner
      BY DEF EmptyTable
    <3> QED
      BY <3>1, <3>2, <3>3, <2>1, <2>2 DEF Agrees
  <2>4. CASE rtable # Nil
    <3>1. o = me[rtable] /\ mt = IF sending = "newrt" THEN NoRoute ELSE hash[rtable]
      BY <1>1, <1>8, <2>4
    <3>2. Agrees(Content(hash[rtable], groups', me[rtable]), meant, right)
      BY <1>3, <1>4, <1>5, <2>4 DEF ContentOf
    <3>3. /\ "mt" \in right => meant.mt =
                [k \in Keys |-> IF hash[rtable][k] = Nil THEN Nil ELSE groups'[hash[rtable][k]]]
          /\ "me" \in right => meant.me = me[rtable]
      BY <3>2 DEF Agrees, Content
    <3>4. /\ "mt" \in Settled(sending, ~lost) =>
                [k \in Keys |-> IF mt[k] = Nil THEN Nil ELSE groups'[mt[k]]] = want.mt
          /\ "me" \in Settled(sending, ~lost) => o = want.me
      BY <3>1, <3>3, <2>1, <2>2 DEF NoRoute
    <3> QED
      BY <3>4, <1>7 DEF ContentOf, Content, Agrees
  <2> QED
    BY <2>3, <2>4
<1>9. want.me = meant.me /\ want.mt = IF sending = "newrt" THEN NoRoute ELSE meant.mt
  BY <1>6 DEF Basis
<1>10. IF sending = "meid" THEN want.mt = meant.mt ELSE want.me = meant.me
  BY <1>9
<1>11. Settled(sending, ~lost)' = Settled(sending, ~lost)
  BY <1>3 DEF Settled
<1> QED
  BY <1>1, <1>3, <1>5, <1>6, <1>7, <1>8, <1>10, <1>11 DEF AsMeant

\* The active table, when a record reaches the one under construction.
LEMMA RecordActive ==
  ASSUME Types, TablesApart, EntryRefs, TablesApart', EntryRefs', StableGroups, AsMeant,
         newRt # Nil, UNCHANGED <<ctxVars, meant, right>>,
         \A t \in Tabs \ {newRt} : hash'[t] = hash[t] /\ me'[t] = me[t]
  PROVE  /\ rtable' = Nil => Agrees(EmptyTable, meant', right')
         /\ rtable' # Nil => Agrees(ContentOf(rtable)', meant', right')
<1>1. UNCHANGED <<rtable, meant, right>>
  BY DEF ctxVars
<1>2. rtable # Nil => hash'[rtable] = hash[rtable] /\ me'[rtable] = me[rtable]
  BY DEF TablesApart, Types, CtxTypes
<1> QED
  BY <1>1, <1>2, ActiveSame

LEMMA AddMeant ==
  ASSUME Types, TablesApart, OneKey, EntryRefs, TablesApart', EntryRefs', AsMeant,
         NEW k \in Keys, NEW route \in Routes, AddEntry(k, route)
  PROVE  AsMeant'
<1>1. PICK a \in Rtes :
           /\ refs[a] = 0
           /\ hash' = [hash EXCEPT ![newRt] = [hash[newRt] EXCEPT ![k] = a]]
           /\ refs' = [del_rte(refs, {hash[newRt][k]}) EXCEPT ![a] = 1]
           /\ groups' = [Kept(groups, del_rte(refs, {hash[newRt][k]})) EXCEPT ![a] = route]
  BY AddTakes
<1>2. /\ newRt # Nil /\ newRt \in Tabs /\ newRt \in liveTabs /\ rtc = "idle" /\ sending # Nil
      /\ UNCHANGED <<liveTabs, ctxVars, sending, meant, right, me, err, lost>>
      /\ nsent' = nsent + 1 /\ updates' = [updates EXCEPT ![newRt] = @ + 1]
      /\ want' = [mt |-> [want.mt EXCEPT ![k] = route], me |-> want.me]
  BY DEF AddEntry, Record, Arrives, TablesApart, Types, CtxTypes
<1>3. StableGroups
  BY AddStable
<1>4. /\ rtable' = Nil => Agrees(EmptyTable, meant', right')
      /\ rtable' # Nil => Agrees(ContentOf(rtable)', meant', right')
  BY <1>1, <1>2, <1>3, RecordActive DEF Types, TabTypes
<1>5. UNCHANGED <<rtable, newRt, rtc>>
  BY <1>2 DEF ctxVars
<1>6. IF lost THEN updates'[newRt] < nsent' ELSE updates'[newRt] = nsent'
  BY <1>2 DEF AsMeant, Types, TabTypes, RmTypes
<1>7. ASSUME ~err[newRt] PROVE Agrees(ContentOf(newRt)', want', Settled(sending, ~lost))
  <2>1. Agrees(Content(hash[newRt], groups, me[newRt]), want, Settled(sending, ~lost))
    BY <1>2, <1>7 DEF AsMeant, ContentOf
  <2>2. /\ "mt" \in Settled(sending, ~lost) => want.mt =
              [j \in Keys |-> IF hash[newRt][j] = Nil THEN Nil ELSE groups[hash[newRt][j]]]
        /\ "me" \in Settled(sending, ~lost) => want.me = me[newRt]
    BY <2>1 DEF Agrees, Content
  <2>3. hash[newRt] \in [Keys -> Rtes \cup {Nil}] /\ hash'[newRt] = [hash[newRt] EXCEPT ![k] = a]
    BY <1>1, <1>2 DEF Types, TabTypes
  <2>4. \A j \in Keys \ {k} : hash[newRt][j] # Nil => groups'[hash[newRt][j]] = groups[hash[newRt][j]]
    <3> SUFFICES ASSUME NEW j \in Keys \ {k}, hash[newRt][j] # Nil
                 PROVE  groups'[hash[newRt][j]] = groups[hash[newRt][j]]
      OBVIOUS
    <3>1. hash[newRt][j] \in Rtes
      BY <2>3
    <3>2. refs[hash[newRt][j]] # 0
      BY <3>1, <1>2, KeyLost
    <3>3. hash[newRt][j] # hash[newRt][k]
      BY <1>2 DEF OneKey
    <3>4. refs'[hash[newRt][j]] = refs[hash[newRt][j]]
      BY <1>1, <3>1, <3>2, <3>3 DEF del_rte
    <3> QED
      BY <3>1, <3>2, <3>4, <1>3 DEF StableGroups
  <2>5. groups'[a] = route /\ a # Nil
    BY <1>1, NilApart DEF Kept
  <2>6. "mt" \in Settled(sending, ~lost) =>
        [j \in Keys |-> IF hash'[newRt][j] = Nil THEN Nil ELSE groups'[hash'[newRt][j]]]
          = [want.mt EXCEPT ![k] = route]
    BY <2>2, <2>3, <2>4, <2>5
  <2> QED
    BY <1>2, <1>5, <2>2, <2>6 DEF ContentOf, Content, Agrees
<1>8. Settled(sending, ~lost)' = Settled(sending, ~lost)
  BY <1>2 DEF Settled
<1>9. ~err'[newRt'] => Agrees(ContentOf(newRt)', want', Settled(sending, ~lost)')
  BY <1>2, <1>5, <1>7, <1>8
<1>10. want'.me = meant'.me /\ sending # "meid"
  BY <1>2 DEF AsMeant, AddEntry
<1> QED
  BY <1>2, <1>4, <1>5, <1>6, <1>9, <1>10 DEF AsMeant

LEMMA DelMeant ==
  ASSUME Types, TablesApart, OneKey, EntryRefs, TablesApart', EntryRefs', AsMeant,
         NEW k \in Keys, DelEntry(k)
  PROVE  AsMeant'
<1>1. /\ hash' = [hash EXCEPT ![newRt][k] = Nil]
      /\ refs' = del_rte(refs, {hash[newRt][k]})
  BY DEF DelEntry
<1>2. /\ newRt # Nil /\ newRt \in Tabs /\ newRt \in liveTabs /\ rtc = "idle" /\ sending # Nil
      /\ UNCHANGED <<liveTabs, ctxVars, sending, meant, right, me, err, lost>>
      /\ nsent' = nsent + 1 /\ updates' = [updates EXCEPT ![newRt] = @ + 1]
      /\ want' = [mt |-> [want.mt EXCEPT ![k] = Nil], me |-> want.me]
  BY DEF DelEntry, Record, Arrives, TablesApart, Types, CtxTypes
<1>3. StableGroups
  BY DelStable
<1>4. /\ rtable' = Nil => Agrees(EmptyTable, meant', right')
      /\ rtable' # Nil => Agrees(ContentOf(rtable)', meant', right')
  BY <1>1, <1>2, <1>3, RecordActive DEF Types, TabTypes
<1>5. UNCHANGED <<rtable, newRt, rtc>>
  BY <1>2 DEF ctxVars
<1>6. IF lost THEN updates'[newRt] < nsent' ELSE updates'[newRt] = nsent'
  BY <1>2 DEF AsMeant, Types, TabTypes, RmTypes
<1>7. ASSUME ~err[newRt] PROVE Agrees(ContentOf(newRt)', want', Settled(sending, ~lost))
  <2>1. Agrees(Content(hash[newRt], groups, me[newRt]), want, Settled(sending, ~lost))
    BY <1>2, <1>7 DEF AsMeant, ContentOf
  <2>2. /\ "mt" \in Settled(sending, ~lost) => want.mt =
              [j \in Keys |-> IF hash[newRt][j] = Nil THEN Nil ELSE groups[hash[newRt][j]]]
        /\ "me" \in Settled(sending, ~lost) => want.me = me[newRt]
    BY <2>1 DEF Agrees, Content
  <2>3. hash[newRt] \in [Keys -> Rtes \cup {Nil}] /\ hash'[newRt] = [hash[newRt] EXCEPT ![k] = Nil]
    BY <1>1, <1>2 DEF Types, TabTypes
  <2>4. \A j \in Keys \ {k} : hash[newRt][j] # Nil => groups'[hash[newRt][j]] = groups[hash[newRt][j]]
    <3> SUFFICES ASSUME NEW j \in Keys \ {k}, hash[newRt][j] # Nil
                 PROVE  groups'[hash[newRt][j]] = groups[hash[newRt][j]]
      OBVIOUS
    <3>1. hash[newRt][j] \in Rtes
      BY <2>3
    <3>2. refs[hash[newRt][j]] # 0
      BY <3>1, <1>2, KeyLost
    <3>3. hash[newRt][j] # hash[newRt][k]
      BY <1>2 DEF OneKey
    <3>4. refs'[hash[newRt][j]] = refs[hash[newRt][j]]
      BY <1>1, <3>1, <3>2, <3>3 DEF del_rte
    <3> QED
      BY <3>1, <3>2, <3>4, <1>3 DEF StableGroups
  <2>6. "mt" \in Settled(sending, ~lost) =>
        [j \in Keys |-> IF hash'[newRt][j] = Nil THEN Nil ELSE groups'[hash'[newRt][j]]]
          = [want.mt EXCEPT ![k] = Nil]
    BY <2>2, <2>3, <2>4
  <2> QED
    BY <1>2, <1>5, <2>2, <2>6 DEF ContentOf, Content, Agrees
<1>8. Settled(sending, ~lost)' = Settled(sending, ~lost)
  BY <1>2 DEF Settled
<1>9. ~err'[newRt'] => Agrees(ContentOf(newRt)', want', Settled(sending, ~lost)')
  BY <1>2, <1>5, <1>7, <1>8
<1>10. want'.me = meant'.me /\ sending # "meid"
  BY <1>2 DEF AsMeant, DelEntry
<1> QED
  BY <1>2, <1>4, <1>5, <1>6, <1>9, <1>10 DEF AsMeant

LEMMA MeidMeant ==
  ASSUME Types, TablesApart, EntryRefs, TablesApart', EntryRefs', AsMeant,
         NEW m \in Meids, NEW owner \in Eps \cup {Nil}, SetMeid(m, owner)
  PROVE  AsMeant'
<1>1. /\ me' = [me EXCEPT ![newRt][m] = owner]
      /\ UNCHANGED <<hash, refs, groups>>
  BY DEF SetMeid
<1>2. /\ newRt # Nil /\ newRt \in Tabs /\ newRt \in liveTabs /\ rtc = "idle" /\ sending # Nil
      /\ UNCHANGED <<liveTabs, ctxVars, sending, meant, right, err, lost>>
      /\ nsent' = nsent + 1 /\ updates' = [updates EXCEPT ![newRt] = @ + 1]
      /\ want' = [mt |-> want.mt, me |-> [want.me EXCEPT ![m] = owner]]
  BY DEF SetMeid, Record, Arrives, TablesApart, Types, CtxTypes
<1>3. StableGroups
  BY <1>1 DEF StableGroups
<1>4. /\ rtable' = Nil => Agrees(EmptyTable, meant', right')
      /\ rtable' # Nil => Agrees(ContentOf(rtable)', meant', right')
  BY <1>1, <1>2, <1>3, RecordActive DEF Types, TabTypes
<1>5. UNCHANGED <<rtable, newRt, rtc>>
  BY <1>2 DEF ctxVars
<1>6. IF lost THEN updates'[newRt] < nsent' ELSE updates'[newRt] = nsent'
  BY <1>2 DEF AsMeant, Types, TabTypes, RmTypes
<1>7. ASSUME ~err[newRt] PROVE Agrees(ContentOf(newRt)', want', Settled(sending, ~lost))
  <2>1. Agrees(Content(hash[newRt], groups, me[newRt]), want, Settled(sending, ~lost))
    BY <1>2, <1>7 DEF AsMeant, ContentOf
  <2>2. me'[newRt] = [me[newRt] EXCEPT ![m] = owner]
    BY <1>1, <1>2 DEF Types, TabTypes
  <2> QED
    BY <1>1, <1>2, <1>5, <2>1, <2>2 DEF ContentOf, Content, Agrees
<1>8. Settled(sending, ~lost)' = Settled(sending, ~lost)
  BY <1>2 DEF Settled
<1>9. ~err'[newRt'] => Agrees(ContentOf(newRt)', want', Settled(sending, ~lost)')
  BY <1>2, <1>5, <1>7, <1>8
<1>10. want'.mt = meant'.mt /\ sending' = "meid"
  BY <1>2 DEF AsMeant, SetMeid
<1> QED
  BY <1>2, <1>4, <1>5, <1>6, <1>9, <1>10 DEF AsMeant

\* A record lost: the space the table is about would no longer be right.
LEMMA LoseMeant == ASSUME Types, TablesApart, AsMeant, LoseRecord PROVE AsMeant'
<1>1. PICK w \in TableType : /\ Record(w.mt, w.me)
                             /\ IF sending = "meid" THEN w.mt = want.mt ELSE w.me = want.me
  BY LostRecord
<1>2. /\ UNCHANGED <<tabVars, rteVars, ctxVars, meant, right, sending>> /\ lost'
      /\ nsent' = nsent + 1 /\ newRt # Nil /\ rtc = "idle"
      /\ want' = [mt |-> w.mt, me |-> w.me]
  BY <1>1, Zenon DEF LoseRecord, Record
<1>3. UNCHANGED <<hash, me, groups, updates, err, rtable, newRt, rtc, meant, right, sending>>
  BY <1>2 DEF tabVars, rteVars, ctxVars
<1>4. newRt \in Tabs /\ updates[newRt] \in Nat /\ nsent \in Nat
  BY <1>2 DEF Types, CtxTypes, TabTypes, RmTypes
<1>5. updates'[newRt'] < nsent'
  BY <1>2, <1>3, <1>4 DEF AsMeant
<1>6. IF sending' = "meid" THEN want'.mt = meant'.mt ELSE want'.me = meant'.me
  BY <1>1, <1>2, <1>3 DEF AsMeant
<1>7. ~err'[newRt'] => Agrees(ContentOf(newRt)', want', Settled(sending, ~lost)')
  <2>1. /\ "mt" \in Settled(sending, ~lost)' => sending = "meid" /\ "mt" \in right
        /\ "me" \in Settled(sending, ~lost)' => sending # "meid" /\ "me" \in right
    BY <1>2, <1>3 DEF Settled
  <2>2. /\ sending = "meid" /\ "mt" \in right => "mt" \in Settled(sending, ~lost)
        /\ sending # "meid" /\ "me" \in right => "me" \in Settled(sending, ~lost)
    BY SettledIs
  <2>3. ~err[newRt] => Agrees(ContentOf(newRt), want, Settled(sending, ~lost))
    BY <1>2 DEF AsMeant
  <2>4. ContentOf(newRt)' = ContentOf(newRt)
    BY <1>3 DEF ContentOf
  <2> QED
    BY <1>1, <1>2, <1>3, <2>1, <2>2, <2>3, <2>4 DEF Agrees
<1>8. /\ rtable' = Nil => Agrees(EmptyTable, meant', right')
      /\ rtable' # Nil => Agrees(ContentOf(rtable)', meant', right')
  BY <1>3 DEF AsMeant, ContentOf
<1> QED
  BY <1>2, <1>3, <1>5, <1>6, <1>7, <1>8 DEF AsMeant

\* The table ends: one that lost records has fewer than the end record counts, if it
\* counts them; the space that the table is not about is as it was.
LEMMA EndMeant ==
  ASSUME Types, TablesApart, AsMeant, NEW counted \in BOOLEAN, EndTable(counted)
  PROVE  AsMeant'
<1>1. /\ UNCHANGED <<hash, me, groups, updates, rtc>> /\ newRt # Nil /\ newRt \in Tabs
      /\ newRt' = Nil /\ rtc = "idle"
  BY DEF EndTable, tabVars, rteVars, Types, CtxTypes
<1>2. /\ right' = Settled(sending, (counted \/ ~lost) /\ ~err[newRt])
      /\ meant' = [mt |-> IF "mt" \in right' THEN want.mt ELSE NoRoute,
                   me |-> IF "me" \in right' THEN want.me ELSE NoOwner]
  BY DEF EndTable
<1>3. ("mt" \in right' => meant'.mt = want.mt) /\ ("me" \in right' => meant'.me = want.me)
  BY <1>2
<1>4. CASE err[newRt]
  <2>1. UNCHANGED rtable
    BY <1>4 DEF EndTable, roll_tables
  <2>2. /\ "mt" \in right' => "mt" \in right /\ sending = "meid"
        /\ "me" \in right' => "me" \in right /\ sending # "meid"
    BY <1>2, <1>4, SettledIs
  <2>3. /\ "mt" \in right' => "mt" \in right /\ meant'.mt = meant.mt
        /\ "me" \in right' => "me" \in right /\ meant'.me = meant.me
    BY <1>1, <1>3, <2>2 DEF AsMeant
  <2>4. rtable = Nil => Agrees(EmptyTable, meant', right')
    BY <2>3 DEF AsMeant, Agrees
  <2>5. rtable # Nil => Agrees(ContentOf(rtable)', meant', right')
    BY <1>1, <2>1, <2>3 DEF AsMeant, Agrees, ContentOf
  <2> QED
    BY <1>1, <2>1, <2>4, <2>5 DEF AsMeant
<1>5. CASE ~err[newRt]
  <2>1. rtable' = newRt
    BY <1>5 DEF EndTable, roll_tables
  <2>2. counted => ~lost
    <3> SUFFICES ASSUME lost, counted PROVE FALSE
      OBVIOUS
    <3>1. updates[newRt] = nsent
      BY DEF EndTable, CountFits
    <3>2. updates[newRt] < nsent
      BY <1>1 DEF AsMeant
    <3> QED
      BY <3>1, <3>2, <1>1 DEF Types, TabTypes, RmTypes
  <2>3. /\ "mt" \in right' => "mt" \in Settled(sending, ~lost)
        /\ "me" \in right' => "me" \in Settled(sending, ~lost)
    BY <1>2, <2>2, SettledIs
  <2>4. Agrees(ContentOf(newRt), want, Settled(sending, ~lost))
    BY <1>1, <1>5 DEF AsMeant
  <2>5. Agrees(ContentOf(newRt), meant', right')
    BY <1>3, <2>3, <2>4 DEF Agrees
  <2>6. Agrees(ContentOf(rtable)', meant', right')
    BY <1>1, <2>1, <2>5 DEF ContentOf
  <2> QED
    BY <1>1, <2>1, <2>6 DEF AsMeant
<1> QED
  BY <1>4, <1>5

LEMMA RefuseMeant ==
  ASSUME Types, TablesApart, EntryRefs, TablesApart', EntryRefs', AsMeant, RefuseTable
  PROVE  AsMeant'
<1>1. uta_rt_drop(newRt) /\ newRt # Nil /\ newRt' = Nil /\ UNCHANGED <<rtable, meant, right, rtc>> /\ rtc = "idle"
  BY DEF RefuseTable
<1>2. StableGroups
  BY <1>1, DropStable
<1>3. rtable # Nil => hash'[rtable] = hash[rtable] /\ me'[rtable] = me[rtable]
  BY <1>1 DEF uta_rt_drop, TablesApart, Types, TabTypes
<1>4. /\ rtable' = Nil => Agrees(EmptyTable, meant', right')
      /\ rtable' # Nil => Agrees(ContentOf(rtable)', meant', right')
  BY <1>1, <1>2, <1>3, ActiveSame
<1> QED
  BY <1>1, <1>4 DEF AsMeant

LEMMA SenderMeant ==
  ASSUME TablesApart, OneKey, EntryRefs, AsMeant,
         UNCHANGED <<liveTabs, hash, me, err, updates, rteVars, ctxVars, rmVars>>
  PROVE  TablesApart' /\ OneKey' /\ EntryRefs' /\ AsMeant'
<1> USE DEF rteVars, ctxVars, rmVars
<1>1. TablesApart' /\ OneKey'
  BY DEF TablesApart, OneKey
<1>2. \A r : Holders(r)' = Holders(r)
  BY DEF Holders
<1>3. EntryRefs'
  BY <1>2 DEF EntryRefs
<1>4. AsMeant'
  BY DEF AsMeant, ContentOf, Basis, Settled
<1> QED
  BY <1>1, <1>3, <1>4

-----------------------------------------------------------------------------
(* The invariant *)

\* Nothing is allocated, nobody sends.
LEMMA InitInv == Init => RouteInv
<1> SUFFICES ASSUME Init PROVE RouteInv
  OBVIOUS
<1>1. Types
  BY InitTypes
<1>2. TablesApart /\ OneKey
  BY EmptyKeys DEF Init, TablesApart, OneKey
<1>3. EntryRefs
  <2>1. \A r : Holders(r) = {}
    BY DEF Init, Holders
  <2> QED
    BY <2>1, FS_EmptySet DEF Init, EntryRefs
<1>4. TableUsers
  <2>1. \A s \in Senders : snd[s].rt = Nil /\ snd[s].pc = "idle"
    BY DEF Init, IdleSender
  <2>2. \A t \in Tabs : Users(t) = {}
    BY <2>1, NilApart DEF Users
  <2> QED
    BY <2>1, <2>2, FS_EmptySet DEF Init, TableUsers
<1>5. SenderHolds
  BY DEF Init, IdleSender, SenderHolds
<1>6. AsMeant
  BY DEF Init, AsMeant, Agrees
<1> QED
  BY <1>1, <1>2, <1>3, <1>4, <1>5, <1>6 DEF RouteInv

\* The steps of the collector.
LEMMA StartInv == ASSUME RouteInv, NEW kind \in Kinds, StartTable(kind) PROVE RouteInv'
<1> USE DEF RouteInv
<1>1. Types' /\ TablesApart' /\ OneKey' /\ EntryRefs' /\ TableUsers'
  BY StartTypes, StartApart, StartOneKey, StartRefs, StartUsers
<1>2. \A t \in Tabs : Users(t) # {} => hash'[t] = hash[t]
  <2>1. CASE newRt # Nil
    BY <2>1, NewUnused DEF StartTable, uta_rt_drop, Types, TabTypes
  <2>2. CASE newRt = Nil
    BY <2>2 DEF StartTable
  <2> QED
    BY <2>1, <2>2
<1>3. UNCHANGED snd
  BY DEF StartTable
<1>4. SenderHolds'
  BY <1>1, <1>2, <1>3, StartStable, CollectorHolds
<1>5. AsMeant'
  BY <1>1, StartMeant
<1> QED
  BY <1>1, <1>4, <1>5

LEMMA PrepInv == ASSUME RouteInv, PrepNewRt PROVE RouteInv'
<1> USE DEF RouteInv
<1>1. Types' /\ TablesApart' /\ OneKey' /\ EntryRefs' /\ TableUsers'
  BY PrepTypes, PrepApart, PrepOneKey, PrepRefs, PrepUsers
<1>2. PICK t \in Tabs, mt \in [Keys -> Rtes \cup {Nil}] :
        /\ IF drain # Nil THEN t = drain /\ Drained(t) ELSE t \notin liveTabs
        /\ hash' = [hash EXCEPT ![t] = mt]
  BY PrepFills, Zenon
<1>3. Users(t) = {}
  BY <1>2, Unused DEF Drained
<1>4. \A u \in Tabs : Users(u) # {} => hash'[u] = hash[u]
  BY <1>2, <1>3 DEF Types, TabTypes
<1>5. UNCHANGED snd
  BY DEF PrepNewRt
<1>6. SenderHolds'
  BY <1>1, <1>4, <1>5, PrepStable, CollectorHolds
<1>7. AsMeant'
  BY <1>1, PrepMeant
<1> QED
  BY <1>1, <1>6, <1>7

LEMMA AddInv ==
  ASSUME RouteInv, NEW k \in Keys, NEW route \in Routes, AddEntry(k, route)
  PROVE  RouteInv'
<1> USE DEF RouteInv
<1>1. newRt # Nil /\ UNCHANGED <<liveTabs, ctxVars, snd, refCount>>
  BY DEF AddEntry, Record, Arrives
<1>2. UNCHANGED <<rtable, oldRt, drain>>
  BY <1>1 DEF ctxVars
<1>3. Types' /\ TablesApart' /\ OneKey' /\ EntryRefs' /\ TableUsers'
  BY <1>1, <1>2, AddTypes, RecordApart, AddOneKey, AddRefs, SameUsers
<1>4. \A t \in Tabs : Users(t) # {} => hash'[t] = hash[t]
  BY <1>1, NewUnused DEF AddEntry, Types, TabTypes
<1>5. SenderHolds'
  BY <1>1, <1>3, <1>4, AddStable, CollectorHolds
<1>6. AsMeant'
  BY <1>3, AddMeant
<1> QED
  BY <1>3, <1>5, <1>6

LEMMA DelInv == ASSUME RouteInv, NEW k \in Keys, DelEntry(k) PROVE RouteInv'
<1> USE DEF RouteInv
<1>1. newRt # Nil /\ UNCHANGED <<liveTabs, ctxVars, snd, refCount>>
  BY DEF DelEntry, Record, Arrives
<1>2. UNCHANGED <<rtable, oldRt, drain>>
  BY <1>1 DEF ctxVars
<1>3. Types' /\ TablesApart' /\ OneKey' /\ EntryRefs' /\ TableUsers'
  BY <1>1, <1>2, DelTypes, RecordApart, DelOneKey, DelRefs, SameUsers
<1>4. \A t \in Tabs : Users(t) # {} => hash'[t] = hash[t]
  BY <1>1, NewUnused DEF DelEntry, Types, TabTypes
<1>5. SenderHolds'
  BY <1>1, <1>3, <1>4, DelStable, CollectorHolds
<1>6. AsMeant'
  BY <1>3, DelMeant
<1> QED
  BY <1>3, <1>5, <1>6

LEMMA MeidInv ==
  ASSUME RouteInv, NEW m \in Meids, NEW owner \in Eps \cup {Nil}, SetMeid(m, owner)
  PROVE  RouteInv'
<1> USE DEF RouteInv
<1>1. newRt # Nil /\ UNCHANGED <<liveTabs, ctxVars, snd, refCount, hash, refs, groups>>
  BY DEF SetMeid, Record, Arrives
<1>2. UNCHANGED <<rtable, oldRt, drain>>
  BY <1>1 DEF ctxVars
<1>3. Types' /\ TablesApart' /\ TableUsers'
  BY <1>1, <1>2, MeidTypes, RecordApart, SameUsers
<1>4. OneKey' /\ EntryRefs' /\ SenderHolds'
  BY <1>1 DEF OneKey, EntryRefs, Holders, SenderHolds
<1>5. AsMeant'
  BY <1>3, <1>4, MeidMeant
<1> QED
  BY <1>3, <1>4, <1>5

LEMMA LoseInv == ASSUME RouteInv, LoseRecord PROVE RouteInv'
<1> USE DEF RouteInv
<1>1. UNCHANGED <<tabVars, rteVars, ctxVars, snd>>
  BY DEF LoseRecord
<1>2. UNCHANGED <<liveTabs, hash, refs, groups, refCount, rtable, oldRt, drain>>
  BY <1>1 DEF tabVars, rteVars, ctxVars
<1>3. Types' /\ TablesApart' /\ TableUsers'
  BY <1>1, <1>2, LoseTypes, RecordApart, SameUsers
<1>4. OneKey' /\ EntryRefs' /\ SenderHolds'
  BY <1>1, <1>2 DEF OneKey, EntryRefs, Holders, SenderHolds
<1>5. AsMeant'
  BY LoseMeant
<1> QED
  BY <1>3, <1>4, <1>5

LEMMA EndInv == ASSUME RouteInv, NEW counted \in BOOLEAN, EndTable(counted) PROVE RouteInv'
<1> USE DEF RouteInv
<1>1. UNCHANGED <<liveTabs, hash, refs, groups, snd>>
  BY DEF EndTable, tabVars, rteVars
<1>2. Types' /\ TablesApart' /\ TableUsers' /\ AsMeant'
  BY EndTypes, EndApart, EndUsers, EndMeant
<1>3. OneKey' /\ EntryRefs' /\ SenderHolds'
  BY <1>1 DEF OneKey, EntryRefs, Holders, SenderHolds
<1> QED
  BY <1>2, <1>3

LEMMA RefuseInv == ASSUME RouteInv, RefuseTable PROVE RouteInv'
<1> USE DEF RouteInv
<1>1. uta_rt_drop(newRt) /\ newRt # Nil /\ UNCHANGED <<snd, refCount, rtable, oldRt, drain>>
  BY DEF RefuseTable
<1>2. Types' /\ TablesApart' /\ OneKey' /\ EntryRefs' /\ TableUsers'
  BY <1>1, RefuseTypes, RefuseApart, RefuseOneKey, RefuseRefs, SameUsers
<1>3. \A t \in Tabs : Users(t) # {} => hash'[t] = hash[t]
  BY <1>1, NewUnused DEF uta_rt_drop, Types, TabTypes
<1>4. SenderHolds'
  BY <1>1, <1>2, <1>3, DropStable, CollectorHolds
<1>5. AsMeant'
  BY <1>2, RefuseMeant
<1> QED
  BY <1>2, <1>4, <1>5

\* The steps of a sender.
LEMMA SenderInv ==
  ASSUME RouteInv, NEW s \in Senders, GetRt(s) \/ GoOn(s)
  PROVE  RouteInv'
<1> USE DEF RouteInv
<1>1. CASE GetRt(s)
  <2>1. UNCHANGED <<liveTabs, hash, me, err, updates, rteVars, ctxVars, rmVars>>
    BY <1>1 DEF GetRt
  <2> QED
    BY <1>1, <2>1, GetTypes, GetUsers, GetHolds, SenderMeant
<1>2. ASSUME NEW k \in Keys, FindRte(s, k) PROVE RouteInv'
  <2>1. UNCHANGED <<liveTabs, hash, me, err, updates, rteVars, ctxVars, rmVars>>
    BY <1>2 DEF FindRte
  <2> QED
    BY <1>2, <2>1, FindTypes, FindHolds, SenderMeant
<1>3. CASE SendGroup(s)
  <2>1. UNCHANGED <<liveTabs, hash, me, err, updates, rteVars, ctxVars, rmVars>>
    BY <1>3 DEF SendGroup
  <2> QED
    BY <1>3, <2>1, SendTypes, SendHolds, SenderMeant
<1>4. CASE CloneFails(s)
  <2>1. UNCHANGED <<liveTabs, hash, me, err, updates, rteVars, ctxVars, rmVars>>
    BY <1>4 DEF CloneFails
  <2> QED
    BY <1>4, <2>1, CloneTypes, CloneHolds, SenderMeant
<1> QED
  BY <1>1, <1>2, <1>3, <1>4 DEF GoOn

LEMMA StutterInv == ASSUME RouteInv, UNCHANGED vars PROVE RouteInv'
<1> USE DEF RouteInv, vars
<1>1. UNCHANGED <<liveTabs, hash, me, err, updates, rteVars, ctxVars, rmVars>> /\ UNCHANGED <<refCount, snd>>
  BY DEF tabVars
<1>2. Types'
  BY <1>1, SenderLeaves DEF Types, TabTypes, SndTypes
<1>3. TableUsers' /\ SenderHolds'
  BY <1>1 DEF TableUsers, Users, SenderHolds, ctxVars, rteVars
<1> QED
  BY <1>1, <1>2, <1>3, SenderMeant

LEMMA NextInv == RouteInv /\ [Next]_vars => RouteInv'
<1> SUFFICES ASSUME RouteInv, [Next]_vars PROVE RouteInv'
  OBVIOUS
<1>1. CASE Collector
  BY <1>1, StartInv, PrepInv, AddInv, DelInv, MeidInv, LoseInv, EndInv, RefuseInv DEF Collector
<1>2. ASSUME NEW s \in Senders, GetRt(s) \/ GoOn(s) PROVE RouteInv'
  BY <1>2, SenderInv
<1>3. CASE UNCHANGED vars
  BY <1>3, StutterInv
<1> QED
  BY <1>1, <1>2, <1>3 DEF Next

-----------------------------------------------------------------------------
(* What the invariant says *)

LEMMA CountsNat == RouteInv => refs \in [Rtes -> Nat]
<1> SUFFICES ASSUME RouteInv PROVE refs \in [Rtes -> Nat]
  OBVIOUS
<1>1. \A r \in Rtes : refs[r] \in Nat
  BY FS_CardinalityType DEF RouteInv, EntryRefs
<1> QED
  BY <1>1 DEF RouteInv, Types, RteTypes

\* Every variable keeps its type, for every size of the system, and no counter of
\* users or of references goes below zero.
THEOREM TypeCorrect == Spec => []TypeOK
<1>1. RouteInv => TypeOK
  <2> SUFFICES ASSUME RouteInv PROVE TypeOK
    OBVIOUS
  <2>1. refs \in [Rtes -> Nat]
    BY CountsNat
  <2> QED
    BY <2>1, Zenon DEF RouteInv, Types, TabTypes, RteTypes, CtxTypes, FlagTypes, SndTypes, RmTypes, TypeOK
<1> QED
  BY <1>1, InitInv, NextInv, PTL DEF Spec

\* ref_count is exact, nobody is in the table under construction, and every
\* sender in a call is in a table that is allocated: prep_new_rt never clears a
\* table under a sender, whatever the collector does in between.
THEOREM TablesAreCounted == Spec => []TablesInUse
<1>1. RouteInv => TablesInUse
  <2> SUFFICES ASSUME RouteInv PROVE TablesInUse
    OBVIOUS
  <2> USE DEF RouteInv
  <2>1. newRt # Nil => Users(newRt) = {}
    BY NewUnused
  <2>2. \A s \in Senders : snd[s].pc # "idle" =>
           snd[s].rt \in liveTabs /\ snd[s].rt \in {rtable, oldRt, drain}
    BY UsedIsLive DEF TableUsers
  <2> QED
    BY <2>1, <2>2 DEF TableUsers, TablesInUse
<1> QED
  BY <1>1, InitInv, NextInv, PTL DEF Spec

\* refs is exactly the number of tables that hold the entry, over clones, drops,
\* refusals, replacements and deletions: no entry is freed too early and none leaks.
THEOREM EntriesAreCounted == Spec => []EntriesCounted
<1>1. RouteInv => EntriesCounted
  BY DEF RouteInv, EntryRefs, TablesApart, EntriesCounted
<1> QED
  BY <1>1, InitInv, NextInv, PTL DEF Spec

\* The entry that a sender has looked up stays allocated and lists the same groups
\* until it releases its table, for any number of senders and of table changes.
THEOREM EntryIsStable == Spec => []EntryStable
<1>1. RouteInv => EntryStable
  <2> SUFFICES ASSUME RouteInv, NEW s \in Senders, snd[s].pc = "send"
               PROVE  refs[snd[s].rte] > 0 /\ groups[snd[s].rte] = snd[s].listed
    BY DEF EntryStable
  <2> USE DEF RouteInv
  <2>1. snd[s].rt \in liveTabs
    BY UsedIsLive
  <2>2. snd[s].rte \in Entries(hash[snd[s].rt]) /\ groups[snd[s].rte] = snd[s].listed
    BY DEF SenderHolds
  <2> QED
    BY <2>1, <2>2, HeldLists
<1> QED
  BY <1>1, InitInv, NextInv, PTL DEF Spec

\* The active table routes as the tables the route manager has described and got
\* acknowledged, in every space where no loss is left unrepaired: failed clones,
\* refused, dropped and unfinished tables, and losses that a count reveals, never
\* make it differ; a loss of entries without a count (or a table in error that is
\* acknowledged) no longer does after the next complete newrt, and never does to the
\* other space.
THEOREM ActiveIsAsMeant == Spec => []ActiveAsMeant
<1>1. RouteInv => ActiveAsMeant
  BY DEF RouteInv, AsMeant, Agrees, ContentOf, ActiveAsMeant
<1> QED
  BY <1>1, InitInv, NextInv, PTL DEF Spec

=============================================================================
