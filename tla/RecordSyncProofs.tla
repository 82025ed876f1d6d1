--------------------------- MODULE RecordSyncProofs ---------------------------
(***************************************************************************)
(* What the record_sync run checks of the pull cursor and of where the      *)
(* passes lead, with two devices and two records, proved for any number of  *)
(* them, any horizon and any number of failures: first the type of every    *)
(* variable, then that no interleaving of passes, user actions, failures    *)
(* and landing writes leaves something below the cursor, where the          *)
(* invariant says what a pass half way through knows of its device and of   *)
(* the remote side; then the merge on its own; last that devices left in    *)
(* peace agree, and on what.                                                *)
(***************************************************************************)
EXTENDS RecordSettle, FiniteSetTheorems, WellFoundedInduction, TLAPS

-----------------------------------------------------------------------------
(***************************************************************************)
(* Numbers, partial functions and the plan.                                 *)
(***************************************************************************)

(* A finite set of numbers has a greatest one.  The set of the numbers      *)
(* above a member shrinks as the member grows, and a strict subset ordering *)
(* on finite sets is well founded.                                          *)
LEMMA MaxOfIsGreatest ==
  ASSUME NEW S \in SUBSET Nat, IsFiniteSet(S), S # {}
  PROVE  MaxOf(S) \in S /\ \A n \in S : n <= MaxOf(S)
<1> DEFINE Above(m) == {n \in S : n > m}
           T == {Above(m) : m \in S}
           R == StrictSubsetOrdering(S)
<1>1. T \subseteq FiniteSubsetsOf(S)
  BY FS_Subset DEF FiniteSubsetsOf
<1>2. T # {}
  OBVIOUS
<1>3. IsWellFoundedOn(R, FiniteSubsetsOf(S))
  BY FS_StrictSubsetOrderingWellFounded
<1>4. PICK A \in T : \A B \in T : ~(<<B, A>> \in R)
  <2> HIDE DEF T, R
  <2> QED BY <1>1, <1>2, <1>3, WFMin
<1>5. PICK m \in S : A = Above(m)
  OBVIOUS
<1>6. \A n \in S : n <= m
  <2> SUFFICES ASSUME NEW n \in S, n > m PROVE FALSE
    OBVIOUS
  <2>1. Above(n) \in T
    OBVIOUS
  <2>3. Above(n) \subseteq A
    <3> SUFFICES ASSUME NEW k \in S, k > n PROVE k > m
      BY <1>5
    <3> QED OBVIOUS
  <2>2. n \in A /\ n \notin Above(n)
    BY <1>5
  <2>4. <<Above(n), A>> \in R
    BY <2>2, <2>3, <1>5 DEF StrictSubsetOrdering
  <2> QED BY <2>1, <2>4, <1>4
<1> QED BY <1>6 DEF MaxOf

LEMMA StampIsNat == Stamp \subseteq Nat /\ IsFiniteSet(Stamp) /\ 0 \in Stamp
<1>1. MaxTime + MaxSkew \in Nat /\ 0 \in Int
  BY RecordSyncAssumptions
<1> QED BY <1>1, FS_Interval DEF Stamp

LEMMA MaxOfStamps ==
  ASSUME NEW S \in SUBSET Stamp
  PROVE  MaxOf(S) \in Stamp /\ \A n \in S : n <= MaxOf(S)
<1>1. CASE S = {}
  BY <1>1, StampIsNat DEF MaxOf
<1>2. CASE S # {}
  BY <1>2, StampIsNat, FS_Subset, MaxOfIsGreatest
<1> QED BY <1>1, <1>2

(* No element of S above the bound: neither is the maximum.                 *)
LEMMA MaxOfBelow ==
  ASSUME NEW S \in SUBSET Stamp, NEW b \in Nat, \A n \in S : n <= b
  PROVE  MaxOf(S) <= b
<1>1. CASE S = {}
  BY <1>1 DEF MaxOf
<1>2. CASE S # {}
  BY <1>2, StampIsNat, FS_Subset, MaxOfIsGreatest
<1> QED BY <1>1, <1>2

(* What a partial function is.                                              *)
LEMMA PartialIs ==
  ASSUME NEW V, NEW f
  PROVE  f \in Partial(V) <=> /\ DOMAIN f \subseteq Id
                              /\ f \in [DOMAIN f -> V]
BY DEF Partial

LEMMA ValuesIn ==
  ASSUME NEW V, NEW f \in Partial(V), NEW i \in DOMAIN f
  PROVE  f[i] \in V /\ i \in Id
BY PartialIs

LEMMA PutIs ==
  ASSUME NEW f, NEW g
  PROVE  /\ DOMAIN Put(f, g) = DOMAIN f \cup DOMAIN g
         /\ \A i \in DOMAIN g : Put(f, g)[i] = g[i]
         /\ \A i \in DOMAIN f \ DOMAIN g : Put(f, g)[i] = f[i]
BY DEF Put

LEMMA WithoutIs ==
  ASSUME NEW f, NEW S
  PROVE  /\ DOMAIN Without(f, S) = DOMAIN f \ S
         /\ \A i \in DOMAIN f \ S : Without(f, S)[i] = f[i]
BY DEF Without

LEMMA OnlyIs ==
  ASSUME NEW f, NEW S
  PROVE  /\ DOMAIN Only(f, S) = DOMAIN f \cap S
         /\ \A i \in DOMAIN f \cap S : Only(f, S)[i] = f[i]
BY DEF Only

LEMMA PartialOps ==
  ASSUME NEW V
  PROVE  /\ \A f, g \in Partial(V) : Put(f, g) \in Partial(V)
         /\ \A f \in Partial(V) : \A S : Without(f, S) \in Partial(V)
         /\ \A f \in Partial(V) : \A S : Only(f, S) \in Partial(V)
         /\ \A i \in Id, v \in V : [j \in {i} |-> v] \in Partial(V)
         /\ Empty \in Partial(V)
<1>1. \A f, g \in Partial(V) : Put(f, g) \in Partial(V)
  <2> TAKE f, g \in Partial(V)
  <2>1. DOMAIN Put(f, g) \subseteq Id
    BY PartialIs DEF Put
  <2>2. Put(f, g) \in [DOMAIN Put(f, g) -> V]
    BY PartialIs DEF Put
  <2> QED BY <2>1, <2>2, PartialIs
<1>2. \A f \in Partial(V) : \A S : Without(f, S) \in Partial(V)
  <2> TAKE f \in Partial(V)
  <2> TAKE S
  <2>1. DOMAIN Without(f, S) \subseteq Id /\ Without(f, S) \in [DOMAIN Without(f, S) -> V]
    BY PartialIs DEF Without
  <2> QED BY <2>1, PartialIs
<1>3. \A f \in Partial(V) : \A S : Only(f, S) \in Partial(V)
  <2> TAKE f \in Partial(V)
  <2> TAKE S
  <2>1. DOMAIN Only(f, S) \subseteq Id /\ Only(f, S) \in [DOMAIN Only(f, S) -> V]
    BY PartialIs DEF Only
  <2> QED BY <2>1, PartialIs
<1>4. \A i \in Id, v \in V : [j \in {i} |-> v] \in Partial(V)
  <2> TAKE i \in Id, v \in V
  <2>1. DOMAIN [j \in {i} |-> v] = {i} /\ [j \in {i} |-> v] \in [{i} -> V]
    OBVIOUS
  <2> QED BY <2>1, PartialIs
<1>5. Empty \in Partial(V)
  BY DEF Partial, Empty
<1> QED BY <1>1, <1>2, <1>3, <1>4, <1>5

(* The plan of a pass, list by list, when no account-wide deletion is at     *)
(* work: syncEditableCollection passes none.                                *)
LEMMA PlanIs ==
  ASSUME NEW local, NEW list, NEW docs, NEW at, NEW window, NEW plan,
         plan = mergeRecords(local, list, docs, at, Empty, window)
  PROVE  /\ plan.pushUpserts =
              {i \in DOMAIN local : IF i \in DOMAIN docs THEN local[i] > docs[i].at
                                    ELSE InWindow(window, local[i])}
         /\ plan.deleteLocal =
              {i \in DOMAIN local \cap DOMAIN docs :
                    docs[i].deleted /\ ~(local[i] > docs[i].at)}
         /\ plan.pullUpserts =
              {i \in DOMAIN docs :
                    /\ ~docs[i].deleted
                    /\ i \in DOMAIN local => docs[i].at > local[i]
                    /\ i \in Buried(local, list, at) => docs[i].at > list[i]}
         /\ plan.pushTombstones =
              {i \in Buried(local, list, at) :
                    IF i \in DOMAIN docs THEN ~docs[i].deleted /\ ~(docs[i].at > list[i])
                    ELSE ~window.full}
         /\ plan.purgeRemote \subseteq DOMAIN docs
         /\ Buried(local, list, at) \subseteq DOMAIN list \ DOMAIN local
<1>1. Stale(local, docs, Empty) = {}
  BY DEF Stale, Empty
<1> QED
  BY <1>1 DEF mergeRecords, Buried, EditedElsewhere, Live, Dead, Beaten, Resurrected

LEMMA PlanWithin ==
  ASSUME NEW local, NEW list, NEW docs, NEW at, NEW window, NEW plan,
         plan = mergeRecords(local, list, docs, at, Empty, window)
  PROVE  /\ plan.pushUpserts \subseteq DOMAIN local
         /\ plan.pushTombstones \subseteq DOMAIN list
         /\ plan.pullUpserts \subseteq DOMAIN docs
         /\ plan.deleteLocal \subseteq DOMAIN docs
         /\ plan.purgeRemote \subseteq DOMAIN docs
<1>1. Stale(local, docs, Empty) = {}
  BY DEF Stale, Empty
<1> QED
  BY <1>1 DEF mergeRecords, Buried, EditedElsewhere, Live, Dead, Beaten

-----------------------------------------------------------------------------
(***************************************************************************)
(* TypeOK.                                                                  *)
(***************************************************************************)

LEMMA ClockIsStamp ==
  ASSUME TypeOK, NEW d \in Device
  PROVE  Clock(d) \in Stamp
BY RecordSyncAssumptions DEF TypeOK, Clock, Stamp

LEMMA PassIs ==
  ASSUME TypeOK, NEW t \in Tab
  PROVE  /\ pass[t].step = "fetch" => pass[t] \in Fetching
         /\ pass[t].step = "rows" => pass[t] \in Reading
         /\ pass[t].step = "tombs" => pass[t] \in Merging
         /\ pass[t].step = "apply" => pass[t] \in Applying
         /\ pass[t] # Idle => pass[t].step \in {"fetch", "rows", "tombs", "apply"}
         /\ HomeOf[t] \in Device
BY RecordSyncAssumptions DEF TypeOK, Idle, Fetching, Reading, Merging, Applying

LEMMA StampsOf ==
  ASSUME NEW docs \in Partial(Doc)
  PROVE  Stamps(docs) \in SUBSET Stamp
<1>1. \A i \in DOMAIN docs : docs[i] \in Doc
  BY ValuesIn
<1> QED BY <1>1 DEF Stamps, Doc

LEMMA InitTyped == Init => TypeOK
<1> SUFFICES ASSUME Init PROVE TypeOK
  OBVIOUS
<1>1. 0 \in Stamp /\ Shared \subseteq Id /\ 1 \in 1..MaxTime /\ 0 \in 0..MaxFaults
  BY RecordSyncAssumptions, StampIsNat
<1>2. [i \in Shared |-> 0] \in Partial(Stamp)
  BY <1>1, PartialIs
<1>3. [i \in Shared |-> [at |-> 0, deleted |-> FALSE]] \in Partial(Doc)
  <2>1. [at |-> 0, deleted |-> FALSE] \in Doc
    BY <1>1 DEF Doc
  <2>2. DOMAIN [i \in Shared |-> [at |-> 0, deleted |-> FALSE]] = Shared
    OBVIOUS
  <2> QED BY <1>1, <2>1, <2>2, PartialIs
<1>4. Empty \in Partial(Stamp)
  BY PartialOps
<1>5. [high |-> 0, fullAt |-> 0] \in Cursor
  BY <1>1 DEF Cursor
<1> QED BY <1>1, <1>2, <1>3, <1>4, <1>5 DEF Init, TypeOK

LEMMA UserTyped ==
  ASSUME TypeOK, NEW d \in Device, NEW i \in Id, Edit(d, i) \/ DeleteInTransaction(d, i)
  PROVE  TypeOK'
<1>1. now + 1 \in 1..MaxTime
  BY RecordSyncAssumptions DEF TypeOK, Edit, DeleteInTransaction
<1>2. [j \in {i} |-> Clock(d)] \in Partial(Stamp)
  BY ClockIsStamp, PartialOps
<1>3. CASE Edit(d, i)
  BY <1>1, <1>2, <1>3, PartialOps DEF TypeOK, Edit
<1>4. CASE DeleteInTransaction(d, i)
  BY <1>1, <1>2, <1>4, PartialOps DEF TypeOK, DeleteInTransaction
<1> QED BY <1>3, <1>4

LEMMA DeleteRowTyped ==
  ASSUME TypeOK, NEW t \in Tab, NEW i \in Id, DeleteRow(t, i)
  PROVE  TypeOK'
<1> DEFINE d == HomeOf[t]
<1>1. d \in Device
  BY PassIs
<1>2. [j \in {i} |-> Clock(d)] \in Partial(Stamp)
  BY <1>1, ClockIsStamp, PartialOps
<1>3. [step |-> "read", id |-> i] \in Deleting
  BY DEF Deleting
<1>4. /\ rows' \in [Device -> Partial(Stamp)]
      /\ removed' \in [Device -> Partial(Stamp)]
      /\ deletion' \in [Tab -> {NoDeletion} \cup Deleting]
  BY <1>1, <1>2, <1>3, PartialOps DEF TypeOK, DeleteRow
<1> QED BY <1>4 DEF TypeOK, DeleteRow

LEMMA ListTyped ==
  ASSUME TypeOK, NEW t \in Tab, ReadTombstoneList(t) \/ PutTombstoneList(t)
  PROVE  TypeOK'
<1> DEFINE d == HomeOf[t]
<1>1. d \in Device
  BY PassIs
<1>2. CASE ReadTombstoneList(t)
  <2>1. deletion[t].id \in Id
    BY <1>2 DEF TypeOK, Deleting, NoDeletion, ReadTombstoneList
  <2>2. [j \in {deletion[t].id} |-> Clock(d)] \in Partial(Stamp)
    BY <1>1, <2>1, ClockIsStamp, PartialOps
  <2>3. Put(tombs[d], [j \in {deletion[t].id} |-> Clock(d)]) \in Partial(Stamp)
    BY <1>1, <2>2, PartialOps DEF TypeOK
  <2>4. [step |-> "put", list |-> Put(tombs[d], [j \in {deletion[t].id} |-> Clock(d)])]
            \in Deleting
    BY <2>3 DEF Deleting
  <2>5. deletion' \in [Tab -> {NoDeletion} \cup Deleting]
    BY <1>2, <2>4 DEF TypeOK, ReadTombstoneList
  <2>6. now' \in 1..MaxTime
    BY <1>2, RecordSyncAssumptions DEF TypeOK, ReadTombstoneList
  <2> QED BY <1>2, <2>5, <2>6 DEF TypeOK, ReadTombstoneList
<1>3. CASE PutTombstoneList(t)
  <2>1. deletion[t].list \in Partial(Stamp)
    BY <1>3 DEF TypeOK, Deleting, NoDeletion, PutTombstoneList
  <2> QED BY <1>1, <1>3, <2>1 DEF TypeOK, PutTombstoneList
<1> QED BY <1>2, <1>3

LEMMA WindowTyped ==
  ASSUME NEW p \in Fetching
  PROVE  WindowOf(p) \in Window /\ FullRead \in Window
BY StampIsNat DEF WindowOf, FullRead, SinceRead, Window, Fetching, Cursor

LEMMA NextCursorTyped ==
  ASSUME NEW p \in Fetching, NEW window \in {WindowOf(p), FullRead},
         NEW docs \in Partial(Doc)
  PROVE  NextCursor(window, docs, p.read, p.at) \in Cursor
<1>1. window \in Window /\ p.at \in Stamp
  BY WindowTyped DEF Fetching
<1>2. MaxOf(Stamps(docs)) \in Stamp /\ MaxOf(Stamps(docs) \cup {window.since}) \in Stamp
  BY <1>1, StampsOf, MaxOfStamps DEF Window
<1>3. ~window.full => p.read.fullAt \in Stamp
  BY DEF WindowOf, FullRead, Fetching, Cursor
<1> QED BY <1>1, <1>2, <1>3 DEF NextCursor, Cursor

LEMMA FetchTyped ==
  ASSUME TypeOK, NEW t \in Tab, Fetch(t)
  PROVE  TypeOK'
<1> DEFINE d == HomeOf[t]
           p == pass[t]
<1>1. d \in Device /\ p \in Fetching
  BY PassIs DEF Fetch
<1>2. observed' \in [Device -> Stamp]
  <2>1. Stamps(remote) \cup {observed[d]} \in SUBSET Stamp
    BY <1>1, StampsOf DEF TypeOK
  <2>2. MaxOf(Stamps(remote) \cup {observed[d]}) \in Stamp
    BY <2>1, MaxOfStamps
  <2> QED BY <2>2 DEF Fetch, TypeOK
<1>3. PICK window \in {WindowOf(p), FullRead} :
        pass' = [pass EXCEPT ![t] =
            [step   |-> "rows",
             at     |-> p.at,
             window |-> window,
             docs   |-> Fetched(window),
             next   |-> NextCursor(window, Fetched(window), p.read, p.at),
             caught |-> Only(Fetched(window), backdated[d])]]
  BY DEF Fetch
<1>4. Fetched(window) \in Partial(Doc) /\ Only(Fetched(window), backdated[d]) \in Partial(Doc)
  BY PartialOps DEF Fetched, TypeOK
<1>5. pass'[t] \in Reading
  BY <1>1, <1>3, <1>4, WindowTyped, NextCursorTyped DEF Reading, TypeOK, Fetching
<1>6. pass' \in [Tab -> {Idle} \cup Fetching \cup Reading \cup Merging \cup Applying]
  BY <1>3, <1>5 DEF TypeOK
<1> QED BY <1>2, <1>6 DEF TypeOK, Fetch

LEMMA ReadsTyped ==
  ASSUME TypeOK, NEW t \in Tab, BeginPass(t) \/ ReadRows(t)
  PROVE  TypeOK'
<1>1. CASE BeginPass(t)
  <2>1. [step |-> "fetch", at |-> Clock(HomeOf[t]), read |-> cursor[HomeOf[t]]] \in Fetching
    BY PassIs, ClockIsStamp DEF Fetching, TypeOK
  <2> QED BY <1>1, <2>1 DEF TypeOK, BeginPass
<1>2. CASE ReadRows(t)
  <2> DEFINE p == pass[t]
  <2>1. [step |-> "tombs", at |-> p.at, window |-> p.window, docs |-> p.docs,
         next |-> p.next, caught |-> p.caught, local |-> rows[HomeOf[t]]] \in Merging
    BY <1>2, PassIs DEF Reading, Merging, TypeOK, ReadRows
  <2> QED BY <1>2, <2>1 DEF TypeOK, ReadRows
<1> QED BY <1>1, <1>2

(* Everything a pass hands to its writes.                                   *)
LEMMA PlanTyped ==
  ASSUME NEW local \in Partial(Stamp), NEW list \in Partial(Stamp), NEW docs \in Partial(Doc),
         NEW at, NEW window, NEW plan,
         plan = mergeRecords(local, list, docs, at, Empty, window)
  PROVE  /\ RemoteWrites(local, list, plan) \in SUBSET Write
         /\ Pulled(docs, plan) \in Partial(Stamp)
         /\ plan.deleteLocal \in SUBSET Id
         /\ NextTombstones(list, docs, plan) \in Partial(Stamp) \cup {None}
<1>1. /\ plan.pushUpserts \subseteq DOMAIN local /\ plan.pushTombstones \subseteq DOMAIN list
      /\ plan.purgeRemote \subseteq DOMAIN docs /\ plan.deleteLocal \subseteq DOMAIN docs
      /\ plan.pullUpserts \subseteq DOMAIN docs
  BY PlanWithin
<1>2. \A i \in DOMAIN docs : docs[i].at \in Stamp /\ i \in Id
  <2>1. \A i \in DOMAIN docs : docs[i] \in Doc /\ i \in Id
    BY ValuesIn
  <2> QED BY <2>1 DEF Doc
<1>3. \A i \in DOMAIN local : local[i] \in Stamp /\ i \in Id
  BY ValuesIn
<1>4. \A i \in DOMAIN list : list[i] \in Stamp /\ i \in Id
  BY ValuesIn
<1>5. RemoteWrites(local, list, plan) \in SUBSET Write
  <2>1. \A i \in Id, s \in Stamp, b \in BOOLEAN : SetDoc(i, s, b) \in Write
    BY DEF SetDoc, Write, Doc
  <2>2. \A i \in Id : DeleteDoc(i) \in Write
    BY DEF DeleteDoc, Write
  <2>3. \A i \in plan.pushUpserts : SetDoc(i, local[i], FALSE) \in Write
    BY <1>1, <1>3, <2>1
  <2>4. \A i \in plan.pushTombstones : SetDoc(i, list[i], TRUE) \in Write
    BY <1>1, <1>4, <2>1
  <2>5. \A i \in plan.purgeRemote : DeleteDoc(i) \in Write
    BY <1>1, <1>2, <2>2
  <2>6. \A w \in RemoteWrites(local, list, plan) : w \in Write
    BY <2>3, <2>4, <2>5 DEF RemoteWrites
  <2> QED BY <2>6
<1>6. Pulled(docs, plan) \in Partial(Stamp)
  <2>1. plan.pullUpserts \subseteq Id /\ \A i \in plan.pullUpserts : docs[i].at \in Stamp
    BY <1>1, <1>2
  <2>2. [i \in plan.pullUpserts |-> docs[i].at] \in [plan.pullUpserts -> Stamp]
    BY <2>1
  <2> QED BY <2>1, <2>2, PartialIs DEF Pulled
<1>7. NextTombstones(list, docs, plan) \in Partial(Stamp) \cup {None}
  <2> DEFINE learned == [i \in plan.deleteLocal |-> docs[i].at]
             kept == Without(list, plan.clearLocalTombstones \cup plan.pushTombstones)
  <2>0. plan.deleteLocal \subseteq Id /\ \A i \in plan.deleteLocal : docs[i].at \in Stamp
    BY <1>1, <1>2
  <2>1. learned \in [plan.deleteLocal -> Stamp] /\ plan.deleteLocal \subseteq Id
    BY <2>0
  <2>2. learned \in Partial(Stamp)
    BY <2>1, PartialIs
  <2>3. kept \in Partial(Stamp)
    BY PartialOps
  <2>4. Put(kept, learned) \in Partial(Stamp)
    BY <2>2, <2>3, PartialOps
  <2> QED BY <2>4 DEF NextTombstones
<1> QED BY <1>1, <1>2, <1>5, <1>6, <1>7

LEMMA MergeTyped ==
  ASSUME TypeOK, NEW t \in Tab, Merge(t)
  PROVE  TypeOK'
<1> DEFINE d == HomeOf[t]
           p == pass[t]
           plan == mergeRecords(p.local, tombs[d], p.docs, p.at, Empty, p.window)
           writes == RemoteWrites(p.local, tombs[d], plan)
<1>1. d \in Device /\ p \in Merging
  BY PassIs DEF Merge
<1>2. /\ p.local \in Partial(Stamp) /\ tombs[d] \in Partial(Stamp) /\ p.docs \in Partial(Doc)
      /\ p.next \in Cursor /\ p.caught \in Partial(Doc)
  BY <1>1 DEF Merging, TypeOK
<1>3. pass' = [pass EXCEPT ![t] =
            [step   |-> "apply",
             writes |-> writes,
             pulls  |-> Pulled(p.docs, plan),
             drops  |-> plan.deleteLocal,
             list   |-> NextTombstones(tombs[d], p.docs, plan),
             next   |-> p.next,
             caught |-> Without(p.caught, {write.id : write \in writes})]]
  BY DEF Merge
<1> HIDE DEF plan, writes
<1>4. plan = mergeRecords(p.local, tombs[d], p.docs, p.at, Empty, p.window)
      /\ writes = RemoteWrites(p.local, tombs[d], plan)
  BY DEF plan, writes
<1>5. /\ writes \in SUBSET Write /\ Pulled(p.docs, plan) \in Partial(Stamp)
      /\ plan.deleteLocal \in SUBSET Id
      /\ NextTombstones(tombs[d], p.docs, plan) \in Partial(Stamp) \cup {None}
  BY <1>2, <1>4, PlanTyped
<1>6. Without(p.caught, {write.id : write \in writes}) \in Partial(Doc)
  BY <1>2, PartialOps
<1>7. pass'[t] \in Applying
  BY <1>2, <1>3, <1>5, <1>6 DEF Applying, TypeOK
<1>8. pass' \in [Tab -> {Idle} \cup Fetching \cup Reading \cup Merging \cup Applying]
  BY <1>3, <1>7 DEF TypeOK
<1> QED BY <1>8 DEF TypeOK, Merge

LEMMA LandTyped ==
  ASSUME TypeOK, NEW write \in Write, Land(write)
  PROVE  remote' \in Partial(Doc) /\ backdated' \in [Device -> SUBSET Id]
<1>1. backdated' \in [Device -> SUBSET Id]
  BY DEF Land, Write, TypeOK
<1>2. write.doc # None => [i \in {write.id} |-> write.doc] \in Partial(Doc)
  BY PartialOps DEF Write
<1>3. remote' \in Partial(Doc)
  BY <1>2, PartialOps DEF Land, Landed, TypeOK
<1> QED BY <1>1, <1>3

(* Writes handed to the pool, landing or failing.                           *)
LEMMA WritesTyped ==
  ASSUME TypeOK, NEW t \in Tab, Push(t) \/ StrayLands(t) \/ StrayFails(t)
  PROVE  TypeOK'
<1>1. CASE Push(t)
  <2>1. pass[t] \in Applying
    BY <1>1, PassIs DEF Push
  <2>2. PICK write \in pass[t].writes : Land(write)
                /\ pass' = [pass EXCEPT ![t].writes = @ \ {write}]
    BY <1>1 DEF Push
  <2>3. remote' \in Partial(Doc) /\ backdated' \in [Device -> SUBSET Id]
    BY <2>1, <2>2, LandTyped DEF Applying
  <2>4. pass'[t] \in Applying
    BY <2>1, <2>2 DEF Applying, TypeOK
  <2>5. pass' \in [Tab -> {Idle} \cup Fetching \cup Reading \cup Merging \cup Applying]
    BY <2>2, <2>4 DEF TypeOK
  <2> QED BY <1>1, <2>3, <2>5 DEF TypeOK, Push
<1>2. CASE StrayLands(t)
  <2>1. PICK write \in stray[t] : Land(write) /\ stray' = [stray EXCEPT ![t] = @ \ {write}]
    BY <1>2 DEF StrayLands
  <2>2. remote' \in Partial(Doc) /\ backdated' \in [Device -> SUBSET Id]
    BY <2>1, LandTyped DEF TypeOK
  <2> QED BY <1>2, <2>1, <2>2 DEF TypeOK, StrayLands
<1>3. CASE StrayFails(t)
  BY <1>3 DEF TypeOK, StrayFails
<1> QED BY <1>1, <1>2, <1>3

LEMMA PutPullsTyped ==
  ASSUME TypeOK, NEW t \in Tab, PutPulls(t)
  PROVE  TypeOK'
<1>1. pass[t] \in Applying /\ HomeOf[t] \in Device
  BY PassIs DEF PutPulls, Pushed
<1>2. Put(rows[HomeOf[t]], pass[t].pulls) \in Partial(Stamp)
      /\ Without(removed[HomeOf[t]], DOMAIN pass[t].pulls) \in Partial(Stamp)
  BY <1>1, PartialOps DEF TypeOK, Applying
<1>3. pass'[t] \in Applying
  <2>1. pass' = [pass EXCEPT ![t].pulls = Empty] /\ Empty \in Partial(Stamp)
    BY PartialOps DEF PutPulls
  <2> QED BY <1>1, <2>1 DEF Applying, TypeOK
<1>4. pass' \in [Tab -> {Idle} \cup Fetching \cup Reading \cup Merging \cup Applying]
  BY <1>3 DEF TypeOK, PutPulls
<1> QED BY <1>2, <1>4 DEF TypeOK, PutPulls

LEMMA AppliesTyped ==
  ASSUME TypeOK, NEW t \in Tab, DropRows(t) \/ WriteTombstones(t) \/ WriteCursor(t)
  PROVE  TypeOK'
<1>1. pass[t] \in Applying /\ HomeOf[t] \in Device
  BY PassIs DEF DropRows, WriteTombstones, WriteCursor, Pushed
<1>2. CASE DropRows(t)
  <2>1. pass'[t] \in Applying
    BY <1>1, <1>2 DEF Applying, TypeOK, DropRows
  <2>2. pass' \in [Tab -> {Idle} \cup Fetching \cup Reading \cup Merging \cup Applying]
    BY <1>2, <2>1 DEF TypeOK, DropRows
  <2>3. rows' \in [Device -> Partial(Stamp)]
    BY <1>1, <1>2, PartialOps DEF TypeOK, DropRows
  <2> QED BY <1>2, <2>2, <2>3 DEF TypeOK, DropRows
<1>3. CASE WriteTombstones(t)
  <2>1. pass'[t] \in Applying /\ pass[t].list \in Partial(Stamp)
    BY <1>1, <1>3 DEF Applying, TypeOK, WriteTombstones
  <2>2. pass' \in [Tab -> {Idle} \cup Fetching \cup Reading \cup Merging \cup Applying]
    BY <1>3, <2>1 DEF TypeOK, WriteTombstones
  <2> QED BY <1>3, <2>1, <2>2 DEF TypeOK, WriteTombstones
<1>4. CASE WriteCursor(t)
  BY <1>1, <1>4 DEF TypeOK, WriteCursor, Applying
<1> QED BY <1>2, <1>3, <1>4

LEMMA FaultTyped ==
  ASSUME TypeOK, NEW t \in Tab, PassFails(t) \/ Crash(t)
  PROVE  TypeOK'
<1>1. CASE PassFails(t)
  <2>1. pass[t].step = "apply" => pass[t].writes \in SUBSET Write
    BY PassIs DEF Applying
  <2>2. stray' \in [Tab -> SUBSET Write]
    BY <1>1, <2>1 DEF TypeOK, PassFails
  <2>3. faults' \in 0..MaxFaults
    BY <1>1, RecordSyncAssumptions DEF TypeOK, PassFails
  <2> QED BY <1>1, <2>2, <2>3 DEF TypeOK, PassFails
<1>2. CASE Crash(t)
  <2>1. faults' \in 0..MaxFaults
    BY <1>2, RecordSyncAssumptions DEF TypeOK, Crash
  <2> QED BY <1>2, <2>1 DEF TypeOK, Crash
<1> QED BY <1>1, <1>2

LEMMA StepTyped == TypeOK /\ [Next]_vars => TypeOK'
<1> SUFFICES ASSUME TypeOK, [Next]_vars PROVE TypeOK'
  OBVIOUS
<1>1. ASSUME NEW d \in Device, NEW i \in Id, Edit(d, i) \/ DeleteInTransaction(d, i)
      PROVE  TypeOK'
  BY <1>1, UserTyped
<1>2. ASSUME NEW t \in Tab, NEW i \in Id, DeleteRow(t, i)
      PROVE  TypeOK'
  BY <1>2, DeleteRowTyped
<1>3. ASSUME NEW t \in Tab, ReadTombstoneList(t) \/ PutTombstoneList(t)
      PROVE  TypeOK'
  BY <1>3, ListTyped
<1>4. ASSUME NEW t \in Tab,
             BeginPass(t) \/ Fetch(t) \/ ReadRows(t) \/ Merge(t)
      PROVE  TypeOK'
  BY <1>4, ReadsTyped, FetchTyped, MergeTyped
<1>5. ASSUME NEW t \in Tab,
             \/ Push(t) \/ PutPulls(t) \/ DropRows(t) \/ WriteTombstones(t) \/ WriteCursor(t)
      PROVE  TypeOK'
  BY <1>5, WritesTyped, PutPullsTyped, AppliesTyped
<1>6. ASSUME NEW t \in Tab, PassFails(t) \/ StrayLands(t) \/ StrayFails(t) \/ Crash(t)
      PROVE  TypeOK'
  BY <1>6, FaultTyped, WritesTyped
<1>7. CASE Tick
  BY <1>7, RecordSyncAssumptions DEF TypeOK, Tick
<1>8. CASE UNCHANGED vars
  BY <1>8 DEF vars, TypeOK
<1> QED BY <1>1, <1>2, <1>3, <1>4, <1>5, <1>6, <1>7, <1>8 DEF Next

(* Every stamp a device, the remote side or a pass holds, however many      *)
(* devices, tabs and records there are and however far the clocks are       *)
(* apart, is one some device's clock gave.                                  *)
THEOREM TypeCorrect == Spec => []TypeOK
<1> QED BY InitTyped, StepTyped, PTL DEF Spec

-----------------------------------------------------------------------------
(***************************************************************************)
(* The pull cursor, under two hypotheses the code itself makes: it compares *)
(* the updatedAt stamps of different devices, so their clocks agree; and a  *)
(* pass does not reckon with another tab's pass on the same store.  Without *)
(* either the two properties fail.                                          *)
(***************************************************************************)

ClocksAgree == \A d, e \in Device : Skew[d] = Skew[e]
OneTabEach == \A t, u \in Tab : HomeOf[t] = HomeOf[u] => t = u

(* Every stamp in use is one the clocks have passed: what the user does     *)
(* next is newer than all of them.                                          *)
Past(s, n) == s \in Nat /\ \A d \in Device : s < n + Skew[d]

PastValues(f, n) == \A i \in DOMAIN f : Past(f[i], n)
PastDocs(f, n) == \A i \in DOMAIN f : Past(f[i].at, n)
PastWrites(W, n) == \A w \in W : w.doc # None => Past(w.doc.at, n)

PassPast(p, n) ==
    /\ p.step \in {"rows", "tombs"} => PastDocs(p.docs, n)
    /\ p.step = "tombs" => PastValues(p.local, n)
    /\ p.step = "apply" => /\ PastWrites(p.writes, n) /\ PastValues(p.pulls, n)
                           /\ p.list # None => PastValues(p.list, n)

DevicePast(d) == PastValues(rows[d], now) /\ PastValues(tombs[d], now) /\ Past(observed[d], now)

TabPast(t) ==
    /\ PassPast(pass[t], now) /\ PastWrites(stray[t], now)
    /\ deletion[t].step = "put" => PastValues(deletion[t].list, now)

EverythingPast ==
    /\ \A d \in Device : DevicePast(d)
    /\ PastDocs(remote, now)
    /\ \A t \in Tab : TabPast(t)

(* A cursor, stored or about to be, never passes what the device has read.  *)
CursorSeen(c, seen) == c # None => c.high <= seen

PassSeen(p, seen) ==
    /\ p.step = "fetch" => CursorSeen(p.read, seen)
    /\ p.step \in {"rows", "tombs", "apply"} => CursorSeen(p.next, seen)

CursorsSeen ==
    /\ \A d \in Device : CursorSeen(cursor[d], observed[d])
    /\ \A t \in Tab : PassSeen(pass[t], observed[HomeOf[t]])

(* A window starts at the cursor the device still has.                      *)
PassWindow(p, c) ==
    /\ p.step = "fetch" => p.read = c
    /\ p.step \in {"rows", "tombs"} /\ ~p.window.full => c # None /\ p.window.since = c.high

WindowsCurrent == \A t \in Tab : PassWindow(pass[t], cursor[HomeOf[t]])

(***************************************************************************)
(* What a pass knows.  Of its device: R the rows, X the removed rows, B the *)
(* backdated docs, o the highest stamp read; D is the remote side now and p *)
(* the pass.                                                                *)
(***************************************************************************)

Twins(f, g, i) == i \in DOMAIN f /\ i \in DOMAIN g /\ f[i] = g[i]

(* Reflected, of a doc.                                                     *)
Shows(R, X, i, doc) ==
    IF doc.deleted
    THEN i \notin DOMAIN R \/ R[i] > doc.at
    ELSE i \in DOMAIN X \/ (i \in DOMAIN R /\ R[i] >= doc.at)

(* The doc is in the next window whatever this pass does, or it is one the  *)
(* windows may miss and this pass does not settle.                          *)
Ahead(D, o, i) == i \in DOMAIN D /\ D[i].at > o
Lost(D, B, p, i) == i \in B /\ ~Twins(p.caught, D, i)

ReadGood(R, X, D, o, B, p) ==
    /\ \A i \in DOMAIN p.caught : Twins(p.caught, p.docs, i)
    /\ \A i \in DOMAIN p.docs : p.docs[i].at <= o
    /\ \A i \in DOMAIN p.docs \cup DOMAIN D :
        \/ Ahead(D, o, i)
        \/ Lost(D, B, p, i)
        \/ Twins(p.docs, D, i)
        \/ /\ i \in DOMAIN D \ DOMAIN p.docs
           /\ Shows(R, X, i, D[i])
           /\ ~InWindow(p.window, D[i].at)

LocalGood(R, X, o, p) ==
    /\ \A i \in DOMAIN R : R[i] > o \/ Twins(R, p.local, i)
    /\ \A i \in DOMAIN p.local : i \in DOMAIN R \/ i \in DOMAIN X

Touches(p, i) == i \in DOMAIN p.pulls \/ i \in p.drops
WritesOn(p, i) == \E w \in p.writes : w.id = i

(* Once the pass has applied what it still has to, the device shows doc.    *)
Outcome(R, X, p, i, doc) ==
    \/ i \in DOMAIN p.pulls /\ ~doc.deleted /\ p.pulls[i] = doc.at
    \/ i \in p.drops /\ doc.deleted
    \/ ~Touches(p, i) /\ Shows(R, X, i, doc)

CaughtGood(R, X, o, p) ==
    \A i \in DOMAIN p.caught :
        /\ p.caught[i].at <= o
        /\ Outcome(R, X, p, i, p.caught[i])
        /\ ~WritesOn(p, i)
        /\ i \in DOMAIN R /\ ~Touches(p, i) => R[i] > o \/ R[i] <= p.caught[i].at

RemoteGood(R, X, D, o, B, p) ==
    \A i \in DOMAIN D :
        \/ Ahead(D, o, i)
        \/ Lost(D, B, p, i)
        \/ Outcome(R, X, p, i, D[i])
        \/ i \notin DOMAIN p.caught /\ ~Touches(p, i) /\ WritesOn(p, i)

RowsGood(R, D, o, B, p) ==
    \A i \in DOMAIN R :
        \/ R[i] > o
        \/ Touches(p, i)
        \/ i \in DOMAIN D /\ D[i].at >= R[i]
        \/ Lost(D, B, p, i)
        \/ SetDoc(i, R[i], FALSE) \in p.writes

PullsGood(D, o, B, p) ==
    \A i \in DOMAIN p.pulls :
        /\ i \in DOMAIN D \/ i \in B
        /\ p.pulls[i] <= o
        /\ i \notin p.drops

ApplyGood(R, X, D, o, B, p) ==
    /\ CaughtGood(R, X, o, p) /\ RemoteGood(R, X, D, o, B, p)
    /\ RowsGood(R, D, o, B, p) /\ PullsGood(D, o, B, p)

PassGood(R, X, D, o, B, p) ==
    /\ p.step \in {"rows", "tombs"} => ReadGood(R, X, D, o, B, p)
    /\ p.step = "tombs" => LocalGood(R, X, o, p)
    /\ p.step = "apply" => ApplyGood(R, X, D, o, B, p)

(* OnlyBackdatedHidden and UnsyncedAboveCursor of a device with cursor c.   *)
NoneHidden(R, X, D, B, c) ==
    \A i \in DOMAIN D :
        \/ Shows(R, X, i, D[i])
        \/ c = None
        \/ D[i].at > c.high
        \/ i \in B

NoneStranded(R, D, B, c) ==
    \A i \in DOMAIN R :
        \/ i \in DOMAIN D /\ D[i].at >= R[i]
        \/ c = None
        \/ R[i] > c.high
        \/ i \in B

StoreGood(d) ==
    /\ NoneHidden(rows[d], removed[d], remote, backdated[d], cursor[d])
    /\ NoneStranded(rows[d], remote, backdated[d], cursor[d])

TabGood(t) ==
    LET d == HomeOf[t]
    IN  PassGood(rows[d], removed[d], remote, observed[d], backdated[d], pass[t])

Knowing == (\A d \in Device : StoreGood(d)) /\ (\A t \in Tab : TabGood(t))

CursorInv == TypeOK /\ EverythingPast /\ CursorsSeen /\ WindowsCurrent /\ Knowing

-----------------------------------------------------------------------------
(***************************************************************************)
(* What each kind of step does to it.                                       *)
(***************************************************************************)

NatValues(f) == \A i \in DOMAIN f : f[i] \in Nat
NatDocs(D) == \A i \in DOMAIN D : D[i].at \in Nat

(* The user writes or deletes one row, with a stamp above what was read.    *)
Rewritten(R, X, R2, X2, i, o) ==
    /\ \A j : j # i => /\ j \in DOMAIN R2 <=> j \in DOMAIN R
                       /\ j \in DOMAIN R => R2[j] = R[j]
                       /\ j \in DOMAIN X2 <=> j \in DOMAIN X
    /\ \/ i \in DOMAIN R2 /\ R2[i] > o
       \/ i \notin DOMAIN R2 /\ i \in DOMAIN X2

LEMMA UserKeepsShows ==
  ASSUME NEW R, NEW X, NEW R2, NEW X2, NEW i, NEW o \in Nat, NatValues(R2),
         Rewritten(R, X, R2, X2, i, o),
         NEW j, NEW doc, doc.at \in Nat, doc.at <= o, Shows(R, X, j, doc)
  PROVE  Shows(R2, X2, j, doc)
<1>1. CASE j = i
  BY <1>1 DEF Rewritten, Shows, NatValues
<1>2. CASE j # i
  BY <1>2 DEF Rewritten, Shows
<1> QED BY <1>1, <1>2

LEMMA UserKeepsPass ==
  ASSUME NEW R, NEW X, NEW R2, NEW X2, NEW i, NEW o \in Nat, NatValues(R2),
         Rewritten(R, X, R2, X2, i, o),
         NEW D, NEW B, NEW p, NatDocs(D), p.step = "apply" => NatDocs(p.caught),
         PassGood(R, X, D, o, B, p)
  PROVE  PassGood(R2, X2, D, o, B, p)
<1>1. ASSUME p.step \in {"rows", "tombs"}, ReadGood(R, X, D, o, B, p)
      PROVE  ReadGood(R2, X2, D, o, B, p)
  <2>1. ASSUME NEW j \in DOMAIN p.docs \cup DOMAIN D
        PROVE  \/ Ahead(D, o, j)
               \/ Lost(D, B, p, j)
               \/ Twins(p.docs, D, j)
               \/ /\ j \in DOMAIN D \ DOMAIN p.docs
                  /\ Shows(R2, X2, j, D[j])
                  /\ ~InWindow(p.window, D[j].at)
    <3>1. CASE Ahead(D, o, j) \/ Lost(D, B, p, j) \/ Twins(p.docs, D, j)
      BY <3>1
    <3>2. CASE ~Ahead(D, o, j) /\ j \in DOMAIN D \ DOMAIN p.docs
                /\ Shows(R, X, j, D[j]) /\ ~InWindow(p.window, D[j].at)
      <4>1. D[j].at \in Nat /\ D[j].at <= o
        BY <3>2 DEF NatDocs, Ahead
      <4>2. Shows(R2, X2, j, D[j])
        BY <3>2, <4>1, UserKeepsShows
      <4> QED BY <3>2, <4>2
    <3> QED BY <1>1, <2>1, <3>1, <3>2 DEF ReadGood
  <2> QED BY <1>1, <2>1 DEF ReadGood
<1>2. ASSUME LocalGood(R, X, o, p)
      PROVE  LocalGood(R2, X2, o, p)
  <2>1. ASSUME NEW j \in DOMAIN R2
        PROVE  R2[j] > o \/ Twins(R2, p.local, j)
    BY <1>2 DEF LocalGood, Rewritten, Twins
  <2>2. ASSUME NEW j \in DOMAIN p.local
        PROVE  j \in DOMAIN R2 \/ j \in DOMAIN X2
    BY <1>2 DEF LocalGood, Rewritten
  <2> QED BY <2>1, <2>2 DEF LocalGood
<1>3. ASSUME p.step = "apply", ApplyGood(R, X, D, o, B, p)
      PROVE  ApplyGood(R2, X2, D, o, B, p)
  <2>1. ASSUME NEW j, NEW doc, doc.at \in Nat, doc.at <= o, Outcome(R, X, p, j, doc)
        PROVE  Outcome(R2, X2, p, j, doc)
    BY <2>1, UserKeepsShows DEF Outcome
  <2>2. CaughtGood(R2, X2, o, p)
    <3> SUFFICES ASSUME NEW j \in DOMAIN p.caught
                 PROVE  /\ p.caught[j].at <= o
                        /\ Outcome(R2, X2, p, j, p.caught[j])
                        /\ ~WritesOn(p, j)
                        /\ j \in DOMAIN R2 /\ ~Touches(p, j) =>
                              R2[j] > o \/ R2[j] <= p.caught[j].at
      BY DEF CaughtGood
    <3>1. /\ p.caught[j].at <= o /\ p.caught[j].at \in Nat
          /\ Outcome(R, X, p, j, p.caught[j])
          /\ ~WritesOn(p, j)
          /\ j \in DOMAIN R /\ ~Touches(p, j) => R[j] > o \/ R[j] <= p.caught[j].at
      BY <1>3 DEF ApplyGood, CaughtGood, NatDocs
    <3>2. Outcome(R2, X2, p, j, p.caught[j])
      BY <2>1, <3>1
    <3> QED BY <3>1, <3>2 DEF Rewritten
  <2>3. RemoteGood(R2, X2, D, o, B, p)
    <3> SUFFICES ASSUME NEW j \in DOMAIN D
                 PROVE  \/ Ahead(D, o, j)
                        \/ Lost(D, B, p, j)
                        \/ Outcome(R2, X2, p, j, D[j])
                        \/ j \notin DOMAIN p.caught /\ ~Touches(p, j) /\ WritesOn(p, j)
      BY DEF RemoteGood
    <3>1. CASE ~Ahead(D, o, j) /\ Outcome(R, X, p, j, D[j])
      <4>1. D[j].at \in Nat /\ D[j].at <= o
        BY <3>1 DEF NatDocs, Ahead
      <4> QED BY <2>1, <3>1, <4>1
    <3> QED BY <1>3, <3>1 DEF ApplyGood, RemoteGood
  <2>4. RowsGood(R2, D, o, B, p)
    BY <1>3 DEF ApplyGood, RowsGood, Rewritten
  <2> QED BY <1>3, <2>2, <2>3, <2>4 DEF ApplyGood
<1> QED BY <1>1, <1>2, <1>3 DEF PassGood

LEMMA UserKeepsStore ==
  ASSUME NEW R, NEW X, NEW R2, NEW X2, NEW i, NEW o \in Nat, NatValues(R2),
         Rewritten(R, X, R2, X2, i, o),
         NEW D, NEW B, NEW c, NatDocs(D), c # None => c.high \in Nat, CursorSeen(c, o),
         NoneHidden(R, X, D, B, c), NoneStranded(R, D, B, c)
  PROVE  NoneHidden(R2, X2, D, B, c) /\ NoneStranded(R2, D, B, c)
<1>1. NoneHidden(R2, X2, D, B, c)
  <2> SUFFICES ASSUME NEW j \in DOMAIN D, c # None, ~(D[j].at > c.high), j \notin B
               PROVE  Shows(R2, X2, j, D[j])
    BY DEF NoneHidden
  <2>1. D[j].at \in Nat /\ D[j].at <= o
    BY DEF NatDocs, CursorSeen
  <2>2. Shows(R, X, j, D[j])
    BY DEF NoneHidden
  <2> QED BY <2>1, <2>2, UserKeepsShows
<1>2. NoneStranded(R2, D, B, c)
  <2> SUFFICES ASSUME NEW j \in DOMAIN R2, c # None
               PROVE  \/ j \in DOMAIN D /\ D[j].at >= R2[j]
                      \/ R2[j] > c.high
                      \/ j \in B
    BY DEF NoneStranded
  <2>1. CASE j = i
    BY <2>1 DEF Rewritten, NatValues, CursorSeen
  <2>2. CASE j # i
    BY <2>2 DEF Rewritten, NoneStranded
  <2> QED BY <2>1, <2>2
<1> QED BY <1>1, <1>2

(***************************************************************************)
(* A write lands: the doc of id i becomes doc, or goes.  Any device that has *)
(* read past its stamp has it among its backdated docs from now on.         *)
(***************************************************************************)

LandsAs(D, B, w, o, D2, B2) ==
    /\ D2 = Landed(D, w)
    /\ B2 = IF w.doc = None \/ w.doc.at <= o THEN B \cup {w.id} ELSE B \ {w.id}

LEMMA LandedIs ==
  ASSUME NEW D, NEW B, NEW w, NEW o \in Nat, NEW D2, NEW B2,
         w.doc # None => w.doc.at \in Nat, LandsAs(D, B, w, o, D2, B2)
  PROVE  /\ \A j : j # w.id => /\ j \in DOMAIN D2 <=> j \in DOMAIN D
                               /\ j \in DOMAIN D => D2[j] = D[j]
                               /\ j \in B2 <=> j \in B
         /\ Ahead(D2, o, w.id) \/ w.id \in B2
<1>1. CASE w.doc = None
  BY <1>1 DEF LandsAs, Landed, Without
<1>2. CASE w.doc # None
  <2> DEFINE one == [i \in {w.id} |-> w.doc]
  <2>1. D2 = [i \in DOMAIN D \cup {w.id} |-> IF i \in {w.id} THEN one[i] ELSE D[i]]
    BY <1>2 DEF LandsAs, Landed, Put
  <2>2. /\ DOMAIN D2 = DOMAIN D \cup {w.id}
        /\ D2[w.id] = w.doc
        /\ \A j \in DOMAIN D : j # w.id => D2[j] = D[j]
    BY <2>1
  <2>3. CASE w.doc.at <= o
    BY <2>2, <2>3, <1>2 DEF LandsAs
  <2>4. CASE w.doc.at > o
    <3>1. B2 = B \ {w.id}
      BY <1>2, <2>4 DEF LandsAs
    <3> QED BY <2>2, <2>4, <3>1 DEF Ahead
  <2> QED BY <1>2, <2>3, <2>4
<1> QED BY <1>1, <1>2


(* Fewer writes are left: that one at most.                                 *)
FewerWrites(p, q, w) ==
    /\ q.writes \subseteq p.writes /\ p.writes \ {w} \subseteq q.writes
    /\ q.step = p.step /\ q.pulls = p.pulls /\ q.drops = p.drops /\ q.caught = p.caught

LEMMA LandKeepsRead ==
  ASSUME NEW R, NEW X, NEW D, NEW B, NEW w, NEW o \in Nat, NEW D2, NEW B2, NEW p,
         w.doc # None => w.doc.at \in Nat, LandsAs(D, B, w, o, D2, B2),
         ReadGood(R, X, D, o, B, p)
  PROVE  ReadGood(R, X, D2, o, B2, p)
<1> SUFFICES ASSUME NEW j \in DOMAIN p.docs \cup DOMAIN D2
             PROVE  \/ Ahead(D2, o, j)
                    \/ Lost(D2, B2, p, j)
                    \/ Twins(p.docs, D2, j)
                    \/ /\ j \in DOMAIN D2 \ DOMAIN p.docs
                       /\ Shows(R, X, j, D2[j])
                       /\ ~InWindow(p.window, D2[j].at)
  BY DEF ReadGood
<1>0. /\ \A k : k # w.id => /\ k \in DOMAIN D2 <=> k \in DOMAIN D
                            /\ k \in DOMAIN D => D2[k] = D[k]
                            /\ k \in B2 <=> k \in B
      /\ Ahead(D2, o, w.id) \/ w.id \in B2
  BY LandedIs
<1>1. CASE j = w.id
  <2>1. CASE Twins(p.caught, D2, j)
    BY <2>1 DEF ReadGood, Twins
  <2>2. CASE ~Twins(p.caught, D2, j)
    BY <1>0, <1>1, <2>2 DEF Lost
  <2> QED BY <2>1, <2>2
<1>2. CASE j # w.id
  <2>1. /\ j \in DOMAIN D2 <=> j \in DOMAIN D
        /\ j \in DOMAIN D => D2[j] = D[j]
        /\ j \in B2 <=> j \in B
    BY <1>0, <1>2
  <2>2. \/ Ahead(D, o, j)
        \/ Lost(D, B, p, j)
        \/ Twins(p.docs, D, j)
        \/ /\ j \in DOMAIN D \ DOMAIN p.docs
           /\ Shows(R, X, j, D[j])
           /\ ~InWindow(p.window, D[j].at)
    BY <2>1 DEF ReadGood
  <2> QED BY <2>1, <2>2 DEF Ahead, Lost, Twins
<1> QED BY <1>1, <1>2

LEMMA LandKeepsApply ==
  ASSUME NEW R, NEW X, NEW D, NEW B, NEW w, NEW o \in Nat, NEW D2, NEW B2, NEW p, NEW q,
         NatValues(R), NatDocs(p.caught),
         w.doc # None => w.doc.at \in Nat, LandsAs(D, B, w, o, D2, B2),
         FewerWrites(p, q, w), NatDocs(D2), NatValues(p.pulls),
         ApplyGood(R, X, D, o, B, p)
  PROVE  ApplyGood(R, X, D2, o, B2, q)
<1>0. /\ \A j : j # w.id => /\ j \in DOMAIN D2 <=> j \in DOMAIN D
                            /\ j \in DOMAIN D => D2[j] = D[j]
                            /\ j \in B2 <=> j \in B
      /\ Ahead(D2, o, w.id) \/ w.id \in B2
  BY LandedIs
<1>5. \A j : j # w.id => /\ WritesOn(p, j) <=> WritesOn(q, j)
                         /\ \A s : SetDoc(j, s, FALSE) \in p.writes
                                      => SetDoc(j, s, FALSE) \in q.writes
  BY DEF FewerWrites, WritesOn, SetDoc
<1>1. CaughtGood(R, X, o, q)
  BY DEF ApplyGood, CaughtGood, FewerWrites, Outcome, Touches, WritesOn
<1>2. RemoteGood(R, X, D2, o, B2, q)
  <2> SUFFICES ASSUME NEW j \in DOMAIN D2
               PROVE  \/ Ahead(D2, o, j)
                      \/ Lost(D2, B2, q, j)
                      \/ Outcome(R, X, q, j, D2[j])
                      \/ j \notin DOMAIN q.caught /\ ~Touches(q, j) /\ WritesOn(q, j)
    BY DEF RemoteGood
  <2>1. CASE j = w.id
    <3>1. CASE Twins(q.caught, D2, j)
      BY <1>1, <3>1 DEF CaughtGood, Twins
    <3>2. CASE ~Twins(q.caught, D2, j)
      BY <1>0, <2>1, <3>2 DEF Lost
    <3> QED BY <3>1, <3>2
  <2>2. CASE j # w.id
    <3>1. \/ Ahead(D, o, j)
          \/ Lost(D, B, p, j)
          \/ Outcome(R, X, p, j, D[j])
          \/ j \notin DOMAIN p.caught /\ ~Touches(p, j) /\ WritesOn(p, j)
      BY <1>0, <2>2 DEF ApplyGood, RemoteGood
    <3>2. /\ j \in DOMAIN D
          /\ D2[j] = D[j]
          /\ j \in B2 <=> j \in B
          /\ WritesOn(p, j) <=> WritesOn(q, j)
      BY <1>0, <1>5, <2>2
    <3>3. /\ Touches(p, j) <=> Touches(q, j)
          /\ Outcome(R, X, p, j, D[j]) <=> Outcome(R, X, q, j, D[j])
          /\ q.caught = p.caught
      BY DEF FewerWrites, Touches, Outcome
    <3> QED BY <3>1, <3>2, <3>3 DEF Ahead, Lost, Twins
  <2> QED BY <2>1, <2>2
<1>3. RowsGood(R, D2, o, B2, q)
  <2> SUFFICES ASSUME NEW j \in DOMAIN R
               PROVE  \/ R[j] > o
                      \/ Touches(q, j)
                      \/ j \in DOMAIN D2 /\ D2[j].at >= R[j]
                      \/ Lost(D2, B2, q, j)
                      \/ SetDoc(j, R[j], FALSE) \in q.writes
    BY DEF RowsGood
  <2>1. CASE j = w.id
    <3>1. CASE Twins(q.caught, D2, j)
      <4>1. /\ ~Touches(q, j) => R[j] > o \/ R[j] <= q.caught[j].at
            /\ j \in DOMAIN D2 /\ D2[j].at = q.caught[j].at
        BY <1>1, <3>1 DEF CaughtGood, Twins
      <4>2. R[j] \in Nat /\ D2[j].at \in Nat
        BY <4>1 DEF NatValues, NatDocs
      <4> QED BY <4>1, <4>2
    <3>2. CASE ~Twins(q.caught, D2, j) /\ j \in B2
      BY <3>2 DEF Lost
    <3>3. CASE Ahead(D2, o, w.id)
      <4>1. j \in DOMAIN D2 /\ D2[j].at > o /\ D2[j].at \in Nat /\ R[j] \in Nat
        BY <2>1, <3>3 DEF Ahead, NatValues, NatDocs
      <4>2. R[j] > o \/ D2[j].at >= R[j]
        BY <4>1
      <4> QED BY <4>1, <4>2
    <3> QED BY <1>0, <2>1, <3>1, <3>2, <3>3
  <2>2. CASE j # w.id
    <3>1. \/ R[j] > o
          \/ Touches(p, j)
          \/ j \in DOMAIN D /\ D[j].at >= R[j]
          \/ Lost(D, B, p, j)
          \/ SetDoc(j, R[j], FALSE) \in p.writes
      BY DEF ApplyGood, RowsGood
    <3>2. /\ j \in DOMAIN D2 <=> j \in DOMAIN D
          /\ j \in DOMAIN D => D2[j] = D[j]
          /\ j \in B2 <=> j \in B
          /\ SetDoc(j, R[j], FALSE) \in p.writes => SetDoc(j, R[j], FALSE) \in q.writes
      BY <1>0, <1>5, <2>2
    <3>3. (Touches(p, j) <=> Touches(q, j)) /\ q.caught = p.caught
      BY DEF FewerWrites, Touches
    <3> QED BY <3>1, <3>2, <3>3 DEF Lost, Twins
  <2> QED BY <2>1, <2>2
<1>4. PullsGood(D2, o, B2, q)
  <2> SUFFICES ASSUME NEW j \in DOMAIN p.pulls
               PROVE  /\ j \in DOMAIN D2 \/ j \in B2
                      /\ p.pulls[j] <= o
                      /\ j \notin p.drops
    BY DEF PullsGood, FewerWrites
  <2>1. /\ j \in DOMAIN D \/ j \in B
        /\ p.pulls[j] <= o
        /\ j \notin p.drops
    BY DEF ApplyGood, PullsGood
  <2>2. CASE j = w.id
    BY <1>0, <2>1, <2>2 DEF Ahead
  <2>3. CASE j # w.id
    BY <1>0, <2>1, <2>3
  <2> QED BY <2>2, <2>3
<1> QED BY <1>1, <1>2, <1>3, <1>4 DEF ApplyGood

LEMMA LandKeepsStore ==
  ASSUME NEW R, NEW X, NEW D, NEW B, NEW w, NEW o \in Nat, NEW D2, NEW B2, NEW c,
         NatValues(R), NatDocs(D2), c # None => c.high \in Nat, CursorSeen(c, o),
         w.doc # None => w.doc.at \in Nat, LandsAs(D, B, w, o, D2, B2),
         NoneHidden(R, X, D, B, c), NoneStranded(R, D, B, c)
  PROVE  NoneHidden(R, X, D2, B2, c) /\ NoneStranded(R, D2, B2, c)
<1>0. /\ \A j : j # w.id => /\ j \in DOMAIN D2 <=> j \in DOMAIN D
                            /\ j \in DOMAIN D => D2[j] = D[j]
                            /\ j \in B2 <=> j \in B
      /\ Ahead(D2, o, w.id) \/ w.id \in B2
  BY LandedIs
<1>1. NoneHidden(R, X, D2, B2, c)
  <2> SUFFICES ASSUME NEW j \in DOMAIN D2, c # None
               PROVE  Shows(R, X, j, D2[j]) \/ D2[j].at > c.high \/ j \in B2
    BY DEF NoneHidden
  <2>1. CASE j = w.id
    BY <1>0, <2>1 DEF Ahead, CursorSeen, NatDocs
  <2>2. CASE j # w.id
    <3>1. j \in DOMAIN D /\ D2[j] = D[j] /\ (j \in B2 <=> j \in B)
      BY <1>0, <2>2
    <3> QED BY <3>1 DEF NoneHidden
  <2> QED BY <2>1, <2>2
<1>2. NoneStranded(R, D2, B2, c)
  <2> SUFFICES ASSUME NEW j \in DOMAIN R, c # None
               PROVE  \/ j \in DOMAIN D2 /\ D2[j].at >= R[j]
                      \/ R[j] > c.high
                      \/ j \in B2
    BY DEF NoneStranded
  <2>1. CASE j = w.id
    BY <1>0, <2>1 DEF Ahead, CursorSeen, NatDocs, NatValues
  <2>2. CASE j # w.id
    <3>1. /\ j \in DOMAIN D2 <=> j \in DOMAIN D
          /\ j \in DOMAIN D => D2[j] = D[j]
          /\ j \in B2 <=> j \in B
      BY <1>0, <2>2
    <3> QED BY <3>1 DEF NoneStranded
  <2> QED BY <2>1, <2>2
<1> QED BY <1>1, <1>2


(***************************************************************************)
(* A read: the docs are those in the window, now.                           *)
(***************************************************************************)

LEMMA FetchKnows ==
  ASSUME NEW R, NEW X, NEW D, NEW B, NEW c, NEW o \in Nat, NEW p,
         NatDocs(D), \A i \in DOMAIN D : D[i].at <= o,
         p.docs = Only(D, {i \in DOMAIN D : InWindow(p.window, D[i].at)}),
         p.caught = Only(p.docs, B),
         ~p.window.full => c # None /\ p.window.since = c.high,
         NoneHidden(R, X, D, B, c)
  PROVE  ReadGood(R, X, D, o, B, p)
<1>1. /\ DOMAIN p.docs = {i \in DOMAIN D : InWindow(p.window, D[i].at)}
      /\ \A i \in DOMAIN p.docs : p.docs[i] = D[i]
  BY DEF Only
<1>2. /\ DOMAIN p.caught = DOMAIN p.docs \cap B
      /\ \A i \in DOMAIN p.caught : p.caught[i] = p.docs[i]
  BY DEF Only
<1>3. ASSUME NEW i \in DOMAIN D \ DOMAIN p.docs
      PROVE  /\ ~InWindow(p.window, D[i].at)
             /\ Lost(D, B, p, i) \/ Shows(R, X, i, D[i])
  <2>1. ~InWindow(p.window, D[i].at)
    BY <1>1, <1>3
  <2>2. c # None /\ ~(D[i].at > c.high)
    BY <2>1 DEF InWindow
  <2>3. i \in B \/ Shows(R, X, i, D[i])
    BY <2>2, <1>3 DEF NoneHidden
  <2> QED BY <1>2, <2>1, <2>3 DEF Lost, Twins
<1> QED BY <1>1, <1>2, <1>3 DEF ReadGood, Twins

(***************************************************************************)
(* A merge.                                                                 *)
(***************************************************************************)

Merged(p, q, list, plan) ==
    /\ plan = mergeRecords(p.local, list, p.docs, p.at, Empty, p.window)
    /\ q.writes = RemoteWrites(p.local, list, plan)
    /\ q.pulls = Pulled(p.docs, plan)
    /\ q.drops = plan.deleteLocal
    /\ q.caught = Without(p.caught, {w.id : w \in q.writes})

(* What becomes of a doc the pass read: it is pulled, drops the row, is      *)
(* what the device shows, or gives way to something newer.                  *)
LEMMA MergeSettles ==
  ASSUME NEW R, NEW X, NEW o \in Nat, NEW p, NEW q, NEW list, NEW plan, NEW i \in DOMAIN p.docs,
         NatValues(R), NatValues(p.local), NatValues(list), NatDocs(p.docs),
         p.docs[i].deleted \in BOOLEAN, p.docs[i].at <= o,
         LocalGood(R, X, o, p), Merged(p, q, list, plan)
  PROVE  \/ Outcome(R, X, q, i, p.docs[i])
         \/ ~Touches(q, i) /\ WritesOn(q, i)
<1> DEFINE doc == p.docs[i]
<1>1. /\ i \in DOMAIN q.pulls <=> i \in plan.pullUpserts
      /\ i \in DOMAIN q.pulls => q.pulls[i] = doc.at
      /\ i \in q.drops <=> i \in plan.deleteLocal
  BY DEF Merged, Pulled
<1>2. /\ i \in plan.pushUpserts => WritesOn(q, i)
      /\ i \in plan.pushTombstones => WritesOn(q, i)
  <2>1. i \in plan.pushUpserts => SetDoc(i, p.local[i], FALSE) \in q.writes
    BY DEF Merged, RemoteWrites
  <2>2. i \in plan.pushTombstones => SetDoc(i, list[i], TRUE) \in q.writes
    BY DEF Merged, RemoteWrites
  <2>3. SetDoc(i, p.local[i], FALSE).id = i /\ SetDoc(i, list[i], TRUE).id = i
    BY DEF SetDoc
  <2> QED BY <2>1, <2>2, <2>3 DEF WritesOn
<1>3. /\ i \in plan.pushUpserts <=> i \in DOMAIN p.local /\ p.local[i] > doc.at
      /\ i \in plan.deleteLocal <=> i \in DOMAIN p.local /\ doc.deleted /\ ~(p.local[i] > doc.at)
      /\ i \in plan.pullUpserts <=>
            /\ ~doc.deleted
            /\ i \in DOMAIN p.local => doc.at > p.local[i]
            /\ i \in Buried(p.local, list, p.at) => doc.at > list[i]
      /\ i \in plan.pushTombstones <=>
            i \in Buried(p.local, list, p.at) /\ ~doc.deleted /\ ~(doc.at > list[i])
      /\ i \in Buried(p.local, list, p.at) => i \notin DOMAIN p.local /\ i \in DOMAIN list
  <2>1. plan = mergeRecords(p.local, list, p.docs, p.at, Empty, p.window)
    BY DEF Merged
  <2> QED BY <2>1, PlanIs
<1>4. doc.at \in Nat
  BY DEF NatDocs
<1>5. CASE i \in DOMAIN p.local
  <2>0. p.local[i] \in Nat
    BY <1>5 DEF NatValues
  <2>1. CASE p.local[i] > doc.at
    BY <1>1, <1>2, <1>3, <1>4, <1>5, <2>0, <2>1 DEF Touches
  <2>2. CASE doc.at > p.local[i]
    BY <1>1, <1>3, <1>4, <1>5, <2>0, <2>2 DEF Outcome
  <2>3. CASE doc.at = p.local[i]
    <3>1. CASE doc.deleted
      BY <1>1, <1>3, <1>4, <1>5, <2>0, <2>3, <3>1 DEF Outcome
    <3>2. CASE ~doc.deleted
      <4>1. ~Touches(q, i)
        BY <1>1, <1>3, <1>4, <1>5, <2>0, <2>3, <3>2 DEF Touches
      <4>2. i \in DOMAIN X \/ (i \in DOMAIN R /\ R[i] >= doc.at)
        BY <1>4, <1>5, <2>3 DEF LocalGood, Twins, NatValues
      <4> QED BY <3>2, <4>1, <4>2 DEF Outcome, Shows
    <3> QED BY <3>1, <3>2
  <2> QED BY <1>4, <2>0, <2>1, <2>2, <2>3
<1>6. CASE i \notin DOMAIN p.local
  <2>1. CASE doc.deleted
    <3>1. ~Touches(q, i)
      BY <1>1, <1>3, <1>6, <2>1 DEF Touches
    <3>2. i \notin DOMAIN R \/ R[i] > doc.at
      BY <1>4, <1>6 DEF LocalGood, Twins, NatValues
    <3> QED BY <2>1, <3>1, <3>2 DEF Outcome, Shows
  <2>2. CASE ~doc.deleted
    <3>1. CASE i \in plan.pullUpserts
      BY <1>1, <2>2, <3>1 DEF Outcome
    <3>2. CASE i \notin plan.pullUpserts
      <4>1. i \in plan.pushTombstones
        BY <1>3, <1>6, <2>2, <3>2
      <4> QED BY <1>1, <1>2, <1>3, <1>6, <3>2, <4>1 DEF Touches
    <3> QED BY <3>1, <3>2
  <2> QED BY <2>1, <2>2
<1> QED BY <1>5, <1>6

LEMMA MergeKnows ==
  ASSUME NEW R, NEW X, NEW D, NEW B, NEW c, NEW o \in Nat, NEW p, NEW q, NEW list, NEW plan,
         NatValues(R), NatValues(p.local), NatValues(list), NatDocs(p.docs), NatDocs(D),
         c # None => c.high \in Nat,
         \A i \in DOMAIN p.docs : p.docs[i].deleted \in BOOLEAN,
         ~p.window.full => c # None /\ p.window.since = c.high,
         ReadGood(R, X, D, o, B, p), LocalGood(R, X, o, p), Merged(p, q, list, plan),
         NoneStranded(R, D, B, c)
  PROVE  ApplyGood(R, X, D, o, B, q)
<1>1. \A i \in DOMAIN p.docs : \/ Outcome(R, X, q, i, p.docs[i])
                               \/ ~Touches(q, i) /\ WritesOn(q, i)
  BY MergeSettles DEF ReadGood
<1>2. /\ DOMAIN q.caught \subseteq DOMAIN p.caught
      /\ \A i \in DOMAIN q.caught : q.caught[i] = p.caught[i] /\ ~WritesOn(q, i)
  BY DEF Merged, Without, WritesOn
<1>3. \A i : Lost(D, B, p, i) => Lost(D, B, q, i)
  BY <1>2 DEF Lost, Twins
<1>4. plan = mergeRecords(p.local, list, p.docs, p.at, Empty, p.window)
  BY DEF Merged
<1>5. /\ \A i \in DOMAIN q.pulls : i \in plan.pullUpserts /\ q.pulls[i] = p.docs[i].at
      /\ \A i \in plan.pullUpserts : i \in DOMAIN q.pulls
      /\ q.drops = plan.deleteLocal
  BY DEF Merged, Pulled
<1>6. /\ plan.pullUpserts \subseteq DOMAIN p.docs
      /\ plan.deleteLocal \subseteq DOMAIN p.docs
  BY <1>4, PlanWithin
<1>7. /\ \A i \in plan.deleteLocal : p.docs[i].deleted
      /\ \A i \in plan.pullUpserts : ~p.docs[i].deleted
  BY <1>4, PlanIs
<1>8. ASSUME NEW i \in DOMAIN p.local,
             IF i \in DOMAIN p.docs THEN p.local[i] > p.docs[i].at
                                    ELSE InWindow(p.window, p.local[i])
      PROVE  SetDoc(i, p.local[i], FALSE) \in q.writes
  <2>1. i \in plan.pushUpserts
    BY <1>4, <1>8, PlanIs
  <2> QED BY <2>1 DEF Merged, RemoteWrites
<1>9. \A i \in DOMAIN p.caught : i \in DOMAIN p.docs /\ p.docs[i] = p.caught[i]
  BY DEF ReadGood, Twins
<1>10. CaughtGood(R, X, o, q)
  <2> SUFFICES ASSUME NEW i \in DOMAIN q.caught
               PROVE  /\ q.caught[i].at <= o
                      /\ Outcome(R, X, q, i, q.caught[i])
                      /\ ~WritesOn(q, i)
                      /\ i \in DOMAIN R /\ ~Touches(q, i) => R[i] > o \/ R[i] <= q.caught[i].at
    BY DEF CaughtGood
  <2>1. i \in DOMAIN p.docs /\ q.caught[i] = p.docs[i] /\ ~WritesOn(q, i)
    BY <1>2, <1>9
  <2>2. q.caught[i].at <= o /\ Outcome(R, X, q, i, q.caught[i])
    BY <1>1, <2>1 DEF ReadGood
  <2>3. ASSUME i \in DOMAIN R, ~(R[i] > o), ~(R[i] <= p.docs[i].at)
        PROVE  FALSE
    <3>1. i \in DOMAIN p.local /\ p.local[i] = R[i]
      BY <2>3 DEF LocalGood, Twins
    <3>2. p.local[i] > p.docs[i].at
      BY <2>1, <2>3, <3>1 DEF NatValues, NatDocs
    <3>3. SetDoc(i, p.local[i], FALSE) \in q.writes /\ SetDoc(i, p.local[i], FALSE).id = i
      BY <1>8, <2>1, <3>1, <3>2 DEF SetDoc
    <3> QED BY <2>1, <3>3 DEF WritesOn
  <2> QED BY <2>1, <2>2, <2>3
<1>11. RemoteGood(R, X, D, o, B, q)
  <2> SUFFICES ASSUME NEW i \in DOMAIN D, ~Ahead(D, o, i), ~Lost(D, B, q, i)
               PROVE  \/ Outcome(R, X, q, i, D[i])
                      \/ i \notin DOMAIN q.caught /\ ~Touches(q, i) /\ WritesOn(q, i)
    BY DEF RemoteGood
  <2>1. CASE Twins(p.docs, D, i)
    BY <1>1, <1>2, <2>1 DEF Twins
  <2>2. CASE i \notin DOMAIN p.docs /\ Shows(R, X, i, D[i])
    BY <1>5, <1>6, <2>2 DEF Outcome, Touches
  <2> QED BY <1>3, <2>1, <2>2 DEF ReadGood
<1>12. RowsGood(R, D, o, B, q)
  <2> SUFFICES ASSUME NEW i \in DOMAIN R, ~(R[i] > o), ~Lost(D, B, q, i),
                      SetDoc(i, R[i], FALSE) \notin q.writes
               PROVE  Touches(q, i) \/ (i \in DOMAIN D /\ D[i].at >= R[i])
    BY DEF RowsGood
  <2>1. i \in DOMAIN p.local /\ p.local[i] = R[i] /\ R[i] \in Nat
    BY DEF LocalGood, Twins, NatValues
  <2>2. CASE i \in DOMAIN p.docs
    <3>1. p.docs[i].at \in Nat /\ ~(p.local[i] > p.docs[i].at)
      BY <1>8, <2>1, <2>2 DEF NatDocs
    <3>2. CASE Ahead(D, o, i)
      BY <2>1, <3>2 DEF Ahead, NatDocs
    <3>3. CASE Twins(p.docs, D, i)
      BY <2>1, <3>1, <3>3 DEF Twins
    <3> QED BY <1>3, <2>2, <3>2, <3>3 DEF ReadGood
  <2>3. CASE i \notin DOMAIN p.docs
    <3>1. ~InWindow(p.window, R[i])
      BY <1>8, <2>1, <2>3
    <3>2. c # None /\ ~(R[i] > c.high)
      BY <3>1 DEF InWindow
    <3>3. i \notin B
      BY <1>2, <1>9, <2>3 DEF Lost, Twins
    <3> QED BY <3>2, <3>3 DEF NoneStranded
  <2> QED BY <2>2, <2>3
<1>13. PullsGood(D, o, B, q)
  <2> SUFFICES ASSUME NEW i \in DOMAIN q.pulls
               PROVE  /\ i \in DOMAIN D \/ i \in B
                      /\ q.pulls[i] <= o
                      /\ i \notin q.drops
    BY DEF PullsGood
  <2>1. i \in DOMAIN p.docs /\ q.pulls[i] = p.docs[i].at
    BY <1>5, <1>6
  <2>2. i \in DOMAIN D \/ i \in B
    BY <2>1 DEF ReadGood, Ahead, Lost, Twins
  <2>3. i \notin q.drops
    BY <1>5, <1>7
  <2> QED BY <2>1, <2>2, <2>3 DEF ReadGood
<1> QED BY <1>10, <1>11, <1>12, <1>13 DEF ApplyGood

(***************************************************************************)
(* The writes to the device, once the push is done: rows, then drops, then  *)
(* the cursor.                                                              *)
(***************************************************************************)

(* PutPulls and DropRows as the pass sees them.                             *)
PutBy(R, X, p, R2, X2, q) ==
    /\ R2 = Put(R, p.pulls) /\ X2 = Without(X, DOMAIN p.pulls)
    /\ q.pulls = Empty /\ q.drops = p.drops
    /\ q.writes = p.writes /\ q.caught = p.caught

DroppedBy(R, p, R2, q) ==
    /\ R2 = Without(R, p.drops)
    /\ q.pulls = Empty /\ q.drops = {}
    /\ q.writes = p.writes /\ q.caught = p.caught

LEMMA PutIsKnown ==
  ASSUME NEW R, NEW X, NEW D, NEW B, NEW o \in Nat, NEW p, NEW R2, NEW X2, NEW q,
         NatDocs(D), NatDocs(p.caught), NatValues(p.pulls),
         p.writes = {}, PutBy(R, X, p, R2, X2, q),
         ApplyGood(R, X, D, o, B, p)
  PROVE  ApplyGood(R2, X2, D, o, B, q)
<1>1. /\ DOMAIN R2 = DOMAIN R \cup DOMAIN p.pulls
      /\ \A i \in DOMAIN p.pulls : R2[i] = p.pulls[i]
      /\ \A i \in DOMAIN R \ DOMAIN p.pulls : R2[i] = R[i]
      /\ DOMAIN X2 = DOMAIN X \ DOMAIN p.pulls
  BY DEF PutBy, Put, Without
<1>2. /\ DOMAIN q.pulls = {} /\ q.drops = p.drops /\ q.writes = {}
      /\ q.caught = p.caught
      /\ \A i : Touches(q, i) <=> i \in p.drops
      /\ \A i : ~WritesOn(p, i) /\ ~WritesOn(q, i)
      /\ \A i : Lost(D, B, q, i) <=> Lost(D, B, p, i)
  BY DEF PutBy, Empty, Touches, WritesOn, Lost
<1>3. \A i \in DOMAIN p.pulls : i \notin p.drops /\ p.pulls[i] <= o /\ p.pulls[i] \in Nat
  BY DEF ApplyGood, PullsGood, NatValues
<1>4. ASSUME NEW i, NEW doc, doc.at \in Nat, Outcome(R, X, p, i, doc)
      PROVE  /\ Outcome(R2, X2, q, i, doc)
             /\ i \in DOMAIN p.pulls => p.pulls[i] = doc.at
  <2>1. CASE i \in DOMAIN p.pulls
    <3>1. ~doc.deleted /\ p.pulls[i] = doc.at /\ i \notin p.drops
      BY <1>3, <1>4, <2>1 DEF Outcome, Touches
    <3>2. Shows(R2, X2, i, doc)
      BY <1>1, <1>4, <2>1, <3>1 DEF Shows
    <3> QED BY <1>2, <3>1, <3>2 DEF Outcome
  <2>2. CASE i \notin DOMAIN p.pulls
    <3>1. CASE i \in p.drops
      BY <1>2, <1>4, <2>2, <3>1 DEF Outcome, Touches
    <3>2. CASE i \notin p.drops
      <4>1. Shows(R, X, i, doc)
        BY <1>4, <2>2, <3>2 DEF Outcome
      <4>2. Shows(R2, X2, i, doc)
        BY <1>1, <2>2, <4>1 DEF Shows
      <4> QED BY <1>2, <2>2, <3>2, <4>2 DEF Outcome
    <3> QED BY <3>1, <3>2
  <2> QED BY <2>1, <2>2
<1>5. CaughtGood(R2, X2, o, q)
  <2> SUFFICES ASSUME NEW i \in DOMAIN p.caught
               PROVE  /\ p.caught[i].at <= o
                      /\ Outcome(R2, X2, q, i, p.caught[i])
                      /\ i \in DOMAIN R2 /\ ~Touches(q, i) =>
                            R2[i] > o \/ R2[i] <= p.caught[i].at
    BY <1>2 DEF CaughtGood
  <2>1. /\ p.caught[i].at <= o /\ p.caught[i].at \in Nat
        /\ Outcome(R, X, p, i, p.caught[i])
        /\ i \in DOMAIN R /\ ~Touches(p, i) => R[i] > o \/ R[i] <= p.caught[i].at
    BY DEF ApplyGood, CaughtGood, NatDocs
  <2>2. /\ Outcome(R2, X2, q, i, p.caught[i])
        /\ i \in DOMAIN p.pulls => p.pulls[i] = p.caught[i].at
    BY <1>4, <2>1
  <2>3. CASE i \in DOMAIN p.pulls
    BY <1>1, <2>1, <2>2, <2>3
  <2>4. CASE i \notin DOMAIN p.pulls
    BY <1>1, <1>2, <2>1, <2>2, <2>4 DEF Touches
  <2> QED BY <2>3, <2>4
<1>6. RemoteGood(R2, X2, D, o, B, q)
  <2> SUFFICES ASSUME NEW i \in DOMAIN D, ~Ahead(D, o, i), ~Lost(D, B, p, i)
               PROVE  Outcome(R2, X2, q, i, D[i])
    BY <1>2 DEF RemoteGood
  <2>1. Outcome(R, X, p, i, D[i]) /\ D[i].at \in Nat
    BY <1>2 DEF ApplyGood, RemoteGood, NatDocs
  <2> QED BY <1>4, <2>1
<1>7. RowsGood(R2, D, o, B, q)
  <2> SUFFICES ASSUME NEW i \in DOMAIN R2, ~(R2[i] > o), ~Lost(D, B, p, i), i \notin p.drops
               PROVE  i \in DOMAIN D /\ D[i].at >= R2[i]
    BY <1>2 DEF RowsGood
  <2>1. CASE i \in DOMAIN p.pulls
    <3>1. R2[i] = p.pulls[i] /\ R2[i] \in Nat
      BY <1>1, <1>3, <2>1
    <3>2. i \in DOMAIN D
      BY <2>1 DEF ApplyGood, PullsGood, Lost, Twins
    <3>3. CASE Ahead(D, o, i)
      BY <3>1, <3>2, <3>3 DEF Ahead, NatDocs
    <3>4. CASE Outcome(R, X, p, i, D[i])
      BY <1>4, <2>1, <3>1, <3>2, <3>4 DEF NatDocs
    <3> QED BY <1>2, <3>2, <3>3, <3>4 DEF ApplyGood, RemoteGood
  <2>2. CASE i \notin DOMAIN p.pulls
    BY <1>1, <1>2, <2>2 DEF ApplyGood, RowsGood, Touches
  <2> QED BY <2>1, <2>2
<1>8. PullsGood(D, o, B, q)
  BY <1>2 DEF PullsGood
<1> QED BY <1>5, <1>6, <1>7, <1>8 DEF ApplyGood

LEMMA PutKeepsStore ==
  ASSUME NEW R, NEW X, NEW D, NEW B, NEW o \in Nat, NEW p, NEW R2, NEW X2, NEW q, NEW c,
         NatDocs(D), NatDocs(p.caught), NatValues(p.pulls),
         c # None => c.high \in Nat, CursorSeen(c, o),
         p.writes = {}, PutBy(R, X, p, R2, X2, q),
         ApplyGood(R, X, D, o, B, p),
         NoneHidden(R, X, D, B, c), NoneStranded(R, D, B, c)
  PROVE  NoneHidden(R2, X2, D, B, c) /\ NoneStranded(R2, D, B, c)
<1>1. ApplyGood(R2, X2, D, o, B, q)
  BY PutIsKnown
<1>2. /\ DOMAIN R2 = DOMAIN R \cup DOMAIN p.pulls
      /\ \A i \in DOMAIN p.pulls : R2[i] = p.pulls[i]
      /\ \A i \in DOMAIN R \ DOMAIN p.pulls : R2[i] = R[i]
      /\ DOMAIN X2 = DOMAIN X \ DOMAIN p.pulls
  BY DEF PutBy, Put, Without
<1>3. /\ q.writes = {} /\ DOMAIN q.pulls = {} /\ q.drops = p.drops
      /\ \A i \in DOMAIN p.pulls : i \notin p.drops /\ p.pulls[i] <= o /\ p.pulls[i] \in Nat
  BY DEF PutBy, Empty, ApplyGood, PullsGood, NatValues
<1>4. NoneHidden(R2, X2, D, B, c)
  <2> SUFFICES ASSUME NEW i \in DOMAIN D, c # None, ~(D[i].at > c.high), i \notin B
               PROVE  Shows(R2, X2, i, D[i])
    BY DEF NoneHidden
  <2>1. CASE i \in DOMAIN p.pulls
    <3>1. ~Ahead(D, o, i) /\ ~Lost(D, B, q, i)
      BY DEF Ahead, Lost, CursorSeen, NatDocs
    <3>2. ~Touches(q, i) /\ ~WritesOn(q, i)
      BY <1>3, <2>1 DEF Touches, WritesOn
    <3>3. Outcome(R2, X2, q, i, D[i])
      BY <1>1, <3>1, <3>2 DEF ApplyGood, RemoteGood
    <3> QED BY <3>2, <3>3 DEF Outcome, Touches
  <2>2. CASE i \notin DOMAIN p.pulls
    <3>1. Shows(R, X, i, D[i])
      BY DEF NoneHidden
    <3> QED BY <1>2, <2>2, <3>1 DEF Shows
  <2> QED BY <2>1, <2>2
<1>5. NoneStranded(R2, D, B, c)
  <2> SUFFICES ASSUME NEW i \in DOMAIN R2, c # None, i \notin B
               PROVE  (i \in DOMAIN D /\ D[i].at >= R2[i]) \/ R2[i] > c.high
    BY DEF NoneStranded
  <2>1. CASE i \in DOMAIN p.pulls
    <3>1. R2[i] <= o /\ R2[i] \in Nat /\ ~Touches(q, i) /\ ~Lost(D, B, q, i)
      BY <1>2, <1>3, <2>1 DEF Touches, Lost
    <3>2. SetDoc(i, R2[i], FALSE) \notin q.writes
      BY <1>3
    <3>3. ~(R2[i] > o)
      BY <3>1
    <3> QED BY <1>1, <3>1, <3>2, <3>3 DEF ApplyGood, RowsGood
  <2>2. CASE i \notin DOMAIN p.pulls
    BY <1>2, <2>2 DEF NoneStranded
  <2> QED BY <2>1, <2>2
<1> QED BY <1>4, <1>5

LEMMA DropIsKnown ==
  ASSUME NEW R, NEW X, NEW D, NEW B, NEW o \in Nat, NEW p, NEW R2, NEW q,
         p.writes = {}, p.pulls = Empty, DroppedBy(R, p, R2, q),
         ApplyGood(R, X, D, o, B, p)
  PROVE  ApplyGood(R2, X, D, o, B, q)
<1>1. /\ DOMAIN R2 = DOMAIN R \ p.drops
      /\ \A i \in DOMAIN R2 : R2[i] = R[i]
  BY DEF DroppedBy, Without
<1>2. /\ q.caught = p.caught
      /\ \A i : ~Touches(q, i)
      /\ \A i : Touches(p, i) <=> i \in p.drops
      /\ \A i : ~WritesOn(p, i) /\ ~WritesOn(q, i)
      /\ \A i : Lost(D, B, q, i) <=> Lost(D, B, p, i)
      /\ p.writes = {} /\ DOMAIN p.pulls = {} /\ DOMAIN q.pulls = {}
  BY DEF DroppedBy, Empty, Touches, WritesOn, Lost
<1>3. ASSUME NEW i, NEW doc, Outcome(R, X, p, i, doc)
      PROVE  Outcome(R2, X, q, i, doc)
  <2>1. CASE i \in p.drops
    BY <1>1, <1>2, <1>3, <2>1 DEF Outcome, Shows
  <2>2. CASE i \notin p.drops
    <3>1. Shows(R, X, i, doc)
      BY <1>2, <1>3, <2>2 DEF Outcome
    <3> QED BY <1>1, <1>2, <2>2, <3>1 DEF Outcome, Shows
  <2> QED BY <2>1, <2>2
<1>4. CaughtGood(R2, X, o, q)
  BY <1>1, <1>2, <1>3 DEF ApplyGood, CaughtGood
<1>5. RemoteGood(R2, X, D, o, B, q)
  BY <1>2, <1>3 DEF ApplyGood, RemoteGood
<1>6. RowsGood(R2, D, o, B, q)
  BY <1>1, <1>2 DEF ApplyGood, RowsGood
<1>7. PullsGood(D, o, B, q)
  BY <1>2 DEF PullsGood
<1> QED BY <1>4, <1>5, <1>6, <1>7 DEF ApplyGood

LEMMA DropKeepsStore ==
  ASSUME NEW R, NEW X, NEW D, NEW B, NEW o \in Nat, NEW p, NEW R2, NEW q, NEW c,
         NatDocs(D), c # None => c.high \in Nat, CursorSeen(c, o),
         p.writes = {}, p.pulls = Empty, DroppedBy(R, p, R2, q),
         ApplyGood(R, X, D, o, B, p),
         NoneHidden(R, X, D, B, c), NoneStranded(R, D, B, c)
  PROVE  NoneHidden(R2, X, D, B, c) /\ NoneStranded(R2, D, B, c)
<1>1. /\ DOMAIN R2 = DOMAIN R \ p.drops
      /\ \A i \in DOMAIN R2 : R2[i] = R[i]
  BY DEF DroppedBy, Without
<1>2. NoneHidden(R2, X, D, B, c)
  <2> SUFFICES ASSUME NEW i \in DOMAIN D, c # None, ~(D[i].at > c.high), i \notin B
               PROVE  Shows(R2, X, i, D[i])
    BY DEF NoneHidden
  <2>1. CASE i \in p.drops
    <3>1. ~Ahead(D, o, i) /\ ~Lost(D, B, p, i) /\ ~WritesOn(p, i)
      BY DEF Ahead, Lost, CursorSeen, NatDocs, WritesOn
    <3>2. Outcome(R, X, p, i, D[i])
      BY <3>1 DEF ApplyGood, RemoteGood
    <3>3. D[i].deleted
      BY <2>1, <3>2 DEF Outcome, Touches, Empty
    <3> QED BY <1>1, <2>1, <3>3 DEF Shows
  <2>2. CASE i \notin p.drops
    <3>1. Shows(R, X, i, D[i])
      BY DEF NoneHidden
    <3> QED BY <1>1, <2>2, <3>1 DEF Shows
  <2> QED BY <2>1, <2>2
<1>3. NoneStranded(R2, D, B, c)
  BY <1>1 DEF NoneStranded
<1> QED BY <1>2, <1>3

(* The cursor moves on: whatever it passes, the pass has settled.           *)
LEMMA CursorKeepsStore ==
  ASSUME NEW R, NEW X, NEW D, NEW B, NEW o \in Nat, NEW p, NEW c, NEW B2,
         NatDocs(D), NatValues(R), c.high \in Nat, c.high <= o,
         p.writes = {}, p.pulls = Empty, p.drops = {},
         B2 = B \ {i \in DOMAIN p.caught \cap DOMAIN D : D[i] = p.caught[i]},
         ApplyGood(R, X, D, o, B, p)
  PROVE  NoneHidden(R, X, D, B2, c) /\ NoneStranded(R, D, B2, c)
<1>1. \A i : ~Touches(p, i) /\ ~WritesOn(p, i)
  BY DEF Touches, WritesOn, Empty
<1>2. \A i : Lost(D, B, p, i) => i \in B2
  BY DEF Lost, Twins
<1>3. NoneHidden(R, X, D, B2, c)
  <2> SUFFICES ASSUME NEW i \in DOMAIN D
               PROVE  Shows(R, X, i, D[i]) \/ D[i].at > c.high \/ i \in B2
    BY DEF NoneHidden
  <2>1. CASE Ahead(D, o, i)
    BY <2>1 DEF Ahead, NatDocs
  <2>2. CASE Outcome(R, X, p, i, D[i])
    BY <1>1, <2>2 DEF Outcome, Touches
  <2> QED BY <1>1, <1>2, <2>1, <2>2 DEF ApplyGood, RemoteGood
<1>4. NoneStranded(R, D, B2, c)
  <2> SUFFICES ASSUME NEW i \in DOMAIN R
               PROVE  (i \in DOMAIN D /\ D[i].at >= R[i]) \/ R[i] > c.high \/ i \in B2
    BY DEF NoneStranded
  <2>1. R[i] > o => R[i] > c.high
    BY DEF NatValues
  <2>2. SetDoc(i, R[i], FALSE) \notin p.writes
    OBVIOUS
  <2> QED BY <1>1, <1>2, <2>1, <2>2 DEF ApplyGood, RowsGood
<1> QED BY <1>3, <1>4

-----------------------------------------------------------------------------
(***************************************************************************)
(* EverythingPast is inductive.                                             *)
(***************************************************************************)

LEMMA LaterPast ==
  ASSUME NEW n \in Nat, NEW m \in Nat, n <= m
  PROVE  /\ \A s : Past(s, n) => Past(s, m)
         /\ \A f : PastValues(f, n) => PastValues(f, m)
         /\ \A D : PastDocs(D, n) => PastDocs(D, m)
         /\ \A W : PastWrites(W, n) => PastWrites(W, m)
         /\ \A p : PassPast(p, n) => PassPast(p, m)
<1>1. ASSUME NEW s, Past(s, n) PROVE Past(s, m)
  <2> SUFFICES ASSUME NEW d \in Device PROVE s < m + Skew[d]
    BY <1>1 DEF Past
  <2>1. s < n + Skew[d] /\ s \in Nat /\ Skew[d] \in Nat
    BY <1>1, RecordSyncAssumptions DEF Past
  <2> QED BY <2>1
<1>2. /\ \A f : PastValues(f, n) => PastValues(f, m)
      /\ \A D : PastDocs(D, n) => PastDocs(D, m)
      /\ \A W : PastWrites(W, n) => PastWrites(W, m)
  BY <1>1 DEF PastValues, PastDocs, PastWrites
<1>3. \A p : PassPast(p, n) => PassPast(p, m)
  BY <1>2 DEF PassPast
<1> QED BY <1>1, <1>2, <1>3

(* A clock's stamp is past a millisecond later, on every clock.             *)
LEMMA ClockSoonPast ==
  ASSUME ClocksAgree, TypeOK, NEW d \in Device
  PROVE  Past(Clock(d), now + 1)
<1> SUFFICES ASSUME NEW e \in Device PROVE Clock(d) < now + 1 + Skew[e]
  BY RecordSyncAssumptions DEF Past, Clock, TypeOK
<1>1. Skew[d] = Skew[e] /\ Skew[d] \in Nat /\ now \in Nat
  BY RecordSyncAssumptions DEF ClocksAgree, TypeOK
<1> QED BY <1>1 DEF Clock

LEMMA PutPast ==
  ASSUME NEW n, NEW f, NEW g, PastValues(f, n), PastValues(g, n)
  PROVE  PastValues(Put(f, g), n)
BY DEF PastValues, Put

LEMMA WithoutPast ==
  ASSUME NEW n, NEW f, NEW S, PastValues(f, n)
  PROVE  PastValues(Without(f, S), n)
BY DEF PastValues, Without

LEMMA TimePasses ==
  ASSUME TypeOK, now' \in Nat, now <= now', EverythingPast
  PROVE  /\ \A d \in Device : /\ PastValues(rows[d], now') /\ PastValues(tombs[d], now')
                              /\ Past(observed[d], now')
         /\ PastDocs(remote, now')
         /\ \A t \in Tab : /\ PassPast(pass[t], now') /\ PastWrites(stray[t], now')
                           /\ deletion[t].step = "put" => PastValues(deletion[t].list, now')
<1>1. now \in Nat
  BY DEF TypeOK
<1> QED BY <1>1, LaterPast DEF EverythingPast, DevicePast, TabPast

LEMMA UserPast ==
  ASSUME ClocksAgree, TypeOK, EverythingPast, NEW d \in Device, NEW i \in Id,
         Edit(d, i) \/ DeleteInTransaction(d, i)
  PROVE  EverythingPast'
<1> DEFINE one == [j \in {i} |-> Clock(d)]
<1>1. now' = now + 1 /\ now \in Nat
  BY DEF TypeOK, Edit, DeleteInTransaction
<1>2. PastValues(one, now')
  BY <1>1, ClockSoonPast DEF PastValues
<1>3. /\ \A e \in Device : /\ PastValues(rows[e], now') /\ PastValues(tombs[e], now')
                           /\ Past(observed[e], now')
      /\ PastDocs(remote, now')
      /\ \A t \in Tab : /\ PassPast(pass[t], now') /\ PastWrites(stray[t], now')
                        /\ deletion[t].step = "put" => PastValues(deletion[t].list, now')
  BY <1>1, TimePasses
<1>4. \A e \in Device : PastValues(rows'[e], now') /\ PastValues(tombs'[e], now')
  <2> TAKE e \in Device
  <2>1. /\ PastValues(Put(rows[e], one), now') /\ PastValues(Put(tombs[e], one), now')
        /\ PastValues(Without(rows[e], {i}), now')
    BY <1>2, <1>3, PutPast, WithoutPast
  <2> QED BY <1>3, <2>1 DEF Edit, DeleteInTransaction, TypeOK
<1>5. UNCHANGED <<remote, pass, stray, deletion, observed>>
  BY DEF Edit, DeleteInTransaction
<1> QED BY <1>3, <1>4, <1>5 DEF EverythingPast, DevicePast, TabPast

LEMMA DeletionPast ==
  ASSUME ClocksAgree, TypeOK, EverythingPast, NEW t \in Tab,
         \/ \E i \in Id : DeleteRow(t, i)
         \/ ReadTombstoneList(t) \/ PutTombstoneList(t)
  PROVE  EverythingPast'
<1> DEFINE d == HomeOf[t]
<1>1. d \in Device /\ now \in Nat
  BY PassIs DEF TypeOK
<1>2. ASSUME NEW i \in Id, DeleteRow(t, i) PROVE EverythingPast'
  <2>1. \A e \in Device : PastValues(rows'[e], now)
    BY <1>1, <1>2, WithoutPast DEF DeleteRow, TypeOK, EverythingPast, DevicePast
  <2>2. \A u \in Tab : deletion'[u].step = "put" => deletion[u].step = "put"
                            /\ deletion'[u].list = deletion[u].list
    BY <1>2 DEF DeleteRow, TypeOK
  <2>3. UNCHANGED <<now, tombs, observed, remote, pass, stray>>
    BY <1>2 DEF DeleteRow
  <2> QED BY <2>1, <2>2, <2>3 DEF EverythingPast, DevicePast, TabPast
<1>3. CASE ReadTombstoneList(t)
  <2> DEFINE one == [j \in {deletion[t].id} |-> Clock(d)]
  <2>1. now' = now + 1
    BY <1>3 DEF ReadTombstoneList
  <2>2. PastValues(one, now')
    BY <1>1, <2>1, ClockSoonPast DEF PastValues
  <2>3. /\ \A e \in Device : /\ PastValues(rows[e], now') /\ PastValues(tombs[e], now')
                             /\ Past(observed[e], now')
        /\ PastDocs(remote, now')
        /\ \A u \in Tab : /\ PassPast(pass[u], now') /\ PastWrites(stray[u], now')
                          /\ deletion[u].step = "put" => PastValues(deletion[u].list, now')
    BY <1>1, <2>1, TimePasses
  <2>4. PastValues(Put(tombs[d], one), now')
    BY <1>1, <2>2, <2>3, PutPast
  <2>5. \A u \in Tab : deletion'[u].step = "put" => PastValues(deletion'[u].list, now')
    BY <1>3, <2>3, <2>4 DEF ReadTombstoneList, TypeOK
  <2>6. UNCHANGED <<rows, tombs, observed, remote, pass, stray>>
    BY <1>3 DEF ReadTombstoneList
  <2> QED BY <2>3, <2>5, <2>6 DEF EverythingPast, DevicePast, TabPast
<1>4. CASE PutTombstoneList(t)
  <2>1. \A e \in Device : PastValues(tombs'[e], now)
    BY <1>1, <1>4 DEF PutTombstoneList, TypeOK, EverythingPast, DevicePast, TabPast
  <2>2. \A u \in Tab : deletion'[u].step = "put" => deletion[u].step = "put"
                            /\ deletion'[u].list = deletion[u].list
    BY <1>4 DEF PutTombstoneList, TypeOK, NoDeletion
  <2>3. UNCHANGED <<now, rows, observed, remote, pass, stray>>
    BY <1>4 DEF PutTombstoneList
  <2> QED BY <2>1, <2>2, <2>3 DEF EverythingPast, DevicePast, TabPast
<1> QED BY <1>2, <1>3, <1>4

(* Only tab t's pass and the numbers its device has read change.            *)
LEMMA ReadPast ==
  ASSUME TypeOK, EverythingPast, NEW t \in Tab,
         BeginPass(t) \/ Fetch(t) \/ ReadRows(t) \/ Merge(t)
  PROVE  EverythingPast'
<1> DEFINE d == HomeOf[t]
           p == pass[t]
<1>0. d \in Device /\ pass \in [Tab -> {Idle} \cup Fetching \cup Reading \cup Merging \cup Applying]
  BY PassIs DEF TypeOK
<1>1. SUFFICES /\ \A e \in Device : Past(observed'[e], now)
               /\ PassPast(pass'[t], now)
               /\ \A u \in Tab : u # t => pass'[u] = pass[u]
               /\ UNCHANGED <<now, rows, tombs, remote, stray, deletion>>
  BY DEF EverythingPast, DevicePast, TabPast
<1>2. /\ \A u \in Tab : u # t => pass'[u] = pass[u]
      /\ UNCHANGED <<now, rows, tombs, remote, stray, deletion>>
  BY <1>0 DEF BeginPass, Fetch, ReadRows, Merge
<1>3. CASE BeginPass(t)
  BY <1>0, <1>2, <1>3 DEF BeginPass, PassPast, EverythingPast, DevicePast
<1>4. CASE Fetch(t)
  <2>1. PICK window \in {WindowOf(p), FullRead} : pass'[t].step = "rows"
                                                   /\ pass'[t].docs = Fetched(window)
    BY <1>0, <1>4 DEF Fetch
  <2>2. PastDocs(Fetched(window), now)
    BY DEF Fetched, Only, PastDocs, EverythingPast
  <2>3. PassPast(pass'[t], now)
    BY <2>1, <2>2 DEF PassPast
  <2>4. Past(MaxOf(Stamps(remote) \cup {observed[d]}), now)
    <3> DEFINE S == Stamps(remote) \cup {observed[d]}
    <3>1. \A s \in S : Past(s, now)
      BY <1>0 DEF EverythingPast, DevicePast, PastDocs, Stamps
    <3>2. S \in SUBSET Stamp /\ S # {}
      BY <1>0, StampsOf DEF TypeOK
    <3>3. MaxOf(S) \in S
      BY <3>2, StampIsNat, FS_Subset, MaxOfIsGreatest
    <3> QED BY <3>1, <3>3
  <2>5. \A e \in Device : Past(observed'[e], now)
    BY <1>0, <1>4, <2>4 DEF Fetch, TypeOK, EverythingPast, DevicePast
  <2> QED BY <1>2, <2>3, <2>5
<1>5. CASE ReadRows(t)
  <2>1. /\ pass'[t].step = "tombs" /\ pass'[t].docs = p.docs /\ pass'[t].local = rows[d]
        /\ p.step = "rows" /\ observed' = observed
    BY <1>0, <1>5 DEF ReadRows
  <2>2. PassPast(p, now)
    BY DEF EverythingPast, TabPast
  <2> QED BY <1>0, <1>2, <2>1, <2>2 DEF PassPast, EverythingPast, DevicePast
<1>6. CASE Merge(t)
  <2> DEFINE plan == mergeRecords(p.local, tombs[d], p.docs, p.at, Empty, p.window)
  <2>1. /\ pass'[t].step = "apply"
        /\ pass'[t].writes = RemoteWrites(p.local, tombs[d], plan)
        /\ pass'[t].pulls = Pulled(p.docs, plan)
        /\ pass'[t].list = NextTombstones(tombs[d], p.docs, plan)
        /\ p.step = "tombs" /\ observed' = observed
    BY <1>0, <1>6 DEF Merge
  <2> HIDE DEF plan
  <2>2. /\ plan.pushUpserts \subseteq DOMAIN p.local
        /\ plan.pushTombstones \subseteq DOMAIN tombs[d]
        /\ plan.pullUpserts \subseteq DOMAIN p.docs
        /\ plan.deleteLocal \subseteq DOMAIN p.docs
    BY PlanWithin DEF plan
  <2>3. PastDocs(p.docs, now) /\ PastValues(p.local, now) /\ PastValues(tombs[d], now)
    BY <1>0, <2>1 DEF EverythingPast, DevicePast, TabPast, PassPast
  <2>4. PastWrites(pass'[t].writes, now)
    BY <2>1, <2>2, <2>3 DEF RemoteWrites, SetDoc, DeleteDoc, PastWrites, PastValues
  <2>5. PastValues(pass'[t].pulls, now)
    BY <2>1, <2>2, <2>3 DEF Pulled, PastValues, PastDocs
  <2>6. pass'[t].list # None => PastValues(pass'[t].list, now)
    <3> DEFINE learned == [i \in plan.deleteLocal |-> p.docs[i].at]
               kept == Without(tombs[d], plan.clearLocalTombstones \cup plan.pushTombstones)
    <3>1. PastValues(learned, now)
      BY <2>2, <2>3 DEF PastValues, PastDocs
    <3>2. PastValues(Put(kept, learned), now)
      BY <2>3, <3>1, WithoutPast, PutPast
    <3> QED BY <2>1, <3>2 DEF NextTombstones
  <2>7. PassPast(pass'[t], now)
    BY <2>1, <2>4, <2>5, <2>6 DEF PassPast
  <2> QED BY <1>2, <2>1, <2>7 DEF EverythingPast, DevicePast
<1> QED BY <1>3, <1>4, <1>5, <1>6

LEMMA LandPast ==
  ASSUME PastDocs(remote, now), NEW w, w.doc # None => Past(w.doc.at, now), Land(w)
  PROVE  PastDocs(remote', now)
BY DEF Land, Landed, Put, Without, PastDocs

(* Writes land or are given up, and the pass moves on by what it has.       *)
LEMMA ApplyPast ==
  ASSUME TypeOK, EverythingPast, NEW t \in Tab,
         \/ Push(t) \/ PutPulls(t) \/ DropRows(t) \/ WriteTombstones(t) \/ WriteCursor(t)
         \/ PassFails(t) \/ StrayLands(t) \/ StrayFails(t) \/ Crash(t)
  PROVE  EverythingPast'
<1> DEFINE d == HomeOf[t]
           p == pass[t]
<1>0. d \in Device /\ pass \in [Tab -> {Idle} \cup Fetching \cup Reading \cup Merging \cup Applying]
  BY PassIs DEF TypeOK
<1>1. /\ PassPast(p, now) /\ PastWrites(stray[t], now) /\ PastDocs(remote, now)
      /\ PastValues(rows[d], now)
  BY <1>0 DEF EverythingPast, DevicePast, TabPast
<1>2. /\ \A u \in Tab : u # t => /\ pass'[u] = pass[u]
                                /\ stray'[u] = stray[u] /\ deletion'[u] = deletion[u]
      /\ UNCHANGED <<now, observed>>
      /\ deletion'[t].step = "put" => deletion' = deletion
  BY <1>0 DEF Push, PutPulls, DropRows, WriteTombstones, WriteCursor,
              PassFails, StrayLands, StrayFails, Crash, TypeOK, NoDeletion
<1>3. SUFFICES /\ \A e \in Device : PastValues(rows'[e], now) /\ PastValues(tombs'[e], now)
               /\ PastDocs(remote', now)
               /\ PassPast(pass'[t], now) /\ PastWrites(stray'[t], now)
  BY <1>2 DEF EverythingPast, DevicePast, TabPast
<1>4. PassPast(Idle, now)
  BY DEF PassPast, Idle
<1>5. CASE Push(t)
  <2>1. PICK w \in p.writes : Land(w) /\ pass' = [pass EXCEPT ![t].writes = @ \ {w}]
    BY <1>5 DEF Push
  <2>2. p \in Applying
    BY <1>5, PassIs DEF Push
  <2>3. PastDocs(remote', now)
    BY <1>1, <2>1, <2>2, LandPast DEF PassPast, PastWrites, Applying
  <2>4. pass'[t] = [p EXCEPT !.writes = @ \ {w}]
    BY <1>0, <2>1
  <2>5. PassPast(pass'[t], now)
    BY <1>1, <2>2, <2>4 DEF PassPast, PastWrites, Applying
  <2> QED BY <1>1, <1>5, <2>3, <2>5 DEF Push, EverythingPast, DevicePast
<1>6. CASE PutPulls(t)
  <2>1. p \in Applying
    BY <1>6, PassIs DEF PutPulls, Pushed
  <2>2. PastValues(Put(rows[d], p.pulls), now)
    BY <1>1, <2>1, PutPast DEF PassPast, Applying
  <2>3. pass'[t] = [p EXCEPT !.pulls = Empty]
    BY <1>0, <1>6 DEF PutPulls
  <2>4. PassPast(pass'[t], now)
    BY <1>1, <2>1, <2>3 DEF PassPast, PastValues, Empty, Applying
  <2> QED BY <1>0, <1>1, <1>6, <2>2, <2>4 DEF PutPulls, TypeOK, EverythingPast, DevicePast
<1>7. CASE DropRows(t)
  <2>1. p \in Applying
    BY <1>7, PassIs DEF DropRows, Pushed
  <2>2. PastValues(Without(rows[d], p.drops), now)
    BY <1>1, WithoutPast
  <2>3. pass'[t] = [p EXCEPT !.drops = {}]
    BY <1>0, <1>7 DEF DropRows
  <2>4. PassPast(pass'[t], now)
    BY <1>1, <2>1, <2>3 DEF PassPast, Applying
  <2> QED BY <1>0, <1>1, <1>7, <2>2, <2>4 DEF DropRows, TypeOK, EverythingPast, DevicePast
<1>8. CASE WriteTombstones(t)
  <2>1. p \in Applying
    BY <1>8, PassIs DEF WriteTombstones, Pushed
  <2>2. PastValues(p.list, now)
    BY <1>1, <1>8, <2>1 DEF PassPast, WriteTombstones, Applying
  <2>3. pass'[t] = [p EXCEPT !.list = None]
    BY <1>0, <1>8 DEF WriteTombstones
  <2>4. PassPast(pass'[t], now)
    BY <1>1, <2>1, <2>3 DEF PassPast, Applying
  <2> QED BY <1>0, <1>1, <1>8, <2>2, <2>4 DEF WriteTombstones, TypeOK, EverythingPast, DevicePast
<1>9. CASE WriteCursor(t)
  <2>1. pass'[t] = Idle
    BY <1>0, <1>9 DEF WriteCursor
  <2> QED BY <1>1, <1>4, <1>9, <2>1 DEF WriteCursor, EverythingPast, DevicePast
<1>10. CASE PassFails(t)
  <2>1. pass'[t] = Idle
    BY <1>0, <1>10 DEF PassFails
  <2>2. PastWrites(stray'[t], now)
    BY <1>1, <1>10 DEF PassFails, PastWrites, PassPast, TypeOK
  <2> QED BY <1>1, <1>4, <1>10, <2>1, <2>2 DEF PassFails, EverythingPast, DevicePast
<1>11. CASE StrayLands(t)
  <2>1. PICK w \in stray[t] : Land(w) /\ stray' = [stray EXCEPT ![t] = @ \ {w}]
    BY <1>11 DEF StrayLands
  <2>2. PastDocs(remote', now)
    BY <1>1, <2>1, LandPast DEF PastWrites
  <2>3. PastWrites(stray'[t], now)
    BY <1>1, <2>1 DEF PastWrites, TypeOK
  <2> QED BY <1>1, <1>11, <2>2, <2>3 DEF StrayLands, EverythingPast, DevicePast
<1>12. CASE StrayFails(t)
  <2>1. PastWrites(stray'[t], now)
    BY <1>1, <1>12 DEF StrayFails, PastWrites, TypeOK
  <2> QED BY <1>1, <1>12, <2>1 DEF StrayFails, EverythingPast, DevicePast
<1>13. CASE Crash(t)
  <2>1. pass'[t] = Idle /\ stray'[t] = {}
    BY <1>0, <1>13 DEF Crash, TypeOK
  <2> QED BY <1>1, <1>4, <1>13, <2>1 DEF Crash, PastWrites, EverythingPast, DevicePast
<1> QED BY <1>5, <1>6, <1>7, <1>8, <1>9, <1>10, <1>11, <1>12, <1>13

LEMMA StepPast ==
  ASSUME ClocksAgree, TypeOK, EverythingPast, [Next]_vars
  PROVE  EverythingPast'
<1>1. ASSUME NEW d \in Device, NEW i \in Id, Edit(d, i) \/ DeleteInTransaction(d, i)
      PROVE  EverythingPast'
  BY <1>1, UserPast
<1>2. ASSUME NEW t \in Tab,
             \/ \E i \in Id : DeleteRow(t, i)
             \/ ReadTombstoneList(t) \/ PutTombstoneList(t)
      PROVE  EverythingPast'
  BY <1>2, DeletionPast
<1>3. ASSUME NEW t \in Tab, BeginPass(t) \/ Fetch(t) \/ ReadRows(t) \/ Merge(t)
      PROVE  EverythingPast'
  BY <1>3, ReadPast
<1>4. ASSUME NEW t \in Tab,
             \/ Push(t) \/ PutPulls(t) \/ DropRows(t) \/ WriteTombstones(t) \/ WriteCursor(t)
             \/ PassFails(t) \/ StrayLands(t) \/ StrayFails(t) \/ Crash(t)
      PROVE  EverythingPast'
  BY <1>4, ApplyPast
<1>5. CASE Tick
  <2>1. now' \in Nat /\ now <= now'
    BY <1>5 DEF Tick, TypeOK
  <2>2. UNCHANGED <<rows, tombs, remote, pass, stray, deletion, observed>>
    BY <1>5 DEF Tick
  <2> QED BY <2>1, <2>2, TimePasses DEF EverythingPast, DevicePast, TabPast
<1>6. CASE UNCHANGED vars
  BY <1>6 DEF vars, EverythingPast, DevicePast, TabPast
<1> QED BY <1>1, <1>2, <1>3, <1>4, <1>5, <1>6 DEF Next

-----------------------------------------------------------------------------
(***************************************************************************)
(* CursorsSeen and WindowsCurrent are inductive.                            *)
(***************************************************************************)

(* The steps that leave every cursor, pass and number read as they are.     *)
Elsewhere ==
    \/ \E d \in Device, i \in Id : Edit(d, i) \/ DeleteInTransaction(d, i)
    \/ \E t \in Tab, i \in Id : DeleteRow(t, i)
    \/ \E t \in Tab : \/ ReadTombstoneList(t) \/ PutTombstoneList(t)
                      \/ StrayLands(t) \/ StrayFails(t)
    \/ Tick
    \/ UNCHANGED vars

LEMMA ElsewhereKeeps ==
  ASSUME Elsewhere
  PROVE  UNCHANGED <<cursor, pass, observed>>
BY DEF Elsewhere, Edit, DeleteInTransaction, DeleteRow, ReadTombstoneList,
       PutTombstoneList, StrayLands, StrayFails, Tick, vars

(* Tab t's pass goes on or ends: no cursor but the one its pass read moves. *)
PassStep(t) ==
    \/ BeginPass(t) \/ Fetch(t) \/ ReadRows(t) \/ Merge(t)
    \/ Push(t) \/ PutPulls(t) \/ DropRows(t) \/ WriteTombstones(t) \/ WriteCursor(t)
    \/ PassFails(t) \/ Crash(t)

LEMMA EveryStep ==
  ASSUME [Next]_vars
  PROVE  Elsewhere \/ \E t \in Tab : PassStep(t)
BY DEF Next, Elsewhere, PassStep

LEMMA PassStepKeeps ==
  ASSUME TypeOK, NEW t \in Tab, PassStep(t)
  PROVE  \A u \in Tab : u # t => pass'[u] = pass[u]
BY DEF PassStep, BeginPass, Fetch, ReadRows, Merge, Push, PutPulls, DropRows, WriteTombstones,
       WriteCursor, PassFails, Crash, TypeOK

(* What is read raises the number read and nothing else.                    *)
LEMMA FetchDoes ==
  ASSUME TypeOK, NEW t \in Tab, Fetch(t)
  PROVE  LET d == HomeOf[t]
             p == pass[t]
             q == pass'[t]
         IN  /\ observed'[d] \in Stamp /\ observed[d] <= observed'[d]
             /\ \A e \in Device : e # d => observed'[e] = observed[e]
             /\ \A i \in DOMAIN remote : remote[i].at <= observed'[d]
             /\ q.step = "rows"
             /\ q.docs = Only(remote, {i \in DOMAIN remote : InWindow(q.window, remote[i].at)})
             /\ q.caught = Only(q.docs, backdated[d])
             /\ ~q.window.full => p.read # None /\ q.window.since = p.read.high
             /\ CursorSeen(p.read, observed[d]) => q.next.high <= observed'[d]
             /\ UNCHANGED <<rows, removed, remote, cursor, backdated>>
<1> DEFINE d == HomeOf[t]
           p == pass[t]
           q == pass'[t]
           S == Stamps(remote) \cup {observed[d]}
<1>1. d \in Device /\ p \in Fetching
  BY PassIs DEF Fetch
<1>2. S \in SUBSET Stamp
  BY <1>1, StampsOf DEF TypeOK
<1>3. observed'[d] = MaxOf(S) /\ \A e \in Device : e # d => observed'[e] = observed[e]
  BY <1>1 DEF Fetch, TypeOK
<1>4. observed'[d] \in Stamp /\ \A s \in S : s <= observed'[d]
  BY <1>2, <1>3, MaxOfStamps
<1>5. PICK window \in {WindowOf(p), FullRead} :
          q = [step   |-> "rows",
               at     |-> p.at,
               window |-> window,
               docs   |-> Fetched(window),
               next   |-> NextCursor(window, Fetched(window), p.read, p.at),
               caught |-> Only(Fetched(window), backdated[d])]
  BY DEF Fetch, TypeOK
<1>6. \A i \in DOMAIN remote : remote[i].at <= observed'[d]
  BY <1>4 DEF Stamps
<1>7. ~q.window.full => p.read # None /\ q.window.since = p.read.high
  BY <1>5 DEF WindowOf, FullRead, SinceRead
<1>8. ASSUME CursorSeen(p.read, observed[d]) PROVE q.next.high <= observed'[d]
  <2> DEFINE T == Stamps(Fetched(window))
  <2>1. T \subseteq S
    BY DEF Stamps, Fetched, Only
  <2>2. observed'[d] \in Nat /\ \A s \in T : s <= observed'[d]
    BY <1>4, <2>1, StampIsNat
  <2>3. MaxOf(T) <= observed'[d]
    BY <1>2, <2>1, <2>2, MaxOfBelow
  <2>4. ASSUME ~window.full PROVE MaxOf(T \cup {window.since}) <= observed'[d]
    <3>1. window.since = p.read.high /\ p.read \in Cursor /\ p.read.high <= observed[d]
      BY <1>1, <1>5, <1>7, <1>8, <2>4 DEF CursorSeen, Fetching
    <3>2. window.since \in Stamp /\ window.since <= observed'[d]
      <4>1. p.read.high \in Stamp /\ p.read.high \in Nat
        BY <3>1, StampIsNat DEF Cursor
      <4>2. observed[d] \in Nat /\ observed'[d] \in Nat /\ observed[d] <= observed'[d]
        BY <1>1, <1>4, StampIsNat DEF TypeOK
      <4> QED BY <3>1, <4>1, <4>2
    <3>3. T \cup {window.since} \in SUBSET Stamp
      BY <1>2, <2>1, <3>2
    <3> HIDE DEF T
    <3> QED BY <2>2, <3>2, <3>3, MaxOfBelow
  <2>5. q.next.high = IF window.full THEN MaxOf(T) ELSE MaxOf(T \cup {window.since})
    BY <1>5 DEF NextCursor
  <2> QED BY <2>3, <2>4, <2>5
<1>9. UNCHANGED <<rows, removed, remote, cursor, backdated>>
  BY DEF Fetch
<1>10. observed[d] <= observed'[d]
  BY <1>4
<1>11. /\ q.step = "rows" /\ q.docs = Fetched(q.window)
       /\ q.caught = Only(q.docs, backdated[d])
  BY <1>5
<1> QED BY <1>3, <1>4, <1>6, <1>7, <1>8, <1>9, <1>10, <1>11 DEF Fetched

LEMMA StepSeen ==
  ASSUME TypeOK, CursorsSeen, [Next]_vars
  PROVE  CursorsSeen'
<1>1. CASE Elsewhere
  BY <1>1, ElsewhereKeeps DEF CursorsSeen
<1>2. ASSUME NEW t \in Tab, PassStep(t) PROVE CursorsSeen'
  <2> DEFINE d == HomeOf[t]
             p == pass[t]
             q == pass'[t]
  <2>0. /\ d \in Device
        /\ pass \in [Tab -> {Idle} \cup Fetching \cup Reading \cup Merging \cup Applying]
        /\ cursor \in [Device -> Cursor \cup {None}]
        /\ PassSeen(p, observed[d])
    BY PassIs DEF TypeOK, CursorsSeen
  <2>1. \A u \in Tab : u # t => pass'[u] = pass[u]
    BY <1>2, PassStepKeeps
  <2>2. ASSUME observed' = observed, cursor' = cursor, PassSeen(q, observed[d])
        PROVE  CursorsSeen'
    BY <2>1, <2>2 DEF CursorsSeen
  <2>3. CASE BeginPass(t)
    <3>1. q.step = "fetch" /\ q.read = cursor[d] /\ observed' = observed /\ cursor' = cursor
      BY <2>0, <2>3 DEF BeginPass
    <3> QED BY <2>0, <2>2, <3>1 DEF PassSeen, CursorsSeen
  <2>4. CASE Fetch(t)
    <3>1. /\ observed'[d] \in Stamp /\ observed[d] <= observed'[d]
          /\ \A e \in Device : e # d => observed'[e] = observed[e]
          /\ q.step = "rows"
          /\ CursorSeen(p.read, observed[d]) => q.next.high <= observed'[d]
          /\ cursor' = cursor /\ p.step = "fetch"
      BY <2>4, FetchDoes DEF Fetch
    <3>2. ASSUME NEW e \in Device PROVE observed[e] \in Nat /\ observed'[e] \in Nat
                                        /\ observed[e] <= observed'[e]
      BY <2>0, <3>1, StampIsNat DEF TypeOK
    <3>3. ASSUME NEW e \in Device, NEW c \in Cursor \cup {None}, CursorSeen(c, observed[e])
          PROVE  CursorSeen(c, observed'[e])
      <4>1. c # None => c.high \in Nat
        BY StampIsNat DEF Cursor
      <4> QED BY <3>2, <3>3, <4>1 DEF CursorSeen
    <3>4. \A e \in Device : CursorSeen(cursor'[e], observed'[e])
      BY <2>0, <3>1, <3>3 DEF CursorsSeen
    <3>5. PassSeen(q, observed'[d])
      BY <2>0, <3>1 DEF PassSeen, CursorSeen
    <3>6. ASSUME NEW u \in Tab, u # t PROVE PassSeen(pass'[u], observed'[HomeOf[u]])
      <4>1. /\ pass[u].step = "fetch" => pass[u].read \in Cursor \cup {None}
            /\ pass[u].step \in {"rows", "tombs", "apply"} => pass[u].next \in Cursor
            /\ HomeOf[u] \in Device
        BY PassIs DEF Fetching, Reading, Merging, Applying
      <4>2. PassSeen(pass[u], observed[HomeOf[u]])
        BY DEF CursorsSeen
      <4> QED BY <2>1, <3>3, <3>6, <4>1, <4>2 DEF PassSeen
    <3> QED BY <3>4, <3>5, <3>6 DEF CursorsSeen
  <2>5. CASE ReadRows(t) \/ Merge(t)
    <3>1. /\ q.step \in {"tombs", "apply"} /\ q.next = p.next
          /\ p.step \in {"rows", "tombs"}
          /\ observed' = observed /\ cursor' = cursor
      BY <2>0, <2>5 DEF ReadRows, Merge
    <3> QED BY <2>0, <2>2, <3>1 DEF PassSeen
  <2>6. CASE Push(t) \/ PutPulls(t) \/ DropRows(t) \/ WriteTombstones(t)
    <3>1. p.step = "apply" /\ p \in Applying
      BY <2>6, PassIs DEF Push, PutPulls, DropRows, WriteTombstones, Pushed
    <3>2. q.step = "apply" /\ q.next = p.next /\ observed' = observed /\ cursor' = cursor
      BY <2>0, <2>6, <3>1 DEF Push, PutPulls, DropRows, WriteTombstones, Applying
    <3> QED BY <2>0, <2>2, <3>1, <3>2 DEF PassSeen
  <2>7. CASE WriteCursor(t)
    <3>1. /\ p.step = "apply" /\ q = Idle /\ observed' = observed
          /\ cursor' = [cursor EXCEPT ![d] = p.next]
      BY <2>0, <2>7 DEF WriteCursor, Pushed
    <3>2. CursorSeen(p.next, observed[d]) /\ PassSeen(Idle, observed[d])
      BY <2>0, <3>1 DEF PassSeen, Idle
    <3>3. \A e \in Device : CursorSeen(cursor'[e], observed'[e])
      BY <2>0, <3>1, <3>2 DEF CursorsSeen
    <3>4. \A u \in Tab : PassSeen(pass'[u], observed'[HomeOf[u]])
      BY <2>1, <3>1, <3>2 DEF CursorsSeen
    <3> QED BY <3>3, <3>4 DEF CursorsSeen
  <2>8. CASE PassFails(t) \/ Crash(t)
    <3>1. q = Idle /\ observed' = observed /\ cursor' = cursor
      BY <2>0, <2>8 DEF PassFails, Crash
    <3> QED BY <2>2, <3>1 DEF PassSeen, Idle
  <2> QED BY <1>2, <2>3, <2>4, <2>5, <2>6, <2>7, <2>8 DEF PassStep
<1> QED BY <1>1, <1>2, EveryStep

LEMMA StepWindows ==
  ASSUME OneTabEach, TypeOK, WindowsCurrent, [Next]_vars
  PROVE  WindowsCurrent'
<1>1. CASE Elsewhere
  BY <1>1, ElsewhereKeeps DEF WindowsCurrent
<1>2. ASSUME NEW t \in Tab, PassStep(t) PROVE WindowsCurrent'
  <2> DEFINE d == HomeOf[t]
             p == pass[t]
             q == pass'[t]
  <2>0. /\ d \in Device
        /\ pass \in [Tab -> {Idle} \cup Fetching \cup Reading \cup Merging \cup Applying]
        /\ cursor \in [Device -> Cursor \cup {None}]
        /\ PassWindow(p, cursor[d])
    BY PassIs DEF TypeOK, WindowsCurrent
  <2>1. \A u \in Tab : u # t => pass'[u] = pass[u] /\ HomeOf[u] # d /\ HomeOf[u] \in Device
    BY <1>2, PassStepKeeps, PassIs DEF OneTabEach
  <2>2. ASSUME \A e \in Device : e # d => cursor'[e] = cursor[e], PassWindow(q, cursor'[d])
        PROVE  WindowsCurrent'
    BY <2>1, <2>2 DEF WindowsCurrent
  <2>3. CASE BeginPass(t)
    <3>1. q.step = "fetch" /\ q.read = cursor[d] /\ cursor' = cursor
      BY <2>0, <2>3 DEF BeginPass
    <3> QED BY <2>2, <3>1 DEF PassWindow
  <2>4. CASE Fetch(t)
    <3>1. /\ ~q.window.full => p.read # None /\ q.window.since = p.read.high
          /\ cursor' = cursor /\ p.step = "fetch" /\ q.step = "rows"
      BY <2>4, FetchDoes DEF Fetch
    <3> QED BY <2>0, <2>2, <3>1 DEF PassWindow
  <2>5. CASE ReadRows(t)
    <3>1. /\ q.step = "tombs" /\ q.window = p.window /\ p.step = "rows" /\ cursor' = cursor
      BY <2>0, <2>5 DEF ReadRows
    <3> QED BY <2>0, <2>2, <3>1 DEF PassWindow
  <2>6. CASE Merge(t)
    <3>1. q.step = "apply" /\ cursor' = cursor
      BY <2>0, <2>6 DEF Merge
    <3> QED BY <2>2, <3>1 DEF PassWindow
  <2>7. CASE Push(t) \/ PutPulls(t) \/ DropRows(t) \/ WriteTombstones(t)
    <3>1. p.step = "apply" /\ p \in Applying
      BY <2>7, PassIs DEF Push, PutPulls, DropRows, WriteTombstones, Pushed
    <3>2. q.step = "apply" /\ cursor' = cursor
      BY <2>0, <2>7, <3>1 DEF Push, PutPulls, DropRows, WriteTombstones, Applying
    <3> QED BY <2>2, <3>2 DEF PassWindow
  <2>8. CASE WriteCursor(t) \/ PassFails(t) \/ Crash(t)
    <3>1. q = Idle /\ \A e \in Device : e # d => cursor'[e] = cursor[e]
      BY <2>0, <2>8 DEF WriteCursor, PassFails, Crash
    <3> QED BY <2>2, <3>1 DEF PassWindow, Idle
  <2> QED BY <1>2, <2>3, <2>4, <2>5, <2>6, <2>7, <2>8 DEF PassStep
<1> QED BY <1>1, <1>2, EveryStep

-----------------------------------------------------------------------------
(***************************************************************************)
(* Knowing is inductive.                                                    *)
(***************************************************************************)

(* The numbers the lemmas above compare.                                    *)
LEMMA Numbers ==
  ASSUME TypeOK
  PROVE  /\ \A d \in Device : /\ NatValues(rows[d]) /\ NatValues(tombs[d])
                              /\ observed[d] \in Nat
                              /\ cursor[d] # None => cursor[d].high \in Nat
         /\ NatDocs(remote)
         /\ \A t \in Tab :
              /\ pass[t].step = "tombs" =>
                    /\ NatValues(pass[t].local) /\ NatDocs(pass[t].docs)
                    /\ \A i \in DOMAIN pass[t].docs : pass[t].docs[i].deleted \in BOOLEAN
              /\ pass[t].step = "apply" =>
                    NatDocs(pass[t].caught) /\ NatValues(pass[t].pulls)
<1>1. \A f \in Partial(Stamp) : NatValues(f)
  BY ValuesIn, StampIsNat DEF NatValues
<1>2. ASSUME NEW D \in Partial(Doc)
      PROVE  NatDocs(D) /\ \A i \in DOMAIN D : D[i].deleted \in BOOLEAN
  <2>1. \A i \in DOMAIN D : D[i] \in Doc
    BY ValuesIn
  <2> QED BY <2>1, StampIsNat DEF Doc, NatDocs
<1>3. \A d \in Device : /\ rows[d] \in Partial(Stamp) /\ tombs[d] \in Partial(Stamp)
                        /\ observed[d] \in Nat
                        /\ cursor[d] # None => cursor[d].high \in Nat
  BY StampIsNat DEF TypeOK, Cursor
<1>4. \A t \in Tab :
        /\ pass[t].step = "tombs" => /\ pass[t].local \in Partial(Stamp)
                                     /\ pass[t].docs \in Partial(Doc)
        /\ pass[t].step = "apply" => /\ pass[t].caught \in Partial(Doc)
                                     /\ pass[t].pulls \in Partial(Stamp)
  BY PassIs DEF Merging, Applying
<1>5. remote \in Partial(Doc)
  BY DEF TypeOK
<1> QED BY <1>1, <1>2, <1>3, <1>4, <1>5

(* The user writes or deletes a row.                                        *)
LEMMA UserRewrites ==
  ASSUME TypeOK, EverythingPast, NEW d \in Device, NEW i \in Id,
         \/ Edit(d, i) \/ DeleteInTransaction(d, i)
         \/ \E t \in Tab : HomeOf[t] = d /\ DeleteRow(t, i)
  PROVE  /\ Rewritten(rows[d], removed[d], rows'[d], removed'[d], i, observed[d])
         /\ \A e \in Device : e # d => rows'[e] = rows[e] /\ removed'[e] = removed[e]
         /\ UNCHANGED <<remote, cursor, pass, observed, backdated>>
<1> DEFINE one == [j \in {i} |-> Clock(d)]
<1>1. Clock(d) > observed[d]
  <2>1. /\ observed[d] \in Nat /\ now \in Nat /\ Skew[d] \in Nat
        /\ observed[d] < now + Skew[d]
    BY RecordSyncAssumptions DEF EverythingPast, DevicePast, Past, TypeOK
  <2> QED BY <2>1 DEF Clock
<1>2. /\ \A e \in Device : e # d => rows'[e] = rows[e] /\ removed'[e] = removed[e]
      /\ UNCHANGED <<remote, cursor, pass, observed, backdated>>
  BY DEF Edit, DeleteInTransaction, DeleteRow, TypeOK
<1>3. CASE Edit(d, i)
  <2>1. rows'[d] = Put(rows[d], one) /\ removed'[d] = Without(removed[d], {i})
    BY <1>3 DEF Edit, TypeOK
  <2>2. DOMAIN one = {i} /\ one[i] = Clock(d)
    OBVIOUS
  <2> HIDE DEF one
  <2>3. Rewritten(rows[d], removed[d], rows'[d], removed'[d], i, observed[d])
    BY <1>1, <2>1, <2>2 DEF Rewritten, Put, Without
  <2> QED BY <1>2, <2>3
<1>4. CASE DeleteInTransaction(d, i) \/ \E t \in Tab : HomeOf[t] = d /\ DeleteRow(t, i)
  <2>1. rows'[d] = Without(rows[d], {i}) /\ removed'[d] = Put(removed[d], one)
    <3>1. CASE DeleteInTransaction(d, i)
      BY <3>1 DEF DeleteInTransaction, TypeOK
    <3>2. ASSUME NEW t \in Tab, HomeOf[t] = d, DeleteRow(t, i)
          PROVE  rows'[d] = Without(rows[d], {i}) /\ removed'[d] = Put(removed[d], one)
      BY <3>2 DEF DeleteRow, TypeOK
    <3> QED BY <1>4, <3>1, <3>2
  <2>2. DOMAIN one = {i}
    OBVIOUS
  <2> HIDE DEF one
  <2>3. Rewritten(rows[d], removed[d], rows'[d], removed'[d], i, observed[d])
    BY <2>1, <2>2 DEF Rewritten, Put, Without
  <2> QED BY <1>2, <2>3
<1> QED BY <1>3, <1>4

LEMMA UserKnows ==
  ASSUME CursorInv, TypeOK', NEW d \in Device, NEW i \in Id,
         \/ Edit(d, i) \/ DeleteInTransaction(d, i)
         \/ \E t \in Tab : HomeOf[t] = d /\ DeleteRow(t, i)
  PROVE  Knowing'
<1>1. /\ Rewritten(rows[d], removed[d], rows'[d], removed'[d], i, observed[d])
      /\ \A e \in Device : e # d => rows'[e] = rows[e] /\ removed'[e] = removed[e]
      /\ UNCHANGED <<remote, cursor, pass, observed, backdated>>
  BY UserRewrites DEF CursorInv
<1>2. NatValues(rows'[d])
  <2>1. rows'[d] \in Partial(Stamp)
    BY DEF TypeOK
  <2> QED BY <2>1, ValuesIn, StampIsNat DEF NatValues
<1>3. ASSUME NEW e \in Device PROVE StoreGood(e)'
  <2>1. /\ NoneHidden(rows[e], removed[e], remote, backdated[e], cursor[e])
        /\ NoneStranded(rows[e], remote, backdated[e], cursor[e])
        /\ CursorSeen(cursor[e], observed[e])
    BY DEF CursorInv, Knowing, StoreGood, CursorsSeen
  <2>2. CASE e = d
    <3>1. /\ NoneHidden(rows'[d], removed'[d], remote, backdated[d], cursor[d])
          /\ NoneStranded(rows'[d], remote, backdated[d], cursor[d])
      BY <1>1, <1>2, <2>1, <2>2, Numbers, UserKeepsStore DEF CursorInv
    <3> QED BY <1>1, <2>2, <3>1 DEF StoreGood
  <2>3. CASE e # d
    BY <1>1, <2>1, <2>3 DEF StoreGood
  <2> QED BY <2>2, <2>3
<1>4. ASSUME NEW t \in Tab PROVE TabGood(t)'
  <2> DEFINE e == HomeOf[t]
  <2>1. /\ e \in Device
        /\ PassGood(rows[e], removed[e], remote, observed[e], backdated[e], pass[t])
    BY PassIs DEF CursorInv, Knowing, TabGood
  <2>2. CASE e = d
    <3>1. PassGood(rows'[d], removed'[d], remote, observed[d], backdated[d], pass[t])
      BY <1>1, <1>2, <2>1, <2>2, Numbers, UserKeepsPass DEF CursorInv
    <3> QED BY <1>1, <2>2, <3>1 DEF TabGood
  <2>3. CASE e # d
    BY <1>1, <2>1, <2>3 DEF TabGood
  <2> QED BY <2>2, <2>3
<1> QED BY <1>3, <1>4 DEF Knowing

(* A write lands, out of tab t's pass or out of a failed one.               *)
LEMMA LandKnows ==
  ASSUME CursorInv, TypeOK', NEW t \in Tab, NEW w \in Write, Land(w),
         UNCHANGED <<rows, removed, cursor, observed>>,
         \A u \in Tab : u # t => pass'[u] = pass[u],
         \/ pass'[t] = pass[t]
         \/ pass[t].step = "apply" /\ FewerWrites(pass[t], pass'[t], w)
  PROVE  Knowing'
<1>1. /\ NatDocs(remote) /\ NatDocs(remote') /\ (w.doc # None => w.doc.at \in Nat)
      /\ \A d \in Device : NatValues(rows[d]) /\ observed[d] \in Nat
                           /\ (cursor[d] # None => cursor[d].high \in Nat)
  <2>1. remote' \in Partial(Doc)
    BY DEF TypeOK
  <2>2. \A i \in DOMAIN remote' : remote'[i] \in Doc
    BY <2>1, ValuesIn
  <2> QED BY <2>2, Numbers, StampIsNat DEF CursorInv, NatDocs, Doc, Write
<1>2. ASSUME NEW d \in Device
      PROVE  LandsAs(remote, backdated[d], w, observed[d], remote', backdated'[d])
  BY DEF Land, LandsAs
<1>3. ASSUME NEW d \in Device PROVE StoreGood(d)'
  <2>1. /\ NoneHidden(rows[d], removed[d], remote, backdated[d], cursor[d])
        /\ NoneStranded(rows[d], remote, backdated[d], cursor[d])
        /\ CursorSeen(cursor[d], observed[d])
    BY DEF CursorInv, Knowing, StoreGood, CursorsSeen
  <2>2. /\ NoneHidden(rows[d], removed[d], remote', backdated'[d], cursor[d])
        /\ NoneStranded(rows[d], remote', backdated'[d], cursor[d])
    BY <1>1, <1>2, <2>1, LandKeepsStore
  <2> QED BY <2>2 DEF StoreGood
<1>4. ASSUME NEW u \in Tab PROVE TabGood(u)'
  <2> DEFINE d == HomeOf[u]
             p == pass[u]
             q == pass'[u]
  <2>1. /\ d \in Device /\ PassGood(rows[d], removed[d], remote, observed[d], backdated[d], p)
        /\ LandsAs(remote, backdated[d], w, observed[d], remote', backdated'[d])
        /\ p.step = "apply" => NatDocs(p.caught) /\ NatValues(p.pulls)
    BY <1>2, PassIs, Numbers DEF CursorInv, Knowing, TabGood
  <2>2. CASE q = p
    <3>1. p.step \in {"rows", "tombs"} =>
              ReadGood(rows[d], removed[d], remote', observed[d], backdated'[d], p)
      BY <1>1, <2>1, LandKeepsRead DEF PassGood
    <3>2. FewerWrites(p, p, w)
      BY DEF FewerWrites
    <3>3. p.step = "apply" =>
              ApplyGood(rows[d], removed[d], remote', observed[d], backdated'[d], p)
      BY <1>1, <2>1, <3>2, LandKeepsApply DEF PassGood
    <3> QED BY <2>1, <2>2, <3>1, <3>3 DEF PassGood, TabGood
  <2>3. CASE p.step = "apply" /\ FewerWrites(p, q, w)
    <3>1. q.step = "apply"
      BY <2>3 DEF FewerWrites
    <3>2. ApplyGood(rows[d], removed[d], remote', observed[d], backdated'[d], q)
      BY <1>1, <2>1, <2>3, LandKeepsApply DEF PassGood
    <3> QED BY <3>1, <3>2 DEF PassGood, TabGood
  <2> QED BY <2>2, <2>3
<1> QED BY <1>3, <1>4 DEF Knowing

(* Tab t's pass does something to its own device.                           *)
LEMMA PassStepKnows ==
  ASSUME OneTabEach, CursorInv, TypeOK', CursorsSeen', NEW t \in Tab, PassStep(t)
  PROVE  Knowing'
<1> DEFINE d == HomeOf[t]
           p == pass[t]
           q == pass'[t]
<1>0. /\ d \in Device
      /\ pass \in [Tab -> {Idle} \cup Fetching \cup Reading \cup Merging \cup Applying]
      /\ PassGood(rows[d], removed[d], remote, observed[d], backdated[d], p)
      /\ NoneHidden(rows[d], removed[d], remote, backdated[d], cursor[d])
      /\ NoneStranded(rows[d], remote, backdated[d], cursor[d])
      /\ CursorSeen(cursor[d], observed[d]) /\ PassSeen(p, observed[d])
      /\ PassWindow(p, cursor[d])
  BY PassIs DEF CursorInv, TypeOK, Knowing, TabGood, StoreGood, CursorsSeen, WindowsCurrent
<1>1. \A u \in Tab : u # t => pass'[u] = pass[u] /\ HomeOf[u] # d /\ HomeOf[u] \in Device
  BY PassStepKeeps, PassIs DEF OneTabEach, CursorInv
<1>2. /\ NatDocs(remote) /\ NatValues(rows[d]) /\ NatValues(tombs[d]) /\ observed[d] \in Nat
      /\ cursor[d] # None => cursor[d].high \in Nat
      /\ p.step = "tombs" =>
            /\ NatValues(p.local) /\ NatDocs(p.docs)
            /\ \A i \in DOMAIN p.docs : p.docs[i].deleted \in BOOLEAN
      /\ p.step = "apply" => NatDocs(p.caught) /\ NatValues(p.pulls)
  BY <1>0, Numbers DEF CursorInv
(* It is enough to look at that device and that pass.                       *)
<1>3. ASSUME UNCHANGED remote,
             \A e \in Device : e # d =>
                /\ rows'[e] = rows[e] /\ removed'[e] = removed[e] /\ cursor'[e] = cursor[e]
                /\ observed'[e] = observed[e] /\ backdated'[e] = backdated[e],
             PassGood(rows'[d], removed'[d], remote, observed'[d], backdated'[d], q),
             NoneHidden(rows'[d], removed'[d], remote, backdated'[d], cursor'[d]),
             NoneStranded(rows'[d], remote, backdated'[d], cursor'[d])
      PROVE  Knowing'
  <2>1. ASSUME NEW e \in Device PROVE StoreGood(e)'
    <3>1. CASE e = d
      BY <1>3, <3>1 DEF StoreGood
    <3>2. CASE e # d
      BY <1>3, <3>2 DEF StoreGood, CursorInv, Knowing
    <3> QED BY <3>1, <3>2
  <2>2. ASSUME NEW u \in Tab PROVE TabGood(u)'
    <3>1. CASE u = t
      BY <1>3, <3>1 DEF TabGood
    <3>2. CASE u # t
      BY <1>1, <1>3, <3>2 DEF TabGood, CursorInv, Knowing
    <3> QED BY <3>1, <3>2
  <2> QED BY <2>1, <2>2 DEF Knowing
<1>4. CASE BeginPass(t) \/ PassFails(t) \/ Crash(t)
  <2>1. UNCHANGED <<remote, rows, removed, cursor, observed, backdated>>
    BY <1>4 DEF BeginPass, PassFails, Crash
  <2>2. q.step \in {"idle", "fetch"}
    BY <1>0, <1>4 DEF BeginPass, PassFails, Crash, Idle
  <2>3. PassGood(rows[d], removed[d], remote, observed[d], backdated[d], q)
    BY <2>2 DEF PassGood
  <2> QED BY <1>0, <1>3, <2>1, <2>3
<1>5. CASE Fetch(t)
  <2>1. /\ observed'[d] \in Stamp
        /\ \A e \in Device : e # d => observed'[e] = observed[e]
        /\ \A i \in DOMAIN remote : remote[i].at <= observed'[d]
        /\ q.step = "rows"
        /\ q.docs = Only(remote, {i \in DOMAIN remote : InWindow(q.window, remote[i].at)})
        /\ q.caught = Only(q.docs, backdated[d])
        /\ ~q.window.full => p.read # None /\ q.window.since = p.read.high
        /\ UNCHANGED <<rows, removed, remote, cursor, backdated>>
    BY <1>5, FetchDoes DEF CursorInv
  <2>2. p.read = cursor[d]
    BY <1>0, <1>5 DEF Fetch, PassWindow
  <2>3. ReadGood(rows[d], removed[d], remote, observed'[d], backdated[d], q)
    BY <1>0, <1>2, <2>1, <2>2, StampIsNat, FetchKnows
  <2>4. PassGood(rows[d], removed[d], remote, observed'[d], backdated[d], q)
    BY <2>1, <2>3 DEF PassGood
  <2> QED BY <1>0, <1>3, <2>1, <2>4
<1>6. CASE ReadRows(t)
  <2>1. /\ q.step = "tombs" /\ q.window = p.window /\ q.docs = p.docs
        /\ q.caught = p.caught /\ q.local = rows[d] /\ p.step = "rows"
        /\ UNCHANGED <<remote, rows, removed, cursor, observed, backdated>>
    BY <1>0, <1>6 DEF ReadRows
  <2>2. ReadGood(rows[d], removed[d], remote, observed[d], backdated[d], q)
    BY <1>0, <2>1 DEF PassGood, ReadGood, Lost
  <2>3. LocalGood(rows[d], removed[d], observed[d], q)
    BY <2>1 DEF LocalGood, Twins
  <2>4. PassGood(rows[d], removed[d], remote, observed[d], backdated[d], q)
    BY <2>1, <2>2, <2>3 DEF PassGood
  <2> QED BY <1>0, <1>3, <2>1, <2>4
<1>7. CASE Merge(t)
  <2> DEFINE plan == mergeRecords(p.local, tombs[d], p.docs, p.at, Empty, p.window)
  <2>1. /\ q.step = "apply" /\ p.step = "tombs" /\ Merged(p, q, tombs[d], plan)
        /\ UNCHANGED <<remote, rows, removed, cursor, observed, backdated>>
    BY <1>0, <1>7 DEF Merge, Merged
  <2> HIDE DEF plan
  <2>2. ReadGood(rows[d], removed[d], remote, observed[d], backdated[d], p)
        /\ LocalGood(rows[d], removed[d], observed[d], p)
    BY <1>0, <2>1 DEF PassGood
  <2>3. ~p.window.full => cursor[d] # None /\ p.window.since = cursor[d].high
    BY <1>0, <2>1 DEF PassWindow
  <2>4. ApplyGood(rows[d], removed[d], remote, observed[d], backdated[d], q)
    BY <1>0, <1>2, <2>1, <2>2, <2>3, MergeKnows
  <2>5. PassGood(rows[d], removed[d], remote, observed[d], backdated[d], q)
    BY <2>1, <2>4 DEF PassGood
  <2> QED BY <1>0, <1>3, <2>1, <2>5
<1>8. CASE Push(t)
  <2>1. PICK w \in p.writes : Land(w) /\ pass' = [pass EXCEPT ![t].writes = @ \ {w}]
    BY <1>8 DEF Push
  <2>2. p \in Applying /\ p.step = "apply"
    BY <1>8, PassIs DEF Push, CursorInv
  <2>3. q = [p EXCEPT !.writes = @ \ {w}] /\ w \in Write
    BY <1>0, <2>1, <2>2 DEF Applying
  <2>4. FewerWrites(p, q, w)
    BY <2>2, <2>3 DEF FewerWrites, Applying
  <2>5. UNCHANGED <<rows, removed, cursor, observed>>
    BY <1>8 DEF Push
  <2> QED BY <1>1, <2>1, <2>2, <2>3, <2>4, <2>5, LandKnows
<1>9. ASSUME p.step = "apply"
      PROVE  p \in Applying /\ ApplyGood(rows[d], removed[d], remote, observed[d], backdated[d], p)
  BY <1>0, <1>9, PassIs DEF PassGood, CursorInv
<1>10. CASE PutPulls(t)
  <2>1. p.step = "apply" /\ p.writes = {}
    BY <1>10 DEF PutPulls, Pushed
  <2>2. /\ q = [p EXCEPT !.pulls = Empty]
        /\ rows'[d] = Put(rows[d], p.pulls) /\ removed'[d] = Without(removed[d], DOMAIN p.pulls)
        /\ \A e \in Device : e # d => rows'[e] = rows[e] /\ removed'[e] = removed[e]
        /\ UNCHANGED <<remote, cursor, observed, backdated>>
    BY <1>0, <1>10 DEF PutPulls, CursorInv, TypeOK
  <2>3. q.step = "apply" /\ PutBy(rows[d], removed[d], p, rows'[d], removed'[d], q)
    BY <1>9, <2>1, <2>2 DEF PutBy, Applying
  <2>4. ApplyGood(rows'[d], removed'[d], remote, observed[d], backdated[d], q)
    BY <1>2, <1>9, <2>1, <2>3, PutIsKnown
  <2>5. /\ NoneHidden(rows'[d], removed'[d], remote, backdated[d], cursor[d])
        /\ NoneStranded(rows'[d], remote, backdated[d], cursor[d])
    BY <1>0, <1>2, <1>9, <2>1, <2>3, PutKeepsStore
  <2>6. PassGood(rows'[d], removed'[d], remote, observed[d], backdated[d], q)
    BY <2>3, <2>4 DEF PassGood
  <2> QED BY <1>3, <2>2, <2>5, <2>6
<1>11. CASE DropRows(t)
  <2>1. p.step = "apply" /\ p.writes = {} /\ p.pulls = Empty
    BY <1>11 DEF DropRows, Pushed
  <2>2. /\ q = [p EXCEPT !.drops = {}]
        /\ rows'[d] = Without(rows[d], p.drops)
        /\ \A e \in Device : e # d => rows'[e] = rows[e]
        /\ UNCHANGED <<remote, removed, cursor, observed, backdated>>
    BY <1>0, <1>11 DEF DropRows, CursorInv, TypeOK
  <2>3. q.step = "apply" /\ DroppedBy(rows[d], p, rows'[d], q)
    BY <1>9, <2>1, <2>2 DEF DroppedBy, Applying
  <2>4. ApplyGood(rows'[d], removed[d], remote, observed[d], backdated[d], q)
    BY <1>2, <1>9, <2>1, <2>3, DropIsKnown
  <2>5. /\ NoneHidden(rows'[d], removed[d], remote, backdated[d], cursor[d])
        /\ NoneStranded(rows'[d], remote, backdated[d], cursor[d])
    BY <1>0, <1>2, <1>9, <2>1, <2>3, DropKeepsStore
  <2>6. PassGood(rows'[d], removed[d], remote, observed[d], backdated[d], q)
    BY <2>3, <2>4 DEF PassGood
  <2> QED BY <1>3, <2>2, <2>5, <2>6
<1>12. CASE WriteTombstones(t)
  <2>1. p.step = "apply"
    BY <1>12 DEF WriteTombstones, Pushed
  <2>2. /\ q = [p EXCEPT !.list = None]
        /\ UNCHANGED <<remote, rows, removed, cursor, observed, backdated>>
    BY <1>0, <1>12 DEF WriteTombstones
  <2>3. /\ q.step = "apply" /\ q.writes = p.writes /\ q.pulls = p.pulls
        /\ q.drops = p.drops /\ q.caught = p.caught
    BY <1>9, <2>1, <2>2 DEF Applying
  <2>4. ApplyGood(rows[d], removed[d], remote, observed[d], backdated[d], q)
    BY <1>9, <2>1, <2>3 DEF ApplyGood, CaughtGood, RemoteGood, RowsGood, PullsGood,
                            Outcome, Touches, WritesOn, Lost
  <2>5. PassGood(rows[d], removed[d], remote, observed[d], backdated[d], q)
    BY <2>3, <2>4 DEF PassGood
  <2> QED BY <1>0, <1>3, <2>2, <2>5
<1>13. CASE WriteCursor(t)
  <2>1. /\ p.step = "apply" /\ p.writes = {} /\ p.pulls = Empty /\ p.drops = {}
        /\ q = Idle /\ cursor'[d] = p.next
        /\ backdated'[d] = backdated[d]
              \ {i \in DOMAIN p.caught \cap DOMAIN remote : remote[i] = p.caught[i]}
        /\ \A e \in Device : e # d => cursor'[e] = cursor[e] /\ backdated'[e] = backdated[e]
        /\ UNCHANGED <<remote, rows, removed, observed>>
    BY <1>0, <1>13 DEF WriteCursor, Pushed, CursorInv, TypeOK
  <2>2. p.next.high \in Nat
    BY <1>9, <2>1, StampIsNat DEF Applying, Cursor
  <2>3. CASE p.next = None
    <3>1. /\ NoneHidden(rows[d], removed[d], remote, backdated'[d], cursor'[d])
          /\ NoneStranded(rows[d], remote, backdated'[d], cursor'[d])
      BY <2>1, <2>3 DEF NoneHidden, NoneStranded
    <3> QED BY <1>3, <2>1, <3>1 DEF PassGood, Idle
  <2>4. CASE p.next # None
    <3>1. p.next.high <= observed[d]
      BY <1>0, <2>1, <2>4 DEF PassSeen, CursorSeen
    <3>2. /\ NoneHidden(rows[d], removed[d], remote, backdated'[d], cursor'[d])
          /\ NoneStranded(rows[d], remote, backdated'[d], cursor'[d])
      BY <1>2, <1>9, <2>1, <2>2, <3>1, CursorKeepsStore
    <3> QED BY <1>3, <2>1, <3>2 DEF PassGood, Idle
  <2> QED BY <2>3, <2>4
<1> QED BY <1>4, <1>5, <1>6, <1>7, <1>8, <1>10, <1>11, <1>12, <1>13 DEF PassStep

LEMMA StepKnows ==
  ASSUME OneTabEach, CursorInv, TypeOK', CursorsSeen', [Next]_vars
  PROVE  Knowing'
<1>1. CASE Elsewhere
  <2>1. ASSUME NEW d \in Device, NEW i \in Id, Edit(d, i) \/ DeleteInTransaction(d, i)
        PROVE  Knowing'
    BY <2>1, UserKnows
  <2>2. ASSUME NEW t \in Tab, NEW i \in Id, DeleteRow(t, i)
        PROVE  Knowing'
    <3>1. HomeOf[t] \in Device
      BY PassIs DEF CursorInv
    <3> QED BY <2>2, <3>1, UserKnows
  <2>3. ASSUME NEW t \in Tab, StrayLands(t) PROVE Knowing'
    <3>1. PICK w \in stray[t] : Land(w)
      BY <2>3 DEF StrayLands
    <3>2. w \in Write
      BY DEF CursorInv, TypeOK
    <3>3. UNCHANGED <<rows, removed, cursor, observed, pass>>
      BY <2>3 DEF StrayLands
    <3> QED BY <3>1, <3>2, <3>3, LandKnows
  <2>4. ASSUME UNCHANGED <<rows, removed, remote, cursor, pass, observed, backdated>>
        PROVE  Knowing'
    BY <2>4 DEF CursorInv, Knowing, StoreGood, TabGood
  <2>5. ASSUME NEW t \in Tab, ReadTombstoneList(t) \/ PutTombstoneList(t) \/ StrayFails(t)
        PROVE  UNCHANGED <<rows, removed, remote, cursor, pass, observed, backdated>>
    BY <2>5 DEF ReadTombstoneList, PutTombstoneList, StrayFails
  <2>6. ASSUME Tick \/ UNCHANGED vars
        PROVE  UNCHANGED <<rows, removed, remote, cursor, pass, observed, backdated>>
    BY <2>6 DEF Tick, vars
  <2> QED BY <1>1, <2>1, <2>2, <2>3, <2>4, <2>5, <2>6 DEF Elsewhere
<1>2. ASSUME NEW t \in Tab, PassStep(t) PROVE Knowing'
  BY <1>2, PassStepKnows
<1> QED BY <1>1, <1>2, EveryStep

LEMMA InitCursorInv == Init => CursorInv
<1> SUFFICES ASSUME Init PROVE CursorInv
  OBVIOUS
<1>1. TypeOK
  BY InitTyped
<1>2. Past(0, now)
  BY RecordSyncAssumptions DEF Past, Init
<1>3. \A t \in Tab : pass[t] = Idle /\ stray[t] = {} /\ deletion[t] = NoDeletion /\ HomeOf[t] \in Device
  BY RecordSyncAssumptions DEF Init
<1>4. /\ \A d \in Device : /\ rows[d] = [i \in Shared |-> 0] /\ tombs[d] = Empty
                           /\ observed[d] = 0 /\ backdated[d] = {}
                           /\ cursor[d] # None => cursor[d].high = 0
      /\ remote = [i \in Shared |-> [at |-> 0, deleted |-> FALSE]]
  BY DEF Init
<1>5. EverythingPast
  BY <1>2, <1>3, <1>4 DEF EverythingPast, DevicePast, TabPast, PastValues, PastDocs, PastWrites,
                          PassPast, Idle, NoDeletion, Empty
<1>6. CursorsSeen /\ WindowsCurrent
  BY <1>3, <1>4 DEF CursorsSeen, WindowsCurrent, CursorSeen, PassSeen, PassWindow, Idle
<1>7. Knowing
  BY <1>3, <1>4 DEF Knowing, StoreGood, TabGood, PassGood, NoneHidden, NoneStranded, Shows, Idle
<1> QED BY <1>1, <1>5, <1>6, <1>7 DEF CursorInv

LEMMA StepCursorInv ==
  ClocksAgree /\ OneTabEach => (CursorInv /\ [Next]_vars => CursorInv')
<1> SUFFICES ASSUME ClocksAgree, OneTabEach, CursorInv, [Next]_vars PROVE CursorInv'
  OBVIOUS
<1>1. TypeOK'
  BY StepTyped DEF CursorInv
<1>2. EverythingPast'
  BY StepPast DEF CursorInv
<1>3. CursorsSeen'
  BY StepSeen DEF CursorInv
<1>4. WindowsCurrent'
  BY StepWindows DEF CursorInv
<1>5. Knowing'
  BY <1>1, <1>3, StepKnows
<1> QED BY <1>1, <1>2, <1>3, <1>4, <1>5 DEF CursorInv

LEMMA KnowingHolds == CursorInv => OnlyBackdatedHidden /\ UnsyncedAboveCursor
<1> SUFFICES ASSUME CursorInv PROVE OnlyBackdatedHidden /\ UnsyncedAboveCursor
  OBVIOUS
<1>1. \A d \in Device : /\ NoneHidden(rows[d], removed[d], remote, backdated[d], cursor[d])
                        /\ NoneStranded(rows[d], remote, backdated[d], cursor[d])
  BY DEF CursorInv, Knowing, StoreGood
<1> QED BY <1>1 DEF NoneHidden, NoneStranded, Shows, Reflected,
                    OnlyBackdatedHidden, UnsyncedAboveCursor

(* The pull cursor hides nothing but what landed backdated: for any number  *)
(* of devices, records, failing and closing tabs, while clocks agree and no *)
(* device has two tabs in the same pass.                                    *)
THEOREM CursorHidesNothing ==
  ASSUME ClocksAgree, OneTabEach
  PROVE  Spec => []OnlyBackdatedHidden
<1>1. Init => CursorInv
  BY InitCursorInv
<1>2. CursorInv /\ [Next]_vars => CursorInv'
  BY StepCursorInv
<1>3. CursorInv => OnlyBackdatedHidden
  BY KnowingHolds
<1> QED BY <1>1, <1>2, <1>3, PTL DEF Spec

(* A row the remote side lacks stays in reach of a windowed pass's push,    *)
(* under the same two hypotheses.                                           *)
THEOREM EditsNotStranded ==
  ASSUME ClocksAgree, OneTabEach
  PROVE  Spec => []UnsyncedAboveCursor
<1>1. Init => CursorInv
  BY InitCursorInv
<1>2. CursorInv /\ [Next]_vars => CursorInv'
  BY StepCursorInv
<1>3. CursorInv => UnsyncedAboveCursor
  BY KnowingHolds
<1> QED BY <1>1, <1>2, <1>3, PTL DEF Spec

-----------------------------------------------------------------------------
(***************************************************************************)
(* The merge on its own.  L are the local rows, T the tombstones, R the     *)
(* remote docs it was given.                                                *)
(***************************************************************************)

Mergeable(L, T, R) ==
    /\ \A i \in DOMAIN L : L[i] \in Nat
    /\ \A i \in DOMAIN T : T[i] \in Nat
    /\ \A i \in DOMAIN R : R[i].at \in Nat /\ R[i].deleted \in BOOLEAN

(* The plan of mergeRecords (merge.ts), over a full read or a windowed one, *)
(* puts no record on two lists that would undo each other: what is pulled   *)
(* is not pushed, deleted or purged; what is pushed is not deleted on       *)
(* either side; no tombstone is pushed and purged, and none is pushed and   *)
(* cleared as settled but a tombstone of a row an account-wide deletion in  *)
(* D takes.  So the order of a pass's writes, which runBounded leaves open, *)
(* does not matter.                                                         *)
THEOREM PlanConsistent ==
    ASSUME NEW L, NEW T, NEW R, NEW at \in Nat, NEW D, NEW window, Mergeable(L, T, R),
           \A i \in DOMAIN D : D[i] \in Nat
    PROVE  LET plan == mergeRecords(L, T, R, at, D, window) IN
           /\ plan.pullUpserts \cap
                (plan.pushUpserts \cup plan.pushTombstones
                    \cup plan.deleteLocal \cup plan.purgeRemote) = {}
           /\ plan.pushUpserts \cap
                (plan.pushTombstones \cup plan.deleteLocal \cup plan.purgeRemote) = {}
           /\ plan.pushTombstones \cap plan.purgeRemote = {}
           /\ plan.pushTombstones \cap plan.clearLocalTombstones \subseteq DOMAIN L
<1> DEFINE plan == mergeRecords(L, T, R, at, D, window)
           B == Buried(L, T, at)
           S == Stale(L, R, D)
<1>1. /\ B \subseteq DOMAIN T /\ B \cap DOMAIN L = {}
      /\ S \subseteq DOMAIN L /\ S \cap Dead(R) = {}
      /\ EditedElsewhere(B, T, R) \subseteq B \cap Live(R)
      /\ Dead(R) \subseteq DOMAIN R /\ Live(R) \subseteq DOMAIN R /\ Live(R) \cap Dead(R) = {}
      /\ Beaten(L, R) \subseteq Dead(R) \cap DOMAIN L
      /\ Beaten(L, R) \cap Resurrected(L, R) = {}
  BY DEF Buried, Stale, EditedElsewhere, Dead, Live, Beaten
<1>2. \A i \in DOMAIN L \cap Dead(R) : i \in Resurrected(L, R) <=> L[i] > R[i].at
  BY DEF Resurrected
<1>3. \A i \in DOMAIN L \cap DOMAIN R : ~(L[i] > R[i].at /\ R[i].at > L[i])
  BY DEF Mergeable
<1>4. /\ plan.pushUpserts = {i \in DOMAIN L \ S :
              IF i \in DOMAIN R THEN L[i] > R[i].at ELSE InWindow(window, L[i])}
      /\ plan.pushTombstones = S \cup ((B \cap Live(R)) \ EditedElsewhere(B, T, R))
              \cup {i \in B \ DOMAIN R : ~window.full}
      /\ plan.pullUpserts = EditedElsewhere(B, T, R) \cup (Live(R) \ (DOMAIN L \cup B))
              \cup {i \in (Live(R) \cap DOMAIN L) \ S : R[i].at > L[i]}
      /\ plan.deleteLocal = S \cup Beaten(L, R)
      /\ plan.purgeRemote = {i \in Dead(R) \ Resurrected(L, R) : Expired(R[i].at, at)}
      /\ plan.clearLocalTombstones = (DOMAIN T \ B) \cup (B \cap Dead(R))
              \cup EditedElsewhere(B, T, R) \cup {i \in B \ DOMAIN R : window.full}
  BY DEF mergeRecords
<1> HIDE DEF plan, B, S
<1>5. plan.pullUpserts \cap
        (plan.pushUpserts \cup plan.pushTombstones \cup plan.deleteLocal \cup plan.purgeRemote) = {}
  BY <1>1, <1>3, <1>4
<1>6. plan.pushUpserts \cap
        (plan.pushTombstones \cup plan.deleteLocal \cup plan.purgeRemote) = {}
  BY <1>1, <1>2, <1>4
<1>7. plan.pushTombstones \cap plan.purgeRemote = {}
  BY <1>1, <1>4
<1>8. plan.pushTombstones \cap plan.clearLocalTombstones \subseteq DOMAIN L
  BY <1>1, <1>4
<1> QED BY <1>5, <1>6, <1>7, <1>8 DEF plan

(* The lists of a plan over a full read, no account-wide deletion at work.  *)
LEMMA FullPlanIs ==
    ASSUME NEW L, NEW T, NEW R, NEW at, NEW plan, plan = mergeRecords(L, T, R, at, Empty, FullRead)
    PROVE  LET B == Buried(L, T, at) IN
           /\ plan.pushUpserts = {i \in DOMAIN L : i \in DOMAIN R => L[i] > R[i].at}
           /\ plan.pushTombstones = {i \in B \cap Live(R) : ~(R[i].at > T[i])}
           /\ plan.pullUpserts = {i \in B \cap Live(R) : R[i].at > T[i]}
                \cup (Live(R) \ (DOMAIN L \cup B)) \cup {i \in Live(R) \cap DOMAIN L : R[i].at > L[i]}
           /\ plan.deleteLocal = {i \in Dead(R) \cap DOMAIN L : ~(L[i] > R[i].at)}
           /\ plan.purgeRemote = {i \in Dead(R) : /\ ~(i \in DOMAIN L /\ L[i] > R[i].at)
                                                  /\ Expired(R[i].at, at)}
<1>1. /\ FullRead.full = TRUE /\ \A w : InWindow(FullRead, w)
      /\ Stale(L, R, Empty) = {}
  BY DEF FullRead, InWindow, Stale, Empty
<1>2. /\ Dead(R) = {i \in DOMAIN R : R[i].deleted} /\ Live(R) = DOMAIN R \ Dead(R)
  BY DEF Dead, Live
<1> QED BY <1>1, <1>2 DEF mergeRecords, EditedElsewhere, Beaten, Resurrected

(* The remote docs once every one of a pass's writes landed.                *)
AllLanded(docs, writes, after) ==
    /\ \A w \in writes :
        IF w.doc = None THEN w.id \notin DOMAIN after
                        ELSE w.id \in DOMAIN after /\ after[w.id] = w.doc
    /\ \A i : (\A w \in writes : w.id # i) =>
        /\ i \in DOMAIN after <=> i \in DOMAIN docs
        /\ i \in DOMAIN docs => after[i] = docs[i]

(* A full pass that nothing interfered with settles: merged again with what *)
(* it left (syncEditableCollection's local and remote writes), whatever is  *)
(* on the tombstone list by then, the plan writes nothing, here or there.   *)
THEOREM PlanSettles ==
    ASSUME NEW L, NEW T, NEW R, NEW at \in Nat, Mergeable(L, T, R),
           NEW plan, plan = mergeRecords(L, T, R, at, Empty, FullRead),
           NEW L2, L2 = Put(Without(L, plan.deleteLocal), Pulled(R, plan)),
           NEW R2, AllLanded(R, RemoteWrites(L, T, plan), R2),
           NEW T2, NEW next, next = mergeRecords(L2, T2, R2, at, Empty, FullRead)
    PROVE  /\ next.pushUpserts = {} /\ next.pushTombstones = {} /\ next.purgeRemote = {}
           /\ next.pullUpserts = {} /\ next.deleteLocal = {}
<1> DEFINE B == Buried(L, T, at)
<1>0. /\ B = {i \in DOMAIN T : i \notin DOMAIN L /\ ~Expired(T[i], at)}
      /\ Dead(R) = {i \in DOMAIN R : R[i].deleted} /\ Live(R) = DOMAIN R \ Dead(R)
  BY DEF Buried, Dead, Live
<1>1. /\ plan.pushUpserts = {i \in DOMAIN L : i \in DOMAIN R => L[i] > R[i].at}
      /\ plan.pushTombstones = {i \in B \cap Live(R) : ~(R[i].at > T[i])}
      /\ plan.pullUpserts = {i \in B \cap Live(R) : R[i].at > T[i]}
              \cup (Live(R) \ (DOMAIN L \cup B)) \cup {i \in Live(R) \cap DOMAIN L : R[i].at > L[i]}
      /\ plan.deleteLocal = {i \in Dead(R) \cap DOMAIN L : ~(L[i] > R[i].at)}
      /\ plan.purgeRemote = {i \in Dead(R) : /\ ~(i \in DOMAIN L /\ L[i] > R[i].at)
                                             /\ Expired(R[i].at, at)}
  BY FullPlanIs
<1> HIDE DEF B
<1>2. /\ DOMAIN L2 = (DOMAIN L \ plan.deleteLocal) \cup plan.pullUpserts
      /\ \A i \in DOMAIN L2 : L2[i] = IF i \in plan.pullUpserts THEN R[i].at ELSE L[i]
  BY DEF Put, Without, Pulled
<1> DEFINE W == RemoteWrites(L, T, plan)
<1>w. /\ \A i \in plan.pushUpserts : SetDoc(i, L[i], FALSE) \in W
      /\ \A i \in plan.pushTombstones : SetDoc(i, T[i], TRUE) \in W
      /\ \A i \in plan.purgeRemote : DeleteDoc(i) \in W
  BY DEF RemoteWrites
<1>d. /\ \A i, a, b : SetDoc(i, a, b).id = i /\ SetDoc(i, a, b).doc = [at |-> a, deleted |-> b]
      /\ \A i : DeleteDoc(i).id = i /\ DeleteDoc(i).doc = None
  BY DEF SetDoc, DeleteDoc
<1>i. \A w \in W : w.id \in plan.pushUpserts \cup plan.pushTombstones \cup plan.purgeRemote
  <2> SUFFICES ASSUME NEW w \in W
               PROVE  w.id \in plan.pushUpserts \cup plan.pushTombstones \cup plan.purgeRemote
    OBVIOUS
  <2>1. \/ \E i \in plan.pushUpserts : w = SetDoc(i, L[i], FALSE)
        \/ \E i \in plan.pushTombstones : w = SetDoc(i, T[i], TRUE)
        \/ \E i \in plan.purgeRemote : w = DeleteDoc(i)
    BY DEF RemoteWrites
  <2>2. CASE \E i \in plan.pushUpserts : w = SetDoc(i, L[i], FALSE)
    <3>1. PICK i \in plan.pushUpserts : w = SetDoc(i, L[i], FALSE)
      BY <2>2
    <3> QED BY <1>d, <3>1 DEF SetDoc
  <2>3. CASE \E i \in plan.pushTombstones : w = SetDoc(i, T[i], TRUE)
    <3>1. PICK i \in plan.pushTombstones : w = SetDoc(i, T[i], TRUE)
      BY <2>3
    <3> QED BY <1>d, <3>1 DEF SetDoc
  <2>4. CASE \E i \in plan.purgeRemote : w = DeleteDoc(i)
    BY <2>4, <1>d
  <2> QED BY <2>1, <2>2, <2>3, <2>4
<1> HIDE DEF W
<1>l. /\ \A w \in W : IF w.doc = None THEN w.id \notin DOMAIN R2
                        ELSE w.id \in DOMAIN R2 /\ R2[w.id] = w.doc
      /\ \A i : (\A w \in W : w.id # i) =>
            (i \in DOMAIN R2 <=> i \in DOMAIN R) /\ (i \in DOMAIN R => R2[i] = R[i])
  BY DEF AllLanded, W
<1>r. /\ \A i \in plan.pushUpserts :
            i \in DOMAIN R2 /\ R2[i].at = L[i] /\ R2[i].deleted = FALSE
      /\ \A i \in plan.pushTombstones :
            i \in DOMAIN R2 /\ R2[i].at = T[i] /\ R2[i].deleted = TRUE
      /\ \A i \in plan.purgeRemote : i \notin DOMAIN R2
      /\ \A i : i \notin plan.pushUpserts \cup plan.pushTombstones \cup plan.purgeRemote =>
            (i \in DOMAIN R2 <=> i \in DOMAIN R) /\ (i \in DOMAIN R => R2[i] = R[i])
  <2>1. \A i \in plan.pushUpserts : L[i] \in Nat
    BY <1>1 DEF Mergeable
  <2>2. \A i \in plan.pushTombstones : T[i] \in Nat
    BY <1>0, <1>1 DEF Mergeable
  <2>3. ASSUME NEW i, NEW a \in Nat, NEW b \in BOOLEAN, SetDoc(i, a, b) \in W
        PROVE  i \in DOMAIN R2 /\ R2[i].at = a /\ R2[i].deleted = b
    <3>1. SetDoc(i, a, b).id = i /\ SetDoc(i, a, b).doc = [at |-> a, deleted |-> b]
      BY <1>d
    <3>2. [at |-> a, deleted |-> b] # None
      BY RecordSyncAssumptions
    <3>3. i \in DOMAIN R2 /\ R2[i] = [at |-> a, deleted |-> b]
      BY <1>l, <2>3, <3>1, <3>2
    <3> QED BY <3>3
  <2>4. \A i \in plan.purgeRemote : i \notin DOMAIN R2
    BY <1>w, <1>d, <1>l
  <2>5. \A i : i \notin plan.pushUpserts \cup plan.pushTombstones \cup plan.purgeRemote =>
            (i \in DOMAIN R2 <=> i \in DOMAIN R) /\ (i \in DOMAIN R => R2[i] = R[i])
    BY <1>i, <1>l
  <2> QED BY <1>w, <2>1, <2>2, <2>3, <2>4, <2>5
<1>s. /\ plan.pushUpserts \cap plan.pushTombstones = {}
      /\ plan.pushUpserts \subseteq DOMAIN L
      /\ \A i \in DOMAIN R2 : i \notin plan.purgeRemote
  BY <1>0, <1>1, <1>r
(* Every row left here is live there with the same stamp,                   *)
<1>3. \A i \in DOMAIN L2 : i \in DOMAIN R2 /\ R2[i].deleted = FALSE /\ R2[i].at = L2[i]
  <2> SUFFICES ASSUME NEW i \in DOMAIN L2
               PROVE  i \in DOMAIN R2 /\ R2[i].deleted = FALSE /\ R2[i].at = L2[i]
    OBVIOUS
  <2>1. CASE i \in plan.pullUpserts
    <3>1. /\ i \in Live(R) /\ i \in DOMAIN R /\ R[i].deleted = FALSE /\ L2[i] = R[i].at
          /\ i \notin plan.purgeRemote
      BY <1>0, <1>1, <1>2, <2>1 DEF Mergeable
    <3>2. i \notin plan.pushUpserts \cup plan.pushTombstones
      BY <1>0, <1>1, <2>1 DEF Mergeable
    <3> QED BY <1>r, <3>1, <3>2
  <2>2. CASE i \notin plan.pullUpserts
    <3>1. i \in DOMAIN L /\ i \notin plan.deleteLocal /\ L2[i] = L[i]
      BY <1>2, <2>2
    <3>2. CASE i \in plan.pushUpserts
      BY <1>r, <3>1, <3>2
    <3>3. CASE i \notin plan.pushUpserts
      <4>1. i \in DOMAIN R /\ R[i].deleted = FALSE /\ R[i].at = L[i]
        BY <1>0, <1>1, <2>2, <3>1, <3>3 DEF Mergeable
      <4>2. i \notin plan.purgeRemote /\ i \notin plan.pushTombstones
        BY <1>0, <1>1, <3>1, <4>1
      <4> QED BY <1>r, <3>1, <3>3, <4>1, <4>2
    <3> QED BY <3>2, <3>3
  <2> QED BY <2>1, <2>2
(* and every doc left there is live here, or a tombstone that is not due.   *)
<1>4. \A i \in DOMAIN R2 : IF R2[i].deleted THEN ~Expired(R2[i].at, at) ELSE i \in DOMAIN L2
  <2> SUFFICES ASSUME NEW i \in DOMAIN R2
               PROVE  IF R2[i].deleted THEN ~Expired(R2[i].at, at) ELSE i \in DOMAIN L2
    OBVIOUS
  <2>1. CASE i \in plan.pushUpserts
    <3>1. i \in DOMAIN L /\ i \notin plan.deleteLocal
      BY <1>0, <1>1, <2>1
    <3> QED BY <1>2, <1>r, <2>1, <3>1
  <2>2. CASE i \in plan.pushTombstones \ plan.pushUpserts
    BY <1>0, <1>1, <1>r, <2>2
  <2>3. CASE i \notin plan.pushTombstones \cup plan.pushUpserts
    <3>1. R2[i] = R[i] /\ i \in DOMAIN R /\ i \notin plan.purgeRemote
      BY <1>r, <1>s, <2>3
    <3>2. CASE R[i].deleted
      <4>1. ~(i \in DOMAIN L /\ L[i] > R[i].at)
        BY <1>1, <2>3, <3>1
      <4> QED BY <1>0, <1>1, <3>1, <3>2, <4>1
    <3>3. CASE ~R[i].deleted
      <4>1. i \in DOMAIN L \/ i \in plan.pullUpserts
        BY <1>0, <1>1, <2>3, <3>1, <3>3
      <4>2. i \notin plan.deleteLocal
        BY <1>0, <1>1, <3>3
      <4> QED BY <1>2, <3>1, <3>3, <4>1, <4>2
    <3> QED BY <3>2, <3>3
  <2> QED BY <2>1, <2>2, <2>3
(* So nothing is left to push, pull, delete or purge.                       *)
<1>5. \A i \in DOMAIN L2 : L2[i] \in Nat
  BY <1>2, <1>0, <1>1 DEF Mergeable
<1>6. /\ Dead(R2) = {i \in DOMAIN R2 : R2[i].deleted} /\ Live(R2) = DOMAIN R2 \ Dead(R2)
      /\ Live(R2) = DOMAIN L2 /\ Dead(R2) \cap DOMAIN L2 = {}
      /\ Buried(L2, T2, at) \cap DOMAIN L2 = {}
  BY <1>3, <1>4 DEF Dead, Live, Buried
<1>7. \A i \in DOMAIN L2 : ~(L2[i] > R2[i].at) /\ ~(R2[i].at > L2[i])
  BY <1>3, <1>5
<1> DEFINE B2 == Buried(L2, T2, at)
<1>8. /\ next.pushUpserts \subseteq {i \in DOMAIN L2 : i \in DOMAIN R2 => L2[i] > R2[i].at}
      /\ next.pushTombstones \subseteq B2 \cap Live(R2)
      /\ next.pullUpserts \subseteq (B2 \cap Live(R2)) \cup (Live(R2) \ DOMAIN L2)
              \cup {i \in Live(R2) \cap DOMAIN L2 : R2[i].at > L2[i]}
      /\ next.deleteLocal \subseteq Dead(R2) \cap DOMAIN L2
      /\ next.purgeRemote \subseteq {i \in Dead(R2) : Expired(R2[i].at, at)}
  BY FullPlanIs
<1> HIDE DEF B2
<1>9. /\ next.pushUpserts = {} /\ next.pushTombstones = {} /\ next.purgeRemote = {}
      /\ next.pullUpserts = {} /\ next.deleteLocal = {}
  <2>1. B2 \cap DOMAIN L2 = {}
    BY <1>6 DEF B2
  <2> QED BY <1>3, <1>4, <1>6, <1>7, <1>8, <2>1
<1> QED BY <1>9

-----------------------------------------------------------------------------
(***************************************************************************)
(* Where the passes lead.  First the writes of one pass, all landed.        *)
(***************************************************************************)

(* Numbers in a set that is not empty have a least one.                     *)
LEMMA Least ==
  ASSUME NEW T \in SUBSET Nat, T # {}
  PROVE  \E m \in T : \A n \in T : m <= n
<1> DEFINE R == OpToRel(<, Nat)
<1>1. IsWellFoundedOn(R, Nat)
  BY NatLessThanWellFounded
<1>2. PICK m \in T : \A n \in T : ~(<<n, m>> \in R)
  <2> HIDE DEF R
  <2> QED BY <1>1, WFMin
<1>3. \A n \in T : ~(n < m)
  BY <1>2 DEF OpToRel
<1> QED BY <1>3

(* Landed in any order: each write adds to what landed before it.           *)
LEMMA LandsOneByOne ==
    ASSUME NEW docs, NEW writes, NEW after, AllLanded(docs, writes, after),
           NEW w, \A v \in writes : v.id # w.id
    PROVE  AllLanded(docs, writes \cup {w}, Landed(after, w))
<1>1. CASE w.doc = None
  <2>1. /\ DOMAIN Landed(after, w) = DOMAIN after \ {w.id}
        /\ \A i \in DOMAIN after \ {w.id} : Landed(after, w)[i] = after[i]
    BY <1>1, WithoutIs DEF Landed
  <2> QED BY <1>1, <2>1 DEF AllLanded
<1>2. CASE w.doc # None
  <2> DEFINE g == [i \in {w.id} |-> w.doc]
  <2>0. DOMAIN g = {w.id} /\ g[w.id] = w.doc
    OBVIOUS
  <2>1. /\ DOMAIN Landed(after, w) = DOMAIN after \cup {w.id}
        /\ Landed(after, w)[w.id] = w.doc
        /\ \A i \in DOMAIN after \ {w.id} : Landed(after, w)[i] = after[i]
    <3>1. Landed(after, w) = Put(after, g)
      BY <1>2 DEF Landed
    <3>2. /\ DOMAIN Put(after, g) = DOMAIN after \cup DOMAIN g
          /\ \A i \in DOMAIN g : Put(after, g)[i] = g[i]
          /\ \A i \in DOMAIN after \ DOMAIN g : Put(after, g)[i] = after[i]
      <4> HIDE DEF g
      <4> QED BY PutIs
    <3> HIDE DEF g
    <3> QED BY <2>0, <3>1, <3>2
  <2> QED BY <1>2, <2>1 DEF AllLanded
<1> QED BY <1>1, <1>2

LEMMA LandedAllIs ==
    ASSUME NEW docs, NEW writes, \A v, w \in writes : v.id = w.id => v = w
    PROVE  AllLanded(docs, writes, LandedAll(docs, writes))
<1> DEFINE gone == {w.id : w \in {x \in writes : x.doc = None}}
           set  == {w.id : w \in {x \in writes : x.doc # None}}
           after == LandedAll(docs, writes)
<1>1. /\ DOMAIN after = (DOMAIN docs \cup set) \ gone
      /\ \A i \in (DOMAIN docs \cup set) \ gone :
            after[i] = IF i \in set THEN (CHOOSE w \in writes : w.id = i).doc ELSE docs[i]
  BY DEF LandedAll
<1>2. \A w \in writes : (CHOOSE v \in writes : v.id = w.id) = w
  OBVIOUS
<1>3. \A w \in writes : IF w.doc = None THEN w.id \in gone ELSE w.id \in set /\ w.id \notin gone
  OBVIOUS
<1>4. \A i : (\A w \in writes : w.id # i) => i \notin gone /\ i \notin set
  OBVIOUS
<1> HIDE DEF gone, set, after
<1>5. AllLanded(docs, writes, after)
  BY <1>1, <1>2, <1>3, <1>4 DEF AllLanded
<1> QED BY <1>5 DEF after

(* The writes of a plan: at most one for a record.                          *)
WritesOf(W, plan, L, T) ==
    /\ \A i \in plan.pushUpserts : SetDoc(i, L[i], FALSE) \in W
    /\ \A i \in plan.pushTombstones : SetDoc(i, T[i], TRUE) \in W
    /\ \A i \in plan.purgeRemote : DeleteDoc(i) \in W
    /\ \A w \in W : w.id \in plan.pushUpserts \cup plan.pushTombstones \cup plan.purgeRemote
    /\ \A v, w \in W : v.id = w.id => v = w

LEMMA WritesAre ==
    ASSUME NEW L, NEW T, NEW R, NEW at \in Nat, Mergeable(L, T, R),
           NEW plan, plan = mergeRecords(L, T, R, at, Empty, FullRead),
           NEW W, W = RemoteWrites(L, T, plan)
    PROVE  WritesOf(W, plan, L, T)
<1>1. /\ \A i \in plan.pushUpserts : SetDoc(i, L[i], FALSE) \in W
      /\ \A i \in plan.pushTombstones : SetDoc(i, T[i], TRUE) \in W
      /\ \A i \in plan.purgeRemote : DeleteDoc(i) \in W
  BY DEF RemoteWrites
<1>2. /\ \A i, a, b : SetDoc(i, a, b).id = i
      /\ \A i : DeleteDoc(i).id = i
  BY DEF SetDoc, DeleteDoc
<1>3. \A w \in W : \/ w.id \in plan.pushUpserts /\ w = SetDoc(w.id, L[w.id], FALSE)
                   \/ w.id \in plan.pushTombstones /\ w = SetDoc(w.id, T[w.id], TRUE)
                   \/ w.id \in plan.purgeRemote /\ w = DeleteDoc(w.id)
  <2> SUFFICES ASSUME NEW w \in W
               PROVE  \/ w.id \in plan.pushUpserts /\ w = SetDoc(w.id, L[w.id], FALSE)
                      \/ w.id \in plan.pushTombstones /\ w = SetDoc(w.id, T[w.id], TRUE)
                      \/ w.id \in plan.purgeRemote /\ w = DeleteDoc(w.id)
    OBVIOUS
  <2>1. \/ \E i \in plan.pushUpserts : w = SetDoc(i, L[i], FALSE)
        \/ \E i \in plan.pushTombstones : w = SetDoc(i, T[i], TRUE)
        \/ \E i \in plan.purgeRemote : w = DeleteDoc(i)
    BY DEF RemoteWrites
  <2>2. CASE \E i \in plan.pushUpserts : w = SetDoc(i, L[i], FALSE)
    <3>1. PICK i \in plan.pushUpserts : w = SetDoc(i, L[i], FALSE)
      BY <2>2
    <3>2. w.id = i
      BY <3>1 DEF SetDoc
    <3> QED BY <3>1, <3>2
  <2>3. CASE \E i \in plan.pushTombstones : w = SetDoc(i, T[i], TRUE)
    <3>1. PICK i \in plan.pushTombstones : w = SetDoc(i, T[i], TRUE)
      BY <2>3
    <3>2. w.id = i
      BY <3>1 DEF SetDoc
    <3> QED BY <3>1, <3>2
  <2>4. CASE \E i \in plan.purgeRemote : w = DeleteDoc(i)
    BY <1>2, <2>4
  <2> QED BY <2>1, <2>2, <2>3, <2>4
<1>4. /\ plan.pushUpserts \cap plan.pushTombstones = {}
      /\ plan.pushUpserts \cap plan.purgeRemote = {}
      /\ plan.pushTombstones \cap plan.purgeRemote = {}
  <2>1. \A i \in DOMAIN Empty : Empty[i] \in Nat
    BY DEF Empty
  <2>2. /\ plan.pushUpserts \cap
              (plan.pushTombstones \cup plan.deleteLocal \cup plan.purgeRemote) = {}
        /\ plan.pushTombstones \cap plan.purgeRemote = {}
    BY <2>1, PlanConsistent
  <2> QED BY <2>2
<1>5. \A v, w \in W : v.id = w.id => v = w
  BY <1>3, <1>4
<1> QED BY <1>1, <1>3, <1>5 DEF WritesOf

(***************************************************************************)
(* One undisturbed pass.                                                    *)
(***************************************************************************)

Holding == [rows : [Device -> Partial(Stamp)], tombs : [Device -> Partial(Stamp)],
            remote : Partial(Doc)]

(* What device d's pass pushes of record i, or purges.                      *)
Newer(s, d, i) ==
    i \in DOMAIN s.rows[d] /\ (i \in DOMAIN s.remote => s.rows[d][i] > s.remote[i].at)

Pending(s, d, i) == i \in Buried(s.rows[d], s.tombs[d], Clock(d))

Takes(s, d, i) ==
    Pending(s, d, i) /\ i \in Live(s.remote) /\ ~(s.remote[i].at > s.tombs[d][i])

Ages(s, d, i) == i \in Dead(s.remote) /\ ~Newer(s, d, i) /\ Expired(s.remote[i].at, Clock(d))

SameDoc(docs, after, i) ==
    /\ i \in DOMAIN after <=> i \in DOMAIN docs
    /\ i \in DOMAIN docs => after[i] = docs[i]

DocAfter(s, d, docs, i) ==
    /\ Newer(s, d, i) => i \in DOMAIN docs /\ docs[i] = [at |-> s.rows[d][i], deleted |-> FALSE]
    /\ Takes(s, d, i) => i \in DOMAIN docs /\ docs[i] = [at |-> s.tombs[d][i], deleted |-> TRUE]
    /\ Ages(s, d, i) => i \notin DOMAIN docs
    /\ ~Newer(s, d, i) /\ ~Takes(s, d, i) /\ ~Ages(s, d, i) => SameDoc(s.remote, docs, i)

LEMMA HeldIs ==
    ASSUME NEW s \in Holding, NEW d \in Device
    PROVE  /\ s.rows[d] \in Partial(Stamp) /\ s.tombs[d] \in Partial(Stamp) /\ s.remote \in Partial(Doc)
           /\ \A i \in DOMAIN s.rows[d] : i \in Id /\ s.rows[d][i] \in Stamp /\ s.rows[d][i] \in Nat
           /\ \A i \in DOMAIN s.tombs[d] : i \in Id /\ s.tombs[d][i] \in Stamp /\ s.tombs[d][i] \in Nat
           /\ \A i \in DOMAIN s.remote : /\ i \in Id /\ s.remote[i] \in Doc
                                         /\ s.remote[i].at \in Stamp /\ s.remote[i].at \in Nat
                                         /\ s.remote[i].deleted \in BOOLEAN
           /\ Mergeable(s.rows[d], s.tombs[d], s.remote)
<1>1. s.rows[d] \in Partial(Stamp) /\ s.tombs[d] \in Partial(Stamp) /\ s.remote \in Partial(Doc)
  BY DEF Holding
<1>2. \A v \in Doc : v.at \in Stamp /\ v.deleted \in BOOLEAN
  BY DEF Doc
<1> QED BY <1>1, <1>2, ValuesIn, StampIsNat DEF Mergeable

LEMMA SettleRemote ==
    ASSUME TypeOK, NEW s \in Holding, NEW d \in Device
    PROVE  \A i : DocAfter(s, d, Settle(s, d).remote, i)
<1> DEFINE L == s.rows[d]
           T == s.tombs[d]
           R == s.remote
           plan == mergeRecords(L, T, R, Clock(d), Empty, FullRead)
           W == RemoteWrites(L, T, plan)
           docs == LandedAll(R, W)
<1>1. Settle(s, d).remote = docs
  BY DEF Settle
<1>2. Mergeable(L, T, R) /\ Clock(d) \in Nat
  BY HeldIs, ClockIsStamp, StampIsNat
<1>w. WritesOf(W, plan, L, T)
  <2>1. /\ plan = mergeRecords(L, T, R, Clock(d), Empty, FullRead)
        /\ W = RemoteWrites(L, T, plan)
    OBVIOUS
  <2> HIDE DEF L, T, R, W, plan
  <2> QED BY <1>2, <2>1, WritesAre
<1>3. /\ \A i \in plan.pushUpserts : SetDoc(i, L[i], FALSE) \in W
      /\ \A i \in plan.pushTombstones : SetDoc(i, T[i], TRUE) \in W
      /\ \A i \in plan.purgeRemote : DeleteDoc(i) \in W
      /\ \A w \in W : w.id \in plan.pushUpserts \cup plan.pushTombstones \cup plan.purgeRemote
      /\ \A v, w \in W : v.id = w.id => v = w
  <2> HIDE DEF L, T, R, W, plan
  <2> QED BY <1>w DEF WritesOf
<1>4. AllLanded(R, W, docs)
  <2> HIDE DEF W
  <2> QED BY <1>3, LandedAllIs
<1>5. /\ \A i : i \in plan.pushUpserts <=> Newer(s, d, i)
      /\ \A i : i \in plan.pushTombstones <=> Takes(s, d, i)
      /\ \A i : i \in plan.purgeRemote <=> Ages(s, d, i)
  <2>1. /\ plan.pushUpserts = {i \in DOMAIN L : i \in DOMAIN R => L[i] > R[i].at}
        /\ plan.pushTombstones = {i \in Buried(L, T, Clock(d)) \cap Live(R) : ~(R[i].at > T[i])}
        /\ plan.purgeRemote = {i \in Dead(R) : /\ ~(i \in DOMAIN L /\ L[i] > R[i].at)
                                               /\ Expired(R[i].at, Clock(d))}
    <3> HIDE DEF L, T, R, plan
    <3> QED BY FullPlanIs DEF plan
  <2>2. Dead(R) \subseteq DOMAIN R
    BY DEF Dead
  <2> QED BY <2>1, <2>2 DEF Newer, Takes, Pending, Ages
<1>6. /\ \A i, a, b : SetDoc(i, a, b).id = i /\ SetDoc(i, a, b).doc = [at |-> a, deleted |-> b]
      /\ \A i : DeleteDoc(i).id = i /\ DeleteDoc(i).doc = None
  BY DEF SetDoc, DeleteDoc
<1>7. ASSUME NEW i, NEW a \in Nat, NEW b \in BOOLEAN, SetDoc(i, a, b) \in W
      PROVE  i \in DOMAIN docs /\ docs[i] = [at |-> a, deleted |-> b]
  <2>1. SetDoc(i, a, b).id = i /\ SetDoc(i, a, b).doc = [at |-> a, deleted |-> b]
    BY <1>6
  <2>2. [at |-> a, deleted |-> b] # None
    BY RecordSyncAssumptions
  <2> HIDE DEF W, docs
  <2> QED BY <1>4, <1>7, <2>1, <2>2 DEF AllLanded
<1> HIDE DEF W, docs, plan
<1>8. ASSUME NEW i
      PROVE  DocAfter(s, d, docs, i)
  <2>1. ASSUME Newer(s, d, i)
        PROVE  i \in DOMAIN docs /\ docs[i] = [at |-> s.rows[d][i], deleted |-> FALSE]
    <3>1. SetDoc(i, L[i], FALSE) \in W /\ L[i] \in Nat
      BY <1>2, <1>3, <1>5, <2>1 DEF Newer, Mergeable
    <3> QED BY <1>7, <3>1
  <2>2. ASSUME Takes(s, d, i)
        PROVE  i \in DOMAIN docs /\ docs[i] = [at |-> s.tombs[d][i], deleted |-> TRUE]
    <3>1. SetDoc(i, T[i], TRUE) \in W /\ T[i] \in Nat
      BY <1>2, <1>3, <1>5, <2>2 DEF Takes, Pending, Buried, Mergeable
    <3> QED BY <1>7, <3>1
  <2>3. ASSUME Ages(s, d, i)
        PROVE  i \notin DOMAIN docs
    <3>1. DeleteDoc(i) \in W
      BY <1>3, <1>5, <2>3
    <3> QED BY <1>4, <1>6, <3>1 DEF AllLanded
  <2>4. ASSUME ~Newer(s, d, i), ~Takes(s, d, i), ~Ages(s, d, i)
        PROVE  SameDoc(R, docs, i)
    <3>1. \A w \in W : w.id # i
      BY <1>3, <1>5, <2>4
    <3> QED BY <1>4, <3>1 DEF AllLanded, SameDoc
  <2> QED BY <2>1, <2>2, <2>3, <2>4 DEF DocAfter
<1> QED BY <1>1, <1>8

(* After its pass the device holds what the remote side does.               *)
LEMMA SettleRows ==
    ASSUME TypeOK, NEW s \in Holding, NEW d \in Device
    PROVE  Settle(s, d).rows[d] = LiveRows(Settle(s, d).remote)
<1> DEFINE L == s.rows[d]
           T == s.tombs[d]
           R == s.remote
           plan == mergeRecords(L, T, R, Clock(d), Empty, FullRead)
           B == Buried(L, T, Clock(d))
           docs == Settle(s, d).remote
           after == Without(Put(L, Pulled(R, plan)), plan.deleteLocal)
<1>1. Settle(s, d).rows[d] = after
  <2>1. Settle(s, d).rows = [s.rows EXCEPT ![d] = after]
    BY DEF Settle
  <2>2. d \in DOMAIN s.rows
    BY DEF Holding
  <2> QED BY <2>1, <2>2
<1>2. /\ \A i \in DOMAIN L : L[i] \in Nat
      /\ \A i \in DOMAIN T : T[i] \in Nat
      /\ \A i \in DOMAIN R : R[i].at \in Nat /\ R[i].deleted \in BOOLEAN
  BY HeldIs
<1>3. \A i : DocAfter(s, d, docs, i)
  BY SettleRemote
<1>4. /\ plan.pullUpserts = {i \in B \cap Live(R) : R[i].at > T[i]}
           \cup (Live(R) \ (DOMAIN L \cup B)) \cup {i \in Live(R) \cap DOMAIN L : R[i].at > L[i]}
      /\ plan.deleteLocal = {i \in Dead(R) \cap DOMAIN L : ~(L[i] > R[i].at)}
  <2>1. plan = mergeRecords(L, T, R, Clock(d), Empty, FullRead)
    OBVIOUS
  <2> HIDE DEF L, T, R, plan
  <2> QED BY <2>1, FullPlanIs DEF B
<1>5. /\ DOMAIN after = (DOMAIN L \cup plan.pullUpserts) \ plan.deleteLocal
      /\ \A i \in DOMAIN after : after[i] = IF i \in plan.pullUpserts THEN R[i].at ELSE L[i]
      /\ after = [i \in DOMAIN after |-> after[i]]
  <2> HIDE DEF L, R, plan
  <2> QED BY DEF Put, Without, Pulled
<1>6. /\ Dead(R) = {i \in DOMAIN R : R[i].deleted} /\ Live(R) = DOMAIN R \ Dead(R)
      /\ Dead(docs) = {i \in DOMAIN docs : docs[i].deleted} /\ Live(docs) = DOMAIN docs \ Dead(docs)
      /\ B = {i \in DOMAIN T : i \notin DOMAIN L /\ ~Expired(T[i], Clock(d))}
  BY DEF Dead, Live, Buried
<1>7. \A i : /\ Newer(s, d, i) <=> i \in DOMAIN L /\ (i \in DOMAIN R => L[i] > R[i].at)
             /\ Takes(s, d, i) <=> i \in B /\ i \in Live(R) /\ ~(R[i].at > T[i])
             /\ Ages(s, d, i) => i \in Dead(R) /\ ~Newer(s, d, i)
  BY DEF Newer, Takes, Pending, Ages
<1> HIDE DEF L, T, R, plan, B, docs, after
<1>8. ASSUME NEW i
      PROVE  /\ i \in DOMAIN after <=> i \in Live(docs)
             /\ i \in DOMAIN after => after[i] = docs[i].at
  <2>0. DocAfter(s, d, docs, i)
    BY <1>3
  <2>1. CASE Newer(s, d, i)
    <3>1. i \in DOMAIN docs /\ docs[i].at = L[i] /\ docs[i].deleted = FALSE
      BY <2>0, <2>1 DEF DocAfter, L
    <3>2. i \in DOMAIN L /\ i \notin plan.pullUpserts /\ i \notin plan.deleteLocal
      BY <1>2, <1>4, <1>6, <1>7, <2>1
    <3> QED BY <1>5, <1>6, <3>1, <3>2
  <2>2. CASE Takes(s, d, i)
    <3>1. i \in DOMAIN docs /\ docs[i].deleted = TRUE
      BY <2>0, <2>2 DEF DocAfter
    <3>2. i \notin DOMAIN L /\ i \notin plan.pullUpserts
      BY <1>2, <1>4, <1>6, <1>7, <2>2
    <3> QED BY <1>5, <1>6, <3>1, <3>2
  <2>3. CASE Ages(s, d, i)
    <3>1. i \notin DOMAIN docs
      BY <2>0, <2>3 DEF DocAfter
    <3>2. i \notin plan.pullUpserts /\ (i \in DOMAIN L => i \in plan.deleteLocal)
      BY <1>2, <1>4, <1>6, <1>7, <2>3
    <3> QED BY <1>5, <1>6, <3>1, <3>2
  <2>4. CASE ~Newer(s, d, i) /\ ~Takes(s, d, i) /\ ~Ages(s, d, i)
    <3>0. (i \in DOMAIN docs <=> i \in DOMAIN R) /\ (i \in DOMAIN R => docs[i] = R[i])
      BY <2>0, <2>4 DEF DocAfter, SameDoc, R
    <3>1. CASE i \notin Live(R)
      <4>1. i \notin plan.pullUpserts /\ (i \in DOMAIN L => i \in plan.deleteLocal)
        BY <1>2, <1>4, <1>6, <1>7, <2>4, <3>1
      <4>2. i \notin Live(docs)
        BY <1>6, <3>0, <3>1
      <4> QED BY <1>5, <4>1, <4>2
    <3>2. CASE i \in Live(R)
      <4>1. i \in Live(docs) /\ docs[i] = R[i] /\ i \notin plan.deleteLocal
        BY <1>4, <1>6, <3>0, <3>2
      <4>2. CASE i \in DOMAIN L
        <5>1. IF R[i].at > L[i] THEN i \in plan.pullUpserts ELSE R[i].at = L[i]
          BY <1>2, <1>4, <1>6, <1>7, <2>4, <3>2, <4>2
        <5> QED BY <1>5, <4>1, <4>2, <5>1
      <4>3. CASE i \notin DOMAIN L
        <5>1. i \in plan.pullUpserts
          BY <1>2, <1>4, <1>6, <1>7, <2>4, <3>2, <4>3
        <5> QED BY <1>5, <4>1, <5>1
      <4> QED BY <4>2, <4>3
    <3> QED BY <3>1, <3>2
  <2> QED BY <2>1, <2>2, <2>3, <2>4
<1>9. after = LiveRows(docs)
  <2>1. DOMAIN after = Live(docs)
    BY <1>8
  <2> QED BY <1>5, <1>8, <2>1 DEF LiveRows
<1> QED BY <1>1, <1>9 DEF docs

(* Every deletion on the list is settled or learned by the pass: what is    *)
(* left of it is what the remote side says.                                 *)
LEMMA SettleTombs ==
    ASSUME TypeOK, NEW s \in Holding, NEW d \in Device
    PROVE  /\ Settle(s, d).tombs[d] \in Partial(Stamp)
           /\ \A i : Pending(Settle(s, d), d, i) =>
                 /\ i \in Dead(Settle(s, d).remote)
                 /\ Settle(s, d).remote[i].at = Settle(s, d).tombs[d][i]
<1> DEFINE L == s.rows[d]
           T == s.tombs[d]
           R == s.remote
           plan == mergeRecords(L, T, R, Clock(d), Empty, FullRead)
           B == Buried(L, T, Clock(d))
           docs == Settle(s, d).remote
           next == NextTombstones(T, R, plan)
           settled == plan.clearLocalTombstones \cup plan.pushTombstones
           learned == [i \in plan.deleteLocal |-> R[i].at]
           after == Settle(s, d).tombs[d]
<1>1. after = IF next = None THEN T ELSE next
  <2>1. Settle(s, d).tombs = [s.tombs EXCEPT ![d] = IF next = None THEN T ELSE next]
    BY DEF Settle
  <2>2. d \in DOMAIN s.tombs
    BY DEF Holding
  <2> QED BY <2>1, <2>2
<1>2. next = IF settled = {} /\ plan.deleteLocal = {} THEN None ELSE Put(Without(T, settled), learned)
  BY DEF NextTombstones
<1>3. /\ plan.deleteLocal = {i \in Dead(R) \cap DOMAIN L : ~(L[i] > R[i].at)}
      /\ plan.pushTombstones = {i \in B \cap Live(R) : ~(R[i].at > T[i])}
  <2>1. plan = mergeRecords(L, T, R, Clock(d), Empty, FullRead)
    OBVIOUS
  <2> HIDE DEF L, T, R, plan
  <2> QED BY <2>1, FullPlanIs DEF B
<1>4. plan.clearLocalTombstones =
        (DOMAIN T \ B) \cup (B \cap Dead(R)) \cup EditedElsewhere(B, T, R)
           \cup {i \in B \ DOMAIN R : FullRead.full}
  BY DEF mergeRecords
<1>5. /\ Dead(R) \subseteq DOMAIN R /\ Live(R) = DOMAIN R \ Dead(R) /\ B \subseteq DOMAIN T
      /\ EditedElsewhere(B, T, R) = {i \in B \cap Live(R) : R[i].at > T[i]}
      /\ FullRead.full = TRUE
  BY DEF Dead, Live, Buried, EditedElsewhere, FullRead
<1>6. /\ \A i \in DOMAIN R : R[i].at \in Stamp /\ i \in Id
      /\ T \in Partial(Stamp)
  BY HeldIs
<1>7. \A i : DocAfter(s, d, docs, i)
  BY SettleRemote
<1> HIDE DEF L, T, R, plan, B, docs, next, settled, after
<1>8. DOMAIN T \subseteq settled
  BY <1>3, <1>4, <1>5 DEF settled
<1>9. learned \in Partial(Stamp)
  <2>1. DOMAIN learned = plan.deleteLocal /\ \A i \in plan.deleteLocal : learned[i] = R[i].at
    OBVIOUS
  <2>2. plan.deleteLocal \subseteq Id /\ \A i \in plan.deleteLocal : R[i].at \in Stamp
    BY <1>3, <1>5, <1>6
  <2>3. learned \in [plan.deleteLocal -> Stamp]
    BY <2>2
  <2> QED BY <2>1, <2>2, <2>3, PartialIs
<1>10. Put(Without(T, settled), learned) \in Partial(Stamp) /\ Put(Without(T, settled), learned) # None
  <2>1. Without(T, settled) \in Partial(Stamp)
    BY <1>6, PartialOps
  <2> DEFINE f == Put(Without(T, settled), learned)
  <2>2. f \in Partial(Stamp)
    <3> HIDE DEF learned
    <3> QED BY <1>9, <2>1, PartialOps
  <2> HIDE DEF f
  <2>3. DOMAIN f \in SUBSET Id /\ f \in [DOMAIN f -> Nat]
    BY <2>2, PartialIs, StampIsNat
  <2>4. f # None
    BY <2>3, RecordSyncAssumptions
  <2> QED BY <2>2, <2>4 DEF f
<1>11. after \in Partial(Stamp)
  BY <1>1, <1>2, <1>6, <1>10
<1>12. \A i \in DOMAIN after : i \in plan.deleteLocal /\ after[i] = R[i].at
  <2>1. CASE settled = {} /\ plan.deleteLocal = {}
    BY <1>1, <1>2, <1>8, <2>1
  <2>2. CASE ~(settled = {} /\ plan.deleteLocal = {})
    <3> DEFINE f == Without(T, settled)
    <3>1. DOMAIN f = {}
      BY <1>8 DEF Without
    <3>2. after = Put(f, learned)
      BY <1>1, <1>2, <1>10, <2>2
    <3>3. DOMAIN learned = plan.deleteLocal /\ \A i \in plan.deleteLocal : learned[i] = R[i].at
      OBVIOUS
    <3>4. DOMAIN Put(f, learned) = DOMAIN f \cup DOMAIN learned
          /\ \A i \in DOMAIN learned : Put(f, learned)[i] = learned[i]
      <4> HIDE DEF f, learned
      <4> QED BY PutIs
    <3> HIDE DEF f, learned
    <3> QED BY <3>1, <3>2, <3>3, <3>4
  <2> QED BY <2>1, <2>2
<1>13. ASSUME NEW i, Pending(Settle(s, d), d, i)
       PROVE  i \in Dead(docs) /\ docs[i].at = after[i]
  <2>1. i \in DOMAIN after /\ ~Expired(after[i], Clock(d))
    BY <1>13 DEF Pending, Buried, after
  <2>2. i \in Dead(R) /\ after[i] = R[i].at /\ i \in DOMAIN L /\ ~(L[i] > R[i].at)
    BY <1>3, <1>12, <2>1
  <2>3. ~Newer(s, d, i) /\ ~Takes(s, d, i) /\ ~Ages(s, d, i)
    BY <1>5, <2>1, <2>2 DEF Newer, Takes, Ages, L, R
  <2>4. SameDoc(R, docs, i)
    BY <1>7, <2>3 DEF DocAfter, R
  <2> QED BY <1>5, <2>2, <2>4 DEF SameDoc, Dead
<1> QED BY <1>11, <1>13 DEF after, docs

LEMMA SettleHeld ==
    ASSUME TypeOK, NEW s \in Holding, NEW d \in Device
    PROVE  /\ Settle(s, d) \in Holding
           /\ \A e \in Device \ {d} : /\ Settle(s, d).rows[e] = s.rows[e]
                                      /\ Settle(s, d).tombs[e] = s.tombs[e]
<1> DEFINE a == Settle(s, d)
<1>1. /\ a.rows = [s.rows EXCEPT ![d] = a.rows[d]] /\ a.tombs = [s.tombs EXCEPT ![d] = a.tombs[d]]
      /\ a = [rows |-> a.rows, tombs |-> a.tombs, remote |-> a.remote]
      /\ a.remote = [i \in DOMAIN a.remote |-> a.remote[i]]
  <2> DEFINE x == Without(Put(s.rows[d], Pulled(s.remote,
                     mergeRecords(s.rows[d], s.tombs[d], s.remote, Clock(d), Empty, FullRead))),
                     mergeRecords(s.rows[d], s.tombs[d], s.remote, Clock(d), Empty, FullRead).deleteLocal)
             n == NextTombstones(s.tombs[d], s.remote,
                     mergeRecords(s.rows[d], s.tombs[d], s.remote, Clock(d), Empty, FullRead))
             y == IF n = None THEN s.tombs[d] ELSE n
             z == LandedAll(s.remote, RemoteWrites(s.rows[d], s.tombs[d],
                     mergeRecords(s.rows[d], s.tombs[d], s.remote, Clock(d), Empty, FullRead)))
  <2>1. a = [rows |-> [s.rows EXCEPT ![d] = x], tombs |-> [s.tombs EXCEPT ![d] = y], remote |-> z]
    BY DEF Settle
  <2>2. z = [i \in DOMAIN z |-> z[i]]
    BY DEF LandedAll
  <2>3. d \in DOMAIN s.rows /\ d \in DOMAIN s.tombs
    BY DEF Holding
  <2> HIDE DEF a, x, y, z, n
  <2> QED BY <2>1, <2>2, <2>3
<1>2. s.rows \in [Device -> Partial(Stamp)] /\ s.tombs \in [Device -> Partial(Stamp)]
  BY DEF Holding
<1>3. a.tombs[d] \in Partial(Stamp) /\ a.rows[d] = LiveRows(a.remote)
  BY SettleTombs, SettleRows
<1>4. a.remote \in Partial(Doc)
  <2>1. ASSUME NEW i \in DOMAIN a.remote
        PROVE  i \in Id /\ a.remote[i] \in Doc
    <3>1. DocAfter(s, d, a.remote, i)
      BY SettleRemote
    <3>2. \A at \in Stamp, b \in BOOLEAN : [at |-> at, deleted |-> b] \in Doc
      BY DEF Doc
    <3>3. /\ \A j \in DOMAIN s.rows[d] : j \in Id /\ s.rows[d][j] \in Stamp
          /\ \A j \in DOMAIN s.tombs[d] : j \in Id /\ s.tombs[d][j] \in Stamp
          /\ \A j \in DOMAIN s.remote : j \in Id /\ s.remote[j] \in Doc
      BY HeldIs
    <3> HIDE DEF a
    <3>4. CASE Newer(s, d, i)
      BY <3>1, <3>2, <3>3, <3>4 DEF DocAfter, Newer
    <3>5. CASE Takes(s, d, i)
      BY <3>1, <3>2, <3>3, <3>5 DEF DocAfter, Takes, Pending, Buried
    <3>6. CASE ~Newer(s, d, i) /\ ~Takes(s, d, i)
      BY <2>1, <3>1, <3>3, <3>6 DEF DocAfter, SameDoc
    <3> QED BY <3>4, <3>5, <3>6
  <2> HIDE DEF a
  <2>2. DOMAIN a.remote \subseteq Id /\ a.remote \in [DOMAIN a.remote -> Doc]
    BY <1>1, <2>1
  <2> QED BY <2>2, PartialIs
<1>5. LiveRows(a.remote) \in Partial(Stamp)
  <2> HIDE DEF a
  <2>0. \A v \in Doc : v.at \in Stamp
    BY DEF Doc
  <2>1. \A i \in DOMAIN a.remote : i \in Id /\ a.remote[i].at \in Stamp
    BY <1>4, <2>0, ValuesIn
  <2>2. Live(a.remote) \subseteq Id /\ LiveRows(a.remote) \in [Live(a.remote) -> Stamp]
    BY <2>1 DEF Live, LiveRows
  <2>3. DOMAIN LiveRows(a.remote) = Live(a.remote)
    BY DEF LiveRows
  <2> QED BY <2>2, <2>3, PartialIs
<1> HIDE DEF a
<1>6. a \in Holding
  BY <1>1, <1>2, <1>3, <1>4, <1>5 DEF Holding
<1>7. \A e \in Device \ {d} : a.rows[e] = s.rows[e] /\ a.tombs[e] = s.tombs[e]
  BY <1>1, <1>2
<1> QED BY <1>6, <1>7 DEF a

(***************************************************************************)
(* Rounds of passes.                                                        *)
(***************************************************************************)

(* The devices that have had their turn after n passes of a round.          *)
Passed(order, n) == {order[m] : m \in 1..n}

LEMMA RoundLoop ==
  ASSUME NEW store, NEW order, NEW G, <<0, store>> \in G,
         \A n \in Nat : \A x :
            n < Cardinality(Device) /\ <<n, x>> \in G => <<n + 1, Settle(x, order[n + 1])>> \in G
  PROVE  <<Cardinality(Device), Round(store, order)>> \in G
<1> DEFINE N == Cardinality(Device)
           Loop(f, m) == f = [n \in 0..m |-> IF n = 0 THEN store ELSE Settle(f[n - 1], order[n])]
           after == CHOOSE f : Loop(f, N)
<1>0. N \in Nat
  BY RecordSyncAssumptions, FS_CardinalityType
<1>a. Round(store, order) = after[N]
  BY DEF Round
<1>b. \A n \in Nat : \A x : n < N /\ <<n, x>> \in G => <<n + 1, Settle(x, order[n + 1])>> \in G
  OBVIOUS
<1>c. \A f, m : Loop(f, m) <=>
         f = [n \in 0..m |-> IF n = 0 THEN store ELSE Settle(f[n - 1], order[n])]
  OBVIOUS
<1> HIDE DEF N
<1>1. \A m \in 0..N : \E f : Loop(f, m)
  <2> DEFINE Bad == {m \in 0..N : ~\E f : Loop(f, m)}
  <2> SUFFICES ASSUME Bad # {}
               PROVE  FALSE
    OBVIOUS
  <2>1. PICK m \in Bad : \A n \in Bad : m <= n
    <3>1. Bad \in SUBSET Nat
      BY <1>0
    <3> HIDE DEF Bad
    <3> QED BY <3>1, Least
  <2>2. m # 0
    <3> DEFINE g == [n \in 0..0 |-> store]
    <3>1. Loop(g, 0)
      OBVIOUS
    <3> QED BY <2>1, <3>1
  <2>3. m - 1 \in 0..N /\ m - 1 \notin Bad /\ m \in Nat
    <3>1. m \in 0..N
      BY <2>1
    <3>2. m \in Nat /\ m - 1 \in 0..N /\ ~(m <= m - 1)
      BY <3>1, <2>2, <1>0
    <3> HIDE DEF Bad
    <3> QED BY <2>1, <3>2
  <2>4. PICK f : Loop(f, m - 1)
    BY <2>3
  <2> DEFINE g == [n \in 0..m |-> IF n = m THEN Settle(f[m - 1], order[m]) ELSE f[n]]
  <2>5. \A n \in 0..(m - 1) : f[n] = IF n = 0 THEN store ELSE Settle(f[n - 1], order[n])
    BY <2>4
  <2>6. \A n \in 0..m : g[n] = IF n = 0 THEN store ELSE Settle(g[n - 1], order[n])
    <3> SUFFICES ASSUME NEW n \in 0..m
                 PROVE  g[n] = IF n = 0 THEN store ELSE Settle(g[n - 1], order[n])
      OBVIOUS
    <3>1. CASE n = m
      <4>1. g[m - 1] = f[m - 1] /\ g[m] = Settle(f[m - 1], order[m])
        BY <2>2, <2>3
      <4> QED BY <2>2, <3>1, <4>1
    <3>2. CASE n # m /\ n # 0
      <4>1. n \in 0..(m - 1) /\ n - 1 \in 0..m /\ n - 1 # m
        BY <2>3, <3>2
      <4>2. g[n] = f[n] /\ g[n - 1] = f[n - 1]
        BY <3>2, <4>1
      <4> QED BY <2>5, <3>2, <4>1, <4>2
    <3>3. CASE n # m /\ n = 0
      BY <2>3, <2>5, <3>3
    <3> QED BY <3>1, <3>2, <3>3
  <2>7. g = [n \in 0..m |-> IF n = 0 THEN store ELSE Settle(g[n - 1], order[n])]
    <3>1. g = [n \in 0..m |-> g[n]]
      OBVIOUS
    <3> HIDE DEF g
    <3> QED BY <2>6, <3>1
  <2> HIDE DEF g
  <2> QED BY <2>1, <2>7
<1>2. Loop(after, N)
  <2>1. N \in 0..N
    BY <1>0
  <2>2. \E f : Loop(f, N)
    <3> HIDE DEF Loop
    <3> QED BY <1>1, <2>1
  <2> QED BY <2>2
<1> HIDE DEF after
<1>4. \A n \in 0..N : after[n] = IF n = 0 THEN store ELSE Settle(after[n - 1], order[n])
  BY <1>2
<1>5. \A n \in 0..N : <<n, after[n]>> \in G
  <2> DEFINE Bad == {n \in 0..N : <<n, after[n]>> \notin G}
  <2> SUFFICES ASSUME Bad # {}
               PROVE  FALSE
    OBVIOUS
  <2>1. PICK n \in Bad : \A m \in Bad : n <= m
    <3>1. Bad \in SUBSET Nat
      BY <1>0
    <3> HIDE DEF Bad
    <3> QED BY <3>1, Least
  <2>2. n # 0
    BY <1>0, <1>4, <2>1
  <2>3. n - 1 \in 0..N /\ n - 1 \notin Bad /\ n \in 0..N /\ n - 1 \in Nat /\ n - 1 < N
    BY <2>1, <2>2, <1>0
  <2>4. <<n - 1, after[n - 1]>> \in G /\ after[n] = Settle(after[n - 1], order[n]) /\ (n - 1) + 1 = n
    BY <1>4, <2>2, <2>3
  <2>5. <<(n - 1) + 1, Settle(after[n - 1], order[(n - 1) + 1])>> \in G
    BY <1>b, <2>3, <2>4
  <2> QED BY <2>1, <2>4, <2>5
<1> QED BY <1>0, <1>a, <1>5 DEF N

LEMMA PassedGrows ==
  ASSUME NEW order \in Orders
  PROVE  /\ Cardinality(Device) \in Nat
         /\ Passed(order, 0) = {}
         /\ Passed(order, Cardinality(Device)) = Device
         /\ \A n \in Nat : n < Cardinality(Device) =>
               /\ order[n + 1] \in Device
               /\ Passed(order, n + 1) = Passed(order, n) \cup {order[n + 1]}
               /\ Passed(order, n) \subseteq Device
<1> DEFINE N == Cardinality(Device)
<1>0. N \in Nat
  BY RecordSyncAssumptions, FS_CardinalityType
<1>1. order \in [1..N -> Device] /\ \A d \in Device : \E n \in DOMAIN order : order[n] = d
  BY DEF Orders
<1> HIDE DEF N
<1>2. Passed(order, 0) = {}
  BY DEF Passed
<1>3. Passed(order, N) = Device
  BY <1>1 DEF Passed
<1>4. ASSUME NEW n \in Nat, n < N
      PROVE  /\ order[n + 1] \in Device
             /\ Passed(order, n + 1) = Passed(order, n) \cup {order[n + 1]}
             /\ Passed(order, n) \subseteq Device
  <2>1. 1..(n + 1) = 1..n \cup {n + 1} /\ 1..n \subseteq 1..N /\ n + 1 \in 1..N
    BY <1>0, <1>4
  <2> QED BY <1>1, <2>1 DEF Passed
<1> QED BY <1>0, <1>2, <1>3, <1>4 DEF N

LEMMA StoreIsHeld ==
    ASSUME TypeOK
    PROVE  Store \in Holding
BY DEF TypeOK, Store, Holding

(* What a pass of d leaves of the other devices.                            *)
LEMMA OthersKept ==
    ASSUME TypeOK, NEW s \in Holding, NEW d \in Device, NEW e \in Device, e # d
    PROVE  /\ Settle(s, d).rows[e] = s.rows[e]
           /\ Settle(s, d).tombs[e] = s.tombs[e]
           /\ \A i : Pending(Settle(s, d), e, i) <=> Pending(s, e, i)
BY SettleHeld DEF Pending

(***************************************************************************)
(* Agreement.  Once the devices of P had their turn, the remote side knows  *)
(* all they know, and has no tombstone left that is old enough to purge.    *)
(***************************************************************************)
Calm(x, P) ==
    /\ P # {} => \A i \in Dead(x.remote) : \A d \in Device : ~Expired(x.remote[i].at, Clock(d))
    /\ \A d \in P : \A i \in DOMAIN x.rows[d] :
          i \in DOMAIN x.remote /\ x.rows[d][i] <= x.remote[i].at
    /\ \A d \in P : \A i : Pending(x, d, i) =>
          /\ i \in DOMAIN x.remote /\ x.tombs[d][i] <= x.remote[i].at
          /\ i \in Live(x.remote) => x.tombs[d][i] < x.remote[i].at

(* While no tombstone is purged, the stamps of the remote docs only grow.   *)
LEMMA RemoteGrows ==
    ASSUME TypeOK, NEW s \in Holding, NEW d \in Device, NEW i, i \in DOMAIN s.remote, ~Ages(s, d, i)
    PROVE  LET docs == Settle(s, d).remote IN
           /\ i \in DOMAIN docs /\ docs[i].at \in Nat /\ s.remote[i].at \in Nat
           /\ \/ SameDoc(s.remote, docs, i)
              \/ docs[i].at > s.remote[i].at /\ ~docs[i].deleted
              \/ docs[i].at >= s.remote[i].at /\ docs[i].deleted
<1> DEFINE docs == Settle(s, d).remote
<1>1. DocAfter(s, d, docs, i)
  BY SettleRemote
<1>2. s.remote[i].at \in Nat
  BY HeldIs
<1>3. CASE Newer(s, d, i)
  <2>1. i \in DOMAIN docs /\ docs[i] = [at |-> s.rows[d][i], deleted |-> FALSE]
    BY <1>1, <1>3 DEF DocAfter
  <2>2. s.rows[d][i] \in Nat /\ s.rows[d][i] > s.remote[i].at
    BY <1>3, HeldIs DEF Newer
  <2> HIDE DEF docs
  <2>3. docs[i].at = s.rows[d][i] /\ docs[i].deleted = FALSE
    BY <2>1
  <2> QED BY <1>2, <2>1, <2>2, <2>3 DEF docs
<1>4. CASE Takes(s, d, i)
  <2>1. i \in DOMAIN docs /\ docs[i] = [at |-> s.tombs[d][i], deleted |-> TRUE]
    BY <1>1, <1>4 DEF DocAfter
  <2>2. s.tombs[d][i] \in Nat /\ s.tombs[d][i] >= s.remote[i].at
    BY <1>2, <1>4, HeldIs DEF Takes, Pending, Buried
  <2> HIDE DEF docs
  <2>3. docs[i].at = s.tombs[d][i] /\ docs[i].deleted = TRUE
    BY <2>1
  <2> QED BY <1>2, <2>1, <2>2, <2>3 DEF docs
<1>5. CASE ~Newer(s, d, i) /\ ~Takes(s, d, i)
  <2>1. SameDoc(s.remote, docs, i)
    BY <1>1, <1>5 DEF DocAfter
  <2>2. i \in DOMAIN docs /\ docs[i] = s.remote[i]
    BY <2>1 DEF SameDoc
  <2> HIDE DEF docs
  <2> QED BY <1>2, <2>1, <2>2 DEF docs
<1> QED BY <1>3, <1>4, <1>5

(* The tombstones a pass leaves are too young to purge.                     *)
LEMMA NoneAged ==
    ASSUME TypeOK, NEW s \in Holding, NEW d \in Device, NEW i \in Dead(Settle(s, d).remote)
    PROVE  ~Expired(Settle(s, d).remote[i].at, Clock(d))
<1> DEFINE docs == Settle(s, d).remote
<1>1. DocAfter(s, d, docs, i)
  BY SettleRemote
<1>2. i \in DOMAIN docs /\ docs[i].deleted
  BY DEF Dead
<1> HIDE DEF docs
<1>3. CASE Takes(s, d, i)
  BY <1>1, <1>3 DEF DocAfter, Takes, Pending, Buried, docs
<1>4. CASE ~Takes(s, d, i)
  <2>1. ~Newer(s, d, i) /\ ~Ages(s, d, i)
    BY <1>1, <1>2 DEF DocAfter
  <2>2. i \in DOMAIN s.remote /\ docs[i] = s.remote[i]
    BY <1>1, <1>2, <1>4, <2>1 DEF DocAfter, SameDoc
  <2>3. i \in Dead(s.remote)
    BY <1>2, <2>2 DEF Dead
  <2> QED BY <2>1, <2>2, <2>3 DEF Ages, docs
<1> QED BY <1>3, <1>4

LEMMA CalmStep ==
    ASSUME TypeOK, ClocksAgree, NEW s \in Holding, NEW d \in Device, NEW P \in SUBSET Device, Calm(s, P)
    PROVE  Calm(Settle(s, d), P \cup {d})
<1> DEFINE a == Settle(s, d)
<1>1. \A i \in Dead(a.remote) : \A e \in Device : ~Expired(a.remote[i].at, Clock(e))
  <2>1. \A i \in Dead(a.remote) : ~Expired(a.remote[i].at, Clock(d))
    BY NoneAged
  <2>2. \A e \in Device : Clock(e) = Clock(d)
    BY DEF ClocksAgree, Clock
  <2> HIDE DEF a
  <2> QED BY <2>1, <2>2
<1>2. P # {} => \A i : ~Ages(s, d, i)
  BY DEF Calm, Ages
<1>3. ASSUME NEW e \in P, e # d, NEW i \in DOMAIN a.rows[e]
      PROVE  i \in DOMAIN a.remote /\ a.rows[e][i] <= a.remote[i].at
  <2>1. i \in DOMAIN s.rows[e] /\ a.rows[e][i] = s.rows[e][i]
    BY <1>3, OthersKept
  <2>2. i \in DOMAIN s.remote /\ s.rows[e][i] <= s.remote[i].at /\ s.rows[e][i] \in Nat
    BY <2>1, HeldIs DEF Calm
  <2>3. /\ i \in DOMAIN a.remote /\ a.remote[i].at \in Nat /\ s.remote[i].at \in Nat
        /\ \/ SameDoc(s.remote, a.remote, i)
           \/ a.remote[i].at > s.remote[i].at /\ ~a.remote[i].deleted
           \/ a.remote[i].at >= s.remote[i].at /\ a.remote[i].deleted
    BY <1>2, <2>2, RemoteGrows
  <2> HIDE DEF a
  <2>4. a.remote[i].at >= s.remote[i].at
    BY <2>2, <2>3 DEF SameDoc
  <2> QED BY <2>1, <2>2, <2>3, <2>4
<1>4. ASSUME NEW e \in P, e # d, NEW i, Pending(a, e, i)
      PROVE  /\ i \in DOMAIN a.remote /\ a.tombs[e][i] <= a.remote[i].at
             /\ i \in Live(a.remote) => a.tombs[e][i] < a.remote[i].at
  <2>1. Pending(s, e, i) /\ a.tombs[e][i] = s.tombs[e][i]
    BY <1>4, OthersKept
  <2>2. /\ i \in DOMAIN s.remote /\ s.tombs[e][i] <= s.remote[i].at
        /\ i \in Live(s.remote) => s.tombs[e][i] < s.remote[i].at
    BY <2>1 DEF Calm
  <2>3. s.tombs[e][i] \in Nat
    BY <2>1, HeldIs DEF Pending, Buried
  <2>4. /\ i \in DOMAIN a.remote /\ a.remote[i].at \in Nat /\ s.remote[i].at \in Nat
        /\ \/ SameDoc(s.remote, a.remote, i)
           \/ a.remote[i].at > s.remote[i].at /\ ~a.remote[i].deleted
           \/ a.remote[i].at >= s.remote[i].at /\ a.remote[i].deleted
    BY <1>2, <2>2, RemoteGrows
  <2> HIDE DEF a
  <2>5. CASE SameDoc(s.remote, a.remote, i)
    BY <2>1, <2>2, <2>4, <2>5 DEF SameDoc, Live, Dead
  <2>6. CASE ~SameDoc(s.remote, a.remote, i)
    BY <2>1, <2>2, <2>3, <2>4, <2>6 DEF Live, Dead
  <2> QED BY <2>5, <2>6
<1>5. ASSUME NEW i \in DOMAIN a.rows[d]
      PROVE  i \in DOMAIN a.remote /\ a.rows[d][i] <= a.remote[i].at
  <2>1. a.rows[d] = LiveRows(a.remote)
    BY SettleRows
  <2>2. a \in Holding
    BY SettleHeld
  <2> HIDE DEF a
  <2>3. i \in DOMAIN a.remote /\ a.rows[d][i] = a.remote[i].at
    BY <2>1 DEF LiveRows, Live
  <2>4. a.remote[i].at \in Nat
    BY <2>2, <2>3, HeldIs
  <2> QED BY <2>3, <2>4
<1>6. ASSUME NEW i, Pending(a, d, i)
      PROVE  /\ i \in DOMAIN a.remote /\ a.tombs[d][i] <= a.remote[i].at
             /\ i \in Live(a.remote) => a.tombs[d][i] < a.remote[i].at
  <2>1. i \in Dead(a.remote) /\ a.remote[i].at = a.tombs[d][i]
    BY <1>6, SettleTombs
  <2>2. a \in Holding
    BY SettleHeld
  <2> HIDE DEF a
  <2>3. a.remote[i].at \in Nat
    BY <2>1, <2>2, HeldIs DEF Dead
  <2> QED BY <2>1, <2>3 DEF Dead, Live
<1> HIDE DEF a
<1>7. \A e \in P \cup {d} : \A i \in DOMAIN a.rows[e] : i \in DOMAIN a.remote /\ a.rows[e][i] <= a.remote[i].at
  BY <1>3, <1>5
<1>8. \A e \in P \cup {d} : \A i : Pending(a, e, i) =>
         /\ i \in DOMAIN a.remote /\ a.tombs[e][i] <= a.remote[i].at
         /\ i \in Live(a.remote) => a.tombs[e][i] < a.remote[i].at
  BY <1>4, <1>6
<1>9. Calm(a, P \cup {d})
  BY <1>1, <1>7, <1>8 DEF Calm
<1> QED BY <1>9 DEF a

(* Calm, a pass leaves the remote side alone.                               *)
LEMMA CalmRests ==
    ASSUME TypeOK, NEW s \in Holding, NEW d \in Device, Calm(s, Device)
    PROVE  Settle(s, d).remote = s.remote
<1> DEFINE a == Settle(s, d)
<1>1. ASSUME NEW i
      PROVE  SameDoc(s.remote, a.remote, i)
  <2>1. DocAfter(s, d, a.remote, i)
    BY SettleRemote
  <2>2. /\ \A j \in DOMAIN s.rows[d] : s.rows[d][j] \in Nat
        /\ \A j \in DOMAIN s.tombs[d] : s.tombs[d][j] \in Nat
        /\ \A j \in DOMAIN s.remote : s.remote[j].at \in Nat
    BY HeldIs
  <2>3. ~Newer(s, d, i)
    BY <2>2 DEF Calm, Newer
  <2>4. ~Takes(s, d, i)
    <3>1. SUFFICES ASSUME Takes(s, d, i)
                   PROVE  FALSE
      OBVIOUS
    <3>2. Pending(s, d, i) /\ i \in Live(s.remote) /\ ~(s.remote[i].at > s.tombs[d][i])
      BY <3>1 DEF Takes
    <3>3. s.tombs[d][i] < s.remote[i].at
      BY <3>2 DEF Calm
    <3> QED BY <3>2, <3>3
  <2>5. ~Ages(s, d, i)
    BY DEF Calm, Ages
  <2> QED BY <2>1, <2>3, <2>4, <2>5 DEF DocAfter
<1>2. a.remote \in Partial(Doc) /\ s.remote \in Partial(Doc)
  BY SettleHeld, HeldIs
<1> HIDE DEF a
<1>3. DOMAIN a.remote = DOMAIN s.remote /\ \A i \in DOMAIN s.remote : a.remote[i] = s.remote[i]
  BY <1>1 DEF SameDoc
<1>4. a.remote \in [DOMAIN a.remote -> Doc] /\ s.remote \in [DOMAIN s.remote -> Doc]
  BY <1>2, PartialIs
<1>5. a.remote = s.remote
  BY <1>3, <1>4
<1> QED BY <1>5 DEF a

LEMMA RoundCalms ==
    ASSUME TypeOK, ClocksAgree, NEW store \in Holding, NEW order \in Orders
    PROVE  Round(store, order) \in Holding /\ Calm(Round(store, order), Device)
<1> DEFINE G == {p \in Nat \X Holding : Calm(p[2], Passed(order, p[1]))}
<1>1. <<0, store>> \in G
  <2>1. Calm(store, {})
    BY DEF Calm
  <2> QED BY <2>1, PassedGrows
<1>2. ASSUME NEW n \in Nat, NEW x, n < Cardinality(Device), <<n, x>> \in G
      PROVE  <<n + 1, Settle(x, order[n + 1])>> \in G
  <2>1. x \in Holding /\ Calm(x, Passed(order, n))
    BY <1>2
  <2>2. /\ order[n + 1] \in Device /\ Passed(order, n) \subseteq Device
        /\ Passed(order, n + 1) = Passed(order, n) \cup {order[n + 1]}
    BY <1>2, PassedGrows
  <2>3. Calm(Settle(x, order[n + 1]), Passed(order, n + 1))
    BY <2>1, <2>2, CalmStep
  <2>4. Settle(x, order[n + 1]) \in Holding
    BY <2>1, <2>2, SettleHeld
  <2> QED BY <2>3, <2>4
<1> HIDE DEF G
<1>3. <<Cardinality(Device), Round(store, order)>> \in G
  BY <1>1, <1>2, RoundLoop
<1> QED BY <1>3, PassedGrows DEF G

LEMMA CalmRoundAgrees ==
    ASSUME TypeOK, ClocksAgree, NEW store \in Holding, Calm(store, Device), NEW order \in Orders
    PROVE  \A d \in Device : Round(store, order).rows[d] = LiveRows(Round(store, order).remote)
<1> DEFINE Same(x, P) == \A d \in P : x.rows[d] = LiveRows(x.remote)
           G == {p \in Nat \X Holding : Calm(p[2], Device) /\ Same(p[2], Passed(order, p[1]))}
<1>1. <<0, store>> \in G
  BY PassedGrows
<1>2. ASSUME NEW n \in Nat, NEW x, n < Cardinality(Device), <<n, x>> \in G
      PROVE  <<n + 1, Settle(x, order[n + 1])>> \in G
  <2> DEFINE d == order[n + 1]
             y == Settle(x, d)
  <2>1. x \in Holding /\ Calm(x, Device) /\ \A e \in Passed(order, n) : x.rows[e] = LiveRows(x.remote)
    BY <1>2
  <2>2. /\ d \in Device /\ Passed(order, n) \subseteq Device
        /\ Passed(order, n + 1) = Passed(order, n) \cup {d}
    BY <1>2, PassedGrows
  <2>3. y \in Holding
    BY <2>1, <2>2, SettleHeld
  <2>4. Calm(y, Device)
    <3>1. Calm(y, Device \cup {d})
      BY <2>1, <2>2, CalmStep
    <3>2. Device \cup {d} = Device
      BY <2>2
    <3> QED BY <3>1, <3>2
  <2>5. y.remote = x.remote
    BY <2>1, <2>2, CalmRests
  <2>6. y.rows[d] = LiveRows(y.remote)
    BY <2>1, <2>2, SettleRows
  <2>7. \A e \in Device : e # d => y.rows[e] = x.rows[e]
    BY <2>1, <2>2, OthersKept
  <2> HIDE DEF y, d
  <2>8. Same(y, Passed(order, n + 1))
    BY <2>1, <2>2, <2>5, <2>6, <2>7
  <2>9. <<n + 1, y>> \in G
    BY <2>3, <2>4, <2>8
  <2> QED BY <2>9 DEF y, d
<1> HIDE DEF G
<1>3. <<Cardinality(Device), Round(store, order)>> \in G
  BY <1>1, <1>2, RoundLoop
<1> QED BY <1>3, PassedGrows DEF G

LEMMA HeldAgree ==
    ASSUME ClocksAgree
    PROVE  TypeOK => DevicesAgree
<1> SUFFICES ASSUME TypeOK, NEW order \in Orders, NEW d \in Device
             PROVE  Settled(order).rows[d] = LiveRows(Settled(order).remote)
  BY DEF DevicesAgree
<1>1. Round(Store, order) \in Holding /\ Calm(Round(Store, order), Device)
  BY StoreIsHeld, RoundCalms
<1> QED BY <1>1, CalmRoundAgrees DEF Settled

(***************************************************************************)
(* Last write wins.  A newest edit, stamped at, that some device still has  *)
(* to push or that reached the remote side.                                 *)
(***************************************************************************)
EditWins(x, P, i, at) ==
    /\ \A d \in Device : i \in DOMAIN x.rows[d] => x.rows[d][i] <= at
    /\ \A d \in Device : Pending(x, d, i) => x.tombs[d][i] < at
    /\ i \in DOMAIN x.remote => x.remote[i] = [at |-> at, deleted |-> FALSE] \/ x.remote[i].at < at
    /\ \/ i \in DOMAIN x.remote /\ x.remote[i] = [at |-> at, deleted |-> FALSE]
       \/ \E d \in Device \ P : i \in DOMAIN x.rows[d] /\ x.rows[d][i] = at

LEMMA EditWinsStep ==
    ASSUME TypeOK, NEW s \in Holding, NEW d \in Device, NEW P \in SUBSET Device, NEW i, NEW at \in Nat,
           EditWins(s, P, i, at)
    PROVE  EditWins(Settle(s, d), P \cup {d}, i, at)
<1> DEFINE a == Settle(s, d)
           edit == [at |-> at, deleted |-> FALSE]
<1>0. edit.at = at /\ edit.deleted = FALSE
  OBVIOUS
<1>1. DocAfter(s, d, a.remote, i)
  BY SettleRemote
<1>2. a \in Holding
  BY SettleHeld
<1>3. a.rows[d] = LiveRows(a.remote)
  BY SettleRows
<1>4. Pending(a, d, i) => i \in Dead(a.remote) /\ a.remote[i].at = a.tombs[d][i]
  BY SettleTombs
<1>5. \A e \in Device : e # d => /\ a.rows[e] = s.rows[e] /\ a.tombs[e] = s.tombs[e]
                                 /\ Pending(a, e, i) <=> Pending(s, e, i)
  BY OthersKept
<1>6. /\ i \in DOMAIN s.rows[d] => s.rows[d][i] \in Nat
      /\ i \in DOMAIN s.tombs[d] => s.tombs[d][i] \in Nat
      /\ i \in DOMAIN s.remote => s.remote[i].at \in Nat
  BY HeldIs
<1>7. i \in DOMAIN a.remote => a.remote[i].at \in Nat
  BY <1>2, HeldIs
<1>8. /\ \A e \in Device : i \in DOMAIN s.rows[e] => s.rows[e][i] <= at
      /\ \A e \in Device : Pending(s, e, i) => s.tombs[e][i] < at
      /\ i \in DOMAIN s.remote => s.remote[i] = edit \/ s.remote[i].at < at
      /\ \/ i \in DOMAIN s.remote /\ s.remote[i] = edit
         \/ \E e \in Device \ P : i \in DOMAIN s.rows[e] /\ s.rows[e][i] = at
  BY DEF EditWins
<1>9. Takes(s, d, i) => /\ Pending(s, d, i) /\ i \in DOMAIN s.tombs[d] /\ i \in DOMAIN s.remote
                        /\ s.tombs[d][i] < at /\ s.remote[i].at <= s.tombs[d][i]
  BY <1>6, <1>8 DEF Takes, Pending, Buried, Live
<1> HIDE DEF a, edit
<1>10. i \in DOMAIN s.remote /\ s.remote[i] = edit => i \in DOMAIN a.remote /\ a.remote[i] = edit
  <2> SUFFICES ASSUME i \in DOMAIN s.remote, s.remote[i] = edit
               PROVE  i \in DOMAIN a.remote /\ a.remote[i] = edit
    OBVIOUS
  <2>1. ~Newer(s, d, i)
    BY <1>0, <1>6, <1>8 DEF Newer
  <2>2. ~Takes(s, d, i)
    BY <1>0, <1>6, <1>9
  <2>3. ~Ages(s, d, i)
    BY <1>0 DEF Ages, Dead
  <2> QED BY <1>1, <2>1, <2>2, <2>3 DEF DocAfter, SameDoc
<1>11. i \in DOMAIN a.remote => a.remote[i] = edit \/ a.remote[i].at < at
  <2> SUFFICES ASSUME i \in DOMAIN a.remote
               PROVE  a.remote[i] = edit \/ a.remote[i].at < at
    OBVIOUS
  <2>1. CASE Newer(s, d, i)
    <3>1. i \in DOMAIN s.rows[d] /\ a.remote[i] = [at |-> s.rows[d][i], deleted |-> FALSE]
      BY <1>1, <2>1 DEF DocAfter, Newer
    <3>2. s.rows[d][i] <= at /\ s.rows[d][i] \in Nat
      BY <1>6, <1>8, <3>1
    <3>3. a.remote[i].at = s.rows[d][i]
      BY <3>1
    <3>4. CASE s.rows[d][i] = at
      BY <3>1, <3>4 DEF edit
    <3>5. CASE s.rows[d][i] < at
      BY <3>3, <3>5
    <3> QED BY <3>2, <3>4, <3>5
  <2>2. CASE Takes(s, d, i)
    <3>1. a.remote[i].at = s.tombs[d][i]
      BY <1>1, <2>2 DEF DocAfter
    <3> QED BY <1>9, <2>2, <3>1
  <2>3. CASE ~Newer(s, d, i) /\ ~Takes(s, d, i)
    <3>1. i \in DOMAIN s.remote /\ a.remote[i] = s.remote[i]
      BY <1>1, <2>3 DEF DocAfter, SameDoc
    <3> QED BY <1>8, <3>1
  <2> QED BY <2>1, <2>2, <2>3
<1>12. \A e \in Device : i \in DOMAIN a.rows[e] => a.rows[e][i] <= at
  <2>1. i \in DOMAIN a.rows[d] => a.rows[d][i] <= at
    <3>1. i \in DOMAIN a.rows[d] => i \in DOMAIN a.remote /\ a.rows[d][i] = a.remote[i].at
      BY <1>3 DEF LiveRows, Live
    <3> QED BY <1>0, <1>7, <1>11, <3>1
  <2> QED BY <1>5, <1>8, <2>1
<1>13. \A e \in Device : Pending(a, e, i) => a.tombs[e][i] < at
  <2>1. Pending(a, d, i) => a.tombs[d][i] < at
    <3>1. i \in Dead(a.remote) => i \in DOMAIN a.remote /\ a.remote[i] # edit
      BY <1>0 DEF Dead
    <3> QED BY <1>4, <1>11, <3>1
  <2> QED BY <1>5, <1>8, <2>1
<1>14. \/ i \in DOMAIN a.remote /\ a.remote[i] = edit
       \/ \E e \in Device \ (P \cup {d}) : i \in DOMAIN a.rows[e] /\ a.rows[e][i] = at
  <2>1. CASE i \in DOMAIN s.remote /\ s.remote[i] = edit
    BY <1>10, <2>1
  <2>2. CASE ~(i \in DOMAIN s.remote /\ s.remote[i] = edit)
    <3>1. PICK e \in Device \ P : i \in DOMAIN s.rows[e] /\ s.rows[e][i] = at
      BY <1>8, <2>2
    <3>2. CASE e = d
      <4>1. Newer(s, d, i)
        BY <1>6, <1>8, <2>2, <3>1, <3>2 DEF Newer
      <4> QED BY <1>1, <3>1, <3>2, <4>1 DEF DocAfter, edit
    <3>3. CASE e # d
      BY <1>5, <3>1, <3>3
    <3> QED BY <3>2, <3>3
  <2> QED BY <2>1, <2>2
<1>15. EditWins(a, P \cup {d}, i, at)
  BY <1>11, <1>12, <1>13, <1>14 DEF EditWins, edit
<1> QED BY <1>15 DEF a

(***************************************************************************)
(* A deletion wins: no live version (stamped in LV) is newer than a         *)
(* deletion (stamped in DV), none of which is old enough to purge.          *)
(***************************************************************************)
DeletionsWin(x, P, i, LV, DV) ==
    /\ \A d \in Device : i \in DOMAIN x.rows[d] => x.rows[d][i] \in LV
    /\ \A d \in Device : Pending(x, d, i) => x.tombs[d][i] \in DV
    /\ i \in DOMAIN x.remote
    /\ i \in Live(x.remote) => x.remote[i].at \in LV
    /\ i \in Dead(x.remote) => x.remote[i].at \in DV
    /\ i \in Dead(x.remote) \/ \E d \in Device \ P : Pending(x, d, i)

LEMMA DeletionsWinStep ==
    ASSUME TypeOK, NEW s \in Holding, NEW d \in Device, NEW P \in SUBSET Device, NEW i,
           NEW LV \in SUBSET Nat, NEW DV \in SUBSET Nat, \A l \in LV, w \in DV : l <= w,
           \A w \in DV : ~Expired(w, Clock(d)),
           DeletionsWin(s, P, i, LV, DV)
    PROVE  DeletionsWin(Settle(s, d), P \cup {d}, i, LV, DV)
<1> DEFINE a == Settle(s, d)
<1>1. DocAfter(s, d, a.remote, i)
  BY SettleRemote
<1>3. a.rows[d] = LiveRows(a.remote)
  BY SettleRows
<1>4. Pending(a, d, i) => i \in Dead(a.remote) /\ a.remote[i].at = a.tombs[d][i]
  BY SettleTombs
<1>5. \A e \in Device : e # d => /\ a.rows[e] = s.rows[e] /\ a.tombs[e] = s.tombs[e]
                                 /\ Pending(a, e, i) <=> Pending(s, e, i)
  BY OthersKept
<1>8. /\ \A e \in Device : i \in DOMAIN s.rows[e] => s.rows[e][i] \in LV
      /\ \A e \in Device : Pending(s, e, i) => s.tombs[e][i] \in DV
      /\ i \in DOMAIN s.remote
      /\ i \in Live(s.remote) => s.remote[i].at \in LV
      /\ i \in Dead(s.remote) => s.remote[i].at \in DV
      /\ i \in Dead(s.remote) \/ \E e \in Device \ P : Pending(s, e, i)
  BY DEF DeletionsWin
<1>9. \A l \in LV, w \in DV : l \in Nat /\ w \in Nat /\ ~(l > w)
  OBVIOUS
<1>10. ~Ages(s, d, i)
  BY <1>8 DEF Ages
<1>11. i \in Dead(s.remote) => ~Newer(s, d, i) /\ ~Takes(s, d, i)
  BY <1>8, <1>9 DEF Newer, Takes, Live
<1> HIDE DEF a
<1>12. /\ i \in DOMAIN a.remote
       /\ i \in Live(a.remote) => a.remote[i].at \in LV
       /\ i \in Dead(a.remote) => a.remote[i].at \in DV
  <2>1. CASE Newer(s, d, i)
    <3>1. i \in DOMAIN s.rows[d] /\ i \in DOMAIN a.remote /\ a.remote[i].at = s.rows[d][i] /\ a.remote[i].deleted = FALSE
      BY <1>1, <2>1 DEF DocAfter, Newer
    <3> QED BY <1>8, <3>1 DEF Dead
  <2>2. CASE Takes(s, d, i)
    <3>1. Pending(s, d, i) /\ i \in DOMAIN a.remote /\ a.remote[i].at = s.tombs[d][i] /\ a.remote[i].deleted = TRUE
      BY <1>1, <2>2 DEF DocAfter, Takes
    <3> QED BY <1>8, <3>1 DEF Live, Dead
  <2>3. CASE ~Newer(s, d, i) /\ ~Takes(s, d, i)
    <3>1. i \in DOMAIN a.remote /\ a.remote[i] = s.remote[i]
      BY <1>1, <1>8, <1>10, <2>3 DEF DocAfter, SameDoc
    <3> QED BY <1>8, <3>1 DEF Live, Dead
  <2> QED BY <2>1, <2>2, <2>3
<1>13. \A e \in Device : i \in DOMAIN a.rows[e] => a.rows[e][i] \in LV
  <2>1. i \in DOMAIN a.rows[d] => i \in Live(a.remote) /\ a.rows[d][i] = a.remote[i].at
    BY <1>3 DEF LiveRows
  <2> QED BY <1>5, <1>8, <1>12, <2>1
<1>14. \A e \in Device : Pending(a, e, i) => a.tombs[e][i] \in DV
  <2>1. Pending(a, d, i) => a.tombs[d][i] \in DV
    BY <1>4, <1>12
  <2> QED BY <1>5, <1>8, <2>1
<1>15. i \in Dead(a.remote) \/ \E e \in Device \ (P \cup {d}) : Pending(a, e, i)
  <2>1. CASE i \in Dead(s.remote)
    <3>1. i \in DOMAIN a.remote /\ a.remote[i] = s.remote[i]
      BY <1>1, <1>8, <1>10, <1>11, <2>1 DEF DocAfter, SameDoc
    <3> QED BY <2>1, <3>1 DEF Dead
  <2>2. CASE i \notin Dead(s.remote)
    <3>1. PICK e \in Device \ P : Pending(s, e, i)
      BY <1>8, <2>2
    <3>2. CASE e = d
      <4>1. Pending(s, d, i) /\ i \in Live(s.remote) /\ s.remote[i].at \in LV /\ s.tombs[d][i] \in DV
        BY <1>8, <2>2, <3>1, <3>2 DEF Live
      <4>2. Takes(s, d, i)
        BY <1>9, <4>1 DEF Takes
      <4>3. i \in DOMAIN a.remote /\ a.remote[i].deleted = TRUE
        BY <1>1, <4>2 DEF DocAfter
      <4> QED BY <4>3 DEF Dead
    <3>3. CASE e # d
      BY <1>5, <3>1, <3>3
    <3> QED BY <3>2, <3>3
  <2> QED BY <2>1, <2>2
<1>16. DeletionsWin(a, P \cup {d}, i, LV, DV)
  BY <1>12, <1>13, <1>14, <1>15 DEF DeletionsWin
<1> QED BY <1>16 DEF a

LEMMA EditOutlivesRound ==
    ASSUME TypeOK, NEW store \in Holding, NEW order \in Orders, NEW i, NEW at \in Nat,
           EditWins(store, {}, i, at)
    PROVE  LET end == Round(store, order) IN
           /\ end \in Holding
           /\ i \in DOMAIN end.remote /\ end.remote[i] = [at |-> at, deleted |-> FALSE]
           /\ EditWins(end, {}, i, at)
<1> DEFINE G == {p \in Nat \X Holding : EditWins(p[2], Passed(order, p[1]), i, at)}
           end == Round(store, order)
<1>1. <<0, store>> \in G
  BY PassedGrows
<1>2. ASSUME NEW n \in Nat, NEW x, n < Cardinality(Device), <<n, x>> \in G
      PROVE  <<n + 1, Settle(x, order[n + 1])>> \in G
  <2>1. x \in Holding /\ EditWins(x, Passed(order, n), i, at)
    BY <1>2
  <2>2. /\ order[n + 1] \in Device /\ Passed(order, n) \subseteq Device
        /\ Passed(order, n + 1) = Passed(order, n) \cup {order[n + 1]}
    BY <1>2, PassedGrows
  <2>3. EditWins(Settle(x, order[n + 1]), Passed(order, n + 1), i, at)
    BY <2>1, <2>2, EditWinsStep
  <2>4. Settle(x, order[n + 1]) \in Holding
    BY <2>1, <2>2, SettleHeld
  <2> QED BY <2>3, <2>4
<1> HIDE DEF G
<1>3. <<Cardinality(Device), end>> \in G
  BY <1>1, <1>2, RoundLoop
<1>4. end \in Holding /\ EditWins(end, Device, i, at)
  BY <1>3, PassedGrows DEF G
<1> HIDE DEF end
<1>5. i \in DOMAIN end.remote /\ end.remote[i] = [at |-> at, deleted |-> FALSE]
  BY <1>4 DEF EditWins
<1>6. EditWins(end, {}, i, at)
  BY <1>4, <1>5 DEF EditWins
<1> QED BY <1>4, <1>5, <1>6 DEF end

LEMMA DeletionOutlivesRound ==
    ASSUME TypeOK, NEW store \in Holding, NEW order \in Orders, NEW i,
           NEW LV \in SUBSET Nat, NEW DV \in SUBSET Nat, \A l \in LV, w \in DV : l <= w,
           \A w \in DV, d \in Device : ~Expired(w, Clock(d)),
           DeletionsWin(store, {}, i, LV, DV)
    PROVE  LET end == Round(store, order) IN
           /\ end \in Holding
           /\ i \in Dead(end.remote)
           /\ DeletionsWin(end, {}, i, LV, DV)
<1> DEFINE G == {p \in Nat \X Holding : DeletionsWin(p[2], Passed(order, p[1]), i, LV, DV)}
           end == Round(store, order)
<1>1. <<0, store>> \in G
  BY PassedGrows
<1>2. ASSUME NEW n \in Nat, NEW x, n < Cardinality(Device), <<n, x>> \in G
      PROVE  <<n + 1, Settle(x, order[n + 1])>> \in G
  <2>1. x \in Holding /\ DeletionsWin(x, Passed(order, n), i, LV, DV)
    BY <1>2
  <2>2. /\ order[n + 1] \in Device /\ Passed(order, n) \subseteq Device
        /\ Passed(order, n + 1) = Passed(order, n) \cup {order[n + 1]}
    BY <1>2, PassedGrows
  <2>3. DeletionsWin(Settle(x, order[n + 1]), Passed(order, n + 1), i, LV, DV)
    BY <2>1, <2>2, DeletionsWinStep
  <2>4. Settle(x, order[n + 1]) \in Holding
    BY <2>1, <2>2, SettleHeld
  <2> QED BY <2>3, <2>4
<1> HIDE DEF G
<1>3. <<Cardinality(Device), end>> \in G
  BY <1>1, <1>2, RoundLoop
<1>4. end \in Holding /\ DeletionsWin(end, Device, i, LV, DV)
  BY <1>3, PassedGrows DEF G
<1> HIDE DEF end
<1>5. i \in Dead(end.remote)
  BY <1>4 DEF DeletionsWin
<1>6. DeletionsWin(end, {}, i, LV, DV)
  BY <1>4, <1>5 DEF DeletionsWin
<1> QED BY <1>4, <1>5, <1>6 DEF end

LEMMA VersionsIn ==
    ASSUME TypeOK, NEW i
    PROVE  /\ \A v \in Versions(i) : v.at \in Nat /\ v.deleted \in BOOLEAN /\ v = [at |-> v.at, deleted |-> v.deleted]
           /\ \A d \in Device : i \in DOMAIN rows[d] => [at |-> rows[d][i], deleted |-> FALSE] \in Versions(i)
           /\ \A d \in Device : Deleted(d, i) => [at |-> tombs[d][i], deleted |-> TRUE] \in Versions(i)
           /\ i \in DOMAIN remote => remote[i] \in Versions(i)
           /\ \A v \in Versions(i) :
                 \/ \E d \in Device : i \in DOMAIN rows[d] /\ v = [at |-> rows[d][i], deleted |-> FALSE]
                 \/ \E d \in Device : Deleted(d, i) /\ v = [at |-> tombs[d][i], deleted |-> TRUE]
                 \/ i \in DOMAIN remote /\ v = remote[i]
<1>1. \A v \in Versions(i) :
         \/ \E d \in Device : i \in DOMAIN rows[d] /\ v = [at |-> rows[d][i], deleted |-> FALSE]
         \/ \E d \in Device : Deleted(d, i) /\ v = [at |-> tombs[d][i], deleted |-> TRUE]
         \/ i \in DOMAIN remote /\ v = remote[i]
  BY DEF Versions
<1>2. /\ \A d \in Device : i \in DOMAIN rows[d] => [at |-> rows[d][i], deleted |-> FALSE] \in Versions(i)
      /\ \A d \in Device : Deleted(d, i) => [at |-> tombs[d][i], deleted |-> TRUE] \in Versions(i)
      /\ i \in DOMAIN remote => remote[i] \in Versions(i)
  BY DEF Versions
<1>3. /\ \A d \in Device : i \in DOMAIN rows[d] => rows[d][i] \in Nat
      /\ \A d \in Device : Deleted(d, i) => tombs[d][i] \in Nat
      /\ i \in DOMAIN remote => remote[i] \in Doc
  BY ValuesIn, StampIsNat DEF TypeOK, Deleted, Buried
<1>4. \A v \in Doc : v.at \in Nat /\ v.deleted \in BOOLEAN /\ v = [at |-> v.at, deleted |-> v.deleted]
  <2> SUFFICES ASSUME NEW v \in Doc
               PROVE  v.at \in Nat /\ v.deleted \in BOOLEAN /\ v = [at |-> v.at, deleted |-> v.deleted]
    OBVIOUS
  <2>1. v \in [at : Stamp, deleted : BOOLEAN]
    BY DEF Doc
  <2>2. v.at \in Stamp /\ v.deleted \in BOOLEAN
    BY <2>1
  <2>3. v = [at |-> v.at, deleted |-> v.deleted]
    BY <2>1, Zenon
  <2> QED BY <2>2, <2>3, StampIsNat
<1>5. ASSUME NEW v \in Versions(i)
      PROVE  v.at \in Nat /\ v.deleted \in BOOLEAN /\ v = [at |-> v.at, deleted |-> v.deleted]
  <2>1. CASE \E d \in Device : i \in DOMAIN rows[d] /\ v = [at |-> rows[d][i], deleted |-> FALSE]
    BY <1>3, <2>1
  <2>2. CASE \E d \in Device : Deleted(d, i) /\ v = [at |-> tombs[d][i], deleted |-> TRUE]
    BY <1>3, <2>2
  <2>3. CASE i \in DOMAIN remote /\ v = remote[i]
    BY <1>3, <1>4, <2>3
  <2> QED BY <1>1, <2>1, <2>2, <2>3
<1> QED BY <1>1, <1>2, <1>5

LEMMA HeldSettleEdits ==
    ASSUME TypeOK, NEW order \in Orders, NEW i \in Id, NEW v \in Newest(i), ~v.deleted
    PROVE  LET end == Settled(order).remote IN i \in Live(end) /\ end[i] = v
<1>0. v \in Versions(i) /\ \A w \in Versions(i) : w = v \/ v.at > w.at
  BY DEF Newest, Outdates
<1>1. v.at \in Nat /\ v = [at |-> v.at, deleted |-> FALSE]
  BY <1>0, VersionsIn
<1>2. EditWins(Store, {}, i, v.at)
  <2>1. ASSUME NEW d \in Device, i \in DOMAIN rows[d]
        PROVE  rows[d][i] <= v.at
    <3> DEFINE w == [at |-> rows[d][i], deleted |-> FALSE]
    <3>1. w \in Versions(i)
      BY <2>1, VersionsIn
    <3>2. w = v \/ v.at > w.at
      BY <1>0, <3>1
    <3>3. rows[d][i] \in Nat /\ w.at = rows[d][i]
      <4>1. w.at \in Nat
        BY <3>1, VersionsIn
      <4> QED BY <4>1
    <3> HIDE DEF w
    <3> QED BY <1>1, <3>2, <3>3
  <2>2. ASSUME NEW d \in Device, Deleted(d, i)
        PROVE  tombs[d][i] < v.at
    <3> DEFINE w == [at |-> tombs[d][i], deleted |-> TRUE]
    <3>1. w \in Versions(i) /\ w.deleted = TRUE
      BY <2>2, VersionsIn
    <3>2. w # v
      BY <3>1
    <3>3. v.at > w.at /\ w.at = tombs[d][i] /\ w.at \in Nat
      <4>1. w.at \in Nat /\ v.at > w.at
        BY <1>0, <3>1, <3>2, VersionsIn
      <4> QED BY <4>1
    <3> HIDE DEF w
    <3> QED BY <1>1, <3>3
  <2>3. i \in DOMAIN remote => remote[i] = v \/ remote[i].at < v.at
    <3> SUFFICES ASSUME i \in DOMAIN remote
                 PROVE  remote[i] = v \/ remote[i].at < v.at
      OBVIOUS
    <3>1. remote[i] \in Versions(i) /\ remote[i].at \in Nat
      BY VersionsIn
    <3> QED BY <1>0, <1>1, <3>1
  <2>4. \/ i \in DOMAIN remote /\ remote[i] = v
        \/ \E d \in Device : i \in DOMAIN rows[d] /\ rows[d][i] = v.at
    <3>1. CASE \E d \in Device : i \in DOMAIN rows[d] /\ v = [at |-> rows[d][i], deleted |-> FALSE]
      BY <3>1
    <3>2. CASE \E d \in Device : Deleted(d, i) /\ v = [at |-> tombs[d][i], deleted |-> TRUE]
      <4>1. v.deleted = TRUE
        BY <3>2
      <4> QED BY <4>1
    <3> QED BY <1>0, <3>1, <3>2, VersionsIn
  <2>5. \A d : Pending(Store, d, i) <=> Deleted(d, i)
    BY DEF Pending, Deleted, Store
  <2>6. Store.rows = rows /\ Store.tombs = tombs /\ Store.remote = remote
    BY DEF Store
  <2> QED BY <1>1, <2>1, <2>2, <2>3, <2>4, <2>5, <2>6 DEF EditWins
<1>3. Round(Store, order) \in Holding /\ EditWins(Round(Store, order), {}, i, v.at)
  BY <1>1, <1>2, StoreIsHeld, EditOutlivesRound
<1>4. i \in DOMAIN Settled(order).remote /\ Settled(order).remote[i] = [at |-> v.at, deleted |-> FALSE]
  BY <1>1, <1>3, EditOutlivesRound DEF Settled
<1> QED BY <1>1, <1>4 DEF Live, Dead

LEMMA HeldSettleDeletions ==
    ASSUME TypeOK, NEW order \in Orders, NEW i \in Id, NEW v \in Newest(i), v.deleted,
           i \in DOMAIN remote, ~Purged(i), ~Revived(i)
    PROVE  i \notin Live(Settled(order).remote)
<1> DEFINE LV == {w.at : w \in {u \in Versions(i) : ~u.deleted}}
           DV == {w.at : w \in {u \in Versions(i) : u.deleted}}
<1>0. v \in Versions(i)
  BY DEF Newest
<1>1. LV \in SUBSET Nat /\ DV \in SUBSET Nat
  BY VersionsIn
<1>2. \A l \in LV, w \in DV : l <= w
  <2> SUFFICES ASSUME NEW x \in Versions(i), NEW w \in Versions(i), ~x.deleted, w.deleted
               PROVE  x.at <= w.at
    OBVIOUS
  <2>1. ~(x.at > w.at)
    BY DEF Revived, Outdates
  <2>2. x.at \in Nat /\ w.at \in Nat
    BY VersionsIn
  <2> QED BY <2>1, <2>2
<1>3. \A w \in DV, d \in Device : ~Expired(w, Clock(d))
  BY DEF Purged
<1>4. DeletionsWin(Store, {}, i, LV, DV)
  <2>1. ASSUME NEW d \in Device, i \in DOMAIN rows[d]
        PROVE  rows[d][i] \in LV
    <3> DEFINE w == [at |-> rows[d][i], deleted |-> FALSE]
    <3>1. w \in Versions(i) /\ w.at = rows[d][i] /\ w.deleted = FALSE
      BY <2>1, VersionsIn
    <3> HIDE DEF w
    <3> QED BY <3>1
  <2>2. ASSUME NEW d \in Device, Deleted(d, i)
        PROVE  tombs[d][i] \in DV
    <3> DEFINE w == [at |-> tombs[d][i], deleted |-> TRUE]
    <3>1. w \in Versions(i) /\ w.at = tombs[d][i] /\ w.deleted = TRUE
      BY <2>2, VersionsIn
    <3> HIDE DEF w
    <3> QED BY <3>1
  <2>3. /\ i \in Live(remote) => remote[i].at \in LV
        /\ i \in Dead(remote) => remote[i].at \in DV
    <3>1. remote[i] \in Versions(i)
      BY VersionsIn
    <3> QED BY <3>1 DEF Live, Dead
  <2>4. i \in Dead(remote) \/ \E d \in Device : Deleted(d, i)
    <3>1. CASE \E d \in Device : i \in DOMAIN rows[d] /\ v = [at |-> rows[d][i], deleted |-> FALSE]
      <4>1. v.deleted = FALSE
        BY <3>1
      <4> QED BY <4>1
    <3>2. CASE i \in DOMAIN remote /\ v = remote[i]
      BY <3>2 DEF Dead
    <3> QED BY <1>0, <3>1, <3>2, VersionsIn
  <2>5. \A d : Pending(Store, d, i) <=> Deleted(d, i)
    BY DEF Pending, Deleted, Store
  <2>6. Store.rows = rows /\ Store.tombs = tombs /\ Store.remote = remote
    BY DEF Store
  <2> HIDE DEF LV, DV
  <2> QED BY <2>1, <2>2, <2>3, <2>4, <2>5, <2>6 DEF DeletionsWin
<1> HIDE DEF LV, DV
<1>5. Round(Store, order) \in Holding /\ DeletionsWin(Round(Store, order), {}, i, LV, DV)
  BY <1>1, <1>2, <1>3, <1>4, StoreIsHeld, DeletionOutlivesRound
<1>6. i \in Dead(Settled(order).remote)
  BY <1>1, <1>2, <1>3, <1>5, DeletionOutlivesRound DEF Settled
<1> QED BY <1>6 DEF Live

LEMMA HeldSettle == TypeOK => SettlesToLastWrite
<1> SUFFICES ASSUME TypeOK, NEW order \in Orders, NEW i \in Id, NEW v \in Newest(i)
             PROVE  IF v.deleted
                    THEN i \in Live(Settled(order).remote) => i \notin DOMAIN remote \/ Purged(i) \/ Revived(i)
                    ELSE i \in Live(Settled(order).remote) /\ Settled(order).remote[i] = v
  BY DEF SettlesToLastWrite
<1>1. CASE v.deleted
  BY <1>1, HeldSettleDeletions
<1>2. CASE ~v.deleted
  BY <1>2, HeldSettleEdits
<1> QED BY <1>1, <1>2

(* Once the users stop and each device has read the whole collection twice, *)
(* whatever interleaving, failure or crash of syncEditableCollection came   *)
(* before and in whichever order the devices take their turns, they hold    *)
(* the same rows, the remote side's live docs.  The clocks must agree: one  *)
(* that runs ahead purges a tombstone between two others' turns, and the    *)
(* later of them pushes back the row that the tombstone was to delete.      *)
THEOREM DevicesSettle ==
    ASSUME ClocksAgree
    PROVE  Spec => []DevicesAgree
<1>1. Spec => []TypeOK
  BY TypeCorrect
<1>2. TypeOK => DevicesAgree
  BY HeldAgree
<1> QED BY <1>1, <1>2, PTL

(* And what they end with is the last write (merge.ts): an edit newer than  *)
(* all they know of its record survives, and a deletion newer than all of   *)
(* it takes the record away, but for the three ways a deletion is lost.     *)
(* The clocks may differ.                                                   *)
THEOREM LastWriteSettles == Spec => []SettlesToLastWrite
<1>1. Spec => []TypeOK
  BY TypeCorrect
<1>2. TypeOK => SettlesToLastWrite
  BY HeldSettle
<1> QED BY <1>1, <1>2, PTL

=============================================================================
