------------------------------ MODULE RecordSync ------------------------------
(***************************************************************************)
(* Two-way sync of one editable collection of one Character between the    *)
(* devices that hold it, through one remote Firestore collection            *)
(* (src/sync/collectionSync.ts).  A browser tab runs the pass step by step: *)
(* every await is a point where the user, another tab or another device may *)
(* act.  A row's value is its updatedAt stamp, see RecordMerge.             *)
(***************************************************************************)
EXTENDS RecordMerge, FiniteSets

CONSTANTS
    Device, Tab,        \* devices (one IndexedDB each) and the tabs open on them
    HomeOf,             \* the device a tab runs on
    Id,                 \* record ids of the collection
    Shared,             \* the records every device holds at the start
    Skew,               \* how far a device's clock runs ahead
    MaxSkew,            \* bound: no clock runs further ahead than this
    EditHorizon,        \* bound: the user acts only before this time
    MaxTime,            \* bound: the clock stops here
    MaxFaults,          \* bound: how many times a pass fails or a tab closes
    None

ASSUME RecordSyncAssumptions ==
    /\ HomeOf \in [Tab -> Device]
    /\ MaxSkew \in Nat /\ Skew \in [Device -> 0..MaxSkew]
    /\ EditHorizon \in Nat /\ MaxTime \in Nat \ {0} /\ MaxFaults \in Nat
    /\ EditHorizon <= MaxTime
    /\ Shared \subseteq Id /\ IsFiniteSet(Id) /\ IsFiniteSet(Device)
    /\ None \notin Id /\ None \notin [at : Nat, deleted : BOOLEAN]
    /\ \A S \in SUBSET Id : None \notin [S -> Nat]

VARIABLES
    now,        \* the time; a device's Date.now() is now + Skew
    rows,       \* rows[d]: the table's rows on device d
    tombs,      \* tombs[d]: the tombstone list under the collection's key
    cursor,     \* cursor[d]: the pull cursor, or None
    remote,     \* the remote collection's docs
    pass,       \* pass[t]: where tab t's pass is
    stray,      \* stray[t]: writes of a failed pass that are still running
    deletion,   \* deletion[t]: a recordDeletion between two of its awaits
    faults,     \* how many faults have happened
    removed,    \* ghost: when the user deleted a row on d that is not back yet
    observed,   \* ghost: the highest stamp d has ever read
    backdated   \* ghost: docs that landed at or below what d had read

vars == <<now, rows, tombs, cursor, remote, pass, stray, deletion, faults,
          removed, observed, backdated>>

Clock(d) == now + Skew[d]

(* FULL_RECONCILE_INTERVAL_MS is the tombstone TTL.                         *)
FullReconcileInterval == TombstoneTTL

Idle == [step |-> "idle"]
NoDeletion == [step |-> "none"]

MaxOf(S) == IF S = {} THEN 0 ELSE CHOOSE m \in S : \A n \in S : n <= m

Stamps(docs) == {docs[i].at : i \in DOMAIN docs}

(* fetchOwnedDocs: the docs of the window.                                  *)
Fetched(window) == Only(remote, {i \in DOMAIN remote : InWindow(window, remote[i].at)})

(***************************************************************************)
(* What one pass does once it has read: the remote writes, the local        *)
(* writes, and the cursor to store last.                                    *)
(***************************************************************************)
SetDoc(i, at, deleted) == [id |-> i, doc |-> [at |-> at, deleted |-> deleted]]
DeleteDoc(i) == [id |-> i, doc |-> None]

RemoteWrites(local, tombstones, plan) ==
    {SetDoc(i, local[i], FALSE) : i \in plan.pushUpserts}
        \cup {SetDoc(i, tombstones[i], TRUE) : i \in plan.pushTombstones}
        \cup {DeleteDoc(i) : i \in plan.purgeRemote}

Pulled(docs, plan) == [i \in plan.pullUpserts |-> docs[i].at]

(* The tombstone list written back: what the pass read, less what it        *)
(* settled, plus what it learned from the remote tombstones it applied.     *)
NextTombstones(tombstones, docs, plan) ==
    LET settled == plan.clearLocalTombstones \cup plan.pushTombstones
        learned == [i \in plan.deleteLocal |-> docs[i].at]
    IN  IF settled = {} /\ plan.deleteLocal = {}
        THEN None
        ELSE Put(Without(tombstones, settled), learned)

(* Faulty: the cursor is the time of the pass.                              *)
NextCursor_AtPassTime(window, docs, read, at) ==
    [high |-> at, fullAt |-> IF window.full THEN at ELSE read.fullAt]

(* The highest stamp the read showed, and when the last full read was.      *)
NextCursor(window, docs, read, at) ==
    [high   |-> IF window.full THEN MaxOf(Stamps(docs))
                ELSE MaxOf(Stamps(docs) \cup {window.since}),
     fullAt |-> IF window.full THEN at ELSE read.fullAt]

Landed(docs, write) ==
    IF write.doc = None THEN Without(docs, {write.id})
    ELSE Put(docs, [i \in {write.id} |-> write.doc])

(* The records of Shared are everywhere already, from passes that ran before. *)
Init ==
    /\ now = 1
    /\ rows = [d \in Device |-> [i \in Shared |-> 0]]
    /\ remote = [i \in Shared |-> [at |-> 0, deleted |-> FALSE]]
    /\ cursor = [d \in Device |-> IF Shared = {} THEN None ELSE [high |-> 0, fullAt |-> 0]]
    /\ tombs = [d \in Device |-> Empty]
    /\ pass = [t \in Tab |-> Idle]
    /\ stray = [t \in Tab |-> {}]
    /\ deletion = [t \in Tab |-> NoDeletion]
    /\ faults = 0
    /\ removed = [d \in Device |-> Empty]
    /\ observed = [d \in Device |-> 0]
    /\ backdated = [d \in Device |-> {}]

-----------------------------------------------------------------------------
(***************************************************************************)
(* The user.  Every user action takes at least a millisecond, so no two of  *)
(* them on clocks that agree carry the same stamp.                          *)
(***************************************************************************)

Edit(d, i) ==
    /\ now < EditHorizon
    /\ rows' = [rows EXCEPT ![d] = Put(@, [j \in {i} |-> Clock(d)])]
    /\ removed' = [removed EXCEPT ![d] = Without(@, {i})]
    /\ now' = now + 1
    /\ UNCHANGED <<tombs, cursor, remote, pass, stray, deletion, faults, observed, backdated>>

(* recordDeletion: the row goes first ...                                   *)
DeleteRow(t, i) ==
    LET d == HomeOf[t] IN
    /\ now < EditHorizon
    /\ deletion[t] = NoDeletion
    /\ i \in DOMAIN rows[d]
    /\ rows' = [rows EXCEPT ![d] = Without(@, {i})]
    /\ removed' = [removed EXCEPT ![d] = Put(@, [j \in {i} |-> Clock(d)])]
    /\ deletion' = [deletion EXCEPT ![t] = [step |-> "read", id |-> i]]
    /\ UNCHANGED <<now, tombs, cursor, remote, pass, stray, faults, observed, backdated>>

(* ... then appendTombstones takes its stamp and reads the list ...         *)
ReadTombstoneList(t) ==
    LET d == HomeOf[t] IN
    /\ now < MaxTime
    /\ deletion[t].step = "read"
    /\ deletion' = [deletion EXCEPT ![t] =
            [step |-> "put", list |-> Put(tombs[d], [j \in {@.id} |-> Clock(d)])]]
    /\ now' = now + 1
    /\ UNCHANGED <<rows, tombs, cursor, remote, pass, stray, faults, removed, observed, backdated>>

(* ... and puts it back with the new tombstone.                             *)
PutTombstoneList(t) ==
    /\ deletion[t].step = "put"
    /\ tombs' = [tombs EXCEPT ![HomeOf[t]] = deletion[t].list]
    /\ deletion' = [deletion EXCEPT ![t] = NoDeletion]
    /\ UNCHANGED <<now, rows, cursor, remote, pass, stray, faults, removed, observed, backdated>>

(* A feature that deletes its rows and calls appendTombstones inside one    *)
(* Dexie transaction.                                                       *)
DeleteInTransaction(d, i) ==
    /\ now < EditHorizon
    /\ i \in DOMAIN rows[d]
    /\ rows' = [rows EXCEPT ![d] = Without(@, {i})]
    /\ tombs' = [tombs EXCEPT ![d] = Put(@, [j \in {i} |-> Clock(d)])]
    /\ removed' = [removed EXCEPT ![d] = Put(@, [j \in {i} |-> Clock(d)])]
    /\ now' = now + 1
    /\ UNCHANGED <<cursor, remote, pass, stray, deletion, faults, observed, backdated>>

-----------------------------------------------------------------------------
(***************************************************************************)
(* The pass: syncEditableCollection.                                        *)
(***************************************************************************)

(* Faulty: the pass takes a stamp the clock has not reached.                *)
BeginPass_Ahead(t) ==
    LET d == HomeOf[t] IN
    /\ pass[t] = Idle
    /\ pass' = [pass EXCEPT ![t] =
            [step |-> "fetch", at |-> Clock(d) + 1, read |-> cursor[d]]]
    /\ UNCHANGED <<now, rows, tombs, cursor, remote, stray, deletion, faults, removed, observed, backdated>>

BeginPass(t) ==
    LET d == HomeOf[t] IN
    /\ pass[t] = Idle
    /\ pass' = [pass EXCEPT ![t] =
            [step |-> "fetch", at |-> Clock(d), read |-> cursor[d]]]
    /\ UNCHANGED <<now, rows, tombs, cursor, remote, stray, deletion, faults, removed, observed, backdated>>

(* A cursor is good for a windowed read until its last full read is too old. *)
WindowOf(p) ==
    IF p.read # None /\ p.at <= p.read.fullAt + FullReconcileInterval
    THEN SinceRead(p.read.high)
    ELSE FullRead

(* pullOwnedDocs; a missing composite index degrades the read to a full one. *)
Fetch(t) ==
    LET p == pass[t] IN
    /\ p.step = "fetch"
    /\ \E window \in {WindowOf(p), FullRead} :
        pass' = [pass EXCEPT ![t] =
            [step   |-> "rows",
             at     |-> p.at,
             window |-> window,
             docs   |-> Fetched(window),
             next   |-> NextCursor(window, Fetched(window), p.read, p.at),
             caught |-> Only(Fetched(window), backdated[HomeOf[t]])]]
    /\ observed' = [observed EXCEPT ![HomeOf[t]] = MaxOf(Stamps(remote) \cup {@})]
    /\ UNCHANGED <<now, rows, tombs, cursor, remote, stray, deletion, faults, removed, backdated>>

ReadRows(t) ==
    LET p == pass[t] IN
    /\ p.step = "rows"
    /\ pass' = [pass EXCEPT ![t] =
            [step |-> "tombs", at |-> p.at, window |-> p.window, docs |-> p.docs,
             next |-> p.next, caught |-> p.caught, local |-> rows[HomeOf[t]]]]
    /\ UNCHANGED <<now, rows, tombs, cursor, remote, stray, deletion, faults, removed, observed, backdated>>

(* The tombstone list is read last; the merge and the push follow without   *)
(* another await.  (The ghost: a doc the pass writes over is not settled by *)
(* having been read.)                                                       *)
Merge(t) ==
    LET p == pass[t]
        list == tombs[HomeOf[t]]
        plan == mergeRecords(p.local, list, p.docs, p.at, Empty, p.window)
        writes == RemoteWrites(p.local, list, plan)
    IN
    /\ p.step = "tombs"
    /\ pass' = [pass EXCEPT ![t] =
            [step   |-> "apply",
             writes |-> writes,
             pulls  |-> Pulled(p.docs, plan),
             drops  |-> plan.deleteLocal,
             list   |-> NextTombstones(list, p.docs, plan),
             next   |-> p.next,
             caught |-> Without(p.caught, {write.id : write \in writes})]]
    /\ UNCHANGED <<now, rows, tombs, cursor, remote, stray, deletion, faults, removed, observed, backdated>>

(* A write reaches the remote collection: setDoc and deleteDoc are          *)
(* unconditional.  No window shows a device a doc that landed with a stamp  *)
(* it had read past, nor that a doc is gone.                                *)
Land(write) ==
    /\ remote' = Landed(remote, write)
    /\ backdated' = [d \in Device |->
            IF write.doc = None \/ write.doc.at <= observed[d]
            THEN backdated[d] \cup {write.id}
            ELSE backdated[d] \ {write.id}]

(* runBounded: the writes are in flight together and land in any order.     *)
Push(t) ==
    /\ pass[t].step = "apply"
    /\ \E write \in pass[t].writes :
        /\ Land(write)
        /\ pass' = [pass EXCEPT ![t].writes = @ \ {write}]
    /\ UNCHANGED <<now, rows, tombs, cursor, stray, deletion, faults, removed, observed>>

Pushed(t) == pass[t].step = "apply" /\ pass[t].writes = {}

PutPulls(t) ==
    LET d == HomeOf[t] IN
    /\ Pushed(t)
    /\ pass[t].pulls # Empty
    /\ rows' = [rows EXCEPT ![d] = Put(@, pass[t].pulls)]
    /\ removed' = [removed EXCEPT ![d] = Without(@, DOMAIN pass[t].pulls)]
    /\ pass' = [pass EXCEPT ![t].pulls = Empty]
    /\ UNCHANGED <<now, tombs, cursor, remote, stray, deletion, faults, observed, backdated>>

DropRows(t) ==
    LET d == HomeOf[t] IN
    /\ Pushed(t)
    /\ pass[t].pulls = Empty
    /\ pass[t].drops # {}
    /\ rows' = [rows EXCEPT ![d] = Without(@, pass[t].drops)]
    /\ pass' = [pass EXCEPT ![t].drops = {}]
    /\ UNCHANGED <<now, tombs, cursor, remote, stray, deletion, faults, removed, observed, backdated>>

WriteTombstones(t) ==
    LET d == HomeOf[t] IN
    /\ Pushed(t)
    /\ pass[t].pulls = Empty /\ pass[t].drops = {}
    /\ pass[t].list # None
    /\ tombs' = [tombs EXCEPT ![d] = pass[t].list]
    /\ pass' = [pass EXCEPT ![t].list = None]
    /\ UNCHANGED <<now, rows, cursor, remote, stray, deletion, faults, removed, observed, backdated>>

(* Faulty: the cursor does not wait for the push.                           *)
WriteCursor_Early(t) ==
    /\ pass[t].step = "apply"
    /\ cursor' = [cursor EXCEPT ![HomeOf[t]] = pass[t].next]
    /\ pass' = [pass EXCEPT ![t] = Idle]
    /\ UNCHANGED <<now, rows, tombs, remote, stray, deletion, faults, removed, observed, backdated>>

(* Last, and only once every write above landed.                            *)
WriteCursor(t) ==
    LET d == HomeOf[t]
        caught == pass[t].caught
    IN
    /\ Pushed(t)
    /\ pass[t].pulls = Empty /\ pass[t].drops = {} /\ pass[t].list = None
    /\ cursor' = [cursor EXCEPT ![d] = pass[t].next]
    /\ pass' = [pass EXCEPT ![t] = Idle]
    /\ backdated' = [backdated EXCEPT ![d] =
            @ \ {i \in DOMAIN caught \cap DOMAIN remote : remote[i] = caught[i]}]
    /\ UNCHANGED <<now, rows, tombs, remote, stray, deletion, faults, removed, observed>>

-----------------------------------------------------------------------------
(***************************************************************************)
(* Faults and time.                                                         *)
(***************************************************************************)

(* A read or a write fails and the pass throws.  The pool stops nothing:    *)
(* writes already handed to it keep running, and a write that reports a     *)
(* failure may have reached the server.                                     *)
PassFails(t) ==
    /\ faults < MaxFaults
    /\ pass[t] # Idle
    /\ stray' = [stray EXCEPT ![t] =
            @ \cup (IF pass[t].step = "apply" THEN pass[t].writes ELSE {})]
    /\ pass' = [pass EXCEPT ![t] = Idle]
    /\ faults' = faults + 1
    /\ UNCHANGED <<now, rows, tombs, cursor, remote, deletion, removed, observed, backdated>>

StrayLands(t) ==
    /\ \E write \in stray[t] :
        /\ Land(write)
        /\ stray' = [stray EXCEPT ![t] = @ \ {write}]
    /\ UNCHANGED <<now, rows, tombs, cursor, pass, deletion, faults, removed, observed>>

StrayFails(t) ==
    /\ \E write \in stray[t] : stray' = [stray EXCEPT ![t] = @ \ {write}]
    /\ UNCHANGED <<now, rows, tombs, cursor, remote, pass, deletion, faults, removed, observed, backdated>>

(* The tab closes: its pass and its unfinished deletion are gone.           *)
Crash(t) ==
    /\ faults < MaxFaults
    /\ pass[t] # Idle \/ deletion[t] # NoDeletion \/ stray[t] # {}
    /\ pass' = [pass EXCEPT ![t] = Idle]
    /\ stray' = [stray EXCEPT ![t] = {}]
    /\ deletion' = [deletion EXCEPT ![t] = NoDeletion]
    /\ faults' = faults + 1
    /\ UNCHANGED <<now, rows, tombs, cursor, remote, removed, observed, backdated>>

Tick ==
    /\ now < MaxTime
    /\ now' = now + 1
    /\ UNCHANGED <<rows, tombs, cursor, remote, pass, stray, deletion, faults, removed, observed, backdated>>

Next ==
    \/ \E d \in Device, i \in Id : Edit(d, i) \/ DeleteInTransaction(d, i)
    \/ \E t \in Tab, i \in Id : DeleteRow(t, i)
    \/ \E t \in Tab :
        \/ ReadTombstoneList(t) \/ PutTombstoneList(t)
        \/ BeginPass(t) \/ Fetch(t) \/ ReadRows(t) \/ Merge(t)
        \/ Push(t) \/ PutPulls(t) \/ DropRows(t) \/ WriteTombstones(t) \/ WriteCursor(t)
        \/ PassFails(t) \/ StrayLands(t) \/ StrayFails(t) \/ Crash(t)
    \/ Tick

Spec == Init /\ [][Next]_vars

-----------------------------------------------------------------------------
(***************************************************************************)
(* Properties.                                                              *)
(***************************************************************************)

Stamp == 0 .. MaxTime + MaxSkew
Partial(V) == UNION {[S -> V] : S \in SUBSET Id}
Doc == [at : Stamp, deleted : BOOLEAN]
Cursor == [high : Stamp, fullAt : Stamp]
Window == [full : BOOLEAN, since : Stamp]
Write == [id : Id, doc : Doc \cup {None}]

Fetching == [step : {"fetch"}, at : Stamp, read : Cursor \cup {None}]
Reading == [step : {"rows"}, at : Stamp, window : Window, docs : Partial(Doc),
            next : Cursor, caught : Partial(Doc)]
Merging == [step : {"tombs"}, at : Stamp, window : Window, docs : Partial(Doc),
            next : Cursor, caught : Partial(Doc), local : Partial(Stamp)]
Applying == [step : {"apply"}, writes : SUBSET Write, pulls : Partial(Stamp),
             drops : SUBSET Id, list : Partial(Stamp) \cup {None},
             next : Cursor, caught : Partial(Doc)]

Deleting == [step : {"read"}, id : Id] \cup [step : {"put"}, list : Partial(Stamp)]

(* What each variable holds: every stamp anywhere was some device's clock.  *)
TypeOK ==
    /\ now \in 1..MaxTime
    /\ rows \in [Device -> Partial(Stamp)]
    /\ tombs \in [Device -> Partial(Stamp)]
    /\ cursor \in [Device -> Cursor \cup {None}]
    /\ remote \in Partial(Doc)
    /\ pass \in [Tab -> {Idle} \cup Fetching \cup Reading \cup Merging \cup Applying]
    /\ stray \in [Tab -> SUBSET Write]
    /\ deletion \in [Tab -> {NoDeletion} \cup Deleting]
    /\ faults \in 0..MaxFaults
    /\ removed \in [Device -> Partial(Stamp)]
    /\ observed \in [Device -> Stamp]
    /\ backdated \in [Device -> SUBSET Id]

(* Device d is at least as new as the remote doc of i: a live doc's row is  *)
(* here unless its user deleted it, a tombstone's row is not.               *)
Reflected(d, i) ==
    IF remote[i].deleted
    THEN i \notin DOMAIN rows[d] \/ rows[d][i] > remote[i].at
    ELSE i \in DOMAIN removed[d] \/ (i \in DOMAIN rows[d] /\ rows[d][i] >= remote[i].at)

(* The pull cursor hides nothing it should not: whatever fails or crashes   *)
(* in between, a remote doc a device does not reflect is above its cursor,  *)
(* and so in its next window, unless it landed with a stamp the device had  *)
(* already read past.                                                       *)
OnlyBackdatedHidden ==
    \A d \in Device, i \in Id :
        i \in DOMAIN remote =>
            \/ Reflected(d, i)
            \/ cursor[d] = None
            \/ remote[i].at > cursor[d].high
            \/ i \in backdated[d]

(* A local edit is never stranded: a row the remote side does not hold yet  *)
(* is stamped above the cursor, which is what makes a windowed pass push it *)
(* (`l && !r`), unless the remote doc changed where no window shows it.     *)
UnsyncedAboveCursor ==
    \A d \in Device : \A i \in DOMAIN rows[d] :
            \/ i \in DOMAIN remote /\ remote[i].at >= rows[d][i]
            \/ cursor[d] = None
            \/ rows[d][i] > cursor[d].high
            \/ i \in backdated[d]

(* Last write wins by updatedAt: a row present before and after a step is   *)
(* never replaced by an older version.                                      *)
RowsNeverGoBack ==
    [][\A d \in Device : \A i \in DOMAIN rows[d] \cap DOMAIN rows'[d] :
            rows'[d][i] >= rows[d][i]]_vars

(* "Pushed tombstones are now recorded remotely; resolved ones are dropped":  *)
(* a tombstone leaves the list only once the remote side holds nothing older *)
(* than the deletion, the row is back, or the deletion is too old to matter. *)
(* The code does not keep it: no run checks it, the README says why.       *)
TombstonesHandedOver ==
    [][\A d \in Device : \A i \in DOMAIN tombs[d] \ DOMAIN tombs'[d] :
            \/ i \in DOMAIN rows[d]
            \/ (i \in DOMAIN remote => remote[i].at >= tombs[d][i])
            \/ Expired(tombs[d][i], Clock(d))]_vars

=============================================================================
