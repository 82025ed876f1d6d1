----------------------------- MODULE SettingsSync -----------------------------
(***************************************************************************)
(* Synced settings: one local set per device, and a remote collection and   *)
(* a cursor per Character.  syncSettings (src/sync/settingsSync.ts) merges  *)
(* the set with one Character's collection, so that a value one Character   *)
(* pulled is relayed to the others; meanwhile the user writes settings      *)
(* (src/lib/useSyncedSetting.ts, src/sync/planSync.ts) and other devices    *)
(* change the collections.  Every await of a pass is a point where the      *)
(* others act.  A value is the time it was chosen.                          *)
(***************************************************************************)
EXTENDS FiniteSets, RecordMerge

CONSTANTS
    Character, Key,
    MaxTime,        \* bound: what users do, here and on other devices, and what fails
    SeqWidth,       \* bound: the sequence wraps; it is only compared for equality
    Chosen,         \* bound: the keys the user writes here
    Seeded,         \* keys whose row was adopted from a legacy one, without a stamp
    Tabs,           \* tabs whose sync queue is busy; a queue runs one pass at a time
    None

ASSUME SettingsSyncAssumptions ==
    /\ IsFiniteSet(Character) /\ IsFiniteSet(Key)
    /\ MaxTime \in Nat /\ MaxTime >= 3 /\ SeqWidth \in Nat \ {0} /\ Tabs \in Nat
    /\ Chosen \subseteq Key /\ Seeded \subseteq Key
    /\ None \notin Nat

VARIABLES
    now,
    value,          \* value[k]: the settings row, or None
    meta,           \* meta[k]: its stamp, 0 when it has none
    tombs,          \* tombs[k]: when it was deleted here, 0 when it was not
    remote,         \* remote[c]: Character c's collection, keys to docs
    cursor,         \* cursor[c]: c's pull cursor, or None
    appliedSeq, seenSeq,
    pass,           \* pass[c]: where c's pass is
    writing,        \* the user's write between two of its awaits
    torn,           \* ghost: keys whose row, stamp and tombstone were parted, or one lost
    mixed,          \* ghost: keys whose row a pass read under another stamp
    overtaken       \* ghost: keys changed below what a pass out had already read

vars == <<now, value, meta, tombs, remote, cursor, appliedSeq, seenSeq, pass, writing,
          torn, mixed, overtaken>>

device == <<value, meta, tombs>>
books == <<cursor, appliedSeq, seenSeq>>
ghosts == <<torn, mixed, overtaken>>

Idle == [step |-> "idle"]
NotWriting == [step |-> "none"]

Init ==
    /\ now = 3
    /\ value = [k \in Key |-> IF k \in Seeded THEN 1 ELSE None]
    /\ meta = [k \in Key |-> 0]
    /\ tombs = [k \in Key |-> 0]
    /\ remote = [c \in Character |-> Empty]
    /\ cursor = [c \in Character |-> None]
    /\ appliedSeq = 0
    /\ seenSeq = [c \in Character |-> 0]
    /\ pass = [c \in Character |-> Idle]
    /\ writing = NotWriting
    /\ torn = {}
    /\ mixed = {}
    /\ overtaken = {}

(* A write a pass meets between two of its awaits.                          *)
Crossed == {k \in Key : writing # NotWriting /\ writing.key = k}

After(seq) == (seq + 1) % SeqWidth

MaxOf(S) == CHOOSE m \in S : \A n \in S : n <= m

-----------------------------------------------------------------------------
(***************************************************************************)
(* mergeSettings (src/sync/merge.ts), each list as the set of its keys.     *)
(***************************************************************************)
mergeSettings(val, stamp, buriedAt, docs, at, window) ==
    LET local == {k \in Key : val[k] # None}
        buried == {k \in Key : buriedAt[k] > 0} \ local
        edited == {k \in buried \cap Live(docs) : docs[k].at > buriedAt[k]}
        resurrected == {k \in local \cap Dead(docs) : stamp[k] > docs[k].at}
    IN  [push |-> {k \in local : IF k \in DOMAIN docs THEN stamp[k] > docs[k].at
                                                      ELSE InWindow(window, stamp[k])},
         pull |-> edited \cup (Live(docs) \ (local \cup buried))
                         \cup {k \in local \cap Live(docs) : docs[k].at > stamp[k]},
         pushTombstones |-> {k \in buried \ (Dead(docs) \cup edited) :
                                k \in Live(docs) \/ InWindow(window, buriedAt[k])},
         deleteLocal |-> (local \cap Dead(docs)) \ resurrected,
         purgeRemote |-> {k \in Dead(docs) \ resurrected : Expired(docs[k].at, at)},
         clearLocalTombstones |-> edited \cup {k \in local : buriedAt[k] > 0}]

-----------------------------------------------------------------------------
(***************************************************************************)
(* A pass over Character c.                                                 *)
(***************************************************************************)

(* The snapshot the merge works from is read an await at a time: the        *)
(* stamps, under the pass's own time ...                                    *)
ReadStamps(c) ==
    /\ pass[c].step = "idle"
    /\ Cardinality({d \in Character : pass[d] # Idle}) < Tabs
    /\ pass' = [pass EXCEPT ![c] = [step |-> "tombs", at |-> now, meta |-> meta, tombs |-> None,
                                    value |-> None, seq |-> None, window |-> None]]
    /\ UNCHANGED <<now, device, remote, books, writing, ghosts>>

(* ... the tombstone list ...                                               *)
ReadTombstones(c) ==
    /\ pass[c].step = "tombs"
    /\ pass' = [pass EXCEPT ![c].step = "rows", ![c].tombs = tombs]
    /\ UNCHANGED <<now, device, remote, books, writing, ghosts>>

(* ... and the rows.                                                        *)
ReadRows(c) ==
    /\ pass[c].step = "rows"
    /\ pass' = [pass EXCEPT ![c].step = "books", ![c].value = value]
    /\ mixed' = mixed \cup Crossed \cup {k \in Key : meta[k] # pass[c].meta[k]}
    /\ UNCHANGED <<now, device, remote, books, writing, torn, overtaken>>

(* Faulty: what another Character's pass applied is not noticed.            *)
forceFull_UnstampedOnly(val, stamp, c) == \E k \in Key : val[k] # None /\ stamp[k] = 0

forceFull(val, stamp, c) == \/ \E k \in Key : val[k] # None /\ stamp[k] = 0
                            \/ appliedSeq # seenSeq[c]

(* Then what was applied, and the window to read.  Of the three reads this  *)
(* stands for, appliedSeq alone is another pass's to change.                *)
ReadBooks(c) ==
    LET fresh == ~forceFull(pass[c].value, pass[c].meta, c) /\ cursor[c] # None IN
    /\ pass[c].step = "books"
    /\ pass' = [pass EXCEPT ![c].step = "fetch", ![c].seq = appliedSeq,
                            ![c].window = IF fresh THEN SinceRead(cursor[c]) ELSE FullRead]
    /\ UNCHANGED <<now, device, remote, books, writing, ghosts>>

Stamped(p, k) == IF p.meta[k] > 0 THEN p.meta[k] ELSE p.at

(* The remote writes a plan asks for: the key and its new doc, or None.     *)
RemoteWrites(p, plan) ==
    {[key |-> k, doc |-> [value |-> p.value[k], at |-> Stamped(p, k), deleted |-> FALSE]] :
        k \in plan.push}
    \cup {[key |-> k, doc |-> [value |-> None, at |-> p.tombs[k], deleted |-> TRUE]] :
        k \in plan.pushTombstones}
    \cup {[key |-> k, doc |-> None] : k \in plan.purgeRemote}

(* The tombstone list to write back, or None when nothing is cleared.       *)
Kept(list, cleared) ==
    IF cleared = {} THEN None
    ELSE [was |-> list, left |-> [k \in Key |-> IF k \in cleared THEN 0 ELSE list[k]]]

Fetch(c) ==
    LET p == pass[c]
        docs == Only(remote[c], {k \in DOMAIN remote[c] : InWindow(p.window, remote[c][k].at)})
        Passed(list, was, high) == {k \in Key : list[k] # was[k] /\ list[k] < high}
    IN
    /\ p.step = "fetch"
    /\ \E plan \in {mergeSettings(p.value, p.meta, p.tombs, docs, p.at, p.window)},
          high \in {MaxOf({docs[k].at : k \in DOMAIN docs} \cup {p.window.since})} :
          LET unstamped == {k \in plan.push : p.meta[k] = 0} IN
          /\ pass' = [pass EXCEPT ![c] =
                [step |-> "push", seq |-> p.seq,
                 writes |-> RemoteWrites(p, plan),
                 stamps |-> [k \in unstamped |-> p.at],
                 pulled |-> Only(docs, plan.pull), deleteLocal |-> plan.deleteLocal,
                 meta |-> Only(p.meta, unstamped \cup plan.pull \cup plan.deleteLocal),
                 tombs |-> Kept(p.tombs, plan.clearLocalTombstones),
                 high |-> high]]
          /\ overtaken' = overtaken \cup Passed(meta, p.meta, high)
                                    \cup Passed(tombs, p.tombs, high)
    /\ UNCHANGED <<now, device, remote, books, writing, torn, mixed>>

Push(c) ==
    /\ pass[c].step = "push"
    /\ \E w \in pass[c].writes :
          /\ remote' = [remote EXCEPT ![c] =
                          IF w.doc = None THEN Without(@, {w.key})
                                          ELSE Put(@, [k \in {w.key} |-> w.doc])]
          /\ pass' = [pass EXCEPT ![c].writes = @ \ {w}]
    /\ UNCHANGED <<now, device, books, writing, ghosts>>

(* Faulty: the apply trusts the snapshot.                                   *)
untouched_Always(c) == DOMAIN pass[c].meta

(* The keys whose stamp has not moved since the snapshot.                   *)
untouched(c) == {k \in DOMAIN pass[c].meta : meta[k] = pass[c].meta[k]}

(* The one transaction: rows and stamps land together, and every other      *)
(* Character is told to read in full.                                       *)
Apply(c) ==
    LET p == pass[c]
        pulled == DOMAIN p.pulled \cap untouched(c)
        deleted == p.deleteLocal \cap untouched(c)
        stamped == (DOMAIN p.stamps \cap untouched(c)) \ (pulled \cup deleted)
        skipped == pulled # DOMAIN p.pulled \/ deleted # p.deleteLocal
        bumps == pulled \cup deleted # {}
    IN
    /\ p.step = "push" /\ p.writes = {}
    /\ value' = [k \in Key |-> CASE k \in pulled -> p.pulled[k].value
                                 [] k \in deleted -> None
                                 [] OTHER -> value[k]]
    /\ meta' = [k \in Key |-> CASE k \in pulled -> p.pulled[k].at
                                [] k \in deleted -> 0
                                [] k \in stamped -> p.stamps[k]
                                [] OTHER -> meta[k]]
    /\ appliedSeq' = IF bumps THEN After(appliedSeq) ELSE appliedSeq
    /\ overtaken' = overtaken \ (pulled \cup deleted)
    /\ torn' = torn \cup (Crossed \cap (pulled \cup deleted \cup stamped))
    /\ pass' = [pass EXCEPT ![c] =
                  [step |-> "settle", tombs |-> p.tombs, high |-> p.high,
                   skipped |-> skipped,
                   seen |-> IF bumps /\ appliedSeq = p.seq THEN After(p.seq) ELSE p.seq]]
    /\ UNCHANGED <<now, tombs, remote, cursor, seenSeq, writing, mixed>>

(* Faulty: the list is written back though nothing was cleared from it.     *)
Settle_NoList(c) ==
    /\ pass[c].step = "settle"
    /\ tombs' = pass[c].tombs
    /\ pass' = [pass EXCEPT ![c].step = "cursor"]
    /\ UNCHANGED <<now, value, meta, remote, books, writing, ghosts>>

(* The tombstone list is written back from the snapshot ...                 *)
Settle(c) ==
    LET p == pass[c] IN
    /\ p.step = "settle"
    /\ IF p.tombs = None THEN UNCHANGED <<tombs, torn>>
       ELSE /\ tombs' = p.tombs.left
            /\ torn' = torn \cup {k \in Key : tombs[k] # p.tombs.was[k]}
    /\ pass' = [pass EXCEPT ![c].step = "cursor"]
    /\ UNCHANGED <<now, value, meta, remote, books, writing, mixed, overtaken>>

(* ... and the cursor and the sequence move, unless a doc was skipped.      *)
MoveCursor(c) ==
    LET p == pass[c] IN
    /\ p.step = "cursor"
    /\ IF p.skipped THEN pass' = [pass EXCEPT ![c] = Idle] /\ UNCHANGED cursor
       ELSE /\ cursor' = [cursor EXCEPT ![c] = p.high]
            /\ pass' = [pass EXCEPT ![c].step = "seen"]
    /\ UNCHANGED <<now, device, remote, appliedSeq, seenSeq, writing, ghosts>>

MoveSeen(c) ==
    /\ pass[c].step = "seen"
    /\ seenSeq' = [seenSeq EXCEPT ![c] = pass[c].seen]
    /\ pass' = [pass EXCEPT ![c] = Idle]
    /\ UNCHANGED <<now, device, remote, cursor, appliedSeq, writing, ghosts>>

(* A pass reads the clock at now, a write stamps its key at now + 1, and    *)
(* users act at now + 2: no two stamps tie.                                 *)
Tick == now + 3 <= MaxTime /\ now' = now + 3

(* A request is refused, which ends its pass; the sync code does not load,   *)
(* which ends the user's write after its first put; or a tab is closed, and *)
(* with it ends what runs there: passes, and the write where it stands.     *)
Interrupt ==
    /\ Tick
    /\ \E ended \in SUBSET {c \in Character : pass[c] # Idle} :
          /\ pass' = [c \in Character |-> IF c \in ended THEN Idle ELSE pass[c]]
          /\ \/ ended # {} /\ UNCHANGED <<writing, torn>>
             \/ writing # NotWriting /\ writing' = NotWriting /\ torn' = torn \cup Crossed
    /\ UNCHANGED <<device, remote, books, mixed, overtaken>>

-----------------------------------------------------------------------------
(***************************************************************************)
(* The user, one write at a time, and the other devices.                    *)
(***************************************************************************)

Acts == Tick /\ UNCHANGED <<remote, books, pass>>

Awaits == UNCHANGED <<now, remote, books, pass>>

(* useSyncedSetting's write puts the row before it has the sync code ...    *)
Choose(k) ==
    /\ Acts /\ writing = NotWriting
    /\ value' = [value EXCEPT ![k] = now + 2]
    /\ writing' = [step |-> "load", key |-> k, value |-> now + 2]
    /\ UNCHANGED <<meta, tombs, ghosts>>

(* ... setSyncedSetting: the row again, then the stamps are read ...        *)
Rewrite ==
    /\ Awaits /\ writing.step = "load"
    /\ value' = [value EXCEPT ![writing.key] = writing.value]
    /\ writing' = [writing EXCEPT !.step = "stamps"]
    /\ UNCHANGED <<meta, tombs, ghosts>>

TakeStamps ==
    LET w == writing IN
    /\ Awaits /\ w.step = "stamps"
    /\ writing' = [step |-> "stamp", key |-> w.key, value |-> w.value, meta |-> meta, at |-> now + 1]
    /\ UNCHANGED <<device, ghosts>>

(* What is written back over a change made since it was read is lost.       *)
Lost(copy, held, k) == {j \in Key \ {k} : copy[j] # held[j]}

(* The key whose change ends, if a pass has read docs that are newer.       *)
Renewed(k, at) ==
    IF \E c \in Character : \/ pass[c].step \in {"push", "settle", "cursor"} /\ at < pass[c].high
                            \/ cursor[c] # None /\ at < cursor[c]
    THEN overtaken \cup {k} ELSE overtaken \ {k}

(* ... and written back with the key's.                                     *)
Stamp ==
    LET w == writing IN
    /\ Awaits /\ w.step = "stamp"
    /\ meta' = [w.meta EXCEPT ![w.key] = w.at]
    /\ torn' = torn \cup Lost(w.meta, meta, w.key)
    /\ overtaken' = Renewed(w.key, w.at)
    /\ writing' = NotWriting
    /\ UNCHANGED <<value, tombs, mixed>>

(* deleteSyncedSetting: the row ...                                         *)
Delete(k) ==
    /\ Acts /\ writing = NotWriting /\ value[k] # None
    /\ value' = [value EXCEPT ![k] = None]
    /\ writing' = [step |-> "unstamps", key |-> k]
    /\ UNCHANGED <<meta, tombs, ghosts>>

(* ... its stamp, if it has one ...                                         *)
TakeOldStamps ==
    /\ Awaits /\ writing.step = "unstamps"
    /\ writing' = [step |-> "unstamp", key |-> writing.key, meta |-> meta]
    /\ UNCHANGED <<device, ghosts>>

Unstamp ==
    LET w == writing IN
    /\ Awaits /\ w.step = "unstamp"
    /\ IF w.meta[w.key] = 0 THEN UNCHANGED <<meta, torn>>
       ELSE /\ meta' = [w.meta EXCEPT ![w.key] = 0]
            /\ torn' = torn \cup Lost(w.meta, meta, w.key)
    /\ writing' = [step |-> "list", key |-> w.key]
    /\ UNCHANGED <<value, tombs, mixed, overtaken>>

(* ... and the tombstone, stamped once the list is read.                    *)
TakeList ==
    /\ Awaits /\ writing.step = "list"
    /\ writing' = [step |-> "bury", key |-> writing.key, tombs |-> tombs, at |-> now + 1]
    /\ UNCHANGED <<device, ghosts>>

Bury ==
    LET w == writing IN
    /\ Awaits /\ w.step = "bury"
    /\ tombs' = [w.tombs EXCEPT ![w.key] = w.at]
    /\ torn' = torn \cup Lost(w.tombs, tombs, w.key)
    /\ overtaken' = Renewed(w.key, w.at)
    /\ writing' = NotWriting
    /\ UNCHANGED <<value, meta, mixed>>

(* Another device, in step with Character c's collection and whose clock    *)
(* agrees, sets k; what it writes for its other Characters comes later.     *)
OtherDeviceSets(c, k) ==
    /\ Tick
    /\ remote' = [remote EXCEPT ![c] = Put(@, [j \in {k} |->
                     [value |-> now + 2, at |-> now + 2, deleted |-> FALSE]])]
    /\ UNCHANGED <<device, books, pass, writing, ghosts>>

(* It deletes k, and says so in the collections of the Characters it holds. *)
OtherDeviceDeletes(D, k) ==
    /\ Tick
    /\ \E c \in D : k \in Live(remote[c])
    /\ remote' = [c \in Character |-> IF c \in D
                     THEN Put(remote[c], [j \in {k} |->
                            [value |-> None, at |-> now + 2, deleted |-> TRUE]])
                     ELSE remote[c]]
    /\ UNCHANGED <<device, books, pass, writing, ghosts>>

Steps(c) ==
    \/ ReadTombstones(c) \/ ReadRows(c) \/ ReadBooks(c) \/ Fetch(c) \/ Push(c)
    \/ Apply(c) \/ Settle(c) \/ MoveCursor(c) \/ MoveSeen(c)

Write ==
    \/ Rewrite \/ TakeStamps \/ Stamp
    \/ TakeOldStamps \/ Unstamp \/ TakeList \/ Bury

Next ==
    \/ \E c \in Character : ReadStamps(c) \/ Steps(c) \/ \E k \in Key : OtherDeviceSets(c, k)
    \/ \E D \in SUBSET Character, k \in Key : OtherDeviceDeletes(D, k)
    \/ \E k \in Chosen : Choose(k) \/ Delete(k)
    \/ Write \/ Interrupt

Spec == Init /\ [][Next]_vars

(* Every Character is swept again and again, and what began goes on, if its  *)
(* tab is not closed.                                                       *)
FairSpec ==
    /\ Spec /\ WF_vars(Write)
    /\ \A c \in Character : SF_vars(ReadStamps(c)) /\ WF_vars(Steps(c))

-----------------------------------------------------------------------------
(* Every variable has its type.                                             *)
TypeOK ==
    /\ now \in 3..MaxTime
    /\ value \in [Key -> Nat \cup {None}]
    /\ meta \in [Key -> 0..now + 1] /\ tombs \in [Key -> 0..now + 1]
    /\ \A c \in Character : \A k \in DOMAIN remote[c] : remote[c][k].at \in 1..now + 1
    /\ cursor \in [Character -> (0..now + 1) \cup {None}]
    /\ appliedSeq \in 0..SeqWidth - 1 /\ seenSeq \in [Character -> 0..SeqWidth - 1]
    /\ torn \cup mixed \cup overtaken \subseteq Key

(* A pull never takes a setting back: what a pass writes over a row was     *)
(* stamped after it, even when the user wrote it while the pass was out;    *)
(* and a row it deletes was not written since the pass read it.  Excepted   *)
(* is a key a pass met between a write's awaits (see WritesSurviveThePull). *)
PullsOnlyNewer ==
    [][\A c \in Character, k \in Key :
          /\ pass[c].step = "push" /\ pass'[c].step = "settle"
          /\ value'[k] # value[k] /\ k \notin torn'
          => IF value'[k] # None THEN meta'[k] > meta[k] ELSE meta[k] = pass[c].meta[k]]_vars

(* Every collection holds what the device holds.                            *)
Copies(k) == \A c \in Character :
    IF k \in Live(remote[c]) THEN value[k] = remote[c][k].value ELSE value[k] = None

(* One collection has a later deletion of k than another has a value, which *)
(* the device then pulls and deletes in turn, for good.                     *)
Divided(k) == \E c, d \in Character :
    k \in Dead(remote[c]) \cap Live(remote[d]) /\ remote[c][k].at > remote[d][k].at

(* Once nobody acts, every Character's collection holds what the device     *)
(* holds: a value one Character pulled is relayed to the others though its  *)
(* stamp may lie below their cursors.  Excepted is a key divided between    *)
(* collections; one whose stamp a write did not get to renew, or lost; one  *)
(* whose row a pass read under a stamp that was not the row's; and one      *)
(* written while a pass read newer docs (see NextPassMergesIt).             *)
SettingsAgree == <>[](\A k \in Key \ (torn \cup mixed \cup overtaken) : Divided(k) \/ Copies(k))

(* "A key whose stamp moved since the snapshot is left alone; the next pass *)
(* merges it properly" (settingsSync.ts:154-155).  The rows are read before *)
(* the query: a key written in between is in no plan, and a doc of another  *)
(* key stamped after it takes the cursor past it.                           *)
(* The code does not keep it: no run checks it, the README says why.       *)
NextPassMergesIt == <>[](\A k \in Key \ (torn \cup mixed) : Divided(k) \/ Copies(k))

(* "Only happens when another device actually changed a setting"            *)
(* (settingsSync.ts:82-83): once nobody acts, full reads are not forced.    *)
(* The code does not keep it: no run checks it, the README says why.       *)
FullReadsEnd == <>[](\A c \in Character : ~forceFull(value, meta, c))

(* "a setSyncedSetting / deleteSyncedSetting landing in between must        *)
(* neither be overwritten by the pull nor lose its stamp" (settingsSync.ts: *)
(* 151-153): when a write ends, the row holds what it wrote.                *)
(* The code does not keep it: no run checks it, the README says why.       *)
WritesSurviveThePull ==
    [][/\ Stamp => value[writing.key] = writing.value
       /\ Bury => value[writing.key] = None]_vars
=============================================================================
