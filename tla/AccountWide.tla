------------------------------ MODULE AccountWide ------------------------------
(***************************************************************************)
(* Account-wide data: one row per Character for each key, because nothing   *)
(* identifies the account (src/sync/accountWideBackfill.ts).  Planet        *)
(* rankings, and the station pins of scope 'account': the user's fan-outs,  *)
(* the copy a newly added Character gets, and the merge that drops a copy   *)
(* once a sibling's deletion is known.                                      *)
(*                                                                         *)
(* One device in detail, with the devices elsewhere that share the remote   *)
(* collections.  Every await of a pass, a fan-out or a backfill is a point   *)
(* where the others act.  A Character's rows and tombstones are keyed by    *)
(* the shared key, a row's id being that key under the Character's name.    *)
(***************************************************************************)
EXTENDS RecordMerge, FiniteSets

CONSTANTS
    Character,
    Tab,            \* a tab's queue runs one pass at a time
    Key,            \* planets or stations
    Shared,         \* the keys that are set everywhere at the start
    MaxTime,        \* bound: the user acts only before this time
    MaxUpsets,      \* bound: what lands from elsewhere, and what is cut short
    None

ASSUME AccountWideAssumptions ==
    /\ IsFiniteSet(Character) /\ IsFiniteSet(Key) /\ Shared \subseteq Key
    /\ MaxTime \in Nat \ {0} /\ MaxUpsets \in Nat
    /\ None \notin Nat

VARIABLES
    now,
    roster,     \* the Characters on the device (db.characters)
    rows,       \* rows[c]: Character c's rows
    tombs,      \* tombs[c]: the tombstone list of c
    cursor,     \* cursor[c]: the pull cursor of c, or None
    remote,     \* remote[c]: the docs under c's ownerHash
    act,        \* a fan-out of the user's between two of its awaits
    fill,       \* the backfill of a Character just added
    pass,       \* pass[t]: where tab t's pass is
    upsets,     \* how many there were
    pinned,     \* ghost: when the user set each key, on whichever device
    cleared     \* ghost: when the user cleared it

vars == <<now, roster, rows, tombs, cursor, remote, act, fill, pass, upsets, pinned,
          cleared>>

users == <<now, roster, act, fill, pinned, cleared>>

NoAct == [kind |-> "none"]
NoFill == [step |-> "none"]
NoPass == [step |-> "none"]

MaxOf(S) == CHOOSE m \in S : \A n \in S : n <= m

LiveAt(at) == [at |-> at, deleted |-> FALSE]
DeadAt(at) == [at |-> at, deleted |-> TRUE]

(* The keys of Shared are everywhere already, from passes that ran before;   *)
(* what others pushed for a Character not yet here lands (PassElsewhere).   *)
Init ==
    /\ now = 1
    /\ roster \in SUBSET Character \ {{}}
    /\ rows = [c \in Character |-> IF c \in roster THEN [k \in Shared |-> 0] ELSE Empty]
    /\ tombs = [c \in Character |-> Empty]
    /\ cursor = [c \in Character |-> IF c \in roster /\ Shared # {} THEN 0 ELSE None]
    /\ remote = [c \in Character |->
            IF c \in roster THEN [k \in Shared |-> LiveAt(0)] ELSE Empty]
    /\ act = NoAct
    /\ fill = NoFill
    /\ pass = [t \in Tab |-> NoPass]
    /\ upsets = 0
    /\ pinned = [k \in Key |-> IF k \in Shared THEN {0} ELSE {}]
    /\ cleared = [k \in Key |-> {}]

-----------------------------------------------------------------------------
(* The user's fan-outs: setPlanetRichness, setAccountStationPin.  The       *)
(* Characters are read ...                                                  *)
ReadRoster(k) ==
    /\ now < MaxTime /\ act = NoAct
    /\ act' = [kind |-> "set", key |-> k, who |-> roster]
    /\ UNCHANGED <<now, roster, rows, tombs, cursor, remote, fill, pass, upsets, pinned, cleared>>

(* ... and each gets its row, all with one stamp.                           *)
PutRows ==
    /\ act.kind = "set" /\ now < MaxTime
    /\ rows' = [c \in Character |->
            IF c \in act.who THEN Put(rows[c], [k \in {act.key} |-> now]) ELSE rows[c]]
    /\ pinned' = [pinned EXCEPT ![act.key] = @ \cup {now}]
    /\ act' = NoAct
    /\ now' = now + 1
    /\ UNCHANGED <<roster, tombs, cursor, remote, fill, pass, upsets, cleared>>

Holding(k) == {c \in Character : k \in DOMAIN rows[c]}

(* clearPlanetRichness, clearStationPin: whoever holds a row loses it.      *)
FindRows(k) ==
    /\ now < MaxTime /\ act = NoAct /\ Holding(k) # {}
    /\ act' = [kind |-> "clear", key |-> k, drop |-> Holding(k), record |-> {}]
    /\ UNCHANGED <<now, roster, rows, tombs, cursor, remote, fill, pass, upsets, pinned, cleared>>

(* recordDeletion, for all of them at once: the row goes first ...          *)
DropRow ==
    /\ act.kind = "clear"
    /\ \E c \in act.drop :
        /\ rows' = [rows EXCEPT ![c] = Without(@, {act.key})]
        /\ act' = [act EXCEPT !.drop = @ \ {c}, !.record = @ \cup {c}]
    /\ UNCHANGED <<now, roster, tombs, cursor, remote, fill, pass, upsets, pinned, cleared>>

(* ... then its tombstone is stamped.                                       *)
RecordDeletion ==
    /\ act.kind = "clear" /\ now < MaxTime
    /\ \E c \in act.record :
        LET last == act.drop = {} /\ act.record = {c} IN
        /\ tombs' = [tombs EXCEPT ![c] = Put(@, [k \in {act.key} |-> now])]
        /\ act' = IF last THEN NoAct ELSE [act EXCEPT !.record = @ \ {c}]
        /\ now' = IF last THEN now + 1 ELSE now
    /\ cleared' = [cleared EXCEPT ![act.key] = @ \cup {now}]
    /\ UNCHANGED <<roster, rows, cursor, remote, fill, pass, upsets, pinned>>

-----------------------------------------------------------------------------
(* deletedAtByKey: the latest deletion any Character of the device has.     *)
Listed(k) == {tombs[c][k] : c \in {e \in roster : k \in DOMAIN tombs[e]}}
deletedAtByKey == [k \in {j \in Key : Listed(j) # {}} |-> MaxOf(Listed(k))]

(* addCharacter: completeLogin has written the Character ...                *)
AddCharacter(c) ==
    /\ fill = NoFill /\ c \notin roster
    /\ roster' = roster \cup {c}
    /\ fill' = [step |-> "load", who |-> c]
    /\ UNCHANGED <<now, rows, tombs, cursor, remote, act, pass, upsets, pinned, cleared>>

(* The union of several Characters' rows, the newest of each key.           *)
Union(held) ==
    [k \in UNION {DOMAIN held[c] : c \in DOMAIN held} |->
        MaxOf({held[c][k] : c \in {e \in DOMAIN held : k \in DOMAIN held[e]}})]

(* ... the backfill loads the rows of every other Character ...             *)
LoadShared ==
    LET shared == Union([c \in Character \ {fill.who} |-> rows[c]]) IN
    /\ fill.step = "load"
    /\ fill' = IF shared = Empty THEN NoFill
               ELSE [step |-> "sift", who |-> fill.who, copies |-> shared]
    /\ UNCHANGED <<now, roster, rows, tombs, cursor, remote, act, pass, upsets, pinned, cleared>>

(* ... leaves out what a deletion known here postdates ...                  *)
SiftCopies ==
    LET outdated == {k \in DOMAIN deletedAtByKey \cap DOMAIN fill.copies :
                        fill.copies[k] < deletedAtByKey[k]}
        copies == Without(fill.copies, outdated)
    IN
    /\ fill.step = "sift"
    /\ fill' = IF copies = Empty THEN NoFill
               ELSE [step |-> "write", who |-> fill.who, copies |-> copies]
    /\ UNCHANGED <<now, roster, rows, tombs, cursor, remote, act, pass, upsets, pinned, cleared>>

(* Faulty: a copy is stamped when it is made.                               *)
WriteCopies_Restamped ==
    /\ fill.step = "write"
    /\ rows' = [rows EXCEPT ![fill.who] = Put([k \in DOMAIN fill.copies |-> now], @)]
    /\ fill' = NoFill
    /\ UNCHANGED <<now, roster, tombs, cursor, remote, act, pass, upsets, pinned, cleared>>

(* ... and writes, stamps unchanged, what the Character does not hold yet.  *)
WriteCopies ==
    /\ fill.step = "write"
    /\ rows' = [rows EXCEPT ![fill.who] = Put(fill.copies, @)]
    /\ fill' = NoFill
    /\ UNCHANGED <<now, roster, tombs, cursor, remote, act, pass, upsets, pinned, cleared>>

Upset == upsets < MaxUpsets /\ upsets' = upsets + 1

(* A tab closes, a request of a pass is refused, or the backfill throws,    *)
(* which addCharacter swallows.                                             *)
Interrupted ==
    /\ Upset
    /\ \E ended \in SUBSET {t \in Tab : pass[t] # NoPass} :
        pass' = [t \in Tab |-> IF t \in ended THEN NoPass ELSE pass[t]]
    /\ act' \in {act, NoAct} /\ fill' \in {fill, NoFill}
    /\ <<act, fill, pass>>' # <<act, fill, pass>>
    /\ UNCHANGED <<now, roster, rows, tombs, cursor, remote, pinned, cleared>>

-----------------------------------------------------------------------------
(***************************************************************************)
(* syncEditableCollection in tab t, over Character c, with its index.       *)
(***************************************************************************)
(* A read is full without a cursor, and also when the last full one is too  *)
(* long ago or the index is missing.                                        *)
BeginPass(t, c) ==
    /\ pass[t] = NoPass /\ c \in roster
    /\ \E window \in {FullRead} \cup {SinceRead(high) : high \in {cursor[c]} \ {None}} :
        /\ pass' = [pass EXCEPT ![t] = [step |-> "fetch", who |-> c, at |-> now, window |-> window,
                                        docs |-> None, local |-> None, list |-> None]]
        /\ IF window.full /\ cursor[c] # None THEN Upset ELSE UNCHANGED upsets
    /\ UNCHANGED <<users, rows, tombs, cursor, remote>>

Fetch(t) ==
    LET p == pass[t]
        docs == remote[p.who]
    IN
    /\ p.step = "fetch"
    /\ pass' = [pass EXCEPT ![t].step = "rows",
            ![t].docs = Only(docs, {k \in DOMAIN docs : InWindow(p.window, docs[k].at)})]
    /\ UNCHANGED <<users, upsets, rows, tombs, cursor, remote>>

ReadRows(t) ==
    /\ pass[t].step = "rows"
    /\ pass' = [pass EXCEPT ![t].step = "list", ![t].local = rows[pass[t].who]]
    /\ UNCHANGED <<users, upsets, rows, tombs, cursor, remote>>

ReadTombstones(t) ==
    /\ pass[t].step = "list"
    /\ pass' = [pass EXCEPT ![t].step = "merge", ![t].list = tombs[pass[t].who]]
    /\ UNCHANGED <<users, upsets, rows, tombs, cursor, remote>>

(* The deletions a pass hands over, with the time each was made: the        *)
(* Character's own or, where a row was stale, a sibling's.                  *)
DeletionTimes(local, list, plan) ==
    [k \in plan.pushTombstones |-> IF k \in DOMAIN local THEN deletedAtByKey[k] ELSE list[k]]

(* Faulty: a deletion is as recent as the pass that learns it.              *)
Learned_Now(docs, times, plan) == [k \in plan.deleteLocal |-> now]

(* The deletions it learns, for the list.                                   *)
Learned(docs, times, plan) ==
    [k \in plan.deleteLocal |-> IF k \in DOMAIN times THEN times[k] ELSE docs[k].at]

(* The remote writes of a plan: the key and its new doc, or None.           *)
Writes(local, times, plan) ==
    {[key |-> k, doc |-> LiveAt(local[k])] : k \in plan.pushUpserts}
    \cup {[key |-> k, doc |-> DeadAt(times[k])] : k \in DOMAIN times}
    \cup {[key |-> k, doc |-> None] : k \in plan.purgeRemote}

(* The siblings' deletions are the last thing read.                         *)
Merge(t) ==
    LET p     == pass[t]
        plan  == mergeRecords(p.local, p.list, p.docs, p.at, deletedAtByKey, p.window)
        times == DeletionTimes(p.local, p.list, plan)
        done  == plan.clearLocalTombstones \cup plan.pushTombstones
    IN
    /\ p.step = "merge"
    /\ pass' = [pass EXCEPT ![t] =
            [step |-> "push", who |-> p.who, window |-> p.window, docs |-> p.docs,
             writes |-> Writes(p.local, times, plan),
             pulls |-> [k \in plan.pullUpserts |-> p.docs[k].at],
             drops |-> Only(p.local, plan.deleteLocal),
             list |-> IF done \cup plan.deleteLocal = {} THEN None
                      ELSE Put(Without(p.list, done), Learned(p.docs, times, plan)),
             high |-> MaxOf({p.docs[k].at : k \in DOMAIN p.docs} \cup {p.window.since})]]
    /\ UNCHANGED <<users, upsets, rows, tombs, cursor, remote>>

Push(t) ==
    LET c == pass[t].who IN
    /\ pass[t].step = "push"
    /\ \E w \in pass[t].writes :
        /\ remote' = [remote EXCEPT ![c] =
                IF w.doc = None THEN Without(@, {w.key}) ELSE Put(@, [k \in {w.key} |-> w.doc])]
        /\ pass' = [pass EXCEPT ![t].writes = @ \ {w}]
    /\ UNCHANGED <<users, upsets, rows, tombs, cursor>>

PutPulls(t) ==
    /\ pass[t].step = "push" /\ pass[t].writes = {}
    /\ rows' = [rows EXCEPT ![pass[t].who] = Put(@, pass[t].pulls)]
    /\ pass' = [pass EXCEPT ![t] = [step |-> "drop", who |-> @.who, drops |-> @.drops,
                                    list |-> @.list, high |-> @.high]]
    /\ UNCHANGED <<users, upsets, tombs, cursor, remote>>

(* By id, whatever the rows have become.                                    *)
DropRows(t) ==
    /\ pass[t].step = "drop"
    /\ rows' = [rows EXCEPT ![pass[t].who] = Without(@, DOMAIN pass[t].drops)]
    /\ pass' = [pass EXCEPT ![t].step = "settle", ![t].drops = Empty]
    /\ UNCHANGED <<users, upsets, tombs, cursor, remote>>

(* The list as it was read, without what is done and with what is learned.  *)
WriteTombstones(t) ==
    LET p == pass[t] IN
    /\ p.step = "settle"
    /\ tombs' = IF p.list = None THEN tombs ELSE [tombs EXCEPT ![p.who] = p.list]
    /\ pass' = [pass EXCEPT ![t].step = "cursor", ![t].list = None]
    /\ UNCHANGED <<users, upsets, rows, cursor, remote>>

WriteCursor(t) ==
    LET p == pass[t] IN
    /\ p.step = "cursor"
    /\ cursor' = [cursor EXCEPT ![p.who] = p.high]
    /\ pass' = [pass EXCEPT ![t] = NoPass]
    /\ UNCHANGED <<users, upsets, rows, tombs, remote>>

-----------------------------------------------------------------------------
(* The user on another device, which may be offline.                        *)
ActElsewhere(k) ==
    /\ now < MaxTime
    /\ \/ pinned' = [pinned EXCEPT ![k] = @ \cup {now}] /\ UNCHANGED cleared
       \/ cleared' = [cleared EXCEPT ![k] = @ \cup {now}] /\ UNCHANGED pinned
    /\ now' = now + 1
    /\ UNCHANGED <<roster, rows, tombs, cursor, remote, act, fill, pass, upsets>>

(* Another device's pass over c, at last, or a write that outlived its pass: *)
(* what some user did lands, over whatever doc there is by now, or an       *)
(* expired tombstone is purged.                                             *)
PassElsewhere(c, k) ==
    /\ Upset
    /\ \/ \E version \in {LiveAt(at) : at \in pinned[k]} \cup {DeadAt(at) : at \in cleared[k]} :
            remote' = [remote EXCEPT ![c] = Put(@, [j \in {k} |-> version])]
       \/ /\ \E at \in cleared[k] : Expired(at, now)
          /\ remote' = [remote EXCEPT ![c] = Without(@, {k})]
    /\ UNCHANGED <<users, rows, tombs, cursor, pass>>

Steps(t) ==
    \/ Fetch(t) \/ ReadRows(t) \/ ReadTombstones(t) \/ Merge(t) \/ Push(t)
    \/ PutPulls(t) \/ DropRows(t) \/ WriteTombstones(t) \/ WriteCursor(t)

Next ==
    \/ \E k \in Key : ReadRoster(k) \/ FindRows(k) \/ ActElsewhere(k)
    \/ PutRows \/ DropRow \/ RecordDeletion
    \/ \E c \in Character : AddCharacter(c)
    \/ \E c \in Character, k \in Key : PassElsewhere(c, k)
    \/ \E t \in Tab : Steps(t) \/ \E c \in Character : BeginPass(t, c)
    \/ LoadShared \/ SiftCopies \/ WriteCopies \/ Interrupted

Spec == Init /\ [][Next]_vars

-----------------------------------------------------------------------------
(***************************************************************************)
(* Properties.                                                              *)
(***************************************************************************)

(* Copies, merges and what a pass learns about deletions never make a stamp  *)
(* of their own: a row or a live doc carries the time the user set its key,  *)
(* a tombstone or a deleted doc the time the user cleared it.  Every         *)
(* comparison of the merge rests on it ("this is load-bearing, not           *)
(* tidiness", accountWideBackfill.ts:49).                                    *)
StampsAreTheUsers ==
    /\ roster \subseteq Character
    /\ fill # NoFill => fill.who \in roster
    /\ \A c \in Character :
        /\ \A k \in DOMAIN rows[c] : rows[c][k] \in pinned[k]
        /\ \A k \in DOMAIN tombs[c] : tombs[c][k] \in cleared[k]
        /\ \A k \in Live(remote[c]) : remote[c][k].at \in pinned[k]
        /\ \A k \in Dead(remote[c]) : remote[c][k].at \in cleared[k]

(* A pass writes to its Character's rows or docs ...                        *)
Writing(t) == pass[t].step \in {"push", "drop"} /\ pass'[t] \notin {pass[t], NoPass}

(* ... where the doc is still as it was read, or as old as what was not.    *)
AsFetched(p, k) ==
    LET doc == remote[p.who][k] IN
    IF k \in DOMAIN p.docs THEN doc = p.docs[k] ELSE ~InWindow(p.window, doc.at)

(* Of what a pass has read, the user's last act wins: a row that the pass   *)
(* takes off, still as it read it, the user has cleared since it was set,   *)
(* whoever the deletion was recorded under; and a deleted doc that it makes *)
(* live again, still as it read it, the user has set since: it is no copy.  *)
LastReadActWins ==
    [][\A t \in Tab : Writing(t) => LET p == pass[t] c == p.who IN
        /\ \A k \in DOMAIN rows[c] \ DOMAIN rows'[c] :
                rows[c][k] = p.drops[k] => \E at \in cleared[k] : at >= rows[c][k]
        /\ \A k \in Dead(remote[c]) \cap Live(remote'[c]) :
                AsFetched(p, k) =>
                    remote'[c][k].at \in pinned[k] /\ remote'[c][k].at > remote[c][k].at]_vars

(* "A deletion that happened after the pin was made still wins"             *)
(* (accountWideBackfill.ts:58-59), and only such a deletion, of what is     *)
(* there when a pass writes.  Rows are deleted by id and docs are set as    *)
(* they are: what has changed since the pass read it goes all the same.     *)
(* The code does not keep it: no run checks it, the README says why.       *)
LastActWins ==
    [][\A t \in Tab : Writing(t) => LET c == pass[t].who IN
        /\ \A k \in DOMAIN rows[c] \ DOMAIN rows'[c] : \E at \in cleared[k] : at >= rows[c][k]
        /\ \A k \in Dead(remote[c]) \cap Live(remote'[c]) : remote'[c][k].at > remote[c][k].at]_vars

(* "Self-heals an already-copied stale row the moment any sibling           *)
(* Character's own sync learns the deletion": a pass leaves no row that is  *)
(* older than a deletion read under a sibling.                              *)
(* The code does not keep it: no run checks it, the README says why.       *)
HealedOnceLearned ==
    [][\A c, e \in roster : cursor'[c] # cursor[c] /\ cursor[e] # None =>
        \A k \in DOMAIN rows'[c] \cap Dead(remote[e]) :
            remote[e][k].at <= cursor[e] => rows'[c][k] >= remote[e][k].at]_vars

(* "Last-write-wins by updatedAt" (merge.ts:3): a deletion handed on from a  *)
(* sibling replaces no doc that was set after it, and that the pass read.    *)
(* The code does not keep it: no run checks it, the README says why.       *)
NewerDocsSurvive ==
    [][\A t \in Tab : Writing(t) => LET p == pass[t] c == p.who IN
        \A k \in Live(remote[c]) \cap Dead(remote'[c]) :
            AsFetched(p, k) => remote'[c][k].at >= remote[c][k].at]_vars
=============================================================================
