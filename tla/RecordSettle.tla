----------------------------- MODULE RecordSettle -----------------------------
(***************************************************************************)
(* Where the passes of RecordSync lead once the users stop: each device in  *)
(* turn runs a whole pass with nothing else in flight.  The pass here is    *)
(* the same syncEditableCollection, its steps taken together, and it reads  *)
(* the whole collection, as every pass does once FULL_RECONCILE_INTERVAL_MS *)
(* has gone by.                                                             *)
(***************************************************************************)
EXTENDS RecordSync

(* The remote docs once all of a pass's writes landed.  No record is in two *)
(* of them, so their order does not matter.                                 *)
LandedAll(docs, writes) ==
    LET gone == {w.id : w \in {x \in writes : x.doc = None}}
        set  == {w.id : w \in {x \in writes : x.doc # None}}
    IN  [i \in (DOMAIN docs \cup set) \ gone |->
            IF i \in set THEN (CHOOSE w \in writes : w.id = i).doc ELSE docs[i]]

(* One undisturbed pass of device d over a state of the store.              *)
Settle(store, d) ==
    LET at     == Clock(d)
        docs   == store.remote
        local  == store.rows[d]
        list   == store.tombs[d]
        plan   == mergeRecords(local, list, docs, at, Empty, FullRead)
        next   == NextTombstones(list, docs, plan)
    IN  [rows   |-> [store.rows EXCEPT ![d] =
                        Without(Put(local, Pulled(docs, plan)), plan.deleteLocal)],
         tombs  |-> [store.tombs EXCEPT ![d] = IF next = None THEN list ELSE next],
         remote |-> LandedAll(docs, RemoteWrites(local, list, plan))]

Store == [rows |-> rows, tombs |-> tombs, remote |-> remote]

Orders == {order \in [1..Cardinality(Device) -> Device] :
              \A d \in Device : \E n \in DOMAIN order : order[n] = d}

(* Every device once, in the order given.                                   *)
Round(store, order) ==
    LET after[n \in 0..Cardinality(Device)] ==
            IF n = 0 THEN store ELSE Settle(after[n - 1], order[n])
    IN  after[Cardinality(Device)]

(* Every device twice: the second time to learn of the later ones' pushes.  *)
Settled(order) == Round(Round(Store, order), order)

LiveRows(docs) == [i \in Live(docs) |-> docs[i].at]

Quiet ==
    /\ \A t \in Tab : pass[t] = Idle /\ stray[t] = {} /\ deletion[t] = NoDeletion

Deleted(d, i) == i \in Buried(rows[d], tombs[d], Clock(d))

(* Everything the devices and the remote side know of i.  A device's own row *)
(* supersedes its tombstone, and an expired tombstone no longer counts.     *)
Versions(i) ==
    {[at |-> rows[d][i], deleted |-> FALSE] : d \in {e \in Device : i \in DOMAIN rows[e]}}
        \cup {[at |-> tombs[d][i], deleted |-> TRUE] : d \in {e \in Device : Deleted(e, i)}}
        \cup {remote[j] : j \in {i} \cap DOMAIN remote}

(* A deletion wins over an edit with its stamp.                             *)
Outdates(v, w) == v.at > w.at \/ (v.at = w.at /\ v.deleted)

Newest(i) == {v \in Versions(i) : \A w \in Versions(i) : w = v \/ Outdates(v, w)}

(* Agreement: whatever interleaving, failure or crash came before, once      *)
(* every device has read the whole collection again they hold the same rows, *)
(* the remote side's live docs.                                              *)
DevicesAgree ==
    Quiet =>
        \A order \in Orders :
            LET end == Settled(order) IN
            \A d \in Device : end.rows[d] = LiveRows(end.remote)

Purged(i) == \E v \in Versions(i), d \in Device : v.deleted /\ Expired(v.at, Clock(d))

(* Edited after one deletion of it, and deleted again.                      *)
Revived(i) == \E v, w \in Versions(i) : ~v.deleted /\ w.deleted /\ Outdates(v, w)

(* Last write wins: an edit newer than all they know of its record is what  *)
(* they all end with, and a deletion newer than all takes the record away.  *)
(* A deletion may be lost in three ways: a full read that finds no doc      *)
(* forgets it, an expired tombstone may be purged before every device has   *)
(* seen it, and one found beside an older remote tombstone is dropped for   *)
(* that one, which an edit between the two outlives.                        *)
SettlesToLastWrite ==
    Quiet =>
        \A order \in Orders, i \in Id :
            LET end == Settled(order).remote IN
            \A v \in Newest(i) :
                IF v.deleted
                THEN i \in Live(end) => i \notin DOMAIN remote \/ Purged(i) \/ Revived(i)
                ELSE i \in Live(end) /\ end[i] = v

(* "Policy (GLOSSARY.md): last-write-wins by updatedAt", and of a tombstone *)
(* beside a remote one "remote already records it" (merge.ts:3 and 213): a  *)
(* deletion newer than all else, of a record the remote side has a doc of,  *)
(* is not undone while no tombstone is old enough to be purged.             *)
(* The code does not keep it: no run checks it, the README says why.       *)
LastDeletionWins ==
    Quiet =>
        \A order \in Orders, i \in DOMAIN remote :
            (\E v \in Newest(i) : v.deleted) /\ ~Purged(i) => i \notin Live(Settled(order).remote)
=============================================================================
