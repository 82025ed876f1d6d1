----------------------------- MODULE RecordMerge -----------------------------
(***************************************************************************)
(* The last-write-wins merge of one synced collection, src/sync/merge.ts    *)
(* mergeRecords.  Rows, tombstones and remote docs are partial functions    *)
(* on record ids (the code's Maps): a row is its updatedAt stamp, a         *)
(* tombstone its deletedAt stamp, a remote doc its stamp and whether it is  *)
(* a tombstone.  Every field but the stamp is carried along untouched by    *)
(* the code and abstracted away.                                            *)
(***************************************************************************)
EXTENDS Naturals

CONSTANT TombstoneTTL       \* TOMBSTONE_TTL_MS

ASSUME TTLAssumption == TombstoneTTL \in Nat

(* Map operations on partial functions. *)
Put(f, g) == [i \in DOMAIN f \cup DOMAIN g |-> IF i \in DOMAIN g THEN g[i] ELSE f[i]]
Without(f, S) == [i \in DOMAIN f \ S |-> f[i]]
Only(f, S) == [i \in DOMAIN f \cap S |-> f[i]]
Empty == [i \in {} |-> 0]

(* What a read returned, as the merge must understand it: the whole owned   *)
(* set, or only the docs stamped above `since`.                             *)
FullRead == [full |-> TRUE, since |-> 0]
SinceRead(high) == [full |-> FALSE, since |-> high]
InWindow(window, at) == window.full \/ at > window.since

Expired(at, now) == now > at + TombstoneTTL

(* tombstoneById: a live local row supersedes its own tombstone, and an     *)
(* expired tombstone is ignored.                                            *)
Buried(local, tombs, now) ==
    {i \in DOMAIN tombs : i \notin DOMAIN local /\ ~Expired(tombs[i], now)}

Dead(remote) == {i \in DOMAIN remote : remote[i].deleted}
Live(remote) == DOMAIN remote \ Dead(remote)

(* Rows an account-wide deletion (deletedAtByKey, here per row id) postdates. *)
Stale(local, remote, deletedAt) ==
    {i \in (DOMAIN local \cap DOMAIN deletedAt) \ Dead(remote) : deletedAt[i] > local[i]}

(* Rows edited here after the remote tombstone: they come back to life.     *)
Resurrected(local, remote) == {i \in Dead(remote) \cap DOMAIN local : local[i] > remote[i].at}

(* Faulty: the comparison the other way round.                              *)
EditedElsewhere_Swapped(buried, tombs, remote) ==
    {i \in buried \cap Live(remote) : remote[i].at < tombs[i]}

(* Rows deleted here, and edited elsewhere after that.                      *)
EditedElsewhere(buried, tombs, remote) ==
    {i \in buried \cap Live(remote) : remote[i].at > tombs[i]}

(* Faulty: only rows as old as the remote tombstone are deleted with it.    *)
Beaten_OnTieOnly(local, remote) ==
    {i \in Dead(remote) \cap DOMAIN local : local[i] = remote[i].at}

(* Rows a remote tombstone deletes.                                         *)
Beaten(local, remote) == (Dead(remote) \cap DOMAIN local) \ Resurrected(local, remote)

(* The plan mergeRecords returns, each list as the set of ids in it.        *)
mergeRecords(local, tombs, remote, now, deletedAt, window) ==
    LET buried == Buried(local, tombs, now)
        unseen == buried \ DOMAIN remote
        live   == Live(remote)
        stale  == Stale(local, remote, deletedAt)
        edited == EditedElsewhere(buried, tombs, remote)
    IN  [pushUpserts |->
            {i \in DOMAIN local \ stale :
                IF i \in DOMAIN remote THEN local[i] > remote[i].at
                                       ELSE InWindow(window, local[i])},
         pushTombstones |->
            stale \cup ((buried \cap live) \ edited)
                  \cup {i \in unseen : ~window.full},
         pullUpserts |->
            edited \cup (live \ (DOMAIN local \cup buried))
                   \cup {i \in (live \cap DOMAIN local) \ stale : remote[i].at > local[i]},
         deleteLocal |-> stale \cup Beaten(local, remote),
         purgeRemote |->
            {i \in Dead(remote) \ Resurrected(local, remote) : Expired(remote[i].at, now)},
         clearLocalTombstones |->
            (DOMAIN tombs \ buried) \cup (buried \cap Dead(remote)) \cup edited
                \cup {i \in unseen : window.full}]

=============================================================================
