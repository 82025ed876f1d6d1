---------------------------- MODULE MCSyncScheduler ----------------------------
(* Two Characters; edits name the collections a and b. *)
EXTENDS SyncScheduler, TLC
CONSTANTS c1, c2, a, b

Alike == {s @@ p : s \in Permutations(Character), p \in Permutations(Named)}
=============================================================================
