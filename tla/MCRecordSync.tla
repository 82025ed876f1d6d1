----------------------------- MODULE MCRecordSync -----------------------------
(* Two devices, one tab each. *)
EXTENDS RecordSettle, TLC
CONSTANTS d1, d2, t1, t2, i1, i2

MCHomeOf == t1 :> d1 @@ t2 :> d2
MCSkew == [d \in Device |-> 0]

(* The two devices are alike, each with its own tab, and so are the ids.    *)
Swap == d1 :> d2 @@ d2 :> d1 @@ t1 :> t2 @@ t2 :> t1
Same == d1 :> d1 @@ d2 :> d2 @@ t1 :> t1 @@ t2 :> t2
Alike == {s @@ p : s \in {Same, Swap}, p \in Permutations(Id)}
=============================================================================
