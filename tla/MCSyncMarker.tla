----------------------------- MODULE MCSyncMarker -----------------------------
(* Two devices; the first may have two tabs open.                           *)
EXTENDS SyncMarker
CONSTANTS d1, d2, t1, t2, t3

MCHomeOf == [t \in Tab |-> IF t = t3 THEN d2 ELSE d1]
=============================================================================
