---------------------------- MODULE MCAccountWide ----------------------------
(* Two Characters of one account, one or both on the device at the start.    *)
EXTENDS AccountWide, TLC
CONSTANTS c1, c2, t1, k1

Alike == Permutations(Character)
=============================================================================
