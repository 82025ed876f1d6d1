---------------------------- MODULE MCTabLeader ----------------------------
(* Two tabs, or three, of one job's election.                               *)
EXTENDS TabLeader
=============================================================================
