---------------------------- MODULE MCPoolCache ----------------------------
(* PoolCache with two phones of one owner, so that a report of the one and *)
(* a Sync of the other interleave.                                         *)
EXTENDS PoolCache

AllOfAlice == [d \in Devices |-> "alice"]
=============================================================================
