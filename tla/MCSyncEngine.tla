---------------------------- MODULE MCSyncEngine ----------------------------
(***************************************************************************)
(* A few clients of one project, with every bound small.                   *)
(***************************************************************************)
EXTENDS SyncEngine, TLC

SyncSymmetry == Permutations(Client \ Split) \cup Permutations(Memory \ Foreign)
=============================================================================
