--------------------------- MODULE MCCurationQueue ---------------------------
(***************************************************************************)
(* The queue on its own, with edits, sweeps and completions in any order:  *)
(* three memories, two workers and batches of two, so that a batch can be  *)
(* partial, full, or leave a pending row behind.                           *)
(***************************************************************************)
EXTENDS CurationQueue, TLC

QueueSymmetry == Permutations(Memory) \cup Permutations(Worker)
=============================================================================
