------------------------------ MODULE MCCuration ------------------------------
(***************************************************************************)
(* Two worker processes over one database: the curation pipeline on a few  *)
(* memories.                                                               *)
(***************************************************************************)
EXTENDS Curation, TLC

CurationSymmetry ==
    Permutations(Memory) \cup Permutations(Worker) \cup Permutations(Content)
===============================================================================
