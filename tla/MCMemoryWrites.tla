--------------------------- MODULE MCMemoryWrites ---------------------------
(***************************************************************************)
(* Requests that name a memory, one that leaves its id to the server, and  *)
(* one that names another project's memory.                                *)
(***************************************************************************)
EXTENDS MemoryWrites, TLC

CONSTANTS named, theirs, c1, c2

MCPayload == {[id |-> named, content |-> c1],
              [id |-> None, content |-> c2],
              [id |-> theirs, content |-> c1]}

WritesSymmetry == Permutations(Client) \cup Permutations(Memory \ {named, theirs})
=============================================================================
