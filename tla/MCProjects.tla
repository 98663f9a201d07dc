----------------------------- MODULE MCProjects -----------------------------
(***************************************************************************)
(* Requests about two repositories, r2 with two keys, and about none.  The *)
(* claims and one creation have the same slug.                             *)
(***************************************************************************)
EXTENDS Projects, TLC

CONSTANTS r1, r2, s1, s2

MCRequest(op, id, k, kV1, s) == [op |-> op, id |-> id, key |-> k, keyV1 |-> kV1, slug |-> s]

K1 == <<r1, "v2">>
K2 == <<r2, "v2">>
L2 == <<r2, "v1">>

MCSent ==
    {MCRequest(op, p, None, None, s1) : op \in {"remember", "sync", "ingest", "undo"}, p \in Project}
        \cup {MCRequest("sync", None, L2, None, s1),
              MCRequest("remember", None, K1, None, s1),
              MCRequest("remember", None, L2, None, s1),
              MCRequest("create", None, K1, K1, s1),
              MCRequest("create", None, K2, L2, s2),
              MCRequest("create", None, None, None, s1)}

ProjectsSymmetry == Permutations(Project)
=============================================================================
