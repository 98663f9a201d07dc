---------------------------- MODULE MCSelfUpdate ----------------------------
(***************************************************************************)
(* A development build, two releases, one of them with a pre-release that  *)
(* has its version, and one that does not start on some of the hosts.      *)
(***************************************************************************)
EXTENDS SelfUpdate

CONSTANTS dev, v1, v2rc, v2, broken

MCTag == {dev, v1, v2rc, v2, broken}

MCRank == [v \in MCTag |->
    CASE v = dev -> 0 [] v = v1 -> 1 [] v \in {v2rc, v2} -> 2 [] v = broken -> 3]

\* Windows, or a file system that lets everything be executed, on Windows and
\* on Unix; and Unix.
AnyHost == [runs : BOOLEAN, follows : BOOLEAN, starts : {MCTag \ {broken}}]

UnixHost == {h \in AnyHost : ~h.runs /\ h.follows}
=============================================================================
