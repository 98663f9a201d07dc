------------------------------ MODULE WorkQueue ------------------------------
(***************************************************************************)
(* What the curation queue promises, without statuses, attempts or leases: *)
(* a request for an item stays owed until a worker that took the item      *)
(* after the request settles it.  An item has at most one holder, and a    *)
(* holder may be released without having settled anything.                 *)
(***************************************************************************)
CONSTANTS
    Memory,   \* the items: memory ids
    Worker,   \* the claim identities
    None      \* no worker

VARIABLES
    owed,     \* the items with a request that has not been settled
    holder,   \* holder[m]: the worker that took m, or None
    fresh     \* the items nobody asked for since they were last taken

vars == <<owed, holder, fresh>>

Init ==
    /\ owed = {}
    /\ holder = [m \in Memory |-> None]
    /\ fresh = {}

Request(S) ==
    /\ owed' = owed \cup S
    /\ fresh' = fresh \ S
    /\ UNCHANGED holder

Take(w, B) ==
    /\ B \subseteq owed
    /\ \A m \in B : holder[m] = None
    /\ holder' = [m \in Memory |-> IF m \in B THEN w ELSE holder[m]]
    /\ fresh' = fresh \cup B
    /\ UNCHANGED owed

\* The only step that forgets a request: the holder took m after it.
Settle(m) ==
    /\ holder[m] # None
    /\ m \in fresh
    /\ owed' = owed \ {m}
    /\ holder' = [holder EXCEPT ![m] = None]
    /\ UNCHANGED fresh

Release(S) ==
    /\ \A m \in S : holder[m] # None
    /\ holder' = [m \in Memory |-> IF m \in S THEN None ELSE holder[m]]
    /\ UNCHANGED <<owed, fresh>>

Next ==
    \/ \E S \in SUBSET Memory : Request(S) \/ Release(S)
    \/ \E w \in Worker, B \in SUBSET Memory : Take(w, B)
    \/ \E m \in Memory : Settle(m)

Spec == Init /\ [][Next]_vars
=============================================================================
