---------------------------- MODULE CurationQueue ----------------------------
(***************************************************************************)
(* The curation_queue table: one row per memory, claimed in batches by the *)
(* curation workers of one or more server processes under a lease.         *)
(*                                                                         *)
(* Each action is one statement or transaction of the store, so it is      *)
(* atomic.  The claim orders pending rows by scheduled_at, a time of one   *)
(* second's granularity; the model lets it take any of them.  A lease is   *)
(* "live" until LeaseExpires, the moment lease_expires_at is in the past.  *)
(***************************************************************************)
EXTENDS Naturals, FiniteSets

CONSTANTS
    Memory,       \* memory ids
    Worker,       \* owner ids, one per running worker
    None,         \* owner_id IS NULL
    BatchSize,    \* LIMIT of a claim and of a re-curation sweep
    MaxAttempts   \* attempts at which a row is given up (5 in the code)

ASSUME QueueAssumption ==
    /\ None \notin Worker
    /\ BatchSize \in Nat \ {0}
    /\ MaxAttempts \in Nat \ {0}

VARIABLES
    status,    \* status[m]: status column, "absent" while m has no row
    attempts,  \* attempts[m]: failures charged since the last enqueue
    owner,     \* owner[m]: owner_id
    lease,     \* lease[m]: lease_expires_at against the store's clock
    covered    \* history: the memories claimed since their last enqueue

queueVars == <<status, attempts, owner, lease, covered>>

Status == {"absent", "pending", "processing", "processing_dirty", "done", "failed"}
Lease == {"none", "live", "expired"}

\* The operators named for a fault, here and below, are mutated forms of the
\* operator that follows them; no action uses them.

Held == {m \in Memory : status[m] \in {"processing", "processing_dirty"}}
Pending == {m \in Memory : status[m] = "pending"}
ExpiredClean == {m \in Memory : status[m] = "processing" /\ lease[m] = "expired"}
ExpiredOrNot == Held

Expired == {m \in Held : lease[m] = "expired"}

QueueTypeOK ==
    /\ status \in [Memory -> Status]
    /\ attempts \in [Memory -> 0..MaxAttempts]
    /\ owner \in [Memory -> Worker \cup {None}]
    /\ lease \in [Memory -> Lease]
    /\ covered \subseteq Memory

QueueInit ==
    /\ status = [m \in Memory |-> "absent"]
    /\ attempts = [m \in Memory |-> 0]
    /\ owner = [m \in Memory |-> None]
    /\ lease = [m \in Memory |-> "none"]
    /\ covered = {}

-----------------------------------------------------------------------------
\* INSERT ... ON CONFLICT: a row being processed is only marked dirty, and
\* keeps its owner and its lease.
EnqueuedStatusDropsDirty(m) == IF m \in Held THEN "processing" ELSE "pending"

EnqueuedStatus(m) == IF m \in Held THEN "processing_dirty" ELSE "pending"

Enqueue(S) ==
    /\ status' = [m \in Memory |-> IF m \in S THEN EnqueuedStatus(m) ELSE status[m]]
    /\ attempts' = [m \in Memory |-> IF m \in S THEN 0 ELSE attempts[m]]
    /\ covered' = covered \ S
    /\ UNCHANGED <<owner, lease>>

EnqueueCuration(S) == S # {} /\ Enqueue(S)

\* The second statement of the sweep; its candidates were read before.
EnqueueRecuration(S) ==
    /\ S # {}
    /\ Cardinality(S) <= BatchSize
    /\ Enqueue(S)

\* B is a full batch, or all that is pending.
IsBatch(B, S) ==
    /\ B \subseteq S
    /\ Cardinality(B) <= BatchSize
    /\ B = S \/ Cardinality(B) = BatchSize

ClaimCurationBatchLeased(w, B) ==
    /\ B # {}
    /\ IsBatch(B, Pending)
    /\ status' = [m \in Memory |-> IF m \in B THEN "processing" ELSE status[m]]
    /\ owner' = [m \in Memory |-> IF m \in B THEN w ELSE owner[m]]
    /\ lease' = [m \in Memory |-> IF m \in B THEN "live" ELSE lease[m]]
    /\ covered' = covered \cup B
    /\ UNCHANGED attempts

\* The WHERE clause of both completions; when it selects no row the
\* statement changes nothing.
HoldsRowAnyOwner(m, w) == m \in Held

HoldsRow(m, w) == m \in Held /\ owner[m] = w

ClearOwnerOnly(m) ==
    /\ owner' = [owner EXCEPT ![m] = None]
    /\ UNCHANGED lease

ClearLease(m) ==
    /\ owner' = [owner EXCEPT ![m] = None]
    /\ lease' = [lease EXCEPT ![m] = "none"]

DoneStatusIgnoresDirty(m) == "done"

DoneStatus(m) == IF status[m] = "processing_dirty" THEN "pending" ELSE "done"

SetCurationDoneLeased(m, w) ==
    /\ HoldsRow(m, w)
    /\ status' = [status EXCEPT ![m] = DoneStatus(m)]
    /\ ClearLease(m)
    /\ UNCHANGED <<attempts, covered>>

\* An edit that arrived meanwhile is not charged for this failure.
ChargeAlways(m) == IF attempts[m] < MaxAttempts THEN attempts[m] + 1 ELSE attempts[m]

Charge(m) == IF status[m] = "processing_dirty" THEN attempts[m] ELSE attempts[m] + 1

FailedStatusLate(m) ==
    IF status[m] # "processing_dirty" /\ attempts[m] + 1 > MaxAttempts
      THEN "failed" ELSE "pending"

FailedStatus(m) ==
    IF status[m] # "processing_dirty" /\ attempts[m] + 1 >= MaxAttempts
      THEN "failed" ELSE "pending"

SetCurationFailedLeased(m, w) ==
    /\ HoldsRow(m, w)
    /\ attempts' = [attempts EXCEPT ![m] = Charge(m)]
    /\ status' = [status EXCEPT ![m] = FailedStatus(m)]
    /\ ClearLease(m)
    /\ UNCHANGED covered

\* Whether a reclaimed row was dirty is forgotten: it is pending again.
ReclaimExpiredCuration ==
    /\ Expired # {}
    /\ status' = [m \in Memory |-> IF m \in Expired THEN "pending" ELSE status[m]]
    /\ owner' = [m \in Memory |-> IF m \in Expired THEN None ELSE owner[m]]
    /\ lease' = [m \in Memory |-> IF m \in Expired THEN "none" ELSE lease[m]]
    /\ UNCHANGED <<attempts, covered>>

LeaseExpires(m) ==
    /\ lease[m] = "live"
    /\ lease' = [lease EXCEPT ![m] = "expired"]
    /\ UNCHANGED <<status, attempts, owner, covered>>

-----------------------------------------------------------------------------
QueueNext ==
    \/ \E S \in SUBSET Memory : EnqueueCuration(S) \/ EnqueueRecuration(S)
    \/ \E w \in Worker, B \in SUBSET Memory : ClaimCurationBatchLeased(w, B)
    \/ \E m \in Memory, w \in Worker :
          SetCurationDoneLeased(m, w) \/ SetCurationFailedLeased(m, w)
    \/ ReclaimExpiredCuration
    \/ \E m \in Memory : LeaseExpires(m)

QueueSpec == QueueInit /\ [][QueueNext]_queueVars

-----------------------------------------------------------------------------
\* A row is at rest, as done or given up, only if it was claimed after the
\* last request for it: an edit that arrives while a worker holds the row is
\* never swallowed by that worker's completion, its failure or a reclaim.
NoLostRequest ==
    \A m \in Memory : status[m] \in {"done", "failed"} => m \in covered

\* A row has an owner and a lease exactly while it is being processed, through
\* every order of edits, completions, failures and reclaims: no row is left
\* owned with nobody entitled to complete it, and none is held without a lease
\* that would let it be reclaimed.
LeaseIffHeld ==
    \A m \in Memory :
        /\ (m \in Held) <=> (owner[m] # None)
        /\ (m \in Held) <=> (lease[m] # "none")

\* A row is given up exactly when its attempts are used up, and the attempts
\* counted all belong to claims made after the last edit: an edit in flight
\* starts with a fresh budget.
GivenUpIffExhausted ==
    \A m \in Memory :
        /\ (status[m] = "failed") <=> (attempts[m] = MaxAttempts)
        /\ attempts[m] > 0 => m \in covered

\* The queue implements the abstract work queue: a row owes work unless it is
\* absent, done or failed.
Owed == Pending \cup Held

WQ == INSTANCE WorkQueue WITH
        owed <- Owed,
        holder <- owner,
        fresh <- covered

ImplementsWorkQueue == WQ!Spec
=============================================================================
