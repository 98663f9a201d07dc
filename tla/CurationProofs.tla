--------------------------- MODULE CurationProofs ---------------------------
(***************************************************************************)
(* The curation queue and the pipeline over it, for any memories, workers, *)
(* writers, contents, batch size and attempt limit.                        *)
(*                                                                         *)
(* The queue: its invariants, and its refinement of the abstract work      *)
(* queue.  The pipeline: it uses the queue as the queue is specified;      *)
(* verdicts and embeddings are never about stale content; and what a       *)
(* single server process calls done is judged and indexed.                 *)
(***************************************************************************)
EXTENDS Curation, TLAPS

\* A held row is dirty exactly when it was asked for after its claim; only a
\* row that was asked for can be charged, and the last charge gives it up.
QueueInv ==
    /\ QueueTypeOK
    /\ NoLostRequest
    /\ LeaseIffHeld
    /\ GivenUpIffExhausted
    /\ \A m \in Memory :
          /\ status[m] = "processing" => m \in covered
          /\ status[m] = "processing_dirty" => m \notin covered

LEMMA InitEstablishesQueueInv == QueueInit => QueueInv
BY QueueAssumption
   DEF QueueInit, QueueInv, QueueTypeOK, Status, Lease, NoLostRequest,
       LeaseIffHeld, GivenUpIffExhausted, Held

LEMMA EnqueueKeepsQueueInv ==
    ASSUME QueueInv, NEW S \in SUBSET Memory, Enqueue(S)
    PROVE  QueueInv'
<1>1. \A m \in Memory : m \in S =>
        /\ status'[m] \in {"pending", "processing_dirty"}
        /\ status'[m] = "processing_dirty" <=> m \in Held
        /\ attempts'[m] = 0
        /\ m \notin covered'
  BY DEF Enqueue, EnqueuedStatus
<1>2. \A m \in Memory : m \notin S =>
        /\ status'[m] = status[m]
        /\ attempts'[m] = attempts[m]
        /\ m \in covered' <=> m \in covered
  BY DEF Enqueue
<1>3. UNCHANGED <<owner, lease>>
  BY DEF Enqueue
<1>4. QueueTypeOK'
  <2>1. status' \in [Memory -> Status]
    BY <1>1, <1>2 DEF Enqueue, QueueInv, QueueTypeOK, Status
  <2>2. attempts' \in [Memory -> 0..MaxAttempts]
    BY QueueAssumption, <1>1, <1>2 DEF Enqueue, QueueInv, QueueTypeOK
  <2>3. covered' \subseteq Memory
    BY DEF Enqueue, QueueInv, QueueTypeOK
  <2>4. QED
    BY <1>3, <2>1, <2>2, <2>3 DEF QueueInv, QueueTypeOK
<1>5. \A m \in Memory : m \in Held' <=> m \in Held
  BY <1>1, <1>2 DEF Held
<1>6. QED
  BY QueueAssumption, <1>1, <1>2, <1>3, <1>4, <1>5
     DEF QueueInv, QueueTypeOK, NoLostRequest, LeaseIffHeld, GivenUpIffExhausted

LEMMA ClaimKeepsQueueInv ==
    ASSUME QueueInv, NEW w \in Worker, NEW B \in SUBSET Memory,
           ClaimCurationBatchLeased(w, B)
    PROVE  QueueInv'
BY QueueAssumption
   DEF QueueInv, QueueTypeOK, Status, Lease, NoLostRequest, LeaseIffHeld,
       GivenUpIffExhausted, Held, Pending, IsBatch, ClaimCurationBatchLeased

LEMMA DoneKeepsQueueInv ==
    ASSUME QueueInv, NEW m \in Memory, NEW w \in Worker,
           SetCurationDoneLeased(m, w)
    PROVE  QueueInv'
BY QueueAssumption
   DEF QueueInv, QueueTypeOK, Status, Lease, NoLostRequest, LeaseIffHeld,
       GivenUpIffExhausted, Held, HoldsRow, ClearLease, DoneStatus,
       SetCurationDoneLeased

LEMMA FailedKeepsQueueInv ==
    ASSUME QueueInv, NEW m \in Memory, NEW w \in Worker,
           SetCurationFailedLeased(m, w)
    PROVE  QueueInv'
BY QueueAssumption
   DEF QueueInv, QueueTypeOK, Status, Lease, NoLostRequest, LeaseIffHeld,
       GivenUpIffExhausted, Held, HoldsRow, ClearLease, Charge, FailedStatus,
       SetCurationFailedLeased

LEMMA ReclaimKeepsQueueInv ==
    ASSUME QueueInv, ReclaimExpiredCuration
    PROVE  QueueInv'
BY QueueAssumption
   DEF QueueInv, QueueTypeOK, Status, Lease, NoLostRequest, LeaseIffHeld,
       GivenUpIffExhausted, Held, Expired, ReclaimExpiredCuration

LEMMA ExpiryKeepsQueueInv ==
    ASSUME QueueInv, NEW m \in Memory, LeaseExpires(m)
    PROVE  QueueInv'
BY DEF QueueInv, QueueTypeOK, Status, Lease, NoLostRequest, LeaseIffHeld,
       GivenUpIffExhausted, Held, LeaseExpires

LEMMA StepKeepsQueueInv == QueueInv /\ [QueueNext]_queueVars => QueueInv'
<1> SUFFICES ASSUME QueueInv, [QueueNext]_queueVars
             PROVE  QueueInv'
  OBVIOUS
<1>1. ASSUME NEW S \in SUBSET Memory, EnqueueCuration(S) \/ EnqueueRecuration(S)
      PROVE  QueueInv'
  BY <1>1, EnqueueKeepsQueueInv DEF EnqueueCuration, EnqueueRecuration
<1>2. ASSUME NEW w \in Worker, NEW B \in SUBSET Memory,
             ClaimCurationBatchLeased(w, B)
      PROVE  QueueInv'
  BY <1>2, ClaimKeepsQueueInv
<1>3. ASSUME NEW m \in Memory, NEW w \in Worker,
             SetCurationDoneLeased(m, w) \/ SetCurationFailedLeased(m, w)
      PROVE  QueueInv'
  BY <1>3, DoneKeepsQueueInv, FailedKeepsQueueInv
<1>4. CASE ReclaimExpiredCuration
  BY <1>4, ReclaimKeepsQueueInv
<1>5. ASSUME NEW m \in Memory, LeaseExpires(m)
      PROVE  QueueInv'
  BY <1>5, ExpiryKeepsQueueInv
<1>6. CASE UNCHANGED queueVars
  BY <1>6 DEF queueVars, QueueInv, QueueTypeOK, NoLostRequest, LeaseIffHeld,
              GivenUpIffExhausted, Held
<1>7. QED
  BY <1>1, <1>2, <1>3, <1>4, <1>5, <1>6 DEF QueueNext

\* The inductive invariant of the queue holds in every reachable state.
THEOREM QueueInvariant == QueueSpec => []QueueInv
BY InitEstablishesQueueInv, StepKeepsQueueInv, PTL DEF QueueSpec

\* The columns keep their types and attempts never pass the limit, whatever
\* the order of edits, claims, completions and reclaims.
THEOREM QueueTypeCorrect == QueueSpec => []QueueTypeOK
<1>1. QueueInv => QueueTypeOK
  BY DEF QueueInv
<1>2. QED
  BY <1>1, QueueInvariant, PTL

\* No request is lost: a row comes to rest, done or given up, only if it was
\* claimed after the last edit that enqueued it.
THEOREM NoRequestIsLost == QueueSpec => []NoLostRequest
<1>1. QueueInv => NoLostRequest
  BY DEF QueueInv
<1>2. QED
  BY <1>1, QueueInvariant, PTL

\* A row has an owner and a lease exactly while it is processed, so a row whose
\* worker died can always be reclaimed.
THEOREM LeaseExactlyWhileHeld == QueueSpec => []LeaseIffHeld
<1>1. QueueInv => LeaseIffHeld
  BY DEF QueueInv
<1>2. QED
  BY <1>1, QueueInvariant, PTL

\* A row is given up exactly when its attempts are used up, all of them charged
\* to claims made after its last edit.
THEOREM GivenUpExactlyWhenExhausted == QueueSpec => []GivenUpIffExhausted
<1>1. QueueInv => GivenUpIffExhausted
  BY DEF QueueInv
<1>2. QED
  BY <1>1, QueueInvariant, PTL

-----------------------------------------------------------------------------
(* The refinement.  Each queue action is an action of the work queue, or a *)
(* stutter when a row only changes its status or its lease.                *)

LEMMA InitRefines == QueueInit => WQ!Init
BY DEF QueueInit, Owed, Pending, Held, WQ!Init

LEMMA EnqueueRefines ==
    ASSUME QueueInv, NEW S \in SUBSET Memory, Enqueue(S)
    PROVE  WQ!Request(S)
<1>1. Owed' = Owed \cup S
  BY DEF Enqueue, EnqueuedStatus, Owed, Pending, Held
<1>2. QED
  BY <1>1 DEF Enqueue, WQ!Request

LEMMA ClaimRefines ==
    ASSUME QueueInv, NEW w \in Worker, NEW B \in SUBSET Memory,
           ClaimCurationBatchLeased(w, B)
    PROVE  WQ!Take(w, B)
<1>1. B \subseteq Pending
  BY DEF ClaimCurationBatchLeased, IsBatch
<1>2. \A m \in B : owner[m] = None
  BY <1>1 DEF QueueInv, LeaseIffHeld, Held, Pending
<1>3. B \subseteq Owed
  BY <1>1 DEF Owed
<1>4. Owed' = Owed
  BY <1>1 DEF ClaimCurationBatchLeased, Owed, Pending, Held
<1>5. QED
  BY <1>2, <1>3, <1>4 DEF ClaimCurationBatchLeased, WQ!Take

LEMMA DoneRefines ==
    ASSUME QueueInv, NEW m \in Memory, NEW w \in Worker,
           SetCurationDoneLeased(m, w)
    PROVE  WQ!Settle(m) \/ WQ!Release({m})
<1>1. m \in Held /\ owner[m] # None
  BY DEF QueueInv, LeaseIffHeld, SetCurationDoneLeased, HoldsRow
<1>2. owner' = [i \in Memory |-> IF i \in {m} THEN None ELSE owner[i]]
  BY DEF QueueInv, QueueTypeOK, SetCurationDoneLeased, ClearLease
<1>3. CASE status[m] = "processing_dirty"
  <2>1. Owed' = Owed
    BY <1>1, <1>3 DEF SetCurationDoneLeased, DoneStatus, QueueInv, QueueTypeOK,
                      Owed, Pending, Held
  <2>2. QED
    BY <1>1, <1>2, <2>1 DEF SetCurationDoneLeased, WQ!Release
<1>4. CASE status[m] = "processing"
  <2>1. Owed' = Owed \ {m}
    BY <1>1, <1>4 DEF SetCurationDoneLeased, DoneStatus, QueueInv, QueueTypeOK,
                      Owed, Pending, Held
  <2>2. m \in covered
    BY <1>4 DEF QueueInv
  <2>3. QED
    BY <1>1, <2>1, <2>2 DEF SetCurationDoneLeased, ClearLease, WQ!Settle
<1>5. QED
  BY <1>1, <1>3, <1>4 DEF Held

LEMMA FailedRefines ==
    ASSUME QueueInv, NEW m \in Memory, NEW w \in Worker,
           SetCurationFailedLeased(m, w)
    PROVE  WQ!Settle(m) \/ WQ!Release({m})
<1>1. m \in Held /\ owner[m] # None
  BY DEF QueueInv, LeaseIffHeld, SetCurationFailedLeased, HoldsRow
<1>2. owner' = [i \in Memory |-> IF i \in {m} THEN None ELSE owner[i]]
  BY DEF QueueInv, QueueTypeOK, SetCurationFailedLeased, ClearLease
<1>3. CASE FailedStatus(m) = "pending"
  <2>1. Owed' = Owed
    BY <1>1, <1>3 DEF SetCurationFailedLeased, QueueInv, QueueTypeOK,
                      Owed, Pending, Held
  <2>2. QED
    BY <1>1, <1>2, <2>1 DEF SetCurationFailedLeased, WQ!Release
<1>4. CASE FailedStatus(m) = "failed"
  <2>1. Owed' = Owed \ {m}
    BY <1>1, <1>4 DEF SetCurationFailedLeased, QueueInv, QueueTypeOK,
                      Owed, Pending, Held
  <2>2. m \in covered
    BY <1>1, <1>4 DEF FailedStatus, Held, QueueInv
  <2>3. QED
    BY <1>1, <2>1, <2>2 DEF SetCurationFailedLeased, ClearLease, WQ!Settle
<1>5. QED
  BY <1>3, <1>4 DEF FailedStatus

LEMMA ReclaimRefines ==
    ASSUME QueueInv, ReclaimExpiredCuration
    PROVE  WQ!Release(Expired)
<1>1. \A m \in Expired : owner[m] # None
  BY DEF QueueInv, LeaseIffHeld, Expired, Held
<1>2. Owed' = Owed
  BY DEF ReclaimExpiredCuration, Expired, Owed, Pending, Held
<1>3. QED
  BY <1>1, <1>2 DEF ReclaimExpiredCuration, WQ!Release

LEMMA StepRefines ==
    QueueInv /\ [QueueNext]_queueVars => [WQ!Next]_(WQ!vars)
<1> SUFFICES ASSUME QueueInv, [QueueNext]_queueVars
             PROVE  [WQ!Next]_(WQ!vars)
  OBVIOUS
<1>1. ASSUME NEW S \in SUBSET Memory, EnqueueCuration(S) \/ EnqueueRecuration(S)
      PROVE  WQ!Next
  BY <1>1, EnqueueRefines DEF EnqueueCuration, EnqueueRecuration, WQ!Next
<1>2. ASSUME NEW w \in Worker, NEW B \in SUBSET Memory,
             ClaimCurationBatchLeased(w, B)
      PROVE  WQ!Next
  BY <1>2, ClaimRefines DEF WQ!Next
<1>3. ASSUME NEW m \in Memory, NEW w \in Worker,
             SetCurationDoneLeased(m, w) \/ SetCurationFailedLeased(m, w)
      PROVE  WQ!Next
  BY <1>3, DoneRefines, FailedRefines DEF WQ!Next
<1>4. CASE ReclaimExpiredCuration
  BY <1>4, ReclaimRefines DEF WQ!Next, Expired, Held
<1>5. ASSUME NEW m \in Memory, LeaseExpires(m)
      PROVE  UNCHANGED WQ!vars
  BY <1>5 DEF LeaseExpires, Owed, Pending, Held, WQ!vars
<1>6. CASE UNCHANGED queueVars
  BY <1>6 DEF queueVars, Owed, Pending, Held, WQ!vars
<1>7. QED
  BY <1>1, <1>2, <1>3, <1>4, <1>5, <1>6 DEF QueueNext

\* The queue implements the abstract work queue: what was asked for stays owed
\* until a worker that took it afterwards settles it.
THEOREM QueueImplementsWorkQueue == QueueSpec => ImplementsWorkQueue
BY QueueInvariant, InitRefines, StepRefines, PTL
   DEF QueueSpec, ImplementsWorkQueue, WQ!Spec

-----------------------------------------------------------------------------
(* The pipeline.                                                           *)

AtMemory == {"judge", "count", "mark", "embed", "store", "done", "fail"}

\* A worker past its load knows which memory it is at, and one that marks a
\* canonical knows which.
CurInv ==
    \A w \in Worker :
        /\ pc[w] \in AtMemory => cur[w] \in Memory
        /\ pc[w] = "mark" => canon[w] \in Memory

\* While a worker holds a row that was neither edited nor enqueued since its
\* claim, what it loaded is what the row has, and once past the verdict the row
\* carries one.
PassInv ==
    \A w \in Worker, m \in Memory :
        /\ status[m] = "processing" /\ owner[m] = w
        /\ cur[w] = m /\ m \notin Unrequested
        => /\ pc[w] = "judge" => read[w] = content[m]
           /\ pc[w] \in {"count", "mark", "embed", "store", "done"} => meta[m] \in {"ok", "noise"}

PipelineInv ==
    /\ TypeOK
    /\ CurInv
    /\ EmbeddingIsCurrent
    /\ MergesInPlace => PassInv /\ VerdictIsCurrent /\ DoneIsJudged

\* What each action is to keep; that it keeps the types is a lemma for all.
PipelineKept ==
    /\ CurInv'
    /\ EmbeddingIsCurrent'
    /\ MergesInPlace => PassInv' /\ VerdictIsCurrent' /\ DoneIsJudged'

-----------------------------------------------------------------------------
(* Every step of the pipeline is a step of the queue or leaves it alone.   *)

LEMMA StepUsesQueue ==
    TypeOK /\ CurInv /\ [Next]_vars => [QueueNext]_queueVars
<1> SUFFICES ASSUME TypeOK, CurInv, [Next]_vars
             PROVE  [QueueNext]_queueVars
  OBVIOUS
<1>1. ASSUME NEW p \in Writer, Upsert(p) \/ EnqueueLost(p)
      PROVE  UNCHANGED queueVars
  BY <1>1 DEF Upsert, UpsertMemories, EnqueueLost
<1>2. ASSUME NEW p \in Writer, EnqueueAfterUpsert(p)
      PROVE  QueueNext
  <2>1. unqueued[p] \in SUBSET Memory
    BY DEF TypeOK
  <2>2. QED
    BY <1>2, <2>1 DEF EnqueueAfterUpsert, QueueNext
<1>3. ASSUME NEW m \in Memory, SoftDeleteMemory(m) \/ TimePasses(m)
      PROVE  [QueueNext]_queueVars
  BY <1>3 DEF SoftDeleteMemory, TimePasses, QueueNext
<1>4. ASSUME NEW w \in Worker, ClaimBatch(w)
      PROVE  QueueNext
  BY <1>4 DEF ClaimBatch, QueueNext
<1>5. ASSUME NEW w \in Worker, EnqueueSwept(w)
      PROVE  QueueNext
  <2>1. batch[w] \in SUBSET Memory
    BY DEF TypeOK
  <2>2. QED
    BY <1>5, <2>1 DEF EnqueueSwept, QueueNext
<1>6. ASSUME NEW w \in Worker, MarkDone(w) \/ MarkCurationFailed(w)
      PROVE  [QueueNext]_queueVars
  <2>1. cur[w] \in Memory
    BY <1>6 DEF MarkDone, MarkCurationFailed, CurInv, AtMemory
  <2>2. QED
    BY <1>6, <2>1 DEF MarkDone, MarkCurationFailed, QueueNext
<1>7. ASSUME NEW w \in Worker,
             \/ SelectRecuration(w) \/ EndBatch(w) \/ EmbedOne(w)
             \/ StoreEmbedding(w) \/ MarkCanonical(w) \/ SkipCanonical(w)
             \/ ProcessFails(w) \/ MarkLost(w) \/ Crash(w)
             \/ \E m \in Memory : LoadMemory(w, m) \/ ReadCanonical(w, m)
             \/ \E v \in {"ok", "noise"} : JudgeMemory(w, v)
      PROVE  UNCHANGED queueVars
  BY <1>7 DEF SelectRecuration, EndBatch, EmbedOne, StoreEmbedding, ProcessFails,
              MarkLost, Crash, LoadMemory, JudgeMemory, ReadCanonical,
              MarkCanonical, SkipCanonical
<1>8. ASSUME NEW w \in Worker, ReclaimExpired(w)
      PROVE  QueueNext
  BY <1>8 DEF ReclaimExpired, QueueNext
<1>9. CASE UNCHANGED vars
  BY <1>9 DEF vars
<1>10. QED
  BY <1>1, <1>2, <1>3, <1>4, <1>5, <1>6, <1>7, <1>8, <1>9 DEF Next, WorkerStep

LEMMA StepKeepsQueue ==
    TypeOK /\ CurInv /\ QueueInv /\ [Next]_vars => QueueInv'
BY StepUsesQueue, StepKeepsQueueInv

-----------------------------------------------------------------------------
(* Types.                                                                  *)

LEMMA InitTypeOK == Init => TypeOK /\ CurInv /\ QueueInv
BY InitEstablishesQueueInv, CurationAssumption
   DEF Init, TypeOK, CurInv, AtMemory, QueueInv, Meta, WorkerPC, NothingSeen, Seen

LEMMA SeenType == NothingSeen \in Seen
BY DEF NothingSeen, Seen, Meta

LEMMA StepKeepsTypes ==
    TypeOK /\ CurInv /\ QueueInv /\ [Next]_vars => TypeOK'
<1> SUFFICES ASSUME TypeOK, CurInv, QueueInv, [Next]_vars
             PROVE  TypeOK'
  OBVIOUS
<1>0. QueueTypeOK'
  BY StepKeepsQueue DEF QueueInv
<1> USE <1>0, CurationAssumption, SeenType DEF TypeOK, Meta, WorkerPC, canonVars
<1>1. ASSUME NEW p \in Writer, NEW S \in SUBSET Memory, NEW W \in SUBSET S,
             NEW c \in [W -> Content], NEW md \in {"bare", "carried"},
             UpsertMemories(p, S, W, c, md)
      PROVE  TypeOK'
  <2>1. content' \in [Memory -> Content \cup {None}]
    BY <1>1 DEF UpsertMemories
  <2>2. live' \in [Memory -> BOOLEAN]
    BY <1>1 DEF UpsertMemories
  <2>3. meta' \in [Memory -> Meta] /\ about' \in [Memory -> Content \cup {None}]
    BY <1>1 DEF UpsertMemories
  <2>4. emb' \in [Memory -> Content \cup {None}]
    BY <1>1 DEF UpsertMemories, Kept
  <2>5. unqueued' \in [Writer -> SUBSET Memory]
    BY <1>1 DEF UpsertMemories
  <2>6. edits' \in 0..MaxEdits
    BY <1>1 DEF UpsertMemories, Edit
  <2>7. UNCHANGED <<lost, workerVars, faults>>
    BY <1>1 DEF UpsertMemories
  <2>8. QED
    BY <2>1, <2>2, <2>3, <2>4, <2>5, <2>6, <2>7 DEF workerVars
<1>2. ASSUME NEW p \in Writer, EnqueueAfterUpsert(p) \/ EnqueueLost(p)
      PROVE  TypeOK'
  <2>1. unqueued[p] \in SUBSET Memory
    OBVIOUS
  <2>2. lost' \in SUBSET Memory /\ unqueued' \in [Writer -> SUBSET Memory]
    BY <1>2, <2>1 DEF EnqueueAfterUpsert, EnqueueLost
  <2>3. faults' \in 0..MaxFaults
    BY <1>2 DEF EnqueueAfterUpsert, EnqueueLost, Fault
  <2>4. UNCHANGED <<memoryVars, workerVars, edits>>
    BY <1>2 DEF EnqueueAfterUpsert, EnqueueLost
  <2>5. QED
    BY <2>2, <2>3, <2>4 DEF memoryVars, workerVars
<1>3. ASSUME NEW m \in Memory, SoftDeleteMemory(m) \/ TimePasses(m)
      PROVE  TypeOK'
  <2>1. edits' \in 0..MaxEdits /\ faults' \in 0..MaxFaults
    BY <1>3 DEF SoftDeleteMemory, TimePasses, Edit, Fault
  <2>2. live' \in [Memory -> BOOLEAN]
    BY <1>3 DEF SoftDeleteMemory, TimePasses, memoryVars
  <2>3. UNCHANGED <<content, meta, about, emb, writerVars, workerVars>>
    BY <1>3 DEF SoftDeleteMemory, TimePasses, memoryVars
  <2>4. QED
    BY <2>1, <2>2, <2>3 DEF writerVars, workerVars
<1>4. ASSUME NEW w \in Worker, ClaimBatch(w) \/ SelectRecuration(w)
      PROVE  TypeOK'
  BY <1>4 DEF ClaimBatch, SelectRecuration, Goto, memoryVars, writerVars
<1>5. ASSUME NEW w \in Worker, EnqueueSwept(w) \/ EndBatch(w)
      PROVE  TypeOK'
  BY <1>5 DEF EnqueueSwept, EndBatch, Goto, memoryVars, writerVars
<1>6. ASSUME NEW w \in Worker, NEW m \in Memory, LoadMemory(w, m)
      PROVE  TypeOK'
  BY <1>6 DEF LoadMemory, Goto, memoryVars, writerVars
<1>7. ASSUME NEW w \in Worker, NEW v \in {"ok", "noise"}, JudgeMemory(w, v)
      PROVE  TypeOK'
  BY <1>7 DEF JudgeMemory, Goto, writerVars
<1>8. ASSUME NEW w \in Worker, EmbedOne(w) \/ StoreEmbedding(w)
      PROVE  TypeOK'
  BY <1>8 DEF EmbedOne, AfterEmbedError, StoreEmbedding, Goto, memoryVars, writerVars
<1>9. ASSUME NEW w \in Worker, NEW k \in Memory, ReadCanonical(w, k)
       PROVE  TypeOK'
  <2>1. [meta |-> meta[k], about |-> about[k]] \in Seen
    BY DEF Seen
  <2>2. /\ pc' \in [Worker -> WorkerPC]
        /\ canon' \in [Worker -> Memory \cup {None}]
        /\ seen' \in [Worker -> Seen]
    BY <1>9, <2>1 DEF ReadCanonical, Goto
  <2>3. UNCHANGED <<memoryVars, writerVars, batch, cur, read, edits, faults>>
    BY <1>9 DEF ReadCanonical
  <2>4. QED
    BY <2>2, <2>3 DEF memoryVars, writerVars
<1>10. ASSUME NEW w \in Worker, MarkCanonical(w) \/ SkipCanonical(w)
       PROVE  TypeOK'
  <2>1. seen[w].meta \in Meta /\ seen[w].about \in Content \cup {None}
    BY DEF Seen
  <2>2. meta' \in [Memory -> Meta] /\ about' \in [Memory -> Content \cup {None}]
    BY <1>10, <2>1 DEF MarkCanonical, SkipCanonical, memoryVars
  <2>3. /\ pc' \in [Worker -> WorkerPC]
        /\ canon' \in [Worker -> Memory \cup {None}]
        /\ seen' \in [Worker -> Seen]
    BY <1>10 DEF MarkCanonical, SkipCanonical, Goto, ForgetCanonical
  <2>4. UNCHANGED <<content, live, emb, writerVars, batch, cur, read, edits, faults>>
    BY <1>10 DEF MarkCanonical, SkipCanonical, memoryVars
  <2>5. QED
    BY <2>2, <2>3, <2>4 DEF writerVars
<1>11. ASSUME NEW w \in Worker, ProcessFails(w) \/ MarkLost(w) \/ Crash(w)
      PROVE  TypeOK'
  <2>1. faults' \in 0..MaxFaults
    BY <1>11 DEF ProcessFails, MarkLost, Crash, Fault
  <2>2. /\ pc' \in [Worker -> WorkerPC]
        /\ batch' \in [Worker -> SUBSET Memory]
        /\ cur' \in [Worker -> Memory \cup {None}]
        /\ read' \in [Worker -> Content \cup {None}]
        /\ canon' \in [Worker -> Memory \cup {None}]
        /\ seen' \in [Worker -> Seen]
    BY <1>11 DEF ProcessFails, MarkLost, Crash, Goto, ForgetCanonical
  <2>3. UNCHANGED <<memoryVars, writerVars, edits>>
    BY <1>11 DEF ProcessFails, MarkLost, Crash
  <2>4. QED
    BY <2>1, <2>2, <2>3 DEF memoryVars, writerVars
<1>12. ASSUME NEW w \in Worker, MarkDone(w) \/ MarkCurationFailed(w)
       PROVE  TypeOK'
  BY <1>12 DEF MarkDone, MarkCurationFailed, Goto, memoryVars, writerVars
<1>13. ASSUME NEW w \in Worker, ReclaimExpired(w)
       PROVE  TypeOK'
  BY <1>13 DEF ReclaimExpired, memoryVars, writerVars, workerVars
<1>14. CASE UNCHANGED vars
  BY <1>14 DEF vars, memoryVars, writerVars, workerVars
<1>15. ASSUME NEW p \in Writer, Upsert(p)
       PROVE  TypeOK'
  <2> HIDE DEF TypeOK, Meta, WorkerPC, canonVars
  <2>1. PICK S \in SUBSET Memory \ {{}} : \E W \in SUBSET S :
            \E c \in [W -> Content], md \in {"bare", "carried"} :
                UpsertMemories(p, S, W, c, md)
    BY <1>15 DEF Upsert
  <2>2. S \in SUBSET Memory
    OBVIOUS
  <2>3. PICK W \in SUBSET S :
            \E c \in [W -> Content], md \in {"bare", "carried"} :
                UpsertMemories(p, S, W, c, md)
    BY <2>1
  <2>4. PICK c \in [W -> Content], md \in {"bare", "carried"} :
            UpsertMemories(p, S, W, c, md)
    BY <2>3
  <2>5. QED
    BY <1>1, <2>2, <2>4
<1>16. ASSUME NEW w \in Worker, WorkerStep(w)
       PROVE  TypeOK'
  BY <1>4, <1>5, <1>6, <1>7, <1>8, <1>12, <1>16, <1>9, <1>10 DEF WorkerStep
<1>17. CASE Next
  <2>1. CASE \E p \in Writer : Upsert(p) \/ EnqueueAfterUpsert(p) \/ EnqueueLost(p)
    BY <1>2, <1>15, <2>1
  <2>2. CASE \E m \in Memory : SoftDeleteMemory(m) \/ TimePasses(m)
    BY <1>3, <2>2
  <2>3. CASE \E w \in Worker :
                \/ WorkerStep(w) \/ ReclaimExpired(w)
                \/ ProcessFails(w) \/ MarkLost(w) \/ Crash(w)
    BY <1>11, <1>13, <1>16, <2>3
  <2>4. QED
    BY <1>17, <2>1, <2>2, <2>3 DEF Next
<1>18. QED
  BY <1>14, <1>17

-----------------------------------------------------------------------------
(* What a push does, and what every other step leaves alone.               *)

SameRow(m) ==
    /\ content'[m] = content[m]
    /\ meta'[m] = meta[m]
    /\ about'[m] = about[m]
    /\ emb'[m] = emb[m]

\* A push leaves a row alone, or leaves it unrequested, without a verdict and
\* with no embedding but one of the same content.
LEMMA PushEffect ==
    ASSUME TypeOK, NEW p \in Writer, Upsert(p)
    PROVE  /\ \A m \in Memory :
                 \/ SameRow(m)
                 \/ /\ m \in Unrequested'
                    /\ meta'[m] \in {"bare", "carried"}
                    /\ emb'[m] # None => emb'[m] = emb[m] /\ content'[m] = content[m]
           /\ Unrequested \subseteq Unrequested'
           /\ UNCHANGED <<queueVars, workerVars>>
<1>1. PICK S \in SUBSET Memory \ {{}} : \E W \in SUBSET S :
          \E c \in [W -> Content], md \in {"bare", "carried"} :
              UpsertMemories(p, S, W, c, md)
  BY DEF Upsert
<1>2. PICK W \in SUBSET S :
          \E c \in [W -> Content], md \in {"bare", "carried"} :
              UpsertMemories(p, S, W, c, md)
  BY <1>1
<1>3. PICK c \in [W -> Content], md \in {"bare", "carried"} :
          UpsertMemories(p, S, W, c, md)
  BY <1>2
<1>4. /\ unqueued[p] = {}
      /\ unqueued' = [unqueued EXCEPT ![p] = S]
      /\ lost' = lost
      /\ UNCHANGED <<queueVars, workerVars>>
  BY <1>3 DEF UpsertMemories
<1>5. unqueued'[p] = S /\ \A q \in Writer : unqueued[q] \subseteq unqueued'[q]
  BY <1>4 DEF TypeOK
<1>6. Unrequested \subseteq Unrequested' /\ S \subseteq Unrequested'
  BY <1>4, <1>5 DEF Unrequested
<1>7. \A m \in Memory : m \notin W => SameRow(m)
  BY <1>3 DEF UpsertMemories, SameRow
<1>8. \A m \in Memory : m \in W =>
        /\ meta'[m] = md
        /\ content'[m] = c[m]
        /\ emb'[m] = IF content[m] = c[m] THEN emb[m] ELSE None
  BY <1>3 DEF UpsertMemories, Kept
<1>9. W \subseteq Unrequested'
  BY <1>6
<1>10. ASSUME NEW m \in Memory
       PROVE  \/ SameRow(m)
              \/ /\ m \in Unrequested'
                 /\ meta'[m] \in {"bare", "carried"}
                 /\ emb'[m] # None => emb'[m] = emb[m] /\ content'[m] = content[m]
  BY <1>7, <1>8, <1>9
<1>11. QED
  BY <1>4, <1>6, <1>10

\* The other writer steps: no row changes, and a row that becomes requested has
\* just been enqueued.
LEMMA WriterEffect ==
    ASSUME TypeOK, NEW p \in Writer, EnqueueAfterUpsert(p) \/ EnqueueLost(p)
    PROVE  /\ UNCHANGED <<memoryVars, workerVars>>
           /\ \A m \in Memory :
                 \/ /\ status'[m] = status[m]
                    /\ owner'[m] = owner[m]
                    /\ m \in Unrequested => m \in Unrequested'
                 \/ status'[m] \in {"pending", "processing_dirty"}
<1>1. CASE EnqueueAfterUpsert(p)
  <2>1. \A m \in Memory : m \in unqueued[p] =>
            status'[m] \in {"pending", "processing_dirty"}
    BY <1>1 DEF EnqueueAfterUpsert, EnqueueCuration, Enqueue, EnqueuedStatus
  <2>2. \A m \in Memory : m \notin unqueued[p] =>
            status'[m] = status[m] /\ owner'[m] = owner[m]
    BY <1>1 DEF EnqueueAfterUpsert, EnqueueCuration, Enqueue
  <2>3. Unrequested \ unqueued[p] \subseteq Unrequested'
    BY <1>1 DEF EnqueueAfterUpsert, Unrequested, TypeOK
  <2>4. UNCHANGED <<memoryVars, workerVars>>
    BY <1>1 DEF EnqueueAfterUpsert
  <2>5. QED
    BY <2>1, <2>2, <2>3, <2>4
<1>2. CASE EnqueueLost(p)
  <2>1. Unrequested \subseteq Unrequested'
    BY <1>2 DEF EnqueueLost, Unrequested, TypeOK
  <2>2. UNCHANGED <<memoryVars, workerVars, queueVars>>
    BY <1>2 DEF EnqueueLost
  <2>3. QED
    BY <2>1, <2>2 DEF queueVars
<1>3. QED
  BY <1>1, <1>2

-----------------------------------------------------------------------------
(* One lemma per action, or per group of actions that do the same to the   *)
(* invariant.                                                              *)

LEMMA UpsertKeepsPipeline ==
    ASSUME PipelineInv, NEW p \in Writer, Upsert(p)
    PROVE  PipelineKept
<1> USE PushEffect DEF PipelineInv, SameRow, queueVars, workerVars, canonVars
<1>1. CurInv'
  BY DEF CurInv
<1>2. MergesInPlace => PassInv'
  BY DEF PassInv
<1>3. MergesInPlace => VerdictIsCurrent'
  BY DEF VerdictIsCurrent
<1>4. EmbeddingIsCurrent'
  BY DEF EmbeddingIsCurrent
<1>5. MergesInPlace => DoneIsJudged'
  BY DEF DoneIsJudged
<1>6. QED
  BY <1>1, <1>2, <1>3, <1>4, <1>5 DEF PipelineKept

LEMMA WriterKeepsPipeline ==
    ASSUME PipelineInv, NEW p \in Writer, EnqueueAfterUpsert(p) \/ EnqueueLost(p)
    PROVE  PipelineKept
<1> USE WriterEffect DEF PipelineInv, memoryVars, workerVars, canonVars
<1>1. CurInv'
  BY DEF CurInv
<1>2. MergesInPlace => PassInv'
  BY DEF PassInv
<1>3. MergesInPlace => VerdictIsCurrent'
  BY DEF VerdictIsCurrent
<1>4. EmbeddingIsCurrent'
  BY DEF EmbeddingIsCurrent
<1>5. MergesInPlace => DoneIsJudged'
  BY DEF DoneIsJudged
<1>6. QED
  BY <1>1, <1>2, <1>3, <1>4, <1>5 DEF PipelineKept

\* A deletion, or a lease running out, changes nothing the invariant reads.
LEMMA EnvironmentKeepsPipeline ==
    ASSUME PipelineInv, NEW m \in Memory, SoftDeleteMemory(m) \/ TimePasses(m)
    PROVE  PipelineKept
<1>1. UNCHANGED <<content, meta, about, emb, writerVars, workerVars, status, owner>>
  BY DEF SoftDeleteMemory, TimePasses, LeaseExpires, memoryVars, queueVars
<1>2. Unrequested' = Unrequested
  BY <1>1 DEF Unrequested, writerVars
<1>3. QED
  BY <1>1, <1>2 DEF PipelineKept, PipelineInv, CurInv, PassInv, VerdictIsCurrent,
                    EmbeddingIsCurrent, DoneIsJudged, workerVars, canonVars

LEMMA ClaimKeepsPipeline ==
    ASSUME PipelineInv, NEW w \in Worker, ClaimBatch(w)
    PROVE  PipelineKept
<1>1. PICK B \in SUBSET Memory : ClaimCurationBatchLeased(w, B)
  BY DEF ClaimBatch
<1>2. \A m \in Memory : /\ m \in B => status'[m] = "processing" /\ owner'[m] = w
                        /\ m \notin B => status'[m] = status[m] /\ owner'[m] = owner[m]
  BY <1>1 DEF ClaimCurationBatchLeased
<1>3. /\ pc' = [pc EXCEPT ![w] = "next"]
      /\ UNCHANGED <<memoryVars, writerVars, cur, read, canon>>
  BY DEF ClaimBatch, Goto, canonVars
<1>4. pc \in [Worker -> WorkerPC]
  BY DEF PipelineInv, TypeOK
<1>5. Unrequested' = Unrequested
  BY <1>3 DEF Unrequested, writerVars
<1>6. CurInv'
  BY <1>3, <1>4 DEF PipelineInv, CurInv, AtMemory
<1>7. MergesInPlace => PassInv'
  BY <1>2, <1>3, <1>4, <1>5 DEF PipelineInv, PassInv, memoryVars
<1>8. EmbeddingIsCurrent' /\ (MergesInPlace => VerdictIsCurrent')
  BY <1>3 DEF PipelineInv, VerdictIsCurrent, EmbeddingIsCurrent, memoryVars
<1>9. MergesInPlace => DoneIsJudged'
  BY <1>2, <1>3, <1>5 DEF PipelineInv, DoneIsJudged, memoryVars
<1>10. QED
  BY <1>6, <1>7, <1>8, <1>9 DEF PipelineKept

LEMMA SweepKeepsPipeline ==
    ASSUME PipelineInv, NEW w \in Worker, EnqueueSwept(w)
    PROVE  PipelineKept
<1>1. /\ \A m \in Memory : m \in batch[w] =>
            status'[m] \in {"pending", "processing_dirty"}
      /\ \A m \in Memory : m \notin batch[w] =>
            status'[m] = status[m] /\ owner'[m] = owner[m]
  BY DEF EnqueueSwept, EnqueueRecuration, Enqueue, EnqueuedStatus
<1>2. Unrequested \ batch[w] \subseteq Unrequested'
  BY DEF EnqueueSwept, Unrequested
<1>3. pc' = [pc EXCEPT ![w] = "idle"] /\ UNCHANGED <<memoryVars, cur, read, canon>>
  BY DEF EnqueueSwept, Goto, canonVars
<1>4. pc \in [Worker -> WorkerPC]
  BY DEF PipelineInv, TypeOK
<1>5. CurInv'
  BY <1>3, <1>4 DEF PipelineInv, CurInv, AtMemory
<1>6. MergesInPlace => PassInv'
  BY <1>1, <1>2, <1>3, <1>4 DEF PipelineInv, PassInv, memoryVars
<1>7. EmbeddingIsCurrent' /\ (MergesInPlace => VerdictIsCurrent')
  BY <1>3 DEF PipelineInv, VerdictIsCurrent, EmbeddingIsCurrent, memoryVars
<1>8. MergesInPlace => DoneIsJudged'
  BY <1>1, <1>2, <1>3 DEF PipelineInv, DoneIsJudged, memoryVars
<1>9. QED
  BY <1>5, <1>6, <1>7, <1>8 DEF PipelineKept

LEMMA LoadKeepsPipeline ==
    ASSUME PipelineInv, NEW w \in Worker, NEW i \in Memory, LoadMemory(w, i)
    PROVE  PipelineKept
<1>1. /\ pc' = [pc EXCEPT ![w] = "judge"]
      /\ cur' = [cur EXCEPT ![w] = i]
      /\ read' = [read EXCEPT ![w] = content[i]]
      /\ UNCHANGED <<queueVars, memoryVars, writerVars, canon>>
  BY DEF LoadMemory, Goto, canonVars
<1>2. /\ pc \in [Worker -> WorkerPC]
      /\ cur \in [Worker -> Memory \cup {None}]
      /\ read \in [Worker -> Content \cup {None}]
  BY DEF PipelineInv, TypeOK
<1>3. Unrequested' = Unrequested
  BY <1>1 DEF Unrequested, writerVars
<1>4. CurInv'
  BY <1>1, <1>2 DEF PipelineInv, CurInv, AtMemory
<1>5. MergesInPlace => PassInv'
  BY <1>1, <1>2, <1>3 DEF PipelineInv, PassInv, memoryVars, queueVars
<1>6. EmbeddingIsCurrent' /\ (MergesInPlace => VerdictIsCurrent' /\ DoneIsJudged')
  BY <1>1, <1>3 DEF PipelineInv, VerdictIsCurrent, EmbeddingIsCurrent,
                    DoneIsJudged, memoryVars, queueVars
<1>7. QED
  BY <1>4, <1>5, <1>6 DEF PipelineKept

\* Steps that only move the worker, and never into a place that claims more.
LEMMA MoveKeepsPipeline ==
    ASSUME PipelineInv, NEW w \in Worker,
           \/ SelectRecuration(w) \/ EndBatch(w) \/ EmbedOne(w)
           \/ ProcessFails(w) \/ MarkLost(w) \/ Crash(w)
    PROVE  PipelineKept
<1>1. /\ UNCHANGED <<queueVars, memoryVars, writerVars>>
      /\ \/ /\ pc' = [pc EXCEPT ![w] = pc'[w]]
            /\ pc'[w] \in {"sweep", "idle", "next"}
            /\ cur' = [cur EXCEPT ![w] = cur'[w]]
            /\ read' = [read EXCEPT ![w] = read'[w]]
         \/ /\ pc' = [pc EXCEPT ![w] = pc'[w]]
            /\ pc[w] \in {"judge", "count", "mark", "embed", "store"}
            /\ pc'[w] \in {"store", "fail"}
            /\ pc'[w] = "store" => pc[w] = "embed"
            /\ UNCHANGED <<cur, read>>
  <2>1. pc \in [Worker -> WorkerPC] /\ cur \in [Worker -> Memory \cup {None}]
        /\ read \in [Worker -> Content \cup {None}]
    BY DEF PipelineInv, TypeOK
  <2>2. QED
    BY <2>1 DEF PipelineKept, SelectRecuration, EndBatch, EmbedOne, AfterEmbedError, ProcessFails,
                MarkLost, Crash, Goto
<1>2. \A x \in Worker : x # w =>
        pc'[x] = pc[x] /\ cur'[x] = cur[x] /\ read'[x] = read[x] /\ canon'[x] = canon[x]
  <2>1. canon' = canon \/ canon' = [canon EXCEPT ![w] = None]
    BY DEF SelectRecuration, EndBatch, EmbedOne, ProcessFails, MarkLost, Crash,
           ForgetCanonical, canonVars
  <2>2. QED
    BY <1>1, <2>1 DEF PipelineInv, TypeOK
<1>3. Unrequested' = Unrequested
  BY <1>1 DEF Unrequested, writerVars
<1>4. CurInv'
  BY <1>1, <1>2 DEF PipelineInv, CurInv, AtMemory
<1>5. MergesInPlace => PassInv'
  BY <1>1, <1>2, <1>3 DEF PipelineInv, PassInv, memoryVars, queueVars
<1>6. EmbeddingIsCurrent' /\ (MergesInPlace => VerdictIsCurrent' /\ DoneIsJudged')
  BY <1>1, <1>3 DEF PipelineInv, VerdictIsCurrent, EmbeddingIsCurrent,
                    DoneIsJudged, memoryVars, queueVars
<1>7. QED
  BY <1>4, <1>5, <1>6 DEF PipelineKept

\* The verdict is written only over the content it judged.
LEMMA JudgeKeepsPipeline ==
    ASSUME PipelineInv, NEW w \in Worker, NEW v \in {"ok", "noise"}, JudgeMemory(w, v)
    PROVE  PipelineKept
<1>1. /\ pc[w] = "judge"
      /\ cur[w] \in Memory
      /\ UNCHANGED <<queueVars, content, emb, writerVars, cur, read, canon>>
  BY DEF JudgeMemory, PipelineInv, CurInv, AtMemory, canonVars
<1>2. /\ pc \in [Worker -> WorkerPC]
      /\ meta \in [Memory -> Meta]
      /\ about \in [Memory -> Content \cup {None}]
  BY DEF PipelineInv, TypeOK
<1>3. Unrequested' = Unrequested
  BY <1>1 DEF Unrequested, writerVars
<1>4. CASE ContentMatches(w)
  <2>1. /\ content[cur[w]] = read[w]
        /\ meta' = [meta EXCEPT ![cur[w]] = v]
        /\ about' = [about EXCEPT ![cur[w]] = read[w]]
        /\ pc' = [pc EXCEPT ![w] = IF v = "ok" THEN "embed" ELSE "count"]
    BY <1>4 DEF JudgeMemory, ContentMatches, Goto
  <2>2. CurInv'
    BY <1>1, <1>2, <2>1 DEF PipelineInv, CurInv, AtMemory
  <2>3. MergesInPlace => PassInv'
    BY <1>1, <1>2, <1>3, <2>1 DEF PipelineInv, PassInv, queueVars
  <2>4. EmbeddingIsCurrent' /\ (MergesInPlace => VerdictIsCurrent')
    BY <1>1, <1>2, <2>1 DEF PipelineInv, VerdictIsCurrent, EmbeddingIsCurrent
  <2>5. MergesInPlace => DoneIsJudged'
    BY <1>1, <1>2, <1>3, <2>1 DEF PipelineInv, DoneIsJudged, queueVars
  <2>6. QED
    BY <2>2, <2>3, <2>4, <2>5 DEF PipelineKept
<1>5. CASE ~ContentMatches(w)
  <2>1. /\ content[cur[w]] # read[w]
        /\ pc' = [pc EXCEPT ![w] = "done"]
        /\ UNCHANGED <<meta, about>>
    BY <1>5 DEF JudgeMemory, ContentMatches, Goto
  <2>2. CurInv'
    BY <1>1, <1>2, <2>1 DEF PipelineInv, CurInv, AtMemory
  <2>3. MergesInPlace => PassInv'
    BY <1>1, <1>2, <1>3, <2>1 DEF PipelineInv, PassInv, queueVars
  <2>4. EmbeddingIsCurrent' /\ (MergesInPlace => VerdictIsCurrent' /\ DoneIsJudged')
    BY <1>1, <1>3, <2>1 DEF PipelineInv, VerdictIsCurrent, EmbeddingIsCurrent,
                            DoneIsJudged, queueVars
  <2>5. QED
    BY <2>2, <2>3, <2>4 DEF PipelineKept
<1>6. QED
  BY <1>4, <1>5 DEF PipelineKept

\* A canonical is marked where its metadata was read, or keeps its verdict.
LEMMA CanonicalKeepsPipeline ==
    ASSUME PipelineInv, NEW w \in Worker,
           \/ \E k \in Memory : ReadCanonical(w, k)
           \/ MarkCanonical(w) \/ SkipCanonical(w)
    PROVE  PipelineKept
<1>1. /\ pc[w] \in {"count", "mark"}
      /\ pc' = [pc EXCEPT ![w] = pc'[w]]
      /\ pc'[w] \in {"mark", "done"}
      /\ pc'[w] = "mark" => canon'[w] \in Memory
      /\ canon' = [canon EXCEPT ![w] = canon'[w]]
      /\ UNCHANGED <<queueVars, content, emb, writerVars, cur, read>>
  <2>1. pc \in [Worker -> WorkerPC] /\ canon \in [Worker -> Memory \cup {None}]
    BY DEF PipelineInv, TypeOK
  <2>2. QED
    BY <2>1 DEF ReadCanonical, MarkCanonical, SkipCanonical, ForgetCanonical, Goto,
                memoryVars
<1>2. MergesInPlace => UNCHANGED <<meta, about>>
  BY DEF ReadCanonical, MarkCanonical, SkipCanonical, memoryVars
<1>3. \A x \in Worker : x # w => pc'[x] = pc[x] /\ canon'[x] = canon[x]
  BY <1>1 DEF PipelineInv, TypeOK
<1>4. Unrequested' = Unrequested
  BY <1>1 DEF Unrequested, writerVars
<1>5. CurInv'
  BY <1>1, <1>3 DEF PipelineInv, CurInv, AtMemory
<1>6. EmbeddingIsCurrent'
  BY <1>1 DEF PipelineInv, EmbeddingIsCurrent
<1>7. MergesInPlace => PassInv'
  BY <1>1, <1>2, <1>3, <1>4 DEF PipelineInv, PassInv, queueVars
<1>8. MergesInPlace => VerdictIsCurrent' /\ DoneIsJudged'
  BY <1>1, <1>2, <1>4 DEF PipelineInv, VerdictIsCurrent, DoneIsJudged, queueVars
<1>9. QED
  BY <1>5, <1>6, <1>7, <1>8 DEF PipelineKept

LEMMA StoreKeepsPipeline ==
    ASSUME PipelineInv, NEW w \in Worker, StoreEmbedding(w)
    PROVE  PipelineKept
<1>1. /\ pc[w] = "store"
      /\ cur[w] \in Memory
      /\ pc' = [pc EXCEPT ![w] = "done"]
      /\ UNCHANGED <<queueVars, content, meta, about, writerVars, cur, read, canon>>
  BY DEF StoreEmbedding, Goto, PipelineInv, CurInv, AtMemory, canonVars
<1>2. /\ pc \in [Worker -> WorkerPC]
      /\ emb \in [Memory -> Content \cup {None}]
  BY DEF PipelineInv, TypeOK
<1>3. Unrequested' = Unrequested
  BY <1>1 DEF Unrequested, writerVars
<1>4. CurInv'
  BY <1>1, <1>2 DEF PipelineInv, CurInv, AtMemory
<1>5. MergesInPlace => PassInv'
  BY <1>1, <1>2, <1>3 DEF PipelineInv, PassInv, queueVars
<1>6. EmbeddingIsCurrent'
  BY <1>1, <1>2 DEF StoreEmbedding, ContentMatches, PipelineInv, EmbeddingIsCurrent
<1>7. MergesInPlace => VerdictIsCurrent' /\ DoneIsJudged'
  BY <1>1, <1>3 DEF PipelineInv, VerdictIsCurrent, DoneIsJudged, queueVars
<1>8. QED
  BY <1>4, <1>5, <1>6, <1>7 DEF PipelineKept

\* A completion is a completion of the row the worker is at, or changes nothing.
LEMMA MarkKeepsPipeline ==
    ASSUME PipelineInv, QueueInv, NEW w \in Worker, MarkDone(w) \/ MarkCurationFailed(w)
    PROVE  PipelineKept
<1>1. /\ pc[w] \in {"done", "fail"}
      /\ cur[w] \in Memory
      /\ pc' = [pc EXCEPT ![w] = "next"]
      /\ UNCHANGED <<memoryVars, writerVars, cur, read, canon>>
  BY DEF MarkDone, MarkCurationFailed, Goto, PipelineInv, CurInv, AtMemory, canonVars
<1>2. /\ pc \in [Worker -> WorkerPC]
      /\ status \in [Memory -> Status]
      /\ owner \in [Memory -> Worker \cup {None}]
  BY DEF PipelineInv, TypeOK, QueueTypeOK
<1>3. Unrequested' = Unrequested
  BY <1>1 DEF Unrequested, writerVars
<1>4. \A m \in Memory :
        \/ status'[m] = status[m] /\ owner'[m] = owner[m]
        \/ status'[m] \in {"pending", "failed"}
        \/ /\ status'[m] = "done"
           /\ m = cur[w] /\ pc[w] = "done"
           /\ status[m] = "processing" /\ owner[m] = w
  <2>1. CASE UNCHANGED queueVars
    BY <2>1 DEF queueVars
  <2>2. CASE pc[w] = "done" /\ SetCurationDoneLeased(cur[w], w)
    BY <1>1, <1>2, <2>2
       DEF SetCurationDoneLeased, HoldsRow, Held, DoneStatus, ClearLease
  <2>3. CASE SetCurationFailedLeased(cur[w], w)
    BY <1>1, <1>2, <2>3 DEF SetCurationFailedLeased, FailedStatus, ClearLease
  <2>4. QED
    BY <2>1, <2>2, <2>3 DEF PipelineKept, MarkDone, MarkCurationFailed
<1>5. CurInv'
  BY <1>1, <1>2 DEF PipelineInv, CurInv, AtMemory
<1>6. MergesInPlace => PassInv'
  BY <1>1, <1>2, <1>3, <1>4 DEF PipelineInv, PassInv, memoryVars
<1>7. EmbeddingIsCurrent' /\ (MergesInPlace => VerdictIsCurrent')
  BY <1>1 DEF PipelineInv, VerdictIsCurrent, EmbeddingIsCurrent, memoryVars
<1>8. MergesInPlace => DoneIsJudged'
  BY <1>1, <1>3, <1>4 DEF PipelineInv, PassInv, DoneIsJudged, memoryVars
<1>9. QED
  BY <1>5, <1>6, <1>7, <1>8 DEF PipelineKept

LEMMA ReclaimKeepsPipeline ==
    ASSUME PipelineInv, NEW w \in Worker, ReclaimExpired(w)
    PROVE  PipelineKept
<1>1. \A m \in Memory :
        \/ status'[m] = status[m] /\ owner'[m] = owner[m]
        \/ status'[m] = "pending"
  BY DEF ReclaimExpired, ReclaimExpiredCuration
<1>2. UNCHANGED <<memoryVars, writerVars, workerVars>>
  BY DEF ReclaimExpired
<1>3. Unrequested' = Unrequested
  BY <1>2 DEF Unrequested, writerVars
<1>4. QED
  BY <1>1, <1>2, <1>3 DEF PipelineKept, PipelineInv, CurInv, PassInv, VerdictIsCurrent,
     EmbeddingIsCurrent, DoneIsJudged, memoryVars, workerVars, canonVars

-----------------------------------------------------------------------------
(* The invariant holds of every behaviour.                                 *)

LEMMA InitPipelineInv == Init => PipelineInv /\ QueueInv
<1> SUFFICES ASSUME Init PROVE PipelineInv /\ QueueInv
  OBVIOUS
<1>1. TypeOK /\ CurInv /\ QueueInv
  BY InitTypeOK
<1>2. PassInv /\ VerdictIsCurrent /\ EmbeddingIsCurrent /\ DoneIsJudged
  BY DEF Init, QueueInit, PassInv, VerdictIsCurrent, EmbeddingIsCurrent, DoneIsJudged
<1>3. QED
  BY <1>1, <1>2 DEF PipelineInv

LEMMA StepKeepsPipeline ==
    PipelineInv /\ QueueInv /\ [Next]_vars => PipelineInv' /\ QueueInv'
<1> SUFFICES ASSUME PipelineInv, QueueInv, [Next]_vars
             PROVE  PipelineInv' /\ QueueInv'
  OBVIOUS
<1>1. TypeOK' /\ QueueInv'
  BY StepKeepsTypes, StepKeepsQueue DEF PipelineInv
<1>2. SUFFICES PipelineKept
  BY <1>1 DEF PipelineInv, PipelineKept
<1>3. CASE \E p \in Writer : Upsert(p) \/ EnqueueAfterUpsert(p) \/ EnqueueLost(p)
  BY <1>3, UpsertKeepsPipeline, WriterKeepsPipeline
<1>4. CASE \E m \in Memory : SoftDeleteMemory(m) \/ TimePasses(m)
  BY <1>4, EnvironmentKeepsPipeline
<1>5. ASSUME NEW w \in Worker,
             \/ WorkerStep(w) \/ ReclaimExpired(w)
             \/ ProcessFails(w) \/ MarkLost(w) \/ Crash(w)
      PROVE  PipelineKept
  <2>1. CASE ClaimBatch(w)
    BY <2>1, ClaimKeepsPipeline
  <2>2. CASE EnqueueSwept(w)
    BY <2>2, SweepKeepsPipeline
  <2>3. CASE \E m \in Memory : LoadMemory(w, m)
    BY <2>3, LoadKeepsPipeline
  <2>4. CASE \/ SelectRecuration(w) \/ EndBatch(w) \/ EmbedOne(w)
             \/ ProcessFails(w) \/ MarkLost(w) \/ Crash(w)
    BY <2>4, MoveKeepsPipeline
  <2>5. CASE \E v \in {"ok", "noise"} : JudgeMemory(w, v)
    BY <2>5, JudgeKeepsPipeline
  <2>6. CASE StoreEmbedding(w)
    BY <2>6, StoreKeepsPipeline
  <2>7. CASE \/ \E k \in Memory : ReadCanonical(w, k)
             \/ MarkCanonical(w) \/ SkipCanonical(w)
    BY <2>7, CanonicalKeepsPipeline
  <2>8. CASE MarkDone(w) \/ MarkCurationFailed(w)
    BY <2>8, MarkKeepsPipeline
  <2>9. CASE ReclaimExpired(w)
    BY <2>9, ReclaimKeepsPipeline
  <2>10. CASE WorkerStep(w)
    <3>1. CASE \E m \in Memory : LoadMemory(w, m) \/ ReadCanonical(w, m)
      BY <2>3, <2>7, <3>1
    <3>2. QED
      BY <2>1, <2>2, <2>4, <2>5, <2>6, <2>7, <2>8, <2>10, <3>1 DEF WorkerStep
  <2>11. QED
    BY <1>5, <2>4, <2>9, <2>10
<1>6. CASE UNCHANGED vars
  <2>1. UNCHANGED <<status, owner, memoryVars, writerVars, workerVars>>
    BY <1>6 DEF vars, queueVars
  <2>2. Unrequested' = Unrequested
    BY <2>1 DEF Unrequested, writerVars
  <2>3. QED
    BY <2>1, <2>2 DEF PipelineKept, PipelineInv, CurInv, PassInv, VerdictIsCurrent,
       EmbeddingIsCurrent, DoneIsJudged, memoryVars, workerVars, canonVars
<1>7. QED
  BY <1>3, <1>4, <1>5, <1>6 DEF Next

\* The inductive invariant of the pipeline and of the queue under it.
THEOREM PipelineInvariant == Spec => [](PipelineInv /\ QueueInv)
<1>1. Init => PipelineInv /\ QueueInv
  BY InitPipelineInv
<1>2. PipelineInv /\ QueueInv /\ [Next]_vars => (PipelineInv /\ QueueInv)'
  BY StepKeepsPipeline
<1>3. QED
  BY <1>1, <1>2, PTL DEF Spec

\* Every variable of the pipeline has its type.
THEOREM TypeCorrect == Spec => []TypeOK
<1>1. PipelineInv => TypeOK
  BY DEF PipelineInv
<1>2. QED
  BY <1>1, PipelineInvariant, PTL

\* A verdict of the server is about the content its row has now, whatever edits
\* race with the workers and however often they stall, crash or lose a lease, if
\* the store merges metadata in one statement.
THEOREM VerdictAlwaysCurrent ==
    ASSUME MergesInPlace PROVE Spec => []VerdictIsCurrent
<1>1. PipelineInv => VerdictIsCurrent
  BY MergesInPlace DEF PipelineInv
<1>2. QED
  BY <1>1, PipelineInvariant, PTL

\* An embedding is of the content its row has now.
THEOREM EmbeddingAlwaysCurrent == Spec => []EmbeddingIsCurrent
<1>1. PipelineInv => EmbeddingIsCurrent
  BY DEF PipelineInv
<1>2. QED
  BY <1>1, PipelineInvariant, PTL

\* A row whose last commit reached the queue is called done only with a verdict,
\* if the store merges metadata in one statement.
THEOREM DoneAlwaysJudged ==
    ASSUME MergesInPlace PROVE Spec => []DoneIsJudged
<1>1. PipelineInv => DoneIsJudged
  BY MergesInPlace DEF PipelineInv
<1>2. QED
  BY <1>1, PipelineInvariant, PTL

\* The pipeline uses the queue as the queue is specified, so that everything
\* proved of the queue alone, its refinement included, holds of the pipeline.
THEOREM PipelineUsesQueue == Spec => QueueSpec
<1>1. Init => QueueInit
  BY DEF Init
<1>2. PipelineInv /\ [Next]_vars => [QueueNext]_queueVars
  BY StepUsesQueue DEF PipelineInv
<1>3. QED
  BY <1>1, <1>2, PipelineInvariant, PTL DEF Spec, QueueSpec

\* A row a worker holds is let go only by that worker, as it completes the row,
\* or once its lease has run out: no edit, sweep, other worker or crash takes it.
THEOREM ClaimNeverStolen == Spec => ClaimNotStolen
<1> DEFINE Stolen(m) ==
        /\ owner[m] # None /\ owner'[m] # owner[m]
        /\ lease[m] # "expired"
        /\ ~(cur[owner[m]] = m /\ pc[owner[m]] \in {"done", "fail"})
<1>1. ASSUME PipelineInv, QueueInv, [Next]_vars, NEW m \in Memory
      PROVE  ~Stolen(m)
  <2>1. CASE owner'[m] = owner[m]
    BY <2>1
  <2>2. ASSUME NEW w \in Worker, ClaimBatch(w)
        PROVE  ~Stolen(m)
    BY <1>1, <2>2 DEF ClaimBatch, ClaimCurationBatchLeased, IsBatch, Pending, Held,
       QueueInv, LeaseIffHeld
  <2>3. ASSUME NEW w \in Worker, MarkDone(w)
        PROVE  ~Stolen(m)
    BY <1>1, <2>3 DEF MarkDone, SetCurationDoneLeased, ClearLease, HoldsRow,
       queueVars, PipelineInv, TypeOK, QueueTypeOK, CurInv, AtMemory
  <2>4. ASSUME NEW w \in Worker, MarkCurationFailed(w)
        PROVE  ~Stolen(m)
    <3>1. pc[w] = "fail" /\ cur[w] \in Memory
      BY <1>1, <2>4 DEF MarkCurationFailed, PipelineInv, CurInv, AtMemory
    <3>2. CASE SetCurationFailedLeased(cur[w], w)
      <4>1. owner[cur[w]] = w /\ owner' = [owner EXCEPT ![cur[w]] = None]
        BY <3>2 DEF SetCurationFailedLeased, ClearLease, HoldsRow
      <4>2. QED
        BY <1>1, <3>1, <4>1 DEF PipelineInv, TypeOK, QueueTypeOK
    <3>3. CASE UNCHANGED queueVars
      BY <3>3 DEF queueVars
    <3>4. QED
      BY <2>4, <3>2, <3>3 DEF MarkCurationFailed
  <2>5. ASSUME NEW w \in Worker, ReclaimExpired(w)
        PROVE  ~Stolen(m)
    BY <1>1, <2>5 DEF ReclaimExpired, ReclaimExpiredCuration, Expired
  <2>6. ASSUME NEW w \in Worker,
               \/ SelectRecuration(w) \/ EnqueueSwept(w) \/ EndBatch(w) \/ EmbedOne(w)
               \/ StoreEmbedding(w) \/ MarkCanonical(w) \/ SkipCanonical(w)
               \/ ProcessFails(w) \/ MarkLost(w) \/ Crash(w)
               \/ \E i \in Memory : LoadMemory(w, i) \/ ReadCanonical(w, i)
               \/ \E v \in {"ok", "noise"} : JudgeMemory(w, v)
        PROVE  owner' = owner
    BY <2>6 DEF SelectRecuration, EnqueueSwept, EnqueueRecuration, Enqueue, EndBatch,
       EmbedOne, StoreEmbedding, ProcessFails, MarkLost, Crash, LoadMemory,
       JudgeMemory, ReadCanonical, MarkCanonical, SkipCanonical, queueVars
  <2>7. ASSUME NEW p \in Writer, Upsert(p) \/ EnqueueAfterUpsert(p) \/ EnqueueLost(p)
        PROVE  owner' = owner
    BY <2>7 DEF Upsert, UpsertMemories, EnqueueAfterUpsert, EnqueueLost,
       EnqueueCuration, Enqueue, queueVars
  <2>8. ASSUME NEW i \in Memory, SoftDeleteMemory(i) \/ TimePasses(i)
        PROVE  owner' = owner
    BY <2>8 DEF SoftDeleteMemory, TimePasses, LeaseExpires, queueVars
  <2>9. CASE UNCHANGED vars
    BY <2>9 DEF vars, queueVars
  <2>10. QED
    BY <1>1, <2>2, <2>3, <2>4, <2>5, <2>6, <2>7, <2>8, <2>9 DEF Next, WorkerStep
<1>2. PipelineInv /\ QueueInv /\ [Next]_vars =>
        [\A m \in Memory :
            owner[m] # None /\ owner'[m] # owner[m] =>
              \/ lease[m] = "expired"
              \/ cur[owner[m]] = m /\ pc[owner[m]] \in {"done", "fail"}]_vars
  BY <1>1
<1>3. QED
  BY <1>2, PipelineInvariant, PTL DEF Spec, ClaimNotStolen

-----------------------------------------------------------------------------
(* A single server process: what is done is judged and indexed.            *)

OneServer == \A v, w \in Worker : v = w

Judged(m) == meta[m] \in {"ok", "noise"} /\ about[m] = content[m]

\* With nobody to take them away, the rows of a batch stay held until the worker
\* completes them.
BatchInv ==
    \A w \in Worker :
        /\ pc[w] \in AtMemory \cup {"next"} => batch[w] \subseteq Held
        /\ pc[w] \in AtMemory => cur[w] \in Held \ batch[w]
        /\ pc[w] = "mark" => canon[w] # cur[w]

\* PassInv, without an assumption on the store, and for the embedding too.
SoloPassInv ==
    \A w \in Worker, m \in Memory :
        status[m] = "processing" /\ cur[w] = m /\ m \notin Unrequested =>
            /\ pc[w] \in {"judge", "embed", "store"} => read[w] = content[m]
            /\ pc[w] \in {"count", "mark", "embed", "store", "done"} => Judged(m)
            /\ pc[w] \in {"count", "mark"} => meta[m] = "noise"
            /\ pc[w] = "done" /\ meta[m] = "ok" => emb[m] = content[m]

\* A mark that is written back over a done row writes what the row has.
MarkInv ==
    \A w \in Worker, m \in Memory :
        pc[w] = "mark" /\ canon[w] = m /\ status[m] = "done" /\ m \notin Unrequested =>
            seen[w].meta = meta[m] /\ seen[w].about = about[m]

SoloInv == BatchInv /\ SoloPassInv /\ MarkInv /\ DoneVerdictIsCurrent /\ DoneIsIndexed

LEMMA UpsertKeepsSolo ==
    ASSUME PipelineInv, SoloInv, NEW p \in Writer, Upsert(p)
    PROVE  SoloInv'
<1> USE PushEffect DEF PipelineInv, SoloInv, SameRow, queueVars, workerVars, canonVars
<1>1. BatchInv'
  BY DEF BatchInv, Held
<1>2. SoloPassInv'
  BY DEF SoloPassInv, Judged
<1>3. MarkInv'
  BY DEF MarkInv
<1>4. DoneVerdictIsCurrent' /\ DoneIsIndexed'
  BY DEF DoneVerdictIsCurrent, DoneIsIndexed
<1>5. QED
  BY <1>1, <1>2, <1>3, <1>4

LEMMA WriterKeepsSolo ==
    ASSUME PipelineInv, SoloInv, NEW p \in Writer, EnqueueAfterUpsert(p) \/ EnqueueLost(p)
    PROVE  SoloInv'
<1> USE WriterEffect DEF PipelineInv, SoloInv, memoryVars, workerVars, canonVars
<1>1. \A m \in Held : m \in Held'
  BY DEF EnqueueAfterUpsert, EnqueueLost, EnqueueCuration, Enqueue, EnqueuedStatus,
         Held, queueVars
<1>2. BatchInv'
  BY <1>1 DEF BatchInv
<1>3. SoloPassInv'
  BY DEF SoloPassInv, Judged
<1>4. MarkInv'
  BY DEF MarkInv
<1>5. DoneVerdictIsCurrent' /\ DoneIsIndexed'
  BY DEF DoneVerdictIsCurrent, DoneIsIndexed
<1>6. QED
  BY <1>2, <1>3, <1>4, <1>5

LEMMA EnvironmentKeepsSolo ==
    ASSUME PipelineInv, SoloInv, NEW m \in Memory, SoftDeleteMemory(m) \/ TimePasses(m)
    PROVE  SoloInv'
<1>1. UNCHANGED <<content, meta, about, emb, writerVars, workerVars, status, owner>>
  BY DEF SoftDeleteMemory, TimePasses, LeaseExpires, memoryVars, queueVars
<1>2. Unrequested' = Unrequested
  BY <1>1 DEF Unrequested, writerVars
<1>3. QED
  BY <1>1, <1>2 DEF SoloInv, BatchInv, SoloPassInv, MarkInv, DoneVerdictIsCurrent,
                    DoneIsIndexed, Judged, Held, workerVars, canonVars

\* Only an idle worker claims, and what it claims was at rest for nobody.
LEMMA ClaimKeepsSolo ==
    ASSUME OneServer, PipelineInv, SoloInv, NEW w \in Worker, ClaimBatch(w)
    PROVE  SoloInv'
<1>1. PICK B \in SUBSET Memory :
          /\ ClaimCurationBatchLeased(w, B)
          /\ batch' = [batch EXCEPT ![w] = B]
  BY DEF ClaimBatch
<1>2. \A m \in Memory : /\ m \in B => status'[m] = "processing"
                        /\ m \notin B => status'[m] = status[m]
  BY <1>1 DEF ClaimCurationBatchLeased
<1>3. /\ pc' = [pc EXCEPT ![w] = "next"]
      /\ UNCHANGED <<memoryVars, writerVars, cur, read, canon, seen>>
  BY DEF ClaimBatch, Goto, canonVars
<1>4. Unrequested' = Unrequested
  BY <1>3 DEF Unrequested, writerVars
<1>5. \A x \in Worker : pc'[x] = "next" /\ batch'[x] = B
  BY <1>1, <1>3 DEF OneServer, PipelineInv, TypeOK
<1>6. BatchInv'
  BY <1>2, <1>5 DEF BatchInv, AtMemory, Held
<1>7. SoloPassInv' /\ MarkInv'
  BY <1>5 DEF SoloPassInv, MarkInv
<1>8. DoneVerdictIsCurrent' /\ DoneIsIndexed'
  BY <1>2, <1>3, <1>4 DEF SoloInv, DoneVerdictIsCurrent, DoneIsIndexed, memoryVars
<1>9. QED
  BY <1>6, <1>7, <1>8 DEF SoloInv

LEMMA SweepKeepsSolo ==
    ASSUME OneServer, PipelineInv, SoloInv, NEW w \in Worker, EnqueueSwept(w)
    PROVE  SoloInv'
<1>1. /\ \A m \in Memory : m \in batch[w] =>
            status'[m] \in {"pending", "processing_dirty"}
      /\ \A m \in Memory : m \notin batch[w] => status'[m] = status[m]
  BY DEF EnqueueSwept, EnqueueRecuration, Enqueue, EnqueuedStatus
<1>2. Unrequested \ batch[w] \subseteq Unrequested'
  BY DEF EnqueueSwept, Unrequested
<1>3. UNCHANGED memoryVars /\ \A x \in Worker : pc'[x] = "idle"
  BY DEF EnqueueSwept, Goto, OneServer, PipelineInv, TypeOK
<1>4. BatchInv' /\ SoloPassInv' /\ MarkInv'
  BY <1>3 DEF BatchInv, SoloPassInv, MarkInv, AtMemory
<1>5. DoneVerdictIsCurrent' /\ DoneIsIndexed'
  BY <1>1, <1>2, <1>3 DEF SoloInv, DoneVerdictIsCurrent, DoneIsIndexed, memoryVars
<1>6. QED
  BY <1>4, <1>5 DEF SoloInv

\* Steps that read and move the worker, whatever comes next of them.
LEMMA RestIsKept ==
    ASSUME SoloInv, UNCHANGED <<queueVars, memoryVars, writerVars>>
    PROVE  /\ DoneVerdictIsCurrent' /\ DoneIsIndexed'
           /\ Held' = Held /\ Unrequested' = Unrequested
BY DEF SoloInv, DoneVerdictIsCurrent, DoneIsIndexed, Held, Unrequested, queueVars,
       memoryVars, writerVars

LEMMA LoadKeepsSolo ==
    ASSUME OneServer, PipelineInv, SoloInv, NEW w \in Worker, NEW i \in Memory, LoadMemory(w, i)
    PROVE  SoloInv'
<1>1. /\ pc[w] = "next" /\ i \in batch[w]
      /\ UNCHANGED <<queueVars, memoryVars, writerVars>>
  BY DEF LoadMemory
<1>2. \A x \in Worker : /\ x = w /\ pc'[x] = "judge" /\ batch'[x] = batch[x] \ {i}
                        /\ cur'[x] = i /\ read'[x] = content[i]
  BY DEF LoadMemory, Goto, OneServer, PipelineInv, TypeOK
<1>3. BatchInv'
  BY <1>1, <1>2, RestIsKept DEF SoloInv, BatchInv
<1>4. SoloPassInv' /\ MarkInv'
  BY <1>1, <1>2 DEF SoloPassInv, MarkInv, memoryVars
<1>5. QED
  BY <1>1, <1>3, <1>4, RestIsKept DEF SoloInv

LEMMA MoveKeepsSolo ==
    ASSUME OneServer, PipelineInv, SoloInv, NEW w \in Worker,
           \/ SelectRecuration(w) \/ EndBatch(w) \/ EmbedOne(w)
           \/ ProcessFails(w) \/ MarkLost(w) \/ Crash(w)
    PROVE  SoloInv'
<1>1. UNCHANGED <<queueVars, memoryVars, writerVars>>
  BY DEF SelectRecuration, EndBatch, EmbedOne, ProcessFails, MarkLost, Crash
<1>2. \A x \in Worker :
        \/ pc'[x] \in {"sweep", "idle"}
        \/ /\ pc[x] \in AtMemory /\ pc'[x] \in {"fail", "store", "next"}
           /\ pc'[x] = "store" => pc[x] = "embed"
           /\ batch'[x] = batch[x] /\ cur'[x] = cur[x] /\ read'[x] = read[x]
  BY DEF SelectRecuration, EndBatch, EmbedOne, AfterEmbedError, ProcessFails, MarkLost,
         Crash, Goto, OneServer, PipelineInv, TypeOK, AtMemory
<1>3. BatchInv'
  BY <1>1, <1>2, RestIsKept DEF SoloInv, BatchInv, AtMemory
<1>4. SoloPassInv' /\ MarkInv'
  BY <1>1, <1>2, RestIsKept DEF SoloInv, SoloPassInv, MarkInv, Judged, memoryVars, queueVars
<1>5. QED
  BY <1>1, <1>3, <1>4, RestIsKept DEF SoloInv

\* The row that is judged is held, so that no done row is disturbed.
LEMMA JudgeKeepsSolo ==
    ASSUME OneServer, PipelineInv, SoloInv, NEW w \in Worker, NEW v \in {"ok", "noise"},
           JudgeMemory(w, v)
    PROVE  SoloInv'
<1>1. /\ pc[w] = "judge" /\ cur[w] \in Memory /\ cur[w] \in Held
      /\ UNCHANGED <<queueVars, content, emb, writerVars, batch, cur, read>>
  BY DEF JudgeMemory, SoloInv, BatchInv, PipelineInv, CurInv, AtMemory
<1>2. Unrequested' = Unrequested /\ Held' = Held
  BY <1>1 DEF Unrequested, writerVars, Held, queueVars
<1>3. \/ /\ content[cur[w]] = read[w]
         /\ meta' = [meta EXCEPT ![cur[w]] = v]
         /\ about' = [about EXCEPT ![cur[w]] = read[w]]
         /\ \A x \in Worker : x = w /\ pc'[x] = IF v = "ok" THEN "embed" ELSE "count"
      \/ /\ content[cur[w]] # read[w]
         /\ \A x \in Worker : x = w /\ pc'[x] = "done"
         /\ UNCHANGED <<meta, about>>
  BY DEF JudgeMemory, ContentMatches, Goto, OneServer, PipelineInv, TypeOK
<1>4. BatchInv'
  BY <1>1, <1>2, <1>3 DEF SoloInv, BatchInv, AtMemory
<1>5. SoloPassInv'
  BY <1>1, <1>2, <1>3 DEF SoloInv, SoloPassInv, Judged, PipelineInv, TypeOK, queueVars
<1>6. MarkInv'
  BY <1>3 DEF MarkInv
<1>7. \A m \in Memory : status[m] = "done" => m # cur[w]
  BY <1>1 DEF Held
<1>8. DoneVerdictIsCurrent' /\ DoneIsIndexed'
  BY <1>1, <1>2, <1>3, <1>7 DEF SoloInv, DoneVerdictIsCurrent, DoneIsIndexed, queueVars,
     PipelineInv, TypeOK
<1>9. QED
  BY <1>4, <1>5, <1>6, <1>8 DEF SoloInv

\* What a mark writes back is what a row at rest has, and a row that is not will
\* be judged yet.
LEMMA CanonicalKeepsSolo ==
    ASSUME OneServer, PipelineInv, SoloInv, NEW w \in Worker,
           \/ \E k \in Memory : ReadCanonical(w, k)
           \/ MarkCanonical(w) \/ SkipCanonical(w)
    PROVE  SoloInv'
<1>1. /\ pc[w] \in {"count", "mark"}
      /\ UNCHANGED <<queueVars, content, emb, writerVars, batch, cur, read>>
  BY DEF ReadCanonical, MarkCanonical, SkipCanonical, memoryVars
<1>2. Unrequested' = Unrequested /\ Held' = Held
  BY <1>1 DEF Unrequested, writerVars, Held, queueVars
<1>3. \A x \in Worker : x = w
  BY DEF OneServer
<1>4. CASE \E k \in Memory : ReadCanonical(w, k)
  <2>1. PICK k \in Memory : ReadCanonical(w, k)
    BY <1>4
  <2>2. /\ k # cur[w]
        /\ pc'[w] = "mark" /\ canon'[w] = k
        /\ seen'[w].meta = meta[k] /\ seen'[w].about = about[k]
        /\ pc[w] = "count"
        /\ UNCHANGED <<meta, about>>
    BY <2>1 DEF ReadCanonical, Goto, PipelineInv, TypeOK, memoryVars
  <2>3. BatchInv'
    BY <1>1, <1>2, <1>3, <2>2 DEF SoloInv, BatchInv, AtMemory
  <2>4. SoloPassInv' /\ MarkInv'
    BY <1>1, <1>2, <1>3, <2>2 DEF SoloInv, SoloPassInv, MarkInv, Judged, queueVars
  <2>5. DoneVerdictIsCurrent' /\ DoneIsIndexed'
    BY <1>1, <1>2, <2>2 DEF SoloInv, DoneVerdictIsCurrent, DoneIsIndexed, queueVars
  <2>6. QED
    BY <2>3, <2>4, <2>5 DEF SoloInv
<1>5. CASE MarkCanonical(w) \/ SkipCanonical(w)
  <2>1. /\ pc'[w] = "done"
        /\ \A m \in Memory :
              \/ meta'[m] = meta[m] /\ about'[m] = about[m]
              \/ /\ pc[w] = "mark" /\ m = canon[w]
                 /\ meta'[m] = seen[w].meta /\ about'[m] = seen[w].about
    BY <1>5 DEF MarkCanonical, SkipCanonical, Goto, PipelineInv, TypeOK, memoryVars
  <2>2. cur[w] \in Memory /\ meta'[cur[w]] = meta[cur[w]] /\ about'[cur[w]] = about[cur[w]]
    BY <1>1, <2>1 DEF SoloInv, BatchInv, PipelineInv, CurInv, AtMemory
  <2>3. BatchInv' /\ MarkInv'
    BY <1>1, <1>2, <1>3, <2>1 DEF SoloInv, BatchInv, MarkInv, AtMemory
  <2>4. SoloPassInv'
    BY <1>1, <1>2, <1>3, <2>1, <2>2 DEF SoloInv, SoloPassInv, Judged, queueVars
  <2>5. \A m \in Memory : status[m] = "done" /\ m \notin Unrequested =>
            meta'[m] = meta[m] /\ about'[m] = about[m]
    BY <1>1, <2>1 DEF SoloInv, MarkInv
  <2>6. DoneVerdictIsCurrent' /\ DoneIsIndexed'
    BY <1>1, <1>2, <2>5 DEF SoloInv, DoneVerdictIsCurrent, DoneIsIndexed, queueVars
  <2>7. QED
    BY <2>3, <2>4, <2>6 DEF SoloInv
<1>6. QED
  BY <1>4, <1>5

LEMMA StoreKeepsSolo ==
    ASSUME OneServer, PipelineInv, SoloInv, NEW w \in Worker, StoreEmbedding(w)
    PROVE  SoloInv'
<1>1. /\ pc[w] = "store" /\ cur[w] \in Memory
      /\ UNCHANGED <<queueVars, content, meta, about, writerVars, batch, cur, read>>
  BY DEF StoreEmbedding, PipelineInv, CurInv, AtMemory
<1>2. Unrequested' = Unrequested /\ Held' = Held
  BY <1>1 DEF Unrequested, writerVars, Held, queueVars
<1>3. \A x \in Worker : x = w /\ pc'[x] = "done"
  BY DEF StoreEmbedding, Goto, OneServer, PipelineInv, TypeOK
<1>4. \A m \in Memory :
        emb'[m] = IF m = cur[w] /\ content[m] = read[w] THEN read[w] ELSE emb[m]
  BY <1>1 DEF StoreEmbedding, ContentMatches, PipelineInv, TypeOK
<1>5. BatchInv' /\ MarkInv'
  BY <1>1, <1>2, <1>3 DEF SoloInv, BatchInv, MarkInv, AtMemory
<1>6. SoloPassInv'
  BY <1>1, <1>2, <1>3, <1>4 DEF SoloInv, SoloPassInv, Judged, queueVars
<1>7. DoneVerdictIsCurrent' /\ DoneIsIndexed'
  BY <1>1, <1>2, <1>4 DEF SoloInv, DoneVerdictIsCurrent, DoneIsIndexed, queueVars
<1>8. QED
  BY <1>5, <1>6, <1>7 DEF SoloInv

LEMMA MarkKeepsSolo ==
    ASSUME OneServer, PipelineInv, SoloInv, NEW w \in Worker,
           MarkDone(w) \/ MarkCurationFailed(w)
    PROVE  SoloInv'
<1>1. /\ pc[w] \in {"done", "fail"} /\ cur[w] \in Memory
      /\ UNCHANGED <<memoryVars, writerVars, batch, cur, read>>
  BY DEF MarkDone, MarkCurationFailed, PipelineInv, CurInv, AtMemory
<1>2. \A x \in Worker : x = w /\ pc'[x] = "next"
  BY DEF MarkDone, MarkCurationFailed, Goto, OneServer, PipelineInv, TypeOK
<1>3. Unrequested' = Unrequested
  BY <1>1 DEF Unrequested, writerVars
<1>4. \A m \in Memory :
        \/ status'[m] = status[m]
        \/ /\ m = cur[w]
           /\ \/ status'[m] \in {"pending", "failed"}
              \/ status'[m] = "done" /\ pc[w] = "done" /\ status[m] = "processing"
  <2>1. CASE UNCHANGED queueVars
    BY <2>1 DEF queueVars
  <2>2. CASE pc[w] = "done" /\ SetCurationDoneLeased(cur[w], w)
    BY <1>1, <2>2 DEF SetCurationDoneLeased, HoldsRow, Held, DoneStatus, PipelineInv,
       TypeOK, QueueTypeOK
  <2>3. CASE SetCurationFailedLeased(cur[w], w)
    BY <1>1, <2>3 DEF SetCurationFailedLeased, FailedStatus, PipelineInv, TypeOK,
       QueueTypeOK
  <2>4. QED
    BY <2>1, <2>2, <2>3 DEF MarkDone, MarkCurationFailed
<1>5. \A m \in batch[w] : m \in Held /\ m # cur[w]
  BY <1>1 DEF SoloInv, BatchInv, AtMemory
<1>6. BatchInv'
  BY <1>1, <1>2, <1>4, <1>5 DEF BatchInv, AtMemory, Held, PipelineInv, TypeOK
<1>7. SoloPassInv' /\ MarkInv'
  BY <1>2 DEF SoloPassInv, MarkInv
<1>8. DoneVerdictIsCurrent' /\ DoneIsIndexed'
  BY <1>1, <1>3, <1>4 DEF SoloInv, SoloPassInv, DoneVerdictIsCurrent, DoneIsIndexed,
     Judged, memoryVars
<1>9. QED
  BY <1>6, <1>7, <1>8 DEF SoloInv

LEMMA ReclaimKeepsSolo ==
    ASSUME OneServer, PipelineInv, SoloInv, NEW w \in Worker, ReclaimExpired(w)
    PROVE  SoloInv'
<1>1. \A m \in Memory : status'[m] = status[m] \/ status'[m] = "pending"
  BY DEF ReclaimExpired, ReclaimExpiredCuration
<1>2. UNCHANGED <<memoryVars, writerVars>> /\ \A x \in Worker : pc'[x] = "idle"
  BY DEF ReclaimExpired, OneServer, workerVars
<1>3. Unrequested' = Unrequested
  BY <1>2 DEF Unrequested, writerVars
<1>4. BatchInv' /\ SoloPassInv' /\ MarkInv'
  BY <1>2 DEF BatchInv, SoloPassInv, MarkInv, AtMemory
<1>5. DoneVerdictIsCurrent' /\ DoneIsIndexed'
  BY <1>1, <1>2, <1>3 DEF SoloInv, DoneVerdictIsCurrent, DoneIsIndexed, memoryVars
<1>6. QED
  BY <1>4, <1>5 DEF SoloInv

LEMMA StepKeepsSolo ==
    ASSUME OneServer, PipelineInv, SoloInv, [Next]_vars
    PROVE  SoloInv'
<1>1. CASE \E p \in Writer : Upsert(p) \/ EnqueueAfterUpsert(p) \/ EnqueueLost(p)
  BY <1>1, UpsertKeepsSolo, WriterKeepsSolo
<1>2. CASE \E m \in Memory : SoftDeleteMemory(m) \/ TimePasses(m)
  BY <1>2, EnvironmentKeepsSolo
<1>3. ASSUME NEW w \in Worker, NEW m \in Memory, LoadMemory(w, m) \/ ReadCanonical(w, m)
      PROVE  SoloInv'
  BY <1>3, LoadKeepsSolo, CanonicalKeepsSolo
<1>4. ASSUME NEW w \in Worker, NEW v \in {"ok", "noise"}, JudgeMemory(w, v)
      PROVE  SoloInv'
  BY <1>4, JudgeKeepsSolo
<1>5. ASSUME NEW w \in Worker,
             \/ ClaimBatch(w) \/ EnqueueSwept(w) \/ StoreEmbedding(w)
             \/ MarkDone(w) \/ MarkCurationFailed(w) \/ ReclaimExpired(w)
      PROVE  SoloInv'
  BY <1>5, ClaimKeepsSolo, SweepKeepsSolo, StoreKeepsSolo, MarkKeepsSolo, ReclaimKeepsSolo
<1>6. ASSUME NEW w \in Worker,
             \/ SelectRecuration(w) \/ EndBatch(w) \/ EmbedOne(w)
             \/ ProcessFails(w) \/ MarkLost(w) \/ Crash(w)
      PROVE  SoloInv'
  BY <1>6, MoveKeepsSolo
<1>7. ASSUME NEW w \in Worker, MarkCanonical(w) \/ SkipCanonical(w)
      PROVE  SoloInv'
  BY <1>7, CanonicalKeepsSolo
<1>8. CASE UNCHANGED vars
  <2>1. UNCHANGED <<status, memoryVars, writerVars, workerVars>>
    BY <1>8 DEF vars, queueVars
  <2>2. Unrequested' = Unrequested
    BY <2>1 DEF Unrequested, writerVars
  <2>3. QED
    BY <2>1, <2>2 DEF SoloInv, BatchInv, SoloPassInv, MarkInv, DoneVerdictIsCurrent,
       DoneIsIndexed, Judged, Held, memoryVars, workerVars, canonVars
<1>9. QED
  BY <1>1, <1>2, <1>3, <1>4, <1>5, <1>6, <1>7, <1>8 DEF Next, WorkerStep

\* The inductive invariant of the pipeline of a single server process.
THEOREM SoloInvariant == ASSUME OneServer PROVE Spec => []SoloInv
<1>1. Init => SoloInv
  BY DEF Init, QueueInit, SoloInv, BatchInv, SoloPassInv, MarkInv, DoneVerdictIsCurrent,
         DoneIsIndexed, AtMemory
<1>2. PipelineInv /\ SoloInv /\ [Next]_vars => SoloInv'
  BY OneServer, StepKeepsSolo
<1>3. QED
  BY <1>1, <1>2, PipelineInvariant, PTL DEF Spec

\* With one server process, on either store, a row whose last commit reached the
\* queue is called done only with a verdict of the content it has: a metadata
\* column written back whole never leaves an old verdict in a row at rest.
THEOREM DoneVerdictAlwaysCurrent ==
    ASSUME OneServer PROVE Spec => []DoneVerdictIsCurrent
<1>1. SoloInv => DoneVerdictIsCurrent
  BY DEF SoloInv
<1>2. QED
  BY <1>1, SoloInvariant, OneServer, PTL

\* With one server process, a done row that was found fit for the index is in it,
\* with the content it has.
THEOREM DoneAlwaysIndexed ==
    ASSUME OneServer PROVE Spec => []DoneIsIndexed
<1>1. SoloInv => DoneIsIndexed
  BY DEF SoloInv
<1>2. QED
  BY <1>1, SoloInvariant, OneServer, PTL
=============================================================================
