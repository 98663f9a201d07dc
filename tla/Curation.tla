------------------------------ MODULE Curation ------------------------------
(***************************************************************************)
(* The curation pipeline: pushes commit memories and enqueue them in a     *)
(* second statement; workers claim batches from the queue, judge each      *)
(* memory, write the verdict into its metadata, index its embedding and    *)
(* complete the row.  Memories are edited and deleted under the workers,   *)
(* leases expire under slow workers, and processes die between any two     *)
(* statements.                                                             *)
(*                                                                         *)
(* A content stands for its hash as well: the server computes the hash, so *)
(* comparing hashes is comparing contents.  Which verdict a memory gets    *)
(* depends on its text and its peers; the model lets a pass find either.   *)
(***************************************************************************)
EXTENDS CurationQueue

CONSTANTS
    Writer,      \* requests in flight that push memories
    Content,     \* contents a memory can have
    MergesInPlace,  \* UpdateMemoryMetadata is one statement (Postgres), not two (SQLite)
    MaxEdits,    \* bound: pushes and deletions in a behaviour
    MaxFaults    \* bound: crashes, database errors and slow passes in a behaviour

ASSUME CurationAssumption ==
    /\ None \notin Memory \cup Content
    /\ MergesInPlace \in BOOLEAN
    /\ MaxEdits \in Nat
    /\ MaxFaults \in Nat

VARIABLES
    content,   \* content[m]: the row's content, None if there is no row
    live,      \* live[m]: the row exists and deleted_at IS NULL
    meta,      \* meta[m]: what the row's metadata says of curation
    about,     \* about[m]: history, the content the server's verdict in meta[m] judged
    emb,       \* emb[m]: the content the row's embedding was computed from
    unqueued,  \* unqueued[p]: rows p committed and has not enqueued yet
    lost,      \* history: rows committed whose enqueue never ran
    pc,        \* pc[w]: where worker w is
    batch,     \* batch[w]: ids w still has to process, or candidates of its sweep
    cur,       \* cur[w]: the memory w processes
    read,      \* read[w]: the content of cur[w] when w loaded it
    canon,     \* canon[w]: the canonical w marks, None if it marks none
    seen,      \* seen[w]: what meta and about of canon[w] were when w read them
    edits, faults

memoryVars == <<content, live, meta, about, emb>>
canonVars == <<canon, seen>>
workerVars == <<pc, batch, cur, read, canonVars>>
writerVars == <<unqueued, lost>>
vars == <<queueVars, memoryVars, writerVars, workerVars, edits, faults>>

\* "bare": no curation_version, or one below 2; "carried": a client pushed
\* metadata that already had curation_version 2; "ok" (stale and contradiction
\* candidates included) and "noise" (low signal or near duplicate): verdicts.
Meta == {"bare", "carried", "ok", "noise"}

\* "fail" and "done" wait for the completion of cur[w] to be written.
WorkerPC ==
    {"idle", "sweep", "next", "judge", "count", "mark", "embed", "store", "done", "fail"}

Seen == [meta : Meta, about : Content \cup {None}]
NothingSeen == [meta |-> "bare", about |-> None]

TypeOK ==
    /\ QueueTypeOK
    /\ content \in [Memory -> Content \cup {None}]
    /\ live \in [Memory -> BOOLEAN]
    /\ meta \in [Memory -> Meta]
    /\ about \in [Memory -> Content \cup {None}]
    /\ emb \in [Memory -> Content \cup {None}]
    /\ unqueued \in [Writer -> SUBSET Memory]
    /\ lost \in SUBSET Memory
    /\ pc \in [Worker -> WorkerPC]
    /\ batch \in [Worker -> SUBSET Memory]
    /\ cur \in [Worker -> Memory \cup {None}]
    /\ read \in [Worker -> Content \cup {None}]
    /\ canon \in [Worker -> Memory \cup {None}]
    /\ seen \in [Worker -> Seen]
    /\ edits \in 0..MaxEdits
    /\ faults \in 0..MaxFaults

Init ==
    /\ QueueInit
    /\ content = [m \in Memory |-> None]
    /\ live = [m \in Memory |-> FALSE]
    /\ meta = [m \in Memory |-> "bare"]
    /\ about = [m \in Memory |-> None]
    /\ emb = [m \in Memory |-> None]
    /\ unqueued = [p \in Writer |-> {}]
    /\ lost = {}
    /\ pc = [w \in Worker |-> "idle"]
    /\ batch = [w \in Worker |-> {}]
    /\ cur = [w \in Worker |-> None]
    /\ read = [w \in Worker |-> None]
    /\ canon = [w \in Worker |-> None]
    /\ seen = [w \in Worker |-> NothingSeen]
    /\ edits = 0
    /\ faults = 0

Rows == {m \in Memory : content[m] # None}

Edit == edits < MaxEdits /\ edits' = edits + 1
Fault == faults < MaxFaults /\ faults' = faults + 1

-----------------------------------------------------------------------------
(* Pushes and deletions.                                                   *)

\* What becomes of the embedding of m when c is written over it.
KeptAlways(m, c) == emb[m]

Kept(m, c) == IF content[m] = c THEN emb[m] ELSE None

\* One chunk of a batch upsert, committed in one transaction: S are its ids, W
\* those that win by updated_at (the others keep what the server has), c the new
\* contents and md what the pushed metadata says of curation, which replaces
\* the row's metadata.
UpsertMemories(p, S, W, c, md) ==
    /\ Edit
    /\ unqueued[p] = {}
    /\ S \ Rows \subseteq W
    /\ content' = [m \in Memory |-> IF m \in W THEN c[m] ELSE content[m]]
    /\ live' = [m \in Memory |-> m \in W \/ live[m]]
    /\ meta' = [m \in Memory |-> IF m \in W THEN md ELSE meta[m]]
    /\ about' = [m \in Memory |-> IF m \in W THEN None ELSE about[m]]
    /\ emb' = [m \in Memory |-> IF m \in W THEN Kept(m, c[m]) ELSE emb[m]]
    /\ unqueued' = [unqueued EXCEPT ![p] = S]
    /\ UNCHANGED <<queueVars, lost, workerVars, faults>>

\* The statement after the commit enqueues every id of the chunk.
EnqueueAfterUpsert(p) ==
    /\ EnqueueCuration(unqueued[p])
    /\ unqueued' = [unqueued EXCEPT ![p] = {}]
    /\ lost' = lost \ unqueued[p]
    /\ UNCHANGED <<memoryVars, workerVars, edits, faults>>

\* The statement fails, which is only logged, or the process dies before it.
EnqueueLost(p) ==
    /\ Fault
    /\ unqueued[p] # {}
    /\ unqueued' = [unqueued EXCEPT ![p] = {}]
    /\ lost' = lost \cup unqueued[p]
    /\ UNCHANGED <<queueVars, memoryVars, workerVars, edits>>

SoftDeleteMemory(m) ==
    /\ Edit
    /\ live[m]
    /\ live' = [live EXCEPT ![m] = FALSE]
    /\ UNCHANGED <<queueVars, content, meta, about, emb, writerVars, workerVars, faults>>

-----------------------------------------------------------------------------
(* Workers.                                                                *)

Goto(w, l) == pc' = [pc EXCEPT ![w] = l]

ClaimBatch(w) ==
    /\ pc[w] = "idle"
    /\ \E B \in SUBSET Memory :
          /\ ClaimCurationBatchLeased(w, B)
          /\ batch' = [batch EXCEPT ![w] = B]
    /\ Goto(w, "next")
    /\ UNCHANGED <<memoryVars, writerVars, cur, read, canonVars, edits, faults>>

NeedsRecuration == {m \in Memory : live[m] /\ meta[m] = "bare"}

\* Nothing was pending: select memories no worker has judged.  The empty claim
\* is read together with this select; the insert is a step of its own.
SelectRecuration(w) ==
    /\ pc[w] = "idle"
    /\ Pending = {}
    /\ \E C \in SUBSET Memory :
          /\ C # {}
          /\ IsBatch(C, NeedsRecuration)
          /\ batch' = [batch EXCEPT ![w] = C]
    /\ Goto(w, "sweep")
    /\ UNCHANGED <<queueVars, memoryVars, writerVars, cur, read, canonVars, edits, faults>>

EnqueueSwept(w) ==
    /\ pc[w] = "sweep"
    /\ EnqueueRecuration(batch[w])
    /\ batch' = [batch EXCEPT ![w] = {}]
    /\ lost' = lost \ batch[w]
    /\ Goto(w, "idle")
    /\ UNCHANGED <<memoryVars, unqueued, cur, read, canonVars, edits, faults>>

\* The worker goes on with every id of its batch, whether or not it still
\* holds the row.
LoadMemory(w, m) ==
    /\ pc[w] = "next"
    /\ m \in batch[w]
    /\ batch' = [batch EXCEPT ![w] = @ \ {m}]
    /\ cur' = [cur EXCEPT ![w] = m]
    /\ read' = [read EXCEPT ![w] = content[m]]
    /\ Goto(w, "judge")
    /\ UNCHANGED <<queueVars, memoryVars, writerVars, canonVars, edits, faults>>

EndBatch(w) ==
    /\ pc[w] = "next"
    /\ batch[w] = {}
    /\ cur' = [cur EXCEPT ![w] = None]
    /\ read' = [read EXCEPT ![w] = None]
    /\ Goto(w, "idle")
    /\ UNCHANGED <<queueVars, memoryVars, writerVars, batch, canonVars, edits, faults>>

\* The condition of both conditional updates.
MatchesAlways(w) == TRUE

ContentMatches(w) == content[cur[w]] = read[w]

\* Merge the verdict into the metadata if the content is still the one read;
\* otherwise leave the memory to the pass its edit asked for.
JudgeMemory(w, verdict) ==
    /\ pc[w] = "judge"
    /\ \/ /\ ContentMatches(w)
          /\ meta' = [meta EXCEPT ![cur[w]] = verdict]
          /\ about' = [about EXCEPT ![cur[w]] = read[w]]
          /\ Goto(w, IF verdict = "ok" THEN "embed" ELSE "count")
       \/ /\ ~ContentMatches(w)
          /\ Goto(w, "done")
          /\ UNCHANGED <<meta, about>>
    /\ UNCHANGED <<queueVars, content, live, emb>>
    /\ UNCHANGED <<writerVars, batch, cur, read, canonVars, edits, faults>>

ForgetCanonical(w) ==
    /\ canon' = [canon EXCEPT ![w] = None]
    /\ seen' = [seen EXCEPT ![w] = NothingSeen]

\* A near duplicate that makes a large enough cluster marks the cluster's
\* canonical, a peer loaded when the batch began.  The cluster's other members,
\* and so its size, are left out.
ReadCanonical(w, k) ==
    /\ pc[w] = "count"
    /\ k \in Rows \ {cur[w]}
    /\ canon' = [canon EXCEPT ![w] = k]
    /\ seen' = [seen EXCEPT ![w] = [meta |-> meta[k], about |-> about[k]]]
    /\ Goto(w, "mark")
    /\ UNCHANGED <<queueVars, memoryVars, writerVars, batch, cur, read, edits, faults>>

\* UpdateMemoryMetadata adds its keys to what metadata it read.  On Postgres the
\* read and the write are one statement; on SQLite the whole column is written
\* back, whatever it has become since.
MarkCanonical(w) ==
    /\ pc[w] = "mark"
    /\ IF MergesInPlace
         THEN UNCHANGED <<meta, about>>
         ELSE /\ meta' = [meta EXCEPT ![canon[w]] = seen[w].meta]
              /\ about' = [about EXCEPT ![canon[w]] = seen[w].about]
    /\ ForgetCanonical(w)
    /\ Goto(w, "done")
    /\ UNCHANGED <<queueVars, content, live, emb, writerVars, batch, cur, read, edits, faults>>

\* Low signal, a small cluster, or an error of the count or the write.
SkipCanonical(w) ==
    /\ pc[w] \in {"count", "mark"}
    /\ ForgetCanonical(w)
    /\ Goto(w, "done")
    /\ UNCHANGED <<queueVars, memoryVars, writerVars, batch, cur, read, edits, faults>>

\* An embedder's error is returned, and so charged to the row.
AfterEmbedErrorGoesOn == "done"

AfterEmbedError == "fail"

\* The embedder answers, or fails as often as it likes.
EmbedOne(w) ==
    /\ pc[w] = "embed"
    /\ Goto(w, "store") \/ Goto(w, AfterEmbedError)
    /\ UNCHANGED <<queueVars, memoryVars, writerVars, batch, cur, read, canonVars, edits, faults>>

StoreEmbedding(w) ==
    /\ pc[w] = "store"
    /\ emb' = IF ContentMatches(w) THEN [emb EXCEPT ![cur[w]] = read[w]] ELSE emb
    /\ Goto(w, "done")
    /\ UNCHANGED <<queueVars, content, live, meta, about>>
    /\ UNCHANGED <<writerVars, batch, cur, read, canonVars, edits, faults>>

\* A database error, or a panic that processOneSafe turns into an error.
ProcessFails(w) ==
    /\ Fault
    /\ pc[w] \in {"judge", "count", "mark", "store"}
    /\ ForgetCanonical(w)
    /\ Goto(w, "fail")
    /\ UNCHANGED <<queueVars, memoryVars, writerVars, batch, cur, read, edits>>

MarkDone(w) ==
    /\ pc[w] = "done"
    /\ \/ SetCurationDoneLeased(cur[w], w)
       \/ ~HoldsRow(cur[w], w) /\ UNCHANGED queueVars
    /\ Goto(w, "next")
    /\ UNCHANGED <<memoryVars, writerVars, batch, cur, read, canonVars, edits, faults>>

MarkCurationFailed(w) ==
    /\ pc[w] = "fail"
    /\ \/ SetCurationFailedLeased(cur[w], w)
       \/ ~HoldsRow(cur[w], w) /\ UNCHANGED queueVars
    /\ Goto(w, "next")
    /\ UNCHANGED <<memoryVars, writerVars, batch, cur, read, canonVars, edits, faults>>

\* The completion itself fails: it is logged and the row stays held.
MarkLost(w) ==
    /\ Fault
    /\ pc[w] \in {"done", "fail"}
    /\ Goto(w, "next")
    /\ UNCHANGED <<queueVars, memoryVars, writerVars, batch, cur, read, canonVars, edits>>

\* On the worker's own goroutine, so never in the middle of its batch.
ReclaimExpired(w) ==
    /\ pc[w] = "idle"
    /\ ReclaimExpiredCuration
    /\ UNCHANGED <<memoryVars, writerVars, workerVars, edits, faults>>

\* The process dies and is started again.  The new one has a new owner id; it
\* can go by the old one's name here, because it completes only rows it claims
\* and a claim overwrites the owner.
Crash(w) ==
    /\ Fault
    /\ pc[w] # "idle"
    /\ Goto(w, "idle")
    /\ batch' = [batch EXCEPT ![w] = {}]
    /\ cur' = [cur EXCEPT ![w] = None]
    /\ read' = [read EXCEPT ![w] = None]
    /\ ForgetCanonical(w)
    /\ UNCHANGED <<queueVars, memoryVars, writerVars, edits>>

\* The worker that claimed m has yet to complete it.
AtWork(m) ==
    \E w \in Worker :
        /\ owner[m] = w
        /\ \/ pc[w] # "sweep" /\ m \in batch[w]
           \/ pc[w] # "next" /\ cur[w] = m

\* A lease that runs out under a worker still at work on the row is a fault
\* like any other: the pass was slower than the lease.
TimePasses(m) ==
    /\ LeaseExpires(m)
    /\ IF AtWork(m) THEN Fault ELSE UNCHANGED faults
    /\ UNCHANGED <<memoryVars, writerVars, workerVars, edits>>

-----------------------------------------------------------------------------
WorkerStep(w) ==
    \/ ClaimBatch(w) \/ SelectRecuration(w) \/ EnqueueSwept(w)
    \/ EndBatch(w) \/ EmbedOne(w) \/ StoreEmbedding(w)
    \/ MarkDone(w) \/ MarkCurationFailed(w)
    \/ MarkCanonical(w) \/ SkipCanonical(w)
    \/ \E m \in Memory : LoadMemory(w, m) \/ ReadCanonical(w, m)
    \/ \E v \in {"ok", "noise"} : JudgeMemory(w, v)

Upsert(p) ==
    \E S \in SUBSET Memory \ {{}} : \E W \in SUBSET S :
        \E c \in [W -> Content], md \in {"bare", "carried"} :
            UpsertMemories(p, S, W, c, md)

Next ==
    \/ \E p \in Writer : Upsert(p) \/ EnqueueAfterUpsert(p) \/ EnqueueLost(p)
    \/ \E m \in Memory : SoftDeleteMemory(m) \/ TimePasses(m)
    \/ \E w \in Worker :
          \/ WorkerStep(w) \/ ReclaimExpired(w)
          \/ ProcessFails(w) \/ MarkLost(w) \/ Crash(w)

Spec == Init /\ [][Next]_vars

\* The ticker drives every worker, a request runs to its end, leases run out.
\* A reclaim tick waits in its channel until the loop's select takes it, so a
\* worker that keeps coming back to the loop takes it: strong fairness.
Fairness ==
    /\ \A w \in Worker : WF_vars(WorkerStep(w)) /\ SF_vars(ReclaimExpired(w))
    /\ \A p \in Writer : WF_vars(EnqueueAfterUpsert(p))
    /\ \A m \in Memory : WF_vars(TimePasses(m))

FairSpec == Spec /\ Fairness

-----------------------------------------------------------------------------
\* Rows whose last commit may not have reached the queue.
Unrequested == lost \cup UNION {unqueued[p] : p \in Writer}

\* The server's verdict in a row is about the content the row has, however
\* long the worker that wrote it was stalled and whoever edited the row since.
\* It holds where MergesInPlace; the interface that guards the verdict says that
\* it "prevents curation derived from an older content revision from being
\* merged into a memory after that memory was rewritten".
VerdictIsCurrent ==
    \A m \in Memory : meta[m] \in {"ok", "noise"} => about[m] = content[m]

\* An embedding is of the content the row has: a search never ranks a memory
\* by a text it no longer contains.
EmbeddingIsCurrent ==
    \A m \in Memory : emb[m] # None => emb[m] = content[m]

\* A row the queue calls done carries a verdict of this server, unless its last
\* commit never reached the queue: no edit slips between a worker's read, its
\* conditional update and its completion.
DoneIsJudged ==
    \A m \in Memory :
        status[m] = "done" /\ m \notin Unrequested => meta[m] \in {"ok", "noise"}

\* With one worker process a done row's verdict is about its content on SQLite
\* too: a mark that restores an old verdict leaves the row to be judged again.
DoneVerdictIsCurrent ==
    \A m \in Memory :
        status[m] = "done" /\ m \notin Unrequested =>
            meta[m] \in {"ok", "noise"} /\ about[m] = content[m]

\* With one worker process, a done row judged fit for the index is in the index.
DoneIsIndexed ==
    \A m \in Memory :
        status[m] = "done" /\ m \notin Unrequested /\ meta[m] = "ok" => emb[m] = content[m]

\* A row a worker holds is let go only by that worker, as it completes the row,
\* or once its lease has run out.
ClaimNotStolen ==
    [][\A m \in Memory :
          owner[m] # None /\ owner'[m] # owner[m] =>
              \/ lease[m] = "expired"
              \/ cur[owner[m]] = m /\ pc[owner[m]] \in {"done", "fail"}]_vars

\* When edits and faults stop, the queue drains, and every live memory without
\* a verdict that no client vouched for has been given up by the queue: rows of
\* dead workers are reclaimed and lost enqueues are swept up.
Settled ==
    /\ Pending = {} /\ Held = {}
    /\ \A m \in Memory : live[m] /\ meta[m] = "bare" => status[m] = "failed"

EventuallySettles == <>[]Settled
=============================================================================
