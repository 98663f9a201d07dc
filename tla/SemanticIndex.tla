--------------------------- MODULE SemanticIndex ----------------------------
(***************************************************************************)
(* The vectors of a project's memories, and the searches that compare them.*)
(*                                                                         *)
(* A vector means something only beside vectors of its own space: of the   *)
(* same provider, model and revision.  A server that starts with another   *)
(* configuration embeds what is not in its space again, in the background, *)
(* while its curation worker embeds what is pushed and searches come in;   *)
(* servers of different spaces may run on one database.  A search is       *)
(* refused while a memory it might return is outside of the space of its   *)
(* server.  The queue and the worker are those of CurationQueue and        *)
(* Curation, abstracted to: a memory that is due is taken under a lease,   *)
(* judged and embedded, and given up when that failed often enough.        *)
(***************************************************************************)
EXTENDS Naturals, FiniteSets

CONSTANTS
    Memory,    \* memory ids, in their order: 1 .. n
    Legacy,    \* the memories embedded before there were spaces
    Text,
    Server,    \* server processes
    Configured, \* Configured[s]: the embedder configurations s may start with
    Onnx,      \* whether the server is built with the onnx provider
    Width,     \* the width of the store's vector column, 0 if any
    Metadata,  \* what pushes say: hidden, noise and judged, see Row
    None,
    PageSize,  \* how many memories a reindex reads at a time
    MaxAttempts, \* failures at which a memory is given up (5 in the code)
    MaxPushes, MaxStarts, MaxFaults  \* bounds

ASSUME SemanticIndexAssumption ==
    /\ Memory \subseteq Nat \ {0} /\ IsFiniteSet(Memory)
    /\ Legacy \subseteq Memory
    /\ \A s \in Server : Configured[s] \subseteq
            [provider : STRING, url : STRING, model : STRING, dims : Nat, key : BOOLEAN]
    /\ Text # {} /\ Width \in Nat
    /\ Metadata \subseteq [hidden : BOOLEAN, noise : BOOLEAN, judged : BOOLEAN]
    /\ PageSize \in Nat \ {0} /\ MaxAttempts \in Nat \ {0}
    /\ MaxPushes \in Nat /\ MaxStarts \in Nat /\ MaxFaults \in Nat

\* embeddings.New and SemanticSpace: the space of an embedder, None without one.
New(c) ==
    CASE c.provider = "local" ->
           [provider |-> "local", model |-> "local-hash-v1", revision |-> "fnv1a",
            dims |-> IF c.dims = 0 THEN 384 ELSE c.dims]
      [] c.provider = "onnx" /\ Onnx ->
           [provider |-> "onnx", model |-> "minilm", revision |-> "pinned", dims |-> 384]
      [] c.provider = "openai" /\ c.model # "" /\ c.dims > 0 /\ c.key ->
           [provider |-> c.url, model |-> c.model, revision |-> "", dims |-> c.dims]
      [] OTHER -> None

\* ValidateEmbeddingDimensions
Fits(space) == space # None /\ Width \in {0, space.dims}

Space == {space \in {New(c) : c \in UNION {Configured[s] : s \in Server}} : Fits(space)}

\* space: None where semantic_space_id is NULL, as in rows from before it.
Vector == [text : Text, space : Space \cup {None}]

\* noise: curation_status is low_signal or near_duplicate.
\* hidden: by the quality filter of the searches.
\* judged: curation_version is 2, a worker's mark that a client may push back.
Row == [live : BOOLEAN, text : Text, hidden : BOOLEAN, noise : BOOLEAN,
        judged : BOOLEAN, vec : Vector \cup {None}]

Item == [id : Memory, text : Text]

\* leased: the worker still has the lease of the memory's row in the queue.
\* judged: its verdict is stored.
Task == [id : Memory, text : Text, leased : BOOLEAN, judged : BOOLEAN]

Hit == [id : Memory, vec : Vector]

ASSUME NoneIsNoValue == None \notin Vector \cup Row \cup Task

VARIABLES
    row,      \* row[m], None before the first push
    due,      \* the memories whose curation is requested
    attempts, \* attempts[m]: the failures charged since m was last enqueued
    server,   \* server[s]: up, and its embedder's space, None without one
    reindex,  \* reindex[s]: on, the cursor, and what is left of the page read
    worker,   \* worker[s]: the memory that its worker judges or embeds, or None
    query,    \* the space of a search that found the index ready, or None
    ranked,   \* the vectors that the search compared, None before
    seen,     \* history: what the search still has to find and return
    left,     \* history: left[s]: memories that s has no cause to embed again
    pushes, starts, faults

queueVars == <<due, attempts>>
searchVars == <<query, ranked, seen>>

vars == <<row, queueVars, server, reindex, worker, searchVars, left,
          pushes, starts, faults>>

Rows == {m \in Memory : row[m] # None}

NotReindexing == [on |-> FALSE, cursor |-> 0, page |-> {}]

TypeOK ==
    /\ row \in [Memory -> Row \cup {None}]
    /\ due \subseteq Rows /\ attempts \in [Memory -> 0 .. MaxAttempts]
    /\ server \in [Server -> [up : BOOLEAN, space : Space \cup {None}]]
    /\ \A s \in Server :
         /\ reindex[s] \in [on : BOOLEAN, cursor : Memory \cup {0}, page : SUBSET Item]
         /\ \A i \in reindex[s].page : i.id > reindex[s].cursor
         /\ worker[s] \in Task \cup {None}
         /\ left[s] \subseteq Memory
    /\ query \in Space \cup {None} /\ seen \subseteq Rows
    /\ ranked # None => ranked \subseteq Hit

\* A database from before spaces, judged, and some of it embedded.
Init ==
    /\ LET t == CHOOSE t \in Text : TRUE IN
         row = [m \in Memory |->
            [live |-> TRUE, text |-> t, hidden |-> FALSE, noise |-> FALSE,
             judged |-> TRUE,
             vec |-> IF m \in Legacy THEN [text |-> t, space |-> None] ELSE None]]
    /\ due = {} /\ attempts = [m \in Memory |-> 0]
    /\ server = [s \in Server |-> [up |-> FALSE, space |-> None]]
    /\ reindex = [s \in Server |-> NotReindexing]
    /\ worker = [s \in Server |-> None]
    /\ query = None /\ ranked = None /\ seen = {}
    /\ left = [s \in Server |-> {}]
    /\ pushes = 0 /\ starts = 0 /\ faults = 0

-----------------------------------------------------------------------------
(* The store.                                                              *)

\* MemoriesStaleInCompleteSemanticSpace; a space is known by all of it.
StaleRow(r, space) ==
    /\ r # None /\ r.live
    /\ IF r.vec = None THEN ~r.noise ELSE r.vec.space # space

Stale(m, space) == StaleRow(row[m], space)

Visible(m) == row[m] # None /\ row[m].live /\ ~row[m].hidden

ProjectHasStale(space) == \E m \in Memory : Visible(m) /\ Stale(m, space)

\* The memories in S, up to n, that come first.
First(S, n) == {m \in S : Cardinality({k \in S : k < m}) < n}

\* (The fault reads from the cursor on instead of after it.)
PageFromCursor(space, cursor) ==
    {[id |-> m, text |-> row[m].text] :
        m \in First({k \in Memory : k >= cursor /\ Stale(k, space)}, PageSize)}

\* The next page of stale memories after the cursor.
Page(space, cursor) ==
    {[id |-> m, text |-> row[m].text] :
        m \in First({k \in Memory : k > cursor /\ Stale(k, space)}, PageSize)}

\* (The fault stores the vector whatever the content is now.)
EmbeddedAnyway(i, space) ==
    [row EXCEPT ![i.id].vec = [text |-> i.text, space |-> space]]

\* UpdateMemoryEmbeddingInSpaceIfContent: nothing if the content has changed.
Embedded(i, space) ==
    IF row[i.id].text = i.text
    THEN [row EXCEPT ![i.id].vec = [text |-> i.text, space |-> space]]
    ELSE row

\* The ids and vectors that a search in this space compares.
Compared(space) ==
    {[id |-> m, vec |-> row[m].vec] :
        m \in {k \in Memory : /\ Visible(k)
                            /\ row[k].vec # None /\ row[k].vec.space = space}}

\* An upsert; a vector stays with the text it was made of.
Upserted(m, t, d) ==
    [row EXCEPT ![m] =
        [live |-> TRUE, text |-> t, hidden |-> d.hidden, noise |-> d.noise,
         judged |-> d.judged,
         vec |-> IF row[m] # None /\ row[m].text = t THEN row[m].vec ELSE None]]

\* History: outside of the space, and no sweep of the queue will take it.
LeftOut(r, space) == space # None /\ StaleRow(r, space) /\ r.judged

\* History: a server whose space m's row r is left out of, now that the row was
\* dealt with, has no cause to embed it until it starts again, unless m is due.
LeftBy(m, r) ==
    [s \in Server |->
        IF m \in due THEN left[s]
        ELSE IF LeftOut(r, server[s].space) THEN left[s] \cup {m}
        ELSE left[s] \ {m}]

\* History: before it ranks, a search misses what was embedded in another space.
SeenBut(m, space) == IF space = query \/ ranked # None THEN seen ELSE seen \ {m}

Fault == faults < MaxFaults /\ faults' = faults + 1

-----------------------------------------------------------------------------
(* The queue.                                                              *)

Held == {worker[s].id : s \in {p \in Server : worker[p] # None /\ worker[p].leased}}

Enqueue(S) ==
    /\ due' = due \cup S
    /\ attempts' = [m \in Memory |-> IF m \in S THEN 0 ELSE attempts[m]]
    /\ left' = [s \in Server |-> left[s] \ S]

\* A failure to judge or to embed m: due again, or given up.
Charge(m) ==
    /\ attempts' = [attempts EXCEPT ![m] = @ + 1]
    /\ IF attempts[m] + 1 >= MaxAttempts
       THEN left' = LeftBy(m, row[m]) /\ UNCHANGED due
       ELSE due' = due \cup {m} /\ UNCHANGED left

-----------------------------------------------------------------------------
(* The clients.                                                            *)

\* The memory is enqueued by a statement after the commit of the push, which may
\* fail: that is only logged.
Push(m) ==
    /\ pushes < MaxPushes
    /\ pushes' = pushes + 1
    /\ \E t \in Text, d \in Metadata :
         /\ row' = Upserted(m, t, d)
         /\ seen' = IF row[m] = None \/ row[m].text # t \/ d.hidden
                    THEN seen \ {m} ELSE seen
    /\ \/ Enqueue({m}) /\ UNCHANGED faults
       \/ Fault /\ left' = LeftBy(m, row'[m]) /\ UNCHANGED queueVars
    /\ UNCHANGED <<server, reindex, worker, query, ranked, starts>>

Delete(m) ==
    /\ pushes < MaxPushes
    /\ row[m] # None /\ row[m].live
    /\ pushes' = pushes + 1
    /\ row' = [row EXCEPT ![m].live = FALSE]
    /\ seen' = seen \ {m}
    /\ UNCHANGED <<queueVars, server, reindex, worker, query, ranked,
                    left, starts, faults>>

\* GET /v1/memories/search in semantic mode, or a chat: the readiness check,
Check(s) ==
    /\ server[s].up /\ server[s].space # None
    /\ query = None
    /\ ~ProjectHasStale(server[s].space)
    /\ query' = server[s].space
    /\ seen' = {m \in Memory : Visible(m) /\ (row[m].vec # None \/ ~row[m].noise)}
    /\ UNCHANGED <<row, queueVars, server, reindex, worker, ranked,
                    left, pushes, starts, faults>>

\* and, once the query is embedded, the read of the vectors that it is compared
\* with;
Rank ==
    /\ query # None /\ ranked = None
    /\ ranked' = Compared(query)
    /\ seen' = {h.id : h \in ranked'}
    /\ UNCHANGED <<row, queueVars, server, reindex, worker, query,
                    left, pushes, starts, faults>>

EndSearch ==
    /\ query' = None /\ ranked' = None /\ seen' = {}
    /\ UNCHANGED <<row, queueVars, server, reindex, worker,
                    left, pushes, starts, faults>>

\* then, by their ids alone, of the rows to return, as they are now.  (Postgres
\* ranks and fetches in one statement.)
Fetch == ranked # None /\ EndSearch

\* The query cannot be embedded or the vectors cannot be read.
Abandon == query # None /\ ranked = None /\ EndSearch

-----------------------------------------------------------------------------
(* The servers.                                                            *)

\* (The fault looks for memories without a vector only.)
StartIfMissing(s, config) ==
    LET space == IF Fits(New(config)) THEN New(config) ELSE None IN
    /\ ~server[s].up /\ starts < MaxStarts
    /\ starts' = starts + 1
    /\ server' = [server EXCEPT ![s] = [up |-> TRUE, space |-> space]]
    /\ reindex' = [reindex EXCEPT ![s].on =
                      space # None /\ \E m \in Memory : Stale(m, space) /\ row[m].vec = None]
    /\ UNCHANGED <<row, queueVars, worker, searchVars,
                    left, pushes, faults>>

\* With an embedder that cannot be built, or does not fit the store, the server
\* goes on without.  Otherwise it looks for one stale memory, and reindexes if
\* there is one; a look that fails is logged.
Start(s, config) ==
    LET space == IF Fits(New(config)) THEN New(config) ELSE None IN
    /\ ~server[s].up /\ starts < MaxStarts
    /\ starts' = starts + 1
    /\ server' = [server EXCEPT ![s] = [up |-> TRUE, space |-> space]]
    /\ \/ /\ reindex' = [reindex EXCEPT ![s].on =
                            space # None /\ \E m \in Memory : Stale(m, space)]
          /\ UNCHANGED <<left, faults>>
       \/ /\ Fault
          /\ space # None
          /\ left' = [left EXCEPT ![s] = {m \in Memory : LeftOut(row[m], space)}]
          /\ UNCHANGED reindex
    /\ UNCHANGED <<row, queueVars, worker, searchVars, pushes>>

\* A shutdown or a crash; the lease of what the worker held runs out.
Stop(s) ==
    /\ server[s].up
    /\ server' = [server EXCEPT ![s] = [up |-> FALSE, space |-> None]]
    /\ reindex' = [reindex EXCEPT ![s] = NotReindexing]
    /\ worker' = [worker EXCEPT ![s] = None]
    /\ due' = IF worker[s] # None /\ worker[s].leased
              THEN due \cup {worker[s].id} ELSE due
    /\ left' = [left EXCEPT ![s] = {}]
    /\ UNCHANGED <<row, attempts, searchVars, pushes, starts, faults>>

\* A page that cannot be read ends the reindex.
ReindexPage(s) ==
    LET page == Page(server[s].space, reindex[s].cursor) IN
    /\ reindex[s].on /\ reindex[s].page = {}
    /\ \/ /\ reindex' = [reindex EXCEPT ![s] =
                            IF page = {} THEN NotReindexing ELSE [@ EXCEPT !.page = page]]
          /\ UNCHANGED <<left, faults>>
       \/ /\ Fault
          /\ reindex' = [reindex EXCEPT ![s] = NotReindexing]
          /\ left' = [left EXCEPT ![s] = @ \cup
                {m \in Memory : /\ m > reindex[s].cursor
                              /\ LeftOut(row[m], server[s].space)}]
    /\ UNCHANGED <<row, queueVars, server, worker, searchVars,
                    pushes, starts>>

\* A vector, and history of it: nothing else comes of it if the content changed.
StoreEmbedding(i, space) ==
    /\ row' = Embedded(i, space)
    /\ IF row[i.id].text = i.text
       THEN left' = LeftBy(i.id, row'[i.id]) /\ seen' = SeenBut(i.id, space)
       ELSE UNCHANGED <<left, seen>>

\* The cursor moves on whether or not the memory could be embedded.
ReindexOne(s) ==
    LET i == CHOOSE i \in reindex[s].page : \A j \in reindex[s].page : i.id <= j.id IN
    /\ reindex[s].page # {}
    /\ reindex' = [reindex EXCEPT ![s].cursor = i.id, ![s].page = @ \ {i}]
    /\ \/ StoreEmbedding(i, server[s].space) /\ UNCHANGED faults
       \/ /\ Fault
          /\ left' = IF LeftOut(row[i.id], server[s].space)
                     THEN [left EXCEPT ![s] = @ \cup {i.id}] ELSE left
          /\ UNCHANGED <<row, seen>>
    /\ UNCHANGED <<queueVars, server, worker, query, ranked,
                    pushes, starts>>

\* The worker leases a memory that is due, and reads it;
Take(s, m) ==
    /\ server[s].up /\ worker[s] = None
    /\ m \in due \ Held
    /\ due' = due \ {m}
    /\ worker' = [worker EXCEPT ![s] =
                      [id |-> m, text |-> row[m].text, leased |-> TRUE, judged |-> FALSE]]
    /\ UNCHANGED <<row, attempts, server, reindex, searchVars,
                    left, pushes, starts, faults>>

\* it stores a verdict, unless the content has changed, and is done with noise, or
\* without an embedder;
Judge(s) ==
    LET i == worker[s]
        embeds(n) == ~n /\ server[s].space # None
    IN
    /\ i # None /\ ~i.judged
    /\ IF row[i.id].text = i.text
       THEN \E n \in BOOLEAN :
              /\ row' = [row EXCEPT ![i.id].noise = n, ![i.id].judged = TRUE]
              /\ worker' = [worker EXCEPT ![s] =
                               IF embeds(n) THEN [i EXCEPT !.judged = TRUE] ELSE None]
              /\ left' = IF embeds(n) /\ i.leased THEN left ELSE LeftBy(i.id, row'[i.id])
       ELSE worker' = [worker EXCEPT ![s] = None] /\ UNCHANGED <<row, left>>
    /\ UNCHANGED <<queueVars, server, reindex, searchVars,
                    pushes, starts, faults>>

\* and it embeds the rest.
Embed(s) ==
    /\ worker[s] # None /\ worker[s].judged
    /\ worker' = [worker EXCEPT ![s] = None]
    /\ StoreEmbedding(worker[s], server[s].space)
    /\ UNCHANGED <<queueVars, server, reindex, query, ranked,
                    pushes, starts, faults>>

\* The worker fails on the memory.  It is charged if the worker has the lease and
\* the memory was not enqueued again meanwhile.
Fail(s) ==
    LET i == worker[s] IN
    /\ i # None
    /\ Fault
    /\ worker' = [worker EXCEPT ![s] = None]
    /\ IF i.leased /\ i.id \notin due THEN Charge(i.id)
       ELSE UNCHANGED <<queueVars, left>>
    /\ UNCHANGED <<row, server, reindex, searchVars, pushes, starts>>

\* The lease of what the worker is at runs out, or its completion cannot
\* be stored; nothing else is charged then.
LoseLease(s) ==
    /\ worker[s] # None /\ worker[s].leased
    /\ Fault
    /\ worker' = [worker EXCEPT ![s].leased = FALSE]
    /\ due' = due \cup {worker[s].id}
    /\ UNCHANGED <<row, attempts, server, reindex, searchVars,
                    left, pushes, starts>>

\* EnqueueRecuration, by a worker that finds nothing to take: some of what no
\* worker has judged.
Sweep(s) ==
    /\ server[s].up /\ worker[s] = None
    /\ due \subseteq Held
    /\ \E S \in SUBSET {m \in Rows : row[m].live /\ ~row[m].judged} :
          S # {} /\ Enqueue(S)
    /\ UNCHANGED <<row, server, reindex, worker, searchVars,
                    pushes, starts, faults>>

Work(s) ==
    \/ \E m \in Memory : Take(s, m)
    \/ Judge(s) \/ Embed(s) \/ Fail(s) \/ LoseLease(s) \/ Sweep(s)

Reindex(s) == ReindexPage(s) \/ ReindexOne(s)

Next ==
    \/ \E m \in Memory : Push(m) \/ Delete(m)
    \/ \E s \in Server : Check(s) \/ Stop(s) \/ Reindex(s) \/ Work(s)
    \/ \E s \in Server : \E config \in Configured[s] : Start(s, config)
    \/ Rank \/ Fetch \/ Abandon

Spec == Init /\ [][Next]_vars

-----------------------------------------------------------------------------
(* Properties.                                                             *)

\* A search compares its query with vectors of its own space only, and leaves out
\* no memory that it could have found when it was found ready, unless that was
\* rewritten, hidden or deleted since, or embedded by a server of another space.
\* What it returns is the row the compared vector was made of; one that was
\* rewritten, hidden or deleted after the vectors were read is returned as it then
\* is, in the place of its former text.
AnswersAreWhole ==
    [][/\ Rank => \A m \in seen : \E h \in ranked' : h.id = m
       /\ Fetch => \A h \in ranked :
            /\ h.vec.space = query
            /\ h.id \in seen => Visible(h.id) /\ row[h.id].text = h.vec.text]_vars

\* The memories that the reindex of s still comes by.
Ahead(s) ==
    LET page == {i.id : i \in reindex[s].page} IN
    {m \in Memory : reindex[s].on /\ m > reindex[s].cursor
                      /\ (m \in page \/ \A k \in page : k < m)}

\* The memories of which a worker with a lease is at the text they have now.
UnderWay ==
    {worker[s].id : s \in {p \in Server :
        /\ worker[p] # None /\ worker[p].leased
        /\ row[worker[p].id].text = worker[p].text}}

\* No memory is forgotten outside of a server's space, where its project's
\* searches are refused: its curation is due, or under way with the text it has
\* now; no worker has judged it, so that a sweep of the queue will take it; the
\* server's reindex comes by it; or the server has no cause to embed it before it
\* starts again.  That is so where the server's look for stale memories, its
\* reindex's read of a page or its embedding of the memory failed; where a worker
\* failed on the memory until it was given up; where the enqueue after its push
\* failed and it came with a verdict; where another server embedded it in a space
\* of its own or judged it without an embedder; where it was judged by a worker
\* that had lost its lease; and where it was taken for noise while it had a vector
\* of another space (runReindexWith: "backfills the whole
\* corpus into a single consistent vector space").
NoneForgotten ==
    \A s \in Server :
        server[s].up /\ server[s].space # None =>
            \A m \in Memory : Stale(m, server[s].space) =>
                m \in due \cup UnderWay \cup Ahead(s) \cup left[s] \/ ~row[m].judged
=============================================================================
