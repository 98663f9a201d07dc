# Anchored OSS: a TLA+ model of the server

Anchored OSS is a server for team memories: local clients push the memories they
keep, pull those of their team, and search them; a background worker curates
what was pushed and indexes it. This directory models the server's own protocols
in TLA+, checks them with TLC on small instances, and proves the central
invariants with TLAPS for every value of the constants.

Paths below are relative to the repository. Where the code has one
implementation for Postgres and one for SQLite, the model follows SQLite
(`internal/store/sqlite_*.go`) and says where the two differ.

## 1. Inventory

| Component | State | Operations | What is hard | What makes it correct |
|---|---|---|---|---|
| Curation queue (`store/sqlite_curation.go`, `sqlite_curation_lease.go`, `curation_lease_pg.go`) | table `curation_queue`: status, attempts, owner, lease | enqueue, sweep, claim, done, failed, reclaim | requests that arrive while a row is processed; leases that run out under a live worker; charging attempts to the right edit | no request is lost; a lease exists exactly while a row is held; only the holder, or the end of its lease, lets a row go; a row is given up exactly after its attempts |
| Curation worker (`curation/worker.go`) | one loop per server process; a batch in hand | reclaim, claim, sweep, judge, mark canonical, embed, complete, fail | content rewritten between reading it and storing what was computed of it; crashes; an embedder that fails; enqueues that are lost | verdict and embedding are of the content the row has; a row at rest as done is judged; the queue drains |
| Marks (`curation/worker.go`, `contradiction.go`, `staleness.go`) | advisory metadata; the peers cached for a batch | near duplicate, low signal, stale, contradiction candidate | peers read once for a batch, and before what the batch stores | of two memories that differ in format only one is marked |
| Memory rows (`store/sqlite_memory.go`, `memory.go`) | table `memories` | upsert in chunks by last-write-wins, soft delete, pull queries, window delete | old and new writes in any order; chunks that fail; clock granularity | a live row is the newest write since its last deletion |
| Sync engine (`sync/engine.go`, `handler/sync.go`) | none between requests; the client keeps a watermark | bidirectional sync; split push and pull | requests of several clients interleaved between statements; watermarks and commits out of order; lost replies and retries | a client misses nothing; results say what was stored |
| Memory handlers and idempotent writes (`handler/memory.go`, `store/sqlite_memory_idempotency.go`) | table `memory_write_idempotency` | create with key, replay, purge, search, delete, window delete | two requests with one key; replay after deletion; retention | a key executes once and replays what it did, and nothing deleted |
| Semantic index (`store/sqlite_embedding.go`, `semanticspace/identity.go`, `cmd/server/main.go`) | vectors and their space; the server's embedder | start, stop, reindex, judge, embed, readiness check, search | a space that changes while vectors of the old one remain; a search whose check and two reads are three moments; two servers of different spaces; pages, enqueues and embeddings that fail | a query only meets vectors of its own space; no row is forgotten outside of it but where the code has no cause to embed it |
| Input of the embedding model (`ai/embeddings/tokenizer_fast.go`, `tokenizer.go`, `onnx.go`) | none | tokenize | four models, limits in bytes, runes and tokens | the tokens spell the text |
| Projects (`store/sqlite_project.go`, `handler/project.go`, `project/remotekey.go`) | tables `projects`, `team_project_access` | resolve by id or key, create by claim or in the dashboard, relink, delete, store triples, delete a period | concurrent creation; keys that change hands; a grant in a statement of its own; deletion under a request | a repository's key finds one live project; a write goes to one that was live and had the key; a project is reachable by the team |
| Accounts, organizations, keys, invites (`store/sqlite_account_mgmt.go`, `sqlite_invite.go`, `sqlite_apikey.go`, `handler/invite.go`, `auth.go`, `middleware/auth.go`) | memberships, keys, invites | create, invite, accept, log in, change roles, remove, revoke | several statements without a transaction, cut anywhere | keys go to members; an invite lets one account in; nobody is stranded; a login ends the sessions before it |
| Onboarding (`handler/onboarding.go`, `register.go`, `-bootstrap`) | first organization and account | complete, register, bootstrap | two at once; a failure half-way | as above |
| Guardrails and policy (`policy/filter.go`, `handler/guardrails.go`, `policy.go`, `filterForOrg`) | rows of rules, a threshold | create, change, delete, filter | rows edited by a read and a write; pushes filtered in between; defaults and fallbacks | no push passes a rule that was on all along |
| Self-updater (`updater/updater.go`, `handler/update.go`) | the binary, its backup, a flag | check, apply, swap, restart | a crash between the renames; steps that fail while undoing a failure; versions published meanwhile | a binary that starts is in place; never an older one; the flag comes back |
| Rate limiter (`middleware/ratelimit.go`) | token buckets in memory | allow, sweep | arithmetic | a client gets at most its burst plus its rate |
| Quota, memory health, rejection statistics | counters, a cache | check, count | check and write apart; stale cache | the limit holds up to concurrent writes |
| Knowledge graph, task threads, audit, chat, dashboards | tables | single statements or transactions | nothing across steps | |
| Migrations, configuration, web interface, scripts | | | | |

How they interact: handlers and the sync engine write `memories`, once the
guardrails have let a push pass and a project was found for it; each upsert
enqueues its ids in `curation_queue` after its commit and only logs a failure to
do so; the worker of every server process claims from the queue under a lease,
reads the memory and its peers, writes verdict and embedding back into `memories`
guarded by the content they were computed from, and completes the row. A server
that starts with another embedder embeds everything again beside that. Pulls read
what `memories` says has changed since the client's watermark. Processes share
nothing but the database.

## 2. Modules

| Module | What it is | Code |
|---|---|---|
| `WorkQueue` | abstract: what a queue of re-requestable work promises | - |
| `CurationQueue` | the queue table, one action per statement | `store/sqlite_curation.go`, `sqlite_curation_lease.go` |
| `Curation` | the workers and writers over memories and the queue; extends `CurationQueue` | `curation/worker.go`, the upsert, delete and guarded updates of the store |
| `SyncEngine` | sync requests of several clients over one project's memories | `sync/engine.go`, `handler/sync.go`, the upsert, delete and pull queries of the store |
| `WriteOnce` | abstract: what a write that is executed once per key promises | - |
| `MemoryWrites` | `POST /v1/memories` with idempotency keys, among deletions, pushes and purges | `handler/memory.go`, `store/sqlite_memory_idempotency.go` |
| `Projects` | projects, the requests that resolve them, grants and members of the default team | `store/sqlite_project.go`, `handler/project.go`, `resolveProject` and `authorize` of `handler/memory.go` and `sync/engine.go` |
| `Accounts` | organizations, accounts, memberships, invites, keys, and every way in | `handler/onboarding.go`, `register.go`, `invite.go`, `account.go`, `auth.go`, their store calls, `middleware/auth.go` |
| `SemanticIndex` | vectors, spaces, reindex and semantic search, with several servers | `store/sqlite_embedding.go`, `semanticspace`, `cmd/server/main.go`, `ai/embeddings/factory.go` |
| `SelfUpdate` | the update of the server's binary | `updater/updater.go`, `handler/update.go` |
| `Texts` | operations on texts as sequences of runes | helpers of the three below |
| `ContentFilter` | the content filter and how an organization's is built | `policy/filter.go`, `filterForOrg` |
| `CurationMarks` | the verdict of the worker on a memory among its peers | `curation/worker.go`, `contradiction.go`, `staleness.go` |
| `Tokenizer` | from a text to the input of the embedding model | `ai/embeddings/tokenizer_fast.go`, `tokenizer.go` |
| `ContentPipeline` | guardrails, pushes, worker and queries over the four | `handler/guardrails.go`, `policy.go`, `sync/engine.go`, `processBatch` |
| `CurationProofs` (with `CurationQueue`), `MemoryWritesProofs`, `ProjectsProofs`, `AccountsProofs`, `SelfUpdateProofs`, `SyncEngineProofs`, `SemanticIndexProofs`, `ContentPipelineProofs` | theorems about the above | - |
| `MC...` | symmetry sets, payloads and requests for TLC | - |

### CurationQueue

`status[m]` is the row's status, `"absent"` where the table has no row. `owner`
and `lease` are the lease columns, the lease reduced to whether it has run out.
`attempts` counts to the code's limit (`MaxAttempts`, 5). The history variables
say which rows were requested since they were last claimed. One action per
statement: `Enqueue` (the upsert of `EnqueueCuration` and of the sweep),
`ClaimCurationBatchLeased`, `SetCurationDoneLeased`, `SetCurationFailedLeased`,
`ReclaimExpiredCuration`, and `LeaseExpires` for time. Each has its `WHERE`
clause as a guard. A completion that matches no row is a step that changes
nothing, as in the code. The order in which rows are claimed (`scheduled_at`) is
left out: any batch can be claimed.

`ImplementsWorkQueue` maps status and history to `WorkQueue`: an item is
*wanted* when a request is not yet taken up. This is the property that the two
"dirty" statuses exist for.

### Curation

A worker's `pc` follows `processBatch` and `processOne`: `reclaim`, `claim`,
`sweep`, `enqueue`, `load`, `judge`, `count` and `mark` (the canonical of a near
duplicate), `embed`, `store`, `done`, `fail`. Between any two of them writers
commit pushes and deletions, other workers run, a lease can run out
(`TimePasses`), a process can die (`Crash`). Contents are model values; the
quality verdict is any of `ok` and `noise`, as filter and near-duplicate search
look at more than the content. `meta[m] = "carried"` is pushed metadata that
already claims the current curation version, which the sweep skips.
`MergesInPlace` tells the stores apart: Postgres merges the canonical's metadata
in one statement, SQLite reads it and writes it back.

Reductions: the claim that finds nothing and the sweep's select are one step
(both only read); a worker that restarts keeps its name; cluster sizes are left
out; the sweep takes any batch.

### SyncEngine

A request passes `write` (chunks of pushes, one transaction each, then
tombstones, one transaction each), `bury` (after the query for live rows) and
`reply` (after the query for deleted ones). `Begin` reads the watermark and
decides cap and guardrails; `StoreChunk` and `FailChunk` are `upsertMemoriesChunk`;
`SoftDelete` one tombstone; `PullMemories`, `PullTombstones`; `Reply` and what the
client does with it; `Lose` ends a request at any point without an answer, and
`Retry` sends it again, after which `Send` may also send another in its place.
Clients in `Split` use the split endpoints, whose push is stamped by the server
as it arrives, whose pull starts from the epoch and carries no tombstones.

Times are logical: no two readings of the server's clock are equal, so no run
rests on a tie between them, and a client's edit may carry any past time within
`MaxAge`. `Granule` cuts a deletion's time as SQLite's `datetime('now')` does, in
units of the clock; 1 is a store whose deletions have the clock's resolution
(Postgres). `WallClock` with a `Zone` other than 0 compares times as SQLite does,
by text that leads with local time.

Reductions: one project, of which all clients are members; another project's
ids (`Foreign`) never move; ids are given and distinct within a batch; a local
clock agrees with the server's; a deletion's clock reading and its commit are
one step; results of tombstones, audits, statistics, policy hints and curation
enqueues (modelled in `Curation`) are left out; a split push routes to one
project.

### MemoryWrites

A request passes `lookup` (its key in the ledger, table
`memory_write_idempotency`), `gate` (policy, project, quota: any of which may
refuse), `write`, then `reply`, and `visible` before a replay is answered; without
a key, `load` reads the row back. `WriteKeyed` is the whole transaction of
`UpsertMemoryIdempotentWithStatus`: the reservation, the upsert by last write wins,
the row read back and kept as the answer; `WriteReplays` and `WriteConflicts` are
its other two ends. `Lose` ends a request anywhere without an answer, and the client
sends it again or sends another. Between the steps come other writers' pushes
(`Push`), deletions of a memory, of a period and of the project with what they
redact, and the purge of a key, which ends its *life*: nothing is promised across
a purge.

A payload is an id or none and a content; the payload hash is the payload. `made`
and `told` record what writes answered and what clients were told, `erased` the writes
whose memory was deleted since by one of the two deletions that redact, `gone` what was
erased when a request came.

`WriteOnce` is the same without ledger, gates, transactions and rows: a client asks
under a key, at one moment one of the requests writes, each answer is that write or
what its erasure leaves, and of a write erased before the client asked only the
latter. `Asked` maps a request to its question, from its arrival to its end.

Reductions: one actor and one project, named by id; the two reads of the
visibility check are one; what a request without a key is told is not recorded; a
deletion's time is not cut to the second (it is in `SyncEngine`); the purge takes
one key at a time, any key.

### Projects

A request is a `POST /v1/memories` (`remember`), a sync, a creation in the
dashboard (`create`), the storing of triples (`ingest`) or an administrator's
deletion of a period (`undo`), about an id or, for the first three, a key. Triples
are only checked for access (`CheckAccess`), so a member's are taken for a deleted
project too; a deletion of a period asks for a live one. The others pass `resolve`, then `authorize`
(sync), `create` and `grant` (where nothing was found), `regrant` (the dashboard
found the project) and `write`; `Lose` ends it anywhere, as a crash or a failed
statement does. `Write` stands for the request's work in `SyncEngine` or
`MemoryWrites`, which take the project as given; what triples leave in the graph is
left out. An administrator relinks
(`UpdateProject`), deletes, sets grants (`SetAccountProjects`) and changes members
in between.

A key is a repository and the normalization that derived it: `v2` now, `v1` for
`Ported` repositories, whose URL (a port, a leading `scm/`) was normalized
differently before. A URL is given by its legacy key. `key[p] = None` is a key that
no repository has: a parked one, a deleted project's, or one synthesized for a
project without a repository. The table's two UNIQUE constraints are `Taken`;
`remote_key_v1` has none.

`seen`, `cut` and `taken` are history: what a request could have found since it
began, whose creation ended before the grant, what an administrator took from the
team.

Reductions: one organization; only the default team, the one the server grants to;
no URL's legacy key is another repository's canonical key (only a path starting
`scm/scm/` could be); hash collisions do not happen; slugs of deleted projects
never collide; which requests are sent is a constant (`Sent`).


### Accounts

A handler (`req[r]`) is its locals and its next statement; each of them is one
action, and `Cut` ends a handler before any of them, as an error, a crash or a
client that went away does. `kind` says which: onboarding, registration, the
`-bootstrap` command, acceptance of an invite, `POST /v1/accounts`, a login, a
removal. The handlers of one statement (create and delete an invite, issue and
revoke a key, change a role) are `Administer`, `DeleteInvite` and `RevokeAPIKey`;
`InviteExpires` is time. `Auth` and `RequireAdmin` are the middleware's checks.
`password[e]` tells an account without a row from one whose `password_hash` is
NULL, which the scans of SQLite cannot read.

`cut` and `lapsed` are history: the organizations and accounts that an ended
handler left unfinished, and the accounts a login of which could not revoke.

Reductions: an account is its email, an organization its slug; quotas, projects
made by onboarding and the check of a password are left out; an invite's token is
the invite.

### SemanticIndex

A vector is the text it was made of and its space, None for rows from before
spaces. A server starts with one of its configurations (`New`, `Fits`: the
factory and the check of the store's column), looks for one stale memory, and if it finds one
pages through them (`ReindexPage`, `ReindexOne`) with a cursor that moves on
whether or not the memory could be embedded. The look may fail, which is logged, and so may the
read of a page, which ends the reindex. `StaleRow` is the condition of three queries of the store.

Beside that the server's worker leases what is due (`Take`), stores a verdict unless the content
has changed (`Judge`), and embeds (`Embed`). It may fail on the memory (`Fail`, `Charge`):
the memory is due again, or given up at `MaxAttempts`. The lease of a memory may run out and its
completion be lost (`LoseLease`), neither of which is charged, and an idle worker requests
what none has judged (`Sweep`). Clients push and delete; the enqueue is a statement after the
push's commit, and may be lost.

A search is a readiness check (`Check`, `ProjectHasStale`), a read of the vectors of its
space (`Rank`, `Compared`), and a read by id of the rows to return (`Fetch`), which on SQLite
are three statements in no transaction; `Abandon` is a search whose query cannot be embedded or
whose read fails.

`left` and `seen` are history: the memories a server has no cause to embed again
until it starts again, and what a search that was found ready has to find, then what of
the vectors it compared has not changed since.

Reductions: one project; a worker has one memory at a time, and what the rest of its batch
holds counts as due; a push is never older than the row it meets, and its enqueue
is one step with it unless it is lost; a verdict's metadata and the completion of a memory that is
not embedded are one step, as are the select and the insert of a sweep; the
limit of a search and its order are left out; the first text is any. `CurationQueue` and `Curation`
have what is left out of the queue and the worker here.

### SelfUpdate

`task[t]` is a request to apply an update at its next step: the handler's check
of the published version, then the goroutine's `Resolve`, the two downloads,
`VerifySHA256`, `ProbeBinary`, the rename of the binary to its backup, `OpenCopy`,
`Copy` and `Chmod` to its place, `Rollback`, `RestartPM2`. Every step may fail; `Crash`
and a restart take the whole process. A file is the tag it is the binary of and
whether it is whole. `host` is what the code's outcome hangs on: whether files
made with default permissions can be executed, whether the executable's path
follows a rename and a file in use can be replaced, and which tags start there.

Reductions: one downloaded file per task; a rename is atomic and what was written
is on disk after a crash of the process (the machine does not crash); the release of a tag
does not change.

### Texts, ContentFilter, CurationMarks, Tokenizer, ContentPipeline

Pure operators over texts, which are sequences of runes; `Texts` has what Go's
`strings` and `unicode` do with them, on an alphabet given by constants.
`ContentFilter` is the filter and how `filterForOrg` makes one of the guardrails'
rows or, without any, of the defaults. `CurationMarks` is the verdict of
`processOne`: near duplicates by shingles, low signal, staleness, contradiction
candidates. `Tokenizer` is a `tokenizer.json` of each of the four models, with its
normalizers, pre-tokenizers and post-processors, and the `vocab.txt` that stands
in for it. Patterns, word lists, limits and thresholds are constants.

`ContentPipeline` puts them to work: guardrails are created, and changed or deleted
by a read and a write of the row (`GetGuardrail`, `PutGuardrail`); a push reads
guardrails and then the policy (`ReadGuardrails`, `FilterPush`); the worker takes a
batch, reads each memory and, once for the batch, its peers (the `MaxPeers` most
recent of the window, 2000 in the code), and stores the
verdict (`ClaimBatch` .. `StoreVerdict`); `Search` turns a text into the input of the
model. `TokensSpellTheText` reads that input back and compares it with the words of the text,
so it does not repeat what the encoders do.

`held`, `none` and `lowest` of a push are history: the rules that were on, whether
there were none, and the lowest threshold, since it began. `since` of a memory is
the start of the window in which it was judged.

Reductions: one organization and project; a push has one memory; regular
expressions are literal; what the race inside one memory does to a verdict is in
`Curation`.

## 3. Runs

| Run | Question | Bounds |
|---|---|---|
| `queue` | Does the table keep its invariants and implement the abstract queue? | 3 memories, 2 workers, all five attempts; no other bound |
| `race` | Are verdict and embedding of current content, whatever races? | 1 memory, 2 workers, 2 writers, 2 contents, 4 edits, 3 faults |
| `single` | One SQLite process: is what rests as done judged and indexed, and does the queue drain? | 2 memories, 1 worker, batches of 2, 2 edits, 1 fault |
| `sync` | Last write wins, and nothing missed but late commits, across both protocols | 1 memory, 2 contents of which reads hide 1, 2 bidirectional clients and 1 split one, 3 requests, 1 fault |
| `sync_batch` | Is what is reported accepted stored? | 3 memories, 1 foreign; chunks of 1; cap 2 |
| `memory_writes` | Does a key write once, are its answers of that write, and does it implement `WriteOnce`? | 4 ids, of which 1 given, 1 foreign, 2 generated; 1 key; 2 requests in flight; 1 fault and its retry; 1 purge |
| `projects` | Does a key find one project, does a write go to a live one, is every project granted? | 2 projects, 2 accounts, one of them an administrator; 2 repositories, one with two keys; 14 requests, any number of times; 2 edits |
| `accounts` | Do keys go to members, does an invite admit once, is anyone stranded, do sessions end? | 1 organization, 2 emails, 2 roles, 3 keys, 1 invite; 2 handlers at a time, 4 begun; 1 edit, any number of deletions and revocations |
| `self_update` | Does the binary in place start, is it never older, does the flag come back? | 5 tags (a development build, two releases, a pre-release, one that may not start), 4 kinds of host, 2 tasks, 2 publications, 2 crashes, up to 2 `.bak` |
| `semantic` | Is nothing forgotten outside of a space, and does a search that was found ready leave nothing out? | 2 memories, 1 of them from before spaces; 2 servers of different spaces, one of which may not fit the column; pages of 1; given up at the first failure; 1 push or deletion, 2 starts, 1 fault; any number of searches, one at a time |
| `content` | Does a rule that is on hold for every push, is one of two like memories marked, do tokens spell the text? | 2 administrators, 1 client, 2 memories, 3 requests, 1 tick, 1 fault, 4 items, 3 new rules, 2 patches; 1 peer; all texts of up to 4 of 7 runes on 6 tokenizers |
| `self_update_probe` | A statement of the repository that the code does not keep | the hosts of `self_update` that are Unix |

Why these bounds are enough: the races of the curation run are between two
workers over one row, a push and a stale holder, so one memory, two workers and
two contents (an old and a new one, and back) show them; batches need a second
row. The sync races are between a write and another client's pull around one
row; two clients give a writer and a reader, a third one of the other protocol, and
three requests a write, a pull and a second write or pull. A key that two projects
share needs two projects, and two edits let a link change and its former key be
taken, or a project be deleted and its key be claimed again; requests and their
losses are not bounded. An account comes to be by one handler and is used by a
second; four in all let it be invited, accept twice, log in and be removed, and
the proofs leave the bounds behind. A search sees two spaces if a server of another one
starts between its check and its query. A fault is of any kind: of a look, a page, an embedding, an enqueue, a lease. As there is one, a
memory is given up at its first failure; that one below the limit is tried again is in the proofs,
for any limit, and in the run `queue` with all five attempts. Two starts are two servers, or one that
comes back. The push falls before the check, into one of the two gaps of a search, or between
two of them; what takes more is left to the proofs. A swap that fails can leave a backup whose process goes
on and is updated again, which is why the path of a backup has a backup. A rule that is
changed while a push is under way needs one push and two requests of
administrators; four runes hold a word of two pieces, a space or a punctuation
mark, and one more. A memory has one peer that can matter in a run of two, and
`MaxPeers = 1` makes the limit of the query one that is reached. `CHECK_DEADLOCK FALSE` is set where bounded edits, faults,
requests or handlers let the system come to rest; the queue run has no such bound
and checks deadlock.

The properties:

- `NoLostRequest`, `LeaseIffHeld`, `GivenUpIffExhausted`, `ImplementsWorkQueue`: the queue.
- `VerdictIsCurrent`, `EmbeddingIsCurrent`: never about other content than the row's.
- `DoneIsJudged`, `DoneVerdictIsCurrent`, `DoneIsIndexed`: what it means that the
  queue calls a row done. The last is about a server with an embedder and holds
  for one process only.
- `ClaimNotStolen`: a held row is let go by its holder or by the end of its lease.
- `EventuallySettles`: rows leave the queue's transient statuses for good.
- `LiveIsNewest`: last write wins, in any order of requests, retries, deletions.
- `BehindOnlyByLate`: a client is behind the server only by rows changed since its
  last pull read them, rows its first sync left out, or *late* rows. A row is
  late when its stamp is no later than a watermark captured before it was
  committed. It is the strongest true form of what the watermark promises; without
  late rows, as the code's comment has it, it is false (Findings, b).
- `AcceptedIsStored`: results against the database. The converse does not hold
  (see Findings).
- `WritesOnce`, `KeptWithItsWrite`, `ImplementsWriteOnce`: idempotency keys. An answer
  may come without its content once the memory was deleted (Findings, d), and comes
  without it when it was asked for after that. A replay read before a deletion may
  still show what was deleted since: reading it, looking at the row and answering are
  separate steps.
- `KeyResolvesOnce`: two live projects never share a canonical key. Of legacy keys
  it is false (Findings, e).
- `ServedByLive`: what a request found may be deleted, relinked or taken over before
  it writes, but was live, and its own, at some moment since it began. The strict
  form, live as it writes, is false: resolution and write are separate statements.
  Triples are excepted, for which the code does not ask for a live project.
- `NoOrphan`: the default team lacks a live project only while it is being created,
  after a creation that was cut short, or by an administrator's choice.
- `KeysAreOfMembers`, `InviteTakenOnce`, `NobodyStranded`, `SessionsBounded`: what
  holds of accounts although no handler is a transaction. The third names what it
  does not hold of: what a cut left, which nothing repairs.
- `NoneForgotten`: a memory outside of a server's space is on its way back, or is one
  the server has no cause to embed; that these exist is the code's, and the
  property says which they are: a failed look, page, embedding or enqueue, a memory that was
  given up or judged without a lease, another server's doing, and noise with a vector of
  another space.
- `AnswersAreWhole`: a search compares vectors of its own space and leaves out
  nothing it could have found when it was found ready. What it returns is what it
  compared unless that changed between its two reads; that it always is (Seen in reading)
  is false on SQLite.
- `StartsAgain`, `NeverBack`, `FlagReturned`: what an update may do to the binary in
  place, and that a later one can be asked for.
- `NothingHeldIsPassed`: guardrails against pushes that overlap with their changes,
  including how they fall back.
- `OneOfTwoIsMarked`: near duplicates, in any order of pushes and batches, as long as
  the query for peers did not have more than its limit to choose from. A canonical keeps
  its mark after the last of its duplicates was deleted or rewritten; the mark is only
  advice, and no property speaks of it.
- `TokensSpellTheText`: the tokenizers against the text they were given.

Every property of a passing run has a mutant of a mapped definition that breaks it.

### Fairness

Two properties assume any.

`EventuallySettles`: weak fairness of each worker's steps, of the
enqueue that follows a commit and of a lease running out, and strong fairness of
`ReclaimExpired`, whose tick waits in its channel until the loop's `select` takes
it, however often the loop is busy with a batch in between.
The ticker in `Worker.Start` runs a pass every interval as long as the process
lives, and a pass neither waits for a lock of the program nor skips a step; the
operating system restarts a dead process. A step that fails is a fault, of which
there are finitely many in the model (`MaxFaults`), and a lease that ends under a
worker at work counts as one. Without that last assumption two processes whose
passes are slower than the lease take the row from each other for ever, and the
code does nothing about it.

`FlagReturned`: weak fairness of every step of an update task. Requests have a
client with a timeout, the probe and pm2 run under a context with one, and the file
operations return. Starting a dead server is not assumed, as a crash gives the
flag back.

## 4. Findings

One has a run, `self_update_probe`, and its entry in `PROJECT.json`: on Unix the
probe of a downloaded release fails for every release, as nothing made the download
executable.

The others have none. To see one of these five, change a configuration as said:

- (a) On SQLite the canonical mark (`curation/worker.go:370`) reads a row's metadata,
  merges in Go and writes it back (`UpdateMemoryMetadata`,
  `store/sqlite_memory_ext.go:83`) with neither transaction nor condition, so it can
  put an old verdict over what a push has just written; `store/curation_capabilities.go:5`
  promises otherwise. With `MergesInPlace = FALSE` and two memories in
  `CurationRace.cfg`, `VerdictIsCurrent` fails.
- (b) A write that is stamped before a watermark is captured and committed after the
  pull has read is missed by the next sync too; the comment at `sync/engine.go:45`
  says that it is picked up. `late` in `SyncEngine` holds these rows; without it
  `BehindOnlyByLate` fails in `SyncMixed.cfg`.
- (c) On SQLite a deletion is stamped to the second, so that a push older than it and
  of the same second brings the memory back (`store/sqlite_memory.go:332`), where
  `docs/sync-protocol.md:241` says that "the server keeps its version". With
  `Granule = 4` in `SyncMixed.cfg`, `LiveIsNewest` fails. And times are compared as
  text that leads with the writer's local time, so it fails as well with
  `WallClock = TRUE` and `Zone = {0, 2}`.
- (d) Deleting a memory redacts its stored idempotent reply
  (`store/sqlite_memory.go:518`); if the memory is brought back, the replay has no content,
  where `docs/api.md:194-195` says that a replay "returns the original result". The
  redacted answers that `WriteOnce` admits are these.
- (e) A claim with a repository's legacy key and a creation in the dashboard make two
  live projects, both found by that key (`handler/memory.go:621`), where
  `store/sqlite_project.go:76-78` says that "a push stamped with either key lands in
  the same project". `KeyResolvesOnce` fails if it speaks of `remote_key_v1` too.

Seen in reading, and not in a run:

Sync and memories

- A first sync, without a watermark, returns no memories and a watermark past them
  all (`sync/engine.go`, `pull`), where `docs/sync-protocol.md:232` says that it
  returns all; `BehindOnlyByLate` excepts what it leaves out.
- A push of more than 1000 memories whose second chunk fails is reported rejected as
  a whole, "so the client knows nothing landed", although the first chunk is stored.
- The protocol document speaks of a unique content hash per project that turns a
  push of known content into a no-op, where a later migration dropped that index.
- `skill/anchored-teams/SKILL.md:203` says that a replay carries `"created": false`,
  where it carries what the first answer did.
- Sync does not create projects, where `docs/sync-protocol.md:61,122` and the comment
  on `CompatPush` say that it does (`docs/error-codes.md:65` says that it does not yet).
- An embedder that keeps failing gives up a memory that was judged, though the
  comment at `curation/worker.go:382` says that a failure there does not fail the
  curation.

Projects and accounts

- `SetAccountProjects` sets the default team's grants, so setting one account's
  projects changes those of every member.
- Two repositories whose claims give the same slug: the second claim fails with 500
  each time, where `docs/api.md:187` says that a claim creates its project.
- A creation by claim that ends before its grant is not repaired when the claim is
  sent again, as the project is then found; the dashboard's creation is.
- An administrator's sync by id reaches a deleted project (`GetProjectByID`), and a
  member can store triples in one (`checkAccess` looks at the grant, and grants stay).
- An account made without a password has a NULL `password_hash` that SQLite's scans
  cannot read: its `GET`s fail and a second `POST /v1/accounts` answers 500; on
  Postgres the first does.
- A `POST /v1/accounts` sent again does not add a membership the first one was cut
  before; two onboarding requests at once both find no organization; an onboarding
  cut after the organization was made can never be repeated (409).
- `UpdateAccount` sets a role in every organization. An invite for an email that has
  an account is never accepted. A login gives an administrator's key scope to any
  role. A removed account keeps its memberships and can log in again.

Guardrails and marks

- An organization from before migration 013 has no rows of guardrails; its first
  custom rule makes it one with rows, so that secret detection, paths and scopes are no longer
  checked, and the API refuses to create those kinds. The comment at
  `sync/engine.go:202-204` says that enforcement "is never weaker than before".
- `docs/api.md:585` says that the built-in rules "are enforced in code and cannot be
  removed"; `PATCH` disables them. `PUT /v1/policies` stores `blocked_categories`,
  which `filterForOrg` does not read. A category rule with capitals blocks its
  lower-case name and is reported as typed.
- `POST /v1/memories` and the curation worker use the default filter whatever the
  guardrails. A failed read of the guardrails falls back to it, custom rules
  skipped. Guardrails and threshold are two reads, so that a push may pass a
  combination that was never in force. A `PATCH` writes back the whole row it has
  read, over another's change.
- Two near duplicates of one batch, or judged again, mark each other, so neither is
  indexed; `curation/worker.go:301` speaks of the older one. Texts of nothing but
  punctuation are all near duplicates. A memory judged again keeps its old
  `canonical_of`; `low_signal` never goes. Peers that could not be read are taken as
  none for the batch. `created_at` is the client's, and an old one escapes the window.

Search, models, update

- Added tokens pass the check of the length, so the closing token may be cut off.
  WordPiece gives an unknown token per rune, where the original it mirrors gives one per word.
  `encodeUnigram` ignores scores.
- A row whose reindex failed, or that a server of another space embedded, keeps its
  project's semantic search at 422 "being rebuilt", `Retry-After: 1`, while nothing
  rebuilds it until a server starts. Every push makes its project's search
  unavailable until the memory is curated. A page that cannot be read ends the whole reindex
  (`cmd/server/main.go:288`), and nothing but a start resumes it; an embedding that failed five
  times is given up; an enqueue that fails after its push is only logged
  (`store/sqlite_memory.go:352`) and made up for by the sweep, but not for a memory that was
  pushed with `curation_version` 2.
- On SQLite a semantic search reads vectors in one statement and the rows to return in
  another, by id alone (`store/sqlite_embedding.go:483`, `:536`). A memory that is rewritten, hidden or
  deleted between them is returned as it then is: with a text that was not the one compared,
  although the quality filter would not let it pass, or although it is deleted. Postgres ranks and
  fetches in one statement.
- A download of a model's file that died after its last byte and before its rename
  asks for a range past the end, and fails with 416 for ever; two processes that
  download at once share a `.download` file without a lock.
- On Linux, after a pm2 that failed, `os.Executable` follows the rename to `.bak`, so
  that a second update goes there. Pre-release and build are ignored when versions
  are compared.

## 5. Proofs

All for any sets of clients, memories, workers and so on, and any bounds, from the
assumptions that each module names beside its constants. `SemanticIndex` takes its
memories to be finitely many, which is what makes a page the least of them, and
`Accounts` its keys and requests, of which it counts.

`CurationProofs` proves first the invariants of the queue from an inductive invariant
that ties status, owner, lease, attempts and history, and that each step of the table
maps to a step or a stutter of `WorkQueue`. The queue's type invariant is a part of the
pipeline's, which the run `race` checks. Then it proves
that every behaviour of the pipeline is one of the queue
(`PipelineUsesQueue`), and from it and an inductive invariant that verdicts and
embeddings are current and done rows judged. The invariant needs two parts that
no run's property states: `CurInv`, a worker past its load knows its memory, and
`PassInv`, that while a worker holds a row neither edited nor requested since its
claim, what it loaded is what the row has. The second is what makes the guarded
update enough. `VerdictAlwaysCurrent` and `DoneAlwaysJudged` assume
`MergesInPlace`: without it they are false (Findings, a).

What holds of one server process only is proved of one (`OneServer`, that there is a
worker that is every worker): `DoneVerdictAlwaysCurrent` and `DoneAlwaysIndexed`. With
a single worker a lease may still run out under it and the row be reclaimed by its own
next pass, and the batch in hand may be about rows that are no longer its own; the
inductive invariant `SoloInvariant` says for each place of the loop what the row in hand, and
the rest of the batch, can be.

`SyncEngineProofs`: the invariant `Base` says that requests carry stamps of the past
and the watermark that their client has now, and that live rows have a content and a
time. With it, `AcceptedIsStored` is inductive. `LiveIsNewest` follows from `NewestOK`,
which says the same of deleted rows too (a push that does not beat a deleted row must
not be newer than it), and assumes `Exact`, that a store compares times as times and
does not cut those of deletions: without it, it is false (Findings, c).
`BehindOnlyByLate` assumes nothing of how times are compared and cut. Its inductive
invariant `Behind` has four parts for each client and memory: `PassedOK`, that
what the next pull will pass over the client has, or it is excused; `AnswerOK`, that what
a pull under way has read, and what it left out, is what the server has of every row
that did not change since; `MovedOK`, that of those that did change, the ones
that the watermark to come passes over are late; and the property itself. The
watermark being captured before the queries is what `MovedOK` rests on.

`MemoryWritesProofs` proves type correctness, `WritesOnce`, `KeptWithItsWrite`, that
every answer is of its key's write (`AnswersAgree`), and that `MemoryWrites` implements
`WriteOnce`. The inductive invariant adds where the three come from:
`LedgerOfWrite`, what the ledger keeps is of a write of the key's present life;
`PresentIsKept`, a write of the present life is still in the ledger, so the
transaction that finds none there is the first of its life; `PendingOfWrite`, what is
about to be answered is of such a write and of the request's own payload. For the
refinement, `LedgerExact` and `PendingExact` say that what is kept, and what is about
to be answered, is that write or its erasure, and the erasure if the write was erased,
or had been when the request came. Then each step maps to one of `WriteOnce` or to
none: the arrival of a request with a key asks, the transaction that reserves the key
executes, a reply answers, any other end drops, a deletion erases, a purge forgets.

`ProjectsProofs` proves the four properties of the `projects` run. The inductive
invariant adds `LegacyWithCanonical`, a legacy key is stored with the canonical key of
its repository, so that a canonical key in `remote_key_v1` is also that row's
`remote_key`, which `KeyIsUnique` says is unique; `SeenCovers`, what a request could
find now it could find since it began; and `StageOK`, what it has found at each stage
is of that.

`AccountsProofs` proves the properties of the `accounts` run. The inductive invariant
`AccountsInv` has, as the handlers are not transactions, a part for what a handler
holds at each of its statements (`LocalsOK`) and one for what the tables hold when it gets
there (`StageOK`); `OneTaker`, an invite is in the hands of one handler or has its one
key; and that only members make keys and invites. The bound on sessions is a
cardinality argument about the logins that overlap.

`SelfUpdateProofs` proves type correctness, `StartsAgain` and `NeverBack`. In the
inductive invariant `UpdateInv`, `Sound` says what a task knows of its release at each
step; `OneAtATime`, that the flag admits one task; `InstalledOrBackup`, that while the
installed binary is being replaced its first backup starts, which is what a rollback
puts back; `BackupNotOlder` is what `NeverBack` needs of a rollback.

`SemanticIndexProofs` proves type correctness, `NoneForgotten` and `AnswersAreWhole`. In the
inductive invariant `IndexInv`, `Covered` is what `NoneForgotten` asks of a stale memory, but for
the reindex. `ComesBy` says that every stale memory is covered or ahead of the reindex, and
`PageOK` that one of a page whose text changed since it was read is covered without it (the
reindex will pass over it without storing a vector), and that items of a page are distinct and
after the cursor. `QueueOK` says that what is due or leased has an attempt left, and that a memory
is leased to one worker, without which one worker's completion could be taken for another's;
`WorkOK`, that a worker of a server that is down has nothing. `VectorOfText` and `SearchOK` are
about searches: a vector is of its row's text, and what a search has still to find is visible, and
has a vector of its space until that is ranked, and is what was ranked after. That
the cursor misses nothing rests on `PageIsNext`: a page holds the least stale memories
after it. Each step is a lemma (`PushOK` .. `SweepOK`). The proof does not use that pushes carry
no noise in the run.

`ContentPipelineProofs` proves type correctness, `OneOfTwoIsMarked`,
`NothingHeldIsPassed` and `TokensSpellTheText`. For the second the inductive invariant adds (`MarkInv`) that what the worker
has read is what is stored, or curation is requested anew, and that among its peers is
every memory at rest in the window, with the content it has; it rests on likeness
being symmetric. For the third, `HeldInv` says that what
a push has read heeds the rules that were on when it began and still are, through the three ways
a filter is made (rows, no rows, a failed read), and `GuardrailInv` that a row an administrator
writes back has the kind and the pattern it was read with. The lemmas under them say
what the operators of `Texts`, `ContentFilter` and `CurationMarks` return for any text.
Where one of them recurses or is a least number, the induction is over the set of
numbers at which the claim fails, which has a least element
(no theorem of the library that takes a predicate is needed).

`TokensSpellTheText` is a statement about the tokenizers, for any text and any files
that meet `TokenizerAssumption`. The argument is one run of the reader: `Leads` says that
a sequence of tokens may lead from one place of the words to another, and sequences join
(`LeadsOn`) and may be cut (`LeadsPart`).

- Each encoder's tokens lead from the start of a word to the start of the next one
  (`EncodeWordLeads`, `EncodeBytesLeads`). The greedy ones recurse from the end of the word
  (`GreedyLeads`). For BPE the merges keep the symbols segments of the word
  (`MergeOnceSegments`); after as many rounds as the word has runes none is left to make
  (`MergesEnd`), which is what the reader asks of two neighbours (`BPELeads`).
- The folds over the words keep that what they have taken leads as far as they are, or up to
  the limit, which only added tokens pass (`TakeWordKeeps`, `TakeBytesKeeps`). The tokenizer of a
  `vocab.txt` counts the first special token in its limit and the other leaves
  room for two, and both end with one to spare.
- `FramedSpells`: with the special tokens around, cut or padded to the model's length,
  this is what the property says; `PlacesHold` ties a run to the sets of places it counts in.

A fold of the community modules is a function on sets of positions; `FoldDefined` and
`FoldIterates` show that it exists and goes through them one by one, so that nothing about folds is
assumed. `TokenizerAssumption` says of a `tokenizer.json` what the code takes for granted
and does not check: the ids its post-processor names are those of the vocabulary's special
tokens, there is room for the two of them, and no merge begins with the unknown token. Of the
model's name it says nothing: one that is none of the four, or missing, is encoded as
WordPiece.

The proofs found errors of the model that the runs had not shown, each corrected after
the source: a new guardrail's pattern is trimmed before it is compiled; the query for peers
has a limit; the guards of two CASE expressions overlapped (TLC takes the first, the
language any).

Only model-checked: `EventuallySettles` and `FlagReturned`, which are liveness, and the
violation.

## 6. Not modelled, and why

- The rate limiter: one critical section of floating-point arithmetic per request. What
  can go wrong is rounding and the choice of numbers, and logical time would hide both.
- Quota: a gate that may refuse is in `MemoryWrites`; what it is decided by is one
  aggregate query, read before the write and not repeated in it, so that the limit
  holds but for writes that overlap.
- Memory health and rejection statistics: aggregates for the dashboard, which no decision
  of the server reads.
- What triples leave in the knowledge graph; task threads, audit, chat: single
  transactions with no protocol between them.
- The download of the embedding model's files: no state but one file, met by nothing
  else. Two things seen in reading are under Findings.
- Schema migrations, configuration, setup wizard, web interface, scripts.
- Text search, listings and contexts: single reads.
- Times within a statement, lengths of texts, hashes: collisions and clocks that go
  backwards are taken not to happen.

## 7. Plan

Done: every module of section 2 with its runs, and the proofs of section 5.

Left, in order: the download of the model's files, with its two findings; the
sums behind quota and memory health.

## 8. Running

`tlc -config CurationRace.cfg MCCuration` checks a run, `tlapm CurationProofs.tla`
the proofs of a module. `PROJECT.json` lists runs, mutants, the source lines of
each definition, findings, hazards and theorems.
