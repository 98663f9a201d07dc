----------------------------- MODULE SyncEngine -----------------------------
(***************************************************************************)
(* Sync requests of several clients over one project's memories: pushes    *)
(* resolved by last-write-wins on updated_at, tombstones, and pulls of     *)
(* what changed after the client's watermark.                              *)
(*                                                                         *)
(* A request is several statements of the store (one per chunk of pushes,  *)
(* one transaction per tombstone, one query for live rows, one for         *)
(* deleted ones), and requests interleave between them.  A client whose    *)
(* request fails on the way sends it again or sends a new one.             *)
(***************************************************************************)
EXTENDS Naturals, FiniteSets

CONSTANTS
    Memory,      \* memory ids
    Foreign,     \* ids that belong to another project's memories
    Client,      \* clients, with at most one request in flight each
    Split,       \* the clients that use the split push and pull endpoints
    Content,     \* contents a memory can have
    Blocked,     \* contents the organization's guardrails reject
    Hidden,      \* contents pushed with metadata that reads filter out
    None,
    MaxPerSync,  \* the organization's cap on one push
    ChunkSize,   \* memories per statement (1000 in the code)
    Zone,        \* offsets from UTC that clients write their times with
    WallClock,   \* the store compares times as text (SQLite), offset ignored
    Granule,     \* a deletion's time is cut to a multiple of this (SQLite: 1 s)
    MaxAge,      \* bound: how old a pushed change can be
    MaxTime,     \* bound: readings of the server's clock
    MaxSends,    \* bound: requests sent in a behaviour
    MaxFaults    \* bound: lost requests and database errors in a behaviour

ASSUME SyncAssumption ==
    /\ Foreign \subseteq Memory /\ Split \subseteq Client
    /\ None \notin Memory \cup Content \cup Client
    /\ MaxPerSync \in Nat \ {0} /\ ChunkSize \in Nat \ {0}
    /\ Zone \subseteq Nat /\ 0 \in Zone /\ WallClock \in BOOLEAN
    /\ Granule \in Nat \ {0}
    /\ MaxAge \in Nat /\ MaxTime \in Nat \ {0, 1}
    /\ MaxSends \in Nat /\ MaxFaults \in Nat

VARIABLES
    now,       \* the server's clock: what its next reading shows
    content,   \* content[m]: the project's row m, None if there is none
    live,      \* live[m]: the row exists and deleted_at IS NULL
    at,        \* at[m]: the row's updated_at
    pc,        \* pc[c]: where c's request is
    req,       \* req[c]: the last request c sent
    todo,      \* todo[c]: accepted pushes still to be stored
    dels,      \* dels[c]: tombstones still to be applied
    result,    \* result[c][m]: what the reply will say of the push of m
    mark,      \* mark[c]: the watermark the reply will carry
    pulled,    \* pulled[c][m]: the content the reply will carry for m, or None
    buried,    \* buried[c]: the tombstones the reply will carry
    copy,      \* copy[c][m]: what c believes the server has for m
    wm,        \* wm[c]: the watermark c stored last, or None
    arrived,   \* history: writes to m since its last deletion, in any order
    died,      \* history: when m was last deleted
    stored,    \* history: stored[c], the pushes of c's request a statement took
    unseen,    \* history: rows changed since c's last answered pull read them
    moved,     \* history: rows changed since c's present pull read them
    late,      \* history: rows stamped no later than a watermark c's pull had
    skipped,   \* history: rows c's first sync left out
    sends, faults

rowVars == <<content, live, at>>
requestVars == <<pc, req, todo, dels, result, mark, pulled, buried>>
clientVars == <<copy, wm>>
rowHistory == <<arrived, died>>
pullHistory == <<unseen, moved, late, skipped>>
vars == <<now, rowVars, requestVars, clientVars, rowHistory, stored, pullHistory, sends, faults>>

Stamp == [t : 0..MaxTime, z : Zone]
Write == [content : Content, at : Stamp]
Request == [push : [Memory -> Write \cup {None}], tombs : SUBSET Memory,
            since : Stamp \cup {None}]

NoPush == [m \in Memory |-> None]
NoResult == [m \in Memory |-> "none"]
NoRequest == [push |-> NoPush, tombs |-> {}, since |-> None]

\* "retry": the last request was not answered.
RequestPC == {"idle", "retry", "write", "bury", "reply"}

\* A time of the server, which writes UTC.
Utc(t) == [t |-> t, z |-> 0]

\* What a pull without a watermark starts from on the split endpoints.
Epoch == Utc(0)

\* What the store compares of a time.  SQLite compares the text of the driver,
\* which leads with the local time of whoever wrote it.
Key(s) == IF WallClock THEN s.t + s.z ELSE s.t

After(s, since) == Key(s) > Key(since)

\* No time is later than the server's clock.
TypeOK ==
    /\ now \in 2..MaxTime
    /\ \A m \in Memory : at[m].t < now
    /\ \A c \in Client : mark[c].t < now /\ (wm[c] # None => wm[c].t < now)
    /\ content \in [Memory -> Content \cup {None}]
    /\ live \in [Memory -> BOOLEAN]
    /\ at \in [Memory -> Stamp]
    /\ pc \in [Client -> RequestPC]
    /\ req \in [Client -> Request]
    /\ todo \in [Client -> SUBSET Memory]
    /\ dels \in [Client -> SUBSET Memory]
    /\ result \in [Client -> [Memory -> {"none", "accepted", "rejected"}]]
    /\ mark \in [Client -> Stamp]
    /\ pulled \in [Client -> [Memory -> Content \cup {None}]]
    /\ buried \in [Client -> SUBSET Memory]
    /\ copy \in [Client -> [Memory -> Content \cup {None}]]
    /\ wm \in [Client -> Stamp \cup {None}]
    /\ arrived \in [Memory -> SUBSET Write]
    /\ died \in [Memory -> 0..MaxTime]
    /\ stored \in [Client -> SUBSET Memory]
    /\ unseen \in [Client -> SUBSET Memory]
    /\ moved \in [Client -> SUBSET Memory]
    /\ late \in [Client -> SUBSET Memory]
    /\ skipped \in [Client -> SUBSET Memory]
    /\ sends \in 0..MaxSends
    /\ faults \in 0..MaxFaults

Init ==
    /\ now = 2
    /\ content = [m \in Memory |-> None]
    /\ live = [m \in Memory |-> FALSE]
    /\ at = [m \in Memory |-> Epoch]
    /\ pc = [c \in Client |-> "idle"]
    /\ req = [c \in Client |-> NoRequest]
    /\ todo = [c \in Client |-> {}]
    /\ dels = [c \in Client |-> {}]
    /\ result = [c \in Client |-> NoResult]
    /\ mark = [c \in Client |-> Epoch]
    /\ pulled = [c \in Client |-> NoPush]
    /\ buried = [c \in Client |-> {}]
    /\ copy = [c \in Client |-> NoPush]
    /\ wm = [c \in Client |-> None]
    /\ arrived = [m \in Memory |-> {}]
    /\ died = [m \in Memory |-> 0]
    /\ stored = [c \in Client |-> {}]
    /\ unseen = [c \in Client |-> {}]
    /\ moved = [c \in Client |-> {}]
    /\ late = [c \in Client |-> {}]
    /\ skipped = [c \in Client |-> {}]
    /\ sends = 0
    /\ faults = 0

Fault == faults < MaxFaults /\ faults' = faults + 1

\* No two readings of the clock show the same time.
ReadClock == now < MaxTime /\ now' = now + 1

-----------------------------------------------------------------------------
(* The request arrives.                                                    *)

Pushed(r) == {m \in Memory : r.push[m] # None}

OverCap(r) == Cardinality(Pushed(r)) > MaxPerSync

Accepted(r) ==
    IF OverCap(r) THEN {} ELSE {m \in Pushed(r) : r.push[m].content \notin Blocked}

FirstVerdict(r, m) ==
    IF m \notin Pushed(r) THEN "none"
    ELSE IF m \in Accepted(r) THEN "accepted" ELSE "rejected"

\* The watermark is captured before anything is read or written.  (The fault
\* captures it when the reply is built: see PullTombstones.)
Begin(c, r) ==
    /\ ReadClock
    /\ req' = [req EXCEPT ![c] = r]
    /\ todo' = [todo EXCEPT ![c] = Accepted(r)]
    /\ dels' = [dels EXCEPT ![c] = r.tombs]
    /\ result' = [result EXCEPT ![c] = [m \in Memory |-> FirstVerdict(r, m)]]
    /\ mark' = [mark EXCEPT ![c] = Utc(now)]
    /\ stored' = [stored EXCEPT ![c] = {}]
    /\ pc' = [pc EXCEPT ![c] = "write"]

\* The split push stamps its memories with the server's clock as it arrives.
Restamped(c, r) ==
    IF c \in Split
      THEN [r EXCEPT !.push = [m \in Memory |->
              IF @[m] = None THEN None ELSE [@[m] EXCEPT !.at = Utc(now)]]]
      ELSE r

\* A client's own stamps: any past time in MaxAge, in any zone.  The local clock
\* is taken to agree with the server's.
ClientStamp == {s \in Stamp : 0 < s.t /\ s.t < now /\ now - s.t <= MaxAge}

Since(c) == IF wm[c] = None /\ c \in Split THEN Epoch ELSE wm[c]

Send(c, push, tombs) ==
    /\ pc[c] \in {"idle", "retry"}
    /\ sends < MaxSends
    /\ sends' = sends + 1
    /\ LET r == [push |-> push, tombs |-> tombs, since |-> Since(c)]
           p == [push |-> push, tombs |-> {}, since |-> None]
       IN  \/ c \notin Split /\ Begin(c, r)
           \/ c \in Split /\ push = NoPush /\ tombs = {} /\ Begin(c, r)
           \/ c \in Split /\ push # NoPush /\ tombs = {} /\ Begin(c, Restamped(c, p))
    /\ UNCHANGED <<rowVars, pulled, buried, clientVars, rowHistory, pullHistory, faults>>

Retry(c) ==
    /\ pc[c] = "retry"
    /\ Begin(c, Restamped(c, req[c]))
    /\ UNCHANGED <<rowVars, pulled, buried, clientVars, rowHistory, pullHistory, sends, faults>>

-----------------------------------------------------------------------------
(* Writes.                                                                 *)

\* c's reply, when it comes, will be applied and its watermark stored.
Stores(c) == c \notin Split \/ req[c].since # None

\* A change stamped s is one the client's next pull passes over.
Passed(c, s) ==
    \/ wm[c] # None /\ ~After(s, wm[c])
    \/ pc[c] \in {"bury", "reply"} /\ Stores(c) /\ ~After(s, mark[c])

\* The rows of S have changed, and at' is their new updated_at.
Changed(S) ==
    /\ unseen' = [k \in Client |-> unseen[k] \cup S]
    /\ moved' = [k \in Client |-> moved[k] \cup S]
    /\ late' = [k \in Client |-> (late[k] \ S) \cup {m \in S : Passed(k, at'[m])}]
    /\ skipped' = [k \in Client |-> skipped[k] \ S]

\* One statement takes the next rows of the list, at most ChunkSize of them.
NextChunk(c, S) ==
    /\ S # {} /\ S \subseteq todo[c]
    /\ \/ Cardinality(S) = ChunkSize
       \/ S = todo[c] /\ Cardinality(S) < ChunkSize

\* Last write wins: the write of m that c pushes beats the row's.
BeatsAlways(c, m) == TRUE

Beats(c, m) == content[m] = None \/ Key(at[m]) <= Key(req[c].push[m].at)

StoreChunk(c, S) ==
    /\ pc[c] = "write"
    /\ NextChunk(c, S)
    /\ S \cap Foreign = {}
    /\ LET W == {m \in S : Beats(c, m)} IN
         /\ content' = [m \in Memory |-> IF m \in W THEN req[c].push[m].content ELSE content[m]]
         /\ live' = [m \in Memory |-> m \in W \/ live[m]]
         /\ at' = [m \in Memory |-> IF m \in W THEN req[c].push[m].at ELSE at[m]]
         /\ Changed(W)
    /\ arrived' = [m \in Memory |->
                     IF m \in S THEN arrived[m] \cup {req[c].push[m]} ELSE arrived[m]]
    /\ stored' = [stored EXCEPT ![c] = @ \cup S]
    /\ todo' = [todo EXCEPT ![c] = @ \ S]
    /\ UNCHANGED <<now, pc, req, dels, result, mark, pulled, buried>>
    /\ UNCHANGED <<clientVars, died, sends, faults>>

\* What the reply says of the batch once a chunk failed.
FailedVerdictOfChunk(c, m, S) == IF m \in S THEN "rejected" ELSE result[c][m]

FailedVerdict(c, m, S) == IF result[c][m] = "accepted" THEN "rejected" ELSE result[c][m]

\* A chunk with an id of another project is rolled back, as is one that meets
\* a database error.  Chunks before it stay stored, those after it are not tried.
FailChunk(c, S) ==
    /\ pc[c] = "write"
    /\ NextChunk(c, S)
    /\ IF S \cap Foreign # {} THEN UNCHANGED faults ELSE Fault
    /\ result' = [result EXCEPT ![c] = [m \in Memory |-> FailedVerdict(c, m, S)]]
    /\ todo' = [todo EXCEPT ![c] = {}]
    /\ UNCHANGED <<now, rowVars, pc, req, dels, mark, pulled, buried>>
    /\ UNCHANGED <<clientVars, rowHistory, stored, pullHistory, sends>>

\* The time a deletion writes: cut to the second, not rounded up to it.
DeleteStampUp == Utc((now \div Granule) * Granule + Granule)

DeleteStamp == Utc((now \div Granule) * Granule)

\* Deletes m unless it is not a live memory of the project or the database
\* fails; the results of tombstones are left out.
SoftDelete(c, m) ==
    /\ pc[c] = "write"
    /\ todo[c] = {}
    /\ m \in dels[c]
    /\ dels' = [dels EXCEPT ![c] = @ \ {m}]
    /\ \/ /\ live[m]
          /\ ReadClock
          /\ live' = [live EXCEPT ![m] = FALSE]
          /\ at' = [at EXCEPT ![m] = DeleteStamp]
          /\ Changed({m})
          /\ arrived' = [arrived EXCEPT ![m] = {}]
          /\ died' = [died EXCEPT ![m] = now]
          /\ UNCHANGED faults
       \/ /\ IF live[m] THEN Fault ELSE UNCHANGED faults
          /\ UNCHANGED <<now, live, at, rowHistory, pullHistory>>
    /\ UNCHANGED <<content, pc, req, todo, result, mark, pulled, buried>>
    /\ UNCHANGED <<clientVars, stored, sends>>

-----------------------------------------------------------------------------
(* The pull and the reply.                                                 *)

\* A row both queries look at.
Recent(c, m) == content[m] # None /\ req[c].since # None /\ After(at[m], req[c].since)

PullMemories(c) ==
    /\ pc[c] = "write"
    /\ todo[c] = {} /\ dels[c] = {}
    /\ pulled' = [pulled EXCEPT ![c] = [m \in Memory |->
                    IF Recent(c, m) /\ live[m] /\ content[m] \notin Hidden
                      THEN content[m] ELSE None]]
    /\ moved' = [moved EXCEPT ![c] = {}]
    /\ skipped' = [skipped EXCEPT ![c] =
                    IF Stores(c) /\ req[c].since = None
                      THEN {m \in Memory : content[m] # None} ELSE @]
    /\ pc' = [pc EXCEPT ![c] = "bury"]
    /\ UNCHANGED <<now, rowVars, req, todo, dels, result, mark, buried>>
    /\ UNCHANGED <<clientVars, rowHistory, stored, unseen, late, sends, faults>>

\* The watermark a reply carries.
MarkOfReplyTime(c) == Utc(now)

MarkOfReply(c) == mark[c]

PullTombstones(c) ==
    /\ pc[c] = "bury"
    /\ buried' = [buried EXCEPT ![c] = {m \in Memory : Recent(c, m) /\ ~live[m]}]
    /\ mark' = [mark EXCEPT ![c] = MarkOfReply(c)]
    /\ pc' = [pc EXCEPT ![c] = "reply"]
    /\ UNCHANGED <<now, rowVars, req, todo, dels, result, pulled>>
    /\ UNCHANGED <<clientVars, rowHistory, stored, pullHistory, sends, faults>>

\* The server keeps nothing of a request that is over.
Forget(c) ==
    /\ todo' = [todo EXCEPT ![c] = {}]
    /\ dels' = [dels EXCEPT ![c] = {}]
    /\ result' = [result EXCEPT ![c] = NoResult]
    /\ mark' = [mark EXCEPT ![c] = Epoch]
    /\ pulled' = [pulled EXCEPT ![c] = NoPush]
    /\ buried' = [buried EXCEPT ![c] = {}]
    /\ stored' = [stored EXCEPT ![c] = {}]
    /\ moved' = [moved EXCEPT ![c] = {}]

\* What c has of m after the reply: pulls are applied, then tombstones, which
\* the split pull does not carry.
Applied(c, m) ==
    IF m \in buried[c] /\ c \notin Split THEN None
    ELSE IF pulled[c][m] # None THEN pulled[c][m] ELSE copy[c][m]

Reply(c) ==
    /\ pc[c] = "reply"
    /\ pc' = [pc EXCEPT ![c] = "idle"]
    /\ IF Stores(c)
         THEN /\ copy' = [copy EXCEPT ![c] = [m \in Memory |-> Applied(c, m)]]
              /\ wm' = [wm EXCEPT ![c] = mark[c]]
              /\ unseen' = [unseen EXCEPT ![c] = moved[c]]
         ELSE UNCHANGED <<copy, wm, unseen>>
    /\ req' = [req EXCEPT ![c] = NoRequest]
    /\ Forget(c)
    /\ UNCHANGED <<now, rowVars, rowHistory, late, skipped, sends, faults>>

\* The server dies, the connection breaks or the client gives up waiting: what
\* the request has stored stays stored.
Lose(c) ==
    /\ Fault
    /\ pc[c] \in {"write", "bury", "reply"}
    /\ pc' = [pc EXCEPT ![c] = "retry"]
    /\ Forget(c)
    /\ UNCHANGED <<now, rowVars, req, clientVars, rowHistory, unseen, late, skipped, sends>>

-----------------------------------------------------------------------------
Serve(c) ==
    \/ \E S \in SUBSET todo[c] : StoreChunk(c, S) \/ FailChunk(c, S)
    \/ \E m \in dels[c] : SoftDelete(c, m)
    \/ PullMemories(c) \/ PullTombstones(c)

ClientWrite == [content : Content, at : ClientStamp]

Next == \E c \in Client :
    \/ \E tombs \in SUBSET Memory, push \in [Memory -> ClientWrite \cup {None}] :
          Send(c, push, tombs)
    \/ Retry(c) \/ Serve(c) \/ Reply(c) \/ Lose(c)

Spec == Init /\ [][Next]_vars

-----------------------------------------------------------------------------
\* Last write wins, whatever the order in which requests, retries and
\* deletions arrive: a live row is a write that arrived since the memory was
\* last deleted, no other of them is newer, and it is no older than the deletion.
LiveIsNewest ==
    \A m \in Memory : live[m] =>
        /\ [content |-> content[m], at |-> at[m]] \in arrived[m]
        /\ \A w \in arrived[m] : w.at.t <= at[m].t
        /\ died[m] <= at[m].t

\* A reply never says "accepted" of a push that no committed statement took, to
\* write it or to keep a newer row, however its batch was cut into chunks and
\* whichever chunk failed.
AcceptedIsStored ==
    \A c \in Client, m \in Memory :
        result[c][m] = "accepted" => m \in stored[c] \cup todo[c]

\* What c has of m is what the server has.
Agrees(c, m) ==
    \/ content[m] = None
    \/ IF live[m] THEN content[m] \in Hidden \/ copy[c][m] = content[m]
                  ELSE c \in Split \/ copy[c][m] = None

\* A client that has a watermark is behind the server only by rows that changed
\* since its last pull read them, by rows its first sync left out, and by late
\* ones: changes stamped no later than a watermark already captured when they
\* were stored.  Nothing is lost between the two queries of a pull, in a reply
\* that never came, or in the changes made while a pull was being served.
BehindOnlyByLate ==
    \A c \in Client : wm[c] # None =>
        \A m \in Memory : Agrees(c, m) \/ m \in unseen[c] \cup skipped[c] \cup late[c]

=============================================================================
