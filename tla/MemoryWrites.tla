---------------------------- MODULE MemoryWrites ----------------------------
(***************************************************************************)
(* POST /v1/memories: one actor's requests to one project, with and        *)
(* without an idempotency key, between other writers' pushes, deletions of *)
(* memories and of the project, and the purge of old keys.                 *)
(*                                                                         *)
(* The ledger (memory_write_idempotency) holds what a key's first write    *)
(* answered.  A handler looks its key up, passes the gates that may refuse *)
(* it (content policy, project, quota), and only then writes memory and    *)
(* ledger in one transaction; before a replay is answered it looks whether *)
(* the memory is still there.                                              *)
(***************************************************************************)
EXTENDS Naturals, FiniteSets

CONSTANTS
    Memory,      \* memory ids
    Foreign,     \* ids of another project's memories
    Client,      \* requests that can be in flight at once
    Key,         \* idempotency keys of the actor
    Content,     \* contents a memory can have
    Payload,     \* what a request can say: an id, or None, and a content
    Blank,       \* the content of a redacted answer
    None,
    MaxTime,     \* bound: readings of the clock
    MaxSends,    \* bound: requests
    MaxPurges,   \* bound: purges of a key
    MaxFaults    \* bound: lost requests and database errors

ASSUME WritesAssumption ==
    /\ Foreign \subseteq Memory
    /\ Payload \subseteq [id : Memory \cup {None}, content : Content]
    /\ None \notin Memory \cup Key \cup Content /\ Blank \notin Content
    /\ MaxTime \in Nat /\ MaxSends \in Nat /\ MaxPurges \in Nat /\ MaxFaults \in Nat

VARIABLES
    now,      \* the server's clock: what its next reading shows
    content,  \* content[m]: the project's row m, None if there is none
    live,     \* live[m]: the row is not deleted
    at,       \* at[m]: the row's updated_at
    active,   \* the project is not deleted
    ledger,   \* ledger[k]: what the first write of k answered, or None
    used,     \* ids the server generated
    pc,       \* pc[c]: where c's request is
    req,      \* req[c]: the request c sent last
    id,       \* id[c]: the memory c's request is to write
    stamp,    \* stamp[c]: the time c's request gives its memory
    answer,   \* answer[c]: what the reply will say, or None
    life,     \* history: how often k was purged
    made,     \* history: what the first write under a key answered, per life
    told,     \* history: what clients were answered under a key, per life
    erased,   \* history: those made whose memory was deleted since
    gone,     \* history: gone[c]: those erased when c's request came
    sends, faults

rowVars == <<content, live, at>>
requestVars == <<pc, req, id, stamp, answer, gone>>
historyVars == <<life, made, told, erased>>
vars == <<now, rowVars, active, ledger, used, requestVars, historyVars, sends, faults>>

Named == {p.id : p \in Payload} \ {None}

Request == [key : Key \cup {None}, payload : Payload]

\* A key's life names which of its lives a record is of; created is whether the
\* write inserted the row.  A redacted record says nothing but names the memory.
Record == {r \in [payload : Payload, memory : Memory, content : Content \cup {Blank},
                  created : BOOLEAN, life : 0..MaxPurges] :
              r.content = Blank => ~r.created}

KeyedRecord == [key : Key, payload : Payload, memory : Memory,
                content : Content \cup {Blank}, created : BOOLEAN, life : 0..MaxPurges]

\* What a request under a key asks for, and what must not be shown to it.
Question == [key : Key, payload : Payload, gone : SUBSET KeyedRecord]

ASSUME NoneAssumption == None \notin Record \cup Request \cup Question

RequestPC == {"idle", "retry", "lookup", "gate", "write", "load", "visible", "reply"}

TypeOK ==
    /\ now \in 1..MaxTime + 1
    /\ content \in [Memory -> Content \cup {None}]
    /\ live \in [Memory -> BOOLEAN]
    /\ at \in [Memory -> 0..MaxTime]
    /\ active \in BOOLEAN
    /\ ledger \in [Key -> Record \cup {None}]
    /\ used \subseteq Memory
    /\ pc \in [Client -> RequestPC]
    /\ req \in [Client -> Request \cup {None}]
    /\ id \in [Client -> Memory \cup {None}]
    /\ stamp \in [Client -> 0..MaxTime]
    /\ answer \in [Client -> Record \cup {None}]
    /\ life \in [Key -> 0..MaxPurges]
    /\ made \subseteq KeyedRecord
    /\ told \subseteq KeyedRecord
    /\ erased \subseteq made
    /\ gone \in [Client -> SUBSET erased]
    /\ sends \in 0..MaxSends
    /\ faults \in 0..MaxFaults

Init ==
    /\ now = 1
    /\ content = [m \in Memory |-> None]
    /\ live = [m \in Memory |-> FALSE]
    /\ at = [m \in Memory |-> 0]
    /\ active = TRUE
    /\ ledger = [k \in Key |-> None]
    /\ used = {}
    /\ pc = [c \in Client |-> "idle"]
    /\ req = [c \in Client |-> None]
    /\ id = [c \in Client |-> None]
    /\ stamp = [c \in Client |-> 0]
    /\ answer = [c \in Client |-> None]
    /\ life = [k \in Key |-> 0]
    /\ made = {}
    /\ told = {}
    /\ erased = {}
    /\ gone = [c \in Client |-> {}]
    /\ sends = 0
    /\ faults = 0

Fault == faults < MaxFaults /\ faults' = faults + 1

ReadClock == now <= MaxTime /\ now' = now + 1

Keyed(k, r) == [key |-> k, payload |-> r.payload, memory |-> r.memory,
                content |-> r.content, created |-> r.created, life |-> r.life]

-----------------------------------------------------------------------------
(* The handler, up to the write.                                           *)

Arrive(c, r) ==
    /\ req' = [req EXCEPT ![c] = r]
    /\ pc' = [pc EXCEPT ![c] = IF r.key = None THEN "gate" ELSE "lookup"]
    /\ gone' = [gone EXCEPT ![c] = IF r.key = None THEN {} ELSE erased]
    /\ UNCHANGED <<now, rowVars, active, ledger, used, id, stamp, answer, historyVars, faults>>

Send(c, r) ==
    /\ pc[c] \in {"idle", "retry"}
    /\ sends < MaxSends
    /\ sends' = sends + 1
    /\ Arrive(c, r)

\* A request that was not answered is sent again as it was.
Retry(c) == pc[c] = "retry" /\ Arrive(c, req[c]) /\ UNCHANGED sends

\* The server keeps nothing of a request that is over.
End(c, where) ==
    /\ pc' = [pc EXCEPT ![c] = where]
    /\ id' = [id EXCEPT ![c] = None]
    /\ stamp' = [stamp EXCEPT ![c] = 0]
    /\ answer' = [answer EXCEPT ![c] = None]
    /\ gone' = [gone EXCEPT ![c] = {}]
    /\ UNCHANGED <<now, rowVars, active, used, life, made, erased, sends>>

\* Over with an error the client does not retry.
GiveUp(c) == End(c, "idle") /\ req' = [req EXCEPT ![c] = None] /\ UNCHANGED <<told, faults>>

Refuse(c) == GiveUp(c) /\ UNCHANGED ledger

Replays(c) == ledger[req[c].key] # None

\* The payload hash is compared with the one kept.

SamePayload(c) == ledger[req[c].key].payload = req[c].payload

\* The replay found, before the gates or in the transaction.
FindReplay(c) ==
    /\ answer' = [answer EXCEPT ![c] = ledger[req[c].key]]
    /\ pc' = [pc EXCEPT ![c] = "visible"]
    /\ UNCHANGED <<now, rowVars, active, ledger, used, req, id, stamp>>
    /\ UNCHANGED <<gone, historyVars, sends, faults>>

Lookup(c) ==
    /\ pc[c] = "lookup"
    /\ \/ Replays(c) /\ SamePayload(c) /\ FindReplay(c)
       \/ Replays(c) /\ ~SamePayload(c) /\ Refuse(c)
       \/ /\ ~Replays(c)
          /\ pc' = [pc EXCEPT ![c] = "gate"]
          /\ UNCHANGED <<now, rowVars, active, ledger, used, req, id, stamp, answer>>
          /\ UNCHANGED <<gone, historyVars, sends, faults>>

\* Policy, project or quota say no; the first and the last can change.
GateRefuses(c) == pc[c] = "gate" /\ Refuse(c)

\* The id the client gave, or one no one has.
MayWrite(c, m) ==
    LET given == req[c].payload.id IN
        IF given # None THEN m = given
                        ELSE m \in Memory \ (Named \cup Foreign \cup used)

GateAdmits(c, m) ==
    /\ pc[c] = "gate"
    /\ active
    /\ MayWrite(c, m)
    /\ ReadClock
    /\ id' = [id EXCEPT ![c] = m]
    /\ stamp' = [stamp EXCEPT ![c] = now]
    /\ used' = IF req[c].payload.id = None THEN used \cup {m} ELSE used
    /\ pc' = [pc EXCEPT ![c] = "write"]
    /\ UNCHANGED <<rowVars, active, ledger, req, answer, gone, historyVars, sends, faults>>

-----------------------------------------------------------------------------
(* The write.                                                              *)

Inserts(c) == content[id[c]] = None

\* Last write wins.
Wins(c) == Inserts(c) \/ at[id[c]] <= stamp[c]

\* The row as the transaction leaves it: what the answer will show.
Outcome(c) == IF Wins(c) THEN req[c].payload.content ELSE content[id[c]]

UpsertMemory(c) ==
    IF Wins(c)
      THEN /\ content' = [content EXCEPT ![id[c]] = Outcome(c)]
           /\ live' = [live EXCEPT ![id[c]] = TRUE]
           /\ at' = [at EXCEPT ![id[c]] = stamp[c]]
      ELSE UNCHANGED rowVars

\* Without a key: upsert and commit, then load the row for the answer.
WriteUnkeyed(c) ==
    /\ pc[c] = "write"
    /\ req[c].key = None
    /\ id[c] \notin Foreign
    /\ UpsertMemory(c)
    /\ pc' = [pc EXCEPT ![c] = "load"]
    /\ UNCHANGED <<now, active, ledger, used, req, id, stamp, answer>>
    /\ UNCHANGED <<gone, historyVars, sends, faults>>

LoadRow(c) == pc[c] = "load" /\ Refuse(c)

\* The insert of the key into the ledger finds none there.  (The fault relies
\* on the lookup instead.)
ReservesUnchecked(c) == TRUE

Reserves(c) == ledger[req[c].key] = None

\* What the ledger is to keep of the write.
Snapshot(c) == [payload |-> req[c].payload, memory |-> id[c], content |-> Outcome(c),
                created |-> Inserts(c), life |-> life[req[c].key]]

\* An id of another project rolls the transaction back, reservation included.
\* (The fault commits the reservation on its own.)
LedgerReservedAnyway(c) ==
    IF req[c].key = None THEN ledger ELSE [ledger EXCEPT ![req[c].key] = Snapshot(c)]

LedgerRolledBack(c) == ledger

WriteConflicts(c) ==
    /\ pc[c] = "write"
    /\ req[c].key # None => Reserves(c)
    /\ id[c] \in Foreign
    /\ GiveUp(c)
    /\ ledger' = LedgerRolledBack(c)

\* With a key: reserve it, upsert, read the row back and keep the answer, in one
\* transaction.
WriteKeyed(c) ==
    /\ pc[c] = "write"
    /\ req[c].key # None
    /\ Reserves(c)
    /\ id[c] \notin Foreign
    /\ UpsertMemory(c)
    /\ ledger' = [ledger EXCEPT ![req[c].key] = Snapshot(c)]
    /\ answer' = [answer EXCEPT ![c] = Snapshot(c)]
    /\ made' = made \cup {Keyed(req[c].key, Snapshot(c))}
    /\ pc' = [pc EXCEPT ![c] = "reply"]
    /\ UNCHANGED <<now, active, used, req, id, stamp, gone, life, told, erased, sends, faults>>

\* The key was taken since the lookup.
WriteReplays(c) ==
    /\ pc[c] = "write"
    /\ req[c].key # None
    /\ ~Reserves(c)
    /\ IF SamePayload(c) THEN FindReplay(c) ELSE Refuse(c)

\* A replay is answered only while its memory and the project are there.
Visible(c) ==
    /\ pc[c] = "visible"
    /\ IF live[answer[c].memory] /\ active
         THEN /\ pc' = [pc EXCEPT ![c] = "reply"]
              /\ UNCHANGED <<now, rowVars, active, ledger, used, req, id, stamp, answer>>
              /\ UNCHANGED <<gone, historyVars, sends, faults>>
         ELSE Refuse(c)

Reply(c) ==
    /\ pc[c] = "reply"
    /\ told' = told \cup {[Keyed(req[c].key, answer[c]) EXCEPT !.payload = req[c].payload]}
    /\ End(c, "idle")
    /\ req' = [req EXCEPT ![c] = None]
    /\ UNCHANGED <<ledger, faults>>

\* The database fails, the server dies or the reply is lost: what was committed
\* stays.
Lose(c) ==
    /\ Fault
    /\ pc[c] \notin {"idle", "retry"}
    /\ End(c, "retry")
    /\ UNCHANGED <<ledger, req, told>>

-----------------------------------------------------------------------------
(* Everyone else.                                                          *)

\* The answers kept of the memories of S lose their content.  (The faults leave
\* the rest of the answer as it was, and an answer that reports no insertion.)
RedactedContent(S) ==
    [k \in Key |->
        IF ledger[k] # None /\ ledger[k].memory \in S
          THEN [ledger[k] EXCEPT !.content = Blank] ELSE ledger[k]]

RedactedIfCreated(S) ==
    [k \in Key |->
        IF ledger[k] # None /\ ledger[k].memory \in S /\ ledger[k].created
          THEN [ledger[k] EXCEPT !.content = Blank, !.created = FALSE] ELSE ledger[k]]

Redacted(S) ==
    [k \in Key |->
        IF ledger[k] # None /\ ledger[k].memory \in S
          THEN [ledger[k] EXCEPT !.content = Blank, !.created = FALSE] ELSE ledger[k]]

\* Another writer's push of m, stamped t and not older than the row, which it
\* brings back if it was deleted.
Push(m, x, t) ==
    /\ m \in Named \ Foreign
    /\ at[m] <= t /\ t <= now
    /\ content' = [content EXCEPT ![m] = x]
    /\ live' = [live EXCEPT ![m] = TRUE]
    /\ at' = [at EXCEPT ![m] = t]
    /\ UNCHANGED <<now, active, ledger, used, requestVars, historyVars, sends, faults>>

Tombstone(m) ==
    /\ live[m]
    /\ ReadClock
    /\ live' = [live EXCEPT ![m] = FALSE]
    /\ at' = [at EXCEPT ![m] = now]
    /\ UNCHANGED <<content, active, used, requestVars, life, made, told, sends, faults>>

\* The answers kept of the memories of S are deleted with them.
DeleteAnswers(S) ==
    /\ ledger' = Redacted(S)
    /\ erased' = erased \cup {a \in made : a.memory \in S}

SoftDeleteMemory(m) == Tombstone(m) /\ DeleteAnswers({m})

\* The moderator's deletion of a period leaves the ledger as it is.
SoftDeleteMemoriesByWindow(m) == Tombstone(m) /\ UNCHANGED <<ledger, erased>>

SoftDeleteProject ==
    /\ active' = FALSE
    /\ DeleteAnswers({m \in Memory : content[m] # None})
    /\ UNCHANGED <<now, rowVars, used, requestVars, life, made, told, sends, faults>>

PurgeMemoryIdempotencyOlderThan(k) ==
    /\ ledger[k] # None
    /\ life[k] < MaxPurges
    /\ ledger' = [ledger EXCEPT ![k] = None]
    /\ life' = [life EXCEPT ![k] = @ + 1]
    /\ UNCHANGED <<now, rowVars, active, used, requestVars, made, told, erased, sends, faults>>

Handle(c) ==
    \/ Retry(c) \/ Lookup(c) \/ GateRefuses(c) \/ WriteConflicts(c)
    \/ WriteUnkeyed(c) \/ LoadRow(c) \/ WriteKeyed(c) \/ WriteReplays(c)
    \/ Visible(c) \/ Reply(c) \/ Lose(c)
    \/ \E r \in Request : Send(c, r)
    \/ \E m \in Memory : GateAdmits(c, m)

Next ==
    \/ \E c \in Client : Handle(c)
    \/ \E m \in Memory :
          \/ SoftDeleteMemory(m) \/ SoftDeleteMemoriesByWindow(m)
          \/ \E x \in Content, t \in 1..MaxTime : Push(m, x, t)
    \/ \E k \in Key : PurgeMemoryIdempotencyOlderThan(k)
    \/ SoftDeleteProject

Spec == Init /\ [][Next]_vars

-----------------------------------------------------------------------------
\* Until it is purged, a key writes once, however many requests carry it at the
\* same time, are retried or lost, and whatever ids the server generates for them.
WritesOnce ==
    \A a, b \in made : a.key = b.key /\ a.life = b.life => a = b

\* A key is kept only with its write: one rolled back leaves no reservation that
\* would answer a retry for a memory that never was.
KeptWithItsWrite ==
    \A k \in Key : ledger[k] # None =>
        ledger[k].memory \notin Foreign /\ content[ledger[k].memory] # None

\* A request with a key is asked from its arrival until its end.
Asked ==
    [c \in Client |->
        IF pc[c] \in {"idle", "retry"} \/ req[c].key = None THEN None
        ELSE [key |-> req[c].key, payload |-> req[c].payload, gone |-> gone[c]]]

WO == INSTANCE WriteOnce WITH
        written <- made,
        asked <- Asked

\* The ledger implements writes that are executed once: however its requests
\* interleave with each other, with retries, deletions and purges, each answer is
\* of the one write of its key's life, whole, or redacted; and redacted if it was
\* asked for after that memory, or the project, was deleted.
ImplementsWriteOnce == WO!Spec
=============================================================================
