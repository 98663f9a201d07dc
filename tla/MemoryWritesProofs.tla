------------------------- MODULE MemoryWritesProofs -------------------------
(***************************************************************************)
(* Idempotent writes, for any memories, keys, payloads and requests in     *)
(* flight: a key writes once in its life, and every answer under it is of  *)
(* that write.                                                             *)
(***************************************************************************)
EXTENDS MemoryWrites, TLAPS

\* What a request has come to carry at each of its stages.
StageOK ==
    \A c \in Client :
        /\ pc[c] # "idle" => req[c] # None
        /\ pc[c] \in {"lookup", "visible", "reply"} => req[c].key # None
        /\ pc[c] = "write" => id[c] # None
        /\ pc[c] \in {"visible", "reply"} => answer[c] # None

\* r is the answer of the write made under k, or what deletion left of it.
OfWrite(k, r, M) ==
    \E a \in M :
        /\ a.key = k /\ a.life = r.life
        /\ a.payload = r.payload /\ a.memory = r.memory
        /\ r.content \in {a.content, Blank}

\* What the ledger keeps is of a write of the key's present life.
LedgerOfWrite ==
    \A k \in Key : ledger[k] # None =>
        ledger[k].life = life[k] /\ OfWrite(k, ledger[k], made)

\* A write of the present life is still in the ledger: so the next one, which
\* finds none there, is the first of its life.
PresentIsKept ==
    \A a \in made :
        /\ a.life <= life[a.key]
        /\ a.life = life[a.key] => ledger[a.key] # None

\* What a handler is about to answer is of a write under its request's key, and
\* of its request's payload.
PendingOfWrite ==
    \A c \in Client : pc[c] \in {"visible", "reply"} =>
        answer[c].payload = req[c].payload /\ OfWrite(req[c].key, answer[c], made)

\* Every answer under a key, first or replayed, before or after a retry, names
\* the payload and the memory of the key's one write, with the content it had
\* then or, once that memory was deleted, with none.
AnswersAgree ==
    \A t \in told : \E a \in made :
        /\ a.key = t.key /\ a.life = t.life
        /\ a.payload = t.payload /\ a.memory = t.memory
        /\ t.content \in {a.content, Blank}

WritesInv ==
    /\ TypeOK
    /\ StageOK
    /\ LedgerOfWrite
    /\ PresentIsKept
    /\ PendingOfWrite
    /\ WritesOnce
    /\ AnswersAgree
    /\ KeptWithItsWrite

-----------------------------------------------------------------------------
\* Redaction keeps the record's place, payload and memory.
LEMMA RedactedRecord ==
    ASSUME NEW S, ledger \in [Key -> Record \cup {None}], NEW k \in Key
    PROVE  /\ Redacted(S)[k] \in Record \cup {None}
           /\ Redacted(S)[k] = None <=> ledger[k] = None
           /\ ledger[k] # None =>
                /\ Redacted(S)[k].payload = ledger[k].payload
                /\ Redacted(S)[k].memory = ledger[k].memory
                /\ Redacted(S)[k].life = ledger[k].life
                /\ Redacted(S)[k].content \in {ledger[k].content, Blank}
<1>1. CASE ledger[k] # None /\ ledger[k].memory \in S
  <2> DEFINE r == [ledger[k] EXCEPT !.content = Blank, !.created = FALSE]
  <2>1. Redacted(S)[k] = r
    BY <1>1 DEF Redacted
  <2>2. ledger[k] \in Record
    BY <1>1
  <2>3. /\ r \in Record
        /\ r.payload = ledger[k].payload /\ r.memory = ledger[k].memory
        /\ r.life = ledger[k].life /\ r.content = Blank
    BY <2>2 DEF Record
  <2>4. QED
    BY <2>1, <2>3, <1>1, NoneAssumption
<1>2. CASE ~(ledger[k] # None /\ ledger[k].memory \in S)
  <2>1. Redacted(S)[k] = ledger[k]
    BY <1>2 DEF Redacted
  <2>2. QED
    BY <2>1
<1>3. QED
  BY <1>1, <1>2

\* What a keyed write keeps is a record of the write it does.
LEMMA SnapshotRecord ==
    ASSUME TypeOK, NEW c \in Client, id[c] # None, req[c] # None, req[c].key # None
    PROVE  /\ req[c].key \in Key /\ req[c].payload \in Payload
           /\ Outcome(c) \in Content
           /\ Snapshot(c) \in Record
           /\ Snapshot(c).payload = req[c].payload
           /\ Snapshot(c).memory = id[c]
           /\ Snapshot(c).content = Outcome(c)
           /\ Snapshot(c).life = life[req[c].key]
<1>1. req[c] \in Request /\ id[c] \in Memory
  BY DEF TypeOK
<1>2. req[c].key \in Key /\ req[c].payload \in Payload
  BY <1>1 DEF Request
<1>3. req[c].payload.content \in Content
  BY <1>2, WritesAssumption
<1>4. Outcome(c) \in Content
  BY <1>1, <1>3 DEF Outcome, Wins, Inserts, TypeOK
<1>5. Inserts(c) \in BOOLEAN /\ life[req[c].key] \in 0..MaxPurges
  BY <1>2 DEF Inserts, TypeOK
<1>6. Snapshot(c) \in Record
  BY <1>1, <1>2, <1>4, <1>5, WritesAssumption DEF Snapshot, Record
<1>7. QED
  BY <1>2, <1>4, <1>6 DEF Snapshot

\* A record kept under its key, and its fields.
LEMMA KeyedFields ==
    ASSUME NEW k \in Key, NEW r \in Record
    PROVE  /\ Keyed(k, r) \in KeyedRecord
           /\ Keyed(k, r).key = k /\ Keyed(k, r).payload = r.payload
           /\ Keyed(k, r).memory = r.memory /\ Keyed(k, r).content = r.content
           /\ Keyed(k, r).life = r.life
BY DEF Keyed, KeyedRecord, Record

\* More writes leave a record of a write one.
LEMMA OfWriteMonotone ==
    ASSUME NEW k, NEW r, NEW M, NEW N, M \subseteq N, OfWrite(k, r, M)
    PROVE  OfWrite(k, r, N)
BY DEF OfWrite

-----------------------------------------------------------------------------
LEMMA InitEstablishesWritesInv == Init => WritesInv
<1> SUFFICES ASSUME Init PROVE WritesInv
  OBVIOUS
<1>1. TypeOK
  BY WritesAssumption DEF Init, TypeOK, RequestPC
<1>2. StageOK /\ PendingOfWrite
  BY DEF Init, StageOK, PendingOfWrite
<1>3. LedgerOfWrite /\ PresentIsKept /\ WritesOnce /\ AnswersAgree /\ KeptWithItsWrite
  BY DEF Init, LedgerOfWrite, PresentIsKept, WritesOnce, AnswersAgree, KeptWithItsWrite
<1>4. QED
  BY <1>1, <1>2, <1>3 DEF WritesInv

\* A step that leaves ledger, lives and writes alone can only disturb the
\* requests and what was told; content never goes.
LEMMA QuietStepKeepsLedger ==
    ASSUME WritesInv, UNCHANGED <<ledger, life, made>>,
           \A m \in Memory : content[m] # None => content'[m] # None
    PROVE  LedgerOfWrite' /\ PresentIsKept' /\ WritesOnce' /\ KeptWithItsWrite'
<1>1. \A k \in Key : ledger[k] # None => ledger[k].memory \in Memory
  BY DEF WritesInv, TypeOK, Record
<1>2. LedgerOfWrite' /\ PresentIsKept' /\ WritesOnce'
  BY DEF WritesInv, LedgerOfWrite, OfWrite, PresentIsKept, WritesOnce
<1>3. KeptWithItsWrite'
  BY <1>1 DEF WritesInv, KeptWithItsWrite
<1>4. QED
  BY <1>2, <1>3

\* Sending, looking up, the gates, failures and losses: nothing is written and
\* nothing told.
LEMMA ArriveKeeps ==
    ASSUME WritesInv, NEW c \in Client, NEW r \in Request, sends' \in 0..MaxSends, Arrive(c, r)
    PROVE  WritesInv'
<1>1. TypeOK'
  BY DEF WritesInv, TypeOK, Arrive, historyVars, rowVars, RequestPC
<1>2. StageOK'
  BY NoneAssumption DEF WritesInv, TypeOK, StageOK, Arrive, historyVars
<1>3. PendingOfWrite'
  BY DEF WritesInv, TypeOK, PendingOfWrite, Arrive, historyVars, OfWrite
<1>4. LedgerOfWrite' /\ PresentIsKept' /\ WritesOnce' /\ KeptWithItsWrite'
  BY QuietStepKeepsLedger DEF Arrive, historyVars, rowVars
<1>5. AnswersAgree'
  BY DEF WritesInv, AnswersAgree, Arrive, historyVars
<1>6. QED
  BY <1>1, <1>2, <1>3, <1>4, <1>5 DEF WritesInv

\* A request that ends, answered or not, leaves the others' answers and all
\* writes as they were.
LEMMA EndKeeps ==
    ASSUME WritesInv, NEW c \in Client, NEW where \in {"idle", "retry"}, End(c, where),
           UNCHANGED ledger, faults' \in 0..MaxFaults,
           IF where = "idle" THEN req' = [req EXCEPT ![c] = None]
                             ELSE pc[c] # "idle" /\ UNCHANGED req
    PROVE  /\ StageOK' /\ PendingOfWrite'
           /\ LedgerOfWrite' /\ PresentIsKept' /\ WritesOnce' /\ KeptWithItsWrite'
           /\ told' \subseteq KeyedRecord => TypeOK'
           /\ told' = told => AnswersAgree'
<1>1. told' \subseteq KeyedRecord => TypeOK'
  BY WritesAssumption DEF WritesInv, TypeOK, End, rowVars, RequestPC
<1>2. StageOK'
  BY DEF WritesInv, TypeOK, StageOK, End
<1>3. PendingOfWrite'
  BY DEF WritesInv, TypeOK, PendingOfWrite, End, OfWrite
<1>4. LedgerOfWrite' /\ PresentIsKept' /\ WritesOnce' /\ KeptWithItsWrite'
  BY QuietStepKeepsLedger DEF End, rowVars
<1>5. told' = told => AnswersAgree'
  BY DEF WritesInv, AnswersAgree, End
<1>6. QED
  BY <1>1, <1>2, <1>3, <1>4, <1>5

LEMMA RefuseKeeps ==
    ASSUME WritesInv, NEW c \in Client, Refuse(c)
    PROVE  WritesInv'
<1>1. /\ StageOK' /\ PendingOfWrite'
      /\ LedgerOfWrite' /\ PresentIsKept' /\ WritesOnce' /\ KeptWithItsWrite'
      /\ told' \subseteq KeyedRecord => TypeOK'
      /\ told' = told => AnswersAgree'
  BY EndKeeps DEF Refuse, GiveUp, WritesInv, TypeOK
<1>2. told' = told /\ told \subseteq KeyedRecord
  BY DEF Refuse, GiveUp, WritesInv, TypeOK
<1>3. QED
  BY <1>1, <1>2 DEF WritesInv

LEMMA LoseKeeps ==
    ASSUME WritesInv, NEW c \in Client, Lose(c)
    PROVE  WritesInv'
<1>1. faults' \in 0..MaxFaults
  BY WritesAssumption DEF Lose, Fault, WritesInv, TypeOK
<1>2. pc[c] # "idle" /\ UNCHANGED <<ledger, req, told>> /\ End(c, "retry")
  BY DEF Lose
<1>3. /\ StageOK' /\ PendingOfWrite'
      /\ LedgerOfWrite' /\ PresentIsKept' /\ WritesOnce' /\ KeptWithItsWrite'
      /\ told' \subseteq KeyedRecord => TypeOK'
      /\ told' = told => AnswersAgree'
  BY <1>1, <1>2, EndKeeps
<1>4. QED
  BY <1>2, <1>3 DEF WritesInv, TypeOK

\* The reply tells what was pending, for the request's payload.
LEMMA ReplyKeeps ==
    ASSUME WritesInv, NEW c \in Client, Reply(c)
    PROVE  WritesInv'
<1> DEFINE t == [Keyed(req[c].key, answer[c]) EXCEPT !.payload = req[c].payload]
<1>1. /\ pc[c] = "reply" /\ answer[c] \in Record
      /\ req[c].key \in Key /\ req[c].payload \in Payload
  BY DEF Reply, WritesInv, TypeOK, StageOK, Request
<1>2. answer[c].payload = req[c].payload /\ OfWrite(req[c].key, answer[c], made)
  BY <1>1 DEF WritesInv, PendingOfWrite
<1>3. t = Keyed(req[c].key, answer[c])
  BY <1>1, <1>2 DEF Keyed
<1>4. /\ t \in KeyedRecord /\ t.key = req[c].key
      /\ t.payload = answer[c].payload /\ t.memory = answer[c].memory
      /\ t.content = answer[c].content /\ t.life = answer[c].life
  <2> HIDE DEF t
  <2>1. QED
    BY <1>1, <1>3, KeyedFields
<1>5. told' = told \cup {t} /\ UNCHANGED made
  BY DEF Reply, End
<1>6. /\ StageOK' /\ PendingOfWrite'
      /\ LedgerOfWrite' /\ PresentIsKept' /\ WritesOnce' /\ KeptWithItsWrite'
      /\ told' \subseteq KeyedRecord => TypeOK'
  BY EndKeeps DEF Reply, WritesInv, TypeOK
<1>7. TypeOK'
  BY <1>4, <1>5, <1>6 DEF WritesInv, TypeOK
<1>8. AnswersAgree'
  <2>1. \E a \in made : /\ a.key = t.key /\ a.life = t.life
                        /\ a.payload = t.payload /\ a.memory = t.memory
                        /\ t.content \in {a.content, Blank}
    BY <1>2, <1>4 DEF OfWrite
  <2> HIDE DEF t
  <2>2. QED
    BY <2>1, <1>5 DEF WritesInv, AnswersAgree
<1>9. QED
  BY <1>6, <1>7, <1>8 DEF WritesInv

LEMMA FindReplayKeeps ==
    ASSUME WritesInv, NEW c \in Client, pc[c] \in {"lookup", "write"},
           req[c].key # None, ledger[req[c].key] # None, SamePayload(c), FindReplay(c)
    PROVE  WritesInv'
<1>1. req[c] \in Request /\ req[c].key \in Key /\ ledger[req[c].key] \in Record
  BY DEF WritesInv, StageOK, TypeOK, Request
<1>2. TypeOK'
  BY <1>1 DEF WritesInv, TypeOK, FindReplay, historyVars, rowVars, RequestPC
<1>3. StageOK'
  BY DEF WritesInv, TypeOK, StageOK, FindReplay, historyVars
<1>4. PendingOfWrite'
  <2>1. /\ ledger[req[c].key].payload = req[c].payload
        /\ OfWrite(req[c].key, ledger[req[c].key], made)
    BY <1>1 DEF WritesInv, LedgerOfWrite, SamePayload
  <2>2. QED
    BY <2>1 DEF WritesInv, TypeOK, PendingOfWrite, FindReplay, historyVars, OfWrite
<1>5. LedgerOfWrite' /\ PresentIsKept' /\ WritesOnce' /\ KeptWithItsWrite'
  BY QuietStepKeepsLedger DEF FindReplay, historyVars, rowVars
<1>6. AnswersAgree'
  BY DEF WritesInv, AnswersAgree, FindReplay, historyVars
<1>7. QED
  BY <1>2, <1>3, <1>4, <1>5, <1>6 DEF WritesInv

\* A request that goes on to its gates, its write, its load or its reply.
LEMMA AdvanceKeeps ==
    ASSUME WritesInv, NEW c \in Client,
           UNCHANGED <<ledger, req, answer, life, made, told>>, TypeOK',
           \/ pc' = [pc EXCEPT ![c] = "gate"] /\ pc[c] = "lookup" /\ UNCHANGED id
           \/ pc' = [pc EXCEPT ![c] = "write"] /\ pc[c] = "gate" /\ id'[c] # None
              /\ \A d \in Client \ {c} : id'[d] = id[d]
           \/ pc' = [pc EXCEPT ![c] = "load"] /\ pc[c] = "write" /\ UNCHANGED id
           \/ pc' = [pc EXCEPT ![c] = "reply"] /\ pc[c] = "visible" /\ UNCHANGED id,
           \A m \in Memory : content[m] # None => content'[m] # None
    PROVE  WritesInv'
<1>1. StageOK'
  BY DEF WritesInv, TypeOK, StageOK
<1>2. PendingOfWrite'
  BY DEF WritesInv, TypeOK, PendingOfWrite, OfWrite
<1>3. LedgerOfWrite' /\ PresentIsKept' /\ WritesOnce' /\ KeptWithItsWrite'
  BY QuietStepKeepsLedger
<1>4. AnswersAgree'
  BY DEF WritesInv, AnswersAgree
<1>5. QED
  BY <1>1, <1>2, <1>3, <1>4 DEF WritesInv

LEMMA LookupKeeps ==
    ASSUME WritesInv, NEW c \in Client, Lookup(c)
    PROVE  WritesInv'
<1>1. CASE Replays(c) /\ SamePayload(c) /\ FindReplay(c)
  BY <1>1, FindReplayKeeps DEF Lookup, historyVars, Replays, WritesInv, StageOK
<1>2. CASE Refuse(c)
  BY <1>2, RefuseKeeps
<1>3. CASE /\ pc' = [pc EXCEPT ![c] = "gate"]
           /\ UNCHANGED <<now, rowVars, active, ledger, used, req, id, stamp, answer>>
           /\ UNCHANGED <<gone, historyVars, sends, faults>>
  <2>1. TypeOK'
    BY <1>3 DEF WritesInv, TypeOK, historyVars, rowVars, RequestPC
  <2>2. QED
    BY <1>3, <2>1, AdvanceKeeps DEF Lookup, historyVars, rowVars
<1>4. QED
  BY <1>1, <1>2, <1>3 DEF Lookup, historyVars

LEMMA GateAdmitsKeeps ==
    ASSUME WritesInv, NEW c \in Client, NEW m \in Memory, GateAdmits(c, m)
    PROVE  WritesInv'
<1>1. TypeOK'
  BY WritesAssumption DEF WritesInv, TypeOK, GateAdmits, historyVars, ReadClock, rowVars, RequestPC
<1>2. id'[c] # None /\ \A d \in Client \ {c} : id'[d] = id[d]
  BY WritesAssumption DEF WritesInv, TypeOK, GateAdmits, historyVars
<1>3. QED
  BY <1>1, <1>2, AdvanceKeeps DEF GateAdmits, historyVars, rowVars

LEMMA VisibleKeeps ==
    ASSUME WritesInv, NEW c \in Client, Visible(c)
    PROVE  WritesInv'
<1>1. CASE Refuse(c)
  BY <1>1, RefuseKeeps
<1>2. CASE ~Refuse(c)
  <2>1. TypeOK'
    BY <1>2 DEF Visible, historyVars, WritesInv, TypeOK, rowVars, RequestPC
  <2>2. QED
    BY <1>2, <2>1, AdvanceKeeps DEF Visible, historyVars, rowVars
<1>3. QED
  BY <1>1, <1>2

\* The upsert keeps the types of the row and leaves one where it writes.
LEMMA UpsertLeavesRow ==
    ASSUME WritesInv, NEW c \in Client, pc[c] = "write", UpsertMemory(c)
    PROVE  /\ content' \in [Memory -> Content \cup {None}]
           /\ live' \in [Memory -> BOOLEAN] /\ at' \in [Memory -> 0..MaxTime]
           /\ content'[id[c]] # None
           /\ \A m \in Memory : content[m] # None => content'[m] # None
<1>1. req[c] \in Request /\ id[c] \in Memory /\ stamp[c] \in 0..MaxTime
  BY DEF WritesInv, StageOK, TypeOK
<1>2. req[c].payload.content \in Content
  BY <1>1, WritesAssumption DEF Request
<1>3. CASE Wins(c)
  <2>1. Outcome(c) = req[c].payload.content
    BY <1>3 DEF Outcome
  <2>2. req[c].payload.content # None
    BY <1>2, WritesAssumption
  <2>3. /\ content' = [content EXCEPT ![id[c]] = req[c].payload.content]
        /\ live' = [live EXCEPT ![id[c]] = TRUE]
        /\ at' = [at EXCEPT ![id[c]] = stamp[c]]
    BY <1>3, <2>1 DEF UpsertMemory
  <2>4. QED
    BY <1>1, <1>2, <2>2, <2>3 DEF WritesInv, TypeOK
<1>4. CASE ~Wins(c)
  BY <1>1, <1>4 DEF UpsertMemory, rowVars, Wins, Inserts, WritesInv, TypeOK
<1>5. QED
  BY <1>3, <1>4

LEMMA WriteUnkeyedKeeps ==
    ASSUME WritesInv, NEW c \in Client, WriteUnkeyed(c)
    PROVE  WritesInv'
<1>1. /\ content' \in [Memory -> Content \cup {None}]
      /\ live' \in [Memory -> BOOLEAN] /\ at' \in [Memory -> 0..MaxTime]
      /\ \A m \in Memory : content[m] # None => content'[m] # None
  BY UpsertLeavesRow DEF WriteUnkeyed, historyVars
<1>2. TypeOK'
  BY <1>1 DEF WriteUnkeyed, historyVars, WritesInv, TypeOK, RequestPC
<1>3. QED
  BY <1>1, <1>2, AdvanceKeeps DEF WriteUnkeyed, historyVars

LEMMA WriteConflictsKeeps ==
    ASSUME WritesInv, NEW c \in Client, WriteConflicts(c)
    PROVE  WritesInv'
BY RefuseKeeps DEF WriteConflicts, LedgerRolledBack, Refuse

LEMMA WriteReplaysKeeps ==
    ASSUME WritesInv, NEW c \in Client, WriteReplays(c)
    PROVE  WritesInv'
BY FindReplayKeeps, RefuseKeeps DEF WriteReplays, Reserves

-----------------------------------------------------------------------------
\* The first write of a life: no other of that life has been made, since it
\* would still be in the ledger.
LEMMA WriteKeyedKeeps ==
    ASSUME WritesInv, NEW c \in Client, WriteKeyed(c)
    PROVE  WritesInv'
<1> DEFINE k == req[c].key
           s == Snapshot(c)
           a == Keyed(k, s)
<1>1. /\ k \in Key /\ s \in Record /\ id[c] \in Memory
      /\ s.payload = req[c].payload /\ s.memory = id[c] /\ s.life = life[k]
  BY SnapshotRecord DEF WriteKeyed, WritesInv, StageOK, TypeOK
<1>2. s # None
  BY <1>1, NoneAssumption
<1>3. /\ a \in KeyedRecord /\ a.key = k /\ a.payload = s.payload
      /\ a.memory = s.memory /\ a.content = s.content /\ a.life = s.life
  BY <1>1, KeyedFields
<1>4. /\ pc[c] = "write" /\ ledger[k] = None /\ id[c] \notin Foreign
      /\ ledger' = [ledger EXCEPT ![k] = s] /\ answer' = [answer EXCEPT ![c] = s]
      /\ made' = made \cup {a} /\ pc' = [pc EXCEPT ![c] = "reply"]
      /\ UNCHANGED <<now, active, used, req, id, stamp, gone, life, told, erased, sends, faults>>
  BY DEF WriteKeyed, Reserves
<1>5. /\ content' \in [Memory -> Content \cup {None}]
      /\ live' \in [Memory -> BOOLEAN] /\ at' \in [Memory -> 0..MaxTime]
      /\ content'[id[c]] # None
      /\ \A m \in Memory : content[m] # None => content'[m] # None
  BY UpsertLeavesRow DEF WriteKeyed
<1> HIDE DEF k, s, a
<1>6. TypeOK'
  BY <1>1, <1>3, <1>4, <1>5 DEF WritesInv, TypeOK, RequestPC
<1>7. StageOK'
  <2>1. k # None
    BY <1>1, WritesAssumption
  <2>2. QED
    BY <1>2, <1>4, <2>1 DEF WritesInv, TypeOK, StageOK, k
<1>8. OfWrite(k, s, made')
  BY <1>3, <1>4 DEF OfWrite
<1>9. \A j, r : OfWrite(j, r, made) => OfWrite(j, r, made')
  BY <1>4 DEF OfWrite
<1>10. LedgerOfWrite'
  BY <1>1, <1>4, <1>8, <1>9 DEF WritesInv, TypeOK, LedgerOfWrite
<1>11. PresentIsKept'
  <2>1. life[k] \in 0..MaxPurges
    BY <1>1 DEF WritesInv, TypeOK
  <2>2. QED
    BY <1>1, <1>2, <1>3, <1>4, <2>1, WritesAssumption
       DEF WritesInv, TypeOK, PresentIsKept, KeyedRecord
<1>12. PendingOfWrite'
  BY <1>1, <1>4, <1>8, <1>9 DEF WritesInv, TypeOK, PendingOfWrite, k
<1>13. WritesOnce'
  <2>1. \A b \in made : ~(b.key = k /\ b.life = life[k])
    BY <1>4 DEF WritesInv, PresentIsKept
  <2>2. QED
    BY <1>1, <1>3, <1>4, <2>1 DEF WritesInv, WritesOnce
<1>14. AnswersAgree'
  BY <1>4 DEF WritesInv, AnswersAgree
<1>15. KeptWithItsWrite'
  <2>1. \A j \in Key : ledger[j] # None => ledger[j].memory \in Memory
    BY DEF WritesInv, TypeOK, Record
  <2>2. QED
    BY <1>1, <1>4, <1>5, <2>1 DEF WritesInv, TypeOK, KeptWithItsWrite
<1>16. QED
  BY <1>6, <1>7, <1>10, <1>11, <1>12, <1>13, <1>14, <1>15 DEF WritesInv

-----------------------------------------------------------------------------
\* What a deletion, single or of the project, leaves in the ledger.
LEMMA RedactionKeepsLedger ==
    ASSUME WritesInv, NEW S, ledger' = Redacted(S), UNCHANGED <<content, life, made>>
    PROVE  LedgerOfWrite' /\ PresentIsKept' /\ WritesOnce' /\ KeptWithItsWrite'
<1>1. \A k \in Key :
        /\ ledger'[k] = None <=> ledger[k] = None
        /\ ledger[k] # None =>
             /\ ledger'[k].payload = ledger[k].payload
             /\ ledger'[k].memory = ledger[k].memory
             /\ ledger'[k].life = ledger[k].life
             /\ ledger'[k].content \in {ledger[k].content, Blank}
  BY RedactedRecord DEF WritesInv, TypeOK
<1>2. LedgerOfWrite'
  BY <1>1 DEF WritesInv, LedgerOfWrite, OfWrite
<1>3. PresentIsKept'
  BY <1>1 DEF WritesInv, TypeOK, KeyedRecord, PresentIsKept
<1>4. WritesOnce' /\ KeptWithItsWrite'
  BY <1>1 DEF WritesInv, WritesOnce, KeptWithItsWrite
<1>5. QED
  BY <1>2, <1>3, <1>4

LEMMA RedactedType ==
    ASSUME NEW S, ledger \in [Key -> Record \cup {None}]
    PROVE  Redacted(S) \in [Key -> Record \cup {None}]
<1>1. \A k \in Key : Redacted(S)[k] \in Record \cup {None}
  BY RedactedRecord
<1>2. Redacted(S) = [k \in Key |-> Redacted(S)[k]]
  BY DEF Redacted
<1>3. QED
  BY <1>1, <1>2

\* Whatever others do, the requests and what was told stay.
LEMMA RequestsUntouched ==
    ASSUME WritesInv, UNCHANGED <<requestVars, made, told>>
    PROVE  StageOK' /\ PendingOfWrite' /\ AnswersAgree'
BY DEF WritesInv, StageOK, PendingOfWrite, OfWrite, AnswersAgree, requestVars

LEMMA PushKeeps ==
    ASSUME WritesInv, NEW m \in Memory, NEW x \in Content, NEW t \in 1..MaxTime,
           Push(m, x, t)
    PROVE  WritesInv'
<1>1. TypeOK'
  BY WritesAssumption DEF Push, historyVars, WritesInv, TypeOK, requestVars
<1>2. x # None
  BY WritesAssumption
<1>3. LedgerOfWrite' /\ PresentIsKept' /\ WritesOnce' /\ KeptWithItsWrite'
  BY <1>2, QuietStepKeepsLedger DEF Push, historyVars, WritesInv, TypeOK
<1>4. QED
  BY <1>1, <1>3, RequestsUntouched DEF Push, historyVars, WritesInv

LEMMA TombstoneTypes ==
    ASSUME WritesInv, NEW m \in Memory, Tombstone(m),
           ledger' \in [Key -> Record \cup {None}],
           erased \subseteq erased' /\ erased' \subseteq made
    PROVE  TypeOK'
BY WritesAssumption DEF Tombstone, ReadClock, WritesInv, TypeOK, requestVars

LEMMA SoftDeleteMemoryKeeps ==
    ASSUME WritesInv, NEW m \in Memory, SoftDeleteMemory(m)
    PROVE  WritesInv'
<1>1. TypeOK'
  BY TombstoneTypes, RedactedType DEF SoftDeleteMemory, DeleteAnswers, WritesInv, TypeOK
<1>2. LedgerOfWrite' /\ PresentIsKept' /\ WritesOnce' /\ KeptWithItsWrite'
  BY RedactionKeepsLedger DEF SoftDeleteMemory, DeleteAnswers, Tombstone
<1>3. QED
  BY <1>1, <1>2, RequestsUntouched DEF SoftDeleteMemory, Tombstone, WritesInv

LEMMA SoftDeleteMemoriesByWindowKeeps ==
    ASSUME WritesInv, NEW m \in Memory, SoftDeleteMemoriesByWindow(m)
    PROVE  WritesInv'
<1>1. TypeOK'
  BY TombstoneTypes DEF SoftDeleteMemoriesByWindow, WritesInv, TypeOK
<1>2. LedgerOfWrite' /\ PresentIsKept' /\ WritesOnce' /\ KeptWithItsWrite'
  BY QuietStepKeepsLedger DEF SoftDeleteMemoriesByWindow, Tombstone
<1>3. QED
  BY <1>1, <1>2, RequestsUntouched DEF SoftDeleteMemoriesByWindow, Tombstone, WritesInv

LEMMA SoftDeleteProjectKeeps ==
    ASSUME WritesInv, SoftDeleteProject
    PROVE  WritesInv'
<1>1. ledger' \in [Key -> Record \cup {None}]
  BY RedactedType DEF SoftDeleteProject, DeleteAnswers, WritesInv, TypeOK
<1>2. TypeOK'
  BY <1>1 DEF SoftDeleteProject, DeleteAnswers, WritesInv, TypeOK, rowVars, requestVars
<1>3. LedgerOfWrite' /\ PresentIsKept' /\ WritesOnce' /\ KeptWithItsWrite'
  BY RedactionKeepsLedger DEF SoftDeleteProject, DeleteAnswers, rowVars
<1>4. QED
  BY <1>2, <1>3, RequestsUntouched DEF SoftDeleteProject, WritesInv

\* A purge ends the key's life: every write made under it is of an earlier one.
LEMMA PurgeKeeps ==
    ASSUME WritesInv, NEW k \in Key, PurgeMemoryIdempotencyOlderThan(k)
    PROVE  WritesInv'
<1>1. /\ ledger' = [ledger EXCEPT ![k] = None] /\ life' = [life EXCEPT ![k] = @ + 1]
      /\ life[k] < MaxPurges
      /\ UNCHANGED <<now, rowVars, active, used, requestVars, made, told, erased, sends, faults>>
  BY DEF PurgeMemoryIdempotencyOlderThan
<1>2. TypeOK'
  BY <1>1, WritesAssumption DEF WritesInv, TypeOK, rowVars, requestVars
<1>3. LedgerOfWrite'
  BY <1>1 DEF WritesInv, TypeOK, LedgerOfWrite, OfWrite
<1>4. PresentIsKept'
  <2>1. \A a \in made : a.key \in Key /\ a.life \in Nat /\ life[a.key] \in Nat
    BY WritesAssumption DEF WritesInv, TypeOK, KeyedRecord
  <2>2. QED
    BY <1>1, <2>1 DEF WritesInv, TypeOK, PresentIsKept
<1>5. WritesOnce' /\ KeptWithItsWrite'
  BY <1>1 DEF WritesInv, TypeOK, WritesOnce, KeptWithItsWrite, rowVars
<1>6. QED
  BY <1>1, <1>2, <1>3, <1>4, <1>5, RequestsUntouched DEF WritesInv

LEMMA StepKeepsWritesInv == WritesInv /\ [Next]_vars => WritesInv'
<1> SUFFICES ASSUME WritesInv, [Next]_vars PROVE WritesInv'
  OBVIOUS
<1>1. ASSUME NEW c \in Client, Handle(c) PROVE WritesInv'
  <2>1. ASSUME NEW r \in Request, Send(c, r) PROVE WritesInv'
    <3>1. sends' \in 0..MaxSends
      BY <2>1, WritesAssumption DEF Send, WritesInv, TypeOK
    <3>2. QED
      BY <2>1, <3>1, ArriveKeeps DEF Send
  <2>2. CASE Retry(c)
    <3>1. req[c] \in Request
      BY <2>2 DEF Retry, WritesInv, StageOK, TypeOK
    <3>2. sends' \in 0..MaxSends
      BY <2>2 DEF Retry, WritesInv, TypeOK
    <3>3. QED
      BY <2>2, <3>1, <3>2, ArriveKeeps DEF Retry
  <2>3. CASE Lookup(c) \/ WriteConflicts(c) \/ WriteUnkeyed(c) \/ WriteKeyed(c)
             \/ WriteReplays(c) \/ Visible(c) \/ Reply(c) \/ Lose(c)
    BY <2>3, LookupKeeps, WriteConflictsKeeps, WriteUnkeyedKeeps, WriteKeyedKeeps,
       WriteReplaysKeeps, VisibleKeeps, ReplyKeeps, LoseKeeps
  <2>4. CASE GateRefuses(c) \/ LoadRow(c)
    BY <2>4, RefuseKeeps DEF GateRefuses, LoadRow
  <2>5. ASSUME NEW m \in Memory, GateAdmits(c, m) PROVE WritesInv'
    BY <2>5, GateAdmitsKeeps
  <2>6. QED
    BY <1>1, <2>1, <2>2, <2>3, <2>4, <2>5 DEF Handle
<1>2. ASSUME NEW m \in Memory, SoftDeleteMemory(m) \/ SoftDeleteMemoriesByWindow(m)
      PROVE  WritesInv'
  BY <1>2, SoftDeleteMemoryKeeps, SoftDeleteMemoriesByWindowKeeps
<1>3. ASSUME NEW m \in Memory, NEW x \in Content, NEW t \in 1..MaxTime, Push(m, x, t)
      PROVE  WritesInv'
  BY <1>3, PushKeeps
<1>4. ASSUME NEW k \in Key, PurgeMemoryIdempotencyOlderThan(k) PROVE WritesInv'
  BY <1>4, PurgeKeeps
<1>5. CASE SoftDeleteProject
  BY <1>5, SoftDeleteProjectKeeps
<1>6. CASE UNCHANGED vars
  <2>1. TypeOK'
    BY <1>6 DEF vars, historyVars, rowVars, requestVars, WritesInv, TypeOK
  <2>2. LedgerOfWrite' /\ PresentIsKept' /\ WritesOnce' /\ KeptWithItsWrite'
    BY <1>6, QuietStepKeepsLedger DEF vars, historyVars, rowVars
  <2>3. QED
    BY <1>6, <2>1, <2>2, RequestsUntouched DEF vars, historyVars, WritesInv
<1>7. QED
  BY <1>1, <1>2, <1>3, <1>4, <1>5, <1>6 DEF Next

\* The inductive invariant holds in every reachable state.
THEOREM WritesInvariant == Spec => []WritesInv
BY InitEstablishesWritesInv, StepKeepsWritesInv, PTL DEF Spec

\* The ledger and the requests keep their types, and a redacted record keeps
\* nothing of its answer.
THEOREM WritesTypeCorrect == Spec => []TypeOK
<1>1. WritesInv => TypeOK
  BY DEF WritesInv
<1>2. QED
  BY <1>1, WritesInvariant, PTL

\* Until its purge a key writes once, for any number of requests that carry it
\* at the same time and any retries.
THEOREM KeyWritesOnce == Spec => []WritesOnce
<1>1. WritesInv => WritesOnce
  BY DEF WritesInv
<1>2. QED
  BY <1>1, WritesInvariant, PTL

\* Every answer under a key names the payload and the memory of its one write,
\* with that write's content or none.
THEOREM AnswersAreOfTheWrite == Spec => []AnswersAgree
<1>1. WritesInv => AnswersAgree
  BY DEF WritesInv
<1>2. QED
  BY <1>1, WritesInvariant, PTL

\* The ledger keeps a key only with the memory its write left.
THEOREM LedgerIsOfRows == Spec => []KeptWithItsWrite
<1>1. WritesInv => KeptWithItsWrite
  BY DEF WritesInv
<1>2. QED
  BY <1>1, WritesInvariant, PTL

-----------------------------------------------------------------------------
(* The refinement: a ledger and its requests against writes executed once. *)

\* r is the answer of a write made under k, whole or what its erasure leaves;
\* the latter if that write is in E.
Exact(k, r, M, E) ==
    \E a \in M :
        /\ Keyed(k, r) \in {a, WO!Erasure(a)}
        /\ a \in E => Keyed(k, r) = WO!Erasure(a)

\* What the ledger keeps of an erased write is its erasure.
LedgerExact == \A k \in Key : ledger[k] # None => Exact(k, ledger[k], made, erased)

Answering == {"visible", "reply"}

\* What is about to be answered was read before or after the erasures since the
\* request came, but after those before.
PendingExact ==
    \A c \in Client : pc[c] \in Answering =>
        Exact(req[c].key, answer[c], made, gone[c])

PromiseInv == LedgerExact /\ PendingExact

LEMMA ExactMonotone ==
    ASSUME NEW k, NEW r, NEW M, NEW N, NEW E, NEW F, Exact(k, r, M, E),
           M \subseteq N, F \subseteq E
    PROVE  Exact(k, r, N, F)
BY DEF Exact

\* Erasing what is erased changes nothing.
LEMMA ErasureFields ==
    ASSUME NEW a \in KeyedRecord
    PROVE  /\ WO!Erasure(a).key = a.key /\ WO!Erasure(a).life = a.life
           /\ WO!Erasure(a).payload = a.payload /\ WO!Erasure(a).memory = a.memory
           /\ WO!Erasure(WO!Erasure(a)) = WO!Erasure(a)
BY DEF WO!Erasure, KeyedRecord

LEMMA ErasureShape ==
    ASSUME NEW a \in KeyedRecord
    PROVE  WO!Erasure(a) =
             [key |-> a.key, payload |-> a.payload, memory |-> a.memory,
              content |-> Blank, created |-> FALSE, life |-> a.life]
<1> DEFINE v == WO!Erasure(a)
<1>1. v \in [key : Key, payload : Payload, memory : Memory, content : {Blank},
             created : {FALSE}, life : 0..MaxPurges]
  BY DEF WO!Erasure, KeyedRecord
<1>2. /\ v.key = a.key /\ v.payload = a.payload /\ v.memory = a.memory
      /\ v.life = a.life /\ v.content = Blank /\ v.created = FALSE
  BY DEF WO!Erasure, KeyedRecord
<1> HIDE DEF v
<1>3. v = [key |-> a.key, payload |-> a.payload, memory |-> a.memory,
           content |-> Blank, created |-> FALSE, life |-> a.life]
  BY <1>1, <1>2
<1>4. QED
  BY <1>3 DEF v

\* The redaction of a record is the erasure of what it is kept as.
LEMMA RedactionErases ==
    ASSUME NEW k \in Key, NEW r \in Record
    PROVE  Keyed(k, [r EXCEPT !.content = Blank, !.created = FALSE])
               = WO!Erasure(Keyed(k, r))
<1> DEFINE q == [r EXCEPT !.content = Blank, !.created = FALSE]
           w == Keyed(k, r)
<1>1. /\ q.payload = r.payload /\ q.memory = r.memory /\ q.life = r.life
      /\ q.content = Blank /\ q.created = FALSE
  BY DEF Record
<1>2. /\ w \in KeyedRecord
      /\ w.key = k /\ w.payload = r.payload /\ w.memory = r.memory /\ w.life = r.life
  BY KeyedFields
<1> HIDE DEF q, w
<1>3. Keyed(k, q) = WO!Erasure(w)
  BY <1>1, <1>2, ErasureShape DEF Keyed
<1>4. QED
  BY <1>3 DEF q, w

\* A step that leaves ledger and writes alone keeps the promise if what it makes
\* a request about to answer is exact.
LEMMA QuietStepKeepsPromise ==
    ASSUME PromiseInv, UNCHANGED <<ledger, made, erased>>,
           \A d \in Client : pc'[d] \in Answering =>
               \/ /\ pc[d] \in Answering /\ req'[d] = req[d]
                  /\ answer'[d] = answer[d] /\ gone'[d] = gone[d]
               \/ Exact(req'[d].key, answer'[d], made, gone'[d])
    PROVE  PromiseInv'
<1>1. LedgerExact'
  BY DEF PromiseInv, LedgerExact, Exact
<1>2. PendingExact'
  BY DEF PromiseInv, PendingExact, Exact
<1>3. QED
  BY <1>1, <1>2 DEF PromiseInv

LEMMA ArriveKeepsPromise ==
    ASSUME WritesInv, PromiseInv, NEW c \in Client, NEW r \in Request, Arrive(c, r)
    PROVE  PromiseInv'
<1>1. \A d \in Client : pc'[d] \in Answering =>
        /\ pc[d] \in Answering /\ req'[d] = req[d]
        /\ answer'[d] = answer[d] /\ gone'[d] = gone[d]
  BY DEF Arrive, WritesInv, TypeOK, Answering
<1>2. QED
  BY <1>1, QuietStepKeepsPromise DEF Arrive, historyVars

LEMMA EndKeepsPromise ==
    ASSUME WritesInv, PromiseInv, NEW c \in Client, NEW where \in {"idle", "retry"},
           End(c, where), UNCHANGED ledger,
           \A d \in Client \ {c} : req'[d] = req[d]
    PROVE  PromiseInv'
<1>1. \A d \in Client : pc'[d] \in Answering =>
        /\ pc[d] \in Answering /\ req'[d] = req[d]
        /\ answer'[d] = answer[d] /\ gone'[d] = gone[d]
  BY DEF End, WritesInv, TypeOK, Answering
<1>2. QED
  BY <1>1, QuietStepKeepsPromise DEF End

LEMMA RefuseKeepsPromise ==
    ASSUME WritesInv, PromiseInv, NEW c \in Client, Refuse(c)
    PROVE  PromiseInv'
<1>1. \A d \in Client \ {c} : req'[d] = req[d]
  BY DEF Refuse, GiveUp, WritesInv, TypeOK
<1>2. QED
  BY <1>1, EndKeepsPromise DEF Refuse, GiveUp

\* A replay is read after its request came: of what was erased before that it
\* finds the erasure.
LEMMA FindReplayKeepsPromise ==
    ASSUME WritesInv, PromiseInv, NEW c \in Client, pc[c] \in {"lookup", "write"},
           req[c].key # None, ledger[req[c].key] # None, FindReplay(c)
    PROVE  PromiseInv'
<1>1. req[c].key \in Key
  BY DEF WritesInv, StageOK, TypeOK, Request
<1>2. gone[c] \subseteq erased
  BY DEF WritesInv, TypeOK
<1>3. Exact(req[c].key, ledger[req[c].key], made, gone[c])
  BY <1>1, <1>2, ExactMonotone DEF PromiseInv, LedgerExact
<1>4. \A d \in Client : pc'[d] \in Answering =>
        \/ /\ pc[d] \in Answering /\ req'[d] = req[d]
           /\ answer'[d] = answer[d] /\ gone'[d] = gone[d]
        \/ Exact(req'[d].key, answer'[d], made, gone'[d])
  BY <1>3 DEF FindReplay, WritesInv, TypeOK, Answering
<1>5. QED
  BY <1>4, QuietStepKeepsPromise DEF FindReplay, historyVars

\* A request that goes on, to its reply only once its replay was found visible.
LEMMA AdvanceKeepsPromise ==
    ASSUME WritesInv, PromiseInv, NEW c \in Client, NEW to,
           UNCHANGED <<ledger, req, answer, gone, made, erased>>,
           pc' = [pc EXCEPT ![c] = to],
           to \in Answering => pc[c] \in Answering
    PROVE  PromiseInv'
<1>1. \A d \in Client : pc'[d] \in Answering =>
        /\ pc[d] \in Answering /\ req'[d] = req[d]
        /\ answer'[d] = answer[d] /\ gone'[d] = gone[d]
  BY DEF WritesInv, TypeOK
<1>2. QED
  BY <1>1, QuietStepKeepsPromise

\* Nothing of the key's present life was written yet, and so nothing erased.
LEMMA WriteIsNew ==
    ASSUME WritesInv, NEW c \in Client, WriteKeyed(c)
    PROVE  /\ req[c].key \in Key /\ Snapshot(c) \in Record
           /\ Keyed(req[c].key, Snapshot(c)) \in KeyedRecord
           /\ Keyed(req[c].key, Snapshot(c)).life = life[req[c].key]
           /\ ~ \E a \in made : a.key = req[c].key /\ a.life = life[req[c].key]
           /\ Keyed(req[c].key, Snapshot(c)) \notin made
<1>1. /\ req[c].key \in Key /\ Snapshot(c) \in Record
      /\ Snapshot(c).life = life[req[c].key]
  BY SnapshotRecord DEF WriteKeyed, WritesInv, StageOK, TypeOK
<1>2. /\ Keyed(req[c].key, Snapshot(c)) \in KeyedRecord
      /\ Keyed(req[c].key, Snapshot(c)).key = req[c].key
      /\ Keyed(req[c].key, Snapshot(c)).life = life[req[c].key]
  BY <1>1, KeyedFields
<1>3. ~ \E a \in made : a.key = req[c].key /\ a.life = life[req[c].key]
  BY DEF WriteKeyed, Reserves, WritesInv, PresentIsKept
<1>4. QED
  BY <1>1, <1>2, <1>3

LEMMA WriteKeyedKeepsPromise ==
    ASSUME WritesInv, PromiseInv, NEW c \in Client, WriteKeyed(c)
    PROVE  PromiseInv'
<1> DEFINE k == req[c].key
           s == Snapshot(c)
           a == Keyed(k, s)
<1>1. k \in Key /\ s \in Record /\ a \notin made
  BY WriteIsNew
<1>2. /\ ledger' = [ledger EXCEPT ![k] = s] /\ answer' = [answer EXCEPT ![c] = s]
      /\ made' = made \cup {a} /\ pc' = [pc EXCEPT ![c] = "reply"]
      /\ UNCHANGED <<req, gone, erased>>
  BY DEF WriteKeyed
<1>3. erased \subseteq made /\ \A d \in Client : gone[d] \subseteq erased
  BY DEF WritesInv, TypeOK
<1>4. \A E : E \subseteq made => Exact(k, s, made', E)
  BY <1>1, <1>2 DEF Exact
<1>5. made \subseteq made' /\ req[c].key = k
  BY <1>2
<1> HIDE DEF k, s, a
<1>6. ASSUME NEW j \in Key, ledger'[j] # None
      PROVE  Exact(j, ledger'[j], made', erased')
  <2>1. CASE j = k
    <3>1. ledger'[j] = s
      BY <1>1, <1>2, <2>1 DEF WritesInv, TypeOK
    <3>2. QED
      BY <1>2, <1>3, <1>4, <2>1, <3>1
  <2>2. CASE j # k
    <3>1. ledger'[j] = ledger[j]
      BY <1>2, <2>2 DEF WritesInv, TypeOK
    <3>2. Exact(j, ledger[j], made, erased)
      BY <1>6, <3>1 DEF PromiseInv, LedgerExact
    <3>3. QED
      BY <1>2, <1>5, <3>1, <3>2, ExactMonotone
  <2>3. QED
    BY <2>1, <2>2
<1>7. ASSUME NEW d \in Client, pc'[d] \in Answering
      PROVE  Exact(req'[d].key, answer'[d], made', gone'[d])
  <2>1. CASE d = c
    <3>1. answer'[d] = s /\ req'[d].key = k /\ gone'[d] \subseteq made
      BY <1>2, <1>3, <1>5, <2>1 DEF WritesInv, TypeOK
    <3>2. QED
      BY <1>4, <3>1
  <2>2. CASE d # c
    <3>1. answer'[d] = answer[d] /\ pc'[d] = pc[d] /\ req'[d] = req[d] /\ gone'[d] = gone[d]
      BY <1>2, <2>2 DEF WritesInv, TypeOK
    <3>2. Exact(req[d].key, answer[d], made, gone[d])
      BY <1>7, <3>1 DEF PromiseInv, PendingExact
    <3>3. QED
      BY <1>5, <3>1, <3>2, ExactMonotone
  <2>3. QED
    BY <2>1, <2>2
<1>8. QED
  BY <1>6, <1>7 DEF PromiseInv, LedgerExact, PendingExact

\* A deletion erases the writes of the memories it deletes, in the ledger and in
\* the history alike.
LEMMA DeletionKeepsPromise ==
    ASSUME WritesInv, PromiseInv, NEW S, DeleteAnswers(S), UNCHANGED <<requestVars, made>>
    PROVE  PromiseInv'
<1>1. PendingExact'
  BY DEF PromiseInv, PendingExact, Exact, requestVars
<1>2. ASSUME NEW k \in Key, ledger'[k] # None
      PROVE  Exact(k, ledger'[k], made', erased')
  <2>1. ledger'[k] = Redacted(S)[k] /\ made' = made
        /\ erased' = erased \cup {a \in made : a.memory \in S}
    BY DEF DeleteAnswers
  <2>2. ledger[k] # None /\ ledger[k] \in Record
    BY <1>2, <2>1, RedactedRecord DEF WritesInv, TypeOK
  <2>3. PICK a \in made : /\ Keyed(k, ledger[k]) \in {a, WO!Erasure(a)}
                          /\ a \in erased => Keyed(k, ledger[k]) = WO!Erasure(a)
    BY <2>2 DEF PromiseInv, LedgerExact, Exact
  <2>4. a \in KeyedRecord
    BY DEF WritesInv, TypeOK
  <2>5. a.memory = ledger[k].memory
    BY <2>2, <2>3, <2>4, ErasureFields, KeyedFields
  <2>6. CASE ledger[k].memory \in S
    <3>1. ledger'[k] = [ledger[k] EXCEPT !.content = Blank, !.created = FALSE]
      BY <2>1, <2>2, <2>6 DEF Redacted
    <3>2. Keyed(k, ledger'[k]) = WO!Erasure(Keyed(k, ledger[k]))
      BY <2>2, <3>1, RedactionErases
    <3>3. Keyed(k, ledger'[k]) = WO!Erasure(a)
      BY <2>3, <2>4, <3>2, ErasureFields
    <3>4. QED
      BY <2>1, <3>3 DEF Exact
  <2>7. CASE ledger[k].memory \notin S
    <3>1. ledger'[k] = ledger[k]
      BY <2>1, <2>7 DEF Redacted
    <3>2. a \in erased' => a \in erased
      BY <2>1, <2>5, <2>7
    <3>3. QED
      BY <2>1, <2>3, <3>1, <3>2 DEF Exact
  <2>8. QED
    BY <2>6, <2>7
<1>3. QED
  BY <1>1, <1>2 DEF PromiseInv, LedgerExact

LEMMA StepKeepsPromise == WritesInv /\ PromiseInv /\ [Next]_vars => PromiseInv'
<1> SUFFICES ASSUME WritesInv, PromiseInv, [Next]_vars PROVE PromiseInv'
  OBVIOUS
<1>1. ASSUME NEW c \in Client, Handle(c) PROVE PromiseInv'
  <2>1. ASSUME NEW r \in Request, Send(c, r) PROVE PromiseInv'
    BY <2>1, ArriveKeepsPromise DEF Send
  <2>2. CASE Retry(c)
    BY <2>2, ArriveKeepsPromise DEF Retry, WritesInv, StageOK, TypeOK
  <2>3. CASE Lookup(c)
    <3>1. CASE Refuse(c)
      BY <3>1, RefuseKeepsPromise
    <3>2. CASE Replays(c) /\ FindReplay(c)
      BY <2>3, <3>2, FindReplayKeepsPromise DEF Lookup, Replays, WritesInv, StageOK
    <3>3. CASE ~Refuse(c) /\ ~(Replays(c) /\ FindReplay(c))
      BY <2>3, <3>3, AdvanceKeepsPromise DEF Lookup, historyVars, Answering
    <3>4. QED
      BY <3>1, <3>2, <3>3
  <2>4. CASE GateRefuses(c) \/ LoadRow(c) \/ WriteConflicts(c)
    BY <2>4, RefuseKeepsPromise
       DEF GateRefuses, LoadRow, WriteConflicts, LedgerRolledBack, Refuse
  <2>5. CASE WriteUnkeyed(c)
    BY <2>5, AdvanceKeepsPromise DEF WriteUnkeyed, historyVars, Answering
  <2>6. CASE WriteKeyed(c)
    BY <2>6, WriteKeyedKeepsPromise
  <2>7. CASE WriteReplays(c)
    BY <2>7, FindReplayKeepsPromise, RefuseKeepsPromise DEF WriteReplays, Reserves
  <2>8. CASE Visible(c)
    <3>1. CASE Refuse(c)
      BY <3>1, RefuseKeepsPromise
    <3>2. CASE ~Refuse(c)
      BY <2>8, <3>2, AdvanceKeepsPromise DEF Visible, historyVars, Answering
    <3>3. QED
      BY <3>1, <3>2
  <2>9. CASE Reply(c)
    <3>1. \A d \in Client \ {c} : req'[d] = req[d]
      BY <2>9 DEF Reply, WritesInv, TypeOK
    <3>2. QED
      BY <2>9, <3>1, EndKeepsPromise DEF Reply
  <2>10. CASE Lose(c)
    BY <2>10, EndKeepsPromise DEF Lose
  <2>11. ASSUME NEW m \in Memory, GateAdmits(c, m) PROVE PromiseInv'
    BY <2>11, AdvanceKeepsPromise DEF GateAdmits, historyVars, Answering
  <2>12. QED
    BY <1>1, <2>1, <2>2, <2>3, <2>4, <2>5, <2>6, <2>7, <2>8, <2>9, <2>10, <2>11 DEF Handle
<1>2. ASSUME NEW m \in Memory, SoftDeleteMemory(m) PROVE PromiseInv'
  BY <1>2, DeletionKeepsPromise DEF SoftDeleteMemory, Tombstone
<1>3. CASE SoftDeleteProject
  BY <1>3, DeletionKeepsPromise DEF SoftDeleteProject
<1>4. ASSUME UNCHANGED <<ledger, made, erased, requestVars>> PROVE PromiseInv'
  BY <1>4, QuietStepKeepsPromise DEF requestVars
<1>5. ASSUME NEW m \in Memory, SoftDeleteMemoriesByWindow(m) PROVE PromiseInv'
  BY <1>4, <1>5 DEF SoftDeleteMemoriesByWindow, Tombstone
<1>6. ASSUME NEW m \in Memory, NEW x \in Content, NEW t \in 1..MaxTime, Push(m, x, t)
      PROVE  PromiseInv'
  BY <1>4, <1>6 DEF Push, historyVars
<1>7. ASSUME NEW k \in Key, PurgeMemoryIdempotencyOlderThan(k) PROVE PromiseInv'
  <2>1. LedgerExact'
    BY <1>7 DEF PurgeMemoryIdempotencyOlderThan, PromiseInv, LedgerExact, Exact,
                WritesInv, TypeOK
  <2>2. PendingExact'
    BY <1>7 DEF PurgeMemoryIdempotencyOlderThan, PromiseInv, PendingExact, Exact,
                requestVars
  <2>3. QED
    BY <2>1, <2>2 DEF PromiseInv
<1>8. CASE UNCHANGED vars
  BY <1>4, <1>8 DEF vars, historyVars
<1>9. QED
  BY <1>1, <1>2, <1>3, <1>5, <1>6, <1>7, <1>8 DEF Next

LEMMA InitEstablishesPromise == Init => PromiseInv
BY DEF Init, PromiseInv, LedgerExact, PendingExact, Answering

\* Whatever is kept or about to be answered under a key is of a write of it,
\* whole or erased, and erased if that write was erased before the request came.
THEOREM PromiseInvariant == Spec => [](WritesInv /\ PromiseInv)
<1>1. Init => WritesInv /\ PromiseInv
  BY InitEstablishesWritesInv, InitEstablishesPromise
<1>2. WritesInv /\ PromiseInv /\ [Next]_vars => (WritesInv /\ PromiseInv)'
  BY StepKeepsWritesInv, StepKeepsPromise
<1>3. QED
  BY <1>1, <1>2, PTL DEF Spec

-----------------------------------------------------------------------------
\* When c asks, and for what.
Asking(c) == pc[c] \notin {"idle", "retry"} /\ req[c].key # None

LEMMA AskedOf ==
    ASSUME WritesInv, NEW c \in Client
    PROVE  /\ Asking(c) => /\ req[c] \in Request
                           /\ Asked[c] # None /\ Asked[c].key = req[c].key
                           /\ Asked[c].payload = req[c].payload
                           /\ Asked[c].gone = gone[c]
           /\ ~Asking(c) => Asked[c] = None
<1>1. CASE Asking(c)
  <2>1. req[c] \in Request /\ req[c].key \in Key /\ req[c].payload \in Payload
    BY <1>1 DEF Asking, WritesInv, StageOK, TypeOK, Request, RequestPC
  <2>2. gone[c] \in SUBSET KeyedRecord
    BY DEF WritesInv, TypeOK
  <2>3. Asked[c] = [key |-> req[c].key, payload |-> req[c].payload, gone |-> gone[c]]
    BY <1>1 DEF Asked, Asking
  <2>4. Asked[c] \in Question
    BY <2>1, <2>2, <2>3 DEF Question
  <2>5. QED
    BY <1>1, <2>1, <2>3, <2>4, NoneAssumption
<1>2. CASE ~Asking(c)
  BY <1>2 DEF Asked, Asking
<1>3. QED
  BY <1>1, <1>2

\* What the step leaves of the questions.
LEMMA AskedUnchanged ==
    ASSUME UNCHANGED <<req, gone>>,
           \A d \in Client : pc'[d] \in {"idle", "retry"} <=> pc[d] \in {"idle", "retry"}
    PROVE  Asked' = Asked
BY DEF Asked

LEMMA AskedEnds ==
    ASSUME WritesInv, NEW c \in Client, NEW where \in {"idle", "retry"}, End(c, where),
           \A d \in Client \ {c} : req'[d] = req[d]
    PROVE  Asked' = [Asked EXCEPT ![c] = None]
<1>1. \A d \in Client : Asked'[d] = IF d = c THEN None ELSE Asked[d]
  BY DEF Asked, End, WritesInv, TypeOK
<1>2. Asked' = [d \in Client |-> Asked'[d]] /\ Asked = [d \in Client |-> Asked[d]]
  BY DEF Asked
<1>3. QED
  BY <1>1, <1>2

LEMMA InitRefines == Init => WO!Init
BY DEF Init, Asked, WO!Init

\* A request with a key asks; one without is no concern of the promise.
LEMMA ArriveRefines ==
    ASSUME WritesInv, NEW c \in Client, NEW r \in Request, pc[c] \in {"idle", "retry"},
           Arrive(c, r)
    PROVE  \/ \E k \in Key, p \in Payload : WO!Ask(c, k, p)
           \/ UNCHANGED WO!vars
<1>1. r.key \in Key \cup {None} /\ r.payload \in Payload
  BY DEF Request
<1>2. \A d \in Client : Asked'[d] =
        IF d # c THEN Asked[d]
        ELSE IF r.key = None THEN None
        ELSE [key |-> r.key, payload |-> r.payload, gone |-> erased]
  BY DEF Asked, Arrive, WritesInv, TypeOK
<1>3. Asked' = [d \in Client |-> Asked'[d]] /\ Asked = [d \in Client |-> Asked[d]]
  BY DEF Asked
<1>4. Asked[c] = None
  BY DEF Asked
<1>5. UNCHANGED <<life, made, erased, told>>
  BY DEF Arrive, historyVars
<1>6. CASE r.key = None
  <2>1. Asked' = Asked
    BY <1>2, <1>3, <1>4, <1>6
  <2>2. QED
    BY <1>5, <2>1 DEF WO!vars
<1>7. CASE r.key # None
  <2>1. Asked' = [Asked EXCEPT ![c] = [key |-> r.key, payload |-> r.payload, gone |-> erased]]
    BY <1>2, <1>3, <1>7
  <2>2. QED
    BY <1>1, <1>4, <1>5, <1>7, <2>1 DEF WO!Ask
<1>8. QED
  BY <1>6, <1>7

LEMMA DropRefines ==
    ASSUME WritesInv, NEW c \in Client, NEW where \in {"idle", "retry"}, End(c, where),
           UNCHANGED told, \A d \in Client \ {c} : req'[d] = req[d]
    PROVE  WO!Drop(c) \/ UNCHANGED WO!vars
<1>1. Asked' = [Asked EXCEPT ![c] = None]
  BY AskedEnds
<1>2. UNCHANGED <<life, made, erased, told>>
  BY DEF End
<1>3. CASE Asked[c] = None
  <2>1. Asked' = Asked
    BY <1>1, <1>3 DEF Asked
  <2>2. QED
    BY <1>2, <2>1 DEF WO!vars
<1>4. CASE Asked[c] # None
  BY <1>1, <1>2, <1>4 DEF WO!Drop
<1>5. QED
  BY <1>3, <1>4

LEMMA RefuseRefines ==
    ASSUME WritesInv, NEW c \in Client, Refuse(c)
    PROVE  WO!Drop(c) \/ UNCHANGED WO!vars
<1>1. \A d \in Client \ {c} : req'[d] = req[d]
  BY DEF Refuse, GiveUp, WritesInv, TypeOK
<1>2. QED
  BY <1>1, DropRefines DEF Refuse, GiveUp

\* A step in the middle of a request that writes nothing under a key.
LEMMA AdvanceRefines ==
    ASSUME WritesInv, NEW c \in Client, pc[c] \notin {"idle", "retry"}, NEW to,
           pc' = [pc EXCEPT ![c] = to], to \notin {"idle", "retry"},
           UNCHANGED <<req, gone, historyVars>>
    PROVE  UNCHANGED WO!vars
<1>1. \A d \in Client : pc'[d] \in {"idle", "retry"} <=> pc[d] \in {"idle", "retry"}
  BY DEF WritesInv, TypeOK
<1>2. QED
  BY <1>1, AskedUnchanged DEF historyVars, WO!vars

\* The transaction that reserves the key is the one that executes the write.
LEMMA WriteKeyedRefines ==
    ASSUME WritesInv, NEW c \in Client, WriteKeyed(c)
    PROVE  WO!Execute(c)
<1> DEFINE k == req[c].key
           a == Keyed(k, Snapshot(c))
<1>1. /\ k \in Key /\ a.life = life[k]
      /\ ~ \E b \in made : b.key = k /\ b.life = life[k]
  BY WriteIsNew
<1>2. /\ Outcome(c) \in Content /\ id[c] \in Memory /\ Inserts(c) \in BOOLEAN
  BY SnapshotRecord DEF WriteKeyed, WritesInv, StageOK, TypeOK, Inserts
<1>3. a = [key |-> k, payload |-> req[c].payload, memory |-> id[c],
           content |-> Outcome(c), created |-> Inserts(c), life |-> life[k]]
  BY DEF Keyed, Snapshot
<1>4. /\ made' = made \cup {a} /\ UNCHANGED <<life, erased, told>>
      /\ pc[c] = "write" /\ pc' = [pc EXCEPT ![c] = "reply"] /\ UNCHANGED <<req, gone>>
      /\ req[c].key # None
  BY DEF WriteKeyed
<1>5. \A d \in Client : pc'[d] \in {"idle", "retry"} <=> pc[d] \in {"idle", "retry"}
  BY <1>4 DEF WritesInv, TypeOK
<1>6. Asked' = Asked
  BY <1>4, <1>5, AskedUnchanged
<1>7. Asked[c] # None /\ Asked[c].key = k /\ Asked[c].payload = req[c].payload
  BY <1>4, AskedOf DEF Asking
<1> HIDE DEF k, a
<1>8. ~WO!Written(k)
  BY <1>1 DEF WO!Written
<1>9. \E m \in Memory, x \in Content, inserts \in BOOLEAN :
        made' = made \cup
          {[key |-> Asked[c].key, payload |-> Asked[c].payload, memory |-> m,
            content |-> x, created |-> inserts, life |-> life[Asked[c].key]]}
  BY <1>2, <1>3, <1>4, <1>7
<1>10. QED
  BY <1>4, <1>6, <1>7, <1>8, <1>9 DEF WO!Execute

\* The reply is of the one write its request could be answered with.
LEMMA ReplyRefines ==
    ASSUME WritesInv, PromiseInv, NEW c \in Client, Reply(c)
    PROVE  \E a \in made : \E t \in {a, WO!Erasure(a)} : WO!Answer(c, a, t)
<1> DEFINE k == req[c].key
           t == Keyed(k, answer[c])
<1>1. /\ pc[c] = "reply" /\ answer[c] \in Record /\ k \in Key
      /\ Asking(c)
  BY DEF Reply, WritesInv, TypeOK, StageOK, Request, Asking
<1>2. answer[c].payload = req[c].payload
  BY <1>1 DEF WritesInv, PendingOfWrite
<1>3. PICK a \in made : t \in {a, WO!Erasure(a)} /\ (a \in gone[c] => t = WO!Erasure(a))
  BY <1>1 DEF PromiseInv, PendingExact, Answering, Exact
<1>4. a \in KeyedRecord
  BY DEF WritesInv, TypeOK
<1>5. t.key = k /\ t.payload = req[c].payload
  BY <1>1, <1>2, KeyedFields
<1>6. told' = told \cup {t}
  BY <1>2 DEF Reply, Keyed
<1>7. UNCHANGED <<life, made, erased>> /\ Asked' = [Asked EXCEPT ![c] = None]
  <2>1. \A d \in Client \ {c} : req'[d] = req[d]
    BY DEF Reply, WritesInv, TypeOK
  <2>2. QED
    BY <2>1, AskedEnds DEF Reply, End
<1>8. /\ Asked[c] # None /\ Asked[c].key = k
      /\ Asked[c].payload = req[c].payload /\ Asked[c].gone = gone[c]
  BY <1>1, AskedOf
<1> HIDE DEF k, t
<1>9. a.key = k /\ a.payload = req[c].payload
  BY <1>3, <1>4, <1>5, ErasureFields
<1>10. WO!Answer(c, a, t)
  BY <1>3, <1>6, <1>7, <1>8, <1>9 DEF WO!Answer
<1>11. QED
  BY <1>3, <1>10

LEMMA HandleRefines ==
    ASSUME WritesInv, PromiseInv, NEW c \in Client, Handle(c)
    PROVE  WO!Next \/ UNCHANGED WO!vars
<1>1. ASSUME NEW r \in Request, Send(c, r) PROVE WO!Next \/ UNCHANGED WO!vars
  BY <1>1, ArriveRefines DEF Send, WO!Next
<1>2. CASE Retry(c)
  BY <1>2, ArriveRefines DEF Retry, WritesInv, StageOK, TypeOK, WO!Next
<1>3. CASE GateRefuses(c) \/ LoadRow(c) \/ WriteConflicts(c) \/ Refuse(c)
  BY <1>3, RefuseRefines
     DEF GateRefuses, LoadRow, WriteConflicts, LedgerRolledBack, Refuse, WO!Next
<1>4. CASE Lookup(c) /\ ~Refuse(c)
  BY <1>4, AdvanceRefines DEF Lookup, FindReplay
<1>5. CASE WriteUnkeyed(c)
  BY <1>5, AdvanceRefines DEF WriteUnkeyed
<1>6. CASE WriteKeyed(c)
  BY <1>6, WriteKeyedRefines DEF WO!Next
<1>7. CASE WriteReplays(c) /\ ~Refuse(c)
  BY <1>7, AdvanceRefines DEF WriteReplays, FindReplay
<1>8. CASE Visible(c) /\ ~Refuse(c)
  BY <1>8, AdvanceRefines DEF Visible
<1>9. CASE Reply(c)
  BY <1>9, ReplyRefines DEF WO!Next
<1>10. CASE Lose(c)
  <2>1. WO!Drop(c) \/ UNCHANGED WO!vars
    BY <1>10, DropRefines DEF Lose
  <2>2. QED
    BY <2>1 DEF WO!Next
<1>11. ASSUME NEW m \in Memory, GateAdmits(c, m) PROVE WO!Next \/ UNCHANGED WO!vars
  BY <1>11, AdvanceRefines DEF GateAdmits
<1>12. QED
  BY <1>1, <1>2, <1>3, <1>4, <1>5, <1>6, <1>7, <1>8, <1>9, <1>10, <1>11 DEF Handle

\* Where the requests stay as they are, so do their questions.
LEMMA OthersRefine ==
    ASSUME UNCHANGED <<requestVars, life, made, told>>
    PROVE  /\ UNCHANGED erased => UNCHANGED WO!vars
           /\ \A S \in SUBSET made : erased' = erased \cup S => WO!Erase(S)
<1>1. Asked' = Asked
  BY DEF requestVars, Asked
<1>2. QED
  BY <1>1 DEF WO!vars, WO!Erase

LEMMA DeletionRefines ==
    ASSUME UNCHANGED <<requestVars, life, made, told>>, NEW S, DeleteAnswers(S)
    PROVE  WO!Next
<1>1. {a \in made : a.memory \in S} \in SUBSET made
  OBVIOUS
<1>2. WO!Erase({a \in made : a.memory \in S})
  BY <1>1, OthersRefine DEF DeleteAnswers
<1>3. QED
  BY <1>1, <1>2 DEF WO!Next

\* A purge forgets a key that was written under.
LEMMA PurgeRefines ==
    ASSUME WritesInv, NEW k \in Key, PurgeMemoryIdempotencyOlderThan(k)
    PROVE  WO!Forget(k)
<1>1. WO!Written(k)
  BY DEF PurgeMemoryIdempotencyOlderThan, WritesInv, LedgerOfWrite, OfWrite, WO!Written
<1>2. Asked' = Asked
  BY DEF PurgeMemoryIdempotencyOlderThan, requestVars, Asked
<1>3. QED
  BY <1>1, <1>2 DEF PurgeMemoryIdempotencyOlderThan, WO!Forget

LEMMA StepRefines ==
    WritesInv /\ PromiseInv /\ [Next]_vars => [WO!Next]_(WO!vars)
<1> SUFFICES ASSUME WritesInv, PromiseInv, [Next]_vars
             PROVE  WO!Next \/ UNCHANGED WO!vars
  OBVIOUS
<1>1. ASSUME NEW c \in Client, Handle(c) PROVE WO!Next \/ UNCHANGED WO!vars
  BY <1>1, HandleRefines
<1>2. ASSUME NEW m \in Memory, SoftDeleteMemory(m) PROVE WO!Next
  BY <1>2, DeletionRefines DEF SoftDeleteMemory, Tombstone
<1>3. CASE SoftDeleteProject
  BY <1>3, DeletionRefines DEF SoftDeleteProject
<1>4. ASSUME NEW m \in Memory, SoftDeleteMemoriesByWindow(m) PROVE UNCHANGED WO!vars
  BY <1>4, OthersRefine DEF SoftDeleteMemoriesByWindow, Tombstone
<1>5. ASSUME NEW m \in Memory, NEW x \in Content, NEW t \in 1..MaxTime, Push(m, x, t)
      PROVE  UNCHANGED WO!vars
  BY <1>5, OthersRefine DEF Push, historyVars
<1>6. ASSUME NEW k \in Key, PurgeMemoryIdempotencyOlderThan(k) PROVE WO!Next
  BY <1>6, PurgeRefines DEF WO!Next
<1>7. CASE UNCHANGED vars
  BY <1>7, OthersRefine DEF vars, historyVars
<1>8. QED
  BY <1>1, <1>2, <1>3, <1>4, <1>5, <1>6, <1>7 DEF Next

\* The ledger implements writes executed once: every answer under a key is of
\* the one write of the key's life, and shows nothing of it if it was asked for
\* after that write's memory, or the project, was deleted.
THEOREM WritesImplementWriteOnce == Spec => ImplementsWriteOnce
BY PromiseInvariant, InitRefines, StepRefines, PTL
   DEF Spec, ImplementsWriteOnce, WO!Spec
=============================================================================
