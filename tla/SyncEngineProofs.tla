-------------------------- MODULE SyncEngineProofs --------------------------
(***************************************************************************)
(* Sync, for any memories, clients, contents and bounds: what is reported  *)
(* accepted is stored, a client is behind only by the rows that            *)
(* BehindOnlyByLate names, and, where times are compared as times and      *)
(* deletions are not cut to a coarser clock, last write wins.              *)
(***************************************************************************)
EXTENDS SyncEngine, TLAPS

\* What a request holds: stamps of the past, and the watermark of its client.
RequestOK ==
    \A c \in Client :
        /\ \A m \in Memory : req[c].push[m] # None =>
             0 < req[c].push[m].at.t /\ req[c].push[m].at.t < now
        /\ todo[c] \subseteq Pushed(req[c])
        /\ pc[c] # "idle" /\ Stores(c) => req[c].since = Since(c)

\* A live row has a content, and a time after the epoch.
RowOK == \A m \in Memory : live[m] => content[m] # None /\ at[m].t > 0

Base == TypeOK /\ RequestOK /\ RowOK

-----------------------------------------------------------------------------
LEMMA NoneIsTyped ==
    /\ NoPush \in [Memory -> Write \cup {None}] /\ NoPush \in [Memory -> Content \cup {None}]
    /\ NoResult \in [Memory -> {"none", "accepted", "rejected"}]
    /\ Epoch \in Stamp /\ Epoch.t = 0 /\ Epoch.z = 0
    /\ NoRequest \in Request /\ NoRequest.push = NoPush /\ NoRequest.since = None
BY SyncAssumption DEF SyncAssumption, NoPush, NoResult, NoRequest, Request, Epoch, Utc, Stamp

LEMMA UtcIsStamp ==
    ASSUME NEW t \in Nat, t <= MaxTime
    PROVE  Utc(t) \in Stamp /\ Utc(t).t = t /\ Utc(t).z = 0
BY SyncAssumption DEF SyncAssumption, Utc, Stamp

\* A deletion is not stamped later than it happens.
LEMMA DeleteStampIsPast ==
    ASSUME TypeOK
    PROVE  DeleteStamp \in Stamp /\ DeleteStamp.t <= now
<1>1. now \in Nat /\ now <= MaxTime /\ Granule \in Nat \ {0} /\ MaxTime \in Nat
  BY SyncAssumption DEF SyncAssumption, TypeOK
<1> DEFINE n == (now \div Granule) * Granule
<1>2. n \in Nat /\ n <= now
  BY <1>1
<1> HIDE DEF n
<1>3. n <= MaxTime
  BY <1>1, <1>2
<1> QED
  BY <1>1, <1>2, <1>3, UtcIsStamp DEF DeleteStamp, n

\* The initial state satisfies Base.
THEOREM BaseInit == Init => Base
<1> SUFFICES ASSUME Init PROVE Base
  OBVIOUS
<1> USE SyncAssumption, NoneIsTyped DEF SyncAssumption, Init
<1>1. /\ now \in 2 .. MaxTime /\ \A m \in Memory : at[m].t < now
      /\ \A c \in Client : mark[c].t < now /\ wm[c] = None
      /\ live \in [Memory -> BOOLEAN] /\ at \in [Memory -> Stamp] /\ died \in [Memory -> 0 .. MaxTime]
      /\ sends \in 0 .. MaxSends /\ faults \in 0 .. MaxFaults
  OBVIOUS
<1>2. /\ content \in [Memory -> Content \cup {None}]
      /\ pc \in [Client -> RequestPC] /\ req \in [Client -> Request]
      /\ todo \in [Client -> SUBSET Memory] /\ dels \in [Client -> SUBSET Memory]
      /\ result \in [Client -> [Memory -> {"none", "accepted", "rejected"}]]
      /\ mark \in [Client -> Stamp]
      /\ pulled \in [Client -> [Memory -> Content \cup {None}]]
      /\ buried \in [Client -> SUBSET Memory]
      /\ copy \in [Client -> [Memory -> Content \cup {None}]]
  BY DEF RequestPC
<1>3. /\ wm \in [Client -> Stamp \cup {None}] /\ arrived \in [Memory -> SUBSET Write]
      /\ stored \in [Client -> SUBSET Memory] /\ unseen \in [Client -> SUBSET Memory]
      /\ moved \in [Client -> SUBSET Memory] /\ late \in [Client -> SUBSET Memory]
      /\ skipped \in [Client -> SUBSET Memory]
  OBVIOUS
<1>4. TypeOK
  BY <1>1, <1>2, <1>3 DEF TypeOK
<1>5. RequestOK /\ RowOK
  BY DEF RequestOK, RowOK, NoPush
<1> QED
  BY <1>4, <1>5 DEF Base

-----------------------------------------------------------------------------
(* A request arrives.                                                      *)

RequestStamps(r) ==
    \A m \in Memory : r.push[m] # None => 0 < r.push[m].at.t /\ r.push[m].at.t <= now

LEMMA BeginBase ==
    ASSUME Base, NEW c \in Client, NEW r \in Request, Begin(c, r), RequestStamps(r),
           c \notin Split \/ r.since # None => r.since = Since(c),
           UNCHANGED <<rowVars, pulled, buried, clientVars, rowHistory, pullHistory, faults>>,
           sends' \in 0 .. MaxSends
    PROVE  Base'
<1> USE SyncAssumption DEF SyncAssumption
<1>1. /\ now \in 2 .. MaxTime /\ now' = now + 1 /\ now' \in 2 .. MaxTime
      /\ req' = [req EXCEPT ![c] = r] /\ todo' = [todo EXCEPT ![c] = Accepted(r)]
      /\ dels' = [dels EXCEPT ![c] = r.tombs]
      /\ result' = [result EXCEPT ![c] = [m \in Memory |-> FirstVerdict(r, m)]]
      /\ mark' = [mark EXCEPT ![c] = Utc(now)] /\ stored' = [stored EXCEPT ![c] = {}]
      /\ pc' = [pc EXCEPT ![c] = "write"]
      /\ UNCHANGED <<content, live, at, pulled, buried, copy, wm, arrived, died, unseen,
                     moved, late, skipped, faults>>
  BY DEF Base, TypeOK, Begin, ReadClock, rowVars, clientVars, rowHistory, pullHistory
<1>2. /\ Utc(now) \in Stamp /\ Utc(now).t = now
      /\ Accepted(r) \subseteq Pushed(r) /\ Pushed(r) \subseteq Memory
      /\ [m \in Memory |-> FirstVerdict(r, m)] \in [Memory -> {"none", "accepted", "rejected"}]
      /\ r.tombs \subseteq Memory
  BY <1>1, UtcIsStamp DEF Accepted, Pushed, FirstVerdict, Request
<1>3. TypeOK'
  <2>1. /\ \A m \in Memory : at'[m].t < now'
        /\ \A k \in Client : mark'[k].t < now' /\ (wm'[k] # None => wm'[k].t < now')
    BY <1>1, <1>2 DEF Base, TypeOK, Stamp
  <2>2. /\ pc' \in [Client -> RequestPC] /\ req' \in [Client -> Request]
        /\ todo' \in [Client -> SUBSET Memory] /\ dels' \in [Client -> SUBSET Memory]
        /\ result' \in [Client -> [Memory -> {"none", "accepted", "rejected"}]]
        /\ mark' \in [Client -> Stamp] /\ stored' \in [Client -> SUBSET Memory]
    BY <1>1, <1>2 DEF Base, TypeOK, RequestPC
  <2> QED
    BY <1>1, <2>1, <2>2 DEF Base, TypeOK
<1>4. RequestOK'
  <2> SUFFICES ASSUME NEW k \in Client
               PROVE  /\ \A m \in Memory : req'[k].push[m] # None =>
                           0 < req'[k].push[m].at.t /\ req'[k].push[m].at.t < now'
                      /\ todo'[k] \subseteq Pushed(req'[k])
                      /\ pc'[k] # "idle" /\ Stores(k)' => req'[k].since = Since(k)'
    BY DEF RequestOK, Pushed
  <2>1. CASE k = c
    <3>1. req'[k] = r /\ todo'[k] = Accepted(r) /\ Since(k)' = Since(k)
      BY <1>1, <2>1 DEF Base, TypeOK, Since
    <3>2. \A m \in Memory : r.push[m] # None => r.push[m].at.t \in Nat
      BY DEF Request, Write, Stamp
    <3> QED
      BY <1>1, <1>2, <2>1, <3>1, <3>2 DEF RequestStamps, Stores
  <2>2. CASE k # c
    <3>1. req'[k] = req[k] /\ todo'[k] = todo[k] /\ pc'[k] = pc[k] /\ Since(k)' = Since(k)
      BY <1>1, <2>2 DEF Base, TypeOK, Since
    <3>2. \A m \in Memory : req[k].push[m] # None => req[k].push[m].at.t \in Nat
      BY DEF Base, TypeOK, Request, Write, Stamp
    <3> QED
      BY <1>1, <3>1, <3>2 DEF Base, RequestOK, Stores
  <2> QED
    BY <2>1, <2>2
<1>5. RowOK'
  BY <1>1 DEF Base, RowOK
<1> QED
  BY <1>3, <1>4, <1>5 DEF Base

\* A split push gets the server's time.
LEMMA RestampedIsRequest ==
    ASSUME Base, NEW c \in Client, NEW r \in Request, RequestStamps(r)
    PROVE  /\ Restamped(c, r) \in Request /\ RequestStamps(Restamped(c, r))
           /\ Restamped(c, r).since = r.since
<1> USE SyncAssumption DEF SyncAssumption
<1>1. now \in Nat /\ now > 0 /\ Utc(now) \in Stamp /\ Utc(now).t = now
  BY UtcIsStamp DEF Base, TypeOK
<1>2. CASE c \notin Split
  BY <1>2 DEF Restamped
<1>3. CASE c \in Split
  <2> DEFINE W(m) == IF r.push[m] = None THEN None ELSE [r.push[m] EXCEPT !.at = Utc(now)]
             p == [m \in Memory |-> W(m)]
  <2>1. Restamped(c, r) = [r EXCEPT !.push = p]
    BY <1>3 DEF Restamped
  <2>2. \A m \in Memory : /\ W(m) \in Write \cup {None}
                          /\ r.push[m] # None => W(m).at = Utc(now)
                          /\ r.push[m] = None => W(m) = None
    <3> SUFFICES ASSUME NEW m \in Memory
                 PROVE  /\ W(m) \in Write \cup {None}
                        /\ r.push[m] # None => W(m).at = Utc(now)
                        /\ r.push[m] = None => W(m) = None
      OBVIOUS
    <3>1. r.push[m] \in Write \cup {None}
      BY DEF Request
    <3> QED
      BY <1>1, <3>1 DEF Write
  <2> HIDE DEF W
  <2>3. p \in [Memory -> Write \cup {None}] /\ \A m \in Memory : p[m] = W(m)
    BY <2>2
  <2> HIDE DEF p
  <2>4. [r EXCEPT !.push = p] \in Request /\ [r EXCEPT !.push = p].push = p
        /\ [r EXCEPT !.push = p].since = r.since
    BY <2>3 DEF Request
  <2> QED
    BY <1>1, <2>1, <2>2, <2>3, <2>4 DEF RequestStamps
<1> QED
  BY <1>2, <1>3

LEMMA SinceIsStamp ==
    ASSUME TypeOK, NEW c \in Client
    PROVE  Since(c) \in Stamp \cup {None} /\ (c \in Split => Since(c) \in Stamp)
BY NoneIsTyped DEF TypeOK, Since

LEMMA SendBase ==
    ASSUME Base, NEW c \in Client, NEW push \in [Memory -> ClientWrite \cup {None}],
           NEW tombs \in SUBSET Memory, Send(c, push, tombs)
    PROVE  /\ Base'
           /\ \E r \in Request : Begin(c, r)
           /\ UNCHANGED <<rowVars, pulled, buried, clientVars, rowHistory, pullHistory>>
<1> DEFINE r == [push |-> push, tombs |-> tombs, since |-> Since(c)]
           p == [push |-> push, tombs |-> {}, since |-> None]
<1>1. push \in [Memory -> Write \cup {None}]
  BY DEF ClientWrite, ClientStamp, Write
<1>2. r \in Request /\ p \in Request
  BY <1>1, SinceIsStamp DEF Request, Base
<1>3. RequestStamps(r) /\ RequestStamps(p)
  <2>1. \A m \in Memory : push[m] # None => push[m] \in ClientWrite
    OBVIOUS
  <2>2. \A w \in ClientWrite : 0 < w.at.t /\ w.at.t <= now
    BY DEF ClientWrite, ClientStamp, Stamp, Base, TypeOK
  <2> QED
    BY <2>1, <2>2 DEF RequestStamps
<1>4. sends' \in 0 .. MaxSends
  BY SyncAssumption DEF SyncAssumption, Send, Base, TypeOK
<1>5. UNCHANGED <<rowVars, pulled, buried, clientVars, rowHistory, pullHistory, faults>>
  BY DEF Send
<1>6. CASE Begin(c, r)
  <2>1. r.since = Since(c)
    OBVIOUS
  <2> HIDE DEF r
  <2> QED
    BY <1>2, <1>3, <1>4, <1>5, <1>6, <2>1, BeginBase
<1>7. CASE c \in Split /\ Begin(c, Restamped(c, p))
  <2>1. p.since = None
    OBVIOUS
  <2> HIDE DEF p
  <2>2. PICK q \in Request : q = Restamped(c, p) /\ RequestStamps(q) /\ q.since = None
    BY <1>2, <1>3, <2>1, RestampedIsRequest
  <2> QED
    BY <1>4, <1>5, <1>7, <2>2, BeginBase
<1> QED
  BY <1>6, <1>7 DEF Send

LEMMA RetryBase ==
    ASSUME Base, NEW c \in Client, Retry(c)
    PROVE  /\ Base'
           /\ \E r \in Request : Begin(c, r)
           /\ UNCHANGED <<rowVars, pulled, buried, clientVars, rowHistory, pullHistory>>
<1>1. req[c] \in Request /\ RequestStamps(req[c])
  <2>1. \A m \in Memory : req[c].push[m] # None => req[c].push[m].at.t \in Nat
    BY DEF Base, TypeOK, Request, Write, Stamp
  <2> QED
    BY <2>1 DEF Base, TypeOK, RequestOK, RequestStamps
<1>2. PICK q \in Request : q = Restamped(c, req[c]) /\ RequestStamps(q) /\ q.since = req[c].since
  BY <1>1, RestampedIsRequest
<1>3. c \notin Split \/ q.since # None => q.since = Since(c)
  BY <1>2 DEF Base, RequestOK, Stores, Retry
<1>4. UNCHANGED <<rowVars, pulled, buried, clientVars, rowHistory, pullHistory, faults>>
  BY DEF Retry
<1>5. Begin(c, q) /\ sends' \in 0 .. MaxSends
  BY <1>2 DEF Retry, Base, TypeOK
<1> QED
  BY <1>2, <1>3, <1>4, <1>5, BeginBase

-----------------------------------------------------------------------------
(* The rest of a request.                                                  *)

\* A request that ends, or goes on to another step, with the rows as they are.
LEMMA ChangedTyped ==
    ASSUME TypeOK, NEW S \in SUBSET Memory, Changed(S)
    PROVE  /\ unseen' \in [Client -> SUBSET Memory] /\ moved' \in [Client -> SUBSET Memory]
           /\ late' \in [Client -> SUBSET Memory] /\ skipped' \in [Client -> SUBSET Memory]
BY DEF TypeOK, Changed

LEMMA PushedWrite ==
    ASSUME Base, NEW c \in Client, NEW m \in Pushed(req[c])
    PROVE  /\ m \in Memory /\ req[c].push[m] \in Write /\ req[c].push[m] # None
           /\ req[c].push[m].content \in Content /\ req[c].push[m].at \in Stamp
           /\ 0 < req[c].push[m].at.t /\ req[c].push[m].at.t < now
BY DEF Base, TypeOK, Request, RequestOK, Pushed, Write

LEMMA StoreChunkBase ==
    ASSUME Base, NEW c \in Client, NEW S \in SUBSET todo[c], StoreChunk(c, S)
    PROVE  Base'
<1> USE SyncAssumption DEF SyncAssumption
<1>1. S \subseteq Pushed(req[c]) /\ S \in SUBSET Memory
  BY DEF Base, RequestOK, TypeOK
<1> DEFINE W == {m \in S : Beats(c, m)}
<1>2. /\ content' = [m \in Memory |-> IF m \in W THEN req[c].push[m].content ELSE content[m]]
      /\ live' = [m \in Memory |-> m \in W \/ live[m]]
      /\ at' = [m \in Memory |-> IF m \in W THEN req[c].push[m].at ELSE at[m]]
      /\ Changed(W)
      /\ arrived' = [m \in Memory |->
                     IF m \in S THEN arrived[m] \cup {req[c].push[m]} ELSE arrived[m]]
      /\ stored' = [stored EXCEPT ![c] = @ \cup S]
      /\ todo' = [todo EXCEPT ![c] = @ \ S]
      /\ UNCHANGED <<now, pc, req, dels, result, mark, pulled, buried, copy, wm, died, sends, faults>>
  BY DEF StoreChunk, clientVars
<1>3. W \subseteq S
  OBVIOUS
<1> HIDE DEF W
<1>4. /\ \A m \in S : /\ req[c].push[m] \in Write /\ req[c].push[m] # None
                      /\ req[c].push[m].content \in Content /\ req[c].push[m].at \in Stamp
                      /\ 0 < req[c].push[m].at.t /\ req[c].push[m].at.t < now
  BY <1>1, PushedWrite
<1>5. TypeOK'
  <2>1. /\ content' \in [Memory -> Content \cup {None}] /\ live' \in [Memory -> BOOLEAN]
        /\ at' \in [Memory -> Stamp] /\ \A m \in Memory : at'[m].t < now
        /\ arrived' \in [Memory -> SUBSET Write]
    BY <1>2, <1>3, <1>4 DEF Base, TypeOK
  <2>2. /\ unseen' \in [Client -> SUBSET Memory] /\ moved' \in [Client -> SUBSET Memory]
        /\ late' \in [Client -> SUBSET Memory] /\ skipped' \in [Client -> SUBSET Memory]
    BY <1>1, <1>2, <1>3, ChangedTyped DEF Base
  <2>3. stored' \in [Client -> SUBSET Memory] /\ todo' \in [Client -> SUBSET Memory]
    BY <1>1, <1>2 DEF Base, TypeOK
  <2> QED
    BY <1>2, <2>1, <2>2, <2>3 DEF Base, TypeOK
<1>6. RequestOK'
  <2>1. \A k \in Client : todo'[k] \subseteq todo[k]
    BY <1>2 DEF Base, TypeOK
  <2> QED
    BY <1>2, <2>1 DEF Base, RequestOK, Pushed, Stores, Since
<1>7. RowOK'
  <2>1. \A m \in W : content'[m] # None /\ at'[m].t > 0
    BY <1>1, <1>2, <1>3, <1>4
  <2>2. \A m \in Memory \ W : content'[m] = content[m] /\ at'[m] = at[m] /\ (live'[m] => live[m])
    BY <1>2
  <2> QED
    BY <2>1, <2>2 DEF Base, RowOK
<1> QED
  BY <1>5, <1>6, <1>7 DEF Base

LEMMA FailChunkBase ==
    ASSUME Base, NEW c \in Client, NEW S \in SUBSET todo[c], FailChunk(c, S)
    PROVE  Base'
<1> USE SyncAssumption DEF SyncAssumption
<1>1. /\ result' = [result EXCEPT ![c] = [m \in Memory |-> FailedVerdict(c, m, S)]]
      /\ todo' = [todo EXCEPT ![c] = {}]
      /\ UNCHANGED <<now, content, live, at, pc, req, dels, mark, pulled, buried, copy, wm,
                     arrived, died, stored, unseen, moved, late, skipped, sends>>
  BY DEF FailChunk, rowVars, clientVars, rowHistory, pullHistory
<1>2. faults' \in 0 .. MaxFaults
  BY DEF FailChunk, Fault, Base, TypeOK
<1>3. \A m \in Memory : FailedVerdict(c, m, S) \in {"none", "accepted", "rejected"}
  BY DEF FailedVerdict, Base, TypeOK
<1>4. TypeOK'
  BY <1>1, <1>2, <1>3 DEF Base, TypeOK
<1>5. RequestOK'
  BY <1>1 DEF Base, TypeOK, RequestOK, Pushed, Stores, Since
<1>6. RowOK'
  BY <1>1 DEF Base, RowOK
<1> QED
  BY <1>4, <1>5, <1>6 DEF Base

\* What a tombstone of c does: it deletes m, or is passed over.
LEMMA SoftDeleteCases ==
    ASSUME Base, NEW c \in Client, NEW m \in dels[c], SoftDelete(c, m)
    PROVE  /\ m \in Memory /\ dels' = [dels EXCEPT ![c] = @ \ {m}] /\ pc[c] = "write"
           /\ UNCHANGED <<content, pc, req, todo, result, mark, pulled, buried, copy, wm,
                          stored, sends>>
           /\ \/ /\ live[m] /\ now < MaxTime /\ now' = now + 1
                 /\ live' = [live EXCEPT ![m] = FALSE] /\ at' = [at EXCEPT ![m] = DeleteStamp]
                 /\ Changed({m})
                 /\ arrived' = [arrived EXCEPT ![m] = {}] /\ died' = [died EXCEPT ![m] = now]
                 /\ faults' = faults
              \/ UNCHANGED <<now, live, at, arrived, died, unseen, moved, late, skipped>>
BY DEF SoftDelete, ReadClock, Base, TypeOK, clientVars, rowHistory, pullHistory

LEMMA SoftDeleteBase ==
    ASSUME Base, NEW c \in Client, NEW m \in dels[c], SoftDelete(c, m)
    PROVE  Base'
<1> USE SyncAssumption DEF SyncAssumption
<1>1. /\ m \in Memory /\ dels' = [dels EXCEPT ![c] = @ \ {m}]
      /\ UNCHANGED <<content, pc, req, todo, result, mark, pulled, buried, copy, wm, stored, sends>>
  BY SoftDeleteCases
<1>2. faults' \in 0 .. MaxFaults
  BY DEF SoftDelete, Fault, Base, TypeOK
<1>3. dels' \in [Client -> SUBSET Memory]
  BY <1>1 DEF Base, TypeOK
<1>4. CASE /\ live[m] /\ now < MaxTime /\ now' = now + 1
           /\ live' = [live EXCEPT ![m] = FALSE] /\ at' = [at EXCEPT ![m] = DeleteStamp]
           /\ Changed({m})
           /\ arrived' = [arrived EXCEPT ![m] = {}] /\ died' = [died EXCEPT ![m] = now]
  <2>1. DeleteStamp \in Stamp /\ DeleteStamp.t <= now
    BY DeleteStampIsPast DEF Base
  <2>2. /\ unseen' \in [Client -> SUBSET Memory] /\ moved' \in [Client -> SUBSET Memory]
        /\ late' \in [Client -> SUBSET Memory] /\ skipped' \in [Client -> SUBSET Memory]
    BY <1>1, <1>4, ChangedTyped DEF Base
  <2>3. now \in 2 .. MaxTime /\ now' \in 2 .. MaxTime /\ now < now'
    BY <1>4 DEF Base, TypeOK
  <2>4. /\ live' \in [Memory -> BOOLEAN] /\ at' \in [Memory -> Stamp]
        /\ arrived' \in [Memory -> SUBSET Write] /\ died' \in [Memory -> 0 .. MaxTime]
    BY <1>1, <1>4, <2>1, <2>3 DEF Base, TypeOK
  <2>5. \A k \in Memory : at'[k].t < now'
    <3> SUFFICES ASSUME NEW k \in Memory PROVE at'[k].t < now'
      OBVIOUS
    <3>1. at[k].t \in Nat /\ DeleteStamp.t \in Nat /\ at[k].t < now
      BY <2>1 DEF Base, TypeOK, Stamp
    <3> QED
      BY <1>1, <1>4, <2>1, <2>3, <3>1 DEF Base, TypeOK
  <2>6. \A k \in Client : mark'[k].t < now' /\ (wm'[k] # None => wm'[k].t < now')
    <3> SUFFICES ASSUME NEW k \in Client
                 PROVE  mark[k].t < now' /\ (wm[k] # None => wm[k].t < now')
      BY <1>1
    <3>1. mark[k].t \in Nat /\ (wm[k] # None => wm[k].t \in Nat)
      BY DEF Base, TypeOK, Stamp
    <3> QED
      BY <2>3, <3>1 DEF Base, TypeOK
  <2>7. TypeOK'
    BY <1>1, <1>2, <1>3, <2>2, <2>3, <2>4, <2>5, <2>6 DEF Base, TypeOK
  <2>8. RequestOK'
    <3>1. \A k \in Client, x \in Memory : req[k].push[x] # None => req[k].push[x].at.t \in Nat
      BY DEF Base, TypeOK, Request, Write, Stamp
    <3> QED
      BY <1>1, <2>3, <3>1 DEF Base, RequestOK, Pushed, Stores, Since
  <2>9. RowOK'
    BY <1>1, <1>4 DEF Base, RowOK, TypeOK
  <2> QED
    BY <2>7, <2>8, <2>9 DEF Base
<1>5. CASE UNCHANGED <<now, live, at, arrived, died, unseen, moved, late, skipped>>
  <2>1. TypeOK'
    BY <1>1, <1>2, <1>3, <1>5 DEF Base, TypeOK
  <2>2. RequestOK' /\ RowOK'
    BY <1>1, <1>5 DEF Base, RequestOK, RowOK, Pushed, Stores, Since
  <2> QED
    BY <2>1, <2>2 DEF Base
<1> QED
  BY <1>4, <1>5, SoftDeleteCases

LEMMA PullBase ==
    ASSUME Base, NEW c \in Client, PullMemories(c) \/ PullTombstones(c)
    PROVE  Base'
<1>1. /\ pc[c] \in {"write", "bury"} /\ pc' \in [Client -> RequestPC]
      /\ pc' = [pc EXCEPT ![c] = pc'[c]]
      /\ UNCHANGED <<now, content, live, at, req, todo, dels, result, copy, wm, arrived, died,
                     stored, unseen, late, sends, faults>>
  BY DEF PullMemories, PullTombstones, Base, TypeOK, RequestPC, rowVars, clientVars, rowHistory,
         pullHistory
<1>2. mark' = mark
  BY DEF PullMemories, PullTombstones, MarkOfReply, Base, TypeOK
<1>3. /\ pulled' \in [Client -> [Memory -> Content \cup {None}]]
      /\ buried' \in [Client -> SUBSET Memory]
      /\ moved' \in [Client -> SUBSET Memory] /\ skipped' \in [Client -> SUBSET Memory]
  <2>1. CASE PullMemories(c)
    <3> DEFINE p == [m \in Memory |-> IF Recent(c, m) /\ live[m] /\ content[m] \notin Hidden
                                      THEN content[m] ELSE None]
    <3>1. p \in [Memory -> Content \cup {None}]
      BY DEF Base, TypeOK
    <3>2. pulled' = [pulled EXCEPT ![c] = p] /\ moved' = [moved EXCEPT ![c] = {}] /\ buried' = buried
      BY <2>1 DEF PullMemories
    <3> HIDE DEF p
    <3>3. skipped' \in [Client -> SUBSET Memory]
      BY <2>1 DEF PullMemories, Base, TypeOK
    <3> QED
      BY <3>1, <3>2, <3>3 DEF Base, TypeOK
  <2>2. CASE PullTombstones(c)
    BY <2>2 DEF PullTombstones, Base, TypeOK, pullHistory
  <2> QED
    BY <2>1, <2>2
<1>4. TypeOK'
  BY <1>1, <1>2, <1>3 DEF Base, TypeOK
<1>5. RequestOK' /\ RowOK'
  BY <1>1 DEF Base, RequestOK, RowOK, Pushed, Stores, Since
<1> QED
  BY <1>4, <1>5 DEF Base

LEMMA ForgetTyped ==
    ASSUME TypeOK, NEW c \in Client, Forget(c)
    PROVE  /\ todo' \in [Client -> SUBSET Memory] /\ dels' \in [Client -> SUBSET Memory]
           /\ result' \in [Client -> [Memory -> {"none", "accepted", "rejected"}]]
           /\ mark' \in [Client -> Stamp]
           /\ pulled' \in [Client -> [Memory -> Content \cup {None}]]
           /\ buried' \in [Client -> SUBSET Memory] /\ stored' \in [Client -> SUBSET Memory]
           /\ moved' \in [Client -> SUBSET Memory]
           /\ todo'[c] = {} /\ \A k \in Client \ {c} : todo'[k] = todo[k]
           /\ \A k \in Client : mark'[k] = IF k = c THEN Epoch ELSE mark[k]
BY NoneIsTyped DEF TypeOK, Forget

LEMMA MarkIsPast ==
    ASSUME Base, NEW c \in Client, Forget(c)
    PROVE  \A k \in Client : mark'[k].t < now
<1>1. now \in Nat /\ 0 < now /\ \A k \in Client : mark[k].t < now
  BY SyncAssumption DEF SyncAssumption, Base, TypeOK
<1>2. \A k \in Client : mark'[k] = IF k = c THEN Epoch ELSE mark[k]
  BY ForgetTyped DEF Base
<1> QED
  BY <1>1, <1>2, NoneIsTyped

LEMMA ReplyBase ==
    ASSUME Base, NEW c \in Client, Reply(c)
    PROVE  Base'
<1>1. /\ pc' = [pc EXCEPT ![c] = "idle"] /\ req' = [req EXCEPT ![c] = NoRequest] /\ Forget(c)
      /\ UNCHANGED <<now, content, live, at, arrived, died, late, skipped, sends, faults>>
  BY DEF Reply, rowVars, rowHistory
<1>2. /\ copy' \in [Client -> [Memory -> Content \cup {None}]]
      /\ wm' \in [Client -> Stamp \cup {None}] /\ unseen' \in [Client -> SUBSET Memory]
      /\ \A k \in Client \ {c} : wm'[k] = wm[k]
      /\ wm'[c] \in {wm[c], mark[c]}
  <2> DEFINE a == [m \in Memory |-> Applied(c, m)]
  <2>1. a \in [Memory -> Content \cup {None}]
    BY DEF Applied, Base, TypeOK
  <2>2. \/ /\ copy' = [copy EXCEPT ![c] = a] /\ wm' = [wm EXCEPT ![c] = mark[c]]
           /\ unseen' = [unseen EXCEPT ![c] = moved[c]]
        \/ UNCHANGED <<copy, wm, unseen>>
    BY DEF Reply
  <2> HIDE DEF a
  <2>3. CASE UNCHANGED <<copy, wm, unseen>>
    BY <2>3 DEF Base, TypeOK
  <2>4. CASE /\ copy' = [copy EXCEPT ![c] = a] /\ wm' = [wm EXCEPT ![c] = mark[c]]
             /\ unseen' = [unseen EXCEPT ![c] = moved[c]]
    <3>1. mark[c] \in Stamp /\ moved[c] \in SUBSET Memory
      BY DEF Base, TypeOK
    <3>2. copy' \in [Client -> [Memory -> Content \cup {None}]]
      BY <2>1, <2>4 DEF Base, TypeOK
    <3>3. wm' \in [Client -> Stamp \cup {None}]
      BY <2>4, <3>1 DEF Base, TypeOK
    <3>4. unseen' \in [Client -> SUBSET Memory]
      BY <2>4, <3>1 DEF Base, TypeOK
    <3> QED
      BY <2>4, <3>2, <3>3, <3>4 DEF Base, TypeOK
  <2> QED
    BY <2>2, <2>3, <2>4
<1>3. TypeOK'
  <2>1. /\ \A m \in Memory : at'[m].t < now'
        /\ \A k \in Client : mark'[k].t < now' /\ (wm'[k] # None => wm'[k].t < now')
    <3>1. \A k \in Client : mark'[k].t < now
      BY <1>1, MarkIsPast
    <3> QED
      BY <1>1, <1>2, <3>1 DEF Base, TypeOK
  <2>2. pc' \in [Client -> RequestPC] /\ req' \in [Client -> Request]
    BY <1>1, NoneIsTyped DEF Base, TypeOK, RequestPC
  <2> QED
    BY <1>1, <1>2, <2>1, <2>2, ForgetTyped DEF Base, TypeOK
<1>4. RequestOK'
  <2> SUFFICES ASSUME NEW k \in Client
               PROVE  /\ \A m \in Memory : req'[k].push[m] # None =>
                           0 < req'[k].push[m].at.t /\ req'[k].push[m].at.t < now'
                      /\ todo'[k] \subseteq Pushed(req'[k])
                      /\ pc'[k] # "idle" /\ Stores(k)' => req'[k].since = Since(k)'
    BY DEF RequestOK, Pushed
  <2>1. CASE k = c
    <3>1. req'[k] = NoRequest /\ todo'[k] = {} /\ pc'[k] = "idle"
      BY <1>1, <2>1, ForgetTyped DEF Base, TypeOK
    <3> QED
      BY <3>1, NoneIsTyped DEF NoPush
  <2>2. CASE k # c
    <3>1. req'[k] = req[k] /\ todo'[k] = todo[k] /\ pc'[k] = pc[k] /\ wm'[k] = wm[k]
      BY <1>1, <1>2, <2>2, ForgetTyped DEF Base, TypeOK
    <3> QED
      BY <1>1, <3>1 DEF Base, RequestOK, Stores, Since
  <2> QED
    BY <2>1, <2>2
<1>5. RowOK'
  BY <1>1 DEF Base, RowOK
<1> QED
  BY <1>3, <1>4, <1>5 DEF Base

LEMMA LoseBase ==
    ASSUME Base, NEW c \in Client, Lose(c)
    PROVE  Base'
<1>1. /\ pc' = [pc EXCEPT ![c] = "retry"] /\ Forget(c) /\ pc[c] # "idle"
      /\ UNCHANGED <<now, content, live, at, req, copy, wm, arrived, died, unseen, late, skipped, sends>>
  BY DEF Lose, rowVars, rowHistory, clientVars
<1>2. faults' \in 0 .. MaxFaults
  BY SyncAssumption DEF SyncAssumption, Lose, Fault, Base, TypeOK
<1>3. TypeOK'
  <2>1. \A k \in Client : mark'[k].t < now
    BY <1>1, MarkIsPast
  <2>2. pc' \in [Client -> RequestPC]
    BY <1>1 DEF Base, TypeOK, RequestPC
  <2> QED
    BY <1>1, <1>2, <2>1, <2>2, ForgetTyped DEF Base, TypeOK
<1>4. RequestOK'
  <2>1. \A k \in Client : /\ todo'[k] \subseteq todo[k]
                          /\ pc'[k] # "idle" => pc[k] # "idle"
    BY <1>1, ForgetTyped DEF Base, TypeOK
  <2> QED
    BY <1>1, <2>1 DEF Base, RequestOK, Pushed, Stores, Since
<1>5. RowOK'
  BY <1>1 DEF Base, RowOK
<1> QED
  BY <1>3, <1>4, <1>5 DEF Base

\* Every reachable state satisfies Base, the types and what the other
\* invariants rest on.
THEOREM SyncInvariant == Spec => []Base
<1>1. ASSUME Base, [Next]_vars PROVE Base'
  <2>1. CASE UNCHANGED vars
    BY <1>1, <2>1 DEF vars, rowVars, requestVars, clientVars, rowHistory, pullHistory, Base, TypeOK,
         RequestOK, RowOK, Pushed, Stores, Since
  <2>2. ASSUME NEW c \in Client, Serve(c) PROVE Base'
    BY <1>1, <2>2, StoreChunkBase, FailChunkBase, SoftDeleteBase, PullBase DEF Serve
  <2> QED
    BY <1>1, <2>1, <2>2, SendBase, RetryBase, ReplyBase, LoseBase DEF Next
<1> QED
  BY <1>1, BaseInit, PTL DEF Spec

\* Every variable keeps its type, and no time is later than the server's clock.
THEOREM SyncTypeCorrect == Spec => []TypeOK
<1>1. Base => TypeOK
  BY DEF Base
<1> QED
  BY <1>1, SyncInvariant, PTL

-----------------------------------------------------------------------------
(* What is reported accepted is stored (sync/engine.go, handlePushes).     *)

LEMMA BeginAccepted ==
    ASSUME Base, AcceptedIsStored, NEW c \in Client, NEW r \in Request, Begin(c, r)
    PROVE  AcceptedIsStored'
<1>1. /\ todo' = [todo EXCEPT ![c] = Accepted(r)]
      /\ result' = [result EXCEPT ![c] = [m \in Memory |-> FirstVerdict(r, m)]]
      /\ stored' = [stored EXCEPT ![c] = {}]
  BY DEF Begin
<1>2. \A m \in Memory : FirstVerdict(r, m) = "accepted" => m \in Accepted(r)
  BY DEF FirstVerdict
<1> QED
  BY <1>1, <1>2 DEF Base, TypeOK, AcceptedIsStored

LEMMA ForgetAccepted ==
    ASSUME Base, AcceptedIsStored, NEW c \in Client, Forget(c)
    PROVE  AcceptedIsStored'
BY DEF Base, TypeOK, AcceptedIsStored, Forget, NoResult

\* A reply never says "accepted" of a push that no committed statement took.
THEOREM AcceptedAlwaysStored == Spec => []AcceptedIsStored
<1>1. Init => AcceptedIsStored
  BY DEF Init, AcceptedIsStored, NoResult
<1>2. ASSUME Base, AcceptedIsStored, [Next]_vars PROVE AcceptedIsStored'
  <2> USE <1>2
  <2>1. CASE UNCHANGED vars
    BY <2>1 DEF vars, requestVars, AcceptedIsStored
  <2>2. ASSUME NEW c \in Client, NEW push \in [Memory -> ClientWrite \cup {None}],
               NEW tombs \in SUBSET Memory, Send(c, push, tombs)
        PROVE  AcceptedIsStored'
    BY <2>2, SendBase, BeginAccepted
  <2>3. ASSUME NEW c \in Client, Retry(c) PROVE AcceptedIsStored'
    BY <2>3, RetryBase, BeginAccepted
  <2>4. ASSUME NEW c \in Client, NEW S \in SUBSET todo[c], StoreChunk(c, S)
        PROVE  AcceptedIsStored'
    BY <2>4 DEF StoreChunk, AcceptedIsStored, Base, TypeOK
  <2>5. ASSUME NEW c \in Client, NEW S \in SUBSET todo[c], FailChunk(c, S)
        PROVE  AcceptedIsStored'
    <3>1. \A m \in Memory : FailedVerdict(c, m, S) # "accepted"
      BY DEF FailedVerdict
    <3> QED
      BY <2>5, <3>1 DEF FailChunk, AcceptedIsStored, Base, TypeOK
  <2>6. ASSUME NEW c \in Client, NEW m \in dels[c], SoftDelete(c, m) PROVE AcceptedIsStored'
    BY <2>6, SoftDeleteCases DEF AcceptedIsStored
  <2>7. ASSUME NEW c \in Client, PullMemories(c) \/ PullTombstones(c) PROVE AcceptedIsStored'
    BY <2>7 DEF PullMemories, PullTombstones, AcceptedIsStored
  <2>8. ASSUME NEW c \in Client, Reply(c) \/ Lose(c) PROVE AcceptedIsStored'
    BY <2>8, ForgetAccepted DEF Reply, Lose
  <2> QED
    BY <2>1, <2>2, <2>3, <2>4, <2>5, <2>6, <2>7, <2>8 DEF Next, Serve
<1> QED
  BY <1>1, <1>2, SyncInvariant, PTL DEF Spec

-----------------------------------------------------------------------------
(* Last write wins (sqlite_memory.go, upsertMemoriesChunk), in a store that *)
(* compares times and stamps deletions with its clock.                     *)

\* No write since the last deletion is newer than the row, live or not.
NewestOK ==
    \A m \in Memory :
        /\ live[m] => [content |-> content[m], at |-> at[m]] \in arrived[m]
        /\ \A w \in arrived[m] : w.at.t <= at[m].t
        /\ died[m] <= at[m].t
        /\ content[m] = None => arrived[m] = {} /\ died[m] = 0

Exact == Granule = 1 /\ WallClock = FALSE

LEMMA StoreChunkNewest ==
    ASSUME Exact, Base, NewestOK, NEW c \in Client, NEW S \in SUBSET todo[c], StoreChunk(c, S)
    PROVE  NewestOK'
<1> USE SyncAssumption DEF SyncAssumption
<1>1. S \subseteq Memory /\ S \subseteq Pushed(req[c])
  BY DEF Base, TypeOK, RequestOK
<1> SUFFICES ASSUME NEW m \in Memory
             PROVE  /\ live'[m] => [content |-> content'[m], at |-> at'[m]] \in arrived'[m]
                    /\ \A w \in arrived'[m] : w.at.t <= at'[m].t
                    /\ died'[m] <= at'[m].t
                    /\ content'[m] = None => arrived'[m] = {} /\ died'[m] = 0
  BY DEF NewestOK
<1>2. died' = died /\ died[m] \in Nat /\ at[m].t \in Nat /\ \A w \in arrived[m] : w.at.t \in Nat
  BY DEF StoreChunk, Base, TypeOK, Stamp, Write
<1> DEFINE W == {k \in S : Beats(c, k)}
<1>5. /\ content' = [k \in Memory |-> IF k \in W THEN req[c].push[k].content ELSE content[k]]
      /\ live' = [k \in Memory |-> k \in W \/ live[k]]
      /\ at' = [k \in Memory |-> IF k \in W THEN req[c].push[k].at ELSE at[k]]
      /\ arrived' = [k \in Memory |->
                       IF k \in S THEN arrived[k] \cup {req[c].push[k]} ELSE arrived[k]]
  BY DEF StoreChunk
<1>6. m \in W <=> m \in S /\ Beats(c, m)
  OBVIOUS
<1>7. live[m] \in BOOLEAN
  BY DEF Base, TypeOK
<1> HIDE DEF W
<1>8. ASSUME m \notin W
      PROVE  content'[m] = content[m] /\ live'[m] = live[m] /\ at'[m] = at[m]
  <2>1. content'[m] = content[m] /\ at'[m] = at[m]
    BY <1>5, <1>8
  <2>2. live'[m] = (m \in W \/ live[m])
    BY <1>5
  <2> QED
    BY <1>7, <1>8, <2>1, <2>2
<1>3. CASE m \notin S
  <2>1. content'[m] = content[m] /\ live'[m] = live[m] /\ at'[m] = at[m]
    BY <1>3, <1>6, <1>8
  <2>2. arrived'[m] = arrived[m]
    BY <1>3, <1>5
  <2>3. /\ live[m] => [content |-> content[m], at |-> at[m]] \in arrived[m]
        /\ \A v \in arrived[m] : v.at.t <= at[m].t
        /\ died[m] <= at[m].t
        /\ content[m] = None => arrived[m] = {} /\ died[m] = 0
    BY DEF NewestOK
  <2> QED
    BY <1>2, <2>1, <2>2, <2>3
<1>4. CASE m \in S
  <2> DEFINE w == req[c].push[m]
  <2>1. w \in Write /\ w.content \in Content /\ w.at \in Stamp /\ w.at.t \in Nat
    BY <1>1, <1>4, PushedWrite DEF Stamp
  <2>2. arrived'[m] = arrived[m] \cup {w}
    BY <1>4, <1>5
  <2>3. Beats(c, m) <=> content[m] = None \/ at[m].t <= w.at.t
    BY DEF Beats, Key, Exact
  <2>6. /\ live[m] => [content |-> content[m], at |-> at[m]] \in arrived[m]
        /\ \A v \in arrived[m] : v.at.t <= at[m].t
        /\ died[m] <= at[m].t
        /\ content[m] = None => arrived[m] = {} /\ died[m] = 0
    BY DEF NewestOK
  <2>4. CASE Beats(c, m)
    <3>1. content'[m] = w.content /\ at'[m] = w.at
      BY <1>4, <1>5, <1>6, <2>4
    <3>2. [content |-> w.content, at |-> w.at] = w
      BY <2>1 DEF Write
    <3>3. w.content # None
      BY <2>1
    <3> HIDE DEF w
    <3>4. /\ \A v \in arrived[m] : v.at.t <= w.at.t
          /\ died[m] <= w.at.t
      <4>1. CASE content[m] = None
        BY <2>1, <2>6, <4>1
      <4>2. CASE at[m].t <= w.at.t
        BY <1>2, <2>1, <2>6, <4>2
      <4> QED
        BY <2>3, <2>4, <4>1, <4>2
    <3> QED
      BY <1>2, <2>1, <2>2, <3>1, <3>2, <3>3, <3>4
  <2>5. CASE ~Beats(c, m)
    <3>1. content'[m] = content[m] /\ live'[m] = live[m] /\ at'[m] = at[m]
      BY <1>6, <1>8, <2>5
    <3>2. content[m] # None /\ w.at.t <= at[m].t
      BY <1>2, <2>1, <2>3, <2>5
    <3> HIDE DEF w
    <3> QED
      BY <1>2, <2>2, <2>6, <3>1, <3>2
  <2> QED
    BY <2>4, <2>5
<1> QED
  BY <1>3, <1>4

\* A live row is the newest write since its last deletion and no older than the
\* deletion, in a store that compares times as times and does not cut the
\* deletion's: SQLite's text and seconds break it.
THEOREM NewestAlwaysLives == Exact => (Spec => []LiveIsNewest)
<1> SUFFICES ASSUME Exact PROVE Spec => []LiveIsNewest
  OBVIOUS
<1>1. Init => NewestOK
  BY NoneIsTyped DEF Init, NewestOK
<1>2. ASSUME Base, NewestOK, [Next]_vars PROVE NewestOK'
  <2> USE <1>2
  <2>1. CASE UNCHANGED <<content, live, at, arrived, died>>
    BY <2>1 DEF NewestOK
  <2>2. ASSUME NEW c \in Client, NEW m \in dels[c], SoftDelete(c, m) PROVE NewestOK'
    <3>1. CASE /\ m \in Memory /\ content' = content
               /\ live' = [live EXCEPT ![m] = FALSE] /\ at' = [at EXCEPT ![m] = DeleteStamp]
               /\ arrived' = [arrived EXCEPT ![m] = {}] /\ died' = [died EXCEPT ![m] = now]
               /\ live[m]
      <4>1. now \in Nat /\ now <= MaxTime /\ DeleteStamp = Utc((now \div 1) * 1)
        BY SyncAssumption DEF SyncAssumption, Base, TypeOK, DeleteStamp, Exact
      <4>2. DeleteStamp.t = now
        <5>1. (now \div 1) * 1 = now
          BY <4>1
        <5> QED
          BY <4>1, <5>1, UtcIsStamp
      <4>3. content[m] # None
        BY <3>1 DEF Base, RowOK
      <4>4. ASSUME NEW k \in Memory
            PROVE  /\ live'[k] => [content |-> content'[k], at |-> at'[k]] \in arrived'[k]
                   /\ \A v \in arrived'[k] : v.at.t <= at'[k].t
                   /\ died'[k] <= at'[k].t
                   /\ content'[k] = None => arrived'[k] = {} /\ died'[k] = 0
        <5>1. CASE k = m
          <6>1. /\ ~live'[k] /\ at'[k] = DeleteStamp /\ arrived'[k] = {} /\ died'[k] = now
                /\ content'[k] # None
            BY <3>1, <4>3, <5>1 DEF Base, TypeOK
          <6> QED
            BY <4>1, <4>2, <6>1
        <5>2. CASE k # m
          <6>1. /\ live'[k] = live[k] /\ at'[k] = at[k] /\ arrived'[k] = arrived[k]
                /\ died'[k] = died[k] /\ content'[k] = content[k]
            BY <3>1, <5>2 DEF Base, TypeOK
          <6> QED
            BY <6>1 DEF NewestOK
        <5> QED
          BY <5>1, <5>2
      <4> QED
        BY <4>4 DEF NewestOK
    <3> QED
      BY <2>1, <2>2, <3>1, SoftDeleteCases
  <2>3. ASSUME NEW c \in Client, Serve(c) PROVE NewestOK'
    <3>1. CASE \E S \in SUBSET todo[c] : StoreChunk(c, S)
      BY <3>1, StoreChunkNewest
    <3>2. CASE \E S \in SUBSET todo[c] : FailChunk(c, S)
      BY <2>1, <3>2 DEF FailChunk, rowVars, rowHistory
    <3>3. CASE PullMemories(c) \/ PullTombstones(c)
      BY <2>1, <3>3 DEF PullMemories, PullTombstones, rowVars, rowHistory
    <3> QED
      BY <2>2, <2>3, <3>1, <3>2, <3>3 DEF Serve
  <2>4. CASE UNCHANGED vars
    BY <2>1, <2>4 DEF vars, rowVars, rowHistory
  <2>5. ASSUME NEW c \in Client, NEW push \in [Memory -> ClientWrite \cup {None}],
               NEW tombs \in SUBSET Memory, Send(c, push, tombs)
        PROVE  NewestOK'
    BY <2>1, <2>5 DEF Send, rowVars, rowHistory
  <2>6. ASSUME NEW c \in Client, Retry(c) \/ Reply(c) \/ Lose(c) PROVE NewestOK'
    BY <2>1, <2>6 DEF Retry, Reply, Lose, rowVars, rowHistory
  <2> QED
    BY <2>3, <2>4, <2>5, <2>6 DEF Next
<1>3. NewestOK => LiveIsNewest
  BY DEF NewestOK, LiveIsNewest
<1> QED
  BY <1>1, <1>2, <1>3, SyncInvariant, PTL DEF Spec

-----------------------------------------------------------------------------
(* What a client is behind by (sync/engine.go, handlePulls and the watermark *)
(* of the reply), however times are compared and cut.                       *)

Excused(c, m) == m \in skipped[c] \cup late[c]

\* A row that c's next pull passes over is one c has, or it is excused.
PassedOK(c, m) ==
    wm[c] # None /\ content[m] # None /\ ~After(at[m], wm[c]) => Agrees(c, m) \/ Excused(c, m)

BehindOK(c, m) ==
    wm[c] # None => Agrees(c, m) \/ m \in unseen[c] \cup skipped[c] \cup late[c]

Answering(c) == pc[c] \in {"bury", "reply"} /\ Stores(c)

\* What c's pull has read of a row that did not change since is what the server
\* has, and what it left out c has, or it is excused.
AnswerOK(c, m) ==
    Answering(c) /\ m \notin moved[c] /\ content[m] # None =>
        IF Recent(c, m)
          THEN /\ live[m] /\ content[m] \notin Hidden => pulled[c][m] = content[m]
               /\ pc[c] = "reply" => (m \in buried[c] <=> ~live[m])
          ELSE /\ pulled[c][m] = None
               /\ pc[c] = "reply" => m \notin buried[c]
               /\ Agrees(c, m) \/ Excused(c, m)

\* A row that changed since the pull read it, and that the watermark of the
\* reply passes over, is late.
MovedOK(c, m) ==
    Answering(c) /\ m \in moved[c] /\ ~After(at[m], mark[c]) => m \in late[c]

ClientOK(c, m) == PassedOK(c, m) /\ BehindOK(c, m) /\ AnswerOK(c, m) /\ MovedOK(c, m)

Behind == \A c \in Client, m \in Memory : ClientOK(c, m)

RowSame(m) == content'[m] = content[m] /\ live'[m] = live[m] /\ at'[m] = at[m]

\* c's request and c's copy are not touched by the step.
ClientSame(c) ==
    /\ pc'[c] = pc[c] /\ req'[c] = req[c] /\ mark'[c] = mark[c]
    /\ pulled'[c] = pulled[c] /\ buried'[c] = buried[c]
    /\ copy'[c] = copy[c] /\ wm'[c] = wm[c]

HistorySame(c) ==
    unseen'[c] = unseen[c] /\ moved'[c] = moved[c] /\ late'[c] = late[c] /\ skipped'[c] = skipped[c]

LEMMA SameBehind ==
    ASSUME NEW c \in Client, NEW m \in Memory, ClientOK(c, m),
           RowSame(m), ClientSame(c), HistorySame(c)
    PROVE  ClientOK(c, m)'
<1> USE DEF RowSame, ClientSame, HistorySame, ClientOK, Agrees, Excused, After, Key
<1>1. PassedOK(c, m)'
  BY DEF PassedOK
<1>2. BehindOK(c, m)'
  BY DEF BehindOK
<1>3. AnswerOK(c, m)'
  BY DEF AnswerOK, Answering, Stores, Recent
<1>4. MovedOK(c, m)'
  BY DEF MovedOK, Answering, Stores
<1> QED
  BY <1>1, <1>2, <1>3, <1>4

\* Whatever rows a statement changes, those it stamps too early are late.
LEMMA ChangedBehind ==
    ASSUME TypeOK, Behind, NEW S \in SUBSET Memory, Changed(S),
           \A c \in Client : ClientSame(c), \A m \in Memory \ S : RowSame(m)
    PROVE  Behind'
<1> SUFFICES ASSUME NEW c \in Client, NEW m \in Memory PROVE ClientOK(c, m)'
  BY DEF Behind
<1>1. ClientOK(c, m) /\ ClientSame(c)
  BY DEF Behind
<1>2. /\ unseen'[c] = unseen[c] \cup S /\ moved'[c] = moved[c] \cup S
      /\ skipped'[c] = skipped[c] \ S
      /\ late'[c] = (late[c] \ S) \cup {k \in S : Passed(c, at'[k])}
  BY DEF Changed
<1>3. CASE m \in S
  <2>1. m \in unseen'[c] /\ m \in moved'[c] /\ (Passed(c, at'[m]) => m \in late'[c])
    BY <1>2, <1>3
  <2>2. PassedOK(c, m)'
    BY <1>1, <2>1 DEF PassedOK, Excused, Passed, ClientSame, After, Key
  <2>3. BehindOK(c, m)'
    BY <2>1 DEF BehindOK
  <2>4. AnswerOK(c, m)'
    BY <2>1 DEF AnswerOK
  <2>5. MovedOK(c, m)'
    BY <1>1, <2>1 DEF MovedOK, Answering, Stores, Passed, ClientSame, After, Key
  <2> QED
    BY <2>2, <2>3, <2>4, <2>5 DEF ClientOK
<1>4. CASE m \notin S
  <2>1. RowSame(m)
    BY <1>4
  <2>2. /\ m \in unseen'[c] <=> m \in unseen[c]
        /\ m \in moved'[c] <=> m \in moved[c]
        /\ m \in late'[c] <=> m \in late[c]
        /\ m \in skipped'[c] <=> m \in skipped[c]
    BY <1>2, <1>4
  <2> USE <1>1, <2>1, <2>2 DEF RowSame, ClientSame, ClientOK, Agrees, Excused, After, Key
  <2>3. PassedOK(c, m)'
    BY DEF PassedOK
  <2>4. BehindOK(c, m)'
    BY DEF BehindOK
  <2>5. AnswerOK(c, m)'
    BY DEF AnswerOK, Answering, Stores, Recent
  <2>6. MovedOK(c, m)'
    BY DEF MovedOK, Answering, Stores
  <2> QED
    BY <2>3, <2>4, <2>5, <2>6 DEF ClientOK
<1> QED
  BY <1>3, <1>4

\* A request that begins or is lost has read nothing, and what the client has
\* of the server is what it had.
LEMMA RestartBehind ==
    ASSUME TypeOK, Behind, NEW c \in Client, UNCHANGED <<rowVars, clientVars>>,
           UNCHANGED <<unseen, late, skipped>>, pc'[c] \in {"write", "retry"},
           \A k \in Client \ {c} : ClientSame(k) /\ moved'[k] = moved[k]
    PROVE  Behind'
<1> SUFFICES ASSUME NEW k \in Client, NEW m \in Memory PROVE ClientOK(k, m)'
  BY DEF Behind
<1>1. ClientOK(k, m) /\ RowSame(m)
  BY DEF Behind, RowSame, rowVars
<1>2. CASE k = c
  <2>1. PassedOK(k, m)'
    BY <1>1 DEF ClientOK, PassedOK, Agrees, Excused, After, Key, rowVars, clientVars
  <2>2. BehindOK(k, m)'
    BY <1>1 DEF ClientOK, BehindOK, Agrees, rowVars, clientVars
  <2>3. AnswerOK(k, m)' /\ MovedOK(k, m)'
    BY <1>2 DEF AnswerOK, MovedOK, Answering
  <2> QED
    BY <2>1, <2>2, <2>3 DEF ClientOK
<1>3. CASE k # c
  <2>1. ClientSame(k) /\ HistorySame(k)
    BY <1>3 DEF HistorySame
  <2> QED
    BY <1>1, <2>1, SameBehind
<1> QED
  BY <1>2, <1>3

\* The first query of a pull.  What it leaves out is excused if the client has
\* no watermark, and else was passed over by the last one.
LEMMA PullMemoriesBehind ==
    ASSUME Base, Behind, NEW c \in Client, PullMemories(c)
    PROVE  Behind'
<1>1. /\ content' = content /\ live' = live /\ at' = at
      /\ req' = req /\ mark' = mark /\ buried' = buried /\ copy' = copy /\ wm' = wm
      /\ unseen' = unseen /\ late' = late
      /\ moved'[c] = {} /\ pc'[c] = "bury" /\ pc[c] = "write"
      /\ skipped'[c] = IF Stores(c) /\ req[c].since = None
                         THEN {m \in Memory : content[m] # None} ELSE skipped[c]
      /\ \A m \in Memory : pulled'[c][m] =
                            IF Recent(c, m) /\ live[m] /\ content[m] \notin Hidden
                              THEN content[m] ELSE None
      /\ \A k \in Client \ {c} : /\ pc'[k] = pc[k] /\ pulled'[k] = pulled[k]
                                   /\ moved'[k] = moved[k] /\ skipped'[k] = skipped[k]
  BY DEF PullMemories, rowVars, clientVars, Base, TypeOK
<1> SUFFICES ASSUME NEW k \in Client, NEW m \in Memory PROVE ClientOK(k, m)'
  BY DEF Behind
<1>2. ClientOK(k, m) /\ RowSame(m)
  BY <1>1 DEF Behind, RowSame
<1>3. CASE k # c
  <2>1. ClientSame(k) /\ HistorySame(k)
    BY <1>1, <1>3 DEF ClientSame, HistorySame
  <2> QED
    BY <1>2, <2>1, SameBehind
<1>4. CASE k = c
  <2>1. Stores(c)' <=> Stores(c)
    BY <1>1 DEF Stores
  <2>2. Recent(c, m)' <=> Recent(c, m)
    BY <1>1 DEF Recent, After, Key
  <2>3. Agrees(c, m)' <=> Agrees(c, m)
    BY <1>1 DEF Agrees
  <2>4. Stores(c) => req[c].since = Since(c)
    BY <1>1 DEF Base, RequestOK
  <2>5. wm[c] # None => skipped'[c] = skipped[c]
    BY <1>1, <2>4 DEF Since
  <2>6. PassedOK(c, m)'
    BY <1>1, <1>2, <1>4, <2>3, <2>5 DEF ClientOK, PassedOK, Excused, After, Key
  <2>7. BehindOK(c, m)'
    BY <1>1, <1>2, <1>4, <2>3, <2>5 DEF ClientOK, BehindOK
  <2>8. ASSUME Stores(c), content[m] # None, ~Recent(c, m)
        PROVE  Agrees(c, m) \/ m \in skipped'[c] \/ m \in late[c]
    <3>1. CASE req[c].since = None
      BY <1>1, <2>8, <3>1
    <3>2. CASE wm[c] # None
      <4>1. req[c].since = wm[c] /\ ~After(at[m], wm[c])
        BY <2>4, <2>8, <3>2 DEF Since, Recent
      <4> QED
        BY <1>2, <1>4, <2>5, <2>8, <3>2, <4>1 DEF ClientOK, PassedOK, Excused
    <3>3. CASE wm[c] = None /\ c \in Split /\ req[c].since # None
      <4>1. ~After(at[m], Epoch)
        BY <2>4, <2>8, <3>3 DEF Since, Recent
      <4>2. /\ at[m].t \in Nat /\ at[m].z \in Nat /\ Epoch.t = 0 /\ Epoch.z = 0
        <5>1. at[m] \in Stamp /\ Zone \subseteq Nat /\ MaxTime \in Nat
          BY SyncAssumption DEF SyncAssumption, Base, TypeOK
        <5>2. at[m].t \in 0 .. MaxTime /\ at[m].z \in Zone
          BY <5>1 DEF Stamp
        <5>3. Epoch.t = 0 /\ Epoch.z = 0
          BY NoneIsTyped
        <5>4. at[m].t \in Nat
          BY <5>1, <5>2
        <5>5. at[m].z \in Nat
          BY <5>1, <5>2
        <5> QED
          BY <5>3, <5>4, <5>5
      <4>3. ~(at[m].t > 0)
        BY <4>1, <4>2 DEF After, Key
      <4>4. ~live[m]
        BY <4>3 DEF Base, RowOK
      <4> QED
        BY <3>3, <4>4 DEF Agrees
    <3> QED
      BY <2>4, <2>8, <3>1, <3>2, <3>3 DEF Since
  <2>9. AnswerOK(c, m)'
    BY <1>1, <1>4, <2>1, <2>2, <2>3, <2>8 DEF AnswerOK, Answering, Excused
  <2>10. MovedOK(c, m)'
    BY <1>1 DEF MovedOK
  <2> QED
    BY <1>4, <2>6, <2>7, <2>9, <2>10 DEF ClientOK
<1> QED
  BY <1>3, <1>4

\* The second query: the watermark is the one captured as the request arrived.
LEMMA PullTombstonesBehind ==
    ASSUME Base, Behind, NEW c \in Client, PullTombstones(c)
    PROVE  Behind'
<1>1. /\ content' = content /\ live' = live /\ at' = at
      /\ req' = req /\ mark' = mark /\ pulled' = pulled /\ copy' = copy /\ wm' = wm
      /\ unseen' = unseen /\ late' = late /\ moved' = moved /\ skipped' = skipped
      /\ pc'[c] = "reply" /\ pc[c] = "bury"
      /\ buried'[c] = {m \in Memory : Recent(c, m) /\ ~live[m]}
      /\ \A k \in Client \ {c} : pc'[k] = pc[k] /\ buried'[k] = buried[k]
  BY DEF PullTombstones, MarkOfReply, rowVars, clientVars, pullHistory, Base, TypeOK
<1> SUFFICES ASSUME NEW k \in Client, NEW m \in Memory PROVE ClientOK(k, m)'
  BY DEF Behind
<1>2. ClientOK(k, m) /\ RowSame(m) /\ HistorySame(k)
  BY <1>1 DEF Behind, RowSame, HistorySame
<1>3. CASE k # c
  <2>1. ClientSame(k)
    BY <1>1, <1>3 DEF ClientSame
  <2> QED
    BY <1>2, <2>1, SameBehind
<1>4. CASE k = c
  <2>1. /\ Stores(c)' <=> Stores(c)
        /\ Recent(c, m)' <=> Recent(c, m)
        /\ Agrees(c, m)' <=> Agrees(c, m)
        /\ Excused(c, m)' <=> Excused(c, m)
    BY <1>1 DEF Stores, Recent, After, Key, Agrees, Excused
  <2>2. PassedOK(c, m)' /\ BehindOK(c, m)'
    BY <1>1, <1>2, <1>4, <2>1 DEF ClientOK, PassedOK, BehindOK, After, Key
  <2>3. AnswerOK(c, m)'
    BY <1>1, <1>2, <1>4, <2>1 DEF ClientOK, AnswerOK, Answering
  <2>4. MovedOK(c, m)'
    BY <1>1, <1>2, <1>4, <2>1 DEF ClientOK, MovedOK, Answering, After, Key
  <2> QED
    BY <1>4, <2>2, <2>3, <2>4 DEF ClientOK
<1> QED
  BY <1>3, <1>4

\* The reply: what was read replaces the client's copy, and the watermark that
\* was captured before it replaces the last.
LEMMA ReplyBehind ==
    ASSUME Base, Behind, NEW c \in Client, Reply(c)
    PROVE  Behind'
<1>1. /\ content' = content /\ live' = live /\ at' = at
      /\ late' = late /\ skipped' = skipped
      /\ pc[c] = "reply" /\ pc'[c] = "idle"
      /\ \A k \in Client \ {c} : ClientSame(k) /\ HistorySame(k)
  BY DEF Reply, Forget, rowVars, ClientSame, HistorySame, Base, TypeOK
<1>2. /\ Stores(c) => /\ \A m \in Memory : copy'[c][m] = Applied(c, m)
                      /\ wm'[c] = mark[c] /\ unseen'[c] = moved[c]
      /\ ~Stores(c) => copy'[c] = copy[c] /\ wm'[c] = wm[c] /\ unseen'[c] = unseen[c]
  BY DEF Reply, Base, TypeOK
<1> SUFFICES ASSUME NEW k \in Client, NEW m \in Memory PROVE ClientOK(k, m)'
  BY DEF Behind
<1>3. ClientOK(k, m) /\ RowSame(m)
  BY <1>1 DEF Behind, RowSame
<1>4. CASE k # c
  BY <1>1, <1>3, <1>4, SameBehind
<1>5. CASE k = c
  <2>1. AnswerOK(c, m)' /\ MovedOK(c, m)'
    BY <1>1 DEF AnswerOK, MovedOK, Answering
  <2>2. CASE ~Stores(c)
    <3>1. PassedOK(c, m)' /\ BehindOK(c, m)'
      BY <1>1, <1>2, <1>3, <1>5, <2>2
         DEF ClientOK, PassedOK, BehindOK, Agrees, Excused, After, Key
    <3> QED
      BY <1>5, <2>1, <3>1 DEF ClientOK
  <2>3. CASE Stores(c)
    <3>1. Answering(c)
      BY <1>1, <2>3 DEF Answering
    <3>2. ASSUME m \notin moved[c], content[m] # None
          PROVE  Agrees(c, m)' \/ Excused(c, m)
      <4>1. AnswerOK(c, m)
        BY <1>3, <1>5 DEF ClientOK
      <4>2. CASE Recent(c, m)
        <5>1. /\ live[m] /\ content[m] \notin Hidden => pulled[c][m] = content[m]
              /\ m \in buried[c] <=> ~live[m]
          BY <1>1, <3>1, <3>2, <4>1, <4>2 DEF AnswerOK
        <5>2. CASE live[m]
          BY <1>1, <1>2, <2>3, <3>2, <5>1, <5>2 DEF Agrees, Applied
        <5>3. CASE ~live[m]
          BY <1>1, <1>2, <2>3, <3>2, <5>1, <5>3 DEF Agrees, Applied
        <5> QED
          BY <5>2, <5>3
      <4>3. CASE ~Recent(c, m)
        <5>1. /\ pulled[c][m] = None /\ m \notin buried[c]
              /\ Agrees(c, m) \/ Excused(c, m)
          BY <1>1, <3>1, <3>2, <4>1, <4>3 DEF AnswerOK
        <5>2. copy'[c][m] = copy[c][m]
          BY <1>2, <2>3, <5>1 DEF Applied
        <5> QED
          BY <1>1, <5>1, <5>2 DEF Agrees
      <4> QED
        BY <4>2, <4>3
    <3>3. Excused(c, m)' <=> Excused(c, m)
      BY <1>1 DEF Excused
    <3>4. content[m] = None => Agrees(c, m)'
      BY <1>1 DEF Agrees
    <3>5. BehindOK(c, m)'
      BY <1>1, <1>2, <2>3, <3>2, <3>4 DEF BehindOK, Excused
    <3>6. m \in moved[c] /\ ~After(at[m], mark[c]) => m \in late[c]
      BY <1>3, <1>5, <3>1 DEF ClientOK, MovedOK
    <3>7. PassedOK(c, m)'
      BY <1>1, <1>2, <2>3, <3>2, <3>3, <3>6 DEF PassedOK, Excused, After, Key
    <3> QED
      BY <1>5, <2>1, <3>5, <3>7 DEF ClientOK
  <2> QED
    BY <2>2, <2>3
<1> QED
  BY <1>4, <1>5

LEMMA WriteBehind ==
    ASSUME Base, Behind, NEW c \in Client,
           \/ \E S \in SUBSET todo[c] : StoreChunk(c, S) \/ FailChunk(c, S)
           \/ \E m \in dels[c] : SoftDelete(c, m)
    PROVE  Behind'
<1>1. ASSUME NEW S \in SUBSET todo[c], StoreChunk(c, S) PROVE Behind'
  <2> DEFINE W == {k \in S : Beats(c, k)}
  <2>1. /\ content' = [k \in Memory |-> IF k \in W THEN req[c].push[k].content ELSE content[k]]
        /\ live' = [k \in Memory |-> k \in W \/ live[k]]
        /\ at' = [k \in Memory |-> IF k \in W THEN req[c].push[k].at ELSE at[k]]
        /\ Changed(W)
        /\ UNCHANGED <<pc, req, mark, pulled, buried, copy, wm>>
    BY <1>1 DEF StoreChunk, clientVars
  <2>2. W \in SUBSET Memory
    BY DEF Base, TypeOK
  <2> HIDE DEF W
  <2>3. \A m \in Memory \ W : RowSame(m)
    BY <2>1 DEF RowSame, Base, TypeOK
  <2>4. \A k \in Client : ClientSame(k)
    BY <2>1 DEF ClientSame
  <2> QED
    BY <2>1, <2>2, <2>3, <2>4, ChangedBehind DEF Base
<1>2. ASSUME NEW m \in dels[c], SoftDelete(c, m) PROVE Behind'
  <2>1. /\ m \in Memory /\ content' = content
        /\ \A k \in Client : ClientSame(k)
    BY <1>2, SoftDeleteCases DEF ClientSame
  <2>2. CASE /\ live' = [live EXCEPT ![m] = FALSE] /\ at' = [at EXCEPT ![m] = DeleteStamp]
             /\ Changed({m})
    <3>1. \A k \in Memory \ {m} : RowSame(k)
      BY <2>1, <2>2 DEF RowSame, Base, TypeOK
    <3> QED
      BY <2>1, <2>2, <3>1, ChangedBehind DEF Base
  <2>3. CASE UNCHANGED <<live, at, unseen, moved, late, skipped>>
    <3>1. /\ \A k \in Memory : RowSame(k)
          /\ \A k \in Client : HistorySame(k)
      BY <2>1, <2>3 DEF RowSame, HistorySame
    <3> QED
      BY <2>1, <3>1, SameBehind DEF Behind
  <2> QED
    BY <1>2, <2>2, <2>3, SoftDeleteCases
<1>3. ASSUME NEW S \in SUBSET todo[c], FailChunk(c, S) PROVE Behind'
  <2>1. /\ \A k \in Memory : RowSame(k)
        /\ \A k \in Client : ClientSame(k) /\ HistorySame(k)
    BY <1>3 DEF FailChunk, rowVars, clientVars, pullHistory, RowSame, ClientSame, HistorySame
  <2> QED
    BY <2>1, SameBehind DEF Behind
<1> QED
  BY <1>1, <1>2, <1>3

\* A client that has a watermark is behind only by rows that changed since its
\* last pull read them, rows its first sync left out and late ones: for every
\* way of cutting deletions, comparing times and cutting a batch into chunks.
THEOREM BehindOnlyByExcused == Spec => []BehindOnlyByLate
<1>1. Init => Behind
  BY DEF Init, Behind, ClientOK, PassedOK, BehindOK, AnswerOK, MovedOK, Answering
<1>2. ASSUME Base, Behind, [Next]_vars PROVE Behind'
  <2> USE <1>2
  <2>1. CASE UNCHANGED vars
    <3>1. /\ \A m \in Memory : RowSame(m)
          /\ \A c \in Client : ClientSame(c) /\ HistorySame(c)
      BY <2>1 DEF vars, rowVars, requestVars, clientVars, pullHistory, RowSame, ClientSame, HistorySame
    <3> QED
      BY <3>1, SameBehind DEF Behind
  <2>2. ASSUME NEW c \in Client, NEW r \in Request, Begin(c, r),
               UNCHANGED <<rowVars, pulled, buried, clientVars, rowHistory, pullHistory>>
        PROVE  Behind'
    <3>1. pc'[c] = "write" /\ \A k \in Client \ {c} : ClientSame(k) /\ moved'[k] = moved[k]
      BY <2>2 DEF Begin, ClientSame, clientVars, pullHistory, Base, TypeOK
    <3> QED
      BY <2>2, <3>1, RestartBehind DEF Base, pullHistory
  <2>3. ASSUME NEW c \in Client, Lose(c) PROVE Behind'
    <3>1. pc'[c] = "retry" /\ \A k \in Client \ {c} : ClientSame(k) /\ moved'[k] = moved[k]
      BY <2>3 DEF Lose, Forget, ClientSame, clientVars, Base, TypeOK
    <3>2. UNCHANGED <<rowVars, clientVars>> /\ UNCHANGED <<unseen, late, skipped>>
      BY <2>3 DEF Lose
    <3> QED
      BY <3>1, <3>2, RestartBehind DEF Base
  <2>4. ASSUME NEW c \in Client, NEW push \in [Memory -> ClientWrite \cup {None}],
               NEW tombs \in SUBSET Memory, Send(c, push, tombs)
        PROVE  Behind'
    BY <2>2, <2>4, SendBase
  <2>5. ASSUME NEW c \in Client, Retry(c) PROVE Behind'
    BY <2>2, <2>5, RetryBase
  <2>6. ASSUME NEW c \in Client, Serve(c) PROVE Behind'
    BY <2>6, WriteBehind, PullMemoriesBehind, PullTombstonesBehind DEF Serve
  <2> QED
    BY <2>1, <2>3, <2>4, <2>5, <2>6, ReplyBehind DEF Next
<1>3. Behind => BehindOnlyByLate
  BY DEF Behind, ClientOK, BehindOK, BehindOnlyByLate
<1> QED
  BY <1>1, <1>2, <1>3, SyncInvariant, PTL DEF Spec

=============================================================================
