--------------------------- MODULE ContentPipeline --------------------------
(***************************************************************************)
(* What becomes of a text that a client pushes: the guardrails of the      *)
(* organization, which administrators change meanwhile, admit it or not;   *)
(* the curation worker marks it by what else is in the project; and it is  *)
(* turned into the input of the embedding model, as are the queries.       *)
(*                                                                         *)
(* Which memories are due for curation is abstracted to a set (see         *)
(* CurationQueue), the races of a worker with pushes inside of one memory  *)
(* to one step (see Curation), times to the counter now.                   *)
(***************************************************************************)
EXTENDS CurationMarks, Tokenizer, Integers, FiniteSets

CONSTANTS
    Memory, Admin, Client,
    Seeded,      \* DefaultGuardrails, as a function from ids to rows
    CustomRule,  \* the ids of guardrails created later
    NewRule,     \* what creations ask for: kind and value
    Patch,       \* what updates ask for: enabled, value, and whether any text
    Delete,      \* what a DELETE asks for
    Threshold,   \* what policies ask for
    Item,        \* what clients push: content, category, keywords, meta, and its age
    Window,      \* NearDupWindow, in whole ticks of the clock
    MaxPeers,    \* maxCurationPeers
    BatchSize,
    ModelDir, Query,  \* the tokenizers of models' directories, and the texts of searches
    MaxTime, MaxRequests, MaxFaults  \* bounds

RuleId == DOMAIN Seeded \cup CustomRule

Text == Seq(Rune)
Label == {None} \cup STRING
Verdicts == {"near_duplicate", "low_signal", "stale", "contradiction_candidate", "ok"}

\* A row of org_guardrails.
Guardrail ==
    [id : RuleId, kind : SecurityKinds \cup CustomKinds, value : Text,
     enabled : BOOLEAN, builtin : BOOLEAN]

Metadata ==
    [scope : Label, type : Label, kind : Label, origin : Label,
     status : Label \cup Verdicts, pinned : BOOLEAN, score : {None} \cup Int, superseded : Label]

\* A row of memories; since is history, the window of its last verdict.
MemoryRecord ==
    [id : Memory, content : Text, category : Text, keywords : SUBSET Text, meta : Metadata,
     of : {None} \cup Memory, live : BOOLEAN, created : Int, updated : Int,
     since : {None} \cup Int]

\* A seed is a security rule, or blocks a category that is blocked by default.
ASSUME GuardrailAssumption ==
    /\ Seeded \in [DOMAIN Seeded -> Guardrail]
    /\ \A i \in DOMAIN Seeded :
          /\ Seeded[i].id = i /\ Seeded[i].enabled
          /\ \/ Seeded[i].kind \in SecurityKinds
             \/ /\ Seeded[i].kind = "category"
                /\ Seeded[i].value # <<>> /\ Seeded[i].value \in DefaultBlocked
    /\ \A r \in NewRule : r.value \in Text
    /\ Patch \subseteq [enabled : {None} \cup BOOLEAN, value : {None} \cup Text, text : BOOLEAN]
    /\ Threshold \subseteq Nat /\ QualityThreshold \in Nat
    /\ None \notin Guardrail

ASSUME MemoryAssumption ==
    /\ Memory \subseteq Nat /\ IsFiniteSet(Memory)
    /\ Item \subseteq [content : Text, category : Text, keywords : SUBSET Text,
                      meta : Metadata, age : Nat]
    /\ None \notin MemoryRecord
    /\ Window \in Nat /\ BatchSize \in Nat /\ MaxPeers \in Nat

\* A model's files: what the encoders take for granted of them.  The ids that a
\* post-processor names are those of the vocabulary, and no merge begins with a
\* token that stands for no text.
ASSUME TokenizerAssumption ==
    /\ MaxEmbedBytes \in Nat /\ Query \subseteq Text
    /\ \A tk \in {TokenizerOf(dir) : dir \in ModelDir} :
          /\ tk.maxLen \in Nat /\ tk.maxLen >= 2
          /\ tk.normalizer \in Seq(ToSet(tk.normalizer))
          /\ tk.preTokenizer \in Seq(ToSet(tk.preTokenizer))
          /\ tk.merges \in Seq(ToSet(tk.merges))
          /\ \A i \in DOMAIN tk.merges : tk.merges[i][1] \notin {NoId, tk.unk}
          /\ tk.postCls \in {NoId, tk.cls} /\ tk.postSep \in {NoId, tk.sep}
          /\ ~tk.fast => /\ tk.model = "WordPiece" /\ tk.prefix = <<Hash>> /\ tk.unk = UNK
                         /\ tk.cls = CLS /\ tk.sep = SEP /\ tk.pad = PAD

ASSUME BoundAssumption == MaxTime \in Nat /\ MaxRequests \in Nat /\ MaxFaults \in Nat

ASSUME SimilarityAssumption ==
    /\ GramSize \in Nat \ {0}
    /\ DupNum \in Nat /\ DupDen \in Nat /\ DupNum <= DupDen

VARIABLES
    rules,    \* rules[i]: the row of org_guardrails, or None
    policy,   \* the quality threshold of the row of org_policies, or None
    admin,    \* admin[a]: a request past its read of the row, or None
    sync,     \* sync[c]: a push under way, or None
    memory,   \* memory[m], None before its first push
    due,      \* the memories whose curation is requested
    worker,   \* the batch left, its peers once read (blind: in vain), and the memory read
    answer,   \* the last query, and the input of the model for it
    now, requests, faults

vars == <<rules, policy, admin, sync, memory, due, worker, answer, now, requests, faults>>

Rows == {rules[i] : i \in RuleId} \ {None}

On == {g \in Rows : g.enabled}

Idle == [batch |-> <<>>, since |-> 0, peers |-> None, blind |-> FALSE, read |-> None]

\* An organization with its seed, or one from before the guardrails.
Init ==
    /\ rules \in {[i \in RuleId |-> IF i \in DOMAIN Seeded THEN Seeded[i] ELSE None],
                  [i \in RuleId |-> None]}
    /\ policy = None
    /\ admin = [a \in Admin |-> None]
    /\ sync = [c \in Client |-> None]
    /\ memory = [m \in Memory |-> None]
    /\ due = {}
    /\ worker = Idle
    /\ answer = None
    /\ now = 0 /\ requests = 0 /\ faults = 0

Request == requests < MaxRequests /\ requests' = requests + 1

-----------------------------------------------------------------------------
(* The administrators.                                                     *)

\* The threshold that filterForOrg reads.
ThresholdOf(p) == IF p = None THEN QualityThreshold ELSE p

\* History: of the rules and thresholds that a push under way has to heed, those
\* that held ever since it began.
Heeding(rows, p) ==
    [c \in Client |->
        IF sync[c] = None THEN None
        ELSE [sync[c] EXCEPT
                !.held = @ \cap {g \in rows : g.enabled},
                !.none = @ /\ rows = {},
                !.lowest = IF ThresholdOf(p) < @ THEN ThresholdOf(p) ELSE @]]

\* POST /v1/guardrails
CreateGuardrail(i, r) ==
    /\ Request
    /\ i \in CustomRule /\ rules[i] = None
    /\ r.kind \in CustomKinds /\ TrimSpace(r.value) # <<>>
    /\ r.kind = "regex" => TrimSpace(r.value) \notin BadRegex
    /\ rules' = [rules EXCEPT ![i] = [id |-> i, kind |-> r.kind, value |-> TrimSpace(r.value),
                                      enabled |-> TRUE, builtin |-> FALSE]]
    /\ sync' = Heeding(Rows \cup {rules'[i]}, policy)
    /\ UNCHANGED <<policy, admin, memory, due, worker, answer, now, faults>>

\* PATCH and DELETE /v1/guardrails/{id}: the row is read,
GetGuardrail(a, i, patch) ==
    /\ Request
    /\ admin[a] = None /\ rules[i] # None
    /\ admin' = [admin EXCEPT ![a] = [row |-> rules[i], patch |-> patch]]
    /\ UNCHANGED <<rules, policy, sync, memory, due, worker, answer, now, faults>>

\* the request checked against what was read,
Refused(g, patch) ==
    IF g.builtin THEN patch = Delete \/ patch.value # None \/ patch.text
    ELSE /\ patch # Delete
         /\ patch.value # None
         /\ \/ TrimSpace(patch.value) = <<>>
            \/ g.kind = "regex" /\ TrimSpace(patch.value) \in BadRegex

\* (The fault of an update that overwrites what the request leaves out.)
PatchedAll(g, patch) == [g EXCEPT !.enabled = patch.enabled, !.value = patch.value]

Patched(g, patch) ==
    [g EXCEPT !.enabled = IF patch.enabled = None THEN @ ELSE patch.enabled,
              !.value = IF patch.value = None THEN @ ELSE TrimSpace(patch.value)]

\* and the whole row written, or the row deleted, if it is still there.
UpdateGuardrail(g) == IF rules[g.id] = None THEN rules ELSE [rules EXCEPT ![g.id] = g]

DeleteGuardrail(i) == [rules EXCEPT ![i] = None]

PutGuardrail(a) ==
    LET g == admin[a].row
        patch == admin[a].patch
    IN  /\ admin[a] # None
        /\ admin' = [admin EXCEPT ![a] = None]
        /\ rules' = IF Refused(g, patch) THEN rules
                    ELSE IF patch = Delete THEN DeleteGuardrail(g.id)
                    ELSE UpdateGuardrail(Patched(g, patch))
        /\ sync' = Heeding({rules'[i] : i \in RuleId} \ {None}, policy)
        /\ UNCHANGED <<policy, memory, due, worker, answer, now, requests, faults>>

UpsertOrgPolicy(t) == policy' = t

\* PUT /v1/policies: 0 stands for the default.
PutPolicy(t) ==
    /\ Request
    /\ UpsertOrgPolicy(IF t = 0 THEN QualityThreshold ELSE t)
    /\ sync' = Heeding(Rows, policy')
    /\ UNCHANGED <<rules, admin, memory, due, worker, answer, now, faults>>

-----------------------------------------------------------------------------
(* The clients.                                                            *)

\* A memory is made, or overwritten if the row is not newer; the row keeps its
\* creation time.  Curation is requested in both cases.
Stored(m, item, time) ==
    /\ memory' = IF memory[m] # None /\ memory[m].updated > time THEN memory
                 ELSE [memory EXCEPT ![m] =
          [id |-> m, content |-> item.content, category |-> item.category,
           keywords |-> item.keywords, meta |-> item.meta, of |-> None, live |-> TRUE,
           created |-> IF memory[m] = None THEN time ELSE memory[m].created,
           updated |-> time, since |-> None]]
    /\ due' = due \cup {m}

\* A sync with one push, up to handlePushes; the client says how old it is.
BeginPush(c, m, item) ==
    /\ Request
    /\ sync[c] = None
    /\ sync' = [sync EXCEPT ![c] =
          [id |-> m, item |-> item, time |-> now - item.age, rows |-> None,
           held |-> On, none |-> Rows = {}, lowest |-> ThresholdOf(policy)]]
    /\ UNCHANGED <<rules, policy, admin, memory, due, worker, answer, now, faults>>

\* filterForOrg reads the guardrails, or falls back to the default filter,
ReadGuardrails(c) ==
    /\ sync[c] # None /\ sync[c].rows = None
    /\ \/ /\ sync' = [sync EXCEPT ![c].rows = [ok |-> TRUE, set |-> Rows]]
          /\ UNCHANGED faults
       \/ /\ faults < MaxFaults
          /\ faults' = faults + 1
          /\ sync' = [sync EXCEPT ![c].rows = [ok |-> FALSE, set |-> {}]]
    /\ UNCHANGED <<rules, policy, admin, memory, due, worker, answer, now, requests>>

\* then the policy, whose threshold stays 0 if that fails, and what the filter
\* accepts is stored.
FilterPush(c) ==
    LET s == sync[c]
        Judge(threshold) ==
            LET cfg == IF s.rows.ok THEN FilterForOrg(s.rows.set, threshold) ELSE DefaultConfig
            IN  IF Filter(cfg, s.item) = "accepted" THEN Stored(s.id, s.item, s.time)
                ELSE UNCHANGED <<memory, due>>
    IN  /\ s # None /\ s.rows # None
        /\ sync' = [sync EXCEPT ![c] = None]
        /\ \/ Judge(ThresholdOf(policy)) /\ UNCHANGED faults
           \/ faults < MaxFaults /\ faults' = faults + 1 /\ Judge(0)
        /\ UNCHANGED <<rules, policy, admin, worker, answer, now, requests>>

\* POST /v1/memories: the default filter, whatever the guardrails, and no metadata.
CreateMemory(m, item) ==
    LET posted == [item EXCEPT !.meta = NoMetadata]
    IN  /\ Request
        /\ Filter(DefaultConfig, posted) = "accepted"
        /\ Stored(m, posted, now)
        /\ UNCHANGED <<rules, policy, admin, sync, worker, answer, now, faults>>

DeleteMemory(m) ==
    /\ Request
    /\ memory[m] # None /\ memory[m].live
    /\ memory' = [memory EXCEPT ![m].live = FALSE]
    /\ UNCHANGED <<rules, policy, admin, sync, due, worker, answer, now, faults>>

\* EmbedOne on the text of a query; it changes nothing a later request sees, so
\* it is tried on its own, first and last (bound).
Search ==
    /\ requests = 0 /\ requests' = MaxRequests
    /\ now = 0 /\ now' = MaxTime
    /\ \E dir \in ModelDir, t \in Query :
          LET tk == TokenizerOf(dir)
          IN  answer' = [tk |-> tk, text |-> t, input |-> ModelInput(tk, t)]
    /\ UNCHANGED <<rules, policy, admin, sync, memory, due, worker, faults>>

-----------------------------------------------------------------------------
(* The worker.                                                             *)

\* The batch, and the start of the window of its peers.
ClaimBatch ==
    /\ worker = Idle
    /\ \E n \in 1 .. BatchSize : \E batch \in [1 .. n -> due] :
         /\ \A i, j \in 1 .. n : batch[i] = batch[j] => i = j
         /\ worker' = [Idle EXCEPT !.batch = batch, !.since = now - Window]
         /\ due' = due \ ToSet(batch)
    /\ UNCHANGED <<rules, policy, admin, sync, memory, answer, now, requests, faults>>

\* ListProjectMemoriesSince
Peers(since) ==
    {memory[m] : m \in {k \in Memory : memory[k] # None
                           /\ memory[k].live /\ memory[k].created >= since}}

\* The newest MaxPeers of all; which of those of one time the query leaves open.
Newest(all) ==
    {kept \in SUBSET all :
        /\ Cardinality(kept) = MaxPeers \/ (kept = all /\ Cardinality(all) < MaxPeers)
        /\ \A p \in kept, q \in all \ kept : q.created <= p.created}

\* GetMemoryByID
LoadMemory ==
    /\ worker.batch # <<>> /\ worker.read = None
    /\ worker' = [worker EXCEPT !.read = memory[Head(worker.batch)]]
    /\ UNCHANGED <<rules, policy, admin, sync, memory, due, answer, now, requests, faults>>

\* getPeers: read for the first memory and kept for the batch.  A query that fails
\* leaves all of it without.  since becomes the time from which the peers are all
\* of the project's memories.
GetPeers ==
    /\ worker.read # None /\ worker.peers = None
    /\ \/ /\ LET all == Peers(worker.since)
             IN  \E kept \in Newest(all) :
                    worker' = [worker EXCEPT !.peers = kept,
                                 !.since = Max({@} \cup {p.created + 1 : p \in all \ kept})]
          /\ UNCHANGED faults
       \/ /\ faults < MaxFaults
          /\ faults' = faults + 1
          /\ worker' = [worker EXCEPT !.peers = {}, !.blind = TRUE]
    /\ UNCHANGED <<rules, policy, admin, sync, memory, due, answer, now, requests>>

\* The verdict merged into the metadata; what it does not name stays.
Merged(row, v) ==
    [row EXCEPT !.meta.status = v.status,
                !.since = IF worker.blind THEN None ELSE worker.since,
                !.of = IF v.status = "near_duplicate" THEN v.of ELSE @]

\* It is stored if the content is still the one read.
StoreVerdict ==
    LET mem == worker.read
        v == Verdict(mem, worker.peers, now)
    IN  /\ worker.read # None /\ worker.peers # None
        /\ memory' = IF memory[mem.id].content # mem.content THEN memory
                     ELSE [memory EXCEPT ![mem.id] = Merged(@, v)]
        /\ worker' = IF Len(worker.batch) = 1 THEN Idle
                     ELSE [worker EXCEPT !.batch = Tail(@), !.read = None]
        /\ UNCHANGED <<rules, policy, admin, sync, due, answer, now, requests, faults>>

Tick ==
    /\ now < MaxTime
    /\ now' = now + 1
    /\ UNCHANGED <<rules, policy, admin, sync, memory, due, worker, answer, requests, faults>>

Next ==
    \/ \E i \in CustomRule, r \in NewRule : CreateGuardrail(i, r)
    \/ \E a \in Admin : \/ \E i \in RuleId, p \in Patch \cup {Delete} : GetGuardrail(a, i, p)
                        \/ PutGuardrail(a)
    \/ \E t \in Threshold : PutPolicy(t)
    \/ \E c \in Client : \/ \E m \in Memory, item \in Item : BeginPush(c, m, item)
                         \/ ReadGuardrails(c) \/ FilterPush(c)
    \/ \E m \in Memory : DeleteMemory(m) \/ \E item \in Item : CreateMemory(m, item)
    \/ Search \/ ClaimBatch \/ LoadMemory \/ GetPeers \/ StoreVerdict \/ Tick

Spec == Init /\ [][Next]_vars

-----------------------------------------------------------------------------
(* Properties.                                                             *)

PushRecord ==
    [id : Memory, item : Item, time : Int,
     rows : {None} \cup [ok : BOOLEAN, set : SUBSET Guardrail],
     held : SUBSET Guardrail, none : BOOLEAN, lowest : Int]

TypeOK ==
    /\ rules \in [RuleId -> {None} \cup Guardrail]
    /\ policy \in {None} \cup Nat
    /\ admin \in [Admin -> {None} \cup [row : Guardrail, patch : Patch \cup {Delete}]]
    /\ sync \in [Client -> {None} \cup PushRecord]
    /\ memory \in [Memory -> {None} \cup MemoryRecord]
    /\ due \subseteq Memory
    /\ worker \in [batch : Seq(Memory), since : Int, peers : {None} \cup SUBSET MemoryRecord,
                    blind : BOOLEAN, read : {None} \cup MemoryRecord]
    /\ worker.peers # None => IsFiniteSet(worker.peers)
    /\ now \in Nat /\ requests \in Nat /\ faults \in Nat

Forbids(g, item) ==
    CASE g.kind = "secret_detection"     -> ContainsSecret(item.content)
      [] g.kind = "local_path_redaction" -> ContainsLocalPath(item.content)
      [] g.kind = "user_scope_block"     -> item.meta.scope = "user"
      [] g.kind = "category" -> item.category = ToLower(TrimSpace(g.value))
      [] g.kind = "regex"    -> Has(item.content, g.value)
      [] g.kind = "keyword"  -> Has(ToLower(item.content), ToLower(g.value))

\* A push is not stored against a rule that was on, or a threshold that was in
\* force, all the while it was under way: what an administrator was told is on
\* applies to what is sent after it.  If the rules cannot be read, or there are
\* none, the seed of a new organization applies in their place.  A read of the
\* rules or of the policy that fails is excepted: filterForOrg goes on with the
\* default filter or threshold.
NothingHeldIsPassed ==
    [][\A c \in Client :
        LET s == sync[c]
            item == s.item
        IN  FilterPush(c) /\ <<memory, due>>' # <<memory, due>> =>
              /\ s.rows.ok => \A g \in s.held : ~Forbids(g, item)
              /\ s.rows.ok /\ faults' = faults /\ ~item.meta.pinned /\ item.meta.score # None
                   => item.meta.score \notin 1 .. s.lowest - 1
              /\ ~s.rows.ok \/ s.none
                   => \A i \in DOMAIN Seeded : ~Forbids(Seeded[i], item)]_vars

\* Two contents that differ in nothing but case, punctuation and accents apart.
SameButForFormat(t, u) ==
    LET Plain(s) == ToLower(Keep(s, Rune \ (Punct \cup Mark)))
    IN  Plain(t) = Plain(u)

AtRest(m) ==
    /\ memory[m] # None /\ memory[m].live
    /\ m \notin due \cup ToSet(worker.batch)

\* Of two memories at rest that differ in format only, one is marked as a near
\* duplicate, whatever the order of pushes, deletions and batches, unless one
\* was too old for the window when the other was judged, or beyond the newest
\* MaxPeers, or the peers could not be read.
OneOfTwoIsMarked ==
    \A m, n \in Memory :
        /\ m # n /\ AtRest(m) /\ AtRest(n)
        /\ SameButForFormat(memory[m].content, memory[n].content)
        => \/ "near_duplicate" \in {memory[m].meta.status, memory[n].meta.status}
           \/ None \in {memory[m].since, memory[n].since}
           \/ memory[n].created < memory[m].since
           \/ memory[m].created < memory[n].since

\* A place in words: how much of which word is behind, and the last token of it.
Place(words, w, o, id) ==
    IF w <= Len(words) /\ o = Len(words[w])
    THEN [w |-> w + 1, o |-> 0, last |-> NoId] ELSE [w |-> w, o |-> o, last |-> id]

\* WordPiece, and what is encoded as that.
ByPieces(tk) == tk.model \notin {"BPE", "WordLevel", "Unigram"}

\* The places that token id may lead to from place p.
Read(tk, words, p, id) ==
    LET word == words[p.w]
        prefix == IF p.o > 0 /\ ByPieces(tk) THEN tk.prefix ELSE <<>>
        Piece(j) == prefix \o SubSeq(word, p.o + 1, j)
        known == {j \in p.o + 1 .. Len(word) : Piece(j) \in tk.vocab}
        To(j) == Place(words, p.w, j, id)
        tooLong == ByPieces(tk) /\ Len(Bytes(word)) > tk.maxChars
    IN  IF p.w > Len(words) THEN {}
        ELSE IF tk.fast /\ word \in tk.added THEN {To(Len(word)) : x \in {id} \cap {word}}
        ELSE IF tk.model = "BPE" THEN
             {To(j) : j \in {k \in p.o + 1 .. Len(word) :
                 /\ id = IF k \in known THEN Piece(k) ELSE tk.unk
                 /\ \A i \in DOMAIN tk.merges : tk.merges[i] # <<p.last, Piece(k)>>}}
        ELSE IF tk.model = "WordLevel" \/ (tk.fast /\ tooLong) THEN
             {To(Len(word)) : x \in {id} \cap {IF word \in tk.vocab /\ ~tooLong THEN word ELSE tk.unk}}
        ELSE IF known = {} THEN {To(p.o + 1) : x \in {id} \cap {tk.unk}}
        ELSE {To(Max(known)) : x \in {id} \cap {Piece(Max(known))}}

\* The input of the model spells out the words of the text, as far as it is
\* long: between the two special tokens, which only added tokens may push out,
\* every token stands for what comes next in the text, the longest it could
\* stand for (for BPE, with no merge left to make), and the attended part is
\* nothing but that.
TokensSpellTheText ==
    answer # None =>
        LET tk == answer.tk
            s == Truncated(answer.text, MaxEmbedBytes)
            words == IF tk.fast THEN WordsOf(tk, s)
                     ELSE LET w == SplitOnPunctuation(ToLower(TrimSpace(s)))
                          IN  [i \in DOMAIN w |-> Bytes(w[i])]
            ids == answer.input.ids
            n == Cardinality({i \in DOMAIN ids : answer.input.mask[i] = 1})
            pushedOut == tk.fast /\ n = tk.maxLen /\ ToSet(words) \cap tk.added # {}
            closed == ids[n] = tk.sep
            body == SubSeq(ids, 2, IF closed THEN n - 1 ELSE n)
            places[k \in 0 .. Len(body)] ==
                IF k = 0 THEN {Place(words, 1, 0, NoId)}
                ELSE UNION {Read(tk, words, p, body[k]) : p \in places[k - 1]}
        IN  /\ Len(ids) = tk.maxLen /\ ids[1] = tk.cls
            /\ \A i \in DOMAIN ids : i > n => answer.input.mask[i] = 0 /\ ids[i] = tk.pad
            /\ closed \/ pushedOut
            /\ \E p \in places[Len(body)] : n < tk.maxLen => p.w > Len(words)

=============================================================================
