--------------------------- MODULE CurationMarks ----------------------------
(***************************************************************************)
(* The heuristics by which the curation worker marks a memory: near        *)
(* duplicate, stale, contradiction candidate.                              *)
(***************************************************************************)
EXTENDS Texts, ContentFilter

CONSTANTS
    GramSize,          \* 5 in the code
    DupNum, DupDen,    \* NearDupThreshold as a fraction
    SubjectLetters,    \* words of a subject have at least so many runes
    MinOverlap,        \* contradictionMinOverlap
    MinGap,            \* contradictionMinGap
    StaleAfter,        \* StaleAfterDays in whole ticks of the clock, None to mark nothing stale
    FindsContradictions,  \* ContradictionDetection
    Negation,          \* negationMarkers
    Stopword           \* stopwords

\* (The fault of a normalization that keeps the case.)
KeepingCase(t) == TrimSpace(Keep(t, Letter \cup Digit \cup Space))

\* normalizeForNgram
NormalizeForNgram(t) == TrimSpace(Keep(ToLower(t), Letter \cup Digit \cup Space))

Ngrams(t) ==
    IF Len(t) < GramSize THEN {t} \ {<<>>}
    ELSE {SubSeq(t, i, i + GramSize - 1) : i \in 1 .. Len(t) - GramSize + 1}

\* fivegramJaccard of the normalized texts reaches the threshold.
NearDuplicates(t, u) ==
    LET a == Ngrams(NormalizeForNgram(t))
        b == Ngrams(NormalizeForNgram(u))
    IN  \/ a = {} /\ b = {}
        \/ /\ a # {} /\ b # {}
           /\ Cardinality(a \cap b) * DupDen >= DupNum * Cardinality(a \cup b)

\* significantTokens: of the keywords if there are any, of the content otherwise.
SignificantTokens(mem) ==
    IF mem.keywords # {} THEN {ToLower(TrimSpace(k)) : k \in mem.keywords} \ {<<>>}
    ELSE {w \in Words(mem.content) : Len(w) >= SubjectLetters} \ Stopword

HasNegation(t) == Words(t) \cap Negation # {}

\* What findContradiction asks of a pair.
Contradicts(mem, peer) ==
    /\ LET gap == IF mem.created > peer.created THEN mem.created - peer.created
                  ELSE peer.created - mem.created
       IN  gap >= MinGap
    /\ Cardinality(SignificantTokens(mem) \cap SignificantTokens(peer)) >= MinOverlap
    /\ HasNegation(mem.content) # HasNegation(peer.content)

IsStale(mem, now) ==
    /\ StaleAfter # None
    /\ ~mem.meta.pinned /\ mem.meta.superseded = None
    /\ now - mem.updated > StaleAfter

\* The first of a set of memories, as ListProjectMemoriesSince orders them; which of
\* those of one time comes first it leaves open.
First(mems) ==
    CHOOSE p \in mems : \A q \in mems :
        p.created < q.created \/ (p.created = q.created /\ p.id <= q.id)

\* The verdict of processOne on mem, among its peers.
Verdict(mem, peers, now) ==
    LET others == {p \in peers : p.id # mem.id}
        dups == {p \in others : NearDuplicates(mem.content, p.content)}
        contra == {p \in others : Contradicts(mem, p)}
        accepted == Filter(DefaultConfig, mem) = "accepted"
        Plain(status) == [status |-> status, of |-> None]
    IN  IF dups # {} THEN [status |-> "near_duplicate", of |-> First(dups).id]
        ELSE IF ~accepted THEN Plain("low_signal")
        ELSE IF IsStale(mem, now) THEN Plain("stale")
        ELSE IF FindsContradictions /\ contra # {}
             THEN [status |-> "contradiction_candidate", of |-> First(contra).id]
        ELSE Plain("ok")

=============================================================================
