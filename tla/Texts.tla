------------------------------- MODULE Texts --------------------------------
(***************************************************************************)
(* Texts as sequences of runes, and the operations on them that the content*)
(* filter, the curation heuristics and the tokenizers share.  A rune is a  *)
(* member of one of five classes; which ones there are is a parameter.     *)
(***************************************************************************)
EXTENDS Naturals, Sequences, SequencesExt

CONSTANTS
    Letter, Digit, Space, Punct, Mark,  \* Mark: combining marks
    LowerCase,   \* LowerCase[r]
    Decomposed,  \* nfdLatin1 and nfdLatinExtA: some letters as a base letter and a mark
    Utf8,        \* Utf8[r]: the bytes of r
    None

Rune == Letter \cup Digit \cup Space \cup Punct \cup Mark

ASSUME TextsAssumption ==
    /\ LowerCase \in [Rune -> Rune]
    /\ DOMAIN Decomposed \subseteq Rune /\ DOMAIN Utf8 = Rune
    /\ \A r \in DOMAIN Decomposed : Decomposed[r] \in Seq(Rune)
    /\ \A r \in Rune : Utf8[r] \in Seq(ToSet(Utf8[r])) \ {<<>>}
    /\ (Letter \cup Digit \cup Space) \cap (Punct \cup Mark) = {}
    /\ \A r \in Rune : LowerCase[r] \in Punct \cup Mark <=> r \in Punct \cup Mark

ToLower(t) == [i \in DOMAIN t |-> LowerCase[t[i]]]

\* The runes of t that are in kept, in their order.
Keep(t, kept) ==
    LET f[i \in 0 .. Len(t)] ==
            IF i = 0 THEN <<>>
            ELSE IF t[i] \in kept THEN Append(f[i - 1], t[i]) ELSE f[i - 1]
    IN  f[Len(t)]

\* strings.Contains, and a regular expression that is a literal
Has(t, p) == \E i \in 0 .. Len(t) - Len(p) : SubSeq(t, i + 1, i + Len(p)) = p

TrimSpace(t) ==
    LET inked == {i \in DOMAIN t : t[i] \notin Space}
    IN  IF inked = {} THEN <<>> ELSE SubSeq(t, Min(inked), Max(inked))

\* The runs of t between the runes of sep, with each rune of alone on its own.
Cut(t, sep, alone) ==
    LET Step(acc, r) ==
            CASE r \in sep   -> [acc EXCEPT !.open = FALSE]
              [] r \in alone -> [words |-> Append(acc.words, <<r>>), open |-> FALSE]
              [] OTHER       ->
                   IF acc.open
                   THEN [acc EXCEPT !.words[Len(acc.words)] = Append(@, r)]
                   ELSE [words |-> Append(acc.words, <<r>>), open |-> TRUE]
    IN  FoldLeft(Step, [words |-> <<>>, open |-> FALSE], t).words

Fields(t) == Cut(t, Space, {})

SplitOnPunctuation(t) == Cut(t, Space, Punct)

\* tokenize of the contradiction heuristic: the words, in lower case.
Words(t) == ToSet(Cut(ToLower(t), Space \cup Punct \cup Mark, {}))

NfdDecompose(r) == IF r \in DOMAIN Decomposed THEN Decomposed[r] ELSE <<r>>

\* normalizeNFD
NFD(t) == FlattenSeq([i \in DOMAIN t |-> NfdDecompose(t[i])])

StripAccents(t) == Keep(t, Rune \ Mark)

Bytes(t) == FlattenSeq([i \in DOMAIN t |-> Utf8[t[i]]])

\* truncateForEmbedding: at most n bytes, and whole runes.
Truncated(t, n) ==
    SubSeq(t, 1, Max({i \in 0 .. Len(t) : Len(Bytes(SubSeq(t, 1, i))) <= n}))

=============================================================================
