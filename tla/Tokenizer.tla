----------------------------- MODULE Tokenizer ------------------------------
(***************************************************************************)
(* From a text to the input of the model that embeds it: the tokenizer of  *)
(* a HuggingFace tokenizer.json, and the one of a plain vocab.txt that     *)
(* stands in for it.                                                       *)
(*                                                                         *)
(* A token is a sequence of runes (of bytes, for vocab.txt) and its id is  *)
(* the token itself; the special tokens are one symbol each.               *)
(***************************************************************************)
EXTENDS Texts

CONSTANTS
    Hash,       \* the "##" that WordPiece puts before a piece inside of a word
    Underline,  \* the mark that Metaspace puts before a word
    CLS, SEP, PAD, UNK,     \* [CLS] or <s>, [SEP] or </s>, [PAD] or <pad>, the unknown token
    MaxEmbedBytes           \* maxEmbedInputBytes

NoId == <<"-1">>
ZeroId == <<"0">>

(***************************************************************************)
(* Reading the files.                                                      *)
(***************************************************************************)
\* NewFastTokenizer on a file that parses: defaults and added tokens.
Loaded(file) ==
    LET vocab == file.vocab \cup file.added
        Id(token, default) == IF token \in vocab THEN token ELSE default
    IN  [file EXCEPT
            !.vocab = vocab,
            !.prefix = IF @ = <<>> /\ file.model = "WordPiece" THEN <<Hash>> ELSE @,
            !.maxChars = IF @ = 0 THEN 200 ELSE @]
        @@ [unk |-> Id(UNK, NoId), cls |-> Id(CLS, NoId),
            sep |-> Id(SEP, NoId), pad |-> Id(PAD, ZeroId)]

\* bertPostProcessor and templatePostProcessor: ids of the file override those
\* of the vocabulary; without a post-processor, and with another, they stay.
Frame(tk, ids) ==
    LET named == tk.post \in {"BertProcessing", "TemplateProcessing"}
        cls == IF named /\ tk.postCls # NoId THEN tk.postCls ELSE tk.cls
        sep == IF named /\ tk.postSep # NoId THEN tk.postSep ELSE tk.sep
    IN  <<cls>> \o ids \o <<sep>>

(***************************************************************************)
(* Normalizing and cutting into words.                                     *)
(***************************************************************************)
\* buildBertNormalizer
BertNormalize(step, t) ==
    LET lowered == IF step.lowercase THEN ToLower(t) ELSE t
    IN  IF step.strip THEN StripAccents(NFD(lowered)) ELSE lowered

\* buildNormalizer and chainNormalizers; a Sequence is its steps.
Normalize(steps, t) ==
    LET One(s, step) ==
            CASE step.type \in {"NFD", "NFKD"}    -> NFD(s)
              [] step.type = "Lowercase"          -> ToLower(s)
              [] step.type = "StripAccents"       -> StripAccents(s)
              [] step.type = "BertNormalizer"     -> BertNormalize(step, s)
              [] OTHER                            -> s
    IN  FoldLeft(One, t, steps)

Metaspace(t) == LET f == Fields(t) IN [i \in DOMAIN f |-> <<Underline>> \o f[i]]

\* buildPreTokenizer and chainPreTokenizers
PreTokenize(steps, t) ==
    LET One(type, s) ==
            CASE type \in {"Whitespace", "WhitespaceSplit", "Split", "ByteLevel"} -> Fields(s)
              [] type = "Metaspace" -> Metaspace(s)
              [] OTHER              -> SplitOnPunctuation(s)
        All(parts, type) == FlattenSeq([i \in DOMAIN parts |-> One(type, parts[i])])
    IN  IF steps = <<>> THEN SplitOnPunctuation(t) ELSE FoldLeft(All, <<t>>, steps)

(***************************************************************************)
(* Words to tokens.                                                        *)
(***************************************************************************)
\* Longest match from the left; what does not match is unknown, one unit of it
\* at a time.  Inside of the word a token is looked for with the prefix.
Greedy(vocab, word, prefix, unknown) ==
    LET Piece(i, j) == (IF i > 1 THEN prefix ELSE <<>>) \o SubSeq(word, i, j)
        from[i \in 1 .. Len(word) + 1] ==
            IF i > Len(word) THEN <<>>
            ELSE LET ends == {j \in i .. Len(word) : Piece(i, j) \in vocab}
                 IN  IF ends = {} THEN <<unknown>> \o from[i + 1]
                     ELSE <<Piece(i, Max(ends))>> \o from[Max(ends) + 1]
    IN  from[1]

EncodeUnigram(tk, word) == Greedy(tk.vocab, word, <<>>, tk.unk)

EncodeWordPiece(tk, word) ==
    IF Len(Bytes(word)) > tk.maxChars THEN <<tk.unk>>
    ELSE IF word \in tk.vocab THEN <<word>>
    ELSE Greedy(tk.vocab, word, tk.prefix, tk.unk)

EncodeWordLevel(tk, word) == <<IF word \in tk.vocab THEN word ELSE tk.unk>>

\* The merge of lowest rank is applied, the leftmost first, until none applies.
EncodeBPE(tk, word) ==
    LET Rank(pair) == {k \in DOMAIN tk.merges : tk.merges[k] = pair}
        Ranked(s) == {i \in 1 .. Len(s) - 1 : Rank(<<s[i], s[i + 1]>>) # {}}
        Best(s) == CHOOSE i \in Ranked(s) : \A j \in Ranked(s) :
                      LET a == Max(Rank(<<s[i], s[i + 1]>>))
                          b == Max(Rank(<<s[j], s[j + 1]>>))
                      IN  a < b \/ (a = b /\ i <= j)
        Merge(s, turn) ==
            IF Ranked(s) = {} THEN s
            ELSE LET i == Best(s)
                 IN  SubSeq(s, 1, i - 1) \o <<s[i] \o s[i + 1]>> \o SubSeq(s, i + 2, Len(s))
        symbols == FoldLeft(Merge, [i \in DOMAIN word |-> <<word[i]>>], word)
    IN  [i \in DOMAIN symbols |-> IF symbols[i] \in tk.vocab THEN symbols[i] ELSE tk.unk]

EncodeWord(tk, word) ==
    CASE tk.model = "BPE"       -> EncodeBPE(tk, word)
      [] tk.model = "WordLevel" -> EncodeWordLevel(tk, word)
      [] tk.model = "Unigram"   -> EncodeUnigram(tk, word)
      [] OTHER                  -> EncodeWordPiece(tk, word)

(***************************************************************************)
(* Texts to the input of the model.                                        *)
(***************************************************************************)
\* ids up to maxLen, and which of them the model attends to.
Padded(ids, pad, maxLen) ==
    LET used == IF Len(ids) < maxLen THEN Len(ids) ELSE maxLen
    IN  [ids  |-> [i \in 1 .. maxLen |-> IF i <= used THEN ids[i] ELSE pad],
         mask |-> [i \in 1 .. maxLen |-> IF i <= used THEN 1 ELSE 0]]

WordsOf(tk, t) == PreTokenize(tk.preTokenizer, Normalize(tk.normalizer, TrimSpace(t)))

\* FastTokenizer.Tokenize: a word that is an added token is one id, and passes
\* the limit by; the rest are encoded until the limit is reached.
Tokenize(tk, t) ==
    LET Take(acc, word) ==
            IF acc.full \/ word = <<>> THEN acc
            ELSE IF word \in tk.added THEN [acc EXCEPT !.ids = Append(@, word)]
            ELSE LET ids == acc.ids \o EncodeWord(tk, word)
                 IN  IF Len(ids) >= tk.maxLen - 2
                     THEN [ids |-> SubSeq(ids, 1, tk.maxLen - 2), full |-> TRUE]
                     ELSE [acc EXCEPT !.ids = ids]
        taken == FoldLeft(Take, [ids |-> <<>>, full |-> FALSE], WordsOf(tk, t))
    IN  Padded(Frame(tk, taken.ids), tk.pad, tk.maxLen)

\* WordPieceTokenizer.Tokenize and wordPieceEncode, on bytes.
TokenizeByVocabulary(v, t) ==
    LET Encode(word) == IF word \in v.vocab THEN <<word>>
                        ELSE Greedy(v.vocab, word, <<Hash>>, UNK)
        Take(acc, word) ==
            IF acc.full THEN acc
            ELSE LET ids == acc.ids \o Encode(Bytes(word))
                 IN  IF Len(ids) >= v.maxLen - 1
                     THEN [ids |-> SubSeq(ids, 1, v.maxLen - 1), full |-> TRUE]
                     ELSE [acc EXCEPT !.ids = ids]
        taken == FoldLeft(Take, [ids |-> <<CLS>>, full |-> FALSE],
                          SplitOnPunctuation(ToLower(TrimSpace(t))))
    IN  Padded(Append(taken.ids, SEP), PAD, v.maxLen)

\* NewONNXEmbedder: the tokenizer.json of the model's directory, None if there is
\* none that parses, stands before its vocab.txt.
TokenizerOf(dir) == Loaded(IF dir.json # None THEN dir.json ELSE dir.vocab)

\* embedSingle
ModelInput(tk, t) ==
    LET s == Truncated(t, MaxEmbedBytes)
    IN  IF tk.fast THEN Tokenize(tk, s) ELSE TokenizeByVocabulary(tk, s)

=============================================================================
