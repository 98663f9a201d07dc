-------------------------- MODULE MCContentPipeline --------------------------
(***************************************************************************)
(* A small alphabet, four kinds of tokenizer.json and a vocab.txt, the     *)
(* seed of an organization, and an item for every rule of the filter and   *)
(* for every mark.                                                         *)
(***************************************************************************)
EXTENDS ContentPipeline, TLC

MCLetter == {"a", "b", "B", "aa"}   \* "aa": a letter with an accent
MCDigit == {}
MCSpace == {" "}
MCPunct == {"."}
MCMark == {"'"}
MCLowerCase == [r \in Rune |-> IF r = "B" THEN "b" ELSE r]
MCDecomposed == [r \in {"aa"} |-> <<"a", "'">>]
MCUtf8 == [r \in Rune |-> IF r = "aa" THEN <<"c3", "a1">>
                          ELSE IF r = "'" THEN <<"cc", "81">> ELSE <<r>>]

MCCLS == <<"[CLS]">>
MCSEP == <<"[SEP]">>
MCPAD == <<"[PAD]">>
MCUNK == <<"[UNK]">>
Specials == {MCCLS, MCSEP, MCPAD, MCUNK}

Step(type) == [type |-> type, lowercase |-> TRUE, strip |-> TRUE]
File ==
    [model |-> "WordPiece", fast |-> TRUE, vocab |-> Specials, added |-> Specials,
     prefix |-> <<>>, maxChars |-> 0, merges |-> <<>>, normalizer |-> <<Step("BertNormalizer")>>,
     preTokenizer |-> <<"BertPreTokenizer">>, post |-> "BertProcessing",
     postCls |-> MCCLS, postSep |-> MCSEP, maxLen |-> 5]
Files == {
    [File EXCEPT !.vocab = @ \cup {<<"a">>, <<"a", "b">>, <<"##", "a">>, <<"##", "b", "a">>, <<".">>},
                 !.added = @ \cup {<<"b", "b">>}, !.maxChars = 3],
    [File EXCEPT !.model = "BPE", !.post = "TemplateProcessing", !.postSep = NoId, !.maxLen = 6,
                 !.vocab = @ \cup {<<"a">>, <<"b">>, <<"a", "b">>, <<"b", "a">>, <<"a", "b", "a">>},
                 !.merges = <<<<<<"b">>, <<"a">>>>, <<<<"a">>, <<"b">>>>, <<<<"a", "b">>, <<"a">>>>>>,
                 !.normalizer = <<Step("NFD"), Step("StripAccents")>>,
                 !.preTokenizer = <<"WhitespaceSplit">>],
    [File EXCEPT !.model = "Unigram", !.post = "RobertaProcessing",
                 !.vocab = @ \cup {<<"_">>, <<"_", "a">>, <<"b">>, <<"b", "a">>},
                 !.normalizer = <<Step("Lowercase")>>, !.preTokenizer = <<"Metaspace">>],
    [File EXCEPT !.model = "", !.vocab = @ \cup {<<"a">>, <<"b">>, <<"a", "b">>},
                 !.prefix = <<"b">>, !.maxChars = 3],
    [File EXCEPT !.model = "WordLevel", !.vocab = @ \cup {<<"a">>, <<"a", "b">>},
                 !.normalizer = <<>>, !.preTokenizer = <<>>, !.maxLen = 4]}
Vocab ==
    [File EXCEPT !.fast = FALSE, !.added = {},
                 !.vocab = @ \cup {<<"a">>, <<"b", "a">>, <<"##", "a">>, <<"c3", "a1">>}]
MCModelDir == [json : Files, vocab : {Vocab}] \cup {[json |-> None, vocab |-> Vocab]}
MCQuery == UNION {[1 .. n -> Rune] : n \in 0 .. 4}

MCFact == <<"a", "a">>
Event == <<"b", "a">>
MCDefaultBlocked == {Event}
MCSecret == {<<"b", ".", "b">>}
MCPath == {<<"b", "b">>}
MCChatter == {<<"b", ".", "a">>}
MCBadRegex == {<<".">>}
MCNegation == {<<"a", "b", "b">>}
Rule(kind, value) == [kind |-> kind, value |-> value]
Seed(kind, value) ==
    [id |-> kind, kind |-> kind, value |-> value, enabled |-> TRUE,
     builtin |-> kind \in SecurityKinds]
MCSeeded ==
    [k \in SecurityKinds \cup {"category"} |-> Seed(k, IF k = "category" THEN Event ELSE <<>>)]
MCNewRule == {Rule("category", <<" ", "B", "B">>), Rule("keyword", <<"B", ".">>),
              Rule("regex", <<"a", ".">>)}
MCPatch == {[enabled |-> FALSE, value |-> None, text |-> FALSE],
            [enabled |-> TRUE, value |-> <<".">>, text |-> TRUE]}

It(content, category, meta, age) ==
    [content |-> content, category |-> category, keywords |-> {<<"a">>}, meta |-> meta, age |-> age]
MCItem == {
    It(<<"a", "b", "a">>, <<"b", "b">>, NoMetadata, 0),
    It(<<"a", "B", "a", ".">>, MCFact, [NoMetadata EXCEPT !.score = 2], 1),
    It(<<"b", ".", "b">>, Event, [NoMetadata EXCEPT !.scope = "user"], 0),
    It(<<"a", "b", "b">>, MCFact, [NoMetadata EXCEPT !.pinned = TRUE, !.score = 1], 0)}
=============================================================================
