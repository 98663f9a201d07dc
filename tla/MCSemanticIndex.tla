--------------------------- MODULE MCSemanticIndex --------------------------
(***************************************************************************)
(* Two memories, and one model at two endpoints, which are two spaces.       *)
(***************************************************************************)
EXTENDS SemanticIndex

CONSTANTS old, new

MCMemory == 1 .. 2

MCServer == {old, new}

OpenAI(url) == [provider |-> "openai", url |-> url, model |-> "text-embedding-3-small",
                dims |-> 384, key |-> TRUE]

\* One server has the former endpoint, or an embedder that does not fit the
\* column, when the other starts.
MCConfigured == [s \in MCServer |->
    IF s = old THEN {OpenAI("a"), [OpenAI("a") EXCEPT !.dims = 1536]} ELSE {OpenAI("b")}]

\* Plain, or hidden and with the mark of the worker that judged it elsewhere.
MCMetadata == {[hidden |-> b, noise |-> FALSE, judged |-> b] : b \in BOOLEAN}
=============================================================================
