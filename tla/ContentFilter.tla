--------------------------- MODULE ContentFilter ----------------------------
(***************************************************************************)
(* The content filter, and how the sync engine builds it from an           *)
(* organization's guardrails.  A regular expression is a literal one; a    *)
(* quality score is one of a few numbers, None if there is none.           *)
(***************************************************************************)
EXTENDS Texts

CONSTANTS
    Fact,            \* the category "fact"
    SecretPattern,   \* containsSecret: what looks like a secret
    PathPattern,     \* localPathPatterns
    Chatter,         \* test output, progress and traces, in lower case
    ShortFact,       \* facts below this many runes are checked for chatter
    BadRegex,        \* the values that do not compile
    QualityThreshold,      \* RemoteQualityThreshold and DefaultQualityThreshold
    DefaultBlocked         \* DefaultBlockedCategories

SecurityKinds == {"secret_detection", "local_path_redaction", "user_scope_block"}
CustomKinds == {"category", "regex", "keyword"}

\* An item's metadata, as far as the filter and the marks read it.
NoMetadata == [scope |-> None, type |-> None, kind |-> None, origin |-> None,
               status |-> None, pinned |-> FALSE, score |-> None, superseded |-> None]

ContainsSecret(t) == \E p \in SecretPattern : Has(t, p)

ContainsLocalPath(t) == \E p \in PathPattern : Has(t, p)

\* NewContentFilterFromConfig; rules is the set of custom rules.
Config(blocked, threshold, security, rules) ==
    [blocked |-> {ToLower(TrimSpace(c)) : c \in blocked},
     threshold |-> IF threshold <= 0 THEN QualityThreshold ELSE threshold,
     security |-> security, rules |-> rules]

\* NewContentFilterWithConfig: all security rules, and the default categories
\* when none are given.
LegacyConfig(blocked, threshold) ==
    Config(IF blocked = {} THEN DefaultBlocked ELSE blocked, threshold, SecurityKinds, {})

\* NewContentFilter
DefaultConfig == LegacyConfig(DefaultBlocked, QualityThreshold)

Matches(rule, t) ==
    IF rule.kind = "keyword" THEN Has(ToLower(t), ToLower(rule.value)) ELSE Has(t, rule.value)

\* checkLifecycle
UserScope(cfg, meta) == "user_scope_block" \in cfg.security /\ meta.scope = "user"
Operational(meta) == meta.type = "operational" /\ meta.kind # "handoff"
LocalOrigin(meta) == meta.origin \in {"precompact", "handoff"}

\* checkQuality
BelowThreshold(cfg, meta) ==
    meta.score # None /\ meta.score > 0 /\ meta.score < cfg.threshold
IsChatter(item) ==
    LET content == TrimSpace(item.content)
    IN  /\ item.category = Fact
        /\ Len(content) < ShortFact
        /\ \E p \in Chatter : Has(ToLower(content), p)

\* The rules of Filter, in its order.
Rules == <<"blocked_category", "lifecycle_user_scope", "lifecycle_operational",
           "lifecycle_local_origin", "local_path_detected", "secret_detected",
           "custom_rule", "low_signal", "low_quality">>

Rejects(rule, cfg, item) ==
    LET meta == item.meta
    IN  CASE rule = "blocked_category"       -> item.category \in cfg.blocked
          [] rule = "lifecycle_user_scope"   -> UserScope(cfg, meta)
          [] rule = "lifecycle_operational"  -> Operational(meta)
          [] rule = "lifecycle_local_origin" -> LocalOrigin(meta)
          [] rule = "local_path_detected"    ->
               "local_path_redaction" \in cfg.security /\ ContainsLocalPath(item.content)
          [] rule = "secret_detected"        ->
               "secret_detection" \in cfg.security /\ ContainsSecret(item.content)
          [] rule = "custom_rule"            -> \E r \in cfg.rules : Matches(r, item.content)
          [] rule = "low_signal"             -> meta.status = "low_signal"
          [] rule = "low_quality"            ->
               ~meta.pinned /\ (BelowThreshold(cfg, meta) \/ IsChatter(item))

\* Filter: the rule that rejects the item, "accepted" if none does.
Filter(cfg, item) ==
    LET i == SelectInSeq(Rules, LAMBDA rule : Rejects(rule, cfg, item))
    IN  IF i = 0 THEN "accepted" ELSE Rules[i]

\* The filter that the rows of the guardrails make.
FilterOfRows(rows, threshold) ==
    LET on == {g \in rows : g.enabled}
    IN  Config({g.value : g \in {h \in on : h.kind = "category" /\ h.value # <<>>}},
               threshold,
               {g.kind : g \in on} \cap SecurityKinds,
               {g \in on : \/ g.kind = "regex" /\ g.value \notin BadRegex
                           \/ g.kind = "keyword" /\ g.value # <<>>})

\* filterForOrg, on the guardrails and the threshold it read: no rows stand for
\* an organization from before the guardrails.
FilterForOrg(rows, threshold) ==
    IF rows = {} THEN LegacyConfig({}, threshold) ELSE FilterOfRows(rows, threshold)

=============================================================================
