SPECIFICATION Spec
CONSTANTS
    Letter <- MCLetter
    Digit <- MCDigit
    Space <- MCSpace
    Punct <- MCPunct
    Mark <- MCMark
    LowerCase <- MCLowerCase
    Decomposed <- MCDecomposed
    Utf8 <- MCUtf8
    Hash = "##"
    Underline = "_"
    CLS <- MCCLS
    SEP <- MCSEP
    PAD <- MCPAD
    UNK <- MCUNK
    MaxEmbedBytes = 6
    Fact <- MCFact
    SecretPattern <- MCSecret
    PathPattern <- MCPath
    Chatter <- MCChatter
    ShortFact = 3
    BadRegex <- MCBadRegex
    QualityThreshold = 2
    DefaultBlocked <- MCDefaultBlocked
    None = None
    GramSize = 2
    DupNum = 4
    DupDen = 5
    SubjectLetters = 1
    MinOverlap = 1
    MinGap = 1
    StaleAfter = 0
    FindsContradictions = TRUE
    Negation <- MCNegation
    Stopword = {}
    Memory = {1, 2}
    Admin = {a1, a2}
    Client = {c1}
    Seeded <- MCSeeded
    CustomRule = {"custom"}
    NewRule <- MCNewRule
    Patch <- MCPatch
    Delete = Delete
    Threshold = {0, 3}
    Item <- MCItem
    Window = 1
    MaxPeers = 1
    BatchSize = 2
    ModelDir <- MCModelDir
    Query <- MCQuery
    MaxTime = 1
    MaxRequests = 3
    MaxFaults = 1
INVARIANTS
    TypeOK
    OneOfTwoIsMarked
    TokensSpellTheText
PROPERTIES
    NothingHeldIsPassed
CHECK_DEADLOCK FALSE
