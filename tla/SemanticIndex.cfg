SPECIFICATION Spec
CONSTANTS
    Memory <- MCMemory
    Legacy = {2}
    Text = {x, y}
    Onnx = FALSE
    Width = 384
    old = old
    new = new
    Server <- MCServer
    Configured <- MCConfigured
    Metadata <- MCMetadata
    None = None
    PageSize = 1
    MaxAttempts = 1
    MaxPushes = 1
    MaxStarts = 2
    MaxFaults = 1
INVARIANTS
    TypeOK
    NoneForgotten
PROPERTY
    AnswersAreWhole
CHECK_DEADLOCK FALSE
