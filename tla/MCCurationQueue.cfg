SPECIFICATION QueueSpec
CONSTANTS
    Memory = {m1, m2, m3}
    Worker = {w1, w2}
    None = None
    BatchSize = 2
    MaxAttempts = 5
SYMMETRY QueueSymmetry
INVARIANTS
    NoLostRequest
    LeaseIffHeld
    GivenUpIffExhausted
PROPERTY ImplementsWorkQueue
