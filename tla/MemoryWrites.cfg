SPECIFICATION Spec
CONSTANTS
    named = named
    theirs = theirs
    c1 = c1
    c2 = c2
    Memory = {named, theirs, g1, g2}
    Foreign = {theirs}
    Client = {a, b}
    Key = {k1}
    Content = {c1, c2}
    Payload <- MCPayload
    Blank = Blank
    None = None
    MaxTime = 4
    MaxSends = 2
    MaxPurges = 1
    MaxFaults = 1
SYMMETRY WritesSymmetry
INVARIANTS
    TypeOK
    WritesOnce
    KeptWithItsWrite
PROPERTY
    ImplementsWriteOnce
CHECK_DEADLOCK FALSE
