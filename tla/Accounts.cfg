SPECIFICATION Spec
CONSTANTS
    Org = {o1}
    Email = {e1, e2}
    Role = {"admin", "member"}
    KeyId = {k1, k2, k3}
    Invite = {i1}
    Request = {r1, r2}
    None = None
    MaxBegun = 4
    MaxEdits = 1
SYMMETRY AccountsSymmetry
INVARIANTS
    TypeOK
    KeysAreOfMembers
    InviteTakenOnce
    NobodyStranded
    SessionsBounded
CHECK_DEADLOCK FALSE
