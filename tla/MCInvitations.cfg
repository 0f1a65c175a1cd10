CONSTANTS
    MaxStaff = 1
    None = None
    Left = Left
    Gone = Gone
    Browsers = {b1}
    Requests = {r1, r2}
    Invitations = {i1, i2}
    Addresses = {a1, a2}
    Spellings = {lower, mixed}
SPECIFICATION InvSpec
SYMMETRY Symmetry
INVARIANTS InvTypeOK OnlyInvited LateLinksAreClosed SignupCloses
PROPERTY NotTakenOver
CHECK_DEADLOCK FALSE
