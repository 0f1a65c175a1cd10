CONSTANTS
    NoRow = NoRow
    NoVersion = NoVersion
    u1 = u1
    Users = {u1}
    Requests = {r1, r2}
    Texts = {t1}
    BuildTexts = {t1}
    Observations = {o1}
    Owner <- MCOwner
    Builds = {b1}
    MinSample = 1
    HandStatuses = {"public"}
SPECIFICATION Spec
SYMMETRY Symmetry
INVARIANTS
    TypeOK
    RevocationExcludes
    ErasedStaysOut
PROPERTY ImplementsDatasets
CHECK_DEADLOCK FALSE
