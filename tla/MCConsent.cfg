CONSTANTS
    NoRow = NoRow
    Users = {u1}
    Requests = {r1, r2, r3}
    Texts = {t1}
SPECIFICATION ConsentFairSpec
INVARIANTS
    ConsentTypeOK
    RevocationSticks
    AloneRequestIsAudited
    QuietErasureIsFinal
PROPERTY RequestsEnd
CHECK_DEADLOCK FALSE
