CONSTANTS
    NoRow = NoRow
    Users = {u1}
    Requests = {r1, r2, r3}
    Texts = {t1, t2}
SPECIFICATION ConsentSpec
SYMMETRY Symmetry
INVARIANT ErasureIsFinal
CHECK_DEADLOCK FALSE
