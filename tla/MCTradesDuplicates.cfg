CONSTANTS
    NoObs = NoObs
    BadRow = BadRow
    Uploads = {u1, u2}
    Keys = {k1, k2}
    MaxRows = 2
SPECIFICATION TradesSpec
SYMMETRY Symmetry
INVARIANT DuplicatesAreReported
CHECK_DEADLOCK FALSE
