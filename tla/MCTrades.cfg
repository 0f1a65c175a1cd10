CONSTANTS
    NoObs = NoObs
    BadRow = BadRow
    Uploads = {u1, u2}
    Keys = {k1, k2}
    MaxRows = 2
SPECIFICATION TradesFairSpec
INVARIANTS
    AnswersAreTrue
    AllOrNothing
    ReimportAddsNothing
PROPERTIES
    ImplementsLog
    UploadsEnd
CHECK_DEADLOCK FALSE
