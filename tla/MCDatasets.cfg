CONSTANTS
    NoVersion = NoVersion
    Observations = {o1}
    BuildTexts = {t1}
    Builds = {b1, b2, b3}
    MinSample = 1
    HandStatuses = {"public"}
SPECIFICATION DatasetsFairSpec
INVARIANTS
    DatasetsTypeOK
    NumbersFollow
    PageMeetsThreshold
PROPERTIES
    ImplementsLedger
    BuildsEnd
CHECK_DEADLOCK FALSE
