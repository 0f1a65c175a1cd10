CONSTANTS
    None = None
    Default = Default
    Obs = {o1, o2}
    Rulesets = {v1, v2}
    Friendships = {"good"}
    Requests = {r1, r2}
    MaxClock = 3
    MaxChanges = 1
    MinHundos = 2
    PValues = {1, 50}
    Effects = {4, 30}
SPECIFICATION AnalysisSpec
SYMMETRY Symmetry
INVARIANTS
    ReuseIsSound
    FailedIsEmpty
    VerdictsNeedData
    MixesAreFlagged
CHECK_DEADLOCK FALSE
CONSTRAINT Bounded
