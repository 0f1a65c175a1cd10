CONSTANTS
    None = None
    Lost = Lost
    BadValue = BadValue
    Versions = {1, 2}
    Seeded = 1
    Keys = {k1}
    FloorValues = {f1, f2}
    DefaultFloor = f1
    ScenarioKey = k1
    Readers = {x1}
SPECIFICATION Spec
INVARIANTS
    FloorsReproduce
    AnswersAreCurrent
CHECK_DEADLOCK FALSE
