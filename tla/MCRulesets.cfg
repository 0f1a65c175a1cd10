CONSTANTS
    None = None
    Lost = Lost
    BadValue = BadValue
    Staff = {s1, s2}
    Versions = {1, 2}
    Seeded = 1
    Params = {p1, p2}
    Keys = {k1}
    FloorValues = {f1}
SPECIFICATION RulesetsSpec
SYMMETRY Symmetry
INVARIANTS
    PublishedStaysPut
    PublishedIsValid
PROPERTY ImplementsShelf
CHECK_DEADLOCK FALSE
