CONSTANTS
    None = None
    Site = Site
    Mechanic = Mechanic
    RulesetKeys = {v1, v2}
    SourceKeys = {s1, s2}
    ClaimKeys = {c1, c2}
    Titles = {t1}
    OtherTitle = t0
    Scopes = {x1}
    TitleOf <- MCTitleOf
    SeedSlugs = {}
    ContentSlugs = {p2}
    Locales = {es}
    Seeders = {a, b}
    ContentSeeders = {c}
    MaxEdits = 1
    Backups = {k1}
    Names = {n1, n2}
    Retention = 0
    MaxDay = 1
    MaxLosses = 1
SPECIFICATION Spec
SYMMETRY Symmetry
INVARIANT DumpsLast
PROPERTY SeedsAreWhole
