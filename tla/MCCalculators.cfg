CONSTANTS
    Blank = Blank
    Junk = Junk
    NotFinite = NotFinite
    NoForm = NoForm
    Cpm <- MCCpm
    CpmUnit = 8
    MaxIV = 1
    MiddleIV = 0
    Base <- MCBase
    Fighters <- MCFighters
    FighterOrder <- MCFighterOrder
    FastMoves <- MCFastMoves
    ChargeMoves <- MCChargeMoves
    MoveOrder <- MCMoveOrder
    BestMovesets <- MCBestMovesets
    Alphabet <- MCAlphabet
    BossDefense = 7
    CatchRates <- MCCatchRates
    DefaultLeague = 24
    TopN = 5
    MaxBreakpoints = 3
    MaxEncounters = 100
    MaxCached = 1
    MaxDeploys = 1
    Forms <- MCForms
    Shared <- MCShared
    AddressLength <- MCAddressLength
    MaxShareUrlLength = 2048
    DpsForms <- MCDpsForms
SPECIFICATION Spec
INVARIANTS
    RankingIsBest
    CostsAddUp
    BreakpointsAreExact
    LinkShowsWhatWasShared
    AttackersAreRight
