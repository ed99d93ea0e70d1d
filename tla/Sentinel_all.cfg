SPECIFICATION SSpec
CONSTANTS
    db1 = db1
    db2 = db2
    agent = agent
    NoContainer = NoContainer
    Containers <- MCContainers
    Identity <- MCIdentity
    Limit <- MCLimit
    WorkingSet <- MCWorkingSet
    Views <- MCViews
    Unreadable = Unreadable
    Missing = Missing
    NaN = NaN
    Unset = Unset
    Units <- MCUnits
    MaxBytes = 63
    Situations <- MCSituations
    Shipped <- MCShipped
    Subjects <- Names
    Cases <- MCCases
    Concurrency = 2
    Usable = 8
    Floor = 2
    Restarts = 2
    Day = 2
    NoExpiry = 99
    MaxChanges = 1
INVARIANTS
    BudgetIsWhole
    LimitsAreTrue
    NeverAbsent
    NothingHidden
    ExpiredRulesAreInert
    AcceptedIsUsable
    PatternsAreGlobs
    PartialReadsAreSafe
    EveryPathIsSpokenOf
    ExitIsHonest
PROPERTIES
    CommandEnds
