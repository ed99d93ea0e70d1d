SPECIFICATION Spec
CONSTANTS
    db1 = db1
    db2 = db2
    agent = agent
    NoContainer = NoContainer
    Containers <- MCContainers
    Identity <- MCIdentity
    Limit <- MCLimit
    WorkingSet <- MCWorkingSet
    Views <- MCViews
    Unreadable = Unreadable
    Missing = Missing
    Cases <- MCCases
    Concurrency = 2
    Usable = 8
    Floor = 2
    Restarts = 2
    Day = 2
    NoExpiry = 99
    MaxChanges = 0
INVARIANT
    UnknownStaysUnknown
