SPECIFICATION FairSpec
CONSTANTS
    Tickets = {1, 2}
    Tracked = {1, 2}
    Deps = {"d1"}
    Owner <- OneOwner
    Partial = {1}
    DashStatuses = {"live", "removed"}
    HaltAt = 2
    MaxShadow = 1
    ReadFaults = FALSE
    Ages = TRUE
INVARIANTS TypeOK NoDoubleJournal JournalOnlyDealt NothingForgotten DenseIndices FreshIndex
PROPERTIES ClosesReachJournal JournalSpec
