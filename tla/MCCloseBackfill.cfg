SPECIFICATION BackfillSpec
CONSTANTS
    Tickets = {1, 2}
    Tracked = {1}
    Deps = {"d1", "d2"}
    Owner <- OneOwner
    Partial = {}
    DashStatuses = {"removed"}
    HaltAt = 9
    MaxShadow = 0
    ReadFaults = FALSE
    Ages = TRUE
    InDeal <- DealNumbers
    Candidates <- AnyDeployment
    MaxRows = 3
INVARIANTS BackfillTypeOK BesideInOrder AloneInOrder
