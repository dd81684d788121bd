SPECIFICATION Spec
CONSTANTS
    Deps = {"d1"}
    Symbols = {"s1"}
    Ticker <- SameSymbol
    MaxBars = 2
    Fires <- EveryBar
    Gates = {}
    DashStatuses = {}
    MaxCrashes = 0
INVARIANTS OnePositionPerSymbol
