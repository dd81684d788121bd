SPECIFICATION EmergencySpec
CONSTANTS
    Deps = {"d1"}
    Symbols = {"s1"}
    Ticker <- SameSymbol
    MaxBars = 1
    Fires <- EveryBar
    Gates = {"blocked"}
    DashStatuses = {}
    MaxCrashes = 0
PROPERTIES StopRefusesOrders
