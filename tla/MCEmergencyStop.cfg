SPECIFICATION EmergencyFairSpec
CONSTANTS
    Deps = {"d1"}
    Symbols = {"s1"}
    Ticker <- SameSymbol
    MaxBars = 1
    Fires <- EveryBar
    Gates = {"sizing", "blocked", "journal"}
    DashStatuses = {"paper", "live"}
    MaxCrashes = 1
INVARIANTS EmergencyTypeOK OneOrderPerSignal DoublesAreAstray SavedMeansHandled OpenAfterStop
PROPERTY BarsAreEvaluated
