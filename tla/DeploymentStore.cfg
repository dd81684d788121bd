SPECIFICATION FairSpec
CONSTANTS
    Deps = {"d1", "d2"}
    Sessions = {"s1"}
    Wishes = {"live", "paper", "idle"}
    MaxCrashes = 1
INVARIANTS StoreTypeOK StopsHold NoneInvented
PROPERTY BreachEndsLive
