SPECIFICATION FairSpec
CONSTANTS
    Refreshers = {"script", "page"}
    Count = 2
    Depth = 3
    MaxBar = 5
    MaxKills = 1
INVARIANTS DataTypeOK RecentBarsWhole
PROPERTIES KeptAlone BarsReachDisk
