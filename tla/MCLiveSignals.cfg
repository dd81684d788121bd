CONSTANTS
    P <- Small
    Strategies <- CausalStrategies
    Shapes <- Menu
    DayEnds <- Ends
    Length <- Bars
SPECIFICATION Spec
INVARIANTS SignalTypeOK SignalsStand OneSignalPerBar TradesApart
CHECK_DEADLOCK FALSE
