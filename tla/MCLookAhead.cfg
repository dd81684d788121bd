CONSTANTS
    P <- Small
    Strategies <- LookAheadStrategies
    Shapes <- Menu
    DayEnds <- Ends
    Length <- Bars
SPECIFICATION Spec
INVARIANTS
    SignalsStand
CHECK_DEADLOCK FALSE
