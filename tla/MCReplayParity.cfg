SPECIFICATION Spec
CONSTANTS
  Bars <- MCBars
  Emissions <- MCEmissions
  Calendars <- MCCalendars
  Configs <- MCConfigs
  Class = "index"
  Symbol <- MCSymbol
  RiskPct = 2
  StartBalance = 920
  Commission = 3
INVARIANTS ParityTypeOK SameBooks SameTrades Reconciles FlatsHold SizedToBudget
CHECK_DEADLOCK FALSE
