SPECIFICATION Spec
CONSTANTS
  Bars <- MCBars
  Emissions <- MCEmissions
  Calendars <- MCCalendars
  Configs <- DefaultOnly
  Class = "index"
  Symbol <- MCSymbol
  RiskPct = 2
  StartBalance = 920
  Commission = 3
INVARIANT Parity
CHECK_DEADLOCK FALSE
