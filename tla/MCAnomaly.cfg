SPECIFICATION MCSpec
CONSTANTS
  Agents = {"A1"}
  Area <- MCArea
  Contexts <- MCContexts
  Kinds <- MCKinds
  WindowMinutes = 1
  BaselineMinutes = 2
  MinimumTransactions = 6
  TolerancePercent = 2
  MediumThreshold = 40
  HighThreshold = 70
  MaxTime = 5
  MaxRecent = 14
INVARIANTS
  HighNeedsTransactions
  RepeatedPatternReviewed
  DemandNotReviewed
