SPECIFICATION MCSpec
CONSTANTS
  Agents = {"A1"}
  Providers = {"BKASH", "NAGAD"}
  Etas <- MCEtas
  Signals <- MCSignals
  NoTime = NoTime
  MaxRefreshes = 4
  LookbackMinutes = 2
  SafetyBufferPercent = 15
  WatchMinutes = 8
  CriticalMinutes = 4
  MinTransactions = 2
  NoEta = NoEta
  Workers = {w1}
  Requests <- MCRequests
  AIConfigured = TRUE
  Nobody = Nobody
INVARIANT
  RedactedFiguresAbsent
CHECK_DEADLOCK FALSE
