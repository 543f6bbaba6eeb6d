SPECIFICATION Spec
CONSTANTS
  FeedKeys = {f1}
  StaleMinutes = 3
  MissingMinutes = 6
  Delays <- MCDelays
  Balances = {0, 2}
  NoBalance = NoBalance
  MaxTime = 7
  MaxEvents = 3
INVARIANTS
  StateSummarizesPast
  NoSilentTrust
PROPERTY WaitingNeverHelps
