SPECIFICATION LiquiditySpec
CONSTANTS
  Agents <- MCAgents
  Accounts <- MCAccounts
  OpeningCash <- MCOpeningCash
  OpeningEmoney <- MCOpeningEmoney
  Transactions <- MCTransactions
  LookbackMinutes = 2
  SafetyBufferPercent = 15
  WatchMinutes = 8
  CriticalMinutes = 4
  MinTransactions = 2
  NoEta = NoEta
  FeedViews <- MCFeedViews
  MaxTime = 5
INVARIANTS
  NetMatchesLedger
  StrongNeedsHealthyFeeds
  HiddenShortageShown
