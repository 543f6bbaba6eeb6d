SPECIFICATION SimulationSpec
CONSTANTS
  Agents <- MCAgents
  Accounts <- MCAccounts
  OpeningCash <- MCOpeningCash
  OpeningEmoney <- MCOpeningEmoney
  Transactions <- MCTransactions
  Minutes = 3
  SecondsPerMinute = 3
  HeartbeatInterval = 1
  Candidates <- MCCandidates
  MaxCandidates = 2
  Delays <- MCDelays
  Conflicts <- MCConflicts
  Given <- MCGiven
INVARIANTS
  ValueConserved
  ExactlyOnce
  OrderIrrelevant
  ReplayRepeatsSimulation
  NoneOverdrawn
  DelayedFeedsSilent
