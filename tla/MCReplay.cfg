SPECIFICATION Spec
CONSTANTS
  Events <- MCEvents
  Datasets <- MCDatasets
  Start = 0
  RecentLimit = 3
  MaxSteps = 3
  MaxMinutes = 3
  MaxFeeds = 5
  Nothing = Nothing
INVARIANTS
  EnginesFollowIndex
  EnginesInStep
  FeedsSeeLedger
  ReportMatchesIndex
  FusionFresh
PROPERTIES
  ViewRefinement
  LockReleased
