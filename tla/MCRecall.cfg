SPECIFICATION MCSpec
CONSTANTS
  Runs <- MCRuns
  Day <- MCDay
  MaxExports = 2
  MaxReads = 1
  Never = Never
  NoReport = NoReport
INVARIANT
  RecallIsShare
CHECK_DEADLOCK FALSE
