SPECIFICATION MCSpec
CONSTANTS
  Runs <- MCRuns
  Day <- MCDay
  MaxExports = 2
  MaxReads = 1
  Never = Never
  NoReport = NoReport
INVARIANTS
  FilesFollowManifest
  ReadsFollowManifest
  TrackersSummarizeAnswers
  PassIsEarned
CHECK_DEADLOCK FALSE
