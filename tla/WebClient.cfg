SPECIFICATION FairSpec
CONSTANTS
  Jobs = {j1, j2}
  NoJob = NoJob
  Hashes = {h1, h2}
  NoHash = NoHash
  Attempts = 2
  MaxClicks = 2
  MaxBucket = 1
INVARIANTS DefiniteMessagesAreTrue
PROPERTIES NeverDraggedAway LastSubmissionOpens SubmissionEnds WatchEnds
CHECK_DEADLOCK FALSE
