SPECIFICATION Spec
CONSTANTS
  Jobs = {j1, j2}
  NoJob = NoJob
  Hashes = {h1, h2}
  NoHash = NoHash
  Attempts = 2
  MaxClicks = 2
  MaxBucket = 1
INVARIANT AlertIsTrue
CHECK_DEADLOCK FALSE
