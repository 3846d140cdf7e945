SPECIFICATION Spec
CONSTANTS
  Jobs = {j1}
  Keys = {k1}
  NoKey = NoKey
  Workers = {w1}
  NoWorker = NoWorker
  Lease = 12
  NStages = 7
  MaxTasks = 1
  MaxConcurrent = 1
  Beat = 3
  BeatTimeout = 2
  MaxMissed = 3
PROPERTIES CancelsBeforeExpiry
