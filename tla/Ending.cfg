SPECIFICATION TrafficSpec
CONSTANTS
  Jobs = {j1, j2}
  Keys = {k1, k2}
  NoKey = NoKey
  Workers = {w1}
  NoWorker = NoWorker
  Lease = 1
  NStages = 1
  MaxTasks = 1
  MaxConcurrent = 1
  Beat = 1
  BeatTimeout = 0
  MaxMissed = 2
PROPERTIES EveryJobEnds Heals
