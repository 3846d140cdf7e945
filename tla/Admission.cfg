SPECIFICATION Spec
CONSTANTS
  Jobs = {j1, j2, j3}
  Keys = {k1}
  NoKey = NoKey
  Workers = {w1}
  NoWorker = NoWorker
  Lease = 0
  Self = w1
  Clients = {c1}
  Days = {1, 2}
  NoDay = NoDay
  NoJob = NoJob
  HourlyLimit = 3
  DailyLimit = 1
  MaxTasks = 2
  MaxReorgs = 1
INVARIANTS TypeOK NoFreeAnalysis RefusalFreesKey
PROPERTIES FreshAnswer EveryRequestEnds
