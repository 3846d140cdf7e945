SPECIFICATION Spec
CONSTANTS
  Jobs = {j1, j2}
  Keys = {k1}
  NoKey = NoKey
  Workers = {w1, w2}
  NoWorker = NoWorker
  Lease = 2
  NStages = 1
  MaxTasks = 1
  MaxConcurrent = 1
  Beat = 1
  BeatTimeout = 0
  MaxMissed = 2
SYMMETRY Symmetry
INVARIANTS CompleteHasReport KeyDiscipline
PROPERTIES UsesStore InterruptsOnlyAbandoned LifecycleSpec
