SPECIFICATION FairSpec
CONSTANTS
  Calls = {c1, c2, c3}
  Permits = 2
  Attempts = 3
  MaxCancels = 2
INVARIANTS TypeOK OwnAnswers
PROPERTIES EveryCallEnds
