SPECIFICATION InterpretationSpec
CONSTANTS
  MaxTargets = 4
  Exposures <- MCExposures
  Notes <- MCNotes
  MaxCalls = 8
  PerRound = 4
  ModelRounds = 2
  BaselineRounds = 3
  Plans <- MCPlans
  Profiles <- MCProfiles
  Drafts <- MCDrafts
INVARIANTS WithinBudget Thorough SendersLiveKept ModelCallsBounded InterpretationTypeOK Grounded BaselineIsValid BaselineSaysWhy
