SPECIFICATION Spec
CONSTANTS
  Worlds <- MCWorlds
  Views = {1, 2}
  NoView = 0
  NoHash = NoHash
  Subject = "S"
  None = "none"
  ZeroAddress = "zero"
INVARIANT UpgradeIsReal
