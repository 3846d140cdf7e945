SPECIFICATION Spec
CONSTANTS
  k1 = k1
  k2 = k2
  k3 = k3
  a = a
  b = b
  c = c
  d = d
  MaxAmount = 2
  Keys = {k1, k2, k3}
  Role <- MCRole
  Hashes = {a, b, c, d}
  NoBlock = NoBlock
  Chains <- MCChains
  TxBlock = 2
  Ledgers <- MCLedgers
  Unknown = Unknown
  Inputs <- MCInputs
  Fields = {"allowance", "detail"}
  ReadLimit = 2
INVARIANTS CitedIsPublished ToolsArePinned SenderFirst GapsAreShown
PROPERTIES VerdictsHold LastEventSpeaks
