SPECIFICATION Spec
CONSTANTS
  a = a
  b = b
  c = c
  d = d
  p1 = p1
  p2 = p2
  Content = {a, b, c, d}
  Blank = Blank
  Tokens <- MCTokens
  DeprecateHarmful = 2
  Proc = {p1, p2}
  PidOf <- MCOwnPids
  Locked = FALSE
  Torn = Torn
  NoFile = NoFile
  NoProc = NoProc
  InitialStores <- MCStores
  DeltaLists <- MCDeltaLists
  CreditLists <- MCCreditLists
  MaxRuns = 2
PROPERTY NoLostUpdate

CHECK_DEADLOCK FALSE
