SPECIFICATION Spec
CONSTANTS
  s = s
  t = t
  p1 = p1
  p2 = p2
  Name = {s, t}
  Empty = Empty
  Mixed = Mixed
  MixedTicks = {}
  MinN = 2
  Margin = 1
  CandidateLists <- MCCandidateLists
  RoundChoices <- MCRoundChoices
  Proc = {p1}
  Every = 2
  MayCrash = TRUE
  MayFailIO = FALSE
  MaxReflections = 6
PROPERTIES AccumulatesAllRounds

CHECK_DEADLOCK FALSE
