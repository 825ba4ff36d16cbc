SPECIFICATION Spec
SYMMETRY Alike
CONSTANTS
  s = s
  t = t
  p1 = p1
  p2 = p2
  Name = {s, t}
  Empty = Empty
  Mixed = Mixed
  MixedTicks = {3}
  MinN = 2
  Margin = 1
  CandidateLists <- MCCandidateLists
  RoundChoices <- MCRoundChoices
  Proc = {p1, p2}
  Every = 2
  MayCrash = TRUE
  MayFailIO = TRUE
  MaxReflections = 4
INVARIANTS TypeOK WindowBalanced NeverBlind StatusHasFile PacedInductions
PROPERTIES DecidesOnAllEvidence RegistrationSurvives

CHECK_DEADLOCK FALSE
