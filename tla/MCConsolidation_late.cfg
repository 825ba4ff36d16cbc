SPECIFICATION Spec
CONSTANTS
  s = s
  t = t
  Name = {s, t}
  Answers <- MCAnswers
  Modes = {"incremental"}
  GateSample = 2
  GateMargin = 1
  MayFail = TRUE
  MaxItems = 3
  TrainN = 4
  PooledN = 4
  InduceEvery = 2
  MaxNew = 1
INVARIANTS FinalCallCaptures
