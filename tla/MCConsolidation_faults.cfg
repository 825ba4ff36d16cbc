SPECIFICATION Spec
CONSTANTS
  s = s
  t = t
  Name = {s, t}
  Answers <- MCAnswers
  Modes = {"incremental", "pooled"}
  GateSample = 3
  GateMargin = 1
  MayFail = TRUE
  MaxItems = 3
  TrainN = 5
  PooledN = 4
  InduceEvery = 2
  MaxNew = 1
INVARIANTS TypeOK FreshEvidence WatermarkShown LibraryStays LateMemoryCaptured

