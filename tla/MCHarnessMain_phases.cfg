SPECIFICATION MainSpec
CONSTANTS
  Modes = {"serving", "batched", "rollouts"}
  N = 3
  BatchSize = 2
  DeployWorkers = 2
  LearnWorkers = 2
  Class = {"a", "b", "c"}
  Mixes <- MCMixes
  First = 3
  Second = 2
  Methods = {"no_memory", "external_optimizer", "sequential", "serving", "batched"}
  Protocols = {"frozen", "prequential"}
  Runs = 3
  Focus = 3
  WorkerCounts = {1, 2}
INVARIANTS TypeOK NothingRunsBehind MixPreserved CurveEndsAtLedger LaunchIsWhole
PROPERTIES PhaseEnds
