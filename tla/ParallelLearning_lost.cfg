SPECIFICATION Spec
CONSTANTS
  Modes = {"serving"}
  N = 3
  BatchSize = 2
  DeployWorkers = 2
  LearnWorkers = 2
INVARIANTS FreezeSeesAllLearning
