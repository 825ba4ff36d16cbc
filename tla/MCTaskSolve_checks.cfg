SPECIFICATION SolveSpec
CONSTANTS
  right = right
  broken = broken
  wrong = wrong
  blank = blank
  Answer = {right, broken, wrong, blank}
  Blank = blank
  Correct = {right}
  Checks <- MCChecks
  Turns = 3
  Exec <- MCExec
  Modes = {"oracle", "self", "self_exec", "self_both", "native"}
  Retries = 1
INVARIANTS TypeOK AdoptsOnlyPassing ChainedTrace NeverBelowBaseline VerdictAsRouted CostAccounted
PROPERTIES RepairEnds
