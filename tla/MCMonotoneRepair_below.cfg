SPECIFICATION Spec
CONSTANTS
  right = right
  wrong = wrong
  worse = worse
  blank = blank
  Answer = {right, wrong, worse, blank}
  Blank = blank
  Correct = {right}
  Checks <- MCChecks
  Turns = 3
INVARIANTS NeverDropsBelow
