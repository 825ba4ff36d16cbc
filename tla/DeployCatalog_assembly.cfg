SPECIFICATION Spec
CONSTANTS
  Proc = {p1, p2}
  Memory = {m1, m2}
  Authored = {s1}
  None = None
  MaxStarts = 3
  MaxSaves = 1
INVARIANTS TypeOK OnlyOverlapScars QuietIsExact
PROPERTIES NeverClobbers
CHECK_DEADLOCK FALSE
