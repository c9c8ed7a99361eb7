SPECIFICATION Spec
CONSTANTS
  s1 = s1
  s2 = s2
  w1 = w1
  w2 = w2
  o1 = o1
  o2 = o2
  None = None
  Source = {s1, s2}
  Worker = {w1}
  Operator = {o1, o2}
  Items = 1
  Published0 = 1
  Dated = {1}
  Starts <- TwoOperators
  ItemCap = 1
  BatchSize = 2
  MaxStreak = 1
  CatchUp = 1
  Boundary = {TRUE}
  Stalls = FALSE
  Drifts = FALSE
  Governed = FALSE
  Acts = {"begin-baseline", "pause", "resume", "rollback"}
  MaxActs = 4
  MaxFaults = 0
CHECK_DEADLOCK FALSE
PROPERTY ResumeKeepsBaseline
