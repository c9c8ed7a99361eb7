SPECIFICATION FairSpec
CONSTANTS
  s1 = s1
  s2 = s2
  w1 = w1
  w2 = w2
  o1 = o1
  o2 = o2
  None = None
  Source = {s1, s2}
  Worker = {w1, w2}
  Operator = {}
  Items = 1
  Published0 = 1
  Dated = {1}
  Starts <- RunsAlone
  ItemCap = 1
  BatchSize = 2
  MaxStreak = 1
  CatchUp = 1
  Boundary = {TRUE, FALSE}
  Stalls = FALSE
  Drifts = FALSE
  Governed = FALSE
  Acts = {}
  MaxActs = 0
  MaxFaults = 1
CHECK_DEADLOCK FALSE
PROPERTY DueIsRun
