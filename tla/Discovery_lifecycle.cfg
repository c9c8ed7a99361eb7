SPECIFICATION Spec
CONSTANTS
  s1 = s1
  s2 = s2
  w1 = w1
  w2 = w2
  o1 = o1
  o2 = o2
  None = None
  Source = {s1, s2}
  Worker = {w1, w2}
  Operator = {o1}
  Items = 2
  Published0 = 1
  Dated = {1, 2}
  Starts <- AllStarts
  ItemCap = 1
  BatchSize = 2
  MaxStreak = 1
  CatchUp = 1
  Boundary = {TRUE}
  Stalls = TRUE
  Drifts = TRUE
  Governed = TRUE
  Acts = {"begin-baseline", "complete-baseline", "activate", "pause", "resume", "rollback", "disable", "retire"}
  MaxActs = 4
  MaxFaults = 1
SYMMETRY Workers
CHECK_DEADLOCK FALSE
INVARIANTS TypeOK InertHasNoJob PausedIsNotScheduled BaselinedBeforeShadow
PROPERTY ImplementsLedger
PROPERTY OvertakenRunIsInert
PROPERTY WorkIsWanted
