SPECIFICATION Spec
CONSTANTS
  t1 = t1
  t2 = t2
  a = a
  b = b
  None = None
  Tab = {t1, t2}
  Account = {a, b}
  Edit = {1, 2, 3, 4}
  KeyOf <- Keys
  After <- Depends
  Today <- TodayActions
  MaxTries = 2
  Casts <- AllCasts
SYMMETRY Symmetry
CHECK_DEADLOCK FALSE
INVARIANTS TypeOK AppliedAsMade AcknowledgedIsKept
PROPERTY PurgeIsFinal
