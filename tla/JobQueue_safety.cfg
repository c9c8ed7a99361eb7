SPECIFICATION Spec
CONSTANTS
  w1 = w1
  w2 = w2
  c1 = c1
  c2 = c2
  j1 = j1
  j2 = j2
  k1 = k1
  None = None
  Worker = {w1, w2}
  Mortal = {w1}
  Caller = {}
  Job = {j1, j2}
  KeyOf <- NoKeys
  MaxAttempts = 2
  LockTtl = 1
  HeartbeatEvery = 0
  MaxDelay = 0
  Env = {"crash", "stall", "dberror", "aborterror", "shutdown", "cancel", "retry", "remove"}
SYMMETRY JobSymmetry
INVARIANTS TypeOK RowConsistent SeenCurrent
PROPERTY ResultFromLatestRun
