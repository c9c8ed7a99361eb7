SPECIFICATION FairSpec
CONSTANTS
  w1 = w1
  w2 = w2
  c1 = c1
  c2 = c2
  j1 = j1
  j2 = j2
  k1 = k1
  None = None
  Worker = {w1, w2}
  Mortal = {w1}
  Caller = {c1, c2}
  Job = {j1, j2}
  KeyOf <- OneKey
  MaxAttempts = 2
  LockTtl = 2
  HeartbeatEvery = 1
  MaxDelay = 1
  Env = {"crash", "remove"}
INVARIANTS OneRunPerJob EnqueueServed
PROPERTIES EveryJobSettles ImplementsWorkQueue
