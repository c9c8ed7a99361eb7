SPECIFICATION Spec
CONSTANTS
  c1 = c1
  c2 = c2
  c3 = c3
  u1 = u1
  u2 = u2
  u3 = u3
  k1 = k1
  k2 = k2
  p1 = p1
  w1 = w1
  w2 = w2
  None = None
  Candidate = {c1, c2}
  Worker = {w1, w2}
  Mortal = {w1}
  Deletable = {u1}
  MaxAttempts = 1
  MaxVersion = 1
  MaxGeneration = 1
  Url = {u1, u2, u3}
  Key = {k1, k2}
  Prose = {p1}
  FinalUrl <- SharedUrl
  CanonicalKey <- VariantKey
  ProseOf <- OneProse
  FirstSeen <- SeenOrder
CHECK_DEADLOCK FALSE
INVARIANTS ArticlesAreWhole SetAsideHasNoJob
PROPERTIES StaleRunSavesNothing SettledGetsNoArticle
