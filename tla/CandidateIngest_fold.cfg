SPECIFICATION OrderlySpec
CONSTANTS
  c1 = c1
  c2 = c2
  c3 = c3
  u1 = u1
  u2 = u2
  u3 = u3
  k1 = k1
  k2 = k2
  p1 = p1
  w1 = w1
  w2 = w2
  None = None
  Candidate = {c1, c2, c3}
  Worker = {w1}
  Mortal = {}
  Deletable = {u2}
  MaxAttempts = 2
  MaxVersion = 2
  MaxGeneration = 0
  Url = {u1, u2, u3}
  Key = {k1, k2}
  Prose = {p1}
  FinalUrl <- OwnUrl
  CanonicalKey <- VariantKey
  ProseOf <- OneProse
  FirstSeen <- SeenOrder
CHECK_DEADLOCK FALSE
INVARIANTS TypeOK OneArticlePerIdentity
PROPERTY KnownArticleUntouched
