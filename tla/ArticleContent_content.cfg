SPECIFICATION FairSpec
CONSTANTS
  w1 = w1
  w2 = w2
  r1 = r1
  o1 = o1
  o2 = o2
  x1 = x1
  x2 = x2
  None = None
  Worker = {w1, w2}
  Mortal = {w1}
  Reader = {r1}
  Operator = {o1, o2}
  Scraper = {x1, x2}
  Casts <- AllCasts
  MaxVersion = 2
  MaxAttempts = 1
  Features = 2
CHECK_DEADLOCK FALSE
INVARIANTS TypeOK WithdrawnIsDown StaleIsOvertaken
PROPERTIES AutoPublishedIsWhole RegeneratedOnce SwapIsRegenerated
