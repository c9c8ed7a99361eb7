SPECIFICATION FairSpec
CONSTANTS
  e1 = e1
  c1 = c1
  c2 = c2
  w1 = w1
  w2 = w2
  Email = {e1}
  Caller = {c1}
  Sender = {w1}
  Casts <- One
  MaxLinks = 2
  MaxInvitations = 1
  ClaimLimit = 1
  MaxDeaths = 1
  MailOn = TRUE
CHECK_DEADLOCK FALSE
PROPERTIES StaleMailIsNotSent EveryMailSettles
