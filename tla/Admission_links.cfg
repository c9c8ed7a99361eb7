SPECIFICATION Spec
CONSTANTS
  e1 = e1
  c1 = c1
  c2 = c2
  w1 = w1
  w2 = w2
  Email = {e1}
  Caller = {c1, c2}
  Sender = {w1, w2}
  Casts <- Pairs
  MaxLinks = 2
  MaxInvitations = 2
  ClaimLimit = 1
  MaxDeaths = 0
  MailOn = TRUE
SYMMETRY Requests
CHECK_DEADLOCK FALSE
INVARIANTS TypeOK MailedAtMostOnce
PROPERTIES LinkWorksOnce SettledInvitationIsFinal ExpiredIsLapsed
