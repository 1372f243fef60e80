SPECIFICATION Spec
CONSTANTS
  Clients <- OneClient
  Sessions <- OneSession
  Logged = TRUE
  MaxSockets = 2
  MaxRequests = 1
  MaxApprovals = 0
  MaxUpsets = 2
  c1 = c1
  c2 = c2
  s1 = s1
CHECK_DEADLOCK FALSE
PROPERTY GoneMeansGone
