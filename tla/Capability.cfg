SPECIFICATION FairSpec
CONSTANTS
  Clients <- TwoClients
  Sessions <- OneSession
  Logged = TRUE
  MaxSockets = 2
  MaxRequests = 1
  MaxApprovals = 1
  MaxUpsets = 2
  c1 = c1
  c2 = c2
  s1 = s1
CHECK_DEADLOCK FALSE
INVARIANTS
  TypeOK
  EveryWaitEnds
  HeldMeansAway
  ApprovalsReachListeners
PROPERTY RequestsEnd
