SPECIFICATION Spec
CONSTANTS
  t1 = t1
  t2 = t2
  Tasks = {t1, t2}
  MaxConcurrent = 1
  MaxRevision = 2
  MaxRuns = 2
  MaxUpsets = 2
SYMMETRY TaskSymmetry
INVARIANTS
  TypeOK
  WorkIsApproved
  LimitKept
  PauseHolds
  ProgressIsBacked
  CompletedMeansDone
PROPERTIES
  AutomationNeedsConsent
  TerminalStays
