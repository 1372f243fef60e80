SPECIFICATION Spec
CONSTANTS
  Specs = {s1}
  Prompts = {1, 2}
  Concurrency = 1
  MaxParallel <- OneEach
  LeaseLen = 2
  Period = 1
  Runners = {r1}
  Author = author
  Procs = {p1}
  Proc <- OneProcess
  HubSpecs = {}
  Seed <- SeedRecurring
  Definitions <- FileEdits
  Timeout <- NoTimeout
  Beat = 1
  Poll = 1
  Cleanup = 1
  MaxTime = 3
  MaxEdits = 2
  Faults = {"crash", "stop", "sleep"}
  MaxFaults = 1
  FaultsUntil = 4
  r1 = r1
  r2 = r2
  author = author
  p1 = p1
  p2 = p2
  s1 = s1
  s2 = s2
INVARIANTS
  NoDoubleExecution
  StopReachesAll
PROPERTIES
  OnlyNewestOccurrenceStarts
  DueOccurrenceKept
