SPECIFICATION Spec
CONSTANTS
  Specs = {s1}
  Prompts = {1}
  Concurrency = 1
  MaxParallel <- OneEach
  LeaseLen = 2
  Period = 2
  Runners = {r1, r2}
  Author = author
  Procs = {p1}
  Proc <- OneProcess
  HubSpecs = {s1}
  Seed <- SeedRecurring
  Definitions <- NoDefinitions
  Timeout <- NoTimeout
  Beat = 1
  Poll = 1
  Cleanup = 1
  MaxTime = 4
  MaxEdits = 0
  Faults = {"sleep"}
  MaxFaults = 1
  FaultsUntil = 4
  r1 = r1
  r2 = r2
  author = author
  p1 = p1
  p2 = p2
  s1 = s1
  s2 = s2
INVARIANTS
  NoDoubleExecution
