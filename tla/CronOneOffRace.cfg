SPECIFICATION Spec
CONSTANTS
  Specs = {s1}
  Prompts = {1}
  Concurrency = 1
  MaxParallel <- OneEach
  LeaseLen = 2
  Period = 2
  Runners = {r1, r2}
  Author = author
  Procs = {p1, p2}
  Proc <- TwoProcesses
  HubSpecs = {s1}
  Seed <- SeedOneOff
  Definitions <- NoDefinitions
  Timeout <- NoTimeout
  Beat = 1
  Poll = 1
  Cleanup = 1
  MaxTime = 2
  MaxEdits = 1
  Faults = {}
  MaxFaults = 1
  FaultsUntil = 4
  r1 = r1
  r2 = r2
  author = author
  p1 = p1
  p2 = p2
  s1 = s1
  s2 = s2
INVARIANTS
  OneOffOnce
