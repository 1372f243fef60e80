SPECIFICATION Spec
CONSTANTS
  Specs = {s1, s2}
  Prompts = {1}
  Concurrency = 2
  MaxParallel <- TwoOfFirst
  LeaseLen = 2
  Period = 2
  Runners = {r1, r2}
  Author = author
  Procs = {p1, p2}
  Proc <- TwoProcesses
  HubSpecs = {s1, s2}
  Seed <- SeedMixed
  Definitions <- NoDefinitions
  Timeout <- NoTimeout
  Beat = 1
  Poll = 1
  Cleanup = 1
  MaxTime = 3
  MaxEdits = 0
  Faults = {"crash"}
  MaxFaults = 1
  FaultsUntil = 1
  r1 = r1
  r2 = r2
  author = author
  p1 = p1
  p2 = p2
  s1 = s1
  s2 = s2
INVARIANTS
  SessionsWithinLimits
  LoopClaimsList
