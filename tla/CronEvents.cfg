SPECIFICATION FairSpec
CONSTANTS
  p1 = p1
  p2 = p2
  s1 = s1
  s2 = s2
  e1 = e1
  e2 = e2
  e3 = e3
  a = a
  b = b
  Procs = {p1, p2}
  Specs = {s1, s2}
  Events = {e1, e2, e3}
  Heard <- HeardEvents
  Keys = {a, b}
  KeyOf <- KeysOfEvents
  Matches <- SpecMatches
  Debounce <- Debounces
  DedupeWindow <- DedupeWindows
  Cooldown <- Cooldowns
  MaxTime = 3
  LastReceipt = 2
  MaxUpsets = 1
INVARIANTS
  TypeOK
  EventRunsOnce
  NoEventForgotten
  QuietPeriodKept
  RunsKeepDistance
PROPERTIES
  BacklogClears
