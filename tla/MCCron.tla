------------------------------- MODULE MCCron -------------------------------
(***************************************************************************)
(* Small instances of the automations for TLC.                              *)
(***************************************************************************)
EXTENDS ClaimLoop

CONSTANTS
  r1, r2,     \* runners
  author,
  p1, p2,     \* processes
  s1, s2      \* specs

\* Both runners and the author in the hub daemon.
OneProcess == [a \in Actors |-> p1]
\* The second runner in a process of its own.
TwoProcesses == [a \in Actors |-> IF a = r2 THEN p2 ELSE p1]

Def(kind, prompt, runAt, enabled) ==
  [kind |-> kind, prompt |-> prompt, runAt |-> runAt, enabled |-> enabled,
   valid |-> TRUE]

\* A row its author has created in an earlier life of the daemon.
Row(def, nextRunAt) ==
  [source |-> def, enabled |-> def.enabled, removed |-> FALSE, revision |-> 1,
   nextRunAt |-> nextRunAt]
NoRow == [Row(Def("schedule", 1, NoTime, TRUE), NoTime) EXCEPT !.revision = 0]

Recurring == Def("schedule", 1, NoTime, TRUE)
OnceAt(t) == Def("one_off", 1, t, TRUE)

NoDefinitions == {}
NoTimeout == [s \in Specs |-> NoTime]
OneEach == [s \in Specs |-> 1]
TwoOfFirst == [s \in Specs |-> IF s = s1 THEN 2 ELSE 1]

SeedRecurring == [s \in Specs |-> Row(Recurring, 1)]
SeedMixed == [s \in Specs |-> IF s = s1 THEN Row(Recurring, 1)
                              ELSE Row(OnceAt(1), 1)]
SeedOneOff == [s \in Specs |-> Row(OnceAt(1), 1)]
SeedNone == [s \in Specs |-> NoRow]

Timeout2 == [s \in Specs |-> 2]
OneOffEdits == {OnceAt(2), OnceAt(4), Def("one_off", 1, 2, FALSE), Recurring}
FileEdits == {Recurring, Def("schedule", 2, NoTime, TRUE),
              Def("schedule", 2, NoTime, FALSE),
              [Def("schedule", 1, NoTime, FALSE) EXCEPT !.valid = FALSE]}
=============================================================================
