----------------------------- MODULE DurableFifo -----------------------------
(***************************************************************************)
(* What the hub's run queue promises: runs are accepted at the end, taken  *)
(* up one at a time in the order of their acceptance, and end once.        *)
(***************************************************************************)
EXTENDS Integers, Sequences

VARIABLES line  \* the state of every accepted run, in order of acceptance

Ended == {"completed", "failed", "aborted", "interrupted"}

Init == line = <<>>

Move(old, new) ==
  \/ new = old
  \/ old = "queued" /\ new = "running"
  \/ old = "running" /\ new \in Ended

\* At most one run is running, and none before it waits.
Turnwise(states) ==
  \A i, j \in DOMAIN states :
    states[j] = "running" /\ i # j =>
      /\ states[i] # "running"
      /\ i < j => states[i] \in Ended

Next ==
  /\ Len(line') >= Len(line)
  /\ \A i \in DOMAIN line : Move(line[i], line'[i])
  /\ \A i \in DOMAIN line' \ DOMAIN line : line'[i] \in {"queued", "running"}
  /\ Turnwise(line')

Spec == Init /\ [][Next]_line
=============================================================================
