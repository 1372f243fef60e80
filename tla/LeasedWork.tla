----------------------------- MODULE LeasedWork -----------------------------
(***************************************************************************)
(* What the run queue of cron.db promises whoever uses it, whatever the    *)
(* runners do: work is queued once, held under a lease by one fresh token  *)
(* at a time, taken over only when that lease has run out, settled only by *)
(* its holder or withdrawn while still queued, and never touched again.    *)
(***************************************************************************)
EXTENDS Integers, Sequences

CONSTANTS LeaseLen

VARIABLES
  clock,  \* current time
  work,   \* sequence of [state, token, until]
  grants  \* number of tokens handed out

NoTime == -1
NoToken == 0
Ended == {"done", "failed", "cancelled"}

Free(w) == w.state = "queued"
Held(w) == w.state = "running"
Expired(w) == Held(w) /\ w.until <= clock

Fresh == [state |-> "queued", token |-> NoToken, until |-> NoTime]

Init == clock \in Nat /\ work = <<>> /\ grants = 0

\* New work, always queued, is added at the end.
Submit ==
  /\ Len(work') >= Len(work)
  /\ \A i \in DOMAIN work' \ DOMAIN work : work'[i] = Fresh

Grant(old, new) ==
  /\ Free(old) \/ Expired(old)
  /\ new.state = "running"
  /\ new.token \in (grants + 1)..grants'
  /\ new.until = clock + LeaseLen

Renew(old, new) ==
  /\ Held(old)
  /\ new = [old EXCEPT !.until = clock + LeaseLen]

Settle(old, new) ==
  /\ Held(old)
  /\ new.state \in Ended
  /\ new.token = NoToken /\ new.until = NoTime

Withdraw(old, new) ==
  /\ Free(old)
  /\ new = [old EXCEPT !.state = "cancelled"]

Move(old, new) ==
  \/ new = old
  \/ Grant(old, new)
  \/ Renew(old, new)
  \/ Settle(old, new)
  \/ Withdraw(old, new)

\* No two rows get the same token.
DistinctGrants ==
  \A i, j \in DOMAIN work :
    /\ work'[i].token = work'[j].token
    /\ work'[i].token > grants
    => i = j

Use ==
  /\ Submit
  /\ grants' >= grants
  /\ \A i \in DOMAIN work : Move(work[i], work'[i])
  /\ DistinctGrants
  /\ clock' = clock

Pass == clock' > clock /\ UNCHANGED <<work, grants>>

Next == Use \/ Pass

Spec == Init /\ [][Next]_<<clock, work, grants>>
=============================================================================
