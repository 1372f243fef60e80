------------------------------ MODULE CronEvents ------------------------------
(***************************************************************************)
(* Automation events: how CronEventIngress turns an accepted event into    *)
(* runs of the specs that match it, in one transaction whose statements    *)
(* are steps of their own.  Several processes share cron.db; each stamps   *)
(* an event before it waits for the write lock, so stamps and commits may  *)
(* come in different orders.  What becomes of a queued run is told here    *)
(* only as far as it matters to later events; CronAutomation has the rest. *)
(***************************************************************************)
EXTENDS Integers, Sequences, FiniteSets

CONSTANTS
  Procs,         \* processes that accept events
  Specs,         \* event specs
  Events,        \* event ids
  Heard,         \* the events each process may hear of, any number of times
  Keys,          \* dedupe keys, and
  KeyOf,         \* the one of each event
  Matches,       \* events whose type and filters suit a spec
  Debounce,      \* debounceSeconds,
  DedupeWindow,  \* dedupeWindowSeconds and
  Cooldown,      \* cooldownSeconds of each spec
  MaxTime,       \* bound: the clock
  LastReceipt,   \* bound: the time of the last receipt
  MaxUpsets      \* bound: failures, crashes and edits of specs

ASSUME HeardAssumption == Heard \in [Procs -> SUBSET Events]
ASSUME KeysAssumption == KeyOf \in [Events -> Keys]
ASSUME MatchesAssumption == Matches \in [Specs -> SUBSET Events]
ASSUME WindowsAssumption ==
  /\ Debounce \in [Specs -> Nat]
  /\ DedupeWindow \in [Specs -> Nat]
  /\ Cooldown \in [Specs -> Nat]

VARIABLES
  clock,
  active,   \* specs that are enabled, not removed and valid
  inbox,    \* the event each process is accepting, with its stamp
  db,       \* what is committed: the event log and the event runs
  writer,   \* the process with an open transaction, or NoProc
  view,     \* what that process sees
  todo,     \* specs its loop has still to look at, and
  matched,  \* those it has; of these,
  queued,   \* the ones that got or extended a run
  upsets

vars == <<clock, active, inbox, db, writer, view, todo, matched, queued, upsets>>
txnVars == <<writer, view, todo, matched, queued>>

NoProc == "none"
NoTime == -1

ASSUME NoProcAssumption == NoProc \notin Procs

Statuses == {"received", "unmatched", "queued", "suppressed"}
\* "taken" stands for running, done and failed: later events see no difference.
RunStatuses == {"queued", "taken", "cancelled"}

\* matched and queued stand for matched_spec_count and queued_run_count.
LogRow ==
  [event: Events, received: Nat, status: Statuses, matched: SUBSET Specs,
   queued: SUBSET Specs]

\* event is trigger_event_id, as a position in the log; born is its first value.
RunRow ==
  [spec: Specs, event: Nat, born: Nat, status: RunStatuses, scheduledFor: Nat]

Tables == [log: Seq(LogRow), runs: Seq(RunRow)]
Letters ==
  [at: {"idle"}] \cup [at: {"waiting", "open"}, event: Events, stamp: Nat]
NoLetter == [at |-> "idle"]

TypeOK ==
  /\ clock \in Nat
  /\ active \subseteq Specs
  /\ inbox \in [Procs -> Letters]
  /\ db \in Tables
  /\ writer \in Procs \cup {NoProc}
  /\ view \in Tables
  /\ todo \subseteq Specs /\ matched \subseteq Specs /\ queued \subseteq Specs
  /\ upsets \in Nat

Init ==
  /\ clock = 0
  /\ active = Specs
  /\ inbox = [p \in Procs |-> NoLetter]
  /\ db = [log |-> <<>>, runs |-> <<>>]
  /\ writer = NoProc /\ view = db
  /\ todo = {} /\ matched = {} /\ queued = {}
  /\ upsets = 0

-----------------------------------------------------------------------------
(* Queries *)

KeyAt(log, k) == KeyOf[log[k].event]

\* findQueuedEventRunForDedupe
QueuedFor(t, s, key) ==
  {i \in DOMAIN t.runs :
     /\ t.runs[i].spec = s /\ t.runs[i].status = "queued"
     /\ KeyAt(t.log, t.runs[i].event) = key}

\* Deviation: the window is open at its start.
RecentRunsAfter(t, s, since) ==
  {i \in DOMAIN t.runs :
     t.runs[i].spec = s /\ t.log[t.runs[i].event].received > since}

\* hasRecentEventRunForSpec, and ForDedupe: whatever became of the run.
RecentRuns(t, s, since) ==
  {i \in DOMAIN t.runs :
     t.runs[i].spec = s /\ t.log[t.runs[i].event].received >= since}

Suppressed(t, s, key, stamp) ==
  \/ /\ DedupeWindow[s] > 0
     /\ \E i \in RecentRuns(t, s, stamp - DedupeWindow[s]) :
          KeyAt(t.log, t.runs[i].event) = key
  \/ /\ Cooldown[s] > 0
     /\ RecentRuns(t, s, stamp - Cooldown[s]) # {}

-----------------------------------------------------------------------------
(* Acceptance of an event *)

Close ==
  /\ writer' = NoProc /\ view' = db'
  /\ todo' = {} /\ matched' = {} /\ queued' = {}

\* ingestEvent is called: the event is stamped.  (Here and in Tick: the steps
\* of an open transaction read neither, so these are told before it.)
Receive(p, e) ==
  /\ writer = NoProc
  /\ inbox[p].at = "idle"
  /\ clock <= LastReceipt
  /\ inbox' = [inbox EXCEPT ![p] = [at |-> "waiting", event |-> e,
                                    stamp |-> clock]]
  /\ UNCHANGED <<clock, active, db, txnVars, upsets>>

NewLogRow(letter) ==
  [event |-> letter.event, received |-> letter.stamp, status |-> "received",
   matched |-> {}, queued |-> {}]

\* Deviation: an early return that forgets to end the transaction.
BeginAndStay(p) ==
  /\ inbox[p].at = "waiting" /\ writer = NoProc
  /\ LET e == inbox[p].event
     IN IF \E k \in DOMAIN db.log : db.log[k].event = e
        THEN /\ writer' = p
             /\ inbox' = [inbox EXCEPT ![p] = NoLetter]
             /\ UNCHANGED <<view, todo, matched, queued>>
        ELSE /\ writer' = p
             /\ inbox' = [inbox EXCEPT ![p].at = "open"]
             /\ view' = [db EXCEPT !.log = Append(@, NewLogRow(inbox[p]))]
             /\ todo' = {s \in active : e \in Matches[s]}
             /\ UNCHANGED <<matched, queued>>
  /\ UNCHANGED <<clock, active, db, upsets>>

\* Deviation: an event is always new.
BeginAlways(p) ==
  /\ inbox[p].at = "waiting" /\ writer = NoProc
  /\ writer' = p
  /\ inbox' = [inbox EXCEPT ![p].at = "open"]
  /\ view' = [db EXCEPT !.log = Append(@, NewLogRow(inbox[p]))]
  /\ todo' = {s \in active : inbox[p].event \in Matches[s]}
  /\ UNCHANGED <<matched, queued, clock, active, db, upsets>>

\* BEGIN IMMEDIATE and the insertion into the log.  A known event is a replay;
\* for a new one the candidate specs are listed, and filtered.
Begin(p) ==
  /\ inbox[p].at = "waiting" /\ writer = NoProc
  /\ LET e == inbox[p].event
     IN IF \E k \in DOMAIN db.log : db.log[k].event = e
        THEN /\ inbox' = [inbox EXCEPT ![p] = NoLetter]
             /\ UNCHANGED txnVars
        ELSE /\ writer' = p
             /\ inbox' = [inbox EXCEPT ![p].at = "open"]
             /\ view' = [db EXCEPT !.log = Append(@, NewLogRow(inbox[p]))]
             /\ todo' = {s \in active : e \in Matches[s]}
             /\ UNCHANGED <<matched, queued>>
  /\ UNCHANGED <<clock, active, db, upsets>>

\* Deviation: the latest stamp decides.
PostponedTo(run, stamp, delay) == stamp + delay

\* maxIso of the run's time and the end of the new quiet period.
Postponed(run, stamp, delay) ==
  IF run.scheduledFor >= stamp + delay THEN run.scheduledFor ELSE stamp + delay

\* Deviation: a new run waits for its quiet period to be set by others.
UndatedRun(s, k, stamp) ==
  [spec |-> s, event |-> k, born |-> k, status |-> "queued",
   scheduledFor |-> IF Debounce[s] > 0 THEN NoTime ELSE stamp]

NewRun(s, k, stamp) ==
  [spec |-> s, event |-> k, born |-> k, status |-> "queued",
   scheduledFor |-> stamp + Debounce[s]]

\* A debounced spec has its queued run of that key moved to the new event.
Extend(s, k, stamp) ==
  /\ Debounce[s] > 0
  /\ \E i \in QueuedFor(view, s, KeyAt(view.log, k)) :
       /\ \A j \in QueuedFor(view, s, KeyAt(view.log, k)) :
            view.runs[j].scheduledFor <= view.runs[i].scheduledFor
       /\ view' = [view EXCEPT
            !.runs[i].event = k,
            !.runs[i].scheduledFor =
              Postponed(view.runs[i], stamp, Debounce[s])]
  /\ queued' = queued \cup {s}

\* Otherwise it gets a new run, unless a window suppresses it.
EnqueueRun(s, k, stamp) ==
  /\ Debounce[s] > 0 => QueuedFor(view, s, KeyAt(view.log, k)) = {}
  /\ IF Suppressed(view, s, KeyAt(view.log, k), stamp)
     THEN UNCHANGED <<view, queued>>
     ELSE /\ view' = [view EXCEPT !.runs = Append(@, NewRun(s, k, stamp))]
          /\ queued' = queued \cup {s}

\* materializeForSpec, for the event just logged.
MaterializeForSpec(s) ==
  /\ writer # NoProc /\ s \in todo
  /\ LET k == Len(view.log)
         stamp == view.log[k].received
     IN Extend(s, k, stamp) \/ EnqueueRun(s, k, stamp)
  /\ todo' = todo \ {s} /\ matched' = matched \cup {s}
  /\ UNCHANGED <<clock, active, inbox, db, writer, upsets>>

\* updateEventLogProcessing and COMMIT.
Commit ==
  /\ writer # NoProc /\ todo = {}
  /\ db' = [view EXCEPT
       !.log[Len(view.log)] =
         [@ EXCEPT !.status = CASE matched = {} -> "unmatched"
                                [] queued # {} -> "queued"
                                [] OTHER -> "suppressed",
                   !.matched = matched, !.queued = queued]]
  /\ inbox' = [inbox EXCEPT ![writer] = NoLetter]
  /\ Close
  /\ UNCHANGED <<clock, active, upsets>>

\* Deviation: the event is logged outside the transaction.
RollBackRuns ==
  /\ writer # NoProc /\ upsets < MaxUpsets
  /\ upsets' = upsets + 1
  /\ inbox' = [inbox EXCEPT ![writer] = NoLetter]
  /\ db' = [db EXCEPT !.log = view.log]
  /\ Close
  /\ UNCHANGED <<clock, active>>

\* A statement throws, or the process dies.
RollBack ==
  /\ writer # NoProc /\ upsets < MaxUpsets
  /\ upsets' = upsets + 1
  /\ inbox' = [inbox EXCEPT ![writer] = NoLetter]
  /\ UNCHANGED <<clock, active, db>>
  /\ Close

-----------------------------------------------------------------------------
(* Runs and specs meanwhile; all of these write, so they need the lock *)

\* claimDueRuns, for one run that has room, and the guard of executeClaim.
Claim(i) ==
  /\ writer = NoProc
  /\ db.runs[i].status = "queued" /\ db.runs[i].scheduledFor <= clock
  /\ db' = [db EXCEPT !.runs[i].status =
               IF db.runs[i].spec \in active THEN "taken" ELSE "cancelled"]
  /\ Close
  /\ UNCHANGED <<clock, active, inbox, upsets>>

\* A spec file is enabled, disabled, or deleted with its queued runs.
Edit(s) ==
  /\ writer = NoProc /\ upsets < MaxUpsets
  /\ upsets' = upsets + 1
  /\ \/ s \notin active /\ active' = active \cup {s} /\ UNCHANGED db
     \/ s \in active /\ active' = active \ {s} /\ UNCHANGED db
     \/ /\ s \in active /\ active' = active \ {s}
        /\ db' = [db EXCEPT !.runs =
             [i \in DOMAIN @ |->
                IF @[i].spec = s /\ @[i].status = "queued"
                THEN [@[i] EXCEPT !.status = "cancelled"] ELSE @[i]]]
  /\ Close
  /\ UNCHANGED <<clock, inbox>>

Tick ==
  /\ writer = NoProc
  /\ clock < MaxTime
  /\ clock' = clock + 1
  /\ UNCHANGED <<active, inbox, db, txnVars, upsets>>

Halt ==
  /\ clock = MaxTime /\ writer = NoProc
  /\ \A p \in Procs : inbox[p].at = "idle"
  /\ \A i \in DOMAIN db.runs : db.runs[i].status # "queued"
  /\ UNCHANGED vars

-----------------------------------------------------------------------------

Accept ==
  \/ \E p \in Procs : Begin(p)
  \/ \E s \in Specs : MaterializeForSpec(s)
  \/ Commit

Execute == \E i \in DOMAIN db.runs : Claim(i)

Next ==
  \/ \E p \in Procs : \E e \in Heard[p] : Receive(p, e)
  \/ Accept \/ RollBack \/ Execute
  \/ \E s \in Specs : Edit(s)
  \/ Tick
  \/ Halt

Spec == Init /\ [][Next]_vars

\* A call of ingestEvent runs to its end, the runners poll, and time passes.
Fairness == WF_vars(Accept) /\ WF_vars(Execute) /\ WF_vars(Tick)

FairSpec == Spec /\ Fairness

-----------------------------------------------------------------------------
(* Properties *)

\* Run i of table t answers the event at position k: it was made for that
\* event, extended to it, or extended past it.
Answers(t, i, k) ==
  /\ t.runs[i].born <= k /\ k <= t.runs[i].event
  /\ KeyAt(t.log, k) = KeyAt(t.log, t.runs[i].event)
  /\ t.runs[i].spec \in t.log[k].matched

\* However often an event is delivered, by whichever process, and whatever
\* fails in between, no spec has two runs for it.
EventRunsOnce ==
  \A e \in Events, s \in Specs :
    Cardinality({i \in DOMAIN db.runs :
                   /\ db.runs[i].spec = s
                   /\ \E k \in DOMAIN db.log :
                        db.log[k].event = e /\ Answers(db, i, k)}) <= 1

\* An accepted event has been dealt with for every spec it matches: a run
\* answers it, or one answers an earlier event that the windows allow to
\* stand for it.  So nothing that fails leaves an event half accepted.
NoEventForgotten ==
  \A k \in DOMAIN db.log :
    /\ db.log[k].status # "received"
    /\ \A s \in db.log[k].matched : \E i \in DOMAIN db.runs :
         /\ db.runs[i].spec = s
         /\ \/ s \in db.log[k].queued /\ Answers(db, i, k)
            \/ /\ s \notin db.log[k].queued
               /\ \E m \in 1..(k - 1) :
                    /\ Answers(db, i, m)
                    /\ \/ /\ KeyAt(db.log, m) = KeyAt(db.log, k)
                          /\ db.log[m].received
                               >= db.log[k].received - DedupeWindow[s]
                       \/ db.log[m].received >= db.log[k].received - Cooldown[s]

\* A run is due only after the quiet period of every event it answers, in
\* whatever order the events were stamped and committed.
QuietPeriodKept ==
  \A i \in DOMAIN db.runs : \A k \in DOMAIN db.log :
    Answers(db, i, k) =>
      db.runs[i].scheduledFor
        >= db.log[k].received + Debounce[db.runs[i].spec]

\* Runs of a spec without debounce keep the distance that cooldown demands,
\* and those for one key the distance of the dedupe window.
RunsKeepDistance ==
  \A i, j \in DOMAIN db.runs :
    LET s == db.runs[i].spec
        apart == db.log[db.runs[j].event].received
                   - db.log[db.runs[i].event].received
        sameKey == KeyAt(db.log, db.runs[i].event)
                     = KeyAt(db.log, db.runs[j].event)
    IN i < j /\ db.runs[j].spec = s /\ Debounce[s] = 0 =>
         /\ Cooldown[s] > 0 => apart > Cooldown[s]
         /\ DedupeWindow[s] > 0 /\ sameKey => apart > DedupeWindow[s]

\* No queued run waits for ever, once no more events come (the burst that
\* postpones it is bounded here), and no transaction blocks the runners: again
\* and again every run has been taken up or cancelled.
BacklogClears ==
  []<>(/\ writer = NoProc
       /\ \A i \in DOMAIN db.runs : db.runs[i].status # "queued")
=============================================================================
