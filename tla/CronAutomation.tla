--------------------------- MODULE CronAutomation ---------------------------
(***************************************************************************)
(* Scheduled automations: authors that edit specs, materialization of due  *)
(* occurrences into queued runs, and CronRunners that claim runs under a   *)
(* lease and drive an agent session for each.  Several runners, in one     *)
(* process or in several, share one cron.db.                               *)
(*                                                                         *)
(* Every synchronous stretch of JavaScript is cut at the SQL statements    *)
(* and transactions after which another process can act; pc holds the      *)
(* place.  Inside one process nothing else runs meanwhile (ProcessFree).   *)
(***************************************************************************)
EXTENDS CronStore

CONSTANTS
  Runners,     \* CronRunner instances
  Author,      \* whoever creates, edits and triggers specs
  Procs,       \* operating-system processes
  Proc,        \* the process of each runner and of the author
  HubSpecs,    \* specs stored by the hub service; the others are files
  Seed,        \* rows already in cron_specs
  Definitions, \* what the author may submit
  Timeout,     \* timeout_seconds of each spec, or NoTime
  Beat,        \* period of the lease heartbeat
  Poll,        \* period of the runner's poll
  Cleanup,     \* longest session cleanup
  MaxTime,     \* bound: the clock stops here
  MaxEdits,    \* bound: author operations
  Faults,      \* which of "crash", "stop" and "sleep" may happen
  MaxFaults,   \* bound: how many of them, together
  FaultsUntil  \* bound: none of them after this time

Actors == Runners \cup {Author}

ASSUME SpecsAssumption == Specs # {}
ASSUME AuthorAssumption == Author \notin Runners
ASSUME ProcAssumption == Proc \in [Actors -> Procs]
ASSUME HubSpecsAssumption == HubSpecs \subseteq Specs
ASSUME SeedAssumption == Seed \in [Specs -> SpecRow]
ASSUME DefinitionsAssumption == Definitions \subseteq Definition
ASSUME TimeoutAssumption == Timeout \in [Specs -> (Nat \ {0}) \cup {NoTime}]
ASSUME PeriodsAssumption ==
  Beat \in Nat \ {0} /\ Poll \in Nat \ {0} /\ Cleanup \in Nat \ {0}
\* The heartbeat period is half the lease.
ASSUME HeartbeatAssumption == Beat < LeaseLen
ASSUME BoundsAssumption ==
  /\ MaxTime \in Nat /\ MaxEdits \in Nat
  /\ MaxFaults \in Nat /\ FaultsUntil \in Nat

VARIABLES
  now,     \* the clock all processes read
  specs,   \* cron_specs
  runs,    \* cron_runs in rowid order
  execs,   \* every claim ever handed out; the index is the claim token
  status,  \* of each runner: "up", "stopping" or "stopped"
  pollAt,  \* when the runner polls next
  active,  \* activeRuns of each runner, as the tokens of its entries
  pc,      \* where an actor is inside a synchronous stretch
  todo,    \* one-off rows an actor has read and not yet enqueued
  target,  \* the spec whose second statement the author still owes
  used     \* how much of each bound has been used

vars == <<now, specs, runs, execs, status, pollAt, active, pc, todo, target,
          used>>
store == <<specs, runs>>
control == <<status, pollAt, active>>
section == <<pc, todo, target>>

Phases == {"claimed", "preparing", "starting", "running", "aborting",
           "closing", "over", "dead"}
\* The body of executeClaim's try block: an abort is delivered to an await.
Awaiting == {"preparing", "starting", "running"}
\* Executions that have an entry in the session runtime or work for one.
Working == Awaiting \cup {"aborting"}
\* Executions whose claim has not been settled by them.
Unsettled == Working \cup {"claimed", "dead"}

Exec ==
  [runner: Runners, run: Nat, phase: Phases,
   abort: {"none", "cancelled", "timeout"}, beatAt: OptTime,
   deadline: OptTime]

Places == {"idle", "oneOffs", "schedules", "supersede", "claim", "dispatch",
           "initNextRun", "applyNextRun", "cancelQueued"}
Item == [spec: Specs, revision: Nat, at: Nat]

TypeOK ==
  /\ now \in Nat
  /\ specs \in [Specs -> SpecRow]
  /\ runs \in Seq(RunRow)
  /\ execs \in Seq(Exec)
  /\ status \in [Runners -> {"up", "stopping", "stopped"}]
  /\ pollAt \in [Runners -> Nat]
  /\ active \in [Runners -> SUBSET Nat]
  /\ pc \in [Actors -> Places]
  /\ todo \in [Actors -> SUBSET Item]
  /\ target \in [spec: Specs, reset: BOOLEAN]
  /\ used \in [edits: Nat, faults: Nat]

Init ==
  /\ now = 0
  /\ specs = Seed
  /\ runs = <<>>
  /\ execs = <<>>
  /\ status = [r \in Runners |-> "up"]
  /\ pollAt = [r \in Runners |-> 0]
  /\ active = [r \in Runners |-> {}]
  /\ pc = [a \in Actors |-> "idle"]
  /\ todo = [a \in Actors |-> {}]
  /\ target = [spec |-> CHOOSE s \in Specs : TRUE, reset |-> FALSE]
  /\ used = [edits |-> 0, faults |-> 0]

-----------------------------------------------------------------------------
(* Helpers *)

\* No synchronous stretch is under way in process p.
ProcessFree(p) == \A a \in Actors : Proc[a] = p => pc[a] = "idle"

RunOf(t) == execs[t].run
SpecOf(t) == runs[execs[t].run].spec
RunnerOf(t) == execs[t].runner

\* Deviation: the controller is not wired to the execution.
AbortIgnored(U, why) == execs

\* controller.abort on the executions in U; a second abort changes nothing.
Abort(U, why) ==
  [t \in DOMAIN execs |->
     IF t \in U /\ execs[t].abort = "none"
     THEN [execs[t] EXCEPT !.abort = why]
     ELSE execs[t]]

\* The entry of activeRuns for run i: the key is the run, not the claim.
EntryOf(r, i) == {u \in active[r] : u \in DOMAIN execs /\ RunOf(u) = i}

\* An execution's next timer, or NoTime.
After(delay) == IF delay = NoTime THEN NoTime ELSE now + delay

\* An await of execution t continues: nothing aborted it, nothing overdue.
Resumes(t) ==
  /\ ProcessFree(Proc[RunnerOf(t)])
  /\ execs[t].abort = "none"
  /\ execs[t].deadline = NoTime \/ now < execs[t].deadline

\* completeRun under the token of t, and for a settled one-off the clearing
\* of its spec's next_run_at.
Settle(t, outcome) ==
  /\ runs' = CompleteRun(runs, RunOf(t), t, outcome)
  /\ specs' = IF Owns(runs, RunOf(t), t) /\ runs[RunOf(t)].kind = "one_off"
              THEN [specs EXCEPT ![SpecOf(t)].nextRunAt = NoTime]
              ELSE specs

\* The finally block when no session is left to stop.
Leave(t) ==
  /\ execs' = [execs EXCEPT ![t] = [@ EXCEPT !.phase = "over",
                                             !.beatAt = NoTime,
                                             !.deadline = NoTime]]
  /\ active' = [active EXCEPT ![RunnerOf(t)] =
                  @ \ EntryOf(RunnerOf(t), RunOf(t))]

\* The finally block up to stopSession, which takes at most Cleanup.
StopSession(t) ==
  execs' = [execs EXCEPT ![t] = [@ EXCEPT !.phase = "closing",
                                          !.beatAt = NoTime,
                                          !.deadline = now + Cleanup]]

-----------------------------------------------------------------------------
(* Materialization, by a runner's tick or after a reconciliation *)

\* The one-off rows listSpecs returns that are not consumed yet, each with
\* the time its run will be scheduled for.
UnconsumedOneOffs ==
  {[spec |-> s, revision |-> specs[s].revision,
    at |-> IF specs[s].nextRunAt = NoTime THEN now ELSE specs[s].nextRunAt] :
     s \in {x \in Specs :
              /\ Runnable(specs[x])
              /\ specs[x].source.kind = "one_off"
              /\ ConsumingRuns(runs, x, specs[x].revision) = {}}}

\* Where a stretch goes once its one-offs are enqueued.
Materialize(a, items) ==
  /\ todo' = [todo EXCEPT ![a] = items]
  /\ pc' = [pc EXCEPT ![a] = IF items = {} THEN "schedules" ELSE "oneOffs"]

\* Deviation: the poll leaves renewal to the heartbeats.
TickWithoutRenewal(r) ==
  /\ status[r] = "up"
  /\ pollAt[r] <= now
  /\ ProcessFree(Proc[r])
  /\ Materialize(r, UnconsumedOneOffs)
  /\ pollAt' = [pollAt EXCEPT ![r] = now + Poll]
  /\ UNCHANGED <<now, specs, runs, execs, status, active, target, used>>

\* A poll: renew every active claim, abort those that are lost, list specs.
TickBegin(r) ==
  /\ status[r] = "up"
  /\ pollAt[r] <= now
  /\ ProcessFree(Proc[r])
  /\ runs' = [i \in DOMAIN runs |->
                IF \E t \in active[r] : RunOf(t) = i /\ Owns(runs, i, t)
                THEN [runs[i] EXCEPT !.until = now + LeaseLen]
                ELSE runs[i]]
  /\ execs' = Abort({t \in active[r] : ~Owns(runs, RunOf(t), t)}, "cancelled")
  /\ Materialize(r, UnconsumedOneOffs)
  /\ pollAt' = [pollAt EXCEPT ![r] = now + Poll]
  /\ UNCHANGED <<now, specs, status, active, target, used>>

\* enqueueRun of one row read earlier.  A second one_off run of a revision
\* violates the unique index: the exception ends the stretch.
EnqueueOneOff(a) ==
  /\ pc[a] = "oneOffs"
  /\ \E item \in todo[a] :
       IF OneOffIndexed(runs, item.spec, item.revision)
       THEN /\ pc' = [pc EXCEPT ![a] = "idle"]
            /\ todo' = [todo EXCEPT ![a] = {}]
            /\ UNCHANGED runs
       ELSE /\ runs' = Append(runs, NewRun(item.spec, item.revision,
                                           "one_off", item.at))
            /\ Materialize(a, todo[a] \ {item})
  /\ UNCHANGED <<now, specs, execs, control, target, used>>

\* materializeDueScheduleRun for the schedules, in any order; each is a
\* transaction of its own that reads its row again.
MaterializeSchedules(a) ==
  /\ pc[a] = "schedules"
  /\ IF \E s \in Specs : OccurrenceDue(specs[s], now)
     THEN /\ \E s \in Specs :
               /\ OccurrenceDue(specs[s], now)
               /\ runs' = Append(runs, NewRun(s, specs[s].revision, "schedule",
                                              specs[s].nextRunAt))
               /\ specs' = [specs EXCEPT ![s] = AdvanceSchedule(@, now)]
          /\ UNCHANGED pc
     ELSE /\ specs' = [s \in Specs |-> AdvanceSchedule(specs[s], now)]
          /\ pc' = [pc EXCEPT ![a] = IF a \in Runners THEN "supersede"
                                                      ELSE "idle"]
          /\ UNCHANGED runs
  /\ UNCHANGED <<now, execs, control, todo, target, used>>

CancelSuperseded(r) ==
  /\ pc[r] = "supersede"
  /\ runs' = CancelRuns(runs, Superseded(runs))
  /\ pc' = [pc EXCEPT ![r] = "claim"]
  /\ UNCHANGED <<now, specs, execs, control, todo, target, used>>

-----------------------------------------------------------------------------
(* Claims and executions *)

ClaimDue(r) ==
  /\ pc[r] = "claim"
  /\ \E claimed \in ClaimLists(runs, now) :
       /\ runs' = ClaimRuns(runs, claimed, Len(execs), now)
       /\ execs' = execs \o
            [k \in 1..Len(claimed) |->
               [runner |-> r, run |-> claimed[k], phase |-> "claimed",
                abort |-> "none", beatAt |-> NoTime, deadline |-> NoTime]]
       /\ pc' = [pc EXCEPT ![r] = IF claimed = <<>> THEN "idle"
                                                    ELSE "dispatch"]
  /\ UNCHANGED <<now, specs, control, todo, target, used>>

\* The synchronous head of executeClaim, for each claim of the tick.
Dispatch(t) ==
  LET r == RunnerOf(t)
      spec == specs[SpecOf(t)]
      others == {u \in DOMAIN execs :
                   u # t /\ RunnerOf(u) = r /\ execs[u].phase = "claimed"}
  IN  /\ execs[t].phase = "claimed"
      /\ pc[r] = "dispatch"
      /\ IF ~spec.enabled \/ spec.removed
         THEN /\ runs' = CompleteRun(runs, RunOf(t), t, "cancelled")
              /\ execs' = [execs EXCEPT ![t] = [@ EXCEPT !.phase = "over"]]
              /\ UNCHANGED active
         ELSE /\ active' = [active EXCEPT ![r] =
                              (@ \ EntryOf(r, RunOf(t))) \cup {t}]
              /\ execs' = [execs EXCEPT ![t] =
                             [@ EXCEPT !.phase = "preparing",
                                       !.beatAt = now + Beat,
                                       !.deadline = After(Timeout[SpecOf(t)])]]
              /\ UNCHANGED runs
      /\ pc' = [pc EXCEPT ![r] = IF others = {} THEN "idle" ELSE "dispatch"]
      /\ UNCHANGED <<now, specs, status, pollAt, todo, target, used>>

\* buildStartRequest resolves; startSession is called.
Prepared(t) ==
  /\ execs[t].phase = "preparing"
  /\ Resumes(t)
  /\ execs' = [execs EXCEPT ![t] = [@ EXCEPT !.phase = "starting"]]
  /\ UNCHANGED <<now, store, control, section, used>>

\* startSession resolves.  attachSessionIdToRun tells whether the claim is
\* still ours; if not, the session is aborted instead of given its turn.
SessionStarted(t) ==
  /\ execs[t].phase = "starting"
  /\ Resumes(t)
  /\ IF Owns(runs, RunOf(t), t)
     THEN execs' = [execs EXCEPT ![t] = [@ EXCEPT !.phase = "running"]]
     ELSE execs' = [execs EXCEPT ![t] = [@ EXCEPT !.phase = "aborting",
                                                  !.abort = "cancelled",
                                                  !.deadline = now + 2 * Cleanup]]
  /\ UNCHANGED <<now, store, control, section, used>>

TurnDone(t) ==
  /\ execs[t].phase = "running"
  /\ Resumes(t)
  /\ Settle(t, "done")
  /\ StopSession(t)
  /\ UNCHANGED <<now, control, section, used>>

\* Deviation: a failure before the turn returns without settling the run.
FailedUnsettled(t) ==
  /\ execs[t].phase \in {"preparing", "starting"}
  /\ Resumes(t)
  /\ Leave(t)
  /\ UNCHANGED <<now, store, status, pollAt, section, used>>

\* buildStartRequest, startSession or the turn itself fails.
Failed(t) ==
  /\ execs[t].phase \in Awaiting
  /\ Resumes(t)
  /\ Settle(t, "failed")
  /\ IF execs[t].phase = "running"
     THEN StopSession(t) /\ UNCHANGED active
     ELSE Leave(t)
  /\ UNCHANGED <<now, status, pollAt, section, used>>

\* The timeout callback, or checkActive when an await resumes late.
TimedOut(t) ==
  /\ execs[t].phase \in Awaiting
  /\ execs[t].abort = "none"
  /\ execs[t].deadline # NoTime
  /\ execs[t].deadline <= now
  /\ ProcessFree(Proc[RunnerOf(t)])
  /\ execs' = Abort({t}, "timeout")
  /\ UNCHANGED <<now, store, control, section, used>>

Outcome(t) == IF execs[t].abort = "timeout" THEN "failed" ELSE "cancelled"

\* The aborted await rejects into the catch block.  A session that has
\* started is cleaned up before the run is settled.
AbortDelivered(t) ==
  /\ execs[t].phase \in Awaiting
  /\ execs[t].abort # "none"
  /\ ProcessFree(Proc[RunnerOf(t)])
  /\ IF execs[t].phase = "running"
     THEN /\ execs' = [execs EXCEPT ![t] =
                          [@ EXCEPT !.phase = "aborting",
                                    !.deadline = now + 2 * Cleanup]]
          /\ UNCHANGED <<specs, runs, active>>
     ELSE Settle(t, Outcome(t)) /\ Leave(t)
  /\ UNCHANGED <<now, status, pollAt, section, used>>

\* abortSession and stopSession have returned or timed out.
CleanedUp(t) ==
  /\ execs[t].phase = "aborting"
  /\ ProcessFree(Proc[RunnerOf(t)])
  /\ Settle(t, Outcome(t))
  /\ Leave(t)
  /\ UNCHANGED <<now, status, pollAt, section, used>>

Closed(t) ==
  /\ execs[t].phase = "closing"
  /\ ProcessFree(Proc[RunnerOf(t)])
  /\ Leave(t)
  /\ UNCHANGED <<now, store, status, pollAt, section, used>>

\* The lease heartbeat.  A lost lease aborts whatever activeRuns holds for
\* the run now.
Heartbeat(t) ==
  /\ execs[t].phase \in Working
  /\ execs[t].beatAt # NoTime
  /\ execs[t].beatAt <= now
  /\ ProcessFree(Proc[RunnerOf(t)])
  /\ runs' = RenewClaim(runs, RunOf(t), t, now)
  /\ execs' = IF Owns(runs, RunOf(t), t)
              THEN [execs EXCEPT ![t] = [@ EXCEPT !.beatAt = now + Beat]]
              ELSE [Abort(EntryOf(RunnerOf(t), RunOf(t)), "cancelled")
                      EXCEPT ![t] = [@ EXCEPT !.beatAt = NoTime]]
  /\ UNCHANGED <<now, specs, control, section, used>>

-----------------------------------------------------------------------------
(* Stops, starts, crashes and the clock *)

Fault(kind) ==
  /\ kind \in Faults
  /\ used.faults < MaxFaults
  /\ now <= FaultsUntil
  /\ used' = [used EXCEPT !.faults = @ + 1]

\* Deviation: only executions whose turn has begun are aborted.
StopTurns(r) ==
  /\ status[r] = "up"
  /\ ProcessFree(Proc[r])
  /\ Fault("stop")
  /\ status' = [status EXCEPT ![r] = "stopping"]
  /\ execs' = Abort({t \in active[r] : execs[t].phase = "running"}, "cancelled")
  /\ UNCHANGED <<now, store, pollAt, active, section>>

Stop(r) ==
  /\ status[r] = "up"
  /\ ProcessFree(Proc[r])
  /\ Fault("stop")
  /\ status' = [status EXCEPT ![r] = "stopping"]
  /\ execs' = Abort(active[r], "cancelled")
  /\ UNCHANGED <<now, store, pollAt, active, section>>

InFlight(r) ==
  {t \in DOMAIN execs :
     RunnerOf(t) = r /\ execs[t].phase \notin {"over", "dead"}}

\* stop() resolves once every execution has.
Stopped(r) ==
  /\ status[r] = "stopping"
  /\ InFlight(r) = {}
  /\ status' = [status EXCEPT ![r] = "stopped"]
  /\ UNCHANGED <<now, store, execs, pollAt, active, section, used>>

\* start(), of a stopped runner or in a new process.
Start(r) ==
  /\ status[r] = "stopped"
  /\ ProcessFree(Proc[r])
  /\ status' = [status EXCEPT ![r] = "up"]
  /\ pollAt' = [pollAt EXCEPT ![r] = now]
  /\ UNCHANGED <<now, store, execs, active, section, used>>

\* The process dies between any two statements; only cron.db survives.
Crash(p) ==
  LET dead == {r \in Runners : Proc[r] = p}
  IN  /\ Fault("crash")
      /\ status' = [r \in Runners |-> IF r \in dead THEN "stopped"
                                                    ELSE status[r]]
      /\ active' = [r \in Runners |-> IF r \in dead THEN {} ELSE active[r]]
      /\ execs' = [t \in DOMAIN execs |->
                     IF RunnerOf(t) \in dead /\ execs[t].phase # "over"
                     THEN [execs[t] EXCEPT !.phase = "dead"]
                     ELSE execs[t]]
      /\ pc' = [a \in Actors |-> IF Proc[a] = p THEN "idle" ELSE pc[a]]
      /\ todo' = [a \in Actors |-> IF Proc[a] = p THEN {} ELSE todo[a]]
      /\ UNCHANGED <<now, store, pollAt, target>>

Overdue(time) == time # NoTime /\ time <= now

\* A timer or a promise continuation that runs before time passes.
Pending(t) ==
  \/ execs[t].phase \in Awaiting /\ execs[t].abort # "none"
  \/ execs[t].phase \in Working /\ Overdue(execs[t].beatAt)
  \/ execs[t].phase \in Working \cup {"closing"} /\ Overdue(execs[t].deadline)

\* Time passes on an awake system: timers fire on time.
Advance ==
  /\ now < MaxTime
  /\ \A a \in Actors : pc[a] = "idle"
  /\ \A r \in Runners : status[r] = "up" => pollAt[r] > now
  /\ \A t \in DOMAIN execs : ~Pending(t)
  /\ now' = now + 1
  /\ UNCHANGED <<store, execs, control, section, used>>

\* Long enough for every lease to run out.
Night == LeaseLen + 1

\* The machine sleeps: time passes, timers do not fire.
Sleep ==
  /\ \A a \in Actors : pc[a] = "idle"
  /\ Fault("sleep")
  /\ \E later \in (now + 1)..(now + Night) : later <= MaxTime /\ now' = later
  /\ UNCHANGED <<store, execs, control, section>>

-----------------------------------------------------------------------------
(* Authors *)

AuthorActs ==
  /\ ProcessFree(Proc[Author])
  /\ used.edits < MaxEdits
  /\ used' = [used EXCEPT !.edits = @ + 1]

\* validateScheduleTiming of a hub schedule.
ValidTiming(def) ==
  def.kind = "one_off" => /\ def.runAt # NoTime
                          /\ def.enabled => def.runAt > now

\* createHubSchedule up to its INSERT; next_run_at follows in InitializeNextRun.
CreateHubSchedule(s, def) ==
  /\ AuthorActs
  /\ s \in HubSpecs
  /\ specs[s].revision = 0
  /\ def.valid /\ ValidTiming(def)
  /\ specs' = [specs EXCEPT ![s] = UpsertSpec(@, def)]
  /\ pc' = [pc EXCEPT ![Author] = "initNextRun"]
  /\ target' = [spec |-> s, reset |-> TRUE]
  /\ UNCHANGED <<now, runs, execs, control, todo>>

InitializeNextRun ==
  /\ pc[Author] = "initNextRun"
  /\ specs' = [specs EXCEPT ![target.spec] = InitNextRun(@, now)]
  /\ pc' = [pc EXCEPT ![Author] = "idle"]
  /\ UNCHANGED <<now, runs, execs, control, todo, target, used>>

\* updateHubSchedule, one transaction.  retime: the update names the cron
\* pattern, the run time or the enabled flag.
UpdateHubSchedule(s, def, retime) ==
  LET old == specs[s]
      new == UpsertSpec(old, def)
      oneOff == "one_off" \in {old.source.kind, def.kind}
  IN  /\ AuthorActs
      /\ s \in HubSpecs
      /\ old.revision > 0 /\ ~old.removed
      /\ def.valid /\ ValidTiming(def)
      /\ retime \/ /\ def.kind = old.source.kind
                   /\ def.runAt = old.source.runAt
                   /\ def.enabled = old.source.enabled
      /\ specs' = [specs EXCEPT ![s] = IF retime THEN InitNextRun(new, now)
                                                 ELSE new]
      /\ runs' = IF oneOff /\ (new.revision # old.revision
                                 \/ new.enabled # old.enabled)
                 THEN CancelRuns(runs, QueuedOneOffsOf(runs, s))
                 ELSE runs
      /\ UNCHANGED <<now, execs, control, section>>

\* deleteHubSchedule, or handleFileDeleted for a file that is gone.
RemoveSpec(s) ==
  /\ AuthorActs
  /\ specs[s].revision > 0 /\ ~specs[s].removed
  /\ specs' = [specs EXCEPT ![s] = MarkRemoved(@)]
  /\ pc' = [pc EXCEPT ![Author] = "cancelQueued"]
  /\ target' = [spec |-> s, reset |-> FALSE]
  /\ UNCHANGED <<now, runs, execs, control, todo>>

\* Its second statement.  The watcher then materializes everything.
CancelQueuedRuns ==
  /\ pc[Author] = "cancelQueued"
  /\ runs' = CancelRuns(runs, QueuedOf(runs, target.spec))
  /\ IF target.spec \in HubSpecs
     THEN pc' = [pc EXCEPT ![Author] = "idle"] /\ UNCHANGED todo
     ELSE Materialize(Author, UnconsumedOneOffs)
  /\ UNCHANGED <<now, specs, execs, control, target, used>>

\* reconcileFile up to its upsert; next_run_at follows in ApplyFileNextRun.
ReconcileFile(s, def) ==
  LET old == specs[s]
  IN  /\ AuthorActs
      /\ s \notin HubSpecs
      /\ def.runAt = NoTime
      /\ specs' = [specs EXCEPT ![s] = UpsertSpec(@, def)]
      /\ pc' = [pc EXCEPT ![Author] = "applyNextRun"]
      /\ target' = [spec |-> s,
                    reset |-> \/ old.revision = 0
                              \/ old.removed
                              \/ ~old.enabled
                              \/ old.source.kind # def.kind]
      /\ UNCHANGED <<now, runs, execs, control, todo>>

ApplyFileNextRun ==
  /\ pc[Author] = "applyNextRun"
  /\ specs' = [specs EXCEPT ![target.spec] =
                 ApplyNextRun(@, target.reset, now)]
  /\ Materialize(Author, UnconsumedOneOffs)
  /\ UNCHANGED <<now, runs, execs, control, target, used>>

\* Deviation: only a manual run blocks another.
ManualRunBlockedByManual(s) ==
  \E i \in ConsumingRuns(runs, s, specs[s].revision) :
    runs[i].status # "cancelled" /\ runs[i].kind = "manual"

\* A manual run already there, or a one-off run that has started.
ManualRunBlocked(s) ==
  \E i \in ConsumingRuns(runs, s, specs[s].revision) :
    /\ runs[i].status # "cancelled"
    /\ runs[i].kind = "manual" \/ runs[i].status # "queued"

\* triggerScheduleNow: enqueueHubScheduleRun, then a tick of runner r.
TriggerNow(s, r) ==
  LET run == NewRun(s, specs[s].revision, "manual", now)
      oneOff == specs[s].source.kind = "one_off"
      queued == {i \in QueuedOneOffsOf(runs, s) :
                   runs[i].revision = specs[s].revision}
  IN  /\ AuthorActs
      /\ s \in HubSpecs
      /\ Runnable(specs[s])
      /\ Proc[r] = Proc[Author]
      /\ runs' = IF ~oneOff THEN Append(runs, run)
                 ELSE IF ManualRunBlocked(s) THEN runs
                 ELSE Append(CancelRuns(runs, queued), run)
      /\ specs' = IF oneOff THEN [specs EXCEPT ![s].nextRunAt = NoTime]
                            ELSE specs
      /\ pollAt' = [pollAt EXCEPT ![r] = now]
      /\ UNCHANGED <<now, execs, status, active, section>>

-----------------------------------------------------------------------------
(* The specification *)

\* What remains of a synchronous stretch runs to its end.
Stretch(a) ==
  \/ EnqueueOneOff(a)
  \/ MaterializeSchedules(a)
  \/ a \in Runners /\ (CancelSuperseded(a) \/ ClaimDue(a))
  \/ a \in Runners /\ \E t \in DOMAIN execs : RunnerOf(t) = a /\ Dispatch(t)
  \/ a = Author /\ (InitializeNextRun \/ CancelQueuedRuns \/ ApplyFileNextRun)

\* Timers that fire and cleanups that end, whatever the agent does.
Timers(t) ==
  \/ Heartbeat(t)
  \/ TimedOut(t)
  \/ AbortDelivered(t)
  \/ CleanedUp(t)
  \/ Closed(t)

\* Answers of the agent runtime, which may never come.
Answers(t) ==
  \/ Prepared(t)
  \/ SessionStarted(t)
  \/ TurnDone(t)
  \/ Failed(t)

Edits ==
  \/ \E s \in Specs, def \in Definitions :
       \/ CreateHubSchedule(s, def)
       \/ ReconcileFile(s, def)
       \/ \E retime \in BOOLEAN : UpdateHubSchedule(s, def, retime)
  \/ \E s \in Specs :
       \/ RemoveSpec(s)
       \/ \E r \in Runners : TriggerNow(s, r)

\* The clock is at its bound: nothing more has to happen.
Halt == now = MaxTime /\ UNCHANGED vars

Next ==
  \/ \E a \in Actors : Stretch(a)
  \/ \E t \in DOMAIN execs : Timers(t) \/ Answers(t)
  \/ \E r \in Runners : TickBegin(r) \/ Stop(r) \/ Stopped(r) \/ Start(r)
  \/ \E p \in Procs : Crash(p)
  \/ Edits
  \/ Advance
  \/ Sleep
  \/ Halt

Spec == Init /\ [][Next]_vars

(***************************************************************************)
(* setInterval and setTimeout callbacks and promise continuations run.     *)
(* Nothing is assumed of the agent, of authors or of restarts.             *)
(***************************************************************************)
Fairness ==
  /\ WF_vars(Advance)
  /\ WF_vars(\E t \in DOMAIN execs : Timers(t))
  /\ \A a \in Actors : WF_vars(Stretch(a))
  /\ \A r \in Runners : WF_vars(TickBegin(r)) /\ WF_vars(Stopped(r))

FairSpec == Spec /\ Fairness

-----------------------------------------------------------------------------
(* Safety *)

(* A row is 'running' exactly while it carries a claim token, and the token
   is that of an execution that still has to settle it or that died with its
   process: no path of executeClaim may leave a running row without an owner
   that finishes it or a lease that runs out. *)
RunningHasOwner ==
  \A i \in DOMAIN runs :
    IF runs[i].status = "running"
    THEN /\ runs[i].token \in DOMAIN execs
         /\ RunOf(runs[i].token) = i
         /\ execs[runs[i].token].phase \in Unsettled
         /\ runs[i].until # NoTime
    ELSE runs[i].token = NoToken

\* What the proofs add to the types: references between the tables hold.
ReferencesHold ==
  /\ \A t \in DOMAIN execs : RunOf(t) \in DOMAIN runs
  /\ \A r \in Runners : active[r] \subseteq DOMAIN execs

\* The inductive invariant of the proofs.
IInv == TypeOK /\ ReferencesHold /\ RunningHasOwner

(* Two executions never drive a session for the same run: "a live session is
   not reclaimed and started a second time" (tick, lease renewal). *)
NoDoubleExecution ==
  \A t, u \in DOMAIN execs :
    /\ execs[t].phase \in Working
    /\ execs[u].phase \in Working
    /\ RunOf(t) = RunOf(u)
    => t = u

(* Sessions at work never exceed the global concurrency nor their spec's
   max_parallel, counted over all runners that share the database: the limits
   are enforced on leases, and must hold of the sessions behind them. *)
SessionsWithinLimits ==
  LET working == {t \in DOMAIN execs : execs[t].phase \in Working}
  IN  /\ Cardinality(working) <= Concurrency
      /\ \A s \in Specs :
           Cardinality({t \in working : SpecOf(t) = s}) <= MaxParallel[s]

(* stop() aborts through activeRuns, whose key is the run and not the claim;
   it must still reach every execution of the runner. *)
StopReachesAll ==
  \A t \in DOMAIN execs :
    execs[t].phase \in Awaiting /\ status[RunnerOf(t)] # "up"
      => execs[t].abort # "none"

(* A one-off takes effect once per revision: of the runs that consume the
   current revision, scheduled or manual, at most one was executed and not
   cancelled. *)
OneOffOnce ==
  \A s \in Specs :
    specs[s].source.kind = "one_off" =>
      Cardinality({i \in ConsumingRuns(runs, s, specs[s].revision) :
                     runs[i].attempts > 0 /\ runs[i].status # "cancelled"}) <= 1

-----------------------------------------------------------------------------
(* Action properties *)

(* A run that is done, failed or cancelled stays so: neither a reclaim, nor a
   late completion of a superseded execution, nor a cancellation reopens or
   rewrites it. *)
TerminalIsFinal ==
  [][\A i \in DOMAIN runs :
       runs[i].status \in Terminal => runs'[i].status = runs[i].status]_vars

(* A running run is settled only by the execution that holds its claim, and
   that execution is thereby finished with it. *)
OnlyOwnerSettles ==
  [][\A i \in DOMAIN runs :
       runs[i].status = "running" /\ runs'[i].status \in Terminal
         => /\ execs[runs[i].token].phase \in Unsettled \ {"dead"}
            /\ execs'[runs[i].token].phase \in {"closing", "over"}]_vars

(* Once a hub one-off has been edited into a new revision, a queued run of an
   older revision is never started. *)
StaleOneOffNeverStarts ==
  [][\A i \in DOMAIN runs :
       /\ runs[i].status = "queued" /\ runs'[i].status = "running"
       /\ runs[i].kind = "one_off" /\ runs[i].spec \in HubSpecs
       => runs[i].revision = specs[runs[i].spec].revision]_vars

(* A backlog runs once: when a queued occurrence is claimed, no newer queued
   occurrence of its spec exists. *)
OnlyNewestOccurrenceStarts ==
  [][\A i \in DOMAIN runs :
       runs[i].status = "queued" /\ runs'[i].status = "running"
         => ~\E j \in DOMAIN runs :
               /\ runs[j].spec = runs[i].spec
               /\ runs[j].status = "queued"
               /\ {runs[i].kind, runs[j].kind} = {"schedule"}
               /\ runs[j].scheduledFor > runs[i].scheduledFor]_vars

(* An occurrence that is due is not forgotten: next_run_at moves past it only
   when a run for it is queued, unless its author disabled the schedule or
   changed when it runs. *)
DueOccurrenceKept ==
  [][\A s \in Specs :
       LET retimed == /\ pc[Author] = "applyNextRun"
                      /\ target = [spec |-> s, reset |-> TRUE]
       IN  /\ OccurrenceDue(specs[s], now)
           /\ ~retimed
           /\ specs'[s].nextRunAt # specs[s].nextRunAt
           => \E i \in DOMAIN runs' :
                /\ runs'[i].spec = s
                /\ runs'[i].scheduledFor = specs[s].nextRunAt]_vars

(* A hub one-off run is never queued for a time before the run time its author
   gave. *)
OneOffNotEarly ==
  [][\A i \in DOMAIN runs' :
       /\ i \notin DOMAIN runs
       /\ runs'[i].kind = "one_off"
       => runs'[i].scheduledFor >= specs[runs'[i].spec].source.runAt]_vars

-----------------------------------------------------------------------------
(* The run queue implements LeasedWork *)

Work == [i \in DOMAIN runs |-> [state |-> runs[i].status,
                               token |-> runs[i].token,
                               until |-> runs[i].until]]

Queue == INSTANCE LeasedWork
           WITH clock <- now, work <- Work, grants <- Len(execs)

(* Every step of authors, runners, crashes and the clock is a legal step of
   the leased queue: fresh tokens, takeover only of expired leases, one
   settlement. *)
ImplementsLeasedWork == Queue!Spec

-----------------------------------------------------------------------------
(* Liveness, under FairSpec *)

(* stop() returns, however long the turns it interrupts would have taken. *)
StopCompletes ==
  \A r \in Runners : status[r] = "stopping" ~> status[r] # "stopping"

(* An execution that lost its claim finds out and lets go of its session. *)
StaleExecutionEnds ==
  \A t \in 1..3 :
    LET works == t \in DOMAIN execs /\ execs[t].phase \in Working
    IN  works /\ ~Owns(runs, RunOf(t), t) ~> ~works

\* The bounds leave room for one lease and one timeout after this time.
Horizon == MaxTime \div 2

(* Every run that falls due reaches an end if its turns have a timeout, also
   when the process that executes it crashes, stops or sleeps: as long as some
   runner is up, it is reclaimed. *)
DueRunsFinish ==
  \A i \in 1..2 :
    (i \in DOMAIN runs /\ runs[i].scheduledFor <= Horizon)
      ~> \/ i \in DOMAIN runs /\ runs[i].status \in Terminal
         \/ \A r \in Runners : status[r] # "up"
=============================================================================
