# Automations, run queue and tasks of Cline's hub: TLA+ models and proofs

This directory holds TLA+ specifications of the concurrent core of this
repository, TLC configurations that model-check them on small instances, and
TLAPS proofs of the theorems that hold for every instance. Paths below are
relative to `src/sdk/packages/core/src` unless they start with `src/`.

## 1. The system

The SDK core runs in a *hub daemon*, in a CLI process or inside an editor
extension. It keeps agent sessions, queues the prompts users send, and starts
sessions by itself on schedules and events. Everything durable is in SQLite
files and automation files; everything else is JavaScript: code between two
`await`s runs without interruption inside its process, and other processes see
the database between any two statements.

| component | state | operations | what makes it hard |
|---|---|---|---|
| automation store (`cron/store`) | `cron_specs`, `cron_runs`, `cron_event_log` in `cron.db` | upsert, remove, enqueue, cancel, claim under a lease, renew, complete | several runners and processes; multi-statement operations; leases |
| automation runner (`cron/runner`) | `activeRuns`, `executions`, poll timer, heartbeat and timeout timers per execution | tick, executeClaim, stop, start | promises that never settle, sleep, crash, lost leases, late completions |
| schedule authors (`cron/service`, `cron/specs`) | hub schedules, automation files | create, update, delete, trigger, reconcile | edits against materialization and against running executions |
| event ingress (`cron/events`) | event log, event runs | ingestEvent | redelivery, debounce, dedupe window, cooldown |
| hub run queue (`hub/server/hub-run-queue.ts`, `handlers/run-queue-handlers.ts`, `handlers/run-handlers.ts`) | `hub_runs`, `activeSessions` | admit, pump, drain, timeout, recover, stop | acknowledgement before execution, crash, back-pressure, late turns |
| pending prompts (`runtime/turn-queue`, `runtime/host`) | `pendingPrompts`, `aborting`, `drainingPendingPrompts` | enqueue, steer, edit, drain, requeue, discard | order, abort window, failure of a drained prompt |
| capability and approval requests (`hub/server/handlers`) | pending requests and approvals, undelivered events, clients, listeners, detach marks | request, respond, register, subscribe, unregister, detach, attach, cancel | reconnect grace timer; the hub notices a lost socket late; subscriptions served by a microtask |
| agenda tasks (`tasks`) | tasks, task runs, automation policies, `activeRuns` | create, approve, run, cancel, pump, expire, recover | revisions, cancellation while a session starts, pump capacity |
| agent teams (`extensions/tools/team`) | tasks, runs, mailboxes, members | claim, complete, start run, retry, cancel | run dispatch, back-off, cancellation during a run |
| hub singleton (`hub/discovery`, `hub/daemon`) | instance lock, discovery record | acquire, publish, connect, release | two daemons at once, stale records |
| others | event log, connector supervisor, OAuth lock, agent loop, providers, applications | | see section 8 |

Interactions: the schedule service and the cron service of one daemon own one
`CronRunner` each (`hub-server-transport.ts` 416 and 502), and both runners,
like those of any other process of the same user, share `cron.db`. A runner
starts sessions through the session host. Users' prompts reach the same host
through the run queue or directly; a busy session parks them as pending
prompts. Sessions call back into clients for capabilities and approvals.
Agenda tasks and teams start sessions through the same host.

Correctness, per component: the store hands a run to one executor at a time
and never loses or rewrites a settled one; the runner never starts a live
session twice, respects its limits, reaches every execution when it stops and
lets go of every claim it lost; authors' edits take effect once per revision
and no due occurrence is lost; the event ingress is idempotent and atomic; the
run queue runs accepted prompts one at a time, in order, and a crash loses
none; pending prompts are delivered once and in order; every capability
request ends once; a task runs only in an approved revision and within
capacity; a team run ends once and is not starved.

The development covers five parts, each with modules of its own: the automation
store with its runners and authors, where several processes, leases, timers,
crashes and edits meet; the ingress of automation events; the durable run queue
over the turns of a session; agenda tasks; and the requests that sessions make of
clients. The first four share no state below the session host: a started session is to
each of them a promise that may resolve, reject or stay pending, and is modelled as
such. To the last, a session is something that may ask at any time.

## 2. Modules

| module | models |
|---|---|
| `CronStore` | the rows of `cron.db` and each statement or transaction of `SqliteCronStore` on them, as operators |
| `CronAutomation` | runners, executions, authors, crashes, sleep and time over that store: one action per handler or per piece of a handler that another process can separate |
| `LeasedWork` | the abstract promise of the automation queue: queued once, leased by one fresh token, taken over only after expiry, settled once |
| `ClaimLoop` | the loop of `claimDueRuns`, recursively, against its declarative description in `CronStore`, on every table `CronAutomation` reaches |
| `CronEvents` | `CronEventIngress`: accepting an event and making runs of it, statement by statement inside its transaction, in several processes |
| `SessionTurns` | the turns of one interactive session in `local-runtime-host.ts`, its agent, and the prompts that wait in memory |
| `HubRuns` | `hub_runs`, its executor for one session, timeouts, the daemon's drain, stop, crash and restart, over `SessionTurns` |
| `DurableFifo` | the abstract promise of the run queue: accepted at the end, one at a time in that order, each ended once |
| `AgendaTasks` | `AgendaTaskManager`: tasks, their runs and spec files, commands, reconciliation, the automation pump, dispose, crash and recovery |
| `CapabilityRequests` | capability requests and approvals, the websockets, registrations and subscriptions they travel on, detach and attach, abort, timeout and stop |
| `CronAutomationProofs` | the inductive invariant of `CronAutomation`: types, references, ownership of running rows; what one step may do to one row, with finality, fencing, and the refinement of `LeasedWork` |
| `CronTimingProofs` | heartbeats against leases: no double execution, the limits, and the reach of `stop`, while nothing sleeps and for one runner whether it sleeps or not |
| `CronAuthorsProofs` | one-offs, backlogs and edits where runners and authors share a process; due occurrences of recurring automation files |
| `CronEventsProofs` | all safety properties of `CronEvents` |
| `HubRunsProofs` | types, service of the queue, and the refinement of `DurableFifo` |
| `HubTurnsProofs` | the run queue against the turns of its session: timeouts, order, parked prompts |
| `AgendaTasksProofs` | all safety properties of `AgendaTasks` |
| `CapabilityProofs` | the safety properties of `CapabilityRequests` |
| `MCCron`, `MCEvents`, `MCHub`, `MCAgenda`, `MCCapability` | constants of the small instances |

### Correspondence with the code

`specs` is `cron_specs` (`revision = 0`: no row), `runs` is `cron_runs` in
rowid order. `execs` records every claim handed out by `claimDueRuns`; its
index is the claim token, so a fresh token is the next index, which stands for
`randomUUID`. An execution's `phase` is the place of `executeClaim`:

| phase | `cron-runner.ts` |
|---|---|
| `claimed` | claimed by this tick, `executeClaim` not yet called |
| `preparing`, `starting`, `running` | awaiting `buildStartRequest`, `startSession`, the turn |
| `aborting` | the catch block awaits `abortSession` and `stopSession`, each bounded |
| `closing` | the finally block awaits `stopSession` after the run was settled |
| `over`, `dead` | returned; or its process died |

`abort` is the execution's `AbortController`, `beatAt` the next heartbeat,
`deadline` the timeout (later the bound of the cleanup), `active` the
`activeRuns` map (at most one token per run, because the key is the run id).

A tick is cut where another process can act: `TickBegin` (renew the active
claims, list one-off rows), `EnqueueOneOff` once per row read,
`MaterializeSchedules` once per due schedule (a transaction each),
`CancelSuperseded`, `ClaimDue` (one transaction), `Dispatch` once per claim.
`pc` holds the place, `todo` the rows read but not yet used. Inside its process
nothing else runs meanwhile: every other action requires `ProcessFree`.
Authors' operations are cut the same way: `CreateHubSchedule` and
`InitializeNextRun` are the two statements of `createHubSchedule`;
`UpdateHubSchedule` is one transaction; `RemoveSpec` and `CancelQueuedRuns` are
deletion; `ReconcileFile` and `ApplyFileNextRun` are a reconciliation, followed
by the materialization that the service runs after it (`Materialize`).
`TriggerNow` is `enqueueHubScheduleRun` and the tick it asks for.

Failure is part of the model: `Crash` (a process loses everything but the
database, between any two statements), `Sleep` (the clock jumps over pending
timers), `Stop` and `Start`, `Failed` at every await, answers that never come.

**Events.** A call of `ingestEvent` is a *letter* in the `inbox` of its process:
stamped (`Receive`), waiting for the write lock (`waiting`), in its transaction
(`open`). `Begin` is BEGIN IMMEDIATE with `insertEventLog` and the listing of the
candidate specs; `MaterializeForSpec` is one turn of the loop over them, with
`Extend` for a debounced run that is still queued and `EnqueueRun` for the rest;
`Commit` is `updateEventLogProcessing` and COMMIT. `view` is what the
transaction sees, `db` what is committed, so a failure (`RollBack`) after any
statement is a step. The order of the loop is free. `Claim` and `Edit` are the
parts of the runner and of the authors that later events can notice.

**Run queue and turns.** A row of `hub_runs` is queued, running or ended, and keeps
the delivery that its input asks for. `exec` is
the executor of `hub-run-queue.ts`: not in `activeSessions`, looking the session
up, awaiting `runTurn`, reading the snapshot for the reply, leaving the set. A
call of `runTurn` is a *turn* with the places its awaits define:

| phase | `local-runtime-host.ts` |
|---|---|
| `parked` | the agent was busy: the prompt is in `pendingPrompts`, the call has returned |
| `prep` | the agent is free, but the turn is before `agent.run` |
| `run`, `wind` | in `agent.run`; after it, before the call returns |
| `failing`, `torn` | the shutdown of a session whose turn failed |
| `done`, `dead` | returned; killed with its process |

`pending`, `aborting`, `drainingPendingPrompts` (`replaying`) and the queued
microtask (`due`) are the fields of the session object, of which a resumed session
has a new one (`objects`). A synchronous stretch ends in `Quiet`; clients act only
then.

**Agenda tasks.** `task`, `rows` and `file` are `agenda_tasks`,
`agenda_task_runs` and the spec files, each file only as far as it differs from the
row (`none`, `same`, `edited`). One stretch of code maps a store to a store
(`Now`, `Becomes`), so that the reconciliation which every command performs is
part of the command (`Reconciled`). `active` is `activeRuns`; `session` is
what became of a run's session, and `told` the sessions asked to abort. A
reconciliation that has to cancel a running task waits for the abort in the
middle of its list: `sweep` is what it still has to do. `pump` holds the
candidates `pumpAutomation` has still to try, the room it computed, and the
call it awaits. `past` is history for the properties only.

**Capability and approval requests.** `clients`, `listeners`, `detached` are
`ctx.clients`, the transport's `listeners` and `detachedClientsBySession`. `requests` and
`approvals` are every request so far; the ones "waiting" are the two pending maps.
`sockets` are the websockets so far, each with what its adapter remembers
(`browser-websocket.ts`: `registeredClientIds` and authority as `role`, `subscriptions` as
`streams`) and where it stands: "lost" is a socket its client has given up and
whose `onClose` has not run. A request's `way` tells the three branches of
`capability-handlers.ts`: published when it was raised ("live"), kept as
`undeliveredEvent` under the grace timer ("held"), handed over by a subscription
("late"); `sent` are the sockets it was written to, `got` those that were open. `opening`
holds the microtasks that `subscribe` queued: the approvals they will show were listed when
the subscription was made, the requests they hand over are taken when they run.
`joining` are attaches between their read of the session and
`ensureSessionParticipant`, and `aborting` the sessions whose `run.abort` awaits. An
approval is "asked" while `requestToolApproval` reads the session. The owner answers
over whatever socket it has by then (`Respond`), provided the request reached it.

### Abstractions

Time is a natural number of coarse units, and NULL is `NoTime`. A cron pattern
is a period (`NextCronTime`); an automation's contents are a member of
`Prompts`. Abort delivery is a separate step after the abort, so that anything
may come between. The renewals of one tick, one statement per active run in the
code, are one step: they touch rows that the same runner owns.

Events: type and filters of a spec are the constant `Matches`, and the dedupe key of an
event the constant `KeyOf`; the two counts of the log are sets of specs. What
happens to a run after its claim is `taken`; `CronAutomation` has the rest.
Deletion of a spec with its queued runs is one step here. `Receive` and `Tick` are
told before an open transaction, whose statements read neither the clock nor the
inbox.

Run queue: sessions have a queue, an executor and a host object each, so one
stands for all. Prompts are told apart only where an order could be lost.

Agenda tasks: one scope and one workspace; priorities, `availableAt`, the hourly
limit, chain depth and the readiness of interactive clients only delay or refuse
candidates and are left out, so the model starts more than the code does. Automation is
enabled, as by default in the class and in its tests; the hub itself passes
`AGENDA_TODO_TOOL_ENABLED` (`hub-server-transport.ts` 386), which is false at
this commit, so the pump of today's hub idles. `deleted` is a cancelled task whose error
says that its spec was deleted. A crash between two statements of a stretch is a step of its
own where the statements concern a run and its task (`CrashMidway`,
`CrashInClaim`). At most one reconciliation waits at a time, and a command whose
reconciliation has to wait is told as `Reconcile` and the command after it.

Capability requests: progress messages, `client.update`, subscriptions to all sessions
at once, listeners inside the hub's process, sessions without an interactive
client and the pages of a replay are left out; a replay comes whole with its
subscription. A client opens a socket when it has no open one. Two aborts of one session
that overlap are told as one. The state is that of one daemon: it does not outlive it.

## 3. Runs

The runs check deadlock; `Halt` only stutters once the clock reached
`MaxTime`, so a state in which the program is stuck earlier is reported. The runs of
`CapabilityRequests` do not: that module has no clock, and a hub of which nobody asks
anything any more, with its sockets and upsets used up, has come to rest.

| run | instance | shows |
|---|---|---|
| `awake` | two specs, two runners in two processes, `max_parallel` 2 and 1, concurrency 2, a crash with leases held, no sleep | `SessionsWithinLimits`: limits are enforced on leases and hold of the sessions behind them, even though takeover after a crash is allowed; a live session started twice would break the limit of the second spec. `LoopClaimsList`: the claim loop and its declarative description agree |
| `one_runner` | one runner; an automation file edited, disabled, made invalid, deleted and restored; turns longer than the period; a crash, stop or sleep | `NoDoubleExecution`: renewing before reclaiming protects live sessions, also after a sleep. `StopReachesAll` although `activeRuns` is keyed by run. `OnlyNewestOccurrenceStarts` for a backlog, `DueOccurrenceKept` under edits |
| `one_off` | a one-off created, edited, paused, triggered and deleted, one process, a crash | `OneOffOnce` |
| `two_processes` | two processes, of which one crashes, stops or sleeps, so that live executions lose their claims; turns with a timeout; 72,413 states | a superseded execution never settles the run (`OnlyOwnerSettles`), a running row always has an owner (`RunningHasOwner`), and the queue implements `LeasedWork`; `DueRunsFinish`, `StopCompletes`, `StaleExecutionEnds` under `FairSpec` |
| `sleep_two_runners` | the two runners of one daemon, a sleep | violates `NoDoubleExecution` (section 6) |
| `early_one_off` | a one-off rescheduled while it executes | violates `OneOffNotEarly` (section 6) |
| `one_off_two_processes` | a one-off whose time has been set, a trigger by hand against a poll of another process | violates `OneOffOnce` (section 6) |
| `cron_events` | two processes, three events of two keys, two specs (one debounced with a dedupe window, one with cooldown and dedupe window), one failure, crash or edit; 625,390 states | `EventRunsOnce`, `NoEventForgotten`: ingestion is idempotent and atomic, whoever delivers and whatever fails. `QuietPeriodKept`, `RunsKeepDistance`: the windows hold in whatever order stamps and commits come. `BacklogClears`: once the burst ends, no run waits for ever |
| `hub_runs` | three durable runs (two, when one of them asks for a place in the list of prompts), a limit of two, one upset of any kind: a direct turn, an abort or edit, a timeout, a failure, an end of the session, a drain, a stop or crash; 297,024 states | `QueueIsServed`: no wake-up is lost and no row dangles. `ImplementsDurableFifo`: the queue is a durable FIFO; `RunsInOrder`: and so are the turns of its runs, while nobody else uses the session and no run asks for a place in the list. `RunsEnd`: every accepted run ends. `ParkedRunsOnce`: a parked prompt is delivered at most once. `TimedOutIsStopped`: a timeout reaches its turn however early it fires, in the first turn of the session or a later one, unless another turn overlaps it or the host no longer holds the session |
| `agenda` | two tasks, a limit of one automated run, two runs, one edit of each task, two upsets (edit, deletion, cancellation, expiry, pause, stop, crash); 720,565 states | `WorkIsApproved`: agents work only on what is approved, whatever happens while a session starts. `LimitKept`, `PauseHolds`: the pump keeps its limit and its pause across its awaits. `ProgressIsBacked`: recovery leaves no run without a session. `CompletedMeansDone`, `TerminalStays`, `AutomationNeedsConsent`: what a row may never become |
| `capability_requests` | two clients, one session, two sockets, a request and an approval, two upsets (a lost socket, a departure, a detach, an attach, an abort, a timeout, a stop); 672,561 states | `EveryWaitEnds`: no request is left with neither timer nor socket. `HeldMeansAway`: what waited for its owner is handed over by its first subscription. `ApprovalsReachListeners`: no listener misses an approval. `RequestsEnd` under `FairSpec`: every request that was delivered or is held ends |
| `late_close` | one client, two sockets, a request, two upsets | violates `GoneMeansGone` (section 6) |

### Bounds

`MaxTime` stops the clock, `MaxEdits` bounds the authors, and `Faults`,
`MaxFaults` and `FaultsUntil` say which of crash, stop and sleep happen, how many
of them, and until when; each is a guard of the actions it names and of nothing
else. A sleep lasts at most `Night`, one unit more than a lease, so that it
outlasts every lease held when it begins. A lease is two units, heartbeat and
poll one: in the code the heartbeat period is half the lease (45 s of 90 s by
default, and always less than the lease, `HeartbeatAssumption`) and the poll
period shorter (15 s).
`MaxTime` is between 2 and 7: in every run with faults a whole lease fits after
an early one, so that takeover, late completion and supersession happen.
Each property's run also finds a deviation within the same bounds (the operators
marked "Deviation" in the modules, which change one guard or one assignment).
Two runners are the smallest number that compete, and concurrency and
`max_parallel` of 1 and 2 make the limits bind. `ClaimLimit`, 25 rows per
transaction, is kept as in the code and never binds here: a table of the small
instances has fewer rows.

In `cron_events`, `LastReceipt` ends the burst before `MaxTime`, which leaves time for
every quiet period; without it a steady stream of events postpones a debounced run
for ever, as in the code. Each process may hear of each of its events any number of
times, and one event reaches both. In `hub_runs` the queue limit of 2 with 3 runs makes refusal and re-admission
happen. A run whose input asks for delivery "queue" or "steer" (`RunDeliveries`) counts twice against `MaxRuns`, because its
prompt makes for a turn of its own. The one upset may be of any kind; how several of them meet (a timeout with a
direct turn or a restart, say) is the business of the theorems, which have no bound.
In `agenda` two tasks compete for one place, `MaxRevision` allows one edit of a task, and two runs are what it takes for a session to wind
down under a newer run of the same task. With two upsets, an edit during the start of a
session can be followed by a crash. Every kind of upset is possible in each run.

In the runs of `CapabilityRequests` two sockets are what it takes for a client to come
back, before or after the hub has noticed that the first is lost, or for two
clients to be there at once; two upsets let a loss, a detach, an attach or an
abort meet around one request. Visits (`Attach`, `Create`) count as upsets, because each undoes a
`Detach`. Requests do not depend on each other, so one stands for all.

### Fairness

`FairSpec` assumes that timers fire and promise continuations run
(`Timers`, `TickBegin`, `Stopped`), that a synchronous stretch runs to its end
(`Stretch`), and that time passes (`Advance`). That is the JavaScript event
loop of a process that is not killed. Nothing is assumed of `Answers` (the
agent), `Edits` (authors), `Start`, `Stop`, `Crash` or `Sleep`. `Advance` waits for
due timers, so time cannot overrun a timer except in `Sleep`.

`CronEvents.FairSpec` assumes that a call of `ingestEvent` runs to its end
(`Accept`: synchronous code that waits only for the write lock), that runners poll
(`Execute`), and that time passes. `HubRuns.FairSpec` assumes the event loop
(`Executor`, `DrainPrompt`, `Cleanup`, `HubExit`), that a run of the agent ends
(`Progress`; the run timeout aborts one that does not), and that somebody starts a
daemon again (`Restart`, as every client does that finds none). Nothing is assumed of
clients, failures, timeouts, stops and crashes.
`CapabilityRequests.FairSpec` assumes that timers and microtasks run (`GraceOver`,
`Open`; the timer waits for the microtasks before it, which every message may add to, so its
fairness is strong: the event loop looks at due timers between any two messages), that
the hub notices a lost socket in the end (`Close`: the operating system reports it), and that a client answers a request that reached it
and keeps an open socket for it (`Respond`; it runs a hook or a tool and replies, also with a
failure). Nothing is assumed of reconnection. No liveness is checked of agenda
tasks: what section 6 lists under them are its known ways to stop.

## 4. Proofs

The theorems hold for all constants that satisfy the named assumptions of the
modules: any number of specs, runners, processes, events, runs and tasks, any limits,
lease, windows and bounds. The bounds on runs and upsets are constants too, so they
limit no theorem; that `Tasks` is finite (`TasksAssumption`) is what a count of the
busy tasks needs.

| module | theorem | statement |
|---|---|---|
| `CronAutomationProofs` | `InvariantHolds` | `Spec => []IInv` |
| | `TypesHold` | `Spec => []TypeOK` |
| | `OwnershipHolds` | `Spec => []RunningHasOwner` |
| | `OutcomesAreFinal` | `Spec => TerminalIsFinal` |
| | `OwnersSettle` | `Spec => OnlyOwnerSettles` |
| | `QueueImplementsLeasedWork` | `Spec => ImplementsLeasedWork` |
| `CronTimingProofs` | `AwakeRunsOnce` | `Spec => [](Awake => NoDoubleExecution)`, where `Awake` says that sleep is not among the faults |
| | `AwakeWithinLimits` | `Spec => [](Awake => SessionsWithinLimits)` |
| | `AwakeStopReaches` | `Spec => [](Awake => StopReachesAll)` |
| | `OneRunnerRunsOnce` | `Spec => [](OneRunner => NoDoubleExecution)`, where `OneRunner` says that `Runners` has one member, which may sleep |
| | `OneRunnerWithinLimits` | `Spec => [](OneRunner => SessionsWithinLimits)` |
| | `OneRunnerStopReaches` | `Spec => [](OneRunner => StopReachesAll)` |
| `CronAuthorsProofs` | `OneProcessRunsOnce` | `Spec => []OneOffOnce`, assuming `SingleProcess` |
| | `OneProcessRunsCurrent` | `Spec => StaleOneOffNeverStarts`, assuming `SingleProcess` |
| | `OneProcessRunsNewest` | `Spec => OnlyNewestOccurrenceStarts`, assuming `SingleProcess` |
| | `RecurringKept` | `Spec => DueOccurrenceKept`, assuming `RecurringFiles`: every automation is a file, and of kind schedule |
| `CronEventsProofs` | `TypesHold` | `Spec => []TypeOK` |
| | `RunsOnce` | `Spec => []EventRunsOnce` |
| | `NothingForgotten` | `Spec => []NoEventForgotten` |
| | `QuietHolds` | `Spec => []QuietPeriodKept` |
| | `DistanceHolds` | `Spec => []RunsKeepDistance` |
| `HubRunsProofs` | `TypesHold` | `Spec => []TypeOK` |
| | `ServedHolds` | `Spec => []QueueIsServed` |
| | `QueueImplementsFifo` | `Spec => ImplementsDurableFifo` |
| `HubTurnsProofs` | `TimedOutHolds` | `Spec => []TimedOutIsStopped` |
| | `OrderHolds` | `Spec => []RunsInOrder` |
| | `ParkedHolds` | `Spec => []ParkedRunsOnce` |
| `AgendaTasksProofs` | `InvariantHolds` | `Spec => []IInv` |
| | `TypesHold` | `Spec => []TypeOK` |
| | `WorkIsApprovedHolds` | `Spec => []WorkIsApproved` |
| | `ProgressIsBackedHolds` | `Spec => []ProgressIsBacked` |
| | `CompletedMeansDoneHolds` | `Spec => []CompletedMeansDone` |
| | `PauseHoldsAlways` | `Spec => []PauseHolds` |
| | `TerminalStaysHolds` | `Spec => TerminalStays` |
| | `LimitHolds` | `Spec => []LimitKept` |
| | `ConsentHolds` | `Spec => AutomationNeedsConsent` |
| `CapabilityProofs` | `TypesHold` | `Spec => []TypeOK` |
| | `WaitsEnd` | `Spec => []EveryWaitEnds` |
| | `DetachedAreLeftAlone` | `Spec => []NothingAskedOfDetached` |
| | `HeldIsHandedOver` | `Spec => []HeldMeansAway` |
| | `HandedOverHolds` | `Spec => []HandedOverOnce` |
| | `ApprovalsAreShown` | `Spec => []ApprovalsReachListeners` |

**Ownership** (`CronAutomationProofs`). `RunningHasOwner` makes crashes
harmless: a row marked running always carries the token of an execution of that
same run which will settle it, or which died, so that the lease runs out. It is
not inductive alone. `IInv` adds the types and `ReferencesHold`: executions refer
to existing runs, and `activeRuns` to existing executions. The references are
needed because every action that settles or renews looks its run up through the
execution, and the types because an appended row or token must not coincide with
an old one. `OwnerStep` reduces preservation of ownership to what happens to one
row and to the owner of one row. `SettleStep` covers all the paths that settle
(`TurnDone`, `Failed`, `AbortDelivered`, `CleanedUp`): either the token matches
and the row leaves "running" as its owner leaves `Unsettled`, or it does not
match and no row is touched; then the execution owns no row at all, so its
leaving cannot orphan one. `ClaimDue` gives each claimed row a token above all
earlier ones, and the k-th token an execution of the k-th claimed row. There is
one lemma per action; `NextInv` combines them.

**Fencing** (`CronAutomationProofs`). One lemma, `NextFates`, says all that a step
may do to `cron_runs`: a row keeps its contents, or a queued or expired row is
claimed under a fresh token, a running row is renewed, a running row is settled
by the execution whose token it carries, a queued row is withdrawn; new rows are
queued; or only the clock moves. Ownership from `IInv` is what turns "the token
matches" into "the row is running". Finality and fencing are read off the list of
fates, and each fate is one move of `LeasedWork`; that no two rows get the same
token follows from ownership in the next state.

**Timing** (`CronTimingProofs`). `NoDoubleExecution` is not inductive: nothing in
it says that a lease outlasts the next heartbeat. `TimeInv` does. A live execution
owns its run; while it works, its next heartbeat is not overdue and comes before
the lease ends; if it was only claimed, the tick that claimed it is still under
way, so that no time can pass. `OwnerStays` combines this with the fates: a live
execution's row is neither expired nor queued, so the only fates left to it are
renewal and settlement by itself. `Advance` waits for due timers, which is where
sleep would break the argument, and does break it for two runners
(section 6).

What the rest needs of the clock is one predicate, `Secure`: a live execution owns
its run, and no claim transaction finds that run's lease expired. While nothing
sleeps it follows from `TimeInv`. With one runner it holds after a sleep too, for
another reason: the tick that would claim the expired row renews it first, since its
own `activeRuns` names it (`RenewedInTick`). `Reach` then needs no clock:
a live execution that awaits is the entry of its run in `activeRuns` (`Entries`,
`Entered`), which no second claim of that run overwrites because there is none; a
claim not yet dispatched belongs to the tick under way (`ClaimsInTick`), and a
runner that is not up has none (`UpTicks`). Hence `StopReachesAll`. For
`SessionsWithinLimits`, `WithinLimits` counts live executions against the concurrency
and against `max_parallel` of their spec. Only a claim adds to them, and
it adds rows that are queued or expired, and so none with a live execution, for which the
transaction counted room in `cron_runs`; as every live execution owns a running row, the running rows it
counted are at least the live executions (`ClaimsHaveRoom`, `NoMore`, `OneMore`).

**Authors** (`CronAuthorsProofs`). `AuthorInv` is `RowsInv` and `StretchesInv`.
The first speaks of the table: runs carry revisions their spec had
(`RevisionsPast`), a queued run of a hub one-off carries the current one (`QueuedCurrent`), and
at most one run of a one-off's current revision has taken effect or still may
(`OneConsumer`). The second speaks of what a tick or an author holds in `todo`
between two statements: in a single process it holds it alone (`Alone`), what it
read is still so, and by the time rows are claimed nothing superseded is
queued. `SingleProcess` cannot be dropped: two processes
violate it, and `one_off_two_processes` shows the consequence.
`RecurringInv` is what `DueOccurrenceKept` needs: only materialization and
a change of the file's timing move `next_run_at` of a recurring file. What
`RecurringFiles` excludes does move it past a due occurrence: a hub edit that
retimes, and the end of a one-off run whose automation has become a schedule since
(`cron-runner.ts` 521-522).

**Events** (`CronEventsProofs`). The properties speak of committed tables, and a
transaction is many steps, so the invariant speaks of the tables *as they would
be if the transaction ended now*: `Sound(Processed(view, matched, queued))`. Then
`Begin` appends a row that matches nothing yet (`LogGrows`), `Commit` changes nothing
that the invariant says, and each turn of the loop marks the last row with one more
spec (`Marked`) in one of three ways: a window suppresses it (`RunSuppressed`), a
queued run is extended to it (`RunExtended`), or a run is added (`RunAdded`). `Sound`
adds to the four properties what makes them inductive: the events of the log are
distinct; runs of one spec and key answer disjoint stretches of the log
(`Disjoint`), of which the one of a debounced run that is still queued is the last
(`WaitingLast`) and reaches to the last event that matched (`Extended`), so that
extending it neither swallows another run's events nor skips one. A claim, a
cancellation or an edit only takes runs out of "queued" (`StatusFalls`). No assumption about
the clock or the order of stamps is needed.

**Run queue** (`HubRunsProofs`). The inductive invariant is `TypeOK` and `ServiceHolds`:
what is before a running row in the table has ended (`InTurn`), the executor owns
the one running row while it is at work and no row runs otherwise, and whenever the
daemon serves and a row is queued there is an executor. `Crash` leaves a running
row without an executor, which is why the last parts are conditional on the daemon;
`Restart` restores them by ending that row. The refinement then needs one lemma on what
a step does to the states of the rows (`RowsMove`): taking the oldest queued row
while none is running is the abstract queue's `Turnwise`.

**Run queue and turns** (`HubTurnsProofs`). For `TimedOutIsStopped` the invariant is
`TurnsInv`: every turn belongs to a session object there is (`Reachable`); the
session map holds no object but the last (`OnlyCurrent`); the turns before one
that began alone on its object are over (`AloneInv`); and a turn that began alone, has seen
only parked calls since, and that the executor no longer awaits has been told (`TimedInv`): its agent was stopped,
or it is in preparation and `aborting`, which it will look at, is set. Whether a turn
was alone when it began is history (`alone`), so that turns which are over do not
count against the ones after them. `OrderInv` is `Undisturbed => Steady`, and holds
as long as `Listed = {}`: while nobody but the queue uses the session and no run asks for a
place in the list, the k-th turn is that of the k-th run, the runs taken up are a prefix
of the table, and a turn is open only if it is the last and the executor awaits it. A
run that asks stays in the table, so `Listed = {}` after a step means that it held before
(`NextWishes`).
`OnceInv` counts: the turns that took a parked text, plus the entries that
still wait, are at most the times it was parked. `HubRuns` states `ParkedRunsOnce` by
these counts and without recursion.

**Agenda tasks** (`AgendaTasksProofs`). A stretch of code maps a store to a store,
and stretches are put together from smaller ones: a command is a reconciliation and
then the command, the end of a run is the end and then a reconciliation. So the
invariant is a predicate of a store, of the sessions, and of whether the hub serves
(`Good`), and each operator on stores has a lemma: from a good store it makes a good
one (`ReadGood`, `ShelvedGood`, `ClaimedGood`, `FinishedGood` and so on), and keeps terminal
tasks as `TerminalStays` demands (`Moved`). Actions compose these lemmas, whatever
order the stretches come in. `Good` is, task by task, what the properties lack to be
inductive: a task and its `activeRuns` entry name runs of that task (`Referenced`), one
run of a task at a time has not ended (`OneOpen`, the unique index), a terminal task
names none (`AtRest`), and the run that a task names was claimed for the revision that
is approved (`Pledged`), which is why the second check of `runTask` may compare the
status and the run and leave the revision out. Since what is done to one task leaves
the others alone (`OneTask`), preservation is a matter of one task. A waiting
reconciliation may act on an old listing only because a terminal status in that
listing is still the task's, or the task is one of `past.overtaken`
(`Current`, which every stretch keeps). For `PauseHolds` the invariant adds that a pump which
outlived a pause is stale, and that a call to `runTask` under way during a pause has
no claim before it (`PumpHolds`).

`LimitKept` relates a number the pump computed once to the sessions of all tasks, some
awaits later. The runs that count are those the pump started and whose
session is wanted or at work (`Live`). `LimitInv` has three parts. `Lone`: a counted
session at work is named by the `activeRuns` entry of its task and is the only one of that
task. `Starts`: while the hub is up, an automated run that starts is the one the pump
awaits. `RoomHolds`: the live runs other than that one and the room left do not
exceed `MaxConcurrent`. When the pump reads the size of `activeRuns`, live runs map one
to one into the entries (`LiveEntered`), so the room it computes is not too large; from then on
stretches add no live run, and take an entry away only together with its session or its
task (`Gentle`), or at the end of that very run (`Parts`). `ConsentInv` is for
`AutomationNeedsConsent`: what a file wrote is marked as such while it is
pending, and a candidate of the listing whose task a file has written since has a greater
revision than the listed one, so that the approval, which compares
revisions, never hits it.

**Capability and approval requests** (`CapabilityProofs`). `IInv` joins the properties
to what makes them inductive, and each part rests on another. A socket that listens is
registered and not closed (`ListenersStand`), so a request published to listeners went out
only on sockets whose end will fail it; hence `SentStands`: as long as a request waits,
every socket it went out on is its owner's, registered and not closed. The end of
such a socket unregisters its client, which fails every request of that client, so the sockets that
cease to stand are those no waiting request went out on (`EndOfSocketInv`). A request that was
held is covered by its timer instead (`HeldTimed`). For `HeldMeansAway` the danger is registration:
it makes listeners of that client count that may have been served while it was
unregistered. There are none that are open, because a client has one open socket
(`OneOpen`) and the registering one does not listen yet. A subscription that is
not served yet does not count, and serving it hands over what is held (`OpenInv`). An
approval has been shown to a listener or is in the list of its microtask
(`ApprovalsShown`): it was waiting when the listener subscribed, and so was
listed, or it was published since, and went to the listener directly. The
actions that only end requests and approvals share one lemma (`EndingInv`), by which no
part of the invariant is disturbed when fewer of them wait.

## 5. Model-checked only

Every safety property of the runs is stated by a theorem, except
`LoopClaimsList`, because `ClaimLoop` uses a RECURSIVE operator. Liveness
(`StopCompletes`, `StaleExecutionEnds`, `DueRunsFinish`, `BacklogClears`,
`RunsEnd`, `RequestsEnd`) is only checked: the prover has no reasoning about fairness.
Conversely, `TerminalIsFinal`, `StaleOneOffNeverStarts`, `NothingAskedOfDetached` and
`HandedOverOnce` are proved and have no run: the runs check the stronger `ImplementsLeasedWork`
beside the first, and the other three follow more closely the single operations they are about.

Some theorems have hypotheses, and beyond them TLC's runs are the only evidence.
`NoDoubleExecution` with sleep and several runners, and `OneOffOnce` in several
processes, are false (section 6). `SessionsWithinLimits` and `StopReachesAll` with
sleep and several runners are not claimed. `DueOccurrenceKept` is proved for
recurring automation files; for instances with hub schedules or changes of kind it is not
claimed, for the reasons given in section 4.

## 6. Disagreements between code and documentation

1. **Two runners of one daemon after a sleep** (`sleep_two_runners`). The
   comment in `tick` (`cron-runner.ts` 260-262) says that polling renews locally
   active claims first "so a live session is not reclaimed and started a second
   time". That holds for one runner (`one_runner`). A daemon has two, over the same
   database: after a sleep the one that polls first reclaims the run the other
   is executing.
2. **A rescheduled one-off runs at once** (`early_one_off`). The end of an execution clears
   `next_run_at` without looking at the revision (`cron-runner.ts` 465 and 522).
   If the one-off was rescheduled meanwhile, materialization falls back to the
   current time (`cron-materializer.ts` 79), against
   `cron-materializer.test.ts` 58, "preserves a future run time when
   materializing a one-off spec".
3. **A one-off triggered by hand runs twice** (`one_off_two_processes`).
   `materializeOneOff` checks and inserts outside a transaction; a trigger in
   another process falls in between, and the unique index ignores manual runs,
   against `sqlite-cron-store.test.ts` 339 and `cron-materializer.test.ts` 51. The
   second run keeps the run time of the row its tick had listed
   (`cron-materializer.ts` 79), although the trigger has cleared `next_run_at` since;
   only a tick that listed the row before it had a run time (between the two
   statements of `createHubSchedule`) makes it due at once.
4. **The late close of a socket that has been replaced** (`late_close`). `onClose`
   sends `client.unregister` for the ids its socket registered (`browser-websocket.ts`
   484), and `client.unregister` works by id. When the client has reconnected before
   the hub notices the end of the old socket, the new one loses its registration and
   listeners and stays deaf, and the requests that went out on it fail as if their
   owner had left, against `capability-handlers.ts` 20-22, "so a brief socket drop
   doesn't end the run". `ui-events.test.ts` 157 avoids the order and names it.

`StaleOneOffNeverStarts` is claimed for one process only, for the same reason
as the third point: the stale insertion may also come after an edit made in
another process.

The four above are registered runs. The following came up while the other parts
were modelled; the models contain them, and the properties name what they except.

**Events.** `src/sdk/examples/cron/README.md` 144 ("Wait 2 minutes after a run before next
trigger") describes cooldown as a distance from a run; the code
measures it between the stamps of the triggering events
(`sqlite-cron-store.ts`, `hasRecentEventRunForSpec`), so a run queued long after its
event shortens it, and cancelled and failed runs suppress too. Debounce is looked at
before cooldown, so an extension is never suppressed: hence `Debounce[s] = 0` in
`RunsKeepDistance`.

**Run queue.** Where not told otherwise the lines are of `local-runtime-host.ts`.

1. Queued rows are pumped at a restart before any client has resumed its session, and
   fail with session_not_found (2849), against `hub-run-queue.ts` 11-12. This is why
   `RunsEnd` says that runs end, not that they are executed.
2. Two turns in preparation both find the agent free; the second is refused by the agent,
   and that failure shuts the whole session down (1272, 2000-2032).
3. Between the end of `agent.run` and the return of the turn the agent is free, so a later
   row overtakes a parked prompt, against `hub-run-queue.ts` 7. `RunsInOrder` is
   claimed while nobody but the queue uses the session.
4. `stopSession` during a preparation aborts nothing: the agent refuses the shutdown, the session is
   deleted, and the run goes on, against 2597.
5. An abort while idle leaves `aborting` set, which keeps prompts from being
   drained until the next turn ends, against 1324-1328. Overlapping turns reset the same
   flag, so that a timed-out turn may miss its abort, and the abort of a session that the
   host no longer holds reaches nobody: hence the two premises of `TimedOutIsStopped`,
   that no other turn of the object was open since the turn began, and that the object is
   still in the session map.
6. `requeueFront` serves only a session that is already gone; a failed turn's
   `sessions.delete` (2659) may delete the object of a session resumed meanwhile.
7. A graceful stop lets the executor fail the rows still queued
   (`hub-server-transport.ts` 768-808), which a crash would have kept.
8. The hub counts as idle while it works on the prompt of a run that was parked
   (`hub-server-transport.ts` 1362).
9. `run.enqueue` keeps the whole payload as the run's input, `execute` spreads it into the envelope
   (`run-queue-handlers.ts` 107-114), and `handleSessionInput` honours its `delivery`
   (`run-handlers.ts` 271-274). A run that says "queue" or "steer" is therefore parked
   also when the session is idle (1272-1308): its row is completed without a turn of its
   own, its prompt is lost by a crash, and the turn it gets in the drain may come after
   later runs or beside them, against `hub-run-queue.ts` 7, "One run executes at a time
   per session, in admission order". `RunsInOrder` excepts tables with such runs (`Listed`); the other
   properties include them.

**Agenda tasks.** Lines are of `agenda-task-manager.ts`.

1. A task that is approved again while its session starts (from failed, with a valid
   approval) fails `runTask`'s second check; the run is cancelled, and the task stays approved
   naming a run that ended, which no guard lets run again (716-744). Only an
   edit or a cancellation frees it.
2. A deleted task that is restored, approved and run again while its first agent
   winds down loses its `activeRuns` entry to that agent's end (878), so that the pump starts more
   than `maxConcurrentRuns`. `LimitKept` excepts such runs (`past.overlapping`).
   A second way came out of the attempt to prove `LimitKept`, and needs three tasks and four
   upsets: a task that a reconciliation took away while its agent works
   (archived, its `currentRunId` null, 1146-1164) is then cancelled. `cancelTask` deletes
   its `activeRuns` entry (655) but aborts the session of `currentRunId` only, so the agent goes on
   uncounted. `LimitKept` excepts tasks of `past.overtaken` too.
3. A reconciliation that waited for an abort goes on with rows it listed before (1127-1164):
   it archives a task that has started meanwhile, whose agent keeps working, and
   writes "deleted" over a task that has completed or was cancelled meanwhile,
   against `src/sdk/ARCHITECTURE.md`, by which terminal records remain terminal
   (`past.overtaken`).
4. A crash between the statement on a run and the one on its task leaves the task in
   progress, or approved, naming a run that ended; recovery lists only runs that
   have not ended (`past.torn`).
5. The last loop of `dispose` writes "failed" over a task cancelled, expired or deleted
   while its session started (342-356), the last exception of `TerminalStays`.
6. A spec that returns reopens its task also when the run had started before the deletion
   cancelled it (1074-1093).
7. The pump does not read the policy's generation again in its loop: a change
   during its last candidate waits for the maintenance timer (1265). A call that waits
   for a reconciliation may claim after a pause, once: hence the 1 in `PauseHolds`.

**Capability and approval requests.** A registered owner counts as connected
(`capability-handlers.ts` 106), but it subscribes a round trip later (`hub/client/index.ts` 487).
A request raised in between is published to nobody, is not kept for the subscription, and has no
timer; `boundary.test.ts` 2044 tests the case of an owner that is not registered yet. A
subscription that replays from a cursor recovers such a request; that of a restarted client has no
cursor. `Stray` names them, and `EveryWaitEnds` and `RequestsEnd` except them.
`session.attach` awaits the session record before
it clears the detach mark (`session-handlers.ts` 955), so an attach that began before a
detach may undo it. `handleRunAbort` cancels the approvals before the abort
(`run-handlers.ts` 339-352) and the capability requests after it: an approval whose
`requestToolApproval` was still reading the session is registered after that sweep and stays
pending although its run was aborted. The grace timer is not cleared when its request
is handed over; it finds the event taken and does nothing.

## 7. Plan

In this order:

1. `AgendaTasks`: liveness of the pump.
2. A statement of `DueOccurrenceKept` that is true with hub schedules (an occurrence
   may be dropped only by an edit that retimes), and its proof.
3. `TeamRuns`: dispatch, retries, cancellation.
4. Hub singleton, as far as it is not SQLite's own exclusion.

## 8. Not modelled

In the modelled components: report files, telemetry, names and timestamps
without effect on control; command-backed schedules; `requeueRun` (its guard
cannot be true in the stretch that claims); rows of unknown specs (rows are never
deleted); a failure of session cleanup itself (its time bound is
modelled); a session whose start answers after its execution was aborted (it is
cleaned up then, and does no work for the run); clock differences between
processes; a machine that sleeps in the middle of a synchronous stretch; SQL
errors and busy timeouts.

Events: the evaluation of filters and of spec files; retention of the log; what a
claimed run does. Run queue: edits of a waiting prompt's text; a second overlapping stop of
the same session object; `releaseSessionRuntime`; continuations of teams; rows of sessions that are never
resumed beyond their failure; a run rejected during a shutdown counts as ended.
Agenda tasks: several scopes and workspaces, specs that move between them, invalid specs and duplicate
ids; priorities, `availableAt`, hourly limit, chain depth and interactive clients
(section 2); events sent to clients.

Not modelled at all: agent teams and the hub singleton
(section 7); spec parsing, report writing, schedule tool and command
dispatch (data transformation); hub event log (single writer); connector supervisor;
the agent loop and the providers (their interface to the runner, a promise that may
resolve, reject or stay pending, is modelled); OAuth refresh lock (SQLite's mutual
exclusion); applications and views.
