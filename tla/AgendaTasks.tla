----------------------------- MODULE AgendaTasks -----------------------------
(***************************************************************************)
(* Agenda tasks: AgendaTaskManager, the only writer of task state in a     *)
(* hub, over tasks.db and the task files people edit.  The manager is one  *)
(* event loop: a step is the stretch of code between two awaits.  What it  *)
(* awaits is the start of a session, its end, and the abort of a session;  *)
(* commands, file changes and the automation pump come in between.         *)
(***************************************************************************)
EXTENDS Integers, Sequences, FiniteSets

CONSTANTS
  Tasks,
  MaxConcurrent,  \* maxConcurrentRuns of the automation policy
  MaxRevision,    \* bound: edits of a task
  MaxRuns,        \* bound: runs
  MaxUpsets       \* bound: edits, deletions, cancellations, pauses, crashes

ASSUME TasksAssumption == IsFiniteSet(Tasks)

ASSUME BoundsAssumption ==
  /\ MaxConcurrent \in Nat \ {0} /\ MaxRevision \in Nat
  /\ MaxRuns \in Nat /\ MaxUpsets \in Nat

VARIABLES
  task,     \* agenda_tasks
  rows,     \* agenda_task_runs; a run is its position
  file,     \* each task's spec, against its row
  late,     \* tasks whose expiresAt has passed
  hub,      \* the process: up, stopping (dispose waits) or down
  active,   \* activeRuns, None for no entry
  session,  \* of each run
  told,     \* sessions that were asked to abort
  closing,  \* runs that dispose waits for
  mode,     \* of the automation policy
  queued,   \* queuedAutomationScopes is not empty
  pump,     \* pumpAutomation
  sweep,    \* a reconciliation that waits for an abort
  upsets,
  past      \* history, for the properties only

vars == <<task, rows, file, late, hub, active, session, told, closing, mode,
          queued, pump, sweep, upsets, past>>
loopVars == <<late, hub, session, closing, mode, pump, sweep>>

None == 0
RunIds == 1 .. MaxRuns
Authors == {"user", "file", "auto", "hub"}

\* "deleted" is cancelled with the error "Task spec was deleted."
Statuses == {"absent", "pending_approval", "approved", "in_progress", "completed",
             "failed", "cancelled", "deleted", "expired"}
Terminal == {"completed", "cancelled", "deleted", "expired"}
Editable == {"pending_approval", "approved", "failed"}
TERMINAL_RUN_STATUSES == {"completed", "failed", "cancelled", "interrupted"}

\* ok is approvedRevision, run currentRunId, by updatedBy, made createdBy.
TaskRow ==
  [status: Statuses, rev: Nat, ok: Nat, run: Nat, by: Authors,
   made: {"user", "file"}, archived: BOOLEAN]

\* from is the status the task had when the run was claimed.
RunRow ==
  [task: Tasks, rev: Nat, status: {"starting", "running"} \cup TERMINAL_RUN_STATUSES,
   from: {"approved", "failed"}, auto: BOOLEAN]

Seen == [status: Statuses, rev: Nat]
IdleSweep == [on |-> FALSE]

IsListing(f) == DOMAIN f \subseteq Tasks /\ \A t \in DOMAIN f : f[t] \in Seen

IsSweep(w) ==
  \/ w = IdleSweep
  \/ /\ w.on /\ w.task \in Tasks /\ IsListing(w.rest)
     /\ w = [on |-> TRUE, task |-> w.task, rest |-> w.rest]

\* todo are the candidates left, as they were listed.
IdlePump ==
  [on |-> FALSE, stale |-> FALSE, room |-> 0, todo |-> [t \in {} |-> 0],
   call |-> "none", task |-> None, run |-> None]

IsPump(p) ==
  /\ p.on \in BOOLEAN /\ p.stale \in BOOLEAN /\ p.room \in Nat /\ IsListing(p.todo)
  /\ p.call \in {"none", "approve", "run"} /\ p.task \in Tasks \cup {None}
  /\ p.run \in Nat
  /\ p = [on |-> p.on, stale |-> p.stale, room |-> p.room, todo |-> p.todo,
          call |-> p.call, task |-> p.task, run |-> p.run]

TypeOK ==
  /\ task \in [Tasks -> TaskRow]
  /\ rows \in Seq(RunRow)
  /\ file \in [Tasks -> {"none", "same", "edited"}]
  /\ late \subseteq Tasks
  /\ hub \in {"up", "stopping", "down"}
  /\ active \in [Tasks -> Nat]
  /\ session \in [RunIds -> {"none", "starting", "working", "over"}]
  /\ told \subseteq RunIds
  /\ closing \subseteq RunIds
  /\ mode \in {"manual", "unattended"}
  /\ queued \in BOOLEAN
  /\ IsPump(pump)
  /\ IsSweep(sweep)
  /\ upsets \in Nat
  /\ past \in [overlapping: SUBSET RunIds, overtaken: SUBSET Tasks,
               torn: SUBSET Tasks, filed: SUBSET Tasks, claims: Nat]

NewTask(who) ==
  [status |-> "pending_approval", rev |-> 1, ok |-> 0, run |-> None,
   by |-> who, made |-> who, archived |-> FALSE]

Init ==
  /\ task = [t \in Tasks |-> [NewTask("user") EXCEPT !.status = "absent"]]
  /\ rows = <<>>
  /\ file = [t \in Tasks |-> "none"]
  /\ late = {}
  /\ hub = "up"
  /\ active = [t \in Tasks |-> None]
  /\ session = [r \in RunIds |-> "none"]
  /\ told = {} /\ closing = {}
  /\ mode \in {"manual", "unattended"}
  /\ queued = TRUE
  /\ pump = IdlePump
  /\ sweep = IdleSweep
  /\ upsets = 0
  /\ past = [overlapping |-> {}, overtaken |-> {}, torn |-> {}, filed |-> {},
             claims |-> 0]

-----------------------------------------------------------------------------
(* One stretch of code maps a store to a store *)

Now == [task |-> task, file |-> file, rows |-> rows, active |-> active,
        told |-> told, past |-> past]

Becomes(s) ==
  /\ task' = s.task /\ file' = s.file /\ rows' = s.rows
  /\ active' = s.active /\ told' = s.told /\ past' = s.past

Ended(s, r) == s.rows[r].status \in TERMINAL_RUN_STATUSES

\* updateRun, of a run that has not ended
EndRun(s, r, status) ==
  IF r = None \/ Ended(s, r) THEN s ELSE [s EXCEPT !.rows[r].status = status]

\* cancelTask, past its guards; only a linked session can be told.
Cancelled(s, t, status, who) ==
  LET r == s.task[t].run
  IN  [EndRun(s, r, "cancelled") EXCEPT
         !.active[t] = None,
         !.task[t] = [@ EXCEPT !.status = status, !.ok = 0, !.run = None, !.by = who],
         !.told = @ \cup {q \in {r} : q # None /\ session[q] = "working"}]

\* Deviation: a run that ended is not looked at.
FailedAnyway(s, r) ==
  LET t == s.rows[r].task
  IN  [s EXCEPT !.rows[r].status = "failed", !.active[t] = None,
                !.task[t].status = "failed", !.task[t].run = None]

\* finishRunFailure
Failed(s, r) ==
  LET t == s.rows[r].task
      f == EndRun(s, r, "failed")
  IN  IF Ended(s, r) THEN s
      ELSE IF s.task[t].status \in {"cancelled", "deleted"} THEN f
      ELSE IF s.task[t].run # r THEN [f EXCEPT !.active[t] = None]
      ELSE [f EXCEPT !.active[t] = None,
                     !.task[t] = [@ EXCEPT !.status = "failed", !.run = None,
                                           !.by = "hub"]]

\* expireTask, for each task of S
Expired(s, S) ==
  [s EXCEPT !.task = [t \in Tasks |->
     IF t \in S \cap late /\ s.task[t].status \in Editable /\ s.task[t].run = None
     THEN [s.task[t] EXCEPT !.status = "expired", !.ok = 0, !.by = "hub"]
     ELSE s.task[t]]]

-----------------------------------------------------------------------------
(* reconcileFileStore *)

\* updateTask
Revised(e, who) ==
  [e EXCEPT !.status = "pending_approval", !.rev = @ + 1, !.ok = 0,
            !.run = None, !.by = who]

\* A spec that is back brings its task back, and if only its deletion
\* had cancelled the task, for approval.
Restored(e) ==
  IF ~ e.archived THEN e
  ELSE IF e.status = "deleted"
       THEN [e EXCEPT !.status = "pending_approval", !.ok = 0, !.archived = FALSE,
                      !.by = "file"]
       ELSE [e EXCEPT !.archived = FALSE, !.by = "file"]

\* An edit of a task in progress waits, one of a late task is refused.
Applies(s, t) ==
  /\ s.file[t] = "edited" /\ t \notin late
  /\ Restored(s.task[t]).status \in Editable

\* The pass over the files: new tasks, tasks that are back, edits.
Read(s) ==
  LET New     == {t \in Tasks : s.file[t] # "none" /\ s.task[t].status = "absent"}
      Edits   == {t \in Tasks \ New : Applies(s, t)}
      Refused == {t \in Tasks : /\ s.file[t] = "edited"
                                /\ Restored(s.task[t]).status \in Terminal}
  IN  [s EXCEPT
         !.task = [t \in Tasks |->
           IF s.file[t] = "none" THEN s.task[t]
           ELSE IF t \in New THEN NewTask("file")
           ELSE IF t \in Edits THEN Revised(Restored(s.task[t]), "file")
           ELSE Restored(s.task[t])],
         !.file = [t \in Tasks |->
           IF t \in New \cup Edits \cup Refused THEN "same" ELSE s.file[t]],
         !.past.filed = @ \cup New \cup Edits]

\* The rows without a spec, as listed after that pass.
Missing(s) ==
  {t \in Tasks : /\ s.file[t] = "none" /\ s.task[t].status # "absent"
                 /\ ~ s.task[t].archived}

Listed(s) ==
  [t \in Missing(s) |-> [status |-> s.task[t].status, rev |-> s.task[t].rev]]

\* What is written is decided by the row as it was listed.
Shelved(s, seen) ==
  [s EXCEPT
     !.task = [t \in Tasks |->
       IF t \notin DOMAIN seen THEN s.task[t]
       ELSE [s.task[t] EXCEPT
               !.status = IF seen[t].status \in Terminal THEN seen[t].status ELSE "deleted",
               !.ok = 0, !.run = None, !.by = "file", !.archived = TRUE]],
     !.past.overtaken = @ \cup
       {t \in DOMAIN seen : s.task[t].status \notin {seen[t].status, "deleted"}}]

\* Listed as in progress, and not cancelled yet.
Running(s, seen) ==
  {t \in DOMAIN seen : /\ seen[t].status = "in_progress"
                       /\ s.task[t].status \notin {"cancelled", "deleted"}}

Without(f, S) == [t \in DOMAIN f \ S |-> f[t]]
Only(f, S) == [t \in DOMAIN f \cap S |-> f[t]]

\* The pass over the rows: a task in progress is cancelled first, and the
\* rest of the list waits for its abort.
Sweep(s, seen) ==
  IF Running(s, seen) = {}
  THEN Becomes(Shelved(s, seen)) /\ sweep' = IdleSweep
  ELSE \E t \in Running(s, seen) :
       \E before \in SUBSET (DOMAIN seen \ Running(s, seen)) :
         LET b == Shelved(s, Only(seen, before))
         IN  IF /\ hub = "up" /\ s.task[t].rev = seen[t].rev
                /\ s.task[t].status \notin {"completed", "expired"}
             THEN /\ Becomes(Cancelled(b, t, "deleted", "file"))
                  /\ sweep' = [on |-> TRUE, task |-> t,
                               rest |-> Without(seen, before \cup {t})]
             ELSE Becomes(b) /\ sweep' = IdleSweep

\* A reconciliation from s; at most one waits at a time.
Reconciles(s) ==
  LET f == Read(s)
      seen == Listed(f)
  IN  IF sweep.on
      THEN /\ Running(f, seen) = {}
           /\ Becomes(Shelved(f, seen))
           /\ UNCHANGED sweep
      ELSE Sweep(f, seen)

\* A command that reconciles first, when that does not wait; when it does,
\* it is told as Reconcile and a later command.
Settled(s) == LET f == Read(s) IN Running(f, Listed(f)) = {}
Reconciled(s) == LET f == Read(s) IN Shelved(f, Listed(f))

-----------------------------------------------------------------------------
(* Commands *)

Upset == upsets < MaxUpsets /\ upsets' = upsets + 1

\* A client's command makes an approved task, an agent's tool a pending one.
Asked(approved) ==
  IF approved THEN [NewTask("user") EXCEPT !.status = "approved", !.ok = 1]
              ELSE NewTask("user")

\* createTask; here and below s is what the reconciliation has made.
Create(s, t) ==
  /\ s.task[t].status = "absent" /\ s.file[t] = "none"
  /\ \E approved \in BOOLEAN :
       Becomes([s EXCEPT !.task[t] = Asked(approved), !.file[t] = "same"])
  /\ queued' = TRUE
  /\ UNCHANGED <<loopVars, upsets>>

\* updateTask of a user; the spec must be the one the row was read from.
Update(s, t) ==
  /\ Upset
  /\ s.task[t].rev = task[t].rev /\ s.task[t].rev < MaxRevision
  /\ s.task[t].status \in Editable
  /\ t \notin late
  /\ s.file[t] = "same"
  /\ Becomes([s EXCEPT !.task[t] = Revised(@, "user"), !.past.filed = @ \ {t}])
  /\ queued' = TRUE
  /\ UNCHANGED loopVars

\* Deviation: the revision is not compared.
VerifiedAnyRevision(s, t, rev) ==
  ~ s.task[t].archived /\ s.file[t] = "same" /\ t \notin late

\* refreshAndVerifyTaskIntent, assertRevision and the expiry
Verified(s, t, rev) ==
  /\ ~ s.task[t].archived /\ s.file[t] = "same"
  /\ s.task[t].rev = rev
  /\ t \notin late

MayApprove(s, t, rev) ==
  Verified(s, t, rev) /\ s.task[t].status \in {"pending_approval", "failed"}

\* There is nothing to approve.
StandsApproved(s, t, rev) ==
  Verified(s, t, rev) /\ s.task[t].status = "approved" /\ s.task[t].ok = rev

Approved(s, t, who) ==
  [s EXCEPT !.task[t] = [@ EXCEPT !.status = "approved", !.ok = s.task[t].rev, !.by = who]]

\* approveTask, of the revision shown
Approve(s, t) ==
  /\ MayApprove(s, t, task[t].rev)
  /\ Becomes(Approved(s, t, "user"))
  /\ queued' = TRUE
  /\ UNCHANGED <<loopVars, upsets>>

\* cancelTask
Cancel(t) ==
  /\ hub = "up" /\ Upset
  /\ task[t].status \in Editable \cup {"in_progress"}
  /\ Becomes(Cancelled(Now, t, "cancelled", "user"))
  /\ UNCHANGED <<loopVars, queued>>

\* The guards of runTask, and the unique index on runs that have not ended.
MayRun(s, t, rev) ==
  /\ Verified(s, t, rev)
  /\ s.task[t].status \in {"approved", "failed"}
  /\ s.task[t].ok = s.task[t].rev
  /\ s.active[t] = None /\ s.task[t].run = None
  /\ \A r \in DOMAIN s.rows : s.rows[r].task = t => Ended(s, r)

Winding(t) ==
  \E r \in DOMAIN rows : rows[r].task = t /\ session[r] \in {"starting", "working"}

\* History: the claim of r, perhaps while an older session winds down.
Counted(p, t, r, who) ==
  [p EXCEPT !.overlapping = @ \cup {q \in {r} : Winding(t)},
            !.claims = IF who = "auto" /\ mode = "manual" THEN @ + 1 ELSE @]

\* runTask up to its wait for the session
Claimed(s, t, who) ==
  LET r == Len(s.rows) + 1
  IN  [s EXCEPT
         !.rows = Append(@, [task |-> t, rev |-> s.task[t].rev, status |-> "starting",
                             from |-> s.task[t].status, auto |-> who = "auto"]),
         !.task[t] = [@ EXCEPT !.run = r, !.by = who],
         !.active[t] = r,
         !.past = Counted(@, t, r, who)]

StartsSession == session' = [session EXCEPT ![Len(rows) + 1] = "starting"]

Run(s, t) ==
  /\ Len(rows) < MaxRuns
  /\ MayRun(s, t, task[t].rev)
  /\ Becomes(Claimed(s, t, "user"))
  /\ StartsSession
  /\ queued' = TRUE
  /\ UNCHANGED <<late, hub, closing, mode, pump, sweep, upsets>>

\* setAutomationPolicy: a new generation
SetPolicy ==
  /\ hub = "up" /\ Upset
  /\ mode' = IF mode = "manual" THEN "unattended" ELSE "manual"
  /\ pump' = IF pump.on THEN [pump EXCEPT !.stale = TRUE] ELSE pump
  /\ queued' = TRUE
  /\ past' = [past EXCEPT !.claims = 0]
  /\ UNCHANGED <<task, file, rows, active, told, late, hub, session,
                 closing, sweep>>

\* Lists and reads reconcile; so does a watcher.
Reconcile ==
  /\ hub = "up" /\ Reconciles(Now)
  /\ queued' = (queued \/ sweep' = sweep \/ ~ sweep'.on)
  /\ UNCHANGED <<late, hub, session, closing, mode, pump, upsets>>

\* The abort is over: the rest of the reconciliation.
Resume ==
  /\ sweep.on /\ hub # "down"
  /\ LET p == [q \in {sweep.task} |-> [status |-> "deleted", rev |-> task[q].rev]]
     IN  Sweep(Shelved(Now, p), sweep.rest)
  /\ queued' = (queued \/ (hub = "up" /\ ~ sweep'.on))
  /\ UNCHANGED <<late, hub, session, closing, mode, pump, upsets>>

\* The maintenance timer, and the expiry of what a list or a read finds.
Maintain ==
  /\ hub = "up"
  /\ \E S \in SUBSET late : Becomes(Expired(Now, S))
  /\ queued' = TRUE
  /\ UNCHANGED <<loopVars, upsets>>

-----------------------------------------------------------------------------
(* The life of a run *)

\* Deviation: the loop does not end at the last place.
PumpAfterAll(r, started) ==
  IF pump.run # r THEN pump
  ELSE [pump EXCEPT !.run = None, !.room = IF started THEN @ - 1 ELSE @]

\* The pump that waits for this start goes on.
PumpAfter(r, started) ==
  IF pump.run # r THEN pump
  ELSE LET room == IF started THEN pump.room - 1 ELSE pump.room
       IN  [pump EXCEPT !.run = None, !.room = room,
                        !.todo = IF room = 0 THEN IdlePump.todo ELSE @]

\* Deviation: only a run that ended is noticed.
StartStandsUnlessEnded(r) == ~ Ended(Now, r)

StartStands(r) ==
  LET t == rows[r].task
  IN  ~ Ended(Now, r) /\ task[t].status = rows[r].from /\ task[t].run = r

\* runTask after startSession, and finishRun up to its wait
StartReturns(r) ==
  LET t == rows[r].task
  IN  /\ hub # "down" /\ session[r] = "starting"
      /\ IF StartStands(r)
         THEN /\ Becomes([Now EXCEPT !.rows[r].status = "running",
                                     !.task[t].status = "in_progress",
                                     !.active[t] = r])
              /\ session' = [session EXCEPT ![r] = "working"]
         ELSE /\ Becomes([EndRun(Now, r, "cancelled") EXCEPT !.active[t] = None])
              /\ session' = [session EXCEPT ![r] = "over"]
      /\ pump' = PumpAfter(r, StartStands(r))
      /\ UNCHANGED <<late, hub, closing, mode, queued, sweep, upsets>>

StartFails(r) ==
  /\ hub # "down" /\ session[r] = "starting"
  /\ Becomes(Failed(Now, r))
  /\ session' = [session EXCEPT ![r] = "over"]
  /\ pump' = PumpAfter(r, FALSE)
  /\ UNCHANGED <<late, hub, closing, mode, queued, sweep, upsets>>

\* Deviation: a run that ended meanwhile is not noticed.
FinishedAnyway(s, r, result) ==
  LET t == s.rows[r].task
  IN  IF result = "completed"
        THEN [EndRun(s, r, "completed") EXCEPT
                !.task[t].status = "completed", !.task[t].run = None,
                !.task[t].by = "hub"]
      ELSE Failed(s, r)

\* finishRun after runSession: what it makes of the result
Finished(s, r, result) ==
  LET t == s.rows[r].task
      e == s.task[t]
  IN  IF Ended(s, r) THEN s
      ELSE IF result = "completed"
        THEN [EndRun(s, r, "completed") EXCEPT
                !.task[t] = [@ EXCEPT !.status = "completed", !.run = None,
                                      !.by = "hub"]]
      ELSE IF result = "cancelled" /\ hub = "up" /\ e.rev = s.rows[r].rev
              /\ e.status \notin {"completed", "expired"}
        THEN IF e.status \in {"cancelled", "deleted"} THEN s
             ELSE Cancelled(s, t, "cancelled", "hub")
      ELSE Failed(s, r)

\* ... and its finally
RunEnds(r, result) ==
  LET t == rows[r].task
      s == [Finished(Now, r, result) EXCEPT !.active[t] = None, !.told = @ \ {r}]
  IN  /\ hub # "down" /\ session[r] = "working"
      /\ session' = [session EXCEPT ![r] = "over"]
      /\ IF hub = "up" THEN Reconciles(s) ELSE Becomes(s) /\ UNCHANGED sweep
      /\ queued' = (queued \/ hub = "up")
      /\ UNCHANGED <<late, hub, closing, mode, pump, upsets>>

-----------------------------------------------------------------------------
(* pumpAutomation *)

\* canAutomaticallyApprove
CanAutomaticallyApprove(t) == task[t].made # "file" /\ task[t].by # "file"

Candidates(s) ==
  {t \in Tasks : /\ ~ s.task[t].archived
                 /\ \/ s.task[t].status = "approved"
                    \/ s.task[t].status = "pending_approval" /\ CanAutomaticallyApprove(t)}

\* Deviation: entries are not counted.
CapacityOfPolicy == MaxConcurrent

Capacity ==
  LET busy == Cardinality({t \in Tasks : active[t] # None})
  IN  IF busy < MaxConcurrent THEN MaxConcurrent - busy ELSE 0

PumpIdle == pump.call = "none" /\ pump.run = None

\* The next scope of the loop, or the start of one; the generation is read
\* only at the start.  Without a candidate to try the loop ends at once.
PumpScope ==
  LET s == Expired(Now, Tasks)
      todo == [t \in Candidates(s) |->
                 [status |-> s.task[t].status, rev |-> s.task[t].rev]]
  IN  /\ hub = "up" /\ queued /\ PumpIdle /\ DOMAIN pump.todo = {}
      /\ IF mode = "manual" THEN Becomes(Now) ELSE Becomes(s)
      /\ IF mode = "manual" \/ Capacity = 0 \/ DOMAIN todo = {} \/ pump.stale
         THEN pump' = IdlePump
         ELSE pump' = [pump EXCEPT !.on = TRUE, !.room = Capacity, !.todo = todo]
      /\ queued' = FALSE
      /\ UNCHANGED <<late, hub, session, closing, mode, sweep, upsets>>

\* A changed policy ends the loop, as does the last candidate.
PumpEnd ==
  /\ pump.on /\ PumpIdle
  /\ IF DOMAIN pump.todo = {} THEN ~ queued ELSE pump.stale
  /\ pump' = IdlePump
  /\ UNCHANGED <<task, file, rows, active, told, past, late, hub, session, closing,
                 mode, queued, sweep, upsets>>

Tried(t) == [pump EXCEPT !.todo = Without(@, {t}), !.call = "none", !.task = None]

\* runTask from s, or its refusal
PumpRuns(s, t, rev) ==
  IF MayRun(s, t, rev)
  THEN /\ Len(rows) < MaxRuns
       /\ Becomes(Claimed(s, t, "auto"))
       /\ StartsSession
       /\ pump' = [Tried(t) EXCEPT !.run = Len(rows) + 1]
  ELSE Becomes(s) /\ UNCHANGED session /\ pump' = Tried(t)

\* Deviation: the generation is read but not compared.
MayTryAlways(t) == pump.on /\ PumpIdle /\ t \in DOMAIN pump.todo

MayTry(t) == pump.on /\ PumpIdle /\ t \in DOMAIN pump.todo /\ ~ pump.stale

\* One candidate: approveTask if it is pending, then runTask.
PumpTries(t) ==
  /\ hub = "up" /\ MayTry(t) /\ Settled(Now)
  /\ LET s    == Reconciled(Now)
         seen == pump.todo[t]
         approve == seen.status = "pending_approval"
     IN  /\ PumpRuns(IF approve /\ MayApprove(s, t, seen.rev)
                     THEN Approved(s, t, "auto") ELSE s, t, seen.rev)
         /\ queued' = TRUE
  /\ UNCHANGED <<late, hub, closing, mode, sweep, upsets>>

\* The call has to wait for a reconciliation.
PumpWaits(t) ==
  /\ hub = "up" /\ MayTry(t) /\ ~ Settled(Now)
  /\ Reconciles(Now)
  /\ pump' = [pump EXCEPT
                !.task = t,
                !.call = IF pump.todo[t].status = "pending_approval"
                         THEN "approve" ELSE "run"]
  /\ UNCHANGED <<late, hub, session, closing, mode, queued, upsets>>

\* The call goes on; after an approval the generation is compared again.
PumpResumes(t) ==
  /\ hub = "up" /\ pump.call # "none" /\ pump.task = t /\ ~ sweep.on
  /\ LET rev == pump.todo[t].rev
     IN  \/ /\ pump.call = "approve"
            /\ IF MayApprove(Now, t, rev)
               THEN Becomes(Approved(Now, t, "auto")) /\ queued' = TRUE
               ELSE Becomes(Now) /\ UNCHANGED queued
            /\ pump' = IF MayApprove(Now, t, rev) \/ StandsApproved(Now, t, rev)
                       THEN [pump EXCEPT !.call = "none", !.task = None,
                                         !.todo[t].status = "approved"]
                       ELSE Tried(t)
            /\ UNCHANGED session
         \/ /\ pump.call = "run"
            /\ PumpRuns(Now, t, rev)
            /\ UNCHANGED queued
  /\ UNCHANGED <<late, hub, closing, mode, sweep, upsets>>

-----------------------------------------------------------------------------
(* dispose, crashes and start *)

\* dispose up to its wait
Stop ==
  /\ hub = "up" /\ Upset
  /\ hub' = "stopping"
  /\ told' = told \cup {r \in RunIds : /\ session[r] = "working"
                                       /\ \E t \in Tasks : active[t] = r}
  /\ closing' = {r \in RunIds : session[r] = "working"}
  /\ pump' = IdlePump /\ queued' = FALSE
  /\ UNCHANGED <<task, file, rows, active, past, late, session, mode, sweep>>

Dies ==
  /\ hub' = "down"
  /\ session' = [r \in RunIds |-> IF r \in DOMAIN rows' THEN "over" ELSE "none"]
  /\ active' = [t \in Tasks |-> None]
  /\ told' = {} /\ closing' = {}
  /\ pump' = IdlePump /\ queued' = FALSE /\ sweep' = IdleSweep
  /\ UNCHANGED <<file, late, mode>>

\* ... and its end: what is still entered is interrupted.
Stopped ==
  LET left == {active[t] : t \in Tasks} \ {None}
  IN  /\ hub = "stopping"
      /\ \A r \in closing : session[r] = "over"
      /\ rows' = [r \in DOMAIN rows |->
                    IF r \in left THEN [rows[r] EXCEPT !.status = "interrupted"]
                    ELSE rows[r]]
      /\ task' = [t \in Tasks |->
                    IF active[t] = None THEN task[t]
                    ELSE [task[t] EXCEPT !.status = "failed", !.run = None,
                                         !.by = "hub"]]
      /\ Dies
      /\ UNCHANGED <<upsets, past>>

Crash ==
  /\ hub # "down" /\ Upset
  /\ UNCHANGED <<task, rows, past>>
  /\ Dies

\* A crash between the statement on the run and the one on its task.
LastWords(r) ==
  (IF hub = "up" /\ task[rows[r].task].run = r THEN {"cancelled"} ELSE {}) \cup
  (CASE session[r] = "working"  -> {"completed", "failed"}
     [] session[r] = "starting" ->
          {"failed"} \cup (IF StartStands(r) THEN {"running"} ELSE {"cancelled"})
     [] OTHER -> IF hub = "down" THEN {"interrupted"} ELSE {})

CrashMidway(r) ==
  /\ Upset /\ ~ Ended(Now, r)
  /\ \E status \in LastWords(r) :
       /\ rows' = [rows EXCEPT ![r].status = status]
       /\ past' = IF status = "running" THEN past
                  ELSE [past EXCEPT !.torn = @ \cup {rows[r].task}]
  /\ UNCHANGED task
  /\ Dies

\* The same, for a claim: the task does not name its run.
CrashInClaim(t) ==
  /\ hub = "up" /\ Upset /\ Len(rows) < MaxRuns
  /\ MayRun(Now, t, task[t].rev)
  /\ rows' = Claimed(Now, t, "user").rows
  /\ UNCHANGED <<task, past>>
  /\ Dies

\* Deviation: a task in progress stays in progress.
RecoveredInPlace(t, r) ==
  LET e == task[t]
  IN  IF rows[r].status = "running" THEN e
      ELSE [e EXCEPT !.status = "approved", !.run = None]

\* recoverInterruptedRuns, for a task that names r
Recovered(t, r) ==
  LET e == task[t]
      asleep == [e EXCEPT !.run = None, !.by = "hub"]
  IN  IF e.status \in Terminal THEN [e EXCEPT !.run = None]
      ELSE IF rows[r].status = "running" THEN [asleep EXCEPT !.status = "failed"]
      ELSE IF e.ok = rows[r].rev /\ e.rev = rows[r].rev /\ t \notin late
        THEN [asleep EXCEPT !.status = "approved"]
      ELSE [asleep EXCEPT !.status = "pending_approval", !.ok = 0]

\* start: recovery, reconciliation, expiry
Restart ==
  LET s == [Now EXCEPT
              !.rows = [r \in DOMAIN rows |->
                 IF Ended(Now, r) THEN rows[r]
                 ELSE [rows[r] EXCEPT !.status = "interrupted"]],
              !.task = [t \in Tasks |->
                 IF task[t].run = None \/ Ended(Now, task[t].run) THEN task[t]
                 ELSE Recovered(t, task[t].run)]]
  IN  /\ hub = "down"
      /\ hub' = "up"
      /\ IF Settled(s) THEN Becomes(Expired(Reconciled(s), Tasks)) /\ UNCHANGED sweep
                       ELSE Sweep(Read(s), Listed(Read(s)))
      /\ queued' = TRUE
      /\ UNCHANGED <<late, session, closing, mode, pump, upsets>>

-----------------------------------------------------------------------------
(* Surroundings: people edit and delete specs, and time passes *)

Touch(t, content) ==
  /\ Upset
  /\ file' = [file EXCEPT ![t] = content]
  /\ UNCHANGED <<task, rows, active, told, past, loopVars, queued>>

EditFile(t) ==
  /\ task[t].rev < MaxRevision /\ file[t] # "edited"
  /\ Touch(t, "edited")

DeleteFile(t) == file[t] # "none" /\ Touch(t, "none")

PutBack(t) == file[t] = "none" /\ task[t].status # "absent" /\ Touch(t, "same")

Lapse(t) ==
  /\ Upset /\ t \notin late /\ task[t].status # "absent"
  /\ late' = late \cup {t}
  /\ UNCHANGED <<task, file, rows, active, told, past, hub, session, closing, mode,
                 queued, pump, sweep>>

Command ==
  LET s == Reconciled(Now)
  IN  /\ hub = "up" /\ Settled(Now)
      /\ \E t \in Tasks : Create(s, t) \/ Update(s, t) \/ Approve(s, t) \/ Run(s, t)
StartAnswers == \E r \in DOMAIN rows : StartReturns(r) \/ StartFails(r)
AgentEnds ==
  \E r \in DOMAIN rows, result \in {"completed", "cancelled", "failed"} :
    RunEnds(r, result)
PumpStep ==
  \/ PumpScope
  \/ PumpEnd
  \/ \E t \in Tasks : PumpTries(t) \/ PumpWaits(t) \/ PumpResumes(t)
Outage ==
  \/ Stop
  \/ Crash
  \/ \E r \in DOMAIN rows : CrashMidway(r)
  \/ \E t \in Tasks : CrashInClaim(t)
World == \E t \in Tasks : EditFile(t) \/ DeleteFile(t) \/ PutBack(t) \/ Lapse(t)

Next ==
  \/ Command
  \/ \E t \in Tasks : Cancel(t)
  \/ SetPolicy
  \/ Reconcile
  \/ Resume
  \/ Maintain
  \/ StartAnswers
  \/ AgentEnds
  \/ PumpStep
  \/ Outage
  \/ Stopped
  \/ Restart
  \/ World

Spec == Init /\ [][Next]_vars

-----------------------------------------------------------------------------
(* Properties *)

\* An agent that was not told to stop works for the run its task names, on
\* the revision that is approved: an edit, a cancellation or a deletion that
\* comes while a session starts keeps it from working (runTask, after
\* startSession).  Only a reconciliation that works from an old listing
\* takes a task away from under its agent.
WorkIsApproved ==
  \A r \in DOMAIN rows :
    LET t == rows[r].task
    IN  session[r] = "working" /\ r \notin told /\ t \notin past.overtaken =>
          /\ task[t].status = "in_progress" /\ task[t].run = r
          /\ rows[r].status = "running"
          /\ rows[r].rev = task[t].rev /\ task[t].ok = task[t].rev

\* The pump keeps maxConcurrentRuns for what it starts, though it reads the
\* size of activeRuns long before it starts the last candidate.  A run
\* claimed while an older session of its task winds down is not counted:
\* the end of that session deletes the newer entry (finishRun).  Nor is one
\* whose task a reconciliation took away: a cancellation of that task deletes
\* its entry and tells nobody (cancelTask).
LimitKept ==
  Cardinality({r \in DOMAIN rows :
                 /\ rows[r].auto /\ session[r] = "working"
                 /\ r \notin told \cup past.overlapping
                 /\ rows[r].task \notin past.overtaken}) <= MaxConcurrent

\* After a pause the pump claims at most the one task whose runTask was
\* under way: the generation is compared before every call.
PauseHolds == past.claims <= 1

\* While a hub is up, a run that has not ended has a session, whatever crash
\* came before (recoverInterruptedRuns), and a task in progress has such a
\* run, unless a crash fell between the statement on a run and the one on its
\* task: such a task stays in progress after recovery.
ProgressIsBacked ==
  hub # "down" =>
    /\ \A r \in DOMAIN rows :
         \/ Ended(Now, r) \/ session[r] \in {"starting", "working"}
         \/ rows[r].task \in past.overtaken
    /\ \A t \in Tasks \ past.torn :
         task[t].status = "in_progress" =>
           task[t].run # None /\ rows[task[t].run].status = "running"

\* A completed task was completed by a run of its present revision, whatever
\* was edited while sessions started or ended.
CompletedMeansDone ==
  \A t \in Tasks \ (past.torn \cup past.overtaken) :
    task[t].status = "completed" =>
      \E r \in DOMAIN rows :
        /\ rows[r].task = t /\ rows[r].status = "completed"
        /\ rows[r].rev = task[t].rev

\* Automation never approves what a raw file change wrote, also when the
\* file changes between the listing of a candidate and its approval.
AutomationNeedsConsent ==
  [][\A t \in past'.filed :
       task'[t].ok # 0 /\ task'[t].ok # task[t].ok => task'[t].by # "auto"]_vars

\* Terminal tasks stay terminal, whatever their files, runs and sessions do.
\* What reopens one: the return of a deleted spec, and a stop of the hub that
\* finds an entry of a session still starting (dispose).
TerminalStays ==
  [][\A t \in Tasks \ past'.overtaken :
       task[t].status \in Terminal =>
         \/ task'[t].status = task[t].status
         \/ task[t].status = "deleted" /\ file[t] # "none"
         \/ hub = "stopping" /\ active[t] # None]_vars
===============================================================================
