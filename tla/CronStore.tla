----------------------------- MODULE CronStore -----------------------------
(***************************************************************************)
(* The rows of cron.db and what each statement or transaction of           *)
(* SqliteCronStore does to them, as operators on one specification row     *)
(* (cron_specs) or on the whole sequence of run rows (cron_runs, in rowid  *)
(* order).  CronAutomation says which process issues which of them, and    *)
(* when.                                                                   *)
(*                                                                         *)
(* Times are natural numbers of a coarse unit; NoTime stands for SQL NULL. *)
(***************************************************************************)
EXTENDS Integers, FiniteSets, Sequences

CONSTANTS
  Specs,        \* automations the model may store (source paths)
  Prompts,      \* contents an automation may have, timing apart
  Concurrency,  \* globalMaxConcurrency of every runner
  MaxParallel,  \* max_parallel of each spec
  LeaseLen,     \* claimLeaseMs, in time units
  Period        \* distance between two occurrences of the cron pattern

ASSUME ConcurrencyAssumption == Concurrency \in Nat \ {0}
ASSUME MaxParallelAssumption == MaxParallel \in [Specs -> Nat \ {0}]
ASSUME LeaseAssumption == LeaseLen \in Nat \ {0}
ASSUME PeriodAssumption == Period \in Nat \ {0}

NoTime == -1
NoToken == 0
OptTime == Nat \cup {NoTime}

\* The limit of one claimDueRuns transaction.
ClaimLimit == 25

SpecKinds == {"one_off", "schedule"}
RunKinds == {"one_off", "schedule", "manual"}
RunStatuses == {"queued", "running", "done", "failed", "cancelled"}
Terminal == {"done", "failed", "cancelled"}

(***************************************************************************)
(* What an author last submitted for a spec: the part of the row that      *)
(* sourceHash covers.  valid is parse_status = 'valid'.                    *)
(***************************************************************************)
Definition ==
  [kind: SpecKinds, prompt: Prompts, runAt: OptTime, enabled: BOOLEAN,
   valid: BOOLEAN]

\* revision = 0: the table has no row for this spec.
SpecRow ==
  [source: Definition, enabled: BOOLEAN, removed: BOOLEAN, revision: Nat,
   nextRunAt: OptTime]

RunRow ==
  [spec: Specs, revision: Nat, kind: RunKinds, status: RunStatuses,
   scheduledFor: Nat, token: Nat, until: OptTime, attempts: Nat]

-----------------------------------------------------------------------------
(* Specification rows *)

\* Deviation: the occurrence before t, which can lie before the epoch.
PreviousCronTime(t) == Period * (t \div Period - 1)

\* getNextCronTime: the first occurrence strictly after t.
NextCronTime(t) == Period * (t \div Period + 1)

Runnable(row) ==
  /\ row.revision > 0
  /\ row.enabled
  /\ ~row.removed
  /\ row.source.valid

\* hasMeaningfulChange; runAt counts only when a one-off is involved.
MeaningfulChange(row, def) ==
  \/ row.source.kind # def.kind
  \/ row.source.prompt # def.prompt
  \/ /\ "one_off" \in {row.source.kind, def.kind}
     /\ row.source.runAt # def.runAt
  \/ /\ ~row.enabled
     /\ def.valid
     /\ def.enabled

UpsertSpec(row, def) ==
  LET hashChanged == row.source # def
      revisionChanged ==
        \/ row.revision = 0
        \/ hashChanged /\ MeaningfulChange(row, def)
  IN  [source |-> def,
       enabled |-> def.valid /\ def.enabled,
       removed |-> FALSE,
       revision |-> IF revisionChanged THEN row.revision + 1 ELSE row.revision,
       nextRunAt |-> row.nextRunAt]

\* initializeHubScheduleNextRun, at time t.
InitNextRun(row, t) ==
  [row EXCEPT !.nextRunAt =
     IF ~row.source.enabled THEN NoTime
     ELSE IF row.source.kind = "one_off" THEN row.source.runAt
     ELSE NextCronTime(t)]

\* Deviation: every reconciliation recomputes the next occurrence.
ApplyNextRunAlways(row, forceReset, t) ==
  IF Runnable(row) /\ row.source.kind = "schedule"
  THEN [row EXCEPT !.nextRunAt = NextCronTime(t)]
  ELSE row

\* applyScheduleNextRunAt after reconcileFile, at time t.
ApplyNextRun(row, forceReset, t) ==
  IF /\ Runnable(row)
     /\ row.source.kind = "schedule"
     /\ forceReset \/ row.nextRunAt = NoTime
  THEN [row EXCEPT !.nextRunAt = NextCronTime(t)]
  ELSE row

MarkRemoved(row) == [row EXCEPT !.removed = TRUE, !.enabled = FALSE]

-----------------------------------------------------------------------------
(* Run rows *)

NewRun(s, revision, kind, at) ==
  [spec |-> s, revision |-> revision, kind |-> kind, status |-> "queued",
   scheduledFor |-> at, token |-> NoToken, until |-> NoTime, attempts |-> 0]

QueuedOf(rs, s) ==
  {i \in DOMAIN rs : rs[i].spec = s /\ rs[i].status = "queued"}

QueuedOneOffsOf(rs, s) == {i \in QueuedOf(rs, s) : rs[i].kind = "one_off"}

\* Deviation: only occurrences of one revision replace each other.
SupersededInRevision(rs) ==
  {i \in DOMAIN rs :
     /\ rs[i].status = "queued"
     /\ rs[i].kind = "schedule"
     /\ \E j \in QueuedOf(rs, rs[i].spec) :
          /\ rs[j].kind = "schedule"
          /\ rs[j].revision = rs[i].revision
          /\ rs[j].scheduledFor > rs[i].scheduledFor}

\* Queued occurrences that a newer queued occurrence of their spec replaces.
Superseded(rs) ==
  {i \in DOMAIN rs :
     /\ rs[i].status = "queued"
     /\ rs[i].kind = "schedule"
     /\ \E j \in QueuedOf(rs, rs[i].spec) :
          /\ rs[j].kind = "schedule"
          /\ rs[j].scheduledFor > rs[i].scheduledFor}

CancelRuns(rs, I) ==
  [i \in DOMAIN rs |->
     IF i \in I THEN [rs[i] EXCEPT !.status = "cancelled"] ELSE rs[i]]

\* The runs that consume a one-off: of this revision, whatever their status.
ConsumingRuns(rs, s, revision) ==
  {i \in DOMAIN rs :
     /\ rs[i].spec = s
     /\ rs[i].revision = revision
     /\ rs[i].kind \in {"one_off", "manual"}}

\* The unique index on (spec_id, spec_revision) for one_off runs.
OneOffIndexed(rs, s, revision) ==
  \E i \in ConsumingRuns(rs, s, revision) : rs[i].kind = "one_off"

\* The occurrence a schedule row yields at time t, if it is due ...
OccurrenceDue(row, t) ==
  /\ Runnable(row)
  /\ row.source.kind = "schedule"
  /\ row.nextRunAt # NoTime
  /\ row.nextRunAt <= t

\* ... and what materializeDueScheduleRun leaves in next_run_at.
AdvanceSchedule(row, t) ==
  IF /\ Runnable(row)
     /\ row.source.kind = "schedule"
     /\ row.nextRunAt <= t
  THEN [row EXCEPT !.nextRunAt = NextCronTime(t)]
  ELSE row

-----------------------------------------------------------------------------
(* Claims *)

LiveClaims(rs, t) ==
  {i \in DOMAIN rs : rs[i].status = "running" /\ rs[i].until > t}

\* Deviation: expired leases are never taken over.
DueQueuedOnly(rs, t) ==
  {i \in DOMAIN rs : rs[i].status = "queued" /\ rs[i].scheduledFor <= t}

Due(rs, t) ==
  {i \in DOMAIN rs :
     /\ \/ rs[i].status = "queued"
        \/ rs[i].status = "running" /\ rs[i].until <= t
     /\ rs[i].scheduledFor <= t}

Before(rs, i, j) ==
  \/ rs[i].scheduledFor < rs[j].scheduledFor
  \/ rs[i].scheduledFor = rs[j].scheduledFor /\ i < j

\* Deviation: rows claimed in the same transaction do not count.
HasRoomBeforeBatch(rs, i, C, t) ==
  LET busy == LiveClaims(rs, t)
  IN  /\ Cardinality(busy) < Concurrency
      /\ Cardinality({j \in busy : rs[j].spec = rs[i].spec})
           < MaxParallel[rs[i].spec]

\* There is room for run i once the runs in C are claimed too.
HasRoom(rs, i, C, t) ==
  LET busy == LiveClaims(rs, t) \cup C
  IN  /\ Cardinality(busy) < Concurrency
      /\ Cardinality({j \in busy : rs[j].spec = rs[i].spec})
           < MaxParallel[rs[i].spec]

(***************************************************************************)
(* The rows one claimDueRuns transaction claims, in claim order.  Its loop *)
(* takes the earliest due row that has room, and claiming only takes room  *)
(* away, so a due row is claimed exactly when it has room beside the live  *)
(* claims and the claimed rows before it.                                  *)
(***************************************************************************)
IsClaimList(rs, claimed, t) ==
  LET chosen == {claimed[k] : k \in DOMAIN claimed}
      earlier(i) == {j \in chosen : Before(rs, j, i)}
  IN  /\ \A k, m \in DOMAIN claimed :
           k < m => Before(rs, claimed[k], claimed[m])
      /\ \A i \in Due(rs, t) :
           i \in chosen <=> /\ HasRoom(rs, i, earlier(i), t)
                            /\ Cardinality(earlier(i)) < ClaimLimit

ClaimLists(rs, t) ==
  {claimed \in UNION {[1..n -> Due(rs, t)] : n \in 0..Len(rs)} :
     IsClaimList(rs, claimed, t)}

ClaimRow(row, token, t) ==
  [row EXCEPT !.status = "running", !.token = token,
              !.until = t + LeaseLen, !.attempts = @ + 1]

\* The k-th claimed row gets token base + k, a fresh one.
ClaimRuns(rs, claimed, base, t) ==
  [i \in DOMAIN rs |->
     IF \E k \in DOMAIN claimed : claimed[k] = i
     THEN ClaimRow(rs[i],
                   base + (CHOOSE k \in DOMAIN claimed : claimed[k] = i), t)
     ELSE rs[i]]

Owns(rs, i, token) == rs[i].token = token

\* renewClaim: the token decides, an expired lease is renewed like any other.
RenewClaim(rs, i, token, t) ==
  IF Owns(rs, i, token) THEN [rs EXCEPT ![i].until = t + LeaseLen] ELSE rs

\* Deviation: whoever executed the run completes it.
CompleteRunAnyToken(rs, i, token, status) ==
  [rs EXCEPT ![i] = [@ EXCEPT !.status = status, !.token = NoToken,
                              !.until = NoTime]]

CompleteRun(rs, i, token, status) ==
  IF Owns(rs, i, token)
  THEN [rs EXCEPT ![i] = [@ EXCEPT !.status = status, !.token = NoToken,
                                   !.until = NoTime]]
  ELSE rs
=============================================================================
