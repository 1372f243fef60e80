------------------------ MODULE CronAutomationProofs ------------------------
(***************************************************************************)
(* Proofs about CronAutomation for any number of runners, processes and    *)
(* specs, any timing constants and any bounds.                             *)
(***************************************************************************)
EXTENDS CronAutomation, TLAPS

-----------------------------------------------------------------------------
(* Sequences *)

\* The domain of a sequence of rows or executions.
LEMMA SeqDomain ==
  ASSUME NEW S, NEW q \in Seq(S)
  PROVE  /\ Len(q) \in Nat
         /\ DOMAIN q = 1..Len(q)
         /\ \A i \in DOMAIN q : q[i] \in S
  OBVIOUS

\* A function on 1..n is a sequence of length n.
LEMMA FunIsSeq ==
  ASSUME NEW S, NEW n \in Nat, NEW f \in [1..n -> S]
  PROVE  f \in Seq(S) /\ Len(f) = n /\ DOMAIN f = 1..n
  OBVIOUS

\* Writing one element keeps a sequence and its domain.
LEMMA UpdateSeq ==
  ASSUME NEW S, NEW q \in Seq(S), NEW i \in DOMAIN q, NEW e \in S
  PROVE  /\ [q EXCEPT ![i] = e] \in Seq(S)
         /\ Len([q EXCEPT ![i] = e]) = Len(q)
         /\ DOMAIN [q EXCEPT ![i] = e] = DOMAIN q
         /\ \A j \in DOMAIN q :
              [q EXCEPT ![i] = e][j] = IF j = i THEN e ELSE q[j]
  <1>1. [q EXCEPT ![i] = e] \in [1..Len(q) -> S]
    BY SeqDomain
  <1>. QED
    BY <1>1, FunIsSeq, SeqDomain

\* Inserting a row keeps the earlier rows.
LEMMA AppendSeq ==
  ASSUME NEW S, NEW q \in Seq(S), NEW e \in S
  PROVE  /\ Append(q, e) \in Seq(S)
         /\ Len(Append(q, e)) = Len(q) + 1
         /\ DOMAIN Append(q, e) = 1..(Len(q) + 1)
         /\ \A i \in DOMAIN q : Append(q, e)[i] = q[i]
         /\ Append(q, e)[Len(q) + 1] = e
  OBVIOUS

\* Handing out several tokens keeps the earlier executions.
LEMMA ConcatSeq ==
  ASSUME NEW S, NEW q \in Seq(S), NEW w \in Seq(S)
  PROVE  /\ q \o w \in Seq(S)
         /\ Len(q \o w) = Len(q) + Len(w)
         /\ DOMAIN (q \o w) = 1..(Len(q) + Len(w))
         /\ \A i \in DOMAIN q : (q \o w)[i] = q[i]
         /\ \A k \in DOMAIN w : (q \o w)[Len(q) + k] = w[k]
  OBVIOUS

-----------------------------------------------------------------------------
(* What the statements of the store do to the tables *)

\* getNextCronTime yields an instant.
LEMMA NextCronTimeType ==
  ASSUME NEW t \in Nat
  PROVE  NextCronTime(t) \in Nat
  <1>1. t \div Period \in Nat
    BY PeriodAssumption
  <1>. QED
    BY <1>1, PeriodAssumption DEF NextCronTime

\* enqueueRun inserts a well-typed row.
LEMMA NewRunType ==
  ASSUME NEW s \in Specs, NEW v \in Nat, NEW kind \in RunKinds, NEW at \in Nat
  PROVE  NewRun(s, v, kind, at) \in RunRow
  BY DEF NewRun, RunRow, RunStatuses, OptTime, NoTime, NoToken

\* Cancelling rows keeps the table well typed.
LEMMA CancelRunsType ==
  ASSUME NEW rs \in Seq(RunRow), NEW I
  PROVE  /\ CancelRuns(rs, I) \in Seq(RunRow)
         /\ DOMAIN CancelRuns(rs, I) = DOMAIN rs
         /\ Len(CancelRuns(rs, I)) = Len(rs)
  <1>. DEFINE f == [i \in 1..Len(rs) |->
                      IF i \in I THEN [rs[i] EXCEPT !.status = "cancelled"]
                                 ELSE rs[i]]
  <1>1. \A i \in 1..Len(rs) : rs[i] \in RunRow
    BY SeqDomain
  <1>2. f \in [1..Len(rs) -> RunRow]
    BY <1>1 DEF RunRow, RunStatuses
  <1>3. f = CancelRuns(rs, I)
    BY SeqDomain DEF CancelRuns
  <1>. HIDE DEF f
  <1>. QED
    BY <1>2, <1>3, FunIsSeq, SeqDomain

\* The end of a lease is a time.
LEMMA LeaseEndType ==
  ASSUME NEW t \in Nat
  PROVE  t + LeaseLen \in OptTime /\ t + LeaseLen # NoTime /\ t + LeaseLen > t
  BY LeaseAssumption DEF OptTime, NoTime

\* renewClaim keeps the table well typed.
LEMMA RenewClaimType ==
  ASSUME NEW rs \in Seq(RunRow), NEW i \in DOMAIN rs, NEW token, NEW t \in Nat
  PROVE  /\ RenewClaim(rs, i, token, t) \in Seq(RunRow)
         /\ DOMAIN RenewClaim(rs, i, token, t) = DOMAIN rs
  <1>1. rs[i] \in RunRow
    BY SeqDomain
  <1>2. [rs[i] EXCEPT !.until = t + LeaseLen] \in RunRow
    BY <1>1, LeaseEndType DEF RunRow
  <1>. QED
    BY <1>2, UpdateSeq DEF RenewClaim

\* completeRun keeps the table well typed.
LEMMA CompleteRunType ==
  ASSUME NEW rs \in Seq(RunRow), NEW i \in DOMAIN rs, NEW token,
         NEW st \in RunStatuses
  PROVE  /\ CompleteRun(rs, i, token, st) \in Seq(RunRow)
         /\ DOMAIN CompleteRun(rs, i, token, st) = DOMAIN rs
  <1>1. rs[i] \in RunRow
    BY SeqDomain
  <1>2. [rs[i] EXCEPT !.status = st, !.token = NoToken, !.until = NoTime]
          \in RunRow
    BY <1>1 DEF RunRow, OptTime, NoTime, NoToken
  <1>. QED
    BY <1>2, UpdateSeq DEF CompleteRun

\* A claimed row is well typed.
LEMMA ClaimRowType ==
  ASSUME NEW row \in RunRow, NEW token \in Nat, NEW t \in Nat
  PROVE  ClaimRow(row, token, t) \in RunRow
  <1>1. row.attempts + 1 \in Nat
    BY DEF RunRow
  <1>. QED
    BY <1>1, LeaseEndType DEF ClaimRow, RunRow, RunStatuses

\* claimDueRuns keeps the table well typed.
LEMMA ClaimRunsType ==
  ASSUME NEW rs \in Seq(RunRow), NEW t \in Nat, NEW base \in Nat,
         NEW n \in Nat, NEW claimed \in [1..n -> DOMAIN rs]
  PROVE  /\ ClaimRuns(rs, claimed, base, t) \in Seq(RunRow)
         /\ DOMAIN ClaimRuns(rs, claimed, base, t) = DOMAIN rs
  <1>. DEFINE f == ClaimRuns(rs, claimed, base, t)
  <1>1. ASSUME NEW i \in 1..Len(rs)
        PROVE  f[i] \in RunRow
    <2>0. f[i] = IF \E k \in DOMAIN claimed : claimed[k] = i
                 THEN ClaimRow(rs[i],
                               base + (CHOOSE k \in DOMAIN claimed :
                                         claimed[k] = i), t)
                 ELSE rs[i]
      BY SeqDomain DEF ClaimRuns
    <2>1. rs[i] \in RunRow
      BY SeqDomain
    <2>2. CASE \E k \in DOMAIN claimed : claimed[k] = i
      <3>. DEFINE k == CHOOSE k \in DOMAIN claimed : claimed[k] = i
      <3>1. k \in 1..n
        BY <2>2
      <3>2. f[i] = ClaimRow(rs[i], base + k, t)
        BY <2>0, <2>2
      <3>. HIDE DEF k, f
      <3>. QED
        BY <3>1, <3>2, <2>1, ClaimRowType
    <2>3. CASE ~\E k \in DOMAIN claimed : claimed[k] = i
      BY <2>0, <2>1, <2>3
    <2>. QED
      BY <2>2, <2>3
  <1>2. f \in [1..Len(rs) -> RunRow]
    <2>1. f = [i \in 1..Len(rs) |-> f[i]]
      BY SeqDomain DEF ClaimRuns
    <2>. QED
      BY <2>1, <1>1
  <1>. QED
    BY <1>2, FunIsSeq, SeqDomain

-----------------------------------------------------------------------------
(* What the statements do to a specification row *)

\* upsertSpec stores a well-typed row.
LEMMA UpsertSpecType ==
  ASSUME NEW row \in SpecRow, NEW def \in Definition
  PROVE  UpsertSpec(row, def) \in SpecRow
  BY DEF UpsertSpec, SpecRow, Definition

\* initializeHubScheduleNextRun keeps the row well typed.
LEMMA InitNextRunType ==
  ASSUME NEW row \in SpecRow, NEW t \in Nat
  PROVE  InitNextRun(row, t) \in SpecRow
  BY NextCronTimeType DEF InitNextRun, SpecRow, Definition, OptTime

\* applyScheduleNextRunAt keeps the row well typed.
LEMMA ApplyNextRunType ==
  ASSUME NEW row \in SpecRow, NEW reset, NEW t \in Nat
  PROVE  ApplyNextRun(row, reset, t) \in SpecRow
  BY NextCronTimeType DEF ApplyNextRun, SpecRow, OptTime

\* materializeDueScheduleRun keeps the row well typed.
LEMMA AdvanceScheduleType ==
  ASSUME NEW row \in SpecRow, NEW t \in Nat
  PROVE  AdvanceSchedule(row, t) \in SpecRow
  BY NextCronTimeType DEF AdvanceSchedule, SpecRow, OptTime

\* markSpecRemoved keeps the row well typed.
LEMMA MarkRemovedType ==
  ASSUME NEW row \in SpecRow
  PROVE  MarkRemoved(row) \in SpecRow
  BY DEF MarkRemoved, SpecRow

-----------------------------------------------------------------------------
(* How a step may change runs and execs without leaving a running row alone *)

\* Executions keep their run.
ExecsKept ==
  /\ DOMAIN execs \subseteq DOMAIN execs'
  /\ \A t \in DOMAIN execs : execs'[t].run = execs[t].run

\* Each row has no claim, or keeps the one it had, or gets a new owner.
RowsKept ==
  \A i \in DOMAIN runs' :
    \/ runs'[i].status # "running" /\ runs'[i].token = NoToken
    \/ /\ i \in DOMAIN runs
       /\ runs'[i].status = runs[i].status
       /\ runs'[i].token = runs[i].token
       /\ runs'[i].until = runs[i].until \/ runs'[i].until # NoTime
    \/ /\ runs'[i].status = "running"
       /\ runs'[i].token \in DOMAIN execs'
       /\ execs'[runs'[i].token].run = i
       /\ execs'[runs'[i].token].phase \in Unsettled
       /\ runs'[i].until # NoTime

\* An execution that settles its run is no row's owner any more.
OwnersKept ==
  \A t \in DOMAIN execs :
    execs[t].phase \in Unsettled /\ execs'[t].phase \notin Unsettled
      => \A i \in DOMAIN runs' : runs'[i].token # t

\* Ownership survives a step that keeps rows, executions and owners.
LEMMA OwnerStep ==
  ASSUME RunningHasOwner, ExecsKept, RowsKept, OwnersKept
  PROVE  RunningHasOwner'
  <1>. SUFFICES ASSUME NEW i \in DOMAIN runs'
                PROVE  IF runs'[i].status = "running"
                       THEN /\ runs'[i].token \in DOMAIN execs'
                            /\ execs'[runs'[i].token].run = i
                            /\ execs'[runs'[i].token].phase \in Unsettled
                            /\ runs'[i].until # NoTime
                       ELSE runs'[i].token = NoToken
    BY DEF RunningHasOwner, RunOf
  <1>1. CASE /\ i \in DOMAIN runs
             /\ runs'[i].status = runs[i].status
             /\ runs'[i].token = runs[i].token
             /\ runs'[i].until = runs[i].until \/ runs'[i].until # NoTime
    BY <1>1 DEF RunningHasOwner, ExecsKept, OwnersKept, RunOf
  <1>. QED
    BY <1>1 DEF RowsKept

\* Settling execution t leaves every other row as it was.
LEMMA SettleStep ==
  ASSUME TypeOK, ReferencesHold, RunningHasOwner,
         NEW t \in DOMAIN execs, NEW outcome \in RunStatuses \ {"running"},
         runs' = CompleteRun(runs, RunOf(t), t, outcome)
  PROVE  /\ RowsKept
         /\ \A i \in DOMAIN runs' : runs'[i].token # t
  <1>1. t \in Nat /\ t # NoToken
    BY SeqDomain DEF TypeOK, NoToken
  <1>2. RunOf(t) \in DOMAIN runs
    BY DEF ReferencesHold
  <1>3. DOMAIN runs' = DOMAIN runs
    BY <1>2, CompleteRunType DEF TypeOK
  <1>4. CASE Owns(runs, RunOf(t), t)
    <2>1. \A i \in DOMAIN runs : i # RunOf(t) => runs'[i] = runs[i]
      BY <1>4 DEF CompleteRun
    <2>2. runs[RunOf(t)] \in RunRow
      BY <1>2, SeqDomain DEF TypeOK
    <2>3. /\ runs'[RunOf(t)].status = outcome
          /\ runs'[RunOf(t)].token = NoToken
      BY <1>2, <1>4, <2>2 DEF CompleteRun, RunRow
    <2>4. \A i \in DOMAIN runs : i # RunOf(t) => runs[i].token # t
      BY <1>1 DEF RunningHasOwner
    <2>. QED
      BY <1>1, <1>3, <2>1, <2>3, <2>4 DEF RowsKept
  <1>5. CASE ~Owns(runs, RunOf(t), t)
    <2>1. runs' = runs
      BY <1>5 DEF CompleteRun
    <2>2. \A i \in DOMAIN runs : runs[i].token # t
      BY <1>1, <1>5 DEF RunningHasOwner, Owns
    <2>. QED
      BY <2>1, <2>2 DEF RowsKept
  <1>. QED
    BY <1>4, <1>5

-----------------------------------------------------------------------------
(* What the helpers do to executions *)

\* What the invariant says of one execution and its run.
LEMMA ExecFacts ==
  ASSUME IInv, NEW t \in DOMAIN execs
  PROVE  /\ execs[t] \in Exec
         /\ t \in Nat
         /\ RunnerOf(t) \in Runners
         /\ RunnerOf(t) \in Actors
         /\ RunOf(t) \in DOMAIN runs
         /\ runs[RunOf(t)] \in RunRow
         /\ SpecOf(t) \in Specs
  <1>1. execs[t] \in Exec /\ t \in Nat
    BY SeqDomain DEF IInv, TypeOK
  <1>2. RunOf(t) \in DOMAIN runs
    BY DEF IInv, ReferencesHold
  <1>3. runs[RunOf(t)] \in RunRow
    BY <1>2, SeqDomain DEF IInv, TypeOK
  <1>. QED
    BY <1>1, <1>2, <1>3 DEF RunnerOf, SpecOf, RunOf, Exec, RunRow, Actors

\* One execution is overwritten and keeps its run.
LEMMA ExecMove ==
  ASSUME IInv, NEW t \in DOMAIN execs, NEW e \in Exec, e.run = RunOf(t),
         execs' = [execs EXCEPT ![t] = e]
  PROVE  /\ execs' \in Seq(Exec)
         /\ DOMAIN execs' = DOMAIN execs
         /\ execs'[t] = e
         /\ \A u \in DOMAIN execs : u # t => execs'[u] = execs[u]
         /\ ExecsKept
  <1>1. execs \in Seq(Exec)
    BY DEF IInv, TypeOK
  <1>2. execs' \in Seq(Exec) /\ DOMAIN execs' = DOMAIN execs
    BY <1>1, UpdateSeq
  <1>3. execs'[t] = e /\ \A u \in DOMAIN execs : u # t => execs'[u] = execs[u]
    OBVIOUS
  <1>. QED
    BY <1>2, <1>3 DEF ExecsKept, RunOf

\* controller.abort changes no phase and no reference.
LEMMA AbortExecs ==
  ASSUME NEW U, NEW why \in {"cancelled", "timeout"}, IInv
  PROVE  /\ Abort(U, why) \in Seq(Exec)
         /\ DOMAIN Abort(U, why) = DOMAIN execs
         /\ \A t \in DOMAIN execs : /\ Abort(U, why)[t].run = execs[t].run
                                    /\ Abort(U, why)[t].phase = execs[t].phase
  <1>. DEFINE f == Abort(U, why)
  <1>1. DOMAIN execs = 1..Len(execs) /\ Len(execs) \in Nat
    BY SeqDomain DEF IInv, TypeOK
  <1>2. ASSUME NEW t \in DOMAIN execs
        PROVE  /\ f[t] \in Exec
               /\ f[t].run = execs[t].run
               /\ f[t].phase = execs[t].phase
    BY ExecFacts DEF Abort, Exec
  <1>3. f = [t \in 1..Len(execs) |-> f[t]]
    BY <1>1 DEF Abort
  <1>. HIDE DEF f
  <1>4. f \in [1..Len(execs) -> Exec]
    BY <1>1, <1>2, <1>3
  <1>. QED
    BY <1>1, <1>2, <1>4, FunIsSeq DEF f

\* What completeRun under the token of an execution does to the tables.
LEMMA SettleFacts ==
  ASSUME IInv, NEW t \in DOMAIN execs,
         NEW outcome \in {"done", "failed", "cancelled"}, Settle(t, outcome)
  PROVE  /\ specs' \in [Specs -> SpecRow]
         /\ runs' \in Seq(RunRow)
         /\ DOMAIN runs' = DOMAIN runs
         /\ RowsKept
         /\ \A i \in DOMAIN runs' : runs'[i].token # t
  <1>1. outcome \in RunStatuses \ {"running"}
    BY DEF RunStatuses
  <1>2. runs' = CompleteRun(runs, RunOf(t), t, outcome)
    BY DEF Settle
  <1>3. runs' \in Seq(RunRow) /\ DOMAIN runs' = DOMAIN runs
    BY <1>1, <1>2, ExecFacts, CompleteRunType DEF IInv, TypeOK
  <1>4. SpecOf(t) \in Specs
    BY ExecFacts
  <1>5. specs' \in [Specs -> SpecRow]
    <2>. DEFINE row == [specs[SpecOf(t)] EXCEPT !.nextRunAt = NoTime]
    <2>1. specs \in [Specs -> SpecRow]
      BY DEF IInv, TypeOK
    <2>2. row \in SpecRow
      BY <1>4, <2>1 DEF SpecRow, OptTime, NoTime
    <2>3. specs' = specs \/ specs' = [specs EXCEPT ![SpecOf(t)] = row]
      BY DEF Settle
    <2>. HIDE DEF row
    <2>. QED
      BY <1>4, <2>1, <2>2, <2>3
  <1>. QED
    BY <1>1, <1>2, <1>3, <1>5, SettleStep DEF IInv

\* What the finally block of executeClaim does to executions and activeRuns.
LEMMA LeaveFacts ==
  ASSUME IInv, NEW t \in DOMAIN execs, Leave(t)
  PROVE  /\ execs' \in Seq(Exec)
         /\ DOMAIN execs' = DOMAIN execs
         /\ execs'[t].phase = "over"
         /\ \A u \in DOMAIN execs : u # t => execs'[u] = execs[u]
         /\ ExecsKept
         /\ active' \in [Runners -> SUBSET Nat]
         /\ \A r \in Runners : active'[r] \subseteq active[r]
  <1>. DEFINE e == [execs[t] EXCEPT !.phase = "over", !.beatAt = NoTime,
                                    !.deadline = NoTime]
  <1>1. e \in Exec /\ e.run = RunOf(t) /\ e.phase = "over"
    BY ExecFacts DEF Exec, Phases, OptTime, NoTime, RunOf
  <1>2. execs' = [execs EXCEPT ![t] = e]
    BY DEF Leave
  <1>. HIDE DEF e
  <1>3. active \in [Runners -> SUBSET Nat]
    BY DEF IInv, TypeOK
  <1>4. /\ active' \in [Runners -> SUBSET Nat]
        /\ \A r \in Runners : active'[r] \subseteq active[r]
    <2>. DEFINE rest == active[RunnerOf(t)] \ EntryOf(RunnerOf(t), RunOf(t))
    <2>1. active' = [active EXCEPT ![RunnerOf(t)] = rest]
      BY DEF Leave
    <2>2. rest \subseteq active[RunnerOf(t)]
      OBVIOUS
    <2>. HIDE DEF rest
    <2>. QED
      BY <1>3, <2>1, <2>2, ExecFacts
  <1>. QED
    BY <1>1, <1>2, <1>4, ExecMove

\* The finally block up to stopSession changes one execution.
LEMMA StopSessionFacts ==
  ASSUME IInv, NEW t \in DOMAIN execs, StopSession(t)
  PROVE  /\ execs' \in Seq(Exec)
         /\ DOMAIN execs' = DOMAIN execs
         /\ execs'[t].phase = "closing"
         /\ \A u \in DOMAIN execs : u # t => execs'[u] = execs[u]
         /\ ExecsKept
  <1>. DEFINE e == [execs[t] EXCEPT !.phase = "closing", !.beatAt = NoTime,
                                    !.deadline = now + Cleanup]
  <1>1. now + Cleanup \in OptTime
    BY PeriodsAssumption DEF IInv, TypeOK, OptTime
  <1>2. e \in Exec /\ e.run = RunOf(t) /\ e.phase = "closing"
    BY <1>1, ExecFacts DEF Exec, Phases, OptTime, NoTime, RunOf
  <1>3. execs' = [execs EXCEPT ![t] = e]
    BY DEF StopSession
  <1>. HIDE DEF e
  <1>. QED
    BY <1>2, <1>3, ExecMove

\* References survive when tables only grow and activeRuns only shrinks.
LEMMA ReferencesStep ==
  ASSUME IInv, ExecsKept, DOMAIN execs' = DOMAIN execs,
         DOMAIN runs \subseteq DOMAIN runs',
         \A r \in Runners : active'[r] \subseteq active[r]
  PROVE  ReferencesHold'
  BY DEF IInv, ReferencesHold, ExecsKept, RunOf

\* Executions move between phases, none of them away from an unsettled run.
LEMMA QuietStep ==
  ASSUME IInv, runs' = runs, ExecsKept, DOMAIN execs' = DOMAIN execs,
         \A t \in DOMAIN execs : execs[t].phase \in Unsettled
                                   => execs'[t].phase \in Unsettled
  PROVE  RunningHasOwner'
  <1>1. RowsKept
    BY DEF RowsKept, IInv, RunningHasOwner
  <1>2. OwnersKept
    BY DEF OwnersKept
  <1>. QED
    BY <1>1, <1>2, OwnerStep DEF IInv

-----------------------------------------------------------------------------
(* Executions preserve the invariant *)

\* buildStartRequest resolves.
LEMMA PreparedInv ==
  ASSUME IInv, NEW t \in DOMAIN execs, Prepared(t)
  PROVE  IInv'
  <1>. DEFINE e == [execs[t] EXCEPT !.phase = "starting"]
  <1>1. e \in Exec /\ e.run = RunOf(t) /\ e.phase = "starting"
    BY ExecFacts DEF Exec, Phases, RunOf
  <1>2. execs' = [execs EXCEPT ![t] = e]
    BY DEF Prepared
  <1>. HIDE DEF e
  <1>3. /\ execs' \in Seq(Exec) /\ DOMAIN execs' = DOMAIN execs /\ ExecsKept
        /\ execs'[t] = e
        /\ \A u \in DOMAIN execs : u # t => execs'[u] = execs[u]
    BY <1>1, <1>2, ExecMove
  <1>4. UNCHANGED <<now, store, control, section, used>>
    BY DEF Prepared
  <1>5. TypeOK'
    BY <1>3, <1>4 DEF IInv, TypeOK, store, control, section
  <1>6. ReferencesHold'
    BY <1>3, <1>4, ReferencesStep DEF store, control
  <1>7. RunningHasOwner'
    <2>1. \A u \in DOMAIN execs : execs[u].phase \in Unsettled
                                    => execs'[u].phase \in Unsettled
      BY <1>1, <1>3 DEF Unsettled, Working, Awaiting
    <2>. QED
      BY <2>1, <1>3, <1>4, QuietStep DEF store
  <1>. QED
    BY <1>5, <1>6, <1>7 DEF IInv

\* startSession resolves.
LEMMA SessionStartedInv ==
  ASSUME IInv, NEW t \in DOMAIN execs, SessionStarted(t)
  PROVE  IInv'
  <1>. DEFINE turn == [execs[t] EXCEPT !.phase = "running"]
              lost == [execs[t] EXCEPT !.phase = "aborting",
                                       !.abort = "cancelled",
                                       !.deadline = now + 2 * Cleanup]
  <1>1. turn \in Exec /\ turn.run = RunOf(t) /\ turn.phase = "running"
    BY ExecFacts DEF Exec, Phases, RunOf
  <1>2. now + 2 * Cleanup \in OptTime
    BY PeriodsAssumption DEF IInv, TypeOK, OptTime
  <1>3. lost \in Exec /\ lost.run = RunOf(t) /\ lost.phase = "aborting"
    BY <1>2, ExecFacts DEF Exec, Phases, RunOf
  <1>4. \/ execs' = [execs EXCEPT ![t] = turn]
        \/ execs' = [execs EXCEPT ![t] = lost]
    BY DEF SessionStarted
  <1>. HIDE DEF turn, lost
  <1>5. /\ execs' \in Seq(Exec) /\ DOMAIN execs' = DOMAIN execs /\ ExecsKept
        /\ execs'[t].phase \in Working
        /\ \A u \in DOMAIN execs : u # t => execs'[u] = execs[u]
    BY <1>1, <1>3, <1>4, ExecMove DEF Working, Awaiting
  <1>6. UNCHANGED <<now, store, control, section, used>>
    BY DEF SessionStarted
  <1>7. TypeOK'
    BY <1>5, <1>6 DEF IInv, TypeOK, store, control, section
  <1>8. ReferencesHold'
    BY <1>5, <1>6, ReferencesStep DEF store, control
  <1>9. RunningHasOwner'
    <2>1. \A u \in DOMAIN execs : execs[u].phase \in Unsettled
                                    => execs'[u].phase \in Unsettled
      BY <1>5 DEF Unsettled
    <2>. QED
      BY <2>1, <1>5, <1>6, QuietStep DEF store
  <1>. QED
    BY <1>7, <1>8, <1>9 DEF IInv

\* What settling and leaving, or settling and closing, have in common.
LEMMA SettledInv ==
  ASSUME IInv, NEW t \in DOMAIN execs,
         NEW outcome \in {"done", "failed", "cancelled"}, Settle(t, outcome),
         \/ StopSession(t) /\ UNCHANGED active
         \/ Leave(t),
         UNCHANGED <<now, status, pollAt, section, used>>
  PROVE  IInv'
  <1>1. /\ specs' \in [Specs -> SpecRow]
        /\ runs' \in Seq(RunRow)
        /\ DOMAIN runs' = DOMAIN runs
        /\ RowsKept
        /\ \A i \in DOMAIN runs' : runs'[i].token # t
    BY SettleFacts
  <1>2. /\ execs' \in Seq(Exec)
        /\ DOMAIN execs' = DOMAIN execs
        /\ \A u \in DOMAIN execs : u # t => execs'[u] = execs[u]
        /\ ExecsKept
    BY LeaveFacts, StopSessionFacts
  <1>3. /\ active' \in [Runners -> SUBSET Nat]
        /\ \A r \in Runners : active'[r] \subseteq active[r]
    <2>1. active \in [Runners -> SUBSET Nat]
      BY DEF IInv, TypeOK
    <2>. QED
      BY <2>1, LeaveFacts
  <1>4. TypeOK'
    BY <1>1, <1>2, <1>3 DEF IInv, TypeOK, section
  <1>5. ReferencesHold'
    BY <1>1, <1>2, <1>3, ReferencesStep
  <1>6. OwnersKept
    BY <1>1, <1>2 DEF OwnersKept
  <1>7. RunningHasOwner'
    BY <1>1, <1>2, <1>6, OwnerStep DEF IInv
  <1>. QED
    BY <1>4, <1>5, <1>7 DEF IInv

\* The turn resolves and the run is completed.
LEMMA TurnDoneInv ==
  ASSUME IInv, NEW t \in DOMAIN execs, TurnDone(t)
  PROVE  IInv'
  BY SettledInv DEF TurnDone, control

\* An await of executeClaim rejects.
LEMMA FailedInv ==
  ASSUME IInv, NEW t \in DOMAIN execs, Failed(t)
  PROVE  IInv'
  <1>1. /\ Settle(t, "failed")
        /\ \/ StopSession(t) /\ UNCHANGED active
           \/ Leave(t)
        /\ UNCHANGED <<now, status, pollAt, section, used>>
    BY DEF Failed
  <1>. QED
    BY <1>1, SettledInv

\* The session of an aborted execution is cleaned up.
LEMMA CleanedUpInv ==
  ASSUME IInv, NEW t \in DOMAIN execs, CleanedUp(t)
  PROVE  IInv'
  <1>1. Outcome(t) \in {"done", "failed", "cancelled"}
    BY DEF Outcome
  <1>. QED
    BY <1>1, SettledInv DEF CleanedUp

\* Only abort flags change.
LEMMA AbortInv ==
  ASSUME IInv, NEW U, NEW why \in {"cancelled", "timeout"},
         execs' = Abort(U, why), UNCHANGED <<now, store, active, section>>,
         status' \in [Runners -> {"up", "stopping", "stopped"}],
         pollAt' = pollAt,
         used' \in [edits: Nat, faults: Nat]
  PROVE  IInv'
  <1>1. /\ execs' \in Seq(Exec) /\ DOMAIN execs' = DOMAIN execs
        /\ \A t \in DOMAIN execs : /\ execs'[t].run = execs[t].run
                                   /\ execs'[t].phase = execs[t].phase
    BY AbortExecs
  <1>2. ExecsKept
    BY <1>1 DEF ExecsKept
  <1>3. TypeOK'
    BY <1>1 DEF IInv, TypeOK, store, section
  <1>4. ReferencesHold'
    BY <1>1, <1>2, ReferencesStep DEF store
  <1>5. RunningHasOwner'
    BY <1>1, <1>2, QuietStep DEF store
  <1>. QED
    BY <1>3, <1>4, <1>5 DEF IInv

\* The timeout fires.
LEMMA TimedOutInv ==
  ASSUME IInv, NEW t \in DOMAIN execs, TimedOut(t)
  PROVE  IInv'
  <1>1. /\ status \in [Runners -> {"up", "stopping", "stopped"}]
        /\ used \in [edits: Nat, faults: Nat]
    BY DEF IInv, TypeOK
  <1>2. /\ execs' = Abort({t}, "timeout")
        /\ UNCHANGED <<now, store, status, pollAt, active, section, used>>
    BY DEF TimedOut, control
  <1>. QED
    BY <1>1, <1>2, AbortInv

\* The aborted await rejects.
LEMMA AbortDeliveredInv ==
  ASSUME IInv, NEW t \in DOMAIN execs, AbortDelivered(t)
  PROVE  IInv'
  <1>1. UNCHANGED <<now, status, pollAt, section, used>>
    BY DEF AbortDelivered
  <1>2. CASE execs[t].phase = "running"
    <2>. DEFINE e == [execs[t] EXCEPT !.phase = "aborting",
                                      !.deadline = now + 2 * Cleanup]
    <2>1. now + 2 * Cleanup \in OptTime
      BY PeriodsAssumption DEF IInv, TypeOK, OptTime
    <2>2. e \in Exec /\ e.run = RunOf(t) /\ e.phase = "aborting"
      BY <2>1, ExecFacts DEF Exec, Phases, RunOf
    <2>3. execs' = [execs EXCEPT ![t] = e] /\ UNCHANGED <<specs, runs, active>>
      BY <1>2 DEF AbortDelivered
    <2>. HIDE DEF e
    <2>4. /\ execs' \in Seq(Exec) /\ DOMAIN execs' = DOMAIN execs /\ ExecsKept
          /\ execs'[t].phase = "aborting"
          /\ \A u \in DOMAIN execs : u # t => execs'[u] = execs[u]
      BY <2>2, <2>3, ExecMove
    <2>5. TypeOK'
      BY <1>1, <2>3, <2>4 DEF IInv, TypeOK, section
    <2>6. ReferencesHold'
      BY <2>3, <2>4, ReferencesStep
    <2>7. \A u \in DOMAIN execs : execs[u].phase \in Unsettled
                                    => execs'[u].phase \in Unsettled
      BY <2>4 DEF Unsettled, Working
    <2>8. RunningHasOwner'
      BY <2>3, <2>4, <2>7, QuietStep
    <2>. QED
      BY <2>5, <2>6, <2>8 DEF IInv
  <1>3. CASE execs[t].phase # "running"
    <2>1. Outcome(t) \in {"done", "failed", "cancelled"}
      BY DEF Outcome
    <2>2. Settle(t, Outcome(t)) /\ Leave(t)
      BY <1>3 DEF AbortDelivered
    <2>. QED
      BY <1>1, <2>1, <2>2, SettledInv
  <1>. QED
    BY <1>2, <1>3

\* stopSession returns after the run was settled.
LEMMA ClosedInv ==
  ASSUME IInv, NEW t \in DOMAIN execs, Closed(t)
  PROVE  IInv'
  <1>1. /\ Leave(t) /\ execs[t].phase = "closing"
        /\ UNCHANGED <<now, store, status, pollAt, section, used>>
    BY DEF Closed
  <1>2. /\ execs' \in Seq(Exec) /\ DOMAIN execs' = DOMAIN execs /\ ExecsKept
        /\ \A u \in DOMAIN execs : u # t => execs'[u] = execs[u]
        /\ active' \in [Runners -> SUBSET Nat]
        /\ \A r \in Runners : active'[r] \subseteq active[r]
    BY <1>1, LeaveFacts
  <1>3. TypeOK'
    BY <1>1, <1>2 DEF IInv, TypeOK, store, section
  <1>4. ReferencesHold'
    BY <1>1, <1>2, ReferencesStep DEF store
  <1>5. \A u \in DOMAIN execs : execs[u].phase \in Unsettled
                                  => execs'[u].phase \in Unsettled
    BY <1>1, <1>2 DEF Unsettled, Working, Awaiting
  <1>6. RunningHasOwner'
    BY <1>1, <1>2, <1>5, QuietStep DEF store
  <1>. QED
    BY <1>3, <1>4, <1>6 DEF IInv

\* A renewal changes leases only, and only to other times.
LEMMA RenewalKeepsRows ==
  ASSUME IInv, DOMAIN runs' = DOMAIN runs,
         \A i \in DOMAIN runs :
           \/ runs'[i] = runs[i]
           \/ runs'[i] = [runs[i] EXCEPT !.until = now + LeaseLen]
  PROVE  RowsKept
  <1>1. now + LeaseLen # NoTime
    BY LeaseEndType DEF IInv, TypeOK
  <1>2. \A i \in DOMAIN runs : runs[i] \in RunRow
    BY SeqDomain DEF IInv, TypeOK
  <1>. QED
    BY <1>1, <1>2 DEF RowsKept, RunRow

\* A heartbeat renews the lease, or finds it lost.
LEMMA HeartbeatInv ==
  ASSUME IInv, NEW t \in DOMAIN execs, Heartbeat(t)
  PROVE  IInv'
  <1>1. /\ runs' = RenewClaim(runs, RunOf(t), t, now)
        /\ execs[t].phase \in Working
        /\ UNCHANGED <<now, specs, control, section, used>>
    BY DEF Heartbeat
  <1>2. now \in Nat /\ runs \in Seq(RunRow) /\ RunOf(t) \in DOMAIN runs
    BY ExecFacts DEF IInv, TypeOK
  <1>3. runs' \in Seq(RunRow) /\ DOMAIN runs' = DOMAIN runs
    BY <1>1, <1>2, RenewClaimType
  <1>4. RowsKept
    <2>. DEFINE row == [runs[RunOf(t)] EXCEPT !.until = now + LeaseLen]
    <2>1. runs' = runs \/ runs' = [runs EXCEPT ![RunOf(t)] = row]
      BY <1>1 DEF RenewClaim
    <2>. HIDE DEF row
    <2>2. ASSUME NEW i \in DOMAIN runs
          PROVE  \/ runs'[i] = runs[i]
                 \/ i = RunOf(t) /\ runs'[i] = row
      BY <2>1
    <2>3. \A i \in DOMAIN runs :
            \/ runs'[i] = runs[i]
            \/ runs'[i] = [runs[i] EXCEPT !.until = now + LeaseLen]
      BY <2>2 DEF row
    <2>. QED
      BY <1>3, <2>3, RenewalKeepsRows
  <1>5. /\ execs' \in Seq(Exec) /\ DOMAIN execs' = DOMAIN execs
        /\ \A u \in DOMAIN execs : /\ execs'[u].run = execs[u].run
                                   /\ execs'[u].phase = execs[u].phase
    <2>1. CASE Owns(runs, RunOf(t), t)
      <3>. DEFINE e == [execs[t] EXCEPT !.beatAt = now + Beat]
      <3>1. now + Beat \in OptTime
        BY PeriodsAssumption, <1>2 DEF OptTime
      <3>2. e \in Exec /\ e.run = RunOf(t) /\ e.phase = execs[t].phase
        BY <3>1, ExecFacts DEF Exec, RunOf
      <3>3. execs' = [execs EXCEPT ![t] = e]
        BY <2>1 DEF Heartbeat
      <3>. HIDE DEF e
      <3>. QED
        BY <3>2, <3>3, ExecMove DEF RunOf
    <2>2. CASE ~Owns(runs, RunOf(t), t)
      <3>. DEFINE aborted == Abort(EntryOf(RunnerOf(t), RunOf(t)), "cancelled")
                  e == [aborted[t] EXCEPT !.beatAt = NoTime]
      <3>1. /\ aborted \in Seq(Exec) /\ DOMAIN aborted = DOMAIN execs
            /\ \A u \in DOMAIN execs : /\ aborted[u].run = execs[u].run
                                       /\ aborted[u].phase = execs[u].phase
        BY AbortExecs
      <3>2. execs' = [aborted EXCEPT ![t] = e]
        BY <2>2 DEF Heartbeat
      <3>. HIDE DEF aborted
      <3>3. aborted[t] \in Exec
        BY <3>1, SeqDomain
      <3>4. /\ e \in Exec
            /\ e.run = execs[t].run /\ e.phase = execs[t].phase
        BY <3>1, <3>3 DEF Exec, OptTime, NoTime
      <3>. HIDE DEF e
      <3>. QED
        BY <3>1, <3>2, <3>4, UpdateSeq
    <2>. QED
      BY <2>1, <2>2
  <1>6. ExecsKept /\ OwnersKept
    BY <1>5 DEF ExecsKept, OwnersKept
  <1>7. TypeOK'
    BY <1>1, <1>3, <1>5 DEF IInv, TypeOK, control, section
  <1>8. ReferencesHold'
    BY <1>1, <1>3, <1>5, <1>6, ReferencesStep DEF control
  <1>9. RunningHasOwner'
    BY <1>4, <1>6, OwnerStep DEF IInv
  <1>. QED
    BY <1>7, <1>8, <1>9 DEF IInv

\* executeClaim starts on a claim.
LEMMA DispatchInv ==
  ASSUME IInv, NEW t \in DOMAIN execs, Dispatch(t)
  PROVE  IInv'
  <1>. DEFINE r == RunnerOf(t)
              refused == [execs[t] EXCEPT !.phase = "over"]
              begun == [execs[t] EXCEPT !.phase = "preparing",
                                        !.beatAt = now + Beat,
                                        !.deadline = After(Timeout[SpecOf(t)])]
              entries == (active[r] \ EntryOf(r, RunOf(t))) \cup {t}
  <1>1. /\ r \in Runners /\ r \in Actors /\ t \in Nat
        /\ runs \in Seq(RunRow) /\ RunOf(t) \in DOMAIN runs
        /\ active \in [Runners -> SUBSET Nat]
        /\ pc \in [Actors -> Places]
    BY ExecFacts DEF IInv, TypeOK
  <1>2. /\ execs[t].phase = "claimed"
        /\ \/ pc' = [pc EXCEPT ![r] = "idle"]
           \/ pc' = [pc EXCEPT ![r] = "dispatch"]
        /\ UNCHANGED <<now, specs, status, pollAt, todo, target, used>>
    BY DEF Dispatch
  <1>3. pc' \in [Actors -> Places]
    BY <1>1, <1>2 DEF Places
  <1>4. CASE ~specs[SpecOf(t)].enabled \/ specs[SpecOf(t)].removed
    <2>1. /\ runs' = CompleteRun(runs, RunOf(t), t, "cancelled")
          /\ execs' = [execs EXCEPT ![t] = refused]
          /\ UNCHANGED active
      BY <1>4 DEF Dispatch
    <2>2. refused \in Exec /\ refused.run = RunOf(t) /\ refused.phase = "over"
      BY ExecFacts DEF Exec, Phases, RunOf
    <2>. HIDE DEF refused
    <2>3. /\ execs' \in Seq(Exec) /\ DOMAIN execs' = DOMAIN execs /\ ExecsKept
          /\ \A u \in DOMAIN execs : u # t => execs'[u] = execs[u]
      BY <2>1, <2>2, ExecMove
    <2>4. "cancelled" \in RunStatuses \ {"running"}
      BY DEF RunStatuses
    <2>5. runs' \in Seq(RunRow) /\ DOMAIN runs' = DOMAIN runs
      BY <1>1, <2>1, <2>4, CompleteRunType
    <2>6. RowsKept /\ \A i \in DOMAIN runs' : runs'[i].token # t
      BY <2>1, <2>4, SettleStep DEF IInv
    <2>7. TypeOK'
      BY <1>2, <1>3, <2>1, <2>3, <2>5 DEF IInv, TypeOK
    <2>8. ReferencesHold'
      BY <2>1, <2>3, <2>5, ReferencesStep
    <2>9. OwnersKept
      BY <2>3, <2>6 DEF OwnersKept
    <2>10. RunningHasOwner'
      BY <2>3, <2>6, <2>9, OwnerStep DEF IInv
    <2>. QED
      BY <2>7, <2>8, <2>10 DEF IInv
  <1>5. CASE ~(~specs[SpecOf(t)].enabled \/ specs[SpecOf(t)].removed)
    <2>1. /\ active' = [active EXCEPT ![r] = entries]
          /\ execs' = [execs EXCEPT ![t] = begun]
          /\ UNCHANGED runs
      BY <1>5 DEF Dispatch
    <2>2. begun \in Exec /\ begun.run = RunOf(t) /\ begun.phase = "preparing"
      <3>1. now + Beat \in OptTime
        BY PeriodsAssumption DEF IInv, TypeOK, OptTime
      <3>2. After(Timeout[SpecOf(t)]) \in OptTime
        <4>1. Timeout[SpecOf(t)] \in (Nat \ {0}) \cup {NoTime} /\ now \in Nat
          BY TimeoutAssumption, ExecFacts DEF IInv, TypeOK
        <4>. QED
          BY <4>1 DEF After, OptTime, NoTime
      <3>3. execs[t] \in Exec
        BY ExecFacts
      <3>. QED
        BY <3>1, <3>2, <3>3 DEF Exec, Phases, RunOf
    <2>. HIDE DEF begun
    <2>3. /\ execs' \in Seq(Exec) /\ DOMAIN execs' = DOMAIN execs /\ ExecsKept
          /\ execs'[t] = begun
          /\ \A u \in DOMAIN execs : u # t => execs'[u] = execs[u]
      BY <2>1, <2>2, ExecMove
    <2>4. entries \in SUBSET Nat /\ entries \subseteq active[r] \cup {t}
      BY <1>1
    <2>. HIDE DEF r, entries
    <2>5. /\ active' \in [Runners -> SUBSET Nat]
          /\ \A x \in Runners : active'[x] \subseteq active[x] \cup {t}
      BY <1>1, <2>1, <2>4
    <2>6. TypeOK'
      BY <1>2, <1>3, <2>1, <2>3, <2>5 DEF IInv, TypeOK
    <2>7. ReferencesHold'
      BY <2>1, <2>3, <2>5 DEF IInv, ReferencesHold, ExecsKept, RunOf
    <2>8. \A u \in DOMAIN execs : execs[u].phase \in Unsettled
                                    => execs'[u].phase \in Unsettled
      BY <2>2, <2>3 DEF Unsettled, Working, Awaiting
    <2>9. RunningHasOwner'
      BY <2>1, <2>3, <2>8, QuietStep
    <2>. QED
      BY <2>6, <2>7, <2>9 DEF IInv
  <1>. QED
    BY <1>4, <1>5

\* claimDueRuns gives each claimed row a fresh token.
LEMMA ClaimDueInv ==
  ASSUME IInv, NEW r \in Runners, ClaimDue(r)
  PROVE  IInv'
  <1>1. /\ now \in Nat /\ runs \in Seq(RunRow) /\ execs \in Seq(Exec)
        /\ Len(runs) \in Nat /\ Len(execs) \in Nat
        /\ DOMAIN runs = 1..Len(runs) /\ DOMAIN execs = 1..Len(execs)
        /\ r \in Actors /\ pc \in [Actors -> Places]
    BY SeqDomain DEF IInv, TypeOK, Actors
  <1>2. PICK claimed \in ClaimLists(runs, now) :
          /\ runs' = ClaimRuns(runs, claimed, Len(execs), now)
          /\ execs' = execs \o
               [k \in 1..Len(claimed) |->
                  [runner |-> r, run |-> claimed[k], phase |-> "claimed",
                   abort |-> "none", beatAt |-> NoTime, deadline |-> NoTime]]
          /\ pc' = [pc EXCEPT ![r] = IF claimed = <<>> THEN "idle"
                                                       ELSE "dispatch"]
    BY DEF ClaimDue
  <1>3. PICK n \in 0..Len(runs) : claimed \in [1..n -> DOMAIN runs]
    BY DEF ClaimLists, Due
  <1>4. n \in Nat /\ claimed \in Seq(DOMAIN runs) /\ Len(claimed) = n
    BY <1>1, <1>3, FunIsSeq
  <1>. DEFINE new == [k \in 1..n |->
                        [runner |-> r, run |-> claimed[k], phase |-> "claimed",
                         abort |-> "none", beatAt |-> NoTime,
                         deadline |-> NoTime]]
  <1>5. /\ execs' = execs \o new
        /\ new \in [1..n -> Exec]
        /\ \A k \in 1..n : new[k].run = claimed[k] /\ new[k].phase = "claimed"
    <2>1. \A k \in 1..n : claimed[k] \in Nat
      BY <1>1, <1>3
    <2>2. new \in [1..n -> Exec]
      BY <2>1 DEF Exec, Phases, OptTime, NoTime
    <2>. QED
      BY <1>2, <1>4, <2>2
  <1>. HIDE DEF new
  <1>6. /\ new \in Seq(Exec) /\ Len(new) = n /\ DOMAIN new = 1..n
    BY <1>4, <1>5, FunIsSeq
  <1>7. /\ execs' \in Seq(Exec)
        /\ DOMAIN execs' = 1..(Len(execs) + n)
        /\ \A t \in DOMAIN execs : execs'[t] = execs[t]
        /\ \A k \in 1..n : execs'[Len(execs) + k] = new[k]
    <2>1. execs \in Seq(Exec) /\ new \in Seq(Exec)
      BY <1>1, <1>6
    <2>2. /\ execs \o new \in Seq(Exec)
          /\ DOMAIN (execs \o new) = 1..(Len(execs) + Len(new))
          /\ \A t \in DOMAIN execs : (execs \o new)[t] = execs[t]
          /\ \A k \in DOMAIN new : (execs \o new)[Len(execs) + k] = new[k]
      BY <2>1
    <2>. QED
      BY <1>5, <1>6, <2>2, Zenon
  <1>8. runs' \in Seq(RunRow) /\ DOMAIN runs' = DOMAIN runs
    BY <1>1, <1>2, <1>3, <1>4, ClaimRunsType
  <1>9. UNCHANGED <<now, specs, control, todo, target, used>>
    BY DEF ClaimDue
  <1>10. TypeOK'
    <2>1. pc' \in [Actors -> Places]
      BY <1>1, <1>2 DEF Places
    <2>. QED
      BY <2>1, <1>7, <1>8, <1>9 DEF IInv, TypeOK, control
  <1>11. ExecsKept /\ OwnersKept
    BY <1>1, <1>4, <1>7 DEF ExecsKept, OwnersKept
  <1>12. ReferencesHold'
    <2>1. ASSUME NEW t \in DOMAIN execs'
          PROVE  execs'[t].run \in DOMAIN runs'
      <3>1. CASE t \in DOMAIN execs
        BY <3>1, <1>7, <1>8 DEF IInv, ReferencesHold, RunOf
      <3>2. CASE t \notin DOMAIN execs
        <4>1. t - Len(execs) \in 1..n /\ t = Len(execs) + (t - Len(execs))
          BY <3>2, <1>1, <1>4, <1>7
        <4>. QED
          BY <4>1, <1>3, <1>5, <1>7, <1>8
      <3>. QED
        BY <3>1, <3>2
    <2>2. \A x \in Runners : active'[x] \subseteq DOMAIN execs'
      BY <1>1, <1>4, <1>7, <1>9 DEF IInv, ReferencesHold, control
    <2>. QED
      BY <2>1, <2>2 DEF ReferencesHold, RunOf
  <1>13. RowsKept
    <2>. SUFFICES ASSUME NEW i \in DOMAIN runs
                  PROVE  \/ runs'[i] = runs[i]
                         \/ /\ runs'[i].status = "running"
                            /\ runs'[i].token \in DOMAIN execs'
                            /\ execs'[runs'[i].token].run = i
                            /\ execs'[runs'[i].token].phase \in Unsettled
                            /\ runs'[i].until # NoTime
      BY <1>8 DEF RowsKept, IInv, RunningHasOwner
    <2>. DEFINE k == CHOOSE x \in DOMAIN claimed : claimed[x] = i
    <2>1. CASE \E x \in DOMAIN claimed : claimed[x] = i
      <3>1. k \in 1..n /\ claimed[k] = i
        BY <2>1, <1>3
      <3>2. runs'[i] = ClaimRow(runs[i], Len(execs) + k, now)
        BY <2>1, <1>2 DEF ClaimRuns
      <3>. HIDE DEF k
      <3>3. runs[i] \in RunRow
        BY <1>1, SeqDomain
      <3>4. /\ runs'[i].status = "running"
            /\ runs'[i].token = Len(execs) + k
            /\ runs'[i].until = now + LeaseLen
        BY <3>2, <3>3 DEF ClaimRow, RunRow
      <3>5. now + LeaseLen # NoTime
        BY <1>1, LeaseEndType
      <3>6. Len(execs) + k \in DOMAIN execs'
        BY <3>1, <1>1, <1>4, <1>7
      <3>. QED
        BY <3>1, <3>4, <3>5, <3>6, <1>5, <1>7 DEF Unsettled
    <2>2. CASE ~\E x \in DOMAIN claimed : claimed[x] = i
      BY <2>2, <1>2 DEF ClaimRuns
    <2>. QED
      BY <2>1, <2>2
  <1>14. RunningHasOwner'
    BY <1>11, <1>13, OwnerStep DEF IInv
  <1>. QED
    BY <1>10, <1>12, <1>14 DEF IInv

-----------------------------------------------------------------------------
(* Polls and materialization preserve the invariant *)

\* Changes to the run table that leave claims to their owners.
LEMMA RowsOnlyInv ==
  ASSUME IInv, specs' \in [Specs -> SpecRow],
         runs' \in Seq(RunRow), DOMAIN runs \subseteq DOMAIN runs', RowsKept,
         pc' \in [Actors -> Places], todo' \in [Actors -> SUBSET Item],
         target' \in [spec: Specs, reset: BOOLEAN],
         pollAt' \in [Runners -> Nat],
         used' \in [edits: Nat, faults: Nat],
         UNCHANGED <<now, execs, status, active>>
  PROVE  IInv'
  <1>1. TypeOK'
    BY DEF IInv, TypeOK
  <1>2. ExecsKept /\ OwnersKept
    BY DEF ExecsKept, OwnersKept
  <1>3. ReferencesHold'
    BY <1>2, ReferencesStep
  <1>4. RunningHasOwner'
    BY <1>2, OwnerStep DEF IInv
  <1>. QED
    BY <1>1, <1>3, <1>4 DEF IInv

\* Only queued rows, which have no claim, are cancelled.
LEMMA CancelledRows ==
  ASSUME IInv, NEW I, \A i \in I : i \in DOMAIN runs => runs[i].status = "queued"
  PROVE  /\ CancelRuns(runs, I) \in Seq(RunRow)
         /\ DOMAIN CancelRuns(runs, I) = DOMAIN runs
         /\ \A i \in DOMAIN runs :
              \/ CancelRuns(runs, I)[i] = runs[i]
              \/ /\ CancelRuns(runs, I)[i].status = "cancelled"
                 /\ CancelRuns(runs, I)[i].token = NoToken
  <1>1. ASSUME NEW i \in DOMAIN runs
        PROVE  \/ CancelRuns(runs, I)[i] = runs[i]
               \/ /\ CancelRuns(runs, I)[i].status = "cancelled"
                  /\ CancelRuns(runs, I)[i].token = NoToken
    <2>1. runs[i] \in RunRow
      BY SeqDomain DEF IInv, TypeOK
    <2>2. CASE i \in I
      <3>1. runs[i].token = NoToken
        BY <2>2 DEF IInv, RunningHasOwner
      <3>2. CancelRuns(runs, I)[i] = [runs[i] EXCEPT !.status = "cancelled"]
        BY <2>2 DEF CancelRuns
      <3>. QED
        BY <2>1, <3>1, <3>2 DEF RunRow
    <2>3. CASE i \notin I
      BY <2>3 DEF CancelRuns
    <2>. QED
      BY <2>2, <2>3
  <1>2. runs \in Seq(RunRow)
    BY DEF IInv, TypeOK
  <1>. QED
    BY <1>1, <1>2, CancelRunsType

\* Cancelling queued rows leaves claims alone.
LEMMA CancelKeepsRows ==
  ASSUME IInv, NEW I, \A i \in I : i \in DOMAIN runs => runs[i].status = "queued",
         runs' = CancelRuns(runs, I)
  PROVE  runs' \in Seq(RunRow) /\ DOMAIN runs' = DOMAIN runs /\ RowsKept
  <1>1. /\ runs' \in Seq(RunRow) /\ DOMAIN runs' = DOMAIN runs
        /\ \A i \in DOMAIN runs :
             \/ runs'[i] = runs[i]
             \/ runs'[i].status = "cancelled" /\ runs'[i].token = NoToken
    BY CancelledRows
  <1>. QED
    BY <1>1 DEF RowsKept

\* A queued row is appended, perhaps after queued rows were cancelled.
LEMMA AppendKeepsRows ==
  ASSUME IInv, NEW s \in Specs, NEW v \in Nat, NEW kind \in RunKinds,
         NEW at \in Nat, NEW I,
         \A i \in I : i \in DOMAIN runs => runs[i].status = "queued",
         NEW before \in {runs, CancelRuns(runs, I)},
         runs' = Append(before, NewRun(s, v, kind, at))
  PROVE  runs' \in Seq(RunRow) /\ DOMAIN runs \subseteq DOMAIN runs' /\ RowsKept
  <1>. DEFINE row == NewRun(s, v, kind, at)
  <1>1. row \in RunRow
    BY NewRunType
  <1>2. row.status # "running" /\ row.token = NoToken
    BY DEF NewRun
  <1>. HIDE DEF row
  <1>3. /\ before \in Seq(RunRow) /\ DOMAIN before = DOMAIN runs
        /\ \A i \in DOMAIN runs :
             \/ before[i] = runs[i]
             \/ before[i].status = "cancelled" /\ before[i].token = NoToken
    <2>1. CASE before = runs
      BY <2>1 DEF IInv, TypeOK
    <2>2. CASE before = CancelRuns(runs, I)
      BY <2>2, CancelledRows
    <2>. QED
      BY <2>1, <2>2
  <1>4. Len(before) \in Nat /\ DOMAIN before = 1..Len(before)
    BY <1>3, SeqDomain
  <1>5. /\ runs' \in Seq(RunRow) /\ DOMAIN runs' = 1..(Len(before) + 1)
        /\ \A i \in DOMAIN runs : runs'[i] = before[i]
        /\ runs'[Len(before) + 1] = row
    BY <1>1, <1>3, AppendSeq DEF row
  <1>6. \A i \in DOMAIN runs' : i \in DOMAIN runs \/ i = Len(before) + 1
    BY <1>3, <1>4, <1>5
  <1>. QED
    BY <1>2, <1>3, <1>4, <1>5, <1>6 DEF RowsKept

\* enqueueRun leaves claims alone.
LEMMA QueueKeepsRows ==
  ASSUME IInv, NEW s \in Specs, NEW v \in Nat, NEW kind \in RunKinds,
         NEW at \in Nat, runs' = Append(runs, NewRun(s, v, kind, at))
  PROVE  runs' \in Seq(RunRow) /\ DOMAIN runs \subseteq DOMAIN runs' /\ RowsKept
  <1>. DEFINE none == {}
  <1>1. /\ \A i \in none : i \in DOMAIN runs => runs[i].status = "queued"
        /\ runs \in {runs, CancelRuns(runs, none)}
    OBVIOUS
  <1>. HIDE DEF none
  <1>. QED
    BY <1>1, AppendKeepsRows

\* An unchanged table leaves claims alone.
LEMMA SameRows ==
  ASSUME IInv, runs' = runs
  PROVE  runs' \in Seq(RunRow) /\ DOMAIN runs \subseteq DOMAIN runs' /\ RowsKept
  BY DEF RowsKept, IInv, TypeOK, RunningHasOwner

\* The rows a materialization reads are well typed.
LEMMA OneOffItems ==
  ASSUME IInv
  PROVE  UnconsumedOneOffs \in SUBSET Item
  <1>1. now \in Nat /\ specs \in [Specs -> SpecRow]
    BY DEF IInv, TypeOK
  <1>2. ASSUME NEW s \in Specs
        PROVE  [spec |-> s, revision |-> specs[s].revision,
                at |-> IF specs[s].nextRunAt = NoTime THEN now
                       ELSE specs[s].nextRunAt] \in Item
    BY <1>1 DEF Item, SpecRow, OptTime
  <1>. QED
    BY <1>2 DEF UnconsumedOneOffs

\* Entering a materialization keeps the control state well typed.
LEMMA MaterializeType ==
  ASSUME IInv, NEW a \in Actors, NEW items \in SUBSET Item,
         Materialize(a, items)
  PROVE  pc' \in [Actors -> Places] /\ todo' \in [Actors -> SUBSET Item]
  <1>1. pc \in [Actors -> Places] /\ todo \in [Actors -> SUBSET Item]
    BY DEF IInv, TypeOK
  <1>. QED
    BY <1>1 DEF Materialize, Places

\* A poll renews active claims and aborts lost ones.
LEMMA TickBeginInv ==
  ASSUME IInv, NEW r \in Runners, TickBegin(r)
  PROVE  IInv'
  <1>. DEFINE renewed(i) == \E t \in active[r] : RunOf(t) = i /\ Owns(runs, i, t)
              lost == {t \in active[r] : ~Owns(runs, RunOf(t), t)}
  <1>1. /\ runs' = [i \in DOMAIN runs |->
                      IF renewed(i)
                      THEN [runs[i] EXCEPT !.until = now + LeaseLen]
                      ELSE runs[i]]
        /\ execs' = Abort(lost, "cancelled")
        /\ Materialize(r, UnconsumedOneOffs)
        /\ pollAt' = [pollAt EXCEPT ![r] = now + Poll]
        /\ UNCHANGED <<now, specs, status, active, target, used>>
    BY DEF TickBegin
  <1>. HIDE DEF renewed, lost
  <1>2. /\ runs \in Seq(RunRow) /\ Len(runs) \in Nat /\ now \in Nat
        /\ DOMAIN runs = 1..Len(runs)
        /\ \A i \in DOMAIN runs : runs[i] \in RunRow
    BY SeqDomain DEF IInv, TypeOK
  <1>3. DOMAIN runs' = DOMAIN runs
    BY <1>1
  <1>4. \A i \in DOMAIN runs :
          \/ runs'[i] = runs[i]
          \/ runs'[i] = [runs[i] EXCEPT !.until = now + LeaseLen]
    BY <1>1
  <1>5. runs' \in Seq(RunRow)
    <2>1. now + LeaseLen \in OptTime
      BY <1>2, LeaseEndType
    <2>2. \A i \in DOMAIN runs : runs'[i] \in RunRow
      BY <1>2, <1>4, <2>1 DEF RunRow
    <2>3. runs' = [i \in 1..Len(runs) |-> runs'[i]]
      BY <1>1, <1>2
    <2>4. runs' \in [1..Len(runs) -> RunRow]
      BY <1>2, <2>2, <2>3
    <2>. QED
      BY <1>2, <2>4, FunIsSeq
  <1>6. RowsKept
    BY <1>3, <1>4, RenewalKeepsRows
  <1>7. /\ execs' \in Seq(Exec) /\ DOMAIN execs' = DOMAIN execs
        /\ \A t \in DOMAIN execs : /\ execs'[t].run = execs[t].run
                                   /\ execs'[t].phase = execs[t].phase
    BY <1>1, AbortExecs
  <1>8. ExecsKept /\ OwnersKept
    BY <1>7 DEF ExecsKept, OwnersKept
  <1>9. pc' \in [Actors -> Places] /\ todo' \in [Actors -> SUBSET Item]
    BY <1>1, OneOffItems, MaterializeType DEF Actors
  <1>10. pollAt' \in [Runners -> Nat]
    BY <1>1, <1>2, PeriodsAssumption DEF IInv, TypeOK
  <1>11. TypeOK'
    BY <1>1, <1>5, <1>7, <1>9, <1>10 DEF IInv, TypeOK
  <1>12. ReferencesHold'
    BY <1>1, <1>3, <1>7, <1>8, ReferencesStep
  <1>13. RunningHasOwner'
    BY <1>6, <1>8, OwnerStep DEF IInv
  <1>. QED
    BY <1>11, <1>12, <1>13 DEF IInv

\* materializeOneOff inserts a run.
LEMMA EnqueueOneOffInv ==
  ASSUME IInv, NEW a \in Actors, EnqueueOneOff(a)
  PROVE  IInv'
  <1>1. /\ pc \in [Actors -> Places] /\ todo \in [Actors -> SUBSET Item]
        /\ specs \in [Specs -> SpecRow]
        /\ target \in [spec: Specs, reset: BOOLEAN]
        /\ pollAt \in [Runners -> Nat]
        /\ used \in [edits: Nat, faults: Nat]
    BY DEF IInv, TypeOK
  <1>2. UNCHANGED <<now, specs, execs, status, pollAt, active, target, used>>
    BY DEF EnqueueOneOff, control
  <1>3. PICK item \in todo[a] :
          \/ /\ pc' = [pc EXCEPT ![a] = "idle"]
             /\ todo' = [todo EXCEPT ![a] = {}]
             /\ runs' = runs
          \/ /\ runs' = Append(runs, NewRun(item.spec, item.revision,
                                            "one_off", item.at))
             /\ Materialize(a, todo[a] \ {item})
    BY DEF EnqueueOneOff
  <1>4. item \in Item /\ todo[a] \ {item} \in SUBSET Item
    BY <1>1
  <1>5. runs' \in Seq(RunRow) /\ DOMAIN runs \subseteq DOMAIN runs' /\ RowsKept
    <2>1. /\ item.spec \in Specs /\ item.revision \in Nat /\ item.at \in Nat
          /\ "one_off" \in RunKinds
      BY <1>4 DEF Item, RunKinds
    <2>. QED
      BY <1>3, <2>1, SameRows, QueueKeepsRows
  <1>6. pc' \in [Actors -> Places] /\ todo' \in [Actors -> SUBSET Item]
    <2>1. CASE /\ pc' = [pc EXCEPT ![a] = "idle"]
               /\ todo' = [todo EXCEPT ![a] = {}]
      BY <1>1, <2>1 DEF Places
    <2>2. CASE Materialize(a, todo[a] \ {item})
      BY <1>4, <2>2, MaterializeType
    <2>. QED
      BY <1>3, <2>1, <2>2
  <1>. QED
    BY <1>1, <1>2, <1>5, <1>6, RowsOnlyInv

\* materializeDueScheduleRun inserts a run and advances the schedule.
LEMMA MaterializeSchedulesInv ==
  ASSUME IInv, NEW a \in Actors, MaterializeSchedules(a)
  PROVE  IInv'
  <1>1. /\ pc \in [Actors -> Places] /\ todo \in [Actors -> SUBSET Item]
        /\ specs \in [Specs -> SpecRow] /\ now \in Nat
        /\ target \in [spec: Specs, reset: BOOLEAN]
        /\ pollAt \in [Runners -> Nat]
        /\ used \in [edits: Nat, faults: Nat]
    BY DEF IInv, TypeOK
  <1>2. UNCHANGED <<now, execs, status, pollAt, active, todo, target, used>>
    BY DEF MaterializeSchedules, control
  <1>3. pc' \in [Actors -> Places]
    <2>1. \/ pc' = pc
          \/ pc' = [pc EXCEPT ![a] = IF a \in Runners THEN "supersede"
                                                      ELSE "idle"]
      BY DEF MaterializeSchedules
    <2>. QED
      BY <1>1, <2>1 DEF Places
  <1>4. CASE \E s \in Specs : OccurrenceDue(specs[s], now)
    <2>1. PICK s \in Specs :
            /\ OccurrenceDue(specs[s], now)
            /\ runs' = Append(runs, NewRun(s, specs[s].revision, "schedule",
                                           specs[s].nextRunAt))
            /\ specs' = [specs EXCEPT ![s] = AdvanceSchedule(specs[s], now)]
      BY <1>4 DEF MaterializeSchedules
    <2>2. AdvanceSchedule(specs[s], now) \in SpecRow
      BY <1>1, AdvanceScheduleType
    <2>3. specs' \in [Specs -> SpecRow]
      BY <1>1, <2>1, <2>2
    <2>4. /\ specs[s].revision \in Nat /\ specs[s].nextRunAt \in Nat
          /\ "schedule" \in RunKinds
      BY <1>1, <2>1 DEF SpecRow, OptTime, OccurrenceDue, RunKinds
    <2>5. /\ runs' \in Seq(RunRow) /\ DOMAIN runs \subseteq DOMAIN runs'
          /\ RowsKept
      BY <2>1, <2>4, QueueKeepsRows
    <2>. QED
      BY <1>1, <1>2, <1>3, <2>3, <2>5, RowsOnlyInv
  <1>5. CASE ~\E s \in Specs : OccurrenceDue(specs[s], now)
    <2>1. /\ specs' = [s \in Specs |-> AdvanceSchedule(specs[s], now)]
          /\ runs' = runs
      BY <1>5 DEF MaterializeSchedules
    <2>2. specs' \in [Specs -> SpecRow]
      BY <1>1, <2>1, AdvanceScheduleType
    <2>. QED
      BY <1>1, <1>2, <1>3, <2>1, <2>2, SameRows, RowsOnlyInv
  <1>. QED
    BY <1>4, <1>5

\* cancelSupersededScheduleRuns.
LEMMA CancelSupersededInv ==
  ASSUME IInv, NEW r \in Runners, CancelSuperseded(r)
  PROVE  IInv'
  <1>1. /\ pc \in [Actors -> Places] /\ r \in Actors
        /\ UNCHANGED <<now, specs, execs, control, todo, target, used>>
        /\ pc' = [pc EXCEPT ![r] = "claim"]
        /\ runs' = CancelRuns(runs, Superseded(runs))
    BY DEF IInv, TypeOK, CancelSuperseded, Actors
  <1>2. \A i \in Superseded(runs) : runs[i].status = "queued"
    BY DEF Superseded
  <1>3. runs' \in Seq(RunRow) /\ DOMAIN runs' = DOMAIN runs /\ RowsKept
    BY <1>1, <1>2, CancelKeepsRows
  <1>4. pc' \in [Actors -> Places]
    BY <1>1 DEF Places
  <1>. QED
    BY <1>1, <1>3, <1>4, RowsOnlyInv DEF IInv, TypeOK, control

-----------------------------------------------------------------------------
(* Stops, starts, crashes and the clock preserve the invariant *)

\* Neither table of claims changes.
LEMMA ClaimsUnchangedInv ==
  ASSUME IInv, TypeOK', UNCHANGED <<runs, execs, active>>
  PROVE  IInv'
  BY DEF IInv, ReferencesHold, RunningHasOwner, RunOf

\* stop aborts the active executions.
LEMMA StopInv ==
  ASSUME IInv, NEW r \in Runners, Stop(r)
  PROVE  IInv'
  <1>1. /\ status' \in [Runners -> {"up", "stopping", "stopped"}]
        /\ used' \in [edits: Nat, faults: Nat]
    <2>1. used.faults + 1 \in Nat
      BY DEF IInv, TypeOK
    <2>. QED
      BY <2>1 DEF IInv, TypeOK, Stop, Fault
  <1>2. /\ execs' = Abort(active[r], "cancelled")
        /\ UNCHANGED <<now, store, pollAt, active, section>>
    BY DEF Stop
  <1>. QED
    BY <1>1, <1>2, AbortInv

\* stop resolves.
LEMMA StoppedInv ==
  ASSUME IInv, NEW r \in Runners, Stopped(r)
  PROVE  IInv'
  <1>1. TypeOK'
    BY DEF IInv, TypeOK, Stopped, store, section
  <1>. QED
    BY <1>1, ClaimsUnchangedInv DEF Stopped, store

\* start.
LEMMA StartInv ==
  ASSUME IInv, NEW r \in Runners, Start(r)
  PROVE  IInv'
  <1>1. TypeOK'
    BY DEF IInv, TypeOK, Start, store, section
  <1>. QED
    BY <1>1, ClaimsUnchangedInv DEF Start, store

\* A process dies: its executions keep what they had not settled.
LEMMA CrashInv ==
  ASSUME IInv, NEW p \in Procs, Crash(p)
  PROVE  IInv'
  <1>. DEFINE dead == {r \in Runners : Proc[r] = p}
  <1>1. /\ status' = [r \in Runners |-> IF r \in dead THEN "stopped"
                                                      ELSE status[r]]
        /\ active' = [r \in Runners |-> IF r \in dead THEN {} ELSE active[r]]
        /\ execs' = [t \in DOMAIN execs |->
                       IF RunnerOf(t) \in dead /\ execs[t].phase # "over"
                       THEN [execs[t] EXCEPT !.phase = "dead"]
                       ELSE execs[t]]
        /\ pc' = [a \in Actors |-> IF Proc[a] = p THEN "idle" ELSE pc[a]]
        /\ todo' = [a \in Actors |-> IF Proc[a] = p THEN {} ELSE todo[a]]
        /\ used' = [used EXCEPT !.faults = @ + 1]
        /\ UNCHANGED <<now, store, pollAt, target>>
    BY DEF Crash, Fault
  <1>. HIDE DEF dead
  <1>2. /\ execs \in Seq(Exec) /\ Len(execs) \in Nat
        /\ DOMAIN execs = 1..Len(execs)
        /\ \A t \in DOMAIN execs : execs[t] \in Exec
    BY SeqDomain DEF IInv, TypeOK
  <1>3. ASSUME NEW t \in DOMAIN execs
        PROVE  /\ execs'[t] \in Exec
               /\ execs'[t].run = execs[t].run
               /\ execs[t].phase \in Unsettled => execs'[t].phase \in Unsettled
    <2>1. \/ execs'[t] = execs[t]
          \/ execs'[t] = [execs[t] EXCEPT !.phase = "dead"]
      BY <1>1
    <2>. QED
      BY <1>2, <2>1 DEF Exec, Phases, Unsettled
  <1>4. execs' \in Seq(Exec) /\ DOMAIN execs' = DOMAIN execs
    <2>1. execs' = [t \in 1..Len(execs) |-> execs'[t]]
      BY <1>1, <1>2
    <2>2. execs' \in [1..Len(execs) -> Exec]
      BY <1>2, <1>3, <2>1
    <2>. QED
      BY <1>2, <2>2, FunIsSeq
  <1>5. used' \in [edits: Nat, faults: Nat]
    <2>1. used.faults + 1 \in Nat
      BY DEF IInv, TypeOK
    <2>. QED
      BY <1>1, <2>1 DEF IInv, TypeOK
  <1>6. /\ active' \in [Runners -> SUBSET Nat]
        /\ \A r \in Runners : active'[r] \subseteq active[r]
    BY <1>1 DEF IInv, TypeOK
  <1>7. /\ status' \in [Runners -> {"up", "stopping", "stopped"}]
        /\ pc' \in [Actors -> Places]
        /\ todo' \in [Actors -> SUBSET Item]
    BY <1>1 DEF IInv, TypeOK, Places
  <1>8. TypeOK'
    BY <1>1, <1>4, <1>5, <1>6, <1>7 DEF IInv, TypeOK, store
  <1>9. ExecsKept
    BY <1>3, <1>4 DEF ExecsKept
  <1>10. ReferencesHold'
    BY <1>1, <1>4, <1>6, <1>9, ReferencesStep DEF store
  <1>11. RunningHasOwner'
    BY <1>1, <1>3, <1>4, <1>9, QuietStep DEF store
  <1>. QED
    BY <1>8, <1>10, <1>11 DEF IInv

\* Time passes.
LEMMA AdvanceInv ==
  ASSUME IInv, Advance
  PROVE  IInv'
  <1>1. TypeOK'
    BY DEF IInv, TypeOK, Advance, store, control, section
  <1>. QED
    BY <1>1, ClaimsUnchangedInv DEF Advance, store, control

\* The machine sleeps.
LEMMA SleepInv ==
  ASSUME IInv, Sleep
  PROVE  IInv'
  <1>1. used' \in [edits: Nat, faults: Nat]
    <2>1. used.faults + 1 \in Nat
      BY DEF IInv, TypeOK
    <2>. QED
      BY <2>1 DEF IInv, TypeOK, Sleep, Fault
  <1>2. now' \in Nat
    BY LeaseAssumption DEF IInv, TypeOK, Sleep, Night
  <1>3. TypeOK'
    BY <1>1, <1>2 DEF IInv, TypeOK, Sleep, store, control, section
  <1>. QED
    BY <1>3, ClaimsUnchangedInv DEF Sleep, store, control

-----------------------------------------------------------------------------
(* Authors preserve the invariant *)

\* What the invariant says of the state authors use.
LEMMA AuthorFacts ==
  ASSUME IInv
  PROVE  /\ now \in Nat
         /\ specs \in [Specs -> SpecRow]
         /\ pc \in [Actors -> Places]
         /\ todo \in [Actors -> SUBSET Item]
         /\ target \in [spec: Specs, reset: BOOLEAN]
         /\ pollAt \in [Runners -> Nat]
         /\ used \in [edits: Nat, faults: Nat]
         /\ Author \in Actors
  BY DEF IInv, TypeOK, Actors

\* An author operation is counted.
LEMMA AuthorActsType ==
  ASSUME IInv, AuthorActs
  PROVE  used' \in [edits: Nat, faults: Nat]
  <1>1. used.edits + 1 \in Nat
    BY DEF IInv, TypeOK
  <1>. QED
    BY <1>1, AuthorFacts DEF AuthorActs

\* createHubSchedule inserts a spec.
LEMMA CreateHubScheduleInv ==
  ASSUME IInv, NEW s \in Specs, NEW def \in Definitions,
         CreateHubSchedule(s, def)
  PROVE  IInv'
  <1>1. UpsertSpec(specs[s], def) \in SpecRow
    BY AuthorFacts, DefinitionsAssumption, UpsertSpecType
  <1>2. /\ specs' = [specs EXCEPT ![s] = UpsertSpec(specs[s], def)]
        /\ pc' = [pc EXCEPT ![Author] = "initNextRun"]
        /\ target' = [spec |-> s, reset |-> TRUE]
        /\ UNCHANGED <<now, runs, execs, control, todo>>
        /\ AuthorActs
    BY DEF CreateHubSchedule
  <1>3. /\ specs' \in [Specs -> SpecRow]
        /\ pc' \in [Actors -> Places]
        /\ target' \in [spec: Specs, reset: BOOLEAN]
    BY <1>1, <1>2, AuthorFacts DEF Places
  <1>. QED
    BY <1>2, <1>3, AuthorFacts, AuthorActsType, SameRows, RowsOnlyInv DEF control

\* createHubSchedule sets the next run.
LEMMA InitializeNextRunInv ==
  ASSUME IInv, InitializeNextRun
  PROVE  IInv'
  <1>1. InitNextRun(specs[target.spec], now) \in SpecRow
    BY AuthorFacts, InitNextRunType
  <1>2. /\ specs' = [specs EXCEPT ![target.spec] =
                       InitNextRun(specs[target.spec], now)]
        /\ pc' = [pc EXCEPT ![Author] = "idle"]
        /\ UNCHANGED <<now, runs, execs, control, todo, target, used>>
    BY DEF InitializeNextRun
  <1>3. specs' \in [Specs -> SpecRow] /\ pc' \in [Actors -> Places]
    BY <1>1, <1>2, AuthorFacts DEF Places
  <1>. QED
    BY <1>2, <1>3, AuthorFacts, SameRows, RowsOnlyInv DEF control

\* updateHubSchedule edits a spec and cancels its queued one-offs.
LEMMA UpdateHubScheduleInv ==
  ASSUME IInv, NEW s \in Specs, NEW def \in Definitions,
         NEW retime \in BOOLEAN, UpdateHubSchedule(s, def, retime)
  PROVE  IInv'
  <1>. DEFINE new == UpsertSpec(specs[s], def)
  <1>1. new \in SpecRow /\ InitNextRun(new, now) \in SpecRow
    BY AuthorFacts, DefinitionsAssumption, UpsertSpecType, InitNextRunType
  <1>2. /\ specs' = [specs EXCEPT ![s] = IF retime THEN InitNextRun(new, now)
                                                   ELSE new]
        /\ \/ runs' = CancelRuns(runs, QueuedOneOffsOf(runs, s))
           \/ runs' = runs
        /\ UNCHANGED <<now, execs, control, section>>
        /\ AuthorActs
    BY DEF UpdateHubSchedule
  <1>. HIDE DEF new
  <1>3. specs' \in [Specs -> SpecRow]
    BY <1>1, <1>2, AuthorFacts
  <1>4. \A i \in QueuedOneOffsOf(runs, s) : runs[i].status = "queued"
    BY DEF QueuedOneOffsOf, QueuedOf
  <1>5. runs' \in Seq(RunRow) /\ DOMAIN runs \subseteq DOMAIN runs' /\ RowsKept
    BY <1>2, <1>4, SameRows, CancelKeepsRows
  <1>. QED
    BY <1>2, <1>3, <1>5, AuthorFacts, AuthorActsType, RowsOnlyInv
       DEF control, section

\* A spec is marked removed.
LEMMA RemoveSpecInv ==
  ASSUME IInv, NEW s \in Specs, RemoveSpec(s)
  PROVE  IInv'
  <1>1. MarkRemoved(specs[s]) \in SpecRow
    BY AuthorFacts, MarkRemovedType
  <1>2. /\ specs' = [specs EXCEPT ![s] = MarkRemoved(specs[s])]
        /\ pc' = [pc EXCEPT ![Author] = "cancelQueued"]
        /\ target' = [spec |-> s, reset |-> FALSE]
        /\ UNCHANGED <<now, runs, execs, control, todo>>
        /\ AuthorActs
    BY DEF RemoveSpec
  <1>3. /\ specs' \in [Specs -> SpecRow]
        /\ pc' \in [Actors -> Places]
        /\ target' \in [spec: Specs, reset: BOOLEAN]
    BY <1>1, <1>2, AuthorFacts DEF Places
  <1>. QED
    BY <1>2, <1>3, AuthorFacts, AuthorActsType, SameRows, RowsOnlyInv DEF control

\* The queued runs of a removed spec are cancelled.
LEMMA CancelQueuedRunsInv ==
  ASSUME IInv, CancelQueuedRuns
  PROVE  IInv'
  <1>1. /\ runs' = CancelRuns(runs, QueuedOf(runs, target.spec))
        /\ \/ pc' = [pc EXCEPT ![Author] = "idle"] /\ UNCHANGED todo
           \/ Materialize(Author, UnconsumedOneOffs)
        /\ UNCHANGED <<now, specs, execs, control, target, used>>
    BY DEF CancelQueuedRuns
  <1>2. \A i \in QueuedOf(runs, target.spec) : runs[i].status = "queued"
    BY DEF QueuedOf
  <1>3. runs' \in Seq(RunRow) /\ DOMAIN runs' = DOMAIN runs /\ RowsKept
    BY <1>1, <1>2, CancelKeepsRows
  <1>4. pc' \in [Actors -> Places] /\ todo' \in [Actors -> SUBSET Item]
    <2>1. CASE pc' = [pc EXCEPT ![Author] = "idle"] /\ UNCHANGED todo
      BY <2>1, AuthorFacts DEF Places
    <2>2. CASE Materialize(Author, UnconsumedOneOffs)
      BY <2>2, AuthorFacts, OneOffItems, MaterializeType
    <2>. QED
      BY <1>1, <2>1, <2>2
  <1>. QED
    BY <1>1, <1>3, <1>4, AuthorFacts, RowsOnlyInv DEF control

\* reconcileFile upserts a spec.
LEMMA ReconcileFileInv ==
  ASSUME IInv, NEW s \in Specs, NEW def \in Definitions, ReconcileFile(s, def)
  PROVE  IInv'
  <1>. DEFINE reset == \/ specs[s].revision = 0
                       \/ specs[s].removed
                       \/ ~specs[s].enabled
                       \/ specs[s].source.kind # def.kind
  <1>1. UpsertSpec(specs[s], def) \in SpecRow /\ reset \in BOOLEAN
    BY AuthorFacts, DefinitionsAssumption, UpsertSpecType
  <1>2. /\ specs' = [specs EXCEPT ![s] = UpsertSpec(specs[s], def)]
        /\ pc' = [pc EXCEPT ![Author] = "applyNextRun"]
        /\ target' = [spec |-> s, reset |-> reset]
        /\ UNCHANGED <<now, runs, execs, control, todo>>
        /\ AuthorActs
    BY DEF ReconcileFile
  <1>. HIDE DEF reset
  <1>3. /\ specs' \in [Specs -> SpecRow]
        /\ pc' \in [Actors -> Places]
        /\ target' \in [spec: Specs, reset: BOOLEAN]
    BY <1>1, <1>2, AuthorFacts DEF Places
  <1>. QED
    BY <1>2, <1>3, AuthorFacts, AuthorActsType, SameRows, RowsOnlyInv DEF control

\* reconcileFile sets the next run.
LEMMA ApplyFileNextRunInv ==
  ASSUME IInv, ApplyFileNextRun
  PROVE  IInv'
  <1>1. ApplyNextRun(specs[target.spec], target.reset, now) \in SpecRow
    BY AuthorFacts, ApplyNextRunType
  <1>2. /\ specs' = [specs EXCEPT ![target.spec] =
                       ApplyNextRun(specs[target.spec], target.reset, now)]
        /\ Materialize(Author, UnconsumedOneOffs)
        /\ UNCHANGED <<now, runs, execs, control, target, used>>
    BY DEF ApplyFileNextRun
  <1>3. specs' \in [Specs -> SpecRow]
    BY <1>1, <1>2, AuthorFacts
  <1>4. pc' \in [Actors -> Places] /\ todo' \in [Actors -> SUBSET Item]
    BY <1>2, AuthorFacts, OneOffItems, MaterializeType
  <1>. QED
    BY <1>2, <1>3, <1>4, AuthorFacts, SameRows, RowsOnlyInv DEF control

\* enqueueHubScheduleRun queues a manual run.
LEMMA TriggerNowInv ==
  ASSUME IInv, NEW s \in Specs, NEW r \in Runners, TriggerNow(s, r)
  PROVE  IInv'
  <1>. DEFINE queued == {i \in QueuedOneOffsOf(runs, s) :
                           runs[i].revision = specs[s].revision}
              run == NewRun(s, specs[s].revision, "manual", now)
              row == [specs[s] EXCEPT !.nextRunAt = NoTime]
  <1>1. /\ \/ runs' = runs
           \/ runs' = Append(runs, run)
           \/ runs' = Append(CancelRuns(runs, queued), run)
        /\ \/ specs' = specs
           \/ specs' = [specs EXCEPT ![s] = row]
        /\ pollAt' = [pollAt EXCEPT ![r] = now]
        /\ UNCHANGED <<now, execs, status, active, section>>
        /\ AuthorActs
    BY DEF TriggerNow
  <1>2. row \in SpecRow
    BY AuthorFacts DEF SpecRow, OptTime, NoTime
  <1>3. \A i \in queued : i \in DOMAIN runs => runs[i].status = "queued"
    BY DEF QueuedOneOffsOf, QueuedOf
  <1>4. specs[s].revision \in Nat /\ now \in Nat /\ "manual" \in RunKinds
    BY AuthorFacts DEF SpecRow, RunKinds
  <1>. HIDE DEF row, queued
  <1>5. specs' \in [Specs -> SpecRow] /\ pollAt' \in [Runners -> Nat]
    BY <1>1, <1>2, AuthorFacts
  <1>6. runs' \in Seq(RunRow) /\ DOMAIN runs \subseteq DOMAIN runs' /\ RowsKept
    <2>1. CASE runs' = runs
      BY <2>1, SameRows
    <2>2. CASE \E before \in {runs, CancelRuns(runs, queued)} :
                 runs' = Append(before, run)
      <3>1. PICK before \in {runs, CancelRuns(runs, queued)} :
              runs' = Append(before, run)
        BY <2>2
      <3>. QED
        BY <3>1, <1>3, <1>4, AppendKeepsRows
    <2>. QED
      BY <1>1, <2>1, <2>2
  <1>. QED
    BY <1>1, <1>5, <1>6, AuthorFacts, AuthorActsType, RowsOnlyInv DEF section

-----------------------------------------------------------------------------
(* The invariant *)

\* An empty run table with the seeded specs satisfies the invariant.
LEMMA InitInv == Init => IInv
  <1>. SUFFICES ASSUME Init PROVE IInv
    OBVIOUS
  <1>1. runs \in Seq(RunRow) /\ execs \in Seq(Exec)
        /\ DOMAIN runs = {} /\ DOMAIN execs = {}
    BY DEF Init
  <1>2. (CHOOSE s \in Specs : TRUE) \in Specs
    BY SpecsAssumption
  <1>3. TypeOK
    BY <1>1, <1>2, SeedAssumption DEF Init, TypeOK, Places
  <1>4. ReferencesHold /\ RunningHasOwner
    BY <1>1 DEF Init, ReferencesHold, RunningHasOwner
  <1>. QED
    BY <1>3, <1>4 DEF IInv

\* The synchronous stretches preserve the invariant.
LEMMA StretchInv ==
  ASSUME IInv, NEW a \in Actors, Stretch(a)
  PROVE  IInv'
  <1>1. CASE EnqueueOneOff(a)
    BY <1>1, EnqueueOneOffInv
  <1>2. CASE MaterializeSchedules(a)
    BY <1>2, MaterializeSchedulesInv
  <1>3. CASE a \in Runners /\ CancelSuperseded(a)
    BY <1>3, CancelSupersededInv
  <1>4. CASE a \in Runners /\ ClaimDue(a)
    BY <1>4, ClaimDueInv
  <1>5. CASE \E t \in DOMAIN execs : Dispatch(t)
    BY <1>5, DispatchInv
  <1>6. CASE InitializeNextRun \/ CancelQueuedRuns \/ ApplyFileNextRun
    BY <1>6, InitializeNextRunInv, CancelQueuedRunsInv, ApplyFileNextRunInv
  <1>. QED
    BY <1>1, <1>2, <1>3, <1>4, <1>5, <1>6 DEF Stretch

\* Timers and answers preserve the invariant.
LEMMA ExecutionInv ==
  ASSUME IInv, NEW t \in DOMAIN execs, Timers(t) \/ Answers(t)
  PROVE  IInv'
  BY HeartbeatInv, TimedOutInv, AbortDeliveredInv, CleanedUpInv, ClosedInv,
     PreparedInv, SessionStartedInv, TurnDoneInv, FailedInv DEF Timers, Answers

\* Author operations preserve the invariant.
LEMMA EditsInv ==
  ASSUME IInv, Edits
  PROVE  IInv'
  BY CreateHubScheduleInv, ReconcileFileInv, UpdateHubScheduleInv,
     RemoveSpecInv, TriggerNowInv DEF Edits

\* The invariant is inductive.
LEMMA NextInv == IInv /\ [Next]_vars => IInv'
  <1>. SUFFICES ASSUME IInv, [Next]_vars PROVE IInv'
    OBVIOUS
  <1>1. CASE \E a \in Actors : Stretch(a)
    BY <1>1, StretchInv
  <1>2. CASE \E t \in DOMAIN execs : Timers(t) \/ Answers(t)
    BY <1>2, ExecutionInv
  <1>3. CASE \E r \in Runners : TickBegin(r) \/ Stop(r) \/ Stopped(r) \/ Start(r)
    BY <1>3, TickBeginInv, StopInv, StoppedInv, StartInv
  <1>4. CASE \E p \in Procs : Crash(p)
    BY <1>4, CrashInv
  <1>5. CASE Edits
    BY <1>5, EditsInv
  <1>6. CASE Advance \/ Sleep
    BY <1>6, AdvanceInv, SleepInv
  <1>7. CASE UNCHANGED vars
    BY <1>7 DEF vars, store, control, section, IInv, TypeOK, ReferencesHold,
                RunningHasOwner, RunOf
  <1>. QED
    BY <1>1, <1>2, <1>3, <1>4, <1>5, <1>6, <1>7 DEF Next, Halt

(* In every reachable state the tables are well typed, executions and
   activeRuns refer to rows and claims that exist, and every row that
   claimDueRuns marked running has an owner. *)
THEOREM InvariantHolds == Spec => []IInv
  BY InitInv, NextInv, PTL DEF Spec

(* The state keeps its types: in particular a claim never corrupts a row of
   cron_runs, whatever the interleaving of runners, authors and crashes. *)
THEOREM TypesHold == Spec => []TypeOK
  <1>1. IInv => TypeOK
    BY DEF IInv
  <1>. QED
    BY <1>1, InvariantHolds, PTL

(* Every running row has an owner that can still settle it, or that died and
   whose lease runs out; no row is left running with nobody to finish it. *)
THEOREM OwnershipHolds == Spec => []RunningHasOwner
  <1>1. IInv => RunningHasOwner
    BY DEF IInv
  <1>. QED
    BY <1>1, InvariantHolds, PTL
-----------------------------------------------------------------------------
(***************************************************************************)
(* What a step of the system may do to a row of cron_runs, for every value *)
(* of the constants: a queued or expired row is claimed under a fresh      *)
(* token, a held row is renewed or settled by its holder, a queued row is  *)
(* withdrawn, and nothing else.  TerminalIsFinal, OnlyOwnerSettles and the *)
(* refinement of LeasedWork follow from that one fact.                     *)
(***************************************************************************)

-----------------------------------------------------------------------------
(* The fates of a row *)

\* What a run is for never changes.
SameJob(i) ==
  /\ runs'[i].spec = runs[i].spec
  /\ runs'[i].revision = runs[i].revision
  /\ runs'[i].kind = runs[i].kind
  /\ runs'[i].scheduledFor = runs[i].scheduledFor

Claimed(i) ==
  /\ \E r \in Runners : pc[r] = "claim"
  /\ SameJob(i)
  /\ \/ runs[i].status = "queued"
     \/ runs[i].status = "running" /\ runs[i].until <= now
  /\ runs'[i].status = "running"
  /\ runs'[i].token \in (Len(execs) + 1)..Len(execs')
  /\ runs'[i].until = now + LeaseLen

Renewed(i) ==
  /\ runs[i].status = "running"
  /\ runs'[i] = [runs[i] EXCEPT !.until = now + LeaseLen]

Withdrawn(i) ==
  /\ runs[i].status = "queued"
  /\ runs'[i] = [runs[i] EXCEPT !.status = "cancelled"]

Settled(i) ==
  /\ runs[i].status = "running"
  /\ execs[runs[i].token].phase \in Unsettled \ {"dead"}
  /\ execs'[runs[i].token].phase \in {"closing", "over"}
  /\ SameJob(i)
  /\ runs'[i].status \in Terminal
  /\ runs'[i].token = NoToken
  /\ runs'[i].until = NoTime

Fate(i) ==
  \/ runs'[i] = runs[i]
  \/ Claimed(i)
  \/ Renewed(i)
  \/ Withdrawn(i)
  \/ Settled(i)

Added(i) ==
  /\ runs'[i].status = "queued"
  /\ runs'[i].token = NoToken
  /\ runs'[i].until = NoTime

\* A step at one instant.
Fates ==
  /\ now' = now
  /\ DOMAIN runs \subseteq DOMAIN runs'
  /\ DOMAIN execs \subseteq DOMAIN execs'
  /\ \A i \in DOMAIN runs : Fate(i)
  /\ \A i \in DOMAIN runs' \ DOMAIN runs : Added(i)

\* A step of the clock.
ClockOnly == now' > now /\ UNCHANGED <<runs, execs>>

\* A step that leaves cron_runs alone.
LEMMA RowsUntouched ==
  ASSUME UNCHANGED <<now, runs>>, DOMAIN execs \subseteq DOMAIN execs'
  PROVE  Fates
  BY DEF Fates, Fate

-----------------------------------------------------------------------------
(* Settlement *)

\* completeRun under the token of an execution that ends with it.
LEMMA SettleFates ==
  ASSUME IInv, NEW t \in DOMAIN execs, NEW outcome \in Terminal,
         runs' = CompleteRun(runs, RunOf(t), t, outcome),
         execs[t].phase \in Unsettled \ {"dead"},
         execs'[t].phase \in {"closing", "over"},
         DOMAIN execs' = DOMAIN execs, now' = now
  PROVE  Fates
  <1>1. t \in Nat /\ t # NoToken
    BY SeqDomain DEF IInv, TypeOK, NoToken
  <1>2. RunOf(t) \in DOMAIN runs /\ runs[RunOf(t)] \in RunRow
    BY ExecFacts
  <1>3. CASE Owns(runs, RunOf(t), t)
    <2>1. runs[RunOf(t)].token = t /\ runs[RunOf(t)].status = "running"
      BY <1>1, <1>2, <1>3 DEF Owns, IInv, RunningHasOwner
    <2>2. runs' = [runs EXCEPT ![RunOf(t)] =
                     [@ EXCEPT !.status = outcome, !.token = NoToken,
                               !.until = NoTime]]
      BY <1>3 DEF CompleteRun
    <2>3. /\ DOMAIN runs' = DOMAIN runs
          /\ \A i \in DOMAIN runs : i # RunOf(t) => runs'[i] = runs[i]
          /\ runs'[RunOf(t)].status = outcome
          /\ runs'[RunOf(t)].token = NoToken
          /\ runs'[RunOf(t)].until = NoTime
          /\ SameJob(RunOf(t))
      BY <1>2, <2>2 DEF RunRow, SameJob
    <2>4. Settled(RunOf(t))
      BY <2>1, <2>3 DEF Settled
    <2>. QED
      BY <2>3, <2>4 DEF Fates, Fate
  <1>4. CASE ~Owns(runs, RunOf(t), t)
    BY <1>4, RowsUntouched DEF CompleteRun
  <1>. QED
    BY <1>3, <1>4

\* An execution settles its run and leaves, or closes its session.
LEMMA EndFates ==
  ASSUME IInv, NEW t \in DOMAIN execs, NEW outcome \in Terminal,
         Settle(t, outcome), StopSession(t) \/ Leave(t),
         execs[t].phase \in Working, now' = now
  PROVE  Fates
  <1>1. execs[t].phase \in Unsettled \ {"dead"}
    BY DEF Unsettled, Working, Awaiting
  <1>2. DOMAIN execs' = DOMAIN execs /\ execs'[t].phase \in {"closing", "over"}
    BY StopSessionFacts, LeaveFacts
  <1>. QED
    BY <1>1, <1>2, SettleFates DEF Settle

-----------------------------------------------------------------------------
(* Executions *)

\* A heartbeat renews the lease of the row its token owns.
LEMMA HeartbeatFates ==
  ASSUME IInv, NEW t \in DOMAIN execs, Heartbeat(t)
  PROVE  Fates
  <1>1. t \in Nat /\ t # NoToken
    BY SeqDomain DEF IInv, TypeOK, NoToken
  <1>2. RunOf(t) \in DOMAIN runs
    BY ExecFacts
  <1>3. now' = now /\ runs' = RenewClaim(runs, RunOf(t), t, now)
    BY DEF Heartbeat
  <1>4. DOMAIN execs' = DOMAIN execs
    BY AbortExecs DEF Heartbeat
  <1>5. CASE Owns(runs, RunOf(t), t)
    <2>1. runs[RunOf(t)].status = "running"
      BY <1>1, <1>2, <1>5 DEF Owns, IInv, RunningHasOwner
    <2>2. runs' = [runs EXCEPT ![RunOf(t)].until = now + LeaseLen]
      BY <1>3, <1>5 DEF RenewClaim
    <2>3. /\ DOMAIN runs' = DOMAIN runs
          /\ \A i \in DOMAIN runs : i # RunOf(t) => runs'[i] = runs[i]
          /\ runs'[RunOf(t)] = [runs[RunOf(t)] EXCEPT !.until = now + LeaseLen]
      BY <1>2, <2>2
    <2>4. Renewed(RunOf(t))
      BY <2>1, <2>3 DEF Renewed
    <2>. QED
      BY <1>3, <1>4, <2>3, <2>4 DEF Fates, Fate
  <1>6. CASE ~Owns(runs, RunOf(t), t)
    BY <1>3, <1>4, <1>6, RowsUntouched DEF RenewClaim
  <1>. QED
    BY <1>5, <1>6

\* Every await of executeClaim that continues or is aborted.
LEMMA ExecutionFates ==
  ASSUME IInv, NEW t \in DOMAIN execs, Timers(t) \/ Answers(t)
  PROVE  Fates
  <1>1. CASE Heartbeat(t)
    BY <1>1, HeartbeatFates
  <1>2. CASE Prepared(t) \/ SessionStarted(t)
    <2>1. UNCHANGED <<now, runs>>
      BY <1>2 DEF Prepared, SessionStarted, store
    <2>2. DOMAIN execs' = DOMAIN execs
      BY <1>2 DEF Prepared, SessionStarted
    <2>. QED
      BY <2>1, <2>2, RowsUntouched
  <1>3. CASE TimedOut(t)
    <2>1. UNCHANGED <<now, runs>> /\ execs' = Abort({t}, "timeout")
      BY <1>3 DEF TimedOut, store
    <2>. QED
      BY <2>1, AbortExecs, RowsUntouched
  <1>4. CASE Closed(t)
    <2>1. UNCHANGED <<now, runs>> /\ Leave(t)
      BY <1>4 DEF Closed, store
    <2>. QED
      BY <2>1, LeaveFacts, RowsUntouched
  <1>5. CASE TurnDone(t) \/ Failed(t) \/ CleanedUp(t)
    <2>1. now' = now /\ execs[t].phase \in Working
      BY <1>5 DEF TurnDone, Failed, CleanedUp, Working, Awaiting
    <2>2. StopSession(t) \/ Leave(t)
      BY <1>5 DEF TurnDone, Failed, CleanedUp
    <2>3. \E outcome \in Terminal : Settle(t, outcome)
      BY <1>5 DEF TurnDone, Failed, CleanedUp, Outcome, Terminal
    <2>. QED
      BY <2>1, <2>2, <2>3, EndFates
  <1>6. CASE AbortDelivered(t)
    <2>1. now' = now /\ execs[t].phase \in Working
      BY <1>6 DEF AbortDelivered, Working
    <2>2. CASE execs[t].phase = "running"
      <3>1. runs' = runs /\ DOMAIN execs' = DOMAIN execs
        BY <1>6, <2>2 DEF AbortDelivered
      <3>. QED
        BY <2>1, <3>1, RowsUntouched
    <2>3. CASE execs[t].phase # "running"
      <3>1. Settle(t, Outcome(t)) /\ Leave(t)
        BY <1>6, <2>3 DEF AbortDelivered
      <3>2. Outcome(t) \in Terminal
        BY DEF Outcome, Terminal
      <3>. QED
        BY <2>1, <3>1, <3>2, EndFates
    <2>. QED
      BY <2>2, <2>3
  <1>. QED
    BY <1>1, <1>2, <1>3, <1>4, <1>5, <1>6 DEF Timers, Answers

-----------------------------------------------------------------------------
(* Polls, materialization and claims *)

\* Queued rows are withdrawn and others left alone.
LEMMA CancelFates ==
  ASSUME IInv, NEW I, \A i \in I : i \in DOMAIN runs => runs[i].status = "queued"
  PROVE  /\ DOMAIN CancelRuns(runs, I) = DOMAIN runs
         /\ \A i \in DOMAIN runs :
              \/ CancelRuns(runs, I)[i] = runs[i]
              \/ /\ runs[i].status = "queued"
                 /\ CancelRuns(runs, I)[i]
                      = [runs[i] EXCEPT !.status = "cancelled"]
  BY DEF CancelRuns

\* Rows are withdrawn, and at most one is added at the end.
LEMMA QueueFates ==
  ASSUME IInv, UNCHANGED <<now, execs>>,
         NEW I, \A i \in I : i \in DOMAIN runs => runs[i].status = "queued",
         NEW before \in {runs, CancelRuns(runs, I)},
         \/ runs' = before
         \/ \E s \in Specs, v \in Nat, kind \in RunKinds, at \in Nat :
              runs' = Append(before, NewRun(s, v, kind, at))
  PROVE  Fates
  <1>1. /\ before \in Seq(RunRow) /\ DOMAIN before = DOMAIN runs
        /\ \A i \in DOMAIN runs :
             \/ before[i] = runs[i]
             \/ /\ runs[i].status = "queued"
                /\ before[i] = [runs[i] EXCEPT !.status = "cancelled"]
    <2>1. CASE before = runs
      BY <2>1 DEF IInv, TypeOK
    <2>2. CASE before = CancelRuns(runs, I)
      BY <2>2, CancelledRows, CancelFates
    <2>. QED
      BY <2>1, <2>2
  <1>2. CASE runs' = before
    BY <1>1, <1>2 DEF Fates, Fate, Withdrawn
  <1>3. CASE \E s \in Specs, v \in Nat, kind \in RunKinds, at \in Nat :
               runs' = Append(before, NewRun(s, v, kind, at))
    <2>1. PICK s \in Specs, v \in Nat, kind \in RunKinds, at \in Nat :
            runs' = Append(before, NewRun(s, v, kind, at))
      BY <1>3
    <2>. DEFINE row == NewRun(s, v, kind, at)
    <2>2. /\ row \in RunRow /\ row.status = "queued" /\ row.token = NoToken
          /\ row.until = NoTime
      BY NewRunType DEF NewRun
    <2>3. runs' = Append(before, row)
      BY <2>1
    <2>. HIDE DEF row
    <2>4. /\ DOMAIN before = 1..Len(before) /\ Len(before) \in Nat
          /\ DOMAIN runs' = 1..(Len(before) + 1)
          /\ \A i \in DOMAIN runs : runs'[i] = before[i]
          /\ runs'[Len(before) + 1] = row
      BY <1>1, <2>2, <2>3, AppendSeq, SeqDomain
    <2>5. \A i \in DOMAIN runs : Fate(i)
      BY <1>1, <2>4 DEF Fate, Withdrawn
    <2>6. \A i \in DOMAIN runs' \ DOMAIN runs : runs'[i] = row
      BY <1>1, <2>4
    <2>7. \A i \in DOMAIN runs' \ DOMAIN runs : Added(i)
      BY <2>2, <2>6 DEF Added
    <2>8. DOMAIN runs \subseteq DOMAIN runs'
      BY <1>1, <2>4
    <2>. QED
      BY <2>5, <2>7, <2>8 DEF Fates
  <1>. QED
    BY <1>2, <1>3

\* A poll renews the rows its runner holds.
LEMMA TickBeginFates ==
  ASSUME IInv, NEW r \in Runners, TickBegin(r)
  PROVE  Fates
  <1>. DEFINE held(i) == \E t \in active[r] : RunOf(t) = i /\ Owns(runs, i, t)
  <1>1. /\ now' = now
        /\ runs' = [i \in DOMAIN runs |->
                      IF held(i) THEN [runs[i] EXCEPT !.until = now + LeaseLen]
                                 ELSE runs[i]]
        /\ execs' = Abort({t \in active[r] : ~Owns(runs, RunOf(t), t)},
                          "cancelled")
    BY DEF TickBegin
  <1>2. DOMAIN execs' = DOMAIN execs
    BY <1>1, AbortExecs
  <1>3. ASSUME NEW i \in DOMAIN runs, held(i)
        PROVE  runs[i].status = "running"
    <2>1. PICK t \in active[r] : RunOf(t) = i /\ Owns(runs, i, t)
      BY <1>3
    <2>2. t \in Nat /\ t # NoToken
      BY SeqDomain DEF IInv, TypeOK, ReferencesHold, NoToken
    <2>. QED
      BY <2>1, <2>2 DEF Owns, IInv, RunningHasOwner
  <1>. HIDE DEF held
  <1>4. \A i \in DOMAIN runs : Fate(i)
    BY <1>1, <1>3 DEF Fate, Renewed
  <1>5. DOMAIN runs' = DOMAIN runs
    BY <1>1
  <1>. QED
    BY <1>1, <1>2, <1>4, <1>5 DEF Fates

\* One claim transaction takes rows that are due, under tokens of its own.
LEMMA ClaimDueFates ==
  ASSUME IInv, NEW r \in Runners, ClaimDue(r)
  PROVE  Fates
  <1>1. /\ now \in Nat /\ runs \in Seq(RunRow) /\ execs \in Seq(Exec)
        /\ Len(runs) \in Nat /\ Len(execs) \in Nat
        /\ DOMAIN runs = 1..Len(runs) /\ DOMAIN execs = 1..Len(execs)
    BY SeqDomain DEF IInv, TypeOK
  <1>2. PICK claimed \in ClaimLists(runs, now) :
          /\ runs' = ClaimRuns(runs, claimed, Len(execs), now)
          /\ execs' = execs \o
               [k \in 1..Len(claimed) |->
                  [runner |-> r, run |-> claimed[k], phase |-> "claimed",
                   abort |-> "none", beatAt |-> NoTime, deadline |-> NoTime]]
    BY DEF ClaimDue
  <1>3. PICK n \in 0..Len(runs) : claimed \in [1..n -> Due(runs, now)]
    BY DEF ClaimLists
  <1>. DEFINE new == [k \in 1..n |->
                        [runner |-> r, run |-> claimed[k], phase |-> "claimed",
                         abort |-> "none", beatAt |-> NoTime,
                         deadline |-> NoTime]]
  <1>4. n \in Nat /\ Len(claimed) = n
    BY <1>1, <1>3, FunIsSeq
  <1>5. execs' = execs \o new /\ new \in [1..n -> Exec]
    <2>1. \A k \in 1..n : claimed[k] \in Nat
      BY <1>1, <1>3 DEF Due
    <2>2. new \in [1..n -> Exec]
      BY <2>1 DEF Exec, Phases, OptTime, NoTime
    <2>. QED
      BY <1>2, <1>4, <2>2
  <1>. HIDE DEF new
  <1>6. new \in Seq(Exec) /\ Len(new) = n
    BY <1>4, <1>5, FunIsSeq
  <1>7. Len(execs') = Len(execs) + n /\ DOMAIN execs' = 1..(Len(execs) + n)
    <2>1. execs \in Seq(Exec) /\ new \in Seq(Exec)
      BY <1>1, <1>6
    <2>2. /\ Len(execs \o new) = Len(execs) + Len(new)
          /\ DOMAIN (execs \o new) = 1..(Len(execs) + Len(new))
      BY <2>1, ConcatSeq
    <2>. QED
      BY <1>5, <1>6, <2>2, Zenon
  <1>8. now' = now
    BY DEF ClaimDue
  <1>9. DOMAIN runs' = DOMAIN runs
    BY <1>2 DEF ClaimRuns
  <1>10. ASSUME NEW i \in DOMAIN runs
         PROVE  Fate(i)
    <2>. DEFINE k == CHOOSE x \in DOMAIN claimed : claimed[x] = i
    <2>1. CASE \E x \in DOMAIN claimed : claimed[x] = i
      <3>1. k \in 1..n /\ claimed[k] = i
        BY <2>1, <1>3
      <3>2. runs'[i] = ClaimRow(runs[i], Len(execs) + k, now)
        BY <2>1, <1>2 DEF ClaimRuns
      <3>. HIDE DEF k
      <3>3. runs[i] \in RunRow
        BY <1>1, SeqDomain
      <3>4. /\ runs'[i].status = "running"
            /\ runs'[i].token = Len(execs) + k
            /\ runs'[i].until = now + LeaseLen
            /\ SameJob(i)
        BY <3>2, <3>3 DEF ClaimRow, RunRow, SameJob
      <3>5. \/ runs[i].status = "queued"
            \/ runs[i].status = "running" /\ runs[i].until <= now
        BY <3>1, <1>3 DEF Due
      <3>6. Len(execs) + k \in (Len(execs) + 1)..Len(execs')
        BY <3>1, <1>1, <1>4, <1>7
      <3>7. pc[r] = "claim"
        BY DEF ClaimDue
      <3>. QED
        BY <3>4, <3>5, <3>6, <3>7 DEF Fate, Claimed
    <2>2. CASE ~\E x \in DOMAIN claimed : claimed[x] = i
      BY <2>2, <1>2 DEF ClaimRuns, Fate
    <2>. QED
      BY <2>1, <2>2
  <1>11. DOMAIN execs \subseteq DOMAIN execs'
    BY <1>1, <1>4, <1>7
  <1>. QED
    BY <1>8, <1>9, <1>10, <1>11 DEF Fates

\* executeClaim starts on a claim or refuses it.
LEMMA DispatchFates ==
  ASSUME IInv, NEW t \in DOMAIN execs, Dispatch(t)
  PROVE  Fates
  <1>1. /\ execs[t].phase = "claimed" /\ now' = now
        /\ DOMAIN execs' = DOMAIN execs
    BY DEF Dispatch
  <1>2. CASE ~specs[SpecOf(t)].enabled \/ specs[SpecOf(t)].removed
    <2>1. /\ runs' = CompleteRun(runs, RunOf(t), t, "cancelled")
          /\ execs' = [execs EXCEPT ![t] = [execs[t] EXCEPT !.phase = "over"]]
      BY <1>2 DEF Dispatch
    <2>2. execs[t] \in Exec
      BY ExecFacts
    <2>3. execs'[t].phase = "over"
      BY <2>1, <2>2 DEF Exec
    <2>. QED
      BY <1>1, <2>1, <2>3, SettleFates DEF Unsettled, Terminal
  <1>3. CASE ~(~specs[SpecOf(t)].enabled \/ specs[SpecOf(t)].removed)
    BY <1>1, <1>3, RowsUntouched DEF Dispatch
  <1>. QED
    BY <1>2, <1>3

\* The synchronous stretches of runners and authors.
LEMMA StretchFates ==
  ASSUME IInv, NEW a \in Actors, Stretch(a)
  PROVE  Fates
  <1>. DEFINE none == {}
  <1>0. /\ \A i \in none : i \in DOMAIN runs => runs[i].status = "queued"
        /\ runs \in {runs, CancelRuns(runs, none)}
    OBVIOUS
  <1>. HIDE DEF none
  <1>1. CASE EnqueueOneOff(a)
    <2>1. UNCHANGED <<now, execs>>
      BY <1>1 DEF EnqueueOneOff
    <2>2. PICK item \in todo[a] :
            \/ runs' = runs
            \/ runs' = Append(runs, NewRun(item.spec, item.revision,
                                           "one_off", item.at))
      BY <1>1 DEF EnqueueOneOff
    <2>3. /\ item.spec \in Specs /\ item.revision \in Nat /\ item.at \in Nat
          /\ "one_off" \in RunKinds
      BY <2>2 DEF IInv, TypeOK, Item, RunKinds
    <2>. QED
      BY <1>0, <2>1, <2>2, <2>3, QueueFates
  <1>2. CASE MaterializeSchedules(a)
    <2>1. UNCHANGED <<now, execs>>
      BY <1>2 DEF MaterializeSchedules
    <2>2. \/ runs' = runs
          \/ \E s \in Specs :
               /\ OccurrenceDue(specs[s], now)
               /\ runs' = Append(runs, NewRun(s, specs[s].revision, "schedule",
                                              specs[s].nextRunAt))
      BY <1>2 DEF MaterializeSchedules
    <2>3. \A s \in Specs : OccurrenceDue(specs[s], now) =>
            /\ specs[s].revision \in Nat /\ specs[s].nextRunAt \in Nat
            /\ "schedule" \in RunKinds
      BY DEF IInv, TypeOK, SpecRow, OptTime, OccurrenceDue, RunKinds
    <2>. QED
      BY <1>0, <2>1, <2>2, <2>3, QueueFates
  <1>3. CASE a \in Runners /\ CancelSuperseded(a)
    <2>1. UNCHANGED <<now, execs>> /\ runs' = CancelRuns(runs, Superseded(runs))
      BY <1>3 DEF CancelSuperseded
    <2>2. \A i \in Superseded(runs) : runs[i].status = "queued"
      BY DEF Superseded
    <2>. QED
      BY <2>1, <2>2, QueueFates
  <1>4. CASE a \in Runners /\ ClaimDue(a)
    BY <1>4, ClaimDueFates
  <1>5. CASE \E t \in DOMAIN execs : Dispatch(t)
    BY <1>5, DispatchFates
  <1>6. CASE InitializeNextRun \/ ApplyFileNextRun
    BY <1>6, RowsUntouched DEF InitializeNextRun, ApplyFileNextRun
  <1>7. CASE CancelQueuedRuns
    <2>1. /\ UNCHANGED <<now, execs>>
          /\ runs' = CancelRuns(runs, QueuedOf(runs, target.spec))
      BY <1>7 DEF CancelQueuedRuns
    <2>2. \A i \in QueuedOf(runs, target.spec) : runs[i].status = "queued"
      BY DEF QueuedOf
    <2>. QED
      BY <2>1, <2>2, QueueFates
  <1>. QED
    BY <1>1, <1>2, <1>3, <1>4, <1>5, <1>6, <1>7 DEF Stretch

-----------------------------------------------------------------------------
(* Authors, stops, crashes, and the whole next-state relation *)

\* Author operations queue and withdraw.
LEMMA EditsFates ==
  ASSUME IInv, Edits
  PROVE  Fates
  <1>1. CASE \E s \in Specs, def \in Definitions :
               CreateHubSchedule(s, def) \/ ReconcileFile(s, def)
    BY <1>1, RowsUntouched DEF CreateHubSchedule, ReconcileFile
  <1>2. CASE \E s \in Specs : RemoveSpec(s)
    BY <1>2, RowsUntouched DEF RemoveSpec
  <1>3. CASE \E s \in Specs, def \in Definitions, retime \in BOOLEAN :
               UpdateHubSchedule(s, def, retime)
    <2>1. PICK s \in Specs, def \in Definitions, retime \in BOOLEAN :
            UpdateHubSchedule(s, def, retime)
      BY <1>3
    <2>2. /\ UNCHANGED <<now, execs>>
          /\ \/ runs' = CancelRuns(runs, QueuedOneOffsOf(runs, s))
             \/ runs' = runs
      BY <2>1 DEF UpdateHubSchedule
    <2>3. \A i \in QueuedOneOffsOf(runs, s) : runs[i].status = "queued"
      BY DEF QueuedOneOffsOf, QueuedOf
    <2>. QED
      BY <2>2, <2>3, QueueFates
  <1>4. CASE \E s \in Specs, r \in Runners : TriggerNow(s, r)
    <2>1. PICK s \in Specs, r \in Runners : TriggerNow(s, r)
      BY <1>4
    <2>. DEFINE queued == {i \in QueuedOneOffsOf(runs, s) :
                             runs[i].revision = specs[s].revision}
                run == NewRun(s, specs[s].revision, "manual", now)
    <2>2. /\ UNCHANGED <<now, execs>>
          /\ \/ runs' = runs
             \/ runs' = Append(runs, run)
             \/ runs' = Append(CancelRuns(runs, queued), run)
      BY <2>1 DEF TriggerNow
    <2>3. \A i \in queued : i \in DOMAIN runs => runs[i].status = "queued"
      BY DEF QueuedOneOffsOf, QueuedOf
    <2>4. specs[s].revision \in Nat /\ now \in Nat /\ "manual" \in RunKinds
      BY AuthorFacts DEF SpecRow, RunKinds
    <2>. HIDE DEF queued
    <2>. QED
      BY <2>2, <2>3, <2>4, QueueFates
  <1>. QED
    BY <1>1, <1>2, <1>3, <1>4 DEF Edits

\* Stopping, starting and dying touch no row.
LEMMA ControlFates ==
  ASSUME IInv,
         \/ \E r \in Runners : Stop(r) \/ Stopped(r) \/ Start(r)
         \/ \E p \in Procs : Crash(p)
  PROVE  Fates
  <1>1. UNCHANGED <<now, runs>>
    BY DEF Stop, Stopped, Start, Crash, store
  <1>2. CASE \E r \in Runners : Stop(r)
    <2>1. \E r \in Runners : execs' = Abort(active[r], "cancelled")
      BY <1>2 DEF Stop
    <2>. QED
      BY <1>1, <2>1, AbortExecs, RowsUntouched
  <1>3. CASE \E r \in Runners : Stopped(r) \/ Start(r)
    BY <1>1, <1>3, RowsUntouched DEF Stopped, Start
  <1>4. CASE \E p \in Procs : Crash(p)
    <2>1. DOMAIN execs' = DOMAIN execs
      BY <1>4 DEF Crash
    <2>. QED
      BY <1>1, <2>1, RowsUntouched
  <1>. QED
    BY <1>2, <1>3, <1>4

\* Every step either deals each row one of its fates or moves the clock.
LEMMA NextFates ==
  ASSUME IInv, [Next]_vars
  PROVE  Fates \/ ClockOnly
  <1>1. CASE \E a \in Actors : Stretch(a)
    BY <1>1, StretchFates
  <1>2. CASE \E t \in DOMAIN execs : Timers(t) \/ Answers(t)
    BY <1>2, ExecutionFates
  <1>3. CASE \E r \in Runners : TickBegin(r)
    BY <1>3, TickBeginFates
  <1>4. CASE \/ \E r \in Runners : Stop(r) \/ Stopped(r) \/ Start(r)
             \/ \E p \in Procs : Crash(p)
    BY <1>4, ControlFates
  <1>5. CASE Edits
    BY <1>5, EditsFates
  <1>6. CASE Advance
    <2>1. now \in Nat
      BY DEF IInv, TypeOK
    <2>. QED
      BY <1>6, <2>1 DEF Advance, ClockOnly, store
  <1>7. CASE Sleep
    <2>1. now \in Nat
      BY DEF IInv, TypeOK
    <2>2. now' > now
      BY <1>7, <2>1, LeaseAssumption DEF Sleep, Night
    <2>. QED
      BY <1>7, <2>2 DEF Sleep, ClockOnly, store
  <1>8. CASE UNCHANGED vars
    BY <1>8, RowsUntouched DEF vars
  <1>. QED
    BY <1>1, <1>2, <1>3, <1>4, <1>5, <1>6, <1>7, <1>8 DEF Next, Halt

\* No step makes a run another's.
LEMMA SameJobs ==
  ASSUME IInv, [Next]_vars, NEW i \in DOMAIN runs
  PROVE  i \in DOMAIN runs' /\ SameJob(i)
  <1>1. runs[i] \in RunRow
    BY SeqDomain DEF IInv, TypeOK
  <1>2. CASE Fates
    <2>1. i \in DOMAIN runs' /\ Fate(i)
      BY <1>2 DEF Fates
    <2>. QED
      BY <1>1, <2>1 DEF Fate, SameJob, Claimed, Renewed, Withdrawn, Settled,
                        RunRow
  <1>3. CASE ClockOnly
    BY <1>3 DEF ClockOnly, SameJob
  <1>. QED
    BY <1>2, <1>3, NextFates

-----------------------------------------------------------------------------
(* Theorems *)

(* A run that ended keeps its outcome: no reclaim, late completion or
   cancellation rewrites a row that is done, failed or cancelled. *)
THEOREM OutcomesAreFinal == Spec => TerminalIsFinal
  <1>1. ASSUME IInv, [Next]_vars
        PROVE  [\A i \in DOMAIN runs :
                  runs[i].status \in Terminal
                    => runs'[i].status = runs[i].status]_vars
    <2>1. CASE Fates
      <3>. SUFFICES ASSUME NEW i \in DOMAIN runs, runs[i].status \in Terminal
                    PROVE  runs'[i].status = runs[i].status
        OBVIOUS
      <3>1. runs[i].status # "queued" /\ runs[i].status # "running"
        BY DEF Terminal
      <3>2. Fate(i)
        BY <2>1 DEF Fates
      <3>. QED
        BY <3>1, <3>2 DEF Fate, Claimed, Renewed, Withdrawn, Settled
    <2>2. CASE ClockOnly
      BY <2>2 DEF ClockOnly
    <2>. QED
      BY <1>1, <2>1, <2>2, NextFates
  <1>. QED
    BY <1>1, InvariantHolds, PTL DEF Spec, TerminalIsFinal

(* Fencing: a run that is running is settled only by the execution whose token
   the row carries, so an execution that lost its lease cannot complete the run
   under the one that took over. *)
THEOREM OwnersSettle == Spec => OnlyOwnerSettles
  <1>1. ASSUME IInv, [Next]_vars
        PROVE  [\A i \in DOMAIN runs :
                  runs[i].status = "running" /\ runs'[i].status \in Terminal
                    => /\ execs[runs[i].token].phase \in Unsettled \ {"dead"}
                       /\ execs'[runs[i].token].phase \in {"closing", "over"}]_vars
    <2>. SUFFICES ASSUME NEW i \in DOMAIN runs, runs[i].status = "running",
                         runs'[i].status \in Terminal
                  PROVE  Settled(i)
      BY DEF Settled
    <2>1. runs'[i].status # "running"
      BY DEF Terminal
    <2>2. runs[i] \in RunRow
      BY <1>1, SeqDomain DEF IInv, TypeOK
    <2>3. Fates
      BY <1>1, <2>1, NextFates DEF ClockOnly
    <2>4. Fate(i)
      BY <2>3 DEF Fates
    <2>. QED
      BY <2>1, <2>2, <2>4 DEF Fate, Claimed, Renewed, Withdrawn, RunRow
  <1>. QED
    BY <1>1, InvariantHolds, PTL DEF Spec, OnlyOwnerSettles

\* The abstract work is a sequence as long as the run table.
WorkIsRuns ==
  /\ Len(Work) = Len(runs) /\ Len(runs) \in Nat
  /\ DOMAIN Work = 1..Len(runs) /\ DOMAIN runs = 1..Len(runs)
  /\ \A i \in DOMAIN runs :
       Work[i] = [state |-> runs[i].status, token |-> runs[i].token,
                  until |-> runs[i].until]

\* It is so in every state of the invariant.
LEMMA WorkFacts == IInv => WorkIsRuns
  <1>. SUFFICES ASSUME IInv PROVE WorkIsRuns
    OBVIOUS
  <1>. DEFINE Any == [state: RunStatuses, token: Nat, until: OptTime]
  <1>1. /\ Len(runs) \in Nat /\ DOMAIN runs = 1..Len(runs)
        /\ \A i \in DOMAIN runs : runs[i] \in RunRow
    BY SeqDomain DEF IInv, TypeOK
  <1>2. Work \in [1..Len(runs) -> Any]
    BY <1>1 DEF Work, RunRow
  <1>. HIDE DEF Any
  <1>3. Len(Work) = Len(runs) /\ DOMAIN Work = 1..Len(runs)
    BY <1>1, <1>2, FunIsSeq
  <1>. QED
    BY <1>1, <1>3 DEF Work, WorkIsRuns

\* A row that keeps its place or has one of the fates moves as LeasedWork says.
LEMMA FateMoves ==
  ASSUME IInv, IInv', Fates, NEW i \in DOMAIN runs
  PROVE  Queue!Move(Work[i], Work'[i])
  <1>1. i \in DOMAIN runs' /\ Fate(i) /\ runs[i] \in RunRow
    BY SeqDomain DEF Fates, IInv, TypeOK
  <1>2. /\ Work[i] = [state |-> runs[i].status, token |-> runs[i].token,
                      until |-> runs[i].until]
        /\ Work'[i] = [state |-> runs'[i].status, token |-> runs'[i].token,
                       until |-> runs'[i].until]
    BY <1>1 DEF Work
  <1>3. CASE runs'[i] = runs[i]
    BY <1>2, <1>3 DEF Queue!Move
  <1>4. CASE Claimed(i)
    <2>1. Queue!Grant(Work[i], Work'[i])
      BY <1>2, <1>4 DEF Claimed, Queue!Grant, Queue!Free, Queue!Expired,
                        Queue!Held
    <2>. QED
      BY <2>1 DEF Queue!Move
  <1>5. CASE Renewed(i)
    <2>1. /\ runs'[i].status = runs[i].status /\ runs'[i].token = runs[i].token
          /\ runs'[i].until = now + LeaseLen
      BY <1>1, <1>5 DEF Renewed, RunRow
    <2>2. Queue!Renew(Work[i], Work'[i])
      BY <1>2, <1>5, <2>1 DEF Renewed, Queue!Renew, Queue!Held
    <2>. QED
      BY <2>2 DEF Queue!Move
  <1>6. CASE Withdrawn(i)
    <2>1. /\ runs'[i].status = "cancelled" /\ runs'[i].token = runs[i].token
          /\ runs'[i].until = runs[i].until
      BY <1>1, <1>6 DEF Withdrawn, RunRow
    <2>2. Queue!Withdraw(Work[i], Work'[i])
      BY <1>2, <1>6, <2>1 DEF Withdrawn, Queue!Withdraw, Queue!Free
    <2>. QED
      BY <2>2 DEF Queue!Move
  <1>7. CASE Settled(i)
    <2>1. Queue!Settle(Work[i], Work'[i])
      BY <1>2, <1>7 DEF Settled, Queue!Settle, Queue!Held, Queue!Ended,
                        Queue!NoToken, Queue!NoTime, Terminal, NoToken, NoTime
    <2>. QED
      BY <2>1 DEF Queue!Move
  <1>. QED
    BY <1>1, <1>3, <1>4, <1>5, <1>6, <1>7 DEF Fate

\* A step at one instant uses the abstract queue.
LEMMA FatesUse ==
  ASSUME IInv, IInv', Fates
  PROVE  Queue!Use
  <1>1. /\ Len(Work) = Len(runs) /\ Len(runs) \in Nat
        /\ DOMAIN Work = 1..Len(runs) /\ DOMAIN runs = 1..Len(runs)
    BY WorkFacts DEF WorkIsRuns
  <1>2. /\ Len(Work') = Len(runs') /\ Len(runs') \in Nat
        /\ DOMAIN Work' = 1..Len(runs') /\ DOMAIN runs' = 1..Len(runs')
        /\ \A i \in DOMAIN runs' :
             Work'[i] = [state |-> runs'[i].status, token |-> runs'[i].token,
                         until |-> runs'[i].until]
    <2>1. WorkIsRuns'
      BY WorkFacts, PTL
    <2>. QED
      BY <2>1 DEF WorkIsRuns
  <1>3. Queue!Submit
    <2>1. Len(runs') >= Len(runs)
      BY <1>1, <1>2 DEF Fates
    <2>2. \A i \in DOMAIN runs' \ DOMAIN runs : Work'[i] = Queue!Fresh
      BY <1>2 DEF Fates, Added, Queue!Fresh, Queue!NoToken, Queue!NoTime,
                  NoToken, NoTime
    <2>. QED
      BY <1>1, <1>2, <2>1, <2>2 DEF Queue!Submit
  <1>4. Len(execs)' >= Len(execs)
    <2>1. /\ DOMAIN execs = 1..Len(execs) /\ Len(execs) \in Nat
          /\ DOMAIN execs' = 1..Len(execs') /\ Len(execs') \in Nat
      BY SeqDomain DEF IInv, TypeOK
    <2>. QED
      BY <2>1 DEF Fates
  <1>5. \A i \in DOMAIN Work : Queue!Move(Work[i], Work'[i])
    BY <1>1, FateMoves
  <1>6. Queue!DistinctGrants
    <2>. SUFFICES ASSUME NEW i \in DOMAIN Work, NEW j \in DOMAIN Work,
                         Work'[i].token = Work'[j].token,
                         Work'[i].token > Len(execs)
                  PROVE  i = j
      BY DEF Queue!DistinctGrants
    <2>1. i \in DOMAIN runs' /\ j \in DOMAIN runs'
      BY <1>1 DEF Fates
    <2>2. runs'[i].token = runs'[j].token /\ runs'[i].token # NoToken
      <3>1. Len(execs) \in Nat
        BY SeqDomain DEF IInv, TypeOK
      <3>. QED
        BY <1>2, <2>1, <3>1 DEF NoToken
    <2>. QED
      BY <2>1, <2>2 DEF IInv, RunningHasOwner, RunOf
  <1>. QED
    BY <1>3, <1>4, <1>5, <1>6 DEF Queue!Use, Fates

(* The claims of all runners together, through crashes, sleeps, takeovers and
   late completions, behave as the leased queue that LeasedWork specifies. *)
THEOREM QueueImplementsLeasedWork == Spec => ImplementsLeasedWork
  <1>1. Init => Queue!Init
    <2>. SUFFICES ASSUME Init PROVE Queue!Init
      OBVIOUS
    <2>1. IInv
      BY InitInv
    <2>2. runs = <<>> /\ execs = <<>> /\ now \in Nat
      BY DEF Init
    <2>3. Work = <<>>
      BY <2>2 DEF Work
    <2>. QED
      BY <2>2, <2>3 DEF Queue!Init
  <1>2. ASSUME IInv, IInv', [Next]_vars
        PROVE  [Queue!Next]_<<now, Work, Len(execs)>>
    <2>1. CASE Fates
      BY <1>2, <2>1, FatesUse DEF Queue!Next
    <2>2. CASE ClockOnly
      BY <2>2 DEF ClockOnly, Work, Queue!Next, Queue!Pass
    <2>. QED
      BY <1>2, <2>1, <2>2, NextFates
  <1>. QED
    BY <1>1, <1>2, InvariantHolds, PTL DEF Spec, Queue!Spec,
       ImplementsLeasedWork
=============================================================================
