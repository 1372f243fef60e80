-------------------------- MODULE CronTimingProofs --------------------------
(***************************************************************************)
(* No claim transaction takes over a run that is being executed (Secure):  *)
(* while no machine sleeps, because timers fire on time and every          *)
(* heartbeat comes before the lease it renews runs out; where one runner   *)
(* alone uses the database, because its poll renews its leases before it   *)
(* claims.  From Secure it follows that no run is executed twice, that the *)
(* limits, which are enforced on leases, hold of the sessions behind them, *)
(* and that stop() reaches every session, however many runners and         *)
(* processes claim, stop, crash and restart.                               *)
(***************************************************************************)
EXTENDS CronAutomationProofs, FiniteSetTheorems

\* The condition of the theorem; with sleep it is false for two runners.
Awake == "sleep" \notin Faults

Live == Working \cup {"claimed"}

LiveExecs == {t \in DOMAIN execs : execs[t].phase \in Live}

\* What keeps claims safe: a live execution owns its run, and no claim
\* transaction finds its lease expired.
Secure ==
  \A t \in LiveExecs :
    /\ Owns(runs, RunOf(t), t)
    /\ (\E r \in Runners : pc[r] = "claim") => now < runs[RunOf(t)].until

(* What holds of a live execution: it owns its run; if it works, its next
   heartbeat is not overdue and comes before the lease ends; if it was only
   claimed, the tick that claimed it is still under way. *)
Punctual(t) ==
  /\ execs[t].phase \in Live => Owns(runs, RunOf(t), t)
  /\ execs[t].phase \in Working =>
       /\ execs[t].beatAt \in Nat
       /\ now <= execs[t].beatAt
       /\ execs[t].beatAt <= now + Beat
       /\ execs[t].beatAt < runs[RunOf(t)].until
  /\ execs[t].phase = "claimed" =>
       /\ runs[RunOf(t)].until = now + LeaseLen
       /\ pc[RunnerOf(t)] = "dispatch"

TimeInv == \A t \in DOMAIN execs : Punctual(t)

Gone == {"over", "dead"}

\* Phases that are told apart below.
LEMMA Phased ==
  /\ \A p \in Working : p \in Live /\ p \notin Gone /\ p # "closing"
                          /\ p # "claimed"
  /\ \A p \in Awaiting : p \in Working
  /\ \A p \in Gone : p \notin Live /\ p # "closing" /\ p # "claimed"
  /\ "claimed" \in Live /\ "closing" \notin Live /\ "closing" \notin Gone
  /\ "claimed" \notin Gone /\ "preparing" \in Awaiting
  /\ \A p \in Live : p \in Working \/ p = "claimed"
  BY DEF Working, Awaiting, Live, Gone

\* Heartbeats on time keep claims safe.
LEMMA PunctualSecure ==
  ASSUME IInv, TimeInv
  PROVE  Secure
  <1>. SUFFICES ASSUME NEW t \in LiveExecs
                PROVE  Owns(runs, RunOf(t), t) /\ now < runs[RunOf(t)].until
    BY DEF Secure
  <1>1. /\ t \in DOMAIN execs /\ execs[t].phase \in Live /\ Punctual(t)
        /\ runs[RunOf(t)] \in RunRow /\ now \in Nat
    BY ExecFacts DEF LiveExecs, TimeInv, IInv, TypeOK
  <1>2. runs[RunOf(t)].until \in Int
    BY <1>1 DEF RunRow, OptTime, NoTime
  <1>3. CASE execs[t].phase \in Working
    BY <1>1, <1>2, <1>3 DEF Punctual
  <1>4. CASE execs[t].phase = "claimed"
    BY <1>1, <1>2, <1>4, LeaseAssumption DEF Punctual
  <1>. QED
    BY <1>1, <1>3, <1>4 DEF Live, Punctual

\* Executions that own their runs have different runs.
LEMMA SecureRunsOnce ==
  ASSUME Secure
  PROVE  NoDoubleExecution
  BY Phased DEF NoDoubleExecution, Secure, LiveExecs, Owns

-----------------------------------------------------------------------------
(* What a step may do to an execution *)

Course(t) ==
  \/ execs'[t].phase \notin Live
  \/ /\ execs[t].phase = "claimed" /\ execs'[t].phase = "claimed"
     /\ pc'[RunnerOf(t)] = "dispatch"
  \/ /\ execs[t].phase \in Working /\ execs'[t].phase \in Working
     /\ execs'[t].beatAt = execs[t].beatAt
  \/ /\ execs[t].phase \in Live /\ execs'[t].phase \in Working
     /\ execs'[t].beatAt = now + Beat
     /\ execs[t].phase = "claimed" \/ runs'[RunOf(t)].until = now + LeaseLen

NewClaim(t) ==
  /\ execs'[t].phase = "claimed"
  /\ runs'[execs'[t].run].token = t
  /\ runs'[execs'[t].run].until = now + LeaseLen
  /\ pc'[execs'[t].runner] = "dispatch"

Courses ==
  /\ \A t \in DOMAIN execs :
       /\ execs'[t].run = execs[t].run
       /\ execs'[t].runner = execs[t].runner
       /\ Course(t)
  /\ \A t \in DOMAIN execs' \ DOMAIN execs : NewClaim(t)

\* A live execution that stays live keeps its claim, with the lease it had or
\* a whole new one.
LEMMA OwnerStays ==
  ASSUME IInv, Secure, Fates, NEW t \in DOMAIN execs,
         execs[t].phase \in Live, execs'[t].phase \in Live
  PROVE  /\ runs'[RunOf(t)].token = t
         /\ \/ runs'[RunOf(t)].until = runs[RunOf(t)].until
            \/ runs'[RunOf(t)].until = now + LeaseLen
  <1>1. /\ RunOf(t) \in DOMAIN runs /\ runs[RunOf(t)] \in RunRow
        /\ t \in Nat /\ t # NoToken /\ now \in Nat
    BY ExecFacts, SeqDomain DEF IInv, TypeOK, NoToken
  <1>2. runs[RunOf(t)].token = t /\ runs[RunOf(t)].status = "running"
    BY <1>1 DEF Secure, LiveExecs, Owns, IInv, RunningHasOwner
  <1>3. Fate(RunOf(t))
    BY <1>1 DEF Fates
  <1>4. ~Claimed(RunOf(t))
    <2>. SUFFICES ASSUME Claimed(RunOf(t)) PROVE FALSE
      OBVIOUS
    <2>1. now < runs[RunOf(t)].until
      BY DEF Claimed, Secure, LiveExecs
    <2>2. runs[RunOf(t)].until \in Int
      BY <1>1 DEF RunRow, OptTime, NoTime
    <2>. QED
      BY <1>1, <1>2, <2>1, <2>2 DEF Claimed
  <1>5. ~Withdrawn(RunOf(t)) /\ ~Settled(RunOf(t))
    BY <1>2 DEF Withdrawn, Settled, Live, Working, Awaiting
  <1>. QED
    BY <1>1, <1>2, <1>3, <1>4, <1>5 DEF Fate, Renewed, RunRow

\* The invariant survives steps at one instant.
LEMMA CoursesPunctual ==
  ASSUME IInv, IInv', TimeInv, Fates, Courses
  PROVE  TimeInv'
  <1>0. Secure
    BY PunctualSecure
  <1>1. now \in Nat /\ now' = now /\ Beat \in Nat /\ LeaseLen \in Nat
    BY PeriodsAssumption, LeaseAssumption DEF IInv, TypeOK, Fates
  <1>. SUFFICES ASSUME NEW t \in DOMAIN execs'
                PROVE  Punctual(t)'
    BY DEF TimeInv
  <1>2. CASE t \in DOMAIN execs
    <2>1. /\ execs'[t].run = RunOf(t) /\ execs'[t].runner = RunnerOf(t)
          /\ Course(t) /\ Punctual(t)
      BY <1>2 DEF Courses, TimeInv, RunOf, RunnerOf
    <2>2. CASE execs'[t].phase \notin Live
      BY <2>2 DEF Punctual, Live
    <2>3. CASE execs[t].phase = "claimed" /\ execs'[t].phase = "claimed"
      <3>1. runs'[RunOf(t)].token = t
        BY <1>2, <1>0, <2>3, OwnerStays DEF Live
      <3>2. runs'[RunOf(t)].until = now + LeaseLen
        BY <1>0, <1>2, <2>1, <2>3, OwnerStays DEF Live, Punctual
      <3>3. pc'[RunnerOf(t)] = "dispatch"
        BY <2>1, <2>3 DEF Course, Live, Working, Awaiting
      <3>. QED
        BY <1>1, <2>1, <2>3, <3>1, <3>2, <3>3
           DEF Punctual, Live, Working, Awaiting, Owns, RunOf, RunnerOf
    <2>4. CASE /\ execs[t].phase \in Working /\ execs'[t].phase \in Working
               /\ execs'[t].beatAt = execs[t].beatAt
      <3>1. /\ runs'[RunOf(t)].token = t
            /\ \/ runs'[RunOf(t)].until = runs[RunOf(t)].until
               \/ runs'[RunOf(t)].until = now + LeaseLen
        BY <1>0, <1>2, <2>4, OwnerStays DEF Live
      <3>2. /\ execs[t].beatAt \in Nat /\ now <= execs[t].beatAt
            /\ execs[t].beatAt <= now + Beat
            /\ execs[t].beatAt < runs[RunOf(t)].until
        BY <2>1, <2>4 DEF Punctual
      <3>3. execs[t].beatAt < runs'[RunOf(t)].until
        BY <1>1, <3>1, <3>2, HeartbeatAssumption
      <3>4. execs'[t].phase # "claimed"
        BY <2>4 DEF Working, Awaiting
      <3>. QED
        BY <1>1, <2>1, <2>4, <3>1, <3>2, <3>3, <3>4
           DEF Punctual, Owns, RunOf
    <2>5. CASE /\ execs[t].phase \in Live /\ execs'[t].phase \in Working
               /\ execs'[t].beatAt = now + Beat
               /\ \/ execs[t].phase = "claimed"
                  \/ runs'[RunOf(t)].until = now + LeaseLen
      <3>1. /\ runs'[RunOf(t)].token = t
            /\ \/ runs'[RunOf(t)].until = runs[RunOf(t)].until
               \/ runs'[RunOf(t)].until = now + LeaseLen
        BY <1>0, <1>2, <2>5, OwnerStays DEF Live
      <3>2. runs'[RunOf(t)].until = now + LeaseLen
        BY <2>1, <2>5, <3>1 DEF Punctual
      <3>3. execs'[t].phase # "claimed"
        BY <2>5 DEF Working, Awaiting
      <3>4. now + Beat < now + LeaseLen /\ now + Beat \in Nat /\ now <= now + Beat
        BY <1>1, HeartbeatAssumption
      <3>. QED
        BY <1>1, <2>1, <2>5, <3>1, <3>2, <3>3, <3>4
           DEF Punctual, Owns, RunOf
    <2>. QED
      BY <2>1, <2>2, <2>3, <2>4, <2>5 DEF Course
  <1>3. CASE t \notin DOMAIN execs
    <2>1. NewClaim(t)
      BY <1>3 DEF Courses
    <2>. QED
      BY <1>1, <2>1 DEF NewClaim, Punctual, Owns, RunOf, RunnerOf, Working,
                        Awaiting
  <1>. QED
    BY <1>2, <1>3

-----------------------------------------------------------------------------
(* Steps that leave heartbeats and leases to their timers *)

\* An execution leaves, or stays in its phase, or works on.
Steady(t) ==
  /\ execs'[t].run = execs[t].run
  /\ execs'[t].runner = execs[t].runner
  /\ \/ execs'[t].phase \notin Live
     \/ /\ execs'[t].beatAt = execs[t].beatAt
        /\ \/ execs'[t].phase = execs[t].phase
           \/ execs[t].phase \in Working /\ execs'[t].phase \in Working

\* The tick that claimed an execution goes on.
TickGoesOn(t) ==
  execs'[t].phase = "claimed" /\ pc[RunnerOf(t)] = "dispatch"
    => pc'[RunnerOf(t)] = "dispatch"

\* Steady executions are on course.
LEMMA SteadyCourses ==
  ASSUME TimeInv, DOMAIN execs' = DOMAIN execs,
         \A t \in DOMAIN execs : Steady(t) /\ TickGoesOn(t)
  PROVE  Courses
  <1>. SUFFICES ASSUME NEW t \in DOMAIN execs PROVE Course(t)
    BY DEF Courses, Steady
  <1>1. CASE execs'[t].phase \notin Live
    BY <1>1 DEF Course
  <1>2. CASE execs'[t].phase = "claimed"
    <2>1. execs[t].phase = "claimed"
      BY <1>2 DEF Steady, Live, Working, Awaiting
    <2>2. pc'[RunnerOf(t)] = "dispatch"
      BY <1>2, <2>1 DEF TickGoesOn, TimeInv, Punctual
    <2>. QED
      BY <1>2, <2>1, <2>2 DEF Course
  <1>3. CASE execs'[t].phase \in Working
    BY <1>3 DEF Steady, Course, Live
  <1>. QED
    BY <1>1, <1>2, <1>3 DEF Live

\* A synchronous stretch moves only its own place.
LEMMA OwnPlace ==
  ASSUME IInv, NEW a \in Actors, pc[a] # "dispatch", NEW x,
         pc' = [pc EXCEPT ![a] = x], NEW t \in DOMAIN execs
  PROVE  TickGoesOn(t)
  BY ExecFacts DEF IInv, TypeOK, TickGoesOn

\* The other places stay where they are.
LEMMA SamePlaces ==
  ASSUME pc' = pc, NEW t \in DOMAIN execs
  PROVE  TickGoesOn(t)
  BY DEF TickGoesOn

\* No execution moves.
LEMMA SameExecs ==
  ASSUME execs' = execs, NEW t \in DOMAIN execs
  PROVE  Steady(t)
  BY DEF Steady

\* controller.abort leaves heartbeats alone.
LEMMA AbortSteady ==
  ASSUME IInv, NEW U, NEW why \in {"cancelled", "timeout"},
         execs' = Abort(U, why), NEW t \in DOMAIN execs
  PROVE  DOMAIN execs' = DOMAIN execs /\ Steady(t)
  BY ExecFacts DEF Abort, Exec, Steady

\* One execution moves within its work, or ends.
LEMMA OneMoves ==
  ASSUME IInv, NEW t \in DOMAIN execs, NEW e \in Exec,
         execs' = [execs EXCEPT ![t] = e],
         e.run = execs[t].run, e.runner = execs[t].runner,
         \/ e.phase \notin Live
         \/ /\ execs[t].phase \in Working /\ e.phase \in Working
            /\ e.beatAt = execs[t].beatAt
  PROVE  DOMAIN execs' = DOMAIN execs /\ \A u \in DOMAIN execs : Steady(u)
  BY DEF Steady

-----------------------------------------------------------------------------
(* Executions *)

\* Awaits that continue, fail or are aborted.
LEMMA AwaitCourses ==
  ASSUME IInv, TimeInv, NEW t \in DOMAIN execs,
         \/ Prepared(t) \/ SessionStarted(t) \/ TurnDone(t) \/ Failed(t)
         \/ TimedOut(t) \/ AbortDelivered(t) \/ CleanedUp(t) \/ Closed(t)
  PROVE  Courses
  <1>1. pc' = pc
    BY DEF Prepared, SessionStarted, TurnDone, Failed, TimedOut,
           AbortDelivered, CleanedUp, Closed, section
  <1>2. execs[t] \in Exec /\ now \in Nat
    BY ExecFacts DEF IInv, TypeOK
  <1>3. CASE TimedOut(t)
    <2>1. execs' = Abort({t}, "timeout")
      BY <1>3 DEF TimedOut
    <2>. QED
      BY <1>1, <2>1, AbortSteady, SamePlaces, SteadyCourses
  <1>4. CASE Prepared(t)
    <2>. DEFINE e == [execs[t] EXCEPT !.phase = "starting"]
    <2>1. execs' = [execs EXCEPT ![t] = e]
      BY <1>4 DEF Prepared
    <2>2. /\ e \in Exec /\ e.run = execs[t].run /\ e.runner = execs[t].runner
          /\ execs[t].phase \in Working /\ e.phase \in Working
          /\ e.beatAt = execs[t].beatAt
      BY <1>2, <1>4 DEF Prepared, Exec, Phases, Working, Awaiting
    <2>. HIDE DEF e
    <2>. QED
      BY <1>1, <2>1, <2>2, OneMoves, SamePlaces, SteadyCourses
  <1>5. CASE \/ SessionStarted(t)
             \/ AbortDelivered(t) /\ execs[t].phase = "running"
    <2>. DEFINE turn == [execs[t] EXCEPT !.phase = "running"]
                lost == [execs[t] EXCEPT !.phase = "aborting",
                                         !.abort = "cancelled",
                                         !.deadline = now + 2 * Cleanup]
                stop == [execs[t] EXCEPT !.phase = "aborting",
                                         !.deadline = now + 2 * Cleanup]
    <2>1. \E e \in {turn, lost, stop} : execs' = [execs EXCEPT ![t] = e]
      BY <1>5 DEF SessionStarted, AbortDelivered
    <2>2. execs[t].phase \in Working
      BY <1>5 DEF SessionStarted, Working, Awaiting
    <2>3. now + 2 * Cleanup \in OptTime
      BY <1>2, PeriodsAssumption DEF OptTime
    <2>4. \A e \in {turn, lost, stop} :
            /\ e \in Exec
            /\ e.run = execs[t].run /\ e.runner = execs[t].runner
            /\ e.phase \in Working
            /\ e.beatAt = execs[t].beatAt
      BY <1>2, <2>3 DEF Exec, Phases, Working, Awaiting
    <2>. HIDE DEF turn, lost, stop
    <2>. QED
      BY <1>1, <2>1, <2>2, <2>4, OneMoves, SamePlaces, SteadyCourses
  <1>6. CASE StopSession(t) \/ Leave(t)
    <2>. DEFINE closing == [execs[t] EXCEPT !.phase = "closing",
                                            !.beatAt = NoTime,
                                            !.deadline = now + Cleanup]
                over == [execs[t] EXCEPT !.phase = "over", !.beatAt = NoTime,
                                         !.deadline = NoTime]
    <2>1. \E e \in {closing, over} : execs' = [execs EXCEPT ![t] = e]
      BY <1>6 DEF StopSession, Leave
    <2>2. now + Cleanup \in OptTime
      BY <1>2, PeriodsAssumption DEF OptTime
    <2>3. \A e \in {closing, over} :
            /\ e \in Exec
            /\ e.run = execs[t].run /\ e.runner = execs[t].runner
            /\ e.phase \notin Live
      BY <1>2, <2>2 DEF Exec, Phases, OptTime, NoTime, Live, Working, Awaiting
    <2>. HIDE DEF closing, over
    <2>. QED
      BY <1>1, <2>1, <2>3, OneMoves, SamePlaces, SteadyCourses
  <1>7. TurnDone(t) \/ Failed(t) \/ CleanedUp(t) \/ Closed(t)
          => StopSession(t) \/ Leave(t)
    BY DEF TurnDone, Failed, CleanedUp, Closed
  <1>8. AbortDelivered(t) => execs[t].phase = "running" \/ Leave(t)
    BY DEF AbortDelivered
  <1>. QED
    BY <1>3, <1>4, <1>5, <1>6, <1>7, <1>8

\* A heartbeat of a live execution finds its claim and renews it.
LEMMA HeartbeatCourses ==
  ASSUME IInv, TimeInv, NEW t \in DOMAIN execs, Heartbeat(t)
  PROVE  Courses
  <1>1. /\ execs[t].phase \in Working /\ Owns(runs, RunOf(t), t)
        /\ execs[t] \in Exec /\ RunOf(t) \in DOMAIN runs
        /\ runs[RunOf(t)] \in RunRow
    BY ExecFacts DEF Heartbeat, TimeInv, Punctual, Live
  <1>2. /\ execs' = [execs EXCEPT ![t] = [execs[t] EXCEPT !.beatAt = now + Beat]]
        /\ runs' = [runs EXCEPT ![RunOf(t)] =
                      [runs[RunOf(t)] EXCEPT !.until = now + LeaseLen]]
        /\ pc' = pc
    BY <1>1 DEF Heartbeat, RenewClaim, section
  <1>3. /\ execs'[t].phase = execs[t].phase
        /\ execs'[t].beatAt = now + Beat
        /\ execs'[t].run = execs[t].run /\ execs'[t].runner = execs[t].runner
    BY <1>1, <1>2 DEF Exec
  <1>4. runs'[RunOf(t)].until = now + LeaseLen
    BY <1>1, <1>2 DEF RunRow
  <1>5. Course(t)
    BY <1>1, <1>3, <1>4 DEF Course, Live
  <1>6. ASSUME NEW u \in DOMAIN execs, u # t
        PROVE  execs'[u] = execs[u] /\ Course(u)
    <2>1. execs'[u] = execs[u]
      BY <1>2, <1>6
    <2>. QED
      BY <1>2, <2>1 DEF Course, TimeInv, Punctual, Live
  <1>7. DOMAIN execs' = DOMAIN execs
    BY <1>2
  <1>. QED
    BY <1>3, <1>5, <1>6, <1>7 DEF Courses

\* A claimed execution starts its heartbeat within the tick that claimed it.
LEMMA DispatchCourses ==
  ASSUME IInv, TimeInv, NEW t \in DOMAIN execs, Dispatch(t)
  PROVE  Courses
  <1>. DEFINE r == RunnerOf(t)
              refused == [execs[t] EXCEPT !.phase = "over"]
              begun == [execs[t] EXCEPT !.phase = "preparing",
                                        !.beatAt = now + Beat,
                                        !.deadline = After(Timeout[SpecOf(t)])]
              others == {u \in DOMAIN execs :
                           u # t /\ RunnerOf(u) = r
                             /\ execs[u].phase = "claimed"}
  <1>1. /\ execs[t].phase = "claimed" /\ execs[t] \in Exec
        /\ \/ execs' = [execs EXCEPT ![t] = refused]
           \/ execs' = [execs EXCEPT ![t] = begun]
        /\ pc' = [pc EXCEPT ![r] = IF others = {} THEN "idle" ELSE "dispatch"]
    BY ExecFacts DEF Dispatch
  <1>2. /\ refused.run = execs[t].run /\ refused.runner = execs[t].runner
        /\ refused.phase = "over"
        /\ begun.run = execs[t].run /\ begun.runner = execs[t].runner
        /\ begun.phase = "preparing" /\ begun.beatAt = now + Beat
    BY <1>1 DEF Exec
  <1>. HIDE DEF refused, begun
  <1>3. /\ execs'[t].run = execs[t].run /\ execs'[t].runner = execs[t].runner
        /\ Course(t)
    BY <1>1, <1>2 DEF Course, Live, Working, Awaiting
  <1>4. ASSUME NEW u \in DOMAIN execs, u # t
        PROVE  execs'[u] = execs[u] /\ Course(u)
    <2>1. execs'[u] = execs[u]
      BY <1>1, <1>4
    <2>2. CASE execs[u].phase = "claimed"
      <3>1. pc \in [Actors -> Places] /\ RunnerOf(u) \in Actors
        BY ExecFacts DEF IInv, TypeOK
      <3>2. pc[RunnerOf(u)] = "dispatch"
        BY <2>2 DEF TimeInv, Punctual
      <3>3. RunnerOf(u) = r => others # {}
        BY <1>4, <2>2
      <3>4. pc'[RunnerOf(u)] = "dispatch"
        BY <1>1, <3>1, <3>2, <3>3
      <3>. QED
        BY <2>1, <2>2, <3>4 DEF Course
    <2>3. CASE execs[u].phase # "claimed"
      BY <2>1, <2>3 DEF Course, Live
    <2>. QED
      BY <2>1, <2>2, <2>3
  <1>5. DOMAIN execs' = DOMAIN execs
    BY <1>1
  <1>. QED
    BY <1>3, <1>4, <1>5 DEF Courses

\* Timers and answers.
LEMMA ExecutionCourses ==
  ASSUME IInv, TimeInv, NEW t \in DOMAIN execs, Timers(t) \/ Answers(t)
  PROVE  Courses
  BY AwaitCourses, HeartbeatCourses DEF Timers, Answers

-----------------------------------------------------------------------------
(* Polls, claims, authors, stops and crashes *)

\* What one claim transaction leaves: n rows claimed, each for an execution.
Takes(r, n, claimed) ==
  /\ claimed \in ClaimLists(runs, now)
  /\ \A k, m \in 1..n : claimed[k] = claimed[m] => k = m
  /\ \A k \in 1..n :
       /\ runs'[claimed[k]] = ClaimRow(runs[claimed[k]], Len(execs) + k, now)
       /\ execs'[Len(execs) + k].run = claimed[k]
       /\ execs'[Len(execs) + k].runner = r
       /\ execs'[Len(execs) + k].phase = "claimed"
  /\ DOMAIN runs' = DOMAIN runs
  /\ \A i \in DOMAIN runs :
       (\A k \in 1..n : claimed[k] # i) => runs'[i] = runs[i]
  /\ DOMAIN execs' = 1..(Len(execs) + n)
  /\ \A t \in DOMAIN execs : execs'[t] = execs[t]
  /\ pc' = [pc EXCEPT ![r] = IF n = 0 THEN "idle" ELSE "dispatch"]

\* A claim transaction takes the rows of some claim list.
LEMMA ClaimDueFacts ==
  ASSUME IInv, NEW r \in Runners, ClaimDue(r)
  PROVE  \E n \in Nat : \E claimed \in [1..n -> DOMAIN runs] :
           Takes(r, n, claimed)
  <1>1. /\ now \in Nat /\ runs \in Seq(RunRow) /\ execs \in Seq(Exec)
        /\ Len(runs) \in Nat /\ Len(execs) \in Nat
        /\ DOMAIN runs = 1..Len(runs) /\ DOMAIN execs = 1..Len(execs)
        /\ \A i \in DOMAIN runs : runs[i] \in RunRow
    BY SeqDomain DEF IInv, TypeOK
  <1>2. PICK claimed \in ClaimLists(runs, now) :
          /\ runs' = ClaimRuns(runs, claimed, Len(execs), now)
          /\ execs' = execs \o
               [k \in 1..Len(claimed) |->
                  [runner |-> r, run |-> claimed[k], phase |-> "claimed",
                   abort |-> "none", beatAt |-> NoTime, deadline |-> NoTime]]
          /\ pc' = [pc EXCEPT ![r] = IF claimed = <<>> THEN "idle"
                                                       ELSE "dispatch"]
    BY DEF ClaimDue
  <1>3. PICK n \in 0..Len(runs) : claimed \in [1..n -> DOMAIN runs]
    BY DEF ClaimLists, Due
  <1>. DEFINE new == [k \in 1..n |->
                        [runner |-> r, run |-> claimed[k], phase |-> "claimed",
                         abort |-> "none", beatAt |-> NoTime,
                         deadline |-> NoTime]]
  <1>4. n \in Nat /\ Len(claimed) = n /\ DOMAIN claimed = 1..n
    BY <1>1, <1>3, FunIsSeq
  <1>5. /\ execs' = execs \o new /\ new \in [1..n -> Exec]
        /\ \A k \in 1..n : /\ new[k].run = claimed[k] /\ new[k].runner = r
                           /\ new[k].phase = "claimed"
    <2>1. \A k \in 1..n : claimed[k] \in Nat
      BY <1>1, <1>3
    <2>2. new \in [1..n -> Exec]
      BY <2>1 DEF Exec, Phases, OptTime, NoTime
    <2>. QED
      BY <1>2, <1>4, <2>2
  <1>. HIDE DEF new
  <1>6. new \in Seq(Exec) /\ Len(new) = n /\ DOMAIN new = 1..n
    BY <1>4, <1>5, FunIsSeq
  <1>7. /\ DOMAIN execs' = 1..(Len(execs) + n)
        /\ \A t \in DOMAIN execs : execs'[t] = execs[t]
        /\ \A k \in 1..n : execs'[Len(execs) + k] = new[k]
    <2>1. execs \in Seq(Exec) /\ new \in Seq(Exec)
      BY <1>1, <1>6
    <2>2. /\ DOMAIN (execs \o new) = 1..(Len(execs) + Len(new))
          /\ \A t \in DOMAIN execs : (execs \o new)[t] = execs[t]
          /\ \A k \in DOMAIN new : (execs \o new)[Len(execs) + k] = new[k]
      BY <2>1, ConcatSeq
    <2>. QED
      BY <1>5, <1>6, <2>2, Zenon
  <1>8. \A k, m \in 1..n : claimed[k] = claimed[m] => k = m
    <2>1. claimed \in ClaimLists(runs, now)
      BY <1>2
    <2>2. \A k, m \in DOMAIN claimed :
            k < m => Before(runs, claimed[k], claimed[m])
      BY <2>1 DEF ClaimLists, IsClaimList
    <2>3. \A i \in DOMAIN runs : ~Before(runs, i, i)
      BY <1>1 DEF Before, RunRow
    <2>. QED
      BY <1>3, <1>4, <2>2, <2>3
  <1>9. /\ DOMAIN runs' = DOMAIN runs
        /\ \A i \in DOMAIN runs :
             (\A k \in 1..n : claimed[k] # i) => runs'[i] = runs[i]
    BY <1>2, <1>4 DEF ClaimRuns
  <1>10. ASSUME NEW k \in 1..n
         PROVE  runs'[claimed[k]] =
                  ClaimRow(runs[claimed[k]], Len(execs) + k, now)
    <2>1. claimed[k] \in DOMAIN runs /\ k \in DOMAIN claimed
      BY <1>3, <1>4
    <2>2. (CHOOSE m \in DOMAIN claimed : claimed[m] = claimed[k]) = k
      BY <1>4, <1>8, <2>1
    <2>3. runs' = [i \in DOMAIN runs |->
                     IF \E m \in DOMAIN claimed : claimed[m] = i
                     THEN ClaimRow(runs[i],
                            Len(execs) + (CHOOSE m \in DOMAIN claimed :
                                            claimed[m] = i), now)
                     ELSE runs[i]]
      BY <1>2 DEF ClaimRuns
    <2>4. runs'[claimed[k]] =
            ClaimRow(runs[claimed[k]],
                     Len(execs) + (CHOOSE m \in DOMAIN claimed :
                                     claimed[m] = claimed[k]), now)
      BY <2>1, <2>3, Zenon
    <2>. QED
      BY <2>2, <2>4
  <1>11. pc' = [pc EXCEPT ![r] = IF n = 0 THEN "idle" ELSE "dispatch"]
    <2>1. claimed = <<>> <=> n = 0
      BY <1>4
    <2>. QED
      BY <1>2, <2>1
  <1>12. \A k \in 1..n :
           /\ execs'[Len(execs) + k].run = claimed[k]
           /\ execs'[Len(execs) + k].runner = r
           /\ execs'[Len(execs) + k].phase = "claimed"
    BY <1>5, <1>7
  <1>13. Takes(r, n, claimed)
    BY <1>2, <1>7, <1>8, <1>9, <1>10, <1>11, <1>12 DEF Takes
  <1>. QED
    BY <1>3, <1>4, <1>13

\* New claims are executions of the tick that takes them.
LEMMA ClaimDueCourses ==
  ASSUME IInv, TimeInv, NEW r \in Runners, ClaimDue(r)
  PROVE  Courses
  <1>1. /\ now \in Nat /\ runs \in Seq(RunRow)
        /\ Len(execs) \in Nat /\ DOMAIN execs = 1..Len(execs)
        /\ r \in Actors /\ pc \in [Actors -> Places] /\ pc[r] = "claim"
    BY SeqDomain DEF IInv, TypeOK, Actors, ClaimDue
  <1>2. PICK n \in Nat : \E c \in [1..n -> DOMAIN runs] : Takes(r, n, c)
    BY ClaimDueFacts
  <1>3. PICK claimed \in [1..n -> DOMAIN runs] : Takes(r, n, claimed)
    BY <1>2
  <1>4. /\ DOMAIN execs' = 1..(Len(execs) + n)
        /\ \A t \in DOMAIN execs : execs'[t] = execs[t]
        /\ pc' = [pc EXCEPT ![r] = IF n = 0 THEN "idle" ELSE "dispatch"]
    BY <1>3 DEF Takes
  <1>5. ASSUME NEW t \in DOMAIN execs
        PROVE  /\ execs'[t].run = execs[t].run
               /\ execs'[t].runner = execs[t].runner
               /\ Course(t)
    <2>1. execs'[t] = execs[t]
      BY <1>4
    <2>2. execs[t].phase = "claimed" => pc'[RunnerOf(t)] = "dispatch"
      BY <1>1, <1>4, ExecFacts DEF TimeInv, Punctual
    <2>. QED
      BY <2>1, <2>2 DEF Course, Live
  <1>6. ASSUME NEW t \in DOMAIN execs' \ DOMAIN execs
        PROVE  NewClaim(t)
    <2>. DEFINE k == t - Len(execs)
    <2>1. k \in 1..n /\ t = Len(execs) + k
      BY <1>1, <1>4
    <2>. HIDE DEF k
    <2>2. /\ execs'[t].run = claimed[k] /\ execs'[t].runner = r
          /\ execs'[t].phase = "claimed"
          /\ runs'[claimed[k]] = ClaimRow(runs[claimed[k]], t, now)
      BY <1>3, <2>1 DEF Takes
    <2>3. runs[claimed[k]] \in RunRow
      BY <1>1, <2>1, SeqDomain
    <2>4. /\ runs'[claimed[k]].token = t
          /\ runs'[claimed[k]].until = now + LeaseLen
      BY <2>2, <2>3 DEF ClaimRow, RunRow
    <2>5. pc'[r] = "dispatch"
      BY <1>1, <1>4, <2>1
    <2>. QED
      BY <2>2, <2>4, <2>5 DEF NewClaim
  <1>. QED
    BY <1>5, <1>6 DEF Courses

\* The other synchronous stretches leave executions alone.
LEMMA StretchCourses ==
  ASSUME IInv, TimeInv, NEW a \in Actors, Stretch(a)
  PROVE  Courses
  <1>1. CASE \/ EnqueueOneOff(a)
             \/ MaterializeSchedules(a)
             \/ a \in Runners /\ CancelSuperseded(a)
    <2>1. execs' = execs /\ pc[a] # "dispatch"
      BY <1>1 DEF EnqueueOneOff, MaterializeSchedules, CancelSuperseded
    <2>2. pc' = pc \/ \E x : pc' = [pc EXCEPT ![a] = x]
      BY <1>1 DEF EnqueueOneOff, MaterializeSchedules, CancelSuperseded,
                  Materialize
    <2>. QED
      BY <2>1, <2>2, SameExecs, OwnPlace, SamePlaces, SteadyCourses
  <1>2. CASE a \in Runners /\ ClaimDue(a)
    BY <1>2, ClaimDueCourses
  <1>3. CASE \E t \in DOMAIN execs : Dispatch(t)
    BY <1>3, DispatchCourses
  <1>4. CASE InitializeNextRun \/ CancelQueuedRuns \/ ApplyFileNextRun
    <2>1. execs' = execs /\ Author \in Actors /\ pc[Author] # "dispatch"
      BY <1>4 DEF InitializeNextRun, CancelQueuedRuns, ApplyFileNextRun, Actors
    <2>2. \E x : pc' = [pc EXCEPT ![Author] = x]
      BY <1>4 DEF InitializeNextRun, CancelQueuedRuns, ApplyFileNextRun,
                  Materialize
    <2>. QED
      BY <2>1, <2>2, SameExecs, OwnPlace, SteadyCourses
  <1>. QED
    BY <1>1, <1>2, <1>3, <1>4 DEF Stretch

\* Author operations leave executions alone.
LEMMA EditsCourses ==
  ASSUME IInv, TimeInv, Edits
  PROVE  Courses
  <1>1. execs' = execs
    BY DEF Edits, CreateHubSchedule, ReconcileFile, UpdateHubSchedule,
           RemoveSpec, TriggerNow
  <1>2. Author \in Actors /\ pc[Author] # "dispatch"
    BY DEF Edits, CreateHubSchedule, ReconcileFile, UpdateHubSchedule,
           RemoveSpec, TriggerNow, AuthorActs, ProcessFree, Actors
  <1>3. pc' = pc \/ \E x : pc' = [pc EXCEPT ![Author] = x]
    BY DEF Edits, CreateHubSchedule, ReconcileFile, UpdateHubSchedule,
           RemoveSpec, TriggerNow, section
  <1>. QED
    BY <1>1, <1>2, <1>3, SameExecs, OwnPlace, SamePlaces, SteadyCourses

\* A poll, a stop, a start.
LEMMA RunnerCourses ==
  ASSUME IInv, TimeInv, NEW r \in Runners,
         TickBegin(r) \/ Stop(r) \/ Stopped(r) \/ Start(r)
  PROVE  Courses
  <1>1. CASE TickBegin(r)
    <2>1. r \in Actors /\ pc[r] # "dispatch"
      BY <1>1 DEF TickBegin, ProcessFree, Actors
    <2>2. /\ \E x : pc' = [pc EXCEPT ![r] = x]
          /\ execs' = Abort({t \in active[r] : ~Owns(runs, RunOf(t), t)},
                            "cancelled")
      BY <1>1 DEF TickBegin, Materialize
    <2>3. DOMAIN execs' = DOMAIN execs
      BY <2>2, AbortExecs
    <2>. QED
      BY <2>1, <2>2, <2>3, AbortSteady, OwnPlace, SteadyCourses
  <1>2. CASE Stop(r)
    <2>1. pc' = pc /\ execs' = Abort(active[r], "cancelled")
      BY <1>2 DEF Stop, section
    <2>2. DOMAIN execs' = DOMAIN execs
      BY <2>1, AbortExecs
    <2>. QED
      BY <2>1, <2>2, AbortSteady, SamePlaces, SteadyCourses
  <1>3. CASE Stopped(r) \/ Start(r)
    BY <1>3, SameExecs, SamePlaces, SteadyCourses DEF Stopped, Start, section
  <1>. QED
    BY <1>1, <1>2, <1>3

\* A crash ends the executions of its process and leaves the others.
LEMMA CrashCourses ==
  ASSUME IInv, TimeInv, NEW p \in Procs, Crash(p)
  PROVE  Courses
  <1>. DEFINE dead == {r \in Runners : Proc[r] = p}
  <1>1. /\ execs' = [t \in DOMAIN execs |->
                       IF RunnerOf(t) \in dead /\ execs[t].phase # "over"
                       THEN [execs[t] EXCEPT !.phase = "dead"]
                       ELSE execs[t]]
        /\ pc' = [a \in Actors |-> IF Proc[a] = p THEN "idle" ELSE pc[a]]
    BY DEF Crash
  <1>2. ASSUME NEW t \in DOMAIN execs
        PROVE  Steady(t) /\ TickGoesOn(t)
    <2>1. execs[t] \in Exec /\ RunnerOf(t) \in Runners /\ RunnerOf(t) \in Actors
      BY ExecFacts
    <2>2. CASE RunnerOf(t) \in dead /\ execs[t].phase # "over"
      <3>1. execs'[t] = [execs[t] EXCEPT !.phase = "dead"]
        BY <1>1, <2>2
      <3>2. /\ execs'[t].phase = "dead" /\ execs'[t].run = execs[t].run
            /\ execs'[t].runner = execs[t].runner
        BY <2>1, <3>1 DEF Exec
      <3>. QED
        BY <3>2 DEF Steady, TickGoesOn, Live, Working, Awaiting
    <2>3. CASE ~(RunnerOf(t) \in dead /\ execs[t].phase # "over")
      <3>1. execs'[t] = execs[t]
        BY <1>1, <2>3
      <3>2. execs[t].phase = "claimed" => pc'[RunnerOf(t)] = pc[RunnerOf(t)]
        BY <1>1, <2>1, <2>3
      <3>. QED
        BY <3>1, <3>2 DEF Steady, TickGoesOn
    <2>. QED
      BY <2>2, <2>3
  <1>3. DOMAIN execs' = DOMAIN execs
    BY <1>1
  <1>. QED
    BY <1>2, <1>3, SteadyCourses

-----------------------------------------------------------------------------
(* The clock, and the invariant *)

\* Time passes only when no heartbeat is due and no tick is under way.
LEMMA AdvancePunctual ==
  ASSUME IInv, TimeInv, Advance
  PROVE  TimeInv'
  <1>1. /\ now \in Nat /\ now' = now + 1 /\ Beat \in Nat
        /\ \A a \in Actors : pc[a] = "idle"
        /\ \A t \in DOMAIN execs : ~Pending(t)
        /\ UNCHANGED <<runs, execs, pc>>
    BY PeriodsAssumption DEF IInv, TypeOK, Advance, store, section
  <1>. SUFFICES ASSUME NEW t \in DOMAIN execs
                PROVE  Punctual(t)'
    BY <1>1 DEF TimeInv
  <1>2. execs[t].phase # "claimed"
    BY <1>1, ExecFacts DEF TimeInv, Punctual
  <1>3. CASE execs[t].phase \in Working
    <2>1. /\ execs[t].beatAt \in Nat /\ now <= execs[t].beatAt
          /\ execs[t].beatAt <= now + Beat
          /\ execs[t].beatAt < runs[RunOf(t)].until
          /\ Owns(runs, RunOf(t), t)
      BY <1>3 DEF TimeInv, Punctual, Live
    <2>2. ~(execs[t].beatAt <= now)
      BY <1>1, <1>3, <2>1 DEF Pending, Overdue, NoTime
    <2>3. now + 1 <= execs[t].beatAt /\ execs[t].beatAt <= (now + 1) + Beat
      BY <1>1, <2>1, <2>2
    <2>. QED
      BY <1>1, <1>2, <2>1, <2>3 DEF Punctual, Owns, RunOf
  <1>4. CASE execs[t].phase \notin Working
    BY <1>1, <1>2, <1>4 DEF Punctual, Live
  <1>. QED
    BY <1>3, <1>4

\* The timing invariant is inductive while nothing sleeps.
LEMMA TimeStep ==
  ASSUME IInv, IInv', Awake, TimeInv, [Next]_vars
  PROVE  TimeInv'
  <1>1. CASE \E a \in Actors : Stretch(a)
    BY <1>1, StretchFates, StretchCourses, CoursesPunctual
  <1>2. CASE \E t \in DOMAIN execs : Timers(t) \/ Answers(t)
    BY <1>2, ExecutionFates, ExecutionCourses, CoursesPunctual
  <1>3. CASE \E r \in Runners : TickBegin(r) \/ Stop(r) \/ Stopped(r) \/ Start(r)
    <2>1. Fates
      BY <1>3, TickBeginFates, ControlFates
    <2>. QED
      BY <1>3, <2>1, RunnerCourses, CoursesPunctual
  <1>4. CASE \E p \in Procs : Crash(p)
    BY <1>4, ControlFates, CrashCourses, CoursesPunctual
  <1>5. CASE Edits
    BY <1>5, EditsFates, EditsCourses, CoursesPunctual
  <1>6. CASE Advance
    BY <1>6, AdvancePunctual
  <1>7. ~Sleep
    BY DEF Awake, Sleep, Fault
  <1>8. CASE UNCHANGED vars
    BY <1>8 DEF vars, TimeInv, Punctual, Owns, RunOf, RunnerOf
  <1>. QED
    BY <1>1, <1>2, <1>3, <1>4, <1>5, <1>6, <1>7, <1>8 DEF Next, Halt

-----------------------------------------------------------------------------
(* No run is executed twice *)

(* "A live session is not reclaimed and started a second time" (tick): while no
   machine sleeps, two executions never drive a session for the same run,
   whatever the number of runners and processes, their crashes, stops and
   restarts, and the lengths of leases, heartbeats and polls. *)
THEOREM AwakeRunsOnce == Spec => [](Awake => NoDoubleExecution)
  <1>1. Init => (Awake => TimeInv)
    BY DEF Init, TimeInv
  <1>2. /\ IInv /\ IInv' /\ (Awake => TimeInv) /\ [Next]_vars
        => (Awake => TimeInv)'
    BY TimeStep DEF Awake
  <1>3. IInv /\ (Awake => TimeInv) => (Awake => NoDoubleExecution)
    BY PunctualSecure, SecureRunsOnce
  <1>. QED
    BY <1>1, <1>2, <1>3, InvariantHolds, PTL DEF Spec

-----------------------------------------------------------------------------
(* Entries of activeRuns *)

(* What the code keeps about activeRuns: a runner's entries are its own
   executions, at work or closing their sessions; every execution at work has
   its entry; a session is closed after its run was settled; claims are
   dispatched by the tick that took them; and only a started runner ticks. *)
Entries ==
  \A r \in Runners : \A t \in active[r] :
    RunnerOf(t) = r /\ execs[t].phase \in Working \cup {"closing"}
Entered ==
  \A t \in DOMAIN execs :
    execs[t].phase \in Working => t \in active[RunnerOf(t)]
SettledFirst ==
  \A t \in DOMAIN execs :
    execs[t].phase = "closing" => runs[RunOf(t)].status \in Terminal
ClaimsInTick ==
  \A t \in DOMAIN execs :
    execs[t].phase = "claimed" => pc[RunnerOf(t)] = "dispatch"
UpTicks == \A r \in Runners : pc[r] # "idle" => status[r] = "up"

Reach == Entries /\ Entered /\ SettledFirst /\ ClaimsInTick /\ UpTicks

\* What a step does to an execution ...
Moves(t) ==
  /\ execs'[t].run = execs[t].run
  /\ execs'[t].runner = execs[t].runner
  /\ execs[t].abort # "none" => execs'[t].abort # "none"
  /\ \/ execs'[t].phase = execs[t].phase
     \/ execs[t].phase \in Awaiting /\ execs'[t].phase \in Working
     \/ execs'[t].phase \in Gone
     \/ /\ execs[t].phase \in Working /\ execs'[t].phase = "closing"
        /\ Owns(runs, RunOf(t), t) => runs'[RunOf(t)].status \in Terminal
     \/ /\ execs[t].phase = "claimed" /\ execs'[t].phase = "preparing"
        /\ pc[RunnerOf(t)] = "dispatch"
        /\ t \in active'[RunnerOf(t)]

\* ... and to its entry.
EntryMoves(t) ==
  /\ execs'[t].phase \in Working /\ t \in active[RunnerOf(t)]
       => t \in active'[RunnerOf(t)]
  /\ execs'[t].phase \in Gone /\ execs[t].phase \notin Gone
       => t \notin active'[RunnerOf(t)]

NoForeignEntry ==
  \A r \in Runners : \A t \in active'[r] :
    \/ t \in active[r]
    \/ t \in DOMAIN execs /\ RunnerOf(t) = r /\ execs'[t].phase \in Working

Steps ==
  /\ DOMAIN execs \subseteq DOMAIN execs'
  /\ \A t \in DOMAIN execs : Moves(t) /\ EntryMoves(t) /\ TickGoesOn(t)
  /\ \A t \in DOMAIN execs' \ DOMAIN execs :
       execs'[t].phase = "claimed" /\ pc'[execs'[t].runner] = "dispatch"
  /\ NoForeignEntry

\* The entries after such a step.
LEMMA StepsReach ==
  ASSUME IInv, IInv', Secure, Reach, Steps,
         \A i \in DOMAIN runs :
           runs[i].status \in Terminal => runs'[i].status = runs[i].status
  PROVE  Entries' /\ Entered' /\ SettledFirst' /\ ClaimsInTick'
  <1>1. ASSUME NEW t \in DOMAIN execs
        PROVE  /\ Moves(t) /\ EntryMoves(t) /\ TickGoesOn(t)
               /\ execs'[t].run = RunOf(t) /\ execs'[t].runner = RunnerOf(t)
               /\ RunnerOf(t) \in Runners /\ RunOf(t) \in DOMAIN runs
    BY ExecFacts DEF Steps, Moves, RunOf, RunnerOf
  <1>2. Entries'
    <2>. SUFFICES ASSUME NEW r \in Runners, NEW t \in active'[r]
                  PROVE  /\ execs'[t].runner = r
                         /\ execs'[t].phase \in Working \cup {"closing"}
      BY DEF Entries, RunnerOf
    <2>1. CASE t \in active[r]
      <3>1. /\ t \in DOMAIN execs /\ RunnerOf(t) = r
            /\ execs[t].phase \in Working \cup {"closing"}
        BY <2>1 DEF Reach, Entries, IInv, ReferencesHold
      <3>2. execs[t].phase \notin Gone /\ execs[t].phase # "claimed"
        BY <3>1, Phased
      <3>3. execs'[t].phase \notin Gone
        BY <1>1, <3>1, <3>2 DEF EntryMoves
      <3>. QED
        BY <1>1, <3>1, <3>2, <3>3 DEF Moves
    <2>2. CASE t \notin active[r]
      BY <1>1, <2>2 DEF Steps, NoForeignEntry
    <2>. QED
      BY <2>1, <2>2
  <1>3. Entered'
    <2>. SUFFICES ASSUME NEW t \in DOMAIN execs', execs'[t].phase \in Working
                  PROVE  t \in active'[execs'[t].runner]
      BY DEF Entered, RunnerOf
    <2>1. t \in DOMAIN execs
      BY Phased DEF Steps
    <2>2. CASE execs[t].phase \in Working
      BY <1>1, <2>1, <2>2 DEF EntryMoves, Reach, Entered
    <2>3. CASE execs[t].phase \notin Working
      BY <1>1, <2>1, <2>3, Phased DEF Moves
    <2>. QED
      BY <2>2, <2>3
  <1>4. SettledFirst'
    <2>. SUFFICES ASSUME NEW t \in DOMAIN execs', execs'[t].phase = "closing"
                  PROVE  runs'[execs'[t].run].status \in Terminal
      BY DEF SettledFirst, RunOf
    <2>1. t \in DOMAIN execs
      BY Phased DEF Steps
    <2>2. CASE execs[t].phase = "closing"
      BY <1>1, <2>1, <2>2 DEF Reach, SettledFirst
    <2>3. CASE execs[t].phase # "closing"
      <3>1. /\ execs[t].phase \in Working
            /\ Owns(runs, RunOf(t), t) => runs'[RunOf(t)].status \in Terminal
        BY <1>1, <2>1, <2>3, Phased DEF Moves
      <3>2. Owns(runs, RunOf(t), t)
        BY <2>1, <3>1, Phased DEF Secure, LiveExecs
      <3>. QED
        BY <1>1, <2>1, <3>1, <3>2
    <2>. QED
      BY <2>2, <2>3
  <1>5. ClaimsInTick'
    <2>. SUFFICES ASSUME NEW t \in DOMAIN execs', execs'[t].phase = "claimed"
                  PROVE  pc'[execs'[t].runner] = "dispatch"
      BY DEF ClaimsInTick, RunnerOf
    <2>1. CASE t \in DOMAIN execs
      <3>1. execs[t].phase = "claimed"
        BY <1>1, <2>1, Phased DEF Moves
      <3>. QED
        BY <1>1, <2>1, <3>1 DEF TickGoesOn, Reach, ClaimsInTick
    <2>2. CASE t \notin DOMAIN execs
      BY <2>2 DEF Steps
    <2>. QED
      BY <2>1, <2>2
  <1>. QED
    BY <1>2, <1>3, <1>4, <1>5

\* Nothing happens to executions and entries.
LEMMA NothingSteps ==
  ASSUME IInv, UNCHANGED <<execs, active>>,
         \A t \in DOMAIN execs : TickGoesOn(t)
  PROVE  Steps
  BY ExecFacts DEF Steps, Moves, EntryMoves, NoForeignEntry, RunnerOf

\* Executions are aborted, and perhaps one loses or resets its heartbeat.
LEMMA AbortSteps ==
  ASSUME IInv, UNCHANGED active,
         \A t \in DOMAIN execs : TickGoesOn(t),
         DOMAIN execs' = DOMAIN execs,
         \A t \in DOMAIN execs :
           /\ execs'[t].run = execs[t].run
           /\ execs'[t].runner = execs[t].runner
           /\ execs'[t].phase = execs[t].phase
           /\ execs[t].abort # "none" => execs'[t].abort # "none"
  PROVE  Steps
  BY ExecFacts DEF Steps, Moves, EntryMoves, NoForeignEntry, RunnerOf

\* controller.abort as seen by one execution.
LEMMA AbortFacts ==
  ASSUME IInv, NEW U, NEW why \in {"cancelled", "timeout"},
         NEW t \in DOMAIN execs
  PROVE  /\ Abort(U, why)[t] \in Exec
         /\ Abort(U, why)[t].run = execs[t].run
         /\ Abort(U, why)[t].runner = execs[t].runner
         /\ Abort(U, why)[t].phase = execs[t].phase
         /\ execs[t].abort # "none" => Abort(U, why)[t].abort # "none"
         /\ t \in U => Abort(U, why)[t].abort # "none"
  BY ExecFacts DEF Abort, Exec

-----------------------------------------------------------------------------
(* Entries of the executions that timers and answers move *)

\* One execution moves, and the entries stay.
LEMMA OneSteps ==
  ASSUME IInv, NEW t \in DOMAIN execs, NEW e \in Exec,
         execs' = [execs EXCEPT ![t] = e], UNCHANGED <<active, pc>>,
         e.run = execs[t].run, e.runner = execs[t].runner,
         execs[t].abort # "none" => e.abort # "none",
         \/ execs[t].phase \in Awaiting /\ e.phase \in Working
         \/ /\ execs[t].phase \in Working /\ e.phase = "closing"
            /\ Owns(runs, RunOf(t), t) => runs'[RunOf(t)].status \in Terminal
  PROVE  Steps
  <1>1. DOMAIN execs' = DOMAIN execs /\ execs'[t] = e
    OBVIOUS
  <1>2. Moves(t) /\ EntryMoves(t) /\ TickGoesOn(t)
    BY <1>1, Phased DEF Moves, EntryMoves, TickGoesOn
  <1>3. ASSUME NEW u \in DOMAIN execs, u # t
        PROVE  Moves(u) /\ EntryMoves(u) /\ TickGoesOn(u)
    <2>1. execs'[u] = execs[u]
      BY <1>3
    <2>. QED
      BY <2>1 DEF Moves, EntryMoves, TickGoesOn
  <1>4. NoForeignEntry
    BY DEF NoForeignEntry
  <1>. QED
    BY <1>1, <1>2, <1>3, <1>4 DEF Steps

\* An execution that owned its run settles it.
LEMMA SettledIfOwned ==
  ASSUME IInv, NEW t \in DOMAIN execs,
         NEW outcome \in Terminal, Settle(t, outcome)
  PROVE  Owns(runs, RunOf(t), t) => runs'[RunOf(t)].status \in Terminal
  <1>. SUFFICES ASSUME Owns(runs, RunOf(t), t)
                PROVE  runs'[RunOf(t)].status \in Terminal
    OBVIOUS
  <1>1. runs' = [runs EXCEPT ![RunOf(t)] =
                   [runs[RunOf(t)] EXCEPT !.status = outcome, !.token = NoToken,
                                          !.until = NoTime]]
    BY DEF Settle, CompleteRun
  <1>2. RunOf(t) \in DOMAIN runs /\ runs[RunOf(t)] \in RunRow
    BY ExecFacts
  <1>3. runs'[RunOf(t)].status = outcome
    BY <1>1, <1>2 DEF RunRow
  <1>. QED
    BY <1>3

\* Two executions of one run are not both at work on it, nor is one while the
\* other closes the session in which it settled the run.
LEMMA OneAtWork ==
  ASSUME IInv, Secure, SettledFirst,
         NEW t \in DOMAIN execs, execs[t].phase \in Live \cup {"closing"},
         NEW u \in DOMAIN execs, execs[u].phase \in Working,
         RunOf(t) = RunOf(u)
  PROVE  t = u
  <1>1. Owns(runs, RunOf(u), u) /\ u \in Nat /\ u # NoToken
    BY Phased, ExecFacts, SeqDomain DEF Secure, LiveExecs, IInv, TypeOK, NoToken
  <1>2. CASE execs[t].phase \in Live
    BY <1>1, <1>2 DEF Secure, LiveExecs, Owns
  <1>3. CASE execs[t].phase = "closing"
    <2>1. runs[RunOf(u)].status \in Terminal /\ RunOf(u) \in DOMAIN runs
      BY <1>3, ExecFacts DEF SettledFirst
    <2>2. runs[RunOf(u)].status # "running"
      BY <2>1 DEF Terminal
    <2>. QED
      BY <1>1, <2>1, <2>2 DEF Owns, IInv, RunningHasOwner
  <1>. QED
    BY <1>2, <1>3

\* The finally block removes the entry of the execution that ends, and no
\* other that is still needed.
LEMMA LeaveSteps ==
  ASSUME IInv, Secure, Reach, NEW t \in DOMAIN execs, Leave(t), pc' = pc,
         execs[t].phase \in Working \cup {"closing"}
  PROVE  Steps
  <1>. DEFINE e == [execs[t] EXCEPT !.phase = "over", !.beatAt = NoTime,
                                    !.deadline = NoTime]
  <1>1. /\ e.run = execs[t].run /\ e.runner = execs[t].runner
        /\ e.abort = execs[t].abort /\ e.phase = "over"
    BY ExecFacts DEF Exec
  <1>2. execs' = [execs EXCEPT ![t] = e]
    BY DEF Leave
  <1>. HIDE DEF e
  <1>3. active' = [active EXCEPT ![RunnerOf(t)] =
                     @ \ EntryOf(RunnerOf(t), RunOf(t))]
    BY DEF Leave
  <1>4. active \in [Runners -> SUBSET Nat] /\ RunnerOf(t) \in Runners
    BY ExecFacts DEF IInv, TypeOK
  <1>5. DOMAIN execs' = DOMAIN execs /\ execs'[t] = e
    BY <1>2
  <1>6. t \notin active'[RunnerOf(t)]
    BY <1>3, <1>4 DEF EntryOf
  <1>7. Moves(t) /\ EntryMoves(t) /\ TickGoesOn(t)
    BY <1>1, <1>5, <1>6, Phased DEF Moves, EntryMoves, TickGoesOn, Gone
  <1>8. ASSUME NEW u \in DOMAIN execs, u # t
        PROVE  Moves(u) /\ EntryMoves(u) /\ TickGoesOn(u)
    <2>1. execs'[u] = execs[u]
      BY <1>2, <1>8
    <2>2. execs[u].phase \in Working /\ u \in active[RunnerOf(u)]
            => u \in active'[RunnerOf(u)]
      <3>. SUFFICES ASSUME execs[u].phase \in Working, u \in active[RunnerOf(u)]
                    PROVE  u \in active'[RunnerOf(u)]
        OBVIOUS
      <3>1. RunnerOf(u) \in Runners
        BY ExecFacts
      <3>2. RunOf(u) # RunOf(t)
        BY <1>8, OneAtWork, Phased DEF Reach
      <3>3. u \notin EntryOf(RunnerOf(t), RunOf(t))
        BY <3>2 DEF EntryOf
      <3>. QED
        BY <1>3, <1>4, <3>1, <3>3
    <2>. QED
      BY <2>1, <2>2 DEF Moves, EntryMoves, TickGoesOn
  <1>9. NoForeignEntry
    BY <1>3, <1>4 DEF NoForeignEntry
  <1>. QED
    BY <1>5, <1>7, <1>8, <1>9 DEF Steps

\* Every await of executeClaim that continues, fails or is aborted.
LEMMA AwaitSteps ==
  ASSUME IInv, Secure, Reach, NEW t \in DOMAIN execs,
         \/ Prepared(t) \/ SessionStarted(t) \/ TurnDone(t) \/ Failed(t)
         \/ TimedOut(t) \/ AbortDelivered(t) \/ CleanedUp(t) \/ Closed(t)
  PROVE  Steps
  <1>1. pc' = pc
    BY DEF Prepared, SessionStarted, TurnDone, Failed, TimedOut,
           AbortDelivered, CleanedUp, Closed, section
  <1>2. execs[t] \in Exec /\ now \in Nat
    BY ExecFacts DEF IInv, TypeOK
  <1>3. CASE TimedOut(t)
    <2>1. execs' = Abort({t}, "timeout") /\ active' = active
      BY <1>3 DEF TimedOut, control
    <2>. QED
      BY <1>1, <2>1, AbortFacts, AbortExecs, SamePlaces, AbortSteps
  <1>4. CASE \/ Prepared(t) \/ SessionStarted(t)
             \/ AbortDelivered(t) /\ execs[t].phase = "running"
    <2>. DEFINE began == [execs[t] EXCEPT !.phase = "starting"]
                turn == [execs[t] EXCEPT !.phase = "running"]
                lost == [execs[t] EXCEPT !.phase = "aborting",
                                         !.abort = "cancelled",
                                         !.deadline = now + 2 * Cleanup]
                stop == [execs[t] EXCEPT !.phase = "aborting",
                                         !.deadline = now + 2 * Cleanup]
    <2>1. /\ \E e \in {began, turn, lost, stop} : execs' = [execs EXCEPT ![t] = e]
          /\ active' = active
      BY <1>4 DEF Prepared, SessionStarted, AbortDelivered, control
    <2>2. execs[t].phase \in Awaiting
      BY <1>4 DEF Prepared, SessionStarted, Awaiting
    <2>3. now + 2 * Cleanup \in OptTime
      BY <1>2, PeriodsAssumption DEF OptTime
    <2>4. \A e \in {began, turn, lost, stop} :
            /\ e \in Exec
            /\ e.run = execs[t].run /\ e.runner = execs[t].runner
            /\ e.phase \in Working
            /\ execs[t].abort # "none" => e.abort # "none"
      BY <1>2, <2>3 DEF Exec, Phases, Working, Awaiting
    <2>. HIDE DEF began, turn, lost, stop
    <2>. QED
      BY <1>1, <2>1, <2>2, <2>4, OneSteps
  <1>5. CASE StopSession(t) /\ (TurnDone(t) \/ Failed(t))
    <2>. DEFINE closing == [execs[t] EXCEPT !.phase = "closing",
                                            !.beatAt = NoTime,
                                            !.deadline = now + Cleanup]
    <2>1. execs' = [execs EXCEPT ![t] = closing]
      BY <1>5 DEF StopSession
    <2>2. now + Cleanup \in OptTime
      BY <1>2, PeriodsAssumption DEF OptTime
    <2>3. /\ closing \in Exec /\ closing.phase = "closing"
          /\ closing.run = execs[t].run /\ closing.runner = execs[t].runner
          /\ closing.abort = execs[t].abort
      BY <1>2, <2>2 DEF Exec, Phases, OptTime, NoTime
    <2>. HIDE DEF closing
    <2>4. execs[t].phase \in Working
      BY <1>5 DEF TurnDone, Failed, Working, Awaiting
    <2>5. \E outcome \in Terminal : Settle(t, outcome)
      BY <1>5 DEF TurnDone, Failed, Terminal
    <2>6. active' = active
      <3>1. CASE TurnDone(t)
        BY <3>1 DEF TurnDone, control
      <3>2. CASE Failed(t)
        <4>1. execs[t].phase = "running" \/ Leave(t)
          BY <3>2 DEF Failed
        <4>2. ~Leave(t)
          <5>1. SUFFICES ASSUME Leave(t) PROVE FALSE
            OBVIOUS
          <5>2. execs'[t].phase = "over"
            BY <5>1, LeaveFacts
          <5>. QED
            BY <1>2, <2>1, <2>3, <5>2
        <4>. QED
          BY <3>2, <4>1, <4>2 DEF Failed
      <3>. QED
        BY <1>5, <3>1, <3>2
    <2>. QED
      BY <1>1, <2>1, <2>3, <2>4, <2>5, <2>6, SettledIfOwned, OneSteps
  <1>6. CASE Leave(t) /\ (Failed(t) \/ CleanedUp(t) \/ Closed(t) \/ AbortDelivered(t))
    <2>1. execs[t].phase \in Working \cup {"closing"}
      BY <1>6 DEF Failed, CleanedUp, Closed, AbortDelivered, Working
    <2>. QED
      BY <1>1, <1>6, <2>1, LeaveSteps
  <1>7. /\ TurnDone(t) => StopSession(t)
        /\ Failed(t) => StopSession(t) \/ Leave(t)
    BY Zenon DEF TurnDone, Failed
  <1>8. /\ CleanedUp(t) \/ Closed(t) => Leave(t)
        /\ AbortDelivered(t) => execs[t].phase = "running" \/ Leave(t)
    BY DEF CleanedUp, Closed, AbortDelivered
  <1>. QED
    BY <1>3, <1>4, <1>5, <1>6, <1>7, <1>8

\* A heartbeat renews the lease, or aborts the execution that it finds.
LEMMA HeartbeatSteps ==
  ASSUME IInv, NEW t \in DOMAIN execs, Heartbeat(t)
  PROVE  Steps
  <1>1. pc' = pc /\ active' = active
    BY DEF Heartbeat, control, section
  <1>2. /\ execs[t] \in Exec /\ DOMAIN execs' = DOMAIN execs
    BY ExecFacts, AbortExecs DEF Heartbeat
  <1>3. ASSUME NEW u \in DOMAIN execs
        PROVE  /\ execs'[u].run = execs[u].run
               /\ execs'[u].runner = execs[u].runner
               /\ execs'[u].phase = execs[u].phase
               /\ execs[u].abort # "none" => execs'[u].abort # "none"
    <2>1. CASE Owns(runs, RunOf(t), t)
      <3>1. execs' = [execs EXCEPT ![t] = [execs[t] EXCEPT !.beatAt = now + Beat]]
        BY <2>1 DEF Heartbeat
      <3>2. CASE u = t
        BY <1>2, <3>1, <3>2 DEF Exec
      <3>3. CASE u # t
        BY <3>1, <3>3
      <3>. QED
        BY <3>2, <3>3
    <2>2. CASE ~Owns(runs, RunOf(t), t)
      <3>. DEFINE A == Abort(EntryOf(RunnerOf(t), RunOf(t)), "cancelled")
      <3>1. execs' = [A EXCEPT ![t] = [A[t] EXCEPT !.beatAt = NoTime]]
        BY <2>2 DEF Heartbeat
      <3>2. /\ DOMAIN A = DOMAIN execs
            /\ A[u] \in Exec /\ A[u].run = execs[u].run
            /\ A[u].runner = execs[u].runner /\ A[u].phase = execs[u].phase
            /\ execs[u].abort # "none" => A[u].abort # "none"
        BY AbortFacts, AbortExecs
      <3>. HIDE DEF A
      <3>3. CASE u = t
        BY <3>1, <3>2, <3>3 DEF Exec
      <3>4. CASE u # t
        BY <3>1, <3>2, <3>4
      <3>. QED
        BY <3>3, <3>4
    <2>. QED
      BY <2>1, <2>2
  <1>. QED
    BY <1>1, <1>2, <1>3, SamePlaces, AbortSteps

\* Timers and answers.
LEMMA ExecutionSteps ==
  ASSUME IInv, Secure, Reach, NEW t \in DOMAIN execs, Timers(t) \/ Answers(t)
  PROVE  Steps
  BY AwaitSteps, HeartbeatSteps DEF Timers, Answers

\* The head of executeClaim makes the entry of its own execution.
LEMMA DispatchSteps ==
  ASSUME IInv, Secure, Reach, NEW t \in DOMAIN execs, Dispatch(t)
  PROVE  Steps
  <1>. DEFINE r == RunnerOf(t)
              refused == [execs[t] EXCEPT !.phase = "over"]
              begun == [execs[t] EXCEPT !.phase = "preparing",
                                        !.beatAt = now + Beat,
                                        !.deadline = After(Timeout[SpecOf(t)])]
              others == {u \in DOMAIN execs :
                           u # t /\ RunnerOf(u) = r
                             /\ execs[u].phase = "claimed"}
  <1>1. /\ execs[t].phase = "claimed" /\ pc[r] = "dispatch"
        /\ \/ execs' = [execs EXCEPT ![t] = refused] /\ active' = active
           \/ /\ execs' = [execs EXCEPT ![t] = begun]
              /\ active' = [active EXCEPT ![r] =
                              (@ \ EntryOf(r, RunOf(t))) \cup {t}]
        /\ pc' = [pc EXCEPT ![r] = IF others = {} THEN "idle" ELSE "dispatch"]
    BY DEF Dispatch
  <1>2. /\ refused.run = execs[t].run /\ refused.runner = execs[t].runner
        /\ refused.phase = "over" /\ refused.abort = execs[t].abort
        /\ begun.run = execs[t].run /\ begun.runner = execs[t].runner
        /\ begun.phase = "preparing" /\ begun.abort = execs[t].abort
    BY ExecFacts DEF Exec
  <1>3. /\ active \in [Runners -> SUBSET Nat] /\ r \in Runners /\ t \in Nat
        /\ pc \in [Actors -> Places] /\ r \in Actors
    BY ExecFacts DEF IInv, TypeOK
  <1>. HIDE DEF refused, begun
  <1>4. /\ DOMAIN execs' = DOMAIN execs
        /\ \A u \in DOMAIN execs : u # t => execs'[u] = execs[u]
    BY <1>1
  <1>. DEFINE Kept == (\A u \in DOMAIN execs : Moves(u) /\ EntryMoves(u))
                        /\ NoForeignEntry
  <1>5. ASSUME execs' = [execs EXCEPT ![t] = refused], active' = active
        PROVE  Kept
    <2>1. execs'[t] = refused
      BY <1>5
    <2>2. t \notin active[r]
      BY <1>1, <1>3, Phased DEF Reach, Entries
    <2>3. Moves(t) /\ EntryMoves(t)
      BY <1>2, <1>5, <2>1, <2>2, Phased DEF Moves, EntryMoves, Gone
    <2>4. \A u \in DOMAIN execs : u # t => Moves(u) /\ EntryMoves(u)
      BY <1>4, <1>5 DEF Moves, EntryMoves
    <2>5. NoForeignEntry
      BY <1>5 DEF NoForeignEntry
    <2>. QED
      BY <2>3, <2>4, <2>5
  <1>6. ASSUME execs' = [execs EXCEPT ![t] = begun],
               active' = [active EXCEPT ![r] =
                            (@ \ EntryOf(r, RunOf(t))) \cup {t}]
        PROVE  Kept
    <2>1. execs'[t] = begun /\ t \in active'[r]
      BY <1>3, <1>6
    <2>2. Moves(t) /\ EntryMoves(t)
      BY <1>1, <1>2, <2>1, Phased DEF Moves, EntryMoves
    <2>3. ASSUME NEW u \in DOMAIN execs, u # t
          PROVE  Moves(u) /\ EntryMoves(u)
      <3>1. execs[u].phase \in Working => RunOf(u) # RunOf(t)
        BY <1>1, <2>3, OneAtWork, Phased DEF Reach
      <3>2. execs[u].phase \in Working => u \notin EntryOf(r, RunOf(t))
        BY <3>1 DEF EntryOf
      <3>3. RunnerOf(u) \in Runners
        BY ExecFacts
      <3>4. execs[u].phase \in Working /\ u \in active[RunnerOf(u)]
              => u \in active'[RunnerOf(u)]
        BY <1>3, <1>6, <3>2, <3>3
      <3>5. execs'[u] = execs[u]
        BY <1>4, <2>3
      <3>. QED
        BY <3>4, <3>5 DEF Moves, EntryMoves
    <2>4. NoForeignEntry
      BY <1>2, <1>3, <1>6, <2>1, Phased DEF NoForeignEntry
    <2>. QED
      BY <2>2, <2>3, <2>4
  <1>7. ASSUME NEW u \in DOMAIN execs
        PROVE  TickGoesOn(u)
    <2>1. CASE u = t
      BY <1>1, <1>2, <2>1 DEF TickGoesOn
    <2>2. CASE u # t
      <3>1. execs[u].phase = "claimed" /\ RunnerOf(u) = r => others # {}
        BY <2>2
      <3>2. RunnerOf(u) \in Actors
        BY ExecFacts
      <3>. HIDE DEF others
      <3>. QED
        BY <1>1, <1>3, <1>4, <2>2, <3>1, <3>2 DEF TickGoesOn
    <2>. QED
      BY <2>1, <2>2
  <1>. QED
    BY <1>1, <1>4, <1>5, <1>6, <1>7 DEF Steps

-----------------------------------------------------------------------------
(* Entries at polls, claims, edits, stops and crashes *)

\* New claims are executions of the tick that takes them.
LEMMA ClaimDueSteps ==
  ASSUME IInv, NEW r \in Runners, ClaimDue(r)
  PROVE  Steps
  <1>1. PICK n \in Nat : \E claimed \in [1..n -> DOMAIN runs] :
                          Takes(r, n, claimed)
    BY ClaimDueFacts
  <1>2. /\ pc \in [Actors -> Places] /\ r \in Actors /\ pc[r] = "claim"
        /\ Len(execs) \in Nat /\ DOMAIN execs = 1..Len(execs)
        /\ active' = active
    BY SeqDomain DEF IInv, TypeOK, Actors, ClaimDue, control
  <1>. PICK claimed \in [1..n -> DOMAIN runs] : Takes(r, n, claimed)
    BY <1>1
  <1>3. /\ \A k \in 1..n : /\ execs'[Len(execs) + k].runner = r
                            /\ execs'[Len(execs) + k].phase = "claimed"
        /\ DOMAIN execs' = 1..(Len(execs) + n)
        /\ \A t \in DOMAIN execs : execs'[t] = execs[t]
        /\ pc' = [pc EXCEPT ![r] = IF n = 0 THEN "idle" ELSE "dispatch"]
    BY DEF Takes
  <1>4. ASSUME NEW t \in DOMAIN execs
        PROVE  Moves(t) /\ EntryMoves(t) /\ TickGoesOn(t)
    <2>1. RunnerOf(t) \in Actors /\ execs'[t] = execs[t]
      BY <1>3, ExecFacts
    <2>2. pc[RunnerOf(t)] = "dispatch" => pc'[RunnerOf(t)] = "dispatch"
      BY <1>3, <1>2, <2>1
    <2>. QED
      BY <1>2, <2>1, <2>2 DEF Moves, EntryMoves, TickGoesOn
  <1>5. ASSUME NEW t \in DOMAIN execs' \ DOMAIN execs
        PROVE  execs'[t].phase = "claimed" /\ pc'[execs'[t].runner] = "dispatch"
    <2>1. PICK k \in 1..n : t = Len(execs) + k
      <3>1. t - Len(execs) \in 1..n /\ t = Len(execs) + (t - Len(execs))
        BY <1>3, <1>2
      <3>. QED
        BY <3>1
    <2>. QED
      BY <1>3, <1>2, <2>1
  <1>6. DOMAIN execs \subseteq DOMAIN execs'
    BY <1>3, <1>2
  <1>7. NoForeignEntry
    BY <1>2 DEF NoForeignEntry
  <1>. QED
    BY <1>4, <1>5, <1>6, <1>7 DEF Steps

\* The other synchronous stretches leave executions and entries alone.
LEMMA StretchSteps ==
  ASSUME IInv, Secure, Reach, NEW a \in Actors, Stretch(a)
  PROVE  Steps
  <1>1. CASE \/ EnqueueOneOff(a)
             \/ MaterializeSchedules(a)
             \/ a \in Runners /\ CancelSuperseded(a)
    <2>1. UNCHANGED <<execs, active>> /\ pc[a] # "dispatch"
      BY <1>1 DEF EnqueueOneOff, MaterializeSchedules, CancelSuperseded, control
    <2>2. pc' = pc \/ \E x : pc' = [pc EXCEPT ![a] = x]
      BY <1>1 DEF EnqueueOneOff, MaterializeSchedules, CancelSuperseded,
                  Materialize
    <2>. QED
      BY <2>1, <2>2, OwnPlace, SamePlaces, NothingSteps
  <1>2. CASE a \in Runners /\ ClaimDue(a)
    BY <1>2, ClaimDueSteps
  <1>3. CASE \E t \in DOMAIN execs : Dispatch(t)
    BY <1>3, DispatchSteps
  <1>4. CASE InitializeNextRun \/ CancelQueuedRuns \/ ApplyFileNextRun
    <2>1. /\ UNCHANGED <<execs, active>> /\ Author \in Actors
          /\ pc[Author] # "dispatch"
      BY <1>4 DEF InitializeNextRun, CancelQueuedRuns, ApplyFileNextRun, Actors,
                  control
    <2>2. \E x : pc' = [pc EXCEPT ![Author] = x]
      BY <1>4 DEF InitializeNextRun, CancelQueuedRuns, ApplyFileNextRun,
                  Materialize
    <2>. QED
      BY <2>1, <2>2, OwnPlace, NothingSteps
  <1>. QED
    BY <1>1, <1>2, <1>3, <1>4 DEF Stretch

\* Author operations leave executions and entries alone.
LEMMA EditsSteps ==
  ASSUME IInv, Edits
  PROVE  Steps
  <1>1. UNCHANGED <<execs, active>>
    BY DEF Edits, CreateHubSchedule, ReconcileFile, UpdateHubSchedule,
           RemoveSpec, TriggerNow, control
  <1>2. Author \in Actors /\ pc[Author] # "dispatch"
    BY DEF Edits, CreateHubSchedule, ReconcileFile, UpdateHubSchedule,
           RemoveSpec, TriggerNow, AuthorActs, ProcessFree, Actors
  <1>3. pc' = pc \/ \E x : pc' = [pc EXCEPT ![Author] = x]
    BY DEF Edits, CreateHubSchedule, ReconcileFile, UpdateHubSchedule,
           RemoveSpec, TriggerNow, section
  <1>. QED
    BY <1>1, <1>2, <1>3, OwnPlace, SamePlaces, NothingSteps

\* A poll, a stop, a start.
LEMMA RunnerSteps ==
  ASSUME IInv, NEW r \in Runners,
         TickBegin(r) \/ Stop(r) \/ Stopped(r) \/ Start(r)
  PROVE  Steps
  <1>1. CASE TickBegin(r)
    <2>. DEFINE lost == {t \in active[r] : ~Owns(runs, RunOf(t), t)}
    <2>1. r \in Actors /\ pc[r] # "dispatch"
      BY <1>1 DEF TickBegin, ProcessFree, Actors
    <2>2. /\ \E x : pc' = [pc EXCEPT ![r] = x]
          /\ active' = active
          /\ execs' = Abort(lost, "cancelled")
      BY <1>1 DEF TickBegin, Materialize
    <2>. HIDE DEF lost
    <2>3. \A t \in DOMAIN execs : TickGoesOn(t)
      BY <2>1, <2>2, OwnPlace
    <2>. QED
      BY <2>2, <2>3, AbortFacts, AbortExecs, AbortSteps
  <1>2. CASE Stop(r)
    <2>1. /\ pc' = pc /\ active' = active
          /\ execs' = Abort(active[r], "cancelled")
      BY <1>2 DEF Stop, section
    <2>. QED
      BY <2>1, AbortFacts, AbortExecs, SamePlaces, AbortSteps
  <1>3. CASE Stopped(r) \/ Start(r)
    BY <1>3, SamePlaces, NothingSteps DEF Stopped, Start, section
  <1>. QED
    BY <1>1, <1>2, <1>3

\* A crash ends the executions of its process and forgets their entries.
LEMMA CrashSteps ==
  ASSUME IInv, Reach, NEW p \in Procs, Crash(p)
  PROVE  Steps
  <1>. DEFINE dead == {r \in Runners : Proc[r] = p}
  <1>1. /\ execs' = [t \in DOMAIN execs |->
                       IF RunnerOf(t) \in dead /\ execs[t].phase # "over"
                       THEN [execs[t] EXCEPT !.phase = "dead"]
                       ELSE execs[t]]
        /\ pc' = [a \in Actors |-> IF Proc[a] = p THEN "idle" ELSE pc[a]]
        /\ active' = [r \in Runners |-> IF r \in dead THEN {} ELSE active[r]]
    BY DEF Crash
  <1>2. ASSUME NEW t \in DOMAIN execs
        PROVE  Moves(t) /\ EntryMoves(t) /\ TickGoesOn(t)
    <2>1. execs[t] \in Exec /\ RunnerOf(t) \in Runners /\ RunnerOf(t) \in Actors
      BY ExecFacts
    <2>2. CASE RunnerOf(t) \in dead /\ execs[t].phase # "over"
      <3>1. execs'[t] = [execs[t] EXCEPT !.phase = "dead"]
        BY <1>1, <2>2
      <3>2. /\ execs'[t].phase = "dead" /\ execs'[t].run = execs[t].run
            /\ execs'[t].runner = execs[t].runner
            /\ execs'[t].abort = execs[t].abort
        BY <2>1, <3>1 DEF Exec
      <3>3. active'[RunnerOf(t)] = {}
        BY <1>1, <2>1, <2>2
      <3>. QED
        BY <3>2, <3>3, Phased DEF Moves, EntryMoves, TickGoesOn, Gone
    <2>3. CASE ~(RunnerOf(t) \in dead /\ execs[t].phase # "over")
      <3>1. execs'[t] = execs[t]
        BY <1>1, <2>3
      <3>2. execs[t].phase # "over" =>
              /\ pc'[RunnerOf(t)] = pc[RunnerOf(t)]
              /\ active'[RunnerOf(t)] = active[RunnerOf(t)]
        BY <1>1, <2>1, <2>3
      <3>3. "over" \in Gone
        BY DEF Gone
      <3>. QED
        BY <3>1, <3>2, <3>3, Phased DEF Moves, EntryMoves, TickGoesOn
    <2>. QED
      BY <2>2, <2>3
  <1>3. DOMAIN execs' = DOMAIN execs
    BY <1>1
  <1>4. NoForeignEntry
    BY <1>1 DEF NoForeignEntry
  <1>. QED
    BY <1>2, <1>3, <1>4 DEF Steps

-----------------------------------------------------------------------------
(* Stops reach what they must *)

\* What a step does to a runner: only a started runner begins a tick, ...
Commands ==
  /\ \A r \in Runners : pc'[r] # "idle" =>
       /\ pc[r] # "idle" \/ status[r] = "up"
       /\ status'[r] = status[r] \/ status'[r] = "up"
  \* ... and a runner that stops aborts what it has at work.
  /\ \A t \in DOMAIN execs :
       execs'[t].phase \in Awaiting /\ status'[RunnerOf(t)] # "up"
         => status[RunnerOf(t)] # "up" \/ execs'[t].abort # "none"

\* Steps that start and stop no runner.
LEMMA SameCommands ==
  ASSUME IInv, status' = status,
         \A r \in Runners :
           pc'[r] # "idle" => pc[r] # "idle" \/ status[r] = "up"
  PROVE  Commands
  BY DEF Commands

\* A stretch that is under way stays with its actor.
LEMMA StretchCommands ==
  ASSUME IInv, NEW a \in Actors, Stretch(a)
  PROVE  Commands
  <1>1. status' = status
    BY DEF Stretch, EnqueueOneOff, MaterializeSchedules, CancelSuperseded,
           ClaimDue, Dispatch, InitializeNextRun, CancelQueuedRuns,
           ApplyFileNextRun, control
  <1>2. pc[a] # "idle"
    BY DEF Stretch, EnqueueOneOff, MaterializeSchedules, CancelSuperseded,
           ClaimDue, Dispatch, InitializeNextRun, CancelQueuedRuns,
           ApplyFileNextRun
  <1>3. pc' = pc \/ \E x : pc' = [pc EXCEPT ![a] = x]
    BY DEF Stretch, EnqueueOneOff, MaterializeSchedules, CancelSuperseded,
           ClaimDue, Dispatch, InitializeNextRun, CancelQueuedRuns,
           ApplyFileNextRun, Materialize
  <1>4. \A r \in Runners : pc'[r] # "idle" => pc[r] # "idle"
    BY <1>2, <1>3 DEF IInv, TypeOK, Actors
  <1>. QED
    BY <1>1, <1>4, SameCommands

\* Executions, authors and the clock command no runner.
LEMMA QuietCommands ==
  ASSUME IInv,
         \/ \E t \in DOMAIN execs : Timers(t) \/ Answers(t)
         \/ Edits \/ Advance \/ Sleep
  PROVE  Commands
  <1>1. status' = status
    BY DEF Timers, Answers, Heartbeat, TimedOut, AbortDelivered, CleanedUp,
           Closed, Prepared, SessionStarted, TurnDone, Failed, Edits,
           CreateHubSchedule, ReconcileFile, UpdateHubSchedule, RemoveSpec,
           TriggerNow, Advance, Sleep, control
  <1>2. pc' = pc \/ \E x : pc' = [pc EXCEPT ![Author] = x]
    BY DEF Timers, Answers, Heartbeat, TimedOut, AbortDelivered, CleanedUp,
           Closed, Prepared, SessionStarted, TurnDone, Failed, Edits,
           CreateHubSchedule, ReconcileFile, UpdateHubSchedule, RemoveSpec,
           TriggerNow, Advance, Sleep, section
  <1>3. \A r \in Runners : pc'[r] = pc[r]
    BY <1>2, AuthorAssumption DEF IInv, TypeOK, Actors
  <1>. QED
    BY <1>1, <1>3, SameCommands

\* stop() aborts every execution that is at work, start() none.
LEMMA RunnerCommands ==
  ASSUME IInv, Reach, NEW r \in Runners,
         TickBegin(r) \/ Stop(r) \/ Stopped(r) \/ Start(r)
  PROVE  Commands
  <1>1. CASE TickBegin(r)
    <2>1. /\ status' = status /\ status[r] = "up"
          /\ \E x : pc' = [pc EXCEPT ![r] = x]
      BY <1>1 DEF TickBegin, Materialize
    <2>2. \A q \in Runners : pc'[q] # "idle" => pc[q] # "idle" \/ status[q] = "up"
      BY <2>1 DEF IInv, TypeOK, Actors
    <2>. QED
      BY <2>1, <2>2, SameCommands
  <1>2. CASE Stop(r)
    <2>1. /\ status[r] = "up" /\ status' = [status EXCEPT ![r] = "stopping"]
          /\ execs' = Abort(active[r], "cancelled") /\ pc' = pc
          /\ pc[r] = "idle" /\ status \in [Runners -> {"up", "stopping", "stopped"}]
      BY <1>2 DEF Stop, ProcessFree, section, Actors, IInv, TypeOK
    <2>2. ASSUME NEW t \in DOMAIN execs, execs'[t].phase \in Awaiting,
                 status'[RunnerOf(t)] # "up", status[RunnerOf(t)] = "up"
          PROVE  execs'[t].abort # "none"
      <3>1. RunnerOf(t) = r
        BY <2>1, <2>2, ExecFacts
      <3>2. execs[t].phase \in Working
        BY <2>1, <2>2, AbortFacts, Phased
      <3>. QED
        BY <2>1, <3>1, <3>2, AbortFacts DEF Reach, Entered
    <2>3. \A q \in Runners : pc'[q] # "idle" => q # r
      BY <2>1
    <2>. QED
      BY <2>1, <2>2, <2>3 DEF Commands
  <1>3. CASE Stopped(r) \/ Start(r)
    <2>1. /\ status[r] # "up" /\ pc' = pc
          /\ \E x : status' = [status EXCEPT ![r] = x]
          /\ status \in [Runners -> {"up", "stopping", "stopped"}]
      BY <1>3 DEF Stopped, Start, section, IInv, TypeOK
    <2>2. pc[r] = "idle"
      BY <2>1 DEF Reach, UpTicks
    <2>. QED
      BY <2>1, <2>2, ExecFacts DEF Commands
  <1>. QED
    BY <1>1, <1>2, <1>3

\* A crash leaves no execution of the process at work.
LEMMA CrashCommands ==
  ASSUME IInv, NEW p \in Procs, Crash(p)
  PROVE  Commands
  <1>. DEFINE dead == {r \in Runners : Proc[r] = p}
  <1>1. /\ status' = [r \in Runners |-> IF r \in dead THEN "stopped"
                                                      ELSE status[r]]
        /\ execs' = [t \in DOMAIN execs |->
                       IF RunnerOf(t) \in dead /\ execs[t].phase # "over"
                       THEN [execs[t] EXCEPT !.phase = "dead"]
                       ELSE execs[t]]
        /\ pc' = [a \in Actors |-> IF Proc[a] = p THEN "idle" ELSE pc[a]]
    BY DEF Crash
  <1>2. \A r \in Runners : r \in Actors
    BY DEF Actors
  <1>3. ASSUME NEW r \in Runners, pc'[r] # "idle"
        PROVE  pc[r] # "idle" /\ status'[r] = status[r]
    BY <1>1, <1>2, <1>3
  <1>4. ASSUME NEW t \in DOMAIN execs, execs'[t].phase \in Awaiting,
               status'[RunnerOf(t)] # "up", status[RunnerOf(t)] = "up"
        PROVE  FALSE
    <2>1. RunnerOf(t) \in dead
      BY <1>1, <1>4, ExecFacts
    <2>2. execs'[t].phase \in {"over", "dead"}
      BY <1>1, <2>1, ExecFacts DEF Exec
    <2>. QED
      BY <1>4, <2>2 DEF Awaiting
  <1>. QED
    BY <1>3, <1>4 DEF Commands

\* The entries and the aborts survive every step that keeps claims safe.
LEMMA ReachStep ==
  ASSUME IInv, IInv', Secure, Reach, StopReachesAll, [Next]_vars
  PROVE  Reach' /\ StopReachesAll'
  <1>1. CASE UNCHANGED <<execs, active, runs, pc, status>>
    BY <1>1 DEF Reach, Entries, Entered, SettledFirst, ClaimsInTick, UpTicks,
                StopReachesAll, RunOf, RunnerOf
  <1>2. CASE Steps /\ Commands
    <2>1. \A i \in DOMAIN runs :
            runs[i].status \in Terminal => runs'[i].status = runs[i].status
      BY NextFates DEF Fates, Fate, ClockOnly, Claimed, Renewed, Withdrawn,
                       Settled, Terminal
    <2>2. Entries' /\ Entered' /\ SettledFirst' /\ ClaimsInTick'
      BY <1>2, <2>1, StepsReach
    <2>3. UpTicks'
      BY <1>2 DEF Commands, UpTicks, Reach
    <2>4. StopReachesAll'
      <3>. SUFFICES ASSUME NEW t \in DOMAIN execs',
                           execs'[t].phase \in Awaiting,
                           status'[execs'[t].runner] # "up"
                    PROVE  execs'[t].abort # "none"
        BY DEF StopReachesAll, RunnerOf
      <3>1. t \in DOMAIN execs
        BY <1>2, Phased DEF Steps
      <3>2. /\ Moves(t) /\ execs'[t].runner = RunnerOf(t)
            /\ RunnerOf(t) \in Runners
        BY <1>2, <3>1, ExecFacts DEF Steps, Moves, RunnerOf
      <3>3. CASE execs'[t].abort = "none"
        <4>1. status[RunnerOf(t)] # "up"
          BY <1>2, <3>1, <3>2, <3>3 DEF Commands
        <4>2. execs[t].abort = "none"
          BY <3>2, <3>3 DEF Moves
        <4>3. execs[t].phase \notin Awaiting
          BY <3>1, <4>1, <4>2 DEF StopReachesAll
        <4>4. pc[RunnerOf(t)] = "dispatch"
          BY <3>2, <4>3, Phased DEF Moves
        <4>. QED
          BY <3>2, <4>1, <4>4 DEF Reach, UpTicks
      <3>. QED
        BY <3>3
    <2>. QED
      BY <2>2, <2>3, <2>4 DEF Reach
  <1>3. CASE \E a \in Actors : Stretch(a)
    BY <1>2, <1>3, StretchSteps, StretchCommands
  <1>4. CASE \E t \in DOMAIN execs : Timers(t) \/ Answers(t)
    BY <1>2, <1>4, ExecutionSteps, QuietCommands
  <1>5. CASE \E r \in Runners : TickBegin(r) \/ Stop(r) \/ Stopped(r) \/ Start(r)
    BY <1>2, <1>5, RunnerSteps, RunnerCommands
  <1>6. CASE \E p \in Procs : Crash(p)
    BY <1>2, <1>6, CrashSteps, CrashCommands
  <1>7. CASE Edits
    BY <1>2, <1>7, EditsSteps, QuietCommands
  <1>8. CASE Advance \/ Sleep \/ UNCHANGED vars
    BY <1>1, <1>8 DEF Advance, Sleep, vars, store, control, section
  <1>. QED
    BY <1>3, <1>4, <1>5, <1>6, <1>7, <1>8 DEF Next, Halt

-----------------------------------------------------------------------------
(* Counting *)

\* A non-empty set of naturals has a least element.
LEMMA Least ==
  ASSUME NEW T \in SUBSET Nat, T # {}
  PROVE  \E x \in T : \A y \in T : x <= y
  <1>. DEFINE R == OpToRel(<, Nat)
  <1>1. IsWellFoundedOn(R, Nat)
    BY NatLessThanWellFounded
  <1>2. \A x, y \in Nat : x < y => <<x, y>> \in R
    BY DEF OpToRel
  <1>. HIDE DEF R
  <1>3. PICK x \in T : \A y \in T : ~ (<<y, x>> \in R)
    BY <1>1, WFMin
  <1>4. \A y \in T : ~(y < x)
    BY <1>2, <1>3, Zenon
  <1>5. x \in Nat /\ \A y \in T : y \in Nat
    OBVIOUS
  <1>. QED
    BY <1>4, <1>5

\* A non-empty set of indices has a greatest element.
LEMMA Greatest ==
  ASSUME NEW n \in Nat, NEW T \in SUBSET (1..n), T # {}
  PROVE  \E x \in T : \A y \in T : y <= x
  <1>. DEFINE U == {n - x : x \in T}
  <1>1. U \in SUBSET Nat /\ U # {}
    <2>1. \A x \in T : n - x \in Nat
      OBVIOUS
    <2>. QED
      BY <2>1
  <1>. HIDE DEF U
  <1>2. PICK u \in U : \A y \in U : u <= y
    BY <1>1, Least
  <1>3. PICK x \in T : u = n - x
    BY DEF U
  <1>4. \A y \in T : u <= n - y
    BY <1>2 DEF U
  <1>. QED
    BY <1>3, <1>4

\* A set that maps one to one into another has no more elements.
LEMMA NoMore ==
  ASSUME NEW A, NEW B, IsFiniteSet(B), NEW f \in [A -> B],
         \A x, y \in A : f[x] = f[y] => x = y
  PROVE  /\ Cardinality(A) \in Nat /\ Cardinality(B) \in Nat
         /\ Cardinality(A) <= Cardinality(B)
  <1>1. f \in Injection(A, B)
    BY DEF Injection, IsInjective
  <1>2. IsFiniteSet(A) /\ Cardinality(A) <= Cardinality(B)
    BY <1>1, FS_Injection
  <1>. QED
    BY <1>2, FS_CardinalityType

\* One element more.
LEMMA OneMore ==
  ASSUME NEW A, NEW B, NEW x, B \subseteq A \cup {x}, IsFiniteSet(A),
         NEW n \in Nat, Cardinality(A) < n
  PROVE  /\ IsFiniteSet(B) /\ Cardinality(B) \in Nat
         /\ Cardinality(B) <= n
  <1>1. /\ IsFiniteSet(A \cup {x})
        /\ Cardinality(A \cup {x}) <= Cardinality(A) + 1
        /\ Cardinality(A) \in Nat /\ Cardinality(A \cup {x}) \in Nat
    <2>1. Cardinality(A) \in Nat
      BY FS_CardinalityType
    <2>2. /\ IsFiniteSet(A \cup {x})
          /\ Cardinality(A \cup {x}) =
               IF x \in A THEN Cardinality(A) ELSE Cardinality(A) + 1
      BY FS_AddElement
    <2>. QED
      BY <2>1, <2>2
  <1>2. IsFiniteSet(B) /\ Cardinality(B) <= Cardinality(A \cup {x})
    BY <1>1, FS_Subset
  <1>3. Cardinality(B) \in Nat
    BY <1>2, FS_CardinalityType
  <1>. QED
    BY <1>1, <1>2, <1>3

\* A claim list leaves no limit exceeded: up to its k-th row, neither the
\* claims that hold nor those of that row's spec are too many.
LEMMA ClaimsHaveRoom ==
  ASSUME NEW rs \in Seq(RunRow), NEW t \in Nat, NEW n \in Nat,
         NEW claimed \in [1..n -> DOMAIN rs], claimed \in ClaimLists(rs, t),
         NEW k \in 1..n
  PROVE  LET busy == LiveClaims(rs, t) \cup {claimed[m] : m \in 1..k}
             s == rs[claimed[k]].spec
         IN  /\ IsFiniteSet(busy)
             /\ Cardinality(busy) <= Concurrency
             /\ Cardinality({j \in busy : rs[j].spec = s}) <= MaxParallel[s]
  <1>. DEFINE i == claimed[k]
              s == rs[i].spec
              chosen == {claimed[m] : m \in DOMAIN claimed}
              earlier == {j \in chosen : Before(rs, j, i)}
              held == LiveClaims(rs, t) \cup earlier
              busy == LiveClaims(rs, t) \cup {claimed[m] : m \in 1..k}
  <1>1. /\ DOMAIN claimed = 1..n /\ i \in chosen /\ i \in DOMAIN rs
        /\ Len(rs) \in Nat /\ DOMAIN rs = 1..Len(rs)
        /\ \A j \in DOMAIN rs : rs[j] \in RunRow
    BY SeqDomain
  <1>2. /\ \A m, o \in DOMAIN claimed :
             m < o => Before(rs, claimed[m], claimed[o])
        /\ i \in Due(rs, t) => HasRoom(rs, i, earlier, t)
    BY <1>1 DEF ClaimLists, IsClaimList
  <1>3. i \in Due(rs, t)
    <2>1. PICK o \in 0..Len(rs) : claimed \in [1..o -> Due(rs, t)]
      BY DEF ClaimLists
    <2>2. DOMAIN claimed = 1..o /\ \A m \in 1..o : claimed[m] \in Due(rs, t)
      BY <2>1
    <2>. QED
      BY <1>1, <2>2
  <1>4. \A m \in 1..k : claimed[m] \in earlier \cup {i}
    <2>1. \A m \in 1..k : m = k \/ (m < k /\ m \in DOMAIN claimed)
      BY <1>1
    <2>. QED
      BY <1>1, <1>2, <2>1
  <1>5. busy \subseteq held \cup {i}
    BY <1>4
  <1>6. IsFiniteSet(held)
    <2>1. held \subseteq DOMAIN rs
      BY <1>1 DEF LiveClaims
    <2>2. IsFiniteSet(DOMAIN rs)
      BY <1>1, FS_Interval
    <2>. QED
      BY <2>1, <2>2, FS_Subset
  <1>7. /\ Cardinality(held) < Concurrency
        /\ Cardinality({j \in held : rs[j].spec = s}) < MaxParallel[s]
    BY <1>2, <1>3 DEF HasRoom
  <1>8. /\ Concurrency \in Nat /\ MaxParallel[s] \in Nat
    BY <1>1, ConcurrencyAssumption, MaxParallelAssumption DEF RunRow
  <1>9. IsFiniteSet({j \in held : rs[j].spec = s})
    BY <1>6, FS_Subset
  <1>10. {j \in busy : rs[j].spec = s} \subseteq {j \in held : rs[j].spec = s} \cup {i}
    BY <1>5
  <1>. HIDE DEF i, s, chosen, earlier, held, busy
  <1>11. IsFiniteSet(busy) /\ Cardinality(busy) <= Concurrency
    BY <1>5, <1>6, <1>7, <1>8, OneMore
  <1>12. Cardinality({j \in busy : rs[j].spec = s}) <= MaxParallel[s]
    BY <1>7, <1>8, <1>9, <1>10, OneMore
  <1>. QED
    BY <1>11, <1>12 DEF busy, i, s

-----------------------------------------------------------------------------
(* Sessions within their limits *)

\* The limits hold of everything that is live, sessions and claims.
WithinLimits ==
  /\ Cardinality(LiveExecs) <= Concurrency
  /\ \A s \in Specs :
       Cardinality({t \in LiveExecs : SpecOf(t) = s}) <= MaxParallel[s]

\* The executions are finitely many.
LEMMA FiniteExecs ==
  ASSUME IInv
  PROVE  IsFiniteSet(LiveExecs)
  <1>1. DOMAIN execs = 1..Len(execs) /\ Len(execs) \in Nat
    BY SeqDomain DEF IInv, TypeOK
  <1>2. IsFiniteSet(DOMAIN execs)
    BY <1>1, FS_Interval
  <1>. QED
    BY <1>2, FS_Subset DEF LiveExecs

\* A part of a finite set has no more elements.
LEMMA PartIsNoMore ==
  ASSUME NEW B, IsFiniteSet(B), NEW A, A \subseteq B
  PROVE  /\ IsFiniteSet(A) /\ Cardinality(A) \in Nat /\ Cardinality(B) \in Nat
         /\ Cardinality(A) <= Cardinality(B)
  BY FS_Subset, FS_CardinalityType

\* Executions that end and go on leave the limits alone.
LEMMA FewerLive ==
  ASSUME IInv, [Next]_vars, WithinLimits, LiveExecs' \subseteq LiveExecs,
         \A t \in DOMAIN execs : execs'[t].run = execs[t].run
  PROVE  WithinLimits'
  <1>1. ASSUME NEW s \in Specs
        PROVE  {t \in LiveExecs' : runs'[execs'[t].run].spec = s}
                 \subseteq {t \in LiveExecs : SpecOf(t) = s}
    <2>. SUFFICES ASSUME NEW t \in LiveExecs', runs'[execs'[t].run].spec = s
                  PROVE  t \in LiveExecs /\ SpecOf(t) = s
      OBVIOUS
    <2>1. t \in LiveExecs /\ t \in DOMAIN execs /\ RunOf(t) \in DOMAIN runs
      BY ExecFacts DEF LiveExecs
    <2>2. SameJob(RunOf(t)) /\ execs'[t].run = RunOf(t)
      BY <2>1, SameJobs DEF RunOf
    <2>. QED
      BY <2>1, <2>2 DEF SameJob, SpecOf, RunOf
  <1>2. Cardinality(LiveExecs') <= Concurrency
    BY FiniteExecs, PartIsNoMore, ConcurrencyAssumption DEF WithinLimits
  <1>3. ASSUME NEW s \in Specs
        PROVE  Cardinality({t \in LiveExecs' : runs'[execs'[t].run].spec = s})
                 <= MaxParallel[s]
    <2>. DEFINE A == {t \in LiveExecs' : runs'[execs'[t].run].spec = s}
                B == {t \in LiveExecs : SpecOf(t) = s}
    <2>1. IsFiniteSet(B)
      BY FiniteExecs, PartIsNoMore
    <2>2. Cardinality(B) <= MaxParallel[s] /\ MaxParallel[s] \in Nat
      BY MaxParallelAssumption DEF WithinLimits
    <2>3. A \subseteq B
      BY <1>1
    <2>. HIDE DEF A, B
    <2>4. Cardinality(A) <= MaxParallel[s]
      BY <2>1, <2>2, <2>3, PartIsNoMore
    <2>. QED
      BY <2>4 DEF A
  <1>. QED
    BY <1>2, <1>3 DEF WithinLimits, SpecOf

\* A claim transaction finds every live execution behind a claim that holds,
\* so that the limits on claims are limits on sessions.
LEMMA ClaimsWithinLimits ==
  ASSUME IInv, Secure, WithinLimits, NEW r \in Runners, ClaimDue(r),
         [Next]_vars
  PROVE  WithinLimits'
  <1>1. PICK n \in Nat : \E c \in [1..n -> DOMAIN runs] : Takes(r, n, c)
    BY ClaimDueFacts
  <1>2. PICK claimed \in [1..n -> DOMAIN runs] : Takes(r, n, claimed)
    BY <1>1
  <1>3. /\ runs \in Seq(RunRow) /\ now \in Nat
        /\ Len(execs) \in Nat /\ DOMAIN execs = 1..Len(execs)
        /\ \E q \in Runners : pc[q] = "claim"
        /\ claimed \in ClaimLists(runs, now)
    BY <1>2, SeqDomain DEF IInv, TypeOK, ClaimDue, Takes
  <1>4. /\ \A k, m \in 1..n : claimed[k] = claimed[m] => k = m
        /\ \A k \in 1..n :
             /\ execs'[Len(execs) + k].run = claimed[k]
             /\ execs'[Len(execs) + k].phase = "claimed"
        /\ DOMAIN execs' = 1..(Len(execs) + n)
        /\ \A t \in DOMAIN execs : execs'[t] = execs[t]
    BY <1>2 DEF Takes
  <1>5. ASSUME NEW t \in LiveExecs
        PROVE  /\ t \in DOMAIN execs /\ execs'[t].run = RunOf(t)
               /\ RunOf(t) \in LiveClaims(runs, now)
               /\ runs[RunOf(t)].token = t
    <2>1. /\ t \in DOMAIN execs /\ t \in Nat /\ t # NoToken
          /\ RunOf(t) \in DOMAIN runs /\ runs[RunOf(t)] \in RunRow
      BY ExecFacts, SeqDomain DEF LiveExecs, IInv, TypeOK, NoToken
    <2>2. runs[RunOf(t)].token = t /\ now < runs[RunOf(t)].until
      BY <1>3 DEF Secure, Owns
    <2>3. runs[RunOf(t)].status = "running"
      BY <2>1, <2>2 DEF IInv, RunningHasOwner
    <2>4. runs[RunOf(t)].until > now
      BY <1>3, <2>1, <2>2 DEF RunRow, OptTime, NoTime
    <2>. QED
      BY <1>4, <2>1, <2>2, <2>3, <2>4 DEF LiveClaims, RunOf
  <1>6. ASSUME NEW k \in 1..n
        PROVE  /\ claimed[k] \in DOMAIN runs
               /\ claimed[k] \notin LiveClaims(runs, now)
    <2>1. PICK o \in 0..Len(runs) : claimed \in [1..o -> Due(runs, now)]
      BY <1>3 DEF ClaimLists
    <2>2. claimed[k] \in Due(runs, now)
      <3>1. DOMAIN claimed = 1..n /\ DOMAIN claimed = 1..o
        BY <2>1
      <3>. QED
        BY <2>1, <3>1
    <2>3. runs[claimed[k]] \in RunRow
      BY <1>3, <2>2, SeqDomain DEF Due
    <2>4. runs[claimed[k]].until \in Int
      BY <2>3 DEF RunRow, OptTime, NoTime
    <2>. QED
      BY <1>3, <2>2, <2>4 DEF Due, LiveClaims
  <1>7. ASSUME NEW t \in LiveExecs'
        PROVE  \/ t \in LiveExecs
               \/ /\ t - Len(execs) \in 1..n
                  /\ execs'[t].run = claimed[t - Len(execs)]
    <2>1. t \in 1..(Len(execs) + n) /\ execs'[t].phase \in Live
      BY <1>4 DEF LiveExecs
    <2>2. CASE t \in DOMAIN execs
      BY <1>4, <2>1, <2>2 DEF LiveExecs
    <2>3. CASE t \notin DOMAIN execs
      <3>1. /\ t - Len(execs) \in 1..n
            /\ t = Len(execs) + (t - Len(execs))
        BY <1>3, <2>1, <2>3
      <3>. QED
        BY <1>4, <3>1
    <2>. QED
      BY <2>2, <2>3
  <1>8. ASSUME NEW t \in LiveExecs', NEW u \in LiveExecs',
               execs'[t].run = execs'[u].run
        PROVE  t = u
    <2>1. CASE t \in LiveExecs /\ u \in LiveExecs
      BY <1>5, <1>8, <2>1
    <2>2. CASE t \notin LiveExecs /\ u \notin LiveExecs
      <3>1. /\ t - Len(execs) \in 1..n /\ u - Len(execs) \in 1..n
            /\ claimed[t - Len(execs)] = claimed[u - Len(execs)]
        BY <1>7, <1>8, <2>2
      <3>2. t - Len(execs) = u - Len(execs)
        BY <1>4, <3>1
      <3>3. t \in Int /\ u \in Int
        BY <1>3, <1>4 DEF LiveExecs
      <3>. QED
        BY <1>3, <3>2, <3>3
    <2>3. CASE t \in LiveExecs /\ u \notin LiveExecs
      BY <1>5, <1>6, <1>7, <1>8, <2>3
    <2>4. CASE t \notin LiveExecs /\ u \in LiveExecs
      BY <1>5, <1>6, <1>7, <1>8, <2>4
    <2>. QED
      BY <2>1, <2>2, <2>3, <2>4
  <1>9. CASE n = 0
    <2>1. LiveExecs' \subseteq LiveExecs
      BY <1>3, <1>7, <1>9
    <2>2. \A t \in DOMAIN execs : execs'[t].run = execs[t].run
      BY <1>4
    <2>. QED
      BY <2>1, <2>2, FewerLive
  <1>10. CASE n > 0
    <2>1. Cardinality(LiveExecs') <= Concurrency
      <3>. DEFINE B == LiveClaims(runs, now) \cup {claimed[m] : m \in 1..n}
                  f == [t \in LiveExecs' |-> execs'[t].run]
      <3>1. IsFiniteSet(B) /\ Cardinality(B) <= Concurrency
        <4>1. n \in 1..n
          BY <1>10
        <4>. QED
          BY <1>3, <4>1, ClaimsHaveRoom
      <3>2. f \in [LiveExecs' -> B] /\ \A t, u \in LiveExecs' : f[t] = f[u] => t = u
        BY <1>5, <1>7, <1>8
      <3>. HIDE DEF B, f
      <3>. QED
        BY <3>1, <3>2, NoMore, ConcurrencyAssumption
    <2>2. ASSUME NEW s \in Specs
          PROVE  Cardinality({t \in LiveExecs' : runs'[execs'[t].run].spec = s})
                   <= MaxParallel[s]
      <3>. DEFINE A == {t \in LiveExecs' : runs'[execs'[t].run].spec = s}
                  K == {k \in 1..n : runs[claimed[k]].spec = s}
      <3>0. \A i \in DOMAIN runs : runs'[i].spec = runs[i].spec
        BY SameJobs DEF SameJob
      <3>1. CASE K = {}
        <4>. DEFINE B == {t \in LiveExecs : SpecOf(t) = s}
        <4>1. A \subseteq B
          <5>. SUFFICES ASSUME NEW t \in A PROVE t \in B
            OBVIOUS
          <5>1. t \in LiveExecs
            BY <1>6, <1>7, <3>0, <3>1
          <5>2. /\ execs'[t].run = RunOf(t) /\ RunOf(t) \in DOMAIN runs
            BY <1>5, <5>1, ExecFacts
          <5>. QED
            BY <3>0, <5>1, <5>2 DEF SpecOf, RunOf
        <4>2. IsFiniteSet(B)
          BY FiniteExecs, PartIsNoMore
        <4>3. Cardinality(B) <= MaxParallel[s] /\ MaxParallel[s] \in Nat
          BY MaxParallelAssumption DEF WithinLimits
        <4>. HIDE DEF A, B
        <4>4. Cardinality(A) <= MaxParallel[s]
          BY <4>1, <4>2, <4>3, PartIsNoMore
        <4>. QED
          BY <4>4 DEF A
      <3>2. CASE K # {}
        <4>1. PICK k \in K : \A m \in K : m <= k
          <5>1. K \in SUBSET (1..n)
            OBVIOUS
          <5>. HIDE DEF K
          <5>. QED
            BY <3>2, <5>1, Greatest
        <4>. DEFINE busy == LiveClaims(runs, now) \cup {claimed[m] : m \in 1..k}
                    B == {j \in busy : runs[j].spec = s}
                    f == [t \in A |-> execs'[t].run]
        <4>2. /\ k \in 1..n /\ runs[claimed[k]].spec = s
              /\ \A m \in 1..n : runs[claimed[m]].spec = s => m \in 1..k
          BY <4>1
        <4>3. IsFiniteSet(busy) /\ Cardinality(B) <= MaxParallel[s]
          BY <1>3, <4>2, ClaimsHaveRoom
        <4>4. IsFiniteSet(B)
          BY <4>3, PartIsNoMore
        <4>5. ASSUME NEW t \in A
              PROVE  execs'[t].run \in B
          <5>1. t \in LiveExecs' /\ runs'[execs'[t].run].spec = s
            OBVIOUS
          <5>2. CASE t \in LiveExecs
            <6>1. /\ execs'[t].run \in LiveClaims(runs, now)
                  /\ execs'[t].run \in DOMAIN runs
              BY <1>5, <5>2 DEF LiveClaims
            <6>. QED
              BY <3>0, <5>1, <6>1
          <5>3. CASE t \notin LiveExecs
            <6>. DEFINE m == t - Len(execs)
            <6>1. m \in 1..n /\ execs'[t].run = claimed[m]
              BY <1>7, <5>1, <5>3
            <6>. HIDE DEF m
            <6>2. claimed[m] \in DOMAIN runs /\ runs[claimed[m]].spec = s
              BY <1>6, <3>0, <5>1, <6>1
            <6>3. m \in 1..k
              BY <4>2, <6>1, <6>2
            <6>. QED
              BY <6>1, <6>2, <6>3
          <5>. QED
            BY <5>2, <5>3
        <4>6. f \in [A -> B] /\ \A t, u \in A : f[t] = f[u] => t = u
          BY <1>8, <4>5
        <4>7. MaxParallel[s] \in Nat
          BY MaxParallelAssumption
        <4>. HIDE DEF A, B, f
        <4>8. Cardinality(A) <= MaxParallel[s]
          BY <4>3, <4>4, <4>6, <4>7, NoMore
        <4>. QED
          BY <4>8 DEF A
      <3>. QED
        BY <3>1, <3>2
    <2>. QED
      BY <2>1, <2>2 DEF WithinLimits, SpecOf, RunOf
  <1>. QED
    BY <1>9, <1>10

\* Steps that hand out no claim.
LEMMA NoClaimSteps ==
  ASSUME IInv, Next, \A r \in Runners : ~ClaimDue(r)
  PROVE  DOMAIN execs' = DOMAIN execs
  <1>1. CASE \E a \in Actors : Stretch(a)
    BY <1>1 DEF Stretch, EnqueueOneOff, MaterializeSchedules, CancelSuperseded,
                Dispatch, InitializeNextRun, CancelQueuedRuns, ApplyFileNextRun
  <1>2. CASE \E t \in DOMAIN execs : Timers(t) \/ Answers(t)
    BY <1>2, AbortExecs
       DEF Timers, Answers, Heartbeat, TimedOut, AbortDelivered, CleanedUp,
           Closed, Prepared, SessionStarted, TurnDone, Failed, StopSession,
           Leave
  <1>3. CASE \E r \in Runners : TickBegin(r) \/ Stop(r) \/ Stopped(r) \/ Start(r)
    BY <1>3, AbortExecs DEF TickBegin, Stop, Stopped, Start
  <1>4. CASE \E p \in Procs : Crash(p)
    BY <1>4 DEF Crash
  <1>5. CASE Edits
    BY <1>5 DEF Edits, CreateHubSchedule, ReconcileFile, UpdateHubSchedule,
                RemoveSpec, TriggerNow
  <1>6. CASE Advance \/ Sleep \/ Halt
    BY <1>6 DEF Advance, Sleep, Halt, vars
  <1>. QED
    BY <1>1, <1>2, <1>3, <1>4, <1>5, <1>6 DEF Next

\* The entries survive a step; what a step does to executions, for any step.
LEMMA NextSteps ==
  ASSUME IInv, Secure, Reach, [Next]_vars
  PROVE  Steps \/ UNCHANGED <<execs, active, runs, pc, status>>
  <1>1. CASE \E a \in Actors : Stretch(a)
    BY <1>1, StretchSteps
  <1>2. CASE \E t \in DOMAIN execs : Timers(t) \/ Answers(t)
    BY <1>2, ExecutionSteps
  <1>3. CASE \E r \in Runners : TickBegin(r) \/ Stop(r) \/ Stopped(r) \/ Start(r)
    BY <1>3, RunnerSteps
  <1>4. CASE \E p \in Procs : Crash(p)
    BY <1>4, CrashSteps
  <1>5. CASE Edits
    BY <1>5, EditsSteps
  <1>6. CASE Advance \/ Sleep \/ UNCHANGED vars
    BY <1>6 DEF Advance, Sleep, vars, store, control, section
  <1>. QED
    BY <1>1, <1>2, <1>3, <1>4, <1>5, <1>6 DEF Next, Halt

\* The limits survive every step that keeps claims safe.
LEMMA WithinLimitsStep ==
  ASSUME IInv, Secure, Reach, WithinLimits, [Next]_vars
  PROVE  WithinLimits'
  <1>1. CASE \E r \in Runners : ClaimDue(r)
    BY <1>1, ClaimsWithinLimits
  <1>2. CASE \A r \in Runners : ~ClaimDue(r)
    <2>1. DOMAIN execs' = DOMAIN execs
      BY <1>2, NoClaimSteps DEF vars
    <2>2. ASSUME NEW t \in DOMAIN execs
          PROVE  /\ execs'[t].run = execs[t].run
                 /\ execs'[t].phase \in Live => execs[t].phase \in Live
      <3>1. CASE Steps
        BY <3>1, Phased DEF Steps, Moves
      <3>2. CASE execs' = execs
        BY <3>2
      <3>. QED
        BY <3>1, <3>2, NextSteps
    <2>3. LiveExecs' \subseteq LiveExecs
      BY <2>1, <2>2 DEF LiveExecs
    <2>. QED
      BY <2>2, <2>3, FewerLive
  <1>. QED
    BY <1>1, <1>2

\* Sessions at work are live.
LEMMA WorkWithinLimits ==
  ASSUME IInv, WithinLimits
  PROVE  SessionsWithinLimits
  <1>. DEFINE working == {t \in DOMAIN execs : execs[t].phase \in Working}
  <1>1. working \subseteq LiveExecs
    BY Phased DEF LiveExecs
  <1>2. Cardinality(working) <= Concurrency
    BY <1>1, FiniteExecs, PartIsNoMore, ConcurrencyAssumption DEF WithinLimits
  <1>3. ASSUME NEW s \in Specs
        PROVE  Cardinality({t \in working : SpecOf(t) = s}) <= MaxParallel[s]
    <2>. DEFINE A == {t \in working : SpecOf(t) = s}
                B == {t \in LiveExecs : SpecOf(t) = s}
    <2>1. A \subseteq B
      BY <1>1
    <2>2. IsFiniteSet(B)
      BY FiniteExecs, PartIsNoMore
    <2>3. Cardinality(B) <= MaxParallel[s] /\ MaxParallel[s] \in Nat
      BY MaxParallelAssumption DEF WithinLimits
    <2>. HIDE DEF A, B
    <2>4. Cardinality(A) <= MaxParallel[s]
      BY <2>1, <2>2, <2>3, PartIsNoMore
    <2>. QED
      BY <2>4 DEF A
  <1>. QED
    BY <1>2, <1>3 DEF SessionsWithinLimits

-----------------------------------------------------------------------------
(* While nothing sleeps *)

\* What the code keeps while claims are safe.
Kept == Reach /\ StopReachesAll /\ WithinLimits

\* Nothing has been claimed yet.
LEMMA InitKept == Init => Kept
  <1>. SUFFICES ASSUME Init PROVE Kept
    OBVIOUS
  <1>1. DOMAIN execs = {} /\ LiveExecs = {}
    BY DEF Init, LiveExecs
  <1>2. Reach /\ StopReachesAll
    BY <1>1 DEF Init, Reach, Entries, Entered, SettledFirst, ClaimsInTick,
                UpTicks, StopReachesAll, Actors
  <1>3. WithinLimits
    <2>1. \A s \in Specs : {t \in LiveExecs : SpecOf(t) = s} = {}
      BY <1>1
    <2>. QED
      BY <1>1, <2>1, FS_EmptySet, ConcurrencyAssumption, MaxParallelAssumption
         DEF WithinLimits
  <1>. QED
    BY <1>2, <1>3 DEF Kept

\* All of it survives a step.
LEMMA KeptStep ==
  ASSUME IInv, IInv', Secure, Kept, [Next]_vars
  PROVE  Kept'
  BY ReachStep, WithinLimitsStep DEF Kept

\* The timing invariant is an invariant.
LEMMA AwakeKept == Spec => [](Awake => TimeInv /\ Kept)
  <1>1. Init => (Awake => TimeInv /\ Kept)
    BY InitKept DEF Init, TimeInv
  <1>2. /\ IInv /\ IInv' /\ (Awake => TimeInv /\ Kept) /\ [Next]_vars
        => (Awake => TimeInv /\ Kept)'
    BY TimeStep, PunctualSecure, KeptStep DEF Awake
  <1>. QED
    BY <1>1, <1>2, InvariantHolds, PTL DEF Spec

(* The concurrency limits are enforced on leases; while no machine sleeps they
   hold of the sessions behind the leases: over all runners that share the
   database, no more sessions are at work than globalMaxConcurrency, nor than
   max_parallel of their spec, through crashes, stops and takeovers. *)
THEOREM AwakeWithinLimits == Spec => [](Awake => SessionsWithinLimits)
  <1>1. IInv /\ (Awake => TimeInv /\ Kept) => (Awake => SessionsWithinLimits)
    BY WorkWithinLimits DEF Kept
  <1>. QED
    BY <1>1, AwakeKept, InvariantHolds, PTL

(* stop() finds the executions to abort through activeRuns, whose key is the
   run: while no machine sleeps, no execution of a stopped or stopping runner
   awaits an answer without having been aborted. *)
THEOREM AwakeStopReaches == Spec => [](Awake => StopReachesAll)
  <1>1. (Awake => TimeInv /\ Kept) => (Awake => StopReachesAll)
    BY DEF Kept
  <1>. QED
    BY <1>1, AwakeKept, PTL

-----------------------------------------------------------------------------
(* One runner, asleep or not *)

\* The condition of the theorems; with two runners and sleep they are false.
OneRunner == \E r : Runners = {r}

\* Where a tick is until its claim transaction.
Ticking == {"oneOffs", "schedules", "supersede", "claim"}

\* The runner's own tick renews its leases before it claims: until then no
\* live execution has an expired one.
RenewedInTick ==
  /\ \A t \in LiveExecs : Owns(runs, RunOf(t), t)
  /\ \A r \in Runners : pc[r] \in Ticking =>
       \A t \in LiveExecs : now < runs[RunOf(t)].until

\* So no claim transaction takes over a run that is being executed.
LEMMA RenewedSecure ==
  ASSUME RenewedInTick
  PROVE  Secure
  BY DEF RenewedInTick, Secure, Ticking

\* A tick is under way after a step if it was before or begins.
LEMMA TickingStep ==
  ASSUME IInv, Next, NEW r \in Runners,
         pc'[r] \in Ticking, pc[r] \notin Ticking
  PROVE  TickBegin(r)
  <1>1. pc \in [Actors -> Places] /\ r \in Actors /\ r # Author
    BY AuthorAssumption DEF IInv, TypeOK, Actors
  <1>2. ASSUME NEW a \in Actors, Stretch(a)
        PROVE  FALSE
    <2>1. CASE \/ EnqueueOneOff(a) \/ MaterializeSchedules(a)
               \/ a \in Runners /\ (CancelSuperseded(a) \/ ClaimDue(a))
      <3>1. pc[a] \in Ticking
        BY <2>1 DEF EnqueueOneOff, MaterializeSchedules, CancelSuperseded,
                    ClaimDue, Ticking
      <3>2. pc' = pc \/ \E x : pc' = [pc EXCEPT ![a] = x]
        BY <2>1 DEF EnqueueOneOff, MaterializeSchedules, CancelSuperseded,
                    ClaimDue, Materialize
      <3>. QED
        BY <1>1, <3>1, <3>2
    <2>2. CASE \E t \in DOMAIN execs : Dispatch(t)
      <3>1. \E q \in Actors, x \in {"idle", "dispatch"} :
              pc' = [pc EXCEPT ![q] = x]
        BY <2>2, ExecFacts DEF Dispatch
      <3>. QED
        BY <1>1, <3>1 DEF Ticking
    <2>3. CASE InitializeNextRun \/ CancelQueuedRuns \/ ApplyFileNextRun
      <3>1. \E x : pc' = [pc EXCEPT ![Author] = x]
        BY <2>3 DEF InitializeNextRun, CancelQueuedRuns, ApplyFileNextRun,
                    Materialize
      <3>. QED
        BY <1>1, <3>1
    <2>. QED
      BY <1>2, <2>1, <2>2, <2>3 DEF Stretch
  <1>3. CASE \/ \E t \in DOMAIN execs : Timers(t) \/ Answers(t)
             \/ \E q \in Runners : Stop(q) \/ Stopped(q) \/ Start(q)
             \/ Edits \/ Advance \/ Sleep \/ Halt
    <2>1. pc' = pc \/ \E x : pc' = [pc EXCEPT ![Author] = x]
      BY <1>3 DEF Timers, Answers, Heartbeat, TimedOut, AbortDelivered,
           CleanedUp, Closed, Prepared, SessionStarted, TurnDone, Failed, Stop,
           Stopped, Start, Edits, CreateHubSchedule, ReconcileFile,
           UpdateHubSchedule, RemoveSpec, TriggerNow, Advance, Sleep, Halt,
           section, vars
    <2>. QED
      BY <1>1, <2>1
  <1>4. CASE \E p \in Procs : Crash(p)
    <2>1. pc'[r] \in {pc[r], "idle"}
      BY <1>1, <1>4 DEF Crash
    <2>. QED
      BY <2>1 DEF Ticking
  <1>5. CASE \E q \in Runners : TickBegin(q)
    <2>1. PICK q \in Runners : TickBegin(q)
      BY <1>5
    <2>2. \E x : pc' = [pc EXCEPT ![q] = x]
      BY <2>1 DEF TickBegin, Materialize
    <2>3. q = r
      BY <1>1, <2>2
    <2>. QED
      BY <2>1, <2>3
  <1>. QED
    BY <1>2, <1>3, <1>4, <1>5 DEF Next

\* A poll renews the lease of every execution that its runner's entries hold.
LEMMA TickRenews ==
  ASSUME IInv, Reach, OneRunner, NEW r \in Runners, TickBegin(r),
         NEW t \in LiveExecs, Owns(runs, RunOf(t), t)
  PROVE  runs'[RunOf(t)].until = now + LeaseLen
  <1>1. /\ t \in DOMAIN execs /\ RunnerOf(t) = r /\ RunOf(t) \in DOMAIN runs
        /\ runs[RunOf(t)] \in RunRow /\ pc[r] = "idle"
    BY ExecFacts DEF LiveExecs, OneRunner, TickBegin, ProcessFree, Actors
  <1>2. execs[t].phase \in Working
    BY <1>1 DEF LiveExecs, Live, Reach, ClaimsInTick
  <1>3. t \in active[r]
    BY <1>1, <1>2 DEF Reach, Entered
  <1>4. runs' = [i \in DOMAIN runs |->
                   IF \E u \in active[r] : RunOf(u) = i /\ Owns(runs, i, u)
                   THEN [runs[i] EXCEPT !.until = now + LeaseLen]
                   ELSE runs[i]]
    BY DEF TickBegin
  <1>5. runs'[RunOf(t)] = [runs[RunOf(t)] EXCEPT !.until = now + LeaseLen]
    BY <1>1, <1>3, <1>4
  <1>. QED
    BY <1>1, <1>5 DEF RunRow

\* Renewal before claims survives every step.
LEMMA RenewedStep ==
  ASSUME IInv, IInv', OneRunner, Reach, RenewedInTick, [Next]_vars
  PROVE  RenewedInTick'
  <1>1. Secure /\ now \in Nat /\ LeaseLen \in Nat \ {0}
    BY RenewedSecure, LeaseAssumption DEF IInv, TypeOK
  <1>2. CASE ClockOnly /\ Next
    <2>1. \A r \in Runners : pc'[r] \notin Ticking
      <3>1. Advance \/ Sleep
        <4>. SUFFICES ASSUME ~Advance, ~Sleep PROVE FALSE
          OBVIOUS
        <4>1. now' = now
          BY DEF Next, Stretch, EnqueueOneOff, MaterializeSchedules,
                 CancelSuperseded, ClaimDue, Dispatch, InitializeNextRun,
                 CancelQueuedRuns, ApplyFileNextRun, Timers, Answers,
                 Heartbeat, TimedOut, AbortDelivered, CleanedUp, Closed,
                 Prepared, SessionStarted, TurnDone, Failed, TickBegin, Stop,
                 Stopped, Start, Crash, Edits, CreateHubSchedule,
                 ReconcileFile, UpdateHubSchedule, RemoveSpec, TriggerNow,
                 Halt, vars
        <4>. QED
          BY <1>1, <1>2, <4>1 DEF ClockOnly
      <3>. QED
        BY <3>1 DEF Advance, Sleep, section, Ticking, Actors
    <2>. QED
      BY <1>2, <2>1 DEF ClockOnly, RenewedInTick, LiveExecs, Owns, RunOf
  <1>3. CASE UNCHANGED vars
    BY <1>3 DEF vars, RenewedInTick, LiveExecs, Owns, RunOf
  <1>4. CASE Fates /\ Next
    <2>1. ASSUME NEW t \in LiveExecs', t \in DOMAIN execs
          PROVE  /\ t \in LiveExecs /\ execs'[t].run = RunOf(t)
                 /\ runs'[RunOf(t)].token = t
                 /\ \/ runs'[RunOf(t)].until = runs[RunOf(t)].until
                    \/ runs'[RunOf(t)].until = now + LeaseLen
      <3>1. /\ execs'[t].run = execs[t].run
            /\ execs'[t].phase \in Live => execs[t].phase \in Live
        <4>1. CASE Steps
          BY <2>1, <4>1, Phased DEF Steps, Moves
        <4>2. CASE execs' = execs
          BY <4>2
        <4>. QED
          BY <1>1, <4>1, <4>2, NextSteps
      <3>. QED
        BY <1>1, <1>4, <2>1, <3>1, OwnerStays DEF LiveExecs, RunOf
    <2>2. ASSUME NEW t \in LiveExecs', t \notin DOMAIN execs
          PROVE  /\ \E r \in Runners : ClaimDue(r)
                 /\ runs'[execs'[t].run].token = t
      <3>1. PICK r \in Runners : ClaimDue(r)
        BY <1>4, <2>2, NoClaimSteps DEF LiveExecs
      <3>2. PICK n \in Nat : \E c \in [1..n -> DOMAIN runs] : Takes(r, n, c)
        BY <3>1, ClaimDueFacts
      <3>3. PICK c \in [1..n -> DOMAIN runs] : Takes(r, n, c)
        BY <3>2
      <3>. DEFINE k == t - Len(execs)
      <3>4. /\ DOMAIN execs = 1..Len(execs) /\ Len(execs) \in Nat
            /\ t \in 1..(Len(execs) + n)
        BY <3>3, SeqDomain DEF IInv, TypeOK, Takes, LiveExecs
      <3>5. k \in 1..n /\ t = Len(execs) + k
        BY <2>2, <3>4
      <3>. HIDE DEF k
      <3>6. /\ runs'[c[k]] = ClaimRow(runs[c[k]], Len(execs) + k, now)
            /\ execs'[t].run = c[k] /\ runs[c[k]] \in RunRow
        <4>1. c[k] \in DOMAIN runs
          BY <3>5
        <4>. QED
          BY <3>3, <3>5, <4>1, SeqDomain DEF Takes, IInv, TypeOK
      <3>7. runs'[c[k]].token = t
        BY <3>5, <3>6 DEF ClaimRow, RunRow
      <3>. QED
        BY <3>1, <3>6, <3>7
    <2>3. ASSUME NEW r \in Runners, pc'[r] \in Ticking, NEW t \in LiveExecs'
          PROVE  now' < runs'[execs'[t].run].until
      <3>1. ASSUME NEW q \in Runners, ClaimDue(q)
            PROVE  FALSE
        <4>1. q = r
          BY DEF OneRunner
        <4>2. pc' = [pc EXCEPT ![q] = "idle"] \/ pc' = [pc EXCEPT ![q] = "dispatch"]
          BY <3>1 DEF ClaimDue
        <4>. QED
          BY <2>3, <4>1, <4>2 DEF Ticking, IInv, TypeOK, Actors
      <3>2. t \in DOMAIN execs
        BY <2>2, <3>1
      <3>3. now' = now /\ now < now + LeaseLen
        BY <1>1, <1>4 DEF Fates
      <3>4. CASE pc[r] \in Ticking
        <4>1. now < runs[RunOf(t)].until
          BY <2>1, <3>2, <3>4 DEF RenewedInTick
        <4>. QED
          BY <2>1, <3>2, <3>3, <4>1
      <3>5. CASE pc[r] \notin Ticking
        <4>1. TickBegin(r)
          BY <1>4, <2>3, <3>5, TickingStep
        <4>2. t \in LiveExecs /\ Owns(runs, RunOf(t), t)
          BY <2>1, <3>2 DEF RenewedInTick
        <4>3. runs'[RunOf(t)].until = now + LeaseLen
          BY <4>1, <4>2, TickRenews
        <4>. QED
          BY <2>1, <3>2, <3>3, <4>3
      <3>. QED
        BY <3>4, <3>5
    <2>. QED
      BY <2>1, <2>2, <2>3 DEF RenewedInTick, Owns, RunOf
  <1>. QED
    BY <1>2, <1>3, <1>4, NextFates

\* With one runner claims are safe, asleep or not.
LEMMA OneRunnerKept == Spec => [](OneRunner => RenewedInTick /\ Kept)
  <1>1. Init => (OneRunner => RenewedInTick /\ Kept)
    BY InitKept DEF Init, RenewedInTick, LiveExecs
  <1>2. /\ IInv /\ IInv' /\ (OneRunner => RenewedInTick /\ Kept) /\ [Next]_vars
        => (OneRunner => RenewedInTick /\ Kept)'
    BY RenewedStep, RenewedSecure, KeptStep DEF OneRunner, Kept
  <1>. QED
    BY <1>1, <1>2, InvariantHolds, PTL DEF Spec

(* "A live session is not reclaimed and started a second time" (tick): where one
   runner alone uses the database this holds though the machine sleeps past
   every lease, for the runner renews all its claims before it takes any. *)
THEOREM OneRunnerRunsOnce == Spec => [](OneRunner => NoDoubleExecution)
  <1>1. (OneRunner => RenewedInTick /\ Kept) => (OneRunner => NoDoubleExecution)
    BY RenewedSecure, SecureRunsOnce
  <1>. QED
    BY <1>1, OneRunnerKept, PTL

(* Where one runner alone uses the database, the concurrency limits hold of its
   sessions though the machine sleeps past every lease. *)
THEOREM OneRunnerWithinLimits == Spec => [](OneRunner => SessionsWithinLimits)
  <1>1. IInv /\ (OneRunner => RenewedInTick /\ Kept)
        => (OneRunner => SessionsWithinLimits)
    BY WorkWithinLimits DEF Kept
  <1>. QED
    BY <1>1, OneRunnerKept, InvariantHolds, PTL

(* Where one runner alone uses the database, its stop() reaches every
   execution though the machine sleeps past every lease. *)
THEOREM OneRunnerStopReaches == Spec => [](OneRunner => StopReachesAll)
  <1>1. (OneRunner => RenewedInTick /\ Kept) => (OneRunner => StopReachesAll)
    BY DEF Kept
  <1>. QED
    BY <1>1, OneRunnerKept, PTL
=============================================================================
