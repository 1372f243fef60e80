--------------------------- MODULE CronAuthorsProofs --------------------------
(***************************************************************************)
(* What authors may count on, for every value of the constants.            *)
(*                                                                         *)
(* When all runners and the author share one process, its synchronous      *)
(* stretches never interleave: a one-off that a stretch has read is as it  *)
(* was read when its run is enqueued, a queued one-off run of the hub is   *)
(* of the current revision, and nothing is queued between the withdrawal   *)
(* of a backlog and the claim.  OneOffOnce, StaleOneOffNeverStarts and     *)
(* OnlyNewestOccurrenceStarts follow.  The run one_off_two_processes shows *)
(* that OneOffOnce needs the hypothesis.                                   *)
(*                                                                         *)
(* Recurring automations in files keep DueOccurrenceKept in any number of  *)
(* processes.                                                              *)
(***************************************************************************)
EXTENDS CronAutomationProofs, FiniteSetTheorems

\* Runners and author live in the hub daemon.
SingleProcess == \A a, b \in Actors : Proc[a] = Proc[b]

-----------------------------------------------------------------------------
(* The invariant *)

\* Run i took effect for the current revision of s, or still may.
Consumes(i, s) ==
  /\ i \in ConsumingRuns(runs, s, specs[s].revision)
  /\ runs[i].status # "cancelled"

\* No run is of a revision yet to come.
RevisionsPast ==
  \A i \in DOMAIN runs :
    0 < runs[i].revision /\ runs[i].revision <= specs[runs[i].spec].revision

\* An edit of a hub one-off withdraws what was queued for the old revision.
QueuedCurrent ==
  \A i \in DOMAIN runs :
    /\ runs[i].kind = "one_off" /\ runs[i].status = "queued"
    /\ runs[i].spec \in HubSpecs
    => /\ runs[i].revision = specs[runs[i].spec].revision
       /\ specs[runs[i].spec].source.kind = "one_off"

\* At most one run consumes the current revision of a one-off.
OneConsumer ==
  \A s \in Specs : specs[s].source.kind = "one_off" =>
    \A i, j \in DOMAIN runs : Consumes(i, s) /\ Consumes(j, s) => i = j

RowsInv == RevisionsPast /\ QueuedCurrent /\ OneConsumer

\* An item read by a stretch is still what enqueueRun finds.
Fresh(item) ==
  /\ item.revision = specs[item.spec].revision
  /\ item.revision > 0
  /\ specs[item.spec].source.kind = "one_off"
  /\ ConsumingRuns(runs, item.spec, item.revision) = {}

\* No spec is listed twice.
Distinct(items) == \A x, y \in items : x.spec = y.spec => x = y

Alone == \A a, b \in Actors : pc[a] # "idle" /\ pc[b] # "idle" => a = b

StretchesInv ==
  /\ Alone
  /\ \A a \in Actors : pc[a] # "oneOffs" => todo[a] = {}
  /\ \A a \in Actors : Distinct(todo[a]) /\ \A x \in todo[a] : Fresh(x)
  /\ \A a \in Actors : pc[a] = "claim" => Superseded(runs) = {}

AuthorInv == RowsInv /\ StretchesInv

-----------------------------------------------------------------------------
(* Steps that queue nothing *)

\* No row changes its job, is queued again or comes back from cancellation.
RowsQuiet ==
  \A i \in DOMAIN runs :
    /\ SameJob(i)
    /\ runs'[i].status = "queued" => runs[i].status = "queued"
    /\ runs[i].status = "cancelled" => runs'[i].status = "cancelled"

NoneAdded == DOMAIN runs' = DOMAIN runs

\* No spec is edited, whatever happens to its next_run_at.
SpecsKept ==
  \A s \in Specs : /\ specs'[s].revision = specs[s].revision
                   /\ specs'[s].source.kind = specs[s].source.kind

Quiet == NoneAdded /\ RowsQuiet /\ SpecsKept

\* Claims, renewals, settlements and withdrawals are quiet.
LEMMA FatesAreQuiet ==
  ASSUME IInv, Fates
  PROVE  RowsQuiet
  <1>. SUFFICES ASSUME NEW i \in DOMAIN runs
                PROVE  /\ SameJob(i)
                       /\ runs'[i].status = "queued" => runs[i].status = "queued"
                       /\ runs[i].status = "cancelled"
                            => runs'[i].status = "cancelled"
    BY DEF RowsQuiet
  <1>1. runs[i] \in RunRow /\ Fate(i)
    BY SeqDomain DEF IInv, TypeOK, Fates
  <1>2. CASE runs'[i] = runs[i]
    BY <1>2 DEF SameJob
  <1>3. CASE Claimed(i)
    BY <1>3 DEF Claimed
  <1>4. CASE Renewed(i)
    BY <1>1, <1>4 DEF Renewed, SameJob, RunRow
  <1>5. CASE Withdrawn(i)
    BY <1>1, <1>5 DEF Withdrawn, SameJob, RunRow
  <1>6. CASE Settled(i)
    BY <1>6 DEF Settled, Terminal
  <1>. QED
    BY <1>1, <1>2, <1>3, <1>4, <1>5, <1>6 DEF Fate

\* The runs of a revision stay its runs.
LEMMA QuietConsumers ==
  ASSUME NoneAdded, RowsQuiet, NEW s, NEW v
  PROVE  ConsumingRuns(runs', s, v) = ConsumingRuns(runs, s, v)
  BY DEF NoneAdded, RowsQuiet, SameJob, ConsumingRuns

\* What a quiet step leaves of the rows.
LEMMA QuietRows ==
  ASSUME IInv, RowsInv, Quiet
  PROVE  RowsInv'
  <1>0. \A i \in DOMAIN runs : runs[i] \in RunRow
    BY SeqDomain DEF IInv, TypeOK
  <1>1. \A i \in DOMAIN runs : runs[i] \in RunRow /\ runs[i].spec \in Specs
    BY <1>0 DEF RunRow
  <1>2. RevisionsPast'
    BY <1>1 DEF RowsInv, RevisionsPast, Quiet, NoneAdded, RowsQuiet, SpecsKept,
                SameJob
  <1>3. QueuedCurrent'
    BY <1>1 DEF RowsInv, QueuedCurrent, Quiet, NoneAdded, RowsQuiet, SpecsKept,
                SameJob
  <1>4. OneConsumer'
    <2>. SUFFICES ASSUME NEW s \in Specs, specs'[s].source.kind = "one_off",
                         NEW i \in DOMAIN runs', NEW j \in DOMAIN runs',
                         Consumes(i, s)', Consumes(j, s)'
                  PROVE  i = j
      BY DEF OneConsumer
    <2>1. specs[s].source.kind = "one_off" /\ specs'[s].revision = specs[s].revision
      BY DEF Quiet, SpecsKept
    <2>2. \A k \in DOMAIN runs : Consumes(k, s)' => Consumes(k, s)
      BY <2>1, QuietConsumers DEF Consumes, Quiet, RowsQuiet
    <2>. QED
      BY <2>1, <2>2 DEF Quiet, NoneAdded, RowsInv, OneConsumer
  <1>. QED
    BY <1>2, <1>3, <1>4 DEF RowsInv

\* What a quiet step leaves of an item read before.
LEMMA QuietFresh ==
  ASSUME Quiet, NEW x, x.spec \in Specs, Fresh(x)
  PROVE  Fresh(x)'
  <1>1. ConsumingRuns(runs', x.spec, x.revision)
          = ConsumingRuns(runs, x.spec, x.revision)
    BY QuietConsumers DEF Quiet
  <1>. QED
    BY <1>1 DEF Quiet, SpecsKept, Fresh

\* A quiet step makes no occurrence newer than another.
LEMMA QuietBacklog ==
  ASSUME NoneAdded, RowsQuiet, Superseded(runs) = {}
  PROVE  Superseded(runs') = {}
  BY DEF NoneAdded, RowsQuiet, SameJob, Superseded, QueuedOf

-----------------------------------------------------------------------------
(* Places in a stretch *)

\* Beside a stretch under way, or in a free process, nothing else is.
LEMMA OthersIdle ==
  ASSUME IInv, StretchesInv, NEW a \in Actors,
         pc[a] # "idle" \/ (SingleProcess /\ ProcessFree(Proc[a]))
  PROVE  \A b \in Actors : b # a => pc[b] = "idle" /\ todo[b] = {}
  BY DEF StretchesInv, Alone, SingleProcess, ProcessFree

\* Actor a moves and the others stay idle.
LEMMA OneMoves ==
  ASSUME NEW a \in Actors,
         \A b \in Actors : b # a => pc[b] = "idle" /\ todo[b] = {},
         \A b \in Actors : b # a => pc'[b] = pc[b] /\ todo'[b] = todo[b],
         pc'[a] # "oneOffs" => todo'[a] = {},
         Distinct(todo'[a]),
         \A x \in todo'[a] : Fresh(x)',
         pc'[a] = "claim" => Superseded(runs') = {}
  PROVE  StretchesInv'
  <1>1. \A b \in Actors : b # a => pc'[b] = "idle" /\ todo'[b] = {}
    OBVIOUS
  <1>2. Alone'
    BY <1>1 DEF Alone
  <1>3. \A b \in Actors : pc'[b] # "oneOffs" => todo'[b] = {}
    BY <1>1
  <1>4. \A b \in Actors : Distinct(todo'[b]) /\ \A x \in todo'[b] : Fresh(x)'
    BY <1>1 DEF Distinct
  <1>5. \A b \in Actors : pc'[b] = "claim" => Superseded(runs') = {}
    BY <1>1
  <1>. QED
    BY <1>2, <1>3, <1>4, <1>5 DEF StretchesInv, Distinct

\* Actor a moves with nothing read and nothing to claim among.
LEMMA MovesOn ==
  ASSUME IInv, StretchesInv, NEW a \in Actors, pc[a] # "oneOffs",
         pc[a] # "idle" \/ (SingleProcess /\ ProcessFree(Proc[a])),
         todo' = todo, \A b \in Actors : b # a => pc'[b] = pc[b],
         pc'[a] = "claim" => Superseded(runs') = {}
  PROVE  StretchesInv'
  <1>1. \A b \in Actors : b # a => pc[b] = "idle" /\ todo[b] = {}
    BY OthersIdle
  <1>2. todo'[a] = {}
    BY DEF StretchesInv
  <1>. QED
    BY <1>1, <1>2, OneMoves DEF Distinct

\* Actors keep their places or are thrown out of them.
LEMMA PlacesKept ==
  ASSUME IInv, StretchesInv, Quiet,
         \A a \in Actors : \/ pc'[a] = pc[a] /\ todo'[a] = todo[a]
                           \/ pc'[a] = "idle" /\ todo'[a] = {}
  PROVE  StretchesInv'
  <1>1. Alone'
    BY DEF StretchesInv, Alone
  <1>2. \A b \in Actors : pc'[b] # "oneOffs" => todo'[b] = {}
    BY DEF StretchesInv
  <1>3. \A b \in Actors : Distinct(todo'[b])
    BY DEF StretchesInv, Distinct
  <1>4. ASSUME NEW b \in Actors, NEW x \in todo'[b]
        PROVE  Fresh(x)'
    <2>1. x \in todo[b] /\ Fresh(x)
      BY <1>4 DEF StretchesInv
    <2>2. x.spec \in Specs
      BY <2>1 DEF IInv, TypeOK, Item
    <2>. QED
      BY <2>1, <2>2, QuietFresh
  <1>5. \A b \in Actors : pc'[b] = "claim" => Superseded(runs') = {}
    BY QuietBacklog DEF StretchesInv, Quiet
  <1>. QED
    BY <1>1, <1>2, <1>3, <1>4, <1>5 DEF StretchesInv, Distinct

\* listSpecs yields each one-off once, as it is.
LEMMA ListedFresh ==
  ASSUME IInv
  PROVE  /\ \A x \in UnconsumedOneOffs : Fresh(x) /\ x.spec \in Specs
         /\ Distinct(UnconsumedOneOffs)
  BY DEF UnconsumedOneOffs, Fresh, Distinct, Runnable

\* A stretch reads the one-offs it is about to enqueue.
LEMMA Listed ==
  ASSUME IInv, StretchesInv, Quiet, NEW a \in Actors,
         \A b \in Actors : b # a => pc[b] = "idle" /\ todo[b] = {},
         Materialize(a, UnconsumedOneOffs)
  PROVE  StretchesInv'
  <1>1. /\ pc' = [pc EXCEPT ![a] = IF UnconsumedOneOffs = {}
                                   THEN "schedules" ELSE "oneOffs"]
        /\ todo' = [todo EXCEPT ![a] = UnconsumedOneOffs]
        /\ pc \in [Actors -> Places] /\ todo \in [Actors -> SUBSET Item]
    BY DEF Materialize, IInv, TypeOK
  <1>2. todo'[a] = UnconsumedOneOffs
    BY <1>1
  <1>3. \A x \in todo'[a] : Fresh(x)'
    BY <1>2, ListedFresh, QuietFresh
  <1>4. Distinct(todo'[a])
    BY <1>2, ListedFresh
  <1>5. /\ pc'[a] # "oneOffs" => todo'[a] = {}
        /\ pc'[a] # "claim"
        /\ \A b \in Actors : b # a => pc'[b] = pc[b] /\ todo'[b] = todo[b]
    BY <1>1
  <1>. QED
    BY <1>3, <1>4, <1>5, OneMoves

-----------------------------------------------------------------------------
(* Steps that queue a run or edit a spec *)

NewRow == Len(runs) + 1

\* One run is queued at the end of the table.
Queued(row) ==
  /\ DOMAIN runs' = DOMAIN runs \cup {NewRow}
  /\ NewRow \notin DOMAIN runs
  /\ runs'[NewRow] = row
  /\ RowsQuiet

\* Withdrawals before an insertion.
LEMMA AppendedRow ==
  ASSUME IInv, NEW I, \A i \in I : i \in DOMAIN runs => runs[i].status = "queued",
         NEW before \in {runs, CancelRuns(runs, I)},
         NEW row \in RunRow, runs' = Append(before, row)
  PROVE  /\ Queued(row)
         /\ \A i \in DOMAIN runs : runs'[i] = before[i]
  <1>1. /\ runs \in Seq(RunRow) /\ Len(runs) \in Nat
        /\ DOMAIN runs = 1..Len(runs)
        /\ \A i \in DOMAIN runs : runs[i] \in RunRow
    BY SeqDomain DEF IInv, TypeOK
  <1>2. /\ before \in Seq(RunRow) /\ DOMAIN before = DOMAIN runs
        /\ \A i \in DOMAIN runs :
             \/ before[i] = runs[i]
             \/ /\ runs[i].status = "queued"
                /\ before[i] = [runs[i] EXCEPT !.status = "cancelled"]
    <2>1. CASE before = runs
      BY <1>1, <2>1
    <2>2. CASE before = CancelRuns(runs, I)
      BY <2>2, CancelledRows, CancelFates
    <2>. QED
      BY <2>1, <2>2
  <1>3. /\ DOMAIN before = 1..Len(before) /\ Len(before) \in Nat
        /\ DOMAIN runs' = 1..(Len(before) + 1)
        /\ \A i \in DOMAIN before : runs'[i] = before[i]
        /\ runs'[Len(before) + 1] = row
    BY <1>2, AppendSeq, SeqDomain
  <1>4. Len(before) = Len(runs)
    BY <1>1, <1>2, <1>3
  <1>5. ASSUME NEW i \in DOMAIN runs
        PROVE  /\ SameJob(i)
               /\ runs'[i].status = "queued" => runs[i].status = "queued"
               /\ runs[i].status = "cancelled" => runs'[i].status = "cancelled"
    <2>1. runs[i] \in RunRow /\ runs'[i] = before[i]
      BY <1>1, <1>2, <1>3
    <2>2. CASE before[i] = runs[i]
      BY <2>1, <2>2 DEF SameJob
    <2>3. CASE /\ runs[i].status = "queued"
               /\ before[i] = [runs[i] EXCEPT !.status = "cancelled"]
      BY <2>1, <2>3 DEF SameJob, RunRow
    <2>. QED
      BY <1>2, <2>2, <2>3
  <1>6. /\ DOMAIN runs' = DOMAIN runs \cup {NewRow} /\ NewRow \notin DOMAIN runs
        /\ runs'[NewRow] = row
    BY <1>1, <1>3, <1>4 DEF NewRow
  <1>. QED
    BY <1>2, <1>3, <1>5, <1>6 DEF Queued, RowsQuiet

\* An insertion alone.
LEMMA AddedRow ==
  ASSUME IInv, NEW row \in RunRow, runs' = Append(runs, row)
  PROVE  Queued(row)
  <1>1. PICK none : none = {}
    OBVIOUS
  <1>2. /\ \A i \in none : i \in DOMAIN runs => runs[i].status = "queued"
        /\ runs \in {runs, CancelRuns(runs, none)}
    BY <1>1
  <1>. QED
    BY <1>2, AppendedRow

\* A run of the current revision is queued; as a one-off's run it is the only
\* one that consumes the revision.
LEMMA QueuedRows ==
  ASSUME IInv, RowsInv, SpecsKept, NEW row \in RunRow, Queued(row),
         row.revision = specs[row.spec].revision, row.revision > 0,
         row.kind = "one_off" => specs[row.spec].source.kind = "one_off",
         \A i \in DOMAIN runs :
           /\ specs[row.spec].source.kind = "one_off"
           /\ i \in ConsumingRuns(runs, row.spec, row.revision)
           => runs'[i].status = "cancelled"
  PROVE  RowsInv'
  <1>0. PICK n : n = NewRow
    OBVIOUS
  <1>1. row.spec \in Specs
    BY DEF RunRow
  <1>2. \A i \in DOMAIN runs : runs[i] \in RunRow
    BY SeqDomain DEF IInv, TypeOK
  <1>3. \A i \in DOMAIN runs : runs[i].spec \in Specs
    BY <1>2 DEF RunRow
  <1>4. /\ \A i \in DOMAIN runs' : i \in DOMAIN runs \/ i = n
        /\ n \notin DOMAIN runs /\ runs'[n] = row
        /\ \A i \in DOMAIN runs :
             /\ SameJob(i)
             /\ runs'[i].status = "queued" => runs[i].status = "queued"
             /\ runs[i].status = "cancelled" => runs'[i].status = "cancelled"
    BY <1>0 DEF Queued, RowsQuiet
  <1>5. RevisionsPast'
    <2>1. specs[row.spec].revision \in Nat
      BY <1>1, AuthorFacts DEF SpecRow
    <2>2. runs'[n].revision > 0
          /\ runs'[n].revision <= specs'[runs'[n].spec].revision
      BY <1>1, <1>4, <2>1 DEF SpecsKept
    <2>3. \A i \in DOMAIN runs :
            /\ 0 < runs'[i].revision
            /\ runs'[i].revision <= specs'[runs'[i].spec].revision
      BY <1>3, <1>4 DEF RowsInv, RevisionsPast, SpecsKept, SameJob
    <2>. QED
      BY <1>4, <2>2, <2>3 DEF RevisionsPast
  <1>6. QueuedCurrent'
    <2>. SUFFICES ASSUME NEW i \in DOMAIN runs', runs'[i].kind = "one_off",
                         runs'[i].status = "queued", runs'[i].spec \in HubSpecs
                  PROVE  /\ runs'[i].revision = specs'[runs'[i].spec].revision
                         /\ specs'[runs'[i].spec].source.kind = "one_off"
      BY DEF QueuedCurrent
    <2>1. CASE i = n
      BY <2>1, <1>1, <1>4 DEF SpecsKept
    <2>2. CASE i \in DOMAIN runs
      BY <2>2, <1>3, <1>4 DEF RowsInv, QueuedCurrent, SpecsKept, SameJob
    <2>. QED
      BY <1>4, <2>1, <2>2
  <1>7. OneConsumer'
    <2>. SUFFICES ASSUME NEW s \in Specs, specs'[s].source.kind = "one_off",
                         NEW i \in DOMAIN runs', NEW j \in DOMAIN runs',
                         Consumes(i, s)', Consumes(j, s)'
                  PROVE  i = j
      BY DEF OneConsumer
    <2>1. specs[s].source.kind = "one_off" /\ specs'[s].revision = specs[s].revision
      BY DEF SpecsKept
    <2>2. \A k \in DOMAIN runs : Consumes(k, s)' => Consumes(k, s)
      BY <1>4, <2>1 DEF Consumes, ConsumingRuns, SameJob
    <2>3. ASSUME NEW k \in DOMAIN runs, Consumes(k, s)', Consumes(n, s)'
          PROVE  FALSE
      <3>1. row.spec = s
        BY <2>3, <1>4 DEF Consumes, ConsumingRuns
      <3>2. k \in ConsumingRuns(runs, row.spec, row.revision)
        BY <2>2, <2>3, <3>1 DEF Consumes
      <3>3. runs'[k].status = "cancelled"
        BY <2>1, <3>1, <3>2
      <3>. QED
        BY <2>3, <3>3 DEF Consumes
    <2>4. CASE i \in DOMAIN runs /\ j \in DOMAIN runs
      BY <2>1, <2>2, <2>4 DEF RowsInv, OneConsumer
    <2>. QED
      BY <1>4, <2>3, <2>4
  <1>. QED
    BY <1>5, <1>6, <1>7 DEF RowsInv

\* A spec gets a new revision, and its queued one-off runs are withdrawn.
LEMMA EditedRows ==
  ASSUME IInv, RowsInv, NoneAdded, RowsQuiet, NEW s \in Specs, NEW row \in SpecRow,
         specs' = [specs EXCEPT ![s] = row],
         row.revision > specs[s].revision,
         s \in HubSpecs => \A i \in DOMAIN runs :
            runs[i].spec = s /\ runs[i].kind = "one_off"
              => runs'[i].status # "queued"
  PROVE  RowsInv'
  <1>1. \A i \in DOMAIN runs : runs[i] \in RunRow
    BY SeqDomain DEF IInv, TypeOK
  <1>2. \A i \in DOMAIN runs : runs[i].spec \in Specs /\ runs[i].revision \in Nat
    BY <1>1 DEF RunRow
  <1>3. /\ specs'[s] = row /\ specs[s].revision \in Nat /\ row.revision \in Nat
        /\ \A x \in Specs : x # s => specs'[x] = specs[x]
    BY AuthorFacts DEF SpecRow
  <1>4. \A i \in DOMAIN runs : runs[i].spec = s => runs[i].revision < row.revision
    BY <1>2, <1>3 DEF RowsInv, RevisionsPast
  <1>5. RevisionsPast'
    BY <1>2, <1>3, <1>4 DEF RowsInv, RevisionsPast, NoneAdded, RowsQuiet, SameJob
  <1>6. QueuedCurrent'
    BY <1>2, <1>3 DEF RowsInv, QueuedCurrent, NoneAdded, RowsQuiet, SameJob
  <1>7. OneConsumer'
    <2>. SUFFICES ASSUME NEW x \in Specs, specs'[x].source.kind = "one_off",
                         NEW i \in DOMAIN runs', NEW j \in DOMAIN runs',
                         Consumes(i, x)', Consumes(j, x)'
                  PROVE  i = j
      BY DEF OneConsumer
    <2>1. i \in DOMAIN runs /\ j \in DOMAIN runs /\ SameJob(i) /\ SameJob(j)
      BY DEF NoneAdded, RowsQuiet
    <2>2. x # s
      BY <1>2, <1>3, <1>4, <2>1 DEF Consumes, ConsumingRuns, SameJob
    <2>3. Consumes(i, x) /\ Consumes(j, x)
      BY <1>3, <2>1, <2>2 DEF Consumes, ConsumingRuns, SameJob, RowsQuiet
    <2>. QED
      BY <1>3, <2>1, <2>2, <2>3 DEF RowsInv, OneConsumer
  <1>. QED
    BY <1>5, <1>6, <1>7 DEF RowsInv

\* upsertSpec raises the revision or keeps it and the kind.
LEMMA UpsertRevision ==
  ASSUME NEW row \in SpecRow, NEW def \in Definition
  PROVE  LET new == UpsertSpec(row, def)
         IN  /\ new \in SpecRow
             /\ \/ new.revision > row.revision
                \/ /\ new.revision = row.revision
                   /\ new.source.kind = row.source.kind
             /\ row.revision = 0 => new.revision > row.revision
             /\ new.source = def
  <1>1. UpsertSpec(row, def) \in SpecRow
    BY UpsertSpecType
  <1>. DEFINE changed == row.revision = 0
                           \/ (row.source # def /\ MeaningfulChange(row, def))
  <1>2. /\ UpsertSpec(row, def).source = def
        /\ UpsertSpec(row, def).revision
             = IF changed THEN row.revision + 1 ELSE row.revision
    BY DEF UpsertSpec
  <1>3. ~changed => def.kind = row.source.kind
    BY DEF MeaningfulChange
  <1>4. row.revision \in Nat
    BY DEF SpecRow
  <1>. HIDE DEF changed
  <1>5. CASE changed
    BY <1>1, <1>2, <1>4, <1>5
  <1>6. CASE ~changed
    <2>1. row.revision # 0
      BY <1>6 DEF changed
    <2>. QED
      BY <1>1, <1>2, <1>3, <1>6, <2>1
  <1>. QED
    BY <1>5, <1>6

-----------------------------------------------------------------------------
(* Executions, polls, faults and the clock *)

\* completeRun touches at most the next_run_at of a spec.
LEMMA SettleKeeps ==
  ASSUME IInv, NEW t \in DOMAIN execs,
         NEW outcome \in {"done", "failed", "cancelled"}, Settle(t, outcome)
  PROVE  NoneAdded /\ SpecsKept
  <1>1. NoneAdded
    BY SettleFacts DEF NoneAdded
  <1>2. /\ \/ specs' = specs
           \/ specs' = [specs EXCEPT ![SpecOf(t)].nextRunAt = NoTime]
        /\ SpecOf(t) \in Specs /\ specs \in [Specs -> SpecRow]
    BY ExecFacts, AuthorFacts DEF Settle
  <1>3. SpecsKept
    BY <1>2 DEF SpecsKept, SpecRow
  <1>. QED
    BY <1>1, <1>3

\* Executions interrupt no stretch and queue nothing.
LEMMA ExecutionQuiet ==
  ASSUME IInv, NEW t \in DOMAIN execs, Timers(t) \/ Answers(t)
  PROVE  Quiet /\ UNCHANGED <<pc, todo>>
  <1>1. RowsQuiet
    BY ExecutionFates, FatesAreQuiet
  <1>2. UNCHANGED <<pc, todo>>
    BY DEF Timers, Answers, Heartbeat, TimedOut, AbortDelivered, CleanedUp,
           Closed, Prepared, SessionStarted, TurnDone, Failed, section
  <1>3. CASE Heartbeat(t)
    <2>1. runs' = RenewClaim(runs, RunOf(t), t, now) /\ specs' = specs
      BY <1>3 DEF Heartbeat
    <2>2. NoneAdded
      BY <2>1, ExecFacts DEF NoneAdded, RenewClaim
    <2>. QED
      BY <1>1, <1>2, <2>1, <2>2 DEF Quiet, SpecsKept
  <1>4. CASE UNCHANGED <<specs, runs>>
    BY <1>1, <1>2, <1>4 DEF Quiet, SpecsKept, NoneAdded
  <1>5. CASE \E outcome \in {"done", "failed", "cancelled"} : Settle(t, outcome)
    BY <1>1, <1>2, <1>5, SettleKeeps DEF Quiet
  <1>6. \/ Heartbeat(t)
        \/ UNCHANGED <<specs, runs>>
        \/ \E outcome \in {"done", "failed", "cancelled"} : Settle(t, outcome)
    BY DEF Timers, Answers, TimedOut, AbortDelivered, CleanedUp, Outcome,
           Closed, Prepared, SessionStarted, TurnDone, Failed, store
  <1>. QED
    BY <1>3, <1>4, <1>5, <1>6

\* A poll renews claims and lists the one-offs.
LEMMA TickBeginAuthor ==
  ASSUME SingleProcess, IInv, AuthorInv, NEW r \in Runners, TickBegin(r)
  PROVE  AuthorInv'
  <1>1. RowsQuiet
    BY TickBeginFates, FatesAreQuiet
  <1>2. NoneAdded /\ SpecsKept
    BY DEF TickBegin, NoneAdded, SpecsKept
  <1>3. r \in Actors /\ ProcessFree(Proc[r]) /\ Materialize(r, UnconsumedOneOffs)
    BY DEF TickBegin, Actors
  <1>4. \A b \in Actors : b # r => pc[b] = "idle" /\ todo[b] = {}
    BY <1>3, OthersIdle DEF AuthorInv
  <1>. QED
    BY <1>1, <1>2, <1>3, <1>4, Listed, QuietRows DEF AuthorInv, Quiet

\* Stops, starts, crashes and time leave the tables alone.
LEMMA ControlAuthor ==
  ASSUME IInv, AuthorInv,
         \/ \E r \in Runners : Stop(r) \/ Stopped(r) \/ Start(r)
         \/ \E p \in Procs : Crash(p)
         \/ Advance \/ Sleep
         \/ UNCHANGED vars
  PROVE  AuthorInv'
  <1>1. UNCHANGED <<specs, runs>>
    BY DEF Stop, Stopped, Start, Crash, Advance, Sleep, vars, store
  <1>2. Quiet
    BY <1>1 DEF Quiet, NoneAdded, RowsQuiet, SpecsKept, SameJob
  <1>3. \A a \in Actors : \/ pc'[a] = pc[a] /\ todo'[a] = todo[a]
                          \/ pc'[a] = "idle" /\ todo'[a] = {}
    <2>1. CASE \E p \in Procs : Crash(p)
      BY <2>1 DEF Crash
    <2>2. CASE UNCHANGED <<pc, todo>>
      BY <2>2
    <2>3. (\E p \in Procs : Crash(p)) \/ UNCHANGED <<pc, todo>>
      BY DEF Stop, Stopped, Start, Advance, Sleep, vars, section
    <2>. QED
      BY <2>1, <2>2, <2>3
  <1>. QED
    BY <1>2, <1>3, QuietRows, PlacesKept DEF AuthorInv

-----------------------------------------------------------------------------
(* Stretches *)

\* enqueueRun of an item that is still as it was read.
LEMMA EnqueueOneOffAuthor ==
  ASSUME IInv, AuthorInv, NEW a \in Actors, EnqueueOneOff(a)
  PROVE  AuthorInv'
  <1>. DEFINE row(x) == NewRun(x.spec, x.revision, "one_off", x.at)
  <1>1. /\ pc[a] = "oneOffs" /\ specs' = specs
        /\ pc \in [Actors -> Places] /\ todo \in [Actors -> SUBSET Item]
    BY AuthorFacts DEF EnqueueOneOff
  <1>2. PICK x \in todo[a] :
          IF OneOffIndexed(runs, x.spec, x.revision)
          THEN /\ pc' = [pc EXCEPT ![a] = "idle"]
               /\ todo' = [todo EXCEPT ![a] = {}]
               /\ UNCHANGED runs
          ELSE /\ runs' = Append(runs, row(x))
               /\ Materialize(a, todo[a] \ {x})
    BY DEF EnqueueOneOff
  <1>3. Fresh(x) /\ x \in Item /\ Distinct(todo[a])
    BY <1>1, <1>2 DEF AuthorInv, StretchesInv
  <1>4. ~OneOffIndexed(runs, x.spec, x.revision)
    BY <1>3 DEF Fresh, OneOffIndexed
  <1>5. runs' = Append(runs, row(x)) /\ Materialize(a, todo[a] \ {x})
    BY <1>2, <1>4
  <1>6. /\ row(x) \in RunRow /\ row(x).spec = x.spec /\ row(x).kind = "one_off"
        /\ row(x).revision = x.revision /\ x.spec \in Specs
    BY <1>3, NewRunType DEF NewRun, Item, RunKinds
  <1>. HIDE DEF row
  <1>7. Queued(row(x))
    BY <1>5, <1>6, AddedRow
  <1>8. SpecsKept
    BY <1>1 DEF SpecsKept
  <1>9. RowsInv'
    <2>1. \A i \in DOMAIN runs :
            i \notin ConsumingRuns(runs, row(x).spec, row(x).revision)
      BY <1>3, <1>6 DEF Fresh
    <2>. QED
      BY <1>3, <1>6, <1>7, <1>8, <2>1, QueuedRows DEF Fresh, AuthorInv
  <1>10. /\ todo'[a] = todo[a] \ {x}
         /\ pc'[a] # "oneOffs" => todo'[a] = {}
         /\ pc'[a] # "claim"
         /\ \A b \in Actors : b # a => pc'[b] = pc[b] /\ todo'[b] = todo[b]
    BY <1>1, <1>5 DEF Materialize
  <1>11. ASSUME NEW y \in todo'[a]
         PROVE  Fresh(y)'
    <2>1. Fresh(y) /\ y.spec # x.spec
      BY <1>2, <1>3, <1>10 DEF AuthorInv, StretchesInv, Distinct
    <2>2. PICK n : n = NewRow
      OBVIOUS
    <2>3. \A i \in DOMAIN runs' :
            (i \in DOMAIN runs /\ SameJob(i)) \/ runs'[i].spec = x.spec
      BY <1>6, <1>7, <2>2 DEF Queued, RowsQuiet
    <2>4. ConsumingRuns(runs', y.spec, y.revision) = {}
      BY <2>1, <2>3 DEF Fresh, ConsumingRuns, SameJob
    <2>. QED
      BY <1>1, <2>1, <2>4 DEF Fresh
  <1>12. \A b \in Actors : b # a => pc[b] = "idle" /\ todo[b] = {}
    BY <1>1, OthersIdle DEF AuthorInv
  <1>13. Distinct(todo'[a])
    BY <1>3, <1>10 DEF Distinct
  <1>. QED
    BY <1>9, <1>10, <1>11, <1>12, <1>13, OneMoves DEF AuthorInv

\* An occurrence of a schedule consumes no one-off.
LEMMA MaterializeSchedulesAuthor ==
  ASSUME IInv, AuthorInv, NEW a \in Actors, MaterializeSchedules(a)
  PROVE  AuthorInv'
  <1>1. /\ pc[a] = "schedules" /\ todo' = todo
        /\ \A s \in Specs : specs[s] \in SpecRow
        /\ pc \in [Actors -> Places]
    BY AuthorFacts DEF MaterializeSchedules
  <1>2. \A b \in Actors : b # a => pc[b] = "idle" /\ todo[b] = {}
    BY <1>1, OthersIdle DEF AuthorInv
  <1>3. todo[a] = {}
    BY <1>1 DEF AuthorInv, StretchesInv
  <1>4. ASSUME pc'[a] # "claim",
               \A b \in Actors : b # a => pc'[b] = pc[b]
        PROVE  StretchesInv'
    BY <1>1, <1>2, <1>3, <1>4, OneMoves DEF Distinct
  <1>5. CASE \E s \in Specs : OccurrenceDue(specs[s], now)
    <2>1. PICK s \in Specs :
            /\ OccurrenceDue(specs[s], now)
            /\ runs' = Append(runs, NewRun(s, specs[s].revision, "schedule",
                                           specs[s].nextRunAt))
            /\ specs' = [specs EXCEPT ![s] = AdvanceSchedule(specs[s], now)]
      BY <1>5 DEF MaterializeSchedules
    <2>. DEFINE row == NewRun(s, specs[s].revision, "schedule",
                              specs[s].nextRunAt)
    <2>2. /\ specs[s].revision \in Nat /\ specs[s].revision > 0
          /\ specs[s].nextRunAt \in Nat /\ specs[s].source.kind = "schedule"
      BY <1>1, <2>1 DEF SpecRow, OccurrenceDue, Runnable, OptTime
    <2>3. /\ row \in RunRow /\ row.spec = s /\ row.kind = "schedule"
          /\ row.revision = specs[s].revision
      BY <2>2, NewRunType DEF NewRun, RunKinds
    <2>4. runs' = Append(runs, row)
      BY <2>1
    <2>. HIDE DEF row
    <2>5. Queued(row)
      BY <2>3, <2>4, AddedRow
    <2>6. SpecsKept
      BY <1>1, <2>1, AuthorFacts DEF SpecsKept, AdvanceSchedule, SpecRow
    <2>7. RowsInv'
      BY <2>2, <2>3, <2>5, <2>6, QueuedRows DEF AuthorInv
    <2>8. pc' = pc
      BY <1>5 DEF MaterializeSchedules
    <2>. QED
      BY <1>1, <1>4, <2>7, <2>8 DEF AuthorInv
  <1>6. CASE ~\E s \in Specs : OccurrenceDue(specs[s], now)
    <2>1. /\ specs' = [s \in Specs |-> AdvanceSchedule(specs[s], now)]
          /\ pc' = [pc EXCEPT ![a] = IF a \in Runners THEN "supersede"
                                                      ELSE "idle"]
          /\ runs' = runs
      BY <1>6 DEF MaterializeSchedules
    <2>2. Quiet
      BY <1>1, <2>1 DEF Quiet, NoneAdded, RowsQuiet, SpecsKept, SameJob,
                        AdvanceSchedule, SpecRow
    <2>3. pc'[a] # "claim" /\ \A b \in Actors : b # a => pc'[b] = pc[b]
      BY <1>1, <2>1
    <2>. QED
      BY <1>4, <2>2, <2>3, QuietRows DEF AuthorInv
  <1>. QED
    BY <1>5, <1>6

\* The backlog is withdrawn: no queued occurrence is older than another.
LEMMA CancelSupersededAuthor ==
  ASSUME IInv, AuthorInv, NEW r \in Runners, CancelSuperseded(r)
  PROVE  AuthorInv'
  <1>1. /\ pc[r] = "supersede" /\ r \in Actors /\ todo' = todo /\ specs' = specs
        /\ runs' = CancelRuns(runs, Superseded(runs))
        /\ \A b \in Actors : b # r => pc'[b] = pc[b]
    BY AuthorFacts DEF CancelSuperseded, Actors
  <1>2. NoneAdded /\ SpecsKept
    BY <1>1 DEF NoneAdded, SpecsKept, CancelRuns
  <1>3. RowsQuiet
    BY StretchFates, FatesAreQuiet, <1>1 DEF Stretch
  <1>4. Superseded(runs') = {}
    <2>. SUFFICES ASSUME NEW i \in Superseded(runs')
                  PROVE  FALSE
      OBVIOUS
    <2>1. PICK j \in DOMAIN runs' :
            /\ runs'[j].spec = runs'[i].spec /\ runs'[j].status = "queued"
            /\ runs'[j].kind = "schedule"
            /\ runs'[j].scheduledFor > runs'[i].scheduledFor
      BY DEF Superseded, QueuedOf
    <2>2. /\ i \in DOMAIN runs' /\ runs'[i].status = "queued"
          /\ runs'[i].kind = "schedule"
      BY DEF Superseded
    <2>3. /\ i \in DOMAIN runs /\ SameJob(i) /\ runs[i].status = "queued"
          /\ j \in DOMAIN runs /\ SameJob(j) /\ runs[j].status = "queued"
      BY <1>2, <1>3, <2>1, <2>2 DEF NoneAdded, RowsQuiet
    <2>4. i \in Superseded(runs)
      BY <2>1, <2>2, <2>3 DEF Superseded, QueuedOf, SameJob
    <2>5. runs[i] \in RunRow
      BY <2>3, SeqDomain DEF IInv, TypeOK
    <2>6. runs'[i].status = "cancelled"
      BY <1>1, <2>3, <2>4, <2>5 DEF CancelRuns, RunRow
    <2>. QED
      BY <2>2, <2>6
  <1>. QED
    BY <1>1, <1>2, <1>3, <1>4, MovesOn, QuietRows DEF AuthorInv, Quiet

\* Claims, and the head of executeClaim.
LEMMA ClaimsAuthor ==
  ASSUME IInv, AuthorInv, NEW r \in Runners,
         \/ ClaimDue(r)
         \/ \E t \in DOMAIN execs : RunnerOf(t) = r /\ Dispatch(t)
  PROVE  AuthorInv'
  <1>1. /\ r \in Actors /\ todo' = todo /\ specs' = specs
        /\ pc[r] \in {"claim", "dispatch"}
        /\ \A b \in Actors : b # r => pc'[b] = pc[b]
        /\ pc'[r] # "claim"
    BY AuthorFacts DEF ClaimDue, Dispatch, Actors
  <1>2. NoneAdded
    <2>1. CASE ClaimDue(r)
      BY <2>1 DEF ClaimDue, ClaimRuns, NoneAdded
    <2>2. CASE \E t \in DOMAIN execs : Dispatch(t)
      <3>1. PICK t \in DOMAIN execs : Dispatch(t)
        BY <2>2
      <3>2. runs' = runs \/ runs' = CompleteRun(runs, RunOf(t), t, "cancelled")
        BY <3>1 DEF Dispatch
      <3>. QED
        BY <3>2, ExecFacts DEF CompleteRun, NoneAdded
    <2>. QED
      BY <2>1, <2>2
  <1>3. RowsQuiet
    BY <1>1, StretchFates, FatesAreQuiet DEF Stretch
  <1>4. Quiet
    BY <1>1, <1>2, <1>3 DEF Quiet, SpecsKept
  <1>. QED
    BY <1>1, <1>4, MovesOn, QuietRows DEF AuthorInv

\* The second statements of authors.
LEMMA SecondStatementsAuthor ==
  ASSUME IInv, AuthorInv,
         InitializeNextRun \/ CancelQueuedRuns \/ ApplyFileNextRun
  PROVE  AuthorInv'
  <1>1. /\ Author \in Actors /\ pc[Author] \notin {"idle", "oneOffs"}
        /\ \A s \in Specs : specs[s] \in SpecRow
        /\ specs \in [Specs -> SpecRow] /\ target.spec \in Specs
    BY AuthorFacts DEF InitializeNextRun, CancelQueuedRuns, ApplyFileNextRun
  <1>2. \A b \in Actors : b # Author => pc[b] = "idle" /\ todo[b] = {}
    BY <1>1, OthersIdle DEF AuthorInv
  <1>3. RowsQuiet
    BY <1>1, StretchFates, FatesAreQuiet DEF Stretch
  <1>4. NoneAdded
    BY DEF InitializeNextRun, CancelQueuedRuns, ApplyFileNextRun, CancelRuns,
           NoneAdded
  <1>5. SpecsKept
    <2>1. \/ specs' = specs
          \/ specs' = [specs EXCEPT ![target.spec] =
                         InitNextRun(specs[target.spec], now)]
          \/ specs' = [specs EXCEPT ![target.spec] =
                         ApplyNextRun(specs[target.spec], target.reset, now)]
      BY DEF InitializeNextRun, CancelQueuedRuns, ApplyFileNextRun
    <2>2. \A v, time :
            /\ InitNextRun(specs[target.spec], time).revision
                 = specs[target.spec].revision
            /\ InitNextRun(specs[target.spec], time).source
                 = specs[target.spec].source
            /\ ApplyNextRun(specs[target.spec], v, time).revision
                 = specs[target.spec].revision
            /\ ApplyNextRun(specs[target.spec], v, time).source
                 = specs[target.spec].source
      BY <1>1 DEF InitNextRun, ApplyNextRun, SpecRow
    <2>. QED
      BY <1>1, <2>1, <2>2 DEF SpecsKept
  <1>6. Quiet
    BY <1>3, <1>4, <1>5 DEF Quiet
  <1>7. CASE Materialize(Author, UnconsumedOneOffs)
    BY <1>1, <1>2, <1>6, <1>7, Listed, QuietRows DEF AuthorInv
  <1>8. CASE pc' = [pc EXCEPT ![Author] = "idle"] /\ todo' = todo
    <2>1. pc'[Author] # "claim" /\ \A b \in Actors : b # Author => pc'[b] = pc[b]
      BY <1>1, <1>8, AuthorFacts
    <2>. QED
      BY <1>1, <1>6, <1>8, <2>1, MovesOn, QuietRows DEF AuthorInv
  <1>9. \/ Materialize(Author, UnconsumedOneOffs)
        \/ pc' = [pc EXCEPT ![Author] = "idle"] /\ todo' = todo
    BY DEF InitializeNextRun, CancelQueuedRuns, ApplyFileNextRun
  <1>. QED
    BY <1>7, <1>8, <1>9

\* Every synchronous stretch.
LEMMA StretchAuthor ==
  ASSUME IInv, AuthorInv, NEW a \in Actors, Stretch(a)
  PROVE  AuthorInv'
  BY EnqueueOneOffAuthor, MaterializeSchedulesAuthor, CancelSupersededAuthor,
     ClaimsAuthor, SecondStatementsAuthor DEF Stretch

-----------------------------------------------------------------------------
(* Edits *)

\* An author finds its process free.
LEMMA AuthorFree ==
  ASSUME SingleProcess, IInv, StretchesInv, AuthorActs, todo' = todo,
         \A b \in Actors : b # Author => pc'[b] = pc[b],
         pc'[Author] # "claim"
  PROVE  StretchesInv'
  <1>1. Author \in Actors /\ ProcessFree(Proc[Author])
    BY DEF AuthorActs, Actors
  <1>2. pc[Author] = "idle"
    BY <1>1 DEF ProcessFree
  <1>. QED
    BY <1>1, <1>2, MovesOn

\* createHubSchedule, reconcileFile and handleFileDeleted up to their second
\* statements.
LEMMA FirstStatementsAuthor ==
  ASSUME SingleProcess, IInv, AuthorInv, NEW s \in Specs,
         \/ \E def \in Definitions :
              CreateHubSchedule(s, def) \/ ReconcileFile(s, def)
         \/ RemoveSpec(s)
  PROVE  AuthorInv'
  <1>1. /\ AuthorActs /\ todo' = todo /\ runs' = runs
        /\ \A b \in Actors : b # Author => pc'[b] = pc[b]
        /\ pc'[Author] # "claim"
        /\ specs \in [Specs -> SpecRow] /\ specs[s] \in SpecRow
    BY AuthorFacts DEF CreateHubSchedule, ReconcileFile, RemoveSpec
  <1>2. StretchesInv'
    BY <1>1, AuthorFree DEF AuthorInv
  <1>3. NoneAdded /\ RowsQuiet
    BY <1>1 DEF NoneAdded, RowsQuiet, SameJob
  <1>4. CASE RemoveSpec(s)
    <2>1. SpecsKept
      BY <1>1, <1>4 DEF RemoveSpec, MarkRemoved, SpecRow, SpecsKept
    <2>. QED
      BY <1>2, <1>3, <2>1, QuietRows DEF AuthorInv, Quiet
  <1>5. ASSUME NEW def \in Definitions,
               CreateHubSchedule(s, def) \/ ReconcileFile(s, def)
        PROVE  AuthorInv'
    <2>1. def \in Definition
      BY DefinitionsAssumption
    <2>2. PICK new : new = UpsertSpec(specs[s], def)
      OBVIOUS
    <2>3. /\ new \in SpecRow
          /\ \/ new.revision > specs[s].revision
             \/ /\ new.revision = specs[s].revision
                /\ new.source.kind = specs[s].source.kind
      BY <1>1, <2>1, <2>2, UpsertRevision
    <2>4. specs' = [specs EXCEPT ![s] = new]
      BY <1>5, <2>2 DEF CreateHubSchedule, ReconcileFile
    <2>5. CASE new.revision > specs[s].revision
      <3>1. s \in HubSpecs => specs[s].revision = 0
        BY <1>5 DEF CreateHubSchedule, ReconcileFile
      <3>2. \A i \in DOMAIN runs : runs[i] \in RunRow
        BY SeqDomain DEF IInv, TypeOK
      <3>3. s \in HubSpecs => \A i \in DOMAIN runs : runs[i].spec # s
        BY <3>1, <3>2 DEF AuthorInv, RowsInv, RevisionsPast, RunRow
      <3>. QED
        BY <1>2, <1>3, <2>3, <2>4, <2>5, <3>3, EditedRows DEF AuthorInv
    <2>6. CASE /\ new.revision = specs[s].revision
               /\ new.source.kind = specs[s].source.kind
      <3>1. SpecsKept
        BY <1>1, <2>4, <2>6 DEF SpecsKept
      <3>. QED
        BY <1>2, <1>3, <3>1, QuietRows DEF AuthorInv, Quiet
    <2>. QED
      BY <2>3, <2>5, <2>6
  <1>. QED
    BY <1>4, <1>5

\* updateHubSchedule withdraws queued one-off runs of an older revision.
LEMMA UpdateHubScheduleAuthor ==
  ASSUME SingleProcess, IInv, AuthorInv, NEW s \in Specs, NEW def \in Definitions,
         NEW retime \in BOOLEAN, UpdateHubSchedule(s, def, retime)
  PROVE  AuthorInv'
  <1>1. /\ AuthorActs /\ todo' = todo /\ pc' = pc /\ s \in HubSpecs
        /\ specs \in [Specs -> SpecRow] /\ specs[s] \in SpecRow
        /\ def \in Definition /\ now \in Nat
    BY AuthorFacts, DefinitionsAssumption DEF UpdateHubSchedule, section
  <1>2. pc'[Author] # "claim"
    BY <1>1 DEF AuthorActs, ProcessFree, Actors
  <1>3. StretchesInv'
    BY <1>1, <1>2, AuthorFree DEF AuthorInv
  <1>4. PICK up : up = UpsertSpec(specs[s], def)
    OBVIOUS
  <1>5. PICK new : new = IF retime THEN InitNextRun(up, now) ELSE up
    OBVIOUS
  <1>6. /\ up \in SpecRow /\ up.source = def
        /\ \/ up.revision > specs[s].revision
           \/ /\ up.revision = specs[s].revision
              /\ up.source.kind = specs[s].source.kind
    BY <1>1, <1>4, UpsertRevision
  <1>7. /\ new \in SpecRow /\ new.revision = up.revision
        /\ new.source = up.source
    BY <1>1, <1>5, <1>6, InitNextRunType DEF InitNextRun, SpecRow
  <1>8. specs' = [specs EXCEPT ![s] = new]
    BY <1>4, <1>5 DEF UpdateHubSchedule
  <1>9. /\ runs' = CancelRuns(runs, QueuedOneOffsOf(runs, s)) \/ runs' = runs
        /\ "one_off" \in {specs[s].source.kind, def.kind}
             /\ up.revision # specs[s].revision
             => runs' = CancelRuns(runs, QueuedOneOffsOf(runs, s))
    BY <1>4 DEF UpdateHubSchedule
  <1>10. NoneAdded
    BY <1>9 DEF NoneAdded, CancelRuns
  <1>11. RowsQuiet
    BY EditsFates, FatesAreQuiet DEF Edits
  <1>12. CASE up.revision > specs[s].revision
    <2>1. ASSUME NEW i \in DOMAIN runs, runs[i].spec = s,
                 runs[i].kind = "one_off", runs[i].status = "queued"
          PROVE  runs'[i].status # "queued"
      <3>1. specs[s].source.kind = "one_off"
        BY <1>1, <2>1 DEF AuthorInv, RowsInv, QueuedCurrent
      <3>2. specs[s].revision \in Nat /\ up.revision \in Nat
        BY <1>1, <1>6 DEF SpecRow
      <3>3. runs' = CancelRuns(runs, QueuedOneOffsOf(runs, s))
        BY <1>9, <1>12, <3>1, <3>2
      <3>4. runs[i] \in RunRow
        BY SeqDomain DEF IInv, TypeOK
      <3>. QED
        BY <2>1, <3>3, <3>4 DEF CancelRuns, QueuedOneOffsOf, QueuedOf, RunRow
    <2>2. \A i \in DOMAIN runs : runs[i].spec = s /\ runs[i].kind = "one_off"
             => runs'[i].status # "queued"
      BY <1>11, <2>1 DEF RowsQuiet
    <2>. QED
      BY <1>3, <1>7, <1>8, <1>10, <1>11, <1>12, <2>2, EditedRows DEF AuthorInv
  <1>13. CASE /\ up.revision = specs[s].revision
              /\ up.source.kind = specs[s].source.kind
    <2>1. SpecsKept
      BY <1>1, <1>7, <1>8, <1>13 DEF SpecsKept
    <2>. QED
      BY <1>3, <1>10, <1>11, <2>1, QuietRows DEF AuthorInv, Quiet
  <1>. QED
    BY <1>6, <1>12, <1>13

\* A manual run replaces the queued run of a one-off, and is refused when a
\* run of the revision has started.
LEMMA TriggerNowAuthor ==
  ASSUME SingleProcess, IInv, AuthorInv, NEW s \in Specs, NEW r \in Runners,
         TriggerNow(s, r)
  PROVE  AuthorInv'
  <1>. DEFINE queued == {i \in QueuedOneOffsOf(runs, s) :
                           runs[i].revision = specs[s].revision}
              run == NewRun(s, specs[s].revision, "manual", now)
  <1>1. /\ AuthorActs /\ todo' = todo /\ pc' = pc /\ Runnable(specs[s])
        /\ specs \in [Specs -> SpecRow] /\ specs[s] \in SpecRow /\ now \in Nat
    BY AuthorFacts DEF TriggerNow, section
  <1>2. pc'[Author] # "claim"
    BY <1>1 DEF AuthorActs, ProcessFree, Actors
  <1>3. StretchesInv'
    BY <1>1, <1>2, AuthorFree DEF AuthorInv
  <1>4. SpecsKept
    BY <1>1 DEF TriggerNow, SpecsKept, SpecRow
  <1>5. RowsQuiet
    BY EditsFates, FatesAreQuiet DEF Edits
  <1>6. /\ run \in RunRow /\ run.spec = s /\ run.kind = "manual"
        /\ run.revision = specs[s].revision /\ run.revision > 0
    BY <1>1, NewRunType DEF NewRun, RunKinds, SpecRow, Runnable
  <1>7. \/ runs' = runs
        \/ /\ specs[s].source.kind # "one_off"
           /\ runs' = Append(runs, run)
        \/ /\ ~ManualRunBlocked(s)
           /\ runs' = Append(CancelRuns(runs, queued), run)
    BY DEF TriggerNow
  <1>. HIDE DEF run
  <1>8. CASE runs' = runs
    BY <1>3, <1>4, <1>5, <1>8, QuietRows DEF AuthorInv, Quiet, NoneAdded
  <1>9. CASE specs[s].source.kind # "one_off" /\ runs' = Append(runs, run)
    BY <1>3, <1>4, <1>6, <1>9, AddedRow, QueuedRows DEF AuthorInv
  <1>10. CASE ~ManualRunBlocked(s) /\ runs' = Append(CancelRuns(runs, queued), run)
    <2>1. \A i \in queued : i \in DOMAIN runs => runs[i].status = "queued"
      BY DEF QueuedOneOffsOf, QueuedOf
    <2>2. \A i \in ConsumingRuns(runs, s, specs[s].revision) :
            runs[i].status = "cancelled" \/ i \in queued
      BY <1>10 DEF ManualRunBlocked, ConsumingRuns, QueuedOneOffsOf, QueuedOf
    <2>3. \A i \in DOMAIN runs : i \in queued =>
            CancelRuns(runs, queued)[i].status = "cancelled"
      <3>1. \A i \in DOMAIN runs : runs[i] \in RunRow
        BY SeqDomain DEF IInv, TypeOK
      <3>. QED
        BY <3>1 DEF CancelRuns, RunRow
    <2>. HIDE DEF queued
    <2>4. /\ Queued(run)
          /\ \A i \in DOMAIN runs : runs'[i] = CancelRuns(runs, queued)[i]
      BY <1>6, <1>10, <2>1, AppendedRow
    <2>5. \A i \in DOMAIN runs : i \in ConsumingRuns(runs, s, specs[s].revision)
            => runs'[i].status = "cancelled"
      BY <1>5, <2>2, <2>3, <2>4 DEF RowsQuiet
    <2>. QED
      BY <1>3, <1>4, <1>6, <2>4, <2>5, QueuedRows DEF AuthorInv
  <1>. QED
    BY <1>7, <1>8, <1>9, <1>10

\* In one process, every step keeps the invariant.
LEMMA AuthorStep ==
  ASSUME SingleProcess, IInv, AuthorInv, [Next]_vars
  PROVE  AuthorInv'
  <1>1. CASE \E a \in Actors : Stretch(a)
    BY <1>1, StretchAuthor
  <1>2. CASE \E t \in DOMAIN execs : Timers(t) \/ Answers(t)
    <2>1. Quiet /\ UNCHANGED <<pc, todo>>
      BY <1>2, ExecutionQuiet
    <2>. QED
      BY <2>1, QuietRows, PlacesKept DEF AuthorInv
  <1>3. CASE \E r \in Runners : TickBegin(r)
    BY <1>3, TickBeginAuthor
  <1>4. CASE Edits
    BY <1>4, FirstStatementsAuthor, UpdateHubScheduleAuthor, TriggerNowAuthor
       DEF Edits
  <1>5. CASE \/ \E r \in Runners : Stop(r) \/ Stopped(r) \/ Start(r)
             \/ \E p \in Procs : Crash(p)
             \/ Advance \/ Sleep
             \/ UNCHANGED vars
    BY <1>5, ControlAuthor
  <1>. QED
    BY <1>1, <1>2, <1>3, <1>4, <1>5 DEF Next, Halt

-----------------------------------------------------------------------------
(* Theorems for one process *)

\* Initially no run and no stretch exists.
LEMMA AuthorInit == Init => AuthorInv
  <1>. SUFFICES ASSUME Init PROVE AuthorInv
    OBVIOUS
  <1>1. runs = <<>> /\ \A a \in Actors : pc[a] = "idle" /\ todo[a] = {}
    BY DEF Init
  <1>2. RowsInv
    BY <1>1 DEF RowsInv, RevisionsPast, QueuedCurrent, OneConsumer
  <1>3. StretchesInv
    BY <1>1 DEF StretchesInv, Alone, Distinct
  <1>. QED
    BY <1>2, <1>3 DEF AuthorInv

(* In one process the stretches of runners and authors never interleave, and
   what they read is current. *)
THEOREM StretchesAlone ==
  ASSUME SingleProcess
  PROVE  Spec => []AuthorInv
  <1>1. IInv /\ AuthorInv /\ [Next]_vars => AuthorInv'
    BY AuthorStep
  <1>. QED
    BY <1>1, AuthorInit, InvariantHolds, PTL DEF Spec

\* One consumer that takes effect at most.
LEMMA OneEffect ==
  ASSUME IInv, AuthorInv
  PROVE  OneOffOnce
  <1>. SUFFICES ASSUME NEW s \in Specs, specs[s].source.kind = "one_off"
                PROVE  Cardinality({i \in ConsumingRuns(runs, s, specs[s].revision) :
                                     /\ runs[i].attempts > 0
                                     /\ runs[i].status # "cancelled"}) <= 1
    BY DEF OneOffOnce
  <1>1. PICK E : E = {i \in ConsumingRuns(runs, s, specs[s].revision) :
                        runs[i].attempts > 0 /\ runs[i].status # "cancelled"}
    OBVIOUS
  <1>2. \A i, j \in E : i = j
    BY <1>1 DEF AuthorInv, RowsInv, OneConsumer, Consumes, ConsumingRuns
  <1>3. CASE E = {}
    BY <1>1, <1>3, FS_EmptySet
  <1>4. CASE E # {}
    <2>1. PICK i \in E : E = {i}
      BY <1>2, <1>4
    <2>2. Cardinality(E) = 1
      BY <2>1, FS_Singleton
    <2>. QED
      BY <1>1, <2>2
  <1>. QED
    BY <1>3, <1>4

(* A one-off takes effect once per revision, however its author edits, pauses,
   triggers and deletes it: the manual run withdraws the queued one before it
   is added, and a stretch never enqueues a one-off that was consumed since. *)
THEOREM OneProcessRunsOnce ==
  ASSUME SingleProcess
  PROVE  Spec => []OneOffOnce
  BY OneEffect, StretchesAlone, InvariantHolds, PTL

\* A queued row starts in a claim transaction only.
LEMMA StartsInClaim ==
  ASSUME IInv, [Next]_vars, NEW i \in DOMAIN runs,
         runs[i].status = "queued", runs'[i].status = "running"
  PROVE  \E r \in Runners : pc[r] = "claim"
  <1>1. runs[i] \in RunRow
    BY SeqDomain DEF IInv, TypeOK
  <1>2. Fates
    BY NextFates DEF ClockOnly
  <1>3. Fate(i)
    BY <1>2 DEF Fates
  <1>. QED
    BY <1>1, <1>3 DEF Fate, Claimed, Renewed, Withdrawn, Settled, RunRow

(* The claim never starts a hub one-off as it was before an edit: the edit
   withdrew that run in its own transaction. *)
THEOREM OneProcessRunsCurrent ==
  ASSUME SingleProcess
  PROVE  Spec => StaleOneOffNeverStarts
  <1>1. IInv /\ AuthorInv /\ [Next]_vars
          => [\A i \in DOMAIN runs :
               /\ runs[i].status = "queued" /\ runs'[i].status = "running"
               /\ runs[i].kind = "one_off" /\ runs[i].spec \in HubSpecs
               => runs[i].revision = specs[runs[i].spec].revision]_vars
    BY DEF AuthorInv, RowsInv, QueuedCurrent
  <1>. QED
    BY <1>1, StretchesAlone, InvariantHolds, PTL
       DEF Spec, StaleOneOffNeverStarts

(* A backlog runs once: between the withdrawal of the older occurrences and
   the claim nobody queues another. *)
THEOREM OneProcessRunsNewest ==
  ASSUME SingleProcess
  PROVE  Spec => OnlyNewestOccurrenceStarts
  <1>1. IInv /\ AuthorInv /\ [Next]_vars
          => [\A i \in DOMAIN runs :
               runs[i].status = "queued" /\ runs'[i].status = "running"
                 => ~\E j \in DOMAIN runs :
                       /\ runs[j].spec = runs[i].spec
                       /\ runs[j].status = "queued"
                       /\ {runs[i].kind, runs[j].kind} = {"schedule"}
                       /\ runs[j].scheduledFor > runs[i].scheduledFor]_vars
    <2>. SUFFICES ASSUME IInv, AuthorInv, [Next]_vars, NEW i \in DOMAIN runs,
                         NEW j \in DOMAIN runs,
                         runs[i].status = "queued", runs'[i].status = "running",
                         runs[j].spec = runs[i].spec, runs[j].status = "queued",
                         {runs[i].kind, runs[j].kind} = {"schedule"},
                         runs[j].scheduledFor > runs[i].scheduledFor
                  PROVE  FALSE
      OBVIOUS
    <2>1. \E r \in Runners : pc[r] = "claim"
      BY StartsInClaim
    <2>2. Superseded(runs) = {}
      BY <2>1 DEF AuthorInv, StretchesInv, Actors
    <2>3. runs[i].kind = "schedule" /\ runs[j].kind = "schedule"
      OBVIOUS
    <2>4. i \in Superseded(runs)
      BY <2>3 DEF Superseded, QueuedOf
    <2>. QED
      BY <2>2, <2>4
  <1>. QED
    BY <1>1, StretchesAlone, InvariantHolds, PTL
       DEF Spec, OnlyNewestOccurrenceStarts

-----------------------------------------------------------------------------
(* Recurring automations in files, in any number of processes *)

(* What the theorem excludes does move next_run_at past a due occurrence: an
   edit of a hub schedule that retimes it, and the settlement of a one-off run
   whose automation has meanwhile become a schedule. *)
RecurringFiles ==
  /\ HubSpecs = {}
  /\ \A s \in Specs : Seed[s].source.kind = "schedule"
  /\ \A def \in Definitions : def.kind = "schedule"

RecurringInv ==
  /\ \A s \in Specs : specs[s].source.kind = "schedule"
  /\ \A i \in DOMAIN runs : runs[i].kind = "schedule"
  /\ \A a \in Actors : todo[a] = {}
  /\ pc[Author] # "initNextRun"

\* There is no one-off to list.
LEMMA NothingListed ==
  ASSUME RecurringInv, NEW a \in Actors, IInv, Materialize(a, UnconsumedOneOffs)
  PROVE  /\ \A b \in Actors : todo'[b] = {}
         /\ pc'[Author] # "initNextRun"
  <1>1. UnconsumedOneOffs = {}
    BY DEF RecurringInv, UnconsumedOneOffs
  <1>2. /\ pc' = [pc EXCEPT ![a] = "schedules"]
        /\ todo' = [todo EXCEPT ![a] = {}]
        /\ pc \in [Actors -> Places] /\ todo \in [Actors -> SUBSET Item]
        /\ Author \in Actors
    BY <1>1, AuthorFacts DEF Materialize
  <1>. QED
    BY <1>2 DEF RecurringInv

\* Steps that add no run and edit no spec.
LEMMA QuietRecurring ==
  ASSUME RecurringInv, Quiet, \A b \in Actors : todo'[b] = {},
         pc'[Author] # "initNextRun"
  PROVE  RecurringInv'
  BY DEF RecurringInv, Quiet, NoneAdded, RowsQuiet, SpecsKept, SameJob

\* The only authors are those of files.
LEMMA FileEdits ==
  ASSUME RecurringFiles, Edits
  PROVE  \E s \in Specs :
           RemoveSpec(s) \/ \E def \in Definitions : ReconcileFile(s, def)
  BY DEF RecurringFiles, Edits, CreateHubSchedule, UpdateHubSchedule, TriggerNow

\* Only occurrences of schedules are ever queued.
LEMMA RecurringStep ==
  ASSUME RecurringFiles, IInv, RecurringInv, [Next]_vars
  PROVE  RecurringInv'
  <1>0. /\ specs \in [Specs -> SpecRow] /\ \A s \in Specs : specs[s] \in SpecRow
        /\ pc \in [Actors -> Places] /\ Author \in Actors
    BY AuthorFacts
  <1>1. CASE \E t \in DOMAIN execs : Timers(t) \/ Answers(t)
    <2>1. Quiet /\ UNCHANGED <<pc, todo>>
      BY <1>1, ExecutionQuiet
    <2>. QED
      BY <2>1, QuietRecurring DEF RecurringInv
  <1>2. CASE \E r \in Runners : TickBegin(r)
    <2>1. PICK r \in Runners : TickBegin(r)
      BY <1>2
    <2>2. RowsQuiet
      BY <2>1, TickBeginFates, FatesAreQuiet
    <2>3. Quiet
      BY <2>1, <2>2 DEF TickBegin, Quiet, NoneAdded, SpecsKept
    <2>4. r \in Actors /\ Materialize(r, UnconsumedOneOffs)
      BY <2>1 DEF TickBegin, Actors
    <2>. QED
      BY <2>3, <2>4, NothingListed, QuietRecurring
  <1>3. CASE \E a \in Actors : Stretch(a)
    <2>1. PICK a \in Actors : Stretch(a)
      BY <1>3
    <2>2. ~EnqueueOneOff(a) /\ ~InitializeNextRun
      BY DEF RecurringInv, EnqueueOneOff, InitializeNextRun
    <2>3. CASE MaterializeSchedules(a)
      <3>1. /\ todo' = todo
            /\ pc' \in {pc, [pc EXCEPT ![a] = "supersede"],
                        [pc EXCEPT ![a] = "idle"]}
        BY <2>3 DEF MaterializeSchedules
      <3>2. \A b \in Actors : todo'[b] = {}
        BY <3>1 DEF RecurringInv
      <3>3. pc'[Author] # "initNextRun"
        BY <1>0, <3>1 DEF RecurringInv
      <3>4. \A s \in Specs : specs'[s].source = specs[s].source
        <4>1. \A s \in Specs : AdvanceSchedule(specs[s], now).source
                                 = specs[s].source
          BY <1>0 DEF AdvanceSchedule, SpecRow
        <4>2. \/ specs' = [s \in Specs |-> AdvanceSchedule(specs[s], now)]
              \/ \E s \in Specs : specs' = [specs EXCEPT ![s] =
                                              AdvanceSchedule(specs[s], now)]
          BY <2>3 DEF MaterializeSchedules
        <4>. QED
          BY <1>0, <4>1, <4>2
      <3>5. \A i \in DOMAIN runs' : runs'[i].kind = "schedule"
        <4>1. CASE runs' = runs
          BY <4>1 DEF RecurringInv
        <4>2. CASE \E s \in Specs :
                     /\ OccurrenceDue(specs[s], now)
                     /\ runs' = Append(runs, NewRun(s, specs[s].revision,
                                              "schedule", specs[s].nextRunAt))
          <5>1. PICK s \in Specs :
                  /\ OccurrenceDue(specs[s], now)
                  /\ runs' = Append(runs, NewRun(s, specs[s].revision,
                                           "schedule", specs[s].nextRunAt))
            BY <4>2
          <5>2. PICK row : row = NewRun(s, specs[s].revision, "schedule",
                                        specs[s].nextRunAt)
            OBVIOUS
          <5>3. specs[s].revision \in Nat /\ specs[s].nextRunAt \in Nat
            BY <1>0, <5>1 DEF OccurrenceDue, SpecRow, OptTime
          <5>4. row \in RunRow /\ row.kind = "schedule"
            BY <5>2, <5>3, NewRunType DEF NewRun, RunKinds
          <5>5. PICK n : n = NewRow
            OBVIOUS
          <5>6. Queued(row)
            BY <5>1, <5>2, <5>4, AddedRow
          <5>. QED
            BY <5>4, <5>5, <5>6 DEF Queued, RowsQuiet, SameJob, RecurringInv
        <4>. QED
          BY <2>3, <4>1, <4>2 DEF MaterializeSchedules
      <3>. QED
        BY <3>2, <3>3, <3>4, <3>5 DEF RecurringInv
    <2>4. CASE \/ a \in Runners /\ (CancelSuperseded(a) \/ ClaimDue(a))
               \/ \E t \in DOMAIN execs : Dispatch(t)
      <3>1. RowsQuiet
        BY <2>1, StretchFates, FatesAreQuiet
      <3>2. NoneAdded
        <4>1. ASSUME NEW t \in DOMAIN execs, Dispatch(t)
              PROVE  NoneAdded
          <5>1. runs' = runs \/ runs' = CompleteRun(runs, RunOf(t), t, "cancelled")
            BY <4>1 DEF Dispatch
          <5>. QED
            BY <5>1, ExecFacts DEF CompleteRun, NoneAdded
        <4>. QED
          BY <2>4, <4>1 DEF CancelSuperseded, ClaimDue, CancelRuns, ClaimRuns,
                            NoneAdded
      <3>3. SpecsKept /\ todo' = todo
        BY <2>4 DEF CancelSuperseded, ClaimDue, Dispatch, SpecsKept
      <3>4. pc'[Author] # "initNextRun"
        <4>1. \E b \in Actors, p \in {"claim", "idle", "dispatch"} :
                pc' = [pc EXCEPT ![b] = p]
          BY <2>4, ExecFacts DEF CancelSuperseded, ClaimDue, Dispatch, Actors
        <4>. QED
          BY <1>0, <4>1 DEF RecurringInv
      <3>. QED
        BY <3>1, <3>2, <3>3, <3>4, QuietRecurring DEF RecurringInv, Quiet
    <2>5. CASE CancelQueuedRuns \/ ApplyFileNextRun
      <3>1. RowsQuiet
        BY <2>1, StretchFates, FatesAreQuiet
      <3>2. NoneAdded
        BY <2>5 DEF CancelQueuedRuns, ApplyFileNextRun, CancelRuns, NoneAdded
      <3>3. SpecsKept
        BY <1>0, <2>5, AuthorFacts DEF CancelQueuedRuns, ApplyFileNextRun,
           ApplyNextRun, SpecRow, SpecsKept
      <3>4. Materialize(Author, UnconsumedOneOffs)
        BY <2>5 DEF CancelQueuedRuns, ApplyFileNextRun, RecurringFiles
      <3>. QED
        BY <1>0, <3>1, <3>2, <3>3, <3>4, NothingListed, QuietRecurring DEF Quiet
    <2>. QED
      BY <2>1, <2>2, <2>3, <2>4, <2>5 DEF Stretch
  <1>4. CASE Edits
    <2>1. PICK s \in Specs :
            RemoveSpec(s) \/ \E def \in Definitions : ReconcileFile(s, def)
      BY <1>4, FileEdits
    <2>2. /\ runs' = runs /\ todo' = todo
          /\ pc'[Author] # "initNextRun"
      BY <1>0, <2>1 DEF RemoveSpec, ReconcileFile
    <2>3. \A x \in Specs : specs'[x].source.kind = "schedule"
      <3>1. MarkRemoved(specs[s]).source = specs[s].source
        BY <1>0 DEF MarkRemoved, SpecRow
      <3>2. \A def \in Definitions :
              UpsertSpec(specs[s], def).source.kind = "schedule"
        BY DEF UpsertSpec, RecurringFiles
      <3>3. \/ specs' = [specs EXCEPT ![s] = MarkRemoved(specs[s])]
            \/ \E def \in Definitions :
                 specs' = [specs EXCEPT ![s] = UpsertSpec(specs[s], def)]
        BY <2>1 DEF RemoveSpec, ReconcileFile
      <3>. QED
        BY <1>0, <3>1, <3>2, <3>3 DEF RecurringInv
    <2>. QED
      BY <2>2, <2>3 DEF RecurringInv
  <1>5. CASE \/ \E r \in Runners : Stop(r) \/ Stopped(r) \/ Start(r)
             \/ \E p \in Procs : Crash(p)
             \/ Advance \/ Sleep
             \/ UNCHANGED vars
    <2>1. UNCHANGED <<specs, runs>>
      BY <1>5 DEF Stop, Stopped, Start, Crash, Advance, Sleep, vars, store
    <2>2. \A a \in Actors : \/ pc'[a] = pc[a] /\ todo'[a] = todo[a]
                            \/ pc'[a] = "idle" /\ todo'[a] = {}
      <3>1. CASE \E p \in Procs : Crash(p)
        BY <3>1 DEF Crash
      <3>2. CASE UNCHANGED <<pc, todo>>
        BY <3>2
      <3>3. (\E p \in Procs : Crash(p)) \/ UNCHANGED <<pc, todo>>
        BY <1>5 DEF Stop, Stopped, Start, Advance, Sleep, vars, section
      <3>. QED
        BY <3>1, <3>2, <3>3
    <2>. QED
      BY <1>0, <2>1, <2>2 DEF RecurringInv
  <1>. QED
    BY <1>1, <1>2, <1>3, <1>4, <1>5 DEF Next, Halt

\* Which steps move next_run_at, and how.
LEMMA NextRunMoves ==
  ASSUME RecurringFiles, IInv, RecurringInv, [Next]_vars, NEW s \in Specs,
         OccurrenceDue(specs[s], now),
         specs'[s].nextRunAt # specs[s].nextRunAt
  PROVE  \/ \E a \in Actors : MaterializeSchedules(a)
         \/ ApplyFileNextRun
  <1>0. specs \in [Specs -> SpecRow] /\ \A x \in Specs : specs[x] \in SpecRow
    BY AuthorFacts
  <1>1. specs' # specs
    OBVIOUS
  <1>2. CASE \E t \in DOMAIN execs : Timers(t) \/ Answers(t)
    <2>1. PICK t \in DOMAIN execs : Timers(t) \/ Answers(t)
      BY <1>2
    <2>2. \E outcome : Settle(t, outcome)
      BY <1>1, <2>1 DEF Timers, Answers, Heartbeat, TimedOut, AbortDelivered,
         CleanedUp, Closed, Prepared, SessionStarted, TurnDone, Failed, store
    <2>3. runs[RunOf(t)].kind # "one_off"
      BY <2>1, ExecFacts DEF RecurringInv
    <2>. QED
      BY <1>1, <2>2, <2>3 DEF Settle
  <1>3. CASE Edits
    <2>1. PICK x \in Specs :
            RemoveSpec(x) \/ \E def \in Definitions : ReconcileFile(x, def)
      BY <1>3, FileEdits
    <2>2. MarkRemoved(specs[x]).nextRunAt = specs[x].nextRunAt
      BY <1>0 DEF MarkRemoved, SpecRow
    <2>3. \A def : UpsertSpec(specs[x], def).nextRunAt = specs[x].nextRunAt
      BY DEF UpsertSpec
    <2>4. \/ specs' = [specs EXCEPT ![x] = MarkRemoved(specs[x])]
          \/ \E def \in Definitions :
               specs' = [specs EXCEPT ![x] = UpsertSpec(specs[x], def)]
      BY <2>1 DEF RemoveSpec, ReconcileFile
    <2>. QED
      BY <1>0, <2>2, <2>3, <2>4
  <1>4. CASE \E a \in Actors : Stretch(a)
    BY <1>1, <1>4 DEF Stretch, RecurringInv, EnqueueOneOff, CancelSuperseded,
       ClaimDue, Dispatch, InitializeNextRun, CancelQueuedRuns
  <1>5. CASE \/ \E r \in Runners : TickBegin(r)
             \/ \E r \in Runners : Stop(r) \/ Stopped(r) \/ Start(r)
             \/ \E p \in Procs : Crash(p)
             \/ Advance \/ Sleep
             \/ UNCHANGED vars
    BY <1>1, <1>5 DEF TickBegin, Stop, Stopped, Start, Crash, Advance, Sleep,
       vars, store
  <1>. QED
    BY <1>2, <1>3, <1>4, <1>5 DEF Next, Halt

\* A due occurrence that is passed over has its run.
LEMMA DueQueued ==
  ASSUME IInv, NEW a \in Actors, MaterializeSchedules(a), NEW s \in Specs,
         OccurrenceDue(specs[s], now), specs'[s].nextRunAt # specs[s].nextRunAt
  PROVE  \E i \in DOMAIN runs' :
           runs'[i].spec = s /\ runs'[i].scheduledFor = specs[s].nextRunAt
  <1>0. specs \in [Specs -> SpecRow] /\ \A x \in Specs : specs[x] \in SpecRow
    BY AuthorFacts
  <1>1. PICK x \in Specs :
          /\ OccurrenceDue(specs[x], now)
          /\ runs' = Append(runs, NewRun(x, specs[x].revision, "schedule",
                                         specs[x].nextRunAt))
          /\ specs' = [specs EXCEPT ![x] = AdvanceSchedule(specs[x], now)]
    BY DEF MaterializeSchedules
  <1>2. x = s
    BY <1>0, <1>1
  <1>3. specs[s].revision \in Nat /\ specs[s].nextRunAt \in Nat
    BY <1>0 DEF OccurrenceDue, SpecRow, OptTime
  <1>4. PICK row : row = NewRun(s, specs[s].revision, "schedule",
                                specs[s].nextRunAt)
    OBVIOUS
  <1>5. row \in RunRow /\ row.spec = s /\ row.scheduledFor = specs[s].nextRunAt
    BY <1>3, <1>4, NewRunType DEF NewRun, RunKinds
  <1>6. Queued(row)
    BY <1>1, <1>2, <1>4, <1>5, AddedRow
  <1>. QED
    BY <1>5, <1>6 DEF Queued

(* An occurrence of a recurring automation that is due is not forgotten, in
   whatever order processes materialize, claim, edit and crash: next_run_at
   moves past it only in the transaction that queues its run, or when the
   author's edit reset the schedule. *)
THEOREM RecurringKept ==
  ASSUME RecurringFiles
  PROVE  Spec => DueOccurrenceKept
  <1>1. Init => RecurringInv
    BY DEF Init, RecurringInv, RecurringFiles, Actors
  <1>2. IInv /\ RecurringInv /\ [Next]_vars => RecurringInv'
    BY RecurringStep
  <1>3. IInv /\ RecurringInv /\ [Next]_vars
          => [\A s \in Specs :
               LET retimed == /\ pc[Author] = "applyNextRun"
                              /\ target = [spec |-> s, reset |-> TRUE]
               IN  /\ OccurrenceDue(specs[s], now)
                   /\ ~retimed
                   /\ specs'[s].nextRunAt # specs[s].nextRunAt
                   => \E i \in DOMAIN runs' :
                        /\ runs'[i].spec = s
                        /\ runs'[i].scheduledFor = specs[s].nextRunAt]_vars
    <2>. SUFFICES ASSUME IInv, RecurringInv, [Next]_vars, NEW s \in Specs,
                         OccurrenceDue(specs[s], now),
                         ~(/\ pc[Author] = "applyNextRun"
                           /\ target = [spec |-> s, reset |-> TRUE]),
                         specs'[s].nextRunAt # specs[s].nextRunAt
                  PROVE  \E i \in DOMAIN runs' :
                           /\ runs'[i].spec = s
                           /\ runs'[i].scheduledFor = specs[s].nextRunAt
      OBVIOUS
    <2>1. ~ApplyFileNextRun
      <3>. SUFFICES ASSUME ApplyFileNextRun PROVE FALSE
        OBVIOUS
      <3>1. /\ specs \in [Specs -> SpecRow]
            /\ target \in [spec: Specs, reset: BOOLEAN]
        BY AuthorFacts
      <3>2. /\ pc[Author] = "applyNextRun"
            /\ specs' = [specs EXCEPT ![target.spec] =
                           ApplyNextRun(specs[target.spec], target.reset, now)]
        BY DEF ApplyFileNextRun
      <3>3. target.spec = s
        BY <3>1, <3>2
      <3>4. target = [spec |-> s, reset |-> target.reset]
        BY <3>1, <3>3
      <3>5. target.reset = FALSE
        BY <3>1, <3>2, <3>4
      <3>6. specs[s].nextRunAt # NoTime
        BY DEF OccurrenceDue
      <3>. QED
        BY <3>1, <3>2, <3>3, <3>5, <3>6 DEF ApplyNextRun
    <2>. QED
      BY <2>1, NextRunMoves, DueQueued
  <1>. QED
    BY <1>1, <1>2, <1>3, InvariantHolds, PTL DEF Spec, DueOccurrenceKept
=============================================================================
