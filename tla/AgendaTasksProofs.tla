--------------------------- MODULE AgendaTasksProofs ---------------------------
(***************************************************************************)
(* Proofs about AgendaTasks for any number of tasks, any limit and any     *)
(* bounds.  A stretch of code maps a store to a store, so the invariant is *)
(* a predicate of a store, of what has become of the sessions, and of      *)
(* whether the hub serves; it is proved operator by operator.              *)
(***************************************************************************)
EXTENDS AgendaTasks, FiniteSetTheorems, TLAPS

-----------------------------------------------------------------------------
(* Stores *)

Past ==
  [overlapping: SUBSET RunIds, overtaken: SUBSET Tasks, torn: SUBSET Tasks,
   filed: SUBSET Tasks, claims: Nat]

TaskTable == [Tasks -> TaskRow]
FileTable == [Tasks -> {"none", "same", "edited"}]
RunTable == Seq(RunRow)
Entries == [Tasks -> Nat]
RunSets == SUBSET RunIds

Store ==
  [task: TaskTable, file: FileTable, rows: RunTable, active: Entries, told: RunSets,
   past: Past]

\* The runs of a task.
Of(s, t) == {r \in DOMAIN s.rows : s.rows[r].task = t}

\* A task and its entry in activeRuns name runs of that task.
Referenced(s, t) ==
  /\ s.task[t].run # None => s.task[t].run \in Of(s, t)
  /\ s.active[t] # None => s.active[t] \in Of(s, t)

\* A terminal task names none.
AtRest(s, t) == s.task[t].status \in Terminal => s.task[t].run = None

\* One run of a task at a time has not ended.
OneOpen(s, t) ==
  \A q, r \in Of(s, t) : ~ Ended(s, q) /\ ~ Ended(s, r) => q = r

\* The run that a task names was claimed for its present, approved revision.
Pledged(s, t) ==
  LET r == s.task[t].run
  IN  r # None /\ ~ Ended(s, r) =>
        s.rows[r].rev = s.task[t].rev /\ s.task[t].ok = s.task[t].rev

\* An agent at work, unless its run has ended and it was told.
Linked(s, ses, t) ==
  \A r \in Of(s, t) :
    /\ ses[r] = "working" /\ t \notin s.past.overtaken
    /\ r \notin s.told \/ ~ Ended(s, r)
    => /\ s.task[t].status = "in_progress" /\ s.task[t].run = r
       /\ s.rows[r].status = "running"
       /\ s.rows[r].rev = s.task[t].rev /\ s.task[t].ok = s.task[t].rev

\* A row is not marked running before its session works.
Unstarted(s, ses, t) ==
  \A r \in Of(s, t) : ses[r] = "starting" => s.rows[r].status # "running"

\* While the hub serves, a run that has not ended has a session.
Housed(s, ses, up, t) ==
  up => \A r \in Of(s, t) :
          \/ Ended(s, r) \/ ses[r] \in {"starting", "working"}
          \/ t \in s.past.overtaken

\* A task in progress has a run that is running.
Backed(s, t) ==
  t \notin s.past.torn /\ s.task[t].status = "in_progress" =>
    s.task[t].run # None /\ s.rows[s.task[t].run].status = "running"

\* A completed task has a completed run of its revision.
Done(s, t) ==
  t \notin s.past.torn \cup s.past.overtaken /\ s.task[t].status = "completed" =>
    \E r \in Of(s, t) :
      s.rows[r].status = "completed" /\ s.rows[r].rev = s.task[t].rev

GoodTask(s, ses, up, t) ==
  /\ Referenced(s, t) /\ AtRest(s, t) /\ OneOpen(s, t) /\ Pledged(s, t)
  /\ Linked(s, ses, t) /\ Unstarted(s, ses, t) /\ Housed(s, ses, up, t)
  /\ Backed(s, t) /\ Done(s, t)

Good(s, ses, up) ==
  /\ s \in Store /\ Len(s.rows) <= MaxRuns
  /\ \A t \in Tasks : GoodTask(s, ses, up, t)

\* What no stretch of code undoes.
Stays(s, u, t) ==
  t \notin u.past.overtaken /\ s.task[t].status \in Terminal =>
    \/ /\ u.task[t].status = s.task[t].status
       /\ s.file[t] = "none" => u.file[t] = "none"
    \/ s.task[t].status = "deleted" /\ s.file[t] # "none"

Moved(s, u) ==
  /\ s.past.overtaken \subseteq u.past.overtaken
  /\ \A t \in Tasks : Stays(s, u, t)

\* A listing from which no terminal task has departed.
Current(s, seen) ==
  /\ IsListing(seen)
  /\ \A t \in DOMAIN seen :
       seen[t].status \in Terminal =>
         \/ seen[t].status = "deleted"
         \/ s.task[t].status = seen[t].status
         \/ t \in s.past.overtaken

-----------------------------------------------------------------------------
(* Types *)

\* The fields of a store.
LEMMA StoreFields ==
  ASSUME NEW s \in Store
  PROVE  /\ s.task \in TaskTable /\ s.file \in FileTable /\ s.rows \in RunTable
         /\ s.active \in Entries /\ s.told \in RunSets /\ s.past \in Past
         /\ s = [task |-> s.task, file |-> s.file, rows |-> s.rows,
                 active |-> s.active, told |-> s.told, past |-> s.past]
  BY DEF Store

\* ... and their types in full.
LEMMA StoreTypes ==
  ASSUME NEW s \in Store
  PROVE  /\ s.task \in [Tasks -> TaskRow] /\ s.rows \in Seq(RunRow)
         /\ s.file \in [Tasks -> {"none", "same", "edited"}]
         /\ s.active \in [Tasks -> Nat] /\ s.told \in SUBSET RunIds
         /\ Len(s.rows) \in Nat /\ DOMAIN s.rows = 1..Len(s.rows)
         /\ \A r \in DOMAIN s.rows : s.rows[r] \in RunRow
  <1>1. s.rows \in Seq(RunRow)
    BY StoreFields DEF RunTable
  <1>2. /\ Len(s.rows) \in Nat /\ DOMAIN s.rows = 1..Len(s.rows)
        /\ \A r \in DOMAIN s.rows : s.rows[r] \in RunRow
    BY <1>1
  <1>. QED
    BY <1>1, <1>2, StoreFields DEF TaskTable, FileTable, Entries, RunSets

\* The fields of a task.
LEMMA TaskTypes ==
  ASSUME NEW s \in Store, NEW t \in Tasks
  PROVE  /\ s.task[t] \in TaskRow
         /\ s.task[t].status \in Statuses /\ s.task[t].rev \in Nat
         /\ s.task[t].ok \in Nat /\ s.task[t].run \in Nat
  <1>1. s.task[t] \in TaskRow
    BY StoreTypes
  <1>. QED
    BY <1>1 DEF TaskRow

\* The fields of the history.
LEMMA PastTypes ==
  ASSUME NEW s \in Store
  PROVE  /\ s.past.overlapping \subseteq RunIds /\ s.past.overtaken \subseteq Tasks
         /\ s.past.torn \subseteq Tasks /\ s.past.filed \subseteq Tasks
         /\ s.past.claims \in Nat
         /\ s.past = [overlapping |-> s.past.overlapping,
                      overtaken |-> s.past.overtaken, torn |-> s.past.torn,
                      filed |-> s.past.filed, claims |-> s.past.claims]
  <1>1. s.past \in Past
    BY StoreFields
  <1>. QED
    BY <1>1 DEF Past

\* None is no run.
LEMMA NoneIsNoRun ==
  ASSUME NEW s \in Store, NEW t
  PROVE  None \notin Of(s, t) /\ Of(s, t) \subseteq DOMAIN s.rows
  BY StoreTypes DEF Of, None

-----------------------------------------------------------------------------
(* Frames *)

\* A task that a stretch of code does not touch.
LEMMA Untouched ==
  ASSUME NEW s, NEW u, NEW ses, NEW ses2, NEW up, NEW t,
         GoodTask(s, ses, up, t),
         u.task[t] = s.task[t], u.active[t] \in {s.active[t], None},
         Of(u, t) = Of(s, t),
         \A r \in Of(s, t) : u.rows[r] = s.rows[r] /\ ses2[r] = ses[r],
         \A r \in Of(s, t) : r \in s.told => r \in u.told,
         t \in s.past.overtaken => t \in u.past.overtaken,
         t \in s.past.torn => t \in u.past.torn
  PROVE  GoodTask(u, ses2, up, t)
  <1>1. \A r \in Of(s, t) : Ended(u, r) <=> Ended(s, r)
    BY DEF Ended
  <1>2. Referenced(u, t) /\ AtRest(u, t)
    BY DEF GoodTask, Referenced, AtRest
  <1>3. OneOpen(u, t)
    BY <1>1 DEF GoodTask, OneOpen
  <1>4. Pledged(u, t)
    BY <1>1 DEF GoodTask, Pledged, Referenced
  <1>5. Linked(u, ses2, t)
    BY <1>1 DEF GoodTask, Linked
  <1>6. Unstarted(u, ses2, t)
    BY DEF GoodTask, Unstarted
  <1>7. Housed(u, ses2, up, t)
    BY <1>1 DEF GoodTask, Housed
  <1>8. Backed(u, t)
    BY DEF GoodTask, Backed, Referenced
  <1>9. Done(u, t)
    BY DEF GoodTask, Done
  <1>. QED
    BY <1>2, <1>3, <1>4, <1>5, <1>6, <1>7, <1>8, <1>9 DEF GoodTask

\* What happens to a task's row when its runs are left alone.
TaskMove(s, u, t) ==
  LET e == s.task[t]
      f == u.task[t]
  IN  \/ f.status = e.status /\ f.rev = e.rev /\ f.ok = e.ok /\ f.run = e.run
      \/ /\ f.run = None /\ f.status # "in_progress"
         /\ e.status = "in_progress" => t \in u.past.overtaken
         /\ f.status = "completed" =>
              \/ t \in u.past.overtaken
              \/ e.status = "completed" /\ f.rev = e.rev
      \/ /\ f.run = e.run /\ f.rev = e.rev /\ f.ok = f.rev
         /\ e.status \in {"pending_approval", "failed"} /\ f.status = "approved"

\* A task that moves like this keeps its part of the invariant.
LEMMA TaskMoves ==
  ASSUME NEW s, NEW u, NEW ses, NEW up, NEW t,
         GoodTask(s, ses, up, t), TaskMove(s, u, t),
         u.rows = s.rows, u.active = s.active, u.told = s.told,
         t \in s.past.overtaken => t \in u.past.overtaken,
         u.past.torn = s.past.torn
  PROVE  GoodTask(u, ses, up, t)
  <1>1. /\ Of(u, t) = Of(s, t)
        /\ \A r : Ended(u, r) <=> Ended(s, r)
    BY DEF Of, Ended
  <1>2. OneOpen(u, t) /\ Unstarted(u, ses, t)
    BY <1>1 DEF GoodTask, OneOpen, Unstarted
  <1>3. Housed(u, ses, up, t)
    BY <1>1 DEF GoodTask, Housed
  <1>4. Referenced(u, t)
    BY <1>1 DEF GoodTask, Referenced, TaskMove
  <1>5. AtRest(u, t)
    BY DEF GoodTask, AtRest, TaskMove, Terminal
  <1>6. Pledged(u, t)
    BY <1>1 DEF GoodTask, Pledged, TaskMove
  <1>7. Linked(u, ses, t)
    BY <1>1 DEF GoodTask, Linked, TaskMove
  <1>8. Backed(u, t)
    BY <1>1 DEF GoodTask, Backed, TaskMove
  <1>9. Done(u, t)
    BY <1>1 DEF GoodTask, Done, TaskMove
  <1>. QED
    BY <1>2, <1>3, <1>4, <1>5, <1>6, <1>7, <1>8, <1>9 DEF GoodTask

\* The same for all tasks at once.
LEMMA GoodMoves ==
  ASSUME NEW s, NEW u \in Store, NEW ses, NEW up, Good(s, ses, up),
         u.rows = s.rows, u.active = s.active, u.told = s.told,
         s.past.overtaken \subseteq u.past.overtaken, u.past.torn = s.past.torn,
         \A t \in Tasks : TaskMove(s, u, t) /\ Stays(s, u, t)
  PROVE  Good(u, ses, up) /\ Moved(s, u)
  <1>1. \A t \in Tasks : GoodTask(u, ses, up, t)
    <2>. TAKE t \in Tasks
    <2>1. GoodTask(s, ses, up, t)
      BY DEF Good
    <2>. QED
      BY <2>1, TaskMoves
  <1>. QED
    BY <1>1 DEF Good, Moved

\* Stretches of code follow each other.
LEMMA MovedSelf ==
  ASSUME NEW s
  PROVE  Moved(s, s)
  BY DEF Moved, Stays

\* ... and what both keep, they keep together.
LEMMA MovedTwice ==
  ASSUME NEW s, NEW u, NEW v, Moved(s, u), Moved(u, v)
  PROVE  Moved(s, v)
  <1>1. s.past.overtaken \subseteq v.past.overtaken
    BY DEF Moved
  <1>2. ASSUME NEW t \in Tasks
        PROVE  Stays(s, v, t)
    <2>1. Stays(s, u, t) /\ Stays(u, v, t)
      BY DEF Moved
    <2>2. t \notin v.past.overtaken => t \notin u.past.overtaken
      BY DEF Moved
    <2>. QED
      BY <2>1, <2>2 DEF Stays
  <1>. QED
    BY <1>1, <1>2 DEF Moved

\* A listing that may be acted on may be acted on after other stretches.
LEMMA CurrentStays ==
  ASSUME NEW s, NEW u, NEW seen, Moved(s, u), Current(s, seen)
  PROVE  Current(u, seen)
  <1>1. IsListing(seen)
    BY DEF Current
  <1>2. ASSUME NEW t \in DOMAIN seen, seen[t].status \in Terminal
        PROVE  \/ seen[t].status = "deleted" \/ u.task[t].status = seen[t].status
               \/ t \in u.past.overtaken
    <2>1. t \in Tasks
      BY <1>1 DEF IsListing
    <2>2. Stays(s, u, t) /\ s.past.overtaken \subseteq u.past.overtaken
      BY <2>1 DEF Moved
    <2>3. \/ seen[t].status = "deleted" \/ s.task[t].status = seen[t].status
          \/ t \in s.past.overtaken
      BY <1>2 DEF Current
    <2>. QED
      BY <1>2, <2>2, <2>3 DEF Stays
  <1>. QED
    BY <1>1, <1>2 DEF Current

-----------------------------------------------------------------------------
(* The operators that leave runs alone *)

\* A store with other fields.
LEMMA ChangeStore ==
  ASSUME NEW s \in Store, NEW f \in TaskTable, NEW g \in FileTable, NEW p \in Past,
         NEW u,
         u = [task |-> f, file |-> g, rows |-> s.rows, active |-> s.active,
              told |-> s.told, past |-> p]
  PROVE  /\ u \in Store /\ u.task = f /\ u.file = g
         /\ u.rows = s.rows /\ u.active = s.active /\ u.told = s.told
         /\ u.past = p
  <1>1. u \in Store
    BY StoreFields DEF Store
  <1>. QED
    BY <1>1

\* ... with other tasks only.
LEMMA ChangeTasks ==
  ASSUME NEW s \in Store, NEW f \in TaskTable, NEW u, u = [s EXCEPT !.task = f]
  PROVE  /\ u \in Store /\ u.task = f /\ u.file = s.file
         /\ u.rows = s.rows /\ u.active = s.active /\ u.told = s.told
         /\ u.past = s.past
  <1>1. s.past \in Past /\ s.file \in FileTable
    BY StoreFields
  <1>2. u = [task |-> f, file |-> s.file, rows |-> s.rows, active |-> s.active,
             told |-> s.told, past |-> s.past]
    <2>1. s = [task |-> s.task, file |-> s.file, rows |-> s.rows,
               active |-> s.active, told |-> s.told, past |-> s.past]
      BY StoreFields
    <2>. QED
      BY <2>1
  <1>3. u \in Store
    BY <1>1, <1>2, StoreFields DEF Store
  <1>. QED
    BY <1>2, <1>3

\* A history with other file changes.
Refiled(p, X) == [p EXCEPT !.filed = X]

\* It is still a history, and only the file changes differ.
LEMMA RefiledTypes ==
  ASSUME NEW p \in Past, NEW X \in SUBSET Tasks
  PROVE  /\ Refiled(p, X) \in Past
         /\ Refiled(p, X).overtaken = p.overtaken /\ Refiled(p, X).torn = p.torn
         /\ Refiled(p, X).claims = p.claims
  BY DEF Past, Refiled

\* ... with another history of writes from an old listing.
LEMMA ChangeOvertaken ==
  ASSUME NEW s \in Store, NEW f \in TaskTable, NEW X \in SUBSET Tasks,
         NEW u,
         u = [task |-> f, file |-> s.file, rows |-> s.rows, active |-> s.active,
              told |-> s.told, past |-> [s.past EXCEPT !.overtaken = X]]
  PROVE  /\ u \in Store /\ u.task = f /\ u.file = s.file
         /\ u.rows = s.rows /\ u.active = s.active /\ u.told = s.told
         /\ u.past.overtaken = X /\ u.past.torn = s.past.torn
         /\ u.past.claims = s.past.claims
  <1>. DEFINE p == [s.past EXCEPT !.overtaken = X]
  <1>1. s.past \in Past /\ s.file \in FileTable
    BY StoreFields
  <1>2. p \in Past
    BY <1>1 DEF Past
  <1>3. /\ p.overtaken = X /\ p.torn = s.past.torn /\ p.claims = s.past.claims
    BY <1>1 DEF Past
  <1>4. u = [task |-> f, file |-> s.file, rows |-> s.rows, active |-> s.active,
             told |-> s.told, past |-> p]
    OBVIOUS
  <1>. HIDE DEF p
  <1>. QED
    BY <1>1, <1>2, <1>3, <1>4, ChangeStore

\* ... with other entries, or other sessions told.
WithActive(s, a) == [s EXCEPT !.active = a]
WithTask(s, f) == [s EXCEPT !.task = f]
WithTold(s, x) == [s EXCEPT !.told = x]

\* Replacing activeRuns changes nothing else.
LEMMA WithActiveFacts ==
  ASSUME NEW s \in Store, NEW a \in Entries
  PROVE  LET u == WithActive(s, a)
         IN  /\ u \in Store /\ u.task = s.task /\ u.file = s.file
             /\ u.rows = s.rows /\ u.active = a /\ u.told = s.told /\ u.past = s.past
  <1>. DEFINE u == WithActive(s, a)
  <1>1. s = [task |-> s.task, file |-> s.file, rows |-> s.rows,
             active |-> s.active, told |-> s.told, past |-> s.past]
    BY StoreFields
  <1>2. u = [task |-> s.task, file |-> s.file, rows |-> s.rows, active |-> a,
             told |-> s.told, past |-> s.past]
    BY <1>1 DEF WithActive
  <1>. HIDE DEF u
  <1>3. u \in Store
    BY <1>2, StoreFields DEF Store
  <1>. QED
    BY <1>2, <1>3 DEF u

\* Replacing the rows of the tasks changes nothing else.
LEMMA WithTaskFacts ==
  ASSUME NEW s \in Store, NEW f \in TaskTable
  PROVE  LET u == WithTask(s, f)
         IN  /\ u \in Store /\ u.task = f /\ u.file = s.file
             /\ u.rows = s.rows /\ u.active = s.active /\ u.told = s.told /\ u.past = s.past
  <1>. QED
    BY ChangeTasks DEF WithTask

\* Replacing the told sessions changes nothing else.
LEMMA WithToldFacts ==
  ASSUME NEW s \in Store, NEW x \in RunSets
  PROVE  LET u == WithTold(s, x)
         IN  /\ u \in Store /\ u.task = s.task /\ u.file = s.file
             /\ u.rows = s.rows /\ u.active = s.active /\ u.told = x /\ u.past = s.past
  <1>. DEFINE u == WithTold(s, x)
  <1>1. s = [task |-> s.task, file |-> s.file, rows |-> s.rows,
             active |-> s.active, told |-> s.told, past |-> s.past]
    BY StoreFields
  <1>2. u = [task |-> s.task, file |-> s.file, rows |-> s.rows, active |-> s.active,
             told |-> x, past |-> s.past]
    BY <1>1 DEF WithTold
  <1>. HIDE DEF u
  <1>3. u \in Store
    BY <1>2, StoreFields DEF Store
  <1>. QED
    BY <1>2, <1>3 DEF u

\* One task's row, entry and told sessions.
Put(s, t, e, a, x) ==
  WithTold(WithTask(WithActive(s, [s.active EXCEPT ![t] = a]),
                    [s.task EXCEPT ![t] = e]), x)

\* Only that task and the told sessions change.
LEMMA PutFacts ==
  ASSUME NEW s \in Store, NEW t \in Tasks, NEW e \in TaskRow, NEW a \in Nat,
         NEW x \in RunSets
  PROVE  LET u == Put(s, t, e, a, x)
         IN  /\ u \in Store /\ u.file = s.file /\ u.rows = s.rows /\ u.past = s.past
             /\ u.task[t] = e /\ u.active[t] = a /\ u.told = x
             /\ \A q \in Tasks : q # t =>
                  u.task[q] = s.task[q] /\ u.active[q] = s.active[q]
  <1>. DEFINE f == [s.task EXCEPT ![t] = e]
              g == [s.active EXCEPT ![t] = a]
              v == WithActive(s, g)
              w == WithTask(v, f)
              u == WithTold(w, x)
  <1>1. /\ f \in TaskTable /\ f[t] = e
        /\ \A q \in Tasks : q # t => f[q] = s.task[q]
    BY StoreTypes DEF TaskTable
  <1>2. /\ g \in Entries /\ g[t] = a
        /\ \A q \in Tasks : q # t => g[q] = s.active[q]
    BY StoreTypes DEF Entries
  <1>4. Put(s, t, e, a, x) = u
    BY DEF Put
  <1>. HIDE DEF f, g
  <1>5. /\ v \in Store /\ v.task = s.task /\ v.file = s.file
        /\ v.rows = s.rows /\ v.active = g /\ v.told = s.told /\ v.past = s.past
    BY <1>2, WithActiveFacts
  <1>. HIDE DEF v
  <1>6. /\ w \in Store /\ w.task = f /\ w.file = s.file
        /\ w.rows = s.rows /\ w.active = g /\ w.told = s.told /\ w.past = s.past
    BY <1>1, <1>5, WithTaskFacts
  <1>. HIDE DEF w
  <1>7. /\ u \in Store /\ u.task = f /\ u.file = s.file
        /\ u.rows = s.rows /\ u.active = g /\ u.told = x /\ u.past = s.past
    BY <1>6, WithToldFacts
  <1>. HIDE DEF u
  <1>. QED
    BY <1>1, <1>2, <1>4, <1>7

\* The row of a task that expires.
Lapsed(e) == [e EXCEPT !.status = "expired", !.ok = 0, !.by = "hub"]

\* It is a row, and names the run it named.
LEMMA LapsedTypes ==
  ASSUME NEW e \in TaskRow
  PROVE  /\ Lapsed(e) \in TaskRow /\ Lapsed(e).run = e.run /\ Lapsed(e).status = "expired"
  BY DEF Lapsed, TaskRow, Statuses, Authors

\* expireTask
LEMMA ExpiredGood ==
  ASSUME NEW s, NEW S, NEW ses, NEW up, Good(s, ses, up)
  PROVE  /\ Good(Expired(s, S), ses, up) /\ Moved(s, Expired(s, S))
         /\ Expired(s, S).past = s.past
  <1>. DEFINE due(t) == t \in S \cap late /\ s.task[t].status \in Editable
                          /\ s.task[t].run = None
              f == [t \in Tasks |-> IF due(t) THEN Lapsed(s.task[t]) ELSE s.task[t]]
              u == Expired(s, S)
  <1>1. s \in Store
    BY DEF Good
  <1>2. \A t \in Tasks : s.task[t] \in TaskRow
    BY <1>1, TaskTypes
  <1>4. u = [s EXCEPT !.task = f]
    BY SMT DEF Expired, Lapsed
  <1>5. \A t : due(t) => s.task[t].status \in Editable /\ s.task[t].run = None
    OBVIOUS
  <1>. HIDE DEF due
  <1>3. f \in TaskTable
    BY <1>2, LapsedTypes, SMT DEF TaskTable
  <1>9. \A t \in Tasks : f[t] = IF due(t) THEN Lapsed(s.task[t]) ELSE s.task[t]
    BY SMT
  <1>. HIDE DEF f, u
  <1>6. /\ u \in Store /\ u.rows = s.rows /\ u.active = s.active /\ u.told = s.told
        /\ u.past = s.past /\ u.file = s.file /\ u.task = f
    BY <1>1, <1>3, <1>4, ChangeTasks
  <1>7. ASSUME NEW t \in Tasks
        PROVE  TaskMove(s, u, t) /\ Stays(s, u, t)
    <2>1. CASE due(t)
      <3>1. u.task[t].run = None /\ u.task[t].status = "expired"
        BY <1>2, <1>5, <1>6, <1>9, <2>1, LapsedTypes
      <3>. QED
        BY <1>5, <1>6, <2>1, <3>1 DEF TaskMove, Stays, Editable, Terminal
    <2>2. CASE ~ due(t)
      <3>1. u.task[t] = s.task[t]
        BY <1>6, <1>9, <2>2
      <3>. QED
        BY <1>6, <3>1 DEF TaskMove, Stays
    <2>. QED
      BY <2>1, <2>2
  <1>8. Good(u, ses, up) /\ Moved(s, u)
    BY <1>6, <1>7, GoodMoves
  <1>. QED
    BY <1>6, <1>8 DEF u

\* approveTask
LEMMA ApprovedGood ==
  ASSUME NEW s, NEW t \in Tasks, NEW who \in Authors, NEW ses, NEW up, Good(s, ses, up),
         s.task[t].status \in {"pending_approval", "failed"}
  PROVE  /\ Good(Approved(s, t, who), ses, up) /\ Moved(s, Approved(s, t, who))
         /\ Approved(s, t, who).past = s.past /\ Approved(s, t, who).rows = s.rows
  <1>. DEFINE row == [s.task[t] EXCEPT !.status = "approved", !.ok = s.task[t].rev,
                                       !.by = who]
              f == [s.task EXCEPT ![t] = row]
              u == Approved(s, t, who)
  <1>1. s \in Store
    BY DEF Good
  <1>2. s.task[t] \in TaskRow /\ s.task[t].rev \in Nat /\ s.task \in [Tasks -> TaskRow]
    BY <1>1, TaskTypes, StoreTypes
  <1>3. u = [s EXCEPT !.task = f]
    BY <1>1, <1>2, StoreTypes DEF Approved
  <1>4. /\ row \in TaskRow /\ row.status = "approved" /\ row.ok = s.task[t].rev
        /\ row.rev = s.task[t].rev /\ row.run = s.task[t].run
    BY <1>2 DEF TaskRow, Statuses
  <1>. HIDE DEF row
  <1>5. /\ f \in TaskTable /\ f[t] = row
        /\ \A q \in Tasks : q # t => f[q] = s.task[q]
    BY <1>2, <1>4 DEF TaskTable
  <1>. HIDE DEF f
  <1>6. /\ u \in Store /\ u.rows = s.rows /\ u.active = s.active /\ u.told = s.told
        /\ u.past = s.past /\ u.file = s.file /\ u.task = f
    BY <1>1, <1>3, <1>5, ChangeTasks
  <1>. HIDE DEF u
  <1>7. ASSUME NEW q \in Tasks
        PROVE  TaskMove(s, u, q) /\ Stays(s, u, q)
    <2>1. CASE q = t
      BY <1>4, <1>5, <1>6, <2>1 DEF TaskMove, Stays, Terminal
    <2>2. CASE q # t
      BY <1>5, <1>6, <2>2 DEF TaskMove, Stays
    <2>. QED
      BY <2>1, <2>2
  <1>8. Good(u, ses, up) /\ Moved(s, u)
    BY <1>6, <1>7, GoodMoves
  <1>. QED
    BY <1>6, <1>8 DEF u

\* What the pass over the files may make of a row.
LEMMA RowTypes ==
  ASSUME NEW e \in TaskRow, NEW who \in Authors
  PROVE  /\ Revised(e, who) \in TaskRow /\ Restored(e) \in TaskRow
         /\ Revised(e, who).run = None
         /\ Revised(e, who).status = "pending_approval"
         /\ Restored(e).run = e.run /\ Restored(e).rev = e.rev
         /\ \/ Restored(e).status = e.status /\ Restored(e).ok = e.ok
            \/ /\ e.status = "deleted" /\ Restored(e).status = "pending_approval"
  <1>1. /\ Revised(e, who) \in TaskRow /\ Revised(e, who).run = None
        /\ Revised(e, who).status = "pending_approval"
    <2>1. e.rev + 1 \in Nat
      BY DEF TaskRow
    <2>. DEFINE n == e.rev + 1
    <2>2. Revised(e, who) = [e EXCEPT !.status = "pending_approval", !.rev = n, !.ok = 0,
                                      !.run = None, !.by = who]
      BY DEF Revised
    <2>3. n \in Nat /\ 0 \in Nat /\ None = 0
      BY <2>1 DEF None
    <2>. HIDE DEF n
    <2>. QED
      BY <2>2, <2>3, Zenon DEF TaskRow, Statuses
  <1>2. /\ Restored(e) \in TaskRow
        /\ Restored(e).run = e.run /\ Restored(e).rev = e.rev
        /\ \/ Restored(e).status = e.status /\ Restored(e).ok = e.ok
           \/ /\ e.status = "deleted" /\ Restored(e).status = "pending_approval"
    BY DEF Restored, TaskRow, Statuses, Authors
  <1>. QED
    BY <1>1, <1>2

\* The row of a new task.
LEMMA NewTaskType ==
  ASSUME NEW who \in {"user", "file"}
  PROVE  /\ NewTask(who) \in TaskRow /\ NewTask(who).run = None
         /\ NewTask(who).status = "pending_approval"
  BY DEF NewTask, TaskRow, Statuses, Authors, None

\* The pass over the files leaves tasks with runs alone.
LEMMA ReadGood ==
  ASSUME NEW s, NEW ses, NEW up, Good(s, ses, up)
  PROVE  /\ Good(Read(s), ses, up) /\ Moved(s, Read(s))
         /\ Read(s).past.claims = s.past.claims /\ Read(s).rows = s.rows
  <1>. DEFINE New == {t \in Tasks : s.file[t] # "none" /\ s.task[t].status = "absent"}
              Edits == {t \in Tasks \ New : Applies(s, t)}
              Refused == {t \in Tasks : /\ s.file[t] = "edited"
                                        /\ Restored(s.task[t]).status \in Terminal}
              f == [t \in Tasks |->
                     IF s.file[t] = "none" THEN s.task[t]
                     ELSE IF t \in New THEN NewTask("file")
                     ELSE IF t \in Edits THEN Revised(Restored(s.task[t]), "file")
                     ELSE Restored(s.task[t])]
              g == [t \in Tasks |->
                     IF t \in New \cup Edits \cup Refused THEN "same" ELSE s.file[t]]
              X == s.past.filed \cup New \cup Edits
              u == Read(s)
  <1>1. s \in Store
    BY DEF Good
  <1>2. \A t \in Tasks : s.task[t] \in TaskRow
    BY <1>1, TaskTypes
  <1>3. \A t \in Tasks : /\ NewTask("file") \in TaskRow
                         /\ Restored(s.task[t]) \in TaskRow
                         /\ Revised(Restored(s.task[t]), "file") \in TaskRow
    BY <1>2, RowTypes, NewTaskType DEF Authors
  <1>4. f \in TaskTable
    BY <1>2, <1>3 DEF TaskTable
  <1>5. g \in FileTable
    BY <1>1, StoreTypes DEF FileTable
  <1>6. X \in SUBSET Tasks
    BY <1>1, PastTypes
  <1>7. u = [task |-> f, file |-> g, rows |-> s.rows, active |-> s.active,
             told |-> s.told, past |-> Refiled(s.past, X)]
    <2>1. u = [s EXCEPT !.task = f, !.file = g, !.past.filed = X]
      BY DEF Read
    <2>2. s = [task |-> s.task, file |-> s.file, rows |-> s.rows,
               active |-> s.active, told |-> s.told, past |-> s.past]
      BY <1>1, StoreFields
    <2>. HIDE DEF f, g, X, u
    <2>. QED
      BY <2>1, <2>2 DEF Refiled
  <1>8. \A t \in Tasks :
          \/ s.file[t] = "none" /\ f[t] = s.task[t] /\ g[t] = "none"
          \/ /\ s.file[t] # "none" /\ s.task[t].status = "absent"
             /\ f[t] = NewTask("file")
          \/ /\ s.file[t] # "none" /\ Applies(s, t)
             /\ f[t] = Revised(Restored(s.task[t]), "file")
          \/ s.file[t] # "none" /\ f[t] = Restored(s.task[t])
    <2>. TAKE t \in Tasks
    <2>1. CASE s.file[t] = "none"
      <3>1. t \notin New \cup Edits \cup Refused
        BY <2>1 DEF Applies
      <3>. QED
        BY <2>1, <3>1
    <2>2. CASE s.file[t] # "none" /\ t \in New
      BY <2>2
    <2>3. CASE s.file[t] # "none" /\ t \notin New /\ t \in Edits
      BY <2>3
    <2>4. CASE s.file[t] # "none" /\ t \notin New /\ t \notin Edits
      BY <2>4
    <2>. QED
      BY <2>1, <2>2, <2>3, <2>4
  <1>. HIDE DEF New, Edits, Refused, f, g, X, u
  <1>9. /\ u \in Store /\ u.task = f /\ u.file = g
        /\ u.rows = s.rows /\ u.active = s.active /\ u.told = s.told
        /\ u.past.overtaken = s.past.overtaken /\ u.past.torn = s.past.torn
        /\ u.past.claims = s.past.claims
    <2>1. s.past \in Past
      BY <1>1, StoreFields
    <2>2. /\ Refiled(s.past, X) \in Past
          /\ Refiled(s.past, X).overtaken = s.past.overtaken
          /\ Refiled(s.past, X).torn = s.past.torn
          /\ Refiled(s.past, X).claims = s.past.claims
      BY <1>6, <2>1, RefiledTypes
    <2>. QED
      BY <1>1, <1>4, <1>5, <1>7, <2>2, ChangeStore
  <1>10. ASSUME NEW t \in Tasks
         PROVE  TaskMove(s, u, t) /\ Stays(s, u, t)
    <2>. DEFINE e == s.task[t]
                b == Restored(e)
    <2>1. u.task[t] = f[t] /\ u.file[t] = g[t] /\ e \in TaskRow
      BY <1>2, <1>9
    <2>2. /\ b \in TaskRow /\ b.run = e.run /\ b.rev = e.rev
          /\ \/ b.status = e.status /\ b.ok = e.ok
             \/ e.status = "deleted" /\ b.status = "pending_approval"
      BY <2>1, RowTypes DEF Authors
    <2>3. e.status \in Terminal => e.run = None
      BY DEF Good, GoodTask, AtRest
    <2>4. CASE s.file[t] = "none" /\ f[t] = e /\ g[t] = "none"
      BY <2>1, <2>4 DEF TaskMove, Stays
    <2>5. CASE s.file[t] # "none" /\ e.status = "absent" /\ f[t] = NewTask("file")
      <3>1. f[t].run = None /\ f[t].status = "pending_approval"
        BY <2>5, NewTaskType
      <3>2. e.status = "absent" /\ u.task[t] = f[t]
        BY <2>1, <2>5
      <3>. HIDE DEF e
      <3>3. u.task[t].run = None /\ u.task[t].status = "pending_approval"
        BY <3>1, <3>2
      <3>. QED
        BY <3>2, <3>3 DEF TaskMove, Stays, Terminal, e
    <2>6. CASE s.file[t] # "none" /\ Applies(s, t) /\ f[t] = Revised(b, "file")
      <3>1. u.task[t].run = None /\ u.task[t].status = "pending_approval"
        BY <2>1, <2>2, <2>6, RowTypes DEF Authors
      <3>2. b.status \in Editable
        BY <2>6 DEF Applies
      <3>3. e.status # "in_progress" /\ (e.status \in Terminal => e.status = "deleted")
        BY <2>2, <3>2 DEF Editable, Terminal
      <3>. HIDE DEF e, b
      <3>. QED
        BY <2>6, <3>1, <3>3 DEF TaskMove, Stays, e
    <2>7. CASE s.file[t] # "none" /\ f[t] = b
      <3>1. u.task[t] = b
        BY <2>1, <2>7
      <3>2. CASE b.status = e.status /\ b.ok = e.ok
        <4>. HIDE DEF b
        <4>. QED
          BY <2>2, <2>7, <3>1, <3>2 DEF TaskMove, Stays
      <3>3. CASE e.status = "deleted" /\ b.status = "pending_approval"
        <4>1. e.run = None
          BY <2>3, <3>3 DEF Terminal
        <4>. HIDE DEF b
        <4>. QED
          BY <2>2, <2>7, <3>1, <3>3, <4>1 DEF TaskMove, Stays
      <3>. QED
        BY <2>2, <3>2, <3>3
    <2>. QED
      BY <1>8, <2>4, <2>5, <2>6, <2>7
  <1>11. Good(u, ses, up) /\ Moved(s, u)
    BY <1>9, <1>10, GoodMoves
  <1>. QED
    BY <1>9, <1>11 DEF u

\* The rest of a reconciliation, from a listing.
LEMMA ShelvedGood ==
  ASSUME NEW s, NEW seen, NEW ses, NEW up, Good(s, ses, up), Current(s, seen),
         \A t \in DOMAIN seen :
           seen[t].status = "in_progress" => s.task[t].status # "in_progress"
  PROVE  /\ Good(Shelved(s, seen), ses, up) /\ Moved(s, Shelved(s, seen))
         /\ Shelved(s, seen).past.claims = s.past.claims
         /\ Shelved(s, seen).rows = s.rows
         /\ \A t \in Tasks \ DOMAIN seen : Shelved(s, seen).task[t] = s.task[t]
  <1>. DEFINE st(t) == IF seen[t].status \in Terminal THEN seen[t].status ELSE "deleted"
              f == [t \in Tasks |->
                     IF t \notin DOMAIN seen THEN s.task[t]
                     ELSE [s.task[t] EXCEPT !.status = st(t), !.ok = 0, !.run = None,
                                            !.by = "file", !.archived = TRUE]]
              X == s.past.overtaken \cup
                     {t \in DOMAIN seen : s.task[t].status \notin {seen[t].status, "deleted"}}
              u == Shelved(s, seen)
  <1>1. s \in Store
    BY DEF Good
  <1>2. \A t \in Tasks : s.task[t] \in TaskRow
    BY <1>1, TaskTypes
  <1>3. \A t : st(t) \in Terminal
    BY DEF Terminal
  <1>4. u = [task |-> f, file |-> s.file, rows |-> s.rows, active |-> s.active,
             told |-> s.told, past |-> [s.past EXCEPT !.overtaken = X]]
    <2>1. u = [s EXCEPT !.task = f, !.past.overtaken = X]
      BY DEF Shelved
    <2>2. s = [task |-> s.task, file |-> s.file, rows |-> s.rows,
               active |-> s.active, told |-> s.told, past |-> s.past]
      BY <1>1, StoreFields
    <2>. HIDE DEF f, X, u
    <2>. QED
      BY <2>1, <2>2
  <1>5. \A t : /\ seen[t].status \in Terminal => st(t) = seen[t].status
               /\ seen[t].status \notin Terminal => st(t) = "deleted"
    OBVIOUS
  <1>. HIDE DEF st
  <1>6. \A t \in Tasks : t \in DOMAIN seen =>
          /\ f[t] \in TaskRow /\ f[t].run = None /\ f[t].status = st(t)
          /\ f[t].rev = s.task[t].rev
    <2>. TAKE t \in Tasks
    <2>1. st(t) \in Statuses
      BY <1>3 DEF Terminal, Statuses
    <2>. QED
      BY <1>2, <2>1 DEF TaskRow, Authors, None
  <1>7. \A t \in Tasks : t \notin DOMAIN seen => f[t] = s.task[t]
    OBVIOUS
  <1>8. f \in TaskTable
    <2>1. \A t \in Tasks : f[t] \in TaskRow
      BY <1>2, <1>6, <1>7
    <2>. QED
      BY <2>1 DEF TaskTable
  <1>9. X \in SUBSET Tasks
    BY <1>1, PastTypes DEF Current, IsListing
  <1>10. /\ s.past.overtaken \subseteq X
         /\ \A t \in DOMAIN seen :
              t \notin X => s.task[t].status \in {seen[t].status, "deleted"}
    OBVIOUS
  <1>. HIDE DEF f, X, u
  <1>11. /\ u \in Store /\ u.task = f /\ u.file = s.file
         /\ u.rows = s.rows /\ u.active = s.active /\ u.told = s.told
         /\ u.past.overtaken = X /\ u.past.torn = s.past.torn
         /\ u.past.claims = s.past.claims
    BY <1>1, <1>4, <1>8, <1>9, ChangeOvertaken
  <1>12. ASSUME NEW t \in Tasks
         PROVE  TaskMove(s, u, t) /\ Stays(s, u, t)
    <2>1. CASE t \notin DOMAIN seen
      <3>1. u.task[t] = s.task[t]
        BY <1>7, <1>11, <2>1
      <3>. QED
        BY <1>11, <3>1 DEF TaskMove, Stays
    <2>2. CASE t \in DOMAIN seen
      <3>1. /\ u.task[t].run = None /\ u.task[t].status = st(t)
            /\ u.task[t].rev = s.task[t].rev /\ st(t) \in Terminal
            /\ u.file[t] = s.file[t]
        BY <1>3, <1>6, <1>11, <2>2
      <3>2. t \notin X => s.task[t].status \in {seen[t].status, "deleted"}
        BY <1>10, <2>2
      <3>3. seen[t].status = "in_progress" => s.task[t].status # "in_progress"
        BY <2>2
      <3>4. seen[t].status \in Terminal =>
              seen[t].status = "deleted" \/ s.task[t].status = seen[t].status \/ t \in X
        BY <1>10, <2>2 DEF Current
      <3>5. TaskMove(s, u, t)
        <4>1. st(t) # "in_progress"
          BY <3>1 DEF Terminal
        <4>2. s.task[t].status = "in_progress" => t \in X
          BY <3>2, <3>3
        <4>3. st(t) = "completed" => t \in X \/ s.task[t].status = "completed"
          BY <1>5, <3>4
        <4>. QED
          BY <1>11, <3>1, <4>1, <4>2, <4>3 DEF TaskMove
      <3>6. Stays(s, u, t)
        <4>1. t \notin X /\ s.task[t].status \in Terminal => st(t) = s.task[t].status
          BY <1>5, <3>2, <3>4
        <4>. QED
          BY <1>11, <3>1, <4>1 DEF Stays
      <3>. QED
        BY <3>5, <3>6
    <2>. QED
      BY <2>1, <2>2
  <1>13. Good(u, ses, up) /\ Moved(s, u)
    BY <1>10, <1>11, <1>12, GoodMoves
  <1>. QED
    BY <1>7, <1>11, <1>13 DEF u

-----------------------------------------------------------------------------
(* The operators on one task and its runs *)

\* What a stretch of code leaves alone that concerns one task.
Elsewhere(s, u, ses, ses2, t) ==
  \A q \in Tasks : q # t =>
    /\ u.task[q] = s.task[q] /\ u.active[q] = s.active[q] /\ Of(u, q) = Of(s, q)
    /\ \A r \in Of(s, q) : /\ u.rows[r] = s.rows[r] /\ ses2[r] = ses[r]
                           /\ r \in s.told => r \in u.told

\* A stretch that leaves the other tasks alone keeps their part of the
\* invariant.
LEMMA OneTask ==
  ASSUME NEW s, NEW u \in Store, NEW ses, NEW ses2, NEW up, NEW t \in Tasks,
         Good(s, ses, up), Len(u.rows) <= MaxRuns,
         s.past.overtaken \subseteq u.past.overtaken, s.past.torn \subseteq u.past.torn,
         Elsewhere(s, u, ses, ses2, t), GoodTask(u, ses2, up, t)
  PROVE  Good(u, ses2, up)
  <1>1. ASSUME NEW q \in Tasks, q # t
        PROVE  GoodTask(u, ses2, up, q)
    <2>1. GoodTask(s, ses, up, q)
      BY DEF Good
    <2>. QED
      BY <1>1, <2>1, Untouched DEF Elsewhere
  <1>. QED
    BY <1>1 DEF Good

\* ... and does not touch its file.
LEMMA OneMoved ==
  ASSUME NEW s, NEW u, NEW t \in Tasks, u.file = s.file, Stays(s, u, t),
         s.past.overtaken \subseteq u.past.overtaken,
         \A q \in Tasks : q # t => u.task[q] = s.task[q]
  PROVE  Moved(s, u)
  BY DEF Moved, Stays

\* updateRun
LEMMA EndRunFacts ==
  ASSUME NEW s \in Store, NEW r, r = None \/ r \in DOMAIN s.rows,
         NEW status \in TERMINAL_RUN_STATUSES
  PROVE  LET u == EndRun(s, r, status)
         IN  /\ u \in Store /\ u.task = s.task /\ u.file = s.file /\ u.active = s.active
             /\ u.told = s.told /\ u.past = s.past
             /\ Len(u.rows) = Len(s.rows) /\ DOMAIN u.rows = DOMAIN s.rows
             /\ \A q \in DOMAIN s.rows :
                  /\ u.rows[q].task = s.rows[q].task /\ u.rows[q].rev = s.rows[q].rev
                  /\ q # r \/ Ended(s, r) => u.rows[q] = s.rows[q]
                  /\ q = r => Ended(u, q)
                  /\ q = r /\ ~ Ended(s, r) => u.rows[q].status = status
             /\ \A t : Of(u, t) = Of(s, t)
  <1>. DEFINE u == EndRun(s, r, status)
  <1>1. CASE r = None \/ Ended(s, r)
    <2>1. u = s
      BY <1>1 DEF EndRun
    <2>2. None \notin DOMAIN s.rows
      BY StoreTypes DEF None
    <2>. HIDE DEF u
    <2>3. QED
      BY <1>1, <2>1, <2>2 DEF u
  <1>2. CASE ~ (r = None \/ Ended(s, r))
    <2>. DEFINE row == [s.rows[r] EXCEPT !.status = status]
                h == [s.rows EXCEPT ![r] = row]
    <2>1. s.rows[r] \in RunRow /\ r \in DOMAIN s.rows
      BY <1>2, StoreTypes
    <2>2. /\ row \in RunRow /\ row.status = status /\ row.task = s.rows[r].task
          /\ row.rev = s.rows[r].rev
      BY <2>1 DEF RunRow
    <2>3. u = [task |-> s.task, file |-> s.file, rows |-> h, active |-> s.active,
               told |-> s.told, past |-> s.past]
      <3>1. u = [s EXCEPT !.rows = h]
        BY <1>2 DEF EndRun
      <3>2. s = [task |-> s.task, file |-> s.file, rows |-> s.rows,
                 active |-> s.active, told |-> s.told, past |-> s.past]
        BY StoreFields
      <3>. HIDE DEF h, u
      <3>. QED
        BY <3>1, <3>2
    <2>. HIDE DEF row
    <2>4. /\ h \in Seq(RunRow) /\ Len(h) = Len(s.rows) /\ DOMAIN h = DOMAIN s.rows
          /\ \A q \in DOMAIN s.rows : h[q] = IF q = r THEN row ELSE s.rows[q]
      BY <2>1, <2>2, StoreTypes
    <2>. HIDE DEF h
    <2>5. u \in Store
      BY <2>3, <2>4, StoreFields DEF Store, RunTable
    <2>6. /\ u.task = s.task /\ u.file = s.file /\ u.active = s.active
          /\ u.told = s.told /\ u.past = s.past /\ u.rows = h
      BY <2>3
    <2>. HIDE DEF u
    <2>7. \A q \in DOMAIN s.rows :
            /\ u.rows[q].task = s.rows[q].task /\ u.rows[q].rev = s.rows[q].rev
            /\ q # r => u.rows[q] = s.rows[q]
            /\ q = r => u.rows[q].status = status
      BY <2>2, <2>4, <2>6
    <2>8. \A t : Of(u, t) = Of(s, t)
      BY <2>4, <2>6, <2>7 DEF Of
    <2>. QED
      BY <1>2, <2>4, <2>5, <2>6, <2>7, <2>8 DEF u, Ended
  <1>. QED
    BY <1>1, <1>2

\* The row of a task that is cancelled.
Dropped(e, status, who) ==
  [e EXCEPT !.status = status, !.ok = 0, !.run = None, !.by = who]

\* It is a row that names no run, of the same revision.
LEMMA DroppedTypes ==
  ASSUME NEW e \in TaskRow, NEW status \in Statuses, NEW who \in Authors
  PROVE  /\ Dropped(e, status, who) \in TaskRow /\ Dropped(e, status, who).run = None
         /\ Dropped(e, status, who).status = status
         /\ Dropped(e, status, who).rev = e.rev
  <1>1. 0 \in Nat /\ None = 0
    BY DEF None
  <1>. QED
    BY <1>1, Zenon DEF Dropped, TaskRow

\* cancelTask, field by field.
LEMMA CancelledFacts ==
  ASSUME NEW s \in Store, NEW t \in Tasks, NEW status \in Statuses, NEW who \in Authors,
         s.task[t].run = None \/ s.task[t].run \in DOMAIN s.rows,
         DOMAIN s.rows \subseteq RunIds
  PROVE  LET u == Cancelled(s, t, status, who)
             r == s.task[t].run
             w == EndRun(s, r, "cancelled")
         IN  /\ u \in Store /\ u.file = s.file /\ u.rows = w.rows /\ u.past = s.past
             /\ u.task[t] = Dropped(s.task[t], status, who) /\ u.active[t] = None
             /\ s.told \subseteq u.told
             /\ r # None /\ session[r] = "working" => r \in u.told
             /\ \A q \in Tasks : q # t =>
                  u.task[q] = s.task[q] /\ u.active[q] = s.active[q]
  <1>. DEFINE r == s.task[t].run
              w == EndRun(s, r, "cancelled")
              T == {q \in {r} : q # None /\ session[q] = "working"}
              e == Dropped(s.task[t], status, who)
              x == s.told \cup T
              u == Cancelled(s, t, status, who)
  <1>1. /\ w \in Store /\ w.task = s.task /\ w.file = s.file /\ w.active = s.active
        /\ w.told = s.told /\ w.past = s.past
    BY EndRunFacts DEF TERMINAL_RUN_STATUSES
  <1>2. u = [w EXCEPT !.active[t] = None,
                      !.task[t] = [@ EXCEPT !.status = status, !.ok = 0, !.run = None,
                                            !.by = who],
                      !.told = @ \cup T]
    BY DEF Cancelled
  <1>3. w = [task |-> w.task, file |-> w.file, rows |-> w.rows,
             active |-> w.active, told |-> w.told, past |-> w.past]
    BY <1>1, StoreFields
  <1>4. x \in RunSets /\ None \in Nat
    BY StoreTypes DEF RunSets, None
  <1>5. e \in TaskRow
    BY TaskTypes, DroppedTypes
  <1>6. s.told \subseteq x /\ (r # None /\ session[r] = "working" => r \in x)
    OBVIOUS
  <1>. HIDE DEF T, w, u, r
  <1>7. u = Put(w, t, Dropped(w.task[t], status, who), None, w.told \cup T)
    BY <1>2, <1>3 DEF Dropped, Put, WithTold, WithTask, WithActive
  <1>8. u = Put(w, t, e, None, x)
    BY <1>1, <1>7
  <1>. HIDE DEF x, e
  <1>9. /\ u \in Store /\ u.file = w.file /\ u.rows = w.rows /\ u.past = w.past
        /\ u.task[t] = e /\ u.active[t] = None /\ u.told = x
        /\ \A q \in Tasks : q # t => u.task[q] = w.task[q] /\ u.active[q] = w.active[q]
    BY <1>1, <1>4, <1>5, <1>8, PutFacts
  <1>. QED
    BY <1>1, <1>6, <1>9 DEF u, r, w, e

\* What becomes of one task when its run r ends, or its session does.
Closes(s, u, ses, ses2, t, r) ==
  /\ r = None \/ r \in Of(s, t)
  /\ DOMAIN u.rows = DOMAIN s.rows /\ Len(u.rows) = Len(s.rows)
  /\ \A q \in DOMAIN s.rows :
       /\ u.rows[q].task = s.rows[q].task /\ u.rows[q].rev = s.rows[q].rev
       /\ q # r \/ Ended(s, q) => u.rows[q] = s.rows[q]
       /\ q # r => ses2[q] = ses[q] /\ (q \in s.told => q \in u.told)
  /\ r # None =>
       /\ \/ Ended(u, r)
          \/ t \in s.past.overtaken /\ u.rows[r] = s.rows[r] /\ ses2[r] = "over"
       /\ ses2[r] = "working" => r \in u.told
  /\ u.active[t] \in {None, s.active[t]} /\ u.past = s.past
  /\ \A q \in Tasks : q # t => u.task[q] = s.task[q] /\ u.active[q] = s.active[q]

\* Its row stays, and is not backed by r ...
Keeps(s, u, t, r) ==
  /\ u.task[t] = s.task[t]
  /\ \/ s.task[t].status # "in_progress" \/ s.task[t].run # r
     \/ s.rows[r].status # "running" \/ u.rows[r] = s.rows[r]

\* ... or it gives r up.
Yields(s, u, t, r) ==
  LET e == s.task[t]
      f == u.task[t]
  IN  /\ f.run = None /\ f.rev = e.rev /\ f.status # "in_progress"
      /\ e.run = r \/ t \in s.past.overtaken
      /\ f.status = "completed" =>
           \/ t \in s.past.overtaken
           \/ r # None /\ u.rows[r].status = "completed" /\ u.rows[r].rev = f.rev

\* The end of a run keeps its task's part of the invariant.
LEMMA CloseTask ==
  ASSUME NEW s, NEW u, NEW ses, NEW ses2, NEW up, NEW t, NEW r,
         None \notin DOMAIN s.rows,
         GoodTask(s, ses, up, t), Closes(s, u, ses, ses2, t, r),
         Keeps(s, u, t, r) \/ Yields(s, u, t, r)
  PROVE  GoodTask(u, ses2, up, t)
  <1>1. /\ Of(u, t) = Of(s, t) /\ Of(s, t) \subseteq DOMAIN s.rows
        /\ \A q \in Of(s, t) : q # None
    BY DEF Of, Closes
  <1>2. \A q \in Of(s, t) :
          /\ Ended(s, q) => Ended(u, q) /\ u.rows[q] = s.rows[q]
          /\ q # r => /\ u.rows[q] = s.rows[q] /\ ses2[q] = ses[q]
                      /\ q \in s.told => q \in u.told
          /\ u.rows[q].rev = s.rows[q].rev
    BY <1>1 DEF Closes, Ended
  <1>3. r \in Of(s, t) =>
          /\ \/ Ended(u, r)
             \/ t \in s.past.overtaken /\ u.rows[r] = s.rows[r] /\ ses2[r] = "over"
          /\ ses2[r] = "working" => r \in u.told
    BY <1>1 DEF Closes
  <1>4. u.past = s.past /\ u.active[t] \in {None, s.active[t]}
    BY DEF Closes
  <1>5. Referenced(u, t)
    BY <1>1, <1>4 DEF GoodTask, Referenced, Keeps, Yields
  <1>6. AtRest(u, t)
    BY DEF GoodTask, AtRest, Keeps, Yields
  <1>7. OneOpen(u, t)
    BY <1>1, <1>2 DEF GoodTask, OneOpen
  <1>8. Pledged(u, t)
    <2>1. CASE Yields(s, u, t, r)
      BY <2>1 DEF Yields, Pledged
    <2>2. CASE Keeps(s, u, t, r)
      <3>1. SUFFICES ASSUME s.task[t].run # None, ~ Ended(u, s.task[t].run)
                     PROVE  /\ u.rows[s.task[t].run].rev = s.task[t].rev
                            /\ s.task[t].ok = s.task[t].rev
        BY <2>2 DEF Keeps, Pledged
      <3>2. s.task[t].run \in Of(s, t)
        BY <3>1 DEF GoodTask, Referenced
      <3>3. ~ Ended(s, s.task[t].run)
        BY <1>2, <3>1, <3>2
      <3>. QED
        BY <1>2, <3>1, <3>2, <3>3 DEF GoodTask, Pledged
    <2>. QED
      BY <2>1, <2>2
  <1>9. Linked(u, ses2, t)
    <2>1. SUFFICES ASSUME NEW q \in Of(s, t), ses2[q] = "working",
                          t \notin s.past.overtaken, q \notin u.told \/ ~ Ended(u, q)
                   PROVE  /\ u.task[t].status = "in_progress" /\ u.task[t].run = q
                          /\ u.rows[q].status = "running"
                          /\ u.rows[q].rev = u.task[t].rev /\ u.task[t].ok = u.task[t].rev
      BY <1>1, <1>4 DEF Linked
    <2>2. q # r
      BY <1>3, <2>1
    <2>3. u.rows[q] = s.rows[q] /\ ses[q] = "working" /\ (q \notin s.told \/ ~ Ended(s, q))
      BY <1>2, <2>1, <2>2
    <2>4. /\ s.task[t].status = "in_progress" /\ s.task[t].run = q
          /\ s.rows[q].status = "running"
          /\ s.rows[q].rev = s.task[t].rev /\ s.task[t].ok = s.task[t].rev
      BY <2>1, <2>3 DEF GoodTask, Linked
    <2>. QED
      BY <2>1, <2>2, <2>3, <2>4 DEF Keeps, Yields
  <1>10. Unstarted(u, ses2, t)
    <2>1. SUFFICES ASSUME NEW q \in Of(s, t), ses2[q] = "starting"
                   PROVE  u.rows[q].status # "running"
      BY <1>1 DEF Unstarted
    <2>2. CASE q = r
      BY <1>3, <2>1, <2>2 DEF Ended, TERMINAL_RUN_STATUSES
    <2>3. CASE q # r
      BY <1>2, <2>1, <2>3 DEF GoodTask, Unstarted
    <2>. QED
      BY <2>2, <2>3
  <1>11. Housed(u, ses2, up, t)
    <2>1. \A q \in Of(s, t) : q # r =>
            u.rows[q] = s.rows[q] /\ ses2[q] = ses[q] /\ (Ended(s, q) => Ended(u, q))
      BY <1>2
    <2>. QED
      BY <1>1, <1>3, <1>4, <2>1 DEF GoodTask, Housed
  <1>12. Backed(u, t)
    <2>1. CASE Yields(s, u, t, r)
      BY <2>1 DEF Yields, Backed
    <2>2. CASE Keeps(s, u, t, r)
      <3>1. SUFFICES ASSUME t \notin s.past.torn, s.task[t].status = "in_progress"
                     PROVE  /\ s.task[t].run # None
                            /\ u.rows[s.task[t].run].status = "running"
        BY <1>4, <2>2 DEF Keeps, Backed
      <3>2. s.task[t].run # None /\ s.rows[s.task[t].run].status = "running"
        BY <3>1 DEF GoodTask, Backed
      <3>3. s.task[t].run \in Of(s, t)
        BY <3>2 DEF GoodTask, Referenced
      <3>4. u.rows[s.task[t].run] = s.rows[s.task[t].run]
        BY <1>2, <2>2, <3>1, <3>2, <3>3 DEF Keeps
      <3>. QED
        BY <3>2, <3>4
    <2>. QED
      BY <2>1, <2>2
  <1>13. Done(u, t)
    <2>1. CASE Yields(s, u, t, r)
      <3>1. r # None => r \in Of(s, t)
        BY DEF Closes
      <3>. QED
        BY <1>1, <1>4, <2>1, <3>1 DEF Yields, Done
    <2>2. CASE Keeps(s, u, t, r)
      <3>1. \A q \in Of(s, t) : s.rows[q].status = "completed" => u.rows[q] = s.rows[q]
        BY <1>2 DEF Ended, TERMINAL_RUN_STATUSES
      <3>. QED
        BY <1>1, <1>4, <2>2, <3>1 DEF Keeps, GoodTask, Done
    <2>. QED
      BY <2>1, <2>2
  <1>. QED
    BY <1>5, <1>6, <1>7, <1>8, <1>9, <1>10, <1>11, <1>12, <1>13 DEF GoodTask

\* ... and, as the other tasks are left alone, all of it.
LEMMA CloseGood ==
  ASSUME NEW s, NEW u \in Store, NEW ses, NEW ses2, NEW up, NEW t \in Tasks, NEW r,
         Good(s, ses, up), Closes(s, u, ses, ses2, t, r),
         Keeps(s, u, t, r) \/ Yields(s, u, t, r)
  PROVE  Good(u, ses2, up)
  <1>1. s \in Store /\ None \notin DOMAIN s.rows
    BY StoreTypes DEF Good, None
  <1>2. GoodTask(u, ses2, up, t)
    BY <1>1, CloseTask DEF Good
  <1>3. \A q : Of(u, q) = Of(s, q)
    BY DEF Of, Closes
  <1>4. Elsewhere(s, u, ses, ses2, t)
    <2>1. SUFFICES ASSUME NEW q \in Tasks, q # t
          PROVE  /\ u.task[q] = s.task[q] /\ u.active[q] = s.active[q]
                 /\ Of(u, q) = Of(s, q)
                 /\ \A p \in Of(s, q) : /\ u.rows[p] = s.rows[p] /\ ses2[p] = ses[p]
                                        /\ p \in s.told => p \in u.told
      BY DEF Elsewhere
    <2>2. \A p \in Of(s, q) : p # r /\ p \in DOMAIN s.rows
      BY <1>1, <2>1 DEF Of, Closes
    <2>. QED
      BY <1>3, <2>1, <2>2 DEF Closes
  <1>5. /\ Len(u.rows) <= MaxRuns
        /\ s.past.overtaken \subseteq u.past.overtaken /\ s.past.torn \subseteq u.past.torn
    BY DEF Closes, Good
  <1>. QED
    BY <1>2, <1>4, <1>5, OneTask

\* The session of r, and of no other run, has come to its end.
OverAt(ses, ses2, r) ==
  ses2[r] = "over" /\ \A q \in RunIds : q # r => ses2[q] = ses[q]

\* There are no more runs than the bound allows.
LEMMA RowsBounded ==
  ASSUME NEW s, NEW ses, NEW up, Good(s, ses, up)
  PROVE  DOMAIN s.rows \subseteq RunIds
  <1>1. Len(s.rows) \in Nat /\ DOMAIN s.rows = 1..Len(s.rows) /\ Len(s.rows) <= MaxRuns
    BY StoreTypes DEF Good
  <1>. QED
    BY <1>1, BoundsAssumption DEF RunIds

\* The end of an entry of activeRuns.
Cleared(s, t) == WithActive(s, [s.active EXCEPT ![t] = None])

\* Deleting an entry of activeRuns changes nothing else.
LEMMA ClearedFacts ==
  ASSUME NEW s \in Store, NEW t \in Tasks
  PROVE  LET u == Cleared(s, t)
         IN  /\ u \in Store /\ u.task = s.task /\ u.file = s.file /\ u.rows = s.rows
             /\ u.told = s.told /\ u.past = s.past /\ u.active[t] = None
             /\ \A q \in Tasks : q # t => u.active[q] = s.active[q]
  <1>. DEFINE g == [s.active EXCEPT ![t] = None]
              u == Cleared(s, t)
  <1>1. /\ g \in Entries /\ g[t] = None
        /\ \A q \in Tasks : q # t => g[q] = s.active[q]
    BY StoreTypes DEF Entries, None
  <1>2. u = WithActive(s, g)
    BY DEF Cleared
  <1>. HIDE DEF g, u
  <1>3. /\ u \in Store /\ u.task = s.task /\ u.file = s.file /\ u.rows = s.rows
        /\ u.told = s.told /\ u.past = s.past /\ u.active = g
    BY <1>1, <1>2, WithActiveFacts
  <1>. QED
    BY <1>1, <1>3 DEF u

\* The end of run r, before anything becomes of its task.
LEMMA EndRunCloses ==
  ASSUME NEW s \in Store, NEW u, NEW ses, NEW ses2, NEW t \in Tasks, NEW r \in Of(s, t),
         NEW status \in TERMINAL_RUN_STATUSES, OverAt(ses, ses2, r),
         DOMAIN s.rows \subseteq RunIds, u.rows = EndRun(s, r, status).rows, u.told = s.told, u.past = s.past,
         u.active[t] \in {None, s.active[t]},
         \A q \in Tasks : q # t => u.task[q] = s.task[q] /\ u.active[q] = s.active[q]
  PROVE  /\ Closes(s, u, ses, ses2, t, r) /\ Ended(u, r)
         /\ ~ Ended(s, r) => u.rows[r].status = status
         /\ u.rows[r].rev = s.rows[r].rev
  <1>. DEFINE w == EndRun(s, r, status)
  <1>1. r \in DOMAIN s.rows
    BY NoneIsNoRun
  <1>2. /\ Len(w.rows) = Len(s.rows) /\ DOMAIN w.rows = DOMAIN s.rows
        /\ \A q \in DOMAIN s.rows :
             /\ w.rows[q].task = s.rows[q].task /\ w.rows[q].rev = s.rows[q].rev
             /\ q # r \/ Ended(s, r) => w.rows[q] = s.rows[q]
             /\ q = r => Ended(w, q)
             /\ q = r /\ ~ Ended(s, r) => w.rows[q].status = status
    BY <1>1, EndRunFacts
  <1>. HIDE DEF w
  <1>3. u.rows = w.rows
    BY DEF w
  <1>4. Ended(u, r) /\ u.rows[r].rev = s.rows[r].rev
    BY <1>1, <1>2, <1>3 DEF Ended
  <1>5. \A q \in DOMAIN s.rows :
          /\ u.rows[q].task = s.rows[q].task /\ u.rows[q].rev = s.rows[q].rev
          /\ q # r \/ Ended(s, q) => u.rows[q] = s.rows[q]
          /\ q # r => ses2[q] = ses[q] /\ (q \in s.told => q \in u.told)
    BY <1>2, <1>3 DEF OverAt
  <1>6. ses2[r] = "over"
    BY DEF OverAt
  <1>7. Closes(s, u, ses, ses2, t, r)
    BY <1>2, <1>3, <1>4, <1>5, <1>6 DEF Closes
  <1>. QED
    BY <1>1, <1>2, <1>3, <1>4, <1>7

\* finishRunFailure
LEMMA FailedGood ==
  ASSUME NEW s, NEW ses, NEW ses2, NEW up, NEW r \in DOMAIN s.rows, Good(s, ses, up),
         OverAt(ses, ses2, r)
  PROVE  LET u == Failed(s, r)
         IN  /\ Good(u, ses2, up) /\ Moved(s, u) /\ u.past = s.past
             /\ DOMAIN u.rows = DOMAIN s.rows /\ Ended(u, r)
             /\ u.rows[r].task = s.rows[r].task
  <1>. DEFINE t == s.rows[r].task
              u == Failed(s, r)
              w == EndRun(s, r, "failed")
              e == [s.task[t] EXCEPT !.status = "failed", !.run = None, !.by = "hub"]
  <1>1. s \in Store /\ t \in Tasks /\ r \in Of(s, t) /\ r # None
    BY StoreTypes DEF Good, Of, RunRow, None
  <1>2. /\ w \in Store /\ w.task = s.task /\ w.file = s.file /\ w.active = s.active
        /\ w.told = s.told /\ w.past = s.past
    BY <1>1, EndRunFacts DEF TERMINAL_RUN_STATUSES
  <1>3. s.task[t] \in TaskRow /\ AtRest(s, t)
    BY <1>1, TaskTypes DEF Good, GoodTask
  <1>4. SUFFICES /\ u \in Store /\ u.file = s.file
                 /\ Closes(s, u, ses, ses2, t, r) /\ Ended(u, r)
                 /\ \/ Keeps(s, u, t, r)
                    \/ Yields(s, u, t, r) /\ s.task[t].run = r
    <2>1. Good(u, ses2, up)
      BY <1>1, <1>4, CloseGood
    <2>2. Stays(s, u, t)
      BY <1>1, <1>3, <1>4 DEF Stays, Keeps, AtRest
    <2>3. u.past = s.past /\ \A q \in Tasks : q # t => u.task[q] = s.task[q]
      BY <1>4 DEF Closes
    <2>4. Moved(s, u)
      BY <1>1, <1>4, <2>2, <2>3, OneMoved
    <2>5. DOMAIN u.rows = DOMAIN s.rows /\ u.rows[r].task = s.rows[r].task
      BY <1>4 DEF Closes
    <2>. QED
      BY <1>4, <2>1, <2>3, <2>4, <2>5
  <1>5. "failed" \in TERMINAL_RUN_STATUSES
    BY DEF TERMINAL_RUN_STATUSES
  <1>. HIDE DEF w
  <1>6. CASE Ended(s, r) \/ s.task[t].status \in {"cancelled", "deleted"}
    <2>1. u = w
      BY <1>6 DEF Failed, EndRun, w
    <2>2. Closes(s, u, ses, ses2, t, r) /\ Ended(u, r)
      BY <1>1, <1>2, <1>5, <2>1, EndRunCloses, RowsBounded DEF w
    <2>3. Ended(s, r) => s.rows[r].status # "running"
      BY DEF Ended, TERMINAL_RUN_STATUSES
    <2>4. Keeps(s, u, t, r)
      BY <1>2, <1>6, <2>1, <2>3 DEF Keeps
    <2>5. u \in Store /\ u.file = s.file
      BY <1>2, <2>1
    <2>. HIDE DEF t, u
    <2>. QED
      BY <2>2, <2>4, <2>5
  <1>7. CASE ~ Ended(s, r) /\ s.task[t].status \notin {"cancelled", "deleted"}
             /\ s.task[t].run # r
    <2>1. u = Cleared(w, t)
      BY <1>7 DEF Failed, Cleared, WithActive, w
    <2>2. /\ u \in Store /\ u.task = s.task /\ u.file = s.file /\ u.rows = w.rows
          /\ u.told = s.told /\ u.past = s.past /\ u.active[t] = None
          /\ \A q \in Tasks : q # t => u.active[q] = s.active[q]
      BY <1>1, <1>2, <2>1, ClearedFacts
    <2>. HIDE DEF u
    <2>3. Closes(s, u, ses, ses2, t, r) /\ Ended(u, r)
      BY <1>1, <1>5, <2>2, EndRunCloses, RowsBounded DEF w
    <2>4. Keeps(s, u, t, r)
      BY <1>7, <2>2 DEF Keeps
    <2>. HIDE DEF t
    <2>. QED
      BY <2>2, <2>3, <2>4
  <1>8. CASE ~ Ended(s, r) /\ s.task[t].status \notin {"cancelled", "deleted"}
             /\ s.task[t].run = r
    <2>1. /\ e \in TaskRow /\ e.run = None /\ e.status = "failed"
          /\ e.rev = s.task[t].rev
      <3>1. None \in Nat
        BY DEF None
      <3>. QED
        BY <1>3, <3>1, Zenon DEF TaskRow, Statuses, Authors
    <2>. HIDE DEF t
    <2>2. u = Put(w, t, e, None, w.told)
      <3>1. w = [task |-> w.task, file |-> w.file, rows |-> w.rows,
                 active |-> w.active, told |-> w.told, past |-> w.past]
        BY <1>2, StoreFields
      <3>2. u = [w EXCEPT !.active[t] = None,
                   !.task[t] = [@ EXCEPT !.status = "failed", !.run = None, !.by = "hub"]]
        BY <1>8 DEF Failed, w, t
      <3>3. e = [w.task[t] EXCEPT !.status = "failed", !.run = None, !.by = "hub"]
        BY <1>2
      <3>4. w = WithTold(w, w.told)
        BY <3>1 DEF WithTold
      <3>. HIDE DEF u
      <3>. QED
        BY <3>1, <3>2, <3>3 DEF Put, WithTold, WithTask, WithActive
    <2>3. w.told \in RunSets /\ None \in Nat
      BY <1>2, StoreFields DEF None
    <2>. HIDE DEF e, u
    <2>4. /\ u \in Store /\ u.file = s.file /\ u.rows = w.rows /\ u.past = s.past
          /\ u.task[t] = e /\ u.active[t] = None /\ u.told = s.told
          /\ \A q \in Tasks : q # t => u.task[q] = s.task[q] /\ u.active[q] = s.active[q]
      BY <1>1, <1>2, <2>1, <2>2, <2>3, PutFacts
    <2>5. Closes(s, u, ses, ses2, t, r) /\ Ended(u, r)
      BY <1>1, <1>5, <2>4, EndRunCloses, RowsBounded DEF w
    <2>6. Yields(s, u, t, r)
      BY <1>8, <2>1, <2>4 DEF Yields
    <2>. QED
      BY <1>8, <2>4, <2>5, <2>6
  <1>. QED
    BY <1>6, <1>7, <1>8

\* The end of a session whose run has ended, or whose task was overtaken.
LEMMA SessionOver ==
  ASSUME NEW s, NEW ses, NEW ses2, NEW up, NEW t \in Tasks, NEW r \in Of(s, t),
         Good(s, ses, up), OverAt(ses, ses2, r), Ended(s, r) \/ t \in s.past.overtaken,
         NEW u, u \in Store, u.task = s.task, u.file = s.file, u.rows = s.rows,
         u.past = s.past, u.active[t] \in {None, s.active[t]},
         \A q \in Tasks : q # t => u.active[q] = s.active[q],
         \A q \in DOMAIN s.rows : q # r /\ q \in s.told => q \in u.told
  PROVE  Good(u, ses2, up) /\ Moved(s, u)
  <1>1. s \in Store /\ r # None /\ r \in DOMAIN s.rows
    BY NoneIsNoRun DEF Good
  <1>2. ses2[r] = "over" /\ \A q \in DOMAIN s.rows : q # r => ses2[q] = ses[q]
    BY RowsBounded DEF OverAt
  <1>3. Ended(s, r) => Ended(u, r)
    BY DEF Ended
  <1>4. Closes(s, u, ses, ses2, t, r)
    BY <1>1, <1>2, <1>3 DEF Closes
  <1>5. Keeps(s, u, t, r)
    BY DEF Keeps
  <1>6. Good(u, ses2, up)
    BY <1>1, <1>4, <1>5, CloseGood
  <1>7. Moved(s, u)
    BY DEF Moved, Stays
  <1>. QED
    BY <1>6, <1>7

\* finishRun of a completed session
CompletedBy(s, r) ==
  [EndRun(s, r, "completed") EXCEPT
     !.task[s.rows[r].task] = [@ EXCEPT !.status = "completed", !.run = None,
                                        !.by = "hub"]]

\* It keeps the invariant: the run was claimed for the task's revision.
LEMMA CompletedGood ==
  ASSUME NEW s, NEW ses, NEW ses2, NEW up, NEW r \in DOMAIN s.rows, Good(s, ses, up),
         OverAt(ses, ses2, r), ses[r] = "working", ~ Ended(s, r)
  PROVE  LET u == CompletedBy(s, r)
         IN  /\ Good(u, ses2, up) /\ Moved(s, u) /\ u.past = s.past
             /\ DOMAIN u.rows = DOMAIN s.rows /\ Ended(u, r)
             /\ u.rows[r].task = s.rows[r].task
  <1>. DEFINE t == s.rows[r].task
              u == CompletedBy(s, r)
              w == EndRun(s, r, "completed")
              e == [s.task[t] EXCEPT !.status = "completed", !.run = None, !.by = "hub"]
              f == [s.task EXCEPT ![t] = e]
  <1>1. s \in Store /\ t \in Tasks /\ r \in Of(s, t) /\ r # None
    BY StoreTypes DEF Good, Of, RunRow, None
  <1>2. /\ w \in Store /\ w.task = s.task /\ w.file = s.file /\ w.active = s.active
        /\ w.told = s.told /\ w.past = s.past
    BY <1>1, EndRunFacts DEF TERMINAL_RUN_STATUSES
  <1>3. s.task[t] \in TaskRow /\ s.task \in [Tasks -> TaskRow]
    BY <1>1, TaskTypes, StoreTypes
  <1>4. Linked(s, ses, t)
    BY <1>1 DEF Good, GoodTask
  <1>5. t \notin s.past.overtaken =>
          /\ s.task[t].status = "in_progress" /\ s.task[t].run = r
          /\ s.rows[r].rev = s.task[t].rev
    BY <1>1, <1>4 DEF Linked
  <1>6. u = WithTask(w, f)
    BY <1>2 DEF CompletedBy, WithTask, w
  <1>7. /\ e \in TaskRow /\ e.run = None /\ e.status = "completed"
        /\ e.rev = s.task[t].rev
    <2>1. None \in Nat
      BY DEF None
    <2>. QED
      BY <1>3, <2>1, Zenon DEF TaskRow, Statuses, Authors
  <1>. HIDE DEF t, u, w, e
  <1>8. /\ f \in TaskTable /\ f[t] = e /\ \A q \in Tasks : q # t => f[q] = s.task[q]
    BY <1>1, <1>3, <1>7 DEF TaskTable
  <1>. HIDE DEF f
  <1>9. /\ u \in Store /\ u.task = f /\ u.file = s.file /\ u.rows = w.rows
        /\ u.told = s.told /\ u.past = s.past /\ u.active = s.active
    BY <1>2, <1>6, <1>8, WithTaskFacts
  <1>10. "completed" \in TERMINAL_RUN_STATUSES
    BY DEF TERMINAL_RUN_STATUSES
  <1>11. /\ Closes(s, u, ses, ses2, t, r) /\ Ended(u, r)
         /\ u.rows[r].status = "completed" /\ u.rows[r].rev = s.rows[r].rev
    <2>1. /\ u.rows = EndRun(s, r, "completed").rows /\ u.active[t] \in {None, s.active[t]}
          /\ \A q \in Tasks : q # t => u.task[q] = s.task[q] /\ u.active[q] = s.active[q]
      BY <1>8, <1>9 DEF w
    <2>. QED
      BY <1>1, <1>9, <1>10, <2>1, EndRunCloses, RowsBounded
  <1>12. Yields(s, u, t, r)
    BY <1>1, <1>5, <1>7, <1>8, <1>9, <1>11 DEF Yields
  <1>13. Good(u, ses2, up)
    BY <1>1, <1>9, <1>11, <1>12, CloseGood
  <1>14. Stays(s, u, t)
    BY <1>5, <1>9 DEF Stays, Terminal
  <1>15. Moved(s, u)
    BY <1>1, <1>8, <1>9, <1>14, OneMoved
  <1>16. DOMAIN u.rows = DOMAIN s.rows /\ u.rows[r].task = s.rows[r].task
    BY <1>11 DEF Closes
  <1>. QED
    BY <1>9, <1>11, <1>13, <1>15, <1>16 DEF u

\* runTask after startSession, when the start no longer stands
LEMMA StartDropped ==
  ASSUME NEW s, NEW ses, NEW ses2, NEW up, NEW r \in DOMAIN s.rows, Good(s, ses, up),
         OverAt(ses, ses2, r), ses[r] = "starting"
  PROVE  LET t == s.rows[r].task
             u == [EndRun(s, r, "cancelled") EXCEPT !.active[t] = None]
         IN  Good(u, ses2, up) /\ Moved(s, u) /\ u.past = s.past
  <1>. DEFINE t == s.rows[r].task
              w == EndRun(s, r, "cancelled")
              u == [w EXCEPT !.active[t] = None]
  <1>1. s \in Store /\ t \in Tasks /\ r \in Of(s, t) /\ r # None
    BY StoreTypes DEF Good, Of, RunRow, None
  <1>2. /\ w \in Store /\ w.task = s.task /\ w.file = s.file /\ w.active = s.active
        /\ w.told = s.told /\ w.past = s.past
    BY <1>1, EndRunFacts DEF TERMINAL_RUN_STATUSES
  <1>3. s.rows[r].status # "running"
    BY <1>1 DEF Good, GoodTask, Unstarted
  <1>4. u = Cleared(w, t)
    BY DEF Cleared, WithActive
  <1>5. "cancelled" \in TERMINAL_RUN_STATUSES
    BY DEF TERMINAL_RUN_STATUSES
  <1>. HIDE DEF t, u, w
  <1>6. /\ u \in Store /\ u.task = s.task /\ u.file = s.file /\ u.rows = w.rows
        /\ u.told = s.told /\ u.past = s.past /\ u.active[t] = None
        /\ \A q \in Tasks : q # t => u.active[q] = s.active[q]
    BY <1>1, <1>2, <1>4, ClearedFacts
  <1>7. Closes(s, u, ses, ses2, t, r)
    BY <1>1, <1>5, <1>6, EndRunCloses, RowsBounded DEF w
  <1>8. Keeps(s, u, t, r)
    BY <1>3, <1>6 DEF Keeps
  <1>9. Good(u, ses2, up)
    BY <1>1, <1>6, <1>7, <1>8, CloseGood
  <1>10. Moved(s, u)
    BY <1>6 DEF Moved, Stays
  <1>. QED
    BY <1>6, <1>9, <1>10 DEF t, u, w

\* A stretch of code that adds nothing to the history.
SamePast(s, u) == u.past = s.past

\* Who is at work by ses is at work now.
AtWork(s, ses) ==
  \A q \in DOMAIN s.rows : ses[q] = "working" => session[q] = "working"

\* cancelTask
LEMMA CancelledGood ==
  ASSUME NEW s, NEW ses, NEW up, NEW t \in Tasks, NEW status \in {"cancelled", "deleted"},
         NEW who \in Authors, Good(s, ses, up), s.task[t].status \notin Terminal,
         AtWork(s, ses)
  PROVE  LET u == Cancelled(s, t, status, who)
         IN  /\ Good(u, ses, up) /\ Moved(s, u) /\ SamePast(s, u)
             /\ DOMAIN u.rows = DOMAIN s.rows
             /\ \A q \in DOMAIN s.rows : u.rows[q].task = s.rows[q].task
             /\ \A q \in DOMAIN s.rows : q = s.task[t].run => Ended(u, q)
             /\ u.task[t].status = status
  <1>. DEFINE u == Cancelled(s, t, status, who)
              r == s.task[t].run
              w == EndRun(s, r, "cancelled")
  <1>1. s \in Store /\ None \notin DOMAIN s.rows /\ s.task[t] \in TaskRow
    BY StoreTypes, TaskTypes DEF Good, None
  <1>2. r = None \/ r \in Of(s, t)
    BY DEF Good, GoodTask, Referenced
  <1>3. r = None \/ r \in DOMAIN s.rows
    BY <1>1, <1>2, NoneIsNoRun
  <1>4. DOMAIN s.rows \subseteq RunIds
    <2>1. Len(s.rows) \in Nat /\ DOMAIN s.rows = 1..Len(s.rows) /\ Len(s.rows) <= MaxRuns
      BY <1>1, StoreTypes DEF Good
    <2>. QED
      BY <2>1, BoundsAssumption DEF RunIds
  <1>5. status \in Statuses
    BY DEF Statuses
  <1>6. /\ u \in Store /\ u.file = s.file /\ u.rows = w.rows /\ u.past = s.past
        /\ u.task[t] = Dropped(s.task[t], status, who) /\ u.active[t] = None
        /\ s.told \subseteq u.told
        /\ r # None /\ session[r] = "working" => r \in u.told
        /\ \A q \in Tasks : q # t => u.task[q] = s.task[q] /\ u.active[q] = s.active[q]
    BY <1>1, <1>3, <1>4, <1>5, CancelledFacts
  <1>7. /\ u.task[t].run = None /\ u.task[t].status = status
        /\ u.task[t].rev = s.task[t].rev
    BY <1>1, <1>5, <1>6, DroppedTypes
  <1>8. /\ Len(w.rows) = Len(s.rows) /\ DOMAIN w.rows = DOMAIN s.rows
        /\ \A q \in DOMAIN s.rows :
             /\ w.rows[q].task = s.rows[q].task /\ w.rows[q].rev = s.rows[q].rev
             /\ q # r \/ Ended(s, r) => w.rows[q] = s.rows[q]
             /\ q = r => Ended(w, q)
    BY <1>1, <1>3, EndRunFacts DEF TERMINAL_RUN_STATUSES
  <1>. HIDE DEF u, w, r
  <1>9. \A q \in DOMAIN s.rows : q = r => Ended(u, q)
    BY <1>6, <1>8 DEF Ended
  <1>10. Closes(s, u, ses, ses, t, r)
    <2>1. \A q \in DOMAIN s.rows :
            /\ u.rows[q].task = s.rows[q].task /\ u.rows[q].rev = s.rows[q].rev
            /\ q # r \/ Ended(s, q) => u.rows[q] = s.rows[q]
            /\ q \in s.told => q \in u.told
      BY <1>6, <1>8
    <2>2. r # None => Ended(u, r) /\ (ses[r] = "working" => r \in u.told)
      BY <1>3, <1>6, <1>9 DEF AtWork
    <2>. QED
      BY <1>2, <1>6, <1>8, <2>1, <2>2 DEF Closes
  <1>11. Yields(s, u, t, r)
    BY <1>7 DEF Yields, r
  <1>12. Good(u, ses, up)
    BY <1>6, <1>10, <1>11, CloseGood
  <1>13. Stays(s, u, t)
    BY DEF Stays
  <1>14. Moved(s, u)
    BY <1>6, <1>13, OneMoved
  <1>. QED
    BY <1>6, <1>7, <1>8, <1>9, <1>12, <1>14 DEF u, r, SamePast

-----------------------------------------------------------------------------
(* A claim *)

WithRows(s, x) == [s EXCEPT !.rows = x]
WithPast(s, p) == [s EXCEPT !.past = p]

\* A store with four of its fields changed.
LEMMA WithFour ==
  ASSUME NEW s \in Store, NEW x \in RunTable, NEW f \in TaskTable, NEW a \in Entries,
         NEW p \in Past
  PROVE  LET u == WithPast(WithActive(WithTask(WithRows(s, x), f), a), p)
         IN  /\ u \in Store /\ u.rows = x /\ u.task = f /\ u.active = a /\ u.past = p
             /\ u.file = s.file /\ u.told = s.told
  <1>. DEFINE v == WithRows(s, x)
              w == WithActive(WithTask(v, f), a)
              u == WithPast(w, p)
  <1>1. s = [task |-> s.task, file |-> s.file, rows |-> s.rows,
             active |-> s.active, told |-> s.told, past |-> s.past]
    BY StoreFields
  <1>2. v = [task |-> s.task, file |-> s.file, rows |-> x, active |-> s.active,
             told |-> s.told, past |-> s.past]
    BY <1>1 DEF WithRows
  <1>. HIDE DEF v
  <1>3. /\ v \in Store /\ v.task = s.task /\ v.file = s.file /\ v.rows = x
        /\ v.active = s.active /\ v.told = s.told /\ v.past = s.past
    BY <1>2, StoreFields DEF Store
  <1>4. /\ w \in Store /\ w.task = f /\ w.file = s.file /\ w.rows = x
        /\ w.active = a /\ w.told = s.told
    <2>1. /\ WithTask(v, f) \in Store /\ WithTask(v, f).task = f
          /\ WithTask(v, f).file = s.file /\ WithTask(v, f).rows = x
          /\ WithTask(v, f).told = s.told
      BY <1>3, WithTaskFacts
    <2>. QED
      BY <2>1, WithActiveFacts
  <1>. HIDE DEF w
  <1>5. w = [task |-> w.task, file |-> w.file, rows |-> w.rows,
             active |-> w.active, told |-> w.told, past |-> w.past]
    BY <1>4, StoreFields
  <1>6. u = [task |-> f, file |-> s.file, rows |-> x, active |-> a,
             told |-> s.told, past |-> p]
    BY <1>4, <1>5 DEF WithPast
  <1>. HIDE DEF u
  <1>7. u \in Store
    BY <1>6, StoreFields DEF Store
  <1>. QED
    BY <1>6, <1>7 DEF u, w, v

\* The row of the run, of the task, and the history after a claim.
NewRun(s, t, who) ==
  [task |-> t, rev |-> s.task[t].rev, status |-> "starting",
   from |-> s.task[t].status, auto |-> who = "auto"]

\* The row of a task whose run was claimed.
Taken(e, r, who) == [e EXCEPT !.run = r, !.by = who]

\* The row of a task that names its run.
LEMMA TakenTypes ==
  ASSUME NEW e \in TaskRow, NEW r \in Nat, NEW who \in Authors
  PROVE  /\ Taken(e, r, who) \in TaskRow /\ Taken(e, r, who).run = r
         /\ Taken(e, r, who).status = e.status /\ Taken(e, r, who).rev = e.rev
         /\ Taken(e, r, who).ok = e.ok
  BY Zenon DEF Taken, TaskRow

\* The history after a claim.
LEMMA CountedTypes ==
  ASSUME NEW p \in Past, NEW t, NEW r \in RunIds, NEW who
  PROVE  /\ Counted(p, t, r, who) \in Past
         /\ Counted(p, t, r, who).overtaken = p.overtaken
         /\ Counted(p, t, r, who).torn = p.torn
         /\ Counted(p, t, r, who).claims =
              IF who = "auto" /\ mode = "manual" THEN p.claims + 1 ELSE p.claims
  <1>. DEFINE x == p.overlapping \cup {q \in {r} : Winding(t)}
              n == IF who = "auto" /\ mode = "manual" THEN p.claims + 1 ELSE p.claims
  <1>1. x \subseteq RunIds /\ n \in Nat
    BY DEF Past
  <1>2. Counted(p, t, r, who) = [p EXCEPT !.overlapping = x, !.claims = n]
    BY DEF Counted
  <1>. HIDE DEF x, n
  <1>3. /\ Counted(p, t, r, who) \in Past
        /\ Counted(p, t, r, who).overtaken = p.overtaken
        /\ Counted(p, t, r, who).torn = p.torn
        /\ Counted(p, t, r, who).claims = n
    BY <1>1, <1>2 DEF Past
  <1>. QED
    BY <1>3 DEF n

\* runTask up to its wait, field by field.
LEMMA ClaimedFacts ==
  ASSUME NEW s \in Store, NEW t \in Tasks, NEW who \in Authors, Len(s.rows) < MaxRuns,
         s.task[t].status \in {"approved", "failed"}
  PROVE  LET u == Claimed(s, t, who)
             r == Len(s.rows) + 1
         IN  /\ u \in Store /\ u.file = s.file /\ u.told = s.told
             /\ u.rows = Append(s.rows, NewRun(s, t, who))
             /\ u.past = Counted(s.past, t, r, who)
             /\ u.task[t] = Taken(s.task[t], r, who) /\ u.active[t] = r
             /\ \A q \in Tasks : q # t =>
                  u.task[q] = s.task[q] /\ u.active[q] = s.active[q]
             /\ NewRun(s, t, who) \in RunRow /\ r \in RunIds
  <1>. DEFINE u == Claimed(s, t, who)
              r == Len(s.rows) + 1
              x == Append(s.rows, NewRun(s, t, who))
              f == [s.task EXCEPT ![t] = Taken(s.task[t], r, who)]
              a == [s.active EXCEPT ![t] = r]
              p == Counted(s.past, t, r, who)
  <1>1. r \in RunIds /\ r \in Nat
    BY StoreTypes, BoundsAssumption DEF RunIds
  <1>2. s.task[t] \in TaskRow /\ s.task[t].rev \in Nat /\ s.past \in Past
    BY TaskTypes, StoreFields
  <1>3. NewRun(s, t, who) \in RunRow
    <2>1. (who = "auto") \in BOOLEAN
      OBVIOUS
    <2>. QED
      BY <1>2, <2>1 DEF NewRun, RunRow
  <1>4. x \in RunTable
    BY <1>3, StoreTypes DEF RunTable
  <1>5. Taken(s.task[t], r, who) \in TaskRow
    BY <1>1, <1>2, TakenTypes
  <1>6. p \in Past
    BY <1>1, <1>2, CountedTypes
  <1>7. s = [task |-> s.task, file |-> s.file, rows |-> s.rows,
             active |-> s.active, told |-> s.told, past |-> s.past]
    BY StoreFields
  <1>8. u = WithPast(WithActive(WithTask(WithRows(s, x), f), a), p)
    <2>1. u = [s EXCEPT !.rows = Append(@, NewRun(s, t, who)),
                        !.task[t] = [@ EXCEPT !.run = r, !.by = who],
                        !.active[t] = r,
                        !.past = Counted(@, t, r, who)]
      BY DEF Claimed, NewRun
    <2>. HIDE DEF u, r
    <2>. QED
      BY <1>7, <2>1 DEF Taken, WithPast, WithActive, WithTask, WithRows
  <1>. HIDE DEF u, r, x, p
  <1>9. /\ f \in TaskTable /\ f[t] = Taken(s.task[t], r, who)
        /\ \A q \in Tasks : q # t => f[q] = s.task[q]
    BY <1>5, StoreTypes DEF TaskTable
  <1>10. /\ a \in Entries /\ a[t] = r
         /\ \A q \in Tasks : q # t => a[q] = s.active[q]
    BY <1>1, StoreTypes DEF Entries
  <1>. HIDE DEF f, a
  <1>11. /\ u \in Store /\ u.rows = x /\ u.task = f /\ u.active = a /\ u.past = p
         /\ u.file = s.file /\ u.told = s.told
    BY <1>4, <1>6, <1>8, <1>9, <1>10, WithFour
  <1>. QED
    BY <1>1, <1>3, <1>9, <1>10, <1>11 DEF u, r, x, p

\* What the history counts of a claim.
Counts(s, u, who) ==
  u.past.claims = IF who = "auto" /\ mode = "manual" THEN s.past.claims + 1
                  ELSE s.past.claims

\* runTask up to its wait
LEMMA ClaimedGood ==
  ASSUME NEW s, NEW ses, NEW ses2, NEW up, NEW t \in Tasks, NEW who \in Authors, NEW rev,
         Good(s, ses, up), Len(s.rows) < MaxRuns, MayRun(s, t, rev),
         ses2[Len(s.rows) + 1] = "starting",
         \A q \in DOMAIN s.rows : ses2[q] = ses[q]
  PROVE  LET u == Claimed(s, t, who)
         IN  Good(u, ses2, up) /\ Moved(s, u) /\ Counts(s, u, who)
  <1>. DEFINE u == Claimed(s, t, who)
              r == Len(s.rows) + 1
              n == NewRun(s, t, who)
  <1>1. s \in Store /\ GoodTask(s, ses, up, t)
    BY DEF Good
  <1>2. /\ s.task[t].status \in {"approved", "failed"}
        /\ s.task[t].ok = s.task[t].rev /\ s.task[t].run = None
        /\ \A q \in DOMAIN s.rows : s.rows[q].task = t => Ended(s, q)
    BY DEF MayRun
  <1>3. /\ u \in Store /\ u.file = s.file /\ u.told = s.told
        /\ u.rows = Append(s.rows, n)
        /\ u.past = Counted(s.past, t, r, who)
        /\ u.task[t] = Taken(s.task[t], r, who) /\ u.active[t] = r
        /\ \A q \in Tasks : q # t => u.task[q] = s.task[q] /\ u.active[q] = s.active[q]
        /\ n \in RunRow /\ r \in RunIds
    BY <1>1, <1>2, ClaimedFacts
  <1>4. /\ s.task[t] \in TaskRow /\ s.rows \in Seq(RunRow) /\ s.past \in Past
        /\ Len(s.rows) \in Nat /\ DOMAIN s.rows = 1..Len(s.rows)
    BY <1>1, TaskTypes, StoreTypes, StoreFields
  <1>5. /\ u.task[t].run = r /\ u.task[t].status = s.task[t].status
        /\ u.task[t].rev = s.task[t].rev /\ u.task[t].ok = s.task[t].ok
    <2>1. r \in Nat
      BY <1>4
    <2>. HIDE DEF r, u
    <2>. QED
      BY <1>3, <1>4, <2>1, TakenTypes
  <1>6. /\ u.past.overtaken = s.past.overtaken /\ u.past.torn = s.past.torn
        /\ u.past.claims = IF who = "auto" /\ mode = "manual" THEN s.past.claims + 1
                           ELSE s.past.claims
    BY <1>3, <1>4, CountedTypes
  <1>7. n.task = t /\ n.rev = s.task[t].rev /\ n.status = "starting"
    BY DEF NewRun
  <1>. HIDE DEF u, n
  <1>8. /\ DOMAIN u.rows = DOMAIN s.rows \cup {r} /\ u.rows[r] = n /\ r \notin DOMAIN s.rows
        /\ \A q \in DOMAIN s.rows : u.rows[q] = s.rows[q]
        /\ Len(u.rows) = r /\ r # None
    BY <1>3, <1>4 DEF None
  <1>. HIDE DEF r
  <1>9. /\ Of(u, t) = Of(s, t) \cup {r} /\ r \notin Of(s, t)
        /\ \A q \in Of(s, t) : u.rows[q] = s.rows[q] /\ Ended(u, q) /\ ses2[q] = ses[q]
        /\ ses2[r] = "starting" /\ ~ Ended(u, r)
    <2>1. Of(u, t) = Of(s, t) \cup {r} /\ r \notin Of(s, t)
      BY <1>7, <1>8 DEF Of
    <2>2. \A q \in Of(s, t) : u.rows[q] = s.rows[q] /\ Ended(u, q) /\ ses2[q] = ses[q]
      BY <1>2, <1>8 DEF Of, Ended
    <2>3. ses2[r] = "starting" /\ ~ Ended(u, r)
      BY <1>7, <1>8 DEF Ended, TERMINAL_RUN_STATUSES, r
    <2>. QED
      BY <2>1, <2>2, <2>3
  <1>10. GoodTask(u, ses2, up, t)
    <2>1. Referenced(u, t)
      BY <1>3, <1>5, <1>9 DEF Referenced
    <2>2. AtRest(u, t)
      BY <1>2, <1>5 DEF AtRest, Terminal
    <2>3. OneOpen(u, t)
      BY <1>9 DEF OneOpen
    <2>4. Pledged(u, t)
      BY <1>2, <1>5, <1>7, <1>8 DEF Pledged
    <2>5. Linked(u, ses2, t)
      <3>1. SUFFICES ASSUME NEW q \in Of(s, t), ses[q] = "working",
                            t \notin s.past.overtaken, q \notin s.told
                     PROVE  FALSE
        BY <1>3, <1>6, <1>9 DEF Linked
      <3>2. s.task[t].status = "in_progress"
        BY <1>1, <3>1 DEF GoodTask, Linked
      <3>. QED
        BY <1>2, <3>2
    <2>6. Unstarted(u, ses2, t)
      BY <1>1, <1>7, <1>8, <1>9 DEF GoodTask, Unstarted
    <2>7. Housed(u, ses2, up, t)
      BY <1>9 DEF Housed
    <2>8. Backed(u, t) /\ Done(u, t)
      BY <1>2, <1>5 DEF Backed, Done
    <2>. QED
      BY <2>1, <2>2, <2>3, <2>4, <2>5, <2>6, <2>7, <2>8 DEF GoodTask
  <1>11. Elsewhere(s, u, ses, ses2, t)
    <2>1. SUFFICES ASSUME NEW q \in Tasks, q # t
                   PROVE  /\ u.task[q] = s.task[q] /\ u.active[q] = s.active[q]
                          /\ Of(u, q) = Of(s, q)
                          /\ \A p \in Of(s, q) : u.rows[p] = s.rows[p] /\ ses2[p] = ses[p]
      BY <1>3 DEF Elsewhere
    <2>2. Of(u, q) = Of(s, q)
      BY <1>7, <1>8, <2>1 DEF Of
    <2>. QED
      BY <1>3, <1>8, <2>1, <2>2 DEF Of
  <1>12. Len(u.rows) <= MaxRuns
    BY <1>3, <1>4, <1>8, BoundsAssumption DEF RunIds
  <1>13. Good(u, ses2, up)
    BY <1>3, <1>6, <1>10, <1>11, <1>12, OneTask
  <1>14. Stays(s, u, t)
    BY <1>3, <1>5 DEF Stays
  <1>15. Moved(s, u)
    BY <1>3, <1>6, <1>14, OneMoved
  <1>. QED
    BY <1>6, <1>13, <1>15 DEF u, Counts

-----------------------------------------------------------------------------
(* Reconciliation *)

\* The store after a stretch of code.
LEMMA BecomesNow ==
  ASSUME NEW s \in Store, Becomes(s)
  PROVE  Now' = s
  <1>1. s = [task |-> s.task, file |-> s.file, rows |-> s.rows,
             active |-> s.active, told |-> s.told, past |-> s.past]
    BY StoreFields
  <1>2. Now' = [task |-> s.task, file |-> s.file, rows |-> s.rows,
                active |-> s.active, told |-> s.told, past |-> s.past]
    BY DEF Now, Becomes
  <1>. QED
    BY <1>1, <1>2

\* A part of a listing.
LEMMA WithoutFacts ==
  ASSUME NEW s, NEW seen, NEW X, Current(s, seen)
  PROVE  Current(s, Without(seen, X))
  <1>1. /\ DOMAIN Without(seen, X) = DOMAIN seen \ X
        /\ \A t \in DOMAIN seen \ X : Without(seen, X)[t] = seen[t]
    BY DEF Without
  <1>. QED
    BY <1>1 DEF Current, IsListing

\* A listing cut down to a set.
LEMMA OnlyFacts ==
  ASSUME NEW s, NEW seen, NEW X, Current(s, seen)
  PROVE  /\ Current(s, Only(seen, X))
         /\ DOMAIN Only(seen, X) = DOMAIN seen \cap X
         /\ \A t \in DOMAIN seen \cap X : Only(seen, X)[t] = seen[t]
  <1>1. /\ DOMAIN Only(seen, X) = DOMAIN seen \cap X
        /\ \A t \in DOMAIN seen \cap X : Only(seen, X)[t] = seen[t]
    BY DEF Only
  <1>2. Current(s, Only(seen, X))
    BY <1>1 DEF Current, IsListing
  <1>. QED
    BY <1>1, <1>2

\* A fresh listing.
LEMMA ListedCurrent ==
  ASSUME NEW s \in Store
  PROVE  Current(s, Listed(s))
  <1>1. DOMAIN Listed(s) \subseteq Tasks
    BY DEF Listed, Missing
  <1>2. \A t \in DOMAIN Listed(s) :
          Listed(s)[t] = [status |-> s.task[t].status, rev |-> s.task[t].rev]
    BY DEF Listed
  <1>3. \A t \in DOMAIN Listed(s) : s.task[t].status \in Statuses /\ s.task[t].rev \in Nat
    BY <1>1, TaskTypes
  <1>4. \A t \in DOMAIN Listed(s) : Listed(s)[t] \in Seen
    BY <1>2, <1>3 DEF Seen
  <1>. QED
    BY <1>1, <1>2, <1>4 DEF Current, IsListing

\* A listing of which no task is running is shelved.
LEMMA SettledShelved ==
  ASSUME NEW s, NEW seen, NEW ses, NEW up, Good(s, ses, up), Current(s, seen),
         Running(s, seen) = {}
  PROVE  /\ Good(Shelved(s, seen), ses, up) /\ Moved(s, Shelved(s, seen))
         /\ Shelved(s, seen).past.claims = s.past.claims
         /\ Shelved(s, seen).rows = s.rows
  <1>1. \A t \in DOMAIN seen :
          seen[t].status = "in_progress" => s.task[t].status # "in_progress"
    BY DEF Running
  <1>. QED
    BY <1>1, ShelvedGood

\* What a reconciliation leaves behind.
Swept(s, ses, up) ==
  /\ Good(Now', ses, up) /\ Moved(s, Now') /\ past'.claims = s.past.claims
  /\ IsSweep(sweep') /\ (sweep'.on => Current(Now', sweep'.rest))

\* A reconciliation that does not wait is one, and has no listing.
LEMMA IdleSweepFacts ==
  ASSUME sweep' = IdleSweep
  PROVE  IsSweep(sweep') /\ (sweep'.on => Current(Now', sweep'.rest))
  <1>1. IdleSweep.on = FALSE
    BY DEF IdleSweep
  <1>. QED
    BY <1>1 DEF IsSweep

\* The pass over the rows.
LEMMA SweepGood ==
  ASSUME NEW s, NEW seen, NEW ses, NEW up, Good(s, ses, up), Current(s, seen),
         AtWork(s, ses),
         Sweep(s, seen)
  PROVE  Swept(s, ses, up)
  <1>1. CASE Running(s, seen) = {}
    <2>1. Becomes(Shelved(s, seen)) /\ sweep' = IdleSweep
      BY <1>1 DEF Sweep
    <2>2. /\ Good(Shelved(s, seen), ses, up) /\ Moved(s, Shelved(s, seen))
          /\ Shelved(s, seen).past.claims = s.past.claims
      BY <1>1, SettledShelved
    <2>3. Now' = Shelved(s, seen)
      BY <2>1, <2>2, BecomesNow DEF Good
    <2>4. past' = Shelved(s, seen).past
      BY <2>1 DEF Becomes
    <2>. QED
      BY <2>1, <2>2, <2>3, <2>4, IdleSweepFacts DEF Swept
  <1>2. CASE Running(s, seen) # {}
    <2>1. PICK t \in Running(s, seen) :
            \E before \in SUBSET (DOMAIN seen \ Running(s, seen)) :
              LET b == Shelved(s, Only(seen, before))
              IN  IF /\ hub = "up" /\ s.task[t].rev = seen[t].rev
                     /\ s.task[t].status \notin {"completed", "expired"}
                  THEN /\ Becomes(Cancelled(b, t, "deleted", "file"))
                       /\ sweep' = [on |-> TRUE, task |-> t,
                                    rest |-> Without(seen, before \cup {t})]
                  ELSE Becomes(b) /\ sweep' = IdleSweep
      BY <1>2 DEF Sweep
    <2>2. PICK before \in SUBSET (DOMAIN seen \ Running(s, seen)) :
            LET b == Shelved(s, Only(seen, before))
            IN  IF /\ hub = "up" /\ s.task[t].rev = seen[t].rev
                   /\ s.task[t].status \notin {"completed", "expired"}
                THEN /\ Becomes(Cancelled(b, t, "deleted", "file"))
                     /\ sweep' = [on |-> TRUE, task |-> t,
                                  rest |-> Without(seen, before \cup {t})]
                ELSE Becomes(b) /\ sweep' = IdleSweep
      BY <2>1
    <2>. DEFINE part == Only(seen, before)
                b == Shelved(s, part)
                c == Cancelled(b, t, "deleted", "file")
                rest == Without(seen, before \cup {t})
    <2>3. /\ t \in DOMAIN seen /\ t \in Tasks /\ t \notin before
          /\ s.task[t].status \notin {"cancelled", "deleted"}
      BY DEF Running, Current, IsListing
    <2>4. /\ Current(s, part) /\ DOMAIN part = DOMAIN seen \cap before
          /\ \A q \in DOMAIN seen \cap before : part[q] = seen[q]
      <3>1. Current(s, part)
        BY OnlyFacts
      <3>2. DOMAIN part = DOMAIN seen \cap before
        BY DEF Only
      <3>3. \A q \in DOMAIN seen \cap before : part[q] = seen[q]
        BY DEF Only
      <3>. QED
        BY <3>1, <3>2, <3>3
    <2>. HIDE DEF part
    <2>5. \A q \in DOMAIN part :
            part[q].status = "in_progress" => s.task[q].status # "in_progress"
      BY <2>4 DEF Running
    <2>6. /\ Good(b, ses, up) /\ Moved(s, b) /\ b.past.claims = s.past.claims
          /\ b.rows = s.rows
          /\ \A q \in Tasks \ DOMAIN part : b.task[q] = s.task[q]
      BY <2>4, <2>5, ShelvedGood
    <2>7. b.task[t] = s.task[t]
      BY <2>3, <2>4, <2>6
    <2>. HIDE DEF b
    <2>8. CASE /\ hub = "up" /\ s.task[t].rev = seen[t].rev
               /\ s.task[t].status \notin {"completed", "expired"}
      <3>1. Becomes(c) /\ sweep' = [on |-> TRUE, task |-> t, rest |-> rest]
        BY <2>2, <2>8 DEF b, part
      <3>2. b.task[t].status \notin Terminal
        BY <2>3, <2>7, <2>8 DEF Terminal
      <3>3. Good(c, ses, up) /\ Moved(b, c) /\ c.past = b.past
        <4>1. "file" \in Authors
          BY DEF Authors
        <4>2. AtWork(b, ses)
          BY <2>6 DEF AtWork
        <4>3. Good(b, ses, up)
          BY <2>6
        <4>. QED
          BY <2>3, <3>2, <4>1, <4>2, <4>3, CancelledGood DEF SamePast
      <3>. HIDE DEF c
      <3>4. Now' = c /\ past' = c.past
        BY <3>1, <3>3, BecomesNow DEF Good, Becomes
      <3>5. Moved(s, c)
        BY <2>6, <3>3, MovedTwice
      <3>6. Current(c, rest)
        BY <3>5, WithoutFacts, CurrentStays
      <3>. HIDE DEF rest
      <3>7. IsSweep(sweep')
        BY <2>3, <3>1, <3>6 DEF IsSweep, Current
      <3>8. sweep'.rest = rest
        BY <3>1
      <3>. QED
        BY <2>6, <3>3, <3>4, <3>5, <3>6, <3>7, <3>8 DEF Swept
    <2>9. CASE ~ (/\ hub = "up" /\ s.task[t].rev = seen[t].rev
                  /\ s.task[t].status \notin {"completed", "expired"})
      <3>1. Becomes(b) /\ sweep' = IdleSweep
        BY <2>2, <2>9 DEF b, part
      <3>2. Now' = b /\ past' = b.past
        BY <2>6, <3>1, BecomesNow DEF Good, Becomes
      <3>. QED
        BY <2>6, <3>1, <3>2, IdleSweepFacts DEF Swept
    <2>. QED
      BY <2>8, <2>9
  <1>. QED
    BY <1>1, <1>2

\* reconcileFileStore
LEMMA ReconcilesGood ==
  ASSUME NEW s, NEW ses, NEW up, Good(s, ses, up), IsSweep(sweep),
         sweep.on => Current(s, sweep.rest),
         AtWork(s, ses),
         Reconciles(s)
  PROVE  Swept(s, ses, up)
  <1>. DEFINE f == Read(s)
              seen == Listed(f)
              u == Shelved(f, seen)
  <1>1. Good(f, ses, up) /\ Moved(s, f) /\ f.past.claims = s.past.claims /\ f.rows = s.rows
    BY ReadGood
  <1>2. Current(f, seen)
    BY <1>1, ListedCurrent DEF Good
  <1>3. CASE sweep.on
    <2>1. Running(f, seen) = {} /\ Becomes(u) /\ sweep' = sweep
      BY <1>3 DEF Reconciles
    <2>. HIDE DEF f, seen
    <2>2. Good(u, ses, up) /\ Moved(f, u) /\ u.past.claims = f.past.claims
      BY <1>1, <1>2, <2>1, SettledShelved
    <2>. HIDE DEF u
    <2>3. Now' = u /\ past' = u.past
      BY <2>1, <2>2, BecomesNow DEF Good, Becomes
    <2>4. Moved(s, u)
      BY <1>1, <2>2, MovedTwice
    <2>5. Current(u, sweep.rest)
      BY <1>3, <2>4, CurrentStays
    <2>. QED
      BY <1>1, <2>1, <2>2, <2>3, <2>4, <2>5 DEF Swept
  <1>4. CASE ~ sweep.on
    <2>1. Sweep(f, seen)
      BY <1>4 DEF Reconciles
    <2>. HIDE DEF f, seen
    <2>2. Swept(f, ses, up)
      <3>1. AtWork(f, ses)
        BY <1>1 DEF AtWork
      <3>. QED
        BY <1>1, <1>2, <2>1, <3>1, SweepGood
    <2>3. Moved(s, Now')
      BY <1>1, <2>2, MovedTwice DEF Swept
    <2>. QED
      BY <1>1, <2>2, <2>3 DEF Swept
  <1>. QED
    BY <1>3, <1>4

\* reconcileScope, when it does not have to wait
LEMMA ReconciledGood ==
  ASSUME NEW s, NEW ses, NEW up, Good(s, ses, up), Settled(s)
  PROVE  /\ Good(Reconciled(s), ses, up) /\ Moved(s, Reconciled(s))
         /\ Reconciled(s).past.claims = s.past.claims /\ Reconciled(s).rows = s.rows
  <1>. DEFINE f == Read(s)
              seen == Listed(f)
  <1>1. Good(f, ses, up) /\ Moved(s, f) /\ f.past.claims = s.past.claims /\ f.rows = s.rows
    BY ReadGood
  <1>2. Current(f, seen)
    BY <1>1, ListedCurrent DEF Good
  <1>3. Running(f, seen) = {} /\ Reconciled(s) = Shelved(f, seen)
    BY DEF Settled, Reconciled
  <1>. HIDE DEF f, seen
  <1>4. /\ Good(Reconciled(s), ses, up) /\ Moved(f, Reconciled(s))
        /\ Reconciled(s).past.claims = f.past.claims /\ Reconciled(s).rows = f.rows
    BY <1>1, <1>2, <1>3, SettledShelved
  <1>. QED
    BY <1>1, <1>4, MovedTwice

-----------------------------------------------------------------------------
(* Commands *)

\* A stretch of code that only changes the row of one task, by a TaskMove.
LEMMA OneRowGood ==
  ASSUME NEW s, NEW u \in Store, NEW ses, NEW up, NEW t \in Tasks, Good(s, ses, up),
         u.rows = s.rows, u.active = s.active, u.told = s.told,
         u.past.overtaken = s.past.overtaken, u.past.torn = s.past.torn,
         \A q \in Tasks : q # t => u.task[q] = s.task[q] /\ u.file[q] = s.file[q],
         TaskMove(s, u, t), s.task[t].status \notin Terminal
  PROVE  Good(u, ses, up) /\ Moved(s, u)
  <1>1. ASSUME NEW q \in Tasks
        PROVE  TaskMove(s, u, q) /\ Stays(s, u, q)
    <2>1. CASE q = t
      BY <2>1 DEF Stays
    <2>2. CASE q # t
      BY <2>2 DEF TaskMove, Stays
    <2>. QED
      BY <2>1, <2>2
  <1>. QED
    BY <1>1, GoodMoves

\* The row of a task that a command or a tool makes.
LEMMA AskedTypes ==
  ASSUME NEW approved \in BOOLEAN
  PROVE  /\ Asked(approved) \in TaskRow /\ Asked(approved).run = None
         /\ Asked(approved).status \in {"pending_approval", "approved"}
  <1>1. NewTask("user") \in TaskRow
    BY NewTaskType
  <1>2. /\ [NewTask("user") EXCEPT !.status = "approved", !.ok = 1] \in TaskRow
        /\ [NewTask("user") EXCEPT !.status = "approved", !.ok = 1].run = None
        /\ [NewTask("user") EXCEPT !.status = "approved", !.ok = 1].status = "approved"
    BY <1>1, NewTaskType DEF TaskRow, Statuses
  <1>. QED
    BY <1>1, <1>2, NewTaskType DEF Asked

WithFile(s, g) == [s EXCEPT !.file = g]

\* Replacing the specs changes nothing else.
LEMMA WithFileFacts ==
  ASSUME NEW s \in Store, NEW g \in FileTable
  PROVE  LET u == WithFile(s, g)
         IN  /\ u \in Store /\ u.task = s.task /\ u.file = g /\ u.rows = s.rows
             /\ u.active = s.active /\ u.told = s.told /\ u.past = s.past
  <1>. DEFINE u == WithFile(s, g)
  <1>1. s = [task |-> s.task, file |-> s.file, rows |-> s.rows,
             active |-> s.active, told |-> s.told, past |-> s.past]
    BY StoreFields
  <1>2. u = [task |-> s.task, file |-> g, rows |-> s.rows, active |-> s.active,
             told |-> s.told, past |-> s.past]
    BY <1>1 DEF WithFile
  <1>. HIDE DEF u
  <1>3. u \in Store
    BY <1>2, StoreFields DEF Store
  <1>. QED
    BY <1>2, <1>3 DEF u

\* Replacing the history changes nothing else.
LEMMA WithPastFacts ==
  ASSUME NEW s \in Store, NEW p \in Past
  PROVE  LET u == WithPast(s, p)
         IN  /\ u \in Store /\ u.task = s.task /\ u.file = s.file /\ u.rows = s.rows
             /\ u.active = s.active /\ u.told = s.told /\ u.past = p
  <1>. DEFINE u == WithPast(s, p)
  <1>1. s = [task |-> s.task, file |-> s.file, rows |-> s.rows,
             active |-> s.active, told |-> s.told, past |-> s.past]
    BY StoreFields
  <1>2. u = [task |-> s.task, file |-> s.file, rows |-> s.rows, active |-> s.active,
             told |-> s.told, past |-> p]
    BY <1>1 DEF WithPast
  <1>. HIDE DEF u
  <1>3. u \in Store
    BY <1>2, StoreFields DEF Store
  <1>. QED
    BY <1>2, <1>3 DEF u

\* createTask
CreatedBy(s, t, approved) ==
  [s EXCEPT !.task[t] = Asked(approved), !.file[t] = "same"]

\* It keeps the invariant: the task had no row, so no run either.
LEMMA CreatedGood ==
  ASSUME NEW s, NEW ses, NEW up, NEW t \in Tasks, NEW approved \in BOOLEAN,
         Good(s, ses, up), s.task[t].status = "absent"
  PROVE  LET u == CreatedBy(s, t, approved)
         IN  Good(u, ses, up) /\ Moved(s, u) /\ SamePast(s, u)
  <1>. DEFINE f == [s.task EXCEPT ![t] = Asked(approved)]
              g == [s.file EXCEPT ![t] = "same"]
              v == WithTask(s, f)
              u == CreatedBy(s, t, approved)
  <1>1. s \in Store
    BY DEF Good
  <1>2. /\ f \in TaskTable /\ f[t] = Asked(approved)
        /\ \A q \in Tasks : q # t => f[q] = s.task[q]
    BY <1>1, StoreTypes, AskedTypes DEF TaskTable
  <1>3. g \in FileTable /\ \A q \in Tasks : q # t => g[q] = s.file[q]
    BY <1>1, StoreTypes DEF FileTable
  <1>4. s = [task |-> s.task, file |-> s.file, rows |-> s.rows,
             active |-> s.active, told |-> s.told, past |-> s.past]
    BY <1>1, StoreFields
  <1>5. u = WithFile(v, g)
    BY <1>4 DEF WithFile, WithTask, CreatedBy
  <1>. HIDE DEF f, g, u
  <1>6. /\ v \in Store /\ v.task = f /\ v.file = s.file
        /\ v.rows = s.rows /\ v.active = s.active /\ v.told = s.told /\ v.past = s.past
    BY <1>1, <1>2, WithTaskFacts
  <1>. HIDE DEF v
  <1>7. /\ u \in Store /\ u.task = f /\ u.file = g
        /\ u.rows = s.rows /\ u.active = s.active /\ u.told = s.told /\ u.past = s.past
    BY <1>3, <1>5, <1>6, WithFileFacts
  <1>8. u.task[t].run = None /\ u.task[t].status \in {"pending_approval", "approved"}
    BY <1>2, <1>7, AskedTypes
  <1>9. TaskMove(s, u, t)
    BY <1>8 DEF TaskMove
  <1>10. s.task[t].status \notin Terminal
    BY DEF Terminal
  <1>11. \A q \in Tasks : q # t => u.task[q] = s.task[q] /\ u.file[q] = s.file[q]
    BY <1>2, <1>3, <1>7
  <1>12. Good(u, ses, up) /\ Moved(s, u)
    BY <1>7, <1>9, <1>10, <1>11, OneRowGood
  <1>. QED
    BY <1>7, <1>12 DEF u, SamePast

\* updateTask
UpdatedBy(s, t) ==
  [s EXCEPT !.task[t] = Revised(@, "user"), !.past.filed = @ \ {t}]

\* It keeps the invariant: the task does not run, and asks for approval.
LEMMA UpdatedGood ==
  ASSUME NEW s, NEW ses, NEW up, NEW t \in Tasks, Good(s, ses, up),
         s.task[t].status \in Editable
  PROVE  LET u == UpdatedBy(s, t)
         IN  Good(u, ses, up) /\ Moved(s, u) /\ u.past.claims = s.past.claims
  <1>. DEFINE f == [s.task EXCEPT ![t] = Revised(s.task[t], "user")]
              p == Refiled(s.past, s.past.filed \ {t})
              v == WithTask(s, f)
              u == UpdatedBy(s, t)
  <1>1. s \in Store /\ s.past \in Past /\ s.task[t] \in TaskRow
    BY TaskTypes, StoreFields DEF Good
  <1>2. /\ Revised(s.task[t], "user") \in TaskRow
        /\ Revised(s.task[t], "user").run = None
        /\ Revised(s.task[t], "user").status = "pending_approval"
    BY <1>1, RowTypes DEF Authors
  <1>3. /\ f \in TaskTable /\ f[t] = Revised(s.task[t], "user")
        /\ \A q \in Tasks : q # t => f[q] = s.task[q]
    BY <1>1, <1>2, StoreTypes DEF TaskTable
  <1>4. s.past.filed \ {t} \in SUBSET Tasks
    BY <1>1, PastTypes
  <1>5. /\ p \in Past /\ p.overtaken = s.past.overtaken /\ p.torn = s.past.torn
        /\ p.claims = s.past.claims
    BY <1>1, <1>4, RefiledTypes
  <1>6. s = [task |-> s.task, file |-> s.file, rows |-> s.rows,
             active |-> s.active, told |-> s.told, past |-> s.past]
    BY <1>1, StoreFields
  <1>7. u = WithPast(v, p)
    BY <1>6 DEF WithPast, WithTask, Refiled, UpdatedBy
  <1>. HIDE DEF f, p, u
  <1>8. /\ v \in Store /\ v.task = f /\ v.file = s.file
        /\ v.rows = s.rows /\ v.active = s.active /\ v.told = s.told
    BY <1>1, <1>3, WithTaskFacts
  <1>. HIDE DEF v
  <1>9. /\ u \in Store /\ u.task = f /\ u.file = s.file
        /\ u.rows = s.rows /\ u.active = s.active /\ u.told = s.told /\ u.past = p
    BY <1>5, <1>7, <1>8, WithPastFacts
  <1>10. TaskMove(s, u, t)
    BY <1>2, <1>3, <1>9 DEF TaskMove, Editable
  <1>11. s.task[t].status \notin Terminal
    BY DEF Terminal, Editable
  <1>12. \A q \in Tasks : q # t => u.task[q] = s.task[q] /\ u.file[q] = s.file[q]
    BY <1>3, <1>9
  <1>13. Good(u, ses, up) /\ Moved(s, u)
    BY <1>5, <1>9, <1>10, <1>11, <1>12, OneRowGood
  <1>. QED
    BY <1>5, <1>9, <1>13 DEF u

-----------------------------------------------------------------------------
(* Starts and ends of sessions *)

\* finishRun up to its wait, for a start that stands
StartedBy(s, r) ==
  LET t == s.rows[r].task
  IN  [s EXCEPT !.rows[r].status = "running", !.task[t].status = "in_progress",
                !.active[t] = r]

\* ... field by field.
LEMMA StartedFacts ==
  ASSUME NEW s \in Store, NEW t \in Tasks, NEW r \in Of(s, t)
  PROVE  LET u == StartedBy(s, r)
         IN  /\ u \in Store /\ u.file = s.file /\ u.told = s.told /\ u.past = s.past
             /\ DOMAIN u.rows = DOMAIN s.rows /\ Len(u.rows) = Len(s.rows)
             /\ \A q \in DOMAIN s.rows : q # r => u.rows[q] = s.rows[q]
             /\ u.rows[r].status = "running" /\ u.rows[r].task = t
             /\ u.rows[r].rev = s.rows[r].rev
             /\ u.task[t].status = "in_progress" /\ u.task[t].run = s.task[t].run
             /\ u.task[t].rev = s.task[t].rev /\ u.task[t].ok = s.task[t].ok
             /\ u.active[t] = r
             /\ \A q \in Tasks : q # t =>
                  u.task[q] = s.task[q] /\ u.active[q] = s.active[q]
  <1>. DEFINE n == [s.rows[r] EXCEPT !.status = "running"]
              e == [s.task[t] EXCEPT !.status = "in_progress"]
              x == [s.rows EXCEPT ![r] = n]
              f == [s.task EXCEPT ![t] = e]
              a == [s.active EXCEPT ![t] = r]
              u == StartedBy(s, r)
  <1>1. /\ r \in DOMAIN s.rows /\ s.rows[r].task = t /\ s.rows[r] \in RunRow
        /\ r \in Nat /\ s.task[t] \in TaskRow /\ s.past \in Past
    BY StoreTypes, StoreFields, TaskTypes DEF Of
  <1>2. /\ n \in RunRow /\ n.status = "running" /\ n.task = t /\ n.rev = s.rows[r].rev
    BY <1>1 DEF RunRow
  <1>3. /\ e \in TaskRow /\ e.status = "in_progress" /\ e.run = s.task[t].run
        /\ e.rev = s.task[t].rev /\ e.ok = s.task[t].ok
    BY <1>1 DEF TaskRow, Statuses
  <1>4. s = [task |-> s.task, file |-> s.file, rows |-> s.rows,
             active |-> s.active, told |-> s.told, past |-> s.past]
    BY StoreFields
  <1>5. u = WithActive(WithTask(WithRows(s, x), f), a)
    <2>1. u = [s EXCEPT !.rows[r].status = "running", !.task[t].status = "in_progress",
                        !.active[t] = r]
      BY <1>1 DEF StartedBy
    <2>. HIDE DEF u
    <2>. QED
      BY <1>4, <2>1 DEF WithActive, WithTask, WithRows
  <1>. HIDE DEF n, e, u
  <1>6. /\ x \in RunTable /\ DOMAIN x = DOMAIN s.rows /\ Len(x) = Len(s.rows)
        /\ x[r] = n /\ \A q \in DOMAIN s.rows : q # r => x[q] = s.rows[q]
    BY <1>1, <1>2, StoreTypes DEF RunTable
  <1>7. /\ f \in TaskTable /\ f[t] = e /\ \A q \in Tasks : q # t => f[q] = s.task[q]
    BY <1>3, StoreTypes DEF TaskTable
  <1>8. /\ a \in Entries /\ a[t] = r /\ \A q \in Tasks : q # t => a[q] = s.active[q]
    BY <1>1, StoreTypes DEF Entries
  <1>9. WithPast(u, s.past) = u
    <2>. HIDE DEF x, f, a
    <2>1. WithRows(s, x) = [task |-> s.task, file |-> s.file, rows |-> x,
                            active |-> s.active, told |-> s.told, past |-> s.past]
      BY <1>4 DEF WithRows
    <2>2. WithTask(WithRows(s, x), f) =
            [task |-> f, file |-> s.file, rows |-> x,
             active |-> s.active, told |-> s.told, past |-> s.past]
      BY <2>1 DEF WithTask
    <2>3. u = [task |-> f, file |-> s.file, rows |-> x,
               active |-> a, told |-> s.told, past |-> s.past]
      BY <1>5, <2>2 DEF WithActive
    <2>. QED
      BY <2>3 DEF WithPast
  <1>. HIDE DEF x, f, a
  <1>10. /\ u \in Store /\ u.rows = x /\ u.task = f /\ u.active = a /\ u.past = s.past
         /\ u.file = s.file /\ u.told = s.told
    BY <1>1, <1>5, <1>6, <1>7, <1>8, <1>9, WithFour
  <1>. QED
    BY <1>2, <1>3, <1>6, <1>7, <1>8, <1>10 DEF u

\* It keeps the invariant: the run was claimed for what is approved.
LEMMA StartedGood ==
  ASSUME NEW s, NEW ses, NEW ses2, NEW up, NEW t \in Tasks, NEW r \in Of(s, t),
         Good(s, ses, up), ses[r] = "starting", ses2[r] = "working",
         \A q \in RunIds : q # r => ses2[q] = ses[q],
         ~ Ended(s, r), s.task[t].status \in {"approved", "failed"}, s.task[t].run = r
  PROVE  LET u == StartedBy(s, r)
         IN  Good(u, ses2, up) /\ Moved(s, u) /\ u.past = s.past
  <1>. DEFINE u == StartedBy(s, r)
  <1>1. /\ s \in Store /\ GoodTask(s, ses, up, t) /\ r # None
        /\ Of(s, t) \subseteq DOMAIN s.rows /\ DOMAIN s.rows \subseteq RunIds
    BY NoneIsNoRun, RowsBounded DEF Good
  <1>2. /\ u \in Store /\ u.file = s.file /\ u.told = s.told /\ u.past = s.past
        /\ DOMAIN u.rows = DOMAIN s.rows /\ Len(u.rows) = Len(s.rows)
        /\ \A q \in DOMAIN s.rows : q # r => u.rows[q] = s.rows[q]
        /\ u.rows[r].status = "running" /\ u.rows[r].task = t
        /\ u.rows[r].rev = s.rows[r].rev
        /\ u.task[t].status = "in_progress" /\ u.task[t].run = s.task[t].run
        /\ u.task[t].rev = s.task[t].rev /\ u.task[t].ok = s.task[t].ok
        /\ u.active[t] = r
        /\ \A q \in Tasks : q # t => u.task[q] = s.task[q] /\ u.active[q] = s.active[q]
    BY <1>1, StartedFacts
  <1>. HIDE DEF u
  <1>3. \A q \in Tasks : Of(u, q) = Of(s, q)
    BY <1>1, <1>2 DEF Of
  <1>4. s.rows[r].rev = s.task[t].rev /\ s.task[t].ok = s.task[t].rev
    BY <1>1 DEF GoodTask, Pledged
  <1>5. \A q \in Of(s, t) : q # r =>
          u.rows[q] = s.rows[q] /\ ses2[q] = ses[q] /\ (Ended(u, q) <=> Ended(s, q))
    BY <1>1, <1>2 DEF Ended
  <1>6. ~ Ended(u, r)
    BY <1>2 DEF Ended, TERMINAL_RUN_STATUSES
  <1>7. GoodTask(u, ses2, up, t)
    <2>1. Referenced(u, t)
      BY <1>1, <1>2, <1>3 DEF GoodTask, Referenced
    <2>2. AtRest(u, t)
      BY <1>2 DEF AtRest, Terminal
    <2>3. OneOpen(u, t)
      BY <1>1, <1>3, <1>5 DEF GoodTask, OneOpen
    <2>4. Pledged(u, t)
      BY <1>2, <1>4 DEF Pledged
    <2>5. Linked(u, ses2, t)
      <3>1. SUFFICES ASSUME NEW q \in Of(s, t), q # r, ses[q] = "working",
                            t \notin s.past.overtaken, q \notin s.told \/ ~ Ended(s, q)
                     PROVE  FALSE
        BY <1>2, <1>3, <1>4, <1>5 DEF Linked
      <3>2. s.task[t].status = "in_progress"
        BY <1>1, <3>1 DEF GoodTask, Linked
      <3>. QED
        BY <3>2
    <2>6. Unstarted(u, ses2, t)
      BY <1>1, <1>3, <1>5 DEF GoodTask, Unstarted
    <2>7. Housed(u, ses2, up, t)
      BY <1>1, <1>2, <1>3, <1>5 DEF GoodTask, Housed
    <2>8. Backed(u, t) /\ Done(u, t)
      BY <1>1, <1>2 DEF Backed, Done
    <2>. QED
      BY <2>1, <2>2, <2>3, <2>4, <2>5, <2>6, <2>7, <2>8 DEF GoodTask
  <1>8. Elsewhere(s, u, ses, ses2, t)
    <2>1. SUFFICES ASSUME NEW q \in Tasks, q # t
                   PROVE  /\ u.task[q] = s.task[q] /\ u.active[q] = s.active[q]
                          /\ Of(u, q) = Of(s, q)
                          /\ \A p \in Of(s, q) : u.rows[p] = s.rows[p] /\ ses2[p] = ses[p]
      BY <1>2 DEF Elsewhere
    <2>2. \A p \in Of(s, q) : p # r /\ p \in DOMAIN s.rows
      BY <2>1 DEF Of
    <2>. QED
      BY <1>1, <1>2, <1>3, <2>1, <2>2
  <1>9. Len(u.rows) <= MaxRuns
    BY <1>2 DEF Good
  <1>10. Good(u, ses2, up)
    BY <1>2, <1>7, <1>8, <1>9, OneTask
  <1>11. Stays(s, u, t)
    BY DEF Stays, Terminal
  <1>12. Moved(s, u)
    BY <1>2, <1>11, OneMoved
  <1>. QED
    BY <1>2, <1>10, <1>12 DEF u

\* The finally of finishRun: the entry and the session are forgotten.
Left(s, t, r) == [s EXCEPT !.active[t] = None, !.told = @ \ {r}]

\* It changes nothing else.
LEMMA LeftFacts ==
  ASSUME NEW s \in Store, NEW t \in Tasks, NEW r
  PROVE  LET u == Left(s, t, r)
         IN  /\ u \in Store /\ u.task = s.task /\ u.file = s.file /\ u.rows = s.rows
             /\ u.told = s.told \ {r} /\ u.past = s.past /\ u.active[t] = None
             /\ \A q \in Tasks : q # t => u.active[q] = s.active[q]
  <1>. DEFINE c == Cleared(s, t)
              x == s.told \ {r}
              u == Left(s, t, r)
  <1>1. /\ c \in Store /\ c.task = s.task /\ c.file = s.file /\ c.rows = s.rows
        /\ c.told = s.told /\ c.past = s.past /\ c.active[t] = None
        /\ \A q \in Tasks : q # t => c.active[q] = s.active[q]
    BY ClearedFacts
  <1>2. x \in RunSets
    BY StoreFields DEF RunSets
  <1>3. u = WithTold(c, x)
    <2>1. s = [task |-> s.task, file |-> s.file, rows |-> s.rows,
               active |-> s.active, told |-> s.told, past |-> s.past]
      BY StoreFields
    <2>. QED
      BY <2>1 DEF Left, Cleared, WithActive, WithTold
  <1>. HIDE DEF c, u
  <1>4. /\ u \in Store /\ u.task = c.task /\ u.file = c.file /\ u.rows = c.rows
        /\ u.active = c.active /\ u.told = x /\ u.past = c.past
    BY <1>1, <1>2, <1>3, WithToldFacts
  <1>. QED
    BY <1>1, <1>4 DEF u

\* ... of a run that has ended, or whose task was overtaken.
LEMMA LeftGood ==
  ASSUME NEW s, NEW ses, NEW ses2, NEW up, NEW t \in Tasks, NEW r \in Of(s, t),
         Good(s, ses, up), OverAt(ses, ses2, r), Ended(s, r) \/ t \in s.past.overtaken
  PROVE  LET u == Left(s, t, r)
         IN  /\ Good(u, ses2, up) /\ Moved(s, u) /\ u.past = s.past
             /\ u.rows = s.rows
  <1>. DEFINE u == Left(s, t, r)
  <1>1. s \in Store
    BY DEF Good
  <1>2. /\ u \in Store /\ u.task = s.task /\ u.file = s.file /\ u.rows = s.rows
        /\ u.told = s.told \ {r} /\ u.past = s.past /\ u.active[t] = None
        /\ \A q \in Tasks : q # t => u.active[q] = s.active[q]
    BY <1>1, LeftFacts
  <1>. HIDE DEF u
  <1>3. \A q \in DOMAIN s.rows : q # r /\ q \in s.told => q \in u.told
    BY <1>2
  <1>4. u.active[t] \in {None, s.active[t]}
    BY <1>2
  <1>5. Good(u, ses2, up) /\ Moved(s, u)
    BY <1>2, <1>3, <1>4, SessionOver
  <1>. QED
    BY <1>2, <1>5 DEF u

\* finishRun after its wait
LEMMA FinishedGood ==
  ASSUME NEW s, NEW ses, NEW ses2, NEW up, NEW r \in DOMAIN s.rows,
         NEW result \in {"completed", "cancelled", "failed"}, Good(s, ses, up),
         OverAt(ses, ses2, r), ses[r] = "working", AtWork(s, ses)
  PROVE  LET u == Left(Finished(s, r, result), s.rows[r].task, r)
         IN  /\ Good(u, ses2, up) /\ Moved(s, u) /\ u.past = s.past
             /\ DOMAIN u.rows = DOMAIN s.rows
  <1>. DEFINE t == s.rows[r].task
              c == Finished(s, r, result)
              u == Left(c, t, r)
  <1>1. s \in Store /\ t \in Tasks /\ r \in Of(s, t) /\ r # None
    BY StoreTypes DEF Good, Of, RunRow, None
  <1>2. OverAt(ses2, ses2, r)
    BY DEF OverAt
  <1>3. ~ Ended(s, r) =>
          \/ t \in s.past.overtaken
          \/ s.task[t].status = "in_progress" /\ s.task[t].run = r
    BY <1>1 DEF Good, GoodTask, Linked
  <1>. HIDE DEF t
  <1>4. CASE c = s /\ (Ended(s, r) \/ t \in s.past.overtaken)
    BY <1>1, <1>4, LeftGood DEF t
  <1>5. CASE /\ Good(c, ses2, up) /\ Moved(s, c) /\ c.past = s.past
             /\ DOMAIN c.rows = DOMAIN s.rows /\ Ended(c, r)
             /\ c.rows[r].task = s.rows[r].task
    <2>. HIDE DEF c
    <2>1. r \in Of(c, t)
      BY <1>5 DEF Of, t
    <2>2. /\ Good(u, ses2, up) /\ Moved(c, u) /\ u.past = c.past /\ u.rows = c.rows
      BY <1>1, <1>2, <1>5, <2>1, LeftGood
    <2>. HIDE DEF u
    <2>3. Moved(s, u)
      BY <1>5, <2>2, MovedTwice
    <2>. QED
      BY <1>5, <2>2, <2>3 DEF u, c, t
  <1>6. CASE Ended(s, r)
    BY <1>4, <1>6 DEF Finished
  <1>7. CASE ~ Ended(s, r) /\ result = "completed"
    <2>1. c = CompletedBy(s, r)
      BY <1>7 DEF Finished, CompletedBy
    <2>. HIDE DEF c, u
    <2>2. /\ Good(c, ses2, up) /\ Moved(s, c) /\ c.past = s.past
          /\ DOMAIN c.rows = DOMAIN s.rows /\ Ended(c, r)
          /\ c.rows[r].task = s.rows[r].task
      BY <1>7, <2>1, CompletedGood
    <2>. QED
      BY <1>5, <2>2
  <1>. DEFINE refuses == /\ result = "cancelled" /\ hub = "up"
                         /\ s.task[t].rev = s.rows[r].rev
                         /\ s.task[t].status \notin {"completed", "expired"}
  <1>8. CASE ~ Ended(s, r) /\ result # "completed" /\ ~ refuses
    <2>1. c = Failed(s, r)
      BY <1>8 DEF Finished, t
    <2>. HIDE DEF c, u, refuses
    <2>2. /\ Good(c, ses2, up) /\ Moved(s, c) /\ c.past = s.past
          /\ DOMAIN c.rows = DOMAIN s.rows /\ Ended(c, r)
          /\ c.rows[r].task = s.rows[r].task
      BY <2>1, FailedGood
    <2>. QED
      BY <1>5, <2>2
  <1>9. CASE /\ ~ Ended(s, r) /\ refuses
             /\ s.task[t].status \in {"cancelled", "deleted"}
    <2>1. c = s
      BY <1>9 DEF Finished, t
    <2>2. t \in s.past.overtaken
      BY <1>3, <1>9
    <2>. QED
      BY <1>4, <2>1, <2>2
  <1>10. CASE /\ ~ Ended(s, r) /\ refuses
              /\ s.task[t].status \notin {"cancelled", "deleted"}
    <2>1. c = Cancelled(s, t, "cancelled", "hub")
      BY <1>10 DEF Finished, t
    <2>2. s.task[t].status \notin Terminal /\ "hub" \in Authors
      BY <1>10 DEF Terminal, Authors
    <2>. HIDE DEF c, refuses
    <2>3. /\ Good(c, ses, up) /\ Moved(s, c) /\ c.past = s.past
          /\ DOMAIN c.rows = DOMAIN s.rows
          /\ \A q \in DOMAIN s.rows : c.rows[q].task = s.rows[q].task
          /\ \A q \in DOMAIN s.rows : q = s.task[t].run => Ended(c, q)
      <3>. DEFINE v == Cancelled(s, t, "cancelled", "hub")
      <3>1. "cancelled" \in {"cancelled", "deleted"}
        OBVIOUS
      <3>2. /\ Good(v, ses, up) /\ Moved(s, v) /\ v.past = s.past
            /\ DOMAIN v.rows = DOMAIN s.rows
            /\ \A q \in DOMAIN s.rows : v.rows[q].task = s.rows[q].task
            /\ \A q \in DOMAIN s.rows : q = s.task[t].run => Ended(v, q)
        BY <1>1, <2>2, <3>1, CancelledGood DEF SamePast
      <3>. HIDE DEF v
      <3>3. c = v
        BY <2>1 DEF v
      <3>. QED
        BY <3>2, <3>3
    <2>4. r \in Of(c, t)
      BY <2>3 DEF Of, t
    <2>5. Ended(c, r) \/ t \in c.past.overtaken
      BY <1>3, <1>10, <2>3
    <2>6. Good(u, ses2, up) /\ Moved(c, u) /\ u.past = c.past /\ u.rows = c.rows
      BY <1>1, <2>3, <2>4, <2>5, LeftGood
    <2>. HIDE DEF u
    <2>7. Moved(s, u)
      BY <2>3, <2>6, MovedTwice
    <2>. QED
      BY <2>3, <2>6, <2>7 DEF u, c, t
  <1>. QED
    BY <1>6, <1>7, <1>8, <1>9, <1>10

-----------------------------------------------------------------------------
(* The death of the process *)

\* Nothing is entered and no session is left.
Silent(u, ses) ==
  /\ \A q \in Tasks : u.active[q] = None
  /\ \A r \in DOMAIN u.rows : ses[r] = "over"

\* What has to be shown of a task then.
LEMMA SilentTask ==
  ASSUME NEW u, NEW ses, NEW t \in Tasks, Silent(u, ses),
         u.task[t].run # None => u.task[t].run \in Of(u, t),
         AtRest(u, t), OneOpen(u, t), Pledged(u, t), Backed(u, t), Done(u, t)
  PROVE  GoodTask(u, ses, FALSE, t)
  <1>1. u.active[t] = None /\ \A r \in Of(u, t) : ses[r] = "over"
    BY DEF Silent, Of
  <1>2. Referenced(u, t) /\ Linked(u, ses, t) /\ Unstarted(u, ses, t)
        /\ Housed(u, ses, FALSE, t)
    BY <1>1 DEF Referenced, Linked, Unstarted, Housed
  <1>. QED
    BY <1>2 DEF GoodTask

\* A task whose row and runs survive as they were.
LEMMA SilentSame ==
  ASSUME NEW s, NEW u, NEW ses, NEW ses2, NEW up, NEW t \in Tasks,
         GoodTask(s, ses, up, t), Silent(u, ses2),
         u.task[t] = s.task[t], Of(u, t) = Of(s, t),
         \A r \in Of(s, t) : u.rows[r] = s.rows[r],
         t \in s.past.overtaken => t \in u.past.overtaken,
         t \in s.past.torn => t \in u.past.torn
  PROVE  GoodTask(u, ses2, FALSE, t)
  <1>1. \A r \in Of(s, t) : Ended(u, r) <=> Ended(s, r)
    BY DEF Ended
  <1>2. /\ u.task[t].run # None => u.task[t].run \in Of(u, t)
        /\ AtRest(u, t)
    BY DEF GoodTask, Referenced, AtRest
  <1>3. OneOpen(u, t)
    BY <1>1 DEF GoodTask, OneOpen
  <1>4. Pledged(u, t)
    BY <1>1 DEF GoodTask, Pledged, Referenced
  <1>5. Backed(u, t)
    BY DEF GoodTask, Backed, Referenced
  <1>6. Done(u, t)
    BY DEF GoodTask, Done
  <1>. QED
    BY <1>2, <1>3, <1>4, <1>5, <1>6, SilentTask

\* What Dies makes of the store.
LEMMA DiesFacts ==
  ASSUME Now \in Store, Dies, task' \in TaskTable, rows' \in RunTable, past' \in Past,
         Len(rows') <= MaxRuns
  PROVE  /\ Now' \in Store /\ Silent(Now', session') /\ Now'.file = file
         /\ Now'.task = task' /\ Now'.rows = rows' /\ Now'.past = past'
         /\ session' \in [RunIds -> {"none", "starting", "working", "over"}]
         /\ \A r \in RunIds : session'[r] \notin {"starting", "working"}
  <1>1. Now' = [task |-> task', file |-> file, rows |-> rows', active |-> active',
                told |-> told', past |-> past']
    BY DEF Now, Dies
  <1>2. /\ active' = [t \in Tasks |-> None] /\ told' = {}
        /\ session' = [r \in RunIds |-> IF r \in DOMAIN rows' THEN "over" ELSE "none"]
    BY DEF Dies
  <1>3. file \in FileTable
    BY StoreFields DEF Now
  <1>4. active' \in Entries /\ told' \in RunSets
    BY <1>2 DEF Entries, RunSets, None
  <1>5. Now' \in Store
    BY <1>1, <1>3, <1>4 DEF Store
  <1>6. DOMAIN rows' \subseteq RunIds
    <2>1. rows' \in Seq(RunRow)
      BY DEF RunTable
    <2>2. Len(rows') \in Nat /\ DOMAIN rows' = 1..Len(rows')
      BY <2>1
    <2>. QED
      BY <2>2, BoundsAssumption DEF RunIds
  <1>7. Silent(Now', session')
    BY <1>1, <1>2, <1>6 DEF Silent
  <1>. QED
    BY <1>1, <1>2, <1>5, <1>7

\* The store of a state.
LEMMA NowFacts ==
  /\ Now.task = task /\ Now.file = file /\ Now.rows = rows
  /\ Now.active = active /\ Now.told = told /\ Now.past = past
  BY DEF Now

\* A crash between two steps
LEMMA CrashGood ==
  ASSUME NEW ses, NEW up, Good(Now, ses, up), Crash
  PROVE  Good(Now', session', FALSE) /\ Moved(Now, Now')
  <1>1. Now \in Store /\ task \in TaskTable /\ rows \in RunTable /\ past \in Past
        /\ Len(rows) <= MaxRuns
    BY StoreFields, NowFacts DEF Good
  <1>2. task' = task /\ rows' = rows /\ past' = past /\ Dies
    BY DEF Crash
  <1>3. /\ Now' \in Store /\ Silent(Now', session') /\ Now'.file = file
        /\ Now'.task = task /\ Now'.rows = rows /\ Now'.past = past
    BY <1>1, <1>2, DiesFacts
  <1>4. ASSUME NEW t \in Tasks
        PROVE  GoodTask(Now', session', FALSE, t)
    <2>1. GoodTask(Now, ses, up, t)
      BY DEF Good
    <2>2. Of(Now', t) = Of(Now, t)
      BY <1>3, NowFacts DEF Of
    <2>. QED
      BY <1>3, <2>1, <2>2, NowFacts, SilentSame
  <1>5. Moved(Now, Now')
    BY <1>3, NowFacts DEF Moved, Stays
  <1>. QED
    BY <1>1, <1>3, <1>4, <1>5 DEF Good

\* A row of a run with another status.
LEMMA OtherStatus ==
  ASSUME NEW x \in RunTable, NEW r \in DOMAIN x,
         NEW status \in {"starting", "running"} \cup TERMINAL_RUN_STATUSES
  PROVE  LET y == [x EXCEPT ![r].status = status]
         IN  /\ y \in RunTable /\ DOMAIN y = DOMAIN x /\ Len(y) = Len(x)
             /\ y[r].status = status /\ y[r].task = x[r].task /\ y[r].rev = x[r].rev
             /\ \A q \in DOMAIN x : q # r => y[q] = x[q]
  <1>. DEFINE row == [x[r] EXCEPT !.status = status]
              y == [x EXCEPT ![r] = row]
  <1>1. x \in Seq(RunRow)
    BY DEF RunTable
  <1>2. x[r] \in RunRow /\ r \in DOMAIN x
    BY <1>1
  <1>3. /\ row \in RunRow /\ row.status = status /\ row.task = x[r].task
        /\ row.rev = x[r].rev
    BY <1>2 DEF RunRow
  <1>. HIDE DEF row
  <1>4. /\ y \in Seq(RunRow) /\ DOMAIN y = DOMAIN x /\ Len(y) = Len(x)
        /\ y[r] = row /\ \A q \in DOMAIN x : q # r => y[q] = x[q]
    BY <1>1, <1>2, <1>3
  <1>. QED
    BY <1>3, <1>4 DEF row, RunTable

\* A crash between the statement on a run and the one on its task
LEMMA CrashMidwayGood ==
  ASSUME NEW ses, NEW up, NEW r \in DOMAIN rows, Good(Now, ses, up), CrashMidway(r)
  PROVE  /\ Good(Now', session', FALSE) /\ Moved(Now, Now')
         /\ past'.claims = past.claims
         /\ session' \in [RunIds -> {"none", "starting", "working", "over"}]
         /\ \A q \in RunIds : session'[q] \notin {"starting", "working"}
  <1>. DEFINE t == rows[r].task
  <1>1. /\ Now \in Store /\ task \in TaskTable /\ rows \in RunTable /\ past \in Past
        /\ Len(rows) <= MaxRuns /\ t \in Tasks /\ r \in Of(Now, t)
    <2>1. Now \in Store
      BY DEF Good
    <2>2. task \in TaskTable /\ rows \in RunTable /\ past \in Past
      BY <2>1, StoreFields, NowFacts
    <2>3. rows[r] \in RunRow
      BY <2>1, StoreTypes, NowFacts
    <2>. QED
      BY <2>1, <2>2, <2>3, NowFacts DEF Good, Of, RunRow
  <1>2. PICK status \in LastWords(r) :
          /\ rows' = [rows EXCEPT ![r].status = status]
          /\ past' = IF status = "running" THEN past
                     ELSE [past EXCEPT !.torn = @ \cup {rows[r].task}]
    BY DEF CrashMidway
  <1>3. task' = task /\ Dies /\ ~ Ended(Now, r)
    BY DEF CrashMidway
  <1>4. /\ status \in {"starting", "running"} \cup TERMINAL_RUN_STATUSES
        /\ \/ status \in TERMINAL_RUN_STATUSES
           \/ status = "running" /\ StartStands(r)
    BY DEF LastWords, TERMINAL_RUN_STATUSES
  <1>5. /\ rows' \in RunTable /\ DOMAIN rows' = DOMAIN rows /\ Len(rows') = Len(rows)
        /\ rows'[r].status = status /\ rows'[r].task = t /\ rows'[r].rev = rows[r].rev
        /\ \A q \in DOMAIN rows : q # r => rows'[q] = rows[q]
    <2>. DEFINE y == [rows EXCEPT ![r].status = status]
    <2>1. /\ y \in RunTable /\ DOMAIN y = DOMAIN rows /\ Len(y) = Len(rows)
          /\ y[r].status = status /\ y[r].task = rows[r].task /\ y[r].rev = rows[r].rev
          /\ \A q \in DOMAIN rows : q # r => y[q] = rows[q]
      BY <1>1, <1>4, OtherStatus
    <2>2. rows' = y
      BY <1>2
    <2>. HIDE DEF y
    <2>. QED
      BY <2>1, <2>2
  <1>6. /\ past' \in Past /\ past'.overtaken = past.overtaken
        /\ past.torn \subseteq past'.torn /\ past'.claims = past.claims
        /\ status # "running" => t \in past'.torn
    BY <1>1, <1>2 DEF Past
  <1>. HIDE DEF t
  <1>7. /\ Now' \in Store /\ Silent(Now', session') /\ Now'.file = file
        /\ Now'.task = task /\ Now'.rows = rows' /\ Now'.past = past'
        /\ session' \in [RunIds -> {"none", "starting", "working", "over"}]
        /\ \A q \in RunIds : session'[q] \notin {"starting", "working"}
    BY <1>1, <1>3, <1>5, <1>6, DiesFacts
  <1>8. \A q : Of(Now', q) = Of(Now, q)
    BY <1>5, <1>7, NowFacts DEF Of, t
  <1>9. \A q \in DOMAIN rows : /\ Ended(Now, q) => Ended(Now', q)
                               /\ Now'.rows[q].rev = Now.rows[q].rev
                               /\ q # r => Now'.rows[q] = Now.rows[q]
    BY <1>3, <1>5, <1>7, NowFacts DEF Ended
  <1>10. ASSUME NEW q \in Tasks, q # t
         PROVE  GoodTask(Now', session', FALSE, q)
    <2>1. GoodTask(Now, ses, up, q)
      BY DEF Good
    <2>2. \A p \in Of(Now, q) : Now'.rows[p] = Now.rows[p]
      BY <1>1, <1>5, <1>7, <1>10, NowFacts DEF Of, t
    <2>. QED
      BY <1>6, <1>7, <1>8, <2>1, <2>2, NowFacts, SilentSame
  <1>11. GoodTask(Now', session', FALSE, t)
    <2>1. GoodTask(Now, ses, up, t) /\ Of(Now, t) \subseteq DOMAIN rows
      BY <1>1, NowFacts DEF Good, Of
    <2>2. /\ Now'.task[t].run # None => Now'.task[t].run \in Of(Now', t)
          /\ AtRest(Now', t)
      BY <1>7, <1>8, <2>1, NowFacts DEF GoodTask, Referenced, AtRest
    <2>3. OneOpen(Now', t)
      BY <1>8, <1>9, <2>1 DEF GoodTask, OneOpen
    <2>4. Pledged(Now', t)
      <3>1. SUFFICES ASSUME task[t].run # None, ~ Ended(Now', task[t].run)
                     PROVE  /\ rows'[task[t].run].rev = task[t].rev
                            /\ task[t].ok = task[t].rev
        BY <1>7 DEF Pledged
      <3>2. task[t].run \in Of(Now, t) /\ ~ Ended(Now, task[t].run)
        BY <1>9, <2>1, <3>1, NowFacts DEF GoodTask, Referenced
      <3>. QED
        BY <1>7, <1>9, <2>1, <3>1, <3>2, NowFacts DEF GoodTask, Pledged
    <2>5. CASE status # "running"
      <3>1. Backed(Now', t) /\ Done(Now', t)
        BY <1>6, <1>7, <2>5 DEF Backed, Done
      <3>. QED
        BY <1>1, <1>7, <2>2, <2>3, <2>4, <3>1, SilentTask
    <2>6. CASE status = "running"
      <3>1. task[t].status = rows[r].from
        BY <1>4, <2>6 DEF StartStands, t, TERMINAL_RUN_STATUSES
      <3>2. rows[r].from \in {"approved", "failed"}
        BY <1>1, StoreTypes, NowFacts DEF RunRow
      <3>3. Backed(Now', t) /\ Done(Now', t)
        BY <1>7, <3>1, <3>2 DEF Backed, Done
      <3>. QED
        BY <1>1, <1>7, <2>2, <2>3, <2>4, <3>3, SilentTask
    <2>. QED
      BY <2>5, <2>6
  <1>12. Moved(Now, Now')
    BY <1>6, <1>7, NowFacts DEF Moved, Stays
  <1>. QED
    BY <1>1, <1>5, <1>6, <1>7, <1>10, <1>11, <1>12 DEF Good

\* A crash within a claim
LEMMA CrashInClaimGood ==
  ASSUME NEW ses, NEW up, NEW t \in Tasks, Good(Now, ses, up), CrashInClaim(t)
  PROVE  /\ Good(Now', session', FALSE) /\ Moved(Now, Now')
         /\ session' \in [RunIds -> {"none", "starting", "working", "over"}]
         /\ \A q \in RunIds : session'[q] \notin {"starting", "working"}
  <1>. DEFINE n == NewRun(Now, t, "user")
              r == Len(rows) + 1
  <1>1. /\ Now \in Store /\ task \in TaskTable /\ rows \in RunTable /\ past \in Past
        /\ Len(rows) < MaxRuns /\ rows \in Seq(RunRow)
        /\ Len(rows) \in Nat /\ DOMAIN rows = 1..Len(rows)
    <2>1. Now \in Store
      BY DEF Good
    <2>2. task \in TaskTable /\ rows \in RunTable /\ past \in Past
      BY <2>1, StoreFields, NowFacts
    <2>. QED
      BY <2>1, <2>2, StoreTypes, NowFacts DEF CrashInClaim
  <1>2. /\ task[t].status \in {"approved", "failed"} /\ task[t].run = None
        /\ \A q \in DOMAIN rows : rows[q].task = t => Ended(Now, q)
    BY NowFacts DEF CrashInClaim, MayRun
  <1>3. rows' = Append(rows, n) /\ n \in RunRow
    BY <1>1, <1>2, NowFacts, ClaimedFacts DEF CrashInClaim, Authors
  <1>4. task' = task /\ past' = past /\ Dies
    BY DEF CrashInClaim
  <1>5. n.task = t /\ n.status = "starting"
    BY DEF NewRun
  <1>. HIDE DEF n
  <1>6. /\ rows' \in RunTable /\ Len(rows') = r /\ r <= MaxRuns
        /\ DOMAIN rows' = DOMAIN rows \cup {r} /\ r \notin DOMAIN rows
        /\ rows'[r] = n /\ \A q \in DOMAIN rows : rows'[q] = rows[q]
    BY <1>1, <1>3, BoundsAssumption DEF RunTable
  <1>. HIDE DEF r
  <1>7. /\ Now' \in Store /\ Silent(Now', session') /\ Now'.file = file
        /\ Now'.task = task /\ Now'.rows = rows' /\ Now'.past = past
        /\ session' \in [RunIds -> {"none", "starting", "working", "over"}]
        /\ \A q \in RunIds : session'[q] \notin {"starting", "working"}
    BY <1>1, <1>4, <1>6, DiesFacts
  <1>8. ASSUME NEW q \in Tasks, q # t
        PROVE  GoodTask(Now', session', FALSE, q)
    <2>1. GoodTask(Now, ses, up, q)
      BY DEF Good
    <2>2. Of(Now', q) = Of(Now, q)
      BY <1>5, <1>6, <1>7, <1>8, NowFacts DEF Of
    <2>3. \A p \in Of(Now, q) : Now'.rows[p] = Now.rows[p]
      BY <1>6, <1>7, NowFacts DEF Of
    <2>. QED
      BY <1>7, <2>1, <2>2, <2>3, NowFacts, SilentSame
  <1>9. GoodTask(Now', session', FALSE, t)
    <2>1. Of(Now', t) = Of(Now, t) \cup {r}
      BY <1>5, <1>6, <1>7, NowFacts DEF Of
    <2>2. \A q \in Of(Now, t) : Ended(Now', q)
      BY <1>2, <1>6, <1>7, NowFacts DEF Of, Ended
    <2>3. OneOpen(Now', t)
      BY <2>1, <2>2 DEF OneOpen
    <2>4. Now'.task[t].run = None /\ Now'.task[t].status \in {"approved", "failed"}
      BY <1>2, <1>7
    <2>5. AtRest(Now', t) /\ Pledged(Now', t) /\ Backed(Now', t) /\ Done(Now', t)
      BY <2>4 DEF AtRest, Pledged, Backed, Done, Terminal
    <2>. QED
      BY <1>7, <2>3, <2>4, <2>5, SilentTask
  <1>10. Moved(Now, Now')
    BY <1>7, NowFacts DEF Moved, Stays
  <1>. QED
    BY <1>6, <1>7, <1>8, <1>9, <1>10 DEF Good

\* The rows of which those in X are interrupted.
Interrupted(x, X) ==
  [r \in DOMAIN x |-> IF r \in X THEN [x[r] EXCEPT !.status = "interrupted"] ELSE x[r]]

\* They are rows of the same runs.
LEMMA InterruptedFacts ==
  ASSUME NEW x \in RunTable, NEW X
  PROVE  LET y == Interrupted(x, X)
         IN  /\ y \in RunTable /\ DOMAIN y = DOMAIN x /\ Len(y) = Len(x)
             /\ \A r \in DOMAIN x :
                  /\ y[r].task = x[r].task /\ y[r].rev = x[r].rev
                  /\ r \in X => y[r].status = "interrupted"
                  /\ r \notin X => y[r] = x[r]
  <1>. DEFINE row(r) == [x[r] EXCEPT !.status = "interrupted"]
              y == Interrupted(x, X)
  <1>1. x \in Seq(RunRow)
    BY DEF RunTable
  <1>2. /\ Len(x) \in Nat /\ DOMAIN x = 1..Len(x)
        /\ \A r \in DOMAIN x : x[r] \in RunRow
    BY <1>1
  <1>3. \A r \in DOMAIN x : /\ row(r) \in RunRow /\ row(r).status = "interrupted"
                            /\ row(r).task = x[r].task /\ row(r).rev = x[r].rev
    BY <1>2 DEF RunRow, TERMINAL_RUN_STATUSES
  <1>4. y = [r \in DOMAIN x |-> IF r \in X THEN row(r) ELSE x[r]]
    BY DEF Interrupted
  <1>. HIDE DEF row
  <1>5. \A r \in DOMAIN x : y[r] = IF r \in X THEN row(r) ELSE x[r]
    BY <1>4
  <1>6. y \in [1..Len(x) -> RunRow]
    BY <1>2, <1>3, <1>4
  <1>. HIDE DEF y
  <1>7. y \in Seq(RunRow) /\ Len(y) = Len(x) /\ DOMAIN y = DOMAIN x
    BY <1>2, <1>6
  <1>. QED
    BY <1>3, <1>5, <1>7 DEF RunTable, y

\* The row of a task whose run is lost when dispose ends.
Lost(e) == [e EXCEPT !.status = "failed", !.run = None, !.by = "hub"]

\* It is a row that names no run.
LEMMA LostTypes ==
  ASSUME NEW e \in TaskRow
  PROVE  Lost(e) \in TaskRow /\ Lost(e).run = None /\ Lost(e).status = "failed"
  <1>1. None \in Nat
    BY DEF None
  <1>. QED
    BY <1>1, Zenon DEF Lost, TaskRow, Statuses, Authors

\* The end of dispose
LEMMA StoppedGood ==
  ASSUME NEW ses, NEW up, Good(Now, ses, up), Stopped
  PROVE  /\ Good(Now', session', FALSE)
         /\ session' \in [RunIds -> {"none", "starting", "working", "over"}]
         /\ \A q \in RunIds : session'[q] \notin {"starting", "working"}
         /\ \A t \in Tasks : active[t] = None => task'[t] = task[t]
  <1>. DEFINE left == {active[t] : t \in Tasks} \ {None}
              f == [t \in Tasks |-> IF active[t] = None THEN task[t] ELSE Lost(task[t])]
              x == Interrupted(rows, left)
  <1>1. /\ Now \in Store /\ task \in TaskTable /\ rows \in RunTable /\ past \in Past
        /\ Len(rows) <= MaxRuns
    BY StoreFields, NowFacts DEF Good
  <1>2. \A t \in Tasks : task[t] \in TaskRow
    BY <1>1 DEF TaskTable
  <1>3. task' = f /\ rows' = x /\ past' = past /\ Dies
    BY DEF Stopped, Lost, Interrupted
  <1>4. \A t \in Tasks : f[t] = IF active[t] = None THEN task[t] ELSE Lost(task[t])
    OBVIOUS
  <1>5. f \in TaskTable
    BY <1>2, LostTypes DEF TaskTable
  <1>. HIDE DEF left, f
  <1>6. /\ x \in RunTable /\ DOMAIN x = DOMAIN rows /\ Len(x) = Len(rows)
        /\ \A r \in DOMAIN rows :
             /\ x[r].task = rows[r].task /\ x[r].rev = rows[r].rev
             /\ r \in left => x[r].status = "interrupted"
             /\ r \notin left => x[r] = rows[r]
    BY <1>1, InterruptedFacts
  <1>. HIDE DEF x
  <1>7. /\ Now' \in Store /\ Silent(Now', session')
        /\ Now'.task = f /\ Now'.rows = x /\ Now'.past = past
        /\ session' \in [RunIds -> {"none", "starting", "working", "over"}]
        /\ \A q \in RunIds : session'[q] \notin {"starting", "working"}
    BY <1>1, <1>3, <1>5, <1>6, DiesFacts
  <1>8. \A t : Of(Now', t) = Of(Now, t)
    BY <1>6, <1>7, NowFacts DEF Of
  <1>9. \A r \in DOMAIN rows : Ended(Now, r) => Ended(Now', r)
    BY <1>6, <1>7, NowFacts DEF Ended, TERMINAL_RUN_STATUSES
  <1>10. ASSUME NEW t \in Tasks
         PROVE  GoodTask(Now', session', FALSE, t)
    <2>1. GoodTask(Now, ses, up, t) /\ Of(Now, t) \subseteq DOMAIN rows
      BY NowFacts DEF Good, Of
    <2>2. OneOpen(Now', t)
      BY <1>8, <1>9, <2>1 DEF GoodTask, OneOpen
    <2>3. CASE active[t] # None
      <3>1. Now'.task[t].run = None /\ Now'.task[t].status = "failed"
        BY <1>2, <1>4, <1>7, <2>3, LostTypes
      <3>2. AtRest(Now', t) /\ Pledged(Now', t) /\ Backed(Now', t) /\ Done(Now', t)
        BY <3>1 DEF AtRest, Pledged, Backed, Done, Terminal
      <3>. QED
        BY <1>7, <2>2, <3>1, <3>2, SilentTask
    <2>4. CASE active[t] = None
      <3>1. Now'.task[t] = task[t]
        BY <1>4, <1>7, <2>4
      <3>2. \A r \in Of(Now, t) : r \notin left
        <4>1. SUFFICES ASSUME NEW r \in Of(Now, t), NEW q \in Tasks, active[q] = r,
                              r # None
                       PROVE  FALSE
          BY DEF left
        <4>2. r \in Of(Now, q)
          BY <4>1, NowFacts DEF Good, GoodTask, Referenced
        <4>3. q = t
          BY <4>2 DEF Of
        <4>. QED
          BY <2>4, <4>1, <4>3
      <3>3. \A r \in Of(Now, t) : Now'.rows[r] = Now.rows[r]
        BY <1>6, <1>7, <2>1, <3>2, NowFacts
      <3>. QED
        BY <1>7, <1>8, <2>1, <3>1, <3>3, NowFacts, SilentSame
    <2>. QED
      BY <2>3, <2>4
  <1>11. \A t \in Tasks : active[t] = None => task'[t] = task[t]
    BY <1>3, <1>4
  <1>12. Len(Now'.rows) <= MaxRuns
    BY <1>1, <1>6, <1>7
  <1>. QED
    BY <1>7, <1>10, <1>11, <1>12 DEF Good

\* The row of a task that names r, after recovery.
LEMMA RecoveredTypes ==
  ASSUME NEW t \in Tasks, NEW r, task[t] \in TaskRow, task[t].status \notin Terminal
  PROVE  /\ Recovered(t, r) \in TaskRow /\ Recovered(t, r).run = None
         /\ Recovered(t, r).status \in {"failed", "approved", "pending_approval"}
  <1>. DEFINE e == task[t]
              asleep == [e EXCEPT !.run = None, !.by = "hub"]
  <1>1. None \in Nat /\ 0 \in Nat
    BY DEF None
  <1>2. asleep \in TaskRow /\ asleep.run = None
    BY <1>1, Zenon DEF TaskRow, Authors
  <1>3. \/ Recovered(t, r) = [asleep EXCEPT !.status = "failed"]
        \/ Recovered(t, r) = [asleep EXCEPT !.status = "approved"]
        \/ Recovered(t, r) = [asleep EXCEPT !.status = "pending_approval", !.ok = 0]
    BY DEF Recovered
  <1>. HIDE DEF asleep
  <1>4. /\ [asleep EXCEPT !.status = "failed"] \in TaskRow
        /\ [asleep EXCEPT !.status = "failed"].run = None
        /\ [asleep EXCEPT !.status = "failed"].status = "failed"
    BY <1>2 DEF TaskRow, Statuses
  <1>5. /\ [asleep EXCEPT !.status = "approved"] \in TaskRow
        /\ [asleep EXCEPT !.status = "approved"].run = None
        /\ [asleep EXCEPT !.status = "approved"].status = "approved"
    BY <1>2 DEF TaskRow, Statuses
  <1>6. /\ [asleep EXCEPT !.status = "pending_approval", !.ok = 0] \in TaskRow
        /\ [asleep EXCEPT !.status = "pending_approval", !.ok = 0].run = None
        /\ [asleep EXCEPT !.status = "pending_approval", !.ok = 0].status =
             "pending_approval"
    BY <1>1, <1>2 DEF TaskRow, Statuses
  <1>. QED
    BY <1>3, <1>4, <1>5, <1>6

\* No session starts or works.
AllOver(ses) == \A r \in RunIds : ses[r] \notin {"starting", "working"}

\* The store after recoverInterruptedRuns
Awake ==
  [Now EXCEPT
     !.rows = [r \in DOMAIN rows |->
        IF Ended(Now, r) THEN rows[r]
        ELSE [rows[r] EXCEPT !.status = "interrupted"]],
     !.task = [t \in Tasks |->
        IF task[t].run = None \/ Ended(Now, task[t].run) THEN task[t]
        ELSE Recovered(t, task[t].run)]]

\* Recovery makes the invariant of a hub that serves from that of one
\* that is down.
LEMMA AwakeGood ==
  ASSUME NEW ses, NEW up, Good(Now, ses, up), AllOver(ses)
  PROVE  Good(Awake, ses, TRUE) /\ Moved(Now, Awake) /\ Awake.past = past
  <1>. DEFINE lost == {r \in DOMAIN rows : ~ Ended(Now, r)}
              f == [t \in Tasks |->
                     IF task[t].run = None \/ Ended(Now, task[t].run) THEN task[t]
                     ELSE Recovered(t, task[t].run)]
              x == Interrupted(rows, lost)
              u == Awake
  <1>1. /\ Now \in Store /\ task \in TaskTable /\ rows \in RunTable
        /\ Len(rows) <= MaxRuns
    BY StoreFields, NowFacts DEF Good
  <1>2. \A t \in Tasks : task[t] \in TaskRow
    BY <1>1 DEF TaskTable
  <1>3. u = [Now EXCEPT !.rows = x, !.task = f]
    <2>1. x = [r \in DOMAIN rows |->
                 IF Ended(Now, r) THEN rows[r]
                 ELSE [rows[r] EXCEPT !.status = "interrupted"]]
      BY DEF Interrupted
    <2>. QED
      BY <2>1 DEF Awake
  <1>4. \A t \in Tasks :
          f[t] = IF task[t].run = None \/ Ended(Now, task[t].run) THEN task[t]
                 ELSE Recovered(t, task[t].run)
    OBVIOUS
  <1>5. /\ x \in RunTable /\ DOMAIN x = DOMAIN rows /\ Len(x) = Len(rows)
        /\ \A r \in DOMAIN rows :
             /\ x[r].task = rows[r].task /\ x[r].rev = rows[r].rev
             /\ ~ Ended(Now, r) => x[r].status = "interrupted"
             /\ Ended(Now, r) => x[r] = rows[r]
    BY <1>1, InterruptedFacts
  <1>6. \A t \in Tasks :
          \/ f[t] = task[t] /\ (task[t].run = None \/ Ended(Now, task[t].run))
          \/ /\ f[t].run = None /\ task[t].status \notin Terminal /\ f[t] \in TaskRow
             /\ f[t].status \in {"failed", "approved", "pending_approval"}
    <2>1. SUFFICES ASSUME NEW t \in Tasks, task[t].run # None,
                          ~ Ended(Now, task[t].run)
                   PROVE  /\ f[t].run = None /\ task[t].status \notin Terminal
                          /\ f[t] \in TaskRow
                          /\ f[t].status \in {"failed", "approved", "pending_approval"}
      BY <1>4
    <2>2. f[t] = Recovered(t, task[t].run)
      BY <1>4, <2>1
    <2>3. task[t].status \notin Terminal
      BY <2>1, NowFacts DEF Good, GoodTask, AtRest
    <2>. HIDE DEF f
    <2>. QED
      BY <1>2, <2>2, <2>3, RecoveredTypes
  <1>7. f \in TaskTable
    BY <1>2, <1>6 DEF TaskTable
  <1>8. u = [task |-> f, file |-> file, rows |-> x, active |-> active,
             told |-> told, past |-> past]
    <2>. HIDE DEF f, x, u
    <2>. QED
      BY <1>3 DEF Now
  <1>. HIDE DEF f, x, lost, u
  <1>9. u \in Store
    BY <1>1, <1>5, <1>7, <1>8, StoreFields, NowFacts DEF Store
  <1>10. /\ u.task = f /\ u.file = file /\ u.rows = x /\ u.active = active
         /\ u.told = told /\ u.past = past
    BY <1>8
  <1>11. \A t : Of(u, t) = Of(Now, t)
    BY <1>5, <1>10, NowFacts DEF Of
  <1>12. \A r \in DOMAIN rows : /\ Ended(u, r)
                                /\ Ended(Now, r) => u.rows[r] = rows[r]
    BY <1>5, <1>10, NowFacts DEF Ended, TERMINAL_RUN_STATUSES
  <1>13. DOMAIN rows \subseteq RunIds
    <2>1. Len(rows) \in Nat /\ DOMAIN rows = 1..Len(rows)
      BY <1>1, StoreTypes, NowFacts
    <2>. QED
      BY <1>1, <2>1, BoundsAssumption DEF RunIds
  <1>14. ASSUME NEW t \in Tasks
         PROVE  GoodTask(u, ses, TRUE, t)
    <2>1. /\ GoodTask(Now, ses, up, t) /\ Of(Now, t) \subseteq DOMAIN rows
          /\ \A r \in Of(u, t) : Ended(u, r) /\ ses[r] \notin {"starting", "working"}
      BY <1>11, <1>12, <1>13, NowFacts DEF Good, Of, AllOver
    <2>2. Referenced(u, t)
      BY <1>6, <1>10, <1>11, <2>1, NowFacts DEF GoodTask, Referenced
    <2>3. AtRest(u, t)
      BY <1>6, <1>10, <2>1, NowFacts DEF GoodTask, AtRest, Terminal
    <2>4. OneOpen(u, t)
      BY <2>1 DEF OneOpen
    <2>5. Pledged(u, t)
      BY <2>1, <2>2 DEF Pledged, Referenced
    <2>6. Linked(u, ses, t) /\ Unstarted(u, ses, t) /\ Housed(u, ses, TRUE, t)
      BY <2>1 DEF Linked, Unstarted, Housed
    <2>7. Backed(u, t)
      <3>1. SUFFICES ASSUME t \notin past.torn, f[t].status = "in_progress"
                     PROVE  FALSE
        BY <1>10 DEF Backed
      <3>2. f[t] = task[t] /\ (task[t].run = None \/ Ended(Now, task[t].run))
        BY <1>6, <3>1
      <3>3. task[t].run # None /\ rows[task[t].run].status = "running"
        BY <2>1, <3>1, <3>2, NowFacts DEF GoodTask, Backed
      <3>. QED
        BY <3>2, <3>3, NowFacts DEF Ended, TERMINAL_RUN_STATUSES
    <2>8. Done(u, t)
      <3>1. SUFFICES ASSUME t \notin past.torn \cup past.overtaken,
                            f[t].status = "completed"
                     PROVE  \E r \in Of(u, t) : x[r].status = "completed"
                                                  /\ x[r].rev = f[t].rev
        BY <1>10 DEF Done
      <3>2. f[t] = task[t]
        BY <1>6, <3>1
      <3>3. PICK r \in Of(Now, t) :
              rows[r].status = "completed" /\ rows[r].rev = task[t].rev
        BY <2>1, <3>1, <3>2, NowFacts DEF GoodTask, Done
      <3>4. x[r] = rows[r]
        BY <1>5, <2>1, <3>3, NowFacts DEF Ended, TERMINAL_RUN_STATUSES
      <3>. QED
        BY <1>11, <3>2, <3>3, <3>4
    <2>. QED
      BY <2>2, <2>3, <2>4, <2>5, <2>6, <2>7, <2>8 DEF GoodTask
  <1>15. Moved(Now, u)
    <2>1. \A t \in Tasks : task[t].status \in Terminal => f[t] = task[t]
      BY <1>6
    <2>. QED
      BY <1>10, <2>1, NowFacts DEF Moved, Stays
  <1>16. Len(u.rows) <= MaxRuns
    BY <1>1, <1>5, <1>10
  <1>. QED
    BY <1>9, <1>10, <1>14, <1>15, <1>16 DEF Good, u

\* start
LEMMA RestartGood ==
  ASSUME Good(Now, session, FALSE), AllOver(session), Len(rows) <= MaxRuns,
         IsSweep(sweep), sweep.on => Current(Now, sweep.rest), Restart
  PROVE  Swept(Now, session, TRUE)
  <1>. DEFINE s == Awake
              f == Read(s)
              c == Reconciled(s)
              u == Expired(c, Tasks)
  <1>1. Good(s, session, TRUE) /\ Moved(Now, s) /\ s.past = past
    BY AwakeGood
  <1>2. IF Settled(s) THEN Becomes(u) /\ UNCHANGED sweep ELSE Sweep(f, Listed(f))
    BY DEF Restart, Awake
  <1>. HIDE DEF s
  <1>3. CASE Settled(s)
    <2>1. /\ Good(c, session, TRUE) /\ Moved(s, c) /\ c.past.claims = s.past.claims
      BY <1>1, <1>3, ReconciledGood
    <2>. HIDE DEF c
    <2>2. Good(u, session, TRUE) /\ Moved(c, u) /\ u.past = c.past
      BY <2>1, ExpiredGood
    <2>3. Becomes(u) /\ sweep' = sweep
      BY <1>2, <1>3
    <2>. HIDE DEF u
    <2>4. Now' = u /\ past' = u.past
      BY <2>2, <2>3, BecomesNow DEF Good, Becomes
    <2>5. Moved(Now, u)
      BY <1>1, <2>1, <2>2, MovedTwice
    <2>6. sweep.on => Current(u, sweep.rest)
      BY <2>5, CurrentStays
    <2>. QED
      BY <1>1, <2>1, <2>2, <2>3, <2>4, <2>5, <2>6, NowFacts DEF Swept
  <1>4. CASE ~ Settled(s)
    <2>1. /\ Good(f, session, TRUE) /\ Moved(s, f) /\ f.past.claims = s.past.claims
          /\ f.rows = s.rows
      BY <1>1, ReadGood
    <2>2. Current(f, Listed(f))
      BY <2>1, ListedCurrent DEF Good
    <2>3. AtWork(f, session) /\ Sweep(f, Listed(f))
      BY <1>2, <1>4 DEF AtWork
    <2>. HIDE DEF f
    <2>4. Swept(f, session, TRUE)
      BY <2>1, <2>2, <2>3, SweepGood
    <2>5. Moved(Now, Now')
      BY <1>1, <2>1, <2>4, MovedTwice DEF Swept
    <2>. QED
      BY <1>1, <2>1, <2>4, <2>5, NowFacts DEF Swept
  <1>. QED
    BY <1>3, <1>4

-----------------------------------------------------------------------------
(* The inductive invariant *)

LoopTypes ==
  /\ late \subseteq Tasks /\ hub \in {"up", "stopping", "down"}
  /\ session \in [RunIds -> {"none", "starting", "working", "over"}]
  /\ closing \subseteq RunIds /\ mode \in {"manual", "unattended"}
  /\ queued \in BOOLEAN /\ upsets \in Nat

\* A reconciliation that waits still has a listing it may act on.
SweepHolds == IsSweep(sweep) /\ (sweep.on => Current(Now, sweep.rest))

LoopHolds ==
  LoopTypes /\ SweepHolds /\ (hub = "down" => AllOver(session))

\* A pump that outlived a pause is stale, and claims nothing but the task
\* whose runTask it was in.
PumpHolds ==
  /\ IsPump(pump)
  /\ pump.call # "none" => pump.task \in DOMAIN pump.todo /\ pump.run = None
  /\ pump.run # None \/ DOMAIN pump.todo # {} => pump.room > 0
  /\ mode = "manual" /\ pump.on => pump.stale
  /\ past.claims <= 1
  /\ mode = "manual" /\ pump.call = "run" => past.claims = 0

IInv == Good(Now, session, hub # "down") /\ LoopHolds /\ PumpHolds

\* What TerminalStays says of a step.
Kept ==
  \A t \in Tasks \ past'.overtaken :
    task[t].status \in Terminal =>
      \/ task'[t].status = task[t].status
      \/ task[t].status = "deleted" /\ file[t] # "none"
      \/ hub = "stopping" /\ active[t] # None

\* It follows for every stretch of code.
LEMMA KeptMoved ==
  ASSUME Moved(Now, Now')
  PROVE  Kept
  <1>1. /\ Now'.task = task' /\ Now'.past = past' /\ Now.task = task /\ Now.file = file
    BY DEF Now
  <1>. QED
    BY <1>1 DEF Moved, Stays, Kept

\* Frames of the loop's own state.
LEMMA SweepStays ==
  ASSUME SweepHolds, sweep' = sweep, Moved(Now, Now')
  PROVE  SweepHolds'
  BY CurrentStays DEF SweepHolds

\* ... when a reconciliation ends or is lost
LEMMA SweepStops ==
  ASSUME sweep' = IdleSweep
  PROVE  SweepHolds'
  BY IdleSweepFacts DEF SweepHolds

\* ... of a step that leaves the pump alone
LEMMA PumpStays ==
  ASSUME PumpHolds, pump' = pump, mode' = mode, past'.claims = past.claims
  PROVE  PumpHolds'
  BY DEF PumpHolds

\* An idle pump.
LEMMA IdlePumpFacts ==
  /\ IsPump(IdlePump) /\ IdlePump.call = "none" /\ IdlePump.run = None
  /\ DOMAIN IdlePump.todo = {} /\ IdlePump.on = FALSE
  BY DEF IdlePump, IsPump, IsListing, None

\* ... of a step that ends its loop
LEMMA PumpStops ==
  ASSUME PumpHolds, pump' = IdlePump, past'.claims = past.claims
  PROVE  PumpHolds'
  BY IdlePumpFacts DEF PumpHolds

\* What the bound on disturbances keeps.
LEMMA UpsetTypes ==
  ASSUME LoopTypes, Upset
  PROVE  upsets' \in Nat
  BY DEF LoopTypes, Upset

\* A step that keeps the loop's state and the pump, and moves the store.
LEMMA MovedHolds ==
  ASSUME IInv, Good(Now', session', hub' # "down"), Moved(Now, Now'), LoopTypes',
         SweepHolds', hub' = "down" => AllOver(session'), PumpHolds'
  PROVE  IInv' /\ Kept
  BY KeptMoved DEF IInv, LoopHolds

-----------------------------------------------------------------------------
(* One lemma for each action *)

\* Time passes.
LEMMA LapseHolds ==
  ASSUME IInv, NEW t \in Tasks, Lapse(t)
  PROVE  IInv' /\ Kept
  <1>1. Now' = Now /\ session' = session /\ hub' = hub
    BY DEF Lapse, Now
  <1>2. Good(Now', session', hub' # "down") /\ Moved(Now, Now')
    BY <1>1, MovedSelf DEF IInv
  <1>3. LoopTypes'
    BY UpsetTypes DEF IInv, LoopHolds, Lapse, LoopTypes
  <1>4. SweepHolds'
    BY <1>2, SweepStays DEF IInv, LoopHolds, Lapse
  <1>5. hub' = "down" => AllOver(session')
    BY <1>1 DEF IInv, LoopHolds
  <1>6. PumpHolds'
    BY PumpStays DEF IInv, Lapse
  <1>. QED
    BY <1>2, <1>3, <1>4, <1>5, <1>6, MovedHolds

\* The end of the pump's loop
LEMMA PumpEndHolds ==
  ASSUME IInv, PumpEnd
  PROVE  IInv' /\ Kept
  <1>1. Now' = Now /\ session' = session /\ hub' = hub
    BY DEF PumpEnd, Now
  <1>2. Good(Now', session', hub' # "down") /\ Moved(Now, Now')
    BY <1>1, MovedSelf DEF IInv
  <1>3. LoopTypes'
    BY DEF IInv, LoopHolds, PumpEnd, LoopTypes
  <1>4. SweepHolds'
    BY <1>2, SweepStays DEF IInv, LoopHolds, PumpEnd
  <1>5. hub' = "down" => AllOver(session')
    BY <1>1 DEF IInv, LoopHolds
  <1>6. PumpHolds'
    BY PumpStops DEF IInv, PumpEnd
  <1>. QED
    BY <1>2, <1>3, <1>4, <1>5, <1>6, MovedHolds

\* Edits, deletions and returns of files
LEMMA TouchHolds ==
  ASSUME IInv, NEW t \in Tasks, NEW content \in {"none", "same", "edited"},
         Touch(t, content)
  PROVE  IInv' /\ Kept
  <1>. DEFINE g == [file EXCEPT ![t] = content]
  <1>1. Now \in Store /\ file \in FileTable
    BY StoreFields, NowFacts DEF IInv, Good
  <1>2. g \in FileTable
    BY <1>1 DEF FileTable
  <1>3. Now' = WithFile(Now, g) /\ session' = session /\ hub' = hub
    BY DEF Touch, loopVars, Now, WithFile
  <1>. HIDE DEF g
  <1>4. /\ Now' \in Store /\ Now'.task = Now.task /\ Now'.rows = Now.rows
        /\ Now'.active = Now.active /\ Now'.told = Now.told /\ Now'.past = Now.past
    BY <1>1, <1>2, <1>3, WithFileFacts
  <1>5. ASSUME NEW q \in Tasks
        PROVE  GoodTask(Now', session', hub' # "down", q)
    <2>1. GoodTask(Now, session, hub # "down", q)
      BY DEF IInv, Good
    <2>2. TaskMove(Now, Now', q)
      BY <1>4 DEF TaskMove
    <2>. QED
      BY <1>3, <1>4, <2>1, <2>2, TaskMoves
  <1>6. Good(Now', session', hub' # "down")
    BY <1>4, <1>5 DEF IInv, Good
  <1>7. Kept
    BY DEF Touch, Kept
  <1>8. LoopTypes'
    BY UpsetTypes DEF IInv, LoopHolds, Touch, loopVars, LoopTypes
  <1>9. SweepHolds'
    <2>1. sweep' = sweep
      BY DEF Touch, loopVars
    <2>2. sweep.on => Current(Now', sweep.rest)
      BY <1>4 DEF IInv, LoopHolds, SweepHolds, Current
    <2>. QED
      BY <2>1, <2>2 DEF IInv, LoopHolds, SweepHolds
  <1>10. hub' = "down" => AllOver(session')
    BY <1>3 DEF IInv, LoopHolds
  <1>11. PumpHolds'
    BY PumpStays DEF IInv, Touch, loopVars
  <1>. QED
    BY <1>6, <1>7, <1>8, <1>9, <1>10, <1>11 DEF IInv, LoopHolds

\* dispose up to its wait
LEMMA StopHolds ==
  ASSUME IInv, Stop
  PROVE  IInv' /\ Kept
  <1>1. Now \in Store
    BY DEF IInv, Good
  <1>2. /\ told \subseteq told' /\ told' \subseteq RunIds
        /\ session' = session /\ hub = "up" /\ hub' = "stopping"
    <2>1. told \subseteq RunIds
      BY <1>1, StoreTypes, NowFacts
    <2>. QED
      BY <2>1 DEF Stop
  <1>3. Now' = WithTold(Now, told')
    BY DEF Stop, Now, WithTold
  <1>4. /\ Now' \in Store /\ Now'.task = Now.task /\ Now'.file = Now.file
        /\ Now'.rows = Now.rows /\ Now'.active = Now.active /\ Now'.told = told'
        /\ Now'.past = Now.past
    <2>1. told' \in RunSets
      BY <1>2 DEF RunSets
    <2>. QED
      BY <1>1, <1>3, <2>1, WithToldFacts
  <1>5. ASSUME NEW q \in Tasks
        PROVE  GoodTask(Now', session', TRUE, q)
    <2>1. GoodTask(Now, session, TRUE, q)
      BY <1>2 DEF IInv, Good
    <2>2. Of(Now', q) = Of(Now, q)
      BY <1>4 DEF Of
    <2>. QED
      BY <1>2, <1>4, <2>1, <2>2, NowFacts, Untouched
  <1>6. Good(Now', session', hub' # "down")
    BY <1>2, <1>4, <1>5 DEF IInv, Good
  <1>7. Moved(Now, Now')
    BY <1>4 DEF Moved, Stays
  <1>8. LoopTypes'
    BY UpsetTypes DEF IInv, LoopHolds, Stop, LoopTypes
  <1>9. SweepHolds'
    BY <1>7, SweepStays DEF IInv, LoopHolds, Stop
  <1>10. PumpHolds'
    BY PumpStops DEF IInv, Stop
  <1>. QED
    BY <1>2, <1>6, <1>7, <1>8, <1>9, <1>10, MovedHolds

\* setAutomationPolicy
LEMMA SetPolicyHolds ==
  ASSUME IInv, SetPolicy
  PROVE  IInv' /\ Kept
  <1>1. Now \in Store /\ past \in Past
    BY StoreFields, NowFacts DEF IInv, Good
  <1>2. /\ past' \in Past /\ past'.claims = 0 /\ past'.overtaken = past.overtaken
        /\ past'.torn = past.torn
    BY <1>1 DEF SetPolicy, Past
  <1>3. Now' = WithPast(Now, past') /\ session' = session /\ hub' = hub
    BY DEF SetPolicy, Now, WithPast
  <1>4. /\ Now' \in Store /\ Now'.task = Now.task /\ Now'.file = Now.file
        /\ Now'.rows = Now.rows /\ Now'.active = Now.active /\ Now'.told = Now.told
        /\ Now'.past = past'
    BY <1>1, <1>2, <1>3, WithPastFacts
  <1>5. Good(Now', session', hub' # "down") /\ Moved(Now, Now')
    <2>1. \A q \in Tasks : TaskMove(Now, Now', q) /\ Stays(Now, Now', q)
      BY <1>4 DEF TaskMove, Stays
    <2>2. Good(Now, session, hub # "down")
      BY DEF IInv
    <2>3. Good(Now', session, hub # "down") /\ Moved(Now, Now')
      BY <1>2, <1>4, <2>1, <2>2, NowFacts, GoodMoves
    <2>. QED
      BY <1>3, <2>3
  <1>6. LoopTypes'
    BY UpsetTypes DEF IInv, LoopHolds, SetPolicy, LoopTypes
  <1>7. SweepHolds'
    BY <1>5, SweepStays DEF IInv, LoopHolds, SetPolicy
  <1>8. hub' = "down" => AllOver(session')
    BY <1>3 DEF IInv, LoopHolds
  <1>9. PumpHolds'
    <2>1. IsPump(pump) /\ mode \in {"manual", "unattended"}
      BY DEF IInv, PumpHolds, LoopHolds, LoopTypes
    <2>2. /\ IsPump(pump') /\ pump'.call = pump.call /\ pump'.task = pump.task
          /\ pump'.todo = pump.todo /\ pump'.run = pump.run /\ pump'.room = pump.room
          /\ pump'.on => pump'.stale
      BY <2>1 DEF SetPolicy, IsPump
    <2>. QED
      BY <1>2, <2>2 DEF IInv, PumpHolds
  <1>. QED
    BY <1>5, <1>6, <1>7, <1>8, <1>9, MovedHolds

\* A reconciliation for its own sake
LEMMA SweptHolds ==
  ASSUME IInv, Swept(Now, session', hub' # "down"), LoopTypes',
         hub' = "down" => AllOver(session'), PumpHolds'
  PROVE  IInv' /\ Kept
  BY MovedHolds DEF Swept, SweepHolds

\* The step of a list, a read or a watcher
LEMMA ReconcileHolds ==
  ASSUME IInv, Reconcile
  PROVE  IInv' /\ Kept
  <1>1. /\ session' = session /\ hub' = hub /\ pump' = pump /\ mode' = mode
        /\ Reconciles(Now)
    BY DEF Reconcile
  <1>2. Swept(Now, session', hub' # "down")
    <2>1. AtWork(Now, session)
      BY DEF AtWork
    <2>2. Good(Now, session, hub # "down") /\ SweepHolds
      BY DEF IInv, LoopHolds
    <2>3. Swept(Now, session, hub # "down")
      BY <1>1, <2>1, <2>2, ReconcilesGood DEF SweepHolds
    <2>. QED
      BY <1>1, <2>3
  <1>3. LoopTypes'
    BY DEF IInv, LoopHolds, Reconcile, LoopTypes
  <1>4. hub' = "down" => AllOver(session')
    BY <1>1 DEF IInv, LoopHolds
  <1>5. PumpHolds'
    BY <1>1, <1>2, NowFacts, PumpStays DEF IInv, Swept
  <1>. QED
    BY <1>2, <1>3, <1>4, <1>5, SweptHolds

\* The rest of a reconciliation
LEMMA ResumeHolds ==
  ASSUME IInv, Resume
  PROVE  IInv' /\ Kept
  <1>. DEFINE p == [q \in {sweep.task} |-> [status |-> "deleted", rev |-> task[q].rev]]
              u == Shelved(Now, p)
              up == hub # "down"
  <1>1. /\ session' = session /\ hub' = hub /\ pump' = pump /\ mode' = mode
        /\ Sweep(u, sweep.rest) /\ sweep.on
    BY DEF Resume
  <1>2. Good(Now, session, up) /\ Current(Now, sweep.rest) /\ sweep.task \in Tasks
    BY <1>1 DEF IInv, LoopHolds, SweepHolds, IsSweep, IdleSweep
  <1>3. DOMAIN p = {sweep.task} /\ p[sweep.task].status = "deleted" /\ p[sweep.task] \in Seen
    <2>1. task[sweep.task].rev \in Nat
      BY <1>2, TaskTypes, NowFacts DEF Good
    <2>. QED
      BY <2>1 DEF Seen, Statuses
  <1>. HIDE DEF p
  <1>4. Current(Now, p)
    BY <1>2, <1>3 DEF Current, IsListing
  <1>5. Good(u, session, up) /\ Moved(Now, u) /\ u.past.claims = Now.past.claims
    <2>1. \A t \in DOMAIN p : p[t].status # "in_progress"
      BY <1>3
    <2>. HIDE DEF up
    <2>. QED
      BY <1>2, <1>4, <2>1, ShelvedGood
  <1>. HIDE DEF u
  <1>6. Current(u, sweep.rest)
    BY <1>2, <1>5, CurrentStays
  <1>7. Swept(u, session, up)
    <2>1. AtWork(u, session)
      BY DEF AtWork
    <2>. HIDE DEF up
    <2>. QED
      BY <1>1, <1>5, <1>6, <2>1, SweepGood
  <1>8. Swept(Now, session', hub' # "down")
    <2>1. Moved(Now, Now')
      BY <1>5, <1>7, MovedTwice DEF Swept
    <2>. QED
      BY <1>1, <1>5, <1>7, <2>1 DEF Swept
  <1>9. LoopTypes'
    BY DEF IInv, LoopHolds, Resume, LoopTypes
  <1>10. hub' = "down" => AllOver(session')
    BY <1>1 DEF IInv, LoopHolds
  <1>11. PumpHolds'
    BY <1>1, <1>8, NowFacts, PumpStays DEF IInv, Swept
  <1>. QED
    BY <1>8, <1>9, <1>10, <1>11, SweptHolds

\* Expiry
LEMMA MaintainHolds ==
  ASSUME IInv, Maintain
  PROVE  IInv' /\ Kept
  <1>1. PICK S \in SUBSET late : Becomes(Expired(Now, S))
    BY DEF Maintain
  <1>. DEFINE u == Expired(Now, S)
  <1>2. session' = session /\ hub' = hub /\ pump' = pump /\ mode' = mode /\ sweep' = sweep
    BY DEF Maintain, loopVars
  <1>3. Good(u, session, hub # "down") /\ Moved(Now, u) /\ u.past = past
    BY ExpiredGood, NowFacts DEF IInv
  <1>. HIDE DEF u
  <1>4. Now' = u /\ past' = past
    BY <1>1, <1>3, BecomesNow DEF Good, Becomes, u
  <1>5. Good(Now', session', hub' # "down") /\ Moved(Now, Now')
    BY <1>2, <1>3, <1>4
  <1>6. LoopTypes'
    BY DEF IInv, LoopHolds, Maintain, loopVars, LoopTypes
  <1>7. SweepHolds'
    BY <1>2, <1>5, SweepStays DEF IInv, LoopHolds
  <1>8. hub' = "down" => AllOver(session')
    BY <1>2 DEF IInv, LoopHolds
  <1>9. PumpHolds'
    BY <1>2, <1>4, PumpStays DEF IInv
  <1>. QED
    BY <1>5, <1>6, <1>7, <1>8, <1>9, MovedHolds

\* What the death of the process makes of the loop
LEMMA DiesHolds ==
  ASSUME IInv, Dies, upsets' \in Nat, past'.claims = past.claims,
         session' \in [RunIds -> {"none", "starting", "working", "over"}],
         \A q \in RunIds : session'[q] \notin {"starting", "working"}
  PROVE  /\ LoopTypes' /\ SweepHolds' /\ AllOver(session') /\ PumpHolds'
         /\ hub' = "down"
  <1>1. LoopTypes' /\ hub' = "down"
    BY DEF IInv, LoopHolds, Dies, LoopTypes
  <1>2. SweepHolds'
    BY SweepStops DEF Dies
  <1>3. PumpHolds'
    BY PumpStops DEF IInv, Dies
  <1>. QED
    BY <1>1, <1>2, <1>3 DEF AllOver

\* A crash between two stretches of code
LEMMA CrashHolds ==
  ASSUME IInv, Crash
  PROVE  IInv' /\ Kept
  <1>1. Good(Now, session, hub # "down")
    BY DEF IInv
  <1>2. Good(Now', session', FALSE) /\ Moved(Now, Now')
    BY <1>1, CrashGood
  <1>3. Dies /\ past' = past /\ upsets' \in Nat
    BY UpsetTypes DEF Crash, IInv, LoopHolds
  <1>4. /\ session' \in [RunIds -> {"none", "starting", "working", "over"}]
        /\ \A q \in RunIds : session'[q] \notin {"starting", "working"}
    <2>1. session' = [r \in RunIds |-> IF r \in DOMAIN rows' THEN "over" ELSE "none"]
      BY <1>3 DEF Dies
    <2>. QED
      BY <2>1
  <1>5. /\ LoopTypes' /\ SweepHolds' /\ AllOver(session') /\ PumpHolds' /\ hub' = "down"
    BY <1>3, <1>4, DiesHolds
  <1>6. Good(Now', session', hub' # "down")
    BY <1>2, <1>5
  <1>. QED
    BY <1>2, <1>5, <1>6, MovedHolds

\* A crash between the statement on a run and the one on its task
LEMMA CrashMidwayHolds ==
  ASSUME IInv, NEW r \in DOMAIN rows, CrashMidway(r)
  PROVE  IInv' /\ Kept
  <1>1. Good(Now, session, hub # "down")
    BY DEF IInv
  <1>2. /\ Good(Now', session', FALSE) /\ Moved(Now, Now')
        /\ past'.claims = past.claims
        /\ session' \in [RunIds -> {"none", "starting", "working", "over"}]
        /\ \A q \in RunIds : session'[q] \notin {"starting", "working"}
    BY <1>1, CrashMidwayGood
  <1>3. Dies /\ upsets' \in Nat
    BY UpsetTypes DEF CrashMidway, IInv, LoopHolds
  <1>4. /\ LoopTypes' /\ SweepHolds' /\ AllOver(session') /\ PumpHolds' /\ hub' = "down"
    BY <1>2, <1>3, DiesHolds
  <1>5. Good(Now', session', hub' # "down")
    BY <1>2, <1>4
  <1>. QED
    BY <1>2, <1>4, <1>5, MovedHolds

\* A crash between the insertion of a run and the row of its task
LEMMA CrashInClaimHolds ==
  ASSUME IInv, NEW t \in Tasks, CrashInClaim(t)
  PROVE  IInv' /\ Kept
  <1>1. Good(Now, session, hub # "down")
    BY DEF IInv
  <1>2. /\ Good(Now', session', FALSE) /\ Moved(Now, Now')
        /\ session' \in [RunIds -> {"none", "starting", "working", "over"}]
        /\ \A q \in RunIds : session'[q] \notin {"starting", "working"}
    BY <1>1, CrashInClaimGood
  <1>3. Dies /\ past' = past /\ upsets' \in Nat
    BY UpsetTypes DEF CrashInClaim, IInv, LoopHolds
  <1>4. /\ LoopTypes' /\ SweepHolds' /\ AllOver(session') /\ PumpHolds' /\ hub' = "down"
    BY <1>2, <1>3, DiesHolds
  <1>5. Good(Now', session', hub' # "down")
    BY <1>2, <1>4
  <1>. QED
    BY <1>2, <1>4, <1>5, MovedHolds

\* The end of dispose
LEMMA StoppedHolds ==
  ASSUME IInv, Stopped
  PROVE  IInv' /\ Kept
  <1>1. Good(Now, session, hub # "down")
    BY DEF IInv
  <1>2. /\ Good(Now', session', FALSE)
        /\ session' \in [RunIds -> {"none", "starting", "working", "over"}]
        /\ \A q \in RunIds : session'[q] \notin {"starting", "working"}
        /\ \A t \in Tasks : active[t] = None => task'[t] = task[t]
    BY <1>1, StoppedGood
  <1>3. Dies /\ past' = past /\ upsets' \in Nat /\ hub = "stopping"
    BY DEF Stopped, IInv, LoopHolds, LoopTypes
  <1>4. /\ LoopTypes' /\ SweepHolds' /\ AllOver(session') /\ PumpHolds' /\ hub' = "down"
    BY <1>2, <1>3, DiesHolds
  <1>5. Good(Now', session', hub' # "down")
    BY <1>2, <1>4
  <1>6. Kept
    BY <1>2, <1>3 DEF Kept
  <1>. QED
    BY <1>4, <1>5, <1>6 DEF IInv, LoopHolds

\* start
LEMMA RestartHolds ==
  ASSUME IInv, Restart
  PROVE  IInv' /\ Kept
  <1>1. /\ hub = "down" /\ hub' = "up" /\ session' = session /\ pump' = pump
        /\ mode' = mode
    BY DEF Restart
  <1>2. Good(Now, session, FALSE) /\ AllOver(session) /\ SweepHolds
    BY <1>1 DEF IInv, LoopHolds
  <1>3. Len(rows) <= MaxRuns
    BY <1>2, NowFacts DEF Good
  <1>4. Swept(Now, session, TRUE)
    BY <1>2, <1>3, RestartGood DEF SweepHolds
  <1>5. Swept(Now, session', hub' # "down")
    BY <1>1, <1>4
  <1>6. LoopTypes'
    BY DEF IInv, LoopHolds, Restart, LoopTypes
  <1>7. PumpHolds'
    BY <1>1, <1>4, NowFacts, PumpStays DEF IInv, Swept
  <1>. QED
    BY <1>1, <1>5, <1>6, <1>7, SweptHolds

\* The store that a stretch of code has made
LEMMA BecomesHolds ==
  ASSUME IInv, NEW u, Good(u, session', hub' # "down"), Moved(Now, u), Becomes(u),
         sweep' = sweep, LoopTypes', hub' # "down", PumpHolds'
  PROVE  IInv' /\ Kept
  <1>1. Now' = u
    BY BecomesNow DEF Good
  <1>2. Good(Now', session', hub' # "down") /\ Moved(Now, Now')
    BY <1>1
  <1>3. SweepHolds'
    BY <1>2, SweepStays DEF IInv, LoopHolds
  <1>. QED
    BY <1>2, <1>3, MovedHolds

\* The session of one run changes.
LEMMA SessionFacts ==
  ASSUME LoopTypes, NEW r \in RunIds, NEW x \in {"starting", "working", "over"},
         session' = [session EXCEPT ![r] = x]
  PROVE  /\ session' \in [RunIds -> {"none", "starting", "working", "over"}]
         /\ session'[r] = x
         /\ \A q \in RunIds : q # r => session'[q] = session[q]
  BY DEF LoopTypes

\* The pump after a start that it waited for
LEMMA PumpAfterHolds ==
  ASSUME PumpHolds, NEW r, r # None, NEW started \in BOOLEAN,
         pump' = PumpAfter(r, started), mode' = mode, past'.claims = past.claims
  PROVE  PumpHolds'
  <1>1. CASE pump.run # r
    BY <1>1, PumpStays DEF PumpAfter
  <1>2. CASE pump.run = r
    <2>. DEFINE room == IF started THEN pump.room - 1 ELSE pump.room
                todo == IF room = 0 THEN IdlePump.todo ELSE pump.todo
    <2>1. IsPump(pump) /\ pump.room > 0 /\ pump.call = "none"
      BY <1>2 DEF PumpHolds
    <2>2. room \in Nat
      BY <2>1 DEF IsPump
    <2>3. pump' = [pump EXCEPT !.run = None, !.room = room, !.todo = todo]
      BY <1>2 DEF PumpAfter
    <2>4. IsListing(todo) /\ (room = 0 => DOMAIN todo = {})
      BY <2>1, IdlePumpFacts DEF IsPump
    <2>. HIDE DEF room, todo
    <2>5. /\ IsPump(pump') /\ pump'.call = "none" /\ pump'.run = None
          /\ pump'.room = room /\ pump'.todo = todo /\ pump'.on = pump.on
          /\ pump'.stale = pump.stale
      <3>1. pump = [on |-> pump.on, stale |-> pump.stale, room |-> pump.room,
                    todo |-> pump.todo, call |-> pump.call, task |-> pump.task,
                    run |-> pump.run]
        BY <2>1 DEF IsPump
      <3>2. pump' = [on |-> pump.on, stale |-> pump.stale, room |-> room,
                     todo |-> todo, call |-> pump.call, task |-> pump.task,
                     run |-> None]
        BY <2>3, <3>1
      <3>3. /\ pump'.call = pump.call /\ pump'.run = None /\ pump'.task = pump.task
            /\ pump'.room = room /\ pump'.todo = todo /\ pump'.on = pump.on
            /\ pump'.stale = pump.stale
        BY <3>2
      <3>4. /\ pump.on \in BOOLEAN /\ pump.stale \in BOOLEAN
            /\ pump.task \in Tasks \cup {None} /\ None \in Nat
        BY <2>1 DEF IsPump, None
      <3>5. IsPump(pump')
        BY <2>1, <2>2, <2>4, <3>2, <3>3, <3>4 DEF IsPump
      <3>. QED
        BY <2>1, <3>3, <3>5
    <2>. QED
      BY <2>2, <2>4, <2>5 DEF PumpHolds
  <1>. QED
    BY <1>1, <1>2

\* A run and its task
LEMMA RunFacts ==
  ASSUME IInv, NEW r \in DOMAIN rows
  PROVE  /\ Good(Now, session, hub # "down") /\ Now \in Store /\ r \in DOMAIN Now.rows
         /\ r \in RunIds /\ r # None /\ rows[r].task \in Tasks
         /\ r \in Of(Now, rows[r].task) /\ rows[r].from \in {"approved", "failed"}
  <1>1. Good(Now, session, hub # "down") /\ Now \in Store
    BY DEF IInv, Good
  <1>2. r \in RunIds
    BY <1>1, RowsBounded, NowFacts
  <1>3. rows[r] \in RunRow
    BY <1>1, StoreTypes, NowFacts
  <1>. QED
    BY <1>1, <1>2, <1>3, NowFacts DEF RunRow, Of, RunIds, None

\* startSession has answered.
LEMMA StartReturnsHolds ==
  ASSUME IInv, NEW r \in DOMAIN rows, StartReturns(r)
  PROVE  IInv' /\ Kept
  <1>. DEFINE t == rows[r].task
              up == hub # "down"
  <1>1. /\ Good(Now, session, up) /\ Now \in Store /\ r \in DOMAIN Now.rows
        /\ r \in RunIds /\ r # None /\ t \in Tasks
        /\ r \in Of(Now, t) /\ rows[r].from \in {"approved", "failed"}
    BY RunFacts
  <1>2. /\ hub # "down" /\ hub' = hub /\ session[r] = "starting" /\ sweep' = sweep
        /\ mode' = mode /\ pump' = PumpAfter(r, StartStands(r))
    BY DEF StartReturns
  <1>3. ASSUME NEW u, Good(u, session', up), Moved(Now, u), u.past = past, Becomes(u),
               session' \in [RunIds -> {"none", "starting", "working", "over"}]
        PROVE  IInv' /\ Kept
    <2>1. past'.claims = past.claims
      BY <1>3 DEF Becomes
    <2>2. PumpHolds'
      <3>1. StartStands(r) \in BOOLEAN
        BY DEF StartStands
      <3>. QED
        BY <1>1, <1>2, <2>1, <3>1, PumpAfterHolds DEF IInv
    <2>3. LoopTypes'
      BY <1>3 DEF IInv, LoopHolds, StartReturns, LoopTypes
    <2>. QED
      BY <1>2, <1>3, <2>2, <2>3, BecomesHolds
  <1>4. CASE StartStands(r)
    <2>. DEFINE u == StartedBy(Now, r)
    <2>1. session' = [session EXCEPT ![r] = "working"]
      BY <1>4 DEF StartReturns
    <2>2. Becomes(u)
      BY <1>4, NowFacts DEF StartReturns, StartedBy
    <2>3. /\ session' \in [RunIds -> {"none", "starting", "working", "over"}]
          /\ session'[r] = "working"
          /\ \A q \in RunIds : q # r => session'[q] = session[q]
      BY <1>1, <2>1, SessionFacts DEF IInv, LoopHolds
    <2>4. /\ ~ Ended(Now, r) /\ Now.task[t].status \in {"approved", "failed"}
          /\ Now.task[t].run = r
      BY <1>1, <1>4, NowFacts DEF StartStands
    <2>. HIDE DEF t, up
    <2>5. Good(u, session', up) /\ Moved(Now, u) /\ u.past = Now.past
      BY <1>1, <1>2, <2>3, <2>4, StartedGood
    <2>. HIDE DEF u
    <2>. QED
      BY <1>3, <2>2, <2>3, <2>5, NowFacts
  <1>5. CASE ~ StartStands(r)
    <2>. DEFINE w == EndRun(Now, r, "cancelled")
                u == [w EXCEPT !.active[Now.rows[r].task] = None]
    <2>1. session' = [session EXCEPT ![r] = "over"]
      BY <1>5 DEF StartReturns
    <2>2. Becomes(u)
      BY <1>5, NowFacts DEF StartReturns
    <2>3. /\ session' \in [RunIds -> {"none", "starting", "working", "over"}]
          /\ session'[r] = "over"
          /\ \A q \in RunIds : q # r => session'[q] = session[q]
      BY <1>1, <2>1, SessionFacts DEF IInv, LoopHolds
    <2>4. OverAt(session, session', r)
      BY <2>3 DEF OverAt
    <2>. HIDE DEF t, up
    <2>5. Good(u, session', up) /\ Moved(Now, u) /\ u.past = Now.past
      BY <1>1, <1>2, <2>4, StartDropped
    <2>. HIDE DEF u
    <2>. QED
      BY <1>3, <2>2, <2>3, <2>5, NowFacts
  <1>. QED
    BY <1>4, <1>5

\* startSession has failed.
LEMMA StartFailsHolds ==
  ASSUME IInv, NEW r \in DOMAIN rows, StartFails(r)
  PROVE  IInv' /\ Kept
  <1>. DEFINE up == hub # "down"
              u == Failed(Now, r)
  <1>1. /\ Good(Now, session, up) /\ r \in DOMAIN Now.rows /\ r \in RunIds /\ r # None
    BY RunFacts
  <1>2. /\ hub # "down" /\ hub' = hub /\ sweep' = sweep /\ Becomes(u)
        /\ mode' = mode /\ pump' = PumpAfter(r, FALSE)
        /\ session' = [session EXCEPT ![r] = "over"]
    BY DEF StartFails
  <1>3. /\ session' \in [RunIds -> {"none", "starting", "working", "over"}]
        /\ OverAt(session, session', r)
    BY <1>1, <1>2, SessionFacts DEF IInv, LoopHolds, OverAt
  <1>4. Good(u, session', up) /\ Moved(Now, u) /\ u.past = Now.past
    <2>. HIDE DEF up
    <2>. QED
      BY <1>1, <1>3, FailedGood
  <1>. HIDE DEF u
  <1>5. past'.claims = past.claims
    BY <1>2, <1>4, NowFacts DEF Becomes
  <1>6. PumpHolds'
    BY <1>1, <1>2, <1>5, PumpAfterHolds DEF IInv
  <1>7. LoopTypes'
    BY <1>3 DEF IInv, LoopHolds, StartFails, LoopTypes
  <1>. QED
    BY <1>2, <1>4, <1>6, <1>7, BecomesHolds

\* runSession has answered.
LEMMA RunEndsHolds ==
  ASSUME IInv, NEW r \in DOMAIN rows, NEW result \in {"completed", "cancelled", "failed"},
         RunEnds(r, result)
  PROVE  IInv' /\ Kept
  <1>. DEFINE up == hub # "down"
              s == Left(Finished(Now, r, result), Now.rows[r].task, r)
  <1>1. /\ Good(Now, session, up) /\ r \in DOMAIN Now.rows /\ r \in RunIds
    BY RunFacts
  <1>2. /\ hub # "down" /\ hub' = hub /\ mode' = mode /\ pump' = pump
        /\ session' = [session EXCEPT ![r] = "over"] /\ session[r] = "working"
        /\ IF hub = "up" THEN Reconciles(s) ELSE Becomes(s) /\ UNCHANGED sweep
    BY NowFacts DEF RunEnds, Left
  <1>3. /\ session' \in [RunIds -> {"none", "starting", "working", "over"}]
        /\ OverAt(session, session', r)
    BY <1>1, <1>2, SessionFacts DEF IInv, LoopHolds, OverAt
  <1>4. AtWork(Now, session)
    BY DEF AtWork
  <1>5. /\ Good(s, session', up) /\ Moved(Now, s) /\ s.past = Now.past
        /\ DOMAIN s.rows = DOMAIN Now.rows
    <2>. HIDE DEF up
    <2>. QED
      BY <1>1, <1>2, <1>3, <1>4, FinishedGood
  <1>. HIDE DEF s
  <1>6. LoopTypes'
    BY <1>3 DEF IInv, LoopHolds, RunEnds, LoopTypes
  <1>7. CASE hub = "up"
    <2>1. AtWork(s, session')
      <3>1. DOMAIN Now.rows \subseteq RunIds
        BY <1>1, RowsBounded
      <3>. QED
        BY <1>3, <1>5, <3>1 DEF AtWork, OverAt
    <2>2. sweep.on => Current(s, sweep.rest)
      BY <1>5, CurrentStays DEF IInv, LoopHolds, SweepHolds
    <2>3. IsSweep(sweep) /\ Reconciles(s)
      BY <1>2, <1>7 DEF IInv, LoopHolds, SweepHolds
    <2>. HIDE DEF up
    <2>4. Swept(s, session', up)
      BY <1>5, <2>1, <2>2, <2>3, ReconcilesGood
    <2>5. Moved(Now, Now')
      BY <1>5, <2>4, MovedTwice DEF Swept
    <2>6. Swept(Now, session', up) /\ past'.claims = past.claims
      BY <1>5, <2>4, <2>5, NowFacts DEF Swept
    <2>7. PumpHolds'
      BY <1>2, <2>6, PumpStays DEF IInv
    <2>. QED
      BY <1>2, <1>6, <2>6, <2>7, SweptHolds DEF up
  <1>8. CASE hub # "up"
    <2>1. Becomes(s) /\ sweep' = sweep
      BY <1>2, <1>8
    <2>2. past'.claims = past.claims
      BY <1>5, <2>1, NowFacts DEF Becomes
    <2>3. PumpHolds'
      BY <1>2, <2>2, PumpStays DEF IInv
    <2>. QED
      BY <1>2, <1>5, <1>6, <2>1, <2>3, BecomesHolds
  <1>. QED
    BY <1>7, <1>8

\* cancelTask
LEMMA CancelHolds ==
  ASSUME IInv, NEW t \in Tasks, Cancel(t)
  PROVE  IInv' /\ Kept
  <1>. DEFINE up == hub # "down"
              u == Cancelled(Now, t, "cancelled", "user")
  <1>1. /\ hub = "up" /\ hub' = hub /\ mode' = mode /\ pump' = pump /\ sweep' = sweep
        /\ session' = session /\ Becomes(u)
        /\ Now.task[t].status \notin Terminal
    BY NowFacts DEF Cancel, loopVars, Editable, Terminal
  <1>2. Good(Now, session, up) /\ AtWork(Now, session)
    BY DEF IInv, AtWork
  <1>3. "cancelled" \in {"cancelled", "deleted"} /\ "user" \in Authors
    BY DEF Authors
  <1>4. Good(u, session, up) /\ Moved(Now, u) /\ u.past = Now.past
    <2>1. Now.task[t].status \notin Terminal
      BY <1>1
    <2>. HIDE DEF up
    <2>2. Good(u, session, up) /\ Moved(Now, u) /\ SamePast(Now, u)
      BY <1>2, <1>3, <2>1, CancelledGood
    <2>. QED
      BY <2>2 DEF SamePast
  <1>. HIDE DEF u
  <1>5. past'.claims = past.claims
    BY <1>1, <1>4, NowFacts DEF Becomes
  <1>6. PumpHolds'
    BY <1>1, <1>5, PumpStays DEF IInv
  <1>7. LoopTypes'
    BY UpsetTypes DEF IInv, LoopHolds, Cancel, loopVars, LoopTypes
  <1>. QED
    BY <1>1, <1>4, <1>6, <1>7, BecomesHolds

\* A command that has reconciled, and touches no session
LEMMA CommandStays ==
  ASSUME IInv, NEW u, hub = "up", Good(u, session, TRUE), Moved(Reconciled(Now), u),
         Moved(Now, Reconciled(Now)), u.past.claims = past.claims, Becomes(u),
         queued' = TRUE, upsets' \in Nat, UNCHANGED loopVars
  PROVE  IInv' /\ Kept
  <1>1. /\ hub' = hub /\ mode' = mode /\ pump' = pump /\ sweep' = sweep
        /\ session' = session /\ late' = late /\ closing' = closing
    BY DEF loopVars
  <1>2. Moved(Now, u)
    BY MovedTwice
  <1>3. past'.claims = past.claims
    BY DEF Becomes
  <1>4. PumpHolds'
    BY <1>1, <1>3, PumpStays DEF IInv
  <1>5. LoopTypes'
    BY <1>1 DEF IInv, LoopHolds, LoopTypes
  <1>6. Good(u, session', hub' # "down")
    BY <1>1
  <1>. QED
    BY <1>1, <1>2, <1>4, <1>5, <1>6, BecomesHolds

\* The commands that reconcile first
LEMMA CommandHolds ==
  ASSUME IInv, Command
  PROVE  IInv' /\ Kept
  <1>. DEFINE s == Reconciled(Now)
  <1>1. PICK t \in Tasks : Create(s, t) \/ Update(s, t) \/ Approve(s, t) \/ Run(s, t)
    BY DEF Command
  <1>2. hub = "up" /\ Settled(Now)
    BY DEF Command
  <1>3. Good(Now, session, TRUE)
    BY <1>2 DEF IInv
  <1>4. /\ Good(s, session, TRUE) /\ Moved(Now, s)
        /\ s.past.claims = past.claims /\ s.rows = rows
    BY <1>2, <1>3, ReconciledGood, NowFacts
  <1>5. upsets \in Nat /\ mode \in {"manual", "unattended"} /\ LoopTypes
    BY DEF IInv, LoopHolds, LoopTypes
  <1>. HIDE DEF s
  <1>6. CASE Create(s, t)
    <2>1. PICK approved \in BOOLEAN :
            Becomes([s EXCEPT !.task[t] = Asked(approved), !.file[t] = "same"])
      BY <1>6 DEF Create
    <2>. DEFINE u == CreatedBy(s, t, approved)
    <2>2. s.task[t].status = "absent" /\ queued' = TRUE /\ UNCHANGED <<loopVars, upsets>>
      BY <1>6 DEF Create
    <2>3. Good(u, session, TRUE) /\ Moved(s, u) /\ u.past = s.past
      <3>1. s.task[t].status = "absent"
        BY <2>2
      <3>2. Good(u, session, TRUE) /\ Moved(s, u) /\ SamePast(s, u)
        BY <1>4, <3>1, CreatedGood
      <3>. HIDE DEF u
      <3>. QED
        BY <3>2 DEF SamePast
    <2>4. Becomes(u)
      BY <2>1 DEF CreatedBy
    <2>. HIDE DEF u
    <2>. QED
      BY <1>2, <1>4, <1>5, <2>2, <2>3, <2>4, CommandStays DEF s
  <1>7. CASE Update(s, t)
    <2>. DEFINE u == UpdatedBy(s, t)
    <2>1. /\ s.task[t].status \in Editable /\ queued' = TRUE /\ UNCHANGED loopVars
          /\ Becomes(u) /\ Upset
      BY <1>7 DEF Update, UpdatedBy
    <2>2. Good(u, session, TRUE) /\ Moved(s, u) /\ u.past.claims = s.past.claims
      <3>1. s.task[t].status \in Editable
        BY <2>1
      <3>. QED
        BY <1>4, <3>1, UpdatedGood
    <2>. HIDE DEF u
    <2>. QED
      BY <1>2, <1>4, <1>5, <2>1, <2>2, CommandStays, UpsetTypes DEF s
  <1>8. CASE Approve(s, t)
    <2>. DEFINE u == Approved(s, t, "user")
    <2>1. /\ s.task[t].status \in {"pending_approval", "failed"} /\ queued' = TRUE
          /\ UNCHANGED <<loopVars, upsets>> /\ Becomes(u)
      BY <1>8 DEF Approve, MayApprove
    <2>2. Good(u, session, TRUE) /\ Moved(s, u) /\ u.past = s.past
      BY <1>4, <2>1, ApprovedGood DEF Authors
    <2>. HIDE DEF u
    <2>. QED
      BY <1>2, <1>4, <1>5, <2>1, <2>2, CommandStays DEF s
  <1>9. CASE Run(s, t)
    <2>. DEFINE u == Claimed(s, t, "user")
                r == Len(rows) + 1
    <2>1. /\ Len(rows) < MaxRuns /\ MayRun(s, t, task[t].rev) /\ Becomes(u)
          /\ session' = [session EXCEPT ![r] = "starting"] /\ queued' = TRUE
          /\ UNCHANGED <<late, hub, closing, mode, pump, sweep, upsets>>
      BY <1>9 DEF Run, StartsSession
    <2>2. Len(rows) \in Nat /\ DOMAIN rows = 1..Len(rows) /\ r \in RunIds
      <3>1. Len(rows) \in Nat /\ DOMAIN rows = 1..Len(rows)
        BY <1>3, StoreTypes, NowFacts DEF Good
      <3>. QED
        BY <2>1, <3>1, BoundsAssumption DEF RunIds
    <2>3. /\ session' \in [RunIds -> {"none", "starting", "working", "over"}]
          /\ session'[r] = "starting"
          /\ \A q \in RunIds : q # r => session'[q] = session[q]
      <3>. HIDE DEF r
      <3>. QED
        BY <1>5, <2>1, <2>2, SessionFacts
    <2>4. \A q \in DOMAIN s.rows : session'[q] = session[q]
      <3>1. DOMAIN rows \subseteq RunIds
        BY <1>3, RowsBounded, NowFacts
      <3>. QED
        BY <1>4, <2>2, <2>3, <3>1
    <2>5. /\ Good(u, session', TRUE) /\ Moved(s, u)
          /\ u.past.claims = s.past.claims
      <3>1. session'[Len(s.rows) + 1] = "starting" /\ Len(s.rows) < MaxRuns
        BY <1>4, <2>1, <2>3
      <3>2. "user" \in Authors /\ MayRun(s, t, task[t].rev)
        BY <2>1 DEF Authors
      <3>3. Good(u, session', TRUE) /\ Moved(s, u) /\ Counts(s, u, "user")
        BY <1>4, <2>4, <3>1, <3>2, ClaimedGood
      <3>. HIDE DEF u
      <3>. QED
        BY <3>3 DEF Counts
    <2>. HIDE DEF u, r
    <2>6. Moved(Now, u)
      BY <1>4, <2>5, MovedTwice
    <2>7. past'.claims = past.claims
      BY <1>4, <2>1, <2>5 DEF Becomes
    <2>8. PumpHolds'
      BY <2>1, <2>7, PumpStays DEF IInv
    <2>9. LoopTypes'
      BY <1>5, <2>1, <2>3 DEF LoopTypes
    <2>10. Good(u, session', hub' # "down") /\ hub # "down"
      BY <1>2, <2>1, <2>5
    <2>. QED
      BY <2>1, <2>6, <2>8, <2>9, <2>10, BecomesHolds
  <1>. QED
    BY <1>1, <1>6, <1>7, <1>8, <1>9

-----------------------------------------------------------------------------
(* The pump *)

\* What is in use of maxConcurrentRuns is finite.
LEMMA CapacityType == Capacity \in Nat
  <1>. DEFINE busy == {t \in Tasks : active[t] # None}
  <1>1. Cardinality(busy) \in Nat
    BY TasksAssumption, FS_Subset, FS_CardinalityType
  <1>2. Capacity = IF Cardinality(busy) < MaxConcurrent
                   THEN MaxConcurrent - Cardinality(busy) ELSE 0
    BY DEF Capacity
  <1>. QED
    BY <1>1, <1>2, BoundsAssumption

\* A pump, field by field.
LEMMA PumpFields ==
  ASSUME IsPump(pump)
  PROVE  /\ pump.on \in BOOLEAN /\ pump.stale \in BOOLEAN /\ pump.room \in Nat
         /\ IsListing(pump.todo) /\ pump.call \in {"none", "approve", "run"}
         /\ pump.task \in Tasks \cup {None} /\ pump.run \in Nat
         /\ pump = [on |-> pump.on, stale |-> pump.stale, room |-> pump.room,
                    todo |-> pump.todo, call |-> pump.call, task |-> pump.task,
                    run |-> pump.run]
  BY DEF IsPump

\* The next scope
LEMMA PumpScopeHolds ==
  ASSUME IInv, PumpScope
  PROVE  IInv' /\ Kept
  <1>. DEFINE s == Expired(Now, Tasks)
              todo == [t \in Candidates(s) |->
                         [status |-> s.task[t].status, rev |-> s.task[t].rev]]
  <1>1. /\ hub = "up" /\ hub' = hub /\ session' = session /\ mode' = mode /\ sweep' = sweep
        /\ PumpIdle
        /\ IF mode = "manual" THEN Becomes(Now) ELSE Becomes(s)
        /\ \/ pump' = IdlePump
           \/ /\ mode # "manual" /\ Capacity # 0
              /\ pump' = [pump EXCEPT !.on = TRUE, !.room = Capacity, !.todo = todo]
    BY DEF PumpScope
  <1>2. Good(Now, session, TRUE) /\ IsPump(pump)
    BY <1>1 DEF IInv, PumpHolds
  <1>3. Good(s, session, TRUE) /\ Moved(Now, s) /\ s.past = past
    BY <1>2, ExpiredGood, NowFacts
  <1>4. IsListing(todo)
    <2>1. \A t \in Candidates(s) : /\ t \in Tasks /\ s.task[t].status \in Statuses
                                   /\ s.task[t].rev \in Nat
      BY <1>3, TaskTypes DEF Candidates, Good
    <2>. HIDE DEF s
    <2>2. \A t \in Candidates(s) : todo[t] \in Seen
      BY <2>1 DEF Seen
    <2>. QED
      BY <2>1, <2>2 DEF IsListing
  <1>. HIDE DEF s, todo
  <1>5. PICK u \in {Now, s} : Becomes(u)
    BY <1>1
  <1>6. Good(u, session, TRUE) /\ Moved(Now, u) /\ u.past = past
    <2>1. CASE u = Now
      BY <1>2, <2>1, MovedSelf, NowFacts
    <2>. QED
      BY <1>3, <2>1
  <1>7. past'.claims = past.claims
    BY <1>5, <1>6 DEF Becomes
  <1>8. PumpHolds'
    <2>1. CASE pump' = IdlePump
      BY <1>7, <2>1, PumpStops DEF IInv
    <2>2. CASE /\ mode # "manual" /\ Capacity # 0
               /\ pump' = [pump EXCEPT !.on = TRUE, !.room = Capacity, !.todo = todo]
      <3>1. pump.call = "none" /\ pump.run = None
        BY <1>1 DEF PumpIdle
      <3>2. pump' = [on |-> TRUE, stale |-> pump.stale, room |-> Capacity,
                     todo |-> todo, call |-> pump.call, task |-> pump.task,
                     run |-> pump.run]
        <4>1. pump = [on |-> pump.on, stale |-> pump.stale, room |-> pump.room,
                      todo |-> pump.todo, call |-> pump.call, task |-> pump.task,
                      run |-> pump.run]
          BY <1>2, PumpFields
        <4>. QED
          BY <2>2, <4>1
      <3>3. Capacity \in Nat /\ Capacity # 0
        BY <2>2, CapacityType
      <3>. DEFINE room == Capacity
      <3>. HIDE DEF room
      <3>4. /\ pump'.on = TRUE /\ pump'.stale = pump.stale /\ pump'.room = room
            /\ pump'.todo = todo /\ pump'.call = pump.call /\ pump'.task = pump.task
            /\ pump'.run = pump.run
        BY <3>2 DEF room
      <3>5. /\ pump.on \in BOOLEAN /\ pump.stale \in BOOLEAN /\ pump.run \in Nat
            /\ pump.task \in Tasks \cup {None} /\ pump.call \in {"none", "approve", "run"}
        BY <1>2, PumpFields
      <3>6. pump' = [on |-> pump'.on, stale |-> pump'.stale, room |-> pump'.room,
                     todo |-> pump'.todo, call |-> pump'.call, task |-> pump'.task,
                     run |-> pump'.run]
        BY <3>2
      <3>7. IsPump(pump')
        BY <1>4, <3>3, <3>4, <3>5, <3>6 DEF IsPump, room
      <3>8. pump'.room > 0
        BY <3>3, <3>4 DEF room
      <3>. QED
        BY <1>1, <1>7, <2>2, <3>1, <3>4, <3>7, <3>8 DEF IInv, PumpHolds
    <2>. QED
      BY <1>1, <2>1, <2>2
  <1>9. LoopTypes'
    BY DEF IInv, LoopHolds, PumpScope, LoopTypes
  <1>. QED
    BY <1>1, <1>5, <1>6, <1>8, <1>9, BecomesHolds

\* A candidate that has been tried
LEMMA TriedFacts ==
  ASSUME PumpHolds, NEW t \in DOMAIN pump.todo, NEW run \in Nat,
         pump' = [Tried(t) EXCEPT !.run = run]
  PROVE  /\ IsPump(pump') /\ pump'.call = "none" /\ pump'.room > 0
         /\ pump'.on = pump.on /\ pump'.stale = pump.stale
  <1>. DEFINE todo == Without(pump.todo, {t})
  <1>1. IsPump(pump) /\ pump.room > 0
    BY DEF PumpHolds
  <1>2. /\ pump.on \in BOOLEAN /\ pump.stale \in BOOLEAN /\ pump.room \in Nat
        /\ IsListing(pump.todo)
    BY <1>1, PumpFields
  <1>3. IsListing(todo)
    BY <1>2 DEF Without, IsListing
  <1>. HIDE DEF todo
  <1>4. pump = [on |-> pump.on, stale |-> pump.stale, room |-> pump.room,
                todo |-> pump.todo, call |-> pump.call, task |-> pump.task,
                run |-> pump.run]
    BY <1>1, PumpFields
  <1>5. pump' = [on |-> pump.on, stale |-> pump.stale, room |-> pump.room,
                 todo |-> todo, call |-> "none", task |-> None, run |-> run]
    <2>1. PICK q : q = Tried(t)
      OBVIOUS
    <2>2. q = [pump EXCEPT !.todo = todo, !.call = "none", !.task = None]
      BY <2>1, Zenon DEF Tried, todo
    <2>3. q = [on |-> pump.on, stale |-> pump.stale, room |-> pump.room,
               todo |-> todo, call |-> "none", task |-> None, run |-> pump.run]
      BY <1>4, <2>2
    <2>4. pump' = [q EXCEPT !.run = run]
      BY <2>1
    <2>. QED
      BY <2>3, <2>4
  <1>6. /\ pump'.on = pump.on /\ pump'.stale = pump.stale /\ pump'.room = pump.room
        /\ pump'.todo = todo /\ pump'.call = "none" /\ pump'.task = None
        /\ pump'.run = run
    BY <1>5
  <1>7. pump' = [on |-> pump'.on, stale |-> pump'.stale, room |-> pump'.room,
                 todo |-> pump'.todo, call |-> pump'.call, task |-> pump'.task,
                 run |-> pump'.run]
    BY <1>5
  <1>8. IsPump(pump')
    BY <1>2, <1>3, <1>6, <1>7 DEF IsPump
  <1>. QED
    BY <1>1, <1>6, <1>8

\* ... without a run
LEMMA RefusedFacts ==
  ASSUME PumpHolds, NEW t \in DOMAIN pump.todo, pump.run = None, pump' = Tried(t)
  PROVE  /\ IsPump(pump') /\ pump'.call = "none" /\ pump'.room > 0
         /\ pump'.on = pump.on /\ pump'.stale = pump.stale
  <1>1. IsPump(pump)
    BY DEF PumpHolds
  <1>2. pump' = [Tried(t) EXCEPT !.run = None]
    <2>. DEFINE todo == Without(pump.todo, {t})
    <2>1. PICK q : q = Tried(t)
      OBVIOUS
    <2>2. q = [pump EXCEPT !.todo = todo, !.call = "none", !.task = None]
      BY <2>1, Zenon DEF Tried
    <2>. HIDE DEF todo
    <2>3. pump = [on |-> pump.on, stale |-> pump.stale, room |-> pump.room,
                  todo |-> pump.todo, call |-> pump.call, task |-> pump.task,
                  run |-> None]
      BY <1>1, PumpFields
    <2>4. q = [on |-> pump.on, stale |-> pump.stale, room |-> pump.room,
               todo |-> todo, call |-> "none", task |-> None, run |-> None]
      BY <2>2, <2>3
    <2>5. q = [q EXCEPT !.run = None]
      BY <2>4
    <2>. QED
      BY <2>1, <2>5
  <1>3. None \in Nat
    BY DEF None
  <1>. QED
    BY <1>2, <1>3, TriedFacts

\* The pump's claim, or the refusal of it
LEMMA PumpRunsHolds ==
  ASSUME IInv, NEW x, NEW t \in DOMAIN pump.todo, NEW rev,
         Good(x, session, TRUE), Moved(Now, x), x.past.claims = past.claims,
         x.rows = rows, pump.run = None, mode = "manual" => past.claims = 0,
         PumpRuns(x, t, rev), hub = "up", queued' \in BOOLEAN,
         UNCHANGED <<late, hub, closing, mode, sweep, upsets>>
  PROVE  IInv' /\ Kept
  <1>1. PumpHolds /\ LoopTypes
    BY DEF IInv, LoopHolds
  <1>2. t \in Tasks
    BY <1>1, PumpFields DEF PumpHolds, IsListing
  <1>3. /\ late' = late /\ hub' = hub /\ closing' = closing /\ mode' = mode
        /\ sweep' = sweep /\ upsets' = upsets
    OBVIOUS
  <1>4. CASE MayRun(x, t, rev)
    <2>. DEFINE u == Claimed(x, t, "auto")
                r == Len(rows) + 1
    <2>1. /\ Len(rows) < MaxRuns /\ Becomes(u)
          /\ session' = [session EXCEPT ![r] = "starting"]
          /\ pump' = [Tried(t) EXCEPT !.run = r]
      BY <1>4 DEF PumpRuns, StartsSession
    <2>2. Len(rows) \in Nat /\ DOMAIN rows = 1..Len(rows) /\ r \in RunIds /\ r \in Nat
      <3>1. Len(rows) \in Nat /\ DOMAIN rows = 1..Len(rows)
        BY StoreTypes, NowFacts DEF IInv, Good
      <3>. QED
        BY <2>1, <3>1, BoundsAssumption DEF RunIds
    <2>3. /\ session' \in [RunIds -> {"none", "starting", "working", "over"}]
          /\ session'[r] = "starting"
          /\ \A q \in RunIds : q # r => session'[q] = session[q]
      <3>. HIDE DEF r
      <3>. QED
        BY <1>1, <2>1, <2>2, SessionFacts
    <2>4. \A q \in DOMAIN x.rows : session'[q] = session[q]
      <3>1. DOMAIN rows \subseteq RunIds
        BY RowsBounded, NowFacts DEF IInv
      <3>. QED
        BY <2>2, <2>3, <3>1
    <2>5. Good(u, session', TRUE) /\ Moved(x, u) /\ Counts(x, u, "auto")
      <3>1. session'[Len(x.rows) + 1] = "starting" /\ Len(x.rows) < MaxRuns
        BY <2>1, <2>3
      <3>2. "auto" \in Authors
        BY DEF Authors
      <3>. QED
        BY <1>2, <1>4, <2>4, <3>1, <3>2, ClaimedGood
    <2>6. /\ IsPump(pump') /\ pump'.call = "none" /\ pump'.room > 0
          /\ pump'.on = pump.on /\ pump'.stale = pump.stale
      <3>. HIDE DEF r
      <3>. QED
        BY <1>1, <2>1, <2>2, TriedFacts
    <2>. HIDE DEF u, r
    <2>7. Moved(Now, u)
      BY <2>5, MovedTwice
    <2>8. past'.claims <= 1
      <3>1. past.claims \in Nat /\ past.claims <= 1
        <4>1. past \in Past
          BY StoreFields, NowFacts DEF IInv, Good
        <4>. QED
          BY <1>1, <4>1 DEF PumpHolds, Past
      <3>2. past'.claims = IF mode = "manual" THEN past.claims + 1 ELSE past.claims
        BY <2>1, <2>5 DEF Counts, Becomes
      <3>. QED
        BY <3>1, <3>2
    <2>9. PumpHolds'
      BY <1>1, <1>3, <2>6, <2>8 DEF PumpHolds
    <2>10. LoopTypes'
      BY <1>1, <1>3, <2>3 DEF LoopTypes
    <2>11. Good(u, session', hub' # "down") /\ hub' # "down"
      BY <1>3, <2>5
    <2>. QED
      BY <1>3, <2>1, <2>7, <2>9, <2>10, <2>11, BecomesHolds
  <1>5. CASE ~ MayRun(x, t, rev)
    <2>1. Becomes(x) /\ session' = session /\ pump' = Tried(t)
      BY <1>5 DEF PumpRuns
    <2>2. /\ IsPump(pump') /\ pump'.call = "none" /\ pump'.room > 0
          /\ pump'.on = pump.on /\ pump'.stale = pump.stale
      BY <1>1, <2>1, RefusedFacts
    <2>3. past'.claims = past.claims
      BY <2>1 DEF Becomes
    <2>4. PumpHolds'
      BY <1>1, <1>3, <2>2, <2>3 DEF PumpHolds
    <2>5. LoopTypes'
      BY <1>1, <1>3, <2>1 DEF LoopTypes
    <2>6. Good(x, session', hub' # "down") /\ hub' # "down"
      BY <1>3, <2>1
    <2>. QED
      BY <1>3, <2>1, <2>4, <2>5, <2>6, BecomesHolds
  <1>. QED
    BY <1>4, <1>5

\* A candidate that is tried at once
LEMMA PumpTriesHolds ==
  ASSUME IInv, NEW t \in Tasks, PumpTries(t)
  PROVE  IInv' /\ Kept
  <1>. DEFINE s == Reconciled(Now)
              seen == pump.todo[t]
              x == IF seen.status = "pending_approval" /\ MayApprove(s, t, seen.rev)
                   THEN Approved(s, t, "auto") ELSE s
              rev == seen.rev
  <1>1. /\ hub = "up" /\ Settled(Now) /\ PumpRuns(x, t, rev) /\ queued' = TRUE
        /\ UNCHANGED <<late, hub, closing, mode, sweep, upsets>>
        /\ pump.on /\ ~ pump.stale /\ pump.run = None
    BY DEF PumpTries, MayTry, PumpIdle
  <1>2. t \in DOMAIN pump.todo
    BY DEF PumpTries, MayTry
  <1>3. mode # "manual"
    BY <1>1 DEF IInv, PumpHolds
  <1>4. Good(Now, session, TRUE)
    BY <1>1 DEF IInv
  <1>5. /\ Good(s, session, TRUE) /\ Moved(Now, s)
        /\ s.past.claims = past.claims /\ s.rows = rows
    BY <1>1, <1>4, ReconciledGood, NowFacts
  <1>. HIDE DEF s
  <1>6. /\ Good(x, session, TRUE) /\ Moved(Now, x)
        /\ x.past.claims = past.claims /\ x.rows = rows
    <2>1. CASE x = s
      BY <1>5, <2>1
    <2>2. CASE /\ seen.status = "pending_approval" /\ MayApprove(s, t, seen.rev)
               /\ x = Approved(s, t, "auto")
      <3>1. s.task[t].status \in {"pending_approval", "failed"} /\ "auto" \in Authors
        BY <2>2 DEF MayApprove, Authors
      <3>. DEFINE u == Approved(s, t, "auto")
      <3>2. Good(u, session, TRUE) /\ Moved(s, u) /\ u.past = s.past /\ u.rows = s.rows
        BY <1>5, <3>1, ApprovedGood
      <3>. HIDE DEF u
      <3>3. x = u
        BY <2>2 DEF u
      <3>4. Moved(Now, u)
        BY <1>5, <3>2, MovedTwice
      <3>. QED
        BY <1>5, <3>2, <3>3, <3>4
    <2>. QED
      BY <2>1, <2>2
  <1>. HIDE DEF x, rev
  <1>. QED
    BY <1>1, <1>2, <1>3, <1>6, PumpRunsHolds

\* A candidate whose call has to wait
LEMMA PumpWaitsHolds ==
  ASSUME IInv, NEW t \in Tasks, PumpWaits(t)
  PROVE  IInv' /\ Kept
  <1>1. /\ session' = session /\ hub' = hub /\ mode' = mode /\ Reconciles(Now)
        /\ pump.on /\ ~ pump.stale /\ pump.run = None /\ hub = "up"
    BY DEF PumpWaits, MayTry, PumpIdle
  <1>2. t \in DOMAIN pump.todo
    BY DEF PumpWaits, MayTry
  <1>3. mode # "manual" /\ IsPump(pump) /\ pump.room > 0 /\ past.claims <= 1
    BY <1>1, <1>2 DEF IInv, PumpHolds
  <1>4. Swept(Now, session', hub' # "down")
    <2>1. AtWork(Now, session)
      BY DEF AtWork
    <2>2. Good(Now, session, hub # "down") /\ SweepHolds
      BY DEF IInv, LoopHolds
    <2>3. Swept(Now, session, hub # "down")
      BY <1>1, <2>1, <2>2, ReconcilesGood DEF SweepHolds
    <2>. QED
      BY <1>1, <2>3
  <1>5. LoopTypes'
    BY DEF IInv, LoopHolds, PumpWaits, LoopTypes
  <1>6. PumpHolds'
    <2>. DEFINE call == IF pump.todo[t].status = "pending_approval"
                        THEN "approve" ELSE "run"
    <2>1. pump' = [pump EXCEPT !.task = t, !.call = call]
      BY DEF PumpWaits
    <2>2. call \in {"none", "approve", "run"}
      OBVIOUS
    <2>. HIDE DEF call
    <2>3. pump = [on |-> pump.on, stale |-> pump.stale, room |-> pump.room,
                  todo |-> pump.todo, call |-> pump.call, task |-> pump.task,
                  run |-> pump.run]
      BY <1>3, PumpFields
    <2>4. pump' = [on |-> pump.on, stale |-> pump.stale, room |-> pump.room,
                   todo |-> pump.todo, call |-> call, task |-> t, run |-> pump.run]
      BY <2>1, <2>3
    <2>5. /\ pump'.on = pump.on /\ pump'.stale = pump.stale /\ pump'.room = pump.room
          /\ pump'.todo = pump.todo /\ pump'.call = call /\ pump'.task = t
          /\ pump'.run = pump.run
      BY <2>4
    <2>6. /\ pump.on \in BOOLEAN /\ pump.stale \in BOOLEAN /\ pump.room \in Nat
          /\ IsListing(pump.todo) /\ pump.run \in Nat
      BY <1>3, PumpFields
    <2>7. pump' = [on |-> pump'.on, stale |-> pump'.stale, room |-> pump'.room,
                   todo |-> pump'.todo, call |-> pump'.call, task |-> pump'.task,
                   run |-> pump'.run]
      BY <2>4, <2>5
    <2>8. IsPump(pump')
      BY <2>2, <2>5, <2>6, <2>7 DEF IsPump
    <2>9. past'.claims = past.claims
      BY <1>4, NowFacts DEF Swept
    <2>. QED
      BY <1>1, <1>2, <1>3, <2>5, <2>8, <2>9 DEF PumpHolds
  <1>. QED
    BY <1>1, <1>4, <1>5, <1>6, SweptHolds

\* A candidate, marked as approved
ApprovedSeen(t) == [pump.todo EXCEPT ![t].status = "approved"]

\* The listing of the pump stays one.
LEMMA ApprovedSeenFacts ==
  ASSUME IsPump(pump), NEW t \in DOMAIN pump.todo
  PROVE  IsListing(ApprovedSeen(t)) /\ DOMAIN ApprovedSeen(t) = DOMAIN pump.todo
  <1>1. IsListing(pump.todo)
    BY DEF IsPump
  <1>2. DOMAIN ApprovedSeen(t) = DOMAIN pump.todo
    BY DEF ApprovedSeen
  <1>3. ASSUME NEW q \in DOMAIN pump.todo
        PROVE  ApprovedSeen(t)[q] \in Seen
    <2>1. pump.todo[q] \in Seen
      BY <1>1 DEF IsListing
    <2>2. CASE q = t
      <3>1. ApprovedSeen(t)[q] = [pump.todo[q] EXCEPT !.status = "approved"]
        BY <2>2 DEF ApprovedSeen
      <3>. QED
        BY <2>1, <3>1 DEF Seen, Statuses
    <2>3. CASE q # t
      <3>1. ApprovedSeen(t)[q] = pump.todo[q]
        BY <2>3 DEF ApprovedSeen
      <3>. QED
        BY <2>1, <3>1
    <2>. QED
      BY <2>2, <2>3
  <1>. QED
    BY <1>1, <1>2, <1>3 DEF IsListing

\* A call that waited goes on
LEMMA PumpResumesHolds ==
  ASSUME IInv, NEW t \in Tasks, PumpResumes(t)
  PROVE  IInv' /\ Kept
  <1>. DEFINE rev == pump.todo[t].rev
  <1>1. /\ hub = "up" /\ pump.call # "none" /\ pump.task = t
        /\ UNCHANGED <<late, hub, closing, mode, sweep, upsets>>
    BY DEF PumpResumes
  <1>2. /\ late' = late /\ hub' = hub /\ closing' = closing /\ mode' = mode
        /\ sweep' = sweep /\ upsets' = upsets
    BY <1>1
  <1>3. /\ PumpHolds /\ LoopTypes /\ IsPump(pump) /\ t \in DOMAIN pump.todo
        /\ pump.run = None /\ pump.room > 0
    BY <1>1 DEF IInv, LoopHolds, PumpHolds
  <1>4. Good(Now, session, TRUE) /\ Moved(Now, Now)
    BY <1>1, MovedSelf DEF IInv
  <1>5. CASE /\ pump.call = "run" /\ PumpRuns(Now, t, rev) /\ UNCHANGED queued
    <2>1. mode = "manual" => past.claims = 0
      BY <1>3, <1>5 DEF PumpHolds
    <2>2. queued' \in BOOLEAN /\ PumpRuns(Now, t, rev)
      BY <1>3, <1>5 DEF LoopTypes
    <2>3. Now.rows = rows /\ Now.past.claims = past.claims
      BY NowFacts
    <2>. HIDE DEF rev
    <2>. QED
      BY <1>1, <1>3, <1>4, <2>1, <2>2, <2>3, PumpRunsHolds
  <1>6. CASE /\ pump.call = "approve"
             /\ IF MayApprove(Now, t, rev)
                THEN Becomes(Approved(Now, t, "auto")) /\ queued' = TRUE
                ELSE Becomes(Now) /\ UNCHANGED queued
             /\ \/ pump' = [pump EXCEPT !.call = "none", !.task = None,
                                        !.todo[t].status = "approved"]
                \/ pump' = Tried(t)
             /\ UNCHANGED session
    <2>1. PICK u : /\ Becomes(u) /\ Good(u, session, TRUE) /\ Moved(Now, u)
                   /\ u.past = past
      <3>1. CASE MayApprove(Now, t, rev)
        <4>1. Now.task[t].status \in {"pending_approval", "failed"} /\ "auto" \in Authors
          BY <3>1 DEF MayApprove, Authors
        <4>. DEFINE v == Approved(Now, t, "auto")
        <4>2. Good(v, session, TRUE) /\ Moved(Now, v) /\ v.past = Now.past
          BY <1>4, <4>1, ApprovedGood
        <4>3. Becomes(v)
          BY <1>6, <3>1
        <4>. HIDE DEF v
        <4>. QED
          BY <4>2, <4>3, NowFacts
      <3>2. CASE ~ MayApprove(Now, t, rev)
        BY <1>4, <1>6, <3>2, NowFacts
      <3>. QED
        BY <3>1, <3>2
    <2>2. past'.claims = past.claims
      BY <2>1 DEF Becomes
    <2>3. /\ IsPump(pump') /\ pump'.call = "none" /\ pump'.room > 0
          /\ pump'.on = pump.on /\ pump'.stale = pump.stale
      <3>1. CASE pump' = Tried(t)
        BY <1>3, <3>1, RefusedFacts
      <3>2. CASE pump' = [pump EXCEPT !.call = "none", !.task = None,
                                      !.todo[t].status = "approved"]
        <4>. DEFINE todo == ApprovedSeen(t)
        <4>1. IsListing(todo)
          BY <1>3, ApprovedSeenFacts
        <4>2. pump' = [pump EXCEPT !.call = "none", !.task = None, !.todo = todo]
          BY <3>2, Zenon DEF ApprovedSeen
        <4>. HIDE DEF todo
        <4>3. pump = [on |-> pump.on, stale |-> pump.stale, room |-> pump.room,
                      todo |-> pump.todo, call |-> pump.call, task |-> pump.task,
                      run |-> pump.run]
          BY <1>3, PumpFields
        <4>4. pump' = [on |-> pump.on, stale |-> pump.stale, room |-> pump.room,
                       todo |-> todo, call |-> "none", task |-> None, run |-> pump.run]
          BY <4>2, <4>3
        <4>5. /\ pump'.on = pump.on /\ pump'.stale = pump.stale
              /\ pump'.room = pump.room /\ pump'.todo = todo /\ pump'.call = "none"
              /\ pump'.task = None /\ pump'.run = pump.run
          BY <4>4
        <4>6. /\ pump.on \in BOOLEAN /\ pump.stale \in BOOLEAN /\ pump.room \in Nat
              /\ pump.run \in Nat
          BY <1>3, PumpFields
        <4>7. pump' = [on |-> pump'.on, stale |-> pump'.stale, room |-> pump'.room,
                       todo |-> pump'.todo, call |-> pump'.call, task |-> pump'.task,
                       run |-> pump'.run]
          BY <4>4, <4>5
        <4>8. IsPump(pump')
          BY <4>1, <4>5, <4>6, <4>7 DEF IsPump
        <4>. QED
          BY <1>3, <4>5, <4>8
      <3>. QED
        BY <1>6, <3>1, <3>2
    <2>4. PumpHolds'
      BY <1>2, <1>3, <2>2, <2>3 DEF PumpHolds
    <2>5. queued' \in BOOLEAN /\ session' = session
      BY <1>3, <1>6 DEF LoopTypes
    <2>6. LoopTypes'
      BY <1>2, <1>3, <2>5 DEF LoopTypes
    <2>7. Good(u, session', hub' # "down") /\ hub' # "down"
      BY <1>1, <1>2, <2>1, <2>5
    <2>. QED
      BY <1>2, <2>1, <2>4, <2>6, <2>7, BecomesHolds
  <1>7. \/ pump.call = "run" /\ PumpRuns(Now, t, rev) /\ UNCHANGED queued
        \/ /\ pump.call = "approve"
           /\ IF MayApprove(Now, t, rev)
              THEN Becomes(Approved(Now, t, "auto")) /\ queued' = TRUE
              ELSE Becomes(Now) /\ UNCHANGED queued
           /\ \/ pump' = [pump EXCEPT !.call = "none", !.task = None,
                                      !.todo[t].status = "approved"]
              \/ pump' = Tried(t)
           /\ UNCHANGED session
    BY DEF PumpResumes
  <1>. HIDE DEF rev
  <1>. QED
    BY <1>5, <1>6, <1>7

-----------------------------------------------------------------------------
(* The invariant, and what follows from it *)

\* The initial states
LEMMA InitHolds ==
  ASSUME Init
  PROVE  IInv
  <1>. DEFINE new == NewTask("user")
              absent == [new EXCEPT !.status = "absent"]
  <1>1. new \in TaskRow /\ new.run = None
    BY NewTaskType
  <1>2. task = [t \in Tasks |-> absent]
    BY DEF Init
  <1>. HIDE DEF new
  <1>3. "absent" \in Statuses
    BY DEF Statuses
  <1>4. absent \in TaskRow /\ absent.run = None /\ absent.status = "absent"
    BY <1>1, <1>3 DEF TaskRow
  <1>. HIDE DEF absent
  <1>5. /\ task \in TaskTable /\ file \in FileTable /\ rows = <<>> /\ active \in Entries
        /\ told \in RunSets /\ past \in Past
    <2>1. task \in TaskTable
      BY <1>2, <1>4 DEF TaskTable
    <2>2. file \in FileTable /\ active \in Entries /\ told \in RunSets /\ rows = <<>>
      BY DEF Init, FileTable, Entries, RunSets, None
    <2>3. past \in Past
      BY DEF Init, Past
    <2>. QED
      BY <2>1, <2>2, <2>3
  <1>6. Now \in Store /\ Len(rows) <= MaxRuns
    <2>1. rows \in RunTable /\ Len(rows) = 0
      BY <1>5 DEF RunTable
    <2>2. Len(rows) <= MaxRuns
      BY <2>1, BoundsAssumption
    <2>. QED
      BY <1>5, <2>1, <2>2 DEF Now, Store
  <1>7. ASSUME NEW t \in Tasks
        PROVE  GoodTask(Now, session, TRUE, t)
    <2>1. Of(Now, t) = {}
      BY <1>5, NowFacts DEF Of
    <2>2. Now.task[t].run = None /\ Now.task[t].status = "absent" /\ Now.active[t] = None
      BY <1>2, <1>4, NowFacts DEF Init
    <2>3. Referenced(Now, t) /\ AtRest(Now, t) /\ OneOpen(Now, t) /\ Pledged(Now, t)
      BY <2>1, <2>2 DEF Referenced, AtRest, OneOpen, Pledged
    <2>4. Linked(Now, session, t) /\ Unstarted(Now, session, t) /\ Housed(Now, session, TRUE, t)
      BY <2>1 DEF Linked, Unstarted, Housed
    <2>5. Backed(Now, t) /\ Done(Now, t)
      BY <2>2 DEF Backed, Done
    <2>. QED
      BY <2>3, <2>4, <2>5 DEF GoodTask
  <1>8. Good(Now, session, hub # "down") /\ hub = "up"
    BY <1>6, <1>7, NowFacts DEF Good, Init
  <1>9. LoopTypes
    BY DEF Init, LoopTypes
  <1>10. SweepHolds
    BY DEF Init, SweepHolds, IsSweep, IdleSweep
  <1>11. PumpHolds
    <2>1. past.claims = 0 /\ pump = IdlePump
      BY DEF Init
    <2>. QED
      BY <2>1, IdlePumpFacts DEF PumpHolds
  <1>. QED
    BY <1>8, <1>9, <1>10, <1>11 DEF IInv, LoopHolds

\* Every step keeps the invariant, and terminal tasks.
LEMMA NextHolds ==
  ASSUME IInv, [Next]_vars
  PROVE  IInv' /\ [Kept]_vars
  <1>1. CASE UNCHANGED vars
    BY <1>1 DEF vars, IInv, Good, GoodTask, Now, Ended, LoopHolds, LoopTypes, SweepHolds,
                PumpHolds, Current, AllOver
  <1>2. CASE Command
    BY <1>2, CommandHolds
  <1>3. CASE \E t \in Tasks : Cancel(t)
    BY <1>3, CancelHolds
  <1>4. CASE SetPolicy
    BY <1>4, SetPolicyHolds
  <1>5. CASE Reconcile
    BY <1>5, ReconcileHolds
  <1>6. CASE Resume
    BY <1>6, ResumeHolds
  <1>7. CASE Maintain
    BY <1>7, MaintainHolds
  <1>8. CASE StartAnswers
    <2>1. PICK r \in DOMAIN rows : StartReturns(r) \/ StartFails(r)
      BY <1>8 DEF StartAnswers
    <2>. QED
      BY <2>1, StartReturnsHolds, StartFailsHolds
  <1>9. CASE AgentEnds
    <2>1. PICK r \in DOMAIN rows, result \in {"completed", "cancelled", "failed"} :
            RunEnds(r, result)
      BY <1>9 DEF AgentEnds
    <2>. QED
      BY <2>1, RunEndsHolds
  <1>10. CASE PumpStep
    BY <1>10, PumpScopeHolds, PumpEndHolds, PumpTriesHolds, PumpWaitsHolds, PumpResumesHolds
       DEF PumpStep
  <1>11. CASE Outage
    BY <1>11, StopHolds, CrashHolds, CrashMidwayHolds, CrashInClaimHolds DEF Outage
  <1>12. CASE Stopped
    BY <1>12, StoppedHolds
  <1>13. CASE Restart
    BY <1>13, RestartHolds
  <1>14. CASE World
    <2>1. PICK t \in Tasks : EditFile(t) \/ DeleteFile(t) \/ PutBack(t) \/ Lapse(t)
      BY <1>14 DEF World
    <2>2. CASE Lapse(t)
      BY <2>2, LapseHolds
    <2>3. CASE Touch(t, "edited")
      BY <2>3, TouchHolds
    <2>4. CASE Touch(t, "none")
      BY <2>4, TouchHolds
    <2>5. CASE Touch(t, "same")
      BY <2>5, TouchHolds
    <2>. QED
      BY <2>1, <2>2, <2>3, <2>4, <2>5 DEF EditFile, DeleteFile, PutBack
  <1>. QED
    BY <1>1, <1>2, <1>3, <1>4, <1>5, <1>6, <1>7, <1>8, <1>9, <1>10, <1>11, <1>12, <1>13,
       <1>14 DEF Next

\* The invariant is inductive.
THEOREM InvariantHolds == Spec => []IInv
  <1>1. Init => IInv
    BY InitHolds
  <1>2. IInv /\ [Next]_vars => IInv'
    BY NextHolds
  <1>. QED
    BY <1>1, <1>2, PTL DEF Spec

\* Every variable of the agenda has its type: the type invariant of the
\* run, for any number of tasks.
THEOREM TypesHold == Spec => []TypeOK
  <1>1. IInv => TypeOK
    <2>. SUFFICES ASSUME IInv
                  PROVE  TypeOK
      OBVIOUS
    <2>1. /\ task \in TaskTable /\ file \in FileTable /\ rows \in RunTable
          /\ active \in Entries /\ told \in RunSets /\ past \in Past
      BY StoreFields, NowFacts DEF IInv, Good
    <2>2. LoopTypes /\ IsPump(pump) /\ IsSweep(sweep)
      BY DEF IInv, LoopHolds, PumpHolds, SweepHolds
    <2>. QED
      BY <2>1, <2>2 DEF TypeOK, TaskTable, FileTable, RunTable, Entries, RunSets, Past,
                        LoopTypes
  <1>. QED
    BY <1>1, InvariantHolds, PTL

\* An agent that was not told to stop works for the run its task names, on
\* the approved revision, whatever was edited, cancelled or deleted while its
\* session started (runTask after startSession).
THEOREM WorkIsApprovedHolds == Spec => []WorkIsApproved
  <1>1. IInv => WorkIsApproved
    <2>. SUFFICES ASSUME IInv, NEW r \in DOMAIN rows, session[r] = "working",
                         r \notin told, rows[r].task \notin past.overtaken
                  PROVE  /\ task[rows[r].task].status = "in_progress"
                         /\ task[rows[r].task].run = r /\ rows[r].status = "running"
                         /\ rows[r].rev = task[rows[r].task].rev
                         /\ task[rows[r].task].ok = task[rows[r].task].rev
      BY DEF WorkIsApproved
    <2>. DEFINE t == rows[r].task
    <2>1. /\ Good(Now, session, hub # "down") /\ t \in Tasks /\ r \in Of(Now, t)
      BY RunFacts
    <2>2. Linked(Now, session, t)
      BY <2>1 DEF Good, GoodTask
    <2>. QED
      BY <2>1, <2>2, NowFacts DEF Linked
  <1>. QED
    BY <1>1, InvariantHolds, PTL

\* While a hub is up, an unfinished run has a session and a task in progress
\* has a running run, whatever crashed before (recoverInterruptedRuns).
THEOREM ProgressIsBackedHolds == Spec => []ProgressIsBacked
  <1>1. IInv => ProgressIsBacked
    <2>. SUFFICES ASSUME IInv, hub # "down"
                  PROVE  /\ \A r \in DOMAIN rows :
                              \/ Ended(Now, r) \/ session[r] \in {"starting", "working"}
                              \/ rows[r].task \in past.overtaken
                         /\ \A t \in Tasks \ past.torn :
                              task[t].status = "in_progress" =>
                                /\ task[t].run # None
                                /\ rows[task[t].run].status = "running"
      BY DEF ProgressIsBacked
    <2>1. ASSUME NEW r \in DOMAIN rows
          PROVE  \/ Ended(Now, r) \/ session[r] \in {"starting", "working"}
                 \/ rows[r].task \in past.overtaken
      <3>. DEFINE t == rows[r].task
      <3>1. Good(Now, session, hub # "down") /\ t \in Tasks /\ r \in Of(Now, t)
        BY RunFacts
      <3>2. Housed(Now, session, hub # "down", t)
        BY <3>1 DEF Good, GoodTask
      <3>. QED
        BY <3>1, <3>2, NowFacts DEF Housed
    <2>2. ASSUME NEW t \in Tasks \ past.torn, task[t].status = "in_progress"
          PROVE  task[t].run # None /\ rows[task[t].run].status = "running"
      <3>1. Backed(Now, t)
        BY DEF IInv, Good, GoodTask
      <3>. QED
        BY <2>2, <3>1, NowFacts DEF Backed
    <2>. QED
      BY <2>1, <2>2
  <1>. QED
    BY <1>1, InvariantHolds, PTL

\* A completed task was completed by a run of its present revision.
THEOREM CompletedMeansDoneHolds == Spec => []CompletedMeansDone
  <1>1. IInv => CompletedMeansDone
    <2>. SUFFICES ASSUME IInv, NEW t \in Tasks \ (past.torn \cup past.overtaken),
                         task[t].status = "completed"
                  PROVE  \E r \in DOMAIN rows :
                           /\ rows[r].task = t /\ rows[r].status = "completed"
                           /\ rows[r].rev = task[t].rev
      BY DEF CompletedMeansDone
    <2>1. Done(Now, t)
      BY DEF IInv, Good, GoodTask
    <2>. QED
      BY <2>1, NowFacts DEF Done, Of
  <1>. QED
    BY <1>1, InvariantHolds, PTL

\* After a pause the pump claims at most the task whose runTask was under
\* way, wherever the pause falls in its loop.
THEOREM PauseHoldsAlways == Spec => []PauseHolds
  <1>1. IInv => PauseHolds
    BY DEF IInv, PumpHolds, PauseHolds
  <1>. QED
    BY <1>1, InvariantHolds, PTL

\* Terminal tasks stay terminal, whatever their files, runs and sessions do,
\* but for the return of a deleted spec and a stop of the hub that finds an
\* entry of a session still starting (dispose).
THEOREM TerminalStaysHolds == Spec => TerminalStays
  <1>1. IInv /\ [Next]_vars => [Kept]_vars
    BY NextHolds
  <1>2. [Kept]_vars => [\A t \in Tasks \ past'.overtaken :
       task[t].status \in Terminal =>
         \/ task'[t].status = task[t].status
         \/ task[t].status = "deleted" /\ file[t] # "none"
         \/ hub = "stopping" /\ active[t] # None]_vars
    BY DEF Kept
  <1>. QED
    BY <1>1, <1>2, InvariantHolds, PTL DEF Spec, TerminalStays

-----------------------------------------------------------------------------
(* Entries of activeRuns and the sessions behind them *)

\* A session that is wanted, or works.
Going(ses, r) == ses[r] \in {"starting", "working"}

\* Nothing but the last run of a task has not ended.
LastOpen(s) ==
  \A q, r \in DOMAIN s.rows :
    q < r /\ s.rows[q].task = s.rows[r].task => Ended(s, q)

\* A run that overlaps no older one.
FirstGoing(s, ses) ==
  \A q, r \in DOMAIN s.rows :
    /\ q < r /\ s.rows[q].task = s.rows[r].task
    /\ r \notin s.past.overlapping /\ Going(ses, r)
    => ~ Going(ses, q)

\* A run that counts against the limit while its session works.
Sure(s, r) ==
  /\ r \notin s.told \cup s.past.overlapping
  /\ s.rows[r].task \notin s.past.overtaken

\* Its session is the only one of its task, and activeRuns says so.
EntryNamed(s, ses) ==
  \A r \in DOMAIN s.rows :
    ses[r] = "working" /\ Sure(s, r) =>
      /\ s.active[s.rows[r].task] = r
      /\ \A q \in DOMAIN s.rows :
           q # r /\ s.rows[q].task = s.rows[r].task => ~ Going(ses, q)

\* What the limit rests on, of the runs and their entries.
Lone(s, ses) == LastOpen(s) /\ FirstGoing(s, ses) /\ EntryNamed(s, ses)

\* What the pump has started, or is starting.
Live(s, ses) == {r \in DOMAIN s.rows : s.rows[r].auto /\ Going(ses, r) /\ Sure(s, r)}

\* A stretch of code that takes an entry away only from sessions it tells, or
\* whose task it takes away.
Gentle(s, u, ses) ==
  /\ DOMAIN u.rows = DOMAIN s.rows
  /\ \A q \in DOMAIN s.rows :
       /\ u.rows[q].task = s.rows[q].task /\ u.rows[q].auto = s.rows[q].auto
       /\ Ended(s, q) => Ended(u, q)
  /\ s.told \subseteq u.told /\ s.past.overtaken \subseteq u.past.overtaken
  /\ u.past.overlapping = s.past.overlapping
  /\ \A t \in Tasks :
       \/ u.active[t] = s.active[t]
       \/ \A r \in Of(s, t) :
            ses[r] = "working" => r \in u.told \/ t \in u.past.overtaken

-----------------------------------------------------------------------------
(* Consent *)

\* What a file wrote is known to be a file's until somebody decides on it.
Consents(s, t) ==
  t \in s.past.filed =>
    /\ s.task[t].status # "absent"
    /\ s.task[t].status = "pending_approval" /\ t \notin late =>
         s.task[t].made = "file" \/ s.task[t].by = "file"

\* A task stays, its revisions grow, and a file writes a new revision.
Grows(s, u, t) ==
  LET e == s.task[t]
      f == u.task[t]
  IN  /\ e.status # "absent" => f.status # "absent" /\ e.rev <= f.rev
      /\ t \in u.past.filed \ s.past.filed => e.status = "absent" \/ e.rev < f.rev

\* A stretch of code that approves nothing.
Tame(s, u, t) ==
  /\ Grows(s, u, t) /\ u.task[t].ok \in {0, s.task[t].ok}
  /\ Consents(s, t) => Consents(u, t)

\* ... of any task
Meek(s, u) == \A t \in Tasks : Tame(s, u, t)

-----------------------------------------------------------------------------
(* Stretches follow each other *)

\* A stretch of code that does nothing is gentle.
LEMMA GentleSelf ==
  ASSUME NEW s, NEW ses
  PROVE  Gentle(s, s, ses)
  BY DEF Gentle

\* Gentle stretches follow each other.
LEMMA GentleTwice ==
  ASSUME NEW s, NEW u, NEW v, NEW ses, Gentle(s, u, ses), Gentle(u, v, ses)
  PROVE  Gentle(s, v, ses)
  <1>1. \A t : Of(u, t) = Of(s, t)
    BY DEF Of, Gentle
  <1>2. /\ DOMAIN v.rows = DOMAIN s.rows
        /\ \A q \in DOMAIN s.rows :
             /\ v.rows[q].task = s.rows[q].task /\ v.rows[q].auto = s.rows[q].auto
             /\ Ended(s, q) => Ended(v, q)
        /\ s.told \subseteq v.told /\ s.past.overtaken \subseteq v.past.overtaken
        /\ v.past.overlapping = s.past.overlapping
    BY DEF Gentle
  <1>3. ASSUME NEW t \in Tasks
        PROVE  \/ v.active[t] = s.active[t]
               \/ \A r \in Of(s, t) :
                    ses[r] = "working" => r \in v.told \/ t \in v.past.overtaken
    <2>1. /\ u.told \subseteq v.told /\ u.past.overtaken \subseteq v.past.overtaken
          /\ \/ u.active[t] = s.active[t]
             \/ \A r \in Of(s, t) :
                  ses[r] = "working" => r \in u.told \/ t \in u.past.overtaken
          /\ \/ v.active[t] = u.active[t]
             \/ \A r \in Of(s, t) :
                  ses[r] = "working" => r \in v.told \/ t \in v.past.overtaken
      BY <1>1 DEF Gentle
    <2>. QED
      BY <2>1
  <1>. QED
    BY <1>2, <1>3 DEF Gentle

\* The runs and entries are as they were.
LEMMA GentleFrame ==
  ASSUME NEW s, NEW u, NEW ses, u.rows = s.rows, u.active = s.active,
         s.told \subseteq u.told, s.past.overtaken \subseteq u.past.overtaken,
         u.past.overlapping = s.past.overlapping
  PROVE  Gentle(s, u, ses)
  BY DEF Gentle, Ended

\* After a gentle stretch each session at work still has its entry.
LEMMA GentleLone ==
  ASSUME NEW s \in Store, NEW u, NEW ses, Gentle(s, u, ses), Lone(s, ses)
  PROVE  Lone(u, ses) /\ Live(u, ses) \subseteq Live(s, ses)
  <1>1. \A r \in DOMAIN s.rows : Sure(u, r) => Sure(s, r)
    BY DEF Gentle, Sure
  <1>2. LastOpen(u)
    BY DEF Gentle, Lone, LastOpen
  <1>3. FirstGoing(u, ses)
    BY DEF Gentle, Lone, FirstGoing
  <1>4. ASSUME NEW r \in DOMAIN u.rows, ses[r] = "working", Sure(u, r)
        PROVE  /\ u.active[u.rows[r].task] = r
               /\ \A q \in DOMAIN u.rows :
                    q # r /\ u.rows[q].task = u.rows[r].task => ~ Going(ses, q)
    <2>1. r \in DOMAIN s.rows /\ Sure(s, r) /\ u.rows[r].task = s.rows[r].task
      BY <1>1, <1>4 DEF Gentle
    <2>2. /\ s.active[s.rows[r].task] = r
          /\ \A q \in DOMAIN s.rows :
               q # r /\ s.rows[q].task = s.rows[r].task => ~ Going(ses, q)
      BY <1>4, <2>1 DEF Lone, EntryNamed
    <2>3. s.rows[r].task \in Tasks /\ r \in Of(s, s.rows[r].task)
      BY <2>1, StoreTypes DEF RunRow, Of
    <2>4. r \notin u.told /\ s.rows[r].task \notin u.past.overtaken
      BY <1>4, <2>1 DEF Sure
    <2>5. u.active[s.rows[r].task] = r
      BY <1>4, <2>2, <2>3, <2>4 DEF Gentle
    <2>. QED
      BY <2>1, <2>2, <2>5 DEF Gentle
  <1>5. Live(u, ses) \subseteq Live(s, ses)
    BY <1>1 DEF Gentle, Live
  <1>. QED
    BY <1>2, <1>3, <1>4, <1>5 DEF Lone, EntryNamed

\* A stretch of code that does nothing is meek.
LEMMA MeekSelf ==
  ASSUME NEW s \in Store
  PROVE  Meek(s, s)
  <1>1. \A t \in Tasks : s.task[t].rev \in Nat
    BY TaskTypes
  <1>. QED
    BY <1>1 DEF Meek, Tame, Grows

\* Revisions grow over two stretches.
LEMMA GrowsTwice ==
  ASSUME NEW s \in Store, NEW u \in Store, NEW v \in Store, NEW t \in Tasks,
         Grows(s, u, t), Grows(u, v, t)
  PROVE  Grows(s, v, t)
  <1>1. s.task[t].rev \in Nat /\ u.task[t].rev \in Nat /\ v.task[t].rev \in Nat
    BY TaskTypes
  <1>. QED
    BY <1>1 DEF Grows

\* Meek stretches follow each other.
LEMMA MeekTwice ==
  ASSUME NEW s \in Store, NEW u \in Store, NEW v \in Store, Meek(s, u), Meek(u, v)
  PROVE  Meek(s, v)
  <1>1. ASSUME NEW t \in Tasks
        PROVE  Tame(s, v, t)
    <2>1. Tame(s, u, t) /\ Tame(u, v, t)
      BY DEF Meek
    <2>2. Grows(s, v, t)
      BY <2>1, GrowsTwice DEF Tame
    <2>. QED
      BY <2>1, <2>2 DEF Tame
  <1>. QED
    BY <1>1 DEF Meek

\* A task that a stretch leaves alone.
LEMMA TameFrame ==
  ASSUME NEW s \in Store, NEW u, NEW t \in Tasks, u.task[t] = s.task[t],
         t \in u.past.filed => t \in s.past.filed
  PROVE  Tame(s, u, t)
  <1>1. s.task[t].rev \in Nat
    BY TaskTypes
  <1>. QED
    BY <1>1 DEF Tame, Grows, Consents

\* A task that is decided on, in its revision.
LEMMA TameDecided ==
  ASSUME NEW s \in Store, NEW u, NEW t \in Tasks,
         u.task[t].status \notin {"absent", "pending_approval"},
         u.task[t].rev = s.task[t].rev, u.task[t].ok \in {0, s.task[t].ok},
         u.past.filed = s.past.filed
  PROVE  Tame(s, u, t)
  <1>1. s.task[t].rev \in Nat
    BY TaskTypes
  <1>. QED
    BY <1>1 DEF Tame, Grows, Consents

-----------------------------------------------------------------------------
(* The operators, one by one *)

\* What a change of the history leaves alone.
LEMMA HistoryFields ==
  ASSUME NEW p \in Past, NEW X \in SUBSET Tasks
  PROVE  /\ Refiled(p, X).overlapping = p.overlapping /\ Refiled(p, X).filed = X
         /\ Refiled(p, X).overtaken = p.overtaken
         /\ [p EXCEPT !.overtaken = X] \in Past
         /\ [p EXCEPT !.overtaken = X].overtaken = X
         /\ [p EXCEPT !.overtaken = X].overlapping = p.overlapping
         /\ [p EXCEPT !.overtaken = X].filed = p.filed
  BY DEF Past, Refiled

\* expireTask
LEMMA ExpiredSafe ==
  ASSUME NEW s, NEW S, NEW ses, NEW up, Good(s, ses, up)
  PROVE  /\ Gentle(s, Expired(s, S), ses) /\ Meek(s, Expired(s, S))
         /\ Expired(s, S).active = s.active /\ Expired(s, S).rows = s.rows
         /\ Expired(s, S).told = s.told
         /\ \A t \in Tasks : Expired(s, S).task[t].status = "pending_approval" =>
                               Expired(s, S).task[t] = s.task[t]
  <1>. DEFINE due(t) == t \in S \cap late /\ s.task[t].status \in Editable
                          /\ s.task[t].run = None
              f == [t \in Tasks |-> IF due(t) THEN Lapsed(s.task[t]) ELSE s.task[t]]
              u == Expired(s, S)
  <1>1. s \in Store
    BY DEF Good
  <1>2. \A t \in Tasks : s.task[t] \in TaskRow
    BY <1>1, TaskTypes
  <1>4. u = [s EXCEPT !.task = f]
    BY SMT DEF Expired, Lapsed
  <1>5. \A t : due(t) => s.task[t].status \in Editable
    OBVIOUS
  <1>. HIDE DEF due
  <1>3. f \in TaskTable
    BY <1>2, LapsedTypes, SMT DEF TaskTable
  <1>9. \A t \in Tasks : f[t] = IF due(t) THEN Lapsed(s.task[t]) ELSE s.task[t]
    BY SMT
  <1>. HIDE DEF f, u
  <1>6. /\ u \in Store /\ u.rows = s.rows /\ u.active = s.active /\ u.told = s.told
        /\ u.past = s.past /\ u.file = s.file /\ u.task = f
    BY <1>1, <1>3, <1>4, ChangeTasks
  <1>7. ASSUME NEW t \in Tasks
        PROVE  /\ Tame(s, u, t)
               /\ u.task[t].status = "pending_approval" => u.task[t] = s.task[t]
    <2>1. CASE due(t)
      <3>1. /\ u.task[t].status = "expired" /\ u.task[t].rev = s.task[t].rev
            /\ u.task[t].ok = 0
        BY <1>2, <1>6, <1>9, <2>1 DEF Lapsed, TaskRow
      <3>. QED
        BY <1>1, <1>6, <3>1, TameDecided
    <2>2. CASE ~ due(t)
      <3>1. u.task[t] = s.task[t]
        BY <1>6, <1>9, <2>2
      <3>. QED
        BY <1>1, <1>6, <3>1, TameFrame
    <2>. QED
      BY <2>1, <2>2
  <1>8. Gentle(s, u, ses)
    BY <1>6, GentleFrame
  <1>. QED
    BY <1>6, <1>7, <1>8 DEF u, Meek

\* What the pass over the files makes of who wrote a row.
LEMMA RowWriters ==
  ASSUME NEW e \in TaskRow
  PROVE  /\ Revised(e, "file").by = "file" /\ Revised(e, "file").ok = 0
         /\ Revised(e, "file").rev = e.rev + 1
         /\ Restored(e).ok \in {0, e.ok} /\ Restored(e).made = e.made
         /\ Restored(e).by \in {e.by, "file"}
         /\ Restored(e).status = "pending_approval" /\ e.status # "pending_approval"
              => Restored(e).by = "file"
         /\ Restored(e).status = "absent" => e.status = "absent"
         /\ NewTask("file").made = "file" /\ NewTask("file").ok = 0
  <1>1. /\ NewTask("file").made = "file" /\ NewTask("file").ok = 0
    BY DEF NewTask
  <1>2. /\ Restored(e).ok \in {0, e.ok} /\ Restored(e).made = e.made
        /\ Restored(e).by \in {e.by, "file"}
        /\ Restored(e).status = "pending_approval" /\ e.status # "pending_approval"
             => Restored(e).by = "file"
        /\ Restored(e).status = "absent" => e.status = "absent"
    BY DEF Restored, TaskRow
  <1>. DEFINE n == e.rev + 1
              k == None
  <1>3. Revised(e, "file") = [e EXCEPT !.status = "pending_approval", !.rev = n, !.ok = 0,
                                       !.run = k, !.by = "file"]
    BY DEF Revised
  <1>. HIDE DEF n, k
  <1>4. Revised(e, "file").by = "file" /\ Revised(e, "file").ok = 0 /\ Revised(e, "file").rev = n
    BY <1>3 DEF TaskRow
  <1>. QED
    BY <1>1, <1>2, <1>4 DEF n

\* The pass over the files
LEMMA ReadSafe ==
  ASSUME NEW s, NEW ses, NEW up, Good(s, ses, up)
  PROVE  /\ Gentle(s, Read(s), ses) /\ Meek(s, Read(s))
         /\ Read(s).active = s.active /\ Read(s).told = s.told
  <1>. DEFINE New == {t \in Tasks : s.file[t] # "none" /\ s.task[t].status = "absent"}
              Edits == {t \in Tasks \ New : Applies(s, t)}
              Refused == {t \in Tasks : /\ s.file[t] = "edited"
                                        /\ Restored(s.task[t]).status \in Terminal}
              f == [t \in Tasks |->
                     IF s.file[t] = "none" THEN s.task[t]
                     ELSE IF t \in New THEN NewTask("file")
                     ELSE IF t \in Edits THEN Revised(Restored(s.task[t]), "file")
                     ELSE Restored(s.task[t])]
              g == [t \in Tasks |->
                     IF t \in New \cup Edits \cup Refused THEN "same" ELSE s.file[t]]
              X == s.past.filed \cup New \cup Edits
              u == Read(s)
  <1>1. s \in Store
    BY DEF Good
  <1>2. \A t \in Tasks : s.task[t] \in TaskRow
    BY <1>1, TaskTypes
  <1>3. \A t \in Tasks : /\ NewTask("file") \in TaskRow
                         /\ Restored(s.task[t]) \in TaskRow
                         /\ Revised(Restored(s.task[t]), "file") \in TaskRow
    BY <1>2, RowTypes, NewTaskType DEF Authors
  <1>4. f \in TaskTable
    BY <1>2, <1>3 DEF TaskTable
  <1>5. g \in FileTable
    BY <1>1, StoreTypes DEF FileTable
  <1>6. X \in SUBSET Tasks
    BY <1>1, PastTypes
  <1>7. u = [task |-> f, file |-> g, rows |-> s.rows, active |-> s.active,
             told |-> s.told, past |-> Refiled(s.past, X)]
    <2>1. u = [s EXCEPT !.task = f, !.file = g, !.past.filed = X]
      BY DEF Read
    <2>2. s = [task |-> s.task, file |-> s.file, rows |-> s.rows,
               active |-> s.active, told |-> s.told, past |-> s.past]
      BY <1>1, StoreFields
    <2>. HIDE DEF f, g, X, u
    <2>. QED
      BY <2>1, <2>2 DEF Refiled
  <1>8. \A t \in Tasks :
          \/ s.file[t] = "none" /\ f[t] = s.task[t] /\ t \notin New \cup Edits
          \/ s.task[t].status = "absent" /\ f[t] = NewTask("file")
          \/ f[t] = Revised(Restored(s.task[t]), "file")
          \/ f[t] = Restored(s.task[t]) /\ t \notin New \cup Edits
    BY DEF Applies
  <1>. HIDE DEF New, Edits, Refused, f, g, u
  <1>9. /\ u \in Store /\ u.task = f /\ u.rows = s.rows /\ u.active = s.active
        /\ u.told = s.told /\ u.past.overtaken = s.past.overtaken
        /\ u.past.overlapping = s.past.overlapping /\ u.past.filed = X
    <2>1. s.past \in Past
      BY <1>1, StoreFields
    <2>2. /\ Refiled(s.past, X) \in Past
          /\ Refiled(s.past, X).overtaken = s.past.overtaken
          /\ Refiled(s.past, X).overlapping = s.past.overlapping
          /\ Refiled(s.past, X).filed = X
      BY <1>6, <2>1, RefiledTypes, HistoryFields
    <2>. HIDE DEF X
    <2>. QED
      BY <1>1, <1>4, <1>5, <1>7, <2>2, ChangeStore
  <1>10. ASSUME NEW t \in Tasks
         PROVE  Tame(s, u, t)
    <2>. DEFINE e == s.task[t]
                b == Restored(e)
    <2>1. u.task[t] = f[t] /\ e \in TaskRow /\ e.rev \in Nat
      BY <1>1, <1>2, <1>9, TaskTypes
    <2>2. /\ b \in TaskRow /\ b.rev = e.rev
          /\ b.ok \in {0, e.ok} /\ b.made = e.made /\ b.by \in {e.by, "file"}
          /\ b.status = "pending_approval" /\ e.status # "pending_approval" => b.by = "file"
          /\ b.status = "absent" => e.status = "absent"
      BY <2>1, RowTypes, RowWriters DEF Authors
    <2>3. t \notin New \cup Edits /\ t \in u.past.filed => t \in s.past.filed
      BY <1>9
    <2>4. CASE f[t] = e /\ t \notin New \cup Edits
      BY <1>1, <2>1, <2>3, <2>4, TameFrame
    <2>5. CASE e.status = "absent" /\ f[t] = NewTask("file")
      <3>1. /\ u.task[t].status = "pending_approval" /\ u.task[t].made = "file"
            /\ u.task[t].ok = 0
        BY <2>1, <2>5, NewTaskType, RowWriters
      <3>. HIDE DEF b
      <3>. QED
        BY <2>5, <3>1 DEF Tame, Grows, Consents
    <2>6. CASE f[t] = Revised(b, "file")
      <3>. HIDE DEF b, e
      <3>0. b \in TaskRow /\ "file" \in Authors
        BY <2>2 DEF Authors
      <3>1. /\ u.task[t].status = "pending_approval" /\ u.task[t].by = "file"
            /\ u.task[t].ok = 0 /\ u.task[t].rev = e.rev + 1
        BY <2>1, <2>2, <2>6, <3>0, RowTypes, RowWriters
      <3>. USE DEF e
      <3>. QED
        BY <2>1, <3>1 DEF Tame, Grows, Consents
    <2>7. CASE f[t] = b /\ t \notin New \cup Edits
      <3>1. u.task[t] = b
        BY <2>1, <2>7
      <3>. HIDE DEF b
      <3>2. Grows(s, u, t) /\ u.task[t].ok \in {0, e.ok}
        BY <2>1, <2>2, <2>3, <2>7, <3>1 DEF Grows
      <3>3. Consents(s, t) => Consents(u, t)
        BY <2>2, <2>3, <2>7, <3>1 DEF Consents
      <3>. QED
        BY <3>2, <3>3 DEF Tame
    <2>. QED
      BY <1>8, <2>4, <2>5, <2>6, <2>7
  <1>11. Gentle(s, u, ses)
    BY <1>9, GentleFrame
  <1>. QED
    BY <1>9, <1>10, <1>11 DEF u, Meek

\* The rest of a reconciliation
LEMMA ShelvedSafe ==
  ASSUME NEW s, NEW seen, NEW ses, NEW up, Good(s, ses, up), Current(s, seen)
  PROVE  /\ Gentle(s, Shelved(s, seen), ses) /\ Meek(s, Shelved(s, seen))
         /\ Shelved(s, seen).active = s.active /\ Shelved(s, seen).told = s.told
  <1>. DEFINE st(t) == IF seen[t].status \in Terminal THEN seen[t].status ELSE "deleted"
              f == [t \in Tasks |->
                     IF t \notin DOMAIN seen THEN s.task[t]
                     ELSE [s.task[t] EXCEPT !.status = st(t), !.ok = 0, !.run = None,
                                            !.by = "file", !.archived = TRUE]]
              X == s.past.overtaken \cup
                     {t \in DOMAIN seen : s.task[t].status \notin {seen[t].status, "deleted"}}
              p == [s.past EXCEPT !.overtaken = X]
              u == Shelved(s, seen)
  <1>1. s \in Store /\ s.past \in Past /\ s.file \in FileTable
    BY StoreFields DEF Good
  <1>2. \A t \in Tasks : s.task[t] \in TaskRow
    BY <1>1, TaskTypes
  <1>3. \A t : st(t) \in Terminal
    BY DEF Terminal
  <1>4. u = [task |-> f, file |-> s.file, rows |-> s.rows, active |-> s.active,
             told |-> s.told, past |-> p]
    <2>1. u = [s EXCEPT !.task = f, !.past.overtaken = X]
      BY DEF Shelved
    <2>2. s = [task |-> s.task, file |-> s.file, rows |-> s.rows,
               active |-> s.active, told |-> s.told, past |-> s.past]
      BY <1>1, StoreFields
    <2>. HIDE DEF f, X, u
    <2>. QED
      BY <2>1, <2>2
  <1>. HIDE DEF st
  <1>6. \A t \in Tasks : t \in DOMAIN seen =>
          /\ f[t] \in TaskRow /\ f[t].status = st(t)
          /\ f[t].rev = s.task[t].rev /\ f[t].ok = 0
    <2>. TAKE t \in Tasks
    <2>1. st(t) \in Statuses
      BY <1>3 DEF Terminal, Statuses
    <2>. QED
      BY <1>2, <2>1 DEF TaskRow, Authors, None
  <1>7. \A t \in Tasks : t \notin DOMAIN seen => f[t] = s.task[t]
    OBVIOUS
  <1>8. f \in TaskTable
    <2>1. \A t \in Tasks : f[t] \in TaskRow
      BY <1>2, <1>6, <1>7
    <2>. QED
      BY <2>1 DEF TaskTable
  <1>9. X \in SUBSET Tasks /\ s.past.overtaken \subseteq X
    BY <1>1, PastTypes DEF Current, IsListing
  <1>. HIDE DEF f, X, u
  <1>10. /\ p \in Past /\ p.overtaken = X /\ p.overlapping = s.past.overlapping
         /\ p.filed = s.past.filed
    BY <1>1, <1>9, HistoryFields
  <1>. HIDE DEF p
  <1>11. /\ u \in Store /\ u.task = f /\ u.rows = s.rows /\ u.active = s.active
         /\ u.told = s.told /\ u.past = p
    BY <1>1, <1>4, <1>8, <1>10, ChangeStore
  <1>12. ASSUME NEW t \in Tasks
         PROVE  Tame(s, u, t)
    <2>1. CASE t \notin DOMAIN seen
      BY <1>1, <1>7, <1>10, <1>11, <2>1, TameFrame
    <2>2. CASE t \in DOMAIN seen
      <3>1. u.task[t].status \notin {"absent", "pending_approval"}
        BY <1>3, <1>6, <1>11, <2>2 DEF Terminal
      <3>2. u.task[t].rev = s.task[t].rev /\ u.task[t].ok = 0
        BY <1>6, <1>11, <2>2
      <3>. QED
        BY <1>1, <1>10, <1>11, <3>1, <3>2, TameDecided
    <2>. QED
      BY <2>1, <2>2
  <1>13. Gentle(s, u, ses)
    BY <1>9, <1>10, <1>11, GentleFrame
  <1>. QED
    BY <1>11, <1>12, <1>13 DEF u, Meek

\* updateRun
LEMMA EndRunSafe ==
  ASSUME NEW s \in Store, NEW r, r = None \/ r \in DOMAIN s.rows,
         NEW status \in TERMINAL_RUN_STATUSES
  PROVE  LET u == EndRun(s, r, status)
         IN  /\ DOMAIN u.rows = DOMAIN s.rows
             /\ \A q \in DOMAIN s.rows :
                  /\ u.rows[q].task = s.rows[q].task /\ u.rows[q].auto = s.rows[q].auto
                  /\ Ended(s, q) => Ended(u, q)
  <1>. DEFINE u == EndRun(s, r, status)
  <1>1. /\ Len(u.rows) = Len(s.rows) /\ DOMAIN u.rows = DOMAIN s.rows
        /\ \A q \in DOMAIN s.rows :
             /\ u.rows[q].task = s.rows[q].task /\ u.rows[q].rev = s.rows[q].rev
             /\ q # r \/ Ended(s, r) => u.rows[q] = s.rows[q]
             /\ q = r => Ended(u, q)
    BY EndRunFacts
  <1>2. ASSUME NEW q \in DOMAIN s.rows
        PROVE  u.rows[q].auto = s.rows[q].auto
    <2>1. s.rows \in Seq(RunRow) /\ s.rows[q] \in RunRow
      BY StoreTypes
    <2>2. CASE r = None \/ Ended(s, r)
      BY <2>2 DEF EndRun
    <2>3. CASE ~ (r = None \/ Ended(s, r))
      <3>. DEFINE row == [s.rows[r] EXCEPT !.status = status]
                  h == [s.rows EXCEPT ![r] = row]
      <3>1. u = [s EXCEPT !.rows = h]
        BY <2>3 DEF EndRun
      <3>2. s.rows[r] \in RunRow => row.auto = s.rows[r].auto
        BY DEF RunRow
      <3>3. s = [task |-> s.task, file |-> s.file, rows |-> s.rows,
                 active |-> s.active, told |-> s.told, past |-> s.past]
        BY StoreFields
      <3>. HIDE DEF row, u
      <3>4. u.rows = h
        BY <3>1, <3>3
      <3>. QED
        BY <2>1, <3>2, <3>4
    <2>. QED
      BY <2>2, <2>3
  <1>3. \A q \in DOMAIN s.rows : Ended(s, q) => Ended(u, q)
    BY <1>1 DEF Ended
  <1>. QED
    BY <1>1, <1>2, <1>3

\* cancelTask: who is at work for the task is told, unless it was overtaken.
LEMMA CancelledSafe ==
  ASSUME NEW s, NEW ses, NEW up, NEW t \in Tasks, NEW status \in {"cancelled", "deleted"},
         NEW who \in Authors, Good(s, ses, up), AtWork(s, ses)
  PROVE  LET u == Cancelled(s, t, status, who)
         IN  Gentle(s, u, ses) /\ Meek(s, u)
  <1>. DEFINE u == Cancelled(s, t, status, who)
              r == s.task[t].run
              w == EndRun(s, r, "cancelled")
  <1>1. s \in Store /\ s.task[t] \in TaskRow
    BY TaskTypes DEF Good
  <1>2. r = None \/ r \in DOMAIN s.rows
    <2>1. r = None \/ r \in Of(s, t)
      BY DEF Good, GoodTask, Referenced
    <2>. QED
      BY <1>1, <2>1, NoneIsNoRun
  <1>3. DOMAIN s.rows \subseteq RunIds
    BY RowsBounded
  <1>4. status \in Statuses
    BY DEF Statuses
  <1>5. /\ u \in Store /\ u.rows = w.rows /\ u.past = s.past
        /\ u.task[t] = Dropped(s.task[t], status, who) /\ u.active[t] = None
        /\ s.told \subseteq u.told
        /\ r # None /\ session[r] = "working" => r \in u.told
        /\ \A q \in Tasks : q # t => u.task[q] = s.task[q] /\ u.active[q] = s.active[q]
    BY <1>1, <1>2, <1>3, <1>4, CancelledFacts
  <1>6. /\ u.task[t].status = status /\ u.task[t].rev = s.task[t].rev
        /\ u.task[t].ok = 0
    <2>1. Dropped(s.task[t], status, who).ok = 0
      BY <1>1 DEF Dropped, TaskRow
    <2>. QED
      BY <1>1, <1>4, <1>5, <2>1, DroppedTypes
  <1>7. "cancelled" \in TERMINAL_RUN_STATUSES
    BY DEF TERMINAL_RUN_STATUSES
  <1>8. /\ DOMAIN w.rows = DOMAIN s.rows
        /\ \A q \in DOMAIN s.rows :
             /\ w.rows[q].task = s.rows[q].task /\ w.rows[q].auto = s.rows[q].auto
             /\ Ended(s, q) => Ended(w, q)
    BY <1>1, <1>2, <1>7, EndRunSafe
  <1>. HIDE DEF u, w
  <1>9. \A q \in Of(s, t) :
          ses[q] = "working" => q \in u.told \/ t \in u.past.overtaken
    <2>. TAKE q \in Of(s, t)
    <2>1. Linked(s, ses, t) /\ q \in DOMAIN s.rows /\ q # None
      BY <1>1, NoneIsNoRun DEF Good, GoodTask
    <2>2. ses[q] = "working" => session[q] = "working"
      BY <2>1 DEF AtWork
    <2>3. ses[q] = "working" /\ t \notin s.past.overtaken /\ q \notin s.told => q = r
      BY <2>1 DEF Linked
    <2>. HIDE DEF r
    <2>. QED
      BY <1>5, <2>1, <2>2, <2>3
  <1>10. Gentle(s, u, ses)
    <2>1. \A q \in DOMAIN s.rows : Ended(s, q) => Ended(u, q)
      BY <1>5, <1>8 DEF Ended
    <2>2. \A q \in Tasks :
            \/ u.active[q] = s.active[q]
            \/ \A k \in Of(s, q) :
                 ses[k] = "working" => k \in u.told \/ q \in u.past.overtaken
      BY <1>5, <1>9
    <2>. QED
      BY <1>5, <1>8, <2>1, <2>2 DEF Gentle
  <1>11. ASSUME NEW q \in Tasks
         PROVE  Tame(s, u, q)
    <2>1. CASE q = t
      BY <1>1, <1>5, <1>6, <2>1, TameDecided
    <2>2. CASE q # t
      BY <1>1, <1>5, <2>2, TameFrame
    <2>. QED
      BY <2>1, <2>2
  <1>. QED
    BY <1>10, <1>11 DEF u, Meek

-----------------------------------------------------------------------------
(* The end of a session *)

\* A stretch of code about run r, whose session is over: it may take away the
\* entry of r's task, and forget that r was told.
Parts(s, u, r) ==
  /\ DOMAIN u.rows = DOMAIN s.rows
  /\ \A q \in DOMAIN s.rows :
       /\ u.rows[q].task = s.rows[q].task /\ u.rows[q].auto = s.rows[q].auto
       /\ Ended(s, q) => Ended(u, q)
  /\ s.told \ {r} \subseteq u.told /\ s.past.overtaken \subseteq u.past.overtaken
  /\ u.past.overlapping = s.past.overlapping
  /\ \A t \in Tasks : t # s.rows[r].task => u.active[t] = s.active[t]

\* The other sessions keep their entries, and r no longer counts.
LEMMA PartsLone ==
  ASSUME NEW s \in Store, NEW u, NEW ses, NEW ses2, NEW r \in DOMAIN s.rows,
         DOMAIN s.rows \subseteq RunIds,
         Parts(s, u, r), OverAt(ses, ses2, r), Going(ses, r), Lone(s, ses)
  PROVE  Lone(u, ses2) /\ Live(u, ses2) \subseteq Live(s, ses) \ {r}
  <1>1. /\ ~ Going(ses2, r) /\ ses2[r] # "working"
        /\ \A q \in DOMAIN s.rows : q # r => ses2[q] = ses[q]
    BY DEF OverAt, Going
  <1>2. \A q \in DOMAIN s.rows : Going(ses2, q) => q # r /\ Going(ses, q)
    BY <1>1 DEF Going
  <1>3. \A q \in DOMAIN s.rows : q # r /\ Sure(u, q) => Sure(s, q)
    BY DEF Parts, Sure
  <1>4. LastOpen(u)
    BY DEF Parts, Lone, LastOpen
  <1>5. FirstGoing(u, ses2)
    <2>1. SUFFICES ASSUME NEW p \in DOMAIN s.rows, NEW q \in DOMAIN s.rows, p < q,
                          s.rows[p].task = s.rows[q].task,
                          q \notin s.past.overlapping, Going(ses2, q)
                   PROVE  ~ Going(ses2, p)
      BY DEF Parts, FirstGoing
    <2>2. ~ Going(ses, p)
      BY <1>2, <2>1 DEF Lone, FirstGoing
    <2>. QED
      BY <1>2, <2>2
  <1>6. ASSUME NEW q \in DOMAIN u.rows, ses2[q] = "working", Sure(u, q)
        PROVE  /\ u.active[u.rows[q].task] = q
               /\ \A p \in DOMAIN u.rows :
                    p # q /\ u.rows[p].task = u.rows[q].task => ~ Going(ses2, p)
    <2>1. /\ q \in DOMAIN s.rows /\ q # r /\ ses[q] = "working" /\ Sure(s, q)
          /\ u.rows[q].task = s.rows[q].task
      BY <1>1, <1>3, <1>6 DEF Parts
    <2>2. /\ s.active[s.rows[q].task] = q
          /\ \A p \in DOMAIN s.rows :
               p # q /\ s.rows[p].task = s.rows[q].task => ~ Going(ses, p)
      BY <2>1 DEF Lone, EntryNamed
    <2>3. s.rows[q].task # s.rows[r].task
      BY <2>1, <2>2
    <2>4. s.rows[q].task \in Tasks
      BY <2>1, StoreTypes DEF RunRow
    <2>5. u.active[s.rows[q].task] = q
      BY <2>2, <2>3, <2>4 DEF Parts
    <2>. QED
      BY <1>2, <2>1, <2>2, <2>5 DEF Parts
  <1>7. Live(u, ses2) \subseteq Live(s, ses) \ {r}
    BY <1>2, <1>3 DEF Parts, Live
  <1>. QED
    BY <1>4, <1>5, <1>6, <1>7 DEF Lone, EntryNamed

\* What ends run r, and perhaps the entry of its task.
LEMMA EndRunParts ==
  ASSUME NEW s \in Store, NEW u, NEW r \in DOMAIN s.rows,
         NEW status \in TERMINAL_RUN_STATUSES,
         u.rows = EndRun(s, r, status).rows, u.told = s.told, u.past = s.past,
         \A q \in Tasks : q # s.rows[r].task => u.active[q] = s.active[q]
  PROVE  Parts(s, u, r)
  <1>. DEFINE w == EndRun(s, r, status)
  <1>1. /\ DOMAIN w.rows = DOMAIN s.rows
        /\ \A q \in DOMAIN s.rows :
             /\ w.rows[q].task = s.rows[q].task /\ w.rows[q].auto = s.rows[q].auto
             /\ Ended(s, q) => Ended(w, q)
    BY EndRunSafe
  <1>2. u.rows = w.rows
    OBVIOUS
  <1>. HIDE DEF w
  <1>. QED
    BY <1>1, <1>2 DEF Parts, Ended

\* finishRunFailure
LEMMA FailedSafe ==
  ASSUME NEW s \in Store, NEW r \in DOMAIN s.rows
  PROVE  Parts(s, Failed(s, r), r) /\ Meek(s, Failed(s, r))
  <1>. DEFINE t == s.rows[r].task
              u == Failed(s, r)
              w == EndRun(s, r, "failed")
              e == [s.task[t] EXCEPT !.status = "failed", !.run = None, !.by = "hub"]
  <1>1. t \in Tasks /\ s.task[t] \in TaskRow
    BY StoreTypes, TaskTypes DEF RunRow
  <1>2. /\ w \in Store /\ w.task = s.task /\ w.file = s.file /\ w.active = s.active
        /\ w.told = s.told /\ w.past = s.past
    BY EndRunFacts DEF TERMINAL_RUN_STATUSES
  <1>3. "failed" \in TERMINAL_RUN_STATUSES
    BY DEF TERMINAL_RUN_STATUSES
  <1>4. ASSUME u.rows = w.rows, u.told = s.told, u.past = s.past,
               \A q \in Tasks : q # t => u.active[q] = s.active[q]
        PROVE  Parts(s, u, r)
    <2>. HIDE DEF u
    <2>. QED
      BY <1>3, <1>4, EndRunParts
  <1>5. ASSUME u.task = s.task, u.past = s.past
        PROVE  Meek(s, u)
    <2>. HIDE DEF u
    <2>1. \A q \in Tasks : Tame(s, u, q)
      BY <1>5, TameFrame
    <2>. QED
      BY <2>1 DEF Meek
  <1>. HIDE DEF w
  <1>6. CASE Ended(s, r) \/ s.task[t].status \in {"cancelled", "deleted"}
    <2>1. u = w
      BY <1>6 DEF Failed, EndRun, w
    <2>. HIDE DEF u
    <2>2. Parts(s, u, r) /\ Meek(s, u)
      BY <1>2, <1>4, <1>5, <2>1
    <2>. QED
      BY <2>2 DEF u
  <1>7. CASE ~ Ended(s, r) /\ s.task[t].status \notin {"cancelled", "deleted"}
             /\ s.task[t].run # r
    <2>1. u = Cleared(w, t)
      BY <1>7 DEF Failed, Cleared, WithActive, w
    <2>2. /\ u.task = s.task /\ u.rows = w.rows /\ u.told = s.told /\ u.past = s.past
          /\ \A q \in Tasks : q # t => u.active[q] = s.active[q]
      BY <1>1, <1>2, <2>1, ClearedFacts
    <2>. HIDE DEF u
    <2>3. Parts(s, u, r) /\ Meek(s, u)
      BY <1>4, <1>5, <2>2
    <2>. QED
      BY <2>3 DEF u
  <1>8. CASE ~ Ended(s, r) /\ s.task[t].status \notin {"cancelled", "deleted"}
             /\ s.task[t].run = r
    <2>1. /\ e \in TaskRow /\ e.status = "failed" /\ e.ok = s.task[t].ok
          /\ e.rev = s.task[t].rev
      <3>1. None \in Nat
        BY DEF None
      <3>. QED
        BY <1>1, <3>1, Zenon DEF TaskRow, Statuses, Authors
    <2>. HIDE DEF t
    <2>2. u = Put(w, t, e, None, w.told)
      <3>1. w = [task |-> w.task, file |-> w.file, rows |-> w.rows,
                 active |-> w.active, told |-> w.told, past |-> w.past]
        BY <1>2, StoreFields
      <3>2. u = [w EXCEPT !.active[t] = None,
                   !.task[t] = [@ EXCEPT !.status = "failed", !.run = None, !.by = "hub"]]
        BY <1>8 DEF Failed, w, t
      <3>3. e = [w.task[t] EXCEPT !.status = "failed", !.run = None, !.by = "hub"]
        BY <1>2
      <3>. HIDE DEF u
      <3>. QED
        BY <3>1, <3>2, <3>3 DEF Put, WithTold, WithTask, WithActive
    <2>3. w.told \in RunSets /\ None \in Nat
      BY <1>2, StoreFields DEF None
    <2>. HIDE DEF e
    <2>4. /\ u.rows = w.rows /\ u.past = s.past /\ u.task[t] = e /\ u.told = s.told
          /\ \A q \in Tasks : q # t => u.task[q] = s.task[q] /\ u.active[q] = s.active[q]
      <3>. HIDE DEF u
      <3>. QED
        BY <1>1, <1>2, <2>1, <2>2, <2>3, PutFacts
    <2>5. Parts(s, u, r)
      BY <1>4, <2>4
    <2>. HIDE DEF u
    <2>6. \A q \in Tasks : q # t => Tame(s, u, q)
      BY <2>4, TameFrame
    <2>7. Tame(s, u, t)
      BY <1>1, <2>1, <2>4, TameDecided
    <2>. QED
      BY <2>5, <2>6, <2>7 DEF Meek, u
  <1>. QED
    BY <1>6, <1>7, <1>8

\* finishRun of a completed session
LEMMA CompletedSafe ==
  ASSUME NEW s \in Store, NEW r \in DOMAIN s.rows
  PROVE  Parts(s, CompletedBy(s, r), r) /\ Meek(s, CompletedBy(s, r))
  <1>. DEFINE t == s.rows[r].task
              u == CompletedBy(s, r)
              w == EndRun(s, r, "completed")
              e == [s.task[t] EXCEPT !.status = "completed", !.run = None, !.by = "hub"]
              f == [s.task EXCEPT ![t] = e]
  <1>1. t \in Tasks
    BY StoreTypes DEF RunRow
  <1>2. /\ w \in Store /\ w.task = s.task /\ w.file = s.file /\ w.active = s.active
        /\ w.told = s.told /\ w.past = s.past
    BY EndRunFacts DEF TERMINAL_RUN_STATUSES
  <1>3. s.task[t] \in TaskRow /\ s.task \in [Tasks -> TaskRow]
    BY <1>1, TaskTypes, StoreTypes
  <1>4. u = WithTask(w, f)
    BY <1>2 DEF CompletedBy, WithTask, w
  <1>5. /\ e \in TaskRow /\ e.status = "completed" /\ e.ok = s.task[t].ok
        /\ e.rev = s.task[t].rev
    <2>1. None \in Nat
      BY DEF None
    <2>. QED
      BY <1>3, <2>1, Zenon DEF TaskRow, Statuses, Authors
  <1>. HIDE DEF t, u, w, e
  <1>6. /\ f \in TaskTable /\ f[t] = e /\ \A q \in Tasks : q # t => f[q] = s.task[q]
    BY <1>1, <1>3, <1>5 DEF TaskTable
  <1>. HIDE DEF f
  <1>7. /\ u.task = f /\ u.rows = w.rows /\ u.told = s.told /\ u.past = s.past
        /\ u.active = s.active
    BY <1>2, <1>4, <1>6, WithTaskFacts
  <1>8. Parts(s, u, r)
    BY <1>7, EndRunParts DEF w, TERMINAL_RUN_STATUSES
  <1>9. \A q \in Tasks : q # t => Tame(s, u, q)
    BY <1>6, <1>7, TameFrame
  <1>10. Tame(s, u, t)
    BY <1>1, <1>5, <1>6, <1>7, TameDecided
  <1>. QED
    BY <1>8, <1>9, <1>10 DEF Meek, u

\* A stretch that leaves the tasks and the history alone.
LEMMA MeekSame ==
  ASSUME NEW s, NEW c, NEW u, Meek(s, c), u.task = c.task, u.past = c.past
  PROVE  Meek(s, u)
  BY DEF Meek, Tame, Grows, Consents

\* runTask after startSession, when the start no longer stands
LEMMA DroppedSafe ==
  ASSUME NEW s \in Store, NEW r \in DOMAIN s.rows
  PROVE  LET u == [EndRun(s, r, "cancelled") EXCEPT !.active[s.rows[r].task] = None]
         IN  Parts(s, u, r) /\ Meek(s, u)
  <1>. DEFINE t == s.rows[r].task
              w == EndRun(s, r, "cancelled")
              u == [w EXCEPT !.active[t] = None]
  <1>1. t \in Tasks
    BY StoreTypes DEF RunRow
  <1>2. /\ w \in Store /\ w.task = s.task /\ w.file = s.file /\ w.active = s.active
        /\ w.told = s.told /\ w.past = s.past
    BY EndRunFacts DEF TERMINAL_RUN_STATUSES
  <1>3. u = Cleared(w, t)
    BY DEF Cleared, WithActive
  <1>. HIDE DEF t, u, w
  <1>4. /\ u.task = s.task /\ u.rows = w.rows /\ u.told = s.told /\ u.past = s.past
        /\ \A q \in Tasks : q # t => u.active[q] = s.active[q]
    BY <1>1, <1>2, <1>3, ClearedFacts
  <1>5. Parts(s, u, r)
    BY <1>4, EndRunParts DEF w, t, TERMINAL_RUN_STATUSES
  <1>6. Meek(s, u)
    BY <1>4, MeekSelf, MeekSame
  <1>. QED
    BY <1>5, <1>6 DEF u, w, t

\* cancelTask, of the task of r
LEMMA CancelledParts ==
  ASSUME NEW s, NEW ses, NEW up, NEW r \in DOMAIN s.rows, NEW who \in Authors,
         Good(s, ses, up)
  PROVE  Parts(s, Cancelled(s, s.rows[r].task, "cancelled", who), r)
  <1>. DEFINE t == s.rows[r].task
              u == Cancelled(s, t, "cancelled", who)
              k == s.task[t].run
              w == EndRun(s, k, "cancelled")
  <1>1. s \in Store /\ t \in Tasks
    BY StoreTypes DEF Good, RunRow
  <1>2. k = None \/ k \in DOMAIN s.rows
    <2>1. k = None \/ k \in Of(s, t)
      BY <1>1 DEF Good, GoodTask, Referenced
    <2>. QED
      BY <1>1, <2>1, NoneIsNoRun
  <1>3. DOMAIN s.rows \subseteq RunIds
    BY RowsBounded
  <1>4. "cancelled" \in Statuses /\ "cancelled" \in TERMINAL_RUN_STATUSES
    BY DEF Statuses, TERMINAL_RUN_STATUSES
  <1>5. /\ u \in Store /\ u.rows = w.rows /\ u.past = s.past
        /\ s.told \subseteq u.told
        /\ \A q \in Tasks : q # t => u.task[q] = s.task[q] /\ u.active[q] = s.active[q]
    BY <1>1, <1>2, <1>3, <1>4, CancelledFacts
  <1>6. /\ DOMAIN w.rows = DOMAIN s.rows
        /\ \A q \in DOMAIN s.rows :
             /\ w.rows[q].task = s.rows[q].task /\ w.rows[q].auto = s.rows[q].auto
             /\ Ended(s, q) => Ended(w, q)
    BY <1>1, <1>2, <1>4, EndRunSafe
  <1>. HIDE DEF u, w
  <1>7. Parts(s, u, r)
    BY <1>5, <1>6 DEF Parts, Ended
  <1>. QED
    BY <1>7 DEF u

\* The finally of finishRun
LEMMA LeftParts ==
  ASSUME NEW s \in Store, NEW c \in Store, NEW r \in DOMAIN s.rows, Parts(s, c, r),
         Meek(s, c)
  PROVE  LET u == Left(c, s.rows[r].task, r)
         IN  Parts(s, u, r) /\ Meek(s, u)
  <1>. DEFINE t == s.rows[r].task
              u == Left(c, t, r)
  <1>1. t \in Tasks
    BY StoreTypes DEF RunRow
  <1>2. /\ u.task = c.task /\ u.rows = c.rows /\ u.told = c.told \ {r}
        /\ u.past = c.past /\ \A q \in Tasks : q # t => u.active[q] = c.active[q]
    BY <1>1, LeftFacts
  <1>. HIDE DEF u
  <1>3. Parts(s, u, r)
    BY <1>2 DEF Parts, Ended
  <1>4. Meek(s, u)
    BY <1>2, MeekSame
  <1>. QED
    BY <1>3, <1>4 DEF u

\* finishRun after its wait
LEMMA FinishedSafe ==
  ASSUME NEW s, NEW ses, NEW ses2, NEW up, NEW r \in DOMAIN s.rows,
         NEW result \in {"completed", "cancelled", "failed"}, Good(s, ses, up),
         OverAt(ses, ses2, r), ses[r] = "working", AtWork(s, ses)
  PROVE  LET u == Left(Finished(s, r, result), s.rows[r].task, r)
         IN  Parts(s, u, r) /\ Meek(s, u)
  <1>. DEFINE t == s.rows[r].task
              c == Finished(s, r, result)
  <1>1. s \in Store /\ t \in Tasks
    BY StoreTypes DEF Good, RunRow
  <1>2. SUFFICES c \in Store /\ Parts(s, c, r) /\ Meek(s, c)
    <2>. HIDE DEF c
    <2>. QED
      BY <1>1, <1>2, LeftParts DEF c
  <1>3. CASE c = s
    <2>1. Parts(s, s, r)
      BY DEF Parts
    <2>2. Meek(s, s)
      BY <1>1, MeekSelf
    <2>. QED
      BY <1>1, <1>3, <2>1, <2>2
  <1>4. CASE ~ Ended(s, r) /\ c = CompletedBy(s, r)
    <2>1. CompletedBy(s, r) \in Store
      BY <1>4, CompletedGood DEF Good
    <2>. HIDE DEF c
    <2>. QED
      BY <1>1, <1>4, <2>1, CompletedSafe
  <1>5. CASE c = Failed(s, r)
    <2>1. Failed(s, r) \in Store
      BY FailedGood DEF Good
    <2>. HIDE DEF c
    <2>. QED
      BY <1>1, <1>5, <2>1, FailedSafe
  <1>6. CASE /\ c = Cancelled(s, t, "cancelled", "hub")
             /\ s.task[t].status \notin Terminal
    <2>. DEFINE v == Cancelled(s, t, "cancelled", "hub")
    <2>1. "cancelled" \in {"cancelled", "deleted"} /\ "hub" \in Authors
      BY DEF Authors
    <2>2. Good(v, ses, up)
      BY <1>1, <1>6, <2>1, CancelledGood
    <2>3. Meek(s, v)
      BY <1>1, <2>1, CancelledSafe
    <2>4. Parts(s, v, r)
      BY <2>1, CancelledParts
    <2>. HIDE DEF c, v
    <2>5. c = v
      BY <1>6 DEF v
    <2>. QED
      BY <2>2, <2>3, <2>4, <2>5 DEF Good
  <1>7. \/ c = s
        \/ ~ Ended(s, r) /\ c = CompletedBy(s, r)
        \/ c = Failed(s, r)
        \/ /\ c = Cancelled(s, t, "cancelled", "hub")
           /\ s.task[t].status \notin Terminal
    BY DEF Finished, CompletedBy, Terminal
  <1>. QED
    BY <1>3, <1>4, <1>5, <1>6, <1>7

-----------------------------------------------------------------------------
(* Commands and claims *)

\* finishRun up to its wait: the run that starts to work is the only one of
\* its task, and has the entry.
LEMMA StartedLone ==
  ASSUME NEW s \in Store, NEW ses, NEW ses2, NEW t \in Tasks, NEW r \in Of(s, t),
         DOMAIN s.rows \subseteq RunIds,
         ses[r] = "starting", ses2[r] = "working",
         \A q \in RunIds : q # r => ses2[q] = ses[q],
         ~ Ended(s, r), Lone(s, ses)
  PROVE  LET u == StartedBy(s, r)
         IN  Lone(u, ses2) /\ Live(u, ses2) \subseteq Live(s, ses)
  <1>. DEFINE u == StartedBy(s, r)
  <1>1. /\ u.told = s.told /\ u.past = s.past /\ DOMAIN u.rows = DOMAIN s.rows
        /\ \A q \in DOMAIN s.rows : q # r => u.rows[q] = s.rows[q]
        /\ u.rows[r].task = t /\ u.active[t] = r
        /\ \A q \in Tasks : q # t => u.active[q] = s.active[q]
    BY StartedFacts
  <1>2. r \in DOMAIN s.rows /\ s.rows[r].task = t /\ DOMAIN s.rows \subseteq Nat
    BY StoreTypes DEF Of
  <1>3. u.rows[r].auto = s.rows[r].auto
    <2>. DEFINE n == [s.rows[r] EXCEPT !.status = "running"]
                x == [s.rows EXCEPT ![r] = n]
    <2>1. s.rows[r] \in RunRow
      BY <1>2, StoreTypes
    <2>2. n.auto = s.rows[r].auto
      BY <2>1 DEF RunRow
    <2>3. s = [task |-> s.task, file |-> s.file, rows |-> s.rows,
               active |-> s.active, told |-> s.told, past |-> s.past]
      BY StoreFields
    <2>4. u.rows = x
      <3>1. u = [s EXCEPT !.rows[r].status = "running",
                          !.task[s.rows[r].task].status = "in_progress",
                          !.active[s.rows[r].task] = r]
        BY DEF StartedBy
      <3>. HIDE DEF u
      <3>. QED
        BY <2>3, <3>1
    <2>. HIDE DEF n, u
    <2>. QED
      BY <1>2, <2>2, <2>4
  <1>. HIDE DEF u
  <1>4. /\ \A q \in DOMAIN s.rows :
             /\ u.rows[q].task = s.rows[q].task /\ u.rows[q].auto = s.rows[q].auto
             /\ Going(ses2, q) <=> Going(ses, q)
             /\ q # r => ses2[q] = ses[q] /\ (Ended(s, q) => Ended(u, q))
             /\ Sure(u, q) <=> Sure(s, q)
        /\ Going(ses, r)
    BY <1>1, <1>2, <1>3 DEF Going, Sure, Ended
  <1>5. LastOpen(u)
    BY <1>1, <1>4 DEF Lone, LastOpen
  <1>6. FirstGoing(u, ses2)
    BY <1>1, <1>4 DEF Lone, FirstGoing
  <1>7. Live(u, ses2) \subseteq Live(s, ses)
    BY <1>1, <1>4 DEF Live
  <1>8. ASSUME NEW q \in DOMAIN u.rows, ses2[q] = "working", Sure(u, q)
        PROVE  /\ u.active[u.rows[q].task] = q
               /\ \A p \in DOMAIN u.rows :
                    p # q /\ u.rows[p].task = u.rows[q].task => ~ Going(ses2, p)
    <2>1. q \in DOMAIN s.rows /\ Sure(s, q) /\ Going(ses, q)
      BY <1>1, <1>4, <1>8 DEF Going
    <2>2. CASE q = r
      <3>1. \A p \in DOMAIN s.rows : s.rows[p].task = t /\ p # r => p < r
        BY <1>2 DEF Lone, LastOpen
      <3>2. r \notin s.past.overlapping
        BY <2>1, <2>2 DEF Sure
      <3>3. \A p \in DOMAIN s.rows : s.rows[p].task = t /\ p # r => ~ Going(ses, p)
        BY <1>2, <1>4, <3>1, <3>2 DEF Lone, FirstGoing
      <3>. QED
        BY <1>1, <1>2, <1>4, <2>2, <3>3
    <2>3. CASE q # r
      <3>1. ses[q] = "working"
        BY <1>4, <1>8, <2>1, <2>3
      <3>2. /\ s.active[s.rows[q].task] = q
            /\ \A p \in DOMAIN s.rows :
                 p # q /\ s.rows[p].task = s.rows[q].task => ~ Going(ses, p)
        BY <2>1, <3>1 DEF Lone, EntryNamed
      <3>3. s.rows[q].task # t
        BY <1>2, <1>4, <2>3, <3>2
      <3>4. s.rows[q].task \in Tasks
        BY <2>1, StoreTypes DEF RunRow
      <3>. QED
        BY <1>1, <1>4, <2>1, <3>2, <3>3, <3>4
    <2>. QED
      BY <2>2, <2>3
  <1>. QED
    BY <1>5, <1>6, <1>7, <1>8 DEF Lone, EntryNamed, u

\* ... approves nothing.
LEMMA StartedMeek ==
  ASSUME NEW s \in Store, NEW t \in Tasks, NEW r \in Of(s, t)
  PROVE  Meek(s, StartedBy(s, r))
  <1>. DEFINE u == StartedBy(s, r)
  <1>1. /\ u.past = s.past /\ u.task[t].status = "in_progress"
        /\ u.task[t].rev = s.task[t].rev /\ u.task[t].ok = s.task[t].ok
        /\ \A q \in Tasks : q # t => u.task[q] = s.task[q]
    BY StartedFacts
  <1>. HIDE DEF u
  <1>2. \A q \in Tasks : q # t => Tame(s, u, q)
    BY <1>1, TameFrame
  <1>3. Tame(s, u, t)
    BY <1>1, TameDecided
  <1>. QED
    BY <1>2, <1>3 DEF Meek, u

\* A stretch of code that may approve, for the next lemmas.
Mild(s, u) ==
  \A t \in Tasks : Grows(s, u, t) /\ (Consents(s, t) => Consents(u, t))

\* Whatever it approved is not the pump's, if a file wrote it.
Allowed(s, u, t) ==
  t \in u.past.filed /\ u.task[t].ok # 0 /\ u.task[t].ok # s.task[t].ok =>
    u.task[t].by # "auto"

\* What approves nothing is mild, and allowed.
LEMMA MeekMild ==
  ASSUME NEW s, NEW u, Meek(s, u)
  PROVE  Mild(s, u) /\ \A t \in Tasks : Allowed(s, u, t)
  BY DEF Meek, Tame, Mild, Allowed

\* Mild stretches follow each other.
LEMMA MildTwice ==
  ASSUME NEW s \in Store, NEW u \in Store, NEW v \in Store, Mild(s, u), Mild(u, v)
  PROVE  Mild(s, v)
  BY GrowsTwice DEF Mild

\* One that approves, after one that does not.
LEMMA MeekThenMild ==
  ASSUME NEW s \in Store, NEW u \in Store, NEW v \in Store, Meek(s, u), Mild(u, v),
         \A t \in Tasks : Allowed(u, v, t)
  PROVE  Mild(s, v) /\ \A t \in Tasks : Allowed(s, v, t)
  <1>1. Mild(s, v)
    BY MeekMild, MildTwice
  <1>2. \A t \in Tasks : Allowed(s, v, t)
    BY DEF Meek, Tame, Allowed
  <1>. QED
    BY <1>1, <1>2

\* ... and one that does not, after one that does.
LEMMA MildThenMeek ==
  ASSUME NEW s \in Store, NEW u \in Store, NEW v \in Store, Mild(s, u), Meek(u, v)
  PROVE  Mild(s, v)
  BY MeekMild, MildTwice

\* approveTask
LEMMA ApprovedSafe ==
  ASSUME NEW s \in Store, NEW t \in Tasks, NEW who \in Authors, NEW ses
  PROVE  LET u == Approved(s, t, who)
         IN  /\ u \in Store /\ Gentle(s, u, ses) /\ Mild(s, u)
             /\ u.rows = s.rows /\ u.active = s.active /\ u.past = s.past
             /\ u.told = s.told
             /\ u.task[t].by = who
             /\ \A q \in Tasks : q # t => u.task[q] = s.task[q]
  <1>. DEFINE row == [s.task[t] EXCEPT !.status = "approved", !.ok = s.task[t].rev,
                                       !.by = who]
              f == [s.task EXCEPT ![t] = row]
              u == Approved(s, t, who)
  <1>1. \A q \in Tasks : s.task[q].rev \in Nat
    BY TaskTypes
  <1>2. s.task[t] \in TaskRow /\ s.task[t].rev \in Nat /\ s.task \in [Tasks -> TaskRow]
    BY TaskTypes, StoreTypes
  <1>3. u = [s EXCEPT !.task = f]
    BY <1>2, StoreTypes DEF Approved
  <1>4. /\ row \in TaskRow /\ row.status = "approved" /\ row.by = who
        /\ row.rev = s.task[t].rev
    BY <1>2 DEF TaskRow, Statuses
  <1>. HIDE DEF row
  <1>5. /\ f \in TaskTable /\ f[t] = row
        /\ \A q \in Tasks : q # t => f[q] = s.task[q]
    BY <1>2, <1>4 DEF TaskTable
  <1>. HIDE DEF f
  <1>6. /\ u \in Store /\ u.rows = s.rows /\ u.active = s.active /\ u.told = s.told
        /\ u.past = s.past /\ u.task = f
    BY <1>3, <1>5, ChangeTasks
  <1>. HIDE DEF u
  <1>7. Gentle(s, u, ses)
    BY <1>6, GentleFrame
  <1>8. ASSUME NEW q \in Tasks
        PROVE  Grows(s, u, q) /\ (Consents(s, q) => Consents(u, q))
    <2>1. CASE q = t
      BY <1>1, <1>4, <1>5, <1>6, <2>1 DEF Grows, Consents
    <2>2. CASE q # t
      BY <1>1, <1>5, <1>6, <2>2 DEF Grows, Consents
    <2>. QED
      BY <2>1, <2>2
  <1>. QED
    BY <1>4, <1>5, <1>6, <1>7, <1>8 DEF u, Mild

\* createTask: no file has written a task that does not exist.
LEMMA CreatedSafe ==
  ASSUME NEW s \in Store, NEW t \in Tasks, NEW approved \in BOOLEAN, NEW ses,
         s.task[t].status = "absent", Consents(s, t)
  PROVE  LET u == CreatedBy(s, t, approved)
         IN  Gentle(s, u, ses) /\ Mild(s, u) /\ \A q \in Tasks : Allowed(s, u, q)
  <1>. DEFINE f == [s.task EXCEPT ![t] = Asked(approved)]
              g == [s.file EXCEPT ![t] = "same"]
              v == WithTask(s, f)
              u == CreatedBy(s, t, approved)
  <1>1. \A q \in Tasks : s.task[q].rev \in Nat
    BY TaskTypes
  <1>2. /\ f \in TaskTable /\ f[t] = Asked(approved)
        /\ \A q \in Tasks : q # t => f[q] = s.task[q]
    BY StoreTypes, AskedTypes DEF TaskTable
  <1>3. g \in FileTable
    BY StoreTypes DEF FileTable
  <1>4. s = [task |-> s.task, file |-> s.file, rows |-> s.rows,
             active |-> s.active, told |-> s.told, past |-> s.past]
    BY StoreFields
  <1>5. u = WithFile(v, g)
    BY <1>4 DEF WithFile, WithTask, CreatedBy
  <1>. HIDE DEF f, g, u
  <1>6. /\ v \in Store /\ v.task = f
        /\ v.rows = s.rows /\ v.active = s.active /\ v.told = s.told /\ v.past = s.past
    BY <1>2, WithTaskFacts
  <1>. HIDE DEF v
  <1>7. /\ u.task = f
        /\ u.rows = s.rows /\ u.active = s.active /\ u.told = s.told /\ u.past = s.past
    BY <1>3, <1>5, <1>6, WithFileFacts
  <1>8. t \notin s.past.filed
    BY DEF Consents
  <1>9. Gentle(s, u, ses)
    BY <1>7, GentleFrame
  <1>10. ASSUME NEW q \in Tasks
         PROVE  Grows(s, u, q) /\ (Consents(s, q) => Consents(u, q)) /\ Allowed(s, u, q)
    <2>1. CASE q = t
      BY <1>1, <1>7, <1>8, <2>1 DEF Grows, Consents, Allowed
    <2>2. CASE q # t
      BY <1>1, <1>2, <1>7, <2>2 DEF Grows, Consents, Allowed
    <2>. QED
      BY <2>1, <2>2
  <1>. QED
    BY <1>9, <1>10 DEF u, Mild

\* updateTask: the user has decided on the text.
LEMMA UpdatedSafe ==
  ASSUME NEW s \in Store, NEW t \in Tasks, NEW ses
  PROVE  LET u == UpdatedBy(s, t)
         IN  Gentle(s, u, ses) /\ Meek(s, u)
  <1>. DEFINE f == [s.task EXCEPT ![t] = Revised(s.task[t], "user")]
              p == Refiled(s.past, s.past.filed \ {t})
              v == WithTask(s, f)
              u == UpdatedBy(s, t)
  <1>1. s.past \in Past /\ s.task[t] \in TaskRow /\ s.task[t].rev \in Nat
    BY TaskTypes, StoreFields
  <1>2. "user" \in Authors
    BY DEF Authors
  <1>3. /\ Revised(s.task[t], "user") \in TaskRow
        /\ Revised(s.task[t], "user").status = "pending_approval"
    BY <1>1, <1>2, RowTypes
  <1>4. /\ Revised(s.task[t], "user").ok = 0
        /\ Revised(s.task[t], "user").rev = s.task[t].rev + 1
    <2>. DEFINE n == s.task[t].rev + 1
                k == None
                e == Revised(s.task[t], "user")
    <2>1. e = [s.task[t] EXCEPT !.status = "pending_approval", !.rev = n, !.ok = 0,
                                !.run = k, !.by = "user"]
      BY DEF Revised
    <2>. HIDE DEF n, k, e
    <2>2. e.ok = 0 /\ e.rev = n
      BY <1>1, <2>1 DEF TaskRow
    <2>. QED
      BY <2>2 DEF n, e
  <1>5. /\ f \in TaskTable /\ f[t] = Revised(s.task[t], "user")
        /\ \A q \in Tasks : q # t => f[q] = s.task[q]
    BY <1>3, StoreTypes DEF TaskTable
  <1>6. s.past.filed \ {t} \in SUBSET Tasks
    BY PastTypes
  <1>7. /\ p \in Past /\ p.overtaken = s.past.overtaken
        /\ p.overlapping = s.past.overlapping /\ p.filed = s.past.filed \ {t}
    BY <1>1, <1>6, RefiledTypes, HistoryFields
  <1>8. s = [task |-> s.task, file |-> s.file, rows |-> s.rows,
             active |-> s.active, told |-> s.told, past |-> s.past]
    BY StoreFields
  <1>9. u = WithPast(v, p)
    BY <1>8 DEF WithPast, WithTask, Refiled, UpdatedBy
  <1>. HIDE DEF f, p, u
  <1>10. /\ v \in Store /\ v.task = f
         /\ v.rows = s.rows /\ v.active = s.active /\ v.told = s.told
    BY <1>5, WithTaskFacts
  <1>. HIDE DEF v
  <1>11. /\ u.task = f /\ u.rows = s.rows /\ u.active = s.active /\ u.told = s.told
         /\ u.past = p
    BY <1>7, <1>9, <1>10, WithPastFacts
  <1>12. Gentle(s, u, ses)
    BY <1>7, <1>11, GentleFrame
  <1>13. \A q \in Tasks : q # t => Tame(s, u, q)
    BY <1>5, <1>7, <1>11, TameFrame
  <1>14. Tame(s, u, t)
    <2>1. /\ u.task[t].rev = s.task[t].rev + 1 /\ u.task[t].ok = 0
          /\ u.task[t].status = "pending_approval" /\ t \notin u.past.filed
      BY <1>3, <1>4, <1>5, <1>7, <1>11
    <2>. QED
      BY <1>1, <2>1 DEF Tame, Grows, Consents
  <1>. QED
    BY <1>12, <1>13, <1>14 DEF u, Meek

\* What a claim adds to the history.
LEMMA CountedMore ==
  ASSUME NEW p \in Past, NEW t, NEW r \in RunIds, NEW who
  PROVE  /\ Counted(p, t, r, who).filed = p.filed
         /\ \A q : q \in Counted(p, t, r, who).overlapping <=>
                     q \in p.overlapping \/ (q = r /\ Winding(t))
  <1>. DEFINE x == p.overlapping \cup {q \in {r} : Winding(t)}
              n == IF who = "auto" /\ mode = "manual" THEN p.claims + 1 ELSE p.claims
  <1>1. Counted(p, t, r, who) = [p EXCEPT !.overlapping = x, !.claims = n]
    BY DEF Counted
  <1>3. \A q : q \in x <=> q \in p.overlapping \/ (q = r /\ Winding(t))
    OBVIOUS
  <1>. HIDE DEF x, n
  <1>2. Counted(p, t, r, who).filed = p.filed /\ Counted(p, t, r, who).overlapping = x
    BY <1>1 DEF Past
  <1>. QED
    BY <1>2, <1>3

\* runTask up to its wait: the new run is the only one of its task that goes
\* on, or counts as overlapping.
LEMMA ClaimedSafe ==
  ASSUME NEW s \in Store, NEW ses2, NEW t \in Tasks, NEW who \in Authors, NEW rev,
         Len(s.rows) < MaxRuns, MayRun(s, t, rev), s.rows = rows,
         ses2[Len(s.rows) + 1] = "starting",
         \A q \in DOMAIN s.rows : ses2[q] = session[q],
         Lone(s, session)
  PROVE  LET u == Claimed(s, t, who)
             r == Len(s.rows) + 1
         IN  /\ Lone(u, ses2) /\ Meek(s, u)
             /\ Live(u, ses2) \subseteq Live(s, session) \cup {r}
             /\ who # "auto" => Live(u, ses2) \subseteq Live(s, session)
             /\ DOMAIN u.rows = DOMAIN s.rows \cup {r} /\ r \notin DOMAIN s.rows
             /\ u.rows[r].auto = (who = "auto")
             /\ \A q \in DOMAIN s.rows : u.rows[q] = s.rows[q]
             /\ u.past.filed = s.past.filed
  <1>. DEFINE u == Claimed(s, t, who)
              r == Len(s.rows) + 1
              n == NewRun(s, t, who)
  <1>1. /\ s.task[t].status \in {"approved", "failed"} /\ s.active[t] = None
        /\ \A q \in DOMAIN s.rows : s.rows[q].task = t => Ended(s, q)
    BY DEF MayRun
  <1>2. /\ u \in Store /\ u.told = s.told
        /\ u.rows = Append(s.rows, n)
        /\ u.past = Counted(s.past, t, r, who)
        /\ u.task[t] = Taken(s.task[t], r, who)
        /\ \A q \in Tasks : q # t => u.task[q] = s.task[q] /\ u.active[q] = s.active[q]
        /\ n \in RunRow /\ r \in RunIds
    BY <1>1, ClaimedFacts
  <1>3. /\ s.task[t] \in TaskRow /\ s.rows \in Seq(RunRow) /\ s.past \in Past
        /\ Len(s.rows) \in Nat /\ DOMAIN s.rows = 1..Len(s.rows)
    BY TaskTypes, StoreTypes, StoreFields
  <1>4. /\ u.task[t].status = s.task[t].status
        /\ u.task[t].rev = s.task[t].rev /\ u.task[t].ok = s.task[t].ok
    <2>1. r \in Nat
      BY <1>3
    <2>. HIDE DEF r, u
    <2>. QED
      BY <1>2, <1>3, <2>1, TakenTypes
  <1>5. /\ u.past.overtaken = s.past.overtaken /\ u.past.filed = s.past.filed
        /\ \A q : q \in u.past.overlapping <=>
                    q \in s.past.overlapping \/ (q = r /\ Winding(t))
    <2>. HIDE DEF u, r
    <2>1. s.past \in Past /\ r \in RunIds
      BY <1>2, <1>3
    <2>2. Counted(s.past, t, r, who).overtaken = s.past.overtaken
      BY <2>1, CountedTypes
    <2>3. /\ Counted(s.past, t, r, who).filed = s.past.filed
          /\ \A q : q \in Counted(s.past, t, r, who).overlapping <=>
                      q \in s.past.overlapping \/ (q = r /\ Winding(t))
      BY <2>1, CountedMore
    <2>. QED
      BY <1>2, <2>2, <2>3
  <1>6. n.task = t /\ n.status = "starting" /\ n.auto = (who = "auto")
    BY DEF NewRun
  <1>. HIDE DEF u, n
  <1>7. /\ DOMAIN u.rows = DOMAIN s.rows \cup {r} /\ u.rows[r] = n /\ r \notin DOMAIN s.rows
        /\ \A q \in DOMAIN s.rows : u.rows[q] = s.rows[q] /\ q < r /\ ~ (r < q)
        /\ ~ (r < r)
    BY <1>2, <1>3
  <1>8. Meek(s, u)
    <2>1. \A q \in Tasks : q # t => Tame(s, u, q)
      BY <1>2, <1>5, TameFrame
    <2>2. Tame(s, u, t)
      BY <1>1, <1>4, <1>5, TameDecided
    <2>. QED
      BY <2>1, <2>2 DEF Meek
  <1>9. ses2[r] = "starting"
    OBVIOUS
  <1>. HIDE DEF r
  <1>10. \A q \in DOMAIN s.rows :
           /\ Going(ses2, q) <=> Going(session, q)
           /\ Ended(u, q) <=> Ended(s, q)
           /\ Sure(u, q) => Sure(s, q)
           /\ q \in u.past.overlapping <=> q \in s.past.overlapping
    BY <1>2, <1>5, <1>7 DEF Going, Ended, Sure
  <1>11. LastOpen(u)
    <2>1. SUFFICES ASSUME NEW p \in DOMAIN u.rows, NEW q \in DOMAIN u.rows, p < q,
                          u.rows[p].task = u.rows[q].task
                   PROVE  Ended(u, p)
      BY DEF LastOpen
    <2>2. p \in DOMAIN s.rows /\ u.rows[p] = s.rows[p]
      BY <1>7, <2>1
    <2>3. CASE q = r
      BY <1>1, <1>6, <1>7, <1>10, <2>1, <2>2, <2>3
    <2>4. CASE q # r
      BY <1>7, <1>10, <2>1, <2>2, <2>4 DEF Lone, LastOpen
    <2>. QED
      BY <2>3, <2>4
  <1>12. FirstGoing(u, ses2)
    <2>1. SUFFICES ASSUME NEW p \in DOMAIN u.rows, NEW q \in DOMAIN u.rows, p < q,
                          u.rows[p].task = u.rows[q].task,
                          q \notin u.past.overlapping, Going(ses2, q)
                   PROVE  ~ Going(ses2, p)
      BY DEF FirstGoing
    <2>2. p \in DOMAIN s.rows /\ u.rows[p] = s.rows[p]
      BY <1>7, <2>1
    <2>3. CASE q = r
      <3>1. ~ Winding(t)
        BY <1>5, <2>1, <2>3
      <3>2. s.rows[p].task = t
        BY <1>6, <1>7, <2>1, <2>2, <2>3
      <3>3. ~ Going(session, p)
        BY <2>2, <3>1, <3>2 DEF Winding, Going
      <3>. QED
        BY <1>10, <2>2, <3>3
    <2>4. CASE q # r
      <3>1. q \in DOMAIN s.rows /\ u.rows[q] = s.rows[q]
        BY <1>7, <2>4
      <3>. QED
        BY <1>10, <2>1, <2>2, <3>1 DEF Lone, FirstGoing
    <2>. QED
      BY <2>3, <2>4
  <1>13. ASSUME NEW q \in DOMAIN u.rows, ses2[q] = "working", Sure(u, q)
         PROVE  /\ u.active[u.rows[q].task] = q
                /\ \A p \in DOMAIN u.rows :
                     p # q /\ u.rows[p].task = u.rows[q].task => ~ Going(ses2, p)
    <2>1. q # r
      BY <1>9, <1>13
    <2>2. /\ q \in DOMAIN s.rows /\ u.rows[q] = s.rows[q] /\ session[q] = "working"
          /\ Sure(s, q)
      BY <1>7, <1>10, <1>13, <2>1
    <2>3. /\ s.active[s.rows[q].task] = q
          /\ \A p \in DOMAIN s.rows :
               p # q /\ s.rows[p].task = s.rows[q].task => ~ Going(session, p)
      BY <2>2 DEF Lone, EntryNamed
    <2>4. q # None /\ s.rows[q].task \in Tasks
      <3>1. q \in 1..Len(s.rows) /\ s.rows[q] \in RunRow
        BY <1>3, <2>2
      <3>2. q # None
        BY <1>3, <3>1 DEF None
      <3>3. s.rows[q].task \in Tasks
        BY <3>1 DEF RunRow
      <3>. QED
        BY <3>2, <3>3
    <2>5. s.rows[q].task # t
      BY <1>1, <2>3, <2>4
    <2>. QED
      BY <1>2, <1>6, <1>7, <1>10, <2>2, <2>3, <2>4, <2>5
  <1>14. Live(u, ses2) \subseteq Live(s, session) \cup {r}
    BY <1>7, <1>10 DEF Live
  <1>15. who # "auto" => Live(u, ses2) \subseteq Live(s, session)
    BY <1>6, <1>7, <1>14 DEF Live
  <1>16. Lone(u, ses2)
    BY <1>11, <1>12, <1>13 DEF Lone, EntryNamed
  <1>. QED
    BY <1>5, <1>6, <1>7, <1>8, <1>14, <1>15, <1>16 DEF u, r

-----------------------------------------------------------------------------
(* Reconciliations *)

\* A stretch of code that neither counts less nor approves more.
Calm(s, u, ses) == Gentle(s, u, ses) /\ Meek(s, u)

\* One calm stretch after another.
LEMMA CalmTwice ==
  ASSUME NEW s \in Store, NEW u \in Store, NEW v \in Store, NEW ses,
         Calm(s, u, ses), Calm(u, v, ses)
  PROVE  Calm(s, v, ses)
  BY GentleTwice, MeekTwice DEF Calm

\* The pass over the rows
LEMMA SweepSafe ==
  ASSUME NEW s, NEW seen, NEW ses, NEW up, Good(s, ses, up), Current(s, seen),
         AtWork(s, ses),
         Sweep(s, seen)
  PROVE  Calm(s, Now', ses)
  <1>1. CASE Running(s, seen) = {}
    <2>1. Becomes(Shelved(s, seen))
      BY <1>1 DEF Sweep
    <2>2. Good(Shelved(s, seen), ses, up)
      BY <1>1, SettledShelved
    <2>3. Now' = Shelved(s, seen)
      BY <2>1, <2>2, BecomesNow DEF Good
    <2>4. Calm(s, Shelved(s, seen), ses)
      BY ShelvedSafe DEF Calm
    <2>. QED
      BY <2>3, <2>4
  <1>2. CASE Running(s, seen) # {}
    <2>1. PICK t \in Running(s, seen) :
            \E before \in SUBSET (DOMAIN seen \ Running(s, seen)) :
              LET b == Shelved(s, Only(seen, before))
              IN  IF /\ hub = "up" /\ s.task[t].rev = seen[t].rev
                     /\ s.task[t].status \notin {"completed", "expired"}
                  THEN /\ Becomes(Cancelled(b, t, "deleted", "file"))
                       /\ sweep' = [on |-> TRUE, task |-> t,
                                    rest |-> Without(seen, before \cup {t})]
                  ELSE Becomes(b) /\ sweep' = IdleSweep
      BY <1>2 DEF Sweep
    <2>2. PICK before \in SUBSET (DOMAIN seen \ Running(s, seen)) :
            LET b == Shelved(s, Only(seen, before))
            IN  \/ /\ s.task[t].status \notin {"completed", "expired"}
                   /\ Becomes(Cancelled(b, t, "deleted", "file"))
                \/ Becomes(b)
      BY <2>1
    <2>. DEFINE part == Only(seen, before)
                b == Shelved(s, part)
                c == Cancelled(b, t, "deleted", "file")
    <2>3. t \in Tasks /\ s.task[t].status \notin {"cancelled", "deleted"}
          /\ t \in DOMAIN seen /\ t \notin before
      BY DEF Running, Current, IsListing
    <2>4. /\ Current(s, part) /\ DOMAIN part = DOMAIN seen \cap before
          /\ \A q \in DOMAIN seen \cap before : part[q] = seen[q]
      <3>1. Current(s, part)
        BY OnlyFacts
      <3>2. DOMAIN part = DOMAIN seen \cap before
        BY DEF Only
      <3>3. \A q \in DOMAIN seen \cap before : part[q] = seen[q]
        BY DEF Only
      <3>. QED
        BY <3>1, <3>2, <3>3
    <2>. HIDE DEF part
    <2>5. \A q \in DOMAIN part :
            part[q].status = "in_progress" => s.task[q].status # "in_progress"
      BY <2>4 DEF Running
    <2>6. /\ Good(b, ses, up) /\ b.rows = s.rows
          /\ \A q \in Tasks \ DOMAIN part : b.task[q] = s.task[q]
      BY <2>4, <2>5, ShelvedGood
    <2>7. Calm(s, b, ses)
      BY <2>4, ShelvedSafe DEF Calm
    <2>8. b.task[t] = s.task[t]
      BY <2>3, <2>4, <2>6
    <2>. HIDE DEF b
    <2>9. CASE Becomes(b)
      BY <2>6, <2>7, <2>9, BecomesNow DEF Good
    <2>10. CASE Becomes(c) /\ s.task[t].status \notin {"completed", "expired"}
      <3>1. b.task[t].status \notin Terminal
        BY <2>3, <2>8, <2>10 DEF Terminal
      <3>2. "file" \in Authors /\ "deleted" \in {"cancelled", "deleted"}
        BY DEF Authors
      <3>3. AtWork(b, ses)
        BY <2>6 DEF AtWork
      <3>4. Good(b, ses, up)
        BY <2>6
      <3>5. Good(c, ses, up)
        BY <2>3, <3>1, <3>2, <3>3, <3>4, CancelledGood
      <3>6. Calm(b, c, ses)
        BY <2>3, <3>2, <3>3, <3>4, CancelledSafe DEF Calm
      <3>. HIDE DEF c
      <3>7. Now' = c
        BY <2>10, <3>5, BecomesNow DEF Good
      <3>. QED
        BY <2>7, <3>4, <3>5, <3>6, <3>7, CalmTwice DEF Good
    <2>. QED
      BY <2>2, <2>9, <2>10 DEF b, part
  <1>. QED
    BY <1>1, <1>2

\* reconcileFileStore
LEMMA ReconcilesSafe ==
  ASSUME NEW s, NEW ses, NEW up, Good(s, ses, up), AtWork(s, ses), Reconciles(s)
  PROVE  Calm(s, Now', ses)
  <1>. DEFINE f == Read(s)
              seen == Listed(f)
              u == Shelved(f, seen)
  <1>1. Good(f, ses, up) /\ f.rows = s.rows
    BY ReadGood
  <1>2. Current(f, seen) /\ s \in Store /\ f \in Store
    BY <1>1, ListedCurrent DEF Good
  <1>3. Calm(s, f, ses)
    BY ReadSafe DEF Calm
  <1>4. CASE sweep.on
    <2>1. Running(f, seen) = {} /\ Becomes(u)
      BY <1>4 DEF Reconciles
    <2>. HIDE DEF f, seen
    <2>2. Good(u, ses, up)
      BY <1>1, <1>2, <2>1, SettledShelved
    <2>3. Calm(f, u, ses)
      BY <1>1, <1>2, ShelvedSafe DEF Calm
    <2>. HIDE DEF u
    <2>4. Now' = u /\ u \in Store
      BY <2>1, <2>2, BecomesNow DEF Good
    <2>. QED
      BY <1>2, <1>3, <2>3, <2>4, CalmTwice
  <1>5. CASE ~ sweep.on
    <2>1. Sweep(f, seen)
      BY <1>5 DEF Reconciles
    <2>. HIDE DEF f, seen
    <2>2. AtWork(f, ses)
      BY <1>1 DEF AtWork
    <2>3. Calm(f, Now', ses) /\ Swept(f, ses, up)
      BY <1>1, <1>2, <2>1, <2>2, SweepSafe, SweepGood
    <2>4. Now' \in Store
      BY <2>3 DEF Swept, Good
    <2>. QED
      BY <1>2, <1>3, <2>3, <2>4, CalmTwice
  <1>. QED
    BY <1>4, <1>5

\* reconcileScope, when it does not have to wait
LEMMA ReconciledSafe ==
  ASSUME NEW s, NEW ses, NEW up, Good(s, ses, up), Settled(s)
  PROVE  Calm(s, Reconciled(s), ses)
  <1>. DEFINE f == Read(s)
              seen == Listed(f)
              u == Shelved(f, seen)
  <1>1. Good(f, ses, up)
    BY ReadGood
  <1>2. Current(f, seen) /\ s \in Store /\ f \in Store
    BY <1>1, ListedCurrent DEF Good
  <1>3. Calm(s, f, ses)
    BY ReadSafe DEF Calm
  <1>4. Running(f, seen) = {} /\ Reconciled(s) = u
    BY DEF Settled, Reconciled
  <1>. HIDE DEF f, seen
  <1>5. Good(u, ses, up)
    BY <1>1, <1>2, <1>4, SettledShelved
  <1>6. Calm(f, u, ses)
    BY <1>1, <1>2, ShelvedSafe DEF Calm
  <1>. HIDE DEF u
  <1>7. u \in Store
    BY <1>5 DEF Good
  <1>. QED
    BY <1>2, <1>3, <1>4, <1>6, <1>7, CalmTwice

\* recoverInterruptedRuns: every session is over, and no revision is approved
\* that was not.
LEMMA AwakeSafe ==
  ASSUME NEW ses, NEW up, Good(Now, ses, up), AllOver(ses)
  PROVE  Calm(Now, Awake, ses)
  <1>. DEFINE lost == {r \in DOMAIN rows : ~ Ended(Now, r)}
              f == [t \in Tasks |->
                     IF task[t].run = None \/ Ended(Now, task[t].run) THEN task[t]
                     ELSE Recovered(t, task[t].run)]
              x == [r \in DOMAIN rows |->
                     IF Ended(Now, r) THEN rows[r]
                     ELSE [rows[r] EXCEPT !.status = "interrupted"]]
              u == Awake
  <1>1. /\ Now \in Store /\ task \in TaskTable /\ rows \in RunTable
        /\ Now.rows = rows /\ Now.task = task /\ Now.past = past /\ Now.active = active
        /\ Now.told = told
    BY StoreFields, NowFacts DEF Good
  <1>2. u = [task |-> f, file |-> file, rows |-> x, active |-> active,
             told |-> told, past |-> past]
    <2>1. u = [Now EXCEPT !.rows = x, !.task = f]
      BY DEF Awake
    <2>. HIDE DEF f, x, u
    <2>. QED
      BY <2>1 DEF Now
  <1>3. /\ u.task = f /\ u.rows = x /\ u.active = active /\ u.told = told
        /\ u.past = past
    <2>. HIDE DEF f, x, u
    <2>. QED
      BY <1>2
  <1>4. \A r \in DOMAIN rows :
          /\ x[r].task = rows[r].task /\ x[r].auto = rows[r].auto
          /\ x[r].status \in {rows[r].status, "interrupted"}
    <2>1. SUFFICES ASSUME NEW r \in DOMAIN rows
                   PROVE  /\ x[r].task = rows[r].task /\ x[r].auto = rows[r].auto
                          /\ x[r].status \in {rows[r].status, "interrupted"}
      OBVIOUS
    <2>2. rows[r] \in RunRow
      BY <1>1, StoreTypes
    <2>3. x[r] = IF Ended(Now, r) THEN rows[r]
                 ELSE [rows[r] EXCEPT !.status = "interrupted"]
      OBVIOUS
    <2>. HIDE DEF x
    <2>. QED
      BY <2>2, <2>3 DEF RunRow
  <1>5. DOMAIN x = DOMAIN rows
    OBVIOUS
  <1>6. \A t \in Tasks :
          f[t] = IF task[t].run = None \/ Ended(Now, task[t].run) THEN task[t]
                 ELSE Recovered(t, task[t].run)
    OBVIOUS
  <1>. HIDE DEF f, x, u, lost
  <1>7. Gentle(Now, u, ses)
    BY <1>1, <1>3, <1>4, <1>5 DEF Gentle, Ended, TERMINAL_RUN_STATUSES
  <1>8. ASSUME NEW t \in Tasks
        PROVE  Tame(Now, u, t)
    <2>. DEFINE e == task[t]
                r == e.run
    <2>1. CASE f[t] = e
      BY <1>1, <1>3, <2>1, TameFrame
    <2>2. CASE f[t] # e
      <3>1. /\ r # None /\ ~ Ended(Now, r) /\ f[t] = Recovered(t, r)
            /\ e.status \notin Terminal
        BY <1>1, <1>6, <2>2 DEF Good, GoodTask, AtRest
      <3>2. rows[r].rev = e.rev /\ e.ok = e.rev
        BY <1>1, <3>1 DEF Good, GoodTask, Pledged
      <3>3. e \in TaskRow /\ e.rev \in Nat
        BY <1>1, TaskTypes
      <3>4. /\ f[t].status \in {"failed", "approved", "pending_approval"}
            /\ f[t].status = "pending_approval" => t \in late
            /\ f[t].rev = e.rev /\ f[t].ok \in {0, e.ok}
        <4>. DEFINE asleep == [e EXCEPT !.run = None, !.by = "hub"]
        <4>1. f[t] = IF rows[r].status = "running" THEN [asleep EXCEPT !.status = "failed"]
                     ELSE IF t \notin late
                       THEN [asleep EXCEPT !.status = "approved"]
                     ELSE [asleep EXCEPT !.status = "pending_approval", !.ok = 0]
          BY <3>1, <3>2 DEF Recovered
        <4>. HIDE DEF r
        <4>. DEFINE k == None
        <4>2. asleep = [e EXCEPT !.run = k, !.by = "hub"]
          OBVIOUS
        <4>. HIDE DEF k, e, asleep
        <4>3. asleep.ok = e.ok /\ asleep.rev = e.rev /\ asleep.status = e.status
              /\ DOMAIN asleep = DOMAIN e
          BY <3>3, <4>2 DEF TaskRow
        <4>. QED
          BY <3>3, <4>1, <4>2, <4>3 DEF TaskRow
      <3>. HIDE DEF r
      <3>. QED
        BY <1>1, <1>3, <3>3, <3>4 DEF Tame, Grows, Consents
    <2>. QED
      BY <2>1, <2>2
  <1>. QED
    BY <1>7, <1>8 DEF u, Calm, Meek

\* start
LEMMA RestartSafe ==
  ASSUME Good(Now, session, FALSE), AllOver(session), Restart
  PROVE  Calm(Now, Now', session)
  <1>. DEFINE s == Awake
              f == Read(s)
              c == Reconciled(s)
              u == Expired(c, Tasks)
  <1>1. Good(s, session, TRUE) /\ Calm(Now, s, session)
    BY AwakeGood, AwakeSafe
  <1>2. IF Settled(s) THEN Becomes(u) ELSE Sweep(f, Listed(f))
    BY DEF Restart, Awake
  <1>. HIDE DEF s
  <1>3. CASE Settled(s)
    <2>1. Good(c, session, TRUE) /\ Calm(s, c, session)
      BY <1>1, <1>3, ReconciledGood, ReconciledSafe
    <2>. HIDE DEF c
    <2>2. Good(u, session, TRUE) /\ Calm(c, u, session)
      BY <2>1, ExpiredGood, ExpiredSafe DEF Calm
    <2>3. Becomes(u)
      BY <1>2, <1>3
    <2>. HIDE DEF u
    <2>4. Now' = u
      BY <2>2, <2>3, BecomesNow DEF Good
    <2>5. Calm(Now, c, session)
      BY <1>1, <2>1, CalmTwice DEF Good
    <2>. QED
      BY <2>1, <2>2, <2>4, <2>5, CalmTwice DEF Good
  <1>4. CASE ~ Settled(s)
    <2>1. Good(f, session, TRUE) /\ Calm(s, f, session)
      BY <1>1, ReadGood, ReadSafe DEF Calm
    <2>2. Current(f, Listed(f))
      BY <2>1, ListedCurrent DEF Good
    <2>3. AtWork(f, session) /\ Sweep(f, Listed(f))
      BY <1>2, <1>4 DEF AtWork
    <2>. HIDE DEF f
    <2>4. Swept(f, session, TRUE) /\ Calm(f, Now', session)
      BY <2>1, <2>2, <2>3, SweepGood, SweepSafe
    <2>5. Calm(Now, f, session)
      BY <1>1, <2>1, CalmTwice DEF Good
    <2>. QED
      BY <2>1, <2>4, <2>5, CalmTwice DEF Good, Swept
  <1>. QED
    BY <1>3, <1>4

\* The rest of a reconciliation that waited
LEMMA ResumeSafe ==
  ASSUME IInv, Resume
  PROVE  Calm(Now, Now', session)
  <1>. DEFINE p == [q \in {sweep.task} |-> [status |-> "deleted", rev |-> task[q].rev]]
              u == Shelved(Now, p)
              up == hub # "down"
  <1>1. Sweep(u, sweep.rest) /\ sweep.on
    BY DEF Resume
  <1>2. Good(Now, session, up) /\ Current(Now, sweep.rest) /\ sweep.task \in Tasks
    BY <1>1 DEF IInv, LoopHolds, SweepHolds, IsSweep, IdleSweep
  <1>3. DOMAIN p = {sweep.task} /\ p[sweep.task].status = "deleted" /\ p[sweep.task] \in Seen
    <2>1. task[sweep.task].rev \in Nat
      BY <1>2, TaskTypes, NowFacts DEF Good
    <2>. QED
      BY <2>1 DEF Seen, Statuses
  <1>. HIDE DEF p, up
  <1>4. Current(Now, p)
    BY <1>2, <1>3 DEF Current, IsListing
  <1>5. Good(u, session, up) /\ Moved(Now, u)
    <2>1. \A t \in DOMAIN p : p[t].status # "in_progress"
      BY <1>3
    <2>. QED
      BY <1>2, <1>4, <2>1, ShelvedGood
  <1>6. Calm(Now, u, session)
    BY <1>2, <1>4, ShelvedSafe DEF Calm
  <1>. HIDE DEF u
  <1>7. Current(u, sweep.rest)
    BY <1>2, <1>5, CurrentStays
  <1>8. AtWork(u, session)
    BY DEF AtWork
  <1>9. Swept(u, session, up) /\ Calm(u, Now', session)
    BY <1>1, <1>5, <1>7, <1>8, SweepGood, SweepSafe
  <1>. QED
    BY <1>2, <1>5, <1>6, <1>9, CalmTwice DEF Good, Swept

-----------------------------------------------------------------------------
(* What the pump has room for, and what it may approve *)

\* hub = "up" is the only time at which the pump starts a run, and it waits
\* for the start.
Starts ==
  hub = "up" =>
    \A r \in DOMAIN rows : rows[r].auto /\ session[r] = "starting" => pump.run = r

\* The runs that count, and the room the pump still has, are within the limit.
RoomHolds ==
  /\ Cardinality(Live(Now, session)) <= MaxConcurrent
  /\ pump.run # None \/ DOMAIN pump.todo # {} =>
       Cardinality(Live(Now, session) \ {pump.run}) + pump.room <= MaxConcurrent

\* What is listed for approval was not written by a file since, or is late.
Agreed(s, todo) ==
  \A t \in DOMAIN todo :
    todo[t].status = "pending_approval" =>
      /\ s.task[t].status # "absent" /\ todo[t].rev <= s.task[t].rev
      /\ t \in s.past.filed /\ t \notin late => todo[t].rev < s.task[t].rev

\* A call that waits to approve was listed for it.
Approves == pump.call = "approve" => pump.todo[pump.task].status = "pending_approval"

\* What a file wrote is marked so, while it waits for approval.
ConsentHeld == \A t \in Tasks : Consents(Now, t)

\* What LimitKept and AutomationNeedsConsent rest on.
LimitInv == Lone(Now, session) /\ Starts /\ RoomHolds
ConsentInv == ConsentHeld /\ Agreed(Now, pump.todo) /\ Approves

\* What the step may not do.
Unforced == \A t \in Tasks : Allowed(Now, Now', t)

\* The runs that count are finite.
LEMMA LiveFinite ==
  ASSUME NEW s, NEW ses, DOMAIN s.rows \subseteq RunIds
  PROVE  /\ IsFiniteSet(Live(s, ses)) /\ Cardinality(Live(s, ses)) \in Nat
         /\ None \notin Live(s, ses)
  <1>1. IsFiniteSet(RunIds)
    BY BoundsAssumption, FS_Interval DEF RunIds
  <1>2. Live(s, ses) \subseteq RunIds
    BY DEF Live
  <1>3. None \notin RunIds
    BY DEF None, RunIds
  <1>. QED
    BY <1>1, <1>2, <1>3, FS_Subset, FS_CardinalityType

\* A smaller set, and one with a member less.
LEMMA SmallerSet ==
  ASSUME NEW X, NEW Y, NEW r, IsFiniteSet(X)
  PROVE  /\ Y \subseteq X => /\ IsFiniteSet(Y) /\ Cardinality(Y) \in Nat
                             /\ Cardinality(Y) <= Cardinality(X)
         /\ Y \subseteq X \cup {r} => /\ IsFiniteSet(Y) /\ Cardinality(Y) \in Nat
                                      /\ Cardinality(Y) <= Cardinality(X) + 1
         /\ Cardinality(X) \in Nat
  <1>1. Cardinality(X) \in Nat
    BY FS_CardinalityType
  <1>2. /\ IsFiniteSet(X \cup {r})
        /\ Cardinality(X \cup {r}) \in {Cardinality(X), Cardinality(X) + 1}
    BY FS_AddElement
  <1>3. ASSUME Y \subseteq X
        PROVE  IsFiniteSet(Y) /\ Cardinality(Y) \in Nat /\ Cardinality(Y) <= Cardinality(X)
    BY <1>3, FS_Subset, FS_CardinalityType
  <1>4. ASSUME Y \subseteq X \cup {r}
        PROVE  IsFiniteSet(Y) /\ Cardinality(Y) \in Nat /\ Cardinality(Y) <= Cardinality(X) + 1
    <2>1. IsFiniteSet(Y) /\ Cardinality(Y) <= Cardinality(X \cup {r})
      BY <1>2, <1>4, FS_Subset
    <2>2. Cardinality(Y) \in Nat
      BY <2>1, FS_CardinalityType
    <2>. QED
      BY <1>1, <1>2, <2>1, <2>2
  <1>. QED
    BY <1>1, <1>3, <1>4

\* The pump's own part of a step that leaves its room alone.
LEMMA RoomStays ==
  ASSUME IInv, RoomHolds, Live(Now', session') \subseteq Live(Now, session),
         \/ pump'.run = None /\ DOMAIN pump'.todo = {}
         \/ /\ pump'.run = pump.run /\ pump'.room = pump.room
            /\ DOMAIN pump'.todo \subseteq DOMAIN pump.todo
  PROVE  RoomHolds'
  <1>. DEFINE L == Live(Now, session)
              K == Live(Now', session')
  <1>1. IsFiniteSet(L) /\ None \notin L
    BY RowsBounded, LiveFinite DEF IInv
  <1>2. pump.room \in Nat
    BY DEF IInv, PumpHolds, IsPump
  <1>. HIDE DEF L, K
  <1>3. /\ Cardinality(K) <= Cardinality(L) /\ Cardinality(K) \in Nat
        /\ Cardinality(L) \in Nat
    BY <1>1, SmallerSet DEF K, L
  <1>. DEFINE A == L \ {pump.run}
              B == K \ {pump.run}
  <1>4. Cardinality(B) <= Cardinality(A) /\ Cardinality(A) \in Nat /\ Cardinality(B) \in Nat
    <2>1. IsFiniteSet(A)
      BY <1>1, SmallerSet
    <2>2. B \subseteq A
      BY DEF K, L
    <2>. HIDE DEF A, B
    <2>. QED
      BY <2>1, <2>2, SmallerSet
  <1>5. Cardinality(K) <= MaxConcurrent
    BY <1>3, BoundsAssumption DEF RoomHolds, L
  <1>6. ASSUME pump'.run # None \/ DOMAIN pump'.todo # {}
        PROVE  Cardinality(K \ {pump'.run}) + pump'.room <= MaxConcurrent
    <2>1. /\ pump'.run = pump.run /\ pump'.room = pump.room
          /\ pump.run # None \/ DOMAIN pump.todo # {}
      BY <1>6
    <2>2. Cardinality(A) + pump.room <= MaxConcurrent
      BY <2>1 DEF RoomHolds, L
    <2>3. K \ {pump'.run} = B
      BY <2>1
    <2>. HIDE DEF A, B
    <2>. QED
      BY <1>2, <1>4, <2>1, <2>2, <2>3, BoundsAssumption
  <1>. QED
    BY <1>5, <1>6 DEF RoomHolds, K

\* What was agreed stays so while revisions grow.
LEMMA AgreedMild ==
  ASSUME NEW s \in Store, NEW u \in Store, NEW todo, IsListing(todo), Agreed(s, todo),
         Mild(s, u)
  PROVE  Agreed(u, todo)
  <1>1. SUFFICES ASSUME NEW t \in DOMAIN todo, todo[t].status = "pending_approval"
                 PROVE  /\ u.task[t].status # "absent" /\ todo[t].rev <= u.task[t].rev
                        /\ t \in u.past.filed /\ t \notin late => todo[t].rev < u.task[t].rev
    BY DEF Agreed
  <1>2. t \in Tasks /\ todo[t].rev \in Nat
    BY DEF IsListing, Seen
  <1>3. s.task[t].rev \in Nat /\ u.task[t].rev \in Nat
    BY <1>2, TaskTypes
  <1>4. /\ s.task[t].status # "absent" /\ todo[t].rev <= s.task[t].rev
        /\ t \in s.past.filed /\ t \notin late => todo[t].rev < s.task[t].rev
    BY <1>1 DEF Agreed
  <1>5. /\ s.task[t].status # "absent" => u.task[t].status # "absent"
                                            /\ s.task[t].rev <= u.task[t].rev
        /\ t \in u.past.filed \ s.past.filed =>
             s.task[t].status = "absent" \/ s.task[t].rev < u.task[t].rev
    BY <1>2 DEF Mild, Grows
  <1>. QED
    BY <1>2, <1>3, <1>4, <1>5

\* A listing with less to approve.
LEMMA AgreedLess ==
  ASSUME NEW s, NEW todo, NEW less, Agreed(s, todo), DOMAIN less \subseteq DOMAIN todo,
         \A t \in DOMAIN less : less[t].status = "pending_approval" => less[t] = todo[t]
  PROVE  Agreed(s, less)
  BY DEF Agreed

\* The consent's part of a step
LEMMA ConsentStays ==
  ASSUME IInv, ConsentInv, Now' \in Store, Mild(Now, Now'), late \subseteq late',
         DOMAIN pump'.todo \subseteq DOMAIN pump.todo,
         \A t \in DOMAIN pump'.todo :
           pump'.todo[t].status = "pending_approval" => pump'.todo[t] = pump.todo[t],
         Approves'
  PROVE  ConsentInv'
  <1>1. Now \in Store /\ IsListing(pump.todo)
    BY DEF IInv, Good, PumpHolds, IsPump
  <1>2. Agreed(Now', pump'.todo)
    <2>1. Agreed(Now', pump.todo)
      BY <1>1, AgreedMild DEF ConsentInv
    <2>. QED
      BY <2>1, AgreedLess
  <1>3. \A t \in Tasks : Consents(Now', t)
    BY DEF ConsentInv, ConsentHeld, Mild
  <1>4. Agreed(Now, pump.todo)'
    BY <1>2 DEF Agreed
  <1>5. ConsentHeld'
    BY <1>3 DEF ConsentHeld, Consents
  <1>. QED
    BY <1>4, <1>5 DEF ConsentInv

\* A step that leaves the pump alone, or ends its loop.
PumpCalm ==
  \/ pump' = IdlePump
  \/ /\ pump'.run = pump.run /\ pump'.room = pump.room /\ pump'.todo = pump.todo
     /\ pump'.call = pump.call /\ pump'.task = pump.task

\* A step that starts no session and no call.
LEMMA CalmHolds ==
  ASSUME IInv, LimitInv, ConsentInv, Now' \in Store, Lone(Now', session'),
         Live(Now', session') \subseteq Live(Now, session), Mild(Now, Now'),
         late \subseteq late', PumpCalm, Starts'
  PROVE  LimitInv' /\ ConsentInv'
  <1>1. \/ pump'.run = None /\ DOMAIN pump'.todo = {} /\ pump'.call = "none"
        \/ /\ pump'.run = pump.run /\ pump'.room = pump.room /\ pump'.todo = pump.todo
           /\ pump'.call = pump.call /\ pump'.task = pump.task
    BY IdlePumpFacts DEF PumpCalm
  <1>2. RoomHolds'
    BY <1>1, RoomStays DEF LimitInv
  <1>3. Approves'
    BY <1>1 DEF ConsentInv, Approves
  <1>4. ConsentInv'
    BY <1>1, <1>3, ConsentStays
  <1>. QED
    BY <1>2, <1>4 DEF LimitInv

\* ... and whose session and runs stay
LEMMA StartsStay ==
  ASSUME Starts, session' = session, hub' = "up" => hub = "up", pump'.run = pump.run,
         DOMAIN rows' = DOMAIN rows,
         \A r \in DOMAIN rows : rows'[r].auto = rows[r].auto
  PROVE  Starts'
  BY DEF Starts

\* A stretch of code that is gentle and mild, with the pump left alone.
LEMMA GentleHolds ==
  ASSUME IInv, LimitInv, ConsentInv, Now' \in Store, Gentle(Now, Now', session),
         Mild(Now, Now'), session' = session, hub' = "up" => hub = "up", late' = late,
         PumpCalm, pump' = IdlePump => hub' # "up" \/ pump.run = None
  PROVE  LimitInv' /\ ConsentInv'
  <1>1. Now \in Store
    BY DEF IInv, Good
  <1>2. Lone(Now', session') /\ Live(Now', session') \subseteq Live(Now, session)
    BY <1>1, GentleLone DEF LimitInv
  <1>3. Starts'
    <2>1. /\ DOMAIN rows' = DOMAIN rows
          /\ \A r \in DOMAIN rows : rows'[r].auto = rows[r].auto
      BY DEF Gentle, Now
    <2>2. hub' # "up" \/ pump'.run = pump.run
      BY IdlePumpFacts DEF PumpCalm
    <2>. QED
      BY <2>1, <2>2, StartsStay DEF Starts, LimitInv
  <1>. QED
    BY <1>2, <1>3, CalmHolds

\* A stretch of code that approves nothing.
LEMMA CalmStretch ==
  ASSUME IInv, LimitInv, ConsentInv, Now' \in Store, Calm(Now, Now', session),
         session' = session, hub' = "up" => hub = "up", late' = late, PumpCalm,
         pump' = IdlePump => hub' # "up" \/ pump.run = None
  PROVE  LimitInv' /\ ConsentInv' /\ Unforced
  BY GentleHolds, MeekMild DEF Calm, Unforced

-----------------------------------------------------------------------------
(* The limit and the consent, action by action *)

\* The store that a calm stretch has made
LEMMA CalmBecomes ==
  ASSUME IInv, LimitInv, ConsentInv, NEW u, Good(u, session, TRUE), Becomes(u),
         Calm(Now, u, session), session' = session, hub' = hub, late' = late,
         pump' = pump
  PROVE  LimitInv' /\ ConsentInv' /\ Unforced
  <1>1. Now' = u /\ Now' \in Store
    BY BecomesNow DEF Good
  <1>2. PumpCalm
    BY DEF PumpCalm
  <1>3. pump' = IdlePump => hub' # "up" \/ pump.run = None
    BY IdlePumpFacts
  <1>4. Calm(Now, Now', session)
    BY <1>1
  <1>. QED
    BY <1>1, <1>2, <1>3, <1>4, CalmStretch

\* cancelTask
LEMMA CancelSound ==
  ASSUME IInv, LimitInv, ConsentInv, NEW t \in Tasks, Cancel(t)
  PROVE  LimitInv' /\ ConsentInv' /\ Unforced
  <1>. DEFINE u == Cancelled(Now, t, "cancelled", "user")
  <1>1. /\ hub = "up" /\ hub' = hub /\ pump' = pump /\ late' = late
        /\ session' = session /\ Becomes(u)
        /\ Now.task[t].status \notin Terminal
    BY NowFacts DEF Cancel, loopVars, Editable, Terminal
  <1>2. Good(Now, session, TRUE) /\ AtWork(Now, session)
    BY <1>1 DEF IInv, AtWork
  <1>3. "cancelled" \in {"cancelled", "deleted"} /\ "user" \in Authors
    BY DEF Authors
  <1>4. Good(u, session, TRUE)
    BY <1>1, <1>2, <1>3, CancelledGood
  <1>5. Calm(Now, u, session)
    BY <1>2, <1>3, CancelledSafe DEF Calm
  <1>. HIDE DEF u
  <1>. QED
    BY <1>1, <1>4, <1>5, CalmBecomes

\* A list, a read or a watcher
LEMMA ReconcileSound ==
  ASSUME IInv, IInv', LimitInv, ConsentInv, Reconcile
  PROVE  LimitInv' /\ ConsentInv' /\ Unforced
  <1>1. /\ session' = session /\ hub' = hub /\ pump' = pump /\ late' = late
        /\ Reconciles(Now) /\ AtWork(Now, session)
    BY DEF Reconcile, AtWork
  <1>2. Calm(Now, Now', session)
    BY <1>1, ReconcilesSafe DEF IInv
  <1>3. Now' \in Store
    BY DEF IInv, Good
  <1>4. PumpCalm /\ (pump' = IdlePump => pump.run = None)
    BY <1>1, IdlePumpFacts DEF PumpCalm
  <1>. QED
    BY <1>1, <1>2, <1>3, <1>4, CalmStretch

\* The rest of one that waited
LEMMA ResumeSound ==
  ASSUME IInv, IInv', LimitInv, ConsentInv, Resume
  PROVE  LimitInv' /\ ConsentInv' /\ Unforced
  <1>1. /\ session' = session /\ hub' = hub /\ pump' = pump /\ late' = late
    BY DEF Resume
  <1>2. Calm(Now, Now', session)
    BY ResumeSafe
  <1>3. Now' \in Store
    BY DEF IInv, Good
  <1>4. PumpCalm /\ (pump' = IdlePump => pump.run = None)
    BY <1>1, IdlePumpFacts DEF PumpCalm
  <1>. QED
    BY <1>1, <1>2, <1>3, <1>4, CalmStretch

\* Expiry
LEMMA MaintainSound ==
  ASSUME IInv, LimitInv, ConsentInv, Maintain
  PROVE  LimitInv' /\ ConsentInv' /\ Unforced
  <1>1. PICK S \in SUBSET late : Becomes(Expired(Now, S))
    BY DEF Maintain
  <1>. DEFINE u == Expired(Now, S)
  <1>2. /\ session' = session /\ hub' = hub /\ pump' = pump /\ late' = late /\ hub = "up"
    BY DEF Maintain, loopVars
  <1>3. Good(Now, session, TRUE)
    BY <1>2 DEF IInv
  <1>4. Good(u, session, TRUE) /\ Calm(Now, u, session)
    BY <1>3, ExpiredGood, ExpiredSafe DEF Calm
  <1>. HIDE DEF u
  <1>. QED
    BY <1>1, <1>2, <1>4, CalmBecomes DEF u

\* A step that leaves the rows, the runs and the entries alone
LEMMA FrameSound ==
  ASSUME IInv, IInv', LimitInv, ConsentInv, task' = task, rows' = rows, active' = active,
         told \subseteq told', past'.overtaken = past.overtaken,
         past'.overlapping = past.overlapping, past'.filed = past.filed,
         session' = session, hub' = "up" => hub = "up", late' = late, PumpCalm,
         pump' = IdlePump => hub' # "up" \/ pump.run = None
  PROVE  LimitInv' /\ ConsentInv' /\ Unforced
  <1>. DEFINE u == Now'
  <1>1. Now \in Store /\ Now' \in Store
    BY DEF IInv, Good
  <1>2. /\ u.task = Now.task /\ u.rows = Now.rows /\ u.active = Now.active
        /\ Now.told \subseteq u.told /\ u.past.overtaken = Now.past.overtaken
        /\ u.past.overlapping = Now.past.overlapping /\ u.past.filed = Now.past.filed
    BY DEF Now
  <1>. HIDE DEF u
  <1>3. Gentle(Now, u, session)
    BY <1>2, GentleFrame
  <1>4. Meek(Now, u)
    <2>1. \A t \in Tasks : Tame(Now, u, t)
      BY <1>1, <1>2, TameFrame
    <2>. QED
      BY <2>1 DEF Meek
  <1>5. Calm(Now, Now', session)
    BY <1>3, <1>4 DEF Calm, u
  <1>. QED
    BY <1>1, <1>5, CalmStretch

\* setAutomationPolicy
LEMMA SetPolicySound ==
  ASSUME IInv, IInv', LimitInv, ConsentInv, SetPolicy
  PROVE  LimitInv' /\ ConsentInv' /\ Unforced
  <1>1. past \in Past
    BY StoreFields, NowFacts DEF IInv, Good
  <1>2. /\ past'.overtaken = past.overtaken
        /\ past'.overlapping = past.overlapping /\ past'.filed = past.filed
    BY <1>1 DEF SetPolicy, Past
  <1>3. /\ task' = task /\ rows' = rows /\ active' = active /\ told' = told
        /\ session' = session /\ hub' = hub /\ late' = late
        /\ pump' = IF pump.on THEN [pump EXCEPT !.stale = TRUE] ELSE pump
    BY DEF SetPolicy
  <1>4. /\ pump'.run = pump.run /\ pump'.room = pump.room /\ pump'.todo = pump.todo
        /\ pump'.call = pump.call /\ pump'.task = pump.task
    BY <1>3 DEF IInv, PumpHolds, IsPump
  <1>5. PumpCalm /\ (pump' = IdlePump => pump.run = None)
    BY <1>4, IdlePumpFacts DEF PumpCalm
  <1>. QED
    BY <1>2, <1>3, <1>5, FrameSound

\* dispose up to its wait
LEMMA StopSound ==
  ASSUME IInv, IInv', LimitInv, ConsentInv, Stop
  PROVE  LimitInv' /\ ConsentInv' /\ Unforced
  <1>1. /\ task' = task /\ rows' = rows /\ active' = active /\ told \subseteq told'
        /\ past' = past /\ session' = session /\ hub' = "stopping" /\ late' = late
        /\ pump' = IdlePump
    BY DEF Stop
  <1>2. PumpCalm
    BY <1>1 DEF PumpCalm
  <1>. QED
    BY <1>1, <1>2, FrameSound

\* The end of the pump's loop
LEMMA PumpEndSound ==
  ASSUME IInv, IInv', LimitInv, ConsentInv, PumpEnd
  PROVE  LimitInv' /\ ConsentInv' /\ Unforced
  <1>1. /\ task' = task /\ rows' = rows /\ active' = active /\ told' = told
        /\ past' = past /\ session' = session /\ hub' = hub /\ late' = late
        /\ pump' = IdlePump /\ pump.run = None
    BY DEF PumpEnd, PumpIdle
  <1>2. PumpCalm
    BY <1>1 DEF PumpCalm
  <1>. QED
    BY <1>1, <1>2, FrameSound

\* A spec is edited, deleted or put back.
LEMMA TouchSound ==
  ASSUME IInv, IInv', LimitInv, ConsentInv, NEW t, NEW content, Touch(t, content)
  PROVE  LimitInv' /\ ConsentInv' /\ Unforced
  <1>1. /\ task' = task /\ rows' = rows /\ active' = active /\ told' = told
        /\ past' = past /\ session' = session /\ hub' = hub /\ late' = late
        /\ pump' = pump
    BY DEF Touch, loopVars
  <1>2. PumpCalm /\ (pump' = IdlePump => pump.run = None)
    BY <1>1, IdlePumpFacts DEF PumpCalm
  <1>. QED
    BY <1>1, <1>2, FrameSound

\* Time passes.
LEMMA LapseSound ==
  ASSUME IInv, LimitInv, ConsentInv, NEW t \in Tasks, Lapse(t)
  PROVE  LimitInv' /\ ConsentInv' /\ Unforced
  <1>1. /\ Now' = Now /\ session' = session /\ pump' = pump /\ hub' = hub
        /\ rows' = rows /\ late \subseteq late'
    BY DEF Lapse, Now
  <1>2. Now \in Store
    BY DEF IInv, Good
  <1>3. Mild(Now, Now) /\ \A q \in Tasks : Allowed(Now, Now, q)
    BY <1>2, MeekSelf, MeekMild
  <1>4. PumpCalm
    BY <1>1 DEF PumpCalm
  <1>5. Starts'
    BY <1>1 DEF LimitInv, Starts
  <1>6. Lone(Now', session') /\ Live(Now', session') \subseteq Live(Now, session)
    BY <1>1 DEF LimitInv
  <1>7. LimitInv' /\ ConsentInv'
    BY <1>1, <1>2, <1>3, <1>4, <1>5, <1>6, CalmHolds
  <1>. QED
    BY <1>1, <1>3, <1>7 DEF Unforced

-----------------------------------------------------------------------------
(* Crashes, the end of dispose, and start *)

\* No session is left, and no pump.
LEMMA DeadSound ==
  ASSUME IInv, IInv', LimitInv, ConsentInv, Dies, Meek(Now, Now'), LastOpen(Now')
  PROVE  LimitInv' /\ ConsentInv' /\ Unforced
  <1>1. /\ hub' = "down" /\ pump' = IdlePump /\ late' = late
        /\ session' = [r \in RunIds |-> IF r \in DOMAIN rows' THEN "over" ELSE "none"]
    BY DEF Dies
  <1>2. Now' \in Store /\ DOMAIN Now'.rows \subseteq RunIds
    <2>1. Good(Now', session', (hub # "down")')
      BY DEF IInv
    <2>. QED
      BY <2>1, RowsBounded DEF Good
  <1>3. \A r \in DOMAIN Now'.rows : ~ Going(session', r) /\ session'[r] # "working"
    BY <1>1, <1>2 DEF Going
  <1>4. Lone(Now', session') /\ Live(Now', session') = {}
    BY <1>3 DEF Lone, FirstGoing, EntryNamed, Live
  <1>5. PumpCalm /\ Starts'
    BY <1>1 DEF PumpCalm, Starts
  <1>6. Mild(Now, Now') /\ Unforced
    BY MeekMild DEF Unforced
  <1>. QED
    BY <1>1, <1>2, <1>4, <1>5, <1>6, CalmHolds

\* A crash between two stretches of code
LEMMA CrashSound ==
  ASSUME IInv, IInv', LimitInv, ConsentInv, Crash
  PROVE  LimitInv' /\ ConsentInv' /\ Unforced
  <1>. DEFINE u == Now'
  <1>1. Dies /\ u.task = Now.task /\ u.rows = Now.rows /\ u.past = Now.past
    BY DEF Crash, Now
  <1>2. Now \in Store
    BY DEF IInv, Good
  <1>. HIDE DEF u
  <1>3. Meek(Now, u)
    <2>1. \A t \in Tasks : Tame(Now, u, t)
      BY <1>1, <1>2, TameFrame
    <2>. QED
      BY <2>1 DEF Meek
  <1>4. LastOpen(u)
    BY <1>1 DEF LimitInv, Lone, LastOpen, Ended
  <1>. QED
    BY <1>1, <1>3, <1>4, DeadSound DEF u

\* A crash between the statement on a run and the one on its task
LEMMA CrashMidwaySound ==
  ASSUME IInv, IInv', LimitInv, ConsentInv, NEW r \in DOMAIN rows, CrashMidway(r)
  PROVE  LimitInv' /\ ConsentInv' /\ Unforced
  <1>. DEFINE u == Now'
  <1>1. past \in Past /\ Now \in Store /\ rows \in Seq(RunRow)
    BY StoreFields, StoreTypes, NowFacts DEF IInv, Good
  <1>2. PICK status \in LastWords(r) :
          /\ rows' = [rows EXCEPT ![r].status = status]
          /\ past' = IF status = "running" THEN past
                     ELSE [past EXCEPT !.torn = @ \cup {rows[r].task}]
    BY DEF CrashMidway
  <1>3. Dies /\ ~ Ended(Now, r) /\ task' = task
    BY DEF CrashMidway
  <1>4. past'.filed = past.filed
    BY <1>1, <1>2 DEF Past
  <1>5. /\ DOMAIN rows' = DOMAIN rows
        /\ \A q \in DOMAIN rows : /\ rows'[q].task = rows[q].task
                                  /\ q # r => rows'[q] = rows[q]
    <2>1. [rows[r] EXCEPT !.status = status].task = rows[r].task
      <3>1. rows[r] \in RunRow
        BY <1>1
      <3>. QED
        BY <3>1 DEF RunRow
    <2>2. /\ DOMAIN rows' = DOMAIN rows
          /\ rows'[r] = [rows[r] EXCEPT !.status = status]
          /\ \A q \in DOMAIN rows : q # r => rows'[q] = rows[q]
      BY <1>2
    <2>. QED
      BY <2>1, <2>2
  <1>6. /\ u.task = Now.task /\ u.rows = rows' /\ u.past.filed = Now.past.filed
        /\ Now.rows = rows
    BY <1>3, <1>4 DEF Now
  <1>. HIDE DEF u
  <1>7. Meek(Now, u)
    <2>1. \A t \in Tasks : Tame(Now, u, t)
      BY <1>1, <1>6, TameFrame
    <2>. QED
      BY <2>1 DEF Meek
  <1>8. LastOpen(u)
    <2>1. \A p, q \in DOMAIN rows :
            p < q /\ rows[p].task = rows[q].task => Ended(Now, p) /\ p # r
      BY <1>3, <1>6 DEF LimitInv, Lone, LastOpen
    <2>. QED
      BY <1>5, <1>6, <2>1 DEF LastOpen, Ended
  <1>. QED
    BY <1>3, <1>7, <1>8, DeadSound DEF u

\* A crash between the insertion of a run and the row of its task
LEMMA CrashInClaimSound ==
  ASSUME IInv, IInv', LimitInv, ConsentInv, NEW t \in Tasks, CrashInClaim(t)
  PROVE  LimitInv' /\ ConsentInv' /\ Unforced
  <1>. DEFINE u == Now'
              n == NewRun(Now, t, "user")
              r == Len(rows) + 1
  <1>1. /\ Now \in Store /\ rows \in Seq(RunRow)
        /\ Len(rows) \in Nat /\ DOMAIN rows = 1..Len(rows) /\ Len(rows) < MaxRuns
    BY StoreTypes, NowFacts DEF IInv, Good, CrashInClaim
  <1>2. /\ task[t].status \in {"approved", "failed"} /\ task[t].run = None
        /\ \A q \in DOMAIN rows : rows[q].task = t => Ended(Now, q)
    BY NowFacts DEF CrashInClaim, MayRun
  <1>3. rows' = Append(rows, n) /\ n \in RunRow
    BY <1>1, <1>2, NowFacts, ClaimedFacts DEF CrashInClaim, Authors
  <1>4. task' = task /\ past' = past /\ Dies
    BY DEF CrashInClaim
  <1>5. n.task = t
    BY DEF NewRun
  <1>. HIDE DEF n
  <1>6. /\ DOMAIN rows' = DOMAIN rows \cup {r} /\ rows'[r] = n
        /\ \A q \in DOMAIN rows : rows'[q] = rows[q] /\ q < r /\ ~ (r < q)
        /\ ~ (r < r)
    BY <1>1, <1>3
  <1>. HIDE DEF r
  <1>7. /\ u.task = Now.task /\ u.rows = rows' /\ u.past = Now.past /\ Now.rows = rows
    BY <1>4 DEF Now
  <1>. HIDE DEF u
  <1>8. Meek(Now, u)
    <2>1. \A q \in Tasks : Tame(Now, u, q)
      BY <1>1, <1>7, TameFrame
    <2>. QED
      BY <2>1 DEF Meek
  <1>9. LastOpen(u)
    <2>1. SUFFICES ASSUME NEW p \in DOMAIN rows', NEW q \in DOMAIN rows', p < q,
                          rows'[p].task = rows'[q].task
                   PROVE  Ended(u, p)
      BY <1>7 DEF LastOpen
    <2>2. p \in DOMAIN rows /\ rows'[p] = rows[p]
      BY <1>6, <2>1
    <2>3. Ended(Now, p)
      <3>1. CASE q = r
        BY <1>2, <1>5, <1>6, <2>1, <2>2, <3>1
      <3>2. CASE q # r
        BY <1>6, <1>7, <2>1, <2>2, <3>2 DEF LimitInv, Lone, LastOpen
      <3>. QED
        BY <3>1, <3>2
    <2>. QED
      BY <1>7, <2>2, <2>3 DEF Ended
  <1>. QED
    BY <1>4, <1>8, <1>9, DeadSound DEF u

\* The end of dispose
LEMMA StoppedSound ==
  ASSUME IInv, IInv', LimitInv, ConsentInv, Stopped
  PROVE  LimitInv' /\ ConsentInv' /\ Unforced
  <1>. DEFINE u == Now'
              left == {active[t] : t \in Tasks} \ {None}
  <1>1. /\ Now \in Store /\ rows \in Seq(RunRow) /\ \A t \in Tasks : task[t] \in TaskRow
    BY StoreTypes, TaskTypes, NowFacts DEF IInv, Good
  <1>2. /\ rows' = [r \in DOMAIN rows |->
                    IF r \in left THEN [rows[r] EXCEPT !.status = "interrupted"]
                    ELSE rows[r]]
        /\ task' = [t \in Tasks |->
                    IF active[t] = None THEN task[t]
                    ELSE [task[t] EXCEPT !.status = "failed", !.run = None,
                                         !.by = "hub"]]
        /\ Dies /\ past' = past
    BY DEF Stopped
  <1>. HIDE DEF left
  <1>3. /\ DOMAIN rows' = DOMAIN rows
        /\ \A q \in DOMAIN rows : /\ rows'[q].task = rows[q].task
                                  /\ rows'[q].status \in {rows[q].status, "interrupted"}
    <2>1. ASSUME NEW q \in DOMAIN rows
          PROVE  /\ rows'[q].task = rows[q].task
                 /\ rows'[q].status \in {rows[q].status, "interrupted"}
      <3>1. rows[q] \in RunRow
        BY <1>1
      <3>2. rows'[q] = IF q \in left THEN [rows[q] EXCEPT !.status = "interrupted"]
                       ELSE rows[q]
        BY <1>2
      <3>. QED
        BY <3>1, <3>2 DEF RunRow
    <2>. QED
      BY <1>2, <2>1
  <1>4. /\ u.task = task' /\ u.rows = rows' /\ u.past = Now.past /\ Now.rows = rows
        /\ Now.task = task
    BY <1>2 DEF Now
  <1>. HIDE DEF u
  <1>5. ASSUME NEW t \in Tasks
        PROVE  Tame(Now, u, t)
    <2>1. CASE active[t] = None
      <3>1. u.task[t] = Now.task[t]
        BY <1>2, <1>4, <2>1
      <3>. QED
        BY <1>1, <1>4, <3>1, TameFrame
    <2>2. CASE active[t] # None
      <3>1. u.task[t] = Lost(task[t])
        <4>1. task' = [q \in Tasks |-> IF active[q] = None THEN task[q] ELSE Lost(task[q])]
          BY <1>2 DEF Lost
        <4>. QED
          BY <1>4, <2>2, <4>1
      <3>2. /\ u.task[t].status = "failed" /\ u.task[t].rev = Now.task[t].rev
            /\ u.task[t].ok = Now.task[t].ok
        <4>. DEFINE k == None
        <4>1. u.task[t] = [task[t] EXCEPT !.status = "failed", !.run = k, !.by = "hub"]
          BY <3>1 DEF Lost
        <4>. HIDE DEF k
        <4>. QED
          BY <1>1, <1>4, <4>1 DEF TaskRow
      <3>. QED
        BY <1>1, <1>4, <3>2, TameDecided
    <2>. QED
      BY <2>1, <2>2
  <1>6. LastOpen(u)
    <2>1. \A q \in DOMAIN rows : Ended(Now, q) => Ended(u, q)
      BY <1>3, <1>4 DEF Ended, TERMINAL_RUN_STATUSES
    <2>. QED
      BY <1>3, <1>4, <2>1 DEF LimitInv, Lone, LastOpen
  <1>7. Meek(Now, u)
    BY <1>5 DEF Meek
  <1>. QED
    BY <1>2, <1>6, <1>7, DeadSound DEF u

\* start
LEMMA RestartSound ==
  ASSUME IInv, IInv', LimitInv, ConsentInv, Restart
  PROVE  LimitInv' /\ ConsentInv' /\ Unforced
  <1>1. /\ hub = "down" /\ session' = session /\ pump' = pump /\ late' = late
    BY DEF Restart
  <1>2. Good(Now, session, FALSE) /\ AllOver(session) /\ Now \in Store /\ Now' \in Store
    BY <1>1 DEF IInv, LoopHolds, Good
  <1>3. Calm(Now, Now', session)
    BY <1>2, RestartSafe
  <1>4. Lone(Now', session') /\ Live(Now', session') \subseteq Live(Now, session)
    BY <1>1, <1>2, <1>3, GentleLone DEF LimitInv, Calm
  <1>5. Mild(Now, Now') /\ Unforced
    BY <1>3, MeekMild DEF Calm, Unforced
  <1>6. PumpCalm
    BY <1>1 DEF PumpCalm
  <1>7. Starts'
    <2>1. DOMAIN rows' = DOMAIN rows
      BY <1>3 DEF Calm, Gentle, Now
    <2>2. DOMAIN rows \subseteq RunIds
      BY <1>2, RowsBounded, NowFacts
    <2>. QED
      BY <1>1, <1>2, <2>1, <2>2 DEF Starts, AllOver
  <1>. QED
    BY <1>1, <1>2, <1>4, <1>5, <1>6, <1>7, CalmHolds

-----------------------------------------------------------------------------
(* Starts and ends of sessions *)

\* The pump after a start, field by field
LEMMA PumpAfterFacts ==
  ASSUME IsPump(pump), NEW r, NEW started \in BOOLEAN, pump.run = r,
         pump' = PumpAfter(r, started)
  PROVE  /\ pump'.run = None /\ pump'.call = pump.call /\ pump'.task = pump.task
         /\ pump'.room = IF started THEN pump.room - 1 ELSE pump.room
         /\ \/ pump'.todo = pump.todo
            \/ DOMAIN pump'.todo = {}
  <1>. DEFINE room == IF started THEN pump.room - 1 ELSE pump.room
              todo == IF room = 0 THEN IdlePump.todo ELSE pump.todo
  <1>1. pump' = [pump EXCEPT !.run = None, !.room = room, !.todo = todo]
    BY DEF PumpAfter
  <1>2. pump = [on |-> pump.on, stale |-> pump.stale, room |-> pump.room,
                todo |-> pump.todo, call |-> pump.call, task |-> pump.task,
                run |-> pump.run]
    BY PumpFields
  <1>3. todo = pump.todo \/ DOMAIN todo = {}
    BY IdlePumpFacts
  <1>. HIDE DEF room, todo
  <1>4. pump' = [on |-> pump.on, stale |-> pump.stale, room |-> room,
                 todo |-> todo, call |-> pump.call, task |-> pump.task,
                 run |-> None]
    BY <1>1, <1>2
  <1>5. /\ pump'.run = None /\ pump'.call = pump.call /\ pump'.task = pump.task
        /\ pump'.room = room /\ pump'.todo = todo
    BY <1>4
  <1>. QED
    BY <1>3, <1>5 DEF room

\* The room after a start: a session that works counts, one that does not
\* leaves its place.
LEMMA RoomAfter ==
  ASSUME IInv, RoomHolds, NEW r, r # None, NEW started \in BOOLEAN,
         pump' = PumpAfter(r, started),
         Live(Now', session') \subseteq Live(Now, session),
         ~ started => r \notin Live(Now', session')
  PROVE  RoomHolds'
  <1>. DEFINE L == Live(Now, session)
              K == Live(Now', session')
              M == L \ {r}
  <1>1. IsPump(pump)
    BY DEF IInv, PumpHolds
  <1>2. IsFiniteSet(L) /\ None \notin L
    BY RowsBounded, LiveFinite DEF IInv
  <1>3. K \subseteq L /\ K \subseteq M \cup {r} /\ (~ started => K \subseteq M)
    OBVIOUS
  <1>4. CASE pump.run # r
    BY <1>4, RoomStays DEF PumpAfter
  <1>5. CASE pump.run = r
    <2>1. /\ pump'.run = None
          /\ pump'.room = IF started THEN pump.room - 1 ELSE pump.room
          /\ pump.room \in Nat /\ pump.room > 0
      BY <1>1, <1>5, PumpAfterFacts DEF IInv, PumpHolds, IsPump
    <2>2. Cardinality(L) <= MaxConcurrent /\ Cardinality(M) + pump.room <= MaxConcurrent
      BY <1>5 DEF RoomHolds
    <2>3. K \ {pump'.run} = K
      BY <1>2, <1>3, <2>1
    <2>. HIDE DEF L, K
    <2>4. IsFiniteSet(M) /\ Cardinality(L) \in Nat
      BY <1>2, SmallerSet
    <2>. HIDE DEF M
    <2>5. Cardinality(K) \in Nat /\ Cardinality(K) <= Cardinality(L)
      BY <1>2, <1>3, SmallerSet
    <2>6. Cardinality(K) <= Cardinality(M) + 1 /\ Cardinality(M) \in Nat
      BY <1>3, <2>4, SmallerSet
    <2>7. ~ started => Cardinality(K) <= Cardinality(M)
      BY <1>3, <2>4, SmallerSet
    <2>8. Cardinality(K) <= MaxConcurrent
      BY <2>2, <2>4, <2>5, BoundsAssumption
    <2>9. Cardinality(K) + pump'.room <= MaxConcurrent
      BY <2>1, <2>2, <2>5, <2>6, <2>7, BoundsAssumption
    <2>. QED
      BY <2>3, <2>8, <2>9 DEF RoomHolds, K
  <1>. QED
    BY <1>4, <1>5

\* startSession has answered, or failed.
LEMMA AnswerSound ==
  ASSUME IInv, LimitInv, ConsentInv, NEW r \in DOMAIN rows, NEW started \in BOOLEAN,
         NEW u, Good(u, session', TRUE), Becomes(u), Meek(Now, u),
         Lone(u, session'), Live(u, session') \subseteq Live(Now, session),
         session'[r] # "starting", ~ started => ~ Going(session', r),
         \A q \in RunIds : q # r => session'[q] = session[q],
         DOMAIN u.rows = DOMAIN rows,
         \A q \in DOMAIN rows : u.rows[q].auto = rows[q].auto,
         pump' = PumpAfter(r, started), hub' = hub, late' = late
  PROVE  LimitInv' /\ ConsentInv' /\ Unforced
  <1>1. Now' = u /\ Now' \in Store /\ rows' = u.rows
    BY BecomesNow DEF Good, Becomes
  <1>2. r # None /\ DOMAIN rows \subseteq RunIds /\ IsPump(pump)
    BY RunFacts, RowsBounded, NowFacts DEF IInv, PumpHolds
  <1>3. RoomHolds'
    <2>1. ~ started => r \notin Live(Now', session')
      BY <1>1 DEF Live
    <2>. QED
      BY <1>1, <1>2, <2>1, RoomAfter DEF LimitInv
  <1>4. \/ pump' = pump
        \/ /\ pump.run = r /\ pump'.call = pump.call /\ pump'.task = pump.task
           /\ pump'.todo = pump.todo \/ DOMAIN pump'.todo = {}
    <2>1. CASE pump.run = r
      BY <1>2, <2>1, PumpAfterFacts
    <2>2. CASE pump.run # r
      BY <2>2 DEF PumpAfter
    <2>. QED
      BY <2>1, <2>2
  <1>5. Starts'
    <2>1. SUFFICES ASSUME hub = "up", NEW q \in DOMAIN rows, rows[q].auto,
                          session'[q] = "starting"
                   PROVE  pump'.run = q
      BY <1>1 DEF Starts
    <2>2. q # r /\ session[q] = "starting"
      BY <1>2, <2>1
    <2>3. pump.run = q
      BY <2>1, <2>2 DEF LimitInv, Starts
    <2>. QED
      BY <1>4, <2>2, <2>3
  <1>6. Approves'
    <2>1. CASE pump' = pump
      BY <2>1 DEF ConsentInv, Approves
    <2>2. CASE pump.run = r /\ pump'.call = pump.call
      <3>1. pump.call = "none"
        BY <1>2, <2>2 DEF IInv, PumpHolds
      <3>. QED
        BY <2>2, <3>1 DEF Approves
    <2>. QED
      BY <1>4, <2>1, <2>2
  <1>7. Mild(Now, Now') /\ Unforced
    BY <1>1, MeekMild DEF Unforced
  <1>8. ConsentInv'
    BY <1>1, <1>4, <1>6, <1>7, ConsentStays
  <1>. QED
    BY <1>1, <1>3, <1>5, <1>7, <1>8 DEF LimitInv

\* What starts a run is not changed by its start.
LEMMA StartedAuto ==
  ASSUME NEW s \in Store, NEW t \in Tasks, NEW r \in Of(s, t)
  PROVE  LET u == StartedBy(s, r)
         IN  /\ DOMAIN u.rows = DOMAIN s.rows
             /\ \A q \in DOMAIN s.rows : u.rows[q].auto = s.rows[q].auto
  <1>. DEFINE u == StartedBy(s, r)
              n == [s.rows[r] EXCEPT !.status = "running"]
              x == [s.rows EXCEPT ![r] = n]
  <1>1. r \in DOMAIN s.rows /\ s.rows[r] \in RunRow
    BY StoreTypes DEF Of
  <1>2. n.auto = s.rows[r].auto
    BY <1>1 DEF RunRow
  <1>3. s = [task |-> s.task, file |-> s.file, rows |-> s.rows,
             active |-> s.active, told |-> s.told, past |-> s.past]
    BY StoreFields
  <1>4. u.rows = x
    <2>1. u = [s EXCEPT !.rows[r].status = "running",
                        !.task[s.rows[r].task].status = "in_progress",
                        !.active[s.rows[r].task] = r]
      BY DEF StartedBy
    <2>. HIDE DEF u
    <2>. QED
      BY <1>3, <2>1
  <1>. HIDE DEF n, u
  <1>5. /\ DOMAIN u.rows = DOMAIN s.rows
        /\ \A q \in DOMAIN s.rows : u.rows[q].auto = s.rows[q].auto
    BY <1>1, <1>2, <1>4
  <1>. QED
    BY <1>5 DEF u

\* startSession has answered.
LEMMA StartReturnsSound ==
  ASSUME IInv, LimitInv, ConsentInv, NEW r \in DOMAIN rows, StartReturns(r)
  PROVE  LimitInv' /\ ConsentInv' /\ Unforced
  <1>. DEFINE t == rows[r].task
  <1>1. /\ hub # "down" /\ hub' = hub /\ session[r] = "starting" /\ late' = late
        /\ pump' = PumpAfter(r, StartStands(r))
    BY DEF StartReturns
  <1>2. /\ Good(Now, session, TRUE) /\ Now \in Store /\ r \in DOMAIN Now.rows
        /\ r \in RunIds /\ r # None /\ t \in Tasks
        /\ r \in Of(Now, t) /\ rows[r].from \in {"approved", "failed"}
        /\ DOMAIN Now.rows \subseteq RunIds
    <2>1. Good(Now, session, TRUE)
      BY <1>1 DEF IInv
    <2>. QED
      BY <2>1, RunFacts, RowsBounded
  <1>3. Lone(Now, session) /\ StartStands(r) \in BOOLEAN
    BY DEF LimitInv, StartStands
  <1>4. CASE StartStands(r)
    <2>. DEFINE u == StartedBy(Now, r)
    <2>1. session' = [session EXCEPT ![r] = "working"] /\ Becomes(u)
      BY <1>4, NowFacts DEF StartReturns, StartedBy
    <2>2. /\ session'[r] = "working"
          /\ \A q \in RunIds : q # r => session'[q] = session[q]
      BY <1>2, <2>1, SessionFacts DEF IInv, LoopHolds
    <2>3. /\ ~ Ended(Now, r) /\ Now.task[t].status \in {"approved", "failed"}
          /\ Now.task[t].run = r
      BY <1>2, <1>4, NowFacts DEF StartStands
    <2>. HIDE DEF t
    <2>4. Good(u, session', TRUE)
      BY <1>1, <1>2, <2>2, <2>3, StartedGood
    <2>5. Lone(u, session') /\ Live(u, session') \subseteq Live(Now, session)
      BY <1>1, <1>2, <1>3, <2>2, <2>3, StartedLone
    <2>6. Meek(Now, u)
      BY <1>2, StartedMeek
    <2>7. DOMAIN u.rows = DOMAIN rows /\ \A q \in DOMAIN rows : u.rows[q].auto = rows[q].auto
      <3>1. /\ DOMAIN u.rows = DOMAIN Now.rows
            /\ \A q \in DOMAIN Now.rows : u.rows[q].auto = Now.rows[q].auto
        BY <1>2, StartedAuto
      <3>. HIDE DEF u
      <3>. QED
        BY <3>1, NowFacts
    <2>. HIDE DEF u
    <2>. QED
      BY <1>1, <1>3, <1>4, <2>1, <2>2, <2>4, <2>5, <2>6, <2>7, AnswerSound
  <1>5. CASE ~ StartStands(r)
    <2>. DEFINE w == EndRun(Now, r, "cancelled")
                u == [w EXCEPT !.active[Now.rows[r].task] = None]
    <2>1. session' = [session EXCEPT ![r] = "over"] /\ Becomes(u)
      BY <1>5, NowFacts DEF StartReturns
    <2>2. /\ session'[r] = "over"
          /\ \A q \in RunIds : q # r => session'[q] = session[q]
      BY <1>2, <2>1, SessionFacts DEF IInv, LoopHolds
    <2>3. OverAt(session, session', r) /\ Going(session, r) /\ ~ Going(session', r)
      BY <1>1, <2>2 DEF OverAt, Going
    <2>. HIDE DEF t
    <2>4. Good(u, session', TRUE)
      BY <1>1, <1>2, <2>3, StartDropped
    <2>5. Parts(Now, u, r) /\ Meek(Now, u)
      BY <1>2, DroppedSafe
    <2>. HIDE DEF u
    <2>6. Lone(u, session') /\ Live(u, session') \subseteq Live(Now, session) \ {r}
      BY <1>2, <1>3, <2>3, <2>5, PartsLone
    <2>7. DOMAIN u.rows = DOMAIN rows /\ \A q \in DOMAIN rows : u.rows[q].auto = rows[q].auto
      BY <2>5, NowFacts DEF Parts
    <2>8. Live(u, session') \subseteq Live(Now, session) /\ session'[r] # "starting"
      BY <2>2, <2>6
    <2>. QED
      BY <1>1, <1>3, <1>5, <2>1, <2>2, <2>3, <2>4, <2>5, <2>6, <2>7, <2>8, AnswerSound
  <1>. QED
    BY <1>4, <1>5

\* startSession has failed.
LEMMA StartFailsSound ==
  ASSUME IInv, LimitInv, ConsentInv, NEW r \in DOMAIN rows, StartFails(r)
  PROVE  LimitInv' /\ ConsentInv' /\ Unforced
  <1>. DEFINE u == Failed(Now, r)
  <1>1. /\ hub # "down" /\ hub' = hub /\ session[r] = "starting" /\ late' = late
        /\ pump' = PumpAfter(r, FALSE) /\ Becomes(u)
        /\ session' = [session EXCEPT ![r] = "over"]
    BY DEF StartFails
  <1>2. /\ Good(Now, session, TRUE) /\ Now \in Store /\ r \in DOMAIN Now.rows
        /\ r \in RunIds /\ r # None /\ DOMAIN Now.rows \subseteq RunIds
    <2>1. Good(Now, session, TRUE)
      BY <1>1 DEF IInv
    <2>. QED
      BY <2>1, RunFacts, RowsBounded
  <1>3. /\ session'[r] = "over"
        /\ \A q \in RunIds : q # r => session'[q] = session[q]
    BY <1>1, <1>2, SessionFacts DEF IInv, LoopHolds
  <1>4. OverAt(session, session', r) /\ Going(session, r) /\ ~ Going(session', r)
    BY <1>1, <1>3 DEF OverAt, Going
  <1>5. Good(u, session', TRUE)
    BY <1>2, <1>4, FailedGood
  <1>6. Parts(Now, u, r) /\ Meek(Now, u)
    BY <1>2, FailedSafe
  <1>. HIDE DEF u
  <1>7. Lone(u, session') /\ Live(u, session') \subseteq Live(Now, session) \ {r}
    BY <1>2, <1>4, <1>6, PartsLone DEF LimitInv
  <1>8. DOMAIN u.rows = DOMAIN rows /\ \A q \in DOMAIN rows : u.rows[q].auto = rows[q].auto
    BY <1>6, NowFacts DEF Parts
  <1>9. Live(u, session') \subseteq Live(Now, session) /\ session'[r] # "starting"
    BY <1>3, <1>7
  <1>. QED
    BY <1>1, <1>3, <1>4, <1>5, <1>6, <1>7, <1>8, <1>9, AnswerSound

\* runSession has answered.
LEMMA RunEndsSound ==
  ASSUME IInv, IInv', LimitInv, ConsentInv, NEW r \in DOMAIN rows,
         NEW result \in {"completed", "cancelled", "failed"},
         RunEnds(r, result)
  PROVE  LimitInv' /\ ConsentInv' /\ Unforced
  <1>. DEFINE s == Left(Finished(Now, r, result), Now.rows[r].task, r)
  <1>1. /\ hub # "down" /\ hub' = hub /\ pump' = pump /\ late' = late
        /\ session' = [session EXCEPT ![r] = "over"] /\ session[r] = "working"
        /\ IF hub = "up" THEN Reconciles(s) ELSE Becomes(s)
    BY NowFacts DEF RunEnds, Left
  <1>2. /\ Good(Now, session, TRUE) /\ Now \in Store /\ r \in DOMAIN Now.rows
        /\ r \in RunIds /\ DOMAIN Now.rows \subseteq RunIds /\ Now' \in Store
    <2>1. Good(Now, session, TRUE) /\ Now' \in Store
      BY <1>1 DEF IInv, Good
    <2>. QED
      BY <2>1, RunFacts, RowsBounded
  <1>3. /\ session'[r] = "over"
        /\ \A q \in RunIds : q # r => session'[q] = session[q]
    BY <1>1, <1>2, SessionFacts DEF IInv, LoopHolds
  <1>4. /\ OverAt(session, session', r) /\ Going(session, r) /\ ~ Going(session', r)
        /\ AtWork(Now, session)
    BY <1>1, <1>3 DEF OverAt, Going, AtWork
  <1>5. /\ Good(s, session', TRUE) /\ Moved(Now, s) /\ s.past = Now.past
        /\ DOMAIN s.rows = DOMAIN Now.rows
    <2>. DEFINE up == TRUE
    <2>1. Good(Now, session, up)
      BY <1>2
    <2>. HIDE DEF up
    <2>2. /\ Good(s, session', up) /\ Moved(Now, s) /\ s.past = Now.past
          /\ DOMAIN s.rows = DOMAIN Now.rows
      BY <1>1, <1>2, <1>4, <2>1, FinishedGood
    <2>. QED
      BY <2>2 DEF up
  <1>6. Parts(Now, s, r) /\ Meek(Now, s)
    BY <1>1, <1>2, <1>4, FinishedSafe
  <1>. HIDE DEF s
  <1>7. Lone(s, session') /\ Live(s, session') \subseteq Live(Now, session) \ {r}
    BY <1>2, <1>4, <1>6, PartsLone DEF LimitInv
  <1>8. Calm(s, Now', session')
    <2>1. CASE hub = "up"
      <3>1. AtWork(s, session')
        BY <1>2, <1>3, <1>5 DEF AtWork
      <3>. QED
        BY <1>1, <1>5, <2>1, <3>1, ReconcilesSafe
    <2>2. CASE hub # "up"
      <3>1. Now' = s
        BY <1>1, <1>5, <2>2, BecomesNow DEF Good
      <3>. QED
        BY <1>5, <3>1, GentleSelf, MeekSelf DEF Calm, Good
    <2>. QED
      BY <2>1, <2>2
  <1>9. Lone(Now', session') /\ Live(Now', session') \subseteq Live(Now, session)
    BY <1>5, <1>7, <1>8, GentleLone DEF Calm, Good
  <1>10. Mild(Now, Now') /\ Unforced
    <2>1. Meek(Now, Now')
      BY <1>2, <1>5, <1>6, <1>8, MeekTwice DEF Calm, Good
    <2>. QED
      BY <2>1, MeekMild DEF Unforced
  <1>11. Starts'
    <2>1. DOMAIN rows' = DOMAIN rows /\ \A q \in DOMAIN rows : rows'[q].auto = rows[q].auto
      <3>1. DOMAIN Now'.rows = DOMAIN Now.rows
            /\ \A q \in DOMAIN Now.rows : Now'.rows[q].auto = Now.rows[q].auto
        BY <1>6, <1>8 DEF Parts, Calm, Gentle
      <3>. QED
        BY <3>1 DEF Now
    <2>. QED
      BY <1>1, <1>2, <1>3, <2>1, NowFacts DEF LimitInv, Starts
  <1>12. PumpCalm
    BY <1>1 DEF PumpCalm
  <1>. QED
    BY <1>1, <1>2, <1>9, <1>10, <1>11, <1>12, CalmHolds

-----------------------------------------------------------------------------
(* Commands *)

\* What a command does after its reconciliation.
LEMMA CommandStretch ==
  ASSUME IInv, LimitInv, ConsentInv, NEW s \in Store, NEW u \in Store,
         Calm(Now, s, session), Gentle(s, u, session), Mild(s, u),
         \A q \in Tasks : Allowed(s, u, q), Becomes(u), UNCHANGED loopVars
  PROVE  LimitInv' /\ ConsentInv' /\ Unforced
  <1>1. /\ hub' = hub /\ pump' = pump /\ session' = session /\ late' = late
    BY DEF loopVars
  <1>2. Now' = u /\ Now \in Store
    BY BecomesNow DEF IInv, Good
  <1>3. Gentle(Now, u, session)
    BY <1>2, GentleTwice DEF Calm
  <1>4. Mild(Now, u) /\ \A q \in Tasks : Allowed(Now, u, q)
    BY <1>2, MeekThenMild DEF Calm
  <1>5. PumpCalm /\ (pump' = IdlePump => hub' # "up" \/ pump.run = None)
    BY <1>1, IdlePumpFacts DEF PumpCalm
  <1>6. LimitInv' /\ ConsentInv'
    BY <1>1, <1>2, <1>3, <1>4, <1>5, GentleHolds
  <1>. QED
    BY <1>2, <1>4, <1>6 DEF Unforced

\* createTask, updateTask, approveTask
LEMMA EditSound ==
  ASSUME IInv, LimitInv, ConsentInv, Settled(Now), hub = "up", NEW t \in Tasks,
         \/ Create(Reconciled(Now), t)
         \/ Update(Reconciled(Now), t)
         \/ Approve(Reconciled(Now), t)
  PROVE  LimitInv' /\ ConsentInv' /\ Unforced
  <1>. DEFINE s == Reconciled(Now)
  <1>1. Good(Now, session, TRUE)
    BY DEF IInv
  <1>2. /\ Good(s, session, TRUE) /\ Moved(Now, s)
        /\ s.past.claims = Now.past.claims /\ s.rows = Now.rows
    BY <1>1, ReconciledGood
  <1>3. Calm(Now, s, session)
    BY <1>1, ReconciledSafe
  <1>. HIDE DEF s
  <1>4. s \in Store
    BY <1>2 DEF Good
  <1>5. CASE Create(s, t)
    <2>1. PICK approved \in BOOLEAN :
            Becomes([s EXCEPT !.task[t] = Asked(approved), !.file[t] = "same"])
      BY <1>5 DEF Create
    <2>. DEFINE u == CreatedBy(s, t, approved)
    <2>2. s.task[t].status = "absent" /\ UNCHANGED loopVars
      BY <1>5 DEF Create
    <2>3. Consents(s, t)
      BY <1>3 DEF Calm, Meek, Tame, ConsentInv, ConsentHeld
    <2>4. Gentle(s, u, session) /\ Mild(s, u) /\ \A q \in Tasks : Allowed(s, u, q)
      BY <1>4, <2>2, <2>3, CreatedSafe
    <2>5. Good(u, session, TRUE) /\ Moved(s, u) /\ SamePast(s, u)
      BY <1>2, <2>2, CreatedGood
    <2>6. Becomes(u)
      BY <2>1 DEF CreatedBy
    <2>. HIDE DEF u
    <2>7. u \in Store
      BY <2>5 DEF Good
    <2>. QED
      BY <1>3, <1>4, <2>2, <2>4, <2>6, <2>7, CommandStretch
  <1>6. CASE Update(s, t)
    <2>. DEFINE u == UpdatedBy(s, t)
    <2>1. s.task[t].status \in Editable /\ UNCHANGED loopVars /\ Becomes(u)
      BY <1>6 DEF Update, UpdatedBy
    <2>2. Gentle(s, u, session) /\ Meek(s, u)
      BY <1>4, UpdatedSafe
    <2>3. Good(u, session, TRUE) /\ Moved(s, u) /\ u.past.claims = s.past.claims
      BY <1>2, <2>1, UpdatedGood
    <2>. HIDE DEF u
    <2>4. u \in Store /\ Mild(s, u) /\ \A q \in Tasks : Allowed(s, u, q)
      BY <2>2, <2>3, MeekMild DEF Good
    <2>. QED
      BY <1>3, <1>4, <2>1, <2>2, <2>4, CommandStretch
  <1>7. CASE Approve(s, t)
    <2>. DEFINE u == Approved(s, t, "user")
    <2>1. UNCHANGED loopVars /\ Becomes(u)
      BY <1>7 DEF Approve
    <2>2. "user" \in Authors
      BY DEF Authors
    <2>3. /\ u \in Store /\ Gentle(s, u, session) /\ Mild(s, u)
          /\ u.rows = s.rows /\ u.active = s.active /\ u.past = s.past
          /\ u.told = s.told
          /\ u.task[t].by = "user"
          /\ \A q \in Tasks : q # t => u.task[q] = s.task[q]
      BY <1>4, <2>2, ApprovedSafe
    <2>. HIDE DEF u
    <2>4. \A q \in Tasks : Allowed(s, u, q)
      BY <2>3 DEF Allowed
    <2>. QED
      BY <1>3, <1>4, <2>1, <2>3, <2>4, CommandStretch
  <1>8. Create(s, t) \/ Update(s, t) \/ Approve(s, t)
    BY DEF s
  <1>. QED
    BY <1>5, <1>6, <1>7, <1>8

\* A claim of run r, from what a call has read and approved.
LEMMA ClaimFacts ==
  ASSUME IInv, LimitInv, hub # "down", NEW s, NEW t \in Tasks, NEW rev,
         NEW who \in Authors,
         Good(s, session, TRUE), s.rows = rows, Lone(s, session),
         Len(rows) < MaxRuns, MayRun(s, t, rev), Becomes(Claimed(s, t, who)),
         StartsSession
  PROVE  LET r == Len(rows) + 1
         IN  /\ Now' \in Store /\ Lone(Now', session') /\ Meek(s, Now')
             /\ Live(Now', session') \subseteq Live(s, session) \cup {r}
             /\ who # "auto" => Live(Now', session') \subseteq Live(s, session)
             /\ r # None /\ r \notin DOMAIN rows /\ DOMAIN rows' = DOMAIN rows \cup {r}
             /\ rows'[r].auto = (who = "auto")
             /\ \A q \in DOMAIN rows :
                  rows'[q].auto = rows[q].auto /\ session'[q] = session[q]
             /\ Now'.past.filed = s.past.filed
  <1>. DEFINE r == Len(s.rows) + 1
              u == Claimed(s, t, who)
  <1>1. s \in Store /\ Len(s.rows) = Len(rows)
    BY DEF Good
  <1>2. Len(rows) \in Nat /\ DOMAIN rows = 1..Len(rows) /\ r \in RunIds /\ r # None
    <2>1. Len(rows) \in Nat /\ DOMAIN rows = 1..Len(rows)
      BY <1>1, StoreTypes
    <2>. QED
      BY <1>1, <2>1, BoundsAssumption DEF RunIds, None
  <1>3. session' = [session EXCEPT ![r] = "starting"]
    BY <1>1 DEF StartsSession
  <1>4. /\ session'[r] = "starting"
        /\ \A q \in RunIds : q # r => session'[q] = session[q]
    <2>. HIDE DEF r
    <2>. QED
      BY <1>2, <1>3, SessionFacts DEF IInv, LoopHolds
  <1>5. \A q \in DOMAIN s.rows : session'[q] = session[q]
    <2>1. DOMAIN rows \subseteq RunIds
      BY RowsBounded
    <2>. QED
      BY <1>1, <1>2, <1>4, <2>1
  <1>6. session'[Len(s.rows) + 1] = "starting" /\ Len(s.rows) < MaxRuns
    BY <1>1, <1>4
  <1>7. /\ Lone(u, session') /\ Meek(s, u)
        /\ Live(u, session') \subseteq Live(s, session) \cup {r}
        /\ who # "auto" => Live(u, session') \subseteq Live(s, session)
        /\ DOMAIN u.rows = DOMAIN s.rows \cup {r} /\ r \notin DOMAIN s.rows
        /\ u.rows[r].auto = (who = "auto")
        /\ \A q \in DOMAIN s.rows : u.rows[q] = s.rows[q]
        /\ u.past.filed = s.past.filed
    BY <1>1, <1>5, <1>6, ClaimedSafe
  <1>8. Good(u, session', TRUE) /\ Moved(s, u) /\ Counts(s, u, who)
    BY <1>5, <1>6, ClaimedGood
  <1>. HIDE DEF u
  <1>9. Now' = u /\ rows' = u.rows /\ u \in Store
    BY <1>8, BecomesNow DEF Good, Becomes, u
  <1>. QED
    BY <1>1, <1>2, <1>5, <1>7, <1>9

\* runTask of a user: it does not count.
LEMMA RunSound ==
  ASSUME IInv, LimitInv, ConsentInv, Settled(Now), hub = "up", NEW t \in Tasks,
         Run(Reconciled(Now), t)
  PROVE  LimitInv' /\ ConsentInv' /\ Unforced
  <1>. DEFINE s == Reconciled(Now)
  <1>1. Good(Now, session, TRUE) /\ Now \in Store
    BY DEF IInv, Good
  <1>2. /\ Good(s, session, TRUE) /\ Moved(Now, s)
        /\ s.past.claims = Now.past.claims /\ s.rows = Now.rows
    BY <1>1, ReconciledGood
  <1>3. Calm(Now, s, session)
    BY <1>1, ReconciledSafe
  <1>4. /\ Len(rows) < MaxRuns /\ MayRun(s, t, task[t].rev)
        /\ Becomes(Claimed(s, t, "user")) /\ StartsSession
        /\ late' = late /\ hub' = hub /\ pump' = pump
    BY DEF Run
  <1>. HIDE DEF s
  <1>5. s \in Store /\ s.rows = rows
    BY <1>2, NowFacts DEF Good
  <1>6. Lone(s, session) /\ Live(s, session) \subseteq Live(Now, session)
    BY <1>1, <1>3, GentleLone DEF Calm, LimitInv
  <1>. DEFINE r == Len(rows) + 1
              who == "user"
  <1>7. who \in Authors /\ Becomes(Claimed(s, t, who))
    BY <1>4 DEF Authors
  <1>. HIDE DEF who
  <1>8. /\ Now' \in Store /\ Lone(Now', session') /\ Meek(s, Now')
        /\ Live(Now', session') \subseteq Live(s, session) \cup {r}
        /\ who # "auto" => Live(Now', session') \subseteq Live(s, session)
        /\ r # None /\ r \notin DOMAIN rows /\ DOMAIN rows' = DOMAIN rows \cup {r}
        /\ rows'[r].auto = (who = "auto")
        /\ \A q \in DOMAIN rows :
             rows'[q].auto = rows[q].auto /\ session'[q] = session[q]
        /\ Now'.past.filed = s.past.filed
    BY <1>2, <1>4, <1>5, <1>6, <1>7, ClaimFacts
  <1>. HIDE DEF r
  <1>9. who # "auto"
    BY DEF who
  <1>10. Live(Now', session') \subseteq Live(Now, session)
    BY <1>6, <1>8, <1>9
  <1>11. Starts'
    BY <1>4, <1>8, <1>9 DEF LimitInv, Starts
  <1>12. Meek(Now, Now')
    BY <1>1, <1>3, <1>5, <1>8, MeekTwice DEF Calm
  <1>13. Mild(Now, Now') /\ \A q \in Tasks : Allowed(Now, Now', q)
    BY <1>12, MeekMild
  <1>14. PumpCalm
    BY <1>4 DEF PumpCalm
  <1>15. LimitInv' /\ ConsentInv'
    BY <1>4, <1>8, <1>10, <1>11, <1>13, <1>14, CalmHolds
  <1>. QED
    BY <1>13, <1>15 DEF Unforced

\* The commands that reconcile first
LEMMA CommandSound ==
  ASSUME IInv, LimitInv, ConsentInv, Command
  PROVE  LimitInv' /\ ConsentInv' /\ Unforced
  <1>. DEFINE s == Reconciled(Now)
  <1>1. PICK t \in Tasks : Create(s, t) \/ Update(s, t) \/ Approve(s, t) \/ Run(s, t)
    BY DEF Command
  <1>2. hub = "up" /\ Settled(Now)
    BY DEF Command
  <1>. QED
    BY <1>1, <1>2, EditSound, RunSound

-----------------------------------------------------------------------------
(* The pump's scope *)

\* What is mapped one to one is not more.
LEMMA NotMore ==
  ASSUME NEW A, NEW B, IsFiniteSet(B), NEW f \in [A -> B],
         \A x, y \in A : f[x] = f[y] => x = y
  PROVE  Cardinality(A) <= Cardinality(B)
  <1>1. f \in Injection(A, B)
    BY DEF Injection, IsInjective
  <1>. QED
    BY <1>1, FS_Injection

\* What Capacity counts.
Busy == {t \in Tasks : active[t] # None}

\* While the pump waits for no start, what counts has an entry of its own.
LEMMA LiveEntered ==
  ASSUME IInv, LimitInv, hub = "up", pump.run = None
  PROVE  Cardinality(Live(Now, session)) <= Cardinality(Busy)
  <1>. DEFINE L == Live(Now, session)
              f == [r \in L |-> rows[r].task]
  <1>1. Now \in Store /\ DOMAIN rows \subseteq RunIds
    BY RowsBounded, NowFacts DEF IInv, Good
  <1>2. IsFiniteSet(Busy)
    BY TasksAssumption, FS_Subset DEF Busy
  <1>3. ASSUME NEW r \in L
        PROVE  active[rows[r].task] = r /\ rows[r].task \in Tasks /\ r # None
    <2>1. r \in DOMAIN rows /\ rows[r].auto /\ Going(session, r) /\ Sure(Now, r)
      BY NowFacts DEF Live
    <2>2. r # None
      BY <1>1, <2>1 DEF RunIds, None
    <2>3. session[r] = "working"
      BY <2>1, <2>2 DEF LimitInv, Starts, Going
    <2>4. active[rows[r].task] = r
      BY <2>1, <2>3, NowFacts DEF LimitInv, Lone, EntryNamed
    <2>5. rows[r] \in RunRow
      BY <1>1, <2>1, StoreTypes, NowFacts
    <2>. QED
      BY <2>2, <2>4, <2>5 DEF RunRow
  <1>. HIDE DEF L
  <1>4. f \in [L -> Busy]
    BY <1>3 DEF Busy
  <1>5. \A x, y \in L : f[x] = f[y] => x = y
    BY <1>3
  <1>. HIDE DEF f
  <1>. QED
    BY <1>2, <1>4, <1>5, NotMore DEF L

\* The scope that is read, and the candidates it lists.
LEMMA ScopeAgreed ==
  ASSUME IInv, ConsentInv, NEW s, NEW todo, Good(Now, session, TRUE),
         s = Expired(Now, Tasks),
         DOMAIN todo = Candidates(s),
         \A t \in Candidates(s) :
           todo[t].status = s.task[t].status /\ todo[t].rev = s.task[t].rev
  PROVE  Agreed(s, todo)
  <1>1. /\ Gentle(Now, s, session) /\ Meek(Now, s)
        /\ s.active = Now.active /\ s.rows = Now.rows
        /\ s.told = Now.told
        /\ \A t \in Tasks : s.task[t].status = "pending_approval" =>
                              s.task[t] = Now.task[t]
    BY ExpiredSafe
  <1>2. s \in Store
    BY ExpiredGood DEF Good
  <1>3. SUFFICES ASSUME NEW t \in DOMAIN todo, todo[t].status = "pending_approval"
                 PROVE  /\ s.task[t].status # "absent" /\ todo[t].rev <= s.task[t].rev
                        /\ t \in s.past.filed /\ t \notin late => todo[t].rev < s.task[t].rev
    BY DEF Agreed
  <1>4. t \in Tasks /\ t \in Candidates(s)
    BY DEF Candidates
  <1>5. /\ s.task[t].status = "pending_approval" /\ todo[t].rev = s.task[t].rev
        /\ s.task[t].rev \in Nat /\ s.task[t] = task[t]
    BY <1>1, <1>2, <1>3, <1>4, TaskTypes, NowFacts
  <1>6. CanAutomaticallyApprove(t)
    BY <1>4, <1>5 DEF Candidates
  <1>7. Consents(s, t)
    BY <1>1, <1>4 DEF Meek, Tame, ConsentInv, ConsentHeld
  <1>8. ~ (t \in s.past.filed /\ t \notin late)
    BY <1>5, <1>6, <1>7 DEF Consents, CanAutomaticallyApprove
  <1>. QED
    BY <1>5, <1>8

\* The next scope
LEMMA PumpScopeSound ==
  ASSUME IInv, LimitInv, ConsentInv, PumpScope
  PROVE  LimitInv' /\ ConsentInv' /\ Unforced
  <1>. DEFINE s == Expired(Now, Tasks)
              todo == [t \in Candidates(s) |->
                         [status |-> s.task[t].status, rev |-> s.task[t].rev]]
  <1>1. /\ hub = "up" /\ hub' = hub /\ session' = session /\ late' = late
        /\ pump.call = "none" /\ pump.run = None
        /\ IF mode = "manual" THEN Becomes(Now) ELSE Becomes(s)
        /\ \/ pump' = IdlePump
           \/ /\ mode # "manual" /\ Capacity # 0
              /\ pump' = [pump EXCEPT !.on = TRUE, !.room = Capacity, !.todo = todo]
    BY DEF PumpScope, PumpIdle
  <1>2. Good(Now, session, TRUE) /\ IsPump(pump) /\ Now \in Store
    BY <1>1 DEF IInv, PumpHolds, Good
  <1>3. Good(s, session, TRUE) /\ Calm(Now, s, session)
    BY <1>2, ExpiredGood, ExpiredSafe DEF Calm
  <1>4. Agreed(s, todo)
    <2>1. DOMAIN todo = Candidates(s)
          /\ \A t \in Candidates(s) :
               todo[t].status = s.task[t].status /\ todo[t].rev = s.task[t].rev
      OBVIOUS
    <2>. HIDE DEF todo
    <2>. QED
      BY <1>2, <2>1, ScopeAgreed
  <1>. HIDE DEF s, todo
  <1>5. PICK u \in {Now, s} : Becomes(u) /\ (mode # "manual" => u = s)
    BY <1>1
  <1>6. Good(u, session, TRUE) /\ Calm(Now, u, session)
    BY <1>2, <1>3, GentleSelf, MeekSelf DEF Calm
  <1>7. Now' = u /\ Now' \in Store
    BY <1>5, <1>6, BecomesNow DEF Good
  <1>8. CASE pump' = IdlePump
    <2>1. PumpCalm
      BY <1>8 DEF PumpCalm
    <2>. QED
      BY <1>1, <1>6, <1>7, <2>1, CalmStretch
  <1>9. CASE /\ mode # "manual" /\ Capacity # 0
             /\ pump' = [pump EXCEPT !.on = TRUE, !.room = Capacity, !.todo = todo]
    <2>. DEFINE room == Capacity
    <2>1. /\ pump'.room = room /\ pump'.todo = todo /\ pump'.call = "none"
          /\ pump'.run = None
      <3>1. pump = [on |-> pump.on, stale |-> pump.stale, room |-> pump.room,
                    todo |-> pump.todo, call |-> pump.call, task |-> pump.task,
                    run |-> pump.run]
        BY <1>2, PumpFields
      <3>2. pump' = [pump EXCEPT !.on = TRUE, !.room = room, !.todo = todo]
        BY <1>9
      <3>. HIDE DEF room
      <3>3. pump' = [on |-> TRUE, stale |-> pump.stale, room |-> room,
                     todo |-> todo, call |-> pump.call, task |-> pump.task,
                     run |-> pump.run]
        BY <3>1, <3>2
      <3>. QED
        BY <1>1, <3>3
    <2>. DEFINE L == Live(Now, session)
                K == Live(Now', session')
    <2>2. Lone(Now', session') /\ K \subseteq L
      BY <1>1, <1>2, <1>6, <1>7, GentleLone DEF Calm, LimitInv
    <2>3. Starts'
      <3>1. /\ DOMAIN rows' = DOMAIN rows
            /\ \A r \in DOMAIN rows : rows'[r].auto = rows[r].auto
        BY <1>6, <1>7 DEF Calm, Gentle, Now
      <3>. QED
        BY <1>1, <2>1, <3>1, StartsStay DEF LimitInv
    <2>4. RoomHolds'
      <3>1. IsFiniteSet(L) /\ None \notin L
        BY <1>2, RowsBounded, LiveFinite
      <3>2. Cardinality(L) <= Cardinality(Busy) /\ Cardinality(Busy) \in Nat
        BY <1>1, LiveEntered, TasksAssumption, FS_Subset, FS_CardinalityType DEF Busy
      <3>3. room = IF Cardinality(Busy) < MaxConcurrent
                   THEN MaxConcurrent - Cardinality(Busy) ELSE 0
        BY DEF Capacity, Busy
      <3>4. K \ {pump'.run} = K
        BY <2>1, <2>2, <3>1
      <3>. HIDE DEF L, K, room
      <3>5. Cardinality(K) \in Nat /\ Cardinality(K) <= Cardinality(L)
            /\ Cardinality(L) \in Nat
        BY <2>2, <3>1, SmallerSet
      <3>6. room # 0
        BY <1>9 DEF room
      <3>7. Cardinality(K) + pump'.room <= MaxConcurrent /\ Cardinality(K) <= MaxConcurrent
        BY <2>1, <3>2, <3>3, <3>5, <3>6, BoundsAssumption
      <3>. QED
        BY <3>4, <3>7 DEF RoomHolds, K
    <2>5. Mild(Now, Now') /\ Unforced
      BY <1>6, <1>7, MeekMild DEF Calm, Unforced
    <2>6. ConsentInv'
      <3>1. Agreed(Now', pump'.todo)
        BY <1>4, <1>5, <1>7, <1>9, <2>1
      <3>2. Agreed(Now, pump.todo)'
        BY <1>1, <3>1 DEF Agreed
      <3>3. \A t \in Tasks : Consents(Now', t)
        BY <2>5 DEF ConsentInv, ConsentHeld, Mild
      <3>4. ConsentHeld'
        BY <1>1, <3>3 DEF ConsentHeld, Consents
      <3>5. Approves'
        BY <2>1 DEF Approves
      <3>. QED
        BY <3>2, <3>4, <3>5 DEF ConsentInv
    <2>. QED
      BY <2>2, <2>3, <2>4, <2>5, <2>6 DEF LimitInv
  <1>. QED
    BY <1>1, <1>8, <1>9

-----------------------------------------------------------------------------
(* One candidate *)

\* A step of the pump that starts no session and leaves its room.
LEMMA PumpMoves ==
  ASSUME IInv, LimitInv, ConsentInv, Now' \in Store, Gentle(Now, Now', session),
         Mild(Now, Now'), session' = session, hub' = hub, late' = late,
         pump'.run = pump.run, pump'.room = pump.room,
         DOMAIN pump'.todo \subseteq DOMAIN pump.todo,
         \A q \in DOMAIN pump'.todo :
           pump'.todo[q].status = "pending_approval" => pump'.todo[q] = pump.todo[q],
         Approves'
  PROVE  LimitInv' /\ ConsentInv'
  <1>1. Now \in Store
    BY DEF IInv, Good
  <1>2. Lone(Now', session') /\ Live(Now', session') \subseteq Live(Now, session)
    BY <1>1, GentleLone DEF LimitInv
  <1>3. Starts'
    <2>1. /\ DOMAIN rows' = DOMAIN rows
          /\ \A r \in DOMAIN rows : rows'[r].auto = rows[r].auto
      BY DEF Gentle, Now
    <2>. QED
      BY <2>1, StartsStay DEF LimitInv
  <1>4. RoomHolds'
    BY <1>2, RoomStays DEF LimitInv
  <1>5. ConsentInv'
    BY ConsentStays
  <1>. QED
    BY <1>2, <1>3, <1>4, <1>5 DEF LimitInv

\* A candidate that has been tried leaves the listing.
LEMMA TriedMore ==
  ASSUME IsPump(pump), NEW t \in DOMAIN pump.todo, NEW run \in Nat,
         pump' = [Tried(t) EXCEPT !.run = run]
  PROVE  /\ pump'.run = run /\ pump'.room = pump.room /\ pump'.call = "none"
         /\ DOMAIN pump'.todo \subseteq DOMAIN pump.todo
         /\ \A q \in DOMAIN pump'.todo : pump'.todo[q] = pump.todo[q]
  <1>. DEFINE todo == Without(pump.todo, {t})
  <1>1. pump = [on |-> pump.on, stale |-> pump.stale, room |-> pump.room,
                todo |-> pump.todo, call |-> pump.call, task |-> pump.task,
                run |-> pump.run]
    BY PumpFields
  <1>2. /\ DOMAIN todo \subseteq DOMAIN pump.todo
        /\ \A q \in DOMAIN todo : todo[q] = pump.todo[q]
    BY DEF Without
  <1>3. pump' = [on |-> pump.on, stale |-> pump.stale, room |-> pump.room,
                 todo |-> todo, call |-> "none", task |-> None, run |-> run]
    <2>1. PICK q : q = Tried(t)
      OBVIOUS
    <2>2. q = [pump EXCEPT !.todo = todo, !.call = "none", !.task = None]
      BY <2>1, Zenon DEF Tried
    <2>. HIDE DEF todo
    <2>3. q = [on |-> pump.on, stale |-> pump.stale, room |-> pump.room,
               todo |-> todo, call |-> "none", task |-> None, run |-> pump.run]
      BY <1>1, <2>2
    <2>4. pump' = [q EXCEPT !.run = run]
      BY <2>1
    <2>. QED
      BY <2>3, <2>4
  <1>. HIDE DEF todo
  <1>4. /\ pump'.run = run /\ pump'.room = pump.room /\ pump'.call = "none"
        /\ pump'.todo = todo
    BY <1>3
  <1>. QED
    BY <1>2, <1>4

\* ... and so does one that is refused.
LEMMA RefusedMore ==
  ASSUME IsPump(pump), NEW t \in DOMAIN pump.todo, pump' = Tried(t)
  PROVE  /\ pump'.run = pump.run /\ pump'.room = pump.room /\ pump'.call = "none"
         /\ DOMAIN pump'.todo \subseteq DOMAIN pump.todo
         /\ \A q \in DOMAIN pump'.todo : pump'.todo[q] = pump.todo[q]
  <1>. DEFINE todo == Without(pump.todo, {t})
  <1>1. pump = [on |-> pump.on, stale |-> pump.stale, room |-> pump.room,
                todo |-> pump.todo, call |-> pump.call, task |-> pump.task,
                run |-> pump.run]
    BY PumpFields
  <1>2. /\ DOMAIN todo \subseteq DOMAIN pump.todo
        /\ \A q \in DOMAIN todo : todo[q] = pump.todo[q]
    BY DEF Without
  <1>3. pump' = [pump EXCEPT !.todo = todo, !.call = "none", !.task = None]
    BY Zenon DEF Tried
  <1>. HIDE DEF todo
  <1>4. pump' = [on |-> pump.on, stale |-> pump.stale, room |-> pump.room,
                 todo |-> todo, call |-> "none", task |-> None, run |-> pump.run]
    BY <1>1, <1>3
  <1>5. /\ pump'.run = pump.run /\ pump'.room = pump.room /\ pump'.call = "none"
        /\ pump'.todo = todo
    BY <1>4
  <1>. QED
    BY <1>2, <1>5

\* What the pump has approved before it claims is nothing a file wrote.
Spares(s, u) ==
  \A q \in Tasks : q \in u.past.filed => u.task[q].ok \in {0, s.task[q].ok}

\* The pump's claim, or the refusal of it
LEMMA PumpRunsSound ==
  ASSUME IInv, LimitInv, ConsentInv, hub = "up", pump.run = None,
         NEW s, NEW t \in DOMAIN pump.todo, NEW rev,
         Good(s, session, TRUE), s.rows = rows, Gentle(Now, s, session), Mild(Now, s),
         Spares(Now, s), PumpRuns(s, t, rev), hub' = hub, late' = late
  PROVE  LimitInv' /\ ConsentInv' /\ Unforced
  <1>1. Now \in Store /\ s \in Store /\ IsPump(pump) /\ pump.room > 0 /\ pump.room \in Nat
    BY DEF IInv, Good, PumpHolds, IsPump
  <1>2. t \in Tasks
    BY <1>1 DEF IsPump, IsListing
  <1>3. Lone(s, session) /\ Live(s, session) \subseteq Live(Now, session)
    BY <1>1, GentleLone DEF LimitInv
  <1>4. CASE MayRun(s, t, rev)
    <2>. DEFINE r == Len(rows) + 1
                who == "auto"
    <2>1. /\ Len(rows) < MaxRuns /\ Becomes(Claimed(s, t, who)) /\ StartsSession
          /\ pump' = [Tried(t) EXCEPT !.run = r] /\ who \in Authors
      BY <1>4 DEF PumpRuns, Authors
    <2>. HIDE DEF who
    <2>2. /\ Now' \in Store /\ Lone(Now', session') /\ Meek(s, Now')
          /\ Live(Now', session') \subseteq Live(s, session) \cup {r}
          /\ who # "auto" => Live(Now', session') \subseteq Live(s, session)
          /\ r # None /\ r \notin DOMAIN rows /\ DOMAIN rows' = DOMAIN rows \cup {r}
          /\ rows'[r].auto = (who = "auto")
          /\ \A q \in DOMAIN rows :
               rows'[q].auto = rows[q].auto /\ session'[q] = session[q]
          /\ Now'.past.filed = s.past.filed
      BY <1>2, <1>3, <1>4, <2>1, ClaimFacts
    <2>3. r \in Nat /\ None \notin DOMAIN rows
      <3>1. Len(rows) \in Nat /\ DOMAIN rows \subseteq RunIds
        BY <1>1, StoreTypes, RowsBounded
      <3>. QED
        BY <3>1 DEF RunIds, None
    <2>. HIDE DEF r
    <2>4. /\ pump'.run = r /\ pump'.room = pump.room /\ pump'.call = "none"
          /\ DOMAIN pump'.todo \subseteq DOMAIN pump.todo
          /\ \A q \in DOMAIN pump'.todo : pump'.todo[q] = pump.todo[q]
      BY <1>1, <2>1, <2>3, TriedMore
    <2>5. Mild(Now, Now')
      BY <1>1, <2>2, MildThenMeek
    <2>6. Unforced
      <3>1. SUFFICES ASSUME NEW q \in Tasks, q \in Now'.past.filed
                     PROVE  Now'.task[q].ok \in {0, Now.task[q].ok}
        BY DEF Unforced, Allowed
      <3>2. Now'.task[q].ok \in {0, s.task[q].ok} /\ q \in s.past.filed
        BY <2>2, <3>1 DEF Meek, Tame
      <3>. QED
        BY <3>2 DEF Spares
    <2>7. Approves'
      BY <2>4 DEF Approves
    <2>8. ConsentInv'
      BY <2>2, <2>4, <2>5, <2>7, ConsentStays
    <2>9. Starts'
      <3>1. SUFFICES ASSUME NEW q \in DOMAIN rows', rows'[q].auto,
                            session'[q] = "starting"
                     PROVE  q = r
        BY <2>4 DEF Starts
      <3>2. CASE q \in DOMAIN rows
        BY <2>2, <2>3, <3>1, <3>2 DEF LimitInv, Starts
      <3>. QED
        BY <2>2, <3>1, <3>2
    <2>10. RoomHolds'
      <3>. DEFINE L == Live(Now, session)
                  K == Live(Now', session')
                  M == K \ {r}
      <3>1. IsFiniteSet(L) /\ None \notin L
        BY RowsBounded, LiveFinite DEF IInv
      <3>2. K \subseteq L \cup {r} /\ M \subseteq L
        BY <1>3, <2>2
      <3>3. L \ {pump.run} = L /\ K \ {pump'.run} = M
        BY <2>4, <3>1
      <3>4. Cardinality(L) + pump.room <= MaxConcurrent
        BY <3>3 DEF LimitInv, RoomHolds
      <3>. HIDE DEF L, K, M
      <3>5. /\ Cardinality(K) \in Nat /\ Cardinality(K) <= Cardinality(L) + 1
            /\ Cardinality(M) \in Nat /\ Cardinality(M) <= Cardinality(L)
            /\ Cardinality(L) \in Nat
        BY <3>1, <3>2, SmallerSet
      <3>6. /\ Cardinality(K) <= MaxConcurrent
            /\ Cardinality(M) + pump'.room <= MaxConcurrent
        BY <1>1, <2>4, <3>4, <3>5, BoundsAssumption
      <3>. QED
        BY <3>3, <3>6 DEF RoomHolds, K
    <2>. QED
      BY <2>2, <2>6, <2>8, <2>9, <2>10 DEF LimitInv
  <1>5. CASE ~ MayRun(s, t, rev)
    <2>1. Becomes(s) /\ session' = session /\ pump' = Tried(t)
      BY <1>5 DEF PumpRuns
    <2>2. /\ pump'.run = pump.run /\ pump'.room = pump.room /\ pump'.call = "none"
          /\ DOMAIN pump'.todo \subseteq DOMAIN pump.todo
          /\ \A q \in DOMAIN pump'.todo : pump'.todo[q] = pump.todo[q]
      BY <1>1, <2>1, RefusedMore
    <2>3. Now' = s
      BY <1>1, <2>1, BecomesNow
    <2>4. Unforced
      BY <2>3 DEF Unforced, Allowed, Spares
    <2>5. Approves'
      BY <2>2 DEF Approves
    <2>6. LimitInv' /\ ConsentInv'
      BY <1>1, <2>1, <2>2, <2>3, <2>5, PumpMoves
    <2>. QED
      BY <2>4, <2>6
  <1>. QED
    BY <1>4, <1>5

-----------------------------------------------------------------------------
(* Approvals of the pump *)

\* The pump approves a revision that no file has written.
LEMMA ApprovalSpares ==
  ASSUME NEW s \in Store, NEW todo, IsListing(todo), NEW t \in DOMAIN todo,
         Agreed(s, todo), todo[t].status = "pending_approval",
         MayApprove(s, t, todo[t].rev)
  PROVE  LET u == Approved(s, t, "auto")
         IN  /\ u \in Store /\ Gentle(s, u, session) /\ Mild(s, u) /\ Spares(s, u)
             /\ u.rows = s.rows /\ u.past = s.past
  <1>. DEFINE u == Approved(s, t, "auto")
  <1>1. t \in Tasks /\ "auto" \in Authors /\ s.task[t].rev \in Nat
    BY TaskTypes DEF IsListing, Authors
  <1>2. /\ u \in Store /\ Gentle(s, u, session) /\ Mild(s, u)
        /\ u.rows = s.rows /\ u.active = s.active /\ u.past = s.past
        /\ u.told = s.told
        /\ u.task[t].by = "auto"
        /\ \A q \in Tasks : q # t => u.task[q] = s.task[q]
    BY <1>1, ApprovedSafe
  <1>. HIDE DEF u
  <1>3. t \notin s.past.filed
    <2>1. s.task[t].rev = todo[t].rev /\ t \notin late
      BY DEF MayApprove, Verified
    <2>. QED
      BY <1>1, <2>1 DEF Agreed
  <1>4. Spares(s, u)
    BY <1>2, <1>3 DEF Spares
  <1>. QED
    BY <1>2, <1>4 DEF u

\* What it reconciled before does not matter.
LEMMA SparesAfter ==
  ASSUME NEW s, NEW u, NEW v, Meek(s, u), Spares(u, v), v.past = u.past
  PROVE  Spares(s, v)
  BY DEF Meek, Tame, Spares

\* What approves nothing spares all.
LEMMA SparesMeek ==
  ASSUME NEW s, NEW u, Meek(s, u)
  PROVE  Spares(s, u)
  BY DEF Meek, Tame, Spares

\* A candidate that is tried at once
LEMMA PumpTriesSound ==
  ASSUME IInv, LimitInv, ConsentInv, NEW t \in Tasks, PumpTries(t)
  PROVE  LimitInv' /\ ConsentInv' /\ Unforced
  <1>. DEFINE s == Reconciled(Now)
              seen == pump.todo[t]
              rev == seen.rev
              x == IF seen.status = "pending_approval" /\ MayApprove(s, t, rev)
                   THEN Approved(s, t, "auto") ELSE s
  <1>1. /\ hub = "up" /\ Settled(Now) /\ PumpRuns(x, t, rev)
        /\ hub' = hub /\ late' = late /\ pump.run = None
        /\ t \in DOMAIN pump.todo
    BY DEF PumpTries, MayTry, PumpIdle
  <1>2. Good(Now, session, TRUE) /\ Now \in Store /\ IsListing(pump.todo)
    BY <1>1 DEF IInv, Good, PumpHolds, IsPump
  <1>3. /\ Good(s, session, TRUE) /\ Moved(Now, s)
        /\ s.past.claims = Now.past.claims /\ s.rows = Now.rows
    BY <1>1, <1>2, ReconciledGood
  <1>4. Calm(Now, s, session)
    BY <1>1, <1>2, ReconciledSafe
  <1>. HIDE DEF s
  <1>5. s \in Store /\ s.rows = rows /\ Gentle(Now, s, session) /\ Meek(Now, s)
    BY <1>3, <1>4, NowFacts DEF Good, Calm
  <1>6. Mild(Now, s) /\ Spares(Now, s)
    BY <1>5, MeekMild, SparesMeek
  <1>7. /\ Good(x, session, TRUE) /\ x.rows = rows /\ Gentle(Now, x, session)
        /\ Mild(Now, x) /\ Spares(Now, x)
    <2>1. CASE x = s
      BY <1>3, <1>5, <1>6, <2>1
    <2>2. CASE /\ seen.status = "pending_approval" /\ MayApprove(s, t, rev)
               /\ x = Approved(s, t, "auto")
      <3>. DEFINE u == Approved(s, t, "auto")
      <3>1. Agreed(s, pump.todo)
        BY <1>2, <1>5, <1>6, AgreedMild DEF ConsentInv
      <3>2. /\ u \in Store /\ Gentle(s, u, session) /\ Mild(s, u) /\ Spares(s, u)
            /\ u.rows = s.rows /\ u.past = s.past
        BY <1>1, <1>2, <1>5, <2>2, <3>1, ApprovalSpares
      <3>3. s.task[t].status \in {"pending_approval", "failed"} /\ "auto" \in Authors
        BY <2>2 DEF MayApprove, Authors
      <3>4. Good(u, session, TRUE) /\ Moved(s, u) /\ u.past = s.past /\ u.rows = s.rows
        BY <1>3, <3>3, ApprovedGood
      <3>. HIDE DEF u
      <3>5. x = u
        BY <2>2 DEF u
      <3>. HIDE DEF x
      <3>6. Gentle(Now, u, session)
        BY <1>5, <3>2, GentleTwice
      <3>7. Mild(Now, u)
        BY <1>2, <1>5, <1>6, <3>2, MildTwice
      <3>8. Spares(Now, u)
        BY <1>5, <3>2, SparesAfter
      <3>. QED
        BY <1>5, <3>2, <3>4, <3>5, <3>6, <3>7, <3>8
    <2>. QED
      BY <2>1, <2>2
  <1>. HIDE DEF x, rev
  <1>. QED
    BY <1>1, <1>7, PumpRunsSound

\* A candidate whose call has to wait
LEMMA PumpWaitsSound ==
  ASSUME IInv, IInv', LimitInv, ConsentInv, NEW t \in Tasks, PumpWaits(t)
  PROVE  LimitInv' /\ ConsentInv' /\ Unforced
  <1>. DEFINE call == IF pump.todo[t].status = "pending_approval" THEN "approve" ELSE "run"
  <1>1. /\ hub = "up" /\ session' = session /\ hub' = hub /\ late' = late
        /\ Reconciles(Now) /\ t \in DOMAIN pump.todo
        /\ pump' = [pump EXCEPT !.task = t, !.call = call]
    BY DEF PumpWaits, MayTry
  <1>2. Good(Now, session, TRUE) /\ Now \in Store /\ Now' \in Store /\ IsPump(pump)
    BY <1>1 DEF IInv, Good, PumpHolds
  <1>3. Calm(Now, Now', session)
    <2>1. AtWork(Now, session)
      BY DEF AtWork
    <2>. QED
      BY <1>1, <1>2, <2>1, ReconcilesSafe
  <1>4. call = "approve" => pump.todo[t].status = "pending_approval"
    OBVIOUS
  <1>. HIDE DEF call
  <1>5. /\ pump'.run = pump.run /\ pump'.room = pump.room /\ pump'.todo = pump.todo
        /\ pump'.call = call /\ pump'.task = t
    <2>1. pump = [on |-> pump.on, stale |-> pump.stale, room |-> pump.room,
                  todo |-> pump.todo, call |-> pump.call, task |-> pump.task,
                  run |-> pump.run]
      BY <1>2, PumpFields
    <2>2. pump' = [on |-> pump.on, stale |-> pump.stale, room |-> pump.room,
                   todo |-> pump.todo, call |-> call, task |-> t, run |-> pump.run]
      BY <1>1, <2>1
    <2>. QED
      BY <2>2
  <1>6. Approves'
    BY <1>4, <1>5 DEF Approves
  <1>7. Mild(Now, Now') /\ Unforced /\ Gentle(Now, Now', session)
    BY <1>3, MeekMild DEF Calm, Unforced
  <1>8. LimitInv' /\ ConsentInv'
    BY <1>1, <1>2, <1>5, <1>6, <1>7, PumpMoves
  <1>. QED
    BY <1>7, <1>8

\* A call that waited goes on
LEMMA PumpResumesSound ==
  ASSUME IInv, LimitInv, ConsentInv, NEW t \in Tasks, PumpResumes(t)
  PROVE  LimitInv' /\ ConsentInv' /\ Unforced
  <1>. DEFINE rev == pump.todo[t].rev
  <1>1. /\ hub = "up" /\ pump.call # "none" /\ pump.task = t
        /\ hub' = hub /\ late' = late
    BY DEF PumpResumes
  <1>2. /\ t \in DOMAIN pump.todo /\ pump.run = None /\ IsPump(pump)
        /\ IsListing(pump.todo)
    BY <1>1, PumpFields DEF IInv, PumpHolds
  <1>3. /\ Good(Now, session, TRUE) /\ Now \in Store /\ Now.rows = rows
        /\ Meek(Now, Now) /\ Gentle(Now, Now, session)
    BY <1>1, MeekSelf, GentleSelf, NowFacts DEF IInv, Good
  <1>4. Mild(Now, Now) /\ Spares(Now, Now)
    BY <1>3, MeekMild, SparesMeek
  <1>5. CASE pump.call = "run" /\ PumpRuns(Now, t, rev)
    <2>. HIDE DEF rev
    <2>. QED
      BY <1>1, <1>2, <1>3, <1>4, <1>5, PumpRunsSound
  <1>6. CASE /\ pump.call = "approve" /\ session' = session
             /\ IF MayApprove(Now, t, rev)
                THEN Becomes(Approved(Now, t, "auto")) ELSE Becomes(Now)
             /\ \/ pump' = [pump EXCEPT !.call = "none", !.task = None,
                                        !.todo[t].status = "approved"]
                \/ pump' = Tried(t)
    <2>1. Now' \in Store /\ Gentle(Now, Now', session) /\ Mild(Now, Now') /\ Spares(Now, Now')
      <3>1. CASE MayApprove(Now, t, rev)
        <4>. DEFINE u == Approved(Now, t, "auto")
        <4>1. pump.todo[t].status = "pending_approval" /\ Agreed(Now, pump.todo)
          BY <1>1, <1>6 DEF ConsentInv, Approves
        <4>2. /\ u \in Store /\ Gentle(Now, u, session) /\ Mild(Now, u) /\ Spares(Now, u)
              /\ u.rows = Now.rows /\ u.past = Now.past
          BY <1>2, <1>3, <3>1, <4>1, ApprovalSpares
        <4>3. Becomes(u)
          BY <1>6, <3>1
        <4>. HIDE DEF u
        <4>4. Now' = u
          BY <4>2, <4>3, BecomesNow
        <4>. QED
          BY <4>2, <4>4
      <3>2. CASE ~ MayApprove(Now, t, rev)
        <4>1. Now' = Now
          BY <1>3, <1>6, <3>2, BecomesNow
        <4>. QED
          BY <1>3, <1>4, <4>1
      <3>. QED
        BY <3>1, <3>2
    <2>2. /\ pump'.run = pump.run /\ pump'.room = pump.room /\ pump'.call = "none"
          /\ DOMAIN pump'.todo \subseteq DOMAIN pump.todo
          /\ \A q \in DOMAIN pump'.todo :
               pump'.todo[q].status = "pending_approval" => pump'.todo[q] = pump.todo[q]
      <3>1. CASE pump' = Tried(t)
        BY <1>2, <3>1, RefusedMore
      <3>2. CASE pump' = [pump EXCEPT !.call = "none", !.task = None,
                                      !.todo[t].status = "approved"]
        <4>. DEFINE todo == ApprovedSeen(t)
        <4>1. IsListing(todo) /\ DOMAIN todo = DOMAIN pump.todo
          BY <1>2, ApprovedSeenFacts
        <4>2. \A q \in DOMAIN todo :
                todo[q].status = "pending_approval" => todo[q] = pump.todo[q]
          <5>1. SUFFICES ASSUME NEW q \in DOMAIN todo,
                                todo[q].status = "pending_approval"
                         PROVE  q # t
            BY DEF ApprovedSeen
          <5>2. pump.todo[t] \in Seen
            BY <1>2 DEF IsListing
          <5>3. todo[t] = [pump.todo[t] EXCEPT !.status = "approved"]
            BY <1>2 DEF ApprovedSeen
          <5>. HIDE DEF todo
          <5>4. todo[t].status = "approved"
            BY <5>2, <5>3 DEF Seen
          <5>. QED
            BY <5>1, <5>4
        <4>3. pump' = [pump EXCEPT !.call = "none", !.task = None, !.todo = todo]
          BY <3>2, Zenon DEF ApprovedSeen
        <4>. HIDE DEF todo
        <4>4. pump = [on |-> pump.on, stale |-> pump.stale, room |-> pump.room,
                      todo |-> pump.todo, call |-> pump.call, task |-> pump.task,
                      run |-> pump.run]
          BY <1>2, PumpFields
        <4>5. pump' = [on |-> pump.on, stale |-> pump.stale, room |-> pump.room,
                       todo |-> todo, call |-> "none", task |-> None, run |-> pump.run]
          BY <4>3, <4>4
        <4>6. /\ pump'.run = pump.run /\ pump'.room = pump.room /\ pump'.call = "none"
              /\ pump'.todo = todo
          BY <4>5
        <4>. QED
          BY <4>1, <4>2, <4>6
      <3>. QED
        BY <1>6, <3>1, <3>2
    <2>3. Approves'
      BY <2>2 DEF Approves
    <2>4. LimitInv' /\ ConsentInv'
      BY <1>1, <1>6, <2>1, <2>2, <2>3, PumpMoves
    <2>5. Unforced
      BY <2>1 DEF Unforced, Allowed, Spares
    <2>. QED
      BY <2>4, <2>5
  <1>7. \/ pump.call = "run" /\ PumpRuns(Now, t, rev)
        \/ /\ pump.call = "approve" /\ session' = session
           /\ IF MayApprove(Now, t, rev)
              THEN Becomes(Approved(Now, t, "auto")) ELSE Becomes(Now)
           /\ \/ pump' = [pump EXCEPT !.call = "none", !.task = None,
                                      !.todo[t].status = "approved"]
              \/ pump' = Tried(t)
    BY DEF PumpResumes
  <1>. HIDE DEF rev
  <1>. QED
    BY <1>5, <1>6, <1>7

-----------------------------------------------------------------------------
(* The limit and the consent, of every behaviour *)

\* At the start there is no run, and nothing to approve.
LEMMA InitSound ==
  ASSUME Init
  PROVE  LimitInv /\ ConsentInv
  <1>1. /\ rows = <<>> /\ past.filed = {} /\ pump = IdlePump
        /\ DOMAIN rows = {}
    BY DEF Init
  <1>2. Live(Now, session) = {}
    BY <1>1, NowFacts DEF Live
  <1>3. Cardinality({}) = 0 /\ {} \ {pump.run} = {}
    BY FS_EmptySet
  <1>4. RoomHolds
    BY <1>1, <1>2, <1>3, IdlePumpFacts, BoundsAssumption DEF RoomHolds
  <1>5. Lone(Now, session) /\ Starts
    BY <1>1, NowFacts DEF Lone, LastOpen, FirstGoing, EntryNamed, Starts
  <1>6. Agreed(Now, pump.todo) /\ Approves
    BY <1>1, IdlePumpFacts DEF Agreed, Approves
  <1>7. ConsentHeld
    BY <1>1, NowFacts DEF ConsentHeld, Consents
  <1>. QED
    BY <1>4, <1>5, <1>6, <1>7 DEF LimitInv, ConsentInv

\* Every step keeps the limit, and asks for consent.
LEMMA NextSound ==
  ASSUME IInv, IInv', LimitInv, ConsentInv, [Next]_vars
  PROVE  LimitInv' /\ ConsentInv' /\ [Unforced]_vars
  <1>1. CASE UNCHANGED vars
    <2>1. /\ Now' = Now /\ session' = session /\ pump' = pump /\ hub' = hub
          /\ late' = late /\ rows' = rows
      BY <1>1 DEF vars, Now
    <2>2. LimitInv'
      BY <2>1 DEF LimitInv, Starts, RoomHolds
    <2>3. ConsentInv'
      BY <2>1 DEF ConsentInv, ConsentHeld, Consents, Agreed, Approves
    <2>. QED
      BY <1>1, <2>2, <2>3
  <1>2. CASE Command
    BY <1>2, CommandSound
  <1>3. CASE \E t \in Tasks : Cancel(t)
    BY <1>3, CancelSound
  <1>4. CASE SetPolicy
    BY <1>4, SetPolicySound
  <1>5. CASE Reconcile
    BY <1>5, ReconcileSound
  <1>6. CASE Resume
    BY <1>6, ResumeSound
  <1>7. CASE Maintain
    BY <1>7, MaintainSound
  <1>8. CASE StartAnswers
    <2>1. PICK r \in DOMAIN rows : StartReturns(r) \/ StartFails(r)
      BY <1>8 DEF StartAnswers
    <2>. QED
      BY <2>1, StartReturnsSound, StartFailsSound
  <1>9. CASE AgentEnds
    <2>1. PICK r \in DOMAIN rows, result \in {"completed", "cancelled", "failed"} :
            RunEnds(r, result)
      BY <1>9 DEF AgentEnds
    <2>. QED
      BY <2>1, RunEndsSound
  <1>10. CASE PumpStep
    BY <1>10, PumpScopeSound, PumpEndSound, PumpTriesSound, PumpWaitsSound, PumpResumesSound
       DEF PumpStep
  <1>11. CASE Outage
    BY <1>11, StopSound, CrashSound, CrashMidwaySound, CrashInClaimSound DEF Outage
  <1>12. CASE Stopped
    BY <1>12, StoppedSound
  <1>13. CASE Restart
    BY <1>13, RestartSound
  <1>14. CASE World
    <2>1. PICK t \in Tasks : EditFile(t) \/ DeleteFile(t) \/ PutBack(t) \/ Lapse(t)
      BY <1>14 DEF World
    <2>2. CASE Lapse(t)
      BY <2>2, LapseSound
    <2>3. CASE Touch(t, "edited")
      BY <2>3, TouchSound
    <2>4. CASE Touch(t, "none")
      BY <2>4, TouchSound
    <2>5. CASE Touch(t, "same")
      BY <2>5, TouchSound
    <2>. QED
      BY <2>1, <2>2, <2>3, <2>4, <2>5 DEF EditFile, DeleteFile, PutBack
  <1>. QED
    BY <1>1, <1>2, <1>3, <1>4, <1>5, <1>6, <1>7, <1>8, <1>9, <1>10, <1>11, <1>12, <1>13,
       <1>14 DEF Next

\* The pump keeps maxConcurrentRuns for what it starts, though it reads the
\* size of activeRuns long before it starts the last candidate: the room it
\* read is never more than what the runs that count leave.
THEOREM LimitHolds == Spec => []LimitKept
  <1>1. Init => LimitInv /\ ConsentInv
    BY InitSound
  <1>2. LimitInv /\ ConsentInv /\ IInv /\ IInv' /\ [Next]_vars => LimitInv' /\ ConsentInv'
    BY NextSound
  <1>3. IInv /\ LimitInv => LimitKept
    <2>. SUFFICES ASSUME IInv, LimitInv
                  PROVE  LimitKept
      OBVIOUS
    <2>. DEFINE L == Live(Now, session)
                K == {r \in DOMAIN rows :
                        /\ rows[r].auto /\ session[r] = "working"
                        /\ r \notin told \cup past.overlapping
                        /\ rows[r].task \notin past.overtaken}
    <2>1. IsFiniteSet(L) /\ Cardinality(L) <= MaxConcurrent
      BY RowsBounded, LiveFinite DEF IInv, LimitInv, RoomHolds
    <2>2. K \subseteq L
      BY NowFacts DEF Live, Going, Sure
    <2>. HIDE DEF L, K
    <2>3. /\ Cardinality(K) \in Nat /\ Cardinality(L) \in Nat
          /\ Cardinality(K) <= Cardinality(L)
      BY <2>1, <2>2, SmallerSet
    <2>4. Cardinality(K) <= MaxConcurrent
      BY <2>1, <2>3, BoundsAssumption
    <2>. QED
      BY <2>4 DEF LimitKept, K
  <1>. QED
    BY <1>1, <1>2, <1>3, InvariantHolds, PTL DEF Spec

\* Automation never approves what a raw file change wrote, also when the
\* file changes between the listing of a candidate and its approval.
THEOREM ConsentHolds == Spec => AutomationNeedsConsent
  <1>1. Init => LimitInv /\ ConsentInv
    BY InitSound
  <1>2. LimitInv /\ ConsentInv /\ IInv /\ IInv' /\ [Next]_vars =>
          LimitInv' /\ ConsentInv' /\ [Unforced]_vars
    BY NextSound
  <1>3. IInv' /\ [Unforced]_vars =>
          [\A t \in past'.filed :
             task'[t].ok # 0 /\ task'[t].ok # task[t].ok => task'[t].by # "auto"]_vars
    <2>. SUFFICES ASSUME IInv', Unforced, NEW t \in past'.filed,
                         task'[t].ok # 0, task'[t].ok # task[t].ok
                  PROVE  task'[t].by # "auto"
      OBVIOUS
    <2>1. Now' \in Store /\ Now'.past = past' /\ Now'.task = task' /\ Now.task = task
      BY DEF IInv, Good, Now
    <2>2. t \in Tasks
      BY <2>1, PastTypes
    <2>. QED
      BY <2>1, <2>2 DEF Unforced, Allowed
  <1>. QED
    BY <1>1, <1>2, <1>3, InvariantHolds, PTL DEF Spec, AutomationNeedsConsent
================================================================================
