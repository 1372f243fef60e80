-------------------------- MODULE CronEventsProofs --------------------------
(***************************************************************************)
(* Proofs about CronEvents for any number of processes, specs and events,  *)
(* any windows and any clock.  The invariant speaks of the tables as they  *)
(* would be if the open transaction ended now: the row of its event then   *)
(* tells which specs have been dealt with.                                 *)
(***************************************************************************)
EXTENDS CronEvents, FiniteSetTheorems, TLAPS

-----------------------------------------------------------------------------
(* Tables *)

\* What the type of the tables says of a row.
LEMMA TableTypes ==
  ASSUME NEW t \in Tables
  PROVE  /\ t.log \in Seq(LogRow) /\ t.runs \in Seq(RunRow)
         /\ Len(t.log) \in Nat /\ DOMAIN t.log = 1..Len(t.log)
         /\ Len(t.runs) \in Nat /\ DOMAIN t.runs = 1..Len(t.runs)
         /\ t = [log |-> t.log, runs |-> t.runs]
  BY DEF Tables

\* Of a row of the log.
LEMMA LogTypes ==
  ASSUME NEW t \in Tables, NEW k \in DOMAIN t.log
  PROVE  /\ t.log[k] \in LogRow
         /\ t.log[k].event \in Events /\ t.log[k].received \in Nat
         /\ t.log[k].status \in Statuses
         /\ t.log[k].matched \subseteq Specs /\ t.log[k].queued \subseteq Specs
  <1>1. t.log \in Seq(LogRow)
    BY TableTypes
  <1>2. t.log[k] \in LogRow
    BY <1>1
  <1>. QED
    BY <1>2 DEF LogRow

\* Of a run.
LEMMA RunTypes ==
  ASSUME NEW t \in Tables, NEW i \in DOMAIN t.runs
  PROVE  /\ t.runs[i] \in RunRow
         /\ t.runs[i].spec \in Specs /\ t.runs[i].event \in Nat
         /\ t.runs[i].born \in Nat /\ t.runs[i].status \in RunStatuses
         /\ t.runs[i].scheduledFor \in Nat
  <1>1. t.runs \in Seq(RunRow)
    BY TableTypes
  <1>2. t.runs[i] \in RunRow
    BY <1>1
  <1>. QED
    BY <1>2 DEF RunRow

\* The windows are natural numbers.
LEMMA WindowTypes ==
  ASSUME NEW s \in Specs
  PROVE  Debounce[s] \in Nat /\ DedupeWindow[s] \in Nat /\ Cooldown[s] \in Nat
  BY WindowsAssumption

-----------------------------------------------------------------------------
(* The inductive invariant *)

\* Runs point into the log, at an event that matched their spec.
Refs(t) ==
  /\ \A k \in DOMAIN t.log :
       t.log[k].status # "received" /\ t.log[k].queued \subseteq t.log[k].matched
  /\ \A i \in DOMAIN t.runs :
       /\ t.runs[i].event \in DOMAIN t.log
       /\ 1 <= t.runs[i].born /\ t.runs[i].born <= t.runs[i].event
       /\ t.runs[i].spec \in t.log[t.runs[i].event].matched
       /\ Debounce[t.runs[i].spec] = 0 => t.runs[i].born = t.runs[i].event

\* No event is logged twice.
Distinct(t) ==
  \A k, m \in DOMAIN t.log : t.log[k].event = t.log[m].event => k = m

\* Two runs of a spec for one key.
Alike(t, i, j) ==
  /\ i # j /\ t.runs[i].spec = t.runs[j].spec
  /\ KeyAt(t.log, t.runs[i].event) = KeyAt(t.log, t.runs[j].event)

\* They answer different stretches of the log.
Disjoint(t) ==
  \A i, j \in DOMAIN t.runs :
    Alike(t, i, j) => \/ t.runs[i].event < t.runs[j].born
                      \/ t.runs[j].event < t.runs[i].born

Waiting(t, i) == t.runs[i].status = "queued" /\ Debounce[t.runs[i].spec] > 0

\* The one that still waits, if its spec is debounced, is the newest.
WaitingLast(t) ==
  \A i, j \in DOMAIN t.runs :
    Waiting(t, i) /\ Alike(t, i, j) => t.runs[j].event < t.runs[i].born

\* It has been extended to the last event that matched its spec.
Extended(t) ==
  \A i \in DOMAIN t.runs, k \in DOMAIN t.log :
    /\ Waiting(t, i) /\ t.runs[i].event < k
    /\ KeyAt(t.log, k) = KeyAt(t.log, t.runs[i].event)
    => t.runs[i].spec \notin t.log[k].matched

Quiet(t) ==
  \A i \in DOMAIN t.runs, k \in DOMAIN t.log :
    Answers(t, i, k) =>
      t.runs[i].scheduledFor >= t.log[k].received + Debounce[t.runs[i].spec]

\* Run i answers event k for spec s, or an earlier one in whose window k is.
Covers(t, i, k, s) ==
  /\ t.runs[i].spec = s
  /\ \/ s \in t.log[k].queued /\ Answers(t, i, k)
     \/ /\ s \notin t.log[k].queued
        /\ \E m \in 1..(k - 1) :
             /\ Answers(t, i, m)
             /\ \/ /\ KeyAt(t.log, m) = KeyAt(t.log, k)
                   /\ t.log[m].received >= t.log[k].received - DedupeWindow[s]
                \/ t.log[m].received >= t.log[k].received - Cooldown[s]

Covered(t) ==
  \A k \in DOMAIN t.log : \A s \in t.log[k].matched :
    \E i \in DOMAIN t.runs : Covers(t, i, k, s)

Apart(t) ==
  \A i, j \in DOMAIN t.runs :
    LET s == t.runs[i].spec
        apart == t.log[t.runs[j].event].received
                   - t.log[t.runs[i].event].received
    IN i < j /\ t.runs[j].spec = s /\ Debounce[s] = 0 =>
         /\ Cooldown[s] > 0 => apart > Cooldown[s]
         /\ DedupeWindow[s] > 0
            /\ KeyAt(t.log, t.runs[i].event) = KeyAt(t.log, t.runs[j].event)
            => apart > DedupeWindow[s]

Sound(t) ==
  /\ t \in Tables
  /\ Refs(t) /\ Distinct(t) /\ Disjoint(t) /\ WaitingLast(t)
  /\ Extended(t) /\ Quiet(t) /\ Covered(t) /\ Apart(t)

\* updateEventLogProcessing, of what has been done so far.
Processed(t, m, q) ==
  [t EXCEPT
     !.log[Len(t.log)] =
       [@ EXCEPT !.status = CASE m = {} -> "unmatched"
                              [] q # {} -> "queued"
                              [] OTHER -> "suppressed",
                 !.matched = m, !.queued = q]]

LogHolds ==
  /\ Sound(db)
  /\ writer = NoProc => view = db /\ todo = {} /\ matched = {} /\ queued = {}
  /\ writer # NoProc =>
       /\ Len(view.log) > 0
       /\ Sound(Processed(view, matched, queued))
       /\ queued \subseteq matched /\ todo \cap matched = {}

IInv == TypeOK /\ LogHolds

\* The parts of the state that the properties are about.
LEMMA SoundIsProperties ==
  ASSUME Sound(db)
  PROVE  QuietPeriodKept /\ NoEventForgotten /\ RunsKeepDistance
  <1>1. QuietPeriodKept
    BY DEF Sound, Quiet, QuietPeriodKept
  <1>2. NoEventForgotten
    BY DEF Sound, Refs, Covered, Covers, NoEventForgotten
  <1>3. RunsKeepDistance
    BY DEF Sound, Apart, RunsKeepDistance
  <1>. QED
    BY <1>1, <1>2, <1>3

\* One run of a spec answers an event.
LEMMA SoundRunsOnce ==
  ASSUME Sound(db)
  PROVE  EventRunsOnce
  <1>. SUFFICES ASSUME NEW e \in Events, NEW s \in Specs
                PROVE  Cardinality({i \in DOMAIN db.runs :
                          /\ db.runs[i].spec = s
                          /\ \E k \in DOMAIN db.log :
                               db.log[k].event = e /\ Answers(db, i, k)}) <= 1
    BY DEF EventRunsOnce
  <1>. DEFINE R == {i \in DOMAIN db.runs :
                      /\ db.runs[i].spec = s
                      /\ \E k \in DOMAIN db.log :
                           db.log[k].event = e /\ Answers(db, i, k)}
  <1>1. \A i, j \in R : i = j
    <2>. SUFFICES ASSUME NEW i \in R, NEW j \in R, i # j
                  PROVE  FALSE
      OBVIOUS
    <2>1. PICK k \in DOMAIN db.log : db.log[k].event = e /\ Answers(db, i, k)
      OBVIOUS
    <2>2. PICK m \in DOMAIN db.log : db.log[m].event = e /\ Answers(db, j, m)
      OBVIOUS
    <2>3. k = m
      BY <2>1, <2>2 DEF Sound, Distinct
    <2>4. Alike(db, i, j)
      BY <2>1, <2>2, <2>3 DEF Alike, Answers
    <2>5. \/ db.runs[i].event < db.runs[j].born
          \/ db.runs[j].event < db.runs[i].born
      BY <2>4 DEF Sound, Disjoint
    <2>6. k \in Int /\ db.runs[i].event \in Int /\ db.runs[j].event \in Int
          /\ db.runs[i].born \in Int /\ db.runs[j].born \in Int
      BY TableTypes, RunTypes DEF Sound
    <2>. QED
      BY <2>1, <2>2, <2>3, <2>5, <2>6 DEF Answers
  <1>. HIDE DEF R
  <1>2. R = {} => Cardinality(R) = 0
    BY FS_EmptySet
  <1>3. ASSUME NEW i \in R
        PROVE  Cardinality(R) = 1
    <2>1. R = {i}
      BY <1>1
    <2>. QED
      BY <2>1, FS_Singleton
  <1>4. Cardinality(R) <= 1
    BY <1>2, <1>3
  <1>. QED
    BY <1>4 DEF R

-----------------------------------------------------------------------------
(* What the changes of the tables preserve *)

\* Runs that are taken up or cancelled.
LEMMA StatusFalls ==
  ASSUME NEW t, NEW u, Sound(t), u \in Tables, u.log = t.log,
         DOMAIN u.runs = DOMAIN t.runs,
         \A i \in DOMAIN t.runs :
           /\ u.runs[i].spec = t.runs[i].spec /\ u.runs[i].born = t.runs[i].born
           /\ u.runs[i].event = t.runs[i].event
           /\ u.runs[i].scheduledFor = t.runs[i].scheduledFor
           /\ u.runs[i].status = "queued" => t.runs[i].status = "queued"
  PROVE  Sound(u)
  <1>1. Refs(u) /\ Distinct(u)
    BY DEF Sound, Refs, Distinct
  <1>2. \A i, j \in DOMAIN t.runs : Alike(u, i, j) <=> Alike(t, i, j)
    BY DEF Alike
  <1>3. \A i \in DOMAIN t.runs : Waiting(u, i) => Waiting(t, i)
    BY DEF Waiting
  <1>4. \A i \in DOMAIN t.runs : \A k : Answers(u, i, k) <=> Answers(t, i, k)
    BY DEF Answers
  <1>5. Disjoint(u) /\ WaitingLast(u)
    BY <1>2, <1>3 DEF Sound, Disjoint, WaitingLast
  <1>6. Extended(u)
    BY <1>3 DEF Sound, Extended
  <1>7. Quiet(u)
    BY <1>4 DEF Sound, Quiet
  <1>8. \A i \in DOMAIN t.runs : \A k, s : Covers(t, i, k, s) => Covers(u, i, k, s)
    BY <1>4 DEF Covers
  <1>9. Covered(u)
    BY <1>8 DEF Sound, Covered
  <1>10. Apart(u)
    BY DEF Sound, Apart
  <1>. QED
    BY <1>1, <1>5, <1>6, <1>7, <1>9, <1>10 DEF Sound

\* A new event, of which nothing is processed yet.
LEMMA LogGrows ==
  ASSUME NEW t, NEW u, Sound(t), u \in Tables, u.runs = t.runs,
         Len(u.log) = Len(t.log) + 1,
         \A k \in DOMAIN t.log : u.log[k] = t.log[k],
         u.log[Len(u.log)].matched = {}, u.log[Len(u.log)].queued = {},
         u.log[Len(u.log)].status # "received",
         \A k \in DOMAIN t.log : t.log[k].event # u.log[Len(u.log)].event
  PROVE  Sound(u)
  <1>. DEFINE n == Len(u.log)
  <1>1. /\ DOMAIN t.log = 1..(n - 1) /\ DOMAIN u.log = 1..n /\ n \in Nat \ {0}
        /\ DOMAIN u.log = DOMAIN t.log \cup {n} /\ n \notin DOMAIN t.log
        /\ DOMAIN t.log \subseteq Nat
    BY TableTypes DEF Sound
  <1>. HIDE DEF n
  <1>0. /\ u.log[n].matched = {} /\ u.log[n].queued = {}
        /\ u.log[n].status # "received"
        /\ \A k \in DOMAIN t.log : t.log[k].event # u.log[n].event
    BY DEF n
  <1>2. Refs(u)
    BY <1>0, <1>1 DEF Sound, Refs
  <1>3. Distinct(u)
    BY <1>0, <1>1 DEF Sound, Distinct
  <1>4. \A i \in DOMAIN t.runs : t.runs[i].event \in DOMAIN t.log
    BY DEF Sound, Refs
  <1>5. \A k \in DOMAIN t.log : KeyAt(u.log, k) = KeyAt(t.log, k)
    BY DEF KeyAt
  <1>6. \A i, j \in DOMAIN t.runs : Alike(u, i, j) <=> Alike(t, i, j)
    BY <1>4, <1>5 DEF Alike
  <1>7. \A i \in DOMAIN t.runs : Waiting(u, i) <=> Waiting(t, i)
    BY DEF Waiting
  <1>8. Disjoint(u) /\ WaitingLast(u)
    BY <1>6, <1>7 DEF Sound, Disjoint, WaitingLast
  <1>9. Extended(u)
    BY <1>0, <1>1, <1>4, <1>5, <1>7 DEF Sound, Extended
  <1>10. \A i \in DOMAIN t.runs : \A k \in DOMAIN t.log :
            Answers(u, i, k) <=> Answers(t, i, k)
    BY <1>4, <1>5 DEF Answers
  <1>11. \A i \in DOMAIN t.runs : ~ Answers(u, i, n)
    BY <1>0 DEF Answers
  <1>12. Quiet(u)
    BY <1>1, <1>10, <1>11 DEF Sound, Quiet
  <1>13. ASSUME NEW k \in DOMAIN t.log, NEW s \in t.log[k].matched
         PROVE  \E i \in DOMAIN u.runs : Covers(u, i, k, s)
    <2>1. PICK i \in DOMAIN t.runs : Covers(t, i, k, s)
      BY DEF Sound, Covered
    <2>2. 1..(k - 1) \subseteq DOMAIN t.log
      BY <1>1
    <2>3. Covers(u, i, k, s)
      BY <1>5, <1>10, <2>1, <2>2 DEF Covers
    <2>. QED
      BY <2>3
  <1>14. Covered(u)
    BY <1>0, <1>1, <1>13 DEF Covered
  <1>15. Apart(u)
    <2>. SUFFICES ASSUME NEW i \in DOMAIN t.runs, NEW j \in DOMAIN t.runs
         PROVE  LET s == u.runs[i].spec
                    apart == u.log[u.runs[j].event].received
                               - u.log[u.runs[i].event].received
                IN i < j /\ u.runs[j].spec = s /\ Debounce[s] = 0 =>
                     /\ Cooldown[s] > 0 => apart > Cooldown[s]
                     /\ DedupeWindow[s] > 0
                        /\ KeyAt(u.log, u.runs[i].event)
                             = KeyAt(u.log, u.runs[j].event)
                        => apart > DedupeWindow[s]
      BY DEF Apart
    <2>1. /\ u.log[u.runs[i].event] = t.log[t.runs[i].event]
          /\ u.log[u.runs[j].event] = t.log[t.runs[j].event]
          /\ KeyAt(u.log, u.runs[i].event) = KeyAt(t.log, t.runs[i].event)
          /\ KeyAt(u.log, u.runs[j].event) = KeyAt(t.log, t.runs[j].event)
      BY <1>4, <1>5
    <2>. QED
      BY <2>1 DEF Sound, Apart
  <1>. QED
    BY <1>2, <1>3, <1>8, <1>9, <1>12, <1>14, <1>15 DEF Sound

\* The last event has been dealt with for spec s; q tells whether by a run.
Marked(t, u, s, q) ==
  /\ u \in Tables
  /\ Len(u.log) = Len(t.log) /\ Len(t.log) > 0
  /\ \A k \in DOMAIN t.log :
       /\ u.log[k].event = t.log[k].event
       /\ u.log[k].received = t.log[k].received
       /\ u.log[k].status # "received"
       /\ k # Len(t.log) => /\ u.log[k].matched = t.log[k].matched
                            /\ u.log[k].queued = t.log[k].queued
  /\ u.log[Len(t.log)].matched = t.log[Len(t.log)].matched \cup {s}
  /\ u.log[Len(t.log)].queued = t.log[Len(t.log)].queued \cup q

\* What a mark leaves alone, in terms of the last position n.
LEMMA MarkedFacts ==
  ASSUME NEW t, NEW u, NEW s, NEW q \in SUBSET {s}, Sound(t), Marked(t, u, s, q),
         s \notin t.log[Len(t.log)].matched,
         NEW n, n = Len(t.log)
  PROVE  /\ n \in DOMAIN t.log /\ DOMAIN u.log = DOMAIN t.log
         /\ DOMAIN t.log = 1..n /\ n \in Nat
         /\ DOMAIN t.runs \subseteq Nat
         /\ \A k \in DOMAIN t.log : KeyAt(u.log, k) = KeyAt(t.log, k)
         /\ \A k \in DOMAIN t.log : \A r :
              r \in u.log[k].matched <=>
                r \in t.log[k].matched \/ (k = n /\ r = s)
         /\ \A k \in DOMAIN t.log, r \in Specs :
              r # s \/ k # n => (r \in u.log[k].queued <=> r \in t.log[k].queued)
         /\ s \notin t.log[n].queued
         /\ \A i \in DOMAIN t.runs :
              /\ t.runs[i].event \in DOMAIN t.log
              /\ t.runs[i].event = n => t.runs[i].spec # s
         /\ \A k \in DOMAIN u.log : u.log[k].queued \subseteq u.log[k].matched
         /\ Distinct(u)
  <1>1. DOMAIN t.log = 1..n /\ n \in Nat /\ DOMAIN u.log = 1..n /\ n > 0
        /\ DOMAIN t.runs \subseteq Nat
    BY TableTypes DEF Sound, Marked
  <1>2. n \in DOMAIN t.log /\ DOMAIN u.log = DOMAIN t.log
    BY <1>1
  <1>3. \A k \in DOMAIN t.log : KeyAt(u.log, k) = KeyAt(t.log, k)
    BY DEF Marked, KeyAt
  <1>4. \A k \in DOMAIN t.log : \A r :
          r \in u.log[k].matched <=> r \in t.log[k].matched \/ (k = n /\ r = s)
    BY DEF Marked
  <1>5. \A k \in DOMAIN t.log : \A r :
          r \in u.log[k].queued <=> r \in t.log[k].queued \/ (k = n /\ r \in q)
    BY DEF Marked
  <1>6. \A k \in DOMAIN t.log : t.log[k].queued \subseteq t.log[k].matched
    BY DEF Sound, Refs
  <1>7. \A i \in DOMAIN t.runs :
          /\ t.runs[i].event \in DOMAIN t.log
          /\ t.runs[i].event = n => t.runs[i].spec # s
    BY DEF Sound, Refs
  <1>8. Distinct(u)
    BY <1>2 DEF Sound, Distinct, Marked
  <1>9. \A k \in DOMAIN t.log, r \in Specs :
          r # s \/ k # n => (r \in u.log[k].queued <=> r \in t.log[k].queued)
    BY <1>5
  <1>10. s \notin t.log[n].queued
    BY <1>2, <1>6
  <1>11. \A k \in DOMAIN u.log : u.log[k].queued \subseteq u.log[k].matched
    BY <1>2, <1>4, <1>5, <1>6
  <1>. QED
    BY <1>1, <1>2, <1>3, <1>4, <1>7, <1>8, <1>9, <1>10, <1>11

\* An event covered for a spec stays covered, as long as runs answer no less.
LEMMA StaysCovered ==
  ASSUME NEW t, NEW u, NEW s \in Specs, NEW q \in SUBSET {s}, Sound(t), Marked(t, u, s, q),
         s \notin t.log[Len(t.log)].matched,
         DOMAIN t.runs \subseteq DOMAIN u.runs,
         \A i \in DOMAIN t.runs : u.runs[i].spec = t.runs[i].spec,
         \A i \in DOMAIN t.runs : \A k \in DOMAIN t.log :
           Answers(t, i, k) => Answers(u, i, k),
         \E i \in DOMAIN u.runs : Covers(u, i, Len(t.log), s)
  PROVE  Covered(u)
  <1>. DEFINE n == Len(t.log)
  <1>0. n = Len(t.log)
    OBVIOUS
  <1>. HIDE DEF n
  <1>1. SUFFICES ASSUME NEW k \in DOMAIN u.log, NEW r \in u.log[k].matched
                 PROVE  \E i \in DOMAIN u.runs : Covers(u, i, k, r)
    BY DEF Covered
  <1>2. k \in DOMAIN t.log /\ DOMAIN t.log = 1..n /\ n \in Nat
    BY <1>0, MarkedFacts
  <1>3. r \in Specs
    BY LogTypes DEF Marked
  <1>4. CASE k = n /\ r = s
    BY <1>0, <1>4
  <1>5. CASE ~ (k = n /\ r = s)
    <2>1. r \in t.log[k].matched
      BY <1>0, <1>2, <1>5, MarkedFacts
    <2>2. PICK i \in DOMAIN t.runs : Covers(t, i, k, r)
      BY <1>2, <2>1 DEF Sound, Covered
    <2>3. r \in u.log[k].queued <=> r \in t.log[k].queued
      BY <1>0, <1>2, <1>3, <1>5, MarkedFacts
    <2>4. 1..(k - 1) \subseteq DOMAIN t.log
      BY <1>2
    <2>5. \A m \in DOMAIN t.log : /\ KeyAt(u.log, m) = KeyAt(t.log, m)
                                  /\ u.log[m].received = t.log[m].received
      <3>1. \A m \in DOMAIN t.log : KeyAt(u.log, m) = KeyAt(t.log, m)
        BY <1>0, MarkedFacts
      <3>. QED
        BY <3>1 DEF Marked
    <2>6. Covers(u, i, k, r)
      BY <1>2, <2>2, <2>3, <2>4, <2>5 DEF Covers
    <2>. QED
      BY <2>6
  <1>. QED
    BY <1>4, <1>5

\* Distances of runs for events that have not changed.
LEMMA StaysApart ==
  ASSUME NEW t, NEW u, NEW i, NEW j, Sound(t),
         i \in DOMAIN t.runs, j \in DOMAIN t.runs,
         u.runs[i].spec = t.runs[i].spec, u.runs[j].spec = t.runs[j].spec,
         u.runs[i].event = t.runs[i].event, u.runs[j].event = t.runs[j].event,
         \A k \in DOMAIN t.log : /\ u.log[k].received = t.log[k].received
                                 /\ KeyAt(u.log, k) = KeyAt(t.log, k)
  PROVE  LET s == u.runs[i].spec
             apart == u.log[u.runs[j].event].received
                        - u.log[u.runs[i].event].received
         IN i < j /\ u.runs[j].spec = s /\ Debounce[s] = 0 =>
              /\ Cooldown[s] > 0 => apart > Cooldown[s]
              /\ DedupeWindow[s] > 0
                 /\ KeyAt(u.log, u.runs[i].event) = KeyAt(u.log, u.runs[j].event)
                 => apart > DedupeWindow[s]
  <1>1. /\ u.log[u.runs[i].event].received = t.log[t.runs[i].event].received
        /\ u.log[u.runs[j].event].received = t.log[t.runs[j].event].received
        /\ KeyAt(u.log, u.runs[i].event) = KeyAt(t.log, t.runs[i].event)
        /\ KeyAt(u.log, u.runs[j].event) = KeyAt(t.log, t.runs[j].event)
    BY DEF Sound, Refs
  <1>. QED
    BY <1>1 DEF Sound, Apart

\* A window suppresses the event.
LEMMA RunSuppressed ==
  ASSUME NEW t, NEW u, NEW s \in Specs, NEW n, n = Len(t.log),
         Sound(t), Marked(t, u, s, {}),
         s \notin t.log[n].matched,
         u.runs = t.runs,
         Suppressed(t, s, KeyAt(t.log, n), t.log[n].received),
         Debounce[s] > 0 => QueuedFor(t, s, KeyAt(t.log, n)) = {}
  PROVE  Sound(u)
  <1>. DEFINE q == {}
  <1>0. q \in SUBSET {s} /\ Marked(t, u, s, q) /\ q = {}
    OBVIOUS
  <1>. HIDE DEF q
  <1>1. /\ n \in DOMAIN t.log /\ DOMAIN u.log = DOMAIN t.log
        /\ DOMAIN t.log = 1..n /\ n \in Nat
        /\ \A i \in DOMAIN t.runs :
             /\ t.runs[i].event \in DOMAIN t.log
             /\ t.runs[i].event = n => t.runs[i].spec # s
    BY <1>0, MarkedFacts
  <1>2. \A k \in DOMAIN t.log : KeyAt(u.log, k) = KeyAt(t.log, k)
    BY <1>0, MarkedFacts
  <1>3. \A k \in DOMAIN t.log : \A r :
          r \in u.log[k].matched <=> r \in t.log[k].matched \/ (k = n /\ r = s)
    BY <1>0, MarkedFacts
  <1>4. \A k \in DOMAIN u.log : u.log[k].queued \subseteq u.log[k].matched
    BY <1>0, MarkedFacts
  <1>5. Distinct(u)
    BY <1>0, MarkedFacts
  <1>6. Refs(u)
    BY <1>1, <1>3, <1>4 DEF Sound, Refs, Marked
  <1>7. \A i, j \in DOMAIN t.runs : Alike(u, i, j) <=> Alike(t, i, j)
    BY <1>1, <1>2 DEF Alike
  <1>8. \A i \in DOMAIN t.runs : Waiting(u, i) <=> Waiting(t, i)
    BY DEF Waiting
  <1>9. Disjoint(u) /\ WaitingLast(u)
    BY <1>7, <1>8 DEF Sound, Disjoint, WaitingLast
  <1>10. Extended(u)
    BY <1>1, <1>2, <1>3, <1>8 DEF Sound, Extended, Waiting, QueuedFor
  <1>11. \A i \in DOMAIN t.runs : \A k \in DOMAIN t.log :
            Answers(u, i, k) <=> Answers(t, i, k)
    BY <1>1, <1>2, <1>3 DEF Answers
  <1>12. Quiet(u)
    BY <1>1, <1>11 DEF Sound, Quiet, Marked
  <1>13. \E i \in DOMAIN u.runs : Covers(u, i, n, s)
    <2>1. s \notin u.log[n].queued
      <3>1. s \notin t.log[n].queued
        BY <1>0, MarkedFacts
      <3>. QED
        BY <3>1 DEF Marked
    <2>2. PICK i \in DOMAIN t.runs :
            /\ t.runs[i].spec = s
            /\ \/ /\ KeyAt(t.log, t.runs[i].event) = KeyAt(t.log, n)
                  /\ t.log[t.runs[i].event].received
                       >= t.log[n].received - DedupeWindow[s]
               \/ t.log[t.runs[i].event].received >= t.log[n].received - Cooldown[s]
      BY DEF Suppressed, RecentRuns
    <2>3. t.runs[i].event \in 1..(n - 1)
      BY <1>1, <2>2
    <2>4. Answers(t, i, t.runs[i].event)
      <3>1. t.runs[i].event \in Nat
        BY <2>3
      <3>. QED
        BY <3>1 DEF Sound, Refs, Answers
    <2>5. Answers(u, i, t.runs[i].event)
      BY <1>1, <1>11, <2>4
    <2>6. /\ KeyAt(u.log, t.runs[i].event) = KeyAt(t.log, t.runs[i].event)
          /\ KeyAt(u.log, n) = KeyAt(t.log, n)
          /\ u.log[t.runs[i].event].received = t.log[t.runs[i].event].received
          /\ u.log[n].received = t.log[n].received
      BY <1>1, <1>2 DEF Marked
    <2>7. Covers(u, i, n, s)
      BY <2>1, <2>2, <2>3, <2>5, <2>6 DEF Covers
    <2>. QED
      BY <2>7
  <1>14. Covered(u)
    BY <1>0, <1>11, <1>13, StaysCovered
  <1>15. Apart(u)
    BY <1>2, StaysApart DEF Apart, Marked
  <1>. QED
    BY <1>5, <1>6, <1>9, <1>10, <1>12, <1>14, <1>15 DEF Sound, Marked

\* The queued run of a debounced spec is extended to the event.
LEMMA RunExtended ==
  ASSUME NEW t, NEW u, NEW s \in Specs, NEW n, n = Len(t.log),
         Sound(t), Marked(t, u, s, {s}),
         s \notin t.log[n].matched, Debounce[s] > 0,
         NEW i \in QueuedFor(t, s, KeyAt(t.log, n)),
         DOMAIN u.runs = DOMAIN t.runs,
         \A j \in DOMAIN t.runs : j # i => u.runs[j] = t.runs[j],
         u.runs[i].spec = s, u.runs[i].status = "queued",
         u.runs[i].born = t.runs[i].born, u.runs[i].event = n,
         u.runs[i].scheduledFor >= t.runs[i].scheduledFor,
         u.runs[i].scheduledFor >= t.log[n].received + Debounce[s]
  PROVE  Sound(u)
  <1>. DEFINE q == {s}
  <1>0. q \in SUBSET {s} /\ Marked(t, u, s, q) /\ q = {s}
    OBVIOUS
  <1>. HIDE DEF q
  <1>1. /\ n \in DOMAIN t.log /\ DOMAIN u.log = DOMAIN t.log
        /\ DOMAIN t.log = 1..n /\ n \in Nat
        /\ \A j \in DOMAIN t.runs :
             /\ t.runs[j].event \in DOMAIN t.log
             /\ t.runs[j].event = n => t.runs[j].spec # s
    BY <1>0, MarkedFacts
  <1>2. \A k \in DOMAIN t.log : KeyAt(u.log, k) = KeyAt(t.log, k)
    BY <1>0, MarkedFacts
  <1>3. \A k \in DOMAIN t.log : \A r :
          r \in u.log[k].matched <=> r \in t.log[k].matched \/ (k = n /\ r = s)
    BY <1>0, MarkedFacts
  <1>4. \A k \in DOMAIN u.log : u.log[k].queued \subseteq u.log[k].matched
    BY <1>0, MarkedFacts
  <1>5. Distinct(u)
    BY <1>0, MarkedFacts
  <1>6. /\ i \in DOMAIN t.runs /\ t.runs[i].spec = s /\ t.runs[i].status = "queued"
        /\ KeyAt(t.log, t.runs[i].event) = KeyAt(t.log, n)
        /\ Waiting(t, i)
    BY DEF QueuedFor, Waiting
  <1>7. /\ \A j \in DOMAIN t.runs :
             /\ t.runs[j].born \in Nat /\ t.runs[j].event \in Nat
             /\ t.runs[j].born <= t.runs[j].event
             /\ t.runs[j].scheduledFor \in Nat
        /\ u.runs[i].scheduledFor \in Nat
        /\ \A k \in DOMAIN t.log : t.log[k].received \in Nat
    BY <1>6, RunTypes, LogTypes DEF Sound, Refs, Marked
  <1>8. Refs(u)
    <2>1. \A k \in DOMAIN u.log : u.log[k].status # "received"
      BY <1>1 DEF Marked
    <2>2. \A j \in DOMAIN t.runs :
            /\ 1 <= t.runs[j].born
            /\ t.runs[j].spec \in t.log[t.runs[j].event].matched
            /\ Debounce[t.runs[j].spec] = 0 => t.runs[j].born = t.runs[j].event
      BY DEF Sound, Refs
    <2>3. /\ u.runs[i].event \in DOMAIN u.log
          /\ 1 <= u.runs[i].born /\ u.runs[i].born <= u.runs[i].event
          /\ u.runs[i].spec \in u.log[u.runs[i].event].matched
          /\ Debounce[u.runs[i].spec] # 0
      <3>1. t.runs[i].born <= t.runs[i].event /\ t.runs[i].event <= n
        BY <1>1, <1>6, <1>7
      <3>2. t.runs[i].born <= n
        BY <1>1, <1>6, <1>7, <3>1
      <3>3. s \in u.log[n].matched
        BY <1>1, <1>3
      <3>. QED
        BY <1>1, <1>6, <2>2, <3>2, <3>3
    <2>4. ASSUME NEW j \in DOMAIN t.runs, j # i
          PROVE  /\ u.runs[j].event \in DOMAIN u.log
                 /\ 1 <= u.runs[j].born /\ u.runs[j].born <= u.runs[j].event
                 /\ u.runs[j].spec \in u.log[u.runs[j].event].matched
                 /\ Debounce[u.runs[j].spec] = 0 => u.runs[j].born = u.runs[j].event
      BY <1>1, <1>3, <1>7, <2>2, <2>4
    <2>. QED
      BY <1>4, <2>1, <2>3, <2>4 DEF Refs
  <1>9. \A j \in DOMAIN t.runs :
          /\ u.runs[j].spec = t.runs[j].spec /\ u.runs[j].status = t.runs[j].status
          /\ u.runs[j].born = t.runs[j].born
          /\ KeyAt(u.log, u.runs[j].event) = KeyAt(t.log, t.runs[j].event)
    BY <1>1, <1>2, <1>6
  <1>10. \A a, b \in DOMAIN t.runs : Alike(u, a, b) <=> Alike(t, a, b)
    BY <1>9 DEF Alike
  <1>11. \A a \in DOMAIN t.runs : Waiting(u, a) <=> Waiting(t, a)
    BY <1>9 DEF Waiting
  <1>12. \A a \in DOMAIN t.runs : Alike(t, i, a) => t.runs[a].event < t.runs[i].born
    BY <1>6 DEF Sound, WaitingLast
  <1>13. \A a, b \in DOMAIN t.runs : Alike(t, a, b) => Alike(t, b, a) /\ a # b
    BY DEF Alike
  <1>14. Disjoint(u)
    <2>. SUFFICES ASSUME NEW a \in DOMAIN t.runs, NEW b \in DOMAIN t.runs,
                         Alike(t, a, b)
                  PROVE  \/ u.runs[a].event < u.runs[b].born
                         \/ u.runs[b].event < u.runs[a].born
      BY <1>10 DEF Disjoint
    <2>1. CASE a # i /\ b # i
      BY <2>1 DEF Sound, Disjoint
    <2>2. CASE a = i
      BY <1>9, <1>12, <1>13, <2>2
    <2>3. CASE b = i
      BY <1>9, <1>12, <1>13, <2>3
    <2>. QED
      BY <2>1, <2>2, <2>3
  <1>15. WaitingLast(u)
    <2>. SUFFICES ASSUME NEW a \in DOMAIN t.runs, NEW b \in DOMAIN t.runs,
                         Waiting(t, a), Alike(t, a, b)
                  PROVE  u.runs[b].event < u.runs[a].born
      BY <1>10, <1>11 DEF WaitingLast
    <2>1. t.runs[b].event < t.runs[a].born
      BY DEF Sound, WaitingLast
    <2>2. CASE b = i
      <3>1. t.runs[a].event < t.runs[i].born
        BY <1>12, <1>13, <2>2
      <3>. QED
        BY <1>6, <1>7, <2>1, <2>2, <3>1
    <2>3. CASE b # i
      BY <1>9, <2>1, <2>3
    <2>. QED
      BY <2>2, <2>3
  <1>16. Extended(u)
    <2>. SUFFICES ASSUME NEW a \in DOMAIN t.runs, NEW k \in DOMAIN t.log,
                         Waiting(t, a), u.runs[a].event < k,
                         KeyAt(u.log, k) = KeyAt(u.log, u.runs[a].event)
                  PROVE  u.runs[a].spec \notin u.log[k].matched
      BY <1>1, <1>11 DEF Extended
    <2>1. a # i
      BY <1>1
    <2>2. t.runs[a].spec \notin t.log[k].matched
      BY <1>2, <1>9, <2>1 DEF Sound, Extended
    <2>3. ~ (k = n /\ t.runs[a].spec = s)
      <3>. SUFFICES ASSUME k = n, t.runs[a].spec = s
                    PROVE  FALSE
        OBVIOUS
      <3>1. Alike(t, i, a)
        BY <1>2, <1>6, <1>9, <2>1 DEF Alike
      <3>2. t.runs[i].event < t.runs[a].born
        BY <1>6, <1>13, <3>1 DEF Sound, WaitingLast
      <3>. QED
        BY <1>6, <1>7, <1>12, <3>1, <3>2
    <2>. QED
      BY <1>3, <1>9, <2>2, <2>3
  <1>17. \A a \in DOMAIN t.runs : \A k \in DOMAIN t.log :
           Answers(t, a, k) => Answers(u, a, k)
    <2>. SUFFICES ASSUME NEW a \in DOMAIN t.runs, NEW k \in DOMAIN t.log,
                         Answers(t, a, k)
                  PROVE  Answers(u, a, k)
      OBVIOUS
    <2>1. k <= u.runs[a].event
      BY <1>1 DEF Answers
    <2>. QED
      BY <1>2, <1>3, <1>9, <2>1 DEF Answers
  <1>18. \A a \in DOMAIN t.runs : \A k \in DOMAIN t.log :
           Answers(u, a, k) => Answers(t, a, k) \/ (a = i /\ k = n)
    <2>. SUFFICES ASSUME NEW a \in DOMAIN t.runs, NEW k \in DOMAIN t.log,
                         Answers(u, a, k), ~ (a = i /\ k = n)
                  PROVE  Answers(t, a, k)
      OBVIOUS
    <2>1. /\ t.runs[a].born <= k /\ k <= u.runs[a].event
          /\ KeyAt(t.log, k) = KeyAt(t.log, t.runs[a].event)
          /\ t.runs[a].spec \in u.log[k].matched
      BY <1>2, <1>9 DEF Answers
    <2>2. t.runs[a].spec \in t.log[k].matched /\ k <= t.runs[a].event
      <3>1. CASE a = i
        <4>1. t.runs[a].spec \in t.log[k].matched
          BY <1>3, <2>1, <3>1
        <4>2. ~ (t.runs[a].event < k)
          BY <1>6, <2>1, <3>1, <4>1 DEF Sound, Extended
        <4>. QED
          BY <1>1, <1>7, <4>1, <4>2
      <3>2. CASE a # i
        BY <1>1, <1>3, <2>1, <3>2
      <3>. QED
        BY <3>1, <3>2
    <2>. QED
      BY <2>1, <2>2 DEF Answers
  <1>19. Quiet(u)
    <2>. SUFFICES ASSUME NEW a \in DOMAIN t.runs, NEW k \in DOMAIN t.log,
                         Answers(u, a, k)
                  PROVE  u.runs[a].scheduledFor
                           >= u.log[k].received + Debounce[u.runs[a].spec]
      BY <1>1 DEF Quiet
    <2>1. u.log[k].received = t.log[k].received
      BY DEF Marked
    <2>2. CASE a = i /\ k = n
      BY <2>1, <2>2
    <2>3. CASE Answers(t, a, k)
      <3>1. t.runs[a].scheduledFor >= t.log[k].received + Debounce[t.runs[a].spec]
        BY <2>3 DEF Sound, Quiet
      <3>2. u.runs[a].scheduledFor >= t.runs[a].scheduledFor
        BY <1>7
      <3>3. Debounce[t.runs[a].spec] \in Nat /\ u.runs[a].scheduledFor \in Nat
        BY <1>7, RunTypes, WindowTypes DEF Sound
      <3>4. t.runs[a].scheduledFor \in Nat /\ t.log[k].received \in Nat
        BY <1>7
      <3>5. u.runs[a].scheduledFor >= t.log[k].received + Debounce[t.runs[a].spec]
        BY <3>1, <3>2, <3>3, <3>4
      <3>. QED
        BY <1>9, <2>1, <3>5
    <2>. QED
      BY <1>18, <2>2, <2>3
  <1>20. Covered(u)
    <2>1. s \in u.log[n].queued
      BY DEF Marked
    <2>2. Answers(u, i, n)
      <3>1. t.runs[i].born <= n /\ s \in u.log[n].matched
        BY <1>1, <1>3, <1>6, <1>7
      <3>. QED
        BY <1>1, <3>1 DEF Answers
    <2>3. Covers(u, i, n, s)
      BY <2>1, <2>2 DEF Covers
    <2>4. \E a \in DOMAIN u.runs : Covers(u, a, n, s)
      BY <1>6, <2>3
    <2>. QED
      BY <1>0, <1>9, <1>17, <2>4, StaysCovered
  <1>21. Apart(u)
    <2>. SUFFICES ASSUME NEW a \in DOMAIN t.runs, NEW b \in DOMAIN t.runs
         PROVE  LET r == u.runs[a].spec
                    apart == u.log[u.runs[b].event].received
                               - u.log[u.runs[a].event].received
                IN a < b /\ u.runs[b].spec = r /\ Debounce[r] = 0 =>
                     /\ Cooldown[r] > 0 => apart > Cooldown[r]
                     /\ DedupeWindow[r] > 0
                        /\ KeyAt(u.log, u.runs[a].event)
                             = KeyAt(u.log, u.runs[b].event)
                        => apart > DedupeWindow[r]
      BY DEF Apart
    <2>1. CASE a = i \/ b = i
      BY <2>1
    <2>2. CASE a # i /\ b # i
      BY <1>2, <2>2, StaysApart DEF Marked
    <2>. QED
      BY <2>1, <2>2
  <1>. QED
    BY <1>5, <1>8, <1>14, <1>15, <1>16, <1>19, <1>20, <1>21 DEF Sound, Marked

\* The spec gets a new run.
LEMMA RunAdded ==
  ASSUME NEW t, NEW u, NEW s \in Specs, NEW n, n = Len(t.log),
         Sound(t), Marked(t, u, s, {s}),
         s \notin t.log[n].matched,
         u.runs = Append(t.runs, NewRun(s, n, t.log[n].received)),
         ~ Suppressed(t, s, KeyAt(t.log, n), t.log[n].received),
         Debounce[s] > 0 => QueuedFor(t, s, KeyAt(t.log, n)) = {}
  PROVE  Sound(u)
  <1>. DEFINE q == {s}
              r == Len(t.runs) + 1
  <1>0. q \in SUBSET {s} /\ Marked(t, u, s, q) /\ q = {s}
    OBVIOUS
  <1>1. /\ r \in Nat /\ DOMAIN t.runs \subseteq Nat
        /\ DOMAIN u.runs = DOMAIN t.runs \cup {r} /\ r \notin DOMAIN t.runs
        /\ \A j \in DOMAIN t.runs : u.runs[j] = t.runs[j] /\ j < r
        /\ u.runs[r] = NewRun(s, n, t.log[n].received)
    BY TableTypes DEF Sound
  <1>. HIDE DEF q, r
  <1>2. /\ n \in DOMAIN t.log /\ DOMAIN u.log = DOMAIN t.log
        /\ DOMAIN t.log = 1..n /\ n \in Nat
        /\ \A j \in DOMAIN t.runs :
             /\ t.runs[j].event \in DOMAIN t.log
             /\ t.runs[j].event = n => t.runs[j].spec # s
    BY <1>0, MarkedFacts
  <1>3. \A k \in DOMAIN t.log : KeyAt(u.log, k) = KeyAt(t.log, k)
    BY <1>0, MarkedFacts
  <1>4. \A k \in DOMAIN t.log : \A x :
          x \in u.log[k].matched <=> x \in t.log[k].matched \/ (k = n /\ x = s)
    BY <1>0, MarkedFacts
  <1>5. \A k \in DOMAIN u.log : u.log[k].queued \subseteq u.log[k].matched
    BY <1>0, MarkedFacts
  <1>6. Distinct(u)
    BY <1>0, MarkedFacts
  <1>7. /\ u.runs[r].spec = s /\ u.runs[r].event = n /\ u.runs[r].born = n
        /\ u.runs[r].status = "queued"
        /\ u.runs[r].scheduledFor = t.log[n].received + Debounce[s]
    BY <1>1 DEF NewRun
  <1>8. \A k \in DOMAIN t.log : u.log[k].received = t.log[k].received
    BY DEF Marked
  <1>9. Refs(u)
    <2>1. \A k \in DOMAIN u.log : u.log[k].status # "received"
      BY <1>2 DEF Marked
    <2>2. \A j \in DOMAIN t.runs :
            /\ 1 <= t.runs[j].born /\ t.runs[j].born <= t.runs[j].event
            /\ t.runs[j].spec \in t.log[t.runs[j].event].matched
            /\ Debounce[t.runs[j].spec] = 0 => t.runs[j].born = t.runs[j].event
      BY DEF Sound, Refs
    <2>3. s \in u.log[n].matched /\ 1 <= n
      BY <1>2, <1>4
    <2>4. ASSUME NEW j \in DOMAIN u.runs
          PROVE  /\ u.runs[j].event \in DOMAIN u.log
                 /\ 1 <= u.runs[j].born /\ u.runs[j].born <= u.runs[j].event
                 /\ u.runs[j].spec \in u.log[u.runs[j].event].matched
                 /\ Debounce[u.runs[j].spec] = 0 => u.runs[j].born = u.runs[j].event
      <3>1. CASE j = r
        BY <1>2, <1>7, <2>3, <3>1
      <3>2. CASE j # r
        BY <1>1, <1>2, <1>4, <2>2, <3>2
      <3>. QED
        BY <3>1, <3>2
    <2>. QED
      BY <1>5, <2>1, <2>4 DEF Refs
  <1>10. \A a, b \in DOMAIN t.runs : Alike(u, a, b) <=> Alike(t, a, b)
    BY <1>1, <1>2, <1>3 DEF Alike
  <1>11. \A a \in DOMAIN t.runs :
           /\ t.runs[a].spec = s => t.runs[a].event < n
           /\ Alike(u, r, a) => t.runs[a].spec = s
           /\ Alike(u, a, r) => /\ t.runs[a].spec = s
                                /\ KeyAt(t.log, t.runs[a].event) = KeyAt(t.log, n)
    BY <1>1, <1>2, <1>3, <1>7 DEF Alike
  <1>12. ~ Alike(u, r, r)
    BY DEF Alike
  <1>13. \A a \in DOMAIN t.runs : Waiting(u, a) <=> Waiting(t, a)
    BY <1>1 DEF Waiting
  <1>14. \A a \in DOMAIN t.runs :
           ~ (/\ Waiting(t, a) /\ t.runs[a].spec = s
              /\ KeyAt(t.log, t.runs[a].event) = KeyAt(t.log, n))
    BY DEF Waiting, QueuedFor
  <1>15. Disjoint(u)
    <2>1. \A a, b \in DOMAIN t.runs :
            Alike(u, a, b) => \/ u.runs[a].event < u.runs[b].born
                              \/ u.runs[b].event < u.runs[a].born
      BY <1>1, <1>10 DEF Sound, Disjoint
    <2>2. \A a \in DOMAIN t.runs :
            Alike(u, a, r) \/ Alike(u, r, a) => u.runs[a].event < u.runs[r].born
      BY <1>1, <1>7, <1>11
    <2>. QED
      BY <1>1, <1>12, <2>1, <2>2 DEF Disjoint
  <1>16. WaitingLast(u)
    <2>1. \A a, b \in DOMAIN t.runs :
            Waiting(u, a) /\ Alike(u, a, b) => u.runs[b].event < u.runs[a].born
      BY <1>1, <1>10, <1>13 DEF Sound, WaitingLast
    <2>2. \A a \in DOMAIN t.runs :
            /\ Alike(u, r, a) => u.runs[a].event < u.runs[r].born
            /\ ~ (Waiting(u, a) /\ Alike(u, a, r))
      BY <1>1, <1>7, <1>11, <1>13, <1>14
    <2>. QED
      BY <1>1, <1>12, <2>1, <2>2 DEF WaitingLast
  <1>17. Extended(u)
    <2>1. ASSUME NEW a \in DOMAIN t.runs, NEW k \in DOMAIN t.log,
                 Waiting(u, a), u.runs[a].event < k,
                 KeyAt(u.log, k) = KeyAt(u.log, u.runs[a].event)
          PROVE  u.runs[a].spec \notin u.log[k].matched
      <3>1. /\ Waiting(t, a) /\ u.runs[a] = t.runs[a] /\ t.runs[a].event < k
            /\ KeyAt(t.log, k) = KeyAt(t.log, t.runs[a].event)
        BY <1>1, <1>2, <1>3, <1>13, <2>1
      <3>2. t.runs[a].spec \notin t.log[k].matched
        BY <3>1 DEF Sound, Extended
      <3>3. ~ (k = n /\ t.runs[a].spec = s)
        BY <1>14, <3>1
      <3>. QED
        BY <1>4, <3>1, <3>2, <3>3
    <2>2. \A k \in DOMAIN t.log : ~ (u.runs[r].event < k)
      BY <1>2, <1>7
    <2>. QED
      BY <1>1, <1>2, <2>1, <2>2 DEF Extended
  <1>18. \A a \in DOMAIN t.runs : \A k \in DOMAIN t.log :
            Answers(u, a, k) <=> Answers(t, a, k)
    BY <1>1, <1>2, <1>3, <1>4 DEF Answers
  <1>19. \A k \in DOMAIN t.log : Answers(u, r, k) <=> k = n
    <2>1. s \in u.log[n].matched
      BY <1>2, <1>4
    <2>. QED
      BY <1>2, <1>7, <2>1 DEF Answers
  <1>20. Quiet(u)
    <2>1. \A a \in DOMAIN t.runs : \A k \in DOMAIN t.log :
            Answers(u, a, k) => u.runs[a].scheduledFor
                                  >= u.log[k].received + Debounce[u.runs[a].spec]
      BY <1>1, <1>8, <1>18 DEF Sound, Quiet
    <2>2. u.runs[r].scheduledFor >= u.log[n].received + Debounce[s]
      <3>1. t.log[n].received \in Nat /\ Debounce[s] \in Nat
        BY <1>2, LogTypes, WindowTypes DEF Sound
      <3>. QED
        BY <1>2, <1>7, <1>8, <3>1
    <2>. QED
      BY <1>1, <1>2, <1>7, <1>19, <2>1, <2>2 DEF Quiet
  <1>21. Covered(u)
    <2>1. s \in u.log[n].queued
      BY DEF Marked
    <2>2. Covers(u, r, n, s)
      BY <1>2, <1>7, <1>19, <2>1 DEF Covers
    <2>3. \E a \in DOMAIN u.runs : Covers(u, a, n, s)
      BY <1>1, <2>2
    <2>4. /\ DOMAIN t.runs \subseteq DOMAIN u.runs
          /\ \A a \in DOMAIN t.runs : u.runs[a].spec = t.runs[a].spec
      BY <1>1
    <2>. QED
      BY <1>0, <1>18, <2>3, <2>4, StaysCovered
  <1>22. Apart(u)
    <2>. SUFFICES ASSUME NEW a \in DOMAIN u.runs, NEW b \in DOMAIN u.runs,
                         a < b, u.runs[b].spec = u.runs[a].spec,
                         Debounce[u.runs[a].spec] = 0
         PROVE  LET x == u.runs[a].spec
                    apart == u.log[u.runs[b].event].received
                               - u.log[u.runs[a].event].received
                IN /\ Cooldown[x] > 0 => apart > Cooldown[x]
                   /\ DedupeWindow[x] > 0
                      /\ KeyAt(u.log, u.runs[a].event) = KeyAt(u.log, u.runs[b].event)
                      => apart > DedupeWindow[x]
      BY DEF Apart
    <2>1. CASE b = r
      <3>1. a \in DOMAIN t.runs /\ u.runs[a] = t.runs[a] /\ t.runs[a].spec = s
        BY <1>1, <1>7, <2>1
      <3>2. /\ t.log[t.runs[a].event].received \in Nat /\ t.log[n].received \in Nat
            /\ Cooldown[s] \in Nat /\ DedupeWindow[s] \in Nat
        BY <1>2, <3>1, LogTypes, WindowTypes DEF Sound
      <3>3. Cooldown[s] > 0 =>
              ~ (t.log[t.runs[a].event].received >= t.log[n].received - Cooldown[s])
        BY <3>1 DEF Suppressed, RecentRuns
      <3>4. DedupeWindow[s] > 0 /\ KeyAt(t.log, t.runs[a].event) = KeyAt(t.log, n) =>
              ~ (t.log[t.runs[a].event].received
                   >= t.log[n].received - DedupeWindow[s])
        BY <3>1 DEF Suppressed, RecentRuns
      <3>5. /\ u.log[u.runs[a].event].received = t.log[t.runs[a].event].received
            /\ u.log[u.runs[b].event].received = t.log[n].received
            /\ KeyAt(u.log, u.runs[a].event) = KeyAt(t.log, t.runs[a].event)
            /\ KeyAt(u.log, u.runs[b].event) = KeyAt(t.log, n)
        BY <1>2, <1>3, <1>7, <1>8, <2>1, <3>1
      <3>6. Cooldown[s] > 0 =>
              t.log[n].received - t.log[t.runs[a].event].received > Cooldown[s]
        <4>. DEFINE x == t.log[t.runs[a].event].received
                    y == t.log[n].received
                    c == Cooldown[s]
        <4>1. x \in Nat /\ y \in Nat /\ c \in Nat /\ (c > 0 => ~ (x >= y - c))
          BY <3>2, <3>3
        <4>. HIDE DEF x, y, c
        <4>2. c > 0 => y - x > c
          BY <4>1
        <4>. QED
          BY <4>2 DEF x, y, c
      <3>7. DedupeWindow[s] > 0 /\ KeyAt(t.log, t.runs[a].event) = KeyAt(t.log, n) =>
              t.log[n].received - t.log[t.runs[a].event].received > DedupeWindow[s]
        <4>. DEFINE x == t.log[t.runs[a].event].received
                    y == t.log[n].received
                    c == DedupeWindow[s]
                    same == KeyAt(t.log, t.runs[a].event) = KeyAt(t.log, n)
        <4>1. /\ x \in Nat /\ y \in Nat /\ c \in Nat
              /\ c > 0 /\ same => ~ (x >= y - c)
          BY <3>2, <3>4
        <4>. HIDE DEF x, y, c, same
        <4>2. c > 0 /\ same => y - x > c
          BY <4>1
        <4>. QED
          BY <4>2 DEF x, y, c, same
      <3>8. u.runs[a].spec = s
        BY <3>1
      <3>. QED
        BY <3>5, <3>6, <3>7, <3>8
    <2>2. CASE b # r
      <3>1. b \in DOMAIN t.runs /\ a \in DOMAIN t.runs
        BY <1>1, <2>2
      <3>. QED
        BY <1>1, <1>3, <1>8, <3>1, StaysApart
    <2>. QED
      BY <2>1, <2>2
  <1>. QED
    BY <1>6, <1>9, <1>15, <1>16, <1>17, <1>20, <1>21, <1>22 DEF Sound, Marked

-----------------------------------------------------------------------------
(* The open transaction *)

\* What an event is processed to.
LEMMA ProcessedRow ==
  ASSUME NEW t \in Tables, Len(t.log) > 0,
         NEW m \in SUBSET Specs, NEW q \in SUBSET Specs
  PROVE  /\ Processed(t, m, q) \in Tables
         /\ Processed(t, m, q).runs = t.runs
         /\ Len(Processed(t, m, q).log) = Len(t.log)
         /\ \A k \in DOMAIN t.log :
              /\ Processed(t, m, q).log[k].event = t.log[k].event
              /\ Processed(t, m, q).log[k].received = t.log[k].received
              /\ k # Len(t.log) => Processed(t, m, q).log[k] = t.log[k]
         /\ Processed(t, m, q).log[Len(t.log)].matched = m
         /\ Processed(t, m, q).log[Len(t.log)].queued = q
         /\ Processed(t, m, q).log[Len(t.log)].status # "received"
  <1>. DEFINE n == Len(t.log)
              st == CASE m = {} -> "unmatched"
                      [] q # {} -> "queued"
                      [] OTHER -> "suppressed"
              row == [t.log[n] EXCEPT !.status = st, !.matched = m, !.queued = q]
              log == [t.log EXCEPT ![n] = row]
  <1>1. /\ t.log \in Seq(LogRow) /\ t.runs \in Seq(RunRow)
        /\ n \in Nat /\ DOMAIN t.log = 1..n /\ n \in DOMAIN t.log
        /\ t = [log |-> t.log, runs |-> t.runs]
    BY TableTypes
  <1>2. st \in {"unmatched", "queued", "suppressed"}
    OBVIOUS
  <1>3. t.log[n] \in LogRow
    BY <1>1, LogTypes
  <1>. HIDE DEF st
  <1>4. /\ row \in LogRow /\ row.matched = m /\ row.queued = q /\ row.status = st
        /\ row.event = t.log[n].event /\ row.received = t.log[n].received
    BY <1>2, <1>3 DEF LogRow, Statuses
  <1>5. Processed(t, m, q) = [t EXCEPT !.log = log]
    BY DEF Processed, st
  <1>. HIDE DEF row
  <1>6. log \in [1..n -> LogRow] /\ \A k \in 1..n : log[k] = IF k = n THEN row ELSE t.log[k]
    BY <1>1, <1>4
  <1>. HIDE DEF log
  <1>7. log \in Seq(LogRow) /\ Len(log) = n
    BY <1>1, <1>6
  <1>8. Processed(t, m, q).log = log /\ Processed(t, m, q).runs = t.runs
    BY <1>1, <1>5
  <1>9. Processed(t, m, q) = [log |-> log, runs |-> t.runs]
    BY <1>1, <1>5
  <1>10. Processed(t, m, q) \in Tables
    BY <1>1, <1>7, <1>9 DEF Tables
  <1>11. st # "received"
    BY <1>2
  <1>12. /\ log[n] = row
         /\ \A k \in DOMAIN t.log : k # n => log[k] = t.log[k]
    BY <1>1, <1>6
  <1>13. \A k \in DOMAIN t.log : /\ log[k].event = t.log[k].event
                                 /\ log[k].received = t.log[k].received
    BY <1>4, <1>12
  <1>. QED
    BY <1>4, <1>7, <1>8, <1>10, <1>11, <1>12, <1>13

\* The queries look only at events, their times, and runs.
LEMMA QueriesSame ==
  ASSUME NEW t, NEW u, Refs(u), u.runs = t.runs, DOMAIN u.log = DOMAIN t.log,
         \A k \in DOMAIN t.log : /\ u.log[k].event = t.log[k].event
                                 /\ u.log[k].received = t.log[k].received,
         NEW s, NEW key, NEW stamp
  PROVE  /\ QueuedFor(u, s, key) = QueuedFor(t, s, key)
         /\ Suppressed(u, s, key, stamp) <=> Suppressed(t, s, key, stamp)
  <1>1. \A i \in DOMAIN t.runs : t.runs[i].event \in DOMAIN t.log
    BY DEF Refs
  <1>2. \A k \in DOMAIN t.log : KeyAt(u.log, k) = KeyAt(t.log, k)
    BY DEF KeyAt
  <1>3. QueuedFor(u, s, key) = QueuedFor(t, s, key)
    BY <1>1, <1>2 DEF QueuedFor
  <1>4. \A since : RecentRuns(u, s, since) = RecentRuns(t, s, since)
    BY <1>1 DEF RecentRuns
  <1>5. \A since : RecentRuns(t, s, since) \subseteq DOMAIN t.runs
    BY DEF RecentRuns
  <1>6. \A since : \A i \in RecentRuns(t, s, since) :
           KeyAt(u.log, u.runs[i].event) = KeyAt(t.log, t.runs[i].event)
    BY <1>1, <1>2, <1>5
  <1>. QED
    BY <1>3, <1>4, <1>6 DEF Suppressed

\* NewRun and its type.
LEMMA NewRunType ==
  ASSUME NEW s \in Specs, NEW k \in Nat, NEW stamp \in Nat
  PROVE  NewRun(s, k, stamp) \in RunRow
  BY WindowTypes DEF NewRun, RunRow, RunStatuses

\* Appending a run, and changing one, keep the types of the tables.
LEMMA AppendRun ==
  ASSUME NEW t \in Tables, NEW r \in RunRow
  PROVE  /\ [t EXCEPT !.runs = Append(@, r)] \in Tables
         /\ [t EXCEPT !.runs = Append(@, r)].log = t.log
         /\ [t EXCEPT !.runs = Append(@, r)].runs = Append(t.runs, r)
  <1>1. Append(t.runs, r) \in Seq(RunRow) /\ t = [log |-> t.log, runs |-> t.runs]
        /\ t.log \in Seq(LogRow)
    BY TableTypes
  <1>. QED
    BY <1>1 DEF Tables

\* Appending a row to the log.
LEMMA AppendLog ==
  ASSUME NEW t \in Tables, NEW r \in LogRow
  PROVE  /\ [t EXCEPT !.log = Append(@, r)] \in Tables
         /\ [t EXCEPT !.log = Append(@, r)].runs = t.runs
         /\ [t EXCEPT !.log = Append(@, r)].log = Append(t.log, r)
         /\ Len(Append(t.log, r)) = Len(t.log) + 1
         /\ \A k \in DOMAIN t.log : Append(t.log, r)[k] = t.log[k]
         /\ Append(t.log, r)[Len(t.log) + 1] = r
  <1>1. Append(t.log, r) \in Seq(LogRow) /\ t = [log |-> t.log, runs |-> t.runs]
        /\ t.runs \in Seq(RunRow)
        /\ Len(Append(t.log, r)) = Len(t.log) + 1
        /\ \A k \in DOMAIN t.log : Append(t.log, r)[k] = t.log[k]
        /\ Append(t.log, r)[Len(t.log) + 1] = r
    BY TableTypes
  <1>. QED
    BY <1>1 DEF Tables

\* Replacing the runs.
LEMMA ChangeRuns ==
  ASSUME NEW t \in Tables, NEW f \in [DOMAIN t.runs -> RunRow]
  PROVE  /\ [t EXCEPT !.runs = f] \in Tables
         /\ [t EXCEPT !.runs = f].log = t.log
         /\ [t EXCEPT !.runs = f].runs = f
  <1>1. f \in Seq(RunRow) /\ t = [log |-> t.log, runs |-> t.runs]
        /\ t.log \in Seq(LogRow)
    BY TableTypes
  <1>. QED
    BY <1>1 DEF Tables

-----------------------------------------------------------------------------
(* Steps *)

\* The parts of the type that the steps need.
LEMMA LetterTypes ==
  ASSUME TypeOK, NEW p \in Procs, inbox[p].at # "idle"
  PROVE  /\ inbox[p].event \in Events /\ inbox[p].stamp \in Nat
         /\ [inbox EXCEPT ![p].at = "open"] \in [Procs -> Letters]
  <1>1. inbox[p] \in Letters
    BY DEF TypeOK
  <1>2. inbox[p] \in [at: {"waiting", "open"}, event: Events, stamp: Nat]
    BY <1>1 DEF Letters
  <1>3. [inbox[p] EXCEPT !.at = "open"] \in Letters
    BY <1>2 DEF Letters
  <1>4. [inbox EXCEPT ![p].at = "open"]
          = [inbox EXCEPT ![p] = [inbox[p] EXCEPT !.at = "open"]]
    OBVIOUS
  <1>. QED
    BY <1>2, <1>3, <1>4 DEF TypeOK

\* A process that has nothing in hand.
LEMMA NoLetterType ==
  ASSUME TypeOK, NEW p
  PROVE  [inbox EXCEPT ![p] = NoLetter] \in [Procs -> Letters]
  <1>1. NoLetter \in Letters
    BY DEF NoLetter, Letters
  <1>. QED
    BY <1>1 DEF TypeOK

\* When no transaction is open, the tables may change as long as they stay sound.
LEMMA CloseStep ==
  ASSUME IInv, Sound(db'), Close
  PROVE  LogHolds' /\ writer' \in Procs \cup {NoProc} /\ view' \in Tables
         /\ todo' \subseteq Specs /\ matched' \subseteq Specs /\ queued' \subseteq Specs
  <1>1. writer' = NoProc /\ view' = db' /\ todo' = {} /\ matched' = {} /\ queued' = {}
    BY DEF Close
  <1>2. view' \in Tables
    BY <1>1 DEF Sound
  <1>. QED
    BY <1>1, <1>2 DEF LogHolds

\* Steps that leave tables and transaction alone.
LEMMA LogUnchanged ==
  ASSUME LogHolds, UNCHANGED <<db, txnVars>>
  PROVE  LogHolds'
  BY DEF LogHolds, txnVars

\* A new event is sound with nothing processed; a known one changes nothing.
LEMMA BeginStep ==
  ASSUME IInv, NEW p \in Procs, Begin(p)
  PROVE  IInv'
  <1>. DEFINE e == inbox[p].event
  <1>1. /\ inbox[p].at = "waiting" /\ writer = NoProc
        /\ UNCHANGED <<clock, active, db, upsets>>
    BY DEF Begin
  <1>2. /\ e \in Events /\ inbox[p].stamp \in Nat
        /\ [inbox EXCEPT ![p].at = "open"] \in [Procs -> Letters]
    BY <1>1, LetterTypes DEF IInv
  <1>3. CASE \E k \in DOMAIN db.log : db.log[k].event = e
    <2>1. inbox' = [inbox EXCEPT ![p] = NoLetter] /\ UNCHANGED txnVars
      BY <1>3 DEF Begin
    <2>2. inbox' \in [Procs -> Letters]
      BY <2>1, NoLetterType DEF IInv
    <2>3. LogHolds'
      BY <1>1, <2>1, LogUnchanged DEF IInv
    <2>. QED
      BY <1>1, <2>1, <2>2, <2>3 DEF IInv, TypeOK, txnVars
  <1>4. CASE ~ \E k \in DOMAIN db.log : db.log[k].event = e
    <2>. DEFINE r == NewLogRow(inbox[p])
                v == [db EXCEPT !.log = Append(@, r)]
                u == Processed(v, {}, {})
    <2>1. /\ writer' = p /\ inbox' = [inbox EXCEPT ![p].at = "open"]
          /\ view' = v /\ todo' = {s \in active : e \in Matches[s]}
          /\ matched' = matched /\ queued' = queued
      BY <1>4 DEF Begin
    <2>2. r \in LogRow /\ r.event = e
      BY <1>2 DEF NewLogRow, LogRow, Statuses
    <2>3. db \in Tables /\ Len(db.log) \in Nat /\ DOMAIN db.log = 1..Len(db.log)
      BY TableTypes DEF IInv, TypeOK
    <2>4. matched = {} /\ queued = {} /\ p # NoProc /\ Sound(db)
      BY <1>1, NoProcAssumption DEF IInv, LogHolds
    <2>. HIDE DEF r
    <2>5. /\ v \in Tables /\ v.runs = db.runs /\ Len(v.log) = Len(db.log) + 1
          /\ \A k \in DOMAIN db.log : v.log[k] = db.log[k]
          /\ v.log[Len(db.log) + 1] = r
      BY <2>2, <2>3, AppendLog
    <2>6. DOMAIN v.log = 1..(Len(db.log) + 1)
      BY <2>5, TableTypes
    <2>. HIDE DEF v
    <2>7. Len(v.log) > 0 /\ Len(v.log) \in DOMAIN v.log
      BY <2>3, <2>5, <2>6
    <2>8. /\ u \in Tables /\ u.runs = v.runs /\ Len(u.log) = Len(v.log)
          /\ \A k \in DOMAIN v.log :
               /\ u.log[k].event = v.log[k].event
               /\ k # Len(v.log) => u.log[k] = v.log[k]
          /\ u.log[Len(v.log)].matched = {} /\ u.log[Len(v.log)].queued = {}
          /\ u.log[Len(v.log)].status # "received"
      BY <2>5, <2>7, ProcessedRow
    <2>. HIDE DEF u
    <2>9. \A k \in DOMAIN db.log : k \in DOMAIN v.log /\ k # Len(v.log)
      BY <2>3, <2>5, <2>6
    <2>10. \A k \in DOMAIN db.log : u.log[k] = db.log[k]
      BY <2>5, <2>8, <2>9
    <2>11. \A k \in DOMAIN db.log : db.log[k].event # u.log[Len(u.log)].event
      <3>1. u.log[Len(u.log)].event = e
        BY <2>2, <2>5, <2>7, <2>8
      <3>. QED
        BY <1>4, <3>1
    <2>12. Sound(u)
      BY <2>4, <2>5, <2>8, <2>10, <2>11, LogGrows
    <2>13. LogHolds'
      <3>1. db' = db /\ writer' = p /\ view' = v /\ matched' = {} /\ queued' = {}
        BY <1>1, <2>1, <2>4
      <3>2. Processed(view', matched', queued') = u
        BY <3>1 DEF u
      <3>. QED
        BY <2>4, <2>7, <2>12, <3>1, <3>2 DEF LogHolds
    <2>14. TypeOK'
      <3>1. inbox' \in [Procs -> Letters]
        BY <1>2, <2>1
      <3>2. view' \in Tables /\ todo' \subseteq Specs
        BY <2>1, <2>5 DEF IInv, TypeOK
      <3>3. writer' \in Procs \cup {NoProc}
        BY <2>1
      <3>. QED
        BY <1>1, <2>1, <3>1, <3>2, <3>3 DEF IInv, TypeOK
    <2>. QED
      BY <2>13, <2>14 DEF IInv
  <1>. QED
    BY <1>3, <1>4

\* The rows that are processed and those that are not differ in the last.
LEMMA MarkStep ==
  ASSUME NEW v \in Tables, NEW w \in Tables, NEW s \in Specs, NEW q \in SUBSET {s},
         NEW m \in SUBSET Specs, NEW g \in SUBSET Specs, Len(v.log) > 0,
         Len(w.log) = Len(v.log), \A k \in DOMAIN v.log : w.log[k] = v.log[k],
         Refs(Processed(v, m, g))
  PROVE  Marked(Processed(v, m, g), Processed(w, m \cup {s}, g \cup q), s, q)
  <1>. DEFINE t == Processed(v, m, g)
              u == Processed(w, m \cup {s}, g \cup q)
              n == Len(v.log)
  <1>1. /\ t \in Tables /\ Len(t.log) = n
        /\ \A k \in DOMAIN v.log :
             /\ t.log[k].event = v.log[k].event
             /\ t.log[k].received = v.log[k].received
             /\ k # n => t.log[k] = v.log[k]
        /\ t.log[n].matched = m /\ t.log[n].queued = g
    BY ProcessedRow
  <1>2. m \cup {s} \in SUBSET Specs /\ g \cup q \in SUBSET Specs
    OBVIOUS
  <1>3. /\ u \in Tables /\ Len(u.log) = n
        /\ \A k \in DOMAIN v.log :
             /\ u.log[k].event = v.log[k].event
             /\ u.log[k].received = v.log[k].received
             /\ k # n => u.log[k] = v.log[k]
        /\ u.log[n].matched = m \cup {s} /\ u.log[n].queued = g \cup q
        /\ u.log[n].status # "received"
    <2>. DEFINE M == m \cup {s}
                G == g \cup q
                x == Processed(w, M, G)
    <2>1. M \in SUBSET Specs /\ G \in SUBSET Specs /\ Len(w.log) > 0
      BY <1>2
    <2>. HIDE DEF M, G
    <2>2. /\ x \in Tables /\ Len(x.log) = Len(w.log)
          /\ \A k \in DOMAIN w.log :
               /\ x.log[k].event = w.log[k].event
               /\ x.log[k].received = w.log[k].received
               /\ k # Len(w.log) => x.log[k] = w.log[k]
          /\ x.log[Len(w.log)].matched = M /\ x.log[Len(w.log)].queued = G
          /\ x.log[Len(w.log)].status # "received"
      BY <2>1, ProcessedRow
    <2>. HIDE DEF x
    <2>3. /\ x \in Tables /\ Len(x.log) = n
          /\ \A k \in DOMAIN v.log :
               /\ x.log[k].event = v.log[k].event
               /\ x.log[k].received = v.log[k].received
               /\ k # n => x.log[k] = v.log[k]
          /\ x.log[n].matched = M /\ x.log[n].queued = G
          /\ x.log[n].status # "received"
      BY <2>2, TableTypes
    <2>. QED
      BY <2>3 DEF x, M, G
  <1>4. \A k \in DOMAIN t.log : t.log[k].status # "received"
    BY DEF Refs
  <1>5. DOMAIN t.log = 1..n /\ DOMAIN v.log = 1..n
    BY <1>1, TableTypes
  <1>. HIDE DEF t, u, n
  <1>6. \A k \in DOMAIN t.log :
          /\ u.log[k].event = t.log[k].event
          /\ u.log[k].received = t.log[k].received
          /\ k # n => u.log[k] = t.log[k]
    BY <1>1, <1>3, <1>5
  <1>7. \A k \in DOMAIN t.log : u.log[k].status # "received"
    BY <1>3, <1>4, <1>6
  <1>8. n > 0
    BY DEF n
  <1>. QED
    BY <1>1, <1>3, <1>6, <1>7, <1>8 DEF Marked, t, u

\* The type of what materializeForSpec leaves behind.
LEMMA ExtendType ==
  ASSUME IInv, writer # NoProc, NEW s \in Specs, NEW k \in Nat, NEW stamp \in Nat,
         NEW i \in QueuedFor(view, s, KeyAt(view.log, k)),
         view' = [view EXCEPT !.runs[i].event = k,
                              !.runs[i].scheduledFor =
                                 Postponed(view.runs[i], stamp, Debounce[s])]
  PROVE  /\ view' \in Tables /\ view'.log = view.log
         /\ DOMAIN view'.runs = DOMAIN view.runs
         /\ \A j \in DOMAIN view.runs : j # i => view'.runs[j] = view.runs[j]
         /\ view'.runs[i].spec = s /\ view'.runs[i].status = "queued"
         /\ view'.runs[i].born = view.runs[i].born /\ view'.runs[i].event = k
         /\ view'.runs[i].scheduledFor >= view.runs[i].scheduledFor
         /\ view'.runs[i].scheduledFor >= stamp + Debounce[s]
  <1>. DEFINE later == Postponed(view.runs[i], stamp, Debounce[s])
              row == [view.runs[i] EXCEPT !.event = k, !.scheduledFor = later]
              f == [view.runs EXCEPT ![i] = row]
  <1>1. /\ view \in Tables /\ i \in DOMAIN view.runs
        /\ view.runs[i].spec = s /\ view.runs[i].status = "queued"
    BY DEF IInv, TypeOK, QueuedFor
  <1>2. view.runs[i] \in RunRow /\ view.runs[i].scheduledFor \in Nat
    BY <1>1, RunTypes
  <1>3. /\ later \in Nat /\ later >= view.runs[i].scheduledFor
        /\ later >= stamp + Debounce[s]
    BY <1>2, WindowTypes DEF Postponed
  <1>4. view' = [view EXCEPT !.runs = f]
    BY <1>1, TableTypes
  <1>. HIDE DEF later
  <1>5. /\ row \in RunRow /\ row.spec = s /\ row.status = "queued"
        /\ row.born = view.runs[i].born /\ row.event = k /\ row.scheduledFor = later
    BY <1>1, <1>2, <1>3 DEF RunRow
  <1>. HIDE DEF row
  <1>6. /\ f \in [DOMAIN view.runs -> RunRow] /\ f[i] = row
        /\ \A j \in DOMAIN view.runs : j # i => f[j] = view.runs[j]
    <2>1. \A j \in DOMAIN view.runs : view.runs[j] \in RunRow
      BY <1>1, RunTypes
    <2>2. /\ DOMAIN f = DOMAIN view.runs /\ f[i] = row
          /\ \A j \in DOMAIN view.runs : j # i => f[j] = view.runs[j]
      BY <1>1
    <2>3. \A j \in DOMAIN view.runs : f[j] \in RunRow
      BY <1>5, <2>1, <2>2
    <2>4. f = [j \in DOMAIN view.runs |-> f[j]]
      OBVIOUS
    <2>. QED
      BY <2>2, <2>3, <2>4
  <1>. HIDE DEF f
  <1>7. view' \in Tables /\ view'.log = view.log /\ view'.runs = f
    <2>. DEFINE x == [view EXCEPT !.runs = f]
    <2>1. x \in Tables /\ x.log = view.log /\ x.runs = f
      BY <1>1, <1>6, ChangeRuns
    <2>. HIDE DEF x
    <2>2. view' = x
      BY <1>4 DEF x
    <2>. QED
      BY <2>1, <2>2
  <1>. QED
    BY <1>3, <1>5, <1>6, <1>7

\* What materializeForSpec does for a spec marks the event's row with it.
LEMMA MaterializeStep ==
  ASSUME IInv, NEW s \in Specs, MaterializeForSpec(s)
  PROVE  IInv'
  <1>. DEFINE n == Len(view.log)
              stamp == view.log[n].received
              key == KeyAt(view.log, n)
              t == Processed(view, matched, queued)
  <1>1. /\ writer # NoProc /\ s \in todo
        /\ Extend(s, n, stamp) \/ EnqueueRun(s, n, stamp)
        /\ todo' = todo \ {s} /\ matched' = matched \cup {s}
        /\ UNCHANGED <<clock, active, inbox, db, writer, upsets>>
    BY DEF MaterializeForSpec
  <1>2. /\ n > 0 /\ Sound(t) /\ queued \subseteq matched /\ todo \cap matched = {}
        /\ Sound(db)
    BY <1>1 DEF IInv, LogHolds
  <1>3. /\ view \in Tables /\ todo \subseteq Specs
        /\ matched \in SUBSET Specs /\ queued \in SUBSET Specs
    BY DEF IInv, TypeOK
  <1>4. /\ n \in Nat /\ DOMAIN view.log = 1..n /\ n \in DOMAIN view.log
        /\ stamp \in Nat /\ DOMAIN view.runs \subseteq Nat
    BY <1>2, <1>3, TableTypes, LogTypes
  <1>. HIDE DEF stamp, key
  <1>5. /\ t \in Tables /\ t.runs = view.runs /\ Len(t.log) = n
        /\ \A k \in DOMAIN view.log : /\ t.log[k].event = view.log[k].event
                                      /\ t.log[k].received = view.log[k].received
        /\ t.log[n].matched = matched
    <2>1. /\ view \in Tables /\ Len(view.log) > 0
          /\ matched \in SUBSET Specs /\ queued \in SUBSET Specs
      BY <1>2, <1>3
    <2>. HIDE DEF n
    <2>2. /\ t \in Tables /\ t.runs = view.runs /\ Len(t.log) = Len(view.log)
          /\ \A k \in DOMAIN view.log :
               /\ t.log[k].event = view.log[k].event
               /\ t.log[k].received = view.log[k].received
          /\ t.log[Len(view.log)].matched = matched
      BY <2>1, ProcessedRow
    <2>. QED
      BY <2>2 DEF n
  <1>. HIDE DEF n, t
  <1>6. n = Len(view.log) /\ stamp = view.log[n].received /\ key = KeyAt(view.log, n)
    BY DEF n, stamp, key
  <1>7. DOMAIN t.log = DOMAIN view.log
    BY <1>4, <1>5, TableTypes
  <1>8. KeyAt(t.log, n) = key /\ t.log[n].received = stamp
    BY <1>4, <1>5, <1>6 DEF KeyAt
  <1>9. /\ QueuedFor(view, s, key) = QueuedFor(t, s, key)
        /\ Suppressed(view, s, key, stamp) <=> Suppressed(t, s, key, stamp)
    <2>1. Refs(t) /\ view.runs = t.runs
      BY <1>2, <1>5 DEF Sound
    <2>2. QueuedFor(t, s, key) = QueuedFor(view, s, key)
          /\ (Suppressed(t, s, key, stamp) <=> Suppressed(view, s, key, stamp))
      BY <1>5, <1>7, <2>1, QueriesSame
    <2>. QED
      BY <2>2
  <1>10. s \notin t.log[n].matched /\ s \notin matched
    BY <1>1, <1>2, <1>5
  <1>11. ASSUME NEW q \in SUBSET {s}, queued' = queued \cup q,
                view' \in Tables, view'.log = view.log,
                ASSUME NEW u, Marked(t, u, s, q), u.runs = view'.runs
                PROVE  Sound(u)
         PROVE  IInv'
    <2>. DEFINE u == Processed(view', matched', queued')
                w == view'
    <2>1. /\ w \in Tables /\ Len(w.log) = Len(view.log)
          /\ \A k \in DOMAIN view.log : w.log[k] = view.log[k]
      BY <1>11
    <2>2. Refs(Processed(view, matched, queued))
      BY <1>2 DEF Sound, t
    <2>3. Len(view.log) > 0
      BY <1>2, <1>6
    <2>. HIDE DEF w
    <2>4. Marked(Processed(view, matched, queued),
                 Processed(w, matched \cup {s}, queued \cup q), s, q)
      BY <1>3, <2>1, <2>2, <2>3, MarkStep
    <2>5. u = Processed(w, matched \cup {s}, queued \cup q)
      BY <1>1, <1>11 DEF w
    <2>6. Marked(t, u, s, q)
      BY <2>4, <2>5 DEF t
    <2>7. matched' \in SUBSET Specs /\ queued' \in SUBSET Specs /\ todo' \subseteq Specs
      BY <1>1, <1>3, <1>11
    <2>8. u.runs = view'.runs
      <3>. DEFINE M == matched'
                  Q == queued'
      <3>1. w \in Tables /\ Len(w.log) > 0 /\ M \in SUBSET Specs /\ Q \in SUBSET Specs
        BY <2>1, <2>3, <2>7
      <3>. HIDE DEF M, Q
      <3>2. Processed(w, M, Q).runs = w.runs
        BY <3>1, ProcessedRow
      <3>. QED
        BY <3>2 DEF w, M, Q
    <2>. HIDE DEF u
    <2>9. Sound(u)
      BY <1>11, <2>6, <2>8
    <2>10. TypeOK'
      BY <1>1, <1>11, <2>7 DEF IInv, TypeOK
    <2>11. LogHolds'
      <3>1. Sound(db') /\ writer' # NoProc
        BY <1>1, <1>2
      <3>2. queued' \subseteq matched' /\ todo' \cap matched' = {}
        BY <1>1, <1>2, <1>11
      <3>3. Len(view'.log) > 0
        BY <1>11, <2>3
      <3>. QED
        BY <2>9, <3>1, <3>2, <3>3 DEF LogHolds, u
    <2>. QED
      BY <2>10, <2>11 DEF IInv
  <1>12. CASE Extend(s, n, stamp)
    <2>1. PICK i \in QueuedFor(view, s, key) :
            view' = [view EXCEPT !.runs[i].event = n,
                                 !.runs[i].scheduledFor =
                                    Postponed(view.runs[i], stamp, Debounce[s])]
      BY <1>6, <1>12 DEF Extend
    <2>2. queued' = queued \cup {s} /\ Debounce[s] > 0
      BY <1>12 DEF Extend
    <2>3. i \in QueuedFor(view, s, KeyAt(view.log, n))
      BY <1>6
    <2>4. /\ view' \in Tables /\ view'.log = view.log
          /\ DOMAIN view'.runs = DOMAIN view.runs
          /\ \A j \in DOMAIN view.runs : j # i => view'.runs[j] = view.runs[j]
          /\ view'.runs[i].spec = s /\ view'.runs[i].status = "queued"
          /\ view'.runs[i].born = view.runs[i].born /\ view'.runs[i].event = n
          /\ view'.runs[i].scheduledFor >= view.runs[i].scheduledFor
          /\ view'.runs[i].scheduledFor >= stamp + Debounce[s]
      BY <1>1, <1>4, <2>1, <2>3, ExtendType
    <2>5. ASSUME NEW u, Marked(t, u, s, {s}), u.runs = view'.runs
          PROVE  Sound(u)
      <3>1. i \in QueuedFor(t, s, KeyAt(t.log, n)) /\ n = Len(t.log)
        BY <1>5, <1>8, <1>9
      <3>2. /\ DOMAIN u.runs = DOMAIN t.runs
            /\ \A j \in DOMAIN t.runs : j # i => u.runs[j] = t.runs[j]
            /\ u.runs[i].spec = s /\ u.runs[i].status = "queued"
            /\ u.runs[i].born = t.runs[i].born /\ u.runs[i].event = n
            /\ u.runs[i].scheduledFor >= t.runs[i].scheduledFor
            /\ u.runs[i].scheduledFor >= t.log[n].received + Debounce[s]
        BY <1>5, <1>8, <2>4, <2>5
      <3>. QED
        BY <1>2, <1>10, <2>2, <2>5, <3>1, <3>2, RunExtended
    <2>. QED
      BY <1>11, <2>2, <2>4, <2>5
  <1>13. CASE EnqueueRun(s, n, stamp)
    <2>1. Debounce[s] > 0 => QueuedFor(t, s, KeyAt(t.log, n)) = {}
      BY <1>6, <1>8, <1>9, <1>13 DEF EnqueueRun
    <2>2. CASE Suppressed(view, s, key, stamp)
      <3>1. view' = view /\ queued' = queued
        BY <1>6, <1>13, <2>2 DEF EnqueueRun
      <3>2. ASSUME NEW u, Marked(t, u, s, {}), u.runs = view'.runs
            PROVE  Sound(u)
        <4>1. Suppressed(t, s, KeyAt(t.log, n), t.log[n].received)
          BY <1>8, <1>9, <2>2
        <4>2. u.runs = t.runs /\ n = Len(t.log)
          BY <1>5, <3>1, <3>2
        <4>. QED
          BY <1>2, <1>10, <2>1, <3>2, <4>1, <4>2, RunSuppressed
      <3>3. {} \in SUBSET {s} /\ queued' = queued \cup {}
        BY <3>1
      <3>. QED
        BY <1>3, <1>11, <3>1, <3>2, <3>3
    <2>3. CASE ~ Suppressed(view, s, key, stamp)
      <3>. DEFINE r == NewRun(s, n, stamp)
      <3>1. view' = [view EXCEPT !.runs = Append(@, r)] /\ queued' = queued \cup {s}
        BY <1>6, <1>13, <2>3 DEF EnqueueRun
      <3>2. r \in RunRow
        BY <1>4, NewRunType
      <3>. HIDE DEF r
      <3>3. view' \in Tables /\ view'.log = view.log /\ view'.runs = Append(view.runs, r)
        BY <1>3, <3>1, <3>2, AppendRun
      <3>4. ASSUME NEW u, Marked(t, u, s, {s}), u.runs = view'.runs
            PROVE  Sound(u)
        <4>1. ~ Suppressed(t, s, KeyAt(t.log, n), t.log[n].received)
          BY <1>8, <1>9, <2>3
        <4>2. u.runs = Append(t.runs, NewRun(s, n, t.log[n].received)) /\ n = Len(t.log)
          BY <1>5, <1>8, <3>3, <3>4 DEF r
        <4>. QED
          BY <1>2, <1>10, <2>1, <3>4, <4>1, <4>2, RunAdded
      <3>. QED
        BY <1>11, <3>1, <3>3, <3>4
    <2>. QED
      BY <2>2, <2>3
  <1>. QED
    BY <1>1, <1>12, <1>13

\* COMMIT makes what is processed the committed tables.
LEMMA CommitStep ==
  ASSUME IInv, Commit
  PROVE  IInv'
  <1>1. /\ writer # NoProc /\ Close /\ UNCHANGED <<clock, active, upsets>>
        /\ inbox' = [inbox EXCEPT ![writer] = NoLetter]
    BY DEF Commit
  <1>2. db' = Processed(view, matched, queued)
    BY DEF Commit, Processed
  <1>3. Sound(db')
    BY <1>1, <1>2 DEF IInv, LogHolds
  <1>4. /\ LogHolds' /\ writer' \in Procs \cup {NoProc} /\ view' \in Tables
        /\ todo' \subseteq Specs /\ matched' \subseteq Specs /\ queued' \subseteq Specs
    BY <1>1, <1>3, CloseStep
  <1>5. inbox' \in [Procs -> Letters]
    BY <1>1, NoLetterType DEF IInv
  <1>6. db' \in Tables
    BY <1>3 DEF Sound
  <1>. QED
    BY <1>1, <1>4, <1>5, <1>6 DEF IInv, TypeOK

\* A rollback leaves the committed tables.
LEMMA RollBackStep ==
  ASSUME IInv, RollBack
  PROVE  IInv'
  <1>1. /\ Close /\ UNCHANGED <<clock, active, db>> /\ upsets' = upsets + 1
        /\ inbox' = [inbox EXCEPT ![writer] = NoLetter]
    BY DEF RollBack
  <1>2. Sound(db')
    BY <1>1 DEF IInv, LogHolds
  <1>3. /\ LogHolds' /\ writer' \in Procs \cup {NoProc} /\ view' \in Tables
        /\ todo' \subseteq Specs /\ matched' \subseteq Specs /\ queued' \subseteq Specs
    BY <1>1, <1>2, CloseStep
  <1>4. inbox' \in [Procs -> Letters]
    BY <1>1, NoLetterType DEF IInv
  <1>5. upsets' \in Nat
    BY <1>1 DEF IInv, TypeOK
  <1>. QED
    BY <1>1, <1>3, <1>4, <1>5 DEF IInv, TypeOK

\* Runs whose status leaves "queued" keep the committed tables sound.
LEMMA RunsFall ==
  ASSUME IInv, NEW f \in [DOMAIN db.runs -> RunRow],
         db' = [db EXCEPT !.runs = f],
         \A i \in DOMAIN db.runs :
           /\ f[i].spec = db.runs[i].spec /\ f[i].born = db.runs[i].born
           /\ f[i].event = db.runs[i].event
           /\ f[i].scheduledFor = db.runs[i].scheduledFor
           /\ f[i].status = "queued" => db.runs[i].status = "queued"
  PROVE  Sound(db') /\ db' \in Tables
  <1>. DEFINE u == [db EXCEPT !.runs = f]
  <1>1. db \in Tables /\ Sound(db)
    BY DEF IInv, TypeOK, LogHolds
  <1>2. u \in Tables /\ u.log = db.log /\ u.runs = f
    BY <1>1, ChangeRuns
  <1>. HIDE DEF u
  <1>3. /\ DOMAIN u.runs = DOMAIN db.runs
        /\ \A i \in DOMAIN db.runs :
             /\ u.runs[i].spec = db.runs[i].spec /\ u.runs[i].born = db.runs[i].born
             /\ u.runs[i].event = db.runs[i].event
             /\ u.runs[i].scheduledFor = db.runs[i].scheduledFor
             /\ u.runs[i].status = "queued" => db.runs[i].status = "queued"
    BY <1>2
  <1>4. Sound(u)
    BY <1>1, <1>2, <1>3, StatusFalls
  <1>. QED
    BY <1>2, <1>4 DEF u

\* A claim takes a queued run up, or cancels it.
LEMMA ClaimStep ==
  ASSUME IInv, NEW i \in DOMAIN db.runs, Claim(i)
  PROVE  IInv'
  <1>. DEFINE st == IF db.runs[i].spec \in active THEN "taken" ELSE "cancelled"
              row == [db.runs[i] EXCEPT !.status = st]
              f == [db.runs EXCEPT ![i] = row]
  <1>1. /\ Close /\ UNCHANGED <<clock, active, inbox, upsets>>
        /\ db' = [db EXCEPT !.runs[i].status = st]
    BY DEF Claim
  <1>2. db \in Tables /\ db.runs[i] \in RunRow
    BY RunTypes DEF IInv, TypeOK
  <1>3. db' = [db EXCEPT !.runs = f]
    BY <1>1, <1>2, TableTypes
  <1>4. st \in {"taken", "cancelled"}
    OBVIOUS
  <1>. HIDE DEF st
  <1>5. /\ row \in RunRow /\ row.spec = db.runs[i].spec /\ row.status = st
        /\ row.born = db.runs[i].born /\ row.event = db.runs[i].event
        /\ row.scheduledFor = db.runs[i].scheduledFor
    BY <1>2, <1>4 DEF RunRow, RunStatuses
  <1>. HIDE DEF row
  <1>6. /\ DOMAIN f = DOMAIN db.runs /\ f[i] = row
        /\ \A j \in DOMAIN db.runs : j # i => f[j] = db.runs[j]
        /\ f = [j \in DOMAIN db.runs |-> f[j]]
    OBVIOUS
  <1>7. \A j \in DOMAIN db.runs : db.runs[j] \in RunRow
    BY <1>2, RunTypes
  <1>. HIDE DEF f
  <1>8. \A j \in DOMAIN db.runs : f[j] \in RunRow
    BY <1>5, <1>6, <1>7
  <1>9. f \in [DOMAIN db.runs -> RunRow]
    BY <1>6, <1>8
  <1>10. \A j \in DOMAIN db.runs :
           /\ f[j].spec = db.runs[j].spec /\ f[j].born = db.runs[j].born
           /\ f[j].event = db.runs[j].event
           /\ f[j].scheduledFor = db.runs[j].scheduledFor
           /\ f[j].status = "queued" => db.runs[j].status = "queued"
    BY <1>4, <1>5, <1>6
  <1>11. Sound(db') /\ db' \in Tables
    BY <1>3, <1>9, <1>10, RunsFall
  <1>12. /\ LogHolds' /\ writer' \in Procs \cup {NoProc} /\ view' \in Tables
         /\ todo' \subseteq Specs /\ matched' \subseteq Specs /\ queued' \subseteq Specs
    BY <1>1, <1>11, CloseStep
  <1>. QED
    BY <1>1, <1>11, <1>12 DEF IInv, TypeOK

\* An edit leaves the tables alone or cancels queued runs.
LEMMA EditStep ==
  ASSUME IInv, NEW s \in Specs, Edit(s)
  PROVE  IInv'
  <1>1. Close /\ UNCHANGED <<clock, inbox>> /\ upsets' = upsets + 1
    BY DEF Edit
  <1>2. active' \subseteq Specs
    BY DEF Edit, IInv, TypeOK
  <1>3. Sound(db') /\ db' \in Tables
    <2>1. CASE UNCHANGED db
      BY <2>1 DEF IInv, LogHolds, TypeOK
    <2>2. CASE ~ UNCHANGED db
      <3>. DEFINE f == [i \in DOMAIN db.runs |->
                          IF db.runs[i].spec = s /\ db.runs[i].status = "queued"
                          THEN [db.runs[i] EXCEPT !.status = "cancelled"]
                          ELSE db.runs[i]]
      <3>1. db' = [db EXCEPT !.runs = f]
        BY <2>2 DEF Edit
      <3>2. \A i \in DOMAIN db.runs : db.runs[i] \in RunRow
        BY RunTypes DEF IInv, TypeOK
      <3>3. \A i \in DOMAIN db.runs :
              /\ f[i] \in RunRow
              /\ f[i].spec = db.runs[i].spec /\ f[i].born = db.runs[i].born
              /\ f[i].event = db.runs[i].event
              /\ f[i].scheduledFor = db.runs[i].scheduledFor
              /\ f[i].status = "queued" => db.runs[i].status = "queued"
        BY <3>2 DEF RunRow, RunStatuses
      <3>4. f \in [DOMAIN db.runs -> RunRow]
        BY <3>3
      <3>. HIDE DEF f
      <3>. QED
        BY <3>1, <3>3, <3>4, RunsFall
    <2>. QED
      BY <2>1, <2>2
  <1>4. /\ LogHolds' /\ writer' \in Procs \cup {NoProc} /\ view' \in Tables
        /\ todo' \subseteq Specs /\ matched' \subseteq Specs /\ queued' \subseteq Specs
    BY <1>1, <1>3, CloseStep
  <1>5. upsets' \in Nat
    BY <1>1 DEF IInv, TypeOK
  <1>. QED
    BY <1>1, <1>2, <1>3, <1>4, <1>5 DEF IInv, TypeOK

\* A call of ingestEvent is stamped.
LEMMA ReceiveStep ==
  ASSUME IInv, NEW p \in Procs, NEW e \in Events, Receive(p, e)
  PROVE  IInv'
  <1>1. /\ inbox' = [inbox EXCEPT ![p] = [at |-> "waiting", event |-> e,
                                          stamp |-> clock]]
        /\ UNCHANGED <<clock, active, db, txnVars, upsets>>
    BY DEF Receive
  <1>2. [at |-> "waiting", event |-> e, stamp |-> clock] \in Letters
    BY DEF IInv, TypeOK, Letters
  <1>3. inbox' \in [Procs -> Letters]
    BY <1>1, <1>2 DEF IInv, TypeOK
  <1>4. LogHolds'
    BY <1>1, LogUnchanged DEF IInv
  <1>. QED
    BY <1>1, <1>3, <1>4 DEF IInv, TypeOK, txnVars

\* Time passes.
LEMMA TickStep ==
  ASSUME IInv, Tick
  PROVE  IInv'
  <1>1. clock' \in Nat /\ UNCHANGED <<active, inbox, db, txnVars, upsets>>
    BY DEF Tick, IInv, TypeOK
  <1>2. LogHolds'
    BY <1>1, LogUnchanged DEF IInv
  <1>. QED
    BY <1>1, <1>2 DEF IInv, TypeOK, txnVars

\* Nothing changes.
LEMMA StutterStep ==
  ASSUME IInv, UNCHANGED vars
  PROVE  IInv'
  <1>1. LogHolds'
    BY LogUnchanged DEF IInv, vars, txnVars
  <1>. QED
    BY <1>1 DEF IInv, TypeOK, vars

\* The invariant holds at first.
LEMMA InitIInv == Init => IInv
  <1>. SUFFICES ASSUME Init PROVE IInv
    OBVIOUS
  <1>1. db.log = <<>> /\ db.runs = <<>> /\ view = db /\ writer = NoProc
        /\ db = [log |-> <<>>, runs |-> <<>>]
    BY DEF Init
  <1>2. db \in Tables
    BY <1>1 DEF Tables
  <1>3. DOMAIN db.log = {} /\ DOMAIN db.runs = {}
    BY <1>1
  <1>4. Sound(db)
    BY <1>2, <1>3 DEF Sound, Refs, Distinct, Disjoint, WaitingLast, Extended,
                      Quiet, Covered, Apart
  <1>5. TypeOK
    <2>1. NoLetter \in Letters
      BY DEF NoLetter, Letters
    <2>. QED
      BY <1>2, <2>1 DEF Init, TypeOK
  <1>. QED
    BY <1>4, <1>5 DEF Init, IInv, LogHolds

\* Every step preserves it.
LEMMA NextIInv == IInv /\ [Next]_vars => IInv'
  <1>. SUFFICES ASSUME IInv, [Next]_vars PROVE IInv'
    OBVIOUS
  <1>1. ASSUME NEW p \in Procs, NEW e \in Heard[p], Receive(p, e) PROVE IInv'
    <2>1. e \in Events
      BY HeardAssumption
    <2>. QED
      BY <1>1, <2>1, ReceiveStep
  <1>2. ASSUME NEW p \in Procs, Begin(p) PROVE IInv'
    BY <1>2, BeginStep
  <1>3. ASSUME NEW s \in Specs, MaterializeForSpec(s) PROVE IInv'
    BY <1>3, MaterializeStep
  <1>4. CASE Commit
    BY <1>4, CommitStep
  <1>5. CASE RollBack
    BY <1>5, RollBackStep
  <1>6. ASSUME NEW i \in DOMAIN db.runs, Claim(i) PROVE IInv'
    BY <1>6, ClaimStep
  <1>7. ASSUME NEW s \in Specs, Edit(s) PROVE IInv'
    BY <1>7, EditStep
  <1>8. CASE Tick
    BY <1>8, TickStep
  <1>9. CASE UNCHANGED vars
    BY <1>9, StutterStep
  <1>10. CASE Halt
    BY <1>9, <1>10 DEF Halt
  <1>. QED
    BY <1>1, <1>2, <1>3, <1>4, <1>5, <1>6, <1>7, <1>8, <1>9, <1>10
       DEF Next, Accept, Execute

-----------------------------------------------------------------------------
(* Theorems *)

\* In every reachable state the tables are sound, and would be if the open
\* transaction ended now.
THEOREM InvariantHolds == Spec => []IInv
  BY InitIInv, NextIInv, PTL DEF Spec

\* The state has its type: in particular no run loses its event or its time.
THEOREM TypesHold == Spec => []TypeOK
  <1>1. IInv => TypeOK
    BY DEF IInv
  <1>. QED
    BY <1>1, InvariantHolds, PTL

\* No spec has two runs for an event, however often, by whichever process and
\* with whatever failures in between the event is delivered (enqueueEventRun
\* and the extension of a queued run, in one transaction with the log).
THEOREM RunsOnce == Spec => []EventRunsOnce
  <1>1. IInv => EventRunsOnce
    BY SoundRunsOnce DEF IInv, LogHolds
  <1>. QED
    BY <1>1, InvariantHolds, PTL

\* Every accepted event is dealt with for every spec it matched: by a run of
\* its own, or because a window lets an earlier event's run stand for it.
THEOREM NothingForgotten == Spec => []NoEventForgotten
  <1>1. IInv => NoEventForgotten
    BY SoundIsProperties DEF IInv, LogHolds
  <1>. QED
    BY <1>1, InvariantHolds, PTL

\* A debounced run is never due before the quiet period of an event it answers
\* has passed, even when events are committed in another order than stamped.
THEOREM QuietHolds == Spec => []QuietPeriodKept
  <1>1. IInv => QuietPeriodKept
    BY SoundIsProperties DEF IInv, LogHolds
  <1>. QED
    BY <1>1, InvariantHolds, PTL

\* Without debounce, runs keep the distance of cooldown and dedupe window in
\* the stamps of their events.
THEOREM DistanceHolds == Spec => []RunsKeepDistance
  <1>1. IInv => RunsKeepDistance
    BY SoundIsProperties DEF IInv, LogHolds
  <1>. QED
    BY <1>1, InvariantHolds, PTL
=============================================================================
