--------------------------- MODULE HubRunsProofs ---------------------------
(***************************************************************************)
(* Proofs about HubRuns for any number of runs, any queue limit and any    *)
(* number of upsets: types, the service of the queue, and that the queue   *)
(* implements DurableFifo.                                                 *)
(***************************************************************************)
EXTENDS HubRuns, TLAPS

-----------------------------------------------------------------------------
(* Sequences *)

\* The domain of a sequence.
LEMMA SeqDomain ==
  ASSUME NEW S, NEW q \in Seq(S)
  PROVE  /\ Len(q) \in Nat
         /\ DOMAIN q = 1..Len(q)
         /\ \A i \in DOMAIN q : q[i] \in S
  OBVIOUS

\* A function on 1..n is a sequence of length n.
LEMMA FunIsSeq ==
  ASSUME NEW S, NEW n \in Nat, NEW f \in [1..n -> S]
  PROVE  f \in Seq(S) /\ Len(f) = n /\ DOMAIN f = 1..n
  OBVIOUS

\* Writing one element keeps a sequence and its domain; writing outside the
\* domain does nothing.
LEMMA UpdateSeq ==
  ASSUME NEW S, NEW q \in Seq(S), NEW i, NEW e, i \in DOMAIN q => e \in S
  PROVE  /\ [q EXCEPT ![i] = e] \in Seq(S)
         /\ Len([q EXCEPT ![i] = e]) = Len(q)
         /\ DOMAIN [q EXCEPT ![i] = e] = DOMAIN q
         /\ \A j \in DOMAIN q :
              [q EXCEPT ![i] = e][j] = IF j = i THEN e ELSE q[j]
  <1>1. [q EXCEPT ![i] = e] \in [1..Len(q) -> S]
    BY SeqDomain
  <1>. QED
    BY <1>1, FunIsSeq, SeqDomain

\* Appending keeps the earlier elements.
LEMMA AppendSeq ==
  ASSUME NEW S, NEW q \in Seq(S), NEW e \in S
  PROVE  /\ Append(q, e) \in Seq(S)
         /\ Len(Append(q, e)) = Len(q) + 1
         /\ DOMAIN Append(q, e) = 1..(Len(q) + 1)
         /\ \A i \in DOMAIN q : Append(q, e)[i] = q[i]
         /\ Append(q, e)[Len(q) + 1] = e
  OBVIOUS

\* Removing an element leaves a sequence.
LEMMA RemoveAtSeq ==
  ASSUME NEW S, NEW q \in Seq(S), NEW i \in DOMAIN q
  PROVE  RemoveAt(q, i) \in Seq(S)
  <1>1. i \in Int /\ i - 1 \in Int /\ i + 1 \in Int /\ Len(q) \in Int
    BY SeqDomain
  <1>2. /\ \A j \in 1..(i - 1) : q[j] \in S
        /\ \A j \in (i + 1)..Len(q) : q[j] \in S
    BY SeqDomain
  <1>3. SubSeq(q, 1, i - 1) \in Seq(S) /\ SubSeq(q, i + 1, Len(q)) \in Seq(S)
    BY <1>1, <1>2
  <1>. QED
    BY <1>3 DEF RemoveAt

\* Putting an element in front gives a sequence.
LEMMA ConsSeq ==
  ASSUME NEW S, NEW q \in Seq(S), NEW e \in S
  PROVE  <<e>> \o q \in Seq(S)
  OBVIOUS

-----------------------------------------------------------------------------
(* The table of runs *)

\* A run that is not waiting has only ended runs before it.
InTurn(table) ==
  \A i, j \in DOMAIN table :
    i < j /\ table[j].state # "queued" => table[i].state \in Terminal

NoneRunning(table) == \A i \in DOMAIN table : table[i].state # "running"

\* A table that the executor may take its next run from: of the runs there
\* were, at most running ones have ended, and new ones wait.
Settled(table) ==
  /\ table \in Seq(Row)
  /\ Len(table) >= Len(rows)
  /\ InTurn(table) /\ NoneRunning(table)
  /\ \A i \in DOMAIN rows :
       \/ table[i].state = rows[i].state
       \/ rows[i].state = "running" /\ table[i].state \in Terminal
  /\ \A i \in DOMAIN table \ DOMAIN rows : table[i].state = "queued"

Working == {"sending", "turn", "reply"}

ServiceHolds ==
  /\ InTurn(rows)
  /\ exec.at \in Working =>
       exec.row \in DOMAIN rows /\ rows[exec.row].state = "running"
  /\ daemon # "down" /\ exec.at \notin Working => NoneRunning(rows)
  /\ daemon # "down" /\ Queued(rows) # {} => exec.at # "none"
  /\ daemon = "down" => exec.at = "none"

IInv == TypeOK /\ ServiceHolds

\* The states of the rows are different words.
LEMMA Words ==
  /\ "queued" \notin Terminal /\ "running" \notin Terminal
  /\ "queued" # "running"
  BY DEF Terminal

\* At most one run is running, and none before it waits.
LEMMA InTurnIsTurnwise ==
  ASSUME NEW table \in Seq(Row), InTurn(table)
  PROVE  Fifo!Turnwise([i \in DOMAIN table |-> table[i].state])
  <1>1. DOMAIN table \subseteq Int
    BY SeqDomain
  <1>2. Terminal = Fifo!Ended
    BY DEF Terminal, Fifo!Ended
  <1>. QED
    BY <1>1, <1>2, Words DEF InTurn, Fifo!Turnwise

\* markTerminal writes one row.
LEMMA EndedType ==
  ASSUME NEW table \in Seq(Row), NEW r \in DOMAIN table,
         NEW st \in {"queued", "running"} \cup Terminal
  PROVE  /\ Ended(table, r, st) \in Seq(Row)
         /\ DOMAIN Ended(table, r, st) = DOMAIN table
         /\ Len(Ended(table, r, st)) = Len(table)
         /\ \A i \in DOMAIN table :
              Ended(table, r, st)[i].state = IF i = r THEN st
                                             ELSE table[i].state
  <1>1. table[r] \in Row
    BY SeqDomain
  <1>2. [table[r] EXCEPT !.state = st] \in Row
    BY <1>1 DEF Row
  <1>3. [table[r] EXCEPT !.state = st].state = st
    BY <1>1 DEF Row
  <1>4. Ended(table, r, st) = [table EXCEPT ![r] = [table[r] EXCEPT !.state = st]]
    BY DEF Ended
  <1>. QED
    BY <1>2, <1>3, <1>4, UpdateSeq

\* What the executor leaves of a table it takes a run from.
TakenFrom(table) ==
  /\ rows' \in Seq(Row)
  /\ DOMAIN rows' = DOMAIN table /\ Len(rows') = Len(table)
  /\ InTurn(rows')
  /\ exec' \in [at: Places, row: Nat, turn: Nat]
  /\ \A i \in DOMAIN table :
       \/ rows'[i].state = table[i].state
       \/ table[i].state = "queued" /\ rows'[i].state = "running"
  /\ \/ /\ exec'.at = "sending" /\ exec'.row \in DOMAIN rows'
        /\ rows'[exec'.row].state = "running"
     \/ /\ exec'.at = "leaving" /\ NoneRunning(rows')
        /\ Queued(rows') = {}

\* The executor takes the first waiting run, if there is one.
LEMMA TakeNextOutcome ==
  ASSUME NEW table \in Seq(Row), InTurn(table), NoneRunning(table),
         TakeNext(table)
  PROVE  TakenFrom(table)
  <1>1. ASSUME Queued(table) = {}, rows' = table,
               exec' = [Idle EXCEPT !.at = "leaving"]
        PROVE  TakenFrom(table)
    <2>1. exec' = [at |-> "leaving", row |-> 0, turn |-> NoTurn]
      BY <1>1 DEF Idle
    <2>. QED
      BY <2>1, <1>1 DEF TakenFrom, Places, NoTurn
  <1>2. ASSUME NEW r \in Queued(table), \A j \in Queued(table) : r <= j,
               rows' = Ended(table, r, "running"),
               exec' = [at |-> "sending", row |-> r, turn |-> NoTurn]
        PROVE  TakenFrom(table)
    <2>5. r \in DOMAIN table /\ r \in Nat /\ table[r].state = "queued"
      BY SeqDomain DEF Queued
    <2>6. /\ rows' \in Seq(Row)
          /\ DOMAIN rows' = DOMAIN table /\ Len(rows') = Len(table)
          /\ \A i \in DOMAIN table :
               rows'[i].state = IF i = r THEN "running" ELSE table[i].state
      <3>1. PICK run \in {"queued", "running"} \cup Terminal : run = "running"
        OBVIOUS
      <3>2. rows' = Ended(table, r, run)
        BY <1>2, <3>1
      <3>. QED
        BY <2>5, <3>1, <3>2, EndedType
    <2>7. InTurn(rows')
      <3>. SUFFICES ASSUME NEW i \in DOMAIN table, NEW j \in DOMAIN table,
                           i < j, rows'[j].state # "queued"
                    PROVE  rows'[i].state \in Terminal
        BY <2>6 DEF InTurn
      <3>1. i \in Int /\ j \in Int /\ table[i] \in Row
        BY SeqDomain
      <3>2. CASE j = r
        <4>1. i \notin Queued(table)
          BY <3>1, <3>2, <1>2
        <4>2. table[i].state # "queued" /\ table[i].state # "running"
          BY <4>1 DEF Queued, NoneRunning
        <4>. QED
          BY <4>2, <3>1, <3>2, <2>6 DEF Row
      <3>3. CASE j # r
        <4>1. table[i].state \in Terminal
          BY <3>3, <2>6 DEF InTurn
        <4>. QED
          BY <4>1, <2>5, <2>6, Words
      <3>. QED
        BY <3>2, <3>3
    <2>. QED
      BY <1>2, <2>5, <2>6, <2>7 DEF TakenFrom, Places, NoTurn
  <1>. QED
    BY <1>1, <1>2 DEF TakeNext

\* What a step may do to the rows: each stays as it is, is taken up, or ends;
\* new ones come at the end; and all remain in turn.
RowsMove ==
  /\ rows' \in Seq(Row) /\ Len(rows') >= Len(rows) /\ InTurn(rows')
  /\ \A i \in DOMAIN rows :
       \/ rows'[i].state = rows[i].state
       \/ rows[i].state = "queued" /\ rows'[i].state = "running"
       \/ rows[i].state = "running" /\ rows'[i].state \in Terminal
  /\ \A i \in DOMAIN rows' \ DOMAIN rows :
       rows'[i].state \in {"queued", "running"}

Executor0 == exec \in [at: Places, row: Nat, turn: Nat]

\* The obligations of a step towards the queue.
QueueStep == RowsMove /\ Executor0' /\ ServiceHolds'

\* Where nothing happens to the queue, there is nothing to show.
LEMMA QueueKept ==
  ASSUME IInv, rows' = rows, exec' = exec, daemon' = daemon
  PROVE  QueueStep
  BY DEF IInv, TypeOK, ServiceHolds, QueueStep, RowsMove, Executor0, Queued

\* The executor is elsewhere in the work on the same row.
LEMMA ExecutorMoves ==
  ASSUME IInv, rows' = rows, daemon' = daemon, Executor0',
         exec.at \in Working, exec'.at \in Working, exec'.row = exec.row
  PROVE  QueueStep
  <1>1. daemon # "down" /\ exec'.at # "none"
    BY DEF IInv, ServiceHolds, Working
  <1>. QED
    BY <1>1 DEF IInv, TypeOK, ServiceHolds, QueueStep, RowsMove, Queued

\* The executor takes its next run.
LEMMA ExecutorTakes ==
  ASSUME IInv, NEW table, Settled(table), TakeNext(table), daemon' # "down"
  PROVE  QueueStep
  <1>1. TakenFrom(table)
    BY TakeNextOutcome DEF Settled
  <1>2. /\ rows \in Seq(Row) /\ table \in Seq(Row)
        /\ DOMAIN rows \subseteq DOMAIN table
    <2>1. rows \in Seq(Row) /\ table \in Seq(Row) /\ Len(rows) <= Len(table)
      BY DEF IInv, TypeOK, Settled
    <2>. QED
      BY <2>1, SeqDomain
  <1>3. RowsMove
    <2>1. /\ rows' \in Seq(Row) /\ InTurn(rows') /\ DOMAIN rows' = DOMAIN table
          /\ Len(rows') >= Len(rows)
      BY <1>1 DEF TakenFrom, Settled
    <2>2. ASSUME NEW i \in DOMAIN rows
          PROVE  \/ rows'[i].state = rows[i].state
                 \/ rows[i].state = "queued" /\ rows'[i].state = "running"
                 \/ rows[i].state = "running" /\ rows'[i].state \in Terminal
      BY <1>1, <1>2, Words DEF TakenFrom, Settled
    <2>3. ASSUME NEW i \in DOMAIN rows' \ DOMAIN rows
          PROVE  rows'[i].state \in {"queued", "running"}
      BY <1>1, <2>1 DEF TakenFrom, Settled
    <2>. QED
      BY <2>1, <2>2, <2>3 DEF RowsMove
  <1>4. ServiceHolds'
    BY <1>1 DEF TakenFrom, ServiceHolds, Working
  <1>. QED
    BY <1>1, <1>3, <1>4 DEF TakenFrom, QueueStep, Executor0

\* The run in work ends, and the executor goes on.
LEMMA EndedIsSettled ==
  ASSUME IInv, exec.at \in Working, NEW st \in Terminal
  PROVE  Settled(Ended(rows, exec.row, st))
  <1>. DEFINE r == exec.row
  <1>1. /\ rows \in Seq(Row) /\ InTurn(rows)
        /\ r \in DOMAIN rows /\ rows[r].state = "running"
    BY DEF IInv, TypeOK, ServiceHolds
  <1>. HIDE DEF r
  <1>. DEFINE table == Ended(rows, r, st)
  <1>2. /\ table \in Seq(Row)
        /\ DOMAIN table = DOMAIN rows
        /\ Len(table) = Len(rows)
        /\ \A i \in DOMAIN rows :
             table[i].state = IF i = r THEN st ELSE rows[i].state
    <2>1. st \in {"queued", "running"} \cup Terminal
      OBVIOUS
    <2>. QED
      BY <1>1, <2>1, EndedType
  <1>. HIDE DEF table
  <1>3. DOMAIN rows = 1..Len(rows) /\ Len(rows) \in Nat
    BY <1>1, SeqDomain
  <1>4. NoneRunning(table)
    <2>. SUFFICES ASSUME NEW i \in DOMAIN rows, table[i].state = "running"
                  PROVE  FALSE
      BY <1>2 DEF NoneRunning
    <2>1. i # r /\ rows[i].state = "running"
      BY <1>2, Words
    <2>2. i < r \/ r < i
      BY <1>1, <1>3, <2>1
    <2>. QED
      BY <1>1, <2>1, <2>2, Words DEF InTurn
  <1>5. InTurn(table)
    <2>. SUFFICES ASSUME NEW i \in DOMAIN rows, NEW j \in DOMAIN rows,
                         i < j, table[j].state # "queued"
                  PROVE  table[i].state \in Terminal
      BY <1>2 DEF InTurn
    <2>1. rows[j].state # "queued"
      BY <1>1, <1>2, Words
    <2>2. rows[i].state \in Terminal
      BY <1>1, <2>1 DEF InTurn
    <2>. QED
      BY <1>2, <2>2
  <1>. QED
    BY <1>1, <1>2, <1>3, <1>4, <1>5 DEF Settled, r, table

-----------------------------------------------------------------------------
(* Types of the session *)

\* What the types say of the last session object.
LEMMA CurrentType ==
  ASSUME SessionTypeOK
  PROVE  /\ Current \in DOMAIN objects /\ Current \in Nat
         /\ Session \in Object
         /\ \A o \in DOMAIN objects : objects[o] \in Object
         /\ \A k \in DOMAIN turns : turns[k] \in Turn
         /\ \A i \in DOMAIN pending : pending[i] \in Entry
  <1>1. objects \in Seq(Object) /\ objects # <<>>
    BY DEF SessionTypeOK
  <1>2. Len(objects) \in Nat /\ Len(objects) # 0
    BY <1>1
  <1>3. Current \in DOMAIN objects /\ Current \in Nat
    BY <1>1, <1>2, SeqDomain DEF Current
  <1>. QED
    BY <1>1, <1>3, SeqDomain DEF Session, SessionTypeOK

\* Objects are changed one at a time.
Objects == objects' \in Seq(Object) /\ objects' # <<>>

LEMMA ObjectChanged ==
  ASSUME SessionTypeOK, NEW o, NEW e, o \in DOMAIN objects => e \in Object,
         objects' = [objects EXCEPT ![o] = e]
  PROVE  Objects
  <1>1. objects \in Seq(Object) /\ objects # <<>>
    BY DEF SessionTypeOK
  <1>2. objects' \in Seq(Object) /\ Len(objects') = Len(objects)
    BY <1>1, UpdateSeq
  <1>. QED
    BY <1>1, <1>2 DEF Objects

\* A call of runTurn changes phase, finish, texts or awaited.
LEMMA TurnChanged ==
  ASSUME SessionTypeOK, NEW k \in DOMAIN turns, NEW e \in Turn,
         turns' = [turns EXCEPT ![k] = e]
  PROVE  turns' \in Seq(Turn) /\ Len(turns') = Len(turns)
  BY UpdateSeq DEF SessionTypeOK

LEMMA PhaseChanged ==
  ASSUME SessionTypeOK, NEW k \in DOMAIN turns, NEW ph \in TurnPhases,
         To(k, ph)
  PROVE  turns' \in Seq(Turn) /\ Len(turns') = Len(turns)
  <1>1. turns[k] \in Turn
    BY CurrentType
  <1>2. [turns[k] EXCEPT !.phase = ph] \in Turn
    BY <1>1 DEF Turn
  <1>3. turns' = [turns EXCEPT ![k] = [turns[k] EXCEPT !.phase = ph]]
    BY DEF To
  <1>. QED
    BY <1>2, <1>3, TurnChanged

\* A call ends in a way.
LEMMA FinishChanged ==
  ASSUME SessionTypeOK, NEW k \in DOMAIN turns, NEW ph \in TurnPhases,
         NEW f \in Finishes \cup {"none", "rejected"},
         turns' = [turns EXCEPT ![k].phase = ph, ![k].finish = f]
  PROVE  turns' \in Seq(Turn) /\ Len(turns') = Len(turns)
  <1>1. turns[k] \in Turn
    BY CurrentType
  <1>2. [turns[k] EXCEPT !.phase = ph, !.finish = f] \in Turn
    BY <1>1 DEF Turn
  <1>3. turns' = [turns EXCEPT ![k] =
                    [turns[k] EXCEPT !.phase = ph, !.finish = f]]
    BY UpdateSeq DEF SessionTypeOK
  <1>. QED
    BY <1>2, <1>3, TurnChanged

\* A new call is recorded.
LEMMA TurnAdded ==
  ASSUME SessionTypeOK, NEW by \in {"row", "direct", "drain"}, NEW row \in Nat,
         NEW text \in Texts, NEW ph \in TurnPhases,
         turns' = Append(turns, NewTurn(by, row, text, ph))
  PROVE  /\ turns' \in Seq(Turn) /\ Len(turns') = Len(turns) + 1
         /\ turns'[Len(turns) + 1].phase = ph
  <1>1. <<text>> \in Seq(Texts)
    OBVIOUS
  <1>2. NewTurn(by, row, text, ph) \in Turn
    BY <1>1, CurrentType DEF NewTurn, Turn
  <1>3. NewTurn(by, row, text, ph).phase = ph
    BY DEF NewTurn
  <1>. QED
    BY <1>2, <1>3, AppendSeq DEF SessionTypeOK

\* enqueue keeps a list of prompts.
LEMMA EnqueuedType ==
  ASSUME SessionTypeOK, NEW entry \in Entry
  PROVE  Enqueued(entry) \in Seq(Entry)
  <1>. DEFINE same == {i \in DOMAIN pending : pending[i].text = entry.text}
              it == CHOOSE i \in same : TRUE
              rest == IF same = {} THEN pending ELSE RemoveAt(pending, it)
              steer == entry.steer \/ (same # {} /\ pending[it].steer)
  <1>1. pending \in Seq(Entry)
    BY DEF SessionTypeOK
  <1>2. rest \in Seq(Entry)
    <2>1. CASE same = {}
      BY <2>1, <1>1
    <2>2. CASE same # {}
      <3>1. it \in DOMAIN pending
        BY <2>2
      <3>. HIDE DEF it
      <3>. QED
        BY <3>1, <2>2, <1>1, RemoveAtSeq
    <2>. QED
      BY <2>1, <2>2
  <1>. HIDE DEF rest, steer
  <1>3. [entry EXCEPT !.steer = TRUE] \in Entry
    BY DEF Entry
  <1>4. /\ <<[entry EXCEPT !.steer = TRUE]>> \o rest \in Seq(Entry)
        /\ Append(rest, entry) \in Seq(Entry)
    BY <1>2, <1>3, ConsSeq, AppendSeq
  <1>5. Enqueued(entry) = IF steer THEN <<[entry EXCEPT !.steer = TRUE]>> \o rest
                          ELSE Append(rest, entry)
    BY DEF Enqueued, rest, steer
  <1>. QED
    BY <1>4, <1>5

-----------------------------------------------------------------------------
(* Each operation on the session keeps its types *)

\* Steps that leave the objects alone, or the list, or both.
LEMMA TypesFrom ==
  ASSUME Objects, turns' \in Seq(Turn), pending' \in Seq(Entry),
         replaying' \in Nat, due' \in BOOLEAN
  PROVE  SessionTypeOK'
  BY DEF SessionTypeOK, Objects

LEMMA ObjectsKept ==
  ASSUME SessionTypeOK, UNCHANGED objects
  PROVE  Objects
  BY DEF SessionTypeOK, Objects

\* The flags of an object change.
LEMMA FlagsChanged ==
  ASSUME SessionTypeOK, NEW o, NEW a \in BOOLEAN, NEW b \in BOOLEAN
  PROVE  /\ [objects EXCEPT ![o].aborting = a, ![o].stopped = b] \in Seq(Object)
         /\ Len([objects EXCEPT ![o].aborting = a, ![o].stopped = b])
              = Len(objects)
  <1>. DEFINE e == [objects[o] EXCEPT !.aborting = a, !.stopped = b]
              table == [objects EXCEPT ![o].aborting = a, ![o].stopped = b]
  <1>1. o \in DOMAIN objects => e \in Object
    BY CurrentType DEF Object
  <1>2. table = [objects EXCEPT ![o] = e]
    BY UpdateSeq DEF SessionTypeOK
  <1>. HIDE DEF e
  <1>3. /\ [objects EXCEPT ![o] = e] \in Seq(Object)
        /\ Len([objects EXCEPT ![o] = e]) = Len(objects)
    BY <1>1, UpdateSeq DEF SessionTypeOK
  <1>. HIDE DEF table
  <1>4. table \in Seq(Object) /\ Len(table) = Len(objects)
    BY <1>2, <1>3
  <1>. QED
    BY <1>4 DEF table

\* A prompt begins.
LEMMA BeginType ==
  ASSUME SessionTypeOK, NEW by \in {"row", "direct", "drain"}, NEW row \in Nat,
         NEW text \in Texts, Begin(by, row, text)
  PROVE  SessionTypeOK'
  <1>1. turns' \in Seq(Turn)
    BY TurnAdded DEF Begin, TurnPhases
  <1>2. [Session EXCEPT !.aborting = FALSE] \in Object
    BY CurrentType DEF Object
  <1>3. objects' = [objects EXCEPT ![Current] = [Session EXCEPT !.aborting = FALSE]]
    BY DEF Begin, Session
  <1>4. Objects
    BY <1>2, <1>3, ObjectChanged
  <1>. QED
    BY <1>1, <1>4, TypesFrom DEF Begin, SessionTypeOK

\* A prompt is parked.
LEMMA ParkType ==
  ASSUME SessionTypeOK, NEW by \in {"row", "direct", "drain"}, NEW row \in Nat,
         NEW text \in Texts, NEW delivery, Park(by, row, text, delivery)
  PROVE  SessionTypeOK'
  <1>1. turns' \in Seq(Turn)
    BY TurnAdded DEF Park, TurnPhases
  <1>2. [text |-> text, steer |-> delivery = "steer"] \in Entry
    BY DEF Entry
  <1>3. pending' \in Seq(Entry) /\ due' \in BOOLEAN
    BY <1>2, EnqueuedType DEF Park, DrainFollows
  <1>. QED
    BY <1>1, <1>3, ObjectsKept, TypesFrom DEF Park, SessionTypeOK

LEMMA RunTurnType ==
  ASSUME SessionTypeOK, NEW by \in {"row", "direct", "drain"}, NEW row \in Nat,
         NEW text \in Texts, NEW delivery, RunTurn(by, row, text, delivery)
  PROVE  SessionTypeOK'
  BY BeginType, ParkType DEF RunTurn

\* A waiting prompt is replayed, or not.
LEMMA DrainType ==
  ASSUME SessionTypeOK, Drain
  PROVE  SessionTypeOK'
  <1>1. CASE Mapped /\ DrainFollows(pending)
    <2>1. pending \in Seq(Entry) /\ pending # <<>>
      BY <1>1 DEF SessionTypeOK, DrainFollows
    <2>2. Head(pending) \in Entry /\ Tail(pending) \in Seq(Entry)
      BY <2>1
    <2>3. Head(pending).text \in Texts
      BY <2>2 DEF Entry
    <2>4. /\ turns' = Append(turns, NewTurn("drain", 0, Head(pending).text, "prep"))
          /\ pending' = Tail(pending) /\ replaying' = Len(turns) + 1
      BY <1>1 DEF Drain
    <2>5. turns' \in Seq(Turn)
      BY <2>3, <2>4, TurnAdded DEF TurnPhases
    <2>6. replaying' \in Nat
      BY <2>4, SeqDomain DEF SessionTypeOK
    <2>. QED
      BY <2>2, <2>4, <2>5, <2>6, ObjectsKept, TypesFrom DEF Drain
  <1>2. CASE ~(Mapped /\ DrainFollows(pending))
    <2>1. UNCHANGED <<pending, replaying, turns, objects>> /\ due' = FALSE
      BY <1>2 DEF Drain
    <2>. QED
      BY <2>1, ObjectsKept, TypesFrom DEF SessionTypeOK
  <1>. QED
    BY <1>1, <1>2

\* An abort by shutdownSession, and the end of the agent.
LEMMA AbortUnabortedType ==
  ASSUME SessionTypeOK, NEW o
  PROVE  /\ AbortUnaborted(o) \in Seq(Object)
         /\ Len(AbortUnaborted(o)) = Len(objects)
  <1>. DEFINE abort == ~objects[o].aborting /\ ~CanStartRun(o)
              a == objects[o].aborting \/ abort
              b == objects[o].stopped \/ (abort /\ Busy(o))
  <1>1. a \in BOOLEAN /\ b \in BOOLEAN
    OBVIOUS
  <1>2. AbortUnaborted(o) = [objects EXCEPT ![o].aborting = a, ![o].stopped = b]
    BY DEF AbortUnaborted
  <1>. HIDE DEF a, b
  <1>. QED
    BY <1>1, <1>2, FlagsChanged

LEMMA AgentShutType ==
  ASSUME SessionTypeOK, NEW o
  PROVE  AgentShut(o) \in Seq(Object) /\ Len(AgentShut(o)) = Len(objects)
  <1>. DEFINE a == objects[o].shut \/ ~Busy(o)
              e == [objects[o] EXCEPT !.shut = a]
  <1>1. a \in BOOLEAN
    OBVIOUS
  <1>2. AgentShut(o) = [objects EXCEPT ![o] = e]
    BY DEF AgentShut
  <1>. HIDE DEF a
  <1>3. o \in DOMAIN objects => e \in Object
    BY <1>1, CurrentType DEF Object
  <1>. HIDE DEF e
  <1>. QED
    BY <1>2, <1>3, UpdateSeq DEF SessionTypeOK

\* The table of objects keeps its length.
LEMMA ObjectsFrom ==
  ASSUME SessionTypeOK, objects' \in Seq(Object), Len(objects') = Len(objects)
  PROVE  Objects
  BY DEF SessionTypeOK, Objects

LEMMA StoppedChanged ==
  ASSUME SessionTypeOK, NEW o, NEW b, o \in DOMAIN objects => b \in BOOLEAN,
         objects' = [objects EXCEPT ![o].stopped = b]
  PROVE  Objects
  <1>. DEFINE e == [objects[o] EXCEPT !.stopped = b]
  <1>1. o \in DOMAIN objects => e \in Object
    BY CurrentType DEF Object
  <1>2. objects' = [objects EXCEPT ![o] = e]
    OBVIOUS
  <1>. HIDE DEF e
  <1>. QED
    BY <1>1, <1>2, ObjectChanged

LEMMA AbortingChanged ==
  ASSUME SessionTypeOK, NEW o, NEW b \in BOOLEAN,
         objects' = [objects EXCEPT ![o].aborting = b]
  PROVE  Objects
  <1>. DEFINE e == [objects[o] EXCEPT !.aborting = b]
  <1>1. o \in DOMAIN objects => e \in Object
    BY CurrentType DEF Object
  <1>2. objects' = [objects EXCEPT ![o] = e]
    OBVIOUS
  <1>. HIDE DEF e
  <1>. QED
    BY <1>1, <1>2, ObjectChanged

\* The turn's promise rejects.
LEMMA ThrowType ==
  ASSUME SessionTypeOK, NEW k \in DOMAIN turns, Throw(k)
  PROVE  Objects /\ turns' \in Seq(Turn)
  <1>. DEFINE o == turns[k].object
  <1>1. CASE objects[o].aborting
    <2>1. turns' = [turns EXCEPT ![k].phase = "wind", ![k].finish = "aborted"]
      BY <1>1 DEF Throw
    <2>2. turns' \in Seq(Turn)
      BY <2>1, FinishChanged DEF TurnPhases, Finishes
    <2>3. \/ objects' = [objects EXCEPT ![o].stopped = FALSE]
          \/ UNCHANGED objects
      BY <1>1 DEF Throw
    <2>. HIDE DEF o
    <2>. QED
      BY <2>2, <2>3, StoppedChanged, ObjectsKept
  <1>2. CASE ~objects[o].aborting
    <2>1. To(k, "failing") /\ objects' = AbortUnaborted(o)
      BY <1>2 DEF Throw
    <2>2. turns' \in Seq(Turn)
      BY <2>1, PhaseChanged DEF TurnPhases
    <2>. HIDE DEF o
    <2>. QED
      BY <2>1, <2>2, AbortUnabortedType, ObjectsFrom
  <1>. QED
    BY <1>1, <1>2

LEMMA FailType ==
  ASSUME SessionTypeOK, NEW k \in DOMAIN turns, Fail(k)
  PROVE  SessionTypeOK'
  <1>1. Objects /\ turns' \in Seq(Turn)
    BY ThrowType DEF Fail
  <1>. QED
    BY <1>1, TypesFrom DEF Fail, SessionTypeOK

\* The agent starts.
LEMMA StartAgentType ==
  ASSUME SessionTypeOK, NEW k \in DOMAIN turns, StartAgent(k)
  PROVE  SessionTypeOK'
  <1>. DEFINE o == turns[k].object
  <1>1. Objects /\ turns' \in Seq(Turn)
    <2>1. CASE CanStartRun(o)
      <3>1. /\ To(k, "run")
            /\ objects' = [objects EXCEPT ![o].stopped = objects[o].aborting]
        BY <2>1 DEF StartAgent
      <3>2. o \in DOMAIN objects => objects[o].aborting \in BOOLEAN
        BY CurrentType DEF Object
      <3>3. turns' \in Seq(Turn)
        BY <3>1, PhaseChanged DEF TurnPhases
      <3>. HIDE DEF o
      <3>. DEFINE b == objects[o].aborting
      <3>. HIDE DEF b
      <3>4. objects' = [objects EXCEPT ![o].stopped = b]
        BY <3>1 DEF b
      <3>5. o \in DOMAIN objects => b \in BOOLEAN
        BY <3>2 DEF b
      <3>. QED
        BY <3>3, <3>4, <3>5, StoppedChanged
    <2>2. CASE ~CanStartRun(o)
      <3>1. Throw(k)
        BY <2>2 DEF StartAgent
      <3>. QED
        BY <3>1, ThrowType
    <2>. QED
      BY <2>1, <2>2
  <1>. QED
    BY <1>1, TypesFrom DEF StartAgent, SessionTypeOK

\* A steering prompt is taken into the turn.
LEMMA ConsumeSteerType ==
  ASSUME SessionTypeOK, NEW k \in DOMAIN turns, ConsumeSteer(k)
  PROVE  SessionTypeOK'
  <1>1. PICK i \in DOMAIN pending :
          /\ turns' = [turns EXCEPT ![k].texts = Append(@, pending[i].text)]
          /\ pending' = RemoveAt(pending, i)
    BY DEF ConsumeSteer
  <1>2. pending' \in Seq(Entry)
    BY <1>1, RemoveAtSeq DEF SessionTypeOK
  <1>. DEFINE text == pending[i].text
              list == Append(turns[k].texts, text)
              e == [turns[k] EXCEPT !.texts = list]
  <1>3. turns[k] \in Turn /\ text \in Texts
    BY CurrentType DEF Entry
  <1>4. list \in Seq(Texts)
    <2>1. turns[k].texts \in Seq(Texts)
      BY <1>3 DEF Turn
    <2>. HIDE DEF text
    <2>. QED
      BY <1>3, <2>1, AppendSeq
  <1>5. turns' = [turns EXCEPT ![k] = e]
    BY <1>1
  <1>. HIDE DEF list
  <1>6. e \in Turn
    BY <1>3, <1>4 DEF Turn
  <1>. HIDE DEF e
  <1>7. turns' \in Seq(Turn)
    BY <1>5, <1>6, TurnChanged
  <1>. QED
    BY <1>2, <1>7, ObjectsKept, TypesFrom DEF ConsumeSteer, SessionTypeOK

LEMMA AgentEndsType ==
  ASSUME SessionTypeOK, NEW k \in DOMAIN turns, NEW finish \in Finishes,
         AgentEnds(k, finish)
  PROVE  SessionTypeOK'
  <1>. DEFINE o == turns[k].object
  <1>1. turns' \in Seq(Turn)
    BY FinishChanged DEF AgentEnds, TurnPhases
  <1>2. objects' = [objects EXCEPT ![o].stopped = FALSE]
    BY DEF AgentEnds
  <1>. HIDE DEF o
  <1>3. Objects
    BY <1>2, StoppedChanged
  <1>. QED
    BY <1>1, <1>3, TypesFrom DEF AgentEnds, SessionTypeOK

LEMMA SettleType ==
  ASSUME SessionTypeOK, NEW k \in DOMAIN turns, Settle(k)
  PROVE  SessionTypeOK'
  <1>. DEFINE o == turns[k].object
  <1>1. turns' \in Seq(Turn)
    BY PhaseChanged DEF Settle, TurnPhases
  <1>2. objects' = [objects EXCEPT ![o].aborting = FALSE]
    BY DEF Settle
  <1>. HIDE DEF o
  <1>3. Objects
    BY <1>2, AbortingChanged
  <1>. QED
    BY <1>1, <1>3, TypesFrom DEF Settle, SessionTypeOK, NoTurn

LEMMA TearDownType ==
  ASSUME SessionTypeOK, NEW k \in DOMAIN turns, TearDown(k)
  PROVE  SessionTypeOK'
  <1>. DEFINE o == turns[k].object
  <1>1. turns' \in Seq(Turn)
    BY PhaseChanged DEF TearDown, TurnPhases
  <1>2. objects' = AgentShut(o)
    BY DEF TearDown
  <1>. HIDE DEF o
  <1>3. Objects
    BY <1>2, AgentShutType, ObjectsFrom
  <1>. QED
    BY <1>1, <1>3, TypesFrom DEF TearDown, SessionTypeOK

\* The session is deleted from the map.
LEMMA UnmapType ==
  ASSUME SessionTypeOK, NEW table \in Seq(Object), Len(table) = Len(objects),
         Unmap(table)
  PROVE  Objects /\ pending' \in Seq(Entry)
  <1>. DEFINE e == [table[Current] EXCEPT !.mapped = FALSE]
  <1>1. Current \in DOMAIN table => e \in Object
    <2>1. \A o \in DOMAIN table : table[o] \in Object
      BY SeqDomain
    <2>. QED
      BY <2>1 DEF Object
  <1>2. objects' = [table EXCEPT ![Current] = e]
    BY DEF Unmap
  <1>. HIDE DEF e
  <1>3. objects' \in Seq(Object) /\ Len(objects') = Len(table)
    BY <1>1, <1>2, UpdateSeq
  <1>. QED
    BY <1>3, ObjectsFrom DEF Unmap

LEMMA RejectType ==
  ASSUME SessionTypeOK, NEW k \in DOMAIN turns, Reject(k)
  PROVE  SessionTypeOK'
  <1>1. turns' \in Seq(Turn)
    BY FinishChanged DEF Reject, TurnPhases
  <1>2. Objects /\ pending' \in Seq(Entry)
    BY UnmapType DEF Reject, SessionTypeOK
  <1>. QED
    BY <1>1, <1>2, TypesFrom DEF Reject, SessionTypeOK, NoTurn

-----------------------------------------------------------------------------
(* What users do, and the end *)

LEMMA AbortEffectType ==
  ASSUME SessionTypeOK, AbortEffect
  PROVE  Objects /\ pending' \in Seq(Entry)
  <1>1. pending \in Seq(Entry) /\ <<>> \in Seq(Entry)
    BY DEF SessionTypeOK
  <1>2. pending' \in Seq(Entry)
    BY <1>1 DEF AbortEffect
  <1>3. CASE Mapped
    <2>. DEFINE b == Busy(Current)
    <2>1. b \in BOOLEAN /\ TRUE \in BOOLEAN
      BY DEF Busy
    <2>2. objects' = [objects EXCEPT ![Current].aborting = TRUE,
                                     ![Current].stopped = b]
      BY <1>3 DEF AbortEffect
    <2>. HIDE DEF b
    <2>3. objects' \in Seq(Object) /\ Len(objects') = Len(objects)
      BY <2>1, <2>2, FlagsChanged
    <2>. QED
      BY <1>2, <2>3, ObjectsFrom
  <1>4. CASE ~Mapped
    BY <1>2, <1>4, ObjectsKept DEF AbortEffect
  <1>. QED
    BY <1>3, <1>4

LEMMA AbortType ==
  ASSUME SessionTypeOK, Abort
  PROVE  SessionTypeOK'
  BY AbortEffectType, TypesFrom DEF Abort, SessionTypeOK

LEMMA RedeliverType ==
  ASSUME SessionTypeOK, NEW i \in DOMAIN pending, Redeliver(i)
  PROVE  SessionTypeOK'
  <1>. DEFINE entry == [pending[i] EXCEPT !.steer = ~@]
              rest == RemoveAt(pending, i)
              list == IF entry.steer THEN <<entry>> \o rest
                      ELSE Append(rest, entry)
  <1>1. entry \in Entry
    BY CurrentType DEF Entry
  <1>2. rest \in Seq(Entry)
    BY RemoveAtSeq DEF SessionTypeOK
  <1>3. pending' = list /\ due' = DrainFollows(list)
    BY DEF Redeliver
  <1>. HIDE DEF entry, rest
  <1>4. list \in Seq(Entry)
    BY <1>1, <1>2, ConsSeq, AppendSeq
  <1>. HIDE DEF list
  <1>5. due' \in BOOLEAN
    BY <1>3 DEF DrainFollows
  <1>. QED
    BY <1>3, <1>4, <1>5, ObjectsKept, TypesFrom DEF Redeliver, SessionTypeOK

LEMMA DeletePendingType ==
  ASSUME SessionTypeOK, NEW i \in DOMAIN pending, DeletePending(i)
  PROVE  SessionTypeOK'
  <1>1. /\ pending' = RemoveAt(pending, i)
        /\ due' = DrainFollows(RemoveAt(pending, i))
    BY DEF DeletePending
  <1>2. pending' \in Seq(Entry) /\ due' \in BOOLEAN
    BY <1>1, RemoveAtSeq DEF SessionTypeOK, DrainFollows
  <1>. QED
    BY <1>2, ObjectsKept, TypesFrom DEF DeletePending, SessionTypeOK

LEMMA StopSessionType ==
  ASSUME SessionTypeOK, StopSession
  PROVE  SessionTypeOK'
  <1>. DEFINE a == Session.aborting \/ ~CanStartRun(Current)
              b == Session.stopped \/ Busy(Current)
              e == [Session EXCEPT !.stop = "closing", !.aborting = a,
                                   !.stopped = b]
  <1>1. a \in BOOLEAN /\ b \in BOOLEAN
    OBVIOUS
  <1>2. objects' = [objects EXCEPT ![Current] = e]
    BY UpdateSeq DEF StopSession, Session, SessionTypeOK
  <1>. HIDE DEF a, b
  <1>3. e \in Object
    BY <1>1, CurrentType DEF Object
  <1>. HIDE DEF e
  <1>4. Objects
    BY <1>2, <1>3, ObjectChanged
  <1>. QED
    BY <1>4, TypesFrom DEF StopSession, SessionTypeOK

LEMMA DisposeEffectType ==
  ASSUME SessionTypeOK, DisposeEffect
  PROVE  Objects
  <1>1. CASE Mapped
    <2>. DEFINE table == AbortUnaborted(Current)
                st == IF table[Current].stop = "none" THEN "closing"
                      ELSE table[Current].stop
                e == [table[Current] EXCEPT !.stop = st]
    <2>1. objects' = [table EXCEPT ![Current] = e]
      BY <1>1 DEF DisposeEffect
    <2>2. table \in Seq(Object) /\ Len(table) = Len(objects)
      BY AbortUnabortedType
    <2>. HIDE DEF table
    <2>3. Current \in DOMAIN table => table[Current] \in Object
      BY <2>2, SeqDomain
    <2>4. Current \in DOMAIN table => e \in Object
      BY <2>3 DEF Object
    <2>. HIDE DEF e
    <2>5. objects' \in Seq(Object) /\ Len(objects') = Len(table)
      BY <2>1, <2>2, <2>4, UpdateSeq
    <2>. QED
      BY <2>2, <2>5, ObjectsFrom
  <1>2. CASE ~Mapped
    BY <1>2, ObjectsKept DEF DisposeEffect
  <1>. QED
    BY <1>1, <1>2

LEMMA ShutAgentType ==
  ASSUME SessionTypeOK, NEW o \in DOMAIN objects, ShutAgent(o)
  PROVE  SessionTypeOK'
  <1>. DEFINE table == AgentShut(o)
              e == [table[o] EXCEPT !.stop = "torn"]
  <1>1. objects' = [table EXCEPT ![o] = e]
    BY DEF ShutAgent
  <1>2. table \in Seq(Object) /\ Len(table) = Len(objects)
    BY AgentShutType
  <1>. HIDE DEF table
  <1>3. o \in DOMAIN table => e \in Object
    <2>1. o \in DOMAIN table => table[o] \in Object
      BY <1>2, SeqDomain
    <2>. QED
      BY <2>1 DEF Object
  <1>. HIDE DEF e
  <1>4. objects' \in Seq(Object) /\ Len(objects') = Len(table)
    BY <1>1, <1>2, <1>3, UpdateSeq
  <1>5. Objects
    BY <1>2, <1>4, ObjectsFrom
  <1>. QED
    BY <1>5, TypesFrom DEF ShutAgent, SessionTypeOK

LEMMA DropSessionType ==
  ASSUME SessionTypeOK, NEW o \in DOMAIN objects, DropSession(o)
  PROVE  SessionTypeOK'
  <1>. DEFINE e == [objects[o] EXCEPT !.stop = "over"]
              table == [objects EXCEPT ![o] = e]
  <1>1. Unmap(table)
    BY DEF DropSession
  <1>2. e \in Object
    BY CurrentType DEF Object
  <1>. HIDE DEF e
  <1>3. table \in Seq(Object) /\ Len(table) = Len(objects)
    BY <1>2, UpdateSeq DEF SessionTypeOK
  <1>. HIDE DEF table
  <1>4. Objects /\ pending' \in Seq(Entry)
    BY <1>1, <1>3, UnmapType
  <1>. QED
    BY <1>4, TypesFrom DEF DropSession, SessionTypeOK

LEMMA ResumeType ==
  ASSUME SessionTypeOK, Resume
  PROVE  SessionTypeOK'
  <1>1. Fresh \in Object
    BY DEF Fresh, Object
  <1>2. objects' \in Seq(Object) /\ Len(objects') = Len(objects) + 1
    BY <1>1, AppendSeq DEF Resume, SessionTypeOK
  <1>3. Len(objects) \in Nat
    BY DEF SessionTypeOK
  <1>4. Objects
    BY <1>2, <1>3 DEF Objects
  <1>. QED
    BY <1>4, TypesFrom DEF Resume, SessionTypeOK, NoTurn

LEMMA LoseSessionType ==
  ASSUME SessionTypeOK, LoseSession
  PROVE  SessionTypeOK'
  <1>1. [Fresh EXCEPT !.mapped = FALSE] \in Object
    BY DEF Fresh, Object
  <1>2. objects' \in [1..Len(objects) -> Object]
    BY <1>1, SeqDomain DEF LoseSession, SessionTypeOK
  <1>3. Objects
    BY <1>2, FunIsSeq, ObjectsFrom, SeqDomain DEF SessionTypeOK
  <1>4. turns' \in [1..Len(turns) -> Turn]
    <2>1. \A k \in DOMAIN turns : [turns[k] EXCEPT !.phase = "dead"] \in Turn
      BY CurrentType DEF Turn, TurnPhases
    <2>2. DOMAIN turns = 1..Len(turns)
      BY SeqDomain DEF SessionTypeOK
    <2>. QED
      BY <2>1, <2>2, CurrentType DEF LoseSession
  <1>5. turns' \in Seq(Turn)
    BY <1>4, FunIsSeq, SeqDomain DEF SessionTypeOK
  <1>6. pending' = <<>> /\ replaying' = 0 /\ due' = FALSE
    BY Zenon DEF LoseSession, NoTurn
  <1>7. pending' \in Seq(Entry) /\ replaying' \in Nat
    BY <1>6
  <1>8. due' \in BOOLEAN
    BY <1>6, Zenon
  <1>. QED
    BY <1>3, <1>5, <1>7, <1>8, TypesFrom

-----------------------------------------------------------------------------
(* Each step keeps the invariant *)

Ok == /\ SessionTypeOK'
      /\ QueueStep
      /\ daemon' \in {"up", "stopping", "down"}
      /\ draining' \in BOOLEAN
      /\ upsets' \in Nat

LEMMA OkKeepsInv ==
  ASSUME Ok
  PROVE  IInv' /\ RowsMove
  BY DEF Ok, QueueStep, RowsMove, Executor0, IInv, TypeOK

LEMMA UpsetType ==
  ASSUME TypeOK, NEW kind, Upset(kind)
  PROVE  upsets' \in Nat
  BY DEF TypeOK, Upset

\* Steps of the session alone.
LEMMA SessionOnly ==
  ASSUME IInv, SessionTypeOK', UNCHANGED queueVars, upsets' \in Nat
  PROVE  Ok
  <1>1. QueueStep
    BY QueueKept DEF queueVars
  <1>. QED
    BY <1>1 DEF Ok, queueVars, IInv, TypeOK

\* Steps of the queue alone.
LEMMA QueueOnly ==
  ASSUME IInv, QueueStep, UNCHANGED <<sessionVars, daemon, draining>>,
         upsets' \in Nat
  PROVE  Ok
  <1>1. SessionTypeOK'
    BY DEF IInv, TypeOK, SessionTypeOK, sessionVars
  <1>. QED
    BY <1>1 DEF Ok, IInv, TypeOK

\* The run in work ends and the next one is taken.
LEMMA EndsAndTakes ==
  ASSUME IInv, exec.at \in Working, NEW st \in Terminal,
         TakeNext(Ended(rows, exec.row, st)), UNCHANGED daemon
  PROVE  QueueStep
  <1>1. Settled(Ended(rows, exec.row, st))
    BY EndedIsSettled
  <1>2. daemon' # "down"
    BY DEF IInv, ServiceHolds, Working
  <1>. QED
    BY <1>1, <1>2, ExecutorTakes

\* Enqueue: the run is appended, and taken up if nobody is at work.
LEMMA EnqueueOk ==
  ASSUME IInv, NEW text \in RunTexts, NEW delivery \in RunDeliveries,
         Enqueue(text, delivery)
  PROVE  Ok
  <1>. DEFINE new == [text |-> text, delivery |-> delivery, state |-> "queued"]
              table == Append(rows, new)
  <1>1. rows \in Seq(Row) /\ InTurn(rows) /\ Len(rows) \in Nat
    BY DEF IInv, TypeOK, ServiceHolds
  <1>2. new \in Row /\ new.state = "queued"
    BY TextsAssumption DEF Row
  <1>3. Pump(table)
    BY DEF Enqueue
  <1>. HIDE DEF new
  <1>4. /\ table \in Seq(Row) /\ Len(table) = Len(rows) + 1
        /\ DOMAIN rows = 1..Len(rows)
        /\ DOMAIN table = 1..(Len(rows) + 1)
        /\ \A i \in DOMAIN rows : table[i] = rows[i]
        /\ table[Len(rows) + 1].state = "queued"
    BY <1>1, <1>2, AppendSeq, SeqDomain
  <1>. HIDE DEF table
  <1>5. \A i \in DOMAIN table \ DOMAIN rows : table[i].state = "queued"
    BY <1>1, <1>4
  <1>6. InTurn(table)
    <2>. SUFFICES ASSUME NEW i \in DOMAIN table, NEW j \in DOMAIN table,
                         i < j, table[j].state # "queued"
                  PROVE  table[i].state \in Terminal
      BY DEF InTurn
    <2>1. j \in DOMAIN rows
      BY <1>5
    <2>2. i \in DOMAIN rows
      BY <2>1, <1>1, <1>4
    <2>. QED
      BY <2>1, <2>2, <1>1, <1>4 DEF InTurn
  <1>7. QueueStep
    <2>1. CASE exec.at = "none"
      <3>1. NoneRunning(rows)
        BY <2>1 DEF IInv, ServiceHolds, Working, Enqueue
      <3>2. NoneRunning(table)
        BY <3>1, <1>4, <1>5 DEF NoneRunning
      <3>3. Settled(table)
        BY <3>2, <1>1, <1>4, <1>5, <1>6 DEF Settled
      <3>4. TakeNext(table) /\ daemon' # "down"
        BY <2>1, <1>3 DEF Pump, Enqueue
      <3>. QED
        BY <3>3, <3>4, ExecutorTakes
    <2>2. CASE exec.at # "none"
      <3>1. rows' = table /\ exec' = exec /\ daemon' = daemon
        BY <2>2, <1>3 DEF Pump, Enqueue
      <3>2. RowsMove
        BY <3>1, <1>1, <1>4, <1>5, <1>6 DEF RowsMove
      <3>3. exec.at \in Working =>
              exec.row \in DOMAIN table /\ table[exec.row].state = "running"
        BY <1>1, <1>4 DEF IInv, ServiceHolds
      <3>4. exec.at \notin Working => NoneRunning(table)
        BY <1>4, <1>5 DEF IInv, ServiceHolds, NoneRunning, Enqueue
      <3>5. ServiceHolds'
        BY <3>1, <3>3, <3>4, <2>2, <1>6 DEF ServiceHolds, Enqueue
      <3>. QED
        BY <3>1, <3>2, <3>5 DEF QueueStep, Executor0, IInv, TypeOK
    <2>. QED
      BY <2>1, <2>2
  <1>. QED
    BY <1>7, QueueOnly DEF Enqueue, IInv, TypeOK

LEMMA RunStartOk ==
  ASSUME IInv, NEW text \in DirectTexts, NEW delivery \in Deliveries,
         RunStart(text, delivery)
  PROVE  Ok
  <1>1. SessionTypeOK'
    BY RunTurnType, TextsAssumption DEF RunStart, IInv, TypeOK
  <1>. QED
    BY <1>1, SessionOnly, UpsetType DEF RunStart, IInv

LEMMA AbortRunOk ==
  ASSUME IInv, AbortRun
  PROVE  Ok
  <1>1. SessionTypeOK'
    BY AbortType DEF AbortRun, IInv, TypeOK
  <1>. QED
    BY <1>1, SessionOnly, UpsetType DEF AbortRun, IInv

LEMMA EditPromptsOk ==
  ASSUME IInv, EditPrompts
  PROVE  Ok
  <1>1. SessionTypeOK'
    BY RedeliverType, DeletePendingType DEF EditPrompts, IInv, TypeOK
  <1>. QED
    BY <1>1, SessionOnly, UpsetType DEF EditPrompts, IInv

LEMMA ResumeSessionOk ==
  ASSUME IInv, ResumeSession
  PROVE  Ok
  <1>1. SessionTypeOK'
    BY ResumeType DEF ResumeSession, IInv, TypeOK
  <1>. QED
    BY <1>1, SessionOnly DEF ResumeSession, IInv, TypeOK

LEMMA HubDrainOk ==
  ASSUME IInv, HubDrain
  PROVE  Ok
  <1>1. SessionTypeOK'
    BY DEF HubDrain, IInv, TypeOK, SessionTypeOK, sessionVars
  <1>2. QueueStep
    BY QueueKept DEF HubDrain
  <1>. QED
    BY <1>1, <1>2, UpsetType DEF Ok, HubDrain, IInv, TypeOK

LEMMA EndSessionOk ==
  ASSUME IInv, EndSession
  PROVE  Ok
  <1>1. SessionTypeOK'
    BY StopSessionType DEF EndSession, IInv, TypeOK
  <1>. QED
    BY <1>1, SessionOnly, UpsetType DEF EndSession, IInv

\* Send: the session is gone, or runTurn is called.
LEMMA SendOk ==
  ASSUME IInv, Send
  PROVE  Ok
  <1>0. exec.at = "sending" /\ exec.at \in Working
    BY DEF Send, Working
  <1>1. CASE TakeNext(Ended(rows, exec.row, "failed")) /\ UNCHANGED sessionVars
    <2>1. "failed" \in Terminal
      BY DEF Terminal
    <2>2. QueueStep
      BY <1>0, <1>1, <2>1, EndsAndTakes DEF Send
    <2>. QED
      BY <1>1, <2>2, QueueOnly DEF Send, IInv, TypeOK
  <1>2. CASE /\ RunTurn("row", exec.row, rows[exec.row].text,
                        rows[exec.row].delivery)
             /\ exec' = [exec EXCEPT !.turn = Len(turns) + 1,
                           !.at = IF turns'[Len(turns) + 1].phase = "parked"
                                  THEN "reply" ELSE "turn"]
             /\ UNCHANGED rows
    <2>1. exec.row \in DOMAIN rows /\ exec.row \in Nat
      BY <1>0 DEF IInv, TypeOK, ServiceHolds
    <2>2. rows[exec.row].text \in Texts
      <3>1. rows[exec.row] \in Row
        BY <2>1, SeqDomain DEF IInv, TypeOK
      <3>. QED
        BY <3>1 DEF Row
    <2>. DEFINE text == rows[exec.row].text
                delivery == rows[exec.row].delivery
    <2>3. SessionTypeOK'
      <3>1. RunTurn("row", exec.row, text, delivery) /\ text \in Texts
        BY <1>2, <2>2
      <3>. HIDE DEF text, delivery
      <3>. QED
        BY <3>1, <2>1, RunTurnType DEF IInv, TypeOK
    <2>4. Len(turns) \in Nat
      BY DEF IInv, TypeOK, SessionTypeOK
    <2>. DEFINE at == IF turns'[Len(turns) + 1].phase = "parked"
                      THEN "reply" ELSE "turn"
                n == Len(turns) + 1
    <2>5. /\ exec' \in [at: Places, row: Nat, turn: Nat]
          /\ exec'.at \in Working /\ exec'.row = exec.row
      <3>1. exec' = [exec EXCEPT !.turn = n, !.at = at]
        BY <1>2
      <3>2. at \in Places /\ at \in Working /\ n \in Nat
        BY <2>4 DEF Places, Working
      <3>. HIDE DEF at, n
      <3>3. exec \in [at: Places, row: Nat, turn: Nat]
        BY DEF IInv, TypeOK
      <3>. QED
        BY <3>1, <3>2, <3>3
    <2>6. QueueStep
      BY <1>0, <1>2, <2>5, ExecutorMoves DEF Send, Executor0
    <2>. QED
      BY <2>3, <2>6 DEF Ok, Send, IInv, TypeOK
  <1>. QED
    BY <1>1, <1>2 DEF Send

LEMMA OutcomeIsTerminal ==
  ASSUME NEW finish
  PROVE  OutcomeOf(finish) \in Terminal
  BY DEF OutcomeOf, Terminal

LEMMA ReplyOk ==
  ASSUME IInv, Reply
  PROVE  Ok
  <1>. DEFINE st == OutcomeOf(turns[exec.turn].finish)
  <1>1. st \in Terminal
    BY OutcomeIsTerminal
  <1>2. TakeNext(Ended(rows, exec.row, st)) /\ exec.at \in Working
    BY DEF Reply, Working
  <1>. HIDE DEF st
  <1>3. QueueStep
    BY <1>1, <1>2, EndsAndTakes DEF Reply
  <1>. QED
    BY <1>3, QueueOnly DEF Reply, IInv, TypeOK

\* LeavePump: the executor looks once more before it goes.
LEMMA LeavePumpOk ==
  ASSUME IInv, LeavePump
  PROVE  Ok
  <1>1. /\ exec.at = "leaving" /\ exec.at \notin Working /\ daemon # "down"
        /\ rows \in Seq(Row) /\ InTurn(rows)
    BY DEF IInv, TypeOK, ServiceHolds, LeavePump, Working
  <1>2. NoneRunning(rows)
    BY <1>1 DEF IInv, ServiceHolds
  <1>3. QueueStep
    <2>1. CASE Queued(rows) # {}
      <3>1. Settled(rows)
        BY <1>1, <1>2, SeqDomain DEF Settled
      <3>. QED
        BY <1>1, <2>1, <3>1, ExecutorTakes DEF LeavePump
    <2>2. CASE Queued(rows) = {}
      <3>1. /\ rows' = rows /\ daemon' = daemon
            /\ exec' = [at |-> "none", row |-> 0, turn |-> NoTurn]
        BY <2>2 DEF LeavePump, Idle
      <3>2. RowsMove
        BY <3>1, <1>1, SeqDomain DEF RowsMove
      <3>3. ServiceHolds'
        BY <3>1, <1>1, <1>2, <2>2
           DEF ServiceHolds, Queued, NoneRunning, InTurn, Working
      <3>. QED
        BY <3>1, <3>2, <3>3 DEF QueueStep, Executor0, Places, NoTurn
    <2>. QED
      BY <2>1, <2>2
  <1>. QED
    BY <1>3, QueueOnly DEF LeavePump, IInv, TypeOK

\* RunTimeout: the caller is told, whoever it is.
LEMMA RunTimeoutOk ==
  ASSUME IInv, NEW k \in DOMAIN turns, RunTimeout(k)
  PROVE  Ok
  <1>1. Objects /\ pending' \in Seq(Entry)
    BY AbortEffectType DEF RunTimeout, IInv, TypeOK
  <1>2. turns' \in Seq(Turn)
    <2>1. turns[k] \in Turn
      BY CurrentType DEF IInv, TypeOK
    <2>2. [turns[k] EXCEPT !.awaited = FALSE] \in Turn
      BY <2>1 DEF Turn
    <2>3. turns' = [turns EXCEPT ![k] = [turns[k] EXCEPT !.awaited = FALSE]]
      BY DEF RunTimeout
    <2>. QED
      BY <2>2, <2>3, TurnChanged DEF IInv, TypeOK
  <1>3. SessionTypeOK'
    BY <1>1, <1>2, TypesFrom DEF RunTimeout, IInv, TypeOK, SessionTypeOK
  <1>4. QueueStep
    <2>1. CASE Awaiting(k)
      <3>1. exec.at \in Working /\ "failed" \in Terminal
        BY <2>1 DEF Awaiting, Working, Terminal
      <3>2. TakeNext(Ended(rows, exec.row, "failed"))
        BY <2>1 DEF RunTimeout
      <3>. QED
        BY <3>1, <3>2, EndsAndTakes DEF RunTimeout
    <2>2. CASE ~Awaiting(k)
      BY <2>2, QueueKept DEF RunTimeout
    <2>. QED
      BY <2>1, <2>2
  <1>. QED
    BY <1>3, <1>4, UpsetType DEF Ok, RunTimeout, IInv, TypeOK

LEMMA DrainPromptOk ==
  ASSUME IInv, DrainPrompt
  PROVE  Ok
  <1>1. SessionTypeOK'
    BY DrainType DEF DrainPrompt, IInv, TypeOK
  <1>. QED
    BY <1>1, SessionOnly DEF DrainPrompt, IInv, TypeOK

LEMMA TurnStepOk ==
  ASSUME IInv, NEW k \in DOMAIN turns, TurnStep(k)
  PROVE  Ok
  <1>1. SessionTypeOK'
    BY StartAgentType, AgentEndsType, TearDownType DEF TurnStep, IInv, TypeOK
  <1>. QED
    BY <1>1, SessionOnly DEF TurnStep, IInv, TypeOK

LEMMA ConsumeSteeringOk ==
  ASSUME IInv, NEW k \in DOMAIN turns, ConsumeSteering(k)
  PROVE  Ok
  <1>1. SessionTypeOK'
    BY ConsumeSteerType DEF ConsumeSteering, IInv, TypeOK
  <1>. QED
    BY <1>1, SessionOnly DEF ConsumeSteering, IInv, TypeOK

LEMMA TurnFailsOk ==
  ASSUME IInv, NEW k \in DOMAIN turns, TurnFails(k)
  PROVE  Ok
  <1>1. SessionTypeOK'
    BY FailType DEF TurnFails, IInv, TypeOK
  <1>. QED
    BY <1>1, SessionOnly, UpsetType DEF TurnFails, IInv

\* TurnReturns: the executor, if it awaits the turn, reads the snapshot next.
LEMMA TurnReturnsOk ==
  ASSUME IInv, NEW k \in DOMAIN turns, TurnReturns(k)
  PROVE  Ok
  <1>1. SessionTypeOK'
    BY SettleType DEF TurnReturns, IInv, TypeOK
  <1>2. QueueStep
    <2>1. CASE Awaiting(k)
      <3>1. exec.at \in Working /\ exec' = [exec EXCEPT !.at = "reply"]
        BY <2>1 DEF Awaiting, Working, TurnReturns
      <3>2. /\ exec' \in [at: Places, row: Nat, turn: Nat]
            /\ exec'.at \in Working /\ exec'.row = exec.row
        BY <3>1 DEF IInv, TypeOK, Places, Working
      <3>. QED
        BY <3>1, <3>2, ExecutorMoves DEF Executor0, TurnReturns
    <2>2. CASE ~Awaiting(k)
      BY <2>2, QueueKept DEF TurnReturns
    <2>. QED
      BY <2>1, <2>2
  <1>. QED
    BY <1>1, <1>2 DEF Ok, TurnReturns, IInv, TypeOK

LEMMA TurnRejectsOk ==
  ASSUME IInv, NEW k \in DOMAIN turns, TurnRejects(k)
  PROVE  Ok
  <1>1. SessionTypeOK'
    BY RejectType DEF TurnRejects, IInv, TypeOK
  <1>2. QueueStep
    <2>1. CASE Awaiting(k)
      <3>1. exec.at \in Working /\ "failed" \in Terminal
        BY <2>1 DEF Awaiting, Working, Terminal
      <3>2. TakeNext(Ended(rows, exec.row, "failed"))
        BY <2>1 DEF TurnRejects
      <3>. QED
        BY <3>1, <3>2, EndsAndTakes DEF TurnRejects
    <2>2. CASE ~Awaiting(k)
      BY <2>2, QueueKept DEF TurnRejects
    <2>. QED
      BY <2>1, <2>2
  <1>. QED
    BY <1>1, <1>2 DEF Ok, TurnRejects, IInv, TypeOK

LEMMA CleanupOk ==
  ASSUME IInv, Cleanup
  PROVE  Ok
  <1>1. SessionTypeOK'
    BY ShutAgentType, DropSessionType DEF Cleanup, IInv, TypeOK
  <1>. QED
    BY <1>1, SessionOnly DEF Cleanup, IInv, TypeOK

\* HubStop: the executor and its runs are left as they are.
LEMMA HubStopOk ==
  ASSUME IInv, HubStop
  PROVE  Ok
  <1>1. Objects
    BY DisposeEffectType DEF HubStop, IInv, TypeOK
  <1>2. SessionTypeOK'
    BY <1>1, TypesFrom DEF HubStop, IInv, TypeOK, SessionTypeOK
  <1>3. QueueStep
    <2>1. /\ rows' = rows /\ exec' = exec
          /\ daemon # "down" /\ daemon' # "down"
      BY DEF HubStop
    <2>. QED
      BY <2>1 DEF IInv, TypeOK, ServiceHolds, QueueStep, RowsMove, Executor0,
                  Queued
  <1>. QED
    BY <1>2, <1>3, UpsetType DEF Ok, HubStop, IInv

\* The process is gone: what was running stays marked so.
LEMMA ProcessGone ==
  ASSUME IInv, daemon' = "down", exec' = Idle, UNCHANGED <<rows, draining>>,
         LoseSession, upsets' \in Nat
  PROVE  Ok
  <1>1. SessionTypeOK'
    BY LoseSessionType DEF IInv, TypeOK
  <1>2. exec' = [at |-> "none", row |-> 0, turn |-> NoTurn]
    BY DEF Idle
  <1>3. RowsMove
    BY SeqDomain DEF RowsMove, IInv, TypeOK, ServiceHolds
  <1>4. ServiceHolds'
    BY <1>2 DEF ServiceHolds, IInv, Working, InTurn
  <1>5. Executor0'
    BY <1>2 DEF Executor0, Places, NoTurn
  <1>. QED
    BY <1>1, <1>3, <1>4, <1>5 DEF Ok, QueueStep, IInv, TypeOK

LEMMA HubExitOk ==
  ASSUME IInv, HubExit
  PROVE  Ok
  BY ProcessGone DEF HubExit, IInv, TypeOK

LEMMA CrashOk ==
  ASSUME IInv, Crash
  PROVE  Ok
  BY ProcessGone, UpsetType DEF Crash, IInv

\* Restart: what was running is interrupted, and what waits is taken up.
LEMMA RestartOk ==
  ASSUME IInv, Restart
  PROVE  Ok
  <1>. DEFINE table == [i \in DOMAIN rows |->
                          IF rows[i].state = "running"
                          THEN [rows[i] EXCEPT !.state = "interrupted"]
                          ELSE rows[i]]
  <1>1. /\ rows \in Seq(Row) /\ InTurn(rows) /\ DOMAIN rows = 1..Len(rows)
        /\ Len(rows) \in Nat /\ \A i \in DOMAIN rows : rows[i] \in Row
    BY SeqDomain DEF IInv, TypeOK, ServiceHolds
  <1>2. exec.at = "none" /\ daemon' = "up"
    BY DEF Restart, IInv, ServiceHolds
  <1>3. IF Queued(table) # {} THEN TakeNext(table)
        ELSE rows' = table /\ UNCHANGED exec
    BY DEF Restart
  <1>4. /\ DOMAIN table = DOMAIN rows
        /\ \A i \in DOMAIN rows :
             /\ table[i] \in Row
             /\ table[i].state = IF rows[i].state = "running"
                                 THEN "interrupted" ELSE rows[i].state
    BY <1>1 DEF Row, Terminal
  <1>5. table \in [1..Len(rows) -> Row]
    BY <1>1, <1>4
  <1>. HIDE DEF table
  <1>6. table \in Seq(Row) /\ Len(table) = Len(rows)
    BY <1>1, <1>5, FunIsSeq
  <1>7. "interrupted" \in Terminal
    BY DEF Terminal
  <1>8. NoneRunning(table) /\ InTurn(table)
    BY <1>1, <1>4, <1>7, Words DEF NoneRunning, InTurn
  <1>9. Settled(table)
    BY <1>1, <1>4, <1>6, <1>7, <1>8 DEF Settled
  <1>10. QueueStep
    <2>1. CASE Queued(table) # {}
      BY <2>1, <1>2, <1>3, <1>9, ExecutorTakes
    <2>2. CASE Queued(table) = {}
      <3>1. rows' = table /\ exec' = exec
        BY <2>2, <1>3
      <3>2. RowsMove
        BY <3>1, <1>4, <1>6, <1>9 DEF RowsMove, Settled
      <3>3. ServiceHolds'
        BY <3>1, <2>2, <1>2, <1>8 DEF ServiceHolds, Queued, NoneRunning, InTurn,
                                     Working
      <3>. QED
        BY <3>1, <3>2, <3>3 DEF QueueStep, Executor0, IInv, TypeOK
    <2>. QED
      BY <2>1, <2>2
  <1>11. SessionTypeOK'
    BY DEF Restart, IInv, TypeOK, SessionTypeOK, sessionVars
  <1>. QED
    BY <1>2, <1>10, <1>11 DEF Ok, Restart, IInv, TypeOK

LEMMA StutterOk ==
  ASSUME IInv, UNCHANGED vars
  PROVE  Ok
  <1>1. SessionTypeOK'
    BY DEF vars, IInv, TypeOK, SessionTypeOK, sessionVars
  <1>. QED
    BY <1>1, SessionOnly DEF vars, IInv, TypeOK

LEMMA NextOk ==
  ASSUME IInv, [Next]_vars
  PROVE  Ok
  <1>1. CASE Clients
    BY <1>1, EnqueueOk, RunStartOk, AbortRunOk, EditPromptsOk,
       ResumeSessionOk, HubDrainOk, EndSessionOk DEF Clients
  <1>2. CASE Executor
    BY <1>2, SendOk, ReplyOk, LeavePumpOk DEF Executor
  <1>3. CASE Progress
    BY <1>3, TurnStepOk, TurnReturnsOk, TurnRejectsOk DEF Progress
  <1>4. CASE Upheavals
    BY <1>4, ConsumeSteeringOk, TurnFailsOk, RunTimeoutOk, HubStopOk, CrashOk
       DEF Upheavals
  <1>5. CASE DrainPrompt \/ Cleanup \/ HubExit \/ Restart
    BY <1>5, DrainPromptOk, CleanupOk, HubExitOk, RestartOk
  <1>6. CASE Halt \/ UNCHANGED vars
    BY <1>6, StutterOk DEF Halt
  <1>. QED
    BY <1>1, <1>2, <1>3, <1>4, <1>5, <1>6 DEF Next

LEMMA InitInv ==
  ASSUME Init
  PROVE  IInv
  <1>1. Fresh \in Object
    BY DEF Fresh, Object
  <1>2. objects \in Seq(Object) /\ objects # <<>>
    BY <1>1 DEF Init, SessionInit
  <1>3. SessionTypeOK
    <2>1. pending = <<>> /\ turns = <<>> /\ replaying = 0 /\ due = FALSE
      BY Zenon DEF Init, SessionInit, NoTurn
    <2>2. pending \in Seq(Entry) /\ turns \in Seq(Turn) /\ replaying \in Nat
      BY <2>1
    <2>3. due \in BOOLEAN
      BY <2>1, Zenon
    <2>. QED
      BY <1>2, <2>2, <2>3 DEF SessionTypeOK
  <1>4. exec = [at |-> "none", row |-> 0, turn |-> NoTurn] /\ rows = <<>>
    BY DEF Init, Idle
  <1>5. TypeOK
    <2>1. rows \in Seq(Row) /\ exec \in [at: Places, row: Nat, turn: Nat]
      BY <1>4 DEF Places, NoTurn
    <2>2. draining = FALSE /\ daemon = "up" /\ upsets = 0
      BY DEF Init
    <2>3. draining \in BOOLEAN
      BY <2>2, Zenon
    <2>. QED
      BY <1>3, <2>1, <2>2, <2>3 DEF TypeOK
  <1>6. ServiceHolds
    BY <1>4 DEF ServiceHolds, InTurn, NoneRunning, Queued, Working
  <1>. QED
    BY <1>5, <1>6 DEF IInv

-----------------------------------------------------------------------------
(* What follows for every behaviour *)

THEOREM InvHolds == Spec => []IInv
  <1>1. IInv /\ [Next]_vars => IInv'
    BY NextOk, OkKeepsInv
  <1>. QED
    BY InitInv, <1>1, PTL DEF Spec

\* The types of the queue, its executor and the session hold for any number of
\* runs, any queue limit and any number of upsets.
THEOREM TypesHold == Spec => []TypeOK
  BY InvHolds, PTL DEF IInv

\* QueueIsServed: a run marked running is the one the executor works on, and
\* what is queued has an executor, while the daemon serves.
THEOREM ServedHolds == Spec => []QueueIsServed
  <1>1. IInv => QueueIsServed
    <2>. SUFFICES ASSUME IInv, daemon # "down"
                  PROVE  /\ \A i \in DOMAIN rows :
                              rows[i].state = "running" =>
                                /\ exec.row = i
                                /\ exec.at \in {"sending", "turn", "reply"}
                         /\ Queued(rows) # {} => exec.at # "none"
      BY DEF QueueIsServed
    <2>1. ASSUME NEW i \in DOMAIN rows, rows[i].state = "running"
          PROVE  exec.row = i /\ exec.at \in {"sending", "turn", "reply"}
      <3>1. exec.at \in Working
        BY <2>1 DEF IInv, ServiceHolds, NoneRunning
      <3>2. exec.row \in DOMAIN rows /\ rows[exec.row].state = "running"
        BY <3>1 DEF IInv, ServiceHolds
      <3>3. DOMAIN rows \subseteq Int
        BY SeqDomain DEF IInv, TypeOK
      <3>4. ~(i < exec.row) /\ ~(exec.row < i)
        BY <2>1, <3>2, Words DEF IInv, ServiceHolds, InTurn
      <3>. QED
        BY <3>1, <3>2, <3>3, <3>4 DEF Working
    <2>. QED
      BY <2>1 DEF IInv, ServiceHolds
  <1>. QED
    BY InvHolds, <1>1, PTL

\* A step of the hub is a step of the FIFO, or invisible to it.
LEMMA StepIsFifo ==
  ASSUME IInv, RowsMove, IInv'
  PROVE  Fifo!Next
  <1>1. rows \in Seq(Row) /\ rows' \in Seq(Row) /\ InTurn(rows')
    BY DEF RowsMove, IInv, TypeOK
  <1>2. /\ DOMAIN rows = 1..Len(rows) /\ Len(rows) \in Nat
        /\ DOMAIN rows' = 1..Len(rows') /\ Len(rows') \in Nat
    BY <1>1, SeqDomain
  <1>3. /\ DOMAIN Line = DOMAIN rows /\ Len(Line) = Len(rows)
        /\ \A i \in DOMAIN rows : Line[i] = rows[i].state
    BY <1>2 DEF Line
  <1>4. /\ DOMAIN Line' = DOMAIN rows' /\ Len(Line') = Len(rows')
        /\ \A i \in DOMAIN rows' : Line'[i] = rows'[i].state
    BY <1>2 DEF Line
  <1>5. Fifo!Turnwise(Line')
    <2>1. Line' = [i \in DOMAIN rows' |-> rows'[i].state]
      BY DEF Line
    <2>. QED
      BY <2>1, <1>1, InTurnIsTurnwise
  <1>6. Terminal = Fifo!Ended
    BY DEF Terminal, Fifo!Ended
  <1>7. DOMAIN rows \subseteq DOMAIN rows'
    BY <1>2 DEF RowsMove
  <1>8. \A i \in DOMAIN rows : Fifo!Move(Line[i], Line'[i])
    BY <1>3, <1>4, <1>6, <1>7 DEF RowsMove, Fifo!Move
  <1>. QED
    BY <1>2, <1>3, <1>4, <1>5, <1>8 DEF RowsMove, Fifo!Next

\* ImplementsDurableFifo: whatever clients, turns, timeouts, stops and crashes
\* do, runs are taken up one at a time in the order of admission and end once.
THEOREM QueueImplementsFifo == Spec => ImplementsDurableFifo
  <1>1. Init => Fifo!Init
    <2>. SUFFICES ASSUME Init PROVE Line = <<>>
      BY DEF Fifo!Init
    <2>1. rows = <<>>
      BY DEF Init
    <2>. QED
      BY <2>1 DEF Line
  <1>2. IInv /\ [Next]_vars => Fifo!Next
    BY NextOk, OkKeepsInv, StepIsFifo
  <1>. QED
    BY InvHolds, <1>1, <1>2, PTL DEF Spec, ImplementsDurableFifo, Fifo!Spec
=============================================================================
