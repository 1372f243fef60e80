---------------------------- MODULE HubTurnsProofs ----------------------------
(***************************************************************************)
(* Three properties of the turns of a hub session, each from an inductive   *)
(* invariant added to IInv of HubRunsProofs:                                *)
(*   TimedOutIsStopped  from TurnsInv: the flag that tells a turn to stop   *)
(*                      stays as long as no other turn of its object is     *)
(*                      open, whatever turns were over before it began;     *)
(*   RunsInOrder        from OrderInv: as long as nothing disturbs a row,   *)
(*                      the executor that took it is the one that runs it;  *)
(*   ParkedRunsOnce     from OnceInv: the turns that took a parked text and *)
(*                      the entries that still hold it are at most as many  *)
(*                      as the times it was parked.                         *)
(***************************************************************************)
EXTENDS HubRunsProofs, FiniteSetTheorems

-----------------------------------------------------------------------------
(* What a step may do to the turns there are *)

\* Turn k goes on; it never changes hands, comes back or starts over.
Moves(k) ==
  /\ turns'[k].by = turns[k].by
  /\ turns'[k].row = turns[k].row
  /\ turns'[k].object = turns[k].object
  /\ turns'[k].alone = turns[k].alone
  /\ turns'[k].awaited => turns[k].awaited
  /\ turns[k].phase \notin Open
       => turns'[k].phase = turns[k].phase /\ turns'[k].finish = turns[k].finish
  /\ turns'[k].phase = "parked" => turns[k].phase = "parked"
  /\ turns'[k].phase = "prep" => turns[k].phase = "prep"
  /\ turns'[k].phase = "run" => turns[k].phase \in {"prep", "run"}

\* Turn k is new.
Arrives(k) ==
  /\ k = Len(turns) + 1
  /\ Mapped
  /\ turns'[k].object = Current
  /\ turns'[k].awaited = (turns'[k].by # "drain")
  /\ turns'[k].alone =>
       \A j \in DOMAIN turns : turns[j].phase \in Open => turns[j].object # Current
  /\ turns'[k].phase \in {"prep", "parked"}
  /\ turns'[k].finish = "none"

History ==
  /\ DOMAIN turns \subseteq DOMAIN turns'
  /\ \A k \in DOMAIN turns : Moves(k)
  /\ \A k \in DOMAIN turns' \ DOMAIN turns : Arrives(k)

\* Nothing happens to the turns.
LEMMA TurnsStand ==
  ASSUME SessionTypeOK, turns' = turns
  PROVE  History
  BY DEF History, Moves

\* One turn changes.
LEMMA OneTurnMoves ==
  ASSUME SessionTypeOK, NEW k \in DOMAIN turns, NEW t,
         turns' = [turns EXCEPT ![k] = t],
         t.by = turns[k].by, t.row = turns[k].row, t.object = turns[k].object,
         t.alone = turns[k].alone, t.awaited => turns[k].awaited,
         turns[k].phase \notin Open
           => t.phase = turns[k].phase /\ t.finish = turns[k].finish,
         t.phase = "parked" => turns[k].phase = "parked",
         t.phase = "prep" => turns[k].phase = "prep",
         t.phase = "run" => turns[k].phase \in {"prep", "run"}
  PROVE  History
  <1>1. /\ DOMAIN turns' = DOMAIN turns
        /\ \A j \in DOMAIN turns : turns'[j] = IF j = k THEN t ELSE turns[j]
    BY DEF SessionTypeOK
  <1>. QED
    BY <1>1 DEF History, Moves

\* One turn is added.
LEMMA OneTurnArrives ==
  ASSUME SessionTypeOK, Mapped, NEW by \in {"row", "direct", "drain"},
         NEW row \in Nat, NEW text \in Texts, NEW ph \in {"prep", "parked"},
         turns' = Append(turns, NewTurn(by, row, text, ph))
  PROVE  /\ History
         /\ Len(turns') = Len(turns) + 1
         /\ \A k \in DOMAIN turns : turns'[k] = turns[k]
         /\ turns'[Len(turns) + 1] = NewTurn(by, row, text, ph)
  <1>1. <<text>> \in Seq(Texts)
    OBVIOUS
  <1>2. PICK t : t = NewTurn(by, row, text, ph)
    OBVIOUS
  <1>3. /\ t \in Turn /\ t.object = Current /\ t.awaited = (t.by # "drain")
        /\ t.phase \in {"prep", "parked"} /\ t.finish = "none"
    BY <1>1, <1>2, CurrentType DEF NewTurn, Turn, TurnPhases
  <1>9. t.alone =>
          \A j \in DOMAIN turns : turns[j].phase \in Open => turns[j].object # Current
    BY <1>2 DEF NewTurn
  <1>4. turns \in Seq(Turn)
    BY DEF SessionTypeOK
  <1>5. turns' = Append(turns, t)
    BY <1>2
  <1>6. /\ Len(turns') = Len(turns) + 1
        /\ DOMAIN turns' = 1..(Len(turns) + 1)
        /\ DOMAIN turns = 1..Len(turns) /\ Len(turns) \in Nat
        /\ \A k \in DOMAIN turns : turns'[k] = turns[k]
        /\ turns'[Len(turns) + 1] = t
    BY <1>3, <1>4, <1>5, AppendSeq, SeqDomain
  <1>7. \A k \in DOMAIN turns' \ DOMAIN turns : k = Len(turns) + 1
    BY <1>6
  <1>8. \A k \in DOMAIN turns' \ DOMAIN turns : Arrives(k)
    BY <1>3, <1>6, <1>7, <1>9 DEF Arrives
  <1>. QED
    BY <1>2, <1>6, <1>8 DEF History, Moves

\* runTurn adds a turn.
LEMMA RunTurnHistory ==
  ASSUME SessionTypeOK, NEW by \in {"row", "direct", "drain"}, NEW row \in Nat,
         NEW text \in Texts, NEW delivery, RunTurn(by, row, text, delivery)
  PROVE  /\ History
         /\ Len(turns') = Len(turns) + 1
         /\ \A k \in DOMAIN turns : turns'[k] = turns[k]
         /\ \E ph \in {"prep", "parked"} :
              turns'[Len(turns) + 1] = NewTurn(by, row, text, ph)
  <1>1. \E ph \in {"prep", "parked"} :
          turns' = Append(turns, NewTurn(by, row, text, ph))
    BY DEF RunTurn, Begin, Park
  <1>2. Mapped
    BY DEF RunTurn
  <1>. QED
    BY <1>1, <1>2, OneTurnArrives

\* The phase of an open turn moves on.
LEMMA PhaseMoves ==
  ASSUME SessionTypeOK, NEW k \in DOMAIN turns, turns[k].phase \in Open,
         NEW ph \in TurnPhases \ {"parked", "prep"},
         ph = "run" => turns[k].phase = "prep",
         To(k, ph)
  PROVE  History
  <1>1. PICK t : t = [turns[k] EXCEPT !.phase = ph]
    OBVIOUS
  <1>2. turns' = [turns EXCEPT ![k] = t]
    BY <1>1 DEF To
  <1>3. turns[k] \in Turn
    BY CurrentType
  <1>4. /\ t.by = turns[k].by /\ t.row = turns[k].row
        /\ t.object = turns[k].object /\ t.awaited = turns[k].awaited /\ t.alone = turns[k].alone
        /\ t.phase = ph
    BY <1>1, <1>3 DEF Turn
  <1>. QED
    BY <1>2, <1>4, OneTurnMoves

\* A turn finishes.
Finishing(k, ph, f) ==
  turns' = [turns EXCEPT ![k].phase = ph, ![k].finish = f]

\* It was open before.
LEMMA FinishMoves ==
  ASSUME SessionTypeOK, NEW k \in DOMAIN turns, turns[k].phase \in Open,
         NEW ph \in {"wind", "done"}, NEW f,
         Finishing(k, ph, f)
  PROVE  History
  <1>1. PICK t : t = [turns[k] EXCEPT !.phase = ph, !.finish = f]
    OBVIOUS
  <1>2. turns' = [turns EXCEPT ![k] = t]
    BY <1>1 DEF SessionTypeOK, Finishing
  <1>3. turns[k] \in Turn
    BY CurrentType
  <1>4. /\ t.by = turns[k].by /\ t.row = turns[k].row
        /\ t.object = turns[k].object /\ t.awaited = turns[k].awaited /\ t.alone = turns[k].alone
        /\ t.phase \notin {"parked", "prep", "run"}
    BY <1>1, <1>3 DEF Turn
  <1>. QED
    BY <1>2, <1>4, OneTurnMoves

\* A promise that rejects.
LEMMA ThrowHistory ==
  ASSUME SessionTypeOK, NEW k \in DOMAIN turns, turns[k].phase \in Open, Throw(k)
  PROVE  History
  <1>1. CASE turns' = [turns EXCEPT ![k].phase = "wind",
                                    ![k].finish = "aborted"]
    BY <1>1, FinishMoves DEF Finishing
  <1>2. CASE To(k, "failing")
    BY <1>2, PhaseMoves DEF TurnPhases
  <1>. QED
    BY <1>1, <1>2 DEF Throw

-----------------------------------------------------------------------------
(* What a step may do to the session objects *)

\* Only flags of the objects change.
SameObjects ==
  /\ Len(objects') = Len(objects)
  /\ DOMAIN objects' = DOMAIN objects
  /\ \A o \in DOMAIN objects :
       /\ objects'[o].mapped = objects[o].mapped
       /\ objects'[o].stop = objects[o].stop

\* A shutdown makes progress as well.
Kept ==
  /\ Len(objects') = Len(objects)
  /\ DOMAIN objects' = DOMAIN objects
  /\ \A o \in DOMAIN objects :
       /\ objects'[o].mapped = objects[o].mapped
       /\ \/ objects'[o].stop = objects[o].stop
          \/ Mapped /\ o = Current /\ objects'[o].stop = "closing"
          \/ objects[o].stop = "closing" /\ objects'[o].stop = "torn"

\* No flag is cleared, and no agent is shut down.
Monotone ==
  \A o \in DOMAIN objects :
    /\ objects[o].aborting => objects'[o].aborting
    /\ objects[o].stopped => objects'[o].stopped

SameShut == \A o \in DOMAIN objects : objects'[o].shut = objects[o].shut

LEMMA SameIsKept ==
  ASSUME SameObjects
  PROVE  Kept
  BY DEF SameObjects, Kept

\* Nothing happens to the objects.
LEMMA ObjectsStand ==
  ASSUME objects' = objects
  PROVE  SameObjects /\ Kept /\ Monotone /\ SameShut
  BY DEF SameObjects, Kept, Monotone, SameShut

\* One object changes.
LEMMA OneObject ==
  ASSUME SessionTypeOK, NEW o, NEW e,
         objects' = [objects EXCEPT ![o] = e]
  PROVE  /\ Len(objects') = Len(objects)
         /\ DOMAIN objects' = DOMAIN objects
         /\ \A p \in DOMAIN objects :
              objects'[p] = IF p = o THEN e ELSE objects[p]
  <1>1. DOMAIN objects = 1..Len(objects) /\ Len(objects) \in Nat
    BY SeqDomain DEF SessionTypeOK
  <1>2. /\ DOMAIN objects' = DOMAIN objects
        /\ \A p \in DOMAIN objects :
             objects'[p] = IF p = o THEN e ELSE objects[p]
    BY DEF SessionTypeOK
  <1>3. objects' \in [1..Len(objects) -> Object \cup {e}]
    <2>1. \A p \in DOMAIN objects : objects[p] \in Object
      BY CurrentType
    <2>. QED
      BY <1>1, <1>2, <2>1
  <1>4. Len(objects') = Len(objects)
    BY <1>1, <1>3, FunIsSeq
  <1>. QED
    BY <1>2, <1>4

\* The flags of one object change.
Flags(o, a, b) ==
  objects' = [objects EXCEPT ![o].aborting = a, ![o].stopped = b]

LEMMA FlagsAre ==
  ASSUME SessionTypeOK, NEW o, NEW a, NEW b, Flags(o, a, b)
  PROVE  /\ SameObjects /\ SameShut
         /\ \A p \in DOMAIN objects :
              /\ objects'[p].aborting = IF p = o THEN a ELSE objects[p].aborting
              /\ objects'[p].stopped = IF p = o THEN b ELSE objects[p].stopped
  <1>1. PICK e : e = [objects[o] EXCEPT !.aborting = a, !.stopped = b]
    OBVIOUS
  <1>2. objects' = [objects EXCEPT ![o] = e]
    BY <1>1 DEF SessionTypeOK, Flags
  <1>3. /\ Len(objects') = Len(objects)
        /\ DOMAIN objects' = DOMAIN objects
        /\ \A p \in DOMAIN objects :
             objects'[p] = IF p = o THEN e ELSE objects[p]
    BY <1>2, OneObject
  <1>4. o \in DOMAIN objects =>
          /\ e.mapped = objects[o].mapped /\ e.stop = objects[o].stop
          /\ e.shut = objects[o].shut /\ e.aborting = a /\ e.stopped = b
    BY <1>1, CurrentType DEF Object
  <1>. QED
    BY <1>3, <1>4 DEF SameObjects, SameShut

LEMMA StoppedIs ==
  ASSUME SessionTypeOK, NEW o, NEW b, objects' = [objects EXCEPT ![o].stopped = b]
  PROVE  /\ SameObjects /\ SameShut
         /\ \A p \in DOMAIN objects :
              /\ objects'[p].aborting = objects[p].aborting
              /\ objects'[p].stopped = IF p = o THEN b ELSE objects[p].stopped
  <1>1. PICK e : e = [objects[o] EXCEPT !.stopped = b]
    OBVIOUS
  <1>2. objects' = [objects EXCEPT ![o] = e]
    BY <1>1
  <1>3. /\ Len(objects') = Len(objects)
        /\ DOMAIN objects' = DOMAIN objects
        /\ \A p \in DOMAIN objects :
             objects'[p] = IF p = o THEN e ELSE objects[p]
    BY <1>2, OneObject
  <1>4. o \in DOMAIN objects =>
          /\ e.mapped = objects[o].mapped /\ e.stop = objects[o].stop
          /\ e.shut = objects[o].shut /\ e.aborting = objects[o].aborting
          /\ e.stopped = b
    BY <1>1, CurrentType DEF Object
  <1>. QED
    BY <1>3, <1>4 DEF SameObjects, SameShut

LEMMA AbortingIs ==
  ASSUME SessionTypeOK, NEW o, NEW a, objects' = [objects EXCEPT ![o].aborting = a]
  PROVE  /\ SameObjects /\ SameShut
         /\ \A p \in DOMAIN objects :
              /\ objects'[p].aborting = IF p = o THEN a ELSE objects[p].aborting
              /\ objects'[p].stopped = objects[p].stopped
  <1>1. PICK e : e = [objects[o] EXCEPT !.aborting = a]
    OBVIOUS
  <1>2. objects' = [objects EXCEPT ![o] = e]
    BY <1>1
  <1>3. /\ Len(objects') = Len(objects)
        /\ DOMAIN objects' = DOMAIN objects
        /\ \A p \in DOMAIN objects :
             objects'[p] = IF p = o THEN e ELSE objects[p]
    BY <1>2, OneObject
  <1>4. o \in DOMAIN objects =>
          /\ e.mapped = objects[o].mapped /\ e.stop = objects[o].stop
          /\ e.shut = objects[o].shut /\ e.aborting = a
          /\ e.stopped = objects[o].stopped
    BY <1>1, CurrentType DEF Object
  <1>. QED
    BY <1>3, <1>4 DEF SameObjects, SameShut

\* shutdownSession aborts a run that nobody has aborted.
LEMMA UnabortedIs ==
  ASSUME SessionTypeOK, NEW o, objects' = AbortUnaborted(o)
  PROVE  SameObjects /\ SameShut /\ Monotone
  <1>. DEFINE abort == ~objects[o].aborting /\ ~CanStartRun(o)
  <1>1. PICK a, b : /\ a = (objects[o].aborting \/ abort)
                    /\ b = (objects[o].stopped \/ (abort /\ Busy(o)))
    OBVIOUS
  <1>2. Flags(o, a, b)
    BY <1>1 DEF AbortUnaborted, Flags
  <1>3. (objects[o].aborting => a) /\ (objects[o].stopped => b)
    BY <1>1
  <1>. HIDE <1>1
  <1>. QED
    BY <1>2, <1>3, FlagsAre DEF Monotone

\* An agent that is not at work is shut down.
LEMMA AgentShutIs ==
  ASSUME SessionTypeOK, NEW o, objects' = AgentShut(o)
  PROVE  /\ SameObjects /\ Monotone
         /\ \A p \in DOMAIN objects \ {o} : objects'[p].shut = objects[p].shut
  <1>1. PICK e : e = [objects[o] EXCEPT !.shut = objects[o].shut \/ ~Busy(o)]
    OBVIOUS
  <1>2. objects' = [objects EXCEPT ![o] = e]
    BY <1>1 DEF AgentShut
  <1>3. /\ Len(objects') = Len(objects)
        /\ DOMAIN objects' = DOMAIN objects
        /\ \A p \in DOMAIN objects :
             objects'[p] = IF p = o THEN e ELSE objects[p]
    BY <1>2, OneObject
  <1>4. o \in DOMAIN objects =>
          /\ e.mapped = objects[o].mapped /\ e.stop = objects[o].stop
          /\ e.aborting = objects[o].aborting /\ e.stopped = objects[o].stopped
    BY <1>1, CurrentType DEF Object
  <1>. QED
    BY <1>3, <1>4 DEF SameObjects, Monotone

-----------------------------------------------------------------------------
(* A run that timed out *)

\* A turn belongs to an object there is.
Reachable == \A k \in DOMAIN turns : turns[k].object \in DOMAIN objects

\* The host holds no session object but the last.
OnlyCurrent == \A o \in DOMAIN objects : objects[o].mapped => o = Current

\* The history of a turn is right: earlier turns of its object are over.
AloneInv ==
  \A k \in DOMAIN turns : \A j \in DOMAIN turns :
    turns[k].alone /\ j < k /\ turns[j].object = turns[k].object
      => turns[j].phase \notin Open

\* The premises of TimedOutIsStopped, also before the agent starts, and what
\* the session has been told.
Ticking(k) ==
  /\ turns[k].phase \in {"prep", "run"} /\ turns[k].by # "drain"
  /\ objects[turns[k].object].mapped
  /\ Alone(k)
Told(k) ==
  IF turns[k].phase = "prep" THEN objects[turns[k].object].aborting
  ELSE objects[turns[k].object].stopped

TimedInv ==
  \A k \in DOMAIN turns : Ticking(k) /\ ~turns[k].awaited => Told(k)

TurnsInv == Reachable /\ OnlyCurrent /\ AloneInv /\ TimedInv

\* No session is put back into service, and none is added.
StaysUnmapped ==
  /\ Len(objects') = Len(objects) /\ DOMAIN objects' = DOMAIN objects
  /\ \A o \in DOMAIN objects : objects'[o].mapped => objects[o].mapped

LEMMA KeptStaysUnmapped ==
  ASSUME Kept
  PROVE  StaysUnmapped
  BY DEF Kept, StaysUnmapped

\* Turns keep their objects.
LEMMA ReachableKept ==
  ASSUME SessionTypeOK, Reachable, History, DOMAIN objects \subseteq DOMAIN objects'
  PROVE  Reachable'
  BY CurrentType DEF Reachable, History, Moves, Arrives

LEMMA OnlyCurrentKept ==
  ASSUME OnlyCurrent, StaysUnmapped
  PROVE  OnlyCurrent'
  BY DEF OnlyCurrent, StaysUnmapped, Current

\* What is over does not begin again, and a new turn looks at all there are.
LEMMA AloneKept ==
  ASSUME SessionTypeOK, AloneInv, History
  PROVE  AloneInv'
  <1>. SUFFICES ASSUME NEW k \in DOMAIN turns', NEW j \in DOMAIN turns',
                       turns'[k].alone, j < k,
                       turns'[j].object = turns'[k].object,
                       turns'[j].phase \in Open
                PROVE  FALSE
    BY DEF AloneInv
  <1>1. DOMAIN turns = 1..Len(turns) /\ Len(turns) \in Nat
    BY SeqDomain DEF SessionTypeOK
  <1>2. k \notin DOMAIN turns => k = Len(turns) + 1
    BY DEF History, Arrives
  <1>3. j \in DOMAIN turns
    <2>1. CASE j \notin DOMAIN turns
      <3>1. j = Len(turns) + 1
        BY <2>1 DEF History, Arrives
      <3>. QED
        BY <1>1, <1>2, <3>1
    <2>. QED
      BY <2>1
  <1>4. turns[j].phase \in Open /\ turns'[j].object = turns[j].object
    BY <1>3 DEF History, Moves
  <1>5. CASE k \in DOMAIN turns
    BY <1>3, <1>4, <1>5 DEF History, Moves, AloneInv
  <1>6. CASE k \notin DOMAIN turns
    BY <1>3, <1>4, <1>6 DEF History, Arrives
  <1>. QED
    BY <1>5, <1>6

\* An alone turn shares its object with no other open turn.
LEMMA OthersElsewhere ==
  ASSUME SessionTypeOK, AloneInv, NEW k \in DOMAIN turns, Alone(k),
         NEW j \in DOMAIN turns \ {k}, turns[j].phase \in Open
  PROVE  turns[j].object # turns[k].object
  <1>1. k \in Int /\ j \in Int
    BY SeqDomain DEF SessionTypeOK
  <1>2. CASE j > k
    BY <1>2 DEF Alone, Open
  <1>3. CASE j < k
    BY <1>3 DEF Alone, AloneInv
  <1>. QED
    BY <1>1, <1>2, <1>3

\* A turn whose premises hold after a step was there before, with the same
\* premises.
LEMMA TickingBefore ==
  ASSUME Reachable, History, StaysUnmapped,
         NEW k \in DOMAIN turns', Ticking(k)', ~turns'[k].awaited
  PROVE  k \in DOMAIN turns /\ Ticking(k)
  <1>1. k \in DOMAIN turns
    BY DEF History, Arrives, Ticking
  <1>2. /\ turns[k].phase \in {"prep", "run"} /\ turns[k].by # "drain"
        /\ turns'[k].object = turns[k].object
    BY <1>1 DEF History, Moves, Ticking
  <1>3. objects[turns[k].object].mapped
    BY <1>1, <1>2 DEF Reachable, StaysUnmapped, Ticking
  <1>4. Alone(k)
    <2>1. turns[k].alone
      BY <1>1 DEF History, Moves, Ticking, Alone
    <2>2. ASSUME NEW j \in DOMAIN turns, j > k
          PROVE  turns[j].phase = "parked"
      <3>1. j \in DOMAIN turns' /\ Moves(j)
        BY DEF History
      <3>2. turns'[j].phase = "parked"
        BY <2>2, <3>1 DEF Ticking, Alone
      <3>. QED
        BY <3>1, <3>2 DEF Moves
    <2>. QED
      BY <2>1, <2>2 DEF Alone
  <1>. QED
    BY <1>1, <1>2, <1>3, <1>4 DEF Ticking

\* What told the session still stands.
LEMMA ToldStays ==
  ASSUME Reachable, TimedInv, History, StaysUnmapped, Monotone,
         \A k \in DOMAIN turns : /\ turns'[k].awaited = turns[k].awaited
                                 /\ turns'[k].phase = turns[k].phase
  PROVE  TimedInv'
  <1>. SUFFICES ASSUME NEW k \in DOMAIN turns', Ticking(k)', ~turns'[k].awaited
                PROVE  Told(k)'
    BY DEF TimedInv
  <1>1. k \in DOMAIN turns /\ Ticking(k)
    BY TickingBefore
  <1>2. Told(k)
    BY <1>1 DEF TimedInv
  <1>3. turns'[k].object = turns[k].object /\ turns[k].object \in DOMAIN objects
    BY <1>1 DEF History, Moves, Reachable
  <1>. QED
    BY <1>1, <1>2, <1>3 DEF Told, Monotone

\* The flags of all other objects are kept.
Elsewhere(p) ==
  \A o \in DOMAIN objects \ {p} :
    /\ objects[o].aborting => objects'[o].aborting
    /\ objects[o].stopped => objects'[o].stopped

\* What turn j does to its own object does not reach a turn that is alone.
LEMMA OneTurnActs ==
  ASSUME SessionTypeOK, Reachable, AloneInv, TimedInv, History, StaysUnmapped,
         NEW j \in DOMAIN turns, turns[j].phase \in Open,
         Elsewhere(turns[j].object),
         \A k \in DOMAIN turns \ {j} : turns'[k] = turns[k],
         NEW k \in DOMAIN turns' \ {j}, Ticking(k)', ~turns'[k].awaited
  PROVE  Told(k)'
  <1>1. k \in DOMAIN turns /\ Ticking(k)
    BY TickingBefore
  <1>2. turns'[k] = turns[k] /\ Told(k)
    BY <1>1 DEF TimedInv
  <1>3. /\ turns[k].object \in DOMAIN objects
        /\ turns[k].object # turns[j].object
    BY <1>1, OthersElsewhere DEF Reachable, Ticking
  <1>. QED
    BY <1>2, <1>3 DEF Told, Elsewhere

\* A turn that is at neither stage after the step has nothing to be told.
LEMMA TurnEndsAlone ==
  ASSUME SessionTypeOK, Reachable, AloneInv, TimedInv, History, StaysUnmapped,
         NEW j \in DOMAIN turns, turns[j].phase \in Open,
         turns'[j].phase \notin {"prep", "run"},
         Elsewhere(turns[j].object),
         \A k \in DOMAIN turns \ {j} : turns'[k] = turns[k]
  PROVE  TimedInv'
  <1>. SUFFICES ASSUME NEW k \in DOMAIN turns', Ticking(k)', ~turns'[k].awaited
                PROVE  Told(k)'
    BY DEF TimedInv
  <1>1. k # j
    BY DEF Ticking
  <1>. QED
    BY <1>1, OneTurnActs

\* Where a turn begins, no earlier one is alone.
LEMMA TurnBeginsAlone ==
  ASSUME SessionTypeOK, Reachable, History, StaysUnmapped,
         NEW j \in DOMAIN turns' \ DOMAIN turns, turns'[j].phase = "prep"
  PROVE  TimedInv'
  <1>. SUFFICES ASSUME NEW k \in DOMAIN turns', Ticking(k)', ~turns'[k].awaited
                PROVE  FALSE
    BY DEF TimedInv
  <1>1. k \in DOMAIN turns
    BY TickingBefore
  <1>2. DOMAIN turns = 1..Len(turns) /\ Len(turns) \in Nat
    BY SeqDomain DEF SessionTypeOK
  <1>3. j = Len(turns) + 1
    BY DEF History, Arrives
  <1>4. j > k
    BY <1>1, <1>2, <1>3
  <1>. QED
    BY <1>4 DEF Ticking, Alone

-----------------------------------------------------------------------------
(* Each operation on the session *)

SameTurns ==
  \A k \in DOMAIN turns : /\ turns'[k].awaited = turns[k].awaited
                          /\ turns'[k].phase = turns[k].phase

LEMMA TurnsFrom ==
  ASSUME SessionTypeOK, TurnsInv, History, StaysUnmapped, TimedInv'
  PROVE  TurnsInv'
  BY ReachableKept, OnlyCurrentKept, AloneKept DEF TurnsInv, StaysUnmapped

\* Steps that leave the turns there are.
LEMMA TurnsCalm ==
  ASSUME SessionTypeOK, TurnsInv, History, StaysUnmapped, SameTurns, Monotone
  PROVE  TurnsInv'
  BY TurnsFrom, ToldStays DEF TurnsInv, SameTurns

\* Steps that end the work of a turn.
LEMMA TurnsEnding ==
  ASSUME SessionTypeOK, TurnsInv, History, StaysUnmapped,
         NEW j \in DOMAIN turns, turns[j].phase \in Open,
         turns'[j].phase \notin {"prep", "run"},
         Elsewhere(turns[j].object),
         \A k \in DOMAIN turns \ {j} : turns'[k] = turns[k]
  PROVE  TurnsInv'
  BY TurnsFrom, TurnEndsAlone DEF TurnsInv

\* Nothing happens to the turns and the objects.
LEMMA TurnsUntouched ==
  ASSUME SessionTypeOK, TurnsInv, turns' = turns, objects' = objects
  PROVE  TurnsInv'
  BY TurnsStand, ObjectsStand, KeptStaysUnmapped, TurnsCalm DEF SameTurns

\* Nothing happens to the turns.
LEMMA TurnsUnmoved ==
  ASSUME SessionTypeOK, TurnsInv, turns' = turns, Kept, Monotone
  PROVE  TurnsInv'
  BY TurnsStand, KeptStaysUnmapped, TurnsCalm DEF SameTurns

\* The phase of one turn changes, and its finish perhaps.
LEMMA OnePhase ==
  ASSUME SessionTypeOK, NEW k \in DOMAIN turns, NEW ph, NEW f,
         To(k, ph) \/ Finishing(k, ph, f)
  PROVE  /\ turns'[k].phase = ph
         /\ \A j \in DOMAIN turns \ {k} : turns'[j] = turns[j]
  <1>1. turns[k] \in Turn
    BY CurrentType
  <1>2. CASE To(k, ph)
    BY <1>1, <1>2 DEF To, SessionTypeOK, Turn
  <1>3. CASE Finishing(k, ph, f)
    <2>1. PICK t : t = [turns[k] EXCEPT !.phase = ph, !.finish = f]
      OBVIOUS
    <2>2. turns' = [turns EXCEPT ![k] = t]
      BY <1>3, <2>1 DEF SessionTypeOK, Finishing
    <2>3. t.phase = ph
      BY <1>1, <2>1 DEF Turn
    <2>. QED
      BY <2>2, <2>3 DEF SessionTypeOK
  <1>. QED
    BY <1>2, <1>3

\* runTurn begins or parks.
LEMMA RunTurnTurns ==
  ASSUME SessionTypeOK, TurnsInv, NEW by \in {"row", "direct", "drain"},
         NEW row \in Nat, NEW text \in Texts, NEW delivery,
         RunTurn(by, row, text, delivery)
  PROVE  TurnsInv'
  <1>1. /\ Mapped /\ History
        /\ \A k \in DOMAIN turns : turns'[k] = turns[k]
        /\ SameTurns
    BY RunTurnHistory DEF RunTurn, SameTurns
  <1>2. CASE Begin(by, row, text)
    <2>1. objects' = [objects EXCEPT ![Current].aborting = FALSE]
      BY <1>2 DEF Begin
    <2>2. Kept
      <3>1. PICK c : c = Current
        OBVIOUS
      <3>2. objects' = [objects EXCEPT ![c].aborting = FALSE]
        BY <2>1, <3>1
      <3>. QED
        BY <3>2, AbortingIs, SameIsKept
    <2>3. turns' = Append(turns, NewTurn(by, row, text, "prep"))
      BY <1>2 DEF Begin
    <2>4. /\ Len(turns) + 1 \in DOMAIN turns' \ DOMAIN turns
          /\ turns'[Len(turns) + 1].phase = "prep"
      <3>1. /\ turns' \in Seq(Turn) /\ Len(turns') = Len(turns) + 1
            /\ turns'[Len(turns) + 1].phase = "prep"
        BY <2>3, TurnAdded DEF TurnPhases
      <3>. QED
        BY <3>1, SeqDomain DEF SessionTypeOK
    <2>. QED
      BY <1>1, <2>2, <2>4, TurnBeginsAlone, TurnsFrom, KeptStaysUnmapped
         DEF TurnsInv
  <1>3. CASE Park(by, row, text, delivery)
    BY <1>1, <1>3, ObjectsStand, KeptStaysUnmapped, TurnsCalm DEF Park
  <1>. QED
    BY <1>2, <1>3 DEF RunTurn

\* A waiting prompt is replayed, or not.
LEMMA DrainTurns ==
  ASSUME SessionTypeOK, TurnsInv, Drain
  PROVE  TurnsInv'
  <1>1. objects' = objects
    BY DEF Drain
  <1>2. CASE Mapped /\ DrainFollows(pending)
    <2>1. pending \in Seq(Entry) /\ pending # <<>>
      BY <1>2 DEF SessionTypeOK, DrainFollows
    <2>2. Head(pending) \in Entry
      BY <2>1
    <2>3. PICK text \in Texts : text = Head(pending).text
      BY <2>2 DEF Entry
    <2>4. turns' = Append(turns, NewTurn("drain", 0, text, "prep"))
      BY <1>2, <2>3 DEF Drain
    <2>5. History /\ \A k \in DOMAIN turns : turns'[k] = turns[k]
      BY <1>2, <2>4, OneTurnArrives
    <2>6. /\ Len(turns) + 1 \in DOMAIN turns' \ DOMAIN turns
          /\ turns'[Len(turns) + 1].phase = "prep"
      <3>1. /\ turns' \in Seq(Turn) /\ Len(turns') = Len(turns) + 1
            /\ turns'[Len(turns) + 1].phase = "prep"
        BY <2>4, TurnAdded DEF TurnPhases
      <3>. QED
        BY <3>1, SeqDomain DEF SessionTypeOK
    <2>7. StaysUnmapped
      BY <1>1, ObjectsStand, KeptStaysUnmapped
    <2>. QED
      BY <2>5, <2>6, <2>7, TurnBeginsAlone, TurnsFrom DEF TurnsInv
  <1>3. CASE ~(Mapped /\ DrainFollows(pending))
    <2>1. turns' = turns
      BY <1>3 DEF Drain
    <2>. QED
      BY <1>1, <2>1, TurnsUntouched
  <1>. QED
    BY <1>2, <1>3

\* The turn's promise rejects.
LEMMA ThrowTurns ==
  ASSUME SessionTypeOK, TurnsInv, NEW k \in DOMAIN turns,
         turns[k].phase \in Open, Throw(k)
  PROVE  TurnsInv'
  <1>1. History
    BY ThrowHistory
  <1>2. \/ Finishing(k, "wind", "aborted")
        \/ To(k, "failing")
    BY DEF Throw, Finishing
  <1>3. /\ turns'[k].phase \in {"wind", "failing"}
        /\ \A j \in DOMAIN turns \ {k} : turns'[j] = turns[j]
    BY <1>2, OnePhase
  <1>4. StaysUnmapped /\ Elsewhere(turns[k].object)
    <2>1. PICK o : o = turns[k].object
      OBVIOUS
    <2>2. \/ objects' = [objects EXCEPT ![o].stopped = FALSE]
          \/ objects' = objects
          \/ objects' = AbortUnaborted(o)
      BY <2>1 DEF Throw
    <2>3. Kept
      BY <2>2, StoppedIs, ObjectsStand, UnabortedIs, SameIsKept
    <2>4. Elsewhere(o)
      BY <2>2, StoppedIs, ObjectsStand, UnabortedIs DEF Elsewhere, Monotone
    <2>. QED
      BY <2>1, <2>3, <2>4, KeptStaysUnmapped
  <1>. QED
    BY <1>1, <1>3, <1>4, TurnsEnding

LEMMA FailTurns ==
  ASSUME SessionTypeOK, TurnsInv, NEW k \in DOMAIN turns, Fail(k)
  PROVE  TurnsInv'
  <1>1. turns[k].phase \in Open /\ Throw(k)
    BY DEF Fail, Open
  <1>. QED
    BY <1>1, ThrowTurns

\* The agent starts, and is told of an abort that came too early.
LEMMA StartAgentTurns ==
  ASSUME SessionTypeOK, TurnsInv, NEW k \in DOMAIN turns, StartAgent(k)
  PROVE  TurnsInv'
  <1>0. turns[k].phase = "prep" /\ turns[k].phase \in Open
    BY DEF StartAgent, Open
  <1>1. PICK o : o = turns[k].object
    OBVIOUS
  <1>2. CASE CanStartRun(o)
    <2>1. /\ To(k, "run")
          /\ objects' = [objects EXCEPT ![o].stopped = objects[o].aborting]
      BY <1>1, <1>2 DEF StartAgent
    <2>2. /\ turns'[k].phase = "run"
          /\ \A j \in DOMAIN turns \ {k} : turns'[j] = turns[j]
      BY <2>1, OnePhase
    <2>3. History
      BY <1>0, <2>1, PhaseMoves DEF TurnPhases
    <2>5. PICK b : b = objects[o].aborting
      OBVIOUS
    <2>6. objects' = [objects EXCEPT ![o].stopped = b]
      BY <2>1, <2>5
    <2>7. /\ StaysUnmapped
          /\ \A p \in DOMAIN objects :
               /\ objects'[p].aborting = objects[p].aborting
               /\ objects'[p].stopped = IF p = o THEN b ELSE objects[p].stopped
      BY <2>6, StoppedIs, SameIsKept, KeptStaysUnmapped
    <2>8. TimedInv'
      <3>. SUFFICES ASSUME NEW j \in DOMAIN turns', Ticking(j)',
                           ~turns'[j].awaited
                    PROVE  Told(j)'
        BY DEF TimedInv
      <3>1. CASE j # k
        <4>1. Elsewhere(turns[k].object)
          BY <1>1, <2>7 DEF Elsewhere
        <4>. QED
          BY <1>0, <2>2, <2>3, <2>7, <3>1, <4>1, OneTurnActs DEF TurnsInv
      <3>2. CASE j = k
        <4>1. k \in DOMAIN turns /\ Ticking(k)
          BY <2>3, <2>7, <3>2, TickingBefore DEF TurnsInv
        <4>2. /\ turns'[k].awaited = turns[k].awaited
              /\ turns'[k].object = turns[k].object
          BY <2>1, CurrentType DEF To, SessionTypeOK, Turn
        <4>3. Told(k)
          BY <3>2, <4>1, <4>2 DEF TurnsInv, TimedInv
        <4>4. o \in DOMAIN objects
          BY <1>1 DEF TurnsInv, Reachable
        <4>. QED
          BY <1>0, <1>1, <2>2, <2>5, <2>7, <3>2, <4>2, <4>3, <4>4 DEF Told
      <3>. QED
        BY <3>1, <3>2
    <2>. QED
      BY <2>3, <2>7, <2>8, TurnsFrom
  <1>3. CASE ~CanStartRun(o)
    <2>1. Throw(k)
      BY <1>1, <1>3 DEF StartAgent
    <2>. QED
      BY <1>0, <2>1, ThrowTurns
  <1>. QED
    BY <1>2, <1>3

\* A steering prompt goes into the turn.
LEMMA SteerHistory ==
  ASSUME SessionTypeOK, NEW k \in DOMAIN turns, ConsumeSteer(k)
  PROVE  /\ History /\ DOMAIN turns' = DOMAIN turns
         /\ \A j \in DOMAIN turns :
              /\ turns'[j].awaited = turns[j].awaited
              /\ turns'[j].phase = turns[j].phase
              /\ turns'[j].finish = turns[j].finish
  <1>1. PICK text : turns' = [turns EXCEPT ![k].texts = Append(@, text)]
    BY DEF ConsumeSteer
  <1>2. PICK t : t = [turns[k] EXCEPT !.texts = Append(@, text)]
    OBVIOUS
  <1>3. turns' = [turns EXCEPT ![k] = t]
    BY <1>1, <1>2
  <1>4. turns[k] \in Turn
    BY CurrentType
  <1>5. /\ t.by = turns[k].by /\ t.row = turns[k].row
        /\ t.object = turns[k].object /\ t.awaited = turns[k].awaited /\ t.alone = turns[k].alone
        /\ t.phase = turns[k].phase /\ t.finish = turns[k].finish
    BY <1>2, <1>4 DEF Turn
  <1>6. History
    BY <1>3, <1>4, <1>5, OneTurnMoves DEF Turn
  <1>. QED
    BY <1>3, <1>5, <1>6 DEF SessionTypeOK

LEMMA ConsumeSteerTurns ==
  ASSUME SessionTypeOK, TurnsInv, NEW k \in DOMAIN turns, ConsumeSteer(k)
  PROVE  TurnsInv'
  <1>1. objects' = objects
    BY DEF ConsumeSteer
  <1>. QED
    BY <1>1, SteerHistory, ObjectsStand, KeptStaysUnmapped, TurnsCalm
       DEF SameTurns

LEMMA AgentEndsTurns ==
  ASSUME SessionTypeOK, TurnsInv, NEW k \in DOMAIN turns, NEW finish \in Finishes,
         AgentEnds(k, finish)
  PROVE  TurnsInv'
  <1>1. turns[k].phase \in Open /\ Finishing(k, "wind", finish)
    BY DEF AgentEnds, Open, Finishing
  <1>2. /\ turns'[k].phase = "wind" /\ History
        /\ \A j \in DOMAIN turns \ {k} : turns'[j] = turns[j]
    BY <1>1, OnePhase, FinishMoves
  <1>3. StaysUnmapped /\ Elsewhere(turns[k].object)
    <2>1. PICK o : o = turns[k].object
      OBVIOUS
    <2>2. objects' = [objects EXCEPT ![o].stopped = FALSE]
      BY <2>1 DEF AgentEnds
    <2>3. Kept /\ Elsewhere(o)
      BY <2>2, StoppedIs, SameIsKept DEF Elsewhere, Monotone
    <2>. QED
      BY <2>1, <2>3, KeptStaysUnmapped
  <1>. QED
    BY <1>1, <1>2, <1>3, TurnsEnding

LEMMA SettleTurns ==
  ASSUME SessionTypeOK, TurnsInv, NEW k \in DOMAIN turns, Settle(k)
  PROVE  TurnsInv'
  <1>1. turns[k].phase \in Open /\ To(k, "done")
    BY DEF Settle, Open
  <1>2. /\ turns'[k].phase = "done" /\ History
        /\ \A j \in DOMAIN turns \ {k} : turns'[j] = turns[j]
    BY <1>1, OnePhase, PhaseMoves DEF TurnPhases
  <1>3. StaysUnmapped /\ Elsewhere(turns[k].object)
    <2>1. PICK o : o = turns[k].object
      OBVIOUS
    <2>2. objects' = [objects EXCEPT ![o].aborting = FALSE]
      BY <2>1 DEF Settle
    <2>3. Kept /\ Elsewhere(o)
      BY <2>2, AbortingIs, SameIsKept DEF Elsewhere, Monotone
    <2>. QED
      BY <2>1, <2>3, KeptStaysUnmapped
  <1>. QED
    BY <1>1, <1>2, <1>3, TurnsEnding

LEMMA TearDownTurns ==
  ASSUME SessionTypeOK, TurnsInv, NEW k \in DOMAIN turns, TearDown(k)
  PROVE  TurnsInv'
  <1>1. turns[k].phase \in Open /\ To(k, "torn")
    BY DEF TearDown, Open
  <1>2. /\ turns'[k].phase = "torn" /\ History
        /\ \A j \in DOMAIN turns \ {k} : turns'[j] = turns[j]
    BY <1>1, OnePhase, PhaseMoves DEF TurnPhases
  <1>3. StaysUnmapped /\ Elsewhere(turns[k].object)
    <2>1. PICK o : o = turns[k].object
      OBVIOUS
    <2>2. objects' = AgentShut(o)
      BY <2>1 DEF TearDown
    <2>3. Kept /\ Elsewhere(o)
      BY <2>2, AgentShutIs, SameIsKept DEF Elsewhere, Monotone
    <2>. QED
      BY <2>1, <2>3, KeptStaysUnmapped
  <1>. QED
    BY <1>1, <1>2, <1>3, TurnsEnding

\* The failed session is deleted, and its turn over.
LEMMA RejectHistory ==
  ASSUME SessionTypeOK, NEW k \in DOMAIN turns, Reject(k)
  PROVE  /\ History /\ turns'[k].phase = "done" /\ turns[k].phase \in Open
         /\ \A j \in DOMAIN turns \ {k} : turns'[j] = turns[j]
  <1>1. turns[k].phase \in Open /\ Finishing(k, "done", "rejected")
    BY DEF Reject, Open, Finishing
  <1>. QED
    BY <1>1, OnePhase, FinishMoves

LEMMA UnmapIs ==
  ASSUME SessionTypeOK, NEW table \in Seq(Object), Len(table) = Len(objects),
         Unmap(table)
  PROVE  /\ Len(objects') = Len(objects)
         /\ DOMAIN objects' = DOMAIN objects
         /\ ~Mapped'
         /\ \A o \in DOMAIN objects :
              /\ objects'[o].mapped => table[o].mapped
              /\ objects'[o].stop = table[o].stop
              /\ objects'[o].aborting = table[o].aborting
              /\ objects'[o].stopped = table[o].stopped
              /\ o # Current => objects'[o] = table[o]
  <1>1. PICK e : e = [table[Current] EXCEPT !.mapped = FALSE]
    OBVIOUS
  <1>2. objects' = [table EXCEPT ![Current] = e]
    BY <1>1 DEF Unmap
  <1>3. /\ DOMAIN table = DOMAIN objects
        /\ \A o \in DOMAIN table : table[o] \in Object
        /\ Current \in DOMAIN objects
    BY SeqDomain, CurrentType DEF SessionTypeOK
  <1>4. /\ e.mapped = FALSE /\ e.stop = table[Current].stop
        /\ e.aborting = table[Current].aborting
        /\ e.stopped = table[Current].stopped
        /\ e \in Object
    BY <1>1, <1>3 DEF Object
  <1>5. /\ Len(objects') = Len(table)
        /\ DOMAIN objects' = DOMAIN table
        /\ \A o \in DOMAIN table :
             objects'[o] = IF o = Current THEN e ELSE table[o]
    BY <1>2, <1>4, UpdateSeq
  <1>6. Current' = Current
    BY <1>5 DEF Current
  <1>7. ~Mapped'
    BY <1>3, <1>4, <1>5, <1>6 DEF Mapped, Session
  <1>. QED
    BY <1>3, <1>4, <1>5, <1>7

LEMMA RejectTurns ==
  ASSUME SessionTypeOK, TurnsInv, NEW k \in DOMAIN turns, Reject(k)
  PROVE  TurnsInv'
  <1>1. /\ History /\ turns'[k].phase = "done" /\ turns[k].phase \in Open
        /\ \A j \in DOMAIN turns \ {k} : turns'[j] = turns[j]
    BY RejectHistory
  <1>2. StaysUnmapped /\ Elsewhere(turns[k].object)
    <2>1. PICK table \in Seq(Object) : table = objects
      BY DEF SessionTypeOK
    <2>2. Unmap(table) /\ Len(table) = Len(objects)
      BY <2>1 DEF Reject
    <2>. QED
      BY <2>1, <2>2, UnmapIs DEF StaysUnmapped, Elsewhere
  <1>. QED
    BY <1>1, <1>2, TurnsEnding

\* An abort reaches the session of the map.
LEMMA AbortEffectIs ==
  ASSUME SessionTypeOK, AbortEffect
  PROVE  /\ Kept /\ SameShut
         /\ \A o \in DOMAIN objects :
              /\ objects[o].aborting => objects'[o].aborting
              /\ objects[o].stopped => objects'[o].stopped
                                       \/ (o = Current /\ ~Busy(Current))
         /\ Mapped => objects'[Current].aborting
         /\ Mapped /\ Busy(Current) => objects'[Current].stopped
  <1>1. CASE Mapped
    <2>1. PICK o, b : o = Current /\ b = Busy(Current)
      OBVIOUS
    <2>2. PICK a : a = TRUE
      OBVIOUS
    <2>3. Flags(o, a, b)
      BY <1>1, <2>1, <2>2 DEF AbortEffect, Flags
    <2>4. /\ SameObjects /\ SameShut
          /\ \A p \in DOMAIN objects :
               /\ objects'[p].aborting = IF p = o THEN a ELSE objects[p].aborting
               /\ objects'[p].stopped = IF p = o THEN b ELSE objects[p].stopped
      BY <2>3, FlagsAre
    <2>5. Kept
      BY <2>4, SameIsKept
    <2>6. Current \in DOMAIN objects
      BY CurrentType
    <2>. QED
      BY <2>1, <2>2, <2>4, <2>5, <2>6
  <1>2. CASE ~Mapped
    BY <1>2, ObjectsStand DEF AbortEffect, Monotone
  <1>. QED
    BY <1>1, <1>2

LEMMA AbortTurns ==
  ASSUME SessionTypeOK, TurnsInv, Abort
  PROVE  TurnsInv'
  <1>1. turns' = turns /\ AbortEffect
    BY DEF Abort
  <1>2. /\ History /\ SameTurns /\ StaysUnmapped
    BY <1>1, TurnsStand, AbortEffectIs, KeptStaysUnmapped DEF SameTurns
  <1>3. TimedInv'
    <2>. SUFFICES ASSUME NEW k \in DOMAIN turns', Ticking(k)', ~turns'[k].awaited
                  PROVE  Told(k)'
      BY DEF TimedInv
    <2>1. k \in DOMAIN turns /\ Ticking(k)
      BY <1>2, TickingBefore DEF TurnsInv
    <2>2. Told(k)
      BY <1>1, <2>1 DEF TurnsInv, TimedInv
    <2>3. turns[k].phase = "run" => Busy(turns[k].object)
      BY <2>1 DEF Busy
    <2>4. turns[k].object \in DOMAIN objects
      BY <2>1 DEF TurnsInv, Reachable
    <2>. QED
      BY <1>1, <2>1, <2>2, <2>3, <2>4, AbortEffectIs DEF Told, Ticking
  <1>. QED
    BY <1>2, <1>3, TurnsFrom

\* The timeout of a run tells the session of its turn.
LEMMA TimeoutHistory ==
  ASSUME SessionTypeOK, NEW k \in DOMAIN turns, RunTimeout(k)
  PROVE  /\ History /\ DOMAIN turns' = DOMAIN turns
         /\ \A j \in DOMAIN turns : /\ turns'[j].phase = turns[j].phase
                                    /\ turns'[j].finish = turns[j].finish
         /\ \A j \in DOMAIN turns \ {k} : turns'[j] = turns[j]
         /\ ~turns'[k].awaited
  <1>1. turns' = [turns EXCEPT ![k].awaited = FALSE]
    BY DEF RunTimeout
  <1>2. PICK t : t = [turns[k] EXCEPT !.awaited = FALSE]
    OBVIOUS
  <1>3. turns' = [turns EXCEPT ![k] = t]
    BY <1>1, <1>2
  <1>4. turns[k] \in Turn
    BY CurrentType
  <1>5. /\ t.by = turns[k].by /\ t.row = turns[k].row
        /\ t.object = turns[k].object /\ ~t.awaited /\ t.alone = turns[k].alone
        /\ t.phase = turns[k].phase /\ t.finish = turns[k].finish
    BY <1>2, <1>4 DEF Turn
  <1>6. History
    BY <1>3, <1>5, OneTurnMoves
  <1>. QED
    BY <1>3, <1>5, <1>6 DEF SessionTypeOK

LEMMA RunTimeoutTurns ==
  ASSUME SessionTypeOK, TurnsInv, NEW k \in DOMAIN turns, RunTimeout(k)
  PROVE  TurnsInv'
  <1>1. /\ History /\ DOMAIN turns' = DOMAIN turns
        /\ \A j \in DOMAIN turns : turns'[j].phase = turns[j].phase
    BY TimeoutHistory
  <1>2. AbortEffect /\ turns[k].phase \in Open
    BY DEF RunTimeout
  <1>3. StaysUnmapped
    BY <1>2, AbortEffectIs, KeptStaysUnmapped
  <1>5. TimedInv'
    <2>. SUFFICES ASSUME NEW j \in DOMAIN turns', Ticking(j)', ~turns'[j].awaited
                  PROVE  Told(j)'
      BY DEF TimedInv
    <2>1. j \in DOMAIN turns /\ Ticking(j)
      BY <1>1, <1>3, TickingBefore DEF TurnsInv
    <2>2. turns[j].object = Current /\ Mapped
      BY <2>1 DEF TurnsInv, Reachable, OnlyCurrent, Ticking, Mapped, Session
    <2>3. turns'[j].object = turns[j].object /\ turns'[j].phase = turns[j].phase
      BY <1>1, <2>1 DEF History, Moves
    <2>4. turns[j].phase = "run" => Busy(Current)
      BY <2>1, <2>2 DEF Busy
    <2>5. /\ objects'[Current].aborting
          /\ turns[j].phase = "run" => objects'[Current].stopped
      BY <1>2, <2>2, <2>4, AbortEffectIs
    <2>6. turns[j].phase \in {"prep", "run"}
      BY <2>1 DEF Ticking
    <2>. QED
      BY <2>2, <2>3, <2>5, <2>6 DEF Told
  <1>. QED
    BY <1>1, <1>3, <1>5, TurnsFrom

\* Sessions are stopped.
LEMMA StopSessionTurns ==
  ASSUME SessionTypeOK, TurnsInv, StopSession
  PROVE  TurnsInv'
  <1>. DEFINE a == Session.aborting \/ ~CanStartRun(Current)
              b == Session.stopped \/ Busy(Current)
  <1>1. PICK o, e : /\ o = Current
                    /\ e = [Session EXCEPT !.stop = "closing", !.aborting = a,
                                           !.stopped = b]
    OBVIOUS
  <1>2. objects' = [objects EXCEPT ![o] = e]
    BY <1>1, UpdateSeq DEF StopSession, Session, SessionTypeOK
  <1>3. /\ e.mapped = Session.mapped /\ e.stop = "closing"
        /\ Session.aborting => e.aborting
        /\ Session.stopped => e.stopped
    <2>1. Session \in Object
      BY CurrentType
    <2>2. e.aborting = a /\ e.stopped = b /\ e.mapped = Session.mapped
          /\ e.stop = "closing"
      BY <1>1, <2>1 DEF Object
    <2>. QED
      BY <2>2
  <1>4. /\ Len(objects') = Len(objects)
        /\ DOMAIN objects' = DOMAIN objects
        /\ \A p \in DOMAIN objects :
             objects'[p] = IF p = o THEN e ELSE objects[p]
    BY <1>2, OneObject
  <1>5. turns' = turns /\ Mapped
    BY DEF StopSession
  <1>. HIDE DEF a, b
  <1>6. Kept
    BY <1>1, <1>3, <1>4, <1>5 DEF Kept, Session
  <1>7. Monotone
    BY <1>1, <1>3, <1>4 DEF Monotone, Session
  <1>. QED
    BY <1>5, <1>6, <1>7, TurnsUnmoved

LEMMA DisposeEffectIs ==
  ASSUME SessionTypeOK, DisposeEffect
  PROVE  Kept /\ Monotone
  <1>1. CASE Mapped
    <2>1. PICK table : table = AbortUnaborted(Current)
      OBVIOUS
    <2>2. /\ table \in Seq(Object) /\ Len(table) = Len(objects)
          /\ DOMAIN table = DOMAIN objects
          /\ \A o \in DOMAIN objects :
               /\ table[o].mapped = objects[o].mapped
               /\ table[o].stop = objects[o].stop
               /\ objects[o].aborting => table[o].aborting
               /\ objects[o].stopped => table[o].stopped
      <3>. DEFINE abort == ~Session.aborting /\ ~CanStartRun(Current)
      <3>1. PICK o, c, d : /\ o = Current
                           /\ c = (Session.aborting \/ abort)
                           /\ d = (Session.stopped \/ (abort /\ Busy(Current)))
        OBVIOUS
      <3>2. /\ Session.aborting => c
            /\ Session.stopped => d
        BY <3>1
      <3>3. PICK e : e = [objects[o] EXCEPT !.aborting = c, !.stopped = d]
        OBVIOUS
      <3>4. Session \in Object /\ c \in BOOLEAN /\ d \in BOOLEAN
        BY <3>1, CurrentType
      <3>5. /\ e.mapped = Session.mapped /\ e.stop = Session.stop
            /\ e.aborting = c /\ e.stopped = d /\ e \in Object
        BY <3>1, <3>3, <3>4 DEF Object, Session
      <3>6. table = [objects EXCEPT ![o] = e]
        BY <2>1, <3>1, <3>3 DEF AbortUnaborted, Session, SessionTypeOK
      <3>. HIDE DEF abort
      <3>7. /\ table \in Seq(Object) /\ Len(table) = Len(objects)
            /\ DOMAIN table = DOMAIN objects
            /\ \A p \in DOMAIN objects :
                 table[p] = IF p = o THEN e ELSE objects[p]
        <4>1. objects \in Seq(Object) /\ e \in Object
          BY <3>5 DEF SessionTypeOK
        <4>2. /\ [objects EXCEPT ![o] = e] \in Seq(Object)
              /\ Len([objects EXCEPT ![o] = e]) = Len(objects)
              /\ DOMAIN [objects EXCEPT ![o] = e] = DOMAIN objects
              /\ \A p \in DOMAIN objects :
                   [objects EXCEPT ![o] = e][p] = IF p = o THEN e ELSE objects[p]
          BY <4>1, UpdateSeq
        <4>. QED
          BY <3>6, <4>2
      <3>. QED
        BY <3>1, <3>2, <3>5, <3>7 DEF Session
    <2>3. PICK st : st = IF table[Current].stop = "none" THEN "closing"
                         ELSE table[Current].stop
      OBVIOUS
    <2>4. PICK e : e = [table[Current] EXCEPT !.stop = st]
      OBVIOUS
    <2>5. objects' = [table EXCEPT ![Current] = e]
      BY <1>1, <2>1, <2>3, <2>4 DEF DisposeEffect
    <2>6. Current \in DOMAIN table /\ table[Current] \in Object
      BY <2>2, CurrentType, SeqDomain
    <2>7. /\ e \in Object /\ e.mapped = table[Current].mapped
          /\ e.aborting = table[Current].aborting
          /\ e.stopped = table[Current].stopped
          /\ e.stop = table[Current].stop \/ e.stop = "closing"
      BY <2>3, <2>4, <2>6 DEF Object
    <2>8. /\ Len(objects') = Len(table) /\ DOMAIN objects' = DOMAIN table
          /\ \A p \in DOMAIN table :
               objects'[p] = IF p = Current THEN e ELSE table[p]
      BY <2>2, <2>5, <2>7, UpdateSeq
    <2>. QED
      BY <1>1, <2>2, <2>6, <2>7, <2>8 DEF Kept, Monotone
  <1>2. CASE ~Mapped
    BY <1>2, ObjectsStand DEF DisposeEffect
  <1>. QED
    BY <1>1, <1>2

LEMMA ShutAgentTurns ==
  ASSUME SessionTypeOK, TurnsInv, NEW o \in DOMAIN objects, ShutAgent(o)
  PROVE  TurnsInv'
  <1>1. PICK s : s = (objects[o].shut \/ ~Busy(o))
    OBVIOUS
  <1>2. PICK e : e = [objects[o] EXCEPT !.shut = s, !.stop = "torn"]
    OBVIOUS
  <1>3. objects' = [objects EXCEPT ![o] = e]
    BY <1>1, <1>2 DEF ShutAgent, AgentShut, SessionTypeOK
  <1>4. /\ e.mapped = objects[o].mapped /\ e.stop = "torn"
        /\ e.aborting = objects[o].aborting /\ e.stopped = objects[o].stopped
    BY <1>2, CurrentType DEF Object
  <1>5. /\ Len(objects') = Len(objects)
        /\ DOMAIN objects' = DOMAIN objects
        /\ \A p \in DOMAIN objects :
             objects'[p] = IF p = o THEN e ELSE objects[p]
    BY <1>3, OneObject
  <1>6. turns' = turns /\ objects[o].stop = "closing"
    BY DEF ShutAgent
  <1>7. Kept /\ Monotone
    BY <1>4, <1>5, <1>6 DEF Kept, Monotone
  <1>. QED
    BY <1>6, <1>7, TurnsUnmoved

\* The session is dropped.
LEMMA DropSessionTurns ==
  ASSUME SessionTypeOK, TurnsInv, NEW o \in DOMAIN objects, DropSession(o)
  PROVE  TurnsInv'
  <1>1. PICK e : e = [objects[o] EXCEPT !.stop = "over"]
    OBVIOUS
  <1>2. /\ e \in Object /\ e.mapped = objects[o].mapped /\ e.stop = "over"
        /\ e.aborting = objects[o].aborting /\ e.stopped = objects[o].stopped
    BY <1>1, CurrentType DEF Object
  <1>3. PICK table : table = [objects EXCEPT ![o] = e]
    OBVIOUS
  <1>4. /\ table \in Seq(Object) /\ Len(table) = Len(objects)
        /\ DOMAIN table = DOMAIN objects
        /\ \A p \in DOMAIN objects :
             table[p] = IF p = o THEN e ELSE objects[p]
    BY <1>2, <1>3, UpdateSeq DEF SessionTypeOK
  <1>5. Unmap(table) /\ turns' = turns /\ objects[o].stop = "torn"
    BY <1>1, <1>3 DEF DropSession
  <1>6. /\ Len(objects') = Len(objects) /\ DOMAIN objects' = DOMAIN objects
        /\ ~Mapped'
        /\ \A p \in DOMAIN objects :
             /\ objects'[p].mapped => objects[p].mapped
             /\ objects'[p].aborting = objects[p].aborting
             /\ objects'[p].stopped = objects[p].stopped
    BY <1>2, <1>4, <1>5, UnmapIs
  <1>7. History /\ SameTurns /\ StaysUnmapped /\ Monotone
    BY <1>2, <1>4, <1>5, <1>6, TurnsStand
       DEF SameTurns, StaysUnmapped, Monotone
  <1>. QED
    BY <1>7, TurnsCalm

\* A session that is gone is resumed.
LEMMA ResumeTurns ==
  ASSUME SessionTypeOK, TurnsInv, Resume
  PROVE  TurnsInv'
  <1>1. Fresh \in Object
    BY DEF Fresh, Object
  <1>2. ~Mapped /\ objects' = Append(objects, Fresh) /\ turns' = turns
    BY DEF Resume
  <1>3. /\ Len(objects') = Len(objects) + 1
        /\ DOMAIN objects' = 1..(Len(objects) + 1)
        /\ DOMAIN objects = 1..Len(objects) /\ Len(objects) \in Nat
        /\ \A o \in DOMAIN objects : objects'[o] = objects[o]
    BY <1>1, <1>2, AppendSeq, SeqDomain DEF SessionTypeOK
  <1>4. \A o \in DOMAIN objects : ~objects'[o].mapped
    BY <1>2, <1>3 DEF TurnsInv, OnlyCurrent, Mapped, Session
  <1>5. History
    BY <1>2, TurnsStand
  <1>6. Reachable' /\ AloneInv'
    BY <1>3, <1>5, ReachableKept, AloneKept DEF TurnsInv
  <1>7. OnlyCurrent'
    BY <1>3, <1>4 DEF OnlyCurrent, Current
  <1>8. TimedInv'
    BY <1>2, <1>4 DEF TurnsInv, Reachable, TimedInv, Ticking
  <1>. QED
    BY <1>6, <1>7, <1>8 DEF TurnsInv

\* The process dies: nothing is open any more.
LEMMA LoseHistory ==
  ASSUME SessionTypeOK, LoseSession
  PROVE  /\ History /\ DOMAIN turns' = DOMAIN turns
         /\ \A k \in DOMAIN turns : turns'[k].phase \notin Open
  <1>1. /\ DOMAIN turns' = DOMAIN turns
        /\ \A k \in DOMAIN turns :
             turns'[k] = IF turns[k].phase \in Open
                         THEN [turns[k] EXCEPT !.phase = "dead"] ELSE turns[k]
    BY DEF LoseSession
  <1>2. \A k \in DOMAIN turns :
          [turns[k] EXCEPT !.phase = "dead"].phase = "dead"
    BY CurrentType DEF Turn
  <1>3. \A k \in DOMAIN turns : turns'[k].phase \notin Open
    BY <1>1, <1>2 DEF Open
  <1>4. ASSUME NEW k \in DOMAIN turns
        PROVE  Moves(k)
    <2>1. turns[k] \in Turn
      BY CurrentType
    <2>2. CASE turns[k].phase \in Open
      BY <1>1, <2>1, <2>2 DEF Moves, Turn
    <2>3. CASE turns[k].phase \notin Open
      BY <1>1, <2>3 DEF Moves
    <2>. QED
      BY <2>2, <2>3
  <1>. QED
    BY <1>1, <1>3, <1>4 DEF History

LEMMA LoseSessionTurns ==
  ASSUME SessionTypeOK, TurnsInv, LoseSession
  PROVE  TurnsInv'
  <1>1. /\ History /\ DOMAIN turns' = DOMAIN turns
        /\ \A k \in DOMAIN turns : turns'[k].phase \notin Open
    BY LoseHistory
  <1>2. /\ DOMAIN objects' = DOMAIN objects
        /\ \A o \in DOMAIN objects : ~objects'[o].mapped
    BY DEF LoseSession, Fresh
  <1>3. Reachable' /\ AloneInv'
    BY <1>1, <1>2, ReachableKept, AloneKept DEF TurnsInv
  <1>4. OnlyCurrent'
    BY <1>2 DEF OnlyCurrent
  <1>5. TimedInv'
    BY <1>1 DEF TimedInv, Ticking, Open
  <1>. QED
    BY <1>3, <1>4, <1>5 DEF TurnsInv

-----------------------------------------------------------------------------
(* Each step of the hub *)

LEMMA ClientsTurns ==
  ASSUME IInv, TurnsInv, Clients
  PROVE  TurnsInv'
  <1>0. SessionTypeOK
    BY DEF IInv, TypeOK
  <1>1. ASSUME NEW text \in DirectTexts, NEW delivery \in Deliveries,
               RunStart(text, delivery)
        PROVE  TurnsInv'
    <2>1. RunTurn("direct", 0, text, delivery) /\ text \in Texts
      BY <1>1, TextsAssumption DEF RunStart
    <2>. QED
      BY <1>0, <2>1, RunTurnTurns
  <1>2. CASE AbortRun
    BY <1>0, <1>2, AbortTurns DEF AbortRun
  <1>6. CASE EditPrompts
    <2>1. turns' = turns /\ objects' = objects
      BY <1>6 DEF EditPrompts, Redeliver, DeletePending
    <2>. QED
      BY <1>0, <2>1, TurnsUntouched
  <1>3. CASE ResumeSession
    BY <1>0, <1>3, ResumeTurns DEF ResumeSession
  <1>4. CASE EndSession
    BY <1>0, <1>4, StopSessionTurns DEF EndSession
  <1>5. CASE \/ HubDrain
             \/ \E text \in RunTexts, delivery \in RunDeliveries :
                  Enqueue(text, delivery)
    <2>1. turns' = turns /\ objects' = objects
      BY <1>5 DEF HubDrain, Enqueue, sessionVars
    <2>. QED
      BY <1>0, <2>1, TurnsUntouched
  <1>. QED
    BY <1>1, <1>2, <1>3, <1>4, <1>5, <1>6 DEF Clients

LEMMA ExecutorTurns ==
  ASSUME IInv, TurnsInv, Executor
  PROVE  TurnsInv'
  <1>0. SessionTypeOK
    BY DEF IInv, TypeOK
  <1>1. CASE Send
    <2>1. CASE UNCHANGED sessionVars
      BY <1>0, <2>1, TurnsUntouched DEF sessionVars
    <2>2. CASE RunTurn("row", exec.row, rows[exec.row].text,
                       rows[exec.row].delivery)
      <3>1. exec.row \in DOMAIN rows /\ exec.row \in Nat
        BY <1>1 DEF Send, IInv, TypeOK, ServiceHolds, Working
      <3>2. PICK text \in Texts : text = rows[exec.row].text
        <4>1. rows[exec.row] \in Row
          BY <3>1, SeqDomain DEF IInv, TypeOK
        <4>. QED
          BY <4>1 DEF Row
      <3>3. PICK delivery : delivery = rows[exec.row].delivery
        OBVIOUS
      <3>4. RunTurn("row", exec.row, text, delivery)
        BY <2>2, <3>2, <3>3
      <3>. QED
        BY <1>0, <3>1, <3>4, RunTurnTurns
    <2>. QED
      BY <1>1, <2>1, <2>2 DEF Send
  <1>2. CASE Reply \/ LeavePump
    <2>1. turns' = turns /\ objects' = objects
      BY <1>2 DEF Reply, LeavePump, sessionVars
    <2>. QED
      BY <1>0, <2>1, TurnsUntouched
  <1>. QED
    BY <1>1, <1>2 DEF Executor

LEMMA NextTurns ==
  ASSUME IInv, TurnsInv, [Next]_vars
  PROVE  TurnsInv'
  <1>0. SessionTypeOK
    BY DEF IInv, TypeOK
  <1>1. CASE Clients
    BY <1>1, ClientsTurns
  <1>2. CASE Executor
    BY <1>2, ExecutorTurns
  <1>3. CASE DrainPrompt
    BY <1>0, <1>3, DrainTurns DEF DrainPrompt
  <1>4. ASSUME NEW k \in DOMAIN turns,
               TurnStep(k) \/ TurnReturns(k) \/ TurnRejects(k)
        PROVE  TurnsInv'
    BY <1>0, <1>4, StartAgentTurns, AgentEndsTurns, TearDownTurns, SettleTurns,
       RejectTurns DEF TurnStep, TurnReturns, TurnRejects
  <1>5. CASE Cleanup
    BY <1>0, <1>5, ShutAgentTurns, DropSessionTurns DEF Cleanup
  <1>6. ASSUME NEW k \in DOMAIN turns,
               ConsumeSteering(k) \/ TurnFails(k) \/ RunTimeout(k)
        PROVE  TurnsInv'
    BY <1>0, <1>6, ConsumeSteerTurns, FailTurns, RunTimeoutTurns
       DEF ConsumeSteering, TurnFails
  <1>7. CASE HubStop
    <2>1. turns' = turns /\ Kept /\ Monotone
      BY <1>0, <1>7, DisposeEffectIs DEF HubStop
    <2>. QED
      BY <1>0, <2>1, TurnsUnmoved
  <1>8. CASE HubExit \/ Crash
    BY <1>0, <1>8, LoseSessionTurns DEF HubExit, Crash
  <1>9. CASE Restart \/ Halt \/ UNCHANGED vars
    <2>1. turns' = turns /\ objects' = objects
      BY <1>9 DEF Restart, Halt, vars, sessionVars
    <2>. QED
      BY <1>0, <2>1, TurnsUntouched
  <1>. QED
    BY <1>1, <1>2, <1>3, <1>4, <1>5, <1>6, <1>7, <1>8, <1>9
       DEF Next, Progress, Upheavals

LEMMA InitTurns ==
  ASSUME Init
  PROVE  TurnsInv
  <1>1. turns = <<>> /\ objects = <<Fresh>>
    BY DEF Init, SessionInit
  <1>2. DOMAIN objects = {1} /\ Current = 1
    BY <1>1 DEF Current
  <1>. QED
    BY <1>1, <1>2 DEF TurnsInv, Reachable, OnlyCurrent, AloneInv, TimedInv

\* TimedOutIsStopped: however early or late the timeout of a run comes, whatever
\* turns the session had before, and whatever else is sent, stopped, shut down
\* or resumed, a turn that no other has overlapped and whose session the host
\* holds is not at work without having been told to stop.
THEOREM TimedOutHolds == Spec => []TimedOutIsStopped
  <1>1. IInv /\ TurnsInv /\ [Next]_vars => TurnsInv'
    BY NextTurns
  <1>2. TurnsInv => TimedOutIsStopped
    BY DEF TurnsInv, TimedInv, TimedOutIsStopped, Ticking, Told
  <1>. QED
    BY InvHolds, InitTurns, <1>1, <1>2, PTL DEF Spec

-----------------------------------------------------------------------------
(* Runs in order *)

\* How many runs have been taken up.
Taking == IF exec.at = "sending" THEN Len(turns) + 1 ELSE Len(turns)

\* The first n runs have been taken up.
TakenUp(table, n) ==
  /\ \A i \in DOMAIN table : table[i].state = "queued" <=> i > n
  /\ n <= Len(table)

ExecutorSteady ==
  /\ exec.at = "sending" => exec.row = Taking
  /\ exec.at \in {"turn", "reply"} =>
       exec.row = Len(turns) /\ exec.turn = Len(turns) /\ Len(turns) > 0
  /\ exec.at = "reply" => turns[Len(turns)].phase = "done"
  /\ exec.at = "turn" => turns[Len(turns)].phase \in Open
  /\ Session.shut => exec.at = "turn" /\ turns[Len(turns)].phase = "torn"

\* Turn k belongs to run k, and is over unless the executor awaits it.
TurnSteady(k) ==
  /\ turns[k].row = k
  /\ turns[k].phase \in Open => k = Len(turns) /\ exec.at = "turn"
  /\ turns[k].phase \in {"wind", "done"} => turns[k].finish # "none"
  /\ rows[k].state = "completed" => turns[k].finish = "completed"

Steady ==
  /\ daemon = "up"
  /\ TakenUp(rows, Taking)
  /\ ExecutorSteady
  /\ \A k \in DOMAIN turns : TurnSteady(k)

OrderInv == Undisturbed => Steady

\* What the types say of a steady session.
LEMMA Numbers ==
  ASSUME IInv
  PROVE  /\ SessionTypeOK
         /\ Len(turns) \in Nat /\ DOMAIN turns = 1..Len(turns)
         /\ Len(rows) \in Nat /\ DOMAIN rows = 1..Len(rows)
         /\ rows \in Seq(Row)
         /\ exec \in [at: Places, row: Nat, turn: Nat]
         /\ Len(objects) \in Nat /\ Len(objects) # 0
         /\ DOMAIN objects = 1..Len(objects)
         /\ \A k \in DOMAIN turns : turns[k] \in Turn
  <1>1. SessionTypeOK /\ rows \in Seq(Row)
    BY DEF IInv, TypeOK
  <1>2. turns \in Seq(Turn) /\ objects \in Seq(Object) /\ objects # <<>>
    BY <1>1 DEF SessionTypeOK
  <1>3. Len(objects) # 0
    BY <1>2
  <1>. QED
    BY <1>1, <1>2, <1>3, SeqDomain DEF IInv, TypeOK

\* A session that is undisturbed after a step was so before, unless the step
\* removes or replaces it.
LEMMA UndisturbedBefore ==
  ASSUME IInv, History, Kept, Undisturbed'
  PROVE  Undisturbed
  <1>1. Current' = Current /\ Current \in DOMAIN objects
    BY CurrentType DEF Kept, Current, IInv, TypeOK
  <1>2. Mapped /\ Session.stop = "none" /\ Len(objects) = 1
    BY <1>1 DEF Kept, Undisturbed, Mapped, Session
  <1>3. \A k \in DOMAIN turns : turns[k].by # "direct"
    BY DEF Undisturbed, History, Moves
  <1>4. \A k \in DOMAIN turns : turns[k].awaited
    BY DEF Undisturbed, History, Moves
  <1>. QED
    BY <1>2, <1>3, <1>4 DEF Undisturbed

\* Steps that remove or replace the session.
LEMMA UnmappedDisturbs ==
  ASSUME ~Mapped'
  PROVE  ~Undisturbed'
  BY DEF Undisturbed

LEMMA ResumeDisturbs ==
  ASSUME IInv, Resume
  PROVE  ~Undisturbed'
  <1>1. Fresh \in Object
    BY DEF Fresh, Object
  <1>2. Len(objects') = Len(objects) + 1
    BY <1>1, AppendSeq DEF Resume, IInv, TypeOK, SessionTypeOK
  <1>. QED
    BY <1>2, Numbers DEF Undisturbed

LEMMA LossDisturbs ==
  ASSUME IInv, LoseSession, IInv'
  PROVE  ~Undisturbed'
  <1>1. DOMAIN objects' = DOMAIN objects
    BY DEF LoseSession
  <1>2. Current' \in DOMAIN objects'
    <2>1. /\ Len(objects') \in Nat /\ Len(objects') # 0
          /\ DOMAIN objects' = 1..Len(objects')
      <3>1. objects' \in Seq(Object) /\ objects' # <<>>
        BY DEF IInv, TypeOK, SessionTypeOK
      <3>. QED
        BY <3>1
    <2>. QED
      BY <2>1 DEF Current
  <1>3. objects'[Current'].mapped = FALSE
    BY <1>1, <1>2 DEF LoseSession, Fresh
  <1>. QED
    BY <1>3 DEF Undisturbed, Mapped, Session

\* Nobody is at work unless the executor awaits its turn.
LEMMA NobodyAtWork ==
  ASSUME IInv, Steady, exec.at # "turn"
  PROVE  /\ \A k \in DOMAIN turns : turns[k].phase \notin Open
         /\ ~Session.shut /\ CanStartRun(Current)
  <1>1. \A k \in DOMAIN turns : turns[k].phase \notin Open
    BY DEF Steady, TurnSteady
  <1>2. ~Session.shut
    BY DEF Steady, ExecutorSteady
  <1>3. ~Busy(Current)
    BY <1>1 DEF Busy, Open
  <1>. QED
    BY <1>1, <1>2, <1>3 DEF CanStartRun, Session

\* The executor takes the next run in order.
LEMMA TakesInOrder ==
  ASSUME NEW table \in Seq(Row), NEW n \in Nat, TakenUp(table, n),
         TakeNext(table)
  PROVE  /\ \/ /\ exec'.at = "sending" /\ exec'.row = n + 1
               /\ TakenUp(rows', n + 1)
            \/ exec'.at = "leaving" /\ TakenUp(rows', n)
         /\ DOMAIN rows' = DOMAIN table /\ Len(rows') = Len(table)
         /\ \A i \in DOMAIN table :
              rows'[i].state = "completed" => table[i].state = "completed"
  <1>0. DOMAIN table = 1..Len(table) /\ Len(table) \in Nat
    BY SeqDomain
  <1>1. ASSUME Queued(table) = {}, rows' = table,
               exec' = [Idle EXCEPT !.at = "leaving"]
        PROVE  exec'.at = "leaving" /\ TakenUp(rows', n)
    BY <1>1 DEF Idle
  <1>2. ASSUME NEW r \in Queued(table), \A j \in Queued(table) : r <= j,
               rows' = Ended(table, r, "running"),
               exec' = [at |-> "sending", row |-> r, turn |-> NoTurn]
        PROVE  /\ exec'.at = "sending" /\ exec'.row = n + 1
               /\ TakenUp(rows', n + 1)
               /\ DOMAIN rows' = DOMAIN table /\ Len(rows') = Len(table)
               /\ \A i \in DOMAIN table :
                    rows'[i].state = "completed" => table[i].state = "completed"
    <2>1. r \in DOMAIN table /\ r > n
      BY DEF Queued, TakenUp
    <2>2. n + 1 \in Queued(table)
      BY <1>0, <2>1 DEF Queued, TakenUp
    <2>3. r = n + 1
      BY <1>0, <1>2, <2>1, <2>2
    <2>4. /\ DOMAIN rows' = DOMAIN table /\ Len(rows') = Len(table)
          /\ \A i \in DOMAIN table :
               rows'[i].state = IF i = r THEN "running" ELSE table[i].state
      BY <1>2, <2>1, EndedType
    <2>5. TakenUp(rows', n + 1)
      BY <1>0, <2>1, <2>3, <2>4 DEF TakenUp
    <2>. QED
      BY <1>2, <2>3, <2>4, <2>5
  <1>. QED
    BY <1>1, <1>2 DEF TakeNext

\* It does so when nobody is at work.
LEMMA SteadyTakes ==
  ASSUME IInv, NEW table \in Seq(Row), TakenUp(table, Len(turns)),
         TakeNext(table), UNCHANGED <<sessionVars, daemon>>, daemon = "up",
         ~Session.shut,
         \A k \in DOMAIN turns : /\ turns[k].row = k
                                 /\ turns[k].phase \notin Open
                                 /\ turns[k].phase = "done"
                                      => turns[k].finish # "none"
                                 /\ table[k].state = "completed"
                                      => turns[k].finish = "completed"
  PROVE  Steady'
  <1>0. turns' = turns /\ objects' = objects
    BY DEF sessionVars
  <1>1. /\ \/ /\ exec'.at = "sending" /\ exec'.row = Len(turns) + 1
              /\ TakenUp(rows', Len(turns) + 1)
           \/ exec'.at = "leaving" /\ TakenUp(rows', Len(turns))
        /\ DOMAIN rows' = DOMAIN table /\ Len(rows') = Len(table)
        /\ \A i \in DOMAIN table :
             rows'[i].state = "completed" => table[i].state = "completed"
    BY Numbers, TakesInOrder
  <1>2. TakenUp(rows', Taking') /\ ExecutorSteady'
    BY <1>0, <1>1 DEF Taking, ExecutorSteady, Session, Current
  <1>3. ASSUME NEW k \in DOMAIN turns'
        PROVE  TurnSteady(k)'
    <2>1. k \in DOMAIN table
      BY <1>0, <1>3, Numbers, SeqDomain DEF TakenUp
    <2>. QED
      BY <1>0, <1>1, <1>3, <2>1 DEF TurnSteady, Open
  <1>. QED
    BY <1>2, <1>3 DEF Steady

\* The session object of a kept table.
LEMMA SameSession ==
  ASSUME IInv, Kept, SameShut
  PROVE  Session'.shut = Session.shut
  BY CurrentType DEF Kept, SameShut, Session, Current, IInv, TypeOK

\* Nothing happens to queue and turns.
LEMMA SteadyStands ==
  ASSUME Steady, turns' = turns, UNCHANGED <<rows, exec, daemon>>,
         Session'.shut = Session.shut
  PROVE  Steady'
  BY DEF Steady, TakenUp, Taking, ExecutorSteady, TurnSteady

\* An open turn goes on.
LEMMA TurnGoesOn ==
  ASSUME IInv, Steady, History, DOMAIN turns' = DOMAIN turns, IInv',
         UNCHANGED <<rows, exec, daemon>>,
         NEW k \in DOMAIN turns, turns[k].phase \in Open,
         turns'[k].phase \in Open,
         turns'[k].phase = "wind" => turns'[k].finish # "none",
         \A j \in DOMAIN turns \ {k} : turns'[j] = turns[j],
         Session'.shut => turns'[k].phase = "torn"
  PROVE  Steady'
  <1>1. /\ k = Len(turns) /\ exec.at = "turn" /\ exec.row = k /\ exec.turn = k
    BY DEF Steady, TurnSteady, ExecutorSteady
  <1>2. Len(turns') = Len(turns)
    <2>1. Len(turns') \in Nat /\ DOMAIN turns' = 1..Len(turns')
      BY SeqDomain DEF IInv, TypeOK, SessionTypeOK
    <2>. QED
      BY <2>1, Numbers
  <1>3. rows[k].state = "running"
    BY <1>1 DEF IInv, ServiceHolds, Working
  <1>4. TakenUp(rows, Taking)' /\ ExecutorSteady'
    BY <1>1, <1>2 DEF Steady, TakenUp, Taking, ExecutorSteady
  <1>5. ASSUME NEW j \in DOMAIN turns'
        PROVE  TurnSteady(j)'
    <2>1. CASE j = k
      BY <1>1, <1>2, <1>3, <2>1 DEF Steady, TurnSteady, History, Moves, Open
    <2>2. CASE j # k
      BY <1>2, <2>2 DEF Steady, TurnSteady
    <2>. QED
      BY <2>1, <2>2
  <1>. QED
    BY <1>4, <1>5 DEF Steady

\* Steps that leave queue and turns alone.
LEMMA OrderStands ==
  ASSUME IInv, OrderInv, turns' = turns, UNCHANGED <<rows, exec, daemon>>,
         Kept, SameShut
  PROVE  OrderInv'
  <1>1. History
    BY TurnsStand DEF IInv, TypeOK
  <1>. QED
    BY <1>1, UndisturbedBefore, SameSession, SteadyStands DEF OrderInv

\* Steps of one open turn.
LEMMA OrderGoesOn ==
  ASSUME IInv, OrderInv, IInv', History, DOMAIN turns' = DOMAIN turns,
         UNCHANGED <<rows, exec, daemon>>, Kept,
         NEW k \in DOMAIN turns, turns[k].phase \in Open,
         turns'[k].phase \in Open,
         turns'[k].phase = "wind" => turns'[k].finish # "none",
         \A j \in DOMAIN turns \ {k} : turns'[j] = turns[j],
         \/ SameShut /\ turns[k].phase # "torn"
         \/ turns'[k].phase = "torn"
  PROVE  OrderInv'
  <1>. SUFFICES ASSUME Undisturbed'
                PROVE  Steady'
    BY DEF OrderInv
  <1>1. Steady
    BY UndisturbedBefore DEF OrderInv
  <1>2. k = Len(turns)
    BY <1>1 DEF Steady, TurnSteady
  <1>3. Session'.shut => turns'[k].phase = "torn"
    BY <1>1, <1>2, SameSession DEF Steady, ExecutorSteady
  <1>. QED
    BY <1>1, <1>3, TurnGoesOn

\* The phase of an open turn changes, and its finish with it.
LEMMA PhaseOrder ==
  ASSUME IInv, OrderInv, IInv', UNCHANGED <<rows, exec, daemon>>, Kept,
         SameShut, NEW k \in DOMAIN turns,
         turns[k].phase \in {"prep", "run", "wind", "failing"},
         \/ To(k, "failing")
         \/ turns[k].phase = "prep" /\ To(k, "run")
         \/ \E f \in Finishes : Finishing(k, "wind", f)
  PROVE  OrderInv'
  <1>0. SessionTypeOK /\ turns[k].phase \in Open /\ turns[k].phase # "torn"
        /\ turns \in Seq(Turn) /\ turns[k] \in Turn
    BY CurrentType DEF IInv, TypeOK, SessionTypeOK, Open
  <1>1. ASSUME NEW ph \in {"failing", "run"}, To(k, ph),
               ph = "run" => turns[k].phase = "prep"
        PROVE  OrderInv'
    <2>1. /\ turns'[k].phase = ph
          /\ \A j \in DOMAIN turns \ {k} : turns'[j] = turns[j]
      BY <1>0, <1>1, OnePhase
    <2>2. History
      BY <1>0, <1>1, PhaseMoves DEF TurnPhases
    <2>3. DOMAIN turns' = DOMAIN turns
      BY <1>1, <1>0 DEF To
    <2>4. turns'[k].phase \in Open /\ turns'[k].phase # "wind"
      BY <2>1 DEF Open
    <2>. QED
      BY <1>0, <2>1, <2>2, <2>3, <2>4, OrderGoesOn
  <1>2. ASSUME NEW f \in Finishes, Finishing(k, "wind", f)
        PROVE  OrderInv'
    <2>1. /\ turns'[k].phase = "wind"
          /\ \A j \in DOMAIN turns \ {k} : turns'[j] = turns[j]
          /\ History
      BY <1>0, <1>2, OnePhase, FinishMoves
    <2>2. DOMAIN turns' = DOMAIN turns /\ turns'[k].finish = f
      <3>1. PICK t : t = [turns[k] EXCEPT !.phase = "wind", !.finish = f]
        OBVIOUS
      <3>2. turns' = [turns EXCEPT ![k] = t]
        BY <1>0, <1>2, <3>1 DEF Finishing
      <3>3. t.finish = f
        BY <1>0, <3>1 DEF Turn
      <3>. QED
        BY <1>0, <3>2, <3>3
    <2>3. turns'[k].phase \in Open /\ f # "none"
      BY <2>1 DEF Open, Finishes
    <2>. QED
      BY <1>0, <2>1, <2>2, <2>3, OrderGoesOn
  <1>. QED
    BY <1>1, <1>2

\* The turn's promise rejects.
LEMMA ThrowOrder ==
  ASSUME IInv, OrderInv, IInv', UNCHANGED <<rows, exec, daemon>>,
         NEW k \in DOMAIN turns, turns[k].phase \in {"prep", "run", "wind"},
         Throw(k)
  PROVE  OrderInv'
  <1>1. Kept /\ SameShut
    <2>0. SessionTypeOK
      BY DEF IInv, TypeOK
    <2>1. PICK o : o = turns[k].object
      OBVIOUS
    <2>2. \/ objects' = [objects EXCEPT ![o].stopped = FALSE]
          \/ objects' = objects
          \/ objects' = AbortUnaborted(o)
      BY <2>1 DEF Throw
    <2>. QED
      BY <2>0, <2>2, StoppedIs, ObjectsStand, UnabortedIs, SameIsKept
  <1>2. \/ To(k, "failing")
        \/ \E f \in Finishes : Finishing(k, "wind", f)
    BY DEF Throw, Finishing, Finishes
  <1>. QED
    BY <1>1, <1>2, PhaseOrder

LEMMA TurnStepOrder ==
  ASSUME IInv, OrderInv, IInv', NEW k \in DOMAIN turns, TurnStep(k)
  PROVE  OrderInv'
  <1>0. SessionTypeOK /\ UNCHANGED <<rows, exec, daemon>>
    BY DEF IInv, TypeOK, TurnStep, queueVars
  <1>1. CASE StartAgent(k)
    <2>1. PICK o : o = turns[k].object
      OBVIOUS
    <2>2. CASE CanStartRun(o)
      <3>1. To(k, "run") /\ turns[k].phase = "prep"
        BY <1>1, <2>1, <2>2 DEF StartAgent
      <3>2. PICK b : b = objects[o].aborting
        OBVIOUS
      <3>3. objects' = [objects EXCEPT ![o].stopped = b]
        BY <1>1, <2>1, <2>2, <3>2 DEF StartAgent
      <3>4. Kept /\ SameShut
        BY <1>0, <3>3, StoppedIs, SameIsKept
      <3>. QED
        BY <1>0, <3>1, <3>4, PhaseOrder
    <2>3. CASE ~CanStartRun(o)
      <3>1. Throw(k) /\ turns[k].phase = "prep"
        BY <1>1, <2>1, <2>3 DEF StartAgent
      <3>. QED
        BY <1>0, <3>1, ThrowOrder
    <2>. QED
      BY <2>2, <2>3
  <1>2. ASSUME NEW finish \in Finishes, AgentEnds(k, finish)
        PROVE  OrderInv'
    <2>1. Finishing(k, "wind", finish) /\ turns[k].phase = "run"
      BY <1>2 DEF AgentEnds, Finishing
    <2>2. PICK o : o = turns[k].object
      OBVIOUS
    <2>3. objects' = [objects EXCEPT ![o].stopped = FALSE]
      BY <1>2, <2>2 DEF AgentEnds
    <2>4. Kept /\ SameShut
      BY <1>0, <2>3, StoppedIs, SameIsKept
    <2>. QED
      BY <1>0, <2>1, <2>4, PhaseOrder
  <1>3. CASE TearDown(k)
    <2>1. To(k, "torn") /\ turns[k].phase \in Open
      BY <1>3 DEF TearDown, Open
    <2>2. /\ turns'[k].phase = "torn"
          /\ \A j \in DOMAIN turns \ {k} : turns'[j] = turns[j]
          /\ History
      BY <1>0, <2>1, OnePhase, PhaseMoves DEF TurnPhases
    <2>3. DOMAIN turns' = DOMAIN turns
      BY <2>1, <1>0 DEF To, SessionTypeOK
    <2>4. PICK o : o = turns[k].object
      OBVIOUS
    <2>5. objects' = AgentShut(o)
      BY <1>3, <2>4 DEF TearDown
    <2>6. Kept
      BY <1>0, <2>5, AgentShutIs, SameIsKept
    <2>7. turns'[k].phase \in Open /\ turns'[k].phase # "wind"
      BY <2>2 DEF Open
    <2>. QED
      BY <1>0, <2>1, <2>2, <2>3, <2>6, <2>7, OrderGoesOn
  <1>. QED
    BY <1>1, <1>2, <1>3 DEF TurnStep

LEMMA ConsumeSteeringOrder ==
  ASSUME IInv, OrderInv, IInv', NEW k \in DOMAIN turns, ConsumeSteering(k)
  PROVE  OrderInv'
  <1>0. /\ SessionTypeOK /\ UNCHANGED <<rows, exec, daemon>>
        /\ ConsumeSteer(k) /\ turns[k].phase = "run"
    BY DEF IInv, TypeOK, ConsumeSteering, ConsumeSteer, queueVars
  <1>1. /\ History /\ DOMAIN turns' = DOMAIN turns
        /\ turns'[k].phase = "run"
    BY <1>0, SteerHistory
  <1>2. \A j \in DOMAIN turns \ {k} : turns'[j] = turns[j]
    BY <1>0 DEF ConsumeSteer, SessionTypeOK
  <1>3. Kept /\ SameShut
    BY <1>0, ObjectsStand DEF ConsumeSteer
  <1>4. turns[k].phase \in Open /\ turns'[k].phase \in Open
    BY <1>0, <1>1 DEF Open
  <1>. QED
    BY <1>0, <1>1, <1>2, <1>3, <1>4, OrderGoesOn

LEMMA TurnFailsOrder ==
  ASSUME IInv, OrderInv, IInv', NEW k \in DOMAIN turns, TurnFails(k)
  PROVE  OrderInv'
  <1>1. /\ Throw(k) /\ turns[k].phase \in {"prep", "run", "wind"}
        /\ UNCHANGED <<rows, exec, daemon>>
    BY DEF TurnFails, Fail, queueVars
  <1>. QED
    BY <1>1, ThrowOrder

\* The turn is over, and the executor reads its snapshot.
LEMMA TurnReturnsOrder ==
  ASSUME IInv, OrderInv, IInv', NEW k \in DOMAIN turns, TurnReturns(k)
  PROVE  OrderInv'
  <1>. SUFFICES ASSUME Undisturbed'
                PROVE  Steady'
    BY DEF OrderInv
  <1>0. SessionTypeOK /\ turns \in Seq(Turn)
    BY DEF IInv, TypeOK, SessionTypeOK
  <1>1. /\ turns[k].phase = "wind" /\ To(k, "done") /\ turns[k].phase \in Open
        /\ UNCHANGED <<rows, daemon>>
        /\ exec' = IF Awaiting(k) THEN [exec EXCEPT !.at = "reply"] ELSE exec
    BY DEF TurnReturns, Settle, Open
  <1>2. /\ turns'[k].phase = "done" /\ History
        /\ \A j \in DOMAIN turns \ {k} : turns'[j] = turns[j]
    BY <1>0, <1>1, OnePhase, PhaseMoves DEF TurnPhases
  <1>3. Kept /\ SameShut
    <2>1. PICK o : o = turns[k].object
      OBVIOUS
    <2>2. objects' = [objects EXCEPT ![o].aborting = FALSE]
      BY <2>1 DEF TurnReturns, Settle
    <2>. QED
      BY <1>0, <2>2, AbortingIs, SameIsKept
  <1>4. Steady
    BY <1>2, <1>3, UndisturbedBefore DEF OrderInv
  <1>5. /\ k = Len(turns) /\ exec.at = "turn" /\ exec.row = k /\ exec.turn = k
    BY <1>1, <1>4 DEF Steady, TurnSteady, ExecutorSteady
  <1>6. exec'.at = "reply" /\ exec'.row = k /\ exec'.turn = k
    BY <1>1, <1>5, Numbers DEF Awaiting
  <1>7. /\ DOMAIN turns' = DOMAIN turns /\ turns'[k].finish = turns[k].finish
        /\ turns'[k].row = turns[k].row
    BY <1>0, <1>1, CurrentType DEF To, Turn
  <1>8. Len(turns') = Len(turns)
    BY <1>0, <1>1, PhaseChanged DEF TurnPhases
  <1>9. ~Session'.shut
    BY <1>1, <1>3, <1>4, <1>5, SameSession DEF Steady, ExecutorSteady
  <1>10. TakenUp(rows, Taking)' /\ ExecutorSteady'
    <2>1. Len(turns) > 0
      BY <1>5, Numbers
    <2>. QED
      BY <1>1, <1>2, <1>4, <1>5, <1>6, <1>8, <1>9, <2>1
         DEF Steady, TakenUp, Taking, ExecutorSteady
  <1>11. ASSUME NEW j \in DOMAIN turns'
         PROVE  TurnSteady(j)'
    <2>1. CASE j = k
      BY <1>1, <1>2, <1>4, <1>7, <2>1 DEF Steady, TurnSteady, Open
    <2>2. CASE j # k
      BY <1>1, <1>2, <1>4, <1>5, <1>7, <2>2 DEF Steady, TurnSteady
    <2>. QED
      BY <2>1, <2>2
  <1>. QED
    BY <1>1, <1>4, <1>10, <1>11 DEF Steady

\* A rejected turn takes its session along.
LEMMA TurnRejectsOrder ==
  ASSUME IInv, NEW k \in DOMAIN turns, TurnRejects(k)
  PROVE  ~Undisturbed'
  <1>1. PICK table \in Seq(Object) : table = objects
    BY DEF IInv, TypeOK, SessionTypeOK
  <1>2. Unmap(table) /\ Len(table) = Len(objects)
    BY <1>1 DEF TurnRejects, Reject
  <1>. QED
    BY <1>2, UnmapIs, UnmappedDisturbs DEF IInv, TypeOK

\* A run that timed out is no longer awaited.
LEMMA RunTimeoutOrder ==
  ASSUME IInv, NEW k \in DOMAIN turns, RunTimeout(k)
  PROVE  ~Undisturbed'
  <1>1. k \in DOMAIN turns' /\ ~turns'[k].awaited
    BY TimeoutHistory DEF IInv, TypeOK
  <1>. QED
    BY <1>1 DEF Undisturbed

\* A replayed prompt is awaited by nobody.
LEMMA DrainPromptOrder ==
  ASSUME IInv, OrderInv, DrainPrompt
  PROVE  OrderInv'
  <1>0. SessionTypeOK /\ Drain /\ UNCHANGED <<rows, exec, daemon>>
    BY DEF IInv, TypeOK, DrainPrompt, queueVars
  <1>1. Kept /\ SameShut
    BY <1>0, ObjectsStand DEF Drain
  <1>2. CASE Mapped /\ DrainFollows(pending)
    <2>1. pending \in Seq(Entry) /\ pending # <<>>
      BY <1>0, <1>2 DEF SessionTypeOK, DrainFollows
    <2>2. Head(pending) \in Entry
      BY <2>1
    <2>3. PICK text \in Texts : text = Head(pending).text
      BY <2>2 DEF Entry
    <2>4. turns' = Append(turns, NewTurn("drain", 0, text, "prep"))
      BY <1>0, <1>2, <2>3 DEF Drain
    <2>5. /\ Len(turns') = Len(turns) + 1 /\ turns' \in Seq(Turn)
          /\ turns'[Len(turns) + 1] = NewTurn("drain", 0, text, "prep")
      BY <1>0, <1>2, <2>4, OneTurnArrives, TurnAdded DEF TurnPhases
    <2>6. Len(turns) + 1 \in DOMAIN turns'
      BY <2>5, Numbers, SeqDomain
    <2>7. ~turns'[Len(turns) + 1].awaited
      <3>1. History
        BY <1>0, <1>2, <2>4, OneTurnArrives
      <3>2. turns'[Len(turns) + 1].by = "drain"
        BY <2>5 DEF NewTurn
      <3>3. turns'[Len(turns) + 1].awaited = (turns'[Len(turns) + 1].by # "drain")
        BY <2>6, <3>1, Numbers DEF History, Arrives
      <3>. QED
        BY <3>2, <3>3
    <2>. QED
      BY <2>6, <2>7 DEF OrderInv, Undisturbed
  <1>3. CASE ~(Mapped /\ DrainFollows(pending))
    <2>1. turns' = turns
      BY <1>0, <1>3 DEF Drain
    <2>. QED
      BY <1>0, <1>1, <2>1, OrderStands
  <1>. QED
    BY <1>2, <1>3

\* Enqueue: the executor takes the run up, or it waits behind the others.
LEMMA EnqueueOrder ==
  ASSUME IInv, OrderInv, NEW text \in RunTexts, NEW delivery \in RunDeliveries,
         Enqueue(text, delivery)
  PROVE  OrderInv'
  <1>. SUFFICES ASSUME Undisturbed'
                PROVE  Steady'
    BY DEF OrderInv
  <1>0. /\ turns' = turns /\ objects' = objects /\ UNCHANGED <<sessionVars, daemon>>
    BY DEF Enqueue, sessionVars
  <1>1. Kept /\ SameShut /\ History
    BY <1>0, ObjectsStand, TurnsStand DEF IInv, TypeOK
  <1>2. Steady
    BY <1>1, UndisturbedBefore DEF OrderInv
  <1>3. PICK new : new = [text |-> text, delivery |-> delivery,
                          state |-> "queued"]
    OBVIOUS
  <1>4. new \in Row /\ new.state = "queued"
    BY <1>3, TextsAssumption DEF Row
  <1>5. PICK table : table = Append(rows, new)
    OBVIOUS
  <1>6. Pump(table)
    BY <1>3, <1>5 DEF Enqueue
  <1>7. /\ table \in Seq(Row) /\ Len(table) = Len(rows) + 1
        /\ DOMAIN table = 1..(Len(rows) + 1)
        /\ \A i \in DOMAIN rows : table[i] = rows[i]
        /\ table[Len(rows) + 1].state = "queued"
    BY <1>4, <1>5, Numbers, AppendSeq
  <1>8. ASSUME NEW n \in Nat, TakenUp(rows, n)
        PROVE  TakenUp(table, n)
    BY <1>7, <1>8, Numbers DEF TakenUp
  <1>9. \A k \in DOMAIN turns : k \in DOMAIN rows
    BY <1>2, Numbers DEF Steady, TakenUp, Taking
  <1>10. CASE exec.at = "none"
    <2>1. TakenUp(table, Len(turns))
      BY <1>2, <1>8, <1>10, Numbers DEF Steady, Taking
    <2>2. TakeNext(table)
      BY <1>6, <1>10 DEF Pump
    <2>3. /\ \A k \in DOMAIN turns : turns[k].phase \notin Open
          /\ ~Session.shut
      BY <1>2, <1>10, NobodyAtWork
    <2>4. \A k \in DOMAIN turns : /\ turns[k].row = k
                                  /\ turns[k].phase = "done"
                                       => turns[k].finish # "none"
                                  /\ table[k].state = "completed"
                                       => turns[k].finish = "completed"
      BY <1>2, <1>7, <1>9 DEF Steady, TurnSteady
    <2>5. daemon = "up"
      BY <1>2 DEF Steady
    <2>. QED
      BY <1>0, <1>7, <2>1, <2>2, <2>3, <2>4, <2>5, SteadyTakes
  <1>11. CASE exec.at # "none"
    <2>1. rows' = table /\ exec' = exec
      BY <1>6, <1>11 DEF Pump
    <2>2. Taking \in Nat
      BY Numbers DEF Taking
    <2>3. TakenUp(rows', Taking')
      BY <1>0, <1>2, <1>8, <2>1, <2>2 DEF Steady, Taking
    <2>4. ExecutorSteady'
      BY <1>0, <1>2, <2>1 DEF Steady, ExecutorSteady, Taking, Session, Current
    <2>5. \A k \in DOMAIN turns' : TurnSteady(k)'
      BY <1>0, <1>2, <1>7, <1>9, <2>1 DEF Steady, TurnSteady
    <2>. QED
      BY <1>0, <1>2, <2>3, <2>4, <2>5 DEF Steady
  <1>. QED
    BY <1>10, <1>11

\* A direct call disturbs.
LEMMA RunStartOrder ==
  ASSUME IInv, NEW text \in DirectTexts, NEW delivery \in Deliveries,
         RunStart(text, delivery)
  PROVE  ~Undisturbed'
  <1>1. RunTurn("direct", 0, text, delivery) /\ text \in Texts
    BY TextsAssumption DEF RunStart
  <1>2. PICK ph \in {"prep", "parked"} :
          turns' = Append(turns, NewTurn("direct", 0, text, ph))
    BY <1>1 DEF RunTurn, Begin, Park
  <1>3. Mapped
    BY <1>1 DEF RunTurn
  <1>4. /\ Len(turns') = Len(turns) + 1 /\ turns' \in Seq(Turn)
        /\ turns'[Len(turns) + 1] = NewTurn("direct", 0, text, ph)
    BY <1>1, <1>2, <1>3, OneTurnArrives, TurnAdded DEF IInv, TypeOK, TurnPhases
  <1>5. Len(turns) + 1 \in DOMAIN turns'
    BY <1>4, Numbers, SeqDomain
  <1>6. turns'[Len(turns) + 1].by = "direct"
    BY <1>4 DEF NewTurn
  <1>. QED
    BY <1>5, <1>6 DEF Undisturbed

LEMMA AbortRunOrder ==
  ASSUME IInv, OrderInv, AbortRun
  PROVE  OrderInv'
  BY AbortEffectIs, OrderStands DEF IInv, TypeOK, AbortRun, Abort, queueVars

LEMMA EditPromptsOrder ==
  ASSUME IInv, OrderInv, EditPrompts
  PROVE  OrderInv'
  <1>1. /\ turns' = turns /\ objects' = objects
        /\ UNCHANGED <<rows, exec, daemon>>
    BY DEF EditPrompts, Redeliver, DeletePending, queueVars
  <1>. QED
    BY <1>1, ObjectsStand, OrderStands

\* A session that is stopped, or is being shut down, is disturbed.
LEMMA EndSessionOrder ==
  ASSUME IInv, EndSession
  PROVE  ~Undisturbed'
  <1>0. SessionTypeOK /\ Current \in DOMAIN objects
    BY CurrentType DEF IInv, TypeOK
  <1>1. PICK o, a, b : /\ o = Current
                       /\ a = (objects[o].aborting \/ ~CanStartRun(o))
                       /\ b = (objects[o].stopped \/ Busy(o))
    OBVIOUS
  <1>2. PICK e : e = [objects[o] EXCEPT !.stop = "closing", !.aborting = a,
                                        !.stopped = b]
    OBVIOUS
  <1>3. objects' = [objects EXCEPT ![o] = e]
    BY <1>0, <1>1, <1>2 DEF EndSession, StopSession, SessionTypeOK
  <1>4. e.stop = "closing"
    BY <1>0, <1>1, <1>2, CurrentType DEF Object
  <1>5. Current' = Current /\ objects'[o].stop = "closing"
    BY <1>0, <1>1, <1>3, <1>4, OneObject DEF Current
  <1>. QED
    BY <1>1, <1>5 DEF Undisturbed, Session

LEMMA CleanupOrder ==
  ASSUME IInv, OrderInv, Cleanup
  PROVE  ~Undisturbed'
  <1>0. SessionTypeOK
    BY DEF IInv, TypeOK
  <1>1. ASSUME NEW o \in DOMAIN objects, ShutAgent(o)
        PROVE  ~Undisturbed'
    <2>1. PICK s : s = (objects[o].shut \/ ~Busy(o))
      OBVIOUS
    <2>2. PICK e : e = [objects[o] EXCEPT !.shut = s, !.stop = "torn"]
      OBVIOUS
    <2>3. objects' = [objects EXCEPT ![o] = e]
      BY <1>0, <1>1, <2>1, <2>2 DEF ShutAgent, AgentShut, SessionTypeOK
    <2>4. e.stop = "torn"
      BY <1>0, <2>2, CurrentType DEF Object
    <2>5. Len(objects') = Len(objects) /\ objects'[o].stop = "torn"
      BY <1>0, <2>3, <2>4, OneObject
    <2>6. Undisturbed' => o = Current'
      BY <2>5, Numbers DEF Undisturbed, Current
    <2>. QED
      BY <2>5, <2>6 DEF Undisturbed, Session
  <1>2. ASSUME NEW o \in DOMAIN objects, DropSession(o)
        PROVE  ~Undisturbed'
    <2>1. PICK e : e = [objects[o] EXCEPT !.stop = "over"]
      OBVIOUS
    <2>2. e \in Object
      BY <1>0, <2>1, CurrentType DEF Object
    <2>3. PICK table : table = [objects EXCEPT ![o] = e]
      OBVIOUS
    <2>4. table \in Seq(Object) /\ Len(table) = Len(objects)
      BY <1>0, <2>2, <2>3, UpdateSeq DEF SessionTypeOK
    <2>5. Unmap(table)
      BY <1>2, <2>1, <2>3 DEF DropSession
    <2>. QED
      BY <1>0, <2>4, <2>5, UnmapIs, UnmappedDisturbs
  <1>. QED
    BY <1>1, <1>2 DEF Cleanup

LEMMA HubStopOrder ==
  ASSUME IInv, HubStop
  PROVE  ~Undisturbed'
  <1>0. SessionTypeOK /\ DisposeEffect /\ Current \in DOMAIN objects
    BY CurrentType DEF IInv, TypeOK, HubStop
  <1>1. CASE Mapped
    <2>1. PICK table : table = AbortUnaborted(Current)
      OBVIOUS
    <2>2. table \in Seq(Object) /\ Len(table) = Len(objects)
      BY <1>0, <2>1, AbortUnabortedType
    <2>3. PICK st : st = IF table[Current].stop = "none" THEN "closing"
                         ELSE table[Current].stop
      OBVIOUS
    <2>4. PICK e : e = [table[Current] EXCEPT !.stop = st]
      OBVIOUS
    <2>5. objects' = [table EXCEPT ![Current] = e]
      BY <1>0, <1>1, <2>1, <2>3, <2>4 DEF DisposeEffect
    <2>6. Current \in DOMAIN table /\ table[Current] \in Object
      BY <1>0, <2>2, SeqDomain, Numbers
    <2>7. e \in Object /\ e.stop # "none"
      BY <2>3, <2>4, <2>6 DEF Object
    <2>8. /\ Len(objects') = Len(objects) /\ objects'[Current] = e
      BY <2>2, <2>5, <2>6, <2>7, UpdateSeq
    <2>. QED
      BY <2>7, <2>8 DEF Undisturbed, Session, Current
  <1>2. CASE ~Mapped
    <2>1. objects' = objects
      BY <1>0, <1>2 DEF DisposeEffect
    <2>. QED
      BY <1>2, <2>1 DEF Undisturbed, Mapped, Session, Current
  <1>. QED
    BY <1>1, <1>2

\* Send: nobody is at work, so that the run begins at once.
LEMMA SendOrder ==
  ASSUME IInv, OrderInv, IInv', Listed = {}, Send
  PROVE  OrderInv'
  <1>. SUFFICES ASSUME Undisturbed'
                PROVE  Steady'
    BY DEF OrderInv
  <1>0. /\ SessionTypeOK /\ exec.at = "sending" /\ daemon' = daemon
        /\ exec.row \in DOMAIN rows /\ rows[exec.row].state = "running"
    BY DEF IInv, TypeOK, Send, ServiceHolds, Working
  <1>1. CASE ~Mapped /\ UNCHANGED sessionVars
    BY <1>1 DEF Undisturbed, Mapped, Session, Current, sessionVars
  <1>2. CASE /\ RunTurn("row", exec.row, rows[exec.row].text,
                        rows[exec.row].delivery)
             /\ exec' = [exec EXCEPT !.turn = Len(turns) + 1,
                           !.at = IF turns'[Len(turns) + 1].phase = "parked"
                                  THEN "reply" ELSE "turn"]
             /\ UNCHANGED rows
    <2>1. PICK text \in Texts : text = rows[exec.row].text
      <3>1. rows[exec.row] \in Row
        BY <1>0, Numbers
      <3>. QED
        BY <3>1 DEF Row
    <2>2. PICK r \in Nat : r = exec.row
      BY Numbers
    <2>3. RunTurn("row", r, text, "none")
      <3>1. rows[exec.row].delivery = "none"
        BY <1>0 DEF Listed
      <3>. QED
        BY <1>2, <2>1, <2>2, <3>1
    <2>4. /\ History /\ Len(turns') = Len(turns) + 1
          /\ \A k \in DOMAIN turns : turns'[k] = turns[k]
      BY <1>0, <2>3, RunTurnHistory
    <2>5. Kept /\ SameShut
      <3>1. CASE objects' = objects
        BY <3>1, ObjectsStand
      <3>2. CASE objects' = [objects EXCEPT ![Current].aborting = FALSE]
        <4>1. PICK c : c = Current
          OBVIOUS
        <4>2. objects' = [objects EXCEPT ![c].aborting = FALSE]
          BY <3>2, <4>1
        <4>. QED
          BY <1>0, <4>2, AbortingIs, SameIsKept
      <3>. QED
        BY <2>3, <3>1, <3>2 DEF RunTurn, Begin, Park
    <2>6. Steady
      BY <2>4, <2>5, UndisturbedBefore DEF OrderInv
    <2>7. /\ \A k \in DOMAIN turns : turns[k].phase \notin Open
          /\ ~Session.shut /\ CanStartRun(Current)
      BY <1>0, <2>6, NobodyAtWork
    <2>8. /\ r = Len(turns) + 1 /\ TakenUp(rows, Len(turns) + 1)
      BY <1>0, <2>2, <2>6 DEF Steady, ExecutorSteady, Taking
    <2>9. turns'[Len(turns) + 1] = NewTurn("row", r, text, "prep")
      <3>1. turns' = Append(turns, NewTurn("row", r, text, "prep"))
        BY <2>3, <2>7 DEF RunTurn, Begin, Park
      <3>2. Mapped
        BY <2>3 DEF RunTurn
      <3>. QED
        BY <1>0, <3>1, <3>2, OneTurnArrives
    <2>10. /\ turns'[Len(turns) + 1].phase = "prep"
           /\ turns'[Len(turns) + 1].row = r
      BY <2>9 DEF NewTurn
    <2>11. /\ exec'.at = "turn" /\ exec'.turn = Len(turns) + 1
           /\ exec'.row = r
      BY <1>2, <2>2, <2>10, Numbers
    <2>12. TakenUp(rows, Taking)'
      BY <1>2, <2>4, <2>8, <2>11 DEF Taking, TakenUp
    <2>13. ~Session'.shut
      BY <2>5, <2>7, SameSession
    <2>14. ExecutorSteady'
      BY <2>4, <2>8, <2>10, <2>11, <2>13, Numbers DEF ExecutorSteady, Open
    <2>15. DOMAIN turns' = 1..(Len(turns) + 1)
      BY <2>4, SeqDomain DEF IInv, TypeOK, SessionTypeOK
    <2>16. ASSUME NEW k \in DOMAIN turns'
           PROVE  TurnSteady(k)'
      <3>1. CASE k \in DOMAIN turns
        BY <1>2, <2>4, <2>6, <2>7, <3>1 DEF Steady, TurnSteady
      <3>2. CASE k = Len(turns) + 1
        BY <1>0, <1>2, <2>2, <2>4, <2>8, <2>10, <2>11, <3>2
           DEF TurnSteady
      <3>. QED
        BY <2>15, <3>1, <3>2, Numbers
    <2>. QED
      BY <1>0, <2>6, <2>12, <2>14, <2>16 DEF Steady
  <1>. QED
    BY <1>1, <1>2 DEF Send

\* Reply: the run ends the way its turn did, and the next one is taken.
LEMMA ReplyOrder ==
  ASSUME IInv, OrderInv, Reply
  PROVE  OrderInv'
  <1>. SUFFICES ASSUME Undisturbed'
                PROVE  Steady'
    BY DEF OrderInv
  <1>0. /\ exec.at = "reply" /\ daemon' = daemon /\ UNCHANGED sessionVars
        /\ turns' = turns /\ objects' = objects
    BY DEF Reply, sessionVars
  <1>1. Kept /\ SameShut /\ History
    BY <1>0, ObjectsStand, TurnsStand DEF IInv, TypeOK
  <1>2. Steady
    BY <1>1, UndisturbedBefore DEF OrderInv
  <1>3. PICK n : n = Len(turns)
    OBVIOUS
  <1>4. /\ exec.row = n /\ exec.turn = n /\ n \in DOMAIN turns /\ n \in DOMAIN rows
        /\ turns[n].phase = "done" /\ turns[n].finish # "none"
        /\ TakenUp(rows, n) /\ n \in Nat
    BY <1>0, <1>2, <1>3, Numbers
       DEF Steady, ExecutorSteady, TurnSteady, TakenUp, Taking
  <1>5. PICK st : st = OutcomeOf(turns[n].finish)
    OBVIOUS
  <1>6. /\ st \in Terminal /\ st # "queued"
        /\ st = "completed" => turns[n].finish = "completed"
    <2>1. turns[n].finish \in {"completed", "error", "aborted", "rejected"}
      BY <1>4, Numbers DEF Turn, Finishes
    <2>. QED
      BY <1>5, <2>1 DEF OutcomeOf, Terminal
  <1>7. PICK table : table = Ended(rows, n, st)
    OBVIOUS
  <1>8. /\ table \in Seq(Row) /\ DOMAIN table = DOMAIN rows
        /\ Len(table) = Len(rows)
        /\ \A i \in DOMAIN rows :
             table[i].state = IF i = n THEN st ELSE rows[i].state
    <2>1. st \in {"queued", "running"} \cup Terminal
      BY <1>6
    <2>2. rows \in Seq(Row) /\ n \in DOMAIN rows
      BY <1>4, Numbers
    <2>3. /\ Ended(rows, n, st) \in Seq(Row)
          /\ DOMAIN Ended(rows, n, st) = DOMAIN rows
          /\ Len(Ended(rows, n, st)) = Len(rows)
          /\ \A i \in DOMAIN rows :
               Ended(rows, n, st)[i].state = IF i = n THEN st ELSE rows[i].state
      BY <2>1, <2>2, EndedType
    <2>. QED
      BY <1>7, <2>3
  <1>9. TakeNext(table)
    BY <1>4, <1>5, <1>7 DEF Reply
  <1>10. TakenUp(table, n)
    <2>1. ~(n > n)
      BY <1>4
    <2>. QED
      BY <1>4, <1>6, <1>8, <2>1 DEF TakenUp
  <1>11. /\ \A k \in DOMAIN turns : turns[k].phase \notin Open
         /\ ~Session.shut
    BY <1>0, <1>2, NobodyAtWork
  <1>12. \A k \in DOMAIN turns : k \in DOMAIN rows
    BY <1>3, <1>4, Numbers DEF TakenUp
  <1>13. \A k \in DOMAIN turns : /\ turns[k].row = k
                                 /\ turns[k].phase = "done"
                                      => turns[k].finish # "none"
                                 /\ table[k].state = "completed"
                                      => turns[k].finish = "completed"
    BY <1>2, <1>6, <1>8, <1>12 DEF Steady, TurnSteady
  <1>14. daemon = "up"
    BY <1>2 DEF Steady
  <1>. QED
    BY <1>0, <1>3, <1>8, <1>9, <1>10, <1>11, <1>13, <1>14, SteadyTakes

LEMMA LeavePumpOrder ==
  ASSUME IInv, OrderInv, LeavePump
  PROVE  OrderInv'
  <1>. SUFFICES ASSUME Undisturbed'
                PROVE  Steady'
    BY DEF OrderInv
  <1>0. /\ exec.at = "leaving" /\ daemon' = daemon /\ UNCHANGED sessionVars
        /\ turns' = turns /\ objects' = objects
    BY DEF LeavePump, sessionVars
  <1>1. Kept /\ SameShut /\ History
    BY <1>0, ObjectsStand, TurnsStand DEF IInv, TypeOK
  <1>2. Steady
    BY <1>1, UndisturbedBefore DEF OrderInv
  <1>3. /\ \A k \in DOMAIN turns : turns[k].phase \notin Open
        /\ ~Session.shut
    BY <1>0, <1>2, NobodyAtWork
  <1>4. TakenUp(rows, Len(turns)) /\ daemon = "up"
    BY <1>0, <1>2 DEF Steady, Taking
  <1>5. \A k \in DOMAIN turns : /\ turns[k].row = k
                                /\ turns[k].phase = "done"
                                     => turns[k].finish # "none"
                                /\ rows[k].state = "completed"
                                     => turns[k].finish = "completed"
    BY <1>2 DEF Steady, TurnSteady
  <1>6. CASE TakeNext(rows)
    BY <1>0, <1>3, <1>4, <1>5, <1>6, Numbers, SteadyTakes
  <1>7. CASE exec' = Idle /\ rows' = rows
    <2>1. exec'.at = "none"
      BY <1>7 DEF Idle
    <2>2. TakenUp(rows', Taking') /\ ExecutorSteady'
      BY <1>0, <1>3, <1>4, <1>7, <2>1
         DEF Taking, ExecutorSteady, Session, Current
    <2>3. \A k \in DOMAIN turns' : TurnSteady(k)'
      BY <1>0, <1>3, <1>5, <1>7, <1>2 DEF TurnSteady, Steady
    <2>. QED
      BY <1>0, <1>4, <2>2, <2>3 DEF Steady
  <1>. QED
    BY <1>6, <1>7 DEF LeavePump

\* A daemon that serves is not started again.
LEMMA RestartOrder ==
  ASSUME IInv, OrderInv, Restart
  PROVE  ~Undisturbed'
  <1>1. ~Undisturbed
    BY DEF OrderInv, Steady, Restart
  <1>2. turns' = turns /\ objects' = objects
    BY DEF Restart, sessionVars
  <1>. QED
    BY <1>1, <1>2 DEF Undisturbed, Mapped, Session, Current

LEMMA NextOrder ==
  ASSUME IInv, OrderInv, Listed = {}, [Next]_vars
  PROVE  OrderInv'
  <1>0. IInv'
    BY NextOk, OkKeepsInv
  <1>1. CASE Clients
    <2>1. CASE HubDrain
      BY <2>1, ObjectsStand, OrderStands DEF HubDrain, sessionVars
    <2>. QED
      BY <1>1, <2>1, EnqueueOrder, RunStartOrder, AbortRunOrder,
         EditPromptsOrder, ResumeDisturbs, EndSessionOrder
         DEF Clients, OrderInv, ResumeSession
  <1>2. CASE Executor
    BY <1>0, <1>2, SendOrder, ReplyOrder, LeavePumpOrder DEF Executor
  <1>3. CASE DrainPrompt
    BY <1>3, DrainPromptOrder
  <1>4. CASE Progress
    BY <1>0, <1>4, TurnStepOrder, TurnReturnsOrder, TurnRejectsOrder
       DEF Progress, OrderInv
  <1>5. CASE Cleanup \/ Restart
    BY <1>5, CleanupOrder, RestartOrder DEF OrderInv
  <1>6. CASE Upheavals
    BY <1>0, <1>6, ConsumeSteeringOrder, TurnFailsOrder, RunTimeoutOrder,
       HubStopOrder, LossDisturbs DEF Upheavals, OrderInv, Crash
  <1>7. CASE HubExit
    BY <1>0, <1>7, LossDisturbs DEF OrderInv, HubExit
  <1>8. CASE Halt \/ UNCHANGED vars
    <2>1. turns' = turns /\ objects' = objects /\ UNCHANGED <<rows, exec, daemon>>
      BY <1>8 DEF Halt, vars, sessionVars, queueVars
    <2>. QED
      BY <2>1, ObjectsStand, OrderStands
  <1>. QED
    BY <1>1, <1>2, <1>3, <1>4, <1>5, <1>6, <1>7, <1>8 DEF Next

-----------------------------------------------------------------------------
(* What runs ask for *)

\* Every run of the table asks for what it was accepted with.
SameWishes(table) ==
  \A i \in DOMAIN rows :
    i \in DOMAIN table /\ table[i].delivery = rows[i].delivery

LEMMA SameTableWishes ==
  ASSUME rows' = rows
  PROVE  SameWishes(rows')
  BY DEF SameWishes

\* markTerminal and markRunning write the state only.
LEMMA EndedWishes ==
  ASSUME NEW table \in Seq(Row), SameWishes(table), NEW i \in Nat, NEW state
  PROVE  SameWishes(Ended(table, i, state))
  <1>1. PICK e : e = [table[i] EXCEPT !.state = state]
    OBVIOUS
  <1>2. Ended(table, i, state) = [table EXCEPT ![i] = e]
    BY <1>1 DEF Ended
  <1>3. i \in DOMAIN table => e.delivery = table[i].delivery
    <2>1. i \in DOMAIN table => table[i] \in Row
      BY SeqDomain
    <2>. QED
      BY <1>1, <2>1 DEF Row
  <1>. QED
    BY <1>2, <1>3 DEF SameWishes

LEMMA TakeNextWishes ==
  ASSUME NEW table \in Seq(Row), SameWishes(table), TakeNext(table)
  PROVE  SameWishes(rows')
  <1>1. CASE rows' = table
    BY <1>1
  <1>2. CASE \E i \in Queued(table) : rows' = Ended(table, i, "running")
    <2>1. PICK i \in Queued(table) : rows' = Ended(table, i, "running")
      BY <1>2
    <2>2. i \in Nat
      BY SeqDomain DEF Queued
    <2>. QED
      BY <2>1, <2>2, EndedWishes
  <1>. QED
    BY <1>1, <1>2 DEF TakeNext

LEMMA EndedRows ==
  ASSUME NEW table \in Seq(Row), NEW i \in Nat, NEW state \in Terminal
  PROVE  Ended(table, i, state) \in Seq(Row)
  <1>1. CASE i \in DOMAIN table
    BY <1>1, EndedType
  <1>2. CASE i \notin DOMAIN table
    <2>1. PICK e : e = [table[i] EXCEPT !.state = state]
      OBVIOUS
    <2>2. Ended(table, i, state) = [table EXCEPT ![i] = e]
      BY <2>1 DEF Ended
    <2>3. [table EXCEPT ![i] = e] = table
      BY <1>2
    <2>. QED
      BY <2>2, <2>3
  <1>. QED
    BY <1>1, <1>2

\* The run in work ends, and the next one is taken.
LEMMA EndsAndTakesWishes ==
  ASSUME IInv, NEW state \in Terminal,
         TakeNext(Ended(rows, exec.row, state))
  PROVE  SameWishes(rows')
  <1>1. rows \in Seq(Row) /\ exec.row \in Nat
    BY DEF IInv, TypeOK
  <1>2. SameWishes(rows)
    BY DEF SameWishes
  <1>3. PICK table : table = Ended(rows, exec.row, state)
    OBVIOUS
  <1>4. SameWishes(table)
    BY <1>1, <1>2, <1>3, EndedWishes
  <1>5. table \in Seq(Row)
    BY <1>1, <1>3, EndedRows
  <1>. QED
    BY <1>3, <1>4, <1>5, TakeNextWishes

\* A run is added.
LEMMA EnqueueWishes ==
  ASSUME IInv, NEW text \in RunTexts, NEW delivery \in RunDeliveries,
         Enqueue(text, delivery)
  PROVE  SameWishes(rows')
  <1>1. PICK new : new = [text |-> text, delivery |-> delivery,
                          state |-> "queued"]
    OBVIOUS
  <1>2. new \in Row
    BY <1>1, TextsAssumption DEF Row
  <1>3. PICK table : table = Append(rows, new)
    OBVIOUS
  <1>4. Pump(table)
    BY <1>1, <1>3 DEF Enqueue
  <1>5. /\ table \in Seq(Row) /\ SameWishes(table)
    BY <1>2, <1>3, Numbers, AppendSeq DEF SameWishes
  <1>. QED
    BY <1>4, <1>5, TakeNextWishes DEF Pump

\* recoverOnStartup writes the state only.
LEMMA RestartWishes ==
  ASSUME IInv, Restart
  PROVE  SameWishes(rows')
  <1>1. PICK table :
          table = [i \in DOMAIN rows |->
                     IF rows[i].state = "running"
                     THEN [rows[i] EXCEPT !.state = "interrupted"]
                     ELSE rows[i]]
    OBVIOUS
  <1>2. TakeNext(table) \/ rows' = table
    BY <1>1 DEF Restart
  <1>3. /\ DOMAIN table = DOMAIN rows
        /\ \A i \in DOMAIN rows : /\ table[i] \in Row
                                  /\ table[i].delivery = rows[i].delivery
    <2>1. \A i \in DOMAIN rows : rows[i] \in Row
      BY Numbers
    <2>. QED
      BY <1>1, <2>1 DEF Row, Terminal
  <1>4. table \in Seq(Row)
    <2>1. table \in [1..Len(rows) -> Row] /\ Len(rows) \in Nat
      BY <1>1, <1>3, Numbers
    <2>. QED
      BY <2>1, FunIsSeq
  <1>5. SameWishes(table)
    BY <1>3 DEF SameWishes
  <1>. QED
    BY <1>2, <1>4, <1>5, TakeNextWishes

LEMMA NextWishes ==
  ASSUME IInv, [Next]_vars
  PROVE  SameWishes(rows')
  <1>1. ASSUME NEW text \in RunTexts, NEW delivery \in RunDeliveries,
               Enqueue(text, delivery)
        PROVE  SameWishes(rows')
    BY <1>1, EnqueueWishes
  <1>2. CASE Send \/ Reply \/ LeavePump
    <2>1. CASE \E state \in Terminal : TakeNext(Ended(rows, exec.row, state))
      BY <2>1, EndsAndTakesWishes
    <2>2. CASE TakeNext(rows)
      BY <2>2, Numbers, TakeNextWishes DEF SameWishes
    <2>3. CASE rows' = rows
      BY <2>3, SameTableWishes
    <2>. QED
      BY <1>2, <2>1, <2>2, <2>3 DEF Send, Reply, LeavePump, OutcomeOf, Terminal
  <1>3. ASSUME NEW k \in DOMAIN turns, RunTimeout(k) \/ TurnRejects(k)
        PROVE  SameWishes(rows')
    <2>1. CASE TakeNext(Ended(rows, exec.row, "failed"))
      BY <2>1, EndsAndTakesWishes DEF Terminal
    <2>2. CASE rows' = rows
      BY <2>2, SameTableWishes
    <2>. QED
      BY <1>3, <2>1, <2>2 DEF RunTimeout, TurnRejects
  <1>4. CASE Restart
    BY <1>4, RestartWishes
  <1>5. CASE rows' = rows
    BY <1>5, SameTableWishes
  <1>. QED
    BY <1>1, <1>2, <1>3, <1>4, <1>5
       DEF Next, vars, queueVars, Clients, RunStart, AbortRun, EditPrompts,
           ResumeSession, HubDrain, EndSession, Executor, DrainPrompt, Progress,
           TurnStep, TurnReturns, Cleanup, Upheavals, ConsumeSteering, TurnFails,
           HubStop, Crash, HubExit, Halt

LEMMA InitOrder ==
  ASSUME Init
  PROVE  OrderInv
  <1>1. /\ turns = <<>> /\ rows = <<>> /\ daemon = "up" /\ exec.at = "none"
        /\ objects = <<Fresh>>
    BY DEF Init, SessionInit, Idle
  <1>2. Session = Fresh /\ Len(turns) = 0 /\ Len(rows) = 0
    BY <1>1 DEF Session, Current
  <1>3. ~Session.shut
    BY <1>2 DEF Fresh
  <1>4. TakenUp(rows, Taking) /\ ExecutorSteady
    BY <1>1, <1>2, <1>3 DEF TakenUp, Taking, ExecutorSteady
  <1>. QED
    BY <1>1, <1>4 DEF OrderInv, Steady

\* RunsInOrder: while nobody disturbs it and no run asks for a place in the list
\* of prompts, a session has one turn open at a time, turn k belongs to run k,
\* and a completed run had a completed turn, for any number of runs and whatever
\* becomes of their turns.
THEOREM OrderHolds == Spec => []RunsInOrder
  <1>. DEFINE Inv == Listed = {} => OrderInv
  <1>1. IInv /\ Inv /\ [Next]_vars => Inv'
    <2>. SUFFICES ASSUME IInv, Inv, [Next]_vars, Listed' = {}
                  PROVE  OrderInv'
      OBVIOUS
    <2>1. Listed = {}
      BY NextWishes DEF SameWishes, Listed
    <2>. QED
      BY <2>1, NextOrder
  <1>2. IInv /\ Inv => RunsInOrder
    <2>. SUFFICES ASSUME IInv, Steady, NEW k \in DOMAIN turns
                  PROVE  /\ turns[k].row = k
                         /\ turns[k].phase \in Open =>
                              /\ k = Len(turns) /\ rows[k].state = "running"
                              /\ Awaiting(k)
                         /\ rows[k].state = "completed"
                              => turns[k].finish = "completed"
      BY DEF OrderInv, RunsInOrder
    <2>1. TurnSteady(k) /\ ExecutorSteady
      BY DEF Steady
    <2>. QED
      BY <2>1 DEF TurnSteady, ExecutorSteady, IInv, ServiceHolds, Working,
                  Awaiting
  <1>3. Init => Inv
    BY InitOrder
  <1>. HIDE DEF Inv
  <1>. QED
    BY InvHolds, <1>1, <1>2, <1>3, PTL DEF Spec
-----------------------------------------------------------------------------
(* Prompts that wait *)

Waits(list, text) == {i \in DOMAIN list : list[i].text = text}
Waiting(list, text) == Cardinality(Waits(list, text))

\* One, where the condition holds.
One(b) == IF b THEN 1 ELSE 0

LEMMA WaitsFinite ==
  ASSUME NEW list \in Seq(Entry), NEW text
  PROVE  IsFiniteSet(Waits(list, text)) /\ Waiting(list, text) \in Nat
  <1>1. DOMAIN list = 1..Len(list) /\ Len(list) \in Nat
    BY SeqDomain
  <1>2. IsFiniteSet(DOMAIN list)
    BY <1>1, FS_Interval
  <1>3. IsFiniteSet(Waits(list, text))
    BY <1>2, FS_Subset DEF Waits
  <1>. QED
    BY <1>3, FS_CardinalityType DEF Waiting

\* An empty list keeps nobody waiting.
LEMMA NobodyWaits ==
  ASSUME NEW text
  PROVE  Waiting(<<>>, text) = 0
  <1>1. Waits(<<>>, text) = {}
    BY DEF Waits
  <1>. QED
    BY <1>1, FS_EmptySet DEF Waiting

\* Joining two lists.
LEMMA JoinSeq ==
  ASSUME NEW S, NEW u \in Seq(S), NEW v \in Seq(S)
  PROVE  /\ u \o v \in Seq(S) /\ Len(u \o v) = Len(u) + Len(v)
         /\ Len(u) \in Nat /\ Len(v) \in Nat
         /\ \A j \in 1..(Len(u) + Len(v)) :
              (u \o v)[j] = IF j <= Len(u) THEN u[j] ELSE v[j - Len(u)]
  OBVIOUS

\* A longer list is counted through the places that its elements had: the
\* place x is left out, and f says where the others were.
LEMMA CountThrough ==
  ASSUME NEW S, NEW T, NEW f \in [S -> T],
         \A a, b \in S : f[a] = f[b] => a = b, IsFiniteSet(T)
  PROVE  IsFiniteSet(S) /\ Cardinality(S) <= Cardinality(T)
  <1>1. f \in Injection(S, T)
    BY DEF Injection, IsInjective
  <1>. QED
    BY <1>1, FS_Injection

\* A prompt is put at the end.
LEMMA WaitingAppend ==
  ASSUME NEW list \in Seq(Entry), NEW e \in Entry, NEW text
  PROVE  Waiting(Append(list, e), text) <= Waiting(list, text) + One(e.text = text)
  <1>. DEFINE S == Waits(Append(list, e), text)
              T == Waits(list, text)
              n == Len(list) + 1
  <1>1. /\ DOMAIN Append(list, e) = 1..(Len(list) + 1) /\ DOMAIN list = 1..Len(list)
        /\ \A i \in DOMAIN list : Append(list, e)[i] = list[i]
        /\ Append(list, e)[Len(list) + 1] = e /\ Len(list) \in Nat
    BY AppendSeq, SeqDomain
  <1>2. IsFiniteSet(T) /\ Cardinality(T) \in Nat
    BY WaitsFinite DEF Waiting
  <1>3. CASE e.text = text
    <2>1. S \in SUBSET (T \cup {n})
      BY <1>1 DEF Waits
    <2>. HIDE DEF S, T, n
    <2>2. IsFiniteSet(T \cup {n}) /\ Cardinality(T \cup {n}) <= Cardinality(T) + 1
      <3>1. /\ IsFiniteSet(T \cup {n})
            /\ Cardinality(T \cup {n}) =
                 IF n \in T THEN Cardinality(T) ELSE Cardinality(T) + 1
        BY <1>2, FS_AddElement
      <3>. QED
        BY <1>2, <3>1
    <2>3. Cardinality(S) <= Cardinality(T \cup {n}) /\ Cardinality(S) \in Nat
          /\ Cardinality(T \cup {n}) \in Nat
      BY <2>1, <2>2, FS_Subset, FS_CardinalityType
    <2>. QED
      BY <1>2, <1>3, <2>2, <2>3 DEF Waiting, One, S, T
  <1>4. CASE e.text # text
    <2>1. S \in SUBSET T
      BY <1>1, <1>4 DEF Waits
    <2>2. Cardinality(S) <= Cardinality(T) /\ Cardinality(S) \in Nat
      BY <1>2, <2>1, FS_Subset, FS_CardinalityType
    <2>. QED
      BY <1>2, <1>4, <2>2 DEF Waiting, One
  <1>. QED
    BY <1>3, <1>4

\* A prompt is put in front.
LEMMA WaitingCons ==
  ASSUME NEW list \in Seq(Entry), NEW e \in Entry, NEW text
  PROVE  Waiting(<<e>> \o list, text) <= Waiting(list, text) + One(e.text = text)
  <1>. DEFINE S == Waits(<<e>> \o list, text)
              T == Waits(list, text)
              f == [i \in S \ {1} |-> i - 1]
  <1>1. /\ Len(list) \in Nat /\ DOMAIN list = 1..Len(list)
        /\ DOMAIN (<<e>> \o list) = 1..(Len(list) + 1)
        /\ (<<e>> \o list)[1] = e
        /\ \A i \in 2..(Len(list) + 1) : (<<e>> \o list)[i] = list[i - 1]
    <2>1. <<e>> \in Seq(Entry) /\ Len(<<e>>) = 1 /\ Len(list) \in Nat
      OBVIOUS
    <2>2. /\ Len(<<e>> \o list) = Len(list) + 1
          /\ <<e>> \o list \in Seq(Entry)
      BY <2>1
    <2>3. DOMAIN (<<e>> \o list) = 1..(Len(list) + 1)
      BY <2>1, <2>2, SeqDomain
    <2>4. \A i \in 2..(Len(list) + 1) : (<<e>> \o list)[i] = list[i - 1]
      BY <2>1
    <2>5. (<<e>> \o list)[1] = e
      BY <2>1
    <2>. QED
      BY <2>1, <2>3, <2>4, <2>5, SeqDomain
  <1>2. IsFiniteSet(T) /\ Cardinality(T) \in Nat
    BY WaitsFinite DEF Waiting
  <1>3. f \in [S \ {1} -> T]
    <2>. SUFFICES ASSUME NEW i \in S \ {1}
                  PROVE  i - 1 \in T
      OBVIOUS
    <2>1. i \in 2..(Len(list) + 1) /\ (<<e>> \o list)[i].text = text
      BY <1>1 DEF Waits
    <2>2. i - 1 \in 1..Len(list) /\ list[i - 1].text = text
      BY <1>1, <2>1
    <2>. QED
      BY <1>1, <2>2 DEF Waits
  <1>4. \A a, b \in S \ {1} : f[a] = f[b] => a = b
    BY <1>1 DEF Waits
  <1>. HIDE DEF f, T
  <1>5. IsFiniteSet(S \ {1}) /\ Cardinality(S \ {1}) <= Cardinality(T)
        /\ Cardinality(S \ {1}) \in Nat
    BY <1>2, <1>3, <1>4, CountThrough, FS_CardinalityType
  <1>6. CASE e.text = text
    <2>1. S = (S \ {1}) \cup {1}
      BY <1>1, <1>6 DEF Waits
    <2>. HIDE DEF S
    <2>2. Cardinality(S) <= Cardinality(S \ {1}) + 1 /\ Cardinality(S) \in Nat
      BY <1>5, <2>1, FS_AddElement, FS_CardinalityType
    <2>. QED
      BY <1>2, <1>5, <1>6, <2>2 DEF Waiting, One, S, T
  <1>7. CASE e.text # text
    <2>1. S = S \ {1}
      BY <1>1, <1>7 DEF Waits
    <2>. HIDE DEF S
    <2>2. Cardinality(S) <= Cardinality(T) /\ Cardinality(S) \in Nat
      BY <1>5, <2>1
    <2>. QED
      BY <1>2, <1>7, <2>2 DEF Waiting, One, S, T
  <1>. QED
    BY <1>6, <1>7

\* A prompt is taken out.
LEMMA WaitingRemoveAt ==
  ASSUME NEW list \in Seq(Entry), NEW i \in DOMAIN list, NEW text
  PROVE  Waiting(RemoveAt(list, i), text) + One(list[i].text = text)
           <= Waiting(list, text)
  <1>. DEFINE rest == RemoveAt(list, i)
              S == Waits(rest, text)
              T == Waits(list, text)
              f == [j \in S |-> IF j < i THEN j ELSE j + 1]
  <1>1. /\ Len(list) \in Nat /\ DOMAIN list = 1..Len(list) /\ i \in 1..Len(list)
    BY SeqDomain
  <1>2. /\ DOMAIN rest = 1..(Len(list) - 1)
        /\ \A j \in DOMAIN rest : rest[j] = list[IF j < i THEN j ELSE j + 1]
    <2>. DEFINE u == SubSeq(list, 1, i - 1)
                v == SubSeq(list, i + 1, Len(list))
    <2>1. /\ u \in Seq(Entry) /\ v \in Seq(Entry)
          /\ Len(u) = i - 1 /\ Len(v) = Len(list) - i
      <3>1. /\ \A j \in 1..(i - 1) : list[j] \in Entry
            /\ \A j \in (i + 1)..Len(list) : list[j] \in Entry
            /\ i - 1 \in Int /\ i + 1 \in Int
        BY <1>1, SeqDomain
      <3>. QED
        BY <1>1, <3>1
    <2>2. /\ \A j \in 1..(i - 1) : u[j] = list[j]
          /\ \A j \in 1..(Len(list) - i) : v[j] = list[j + i]
      BY <1>1
    <2>3. rest = u \o v
      BY DEF RemoveAt
    <2>. HIDE DEF u, v, rest
    <2>4. Len(rest) = Len(list) - 1 /\ rest \in Seq(Entry)
      <3>1. u \o v \in Seq(Entry) /\ Len(u \o v) = Len(u) + Len(v)
        BY <2>1, JoinSeq
      <3>. QED
        BY <1>1, <2>1, <2>3, <3>1
    <2>5. DOMAIN rest = 1..(Len(list) - 1)
      BY <1>1, <2>4, SeqDomain
    <2>6. ASSUME NEW j \in DOMAIN rest
          PROVE  rest[j] = list[IF j < i THEN j ELSE j + 1]
      <3>1. CASE j < i
        <4>1. rest[j] = u[j]
          <5>1. j \in 1..(Len(u) + Len(v)) /\ j <= Len(u)
            BY <1>1, <2>1, <2>5, <3>1
          <5>. QED
            BY <2>1, <2>3, <5>1, JoinSeq
        <4>. QED
          BY <1>1, <2>2, <2>5, <3>1, <4>1
      <3>2. CASE ~(j < i)
        <4>1. rest[j] = v[j - (i - 1)]
          <5>1. j \in 1..(Len(u) + Len(v)) /\ ~(j <= Len(u))
            BY <1>1, <2>1, <2>5, <3>2
          <5>. QED
            BY <2>1, <2>3, <5>1, JoinSeq
        <4>2. j - (i - 1) \in 1..(Len(list) - i) /\ (j - (i - 1)) + i = j + 1
          BY <1>1, <2>5, <3>2
        <4>3. v[j - (i - 1)] = list[j + 1]
          BY <2>2, <4>2
        <4>. QED
          BY <3>2, <4>1, <4>3
      <3>. QED
        BY <3>1, <3>2
    <2>. QED
      BY <2>5, <2>6
  <1>3. IsFiniteSet(T) /\ Cardinality(T) \in Nat
    BY WaitsFinite DEF Waiting
  <1>. HIDE DEF rest
  <1>4. f \in [S -> T \ {i}]
    <2>. SUFFICES ASSUME NEW j \in S
                  PROVE  (IF j < i THEN j ELSE j + 1) \in T \ {i}
      OBVIOUS
    <2>1. j \in 1..(Len(list) - 1)
          /\ list[IF j < i THEN j ELSE j + 1].text = text
      BY <1>2 DEF Waits
    <2>. QED
      BY <1>1, <2>1 DEF Waits
  <1>5. \A a, b \in S : f[a] = f[b] => a = b
    <2>1. \A a \in S : a \in Int
      BY <1>1, <1>2 DEF Waits
    <2>. QED
      BY <1>1, <2>1
  <1>. HIDE DEF f
  <1>6. /\ IsFiniteSet(T \ {i})
        /\ Cardinality(T \ {i}) = Cardinality(T) - One(i \in T)
    <2>. HIDE DEF T
    <2>. QED
      BY <1>3, FS_RemoveElement DEF One
  <1>7. Cardinality(S) <= Cardinality(T \ {i}) /\ Cardinality(S) \in Nat
    BY <1>4, <1>5, <1>6, CountThrough, FS_CardinalityType
  <1>8. i \in T <=> list[i].text = text
    BY DEF Waits
  <1>. HIDE DEF T
  <1>. QED
    BY <1>3, <1>6, <1>7, <1>8 DEF Waiting, One, rest, T

\* enqueue lets one more prompt wait at most.
LEMMA WaitingEnqueued ==
  ASSUME SessionTypeOK, NEW entry \in Entry, NEW text
  PROVE  Waiting(Enqueued(entry), text)
           <= Waiting(pending, text) + One(entry.text = text)
  <1>. DEFINE same == {i \in DOMAIN pending : pending[i].text = entry.text}
              it == CHOOSE i \in same : TRUE
              rest == IF same = {} THEN pending ELSE RemoveAt(pending, it)
              steer == entry.steer \/ (same # {} /\ pending[it].steer)
              first == [entry EXCEPT !.steer = TRUE]
  <1>1. Enqueued(entry) = IF steer THEN <<first>> \o rest ELSE Append(rest, entry)
    BY DEF Enqueued
  <1>2. same # {} => it \in DOMAIN pending
    OBVIOUS
  <1>3. rest = IF same = {} THEN pending ELSE RemoveAt(pending, it)
    OBVIOUS
  <1>4. first \in Entry /\ first.text = entry.text
    BY DEF Entry
  <1>. HIDE DEF same, it, rest, steer, first
  <1>5. pending \in Seq(Entry)
    BY DEF SessionTypeOK
  <1>6. rest \in Seq(Entry) /\ Waiting(rest, text) <= Waiting(pending, text)
    <2>1. CASE same = {}
      BY <1>3, <1>5, <2>1, WaitsFinite
    <2>2. CASE same # {}
      <3>2. it \in DOMAIN pending
        BY <1>2, <2>2
      <3>3. rest = RemoveAt(pending, it)
        BY <1>3, <2>2
      <3>4. rest \in Seq(Entry)
        BY <1>5, <3>2, <3>3, RemoveAtSeq
      <3>5. Waiting(RemoveAt(pending, it), text) + One(pending[it].text = text)
              <= Waiting(pending, text)
        BY <1>5, <3>2, WaitingRemoveAt
      <3>6. Waiting(rest, text) \in Nat /\ Waiting(pending, text) \in Nat
        BY <1>5, <3>4, WaitsFinite
      <3>. QED
        BY <3>3, <3>4, <3>5, <3>6 DEF One
    <2>. QED
      BY <2>1, <2>2
  <1>10. /\ Waiting(<<first>> \o rest, text)
              <= Waiting(rest, text) + One(entry.text = text)
         /\ Waiting(Append(rest, entry), text)
              <= Waiting(rest, text) + One(entry.text = text)
         /\ <<first>> \o rest \in Seq(Entry) /\ Append(rest, entry) \in Seq(Entry)
    BY <1>4, <1>6, WaitingCons, WaitingAppend, ConsSeq, AppendSeq
  <1>11. /\ Waiting(<<first>> \o rest, text) \in Nat
         /\ Waiting(Append(rest, entry), text) \in Nat
         /\ Waiting(rest, text) \in Nat /\ Waiting(pending, text) \in Nat
    BY <1>5, <1>6, <1>10, WaitsFinite
  <1>. QED
    BY <1>1, <1>6, <1>10, <1>11 DEF One

-----------------------------------------------------------------------------
(* A parked prompt is delivered once *)

Parked(text) ==
  {k \in DOMAIN turns : turns[k].phase = "parked" /\ turns[k].texts[1] = text}

Once(text) ==
  /\ IsFiniteSet(Taken(text))
  /\ Cardinality(Taken(text)) + Waiting(pending, text)
       <= Cardinality(Parked(text))

OnceInv == \A text \in Texts : Once(text)

SameTexts ==
  /\ DOMAIN turns' = DOMAIN turns
  /\ \A k \in DOMAIN turns :
       /\ turns'[k].texts = turns[k].texts
       /\ turns'[k].by = turns[k].by
       /\ turns[k].phase = "parked" => turns'[k].phase = "parked"

LEMMA ParkedFinite ==
  ASSUME SessionTypeOK, NEW text
  PROVE  IsFiniteSet(Parked(text)) /\ Cardinality(Parked(text)) \in Nat
  <1>1. DOMAIN turns = 1..Len(turns) /\ Len(turns) \in Nat
    BY SeqDomain DEF SessionTypeOK
  <1>2. IsFiniteSet(DOMAIN turns)
    BY <1>1, FS_Interval
  <1>3. IsFiniteSet(Parked(text))
    BY <1>2, FS_Subset DEF Parked
  <1>. QED
    BY <1>3, FS_CardinalityType

\* What a place of Taken is.
LEMMA TakenIs ==
  ASSUME NEW text, NEW x
  PROVE  x \in Taken(text) <=>
           \E k \in DOMAIN turns : \E n \in DOMAIN turns[k].texts :
             /\ x = <<k, n>> /\ turns[k].texts[n] = text
             /\ turns[k].by = "drain" \/ n > 1
  BY DEF Taken, TakenBy

LEMMA TakenNext ==
  ASSUME NEW text, NEW x
  PROVE  x \in Taken(text)' <=>
           \E k \in DOMAIN turns' : \E n \in DOMAIN turns'[k].texts :
             /\ x = <<k, n>> /\ turns'[k].texts[n] = text
             /\ turns'[k].by = "drain" \/ n > 1
  BY DEF Taken, TakenBy

LEMMA TextsTaken ==
  ASSUME SameTexts, NEW text
  PROVE  Taken(text)' = Taken(text) /\ Parked(text) \subseteq Parked(text)'
  <1>1. ASSUME NEW x
        PROVE  x \in Taken(text)' <=> x \in Taken(text)
    BY TakenIs, TakenNext DEF SameTexts
  <1>2. ASSUME NEW k \in Parked(text)
        PROVE  k \in Parked(text)'
    <2>1. k \in DOMAIN turns /\ turns[k].phase = "parked" /\ turns[k].texts[1] = text
      BY DEF Parked
    <2>2. k \in DOMAIN turns' /\ turns'[k].phase = "parked"
          /\ turns'[k].texts = turns[k].texts
      BY <2>1 DEF SameTexts
    <2>3. turns'[k].texts[1] = text
      BY <2>1, <2>2
    <2>. QED
      BY <2>2, <2>3 DEF Parked
  <1>. QED
    BY <1>1, <1>2

\* No prompt of the text is taken, and none is added.
LEMMA OnceStands ==
  ASSUME SessionTypeOK, SessionTypeOK', NEW text, Once(text),
         Taken(text)' = Taken(text), Parked(text) \subseteq Parked(text)',
         Waiting(pending', text) <= Waiting(pending, text)
  PROVE  Once(text)'
  <1>1. Cardinality(Parked(text)) <= Cardinality(Parked(text)')
        /\ Cardinality(Parked(text)) \in Nat /\ Cardinality(Parked(text)') \in Nat
    <2>1. IsFiniteSet(Parked(text)')
      <3>1. DOMAIN turns' = 1..Len(turns') /\ Len(turns') \in Nat
        BY SeqDomain DEF SessionTypeOK
      <3>2. IsFiniteSet(DOMAIN turns')
        BY <3>1, FS_Interval
      <3>. QED
        BY <3>2, FS_Subset DEF Parked
    <2>. QED
      BY <2>1, FS_Subset, FS_CardinalityType, ParkedFinite
  <1>2. Waiting(pending', text) \in Nat /\ Waiting(pending, text) \in Nat
    BY WaitsFinite DEF SessionTypeOK
  <1>3. Cardinality(Taken(text)) \in Nat
    BY FS_CardinalityType DEF Once
  <1>. QED
    BY <1>1, <1>2, <1>3 DEF Once, Waiting, Waits

\* A waiting prompt is taken into a turn.
LEMMA OnceTaken ==
  ASSUME SessionTypeOK, SessionTypeOK', NEW text, Once(text), NEW x,
         Taken(text)' \subseteq Taken(text) \cup {x},
         Parked(text) \subseteq Parked(text)',
         Waiting(pending', text) + 1 <= Waiting(pending, text)
  PROVE  Once(text)'
  <1>1. Cardinality(Parked(text)) <= Cardinality(Parked(text)')
        /\ Cardinality(Parked(text)) \in Nat /\ Cardinality(Parked(text)') \in Nat
    <2>1. IsFiniteSet(Parked(text)')
      <3>1. DOMAIN turns' = 1..Len(turns') /\ Len(turns') \in Nat
        BY SeqDomain DEF SessionTypeOK
      <3>2. IsFiniteSet(DOMAIN turns')
        BY <3>1, FS_Interval
      <3>. QED
        BY <3>2, FS_Subset DEF Parked
    <2>. QED
      BY <2>1, FS_Subset, FS_CardinalityType, ParkedFinite
  <1>2. Waiting(pending', text) \in Nat /\ Waiting(pending, text) \in Nat
    BY WaitsFinite DEF SessionTypeOK
  <1>3. PICK S, T : S = Taken(text) /\ T = Taken(text)'
    OBVIOUS
  <1>4. /\ IsFiniteSet(S) /\ Cardinality(S) \in Nat
        /\ IsFiniteSet(S \cup {x})
        /\ Cardinality(S \cup {x}) =
             IF x \in S THEN Cardinality(S) ELSE Cardinality(S) + 1
    BY <1>3, FS_CardinalityType, FS_AddElement DEF Once
  <1>5. /\ IsFiniteSet(T) /\ Cardinality(T) <= Cardinality(S \cup {x})
        /\ Cardinality(T) \in Nat
    BY <1>3, <1>4, FS_Subset, FS_CardinalityType
  <1>6. Cardinality(S) + Waiting(pending, text) <= Cardinality(Parked(text))
    BY <1>3 DEF Once
  <1>7. Cardinality(T) + Waiting(pending', text) <= Cardinality(Parked(text)')
    BY <1>1, <1>2, <1>4, <1>5, <1>6
  <1>. QED
    BY <1>3, <1>5, <1>7 DEF Once, Waiting, Waits

\* A prompt is parked.
LEMMA OnceParked ==
  ASSUME SessionTypeOK, SessionTypeOK', NEW text, Once(text), NEW n,
         Taken(text)' = Taken(text), n \notin Parked(text),
         Parked(text) \cup {n} \subseteq Parked(text)',
         Waiting(pending', text) <= Waiting(pending, text) + 1
  PROVE  Once(text)'
  <1>1. PICK S, T : S = Parked(text) /\ T = Parked(text)'
    OBVIOUS
  <1>2. IsFiniteSet(T)
    <2>1. DOMAIN turns' = 1..Len(turns') /\ Len(turns') \in Nat
      BY SeqDomain DEF SessionTypeOK
    <2>2. IsFiniteSet(DOMAIN turns')
      BY <2>1, FS_Interval
    <2>. QED
      BY <1>1, <2>2, FS_Subset DEF Parked
  <1>3. /\ IsFiniteSet(S) /\ Cardinality(S) \in Nat /\ n \notin S
        /\ S \cup {n} \in SUBSET T
    BY <1>1, ParkedFinite
  <1>4. Cardinality(S \cup {n}) = Cardinality(S) + 1
    BY <1>3, FS_AddElement
  <1>5. Cardinality(S \cup {n}) <= Cardinality(T) /\ Cardinality(T) \in Nat
    BY <1>2, <1>3, FS_Subset, FS_CardinalityType
  <1>6. Waiting(pending', text) \in Nat /\ Waiting(pending, text) \in Nat
    BY WaitsFinite DEF SessionTypeOK
  <1>7. /\ IsFiniteSet(Taken(text)) /\ Cardinality(Taken(text)) \in Nat
        /\ Cardinality(Taken(text)) + Waiting(pending, text) <= Cardinality(S)
    BY <1>1, FS_CardinalityType DEF Once
  <1>8. Cardinality(Taken(text)') + Waiting(pending', text) <= Cardinality(T)
    BY <1>3, <1>4, <1>5, <1>6, <1>7
  <1>. QED
    BY <1>1, <1>7, <1>8 DEF Once, Waiting, Waits

\* Steps that leave the prompts of the turns and at most shorten the list.
LEMMA OnceShorter ==
  ASSUME SessionTypeOK, SessionTypeOK', OnceInv, SameTexts,
         \A text \in Texts : Waiting(pending', text) <= Waiting(pending, text)
  PROVE  OnceInv'
  <1>. SUFFICES ASSUME NEW text \in Texts
                PROVE  Once(text)'
    BY DEF OnceInv
  <1>1. Once(text)
    BY DEF OnceInv
  <1>. QED
    BY <1>1, TextsTaken, OnceStands

LEMMA OnceSameList ==
  ASSUME SessionTypeOK, SessionTypeOK', OnceInv, SameTexts,
         pending' = pending \/ pending' = <<>>
  PROVE  OnceInv'
  <1>1. ASSUME NEW text \in Texts
        PROVE  Waiting(pending', text) <= Waiting(pending, text)
    <2>1. Waiting(pending, text) \in Nat
      BY WaitsFinite DEF SessionTypeOK
    <2>. QED
      BY <2>1, NobodyWaits
  <1>. QED
    BY <1>1, OnceShorter

\* The phase of a turn changes.
LEMMA PhaseTexts ==
  ASSUME SessionTypeOK, NEW k \in DOMAIN turns, turns[k].phase # "parked",
         NEW ph, NEW f, To(k, ph) \/ Finishing(k, ph, f)
  PROVE  SameTexts
  <1>1. turns[k] \in Turn
    BY CurrentType
  <1>2. ASSUME NEW t, turns' = [turns EXCEPT ![k] = t],
               t.texts = turns[k].texts, t.by = turns[k].by
        PROVE  SameTexts
    BY <1>2 DEF SessionTypeOK, SameTexts
  <1>3. CASE To(k, ph)
    <2>1. PICK t : t = [turns[k] EXCEPT !.phase = ph]
      OBVIOUS
    <2>2. turns' = [turns EXCEPT ![k] = t]
      BY <1>3, <2>1 DEF To
    <2>. QED
      BY <1>1, <1>2, <2>1, <2>2 DEF Turn
  <1>4. CASE Finishing(k, ph, f)
    <2>1. PICK t : t = [turns[k] EXCEPT !.phase = ph, !.finish = f]
      OBVIOUS
    <2>2. turns' = [turns EXCEPT ![k] = t]
      BY <1>4, <2>1 DEF SessionTypeOK, Finishing
    <2>. QED
      BY <1>1, <1>2, <2>1, <2>2 DEF Turn
  <1>. QED
    BY <1>3, <1>4

LEMMA TurnsTexts ==
  ASSUME turns' = turns
  PROVE  SameTexts
  BY DEF SameTexts

\* A new turn has taken the prompt if it replays one, and nothing else.
LEMMA NewTurnTaken ==
  ASSUME SessionTypeOK, SessionTypeOK', NEW by \in {"row", "direct", "drain"},
         NEW row \in Nat, NEW t \in Texts, NEW ph \in {"prep", "parked"}, Mapped,
         turns' = Append(turns, NewTurn(by, row, t, ph)), NEW text
  PROVE  /\ by # "drain" => Taken(text)' = Taken(text)
         /\ text # t => Taken(text)' = Taken(text)
         /\ Taken(text)' \subseteq Taken(text) \cup {<<Len(turns) + 1, 1>>}
         /\ Parked(text) \subseteq Parked(text)'
         /\ ph = "parked" /\ text = t => Len(turns) + 1 \in Parked(text)'
         /\ Len(turns) + 1 \notin Parked(text)
  <1>. DEFINE n == Len(turns) + 1
  <1>1. /\ DOMAIN turns = 1..Len(turns) /\ Len(turns) \in Nat
        /\ Len(turns') = Len(turns) + 1
        /\ \A k \in DOMAIN turns : turns'[k] = turns[k]
        /\ turns'[n] = NewTurn(by, row, t, ph)
    BY OneTurnArrives, SeqDomain DEF SessionTypeOK
  <1>2. DOMAIN turns' = 1..n
    BY <1>1, SeqDomain DEF SessionTypeOK
  <1>3. /\ turns'[n].by = by /\ turns'[n].texts = <<t>> /\ turns'[n].phase = ph
    BY <1>1 DEF NewTurn
  <1>4. /\ n \in DOMAIN turns' /\ n \notin DOMAIN turns
        /\ \A k \in DOMAIN turns' : k \in DOMAIN turns \/ k = n
        /\ \A k \in DOMAIN turns : k \in DOMAIN turns'
    BY <1>1, <1>2
  <1>5. DOMAIN turns'[n].texts = {1} /\ turns'[n].texts[1] = t
    BY <1>3
  <1>. HIDE DEF n
  <1>6. ASSUME NEW x
        PROVE  x \in Taken(text)' <=>
                 x \in Taken(text) \/ (by = "drain" /\ text = t /\ x = <<n, 1>>)
    <2>1. ASSUME x \in Taken(text)
          PROVE  x \in Taken(text)'
      BY <1>1, <1>4, <2>1, TakenIs, TakenNext
    <2>2. ASSUME by = "drain", text = t, x = <<n, 1>>
          PROVE  x \in Taken(text)'
      BY <1>3, <1>4, <1>5, <2>2, TakenNext
    <2>3. ASSUME x \in Taken(text)', x \notin Taken(text)
          PROVE  by = "drain" /\ text = t /\ x = <<n, 1>>
      <3>1. PICK k \in DOMAIN turns' : \E m \in DOMAIN turns'[k].texts :
              /\ x = <<k, m>> /\ turns'[k].texts[m] = text
              /\ turns'[k].by = "drain" \/ m > 1
        BY <2>3, TakenNext
      <3>2. k = n
        BY <1>1, <1>4, <2>3, <3>1, TakenIs
      <3>. QED
        BY <1>3, <1>5, <3>1, <3>2
    <2>. QED
      BY <2>1, <2>2, <2>3
  <1>7. Parked(text) \subseteq Parked(text)'
    BY <1>1, <1>4 DEF Parked
  <1>8. ph = "parked" /\ text = t => n \in Parked(text)'
    BY <1>3, <1>4, <1>5 DEF Parked
  <1>9. n \notin Parked(text)
    BY <1>4 DEF Parked
  <1>. QED
    BY <1>6, <1>7, <1>8, <1>9 DEF n

LEMMA RunTurnOnce ==
  ASSUME SessionTypeOK, SessionTypeOK', OnceInv, NEW by \in {"row", "direct"},
         NEW row \in Nat, NEW t \in Texts, NEW delivery,
         RunTurn(by, row, t, delivery)
  PROVE  OnceInv'
  <1>. SUFFICES ASSUME NEW text \in Texts
                PROVE  Once(text)'
    BY DEF OnceInv
  <1>0. Once(text) /\ Mapped /\ by \in {"row", "direct", "drain"} /\ by # "drain"
    BY DEF OnceInv, RunTurn
  <1>1. CASE Begin(by, row, t)
    <2>1. /\ turns' = Append(turns, NewTurn(by, row, t, "prep"))
          /\ pending' = pending
      BY <1>1 DEF Begin
    <2>2. Taken(text)' = Taken(text) /\ Parked(text) \subseteq Parked(text)'
      BY <1>0, <2>1, NewTurnTaken
    <2>3. Waiting(pending', text) <= Waiting(pending, text)
      BY <2>1, WaitsFinite DEF SessionTypeOK
    <2>. QED
      BY <1>0, <2>2, <2>3, OnceStands
  <1>2. CASE Park(by, row, t, delivery)
    <2>1. PICK entry : entry = [text |-> t, steer |-> delivery = "steer"]
      OBVIOUS
    <2>2. entry \in Entry /\ entry.text = t
      BY <2>1 DEF Entry
    <2>3. /\ turns' = Append(turns, NewTurn(by, row, t, "parked"))
          /\ pending' = Enqueued(entry)
      BY <1>2, <2>1 DEF Park
    <2>4. /\ Taken(text)' = Taken(text) /\ Parked(text) \subseteq Parked(text)'
          /\ text = t => Len(turns) + 1 \in Parked(text)'
          /\ Len(turns) + 1 \notin Parked(text)
      BY <1>0, <2>3, NewTurnTaken
    <2>5. Waiting(pending', text) <= Waiting(pending, text) + One(t = text)
      BY <2>2, <2>3, WaitingEnqueued
    <2>6. Waiting(pending', text) \in Nat /\ Waiting(pending, text) \in Nat
      BY WaitsFinite DEF SessionTypeOK
    <2>7. CASE text = t
      BY <1>0, <2>4, <2>5, <2>7, OnceParked DEF One
    <2>8. CASE text # t
      <3>1. Waiting(pending', text) <= Waiting(pending, text)
        BY <2>5, <2>6, <2>8 DEF One
      <3>. QED
        BY <1>0, <2>4, <3>1, OnceStands
    <2>. QED
      BY <2>7, <2>8
  <1>. QED
    BY <1>1, <1>2 DEF RunTurn

\* A list without its first prompt.
LEMMA TailIsRest ==
  ASSUME NEW list \in Seq(Entry), list # <<>>
  PROVE  /\ 1 \in DOMAIN list /\ list[1] = Head(list)
         /\ Tail(list) = RemoveAt(list, 1) /\ Head(list) \in Entry
  <1>1. Len(list) \in Nat /\ Len(list) >= 1 /\ DOMAIN list = 1..Len(list)
    BY SeqDomain
  <1>2. SubSeq(list, 1, 0) = <<>>
    BY <1>1
  <1>3. RemoveAt(list, 1) = SubSeq(list, 1, 0) \o SubSeq(list, 2, Len(list))
    BY DEF RemoveAt
  <1>4. SubSeq(list, 2, Len(list)) = Tail(list) /\ Tail(list) \in Seq(Entry)
    OBVIOUS
  <1>5. RemoveAt(list, 1) = Tail(list)
    BY <1>2, <1>3, <1>4
  <1>. QED
    BY <1>1, <1>5

LEMMA DrainOnce ==
  ASSUME SessionTypeOK, SessionTypeOK', OnceInv, Drain
  PROVE  OnceInv'
  <1>1. CASE Mapped /\ DrainFollows(pending)
    <2>. SUFFICES ASSUME NEW text \in Texts
                  PROVE  Once(text)'
      BY DEF OnceInv
    <2>1. pending \in Seq(Entry) /\ pending # <<>>
      BY <1>1 DEF SessionTypeOK, DrainFollows
    <2>2. /\ 1 \in DOMAIN pending /\ Head(pending) = pending[1]
          /\ pending' = RemoveAt(pending, 1) /\ Head(pending) \in Entry
      BY <1>1, <2>1, TailIsRest DEF Drain
    <2>3. PICK t \in Texts : t = Head(pending).text
      BY <2>2 DEF Entry
    <2>4. turns' = Append(turns, NewTurn("drain", 0, t, "prep")) /\ Mapped
      BY <1>1, <2>3 DEF Drain
    <2>5. /\ text # t => Taken(text)' = Taken(text)
          /\ Taken(text)' \subseteq Taken(text) \cup {<<Len(turns) + 1, 1>>}
          /\ Parked(text) \subseteq Parked(text)'
      BY <2>4, NewTurnTaken
    <2>6. Waiting(pending', text) + One(t = text) <= Waiting(pending, text)
      BY <2>1, <2>2, <2>3, WaitingRemoveAt
    <2>7. Waiting(pending', text) \in Nat /\ Waiting(pending, text) \in Nat
      BY WaitsFinite DEF SessionTypeOK
    <2>8. Once(text)
      BY DEF OnceInv
    <2>9. CASE text = t
      BY <2>5, <2>6, <2>8, <2>9, OnceTaken DEF One
    <2>10. CASE text # t
      <3>1. Waiting(pending', text) <= Waiting(pending, text)
        BY <2>6, <2>7, <2>10 DEF One
      <3>. QED
        BY <2>5, <2>8, <2>10, <3>1, OnceStands
    <2>. QED
      BY <2>9, <2>10
  <1>2. CASE ~(Mapped /\ DrainFollows(pending))
    BY <1>2, TurnsTexts, OnceSameList DEF Drain
  <1>. QED
    BY <1>1, <1>2

\* A steering prompt is taken into a turn at work.
LEMMA ConsumeSteerOnce ==
  ASSUME SessionTypeOK, SessionTypeOK', OnceInv, NEW k \in DOMAIN turns,
         ConsumeSteer(k)
  PROVE  OnceInv'
  <1>. SUFFICES ASSUME NEW text \in Texts
                PROVE  Once(text)'
    BY DEF OnceInv
  <1>1. PICK i \in DOMAIN pending :
          /\ turns' = [turns EXCEPT ![k].texts = Append(@, pending[i].text)]
          /\ pending' = RemoveAt(pending, i)
    BY DEF ConsumeSteer
  <1>2. PICK t \in Texts : t = pending[i].text
    BY CurrentType DEF Entry
  <1>3. turns[k] \in Turn /\ turns[k].phase = "run"
    BY CurrentType DEF ConsumeSteer
  <1>4. PICK list : list = Append(turns[k].texts, t)
    OBVIOUS
  <1>5. PICK e : e = [turns[k] EXCEPT !.texts = list]
    OBVIOUS
  <1>6. turns' = [turns EXCEPT ![k] = e]
    BY <1>1, <1>2, <1>4, <1>5
  <1>7. e.texts = list /\ e.by = turns[k].by
    BY <1>3, <1>5 DEF Turn
  <1>8. /\ DOMAIN turns' = DOMAIN turns
        /\ turns'[k] = e
        /\ \A j \in DOMAIN turns : j # k => turns'[j] = turns[j]
    BY <1>6 DEF SessionTypeOK
  <1>9. PICK n : n = Len(turns[k].texts) + 1
    OBVIOUS
  <1>10. /\ \A m \in DOMAIN turns[k].texts :
              m \in DOMAIN list /\ list[m] = turns[k].texts[m]
         /\ \A m \in DOMAIN list : m \in DOMAIN turns[k].texts \/ m = n
         /\ list[n] = t
    <2>1. turns[k].texts \in Seq(Texts)
      BY <1>3 DEF Turn
    <2>. QED
      BY <1>4, <1>9, <2>1, AppendSeq, SeqDomain
  <1>11. ASSUME NEW x \in Taken(text)
         PROVE  x \in Taken(text)'
    <2>1. PICK j \in DOMAIN turns : \E m \in DOMAIN turns[j].texts :
            /\ x = <<j, m>> /\ turns[j].texts[m] = text
            /\ turns[j].by = "drain" \/ m > 1
      BY TakenIs
    <2>2. \A m \in DOMAIN turns[j].texts :
            /\ m \in DOMAIN turns'[j].texts
            /\ turns'[j].texts[m] = turns[j].texts[m]
      BY <1>7, <1>8, <1>10
    <2>3. turns'[j].by = turns[j].by /\ j \in DOMAIN turns'
      BY <1>7, <1>8
    <2>. QED
      BY <2>1, <2>2, <2>3, TakenNext
  <1>12. ASSUME NEW x \in Taken(text)', x \notin Taken(text)
         PROVE  x = <<k, n>> /\ text = t
    <2>1. PICK j \in DOMAIN turns' : \E m \in DOMAIN turns'[j].texts :
            /\ x = <<j, m>> /\ turns'[j].texts[m] = text
            /\ turns'[j].by = "drain" \/ m > 1
      BY TakenNext
    <2>2. PICK m \in DOMAIN turns'[j].texts :
            /\ x = <<j, m>> /\ turns'[j].texts[m] = text
            /\ turns'[j].by = "drain" \/ m > 1
      BY <2>1
    <2>3. j = k
      <3>. SUFFICES ASSUME j # k
                    PROVE  FALSE
        OBVIOUS
      <3>1. j \in DOMAIN turns /\ turns'[j] = turns[j]
        BY <1>8
      <3>. QED
        BY <1>12, <2>2, <3>1, TakenIs
    <2>4. turns'[k].texts = list /\ turns'[k].by = turns[k].by
      BY <1>7, <1>8
    <2>5. m \notin DOMAIN turns[k].texts
      <3>. SUFFICES ASSUME m \in DOMAIN turns[k].texts
                    PROVE  FALSE
        OBVIOUS
      <3>1. turns[k].texts[m] = text
        BY <1>10, <2>2, <2>3, <2>4
      <3>. QED
        BY <1>12, <2>2, <2>3, <2>4, <3>1, TakenIs
    <2>6. m = n
      BY <1>10, <2>3, <2>4, <2>5
    <2>. QED
      BY <1>10, <2>2, <2>3, <2>4, <2>6
  <1>13. Parked(text) \subseteq Parked(text)'
    BY <1>3, <1>8 DEF Parked
  <1>14. Waiting(pending', text) + One(t = text) <= Waiting(pending, text)
    BY <1>1, <1>2, WaitingRemoveAt DEF SessionTypeOK
  <1>15. Waiting(pending', text) \in Nat /\ Waiting(pending, text) \in Nat
    BY WaitsFinite DEF SessionTypeOK
  <1>16. Once(text)
    BY DEF OnceInv
  <1>17. CASE text = t
    <2>1. Taken(text)' \subseteq Taken(text) \cup {<<k, n>>}
      BY <1>12
    <2>2. Waiting(pending', text) + 1 <= Waiting(pending, text)
      BY <1>14, <1>17 DEF One
    <2>. QED
      BY <1>13, <1>16, <2>1, <2>2, OnceTaken
  <1>18. CASE text # t
    <2>1. Taken(text)' = Taken(text)
      BY <1>11, <1>12, <1>18
    <2>2. Waiting(pending', text) <= Waiting(pending, text)
      BY <1>14, <1>15, <1>18 DEF One
    <2>. QED
      BY <1>13, <1>16, <2>1, <2>2, OnceStands
  <1>. QED
    BY <1>17, <1>18

\* A waiting prompt is moved, or deleted.
LEMMA EditOnce ==
  ASSUME SessionTypeOK, SessionTypeOK', OnceInv, NEW i \in DOMAIN pending,
         Redeliver(i) \/ DeletePending(i)
  PROVE  OnceInv'
  <1>1. turns' = turns /\ SameTexts
    BY TurnsTexts DEF Redeliver, DeletePending
  <1>2. PICK rest : rest = RemoveAt(pending, i)
    OBVIOUS
  <1>3. pending \in Seq(Entry) /\ pending[i] \in Entry /\ rest \in Seq(Entry)
    BY <1>2, CurrentType, RemoveAtSeq DEF SessionTypeOK
  <1>4. ASSUME NEW text \in Texts
        PROVE  Waiting(pending', text) <= Waiting(pending, text)
    <2>1. Waiting(rest, text) + One(pending[i].text = text)
            <= Waiting(pending, text)
      BY <1>2, <1>3, WaitingRemoveAt
    <2>2. /\ Waiting(rest, text) \in Nat /\ Waiting(pending, text) \in Nat
          /\ Waiting(pending', text) \in Nat
      BY <1>3, WaitsFinite DEF SessionTypeOK
    <2>3. CASE DeletePending(i)
      BY <1>2, <2>1, <2>2, <2>3 DEF DeletePending, One
    <2>4. CASE Redeliver(i)
      <3>1. PICK entry : entry = [pending[i] EXCEPT !.steer = ~@]
        OBVIOUS
      <3>2. entry \in Entry /\ entry.text = pending[i].text
        BY <1>3, <3>1 DEF Entry
      <3>3. pending' = IF entry.steer THEN <<entry>> \o rest
                       ELSE Append(rest, entry)
        BY <1>2, <2>4, <3>1 DEF Redeliver
      <3>4. /\ Waiting(<<entry>> \o rest, text)
                 <= Waiting(rest, text) + One(entry.text = text)
            /\ Waiting(Append(rest, entry), text)
                 <= Waiting(rest, text) + One(entry.text = text)
        BY <1>3, <3>2, WaitingCons, WaitingAppend
      <3>5. Waiting(pending', text) <= Waiting(rest, text) + One(entry.text = text)
        BY <3>3, <3>4
      <3>6. One(entry.text = text) = One(pending[i].text = text)
            /\ One(entry.text = text) \in {0, 1}
        BY <3>2 DEF One
      <3>. QED
        BY <2>1, <2>2, <3>5, <3>6
    <2>. QED
      BY <2>3, <2>4
  <1>. QED
    BY <1>1, <1>4, OnceShorter

\* The process dies.
LEMMA LoseTexts ==
  ASSUME SessionTypeOK, LoseSession
  PROVE  SameTexts
  <1>1. /\ DOMAIN turns' = DOMAIN turns
        /\ \A k \in DOMAIN turns :
             turns'[k] = IF turns[k].phase \in Open
                         THEN [turns[k] EXCEPT !.phase = "dead"] ELSE turns[k]
    BY DEF LoseSession
  <1>2. \A k \in DOMAIN turns :
          /\ [turns[k] EXCEPT !.phase = "dead"].texts = turns[k].texts
          /\ [turns[k] EXCEPT !.phase = "dead"].by = turns[k].by
    BY CurrentType DEF Turn
  <1>3. "parked" \notin Open
    BY DEF Open
  <1>. QED
    BY <1>1, <1>2, <1>3 DEF SameTexts

LEMMA ThrowTexts ==
  ASSUME SessionTypeOK, NEW k \in DOMAIN turns, turns[k].phase # "parked",
         Throw(k)
  PROVE  SameTexts
  <1>1. \/ Finishing(k, "wind", "aborted")
        \/ To(k, "failing")
    BY DEF Throw, Finishing
  <1>. QED
    BY <1>1, PhaseTexts

LEMMA TimeoutTexts ==
  ASSUME SessionTypeOK, NEW k \in DOMAIN turns, RunTimeout(k)
  PROVE  SameTexts
  <1>1. PICK t : t = [turns[k] EXCEPT !.awaited = FALSE]
    OBVIOUS
  <1>2. turns' = [turns EXCEPT ![k] = t]
    BY <1>1 DEF RunTimeout
  <1>3. turns[k] \in Turn
    BY CurrentType
  <1>4. t.texts = turns[k].texts /\ t.by = turns[k].by /\ t.phase = turns[k].phase
    BY <1>1, <1>3 DEF Turn
  <1>. QED
    BY <1>2, <1>4 DEF SessionTypeOK, SameTexts

-----------------------------------------------------------------------------
(* Each step of the hub, again *)

LEMMA TurnStepOnce ==
  ASSUME SessionTypeOK, SessionTypeOK', OnceInv, NEW k \in DOMAIN turns,
         TurnStep(k) \/ TurnFails(k) \/ TurnReturns(k) \/ TurnRejects(k)
  PROVE  OnceInv'
  <1>1. ASSUME NEW ph, NEW f, turns[k].phase # "parked",
               To(k, ph) \/ Finishing(k, ph, f)
        PROVE  SameTexts
    BY <1>1, PhaseTexts
  <1>2. SameTexts
    <2>1. CASE StartAgent(k)
      <3>1. turns[k].phase # "parked" /\ (To(k, "run") \/ Throw(k))
        BY <2>1 DEF StartAgent
      <3>. QED
        BY <1>1, <3>1, ThrowTexts
    <2>2. CASE \E finish \in Finishes : AgentEnds(k, finish)
      BY <1>1, <2>2 DEF AgentEnds, Finishing
    <2>3. CASE TearDown(k) \/ Settle(k)
      BY <1>1, <2>3 DEF TearDown, Settle
    <2>4. CASE Reject(k)
      BY <1>1, <2>4 DEF Reject, Finishing
    <2>5. CASE Fail(k)
      BY <2>5, ThrowTexts DEF Fail
    <2>. QED
      BY <2>1, <2>2, <2>3, <2>4, <2>5
         DEF TurnStep, TurnFails, TurnReturns, TurnRejects
  <1>3. pending' = pending \/ pending' = <<>>
    BY DEF TurnStep, TurnFails, TurnReturns, TurnRejects, StartAgent, AgentEnds,
           TearDown, Settle, Reject, Fail, Unmap
  <1>. QED
    BY <1>2, <1>3, OnceSameList

LEMMA NextOnce ==
  ASSUME IInv, OnceInv, [Next]_vars
  PROVE  OnceInv'
  <1>0. SessionTypeOK /\ SessionTypeOK'
    BY NextOk DEF IInv, TypeOK, Ok
  <1>1. ASSUME NEW text \in DirectTexts, NEW delivery \in Deliveries,
               RunStart(text, delivery)
        PROVE  OnceInv'
    <2>1. RunTurn("direct", 0, text, delivery) /\ text \in Texts
      BY <1>1, TextsAssumption DEF RunStart
    <2>. QED
      BY <1>0, <2>1, RunTurnOnce
  <1>2. CASE AbortRun
    BY <1>0, <1>2, TurnsTexts, OnceSameList DEF AbortRun, Abort, AbortEffect
  <1>13. CASE EditPrompts
    BY <1>0, <1>13, EditOnce DEF EditPrompts
  <1>3. CASE \/ ResumeSession \/ EndSession \/ HubDrain
             \/ \E text \in RunTexts, delivery \in RunDeliveries :
                  Enqueue(text, delivery)
    <2>1. turns' = turns /\ (pending' = pending \/ pending' = <<>>)
      BY <1>3 DEF ResumeSession, Resume, EndSession, StopSession, HubDrain,
                  Enqueue, sessionVars
    <2>. QED
      BY <1>0, <2>1, TurnsTexts, OnceSameList
  <1>4. CASE Send
    <2>1. CASE UNCHANGED sessionVars
      BY <1>0, <2>1, TurnsTexts, OnceSameList DEF sessionVars
    <2>2. CASE RunTurn("row", exec.row, rows[exec.row].text,
                       rows[exec.row].delivery)
      <3>1. exec.row \in DOMAIN rows /\ exec.row \in Nat
        BY <1>4 DEF Send, IInv, TypeOK, ServiceHolds, Working
      <3>2. PICK text \in Texts : text = rows[exec.row].text
        <4>1. rows[exec.row] \in Row
          BY <3>1, SeqDomain DEF IInv, TypeOK
        <4>. QED
          BY <4>1 DEF Row
      <3>3. PICK delivery : delivery = rows[exec.row].delivery
        OBVIOUS
      <3>4. RunTurn("row", exec.row, text, delivery)
        BY <2>2, <3>2, <3>3
      <3>. QED
        BY <1>0, <3>1, <3>4, RunTurnOnce
    <2>. QED
      BY <1>4, <2>1, <2>2 DEF Send
  <1>5. CASE Reply \/ LeavePump
    BY <1>0, <1>5, TurnsTexts, OnceSameList DEF Reply, LeavePump, sessionVars
  <1>6. CASE DrainPrompt
    BY <1>0, <1>6, DrainOnce DEF DrainPrompt
  <1>7. CASE Progress \/ \E k \in DOMAIN turns : TurnFails(k)
    BY <1>0, <1>7, TurnStepOnce DEF Progress
  <1>8. CASE Cleanup \/ HubStop
    <2>1. turns' = turns /\ (pending' = pending \/ pending' = <<>>)
      BY <1>8 DEF Cleanup, ShutAgent, DropSession, Unmap, HubStop
    <2>. QED
      BY <1>0, <2>1, TurnsTexts, OnceSameList
  <1>9. ASSUME NEW k \in DOMAIN turns, ConsumeSteering(k)
        PROVE  OnceInv'
    BY <1>0, <1>9, ConsumeSteerOnce DEF ConsumeSteering
  <1>10. ASSUME NEW k \in DOMAIN turns, RunTimeout(k)
         PROVE  OnceInv'
    <2>1. pending' = pending \/ pending' = <<>>
      BY <1>10 DEF RunTimeout, AbortEffect
    <2>. QED
      BY <1>0, <1>10, <2>1, TimeoutTexts, OnceSameList
  <1>11. CASE HubExit \/ Crash
    <2>1. LoseSession /\ pending' = <<>>
      BY <1>11 DEF HubExit, Crash, LoseSession
    <2>. QED
      BY <1>0, <2>1, LoseTexts, OnceSameList
  <1>12. CASE Restart \/ Halt \/ UNCHANGED vars
    BY <1>0, <1>12, TurnsTexts, OnceSameList
       DEF Restart, Halt, vars, sessionVars
  <1>. QED
    BY <1>1, <1>2, <1>3, <1>4, <1>5, <1>6, <1>7, <1>8, <1>9, <1>10, <1>11,
       <1>12, <1>13
       DEF Next, Clients, Executor, Upheavals

LEMMA InitOnce ==
  ASSUME Init
  PROVE  OnceInv
  <1>. SUFFICES ASSUME NEW text \in Texts
                PROVE  Once(text)
    BY DEF OnceInv
  <1>1. turns = <<>> /\ pending = <<>>
    BY DEF Init, SessionInit
  <1>2. Taken(text) = {} /\ Parked(text) = {}
    BY <1>1 DEF Taken, Parked
  <1>3. Waiting(pending, text) = 0
    BY <1>1, NobodyWaits
  <1>. QED
    BY <1>2, <1>3, FS_EmptySet DEF Once

\* ParkedRunsOnce: a prompt that waits in memory is delivered at most once,
\* whatever drains, steering, edits, aborts, failures and crashes there are.
THEOREM ParkedHolds == Spec => []ParkedRunsOnce
  <1>1. IInv /\ OnceInv /\ [Next]_vars => OnceInv'
    BY NextOnce
  <1>2. OnceInv => ParkedRunsOnce
    BY DEF OnceInv, Once, ParkedRunsOnce, Waiting, Waits, Parked
  <1>. QED
    BY InvHolds, InitOnce, <1>1, <1>2, PTL DEF Spec
=============================================================================
