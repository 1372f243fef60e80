---------------------------- MODULE SessionTurns ----------------------------
(***************************************************************************)
(* The turns of one interactive session in the local runtime host, and the *)
(* prompts that wait in its memory for the agent to become free.           *)
(*                                                                         *)
(* A call of runTurn decides whether the agent is free, and starts the     *)
(* agent only after several awaits; the agent is free again several awaits *)
(* before the call returns.  Whatever happens in those gaps is what this   *)
(* module is about.  Code between two awaits is one step.                  *)
(***************************************************************************)
EXTENDS Integers, Sequences, FiniteSets, SequencesExt

CONSTANTS
  Texts  \* the prompts, as far as they are told apart

VARIABLES
  objects,    \* the session objects made for this session id; the last one
              \* is that of the host's sessions map, as long as it is mapped
  pending,    \* pendingPrompts of that object
  replaying,  \* the turn of its drainingPendingPrompts, or NoTurn
  due,        \* a microtask that calls drain is queued
  turns       \* every call of runTurn so far

sessionVars == <<objects, pending, replaying, due, turns>>

NoTurn == 0
Finishes == {"completed", "error", "aborted"}
\* Places of runTurn, in order: parked and returned; before the agent starts;
\* agent at work; after it; shutting the failed session's agent down, and its
\* other parts; returned; killed.
TurnPhases ==
  {"parked", "prep", "run", "wind", "failing", "torn", "done", "dead"}
Open == {"prep", "run", "wind", "failing", "torn"}

\* alone is history: this call began at once, and no other turn of the object
\* was open then.
Turn ==
  [by: {"row", "direct", "drain"}, row: Nat, texts: Seq(Texts), object: Nat,
   phase: TurnPhases, finish: Finishes \cup {"none", "rejected"},
   awaited: BOOLEAN, alone: BOOLEAN]

Entry == [text: Texts, steer: BOOLEAN]

\* shut is shutdownCalled of the agent, and stopped its abortRequested, as far
\* as a run is in flight: the agent clears it when a run begins.  stop says how
\* far a shutdown asked for by stopSession or dispose has come: agent not yet
\* shut down, other parts not yet, over.
Object ==
  [mapped: BOOLEAN, stop: {"none", "closing", "torn", "over"}, shut: BOOLEAN,
   aborting: BOOLEAN, stopped: BOOLEAN]
Fresh == [mapped |-> TRUE, stop |-> "none", shut |-> FALSE,
          aborting |-> FALSE, stopped |-> FALSE]

SessionTypeOK ==
  /\ objects \in Seq(Object) /\ objects # <<>>
  /\ pending \in Seq(Entry)
  /\ replaying \in Nat
  /\ due \in BOOLEAN
  /\ turns \in Seq(Turn)

SessionInit ==
  /\ objects = <<Fresh>>
  /\ pending = <<>> /\ replaying = NoTurn /\ due = FALSE /\ turns = <<>>

-----------------------------------------------------------------------------
(* The agent and the list of pending prompts *)

Current == Len(objects)
Session == objects[Current]
Mapped == Session.mapped

Busy(o) == \E k \in DOMAIN turns : turns[k].object = o /\ turns[k].phase = "run"
CanStartRun(o) == ~Busy(o) /\ ~objects[o].shut

\* The list after enqueue: an equal prompt is merged with the one that waits
\* (there is at most one).
Enqueued(entry) ==
  LET same == {i \in DOMAIN pending : pending[i].text = entry.text}
      it == CHOOSE i \in same : TRUE
      rest == IF same = {} THEN pending ELSE RemoveAt(pending, it)
      steer == entry.steer \/ (same # {} /\ pending[it].steer)
  IN IF steer THEN <<[entry EXCEPT !.steer = TRUE]>> \o rest
     ELSE Append(rest, entry)

\* scheduleDrain, given the list it finds; drain asks the same questions.
DrainFollows(list) ==
  /\ list # <<>> /\ replaying = NoTurn
  /\ ~Session.aborting /\ CanStartRun(Current)

NewTurn(by, row, text, phase) ==
  [by |-> by, row |-> row, texts |-> <<text>>, object |-> Current,
   phase |-> phase, finish |-> "none", awaited |-> by # "drain",
   alone |-> /\ phase = "prep" /\ by # "drain"
             /\ \A k \in DOMAIN turns :
                  turns[k].phase \in Open => turns[k].object # Current]

To(k, phase) == turns' = [turns EXCEPT ![k].phase = phase]

\* Microtasks run before anything else does.
Quiet == ~due

-----------------------------------------------------------------------------
(* runTurn *)

\* The agent is free, as far as can be seen now: executeTurn begins, and
\* forgets an abort that came between turns.
Begin(by, row, text) ==
  /\ CanStartRun(Current)
  /\ turns' = Append(turns, NewTurn(by, row, text, "prep"))
  /\ objects' = [objects EXCEPT ![Current].aborting = FALSE]
  /\ UNCHANGED <<pending, replaying, due>>

\* It is not, or the caller asked for a place in the list: the prompt waits
\* in memory, and the call returns nothing.
Park(by, row, text, delivery) ==
  /\ delivery # "none" \/ ~CanStartRun(Current)
  /\ LET list == Enqueued([text |-> text, steer |-> delivery = "steer"])
     IN pending' = list /\ due' = DrainFollows(list)
  /\ turns' = Append(turns, NewTurn(by, row, text, "parked"))
  /\ UNCHANGED <<objects, replaying>>

RunTurn(by, row, text, delivery) ==
  /\ Mapped
  /\ \/ delivery = "none" /\ Begin(by, row, text)
     \/ Park(by, row, text, delivery)

\* Deviation: the prompt leaves the list only when its turn has succeeded.
DrainInPlace ==
  /\ due
  /\ due' = FALSE
  /\ IF Mapped /\ DrainFollows(pending)
     THEN /\ replaying' = Len(turns) + 1
          /\ turns' = Append(turns,
                             NewTurn("drain", 0, Head(pending).text, "prep"))
     ELSE UNCHANGED <<replaying, turns>>
  /\ UNCHANGED <<pending, objects>>

\* drain: replay the first prompt if nothing speaks against it.
Drain ==
  /\ due
  /\ due' = FALSE
  /\ IF Mapped /\ DrainFollows(pending)
     THEN /\ pending' = Tail(pending)
          /\ replaying' = Len(turns) + 1
          /\ turns' = Append(turns,
                             NewTurn("drain", 0, Head(pending).text, "prep"))
     ELSE UNCHANGED <<pending, replaying, turns>>
  /\ UNCHANGED objects

\* shutdownSession begins: it aborts a run that nobody has aborted.
AbortUnaborted(o) ==
  LET abort == ~objects[o].aborting /\ ~CanStartRun(o)
  IN [objects EXCEPT ![o].aborting = @ \/ abort,
                     ![o].stopped = @ \/ (abort /\ Busy(o))]

\* agent.shutdown waits for an aborted run, and throws for another one.
AgentShutdownEnds(o) == Busy(o) => ~objects[o].stopped
AgentShut(o) == [objects EXCEPT ![o].shut = @ \/ ~Busy(o)]

\* shutdownSession ends: it deletes the entry of the session id, whatever
\* object it now holds; nobody reaches the waiting prompts any more.
Unmap(table) ==
  /\ objects' = [table EXCEPT ![Current].mapped = FALSE]
  /\ pending' = <<>>

\* The turn's promise rejects: an abort explains it, or the session fails.
Throw(k) ==
  LET o == turns[k].object
  IN IF objects[o].aborting
     THEN /\ turns' = [turns EXCEPT ![k].phase = "wind",
                                    ![k].finish = "aborted"]
          /\ objects' = IF turns[k].phase = "run"
                        THEN [objects EXCEPT ![o].stopped = FALSE] ELSE objects
     ELSE To(k, "failing") /\ objects' = AbortUnaborted(o)

\* The session cannot be saved, the agent throws, the result cannot be saved.
Fail(k) ==
  /\ turns[k].phase \in {"prep", "run", "wind"}
  /\ Throw(k)
  /\ UNCHANGED <<pending, replaying, due>>

\* Deviation: an abort that came too early is forgotten.
StartAgentAnyway(k) ==
  /\ turns[k].phase = "prep"
  /\ IF CanStartRun(turns[k].object)
     THEN To(k, "run") /\ UNCHANGED objects
     ELSE Throw(k)
  /\ UNCHANGED <<pending, replaying, due>>

\* Preparation is over.  The agent admits one run and none after shutdown; an
\* abort that came too early is issued again.
StartAgent(k) ==
  /\ turns[k].phase = "prep"
  /\ LET o == turns[k].object
     IN IF CanStartRun(o)
        THEN /\ To(k, "run")
             /\ objects' = [objects EXCEPT ![o].stopped = objects[o].aborting]
        ELSE Throw(k)
  /\ UNCHANGED <<pending, replaying, due>>

\* The agent takes a steering prompt into the turn it is working on.
ConsumeSteer(k) ==
  /\ turns[k].phase = "run" /\ turns[k].object = Current /\ Mapped
  /\ \E i \in DOMAIN pending :
       /\ pending[i].steer
       /\ \A j \in 1..(i - 1) : ~pending[j].steer
       /\ turns' = [turns EXCEPT ![k].texts = Append(@, pending[i].text)]
       /\ pending' = RemoveAt(pending, i)
  /\ UNCHANGED <<objects, replaying, due>>

AgentEnds(k, finish) ==
  /\ turns[k].phase = "run"
  /\ turns' = [turns EXCEPT ![k].phase = "wind", ![k].finish = finish]
  /\ objects' = [objects EXCEPT ![turns[k].object].stopped = FALSE]
  /\ UNCHANGED <<pending, replaying, due>>

\* The turn is recorded and the session idle; runTurn returns, and unless the
\* turn failed the next waiting prompt is drained.
Settle(k) ==
  /\ turns[k].phase = "wind"
  /\ To(k, "done")
  /\ objects' = [objects EXCEPT ![turns[k].object].aborting = FALSE]
  /\ replaying' = IF replaying = k THEN NoTurn ELSE replaying
  /\ due' = (turns[k].finish # "error")
  /\ UNCHANGED pending

\* failSession shuts the agent down.
TearDown(k) ==
  /\ turns[k].phase = "failing"
  /\ AgentShutdownEnds(turns[k].object)
  /\ To(k, "torn")
  /\ objects' = AgentShut(turns[k].object)
  /\ UNCHANGED <<pending, replaying, due>>

\* The failed session is deleted and runTurn rejects; a prompt that drain puts
\* back is put back into the list of that dead object.
Reject(k) ==
  /\ turns[k].phase = "torn"
  /\ turns' = [turns EXCEPT ![k].phase = "done", ![k].finish = "rejected"]
  /\ replaying' = IF replaying = k THEN NoTurn ELSE replaying
  /\ Unmap(objects)
  /\ UNCHANGED due

-----------------------------------------------------------------------------
(* What users do to a session, and its end *)

\* abort: of a replayed prompt, it also drops the prompts behind it.
AbortEffect ==
  IF Mapped
  THEN /\ objects' = [objects EXCEPT ![Current].aborting = TRUE,
                                     ![Current].stopped = Busy(Current)]
       /\ pending' = IF replaying # NoTurn THEN <<>> ELSE pending
  ELSE UNCHANGED <<objects, pending>>

Abort == Mapped /\ AbortEffect /\ UNCHANGED <<replaying, due, turns>>

\* update of the delivery of a waiting prompt, steerFirst included.
Redeliver(i) ==
  /\ Mapped /\ i \in DOMAIN pending
  /\ LET entry == [pending[i] EXCEPT !.steer = ~@]
         rest == RemoveAt(pending, i)
         list == IF entry.steer THEN <<entry>> \o rest ELSE Append(rest, entry)
     IN pending' = list /\ due' = DrainFollows(list)
  /\ UNCHANGED <<objects, replaying, turns>>

DeletePending(i) ==
  /\ Mapped /\ i \in DOMAIN pending
  /\ LET list == RemoveAt(pending, i)
     IN pending' = list /\ due' = DrainFollows(list)
  /\ UNCHANGED <<objects, replaying, turns>>

\* stopSession: it aborts only an agent that is at work or shut down.
StopSession ==
  /\ Mapped /\ Session.stop = "none"
  /\ objects' = [objects EXCEPT ![Current].stop = "closing",
                                ![Current].aborting = @ \/ ~CanStartRun(Current),
                                ![Current].stopped = @ \/ Busy(Current)]
  /\ UNCHANGED <<pending, replaying, due, turns>>

\* dispose: the session, if there is one, is shut down.
DisposeEffect ==
  objects' = IF Mapped
             THEN [AbortUnaborted(Current) EXCEPT
                     ![Current].stop = IF @ = "none" THEN "closing" ELSE @]
             ELSE objects

ShutAgent(o) ==
  /\ objects[o].stop = "closing"
  /\ AgentShutdownEnds(o)
  /\ objects' = [AgentShut(o) EXCEPT ![o].stop = "torn"]
  /\ UNCHANGED <<pending, replaying, due, turns>>

DropSession(o) ==
  /\ objects[o].stop = "torn"
  /\ Unmap([objects EXCEPT ![o].stop = "over"])
  /\ UNCHANGED <<replaying, due, turns>>

\* A client resumes the session: a new object with the same id.
Resume ==
  /\ ~Mapped
  /\ objects' = Append(objects, Fresh)
  /\ pending' = <<>> /\ replaying' = NoTurn
  /\ UNCHANGED <<due, turns>>

\* The process dies.
LoseSession ==
  /\ objects' = [o \in DOMAIN objects |-> [Fresh EXCEPT !.mapped = FALSE]]
  /\ pending' = <<>> /\ replaying' = NoTurn /\ due' = FALSE
  /\ turns' = [k \in DOMAIN turns |->
                 IF turns[k].phase \in Open
                 THEN [turns[k] EXCEPT !.phase = "dead"] ELSE turns[k]]
=============================================================================
