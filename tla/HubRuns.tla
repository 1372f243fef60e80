------------------------------ MODULE HubRuns ------------------------------
(***************************************************************************)
(* The hub's durable run queue, its executor for one session, and the      *)
(* daemon around them, on top of the turns of that session.  Sessions have *)
(* a queue, an executor and a host object each and share nothing, so one   *)
(* stands for all.                                                         *)
(***************************************************************************)
EXTENDS SessionTurns

CONSTANTS
  RunTexts,    \* what runs are enqueued for, and
  DirectTexts, \* what is sent directly
  MaxPending,  \* maxPendingPerSession
  MaxRuns,     \* bound: accepted runs, a listed one counting for two
  MaxUpsets,   \* bound: direct calls, edits, timeouts, failures, stops, crashes
  Upsets,      \* which of these there are
  Deliveries,  \* what direct calls ask for: "none", "queue", "steer", and
  RunDeliveries \* what the input of a run asks for

ASSUME TextsAssumption == RunTexts \subseteq Texts /\ DirectTexts \subseteq Texts
ASSUME MaxPendingAssumption == MaxPending \in Nat \ {0}
ASSUME DeliveriesAssumption ==
  Deliveries \cup RunDeliveries \subseteq {"none", "queue", "steer"}

VARIABLES
  rows,      \* hub_runs in the order of accepted_seq
  exec,      \* the executor: [at, row, turn]
  daemon,    \* the hub process
  draining,  \* it refuses new work
  upsets     \* how many upsets there have been

queueVars == <<rows, exec, daemon, draining>>
vars == <<sessionVars, queueVars, upsets>>

Terminal == {"completed", "failed", "aborted", "interrupted"}
Row == [text: Texts, delivery: RunDeliveries,
        state: {"queued", "running"} \cup Terminal]

\* Where the executor is: not in activeSessions; looking the session up;
\* awaiting runTurn; reading the snapshot of the reply; leaving the set.
Places == {"none", "sending", "turn", "reply", "leaving"}

TypeOK ==
  /\ SessionTypeOK
  /\ rows \in Seq(Row)
  /\ exec \in [at: Places, row: Nat, turn: Nat]
  /\ daemon \in {"up", "stopping", "down"}
  /\ draining \in BOOLEAN
  /\ upsets \in Nat

Idle == [at |-> "none", row |-> 0, turn |-> NoTurn]

Init ==
  /\ SessionInit
  /\ rows = <<>> /\ exec = Idle
  /\ daemon = "up" /\ draining = FALSE
  /\ upsets = 0

Upset(kind) ==
  /\ kind \in Upsets /\ upsets < MaxUpsets
  /\ upsets' = upsets + 1

-----------------------------------------------------------------------------
(* hub_runs *)

Queued(table) == {i \in DOMAIN table : table[i].state = "queued"}
Pending == {i \in DOMAIN rows : rows[i].state \in {"queued", "running"}}

\* Runs whose input asks for a place in the list of waiting prompts.
Listed == {i \in DOMAIN rows : rows[i].delivery # "none"}

\* What counts against the bound: such a run is over soon, and its prompt makes
\* for another turn.
Accepted == Len(rows) + Cardinality(Listed)

\* markTerminal
Ended(table, i, state) == [table EXCEPT ![i].state = state]

\* Deviation: the newest run first.
TakeNewest(table) ==
  \/ /\ Queued(table) = {}
     /\ rows' = table /\ exec' = [Idle EXCEPT !.at = "leaving"]
  \/ \E i \in Queued(table) :
       /\ \A j \in Queued(table) : i >= j
       /\ rows' = Ended(table, i, "running")
       /\ exec' = [at |-> "sending", row |-> i, turn |-> NoTurn]

\* nextQueued and markRunning; with nothing queued the loop is over.
TakeNext(table) ==
  \/ /\ Queued(table) = {}
     /\ rows' = table /\ exec' = [Idle EXCEPT !.at = "leaving"]
  \/ \E i \in Queued(table) :
       /\ \A j \in Queued(table) : i <= j
       /\ rows' = Ended(table, i, "running")
       /\ exec' = [at |-> "sending", row |-> i, turn |-> NoTurn]

\* pump: one executor per session.
Pump(table) ==
  IF exec.at = "none" THEN TakeNext(table)
  ELSE rows' = table /\ UNCHANGED exec

Awaiting(k) == exec.at = "turn" /\ exec.turn = k

-----------------------------------------------------------------------------
(* Commands of clients *)

\* run.enqueue: refused while draining and when the queue is full.  The input
\* is stored as it is, a delivery that it asks for included.
Enqueue(text, delivery) ==
  /\ Quiet
  /\ daemon # "down" /\ ~draining
  /\ Cardinality(Pending) < MaxPending
  /\ Accepted + (IF delivery = "none" THEN 1 ELSE 2) <= MaxRuns
  /\ Pump(Append(rows, [text |-> text, delivery |-> delivery,
                        state |-> "queued"]))
  /\ UNCHANGED <<sessionVars, daemon, draining, upsets>>

\* run.start and session.send_input.
RunStart(text, delivery) ==
  /\ Quiet
  /\ daemon # "down" /\ ~draining
  /\ Upset("direct")
  /\ RunTurn("direct", 0, text, delivery)
  /\ UNCHANGED queueVars

\* run.abort.
AbortRun ==
  /\ Quiet
  /\ daemon # "down"
  /\ Upset("edit")
  /\ Abort
  /\ UNCHANGED queueVars

\* The edits of the waiting prompts.
EditPrompts ==
  /\ Quiet
  /\ daemon # "down"
  /\ Upset("edit")
  /\ \E i \in DOMAIN pending : Redeliver(i) \/ DeletePending(i)
  /\ UNCHANGED queueVars

ResumeSession ==
  /\ Quiet
  /\ daemon = "up" /\ ~draining
  /\ Resume
  /\ UNCHANGED <<queueVars, upsets>>

HubDrain ==
  /\ Quiet
  /\ daemon = "up"
  /\ draining' = ~draining
  /\ Upset("drain")
  /\ UNCHANGED <<sessionVars, rows, exec, daemon>>

-----------------------------------------------------------------------------
(* The executor *)

\* Deviation: the executor does not wait for the turn.
SendOnly ==
  /\ Quiet
  /\ exec.at = "sending"
  /\ \/ /\ ~Mapped
        /\ TakeNext(Ended(rows, exec.row, "failed"))
        /\ UNCHANGED sessionVars
     \/ /\ RunTurn("row", exec.row, rows[exec.row].text,
                   rows[exec.row].delivery)
        /\ exec' = [exec EXCEPT !.turn = Len(turns) + 1, !.at = "reply"]
        /\ UNCHANGED rows
  /\ UNCHANGED <<daemon, draining, upsets>>

\* handleSessionInput has looked the session up in the database; runTurn looks
\* for it in memory.  A run whose input asks for a place in the list is parked,
\* on an idle session too, and the reply comes at once.
Send ==
  /\ Quiet
  /\ exec.at = "sending"
  /\ \/ /\ ~Mapped
        /\ TakeNext(Ended(rows, exec.row, "failed"))
        /\ UNCHANGED sessionVars
     \/ /\ RunTurn("row", exec.row, rows[exec.row].text,
                   rows[exec.row].delivery)
        /\ exec' = [exec EXCEPT !.turn = Len(turns) + 1,
                      !.at = IF turns'[Len(turns) + 1].phase = "parked"
                             THEN "reply" ELSE "turn"]
        /\ UNCHANGED rows
  /\ UNCHANGED <<daemon, draining, upsets>>

\* Deviation: the finish reason is taken over as it is.
OutcomeAsTold(finish) == finish

\* What execute makes of the reply.
OutcomeOf(finish) ==
  CASE finish = "aborted" -> "aborted"
    [] finish \in {"error", "rejected"} -> "failed"
    [] OTHER -> "completed"

\* The reply is complete: settle the row and go on with the next one.
Reply ==
  /\ Quiet
  /\ exec.at = "reply"
  /\ TakeNext(Ended(rows, exec.row, OutcomeOf(turns[exec.turn].finish)))
  /\ UNCHANGED <<sessionVars, daemon, draining, upsets>>

\* Deviation: without another look at the queue.
LeaveAtOnce ==
  /\ Quiet
  /\ exec.at = "leaving"
  /\ exec' = Idle
  /\ UNCHANGED <<sessionVars, rows, daemon, draining, upsets>>

\* The finally of pump, which looks for work admitted meanwhile.
LeavePump ==
  /\ Quiet
  /\ exec.at = "leaving"
  /\ IF Queued(rows) # {} THEN TakeNext(rows)
     ELSE exec' = Idle /\ UNCHANGED rows
  /\ UNCHANGED <<sessionVars, daemon, draining, upsets>>

\* The run timeout: the caller sees a failure at once, and the session is
\* told to abort; the turn goes on until it notices.
RunTimeout(k) ==
  /\ Quiet
  /\ turns[k].phase \in Open /\ turns[k].awaited
  /\ Upset("timeout")
  /\ AbortEffect
  /\ turns' = [turns EXCEPT ![k].awaited = FALSE]
  /\ IF Awaiting(k) THEN TakeNext(Ended(rows, exec.row, "failed"))
     ELSE UNCHANGED <<rows, exec>>
  /\ UNCHANGED <<replaying, due, daemon, draining>>

-----------------------------------------------------------------------------
(* Progress of turns *)

DrainPrompt ==
  /\ Drain
  /\ UNCHANGED <<queueVars, upsets>>

TurnStep(k) ==
  /\ Quiet
  /\ \/ StartAgent(k)
     \/ \E finish \in Finishes : AgentEnds(k, finish)
     \/ TearDown(k)
  /\ UNCHANGED <<queueVars, upsets>>

ConsumeSteering(k) ==
  /\ Quiet
  /\ ConsumeSteer(k)
  /\ UNCHANGED <<queueVars, upsets>>

TurnFails(k) ==
  /\ Quiet
  /\ Upset("failure")
  /\ Fail(k)
  /\ UNCHANGED queueVars

TurnReturns(k) ==
  /\ Quiet
  /\ Settle(k)
  /\ exec' = IF Awaiting(k) THEN [exec EXCEPT !.at = "reply"] ELSE exec
  /\ UNCHANGED <<rows, daemon, draining, upsets>>

\* A rejection settles the row without reading a snapshot first.
TurnRejects(k) ==
  /\ Quiet
  /\ Reject(k)
  /\ IF Awaiting(k) THEN TakeNext(Ended(rows, exec.row, "failed"))
     ELSE UNCHANGED <<rows, exec>>
  /\ UNCHANGED <<daemon, draining, upsets>>

-----------------------------------------------------------------------------
(* The end of sessions and daemons *)

EndSession ==
  /\ Quiet
  /\ Upset("end session")
  /\ StopSession
  /\ UNCHANGED queueVars

Cleanup ==
  /\ Quiet
  /\ \E o \in DOMAIN objects : ShutAgent(o) \/ DropSession(o)
  /\ UNCHANGED <<queueVars, upsets>>

\* A graceful stop disposes of the session and leaves the executor alone.
HubStop ==
  /\ Quiet
  /\ daemon = "up"
  /\ Upset("stop hub")
  /\ daemon' = "stopping" /\ draining' = TRUE
  /\ DisposeEffect
  /\ UNCHANGED <<pending, replaying, due, turns, rows, exec>>

\* The queue is closed and the process exits.
HubExit ==
  /\ Quiet
  /\ daemon = "stopping"
  /\ \A o \in DOMAIN objects : objects[o].stop \notin {"closing", "torn"}
  /\ daemon' = "down" /\ exec' = Idle
  /\ LoseSession
  /\ UNCHANGED <<rows, draining, upsets>>

Crash ==
  /\ daemon # "down"
  /\ Upset("crash")
  /\ daemon' = "down" /\ exec' = Idle
  /\ LoseSession
  /\ UNCHANGED <<rows, draining>>

\* Deviation: what is queued waits for the next admission.
RestartWithoutPump ==
  /\ daemon = "down"
  /\ daemon' = "up" /\ draining' = FALSE
  /\ rows' = [i \in DOMAIN rows |->
                IF rows[i].state = "running"
                THEN [rows[i] EXCEPT !.state = "interrupted"] ELSE rows[i]]
  /\ UNCHANGED <<sessionVars, exec, upsets>>

\* recoverOnStartup, and a pump of what is still queued.
Restart ==
  /\ daemon = "down"
  /\ daemon' = "up" /\ draining' = FALSE
  /\ LET table == [i \in DOMAIN rows |->
                     IF rows[i].state = "running"
                     THEN [rows[i] EXCEPT !.state = "interrupted"]
                     ELSE rows[i]]
     IN IF Queued(table) # {} THEN TakeNext(table)
        ELSE rows' = table /\ UNCHANGED exec
  /\ UNCHANGED <<sessionVars, upsets>>

-----------------------------------------------------------------------------

Clients ==
  \/ \E text \in RunTexts, delivery \in RunDeliveries : Enqueue(text, delivery)
  \/ \E text \in DirectTexts, delivery \in Deliveries : RunStart(text, delivery)
  \/ AbortRun
  \/ EditPrompts
  \/ ResumeSession
  \/ HubDrain
  \/ EndSession

Executor == Send \/ Reply \/ LeavePump

Progress ==
  \E k \in DOMAIN turns : TurnStep(k) \/ TurnReturns(k) \/ TurnRejects(k)

Upheavals ==
  \/ \E k \in DOMAIN turns : ConsumeSteering(k) \/ TurnFails(k) \/ RunTimeout(k)
  \/ HubStop
  \/ Crash

\* Nothing is owed to anybody, and the bound or the drain keeps new work out.
Halt ==
  /\ Accepted = MaxRuns \/ draining
  /\ Pending = {} /\ Quiet
  /\ \A k \in DOMAIN turns : turns[k].phase \notin Open
  /\ UNCHANGED vars

Next ==
  \/ Clients \/ Executor \/ DrainPrompt \/ Progress \/ Cleanup
  \/ Upheavals \/ HubExit \/ Restart
  \/ Halt

\* The event loop runs what is ready; a run of the agent ends; whoever needs
\* a daemon starts one.
Fairness ==
  /\ WF_vars(Executor) /\ WF_vars(DrainPrompt) /\ WF_vars(Progress)
  /\ WF_vars(Cleanup) /\ WF_vars(HubExit) /\ WF_vars(Restart)

Spec == Init /\ [][Next]_vars

FairSpec == Spec /\ Fairness

-----------------------------------------------------------------------------
(* Safety *)

\* No run is left dangling.  While the daemon serves, a run marked running is
\* the one the executor is working on, and queued runs have an executor: no
\* wake-up is lost between its last look and the next admission.
QueueIsServed ==
  daemon # "down" =>
    /\ \A i \in DOMAIN rows :
         rows[i].state = "running" =>
           exec.row = i /\ exec.at \in {"sending", "turn", "reply"}
    /\ Queued(rows) # {} => exec.at # "none"

\* Where turn k holds prompts that it took from the waiting list.
TakenBy(k) ==
  {n \in DOMAIN turns[k].texts : turns[k].by = "drain" \/ n > 1}

\* Every time the prompt was taken, and by which turn.
Taken(text) ==
  UNION {{k} \X {n \in TakenBy(k) : turns[k].texts[n] = text} :
           k \in DOMAIN turns}

\* A parked prompt is delivered at most once, by a turn of its own or into
\* another turn: neither drain nor steering nor a failure repeats it.
ParkedRunsOnce ==
  \A text \in Texts :
    Cardinality(Taken(text))
    + Cardinality({i \in DOMAIN pending : pending[i].text = text})
      <= Cardinality({k \in DOMAIN turns :
                       turns[k].phase = "parked" /\ turns[k].texts[1] = text})

\* The session serves only the queue, and nobody interferes with either.
Undisturbed ==
  /\ \A k \in DOMAIN turns : turns[k].by # "direct"
  /\ \A k \in DOMAIN turns : turns[k].awaited
  /\ Len(objects) = 1 /\ Mapped /\ Session.stop = "none"

\* Then, as long as no run asks for a place in the list, one turn is open at a
\* time, each belongs to a run of its own in the order of admission, and a run
\* is completed only by a turn that was.
RunsInOrder ==
  Undisturbed /\ Listed = {} =>
    \A k \in DOMAIN turns :
      /\ turns[k].row = k
      /\ turns[k].phase \in Open =>
           k = Len(turns) /\ rows[k].state = "running" /\ Awaiting(k)
      /\ rows[k].state = "completed" => turns[k].finish = "completed"

\* No other turn of the object has been open since turn k began: none was open
\* then, and the calls since then were parked.  Earlier turns may be over.
Alone(k) ==
  /\ turns[k].alone
  /\ \A j \in DOMAIN turns : j > k => turns[j].phase = "parked"

\* A run that timed out is told to stop, however early the timeout came: it is
\* never at work as if nothing had happened.  (A turn that overlaps it may clear
\* the flag that says so, and a session that the host no longer holds cannot be
\* reached, hence the premises.)
TimedOutIsStopped ==
  \A k \in DOMAIN turns :
    /\ turns[k].phase = "run" /\ turns[k].by # "drain" /\ ~turns[k].awaited
    /\ Alone(k) /\ objects[turns[k].object].mapped
    => objects[turns[k].object].stopped

-----------------------------------------------------------------------------
(* Liveness, and the queue's promise *)

\* Every accepted run comes to an end, whatever becomes of the session and the
\* daemon.
RunsEnd ==
  \A i \in 1..MaxRuns :
    (i \in DOMAIN rows) ~> (i \in DOMAIN rows /\ rows[i].state \in Terminal)

Line == [i \in DOMAIN rows |-> rows[i].state]

Fifo == INSTANCE DurableFifo WITH line <- Line

\* The queue, with its executor, its timeouts, its crashes and recoveries, is a
\* durable FIFO: one run at a time, in the order of admission, each ending once.
ImplementsDurableFifo == Fifo!Spec
=============================================================================
