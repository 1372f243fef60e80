-------------------------- MODULE CapabilityProofs --------------------------
(***************************************************************************)
(* The safety properties of CapabilityRequests for any clients, sessions   *)
(* and bounds.  What makes them hold together: a socket that listens is    *)
(* registered and not closed, so that its end unregisters its client and   *)
(* ends the requests that went out on it; and a client has one open        *)
(* socket, so that nobody listens in the name of a client that registers.  *)
(***************************************************************************)
EXTENDS CapabilityRequests, TLAPS

-----------------------------------------------------------------------------
(* The inductive invariant *)

\* A client has at most one socket it has not given up.
OneOpen ==
  \A j, k \in DOMAIN sockets : IsOpen(j) /\ IsOpen(k) /\ Of(j) = Of(k) => j = k

\* A socket that still listens is registered, and the hub has not closed it.
ListenersStand ==
  \A l \in listeners :
    sockets[l[1]].role = "registered" /\ sockets[l[1]].at # "closed"

\* Every socket a waiting request went out on is its owner's, and its end will
\* cancel the request.
SentStands ==
  \A i \in DOMAIN requests : \A k \in requests[i].sent :
    /\ k \in DOMAIN sockets
    /\ Waiting(i) => /\ Of(k) = requests[i].client
                     /\ sockets[k].at # "closed"
                     /\ sockets[k].role = "registered"

HeldTimed ==
  \A i \in DOMAIN requests :
    requests[i].way = "held" /\ Waiting(i) => requests[i].timer = "set"

\* A listener has been shown an approval, or its microtask will show it.
ApprovalsShown ==
  \A a \in DOMAIN approvals, l \in listeners :
    approvals[a].at = "waiting" /\ approvals[a].session = l[2] =>
      \/ l[1] \in approvals[a].shown
      \/ \E o \in opening :
           o.socket = l[1] /\ o.session = l[2] /\ a \in o.shows

IInv ==
  /\ TypeOK
  /\ OneOpen
  /\ ListenersStand
  /\ SentStands
  /\ HeldTimed
  /\ HandedOverOnce
  /\ NothingAskedOfDetached
  /\ HeldMeansAway
  /\ ApprovalsShown

-----------------------------------------------------------------------------
(* Sequences *)

LEMMA SeqDomain ==
  ASSUME NEW S, NEW q \in Seq(S)
  PROVE  /\ Len(q) \in Nat
         /\ DOMAIN q = 1..Len(q)
         /\ \A i \in DOMAIN q : q[i] \in S
  OBVIOUS

LEMMA FunIsSeq ==
  ASSUME NEW S, NEW n \in Nat, NEW f \in [1..n -> S]
  PROVE  f \in Seq(S) /\ Len(f) = n /\ DOMAIN f = 1..n
  OBVIOUS

\* A table with new entries for the old indices is a table.
LEMMA Rewritten ==
  ASSUME NEW S, NEW q \in Seq(S), NEW f, DOMAIN f = DOMAIN q,
         f = [i \in DOMAIN q |-> f[i]],
         \A i \in DOMAIN q : f[i] \in S
  PROVE  f \in Seq(S)
  <1>1. Len(q) \in Nat /\ DOMAIN q = 1..Len(q)
    BY SeqDomain
  <1>2. f \in [1..Len(q) -> S]
    BY <1>1
  <1>. QED
    BY <1>1, <1>2, FunIsSeq

LEMMA Appended ==
  ASSUME NEW S, NEW q \in Seq(S), NEW e \in S
  PROVE  /\ Append(q, e) \in Seq(S)
         /\ DOMAIN q \subseteq DOMAIN Append(q, e)
         /\ DOMAIN Append(q, e) = DOMAIN q \cup {Len(q) + 1}
         /\ Append(q, e)[Len(q) + 1] = e
         /\ \A i \in DOMAIN q : Append(q, e)[i] = q[i] /\ i # Len(q) + 1
  OBVIOUS

-----------------------------------------------------------------------------
(* Steps that end requests and approvals and raise none *)

Ends(q) ==
  /\ q \in Seq(Request)
  /\ DOMAIN q = DOMAIN requests
  /\ \A i \in DOMAIN requests :
       /\ q[i].session = requests[i].session
       /\ q[i].client = requests[i].client
       /\ q[i].way = requests[i].way
       /\ q[i].sent = requests[i].sent
       /\ q[i].at = "waiting" =>
            /\ requests[i].at = "waiting"
            /\ requests[i].way = "held" => q[i].timer = requests[i].timer

ApprovalsEnd(q) ==
  /\ q \in Seq(Approval)
  /\ DOMAIN q = DOMAIN approvals
  /\ \A a \in DOMAIN approvals :
       /\ q[a].session = approvals[a].session
       /\ approvals[a].shown \subseteq q[a].shown
       /\ q[a].at = "waiting" => approvals[a].at = "waiting"

LEMMA SameEnds == TypeOK => Ends(requests) /\ ApprovalsEnd(approvals)
  BY DEF TypeOK, Ends, ApprovalsEnd

\* A request keeps its type when it is settled.
LEMMA SettledRequest ==
  ASSUME NEW q \in Request,
         NEW outcome \in {"waiting", "answered", "cancelled", "gone"}
  PROVE  [q EXCEPT !.at = outcome] \in Request
  BY DEF Request

\* Cancelling ends requests, and those that were chosen.
LEMMA SettledEnds ==
  ASSUME TypeOK, NEW chosen, NEW outcome \in {"cancelled", "gone"}
  PROVE  /\ Ends(Settled(requests, chosen, outcome))
         /\ \A i \in chosen \cap DOMAIN requests :
              Settled(requests, chosen, outcome)[i].at # "waiting"
  <1>. DEFINE q == Settled(requests, chosen, outcome)
  <1>1. /\ requests \in Seq(Request)
        /\ DOMAIN q = DOMAIN requests
        /\ q = [i \in DOMAIN requests |-> q[i]]
    BY DEF TypeOK, Settled
  <1>2. \A i \in DOMAIN requests :
          /\ requests[i] \in Request
          /\ q[i] = IF i \in chosen /\ requests[i].at = "waiting"
                    THEN [requests[i] EXCEPT !.at = outcome] ELSE requests[i]
    BY <1>1, SeqDomain DEF Settled
  <1>3. \A i \in DOMAIN requests : q[i] \in Request
    BY ONLY <1>2, SettledRequest, outcome \in {"cancelled", "gone"}
  <1>4. q \in Seq(Request)
    BY ONLY <1>1, <1>3, Rewritten
  <1>. HIDE DEF q
  <1>. QED
    BY <1>1, <1>2, <1>4 DEF Ends, Request, q

LEMMA SettledApprovals ==
  ASSUME TypeOK, NEW chosen
  PROVE  ApprovalsEnd(Settled(approvals, chosen, "denied"))
  <1>. DEFINE q == Settled(approvals, chosen, "denied")
  <1>1. /\ approvals \in Seq(Approval)
        /\ DOMAIN q = DOMAIN approvals
        /\ q = [a \in DOMAIN approvals |-> q[a]]
    BY DEF TypeOK, Settled
  <1>2. \A a \in DOMAIN approvals :
          /\ approvals[a] \in Approval
          /\ q[a] = IF a \in chosen /\ approvals[a].at = "waiting"
                    THEN [approvals[a] EXCEPT !.at = "denied"] ELSE approvals[a]
    BY <1>1, SeqDomain DEF Settled
  <1>3. \A a \in DOMAIN approvals : q[a] \in Approval
    BY <1>2 DEF Approval
  <1>4. q \in Seq(Approval)
    BY ONLY <1>1, <1>3, Rewritten
  <1>. HIDE DEF q
  <1>. QED
    BY <1>1, <1>2, <1>4 DEF ApprovalsEnd, Approval, q

\* What the end of a request leaves true, whatever else the step does.
LEMMA EndsKeep ==
  ASSUME IInv, Ends(requests'), DOMAIN sockets \subseteq DOMAIN sockets'
  PROVE  HeldTimed' /\ HandedOverOnce'
  BY DEF IInv, Ends, HeldTimed, HandedOverOnce, Waiting

LEMMA EndsDetached ==
  ASSUME IInv, Ends(requests'), detached' \subseteq detached
  PROVE  NothingAskedOfDetached'
  BY DEF IInv, Ends, NothingAskedOfDetached, Waiting

LEMMA EndsSent ==
  ASSUME IInv, Ends(requests'), sockets' = sockets
  PROVE  SentStands'
  BY DEF IInv, Ends, SentStands, Waiting, Of

\* A step after which no client listens that did not before.
NoNewEars ==
  \A k \in DOMAIN sockets', s \in Sessions :
    IsOpen(k)' /\ Of(k)' \in clients' /\ Listens(k, s)' =>
      /\ k \in DOMAIN sockets
      /\ IsOpen(k) /\ Of(k) = Of(k)' /\ Of(k) \in clients /\ Listens(k, s)

LEMMA EndsHeld ==
  ASSUME IInv, Ends(requests'), NoNewEars
  PROVE  HeldMeansAway'
  <1>. SUFFICES ASSUME NEW i \in DOMAIN requests',
                       Waiting(i)', requests'[i].way = "held",
                       NEW k \in DOMAIN sockets', IsOpen(k)',
                       Of(k)' = requests'[i].client, Of(k)' \in clients',
                       Listens(k, requests[i].session)'
                PROVE  FALSE
    BY DEF HeldMeansAway
  <1>1. i \in DOMAIN requests /\ requests \in Seq(Request)
    BY DEF IInv, TypeOK, Ends
  <1>2. requests[i] \in Request
    BY <1>1, SeqDomain
  <1>3. PICK s \in Sessions : s = requests[i].session /\ s = requests'[i].session
    BY <1>1, <1>2 DEF Ends, Request
  <1>4. Listens(k, s)'
    BY <1>3 DEF Listens
  <1>5. /\ k \in DOMAIN sockets /\ IsOpen(k) /\ Of(k) = Of(k)'
        /\ Of(k) \in clients /\ Listens(k, s)
    BY <1>4 DEF NoNewEars
  <1>6. Waiting(i) /\ requests[i].way = "held" /\ Of(k) = requests[i].client
    BY <1>1, <1>5 DEF Ends, Waiting
  <1>. QED
    BY <1>1, <1>3, <1>5, <1>6 DEF IInv, HeldMeansAway

LEMMA ApprovalsKept ==
  ASSUME IInv, ApprovalsEnd(approvals'), listeners' \subseteq listeners,
         opening \subseteq opening'
  PROVE  ApprovalsShown'
  <1>. SUFFICES ASSUME NEW a \in DOMAIN approvals', NEW l \in listeners',
                       approvals'[a].at = "waiting",
                       approvals'[a].session = l[2], l[1] \notin approvals'[a].shown
                PROVE  \E o \in opening' :
                         o.socket = l[1] /\ o.session = l[2] /\ a \in o.shows
    BY DEF ApprovalsShown
  <1>1. /\ a \in DOMAIN approvals /\ l \in listeners
        /\ approvals[a].at = "waiting" /\ approvals[a].session = l[2]
        /\ l[1] \notin approvals[a].shown
    BY DEF ApprovalsEnd
  <1>2. \E o \in opening :
          o.socket = l[1] /\ o.session = l[2] /\ a \in o.shows
    BY <1>1 DEF IInv, ApprovalsShown
  <1>. QED
    BY <1>2

\* A step that ends requests and approvals and touches no connection.
LEMMA EndingInv ==
  ASSUME IInv, TypeOK', Ends(requests'), ApprovalsEnd(approvals'),
         UNCHANGED wires, detached' \subseteq detached
  PROVE  IInv'
  <1>1. UNCHANGED <<sockets, clients, listeners, opening>>
    BY DEF wires
  <1>2. OneOpen' /\ ListenersStand'
    BY <1>1 DEF IInv, OneOpen, ListenersStand, IsOpen, Of
  <1>3. NoNewEars
    BY <1>1 DEF NoNewEars, IsOpen, Of, Listens
  <1>. QED
    BY <1>1, <1>2, <1>3, EndsKeep, EndsDetached, EndsSent, EndsHeld,
       ApprovalsKept DEF IInv

-----------------------------------------------------------------------------
(* Answers, timers, sessions *)

\* A waiting request ends by an answer.
LEMMA RespondInv ==
  ASSUME IInv, NEW i \in DOMAIN requests, Respond(i)
  PROVE  IInv'
  <1>1. /\ requests \in Seq(Request) /\ requests[i] \in Request
        /\ requests' = [requests EXCEPT ![i] = [requests[i] EXCEPT !.at = "answered"]]
        /\ UNCHANGED <<sockets, clients, listeners, opening, detached, joining,
                       aborting, approvals, upsets>>
    BY SeqDomain DEF IInv, TypeOK, Respond, wires, rooms
  <1>2. [requests[i] EXCEPT !.at = "answered"] \in Request
    BY <1>1, SettledRequest
  <1>3. requests' \in Seq(Request)
    BY <1>1, <1>2
  <1>4. Ends(requests')
    BY <1>1, <1>3, SeqDomain DEF Ends, Request
  <1>5. TypeOK' /\ ApprovalsEnd(approvals') /\ UNCHANGED wires
    BY <1>1, <1>3 DEF IInv, TypeOK, ApprovalsEnd, wires
  <1>. QED
    BY <1>1, <1>4, <1>5, EndingInv

LEMMA ExpiredRequest ==
  ASSUME NEW q \in Request,
         NEW end \in {"waiting", "answered", "cancelled", "gone"}
  PROVE  LET e == [q EXCEPT !.timer = "over", !.at = end]
         IN  /\ e \in Request
             /\ e.session = q.session /\ e.client = q.client /\ e.at = end
             /\ e.way = q.way /\ e.sent = q.sent
  BY DEF Request

\* A request in the hand of its owner outlives the timer; one that was held
\* does not.
LEMMA GraceOverInv ==
  ASSUME IInv, NEW i \in DOMAIN requests, GraceOver(i)
  PROVE  IInv'
  <1>. DEFINE end == IF requests[i].at = "waiting" /\ requests[i].way = "held"
                     THEN "gone" ELSE requests[i].at
              e == [requests[i] EXCEPT !.timer = "over", !.at = end]
  <1>1. /\ requests \in Seq(Request) /\ requests[i] \in Request
        /\ requests' = [requests EXCEPT ![i] = e]
        /\ UNCHANGED <<sockets, clients, listeners, opening, detached, joining,
                       aborting, approvals, upsets>>
    BY SeqDomain DEF IInv, TypeOK, GraceOver, wires, rooms
  <1>2. end \in {"waiting", "answered", "cancelled", "gone"}
    BY <1>1 DEF Request
  <1>3. /\ e \in Request
        /\ e.session = requests[i].session /\ e.client = requests[i].client
        /\ e.at = end /\ e.way = requests[i].way /\ e.sent = requests[i].sent
    BY <1>1, <1>2, ExpiredRequest
  <1>. HIDE DEF e
  <1>4. requests' \in Seq(Request)
    BY <1>1, <1>3
  <1>5. Ends(requests')
    BY <1>1, <1>3, <1>4, SeqDomain DEF Ends
  <1>6. TypeOK' /\ ApprovalsEnd(approvals') /\ UNCHANGED wires
    BY <1>1, <1>4 DEF IInv, TypeOK, ApprovalsEnd, wires
  <1>. QED
    BY <1>1, <1>5, <1>6, EndingInv

LEMMA AnswerApprovalInv ==
  ASSUME IInv, NEW a \in DOMAIN approvals, AnswerApproval(a)
  PROVE  IInv'
  <1>. DEFINE e == [approvals[a] EXCEPT !.at = "answered"]
  <1>1. /\ approvals \in Seq(Approval) /\ approvals[a] \in Approval
        /\ approvals' = [approvals EXCEPT ![a] = e]
        /\ UNCHANGED <<sockets, clients, listeners, opening, detached, joining,
                       aborting, requests, upsets>>
    BY SeqDomain DEF IInv, TypeOK, AnswerApproval, wires, rooms
  <1>2. e \in Approval
    BY <1>1 DEF Approval
  <1>3. approvals' \in Seq(Approval)
    BY <1>1, <1>2
  <1>4. ApprovalsEnd(approvals')
    BY <1>1, <1>3, SeqDomain DEF ApprovalsEnd, Approval
  <1>5. TypeOK' /\ Ends(requests') /\ UNCHANGED wires
    BY <1>1, <1>3, SameEnds DEF IInv, TypeOK, wires
  <1>. QED
    BY <1>1, <1>4, <1>5, EndingInv

\* Abort, timeout and stop end what waits.
LEMMA EndedInv ==
  ASSUME IInv, NEW s \in Sessions, AbortRun(s) \/ Aborted(s) \/ TimedOut(s)
  PROVE  IInv'
  <1>1. Ends(requests') /\ ApprovalsEnd(approvals')
    <2>1. \A chosen : /\ Ends(Settled(requests, chosen, "cancelled"))
                      /\ ApprovalsEnd(Settled(approvals, chosen, "denied"))
      BY SettledEnds, SettledApprovals DEF IInv
    <2>2. Ends(requests) /\ ApprovalsEnd(approvals)
      BY SameEnds DEF IInv
    <2>3. CASE AbortRun(s)
      BY <2>1, <2>2, <2>3 DEF AbortRun, Ends
    <2>4. CASE Aborted(s)
      BY <2>1, <2>2, <2>4 DEF Aborted, ApprovalsEnd
    <2>5. CASE TimedOut(s)
      BY <2>1, <2>5 DEF TimedOut
    <2>. QED
      BY <2>3, <2>4, <2>5
  <1>2. /\ UNCHANGED <<sockets, clients, listeners, opening, detached, joining>>
        /\ aborting' \subseteq Sessions
        /\ upsets' \in Nat
    BY DEF IInv, TypeOK, AbortRun, Aborted, TimedOut, wires, rooms, Upset
  <1>3. TypeOK'
    BY <1>1, <1>2 DEF IInv, TypeOK, Ends, ApprovalsEnd
  <1>. QED
    BY <1>1, <1>2, <1>3, EndingInv DEF wires

LEMMA StopInv == IInv /\ Stop => IInv'
  <1>. SUFFICES ASSUME IInv, Stop PROVE IInv'
    OBVIOUS
  <1>1. Ends(requests') /\ ApprovalsEnd(approvals')
    BY SettledEnds, SettledApprovals DEF IInv, Stop
  <1>2. /\ UNCHANGED <<sockets, clients, listeners, opening, detached, joining,
                       aborting>>
        /\ upsets' \in Nat
    BY DEF IInv, TypeOK, Stop, wires, rooms, Upset
  <1>3. TypeOK'
    BY <1>1, <1>2 DEF IInv, TypeOK, Ends, ApprovalsEnd
  <1>. QED
    BY <1>1, <1>2, <1>3, EndingInv DEF wires

\* Attaching and creating let a client back in.
LEMMA JoinedInv ==
  ASSUME IInv, NEW s \in Sessions, NEW c \in Clients,
         Attach(s, c) \/ Create(s, c) \/ Joined(s, c)
  PROVE  IInv'
  <1>1. /\ UNCHANGED <<sockets, clients, listeners, opening, aborting, requests,
                       approvals>>
        /\ detached' \subseteq detached
        /\ joining' \subseteq Sessions \X Clients
        /\ upsets' \in Nat
    BY DEF IInv, TypeOK, Attach, Create, Joined, wires, Upset
  <1>2. Ends(requests') /\ ApprovalsEnd(approvals')
    BY <1>1, SameEnds DEF IInv, Ends, ApprovalsEnd
  <1>3. TypeOK'
    BY <1>1 DEF IInv, TypeOK
  <1>. QED
    BY <1>1, <1>2, <1>3, EndingInv DEF wires

\* Who leaves a session is asked nothing more in it.
LEMMA DetachInv ==
  ASSUME IInv, NEW s \in Sessions, NEW c \in Clients, Detach(s, c)
  PROVE  IInv'
  <1>. DEFINE chosen == AskedOf(c) \cap RaisedBy(s)
  <1>1. /\ detached' = detached \cup {<<s, c>>}
        /\ requests' = Settled(requests, chosen, "gone")
        /\ UNCHANGED <<sockets, clients, listeners, opening, joining, aborting,
                       approvals>>
        /\ upsets' \in Nat
    BY DEF IInv, TypeOK, Detach, wires, Upset
  <1>2. Ends(requests') /\ \A i \in chosen \cap DOMAIN requests : requests'[i].at # "waiting"
    BY <1>1, SettledEnds DEF IInv
  <1>3. ApprovalsEnd(approvals')
    BY <1>1, SameEnds DEF IInv
  <1>4. TypeOK'
    BY <1>1, <1>2 DEF IInv, TypeOK, Ends
  <1>5. OneOpen' /\ ListenersStand'
    BY <1>1 DEF IInv, OneOpen, ListenersStand, IsOpen, Of
  <1>6. NoNewEars
    BY <1>1 DEF NoNewEars, IsOpen, Of, Listens
  <1>7. NothingAskedOfDetached'
    <2>. SUFFICES ASSUME NEW i \in DOMAIN requests', Waiting(i)'
                  PROVE  <<requests'[i].session, requests'[i].client>> \notin detached'
      BY DEF NothingAskedOfDetached
    <2>1. i \in DOMAIN requests /\ Waiting(i)
      BY <1>2 DEF Ends, Waiting
    <2>2. <<requests[i].session, requests[i].client>> \notin detached
      BY <2>1 DEF IInv, NothingAskedOfDetached
    <2>3. ~(requests[i].session = s /\ requests[i].client = c)
      BY <1>2, <2>1 DEF AskedOf, RaisedBy, Waiting
    <2>. QED
      BY <1>1, <1>2, <2>1, <2>2, <2>3 DEF Ends
  <1>. QED
    BY <1>1, <1>2, <1>3, <1>4, <1>5, <1>6, <1>7, EndsKeep, EndsSent, EndsHeld,
       ApprovalsKept DEF IInv

-----------------------------------------------------------------------------
(* New requests and approvals *)

LEMMA NewRequestType ==
  ASSUME IInv, NEW s \in Sessions, NEW c \in Clients
  PROVE  /\ NewRequest(s, c) \in Request
         /\ NewRequest(s, c).session = s /\ NewRequest(s, c).client = c
         /\ NewRequest(s, c).way = "held" =>
              /\ NewRequest(s, c).sent = {} /\ NewRequest(s, c).timer = "set"
              /\ c \notin clients
         /\ NewRequest(s, c).way # "late"
         /\ NewRequest(s, c).sent \subseteq Ears(s, c)
  <1>1. Ears(s, c) \subseteq Nat
    BY SeqDomain DEF IInv, TypeOK, Ears
  <1>2. {k \in Ears(s, c) : IsOpen(k)} \subseteq Nat
    BY <1>1
  <1>3. CASE c \in clients
    <2>1. NewRequest(s, c) =
            [session |-> s, client |-> c, at |-> "waiting", way |-> "live",
             timer |-> "none", sent |-> Ears(s, c),
             got |-> {k \in Ears(s, c) : IsOpen(k)}]
      BY <1>3 DEF NewRequest
    <2>. QED
      BY <1>1, <1>2, <2>1 DEF Request
  <1>4. CASE c \notin clients
    <2>1. NewRequest(s, c) =
            [session |-> s, client |-> c, at |-> "waiting", way |-> "held",
             timer |-> "set", sent |-> {}, got |-> {}]
      BY <1>4 DEF NewRequest
    <2>. QED
      BY <1>4, <2>1 DEF Request
  <1>. QED
    BY <1>3, <1>4

\* A request goes to sockets of its owner, or is held with a timer.
LEMMA RaiseInv ==
  ASSUME IInv, NEW s \in Sessions, NEW c \in Clients, Raise(s, c)
  PROVE  IInv'
  <1>. DEFINE e == NewRequest(s, c)
              n == Len(requests) + 1
  <1>1. /\ requests \in Seq(Request)
        /\ requests' = Append(requests, e)
        /\ <<s, c>> \notin detached
        /\ UNCHANGED <<sockets, clients, listeners, opening, detached, joining,
                       aborting, approvals, upsets>>
    BY DEF IInv, TypeOK, Raise, wires, rooms
  <1>2. /\ e \in Request /\ e.session = s /\ e.client = c
        /\ e.way = "held" => e.sent = {} /\ e.timer = "set" /\ c \notin clients
        /\ e.way # "late"
        /\ e.sent \subseteq Ears(s, c)
    BY NewRequestType
  <1>. HIDE DEF e
  <1>3. /\ requests' \in Seq(Request)
        /\ DOMAIN requests' = DOMAIN requests \cup {n}
        /\ requests'[n] = e
        /\ \A i \in DOMAIN requests : requests'[i] = requests[i] /\ i # n
    BY <1>1, <1>2, Appended
  <1>4. TypeOK' /\ OneOpen' /\ ListenersStand'
    BY <1>1, <1>3 DEF IInv, TypeOK, OneOpen, ListenersStand, IsOpen, Of
  <1>5. SentStands'
    <2>1. \A k \in Ears(s, c) :
            /\ k \in DOMAIN sockets /\ Of(k) = c
            /\ sockets[k].at # "closed" /\ sockets[k].role = "registered"
      BY DEF IInv, ListenersStand, Ears
    <2>. QED
      BY <1>1, <1>2, <1>3, <2>1 DEF IInv, SentStands, Waiting, Of
  <1>6. HeldTimed' /\ HandedOverOnce'
    BY <1>1, <1>2, <1>3 DEF IInv, HeldTimed, HandedOverOnce, Waiting
  <1>7. NothingAskedOfDetached'
    BY <1>1, <1>2, <1>3 DEF IInv, NothingAskedOfDetached, Waiting
  <1>8. HeldMeansAway'
    <2>. SUFFICES ASSUME NEW i \in DOMAIN requests',
                         Waiting(i)', requests'[i].way = "held",
                         NEW k \in DOMAIN sockets', IsOpen(k)',
                         Of(k)' = requests'[i].client, Of(k)' \in clients',
                         Listens(k, requests[i].session)'
                  PROVE  FALSE
      BY DEF HeldMeansAway
    <2>1. i # n
      BY <1>1, <1>2, <1>3 DEF Of
    <2>2. i \in DOMAIN requests /\ requests'[i] = requests[i]
      BY <1>3, <2>1
    <2>3. Listens(k, requests[i].session)
      BY <1>1, <2>2 DEF Listens
    <2>. QED
      BY <1>1, <2>2, <2>3 DEF IInv, HeldMeansAway, Waiting, IsOpen, Of
  <1>9. ApprovalsShown'
    BY <1>1, ApprovalsKept, SameEnds DEF IInv, ApprovalsEnd
  <1>. QED
    BY <1>4, <1>5, <1>6, <1>7, <1>8, <1>9 DEF IInv

\* A step that leaves requests and connections alone.
LEMMA ApprovalStepInv ==
  ASSUME IInv, approvals' \in Seq(Approval), ApprovalsShown',
         UNCHANGED <<sockets, clients, listeners, opening, detached, joining,
                     aborting, requests, upsets>>
  PROVE  IInv'
  <1>1. TypeOK' /\ OneOpen' /\ ListenersStand'
    BY DEF IInv, TypeOK, OneOpen, ListenersStand, IsOpen, Of
  <1>2. NoNewEars
    BY DEF NoNewEars, IsOpen, Of, Listens
  <1>3. Ends(requests')
    BY SameEnds DEF IInv
  <1>. QED
    BY <1>1, <1>2, <1>3, EndsKeep, EndsDetached, EndsSent, EndsHeld DEF IInv

LEMMA AskApprovalInv ==
  ASSUME IInv, NEW s \in Sessions, AskApproval(s)
  PROVE  IInv'
  <1>. DEFINE e == [session |-> s, at |-> "asked", shown |-> {}]
              n == Len(approvals) + 1
  <1>1. /\ approvals \in Seq(Approval)
        /\ approvals' = Append(approvals, e)
        /\ UNCHANGED <<sockets, clients, listeners, opening, detached, joining,
                       aborting, requests, upsets>>
    BY DEF IInv, TypeOK, AskApproval, wires, rooms
  <1>2. e \in Approval /\ e.at # "waiting"
    BY DEF Approval
  <1>. HIDE DEF e
  <1>3. /\ approvals' \in Seq(Approval)
        /\ DOMAIN approvals' = DOMAIN approvals \cup {n}
        /\ approvals'[n] = e
        /\ \A a \in DOMAIN approvals : approvals'[a] = approvals[a] /\ a # n
    BY <1>1, <1>2, Appended
  <1>4. ApprovalsShown'
    BY <1>1, <1>2, <1>3 DEF IInv, ApprovalsShown
  <1>. QED
    BY <1>1, <1>3, <1>4, ApprovalStepInv

\* An approval is shown to all who listen when it is published.
LEMMA PublishApprovalInv ==
  ASSUME IInv, NEW a \in DOMAIN approvals, PublishApproval(a)
  PROVE  IInv'
  <1>. DEFINE seen == {k \in DOMAIN sockets : <<k, approvals[a].session>> \in listeners}
              e == [approvals[a] EXCEPT !.at = "waiting", !.shown = seen]
  <1>1. /\ approvals \in Seq(Approval) /\ approvals[a] \in Approval
        /\ approvals' = [approvals EXCEPT ![a] = e]
        /\ UNCHANGED <<sockets, clients, listeners, opening, detached, joining,
                       aborting, requests, upsets>>
    BY SeqDomain DEF IInv, TypeOK, PublishApproval, wires, rooms
  <1>2. seen \in SUBSET Nat
    BY SeqDomain DEF IInv, TypeOK
  <1>3. e \in Approval /\ e.session = approvals[a].session /\ e.shown = seen
    BY <1>1, <1>2 DEF Approval
  <1>4. \A l \in listeners : approvals[a].session = l[2] => l[1] \in seen
    <2>1. \A l \in listeners : l[1] \in DOMAIN sockets /\ l = <<l[1], l[2]>>
      BY DEF IInv, TypeOK
    <2>. QED
      BY <2>1
  <1>. HIDE DEF e, seen
  <1>5. approvals' \in Seq(Approval)
    BY <1>1, <1>3
  <1>6. /\ DOMAIN approvals' = DOMAIN approvals
        /\ approvals'[a] = e
        /\ \A b \in DOMAIN approvals : b # a => approvals'[b] = approvals[b]
    BY <1>1
  <1>7. ApprovalsShown'
    BY <1>1, <1>3, <1>4, <1>6 DEF IInv, ApprovalsShown
  <1>. QED
    BY <1>1, <1>5, <1>7, ApprovalStepInv

-----------------------------------------------------------------------------
(* Connections *)

\* Writing one socket, whose client stays the same.
LEMMA SocketWritten ==
  ASSUME IInv, NEW k \in DOMAIN sockets, NEW e \in Socket,
         sockets' = [sockets EXCEPT ![k] = e], e.client = sockets[k].client
  PROVE  /\ sockets' \in Seq(Socket)
         /\ DOMAIN sockets' = DOMAIN sockets
         /\ sockets'[k] = e
         /\ \A j \in DOMAIN sockets : j # k => sockets'[j] = sockets[j]
         /\ \A j \in DOMAIN sockets : sockets'[j].client = sockets[j].client
  <1>1. sockets \in Seq(Socket)
    BY DEF IInv, TypeOK
  <1>. QED
    BY <1>1

LEMMA ConnectInv ==
  ASSUME IInv, NEW c \in Clients, Connect(c)
  PROVE  IInv'
  <1>. DEFINE e == [client |-> c, at |-> "open", role |-> "new", streams |-> {}]
              n == Len(sockets) + 1
  <1>1. /\ sockets \in Seq(Socket)
        /\ sockets' = Append(sockets, e)
        /\ \A k \in DOMAIN sockets : Of(k) = c => ~IsOpen(k)
        /\ UNCHANGED <<clients, listeners, opening, detached, joining, aborting,
                       requests, approvals, upsets>>
    BY DEF IInv, TypeOK, Connect, rooms
  <1>2. e \in Socket /\ e.client = c
    BY DEF Socket
  <1>. HIDE DEF e
  <1>3. /\ sockets' \in Seq(Socket)
        /\ DOMAIN sockets' = DOMAIN sockets \cup {n}
        /\ sockets'[n] = e
        /\ \A k \in DOMAIN sockets : sockets'[k] = sockets[k] /\ k # n
    BY <1>1, <1>2, Appended
  <1>4. \A l \in listeners : l[1] \in DOMAIN sockets /\ l[1] # n
    BY <1>3 DEF IInv, TypeOK
  <1>5. TypeOK'
    BY <1>1, <1>3 DEF IInv, TypeOK
  <1>6. OneOpen'
    BY <1>1, <1>2, <1>3 DEF IInv, OneOpen, IsOpen, Of
  <1>7. ListenersStand'
    BY <1>1, <1>3, <1>4 DEF IInv, ListenersStand
  <1>8. SentStands'
    BY <1>1, <1>3 DEF IInv, SentStands, Waiting, Of
  <1>9. NoNewEars
    BY <1>1, <1>3, <1>4 DEF NoNewEars, IsOpen, Of, Listens
  <1>10. Ends(requests') /\ ApprovalsEnd(approvals')
    BY <1>1, SameEnds DEF IInv, Ends, ApprovalsEnd
  <1>. QED
    BY <1>1, <1>3, <1>5, <1>6, <1>7, <1>8, <1>9, <1>10, EndsKeep, EndsDetached,
       EndsHeld, ApprovalsKept DEF IInv

\* The socket that registers is its client's only open one, and new: nobody
\* listens in the name of the client that becomes known.
LEMMA RegisterInv ==
  ASSUME IInv, NEW k \in DOMAIN sockets, Register(k)
  PROVE  IInv'
  <1>. DEFINE e == [sockets[k] EXCEPT !.role = "registered"]
  <1>1. /\ sockets[k] \in Socket
        /\ sockets' = [sockets EXCEPT ![k] = e]
        /\ clients' = clients \cup {Of(k)}
        /\ IsOpen(k) /\ sockets[k].role = "new"
        /\ UNCHANGED <<listeners, opening, detached, joining, aborting, requests,
                       approvals, upsets>>
    BY SeqDomain DEF IInv, TypeOK, Register, rooms
  <1>2. /\ e \in Socket /\ e.client = sockets[k].client
        /\ e.at = sockets[k].at /\ e.role = "registered"
    BY <1>1 DEF Socket
  <1>. HIDE DEF e
  <1>3. /\ sockets' \in Seq(Socket)
        /\ DOMAIN sockets' = DOMAIN sockets
        /\ sockets'[k] = e
        /\ \A j \in DOMAIN sockets : j # k => sockets'[j] = sockets[j]
        /\ \A j \in DOMAIN sockets : sockets'[j].client = sockets[j].client
    BY <1>1, <1>2, SocketWritten
  <1>4. Of(k) \in Clients
    BY <1>1 DEF Of, Socket
  <1>5. TypeOK'
    BY <1>1, <1>3, <1>4 DEF IInv, TypeOK
  <1>6. OneOpen' /\ ListenersStand'
    BY <1>1, <1>2, <1>3 DEF IInv, TypeOK, OneOpen, ListenersStand, IsOpen, Of
  <1>7. SentStands'
    BY <1>1, <1>2, <1>3 DEF IInv, SentStands, Waiting, Of
  <1>8. NoNewEars
    <2>. SUFFICES ASSUME NEW j \in DOMAIN sockets', NEW s \in Sessions,
                         IsOpen(j)', Of(j)' \in clients', Listens(j, s)'
                  PROVE  /\ j \in DOMAIN sockets
                         /\ IsOpen(j) /\ Of(j) = Of(j)' /\ Of(j) \in clients
                         /\ Listens(j, s)
      BY DEF NoNewEars
    <2>1. j \in DOMAIN sockets /\ IsOpen(j) /\ Of(j) = Of(j)' /\ Listens(j, s)
      BY <1>1, <1>2, <1>3 DEF IsOpen, Of, Listens
    <2>2. sockets[j].role = "registered"
      BY <2>1 DEF IInv, ListenersStand, Listens
    <2>3. Of(j) # Of(k)
      BY <1>1, <2>1, <2>2 DEF IInv, OneOpen
    <2>. QED
      BY <1>1, <2>1, <2>3
  <1>9. Ends(requests') /\ ApprovalsEnd(approvals')
    BY <1>1, SameEnds DEF IInv, Ends, ApprovalsEnd
  <1>. QED
    BY <1>1, <1>3, <1>5, <1>6, <1>7, <1>8, <1>9, EndsKeep, EndsDetached,
       EndsHeld, ApprovalsKept DEF IInv

\* A socket that changes only its streams or is lost, and stops listening
\* where it stops.
LEMMA FewerEarsInv ==
  ASSUME IInv, NEW k \in DOMAIN sockets, NEW e \in Socket,
         sockets' = [sockets EXCEPT ![k] = e],
         e.client = sockets[k].client, e.role = sockets[k].role,
         e.at = sockets[k].at \/ e.at = "lost", sockets[k].at = "open",
         listeners' \subseteq listeners, upsets' \in Nat,
         UNCHANGED <<clients, opening, detached, joining, aborting, requests,
                     approvals>>
  PROVE  IInv'
  <1>1. /\ sockets' \in Seq(Socket)
        /\ DOMAIN sockets' = DOMAIN sockets
        /\ sockets'[k] = e
        /\ \A j \in DOMAIN sockets : j # k => sockets'[j] = sockets[j]
        /\ \A j \in DOMAIN sockets : sockets'[j].client = sockets[j].client
    BY SocketWritten
  <1>2. TypeOK'
    BY <1>1 DEF IInv, TypeOK
  <1>3. OneOpen' /\ ListenersStand'
    BY <1>1 DEF IInv, TypeOK, OneOpen, ListenersStand, IsOpen, Of
  <1>4. SentStands'
    BY <1>1 DEF IInv, SentStands, Waiting, Of
  <1>5. NoNewEars
    BY <1>1 DEF NoNewEars, IsOpen, Of, Listens
  <1>6. Ends(requests') /\ ApprovalsEnd(approvals')
    BY SameEnds DEF IInv, Ends, ApprovalsEnd
  <1>. QED
    BY <1>1, <1>2, <1>3, <1>4, <1>5, <1>6, EndsKeep, EndsDetached, EndsHeld,
       ApprovalsKept DEF IInv

LEMMA LoseInv ==
  ASSUME IInv, NEW k \in DOMAIN sockets, Lose(k)
  PROVE  IInv'
  <1>. DEFINE e == [sockets[k] EXCEPT !.at = "lost"]
  <1>1. /\ sockets[k] \in Socket /\ sockets[k].at = "open"
        /\ sockets' = [sockets EXCEPT ![k] = e]
        /\ listeners' = listeners /\ upsets' \in Nat
        /\ UNCHANGED <<clients, opening, detached, joining, aborting, requests,
                       approvals>>
    BY SeqDomain DEF IInv, TypeOK, Lose, IsOpen, Upset, rooms
  <1>2. /\ e \in Socket /\ e.client = sockets[k].client
        /\ e.role = sockets[k].role /\ e.at = "lost"
    BY <1>1 DEF Socket
  <1>. HIDE DEF e
  <1>. QED
    BY <1>1, <1>2, FewerEarsInv

LEMMA UnsubscribeInv ==
  ASSUME IInv, NEW k \in DOMAIN sockets, NEW s \in Sessions, Unsubscribe(k, s)
  PROVE  IInv'
  <1>. DEFINE e == [sockets[k] EXCEPT !.streams = sockets[k].streams \ {s}]
  <1>1. /\ sockets[k] \in Socket /\ sockets[k].at = "open"
        /\ sockets' = [sockets EXCEPT ![k] = e]
        /\ listeners' \subseteq listeners /\ upsets' \in Nat
        /\ UNCHANGED <<clients, opening, detached, joining, aborting, requests,
                       approvals>>
    BY SeqDomain DEF IInv, TypeOK, Unsubscribe, IsOpen, rooms
  <1>2. /\ e \in Socket /\ e.client = sockets[k].client
        /\ e.role = sockets[k].role /\ e.at = sockets[k].at
    BY <1>1 DEF Socket
  <1>. HIDE DEF e
  <1>. QED
    BY <1>1, <1>2, FewerEarsInv

\* A socket ends, by its close or by the goodbye of its client, and with it
\* everything that was sent on it.
LEMMA EndOfSocketInv ==
  ASSUME IInv, NEW k \in DOMAIN sockets, NEW e \in Socket,
         sockets' = [sockets EXCEPT ![k] = e],
         e.client = sockets[k].client, e.at # "open",
         \/ sockets[k].role = "registered"
         \/ sockets[k].role # "registered" /\ e.role = sockets[k].role,
         sockets[k].role = "registered" => Unregistered(Of(k)),
         sockets[k].role # "registered" =>
           /\ listeners' = {l \in listeners : l[1] # k}
           /\ UNCHANGED <<clients, requests>>,
         upsets' \in Nat,
         UNCHANGED <<opening, detached, joining, aborting, approvals>>
  PROVE  IInv'
  <1>1. /\ sockets' \in Seq(Socket)
        /\ DOMAIN sockets' = DOMAIN sockets
        /\ sockets'[k] = e
        /\ \A j \in DOMAIN sockets : j # k => sockets'[j] = sockets[j]
        /\ \A j \in DOMAIN sockets : sockets'[j].client = sockets[j].client
    BY SocketWritten
  <1>2. /\ listeners' \subseteq listeners /\ clients' \subseteq clients
        /\ \A l \in listeners' : l[1] # k
    BY DEF Unregistered, Of
  <1>3. /\ Ends(requests')
        /\ sockets[k].role = "registered" =>
             \A i \in DOMAIN requests :
               requests[i].client = sockets[k].client => requests'[i].at # "waiting"
    <2>1. CASE sockets[k].role = "registered"
      <3>1. requests' = Settled(requests, AskedOf(Of(k)), "gone")
        BY <2>1 DEF Unregistered
      <3>. QED
        BY <2>1, <3>1, SettledEnds DEF IInv, AskedOf, Of
    <2>2. CASE sockets[k].role # "registered"
      BY <2>2, SameEnds DEF IInv, Ends
    <2>. QED
      BY <2>1, <2>2
  <1>4. TypeOK'
    BY <1>1, <1>2, <1>3 DEF IInv, TypeOK, Ends
  <1>5. OneOpen' /\ ListenersStand'
    BY <1>1, <1>2 DEF IInv, TypeOK, OneOpen, ListenersStand, IsOpen, Of
  <1>6. SentStands'
    <2>. SUFFICES ASSUME NEW i \in DOMAIN requests', NEW j \in requests'[i].sent
                  PROVE  /\ j \in DOMAIN sockets'
                         /\ Waiting(i)' => /\ Of(j)' = requests'[i].client
                                           /\ sockets'[j].at # "closed"
                                           /\ sockets'[j].role = "registered"
      BY DEF SentStands
    <2>1. i \in DOMAIN requests /\ j \in requests[i].sent /\ j \in DOMAIN sockets
      BY <1>3 DEF Ends, IInv, SentStands
    <2>2. Waiting(i)' => Waiting(i)
      BY <1>3, <2>1 DEF Ends, Waiting
    <2>3. Waiting(i)' => j # k
      BY <1>3, <2>1, <2>2 DEF IInv, SentStands, Waiting, Of
    <2>. QED
      BY <1>1, <1>3, <2>1, <2>2, <2>3 DEF IInv, SentStands, Ends, Of
  <1>7. NoNewEars
    BY <1>1, <1>2 DEF NoNewEars, IsOpen, Of, Listens
  <1>8. ApprovalsEnd(approvals')
    BY SameEnds DEF IInv, ApprovalsEnd
  <1>. QED
    BY <1>1, <1>2, <1>3, <1>4, <1>5, <1>6, <1>7, <1>8, EndsKeep, EndsDetached,
       EndsHeld, ApprovalsKept DEF IInv

LEMMA CloseInv ==
  ASSUME IInv, NEW k \in DOMAIN sockets, Close(k)
  PROVE  IInv'
  <1>. DEFINE e == [sockets[k] EXCEPT !.at = "closed"]
  <1>1. /\ sockets[k] \in Socket
        /\ sockets' = [sockets EXCEPT ![k] = e]
        /\ sockets[k].role = "registered" => Unregistered(Of(k))
        /\ sockets[k].role # "registered" =>
             /\ listeners' = {l \in listeners : l[1] # k}
             /\ UNCHANGED <<clients, requests>>
        /\ upsets' \in Nat
        /\ UNCHANGED <<opening, detached, joining, aborting, approvals>>
    BY SeqDomain DEF IInv, TypeOK, Close, rooms
  <1>2. /\ e \in Socket /\ e.client = sockets[k].client
        /\ e.role = sockets[k].role /\ e.at = "closed"
    BY <1>1 DEF Socket
  <1>. HIDE DEF e
  <1>. QED
    BY <1>1, <1>2, EndOfSocketInv

LEMMA LeaveInv ==
  ASSUME IInv, NEW k \in DOMAIN sockets, Leave(k)
  PROVE  IInv'
  <1>. DEFINE e == [sockets[k] EXCEPT !.at = "lost", !.role = "left"]
  <1>1. /\ sockets[k] \in Socket
        /\ sockets' = [sockets EXCEPT ![k] = e]
        /\ sockets[k].role = "registered" /\ Unregistered(Of(k))
        /\ upsets' \in Nat
        /\ UNCHANGED <<opening, detached, joining, aborting, approvals>>
    BY SeqDomain DEF IInv, TypeOK, Leave, Upset, rooms
  <1>2. e \in Socket /\ e.client = sockets[k].client /\ e.at = "lost"
    BY <1>1 DEF Socket
  <1>. HIDE DEF e
  <1>. QED
    BY <1>1, <1>2, EndOfSocketInv

-----------------------------------------------------------------------------
(* Subscriptions *)

\* A request goes out on a socket: its type, and what stays of it.
LEMMA SentType ==
  ASSUME NEW q \in Request, NEW k \in DOMAIN sockets, k \in Nat,
         NEW way \in {"live", "late"}
  PROVE  /\ SentOn(q, k, way) \in Request
         /\ SentOn(q, k, way).session = q.session
         /\ SentOn(q, k, way).client = q.client
         /\ SentOn(q, k, way).at = q.at
         /\ SentOn(q, k, way).way = way
         /\ SentOn(q, k, way).sent = q.sent \cup {k}
  <1>. DEFINE got == IF IsOpen(k) THEN q.got \cup {k} ELSE q.got
  <1>1. /\ q.sent \cup {k} \in SUBSET Nat
        /\ got \in SUBSET Nat
    BY DEF Request
  <1>2. SentOn(q, k, way) =
          [q EXCEPT !.way = way, !.sent = q.sent \cup {k}, !.got = got]
    BY DEF SentOn
  <1>. HIDE DEF got
  <1>. QED
    BY <1>1, <1>2 DEF Request

\* Some requests go out on a socket of their owner that is registered.
SentSome(q, chosen, k, way) ==
  /\ q \in Seq(Request)
  /\ DOMAIN q = DOMAIN requests
  /\ \A i \in DOMAIN requests :
       IF i \in chosen
       THEN /\ q[i].session = requests[i].session
            /\ q[i].client = requests[i].client
            /\ q[i].at = requests[i].at
            /\ q[i].way = way
            /\ q[i].sent = requests[i].sent \cup {k}
       ELSE q[i] = requests[i]

LEMMA SentSomeType ==
  ASSUME IInv, NEW chosen, NEW k \in DOMAIN sockets, NEW way \in {"live", "late"},
         NEW q, q = [i \in DOMAIN requests |->
                       IF i \in chosen THEN SentOn(requests[i], k, way)
                       ELSE requests[i]]
  PROVE  SentSome(q, chosen, k, way)
  <1>1. requests \in Seq(Request) /\ \A i \in DOMAIN requests : requests[i] \in Request
    BY SeqDomain DEF IInv, TypeOK
  <1>2. k \in Nat
    BY SeqDomain DEF IInv, TypeOK
  <1>3. \A i \in DOMAIN requests :
          /\ SentOn(requests[i], k, way) \in Request
          /\ SentOn(requests[i], k, way).session = requests[i].session
          /\ SentOn(requests[i], k, way).client = requests[i].client
          /\ SentOn(requests[i], k, way).at = requests[i].at
          /\ SentOn(requests[i], k, way).way = way
          /\ SentOn(requests[i], k, way).sent = requests[i].sent \cup {k}
    BY <1>1, <1>2, SentType
  <1>4. /\ DOMAIN q = DOMAIN requests
        /\ q = [i \in DOMAIN requests |-> q[i]]
        /\ \A i \in DOMAIN requests :
             q[i] = IF i \in chosen THEN SentOn(requests[i], k, way) ELSE requests[i]
    OBVIOUS
  <1>5. \A i \in DOMAIN requests : q[i] \in Request
    BY <1>1, <1>3, <1>4
  <1>6. q \in Seq(Request)
    BY ONLY <1>1, <1>4, <1>5, Rewritten
  <1>. QED
    BY <1>3, <1>4, <1>6 DEF SentSome

\* Sockets keep what SentStands says of them, and a registered, unclosed one of
\* the owners is added.
LEMMA SentSomeStands ==
  ASSUME IInv, NEW chosen, NEW k \in DOMAIN sockets, NEW way,
         SentSome(requests', chosen, k, way),
         \A i \in chosen \cap DOMAIN requests : requests[i].client = Of(k),
         sockets[k].role = "registered", sockets[k].at # "closed",
         DOMAIN sockets' = DOMAIN sockets,
         \A j \in DOMAIN sockets :
           /\ sockets'[j].client = sockets[j].client
           /\ sockets'[j].role = sockets[j].role
           /\ sockets'[j].at = sockets[j].at
  PROVE  SentStands'
  <1>. SUFFICES ASSUME NEW i \in DOMAIN requests', NEW j \in requests'[i].sent
                PROVE  /\ j \in DOMAIN sockets'
                       /\ Waiting(i)' => /\ Of(j)' = requests'[i].client
                                         /\ sockets'[j].at # "closed"
                                         /\ sockets'[j].role = "registered"
    BY DEF SentStands
  <1>1. /\ i \in DOMAIN requests
        /\ requests'[i].client = requests[i].client
        /\ requests'[i].at = requests[i].at
        /\ j \in requests[i].sent \/ (i \in chosen /\ j = k)
    <2>1. i \in DOMAIN requests
      BY DEF SentSome
    <2>2. CASE i \in chosen
      BY <2>1, <2>2 DEF SentSome
    <2>3. CASE i \notin chosen
      BY <2>1, <2>3 DEF SentSome
    <2>. QED
      BY <2>1, <2>2, <2>3
  <1>2. CASE j \in requests[i].sent
    BY <1>1, <1>2 DEF IInv, SentStands, Waiting, Of
  <1>3. CASE i \in chosen /\ j = k
    BY <1>1, <1>3 DEF Of
  <1>. QED
    BY <1>1, <1>2, <1>3

\* What the log replays was sent live before.
LEMMA SubscribeInv ==
  ASSUME IInv, NEW k \in DOMAIN sockets, NEW s \in Sessions,
         NEW replay \in BOOLEAN, Subscribe(k, s, replay)
  PROVE  IInv'
  <1>. DEFINE e == [sockets[k] EXCEPT !.streams = sockets[k].streams \cup {s}]
              chosen == IF replay THEN Missed(k, s) ELSE {}
              shows == {a \in ApprovalsOf(s) : approvals[a].at = "waiting"}
              o == [socket |-> k, session |-> s, shows |-> shows]
  <1>1. /\ sockets[k] \in Socket /\ sockets[k].at = "open"
        /\ sockets[k].role = "registered"
        /\ sockets' = [sockets EXCEPT ![k] = e]
        /\ listeners' = listeners \cup {<<k, s>>}
        /\ opening' = opening \cup {o}
        /\ UNCHANGED <<clients, detached, joining, aborting, approvals, upsets>>
    BY SeqDomain DEF IInv, TypeOK, Subscribe, IsOpen, rooms
  <1>2. /\ e \in Socket /\ e.client = sockets[k].client
        /\ e.role = sockets[k].role /\ e.at = sockets[k].at
    BY <1>1 DEF Socket
  <1>3. /\ sockets' \in Seq(Socket)
        /\ DOMAIN sockets' = DOMAIN sockets
        /\ sockets'[k] = e
        /\ \A j \in DOMAIN sockets : j # k => sockets'[j] = sockets[j]
        /\ \A j \in DOMAIN sockets : sockets'[j].client = sockets[j].client
    BY <1>1, <1>2, SocketWritten
  <1>4. /\ \A i \in DOMAIN requests :
             i \in chosen => requests[i].way = "live" /\ requests[i].client = Of(k)
        /\ \A a \in DOMAIN approvals :
             approvals[a].at = "waiting" /\ approvals[a].session = s => a \in shows
        /\ shows \subseteq Nat
    <2>1. DOMAIN approvals \subseteq Nat
      BY SeqDomain DEF IInv, TypeOK
    <2>. QED
      BY <2>1 DEF Missed, AskedOf, ApprovalsOf
  <1>5. SentSome(requests', chosen, k, "live")
    <2>1. requests' = [i \in DOMAIN requests |->
                         IF i \in chosen THEN SentOn(requests[i], k, "live")
                         ELSE requests[i]]
      BY DEF Subscribe
    <2>. HIDE DEF chosen
    <2>. QED
      BY <2>1, SentSomeType
  <1>6. k \in Nat /\ o \in Opening
    <2>1. k \in Nat
      BY SeqDomain DEF IInv, TypeOK
    <2>. QED
      BY <1>4, <2>1 DEF Opening
  <1>. HIDE DEF e, chosen, shows
  <1>7. TypeOK'
    BY <1>1, <1>3, <1>5, <1>6 DEF IInv, TypeOK, SentSome
  <1>8. OneOpen' /\ ListenersStand'
    <2>1. OneOpen'
      BY <1>2, <1>3 DEF IInv, OneOpen, IsOpen, Of
    <2>2. ListenersStand'
      BY <1>1, <1>2, <1>3 DEF IInv, TypeOK, ListenersStand
    <2>. QED
      BY <2>1, <2>2
  <1>9. SentStands'
    <2>1. \A j \in DOMAIN sockets :
            sockets'[j].role = sockets[j].role /\ sockets'[j].at = sockets[j].at
      BY <1>2, <1>3
    <2>. QED
      BY <1>1, <1>3, <1>4, <1>5, <2>1, SentSomeStands
  <1>10. HeldTimed' /\ HandedOverOnce' /\ NothingAskedOfDetached'
    <2>1. HeldTimed' /\ NothingAskedOfDetached'
      BY <1>1, <1>5 DEF IInv, SentSome, HeldTimed, NothingAskedOfDetached, Waiting
    <2>2. \A i \in DOMAIN requests :
            requests'[i].way # "live" => requests'[i] = requests[i]
      BY <1>5 DEF SentSome
    <2>3. HandedOverOnce'
      BY <1>3, <1>5, <2>2 DEF IInv, SentSome, HandedOverOnce
    <2>. QED
      BY <2>1, <2>3
  <1>11. HeldMeansAway'
    <2>. SUFFICES ASSUME NEW i \in DOMAIN requests',
                         Waiting(i)', requests'[i].way = "held",
                         NEW j \in DOMAIN sockets', IsOpen(j)',
                         Of(j)' = requests'[i].client, Of(j)' \in clients',
                         Listens(j, requests[i].session)'
                  PROVE  FALSE
      BY DEF HeldMeansAway
    <2>1. i \in DOMAIN requests /\ requests'[i] = requests[i]
      BY <1>4, <1>5 DEF SentSome
    <2>2. /\ <<j, requests[i].session>> \in listeners'
          /\ ~\E u \in opening' : u.socket = j /\ u.session = requests[i].session
      BY <2>1 DEF Listens
    <2>3. o \in opening' /\ o.socket = k /\ o.session = s
      BY <1>1
    <2>4. <<j, requests[i].session>> \in listeners
      BY <1>1, <2>2, <2>3
    <2>5. Listens(j, requests[i].session)
      BY <1>1, <2>2, <2>4 DEF Listens
    <2>6. j \in DOMAIN sockets /\ IsOpen(j) /\ Of(j) = Of(j)' /\ Waiting(i)
      BY <1>2, <1>3, <2>1 DEF IsOpen, Of, Waiting
    <2>. QED
      BY <1>1, <2>1, <2>5, <2>6 DEF IInv, HeldMeansAway
  <1>12. ApprovalsShown'
    <2>1. o \in opening' /\ o.socket = k /\ o.session = s /\ o.shows = shows
      BY <1>1
    <2>2. \A a \in DOMAIN approvals, l \in listeners :
            approvals[a].at = "waiting" /\ approvals[a].session = l[2] =>
              \/ l[1] \in approvals[a].shown
              \/ \E u \in opening' :
                   u.socket = l[1] /\ u.session = l[2] /\ a \in u.shows
      BY <1>1 DEF IInv, ApprovalsShown
    <2>3. \A a \in DOMAIN approvals :
            approvals[a].at = "waiting" /\ approvals[a].session = s =>
              \E u \in opening' : u.socket = k /\ u.session = s /\ a \in u.shows
      BY <1>4, <2>1
    <2>4. \A l \in listeners' : l \in listeners \/ l = <<k, s>>
      BY <1>1
    <2>. QED
      BY <1>1, <2>2, <2>3, <2>4 DEF ApprovalsShown
  <1>. QED
    BY <1>7, <1>8, <1>9, <1>10, <1>11, <1>12 DEF IInv

\* The microtask hands over what was held and shows what waits; for a listener
\* that is gone it does nothing.
LEMMA OpenInv ==
  ASSUME IInv, NEW o \in opening, Open(o)
  PROVE  IInv'
  <1>. DEFINE k == o.socket
              s == o.session
  <1>1. /\ opening' = opening \ {o}
        /\ UNCHANGED <<sockets, clients, listeners, detached, joining, aborting,
                       upsets>>
    BY DEF Open, rooms
  <1>2. OneOpen' /\ ListenersStand'
    BY <1>1 DEF IInv, OneOpen, ListenersStand, IsOpen, Of
  <1>3. CASE <<k, s>> \notin listeners
    <2>1. requests' = requests /\ approvals' = approvals
      BY <1>3 DEF Open
    <2>2. TypeOK'
      BY <1>1, <2>1 DEF IInv, TypeOK
    <2>3. Ends(requests')
      BY <2>1, SameEnds DEF IInv, Ends
    <2>4. NoNewEars
      BY <1>1, <1>3 DEF NoNewEars, IsOpen, Of, Listens
    <2>5. ApprovalsShown'
      <3>1. \A l \in listeners : l = <<l[1], l[2]>>
        BY DEF IInv, TypeOK
      <3>. QED
        BY <1>1, <1>3, <2>1, <3>1 DEF IInv, ApprovalsShown
    <2>. QED
      BY <1>1, <1>2, <2>2, <2>3, <2>4, <2>5, EndsKeep, EndsDetached, EndsSent,
         EndsHeld DEF IInv
  <1>4. CASE <<k, s>> \in listeners
    <2>. DEFINE chosen == Undelivered(k, s)
    <2>1. /\ k \in DOMAIN sockets
          /\ sockets[k].role = "registered" /\ sockets[k].at # "closed"
      BY <1>4 DEF IInv, TypeOK, ListenersStand
    <2>2. \A i \in DOMAIN requests :
            i \in chosen <=> /\ requests[i].client = Of(k)
                             /\ requests[i].session = s
                             /\ Waiting(i) /\ requests[i].way = "held"
      BY DEF Undelivered, AskedOf, RaisedBy
    <2>3. SentSome(requests', chosen, k, "late")
      <3>1. requests' = [i \in DOMAIN requests |->
                           IF i \in chosen THEN SentOn(requests[i], k, "late")
                           ELSE requests[i]]
        BY <1>4 DEF Open
      <3>. HIDE DEF chosen
      <3>. QED
        BY <2>1, <3>1, SentSomeType
    <2>. HIDE DEF chosen
    <2>4. /\ approvals' \in Seq(Approval)
          /\ DOMAIN approvals' = DOMAIN approvals
          /\ \A a \in DOMAIN approvals :
               /\ approvals'[a].session = approvals[a].session
               /\ approvals'[a].at = approvals[a].at
               /\ approvals'[a].shown =
                    IF a \in o.shows THEN approvals[a].shown \cup {k}
                    ELSE approvals[a].shown
      <3>. DEFINE new(a) == [approvals[a] EXCEPT !.shown = approvals[a].shown \cup {k}]
      <3>1. /\ approvals \in Seq(Approval)
            /\ \A a \in DOMAIN approvals : approvals[a] \in Approval
        BY SeqDomain DEF IInv, TypeOK
      <3>2. k \in Nat
        BY <2>1, SeqDomain DEF IInv, TypeOK
      <3>3. \A a \in DOMAIN approvals :
              /\ new(a) \in Approval
              /\ new(a).session = approvals[a].session
              /\ new(a).at = approvals[a].at
              /\ new(a).shown = approvals[a].shown \cup {k}
        BY <3>1, <3>2 DEF Approval
      <3>4. approvals' = [a \in DOMAIN approvals |->
                            IF a \in o.shows THEN new(a) ELSE approvals[a]]
        BY <1>4 DEF Open
      <3>. HIDE DEF new
      <3>5. /\ DOMAIN approvals' = DOMAIN approvals
            /\ approvals' = [a \in DOMAIN approvals |-> approvals'[a]]
            /\ \A a \in DOMAIN approvals :
                 approvals'[a] = IF a \in o.shows THEN new(a) ELSE approvals[a]
        BY <3>4
      <3>6. \A a \in DOMAIN approvals : approvals'[a] \in Approval
        BY <3>1, <3>3, <3>5
      <3>7. approvals' \in Seq(Approval)
        BY ONLY <3>1, <3>5, <3>6, Rewritten
      <3>. QED
        BY <3>3, <3>5, <3>7
    <2>5. TypeOK'
      BY <1>1, <2>3, <2>4 DEF IInv, TypeOK, SentSome
    <2>6. SentStands'
      BY <1>1, <2>1, <2>2, <2>3, SentSomeStands
    <2>7. HeldTimed' /\ NothingAskedOfDetached'
      BY <1>1, <2>3 DEF IInv, SentSome, HeldTimed, NothingAskedOfDetached, Waiting
    <2>8. HandedOverOnce'
      <3>1. \A i \in DOMAIN requests :
              i \in chosen => requests'[i].sent = {k} /\ requests'[i].way = "late"
        BY <2>2, <2>3 DEF IInv, SentSome, HandedOverOnce
      <3>. QED
        BY <1>1, <2>1, <2>3, <3>1 DEF IInv, SentSome, HandedOverOnce
    <2>9. HeldMeansAway'
      <3>. SUFFICES ASSUME NEW i \in DOMAIN requests',
                           Waiting(i)', requests'[i].way = "held",
                           NEW j \in DOMAIN sockets', IsOpen(j)',
                           Of(j)' = requests'[i].client, Of(j)' \in clients',
                           Listens(j, requests[i].session)'
                    PROVE  FALSE
        BY DEF HeldMeansAway
      <3>1. i \in DOMAIN requests /\ i \notin chosen /\ requests'[i] = requests[i]
        BY <2>3 DEF SentSome
      <3>2. /\ <<j, requests[i].session>> \in listeners
            /\ ~\E u \in opening' : u.socket = j /\ u.session = requests[i].session
        BY <1>1, <3>1 DEF Listens
      <3>3. /\ j \in DOMAIN sockets /\ IsOpen(j) /\ Of(j) = requests[i].client
            /\ Of(j) \in clients /\ Waiting(i) /\ requests[i].way = "held"
        BY <1>1, <3>1 DEF IsOpen, Of, Waiting
      <3>4. CASE j = k /\ requests[i].session = s
        BY <2>2, <3>1, <3>3, <3>4
      <3>5. CASE ~(j = k /\ requests[i].session = s)
        <4>1. Listens(j, requests[i].session)
          BY <1>1, <3>2, <3>5 DEF Listens
        <4>. QED
          BY <3>1, <3>3, <4>1 DEF IInv, HeldMeansAway
      <3>. QED
        BY <3>4, <3>5
    <2>10. ApprovalsShown'
      <3>. SUFFICES ASSUME NEW a \in DOMAIN approvals', NEW l \in listeners',
                           approvals'[a].at = "waiting",
                           approvals'[a].session = l[2],
                           l[1] \notin approvals'[a].shown
                    PROVE  \E u \in opening' :
                             u.socket = l[1] /\ u.session = l[2] /\ a \in u.shows
        BY DEF ApprovalsShown
      <3>1. /\ a \in DOMAIN approvals /\ l \in listeners
            /\ approvals[a].at = "waiting" /\ approvals[a].session = l[2]
            /\ l[1] \notin approvals[a].shown
        BY <1>1, <2>4
      <3>2. PICK u \in opening :
              u.socket = l[1] /\ u.session = l[2] /\ a \in u.shows
        BY <3>1 DEF IInv, ApprovalsShown
      <3>3. u # o
        BY <2>4, <3>1, <3>2
      <3>. QED
        BY <1>1, <3>2, <3>3
    <2>. QED
      BY <1>2, <2>5, <2>6, <2>7, <2>8, <2>9, <2>10 DEF IInv
  <1>. QED
    BY <1>3, <1>4

-----------------------------------------------------------------------------
(* Every step, and the theorems *)

LEMMA InitInv == Init => IInv
  <1>. SUFFICES ASSUME Init PROVE IInv
    OBVIOUS
  <1>1. /\ DOMAIN sockets = {} /\ DOMAIN requests = {} /\ DOMAIN approvals = {}
        /\ sockets \in Seq(Socket) /\ requests \in Seq(Request)
        /\ approvals \in Seq(Approval)
    BY DEF Init
  <1>. QED
    BY <1>1 DEF Init, IInv, TypeOK, OneOpen, ListenersStand, SentStands, HeldTimed,
       HandedOverOnce, NothingAskedOfDetached, HeldMeansAway, ApprovalsShown

LEMMA StutterInv == IInv /\ UNCHANGED vars => IInv'
  <1>. SUFFICES ASSUME IInv, UNCHANGED vars PROVE IInv'
    OBVIOUS
  <1>1. UNCHANGED <<sockets, clients, listeners, opening, detached, joining,
                    requests, approvals, aborting, upsets>>
    BY DEF vars
  <1>2. TypeOK'
    BY <1>1 DEF IInv, TypeOK
  <1>3. Ends(requests') /\ ApprovalsEnd(approvals')
    BY <1>1, SameEnds DEF IInv, Ends, ApprovalsEnd
  <1>. QED
    BY <1>1, <1>2, <1>3, EndingInv DEF wires

LEMMA NextInv == IInv /\ [Next]_vars => IInv'
  <1>. SUFFICES ASSUME IInv, [Next]_vars PROVE IInv'
    OBVIOUS
  <1>1. CASE Answers
    BY <1>1, RespondInv, AnswerApprovalInv DEF Answers
  <1>2. CASE Wires
    <2>1. CASE \E c \in Clients : Connect(c)
      BY <2>1, ConnectInv
    <2>2. CASE \E k \in DOMAIN sockets : Register(k) \/ Lose(k) \/ Close(k) \/ Leave(k)
      BY <2>2, RegisterInv, LoseInv, CloseInv, LeaveInv
    <2>3. CASE \E k \in DOMAIN sockets, s \in Sessions : Unsubscribe(k, s)
      BY <2>3, UnsubscribeInv
    <2>4. CASE \E k \in DOMAIN sockets, s \in Sessions :
                 \E replay \in {FALSE, Logged} : Subscribe(k, s, replay)
      BY <2>4, SubscribeInv, LoggedAssumption
    <2>5. CASE \E o \in opening : Open(o)
      BY <2>5, OpenInv
    <2>. QED
      BY <1>2, <2>1, <2>2, <2>3, <2>4, <2>5 DEF Wires
  <1>3. CASE Rooms
    <2>1. PICK s \in Sessions :
            \/ AskApproval(s) \/ AbortRun(s) \/ Aborted(s) \/ TimedOut(s)
            \/ \E c \in Clients :
                 Raise(s, c) \/ Detach(s, c) \/ Attach(s, c) \/ Create(s, c) \/ Joined(s, c)
      BY <1>3 DEF Rooms
    <2>2. CASE AskApproval(s)
      BY <2>2, AskApprovalInv
    <2>3. CASE AbortRun(s) \/ Aborted(s) \/ TimedOut(s)
      BY <2>3, EndedInv
    <2>4. CASE \E c \in Clients : Raise(s, c) \/ Detach(s, c)
      BY <2>4, RaiseInv, DetachInv
    <2>5. CASE \E c \in Clients : Attach(s, c) \/ Create(s, c) \/ Joined(s, c)
      BY <2>5, JoinedInv
    <2>. QED
      BY <2>1, <2>2, <2>3, <2>4, <2>5
  <1>4. CASE Stop
    BY <1>4, StopInv
  <1>5. CASE \E i \in DOMAIN requests : GraceOver(i)
    BY <1>5, GraceOverInv
  <1>6. CASE \E a \in DOMAIN approvals : PublishApproval(a)
    BY <1>6, PublishApprovalInv
  <1>7. CASE UNCHANGED vars
    BY <1>7, StutterInv
  <1>. QED
    BY <1>1, <1>2, <1>3, <1>4, <1>5, <1>6, <1>7 DEF Next

LEMMA InvariantHolds == Spec => []IInv
  BY InitInv, NextInv, PTL DEF Spec

(* The tables of the hub, its sockets and subscriptions keep their types. *)
THEOREM TypesHold == Spec => []TypeOK
  <1>1. IInv => TypeOK
    BY DEF IInv
  <1>. QED
    BY <1>1, InvariantHolds, PTL

(* A request that was delivered or is held has a socket whose close cancels it,
   or a grace timer that is running: sockets may be lost, replaced and closed
   late, clients leave and return, in any order. *)
THEOREM WaitsEnd == Spec => []EveryWaitEnds
  <1>1. IInv => EveryWaitEnds
    <2>. SUFFICES ASSUME IInv, NEW i \in DOMAIN requests, Waiting(i), ~Stray(i)
                  PROVE  IF requests[i].way = "held" THEN requests[i].timer = "set"
                         ELSE \E k \in requests[i].sent :
                                /\ Of(k) = requests[i].client
                                /\ sockets[k].at # "closed"
                                /\ sockets[k].role = "registered"
      BY DEF EveryWaitEnds
    <2>1. requests[i] \in Request
      BY SeqDomain DEF IInv, TypeOK
    <2>2. CASE requests[i].way = "held"
      BY <2>2 DEF IInv, HeldTimed
    <2>3. CASE requests[i].way # "held"
      <3>1. requests[i].way = "late" => requests[i].sent # {}
        BY DEF IInv, HandedOverOnce
      <3>2. PICK k \in requests[i].sent : TRUE
        BY <2>1, <2>3, <3>1 DEF Stray, Request
      <3>. QED
        BY <2>3, <3>2 DEF IInv, SentStands
    <2>. QED
      BY <2>2, <2>3
  <1>. QED
    BY <1>1, InvariantHolds, PTL

(* Nothing is asked of a client that has left the session, though it stays
   connected. *)
THEOREM DetachedAreLeftAlone == Spec => []NothingAskedOfDetached
  <1>1. IInv => NothingAskedOfDetached
    BY DEF IInv
  <1>. QED
    BY <1>1, InvariantHolds, PTL

(* What was held for an owner is handed over by its first subscription: no
   request stays behind with the owner registered and listening. *)
THEOREM HeldIsHandedOver == Spec => []HeldMeansAway
  <1>1. IInv => HeldMeansAway
    BY DEF IInv
  <1>. QED
    BY <1>1, InvariantHolds, PTL

(* A request that was held goes out on one socket only. *)
THEOREM HandedOverHolds == Spec => []HandedOverOnce
  <1>1. IInv => HandedOverOnce
    BY DEF IInv
  <1>. QED
    BY <1>1, InvariantHolds, PTL

(* Whoever listens to a session has been shown every approval that waits in
   it, those raised between its subscription and the microtask included. *)
THEOREM ApprovalsAreShown == Spec => []ApprovalsReachListeners
  <1>1. IInv => ApprovalsReachListeners
    BY DEF IInv, ApprovalsShown, ApprovalsReachListeners, Listens
  <1>. QED
    BY <1>1, InvariantHolds, PTL

=============================================================================
