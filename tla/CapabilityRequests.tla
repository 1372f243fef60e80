-------------------------- MODULE CapabilityRequests --------------------------
(***************************************************************************)
(* What a session of the hub asks of people's clients.  A capability (a    *)
(* hook, a client tool) is asked of the one client that owns it; an        *)
(* approval of whoever answers first.  A client reaches the hub over a     *)
(* websocket, registers, subscribes to sessions, and comes back on a new   *)
(* one when it lost the old; the hub may notice the loss much later.  The  *)
(* code between two awaits is one step.                                    *)
(***************************************************************************)
EXTENDS Naturals, Sequences, FiniteSets

CONSTANTS
  Clients, Sessions,
  Logged,        \* the hub keeps an event log, from which subscribers catch up
  MaxSockets, MaxRequests, MaxApprovals,  \* bounds: what may ever be opened
  MaxUpsets      \* bound: losses, visits, departures, aborts, stops

ASSUME LoggedAssumption == Logged \in BOOLEAN

VARIABLES
  sockets,    \* every websocket so far
  clients,    \* ctx.clients
  listeners,  \* the entries of transport.listeners: a socket and a session
  opening,    \* subscriptions whose microtask has not run yet
  detached,   \* detachedClientsBySession
  joining,    \* session and client of commands that still read the session
  requests,   \* every capability request so far
  approvals,  \* every approval so far
  aborting,   \* sessions whose run.abort awaits the abort
  upsets

vars == <<sockets, clients, listeners, opening, detached, joining, requests,
          approvals, aborting, upsets>>
wires == <<sockets, clients, listeners, opening>>
rooms == <<detached, joining, aborting>>

\* "lost": the client has given the socket up and the hub has not noticed.
\* role is what the socket's registeredClientIds and authority say.
Socket ==
  [client: Clients, at: {"open", "lost", "closed"},
   role: {"new", "registered", "left"}, streams: SUBSET Sessions]

\* at: in pendingCapabilityRequests ("waiting") or how the promise was settled.
\* way: published when raised, held back (undeliveredEvent), or handed over
\* after that.  sent, got: sockets it went out on, and those that were open.
Request ==
  [session: Sessions, client: Clients,
   at: {"waiting", "answered", "cancelled", "gone"},
   way: {"live", "held", "late"}, timer: {"none", "set", "over"},
   sent: SUBSET Nat, got: SUBSET Nat]

\* "asked": requestToolApproval still reads the session.
Approval ==
  [session: Sessions, at: {"asked", "waiting", "answered", "denied"},
   shown: SUBSET Nat]

Opening == [socket: Nat, session: Sessions, shows: SUBSET Nat]

TypeOK ==
  /\ sockets \in Seq(Socket)
  /\ clients \subseteq Clients
  /\ listeners \subseteq (DOMAIN sockets) \X Sessions
  /\ opening \subseteq Opening
  /\ detached \subseteq Sessions \X Clients
  /\ joining \subseteq Sessions \X Clients
  /\ requests \in Seq(Request)
  /\ approvals \in Seq(Approval)
  /\ aborting \subseteq Sessions
  /\ upsets \in Nat

Init ==
  /\ sockets = <<>> /\ clients = {} /\ listeners = {} /\ opening = {}
  /\ detached = {} /\ joining = {} /\ aborting = {}
  /\ requests = <<>> /\ approvals = <<>>
  /\ upsets = 0

Upset ==
  /\ upsets < MaxUpsets
  /\ upsets' = upsets + 1

-----------------------------------------------------------------------------
(* Requests and approvals, as the handlers change them *)

IsOpen(k) == sockets[k].at = "open"
Waiting(i) == requests[i].at = "waiting"
Of(k) == sockets[k].client

\* cancelPendingCapabilityRequests, with its filter as a set of requests.
Settled(table, chosen, outcome) ==
  [i \in DOMAIN table |->
     IF i \in chosen /\ table[i].at = "waiting"
     THEN [table[i] EXCEPT !.at = outcome] ELSE table[i]]

AskedOf(c) == {i \in DOMAIN requests : requests[i].client = c}
RaisedBy(s) == {i \in DOMAIN requests : requests[i].session = s}
ApprovalsOf(s) == {a \in DOMAIN approvals : approvals[a].session = s}

\* A request goes out on socket k.
SentOn(r, k, way) ==
  [r EXCEPT !.way = way, !.sent = @ \cup {k},
            !.got = IF IsOpen(k) THEN @ \cup {k} ELSE @]

\* Where publish finds client c listening to session s.
Ears(s, c) == {k \in DOMAIN sockets : Of(k) = c /\ <<k, s>> \in listeners}

\* requestCapability: the request of a client that left fails at once.  One
\* that is not connected has the grace period to come back.
NewRequest(s, c) ==
  IF c \in clients
  THEN [session |-> s, client |-> c, at |-> "waiting", way |-> "live",
        timer |-> "none", sent |-> Ears(s, c),
        got |-> {k \in Ears(s, c) : IsOpen(k)}]
  ELSE [session |-> s, client |-> c, at |-> "waiting", way |-> "held",
        timer |-> "set", sent |-> {}, got |-> {}]

Raise(s, c) ==
  /\ Len(requests) < MaxRequests
  /\ <<s, c>> \notin detached
  /\ requests' = Append(requests, NewRequest(s, c))
  /\ UNCHANGED <<wires, rooms, approvals, upsets>>

\* Deviation: a request whose owner stays away counts as refused.
DenyOver(i) ==
  /\ requests[i].timer = "set" /\ opening = {}
  /\ requests' = [requests EXCEPT ![i].timer = "over", ![i].at = "denied"]
  /\ UNCHANGED <<wires, rooms, approvals, upsets>>

\* The grace timer, after every microtask; it runs out also when the request
\* was handed over since.
GraceOver(i) ==
  /\ requests[i].timer = "set" /\ opening = {}
  /\ requests' =
       [requests EXCEPT ![i].timer = "over",
          ![i].at = IF @ = "waiting" /\ requests[i].way = "held"
                    THEN "gone" ELSE @]
  /\ UNCHANGED <<wires, rooms, approvals, upsets>>

\* handleCapabilityRespond, from the owner, over whatever socket it has now.
\* (A late answer is acknowledged and ignored, a foreign one refused.)
Respond(i) ==
  /\ Waiting(i) /\ requests[i].got # {}
  /\ \E k \in DOMAIN sockets : IsOpen(k) /\ Of(k) = requests[i].client
  /\ requests' = [requests EXCEPT ![i].at = "answered"]
  /\ UNCHANGED <<wires, rooms, approvals, upsets>>

\* requestToolApproval, before and after it has read the session.
AskApproval(s) ==
  /\ Len(approvals) < MaxApprovals
  /\ approvals' =
       Append(approvals, [session |-> s, at |-> "asked", shown |-> {}])
  /\ UNCHANGED <<wires, rooms, requests, upsets>>

PublishApproval(a) ==
  /\ approvals[a].at = "asked"
  /\ approvals' =
       [approvals EXCEPT ![a].at = "waiting",
          ![a].shown = {k \in DOMAIN sockets :
                          <<k, approvals[a].session>> \in listeners}]
  /\ UNCHANGED <<wires, rooms, requests, upsets>>

\* handleApprovalRespond, from any client that was shown the approval.
AnswerApproval(a) ==
  /\ approvals[a].at = "waiting"
  /\ \E k \in DOMAIN sockets, j \in approvals[a].shown :
       IsOpen(k) /\ Of(k) = Of(j)
  /\ approvals' = [approvals EXCEPT ![a].at = "answered"]
  /\ UNCHANGED <<wires, rooms, requests, upsets>>

-----------------------------------------------------------------------------
(* Connections *)

\* A client opens a socket when it has none.
Connect(c) ==
  /\ Len(sockets) < MaxSockets
  /\ \A k \in DOMAIN sockets : Of(k) = c => ~IsOpen(k)
  /\ sockets' = Append(sockets, [client |-> c, at |-> "open", role |-> "new",
                                 streams |-> {}])
  /\ UNCHANGED <<clients, listeners, opening, rooms, requests, approvals, upsets>>

\* client.register, the first command on a socket.
Register(k) ==
  /\ IsOpen(k) /\ sockets[k].role = "new"
  /\ clients' = clients \cup {Of(k)}
  /\ sockets' = [sockets EXCEPT ![k].role = "registered"]
  /\ UNCHANGED <<listeners, opening, rooms, requests, approvals, upsets>>

\* What the log still has for a client that gives its cursor: what was
\* published to the session and did not reach it.
Missed(k, s) ==
  {i \in AskedOf(Of(k)) \cap RaisedBy(s) :
     requests[i].way = "live" /\ requests[i].got = {}}

\* Deviation: only approvals nobody has seen are sent again.
SubscribeUnseen(k, s, replay) ==
  /\ IsOpen(k) /\ sockets[k].role = "registered"
  /\ s \notin sockets[k].streams
  /\ sockets' = [sockets EXCEPT ![k].streams = @ \cup {s}]
  /\ listeners' = listeners \cup {<<k, s>>}
  /\ opening' = opening \cup
       {[socket |-> k, session |-> s,
         shows |-> {a \in ApprovalsOf(s) : approvals[a].at = "waiting"
                                           /\ approvals[a].shown = {}}]}
  /\ UNCHANGED <<clients, rooms, requests, approvals, upsets>>

\* stream.subscribe and the first page of the replay, if there is one.  The
\* pending approvals are listed now and sent by the microtask.
Subscribe(k, s, replay) ==
  /\ IsOpen(k) /\ sockets[k].role = "registered"
  /\ s \notin sockets[k].streams
  /\ sockets' = [sockets EXCEPT ![k].streams = @ \cup {s}]
  /\ listeners' = listeners \cup {<<k, s>>}
  /\ opening' = opening \cup
       {[socket |-> k, session |-> s,
         shows |-> {a \in ApprovalsOf(s) : approvals[a].at = "waiting"}]}
  /\ requests' =
       [i \in DOMAIN requests |->
          IF replay /\ i \in Missed(k, s) THEN SentOn(requests[i], k, "live")
          ELSE requests[i]]
  /\ UNCHANGED <<clients, rooms, approvals, upsets>>

\* takeUndeliveredCapabilityEvents
Undelivered(k, s) ==
  {i \in AskedOf(Of(k)) \cap RaisedBy(s) :
     Waiting(i) /\ requests[i].way = "held"}

\* Deviation: only approvals are delivered.
OpenApprovals(o) ==
  /\ o \in opening
  /\ opening' = opening \ {o}
  /\ approvals' =
       [a \in DOMAIN approvals |->
          IF a \in o.shows /\ <<o.socket, o.session>> \in listeners
          THEN [approvals[a] EXCEPT !.shown = @ \cup {o.socket}]
          ELSE approvals[a]]
  /\ UNCHANGED <<sockets, clients, listeners, rooms, requests, upsets>>

\* The microtask of subscribe: nothing for a listener that was removed.
Open(o) ==
  /\ o \in opening
  /\ opening' = opening \ {o}
  /\ IF <<o.socket, o.session>> \in listeners
     THEN /\ requests' =
               [i \in DOMAIN requests |->
                  IF i \in Undelivered(o.socket, o.session)
                  THEN SentOn(requests[i], o.socket, "late")
                  ELSE requests[i]]
          /\ approvals' =
               [a \in DOMAIN approvals |->
                  IF a \in o.shows
                  THEN [approvals[a] EXCEPT !.shown = @ \cup {o.socket}]
                  ELSE approvals[a]]
     ELSE UNCHANGED <<requests, approvals>>
  /\ UNCHANGED <<sockets, clients, listeners, rooms, upsets>>

\* The microtask of a subscription comes before the close of its socket; an
\* unsubscription before it finds nothing to end.
Idle(k) == \A o \in opening : o.socket # k

\* stream.unsubscribe
Unsubscribe(k, s) ==
  /\ IsOpen(k) /\ Idle(k) /\ s \in sockets[k].streams
  /\ sockets' = [sockets EXCEPT ![k].streams = @ \ {s}]
  /\ listeners' = listeners \ {<<k, s>>}
  /\ UNCHANGED <<clients, opening, rooms, requests, approvals, upsets>>

\* Deviation: the requests of the client stay.
UnregisteredOnly(c) ==
  /\ clients' = clients \ {c}
  /\ listeners' = {l \in listeners : Of(l[1]) # c}
  /\ UNCHANGED requests

\* client.unregister: by id, whichever socket says so.
Unregistered(c) ==
  /\ clients' = clients \ {c}
  /\ listeners' = {l \in listeners : Of(l[1]) # c}
  /\ requests' = Settled(requests, AskedOf(c), "gone")

\* The client drops the socket, or the network does; the hub does not know.
Lose(k) ==
  /\ Upset
  /\ IsOpen(k)
  /\ sockets' = [sockets EXCEPT ![k].at = "lost"]
  /\ UNCHANGED <<clients, listeners, opening, rooms, requests, approvals>>

\* Deviation: only the subscriptions end.
CloseOnly(k) ==
  /\ sockets[k].at = "lost" /\ Idle(k)
  /\ sockets' = [sockets EXCEPT ![k].at = "closed"]
  /\ listeners' = {l \in listeners : l[1] # k}
  /\ UNCHANGED <<clients, opening, rooms, requests, approvals, upsets>>

\* onClose, once the hub notices: its subscriptions end, and the client it
\* registered is unregistered.
Close(k) ==
  /\ sockets[k].at = "lost" /\ Idle(k)
  /\ sockets' = [sockets EXCEPT ![k].at = "closed"]
  /\ IF sockets[k].role = "registered" THEN Unregistered(Of(k))
     ELSE /\ listeners' = {l \in listeners : l[1] # k}
          /\ UNCHANGED <<clients, requests>>
  /\ UNCHANGED <<opening, rooms, approvals, upsets>>

\* A client says goodbye (client.unregister) and then closes its socket.
Leave(k) ==
  /\ Upset
  /\ IsOpen(k) /\ sockets[k].role = "registered"
  /\ sockets' = [sockets EXCEPT ![k] = [@ EXCEPT !.at = "lost", !.role = "left"]]
  /\ Unregistered(Of(k))
  /\ UNCHANGED <<opening, rooms, approvals>>

-----------------------------------------------------------------------------
(* Sessions *)

Registered(c) ==
  \E k \in DOMAIN sockets :
    IsOpen(k) /\ Of(k) = c /\ sockets[k].role = "registered"

\* session.detach, up to its first await.
Detach(s, c) ==
  /\ Upset
  /\ Registered(c)
  /\ detached' = detached \cup {<<s, c>>}
  /\ requests' = Settled(requests, AskedOf(c) \cap RaisedBy(s), "gone")
  /\ UNCHANGED <<wires, joining, aborting, approvals>>

\* session.attach reads the session before it ensures the participant;
\* session.create and a restore make the client the owner at once as well.
Attach(s, c) ==
  /\ Upset
  /\ Registered(c) /\ <<s, c>> \notin joining
  /\ joining' = joining \cup {<<s, c>>}
  /\ UNCHANGED <<wires, detached, aborting, requests, approvals>>

Create(s, c) ==
  /\ Upset
  /\ Registered(c) /\ <<s, c>> \notin joining
  /\ joining' = joining \cup {<<s, c>>}
  /\ detached' = detached \ {<<s, c>>}
  /\ UNCHANGED <<wires, aborting, requests, approvals>>

\* ensureSessionParticipant, ensureSessionState
Joined(s, c) ==
  /\ <<s, c>> \in joining
  /\ joining' = joining \ {<<s, c>>}
  /\ detached' = detached \ {<<s, c>>}
  /\ UNCHANGED <<wires, aborting, requests, approvals, upsets>>

\* handleRunAbort cancels the approvals, awaits the abort, and cancels the
\* capability requests when that has returned or failed.
AbortRun(s) ==
  /\ Upset
  /\ aborting' = aborting \cup {s}
  /\ approvals' = Settled(approvals, ApprovalsOf(s), "denied")
  /\ UNCHANGED <<wires, detached, joining, requests>>

Aborted(s) ==
  /\ s \in aborting
  /\ aborting' = aborting \ {s}
  /\ requests' = Settled(requests, RaisedBy(s), "cancelled")
  /\ UNCHANGED <<wires, detached, joining, approvals, upsets>>

\* The run timeout cancels both at once.
TimedOut(s) ==
  /\ Upset
  /\ approvals' = Settled(approvals, ApprovalsOf(s), "denied")
  /\ requests' = Settled(requests, RaisedBy(s), "cancelled")
  /\ UNCHANGED <<wires, rooms>>

\* stop, before the sessions are disposed of.
Stop ==
  /\ Upset
  /\ approvals' = Settled(approvals, DOMAIN approvals, "denied")
  /\ requests' = Settled(requests, DOMAIN requests, "cancelled")
  /\ UNCHANGED <<wires, rooms>>

-----------------------------------------------------------------------------
Answers ==
  \/ \E i \in DOMAIN requests : Respond(i)
  \/ \E a \in DOMAIN approvals : AnswerApproval(a)

Wires ==
  \/ \E c \in Clients : Connect(c)
  \/ \E k \in DOMAIN sockets :
       \/ Register(k) \/ Lose(k) \/ Close(k) \/ Leave(k)
       \/ \E s \in Sessions :
            \/ Unsubscribe(k, s)
            \/ \E replay \in {FALSE, Logged} : Subscribe(k, s, replay)
  \/ \E o \in opening : Open(o)

Rooms ==
  \E s \in Sessions :
    \/ AskApproval(s) \/ AbortRun(s) \/ Aborted(s) \/ TimedOut(s)
    \/ \E c \in Clients :
         Raise(s, c) \/ Detach(s, c) \/ Attach(s, c) \/ Create(s, c) \/ Joined(s, c)

Next ==
  \/ Answers \/ Wires \/ Rooms \/ Stop
  \/ \E i \in DOMAIN requests : GraceOver(i)
  \/ \E a \in DOMAIN approvals : PublishApproval(a)

Spec == Init /\ [][Next]_vars

\* The event loop runs microtasks, and a due timer between two messages, when
\* no microtask is left, whatever the messages ask for; the hub notices lost
\* sockets in the end, and a client answers what reached it or loses its socket.
Fairness ==
  /\ \A i \in 1..MaxRequests :
       /\ SF_vars(i \in DOMAIN requests /\ GraceOver(i))
       /\ WF_vars(i \in DOMAIN requests /\ Respond(i))
  /\ \A k \in 1..MaxSockets :
       /\ WF_vars(k \in DOMAIN sockets /\ Close(k))
       /\ WF_vars(\E o \in opening : o.socket = k /\ Open(o))

FairSpec == Spec /\ Fairness

-----------------------------------------------------------------------------
(* Properties *)

\* Published to an owner that was registered and did not listen to the
\* session: nobody answers it, and no timer ends it.
Stray(i) == requests[i].way = "live" /\ requests[i].sent = {}

\* No request waits for ever: its grace timer is running, or it went out on a
\* socket that is not closed and whose end will cancel it.
EveryWaitEnds ==
  \A i \in DOMAIN requests :
    Waiting(i) /\ ~Stray(i) =>
      IF requests[i].way = "held" THEN requests[i].timer = "set"
      ELSE \E k \in requests[i].sent :
             /\ Of(k) = requests[i].client
             /\ sockets[k].at # "closed" /\ sockets[k].role = "registered"

\* Nothing is asked, or still being asked, of a client that left the session.
NothingAskedOfDetached ==
  \A i \in DOMAIN requests :
    Waiting(i) => <<requests[i].session, requests[i].client>> \notin detached

\* A listener whose microtask has run.
Listens(k, s) ==
  /\ <<k, s>> \in listeners
  /\ ~\E o \in opening : o.socket = k /\ o.session = s

\* No request is kept from an owner that is back and listens.
HeldMeansAway ==
  \A i \in DOMAIN requests :
    Waiting(i) /\ requests[i].way = "held" =>
      ~\E k \in DOMAIN sockets :
         /\ IsOpen(k) /\ Of(k) = requests[i].client
         /\ Of(k) \in clients
         /\ Listens(k, requests[i].session)

\* A request that waited for its owner is delivered once.
HandedOverOnce ==
  \A i \in DOMAIN requests :
    /\ requests[i].way = "held" => requests[i].sent = {}
    /\ requests[i].way = "late" => \E k \in DOMAIN sockets : requests[i].sent = {k}

\* Whoever listens to a session has been shown every approval it waits for.
ApprovalsReachListeners ==
  \A a \in DOMAIN approvals, k \in DOMAIN sockets :
    approvals[a].at = "waiting" /\ Listens(k, approvals[a].session) =>
      k \in approvals[a].shown

\* A request that somebody can answer or that a timer or a closing socket
\* ends does end.
RequestsEnd ==
  \A i \in 1..MaxRequests :
    (i \in DOMAIN requests /\ Waiting(i) /\ ~Stray(i)) ~>
      (i \in DOMAIN requests /\ ~Waiting(i))

\* c is connected and listens to s, as far as c can tell.
Attends(c, s) ==
  \E k \in DOMAIN sockets :
    /\ IsOpen(k) /\ Of(k) = c /\ sockets[k].role = "registered"
    /\ s \in sockets[k].streams

\* A request fails for the absence of its owner only if the owner was away or
\* goes, or has left the session.
GoneMeansGone ==
  [][\A i \in DOMAIN requests :
       Waiting(i) /\ requests'[i].at = "gone" =>
         \/ ~Attends(requests[i].client, requests[i].session)
         \/ ~Attends(requests[i].client, requests[i].session)'
         \/ <<requests[i].session, requests[i].client>> \in detached']_vars
=============================================================================
