--------------------------- MODULE DashboardServer ---------------------------
(***************************************************************************)
(* src/dashboard_server.cpp: the WebSocket side of the dashboard.          *)
(*                                                                         *)
(* One HTTP server task owns the session table, runs the URI handlers and  *)
(* executes queued work items one after the other.  Any other task may     *)
(* only append a broadcast to the work queue.  A session whose send or     *)
(* receive fails is closed in two steps: its descriptor is put in a        *)
(* fixed-size quarantine at once, and a close item is queued that removes  *)
(* the session later.  Descriptors are small integers that the network     *)
(* stack reuses, so markers and queued items can outlive the session they  *)
(* were made for.                                                          *)
(*                                                                         *)
(* The ESP-IDF HTTP server itself (session table, accept, LRU purge, the   *)
(* work queue) is external: it is modelled from the calls dashboard_server *)
(* makes to it.                                                            *)
(***************************************************************************)
EXTENDS Naturals, Sequences, FiniteSets

CONSTANTS
  Fds,        \* descriptors the network stack can give to a client session
  NoFd,       \* an empty entry of the session table (-1 in the code)
  MaxSockets, \* MAX_HTTPD_CLIENT_SOCKETS: session entries, quarantine entries
  MaxClients, \* CONFIG_DASHBOARD_MAX_CLIENTS: recipients of one broadcast
  QueueCap    \* work items the server's control channel holds

ASSUME ServerAssumptions ==
  /\ IsFiniteSet(Fds)
  /\ NoFd \notin Fds
  /\ MaxSockets \in Nat \ {0}
  /\ MaxClients \in Nat \ {0}
  /\ QueueCap \in Nat \ {0}

VARIABLES
  slot,        \* the session table: the descriptor in each entry
  upgraded,    \* descriptors whose session completed the WebSocket upgrade
  closingFds,  \* s_closing_fds: the quarantined descriptors
  workQueue,   \* work items accepted by httpd_queue_work, oldest first
  job,         \* progress of broadcast_work_fn through the client list
  asked,       \* history: sessions that requested their initialization
  initialised, \* history: sessions an initialization was sent to
  givenUp      \* history: sessions close_session was called on, since upgrade

sessions == <<slot, upgraded>>
history == <<asked, initialised, givenUp>>
vars == <<slot, upgraded, closingFds, workQueue, job,
          asked, initialised, givenUp>>

Slots == 1 .. MaxSockets

WorkItem == [type : {"broadcast"}, fd : {NoFd}]
              \cup [type : {"init", "close"}, fd : Fds]

Job == [pos : 0 .. MaxSockets + 1, clients : Nat,
        targets : SUBSET Fds, served : SUBSET Fds]

Work(t, f) == [type |-> t, fd |-> f]

\* The descriptors with a session.
Open == {slot[i] : i \in Slots} \ {NoFd}

\* job.targets and job.served are history: the clients the broadcast should
\* reach when it starts, and the clients it has sent its frame to.
NoJob == [pos |-> 0, clients |-> 0, targets |-> {}, served |-> {}]

\* The server task is between two work items, free to run a handler.
Idle == job.pos = 0

-----------------------------------------------------------------------------
(* The helpers of dashboard_server.cpp and the two calls that queue work.  *)

\* Mutated form: the quarantine is searched one entry short.
MarkSessionClosingShort(q, f) ==
  IF f \in q \/ Cardinality(q) + 1 >= MaxSockets THEN q ELSE q \cup {f}

\* A full quarantine only logs a warning; the descriptor stays unmarked.
MarkSessionClosing(q, f) ==
  IF f \in q \/ Cardinality(q) >= MaxSockets THEN q ELSE q \cup {f}

\* Mutated form: the marker survives the upgrade.
ClearClosingSessionForgotten(q, f) == q

ClearClosingSession(q, f) == q \ {f}

\* External: the item is refused when the control channel is full.
HttpdQueueWork(q, w) == IF Len(q) < QueueCap THEN Append(q, w) ELSE q

\* External: a descriptor without a session is ESP_ERR_NOT_FOUND.
SessTriggerClose(q, f) ==
  IF f \in Open THEN HttpdQueueWork(q, Work("close", f)) ELSE q

\* close_session(handle, f), called with the queue in state q: whatever
\* httpd_sess_trigger_close answers, the descriptor is quarantined.
CloseSession(q, f) ==
  /\ closingFds' = MarkSessionClosing(closingFds, f)
  /\ workQueue' = SessTriggerClose(q, f)

\* External: httpd_sess_delete frees the table entry of f.
DropSession(f) ==
  /\ slot' = [i \in Slots |-> IF slot[i] = f THEN NoFd ELSE slot[i]]
  /\ upgraded' = upgraded \ {f}
  /\ asked' = asked \ {f}
  /\ initialised' = initialised \ {f}
  /\ givenUp' = givenUp \ {f}

-----------------------------------------------------------------------------
Init ==
  /\ slot = [i \in Slots |-> NoFd]
  /\ upgraded = {}
  /\ closingFds = {}
  /\ workQueue = <<>>
  /\ job = NoJob
  /\ asked = {}
  /\ initialised = {}
  /\ givenUp = {}

-----------------------------------------------------------------------------
(* The application's tasks: server_broadcast from loop(), update*Card and  *)
(* log*.  A refused item is freed and forgotten, which changes nothing.    *)

Broadcast ==
  /\ workQueue' = HttpdQueueWork(workQueue, Work("broadcast", NoFd))
  /\ workQueue' # workQueue
  /\ UNCHANGED <<sessions, closingFds, job, history>>

-----------------------------------------------------------------------------
(* The server task between work items: connections and handlers.           *)

\* External: a new connection takes a free entry and an unused descriptor.
Accept(i, f) ==
  /\ Idle
  /\ slot[i] = NoFd
  /\ f \notin Open
  /\ slot' = [slot EXCEPT ![i] = f]
  /\ UNCHANGED <<upgraded, closingFds, workQueue, job, history>>

\* External, enabled by lru_purge_enable: a connection finds the table full,
\* and the close of some session is queued.
LruPurge(f) ==
  /\ Idle
  /\ \A i \in Slots : slot[i] # NoFd
  /\ f \in Open
  /\ \A k \in 1 .. Len(workQueue) : workQueue[k] # Work("close", f)
  /\ Len(workQueue) < QueueCap
  /\ workQueue' = HttpdQueueWork(workQueue, Work("close", f))
  /\ UNCHANGED <<sessions, closingFds, job, history>>

\* ws_handler with HTTP_GET: nothing is refused, whatever the number of
\* WebSocket clients.
Upgrade(f) ==
  /\ Idle
  /\ f \in Open \ upgraded
  /\ upgraded' = upgraded \cup {f}
  /\ closingFds' = ClearClosingSession(closingFds, f)
  /\ givenUp' = givenUp \ {f}
  /\ UNCHANGED <<slot, workQueue, job, asked, initialised>>

\* ws_handler with an "init" message, which the page sends once per socket:
\* the answer is queued by descriptor.  It is lost when the queue is full or
\* an allocation fails.
ReceiveInit(f) ==
  /\ Idle
  /\ f \in upgraded \ asked
  /\ asked' = asked \cup {f}
  /\ \/ workQueue' = HttpdQueueWork(workQueue, Work("init", f))
     \/ UNCHANGED workQueue
  /\ UNCHANGED <<sessions, closingFds, job, initialised, givenUp>>

\* ws_handler with a frame it cannot read or that is too long: the session is
\* closed, and the error the handler returns makes the server delete it at
\* once, so that the queued close outlives it.
ReceiveFails(f) ==
  /\ Idle
  /\ f \in upgraded
  /\ CloseSession(workQueue, f)
  /\ DropSession(f)
  /\ UNCHANGED job

\* External: the peer closes the connection, or a handler returns an error
\* without close_session (no memory for the frame).
PeerCloses(f) ==
  /\ Idle
  /\ f \in Open
  /\ DropSession(f)
  /\ UNCHANGED <<closingFds, workQueue, job>>
-----------------------------------------------------------------------------
(* The server task takes the next work item.                               *)

Head1 == Head(workQueue)
Rest == Tail(workQueue)

\* Mutated form: a failed send is only logged.
RunInitLogged ==
  /\ Idle /\ workQueue # <<>> /\ Head1.type = "init"
  /\ workQueue' = Rest
  /\ initialised' \in {initialised, initialised \cup ({Head1.fd} \cap Open)}
  /\ UNCHANGED <<sessions, closingFds, givenUp, job, asked>>

\* send_to_fd_work_fn: a frame to whatever session holds the descriptor now,
\* quarantined or not.  Without a session the send fails.
RunInit ==
  /\ Idle /\ workQueue # <<>> /\ Head1.type = "init"
  /\ \/ /\ Head1.fd \in Open
        /\ initialised' = initialised \cup {Head1.fd}
        /\ workQueue' = Rest
        /\ UNCHANGED <<closingFds, givenUp>>
     \/ /\ CloseSession(Rest, Head1.fd)
        /\ givenUp' = givenUp \cup ({Head1.fd} \cap Open)
        /\ UNCHANGED initialised
  /\ UNCHANGED <<sessions, job, asked>>

\* External: the queued half of httpd_sess_trigger_close, on whatever session
\* holds the descriptor now.
RunClose ==
  /\ Idle /\ workQueue # <<>> /\ Head1.type = "close"
  /\ workQueue' = Rest
  /\ DropSession(Head1.fd)
  /\ UNCHANGED <<closingFds, job>>

\* broadcast_work_fn starts: the client list is read once.  Only this task
\* changes the session table, so the list stays correct for the whole job.
BroadcastStart ==
  /\ Idle /\ workQueue # <<>> /\ Head1.type = "broadcast"
  /\ workQueue' = Rest
  /\ job' = [pos |-> 1, clients |-> 0, targets |-> upgraded \ closingFds,
             served |-> {}]
  /\ UNCHANGED <<sessions, closingFds, history>>

-----------------------------------------------------------------------------
(* broadcast_work_fn, one client of the list at a time.                    *)

\* Mutated form: the quarantine is not consulted.
EligibleClosing(f) == f \in upgraded

\* Mutated form: httpd_ws_get_fd_info is not asked.
EligibleAny(f) == f \notin closingFds

\* A live WebSocket session that is not about to be closed.
Eligible(f) == f \notin closingFds /\ f \in upgraded

\* Mutated forms: the limit is compared after the increment, or not strictly.
WithinLimitEarly(n) == n + 1 < MaxClients
WithinLimitLate(n) == n <= MaxClients

\* websocket_clients++ < CONFIG_DASHBOARD_MAX_CLIENTS
WithinLimit(n) == n < MaxClients

AtClient == job.pos \in Slots

Client == slot[job.pos]

\* The loop moves on, having counted c clients and sent the frame to s.
NextClient(c, s) ==
  job' = [job EXCEPT !.pos = @ + 1, !.clients = c, !.served = s]

\* An HTTP session, a quarantined one, or an empty entry, which the client
\* list leaves out.
SkipClient ==
  /\ AtClient
  /\ ~Eligible(Client)
  /\ NextClient(job.clients, job.served)
  /\ UNCHANGED <<sessions, closingFds, workQueue, history>>

OverLimit ==
  /\ AtClient
  /\ Eligible(Client)
  /\ ~WithinLimit(job.clients)
  /\ NextClient(job.clients + 1, job.served)
  /\ UNCHANGED <<sessions, closingFds, workQueue, history>>

SendToClient ==
  /\ AtClient
  /\ Eligible(Client)
  /\ WithinLimit(job.clients)
  /\ NextClient(job.clients + 1, job.served \cup {Client})
  /\ UNCHANGED <<sessions, closingFds, workQueue, history>>

SendFails ==
  /\ AtClient
  /\ Eligible(Client)
  /\ WithinLimit(job.clients)
  /\ CloseSession(workQueue, Client)
  /\ givenUp' = givenUp \cup {Client}
  /\ NextClient(job.clients + 1, job.served)
  /\ UNCHANGED <<sessions, asked, initialised>>

BroadcastEnd ==
  /\ job.pos = MaxSockets + 1
  /\ job' = NoJob
  /\ UNCHANGED <<sessions, closingFds, workQueue, history>>

-----------------------------------------------------------------------------
\* The dashboard is destroyed and another one begins: server_stop drains the
\* queue and deletes every session, but s_closing_fds is static.
Restart ==
  /\ Idle /\ workQueue = <<>> /\ Open # {}
  /\ slot' = [i \in Slots |-> NoFd]
  /\ upgraded' = {}
  /\ asked' = {}
  /\ initialised' = {}
  /\ givenUp' = {}
  /\ UNCHANGED <<closingFds, workQueue, job>>

\* What the server task does on its own: work items, one step at a time.
HttpdWork ==
  \/ RunInit
  \/ RunClose
  \/ BroadcastStart
  \/ SkipClient
  \/ OverLimit
  \/ SendToClient
  \/ SendFails
  \/ BroadcastEnd

\* What the peers do to it.
Peer(f) ==
  \/ \E i \in Slots : Accept(i, f)
  \/ LruPurge(f)
  \/ Upgrade(f)
  \/ ReceiveInit(f)
  \/ ReceiveFails(f)
  \/ PeerCloses(f)

Next ==
  \/ HttpdWork
  \/ \E f \in Fds : Peer(f)
  \/ Broadcast
  \/ Restart

Spec == Init /\ [][Next]_vars

\* The server loop takes one work item in every round, whatever the sockets
\* do.  Nothing is assumed of the peers or of the application.
FairSpec == Spec /\ WF_vars(HttpdWork)

-----------------------------------------------------------------------------
(* Properties.                                                             *)

\* The type of every variable; a session occupies one entry of the table and
\* is upgraded only while it is there.
TypeOK ==
  /\ slot \in [Slots -> Fds \cup {NoFd}]
  /\ upgraded \subseteq Open
  /\ closingFds \subseteq Fds
  /\ workQueue \in Seq(WorkItem) /\ Len(workQueue) <= QueueCap
  /\ job \in Job
  /\ asked \subseteq Open /\ initialised \subseteq Open
  /\ givenUp \subseteq Open

\* A quarantined WebSocket client is one whose own session was given up: the
\* marker of an earlier session with the same descriptor never silences its
\* replacement (clear_closing_session in ws_handler).
QuarantineOnlyGivenUp == \A f \in upgraded \cap closingFds : f \in givenUp

\* A WebSocket client whose session was given up is quarantined until the
\* session is gone (mark_session_closing): no later broadcast waits for it.
\* README.md: such sessions "are quarantined immediately".  This needs as many
\* quarantine entries as there are descriptors, since the markers of closed
\* descriptors stay until the descriptor is upgraded again.
QuarantineCoversGivenUp == upgraded \cap givenUp \subseteq closingFds

\* When broadcast_work_fn ends, every client that was live when it began has
\* been sent the frame or been given up, provided there were no more than
\* MaxClients of them: sessions that are HTTP, empty or about to be closed
\* take nobody's place.
BroadcastReachesClients ==
  job.pos = MaxSockets + 1 /\ Cardinality(job.targets) <= MaxClients
    => job.targets \subseteq job.served \cup givenUp

\* One broadcast is never sent to more than MaxClients clients, and never to
\* one that was not a live client when it began.
BroadcastBounded ==
  /\ job.served \subseteq job.targets
  /\ Cardinality(job.served) <= MaxClients

BroadcastQueued ==
  \E k \in 1 .. Len(workQueue) : workQueue[k].type = "broadcast"

\* A broadcast accepted by the queue gets to every client that stays connected
\* and healthy, as long as the clients are no more than MaxClients.
HealthyClientHears ==
  \A f \in Fds :
    (f \in upgraded /\ BroadcastQueued)
      ~> \/ f \in job.served
         \/ f \notin upgraded
         \/ f \in closingFds
         \/ Cardinality(upgraded) > MaxClients

InitQueued(f) == \E k \in 1 .. Len(workQueue) : workQueue[k] = Work("init", f)

\* A page asks for its initialization once and shows nothing without it: one
\* that the queue has accepted is sent, whatever is broadcast meanwhile, or the
\* page's session ends or is given up, which is what makes a page ask again
\* (server_send_to_fd_async, send_to_fd_work_fn).
QueuedInitAnswered ==
  \A f \in Fds :
    (f \in upgraded /\ InitQueued(f))
      ~> \/ f \in initialised
         \/ f \notin upgraded
         \/ f \in closingFds

-----------------------------------------------------------------------------
(* What the documentation says and the code does not do.                   *)

\* README.md: the browser's explicit init request triggers the initialization
\* response "for that client".  The response is addressed by descriptor and
\* may find another client's session there.
InitOnlyToRequester == initialised \subseteq asked
=============================================================================
