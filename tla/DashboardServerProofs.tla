----------------------- MODULE DashboardServerProofs -----------------------
(***************************************************************************)
(* Proofs about DashboardServer, for every set of descriptors and every    *)
(* size of the table, the quarantine and the queue.                        *)
(***************************************************************************)
EXTENDS DashboardServer, FiniteSetTheorems, SequenceTheorems, TLAPS

-----------------------------------------------------------------------------
(* What the helpers return.                                                *)

\* httpd_queue_work keeps the queue a bounded sequence of work items.
LEMMA QueueWorkType ==
  ASSUME NEW q \in Seq(WorkItem), Len(q) <= QueueCap, NEW w \in WorkItem
  PROVE  /\ HttpdQueueWork(q, w) \in Seq(WorkItem)
         /\ Len(HttpdQueueWork(q, w)) <= QueueCap
  BY ServerAssumptions DEF HttpdQueueWork

\* httpd_sess_trigger_close does so too.
LEMMA TriggerCloseType ==
  ASSUME NEW q \in Seq(WorkItem), Len(q) <= QueueCap, NEW f \in Fds
  PROVE  /\ SessTriggerClose(q, f) \in Seq(WorkItem)
         /\ Len(SessTriggerClose(q, f)) <= QueueCap
<1>1. Work("close", f) \in WorkItem
  BY DEF Work, WorkItem
<1>2. QED
  BY <1>1, QueueWorkType DEF SessTriggerClose

\* Marking a descriptor adds it or nothing.
LEMMA MarkType ==
  ASSUME NEW q, NEW f
  PROVE  /\ q \subseteq MarkSessionClosing(q, f)
         /\ MarkSessionClosing(q, f) \subseteq q \cup {f}
  BY DEF MarkSessionClosing

\* With an entry for every descriptor, marking always succeeds.
LEMMA MarkSucceeds ==
  ASSUME Cardinality(Fds) <= MaxSockets,
         NEW q \in SUBSET Fds, NEW f \in Fds
  PROVE  f \in MarkSessionClosing(q, f)
<1>1. CASE f \in q
  BY <1>1 DEF MarkSessionClosing
<1>2. CASE f \notin q
  <2>1. IsFiniteSet(Fds) /\ Cardinality(Fds) \in Nat
    BY ServerAssumptions, FS_CardinalityType
  <2>2. IsFiniteSet(q) /\ Cardinality(q) \in Nat
    BY <2>1, FS_Subset, FS_CardinalityType
  <2>3. Cardinality(q) < Cardinality(Fds)
    <3>1. q \subseteq Fds /\ q # Fds
      BY <1>2
    <3>2. QED
      BY <2>1, <2>2, <3>1, FS_Subset
  <2>4. QED
    BY <2>1, <2>2, <2>3, ServerAssumptions DEF MarkSessionClosing
<1>3. QED
  BY <1>1, <1>2

\* close_session keeps the types of what it assigns.
LEMMA CloseSessionType ==
  ASSUME NEW q \in Seq(WorkItem), Len(q) <= QueueCap, NEW f \in Fds,
         closingFds \subseteq Fds, CloseSession(q, f)
  PROVE  /\ closingFds' \subseteq Fds
         /\ workQueue' \in Seq(WorkItem) /\ Len(workQueue') <= QueueCap
  BY MarkType, TriggerCloseType DEF CloseSession

\* The session table after its entry of f is freed.
LEMMA DropSessionOpen ==
  ASSUME slot \in [Slots -> Fds \cup {NoFd}], NEW f, DropSession(f)
  PROVE  /\ slot' \in [Slots -> Fds \cup {NoFd}]
         /\ Open' = Open \ {f}
  BY DEF DropSession, Open

\* What the server takes from the front of its queue.
LEMMA HeadType ==
  ASSUME workQueue \in Seq(WorkItem), Len(workQueue) <= QueueCap,
         workQueue # <<>>
  PROVE  /\ Head1 \in WorkItem
         /\ Rest \in Seq(WorkItem) /\ Len(Rest) <= QueueCap
<1>1. Len(Rest) = Len(workQueue) - 1 /\ Rest \in Seq(WorkItem)
  BY HeadTailProperties DEF Rest
<1>2. QED
  BY <1>1, HeadTailProperties, ServerAssumptions DEF Head1

\* The descriptor at the broadcast's position has a session if it is eligible.
LEMMA ClientType ==
  ASSUME slot \in [Slots -> Fds \cup {NoFd}], upgraded \subseteq Open,
         AtClient, Eligible(Client)
  PROVE  Client \in Open /\ Client \in Fds /\ Client \in upgraded
  BY DEF AtClient, Eligible, Client, Open

\* One step of the broadcast loop keeps the job's type.
LEMMA NextClientType ==
  ASSUME job \in Job, AtClient, NEW c \in Nat, NEW s \in SUBSET Fds,
         NextClient(c, s)
  PROVE  job' \in Job
<1>1. job.pos + 1 \in 0 .. MaxSockets + 1
  BY ServerAssumptions DEF AtClient, Slots, Job
<1>2. job' = [pos |-> job.pos + 1, clients |-> c,
              targets |-> job.targets, served |-> s]
  BY DEF NextClient, Job
<1>3. QED
  BY <1>1, <1>2 DEF Job

-----------------------------------------------------------------------------
(* Type correctness.                                                       *)

\* The types hold when the server starts.
LEMMA TypeInit == Init => TypeOK
<1> SUFFICES ASSUME Init PROVE TypeOK
  OBVIOUS
<1> USE ServerAssumptions DEF Init
<1>1. slot \in [Slots -> Fds \cup {NoFd}] /\ upgraded \subseteq Open
  OBVIOUS
<1>2. workQueue \in Seq(WorkItem) /\ Len(workQueue) <= QueueCap
  OBVIOUS
<1>3. job \in Job
  BY DEF NoJob, Job
<1>4. QED
  BY <1>1, <1>2, <1>3 DEF TypeOK

\* Every step keeps them.
LEMMA TypeNext == TypeOK /\ [Next]_vars => TypeOK'
<1> SUFFICES ASSUME TypeOK, [Next]_vars PROVE TypeOK'
  OBVIOUS
<1> USE ServerAssumptions
<1>0. NoFd \notin Open /\ Open \subseteq Fds
  BY DEF TypeOK, Open
<1>1. CASE RunInit
  <2>1. Head1 \in WorkItem /\ Rest \in Seq(WorkItem) /\ Len(Rest) <= QueueCap
    BY <1>1, HeadType DEF RunInit, TypeOK
  <2>2. CASE Head1.fd \in Open /\ workQueue' = Rest /\ UNCHANGED closingFds
    BY <1>1, <2>1, <2>2 DEF RunInit, TypeOK, sessions, Open
  <2>3. CASE CloseSession(Rest, Head1.fd)
    <3>1. Head1.fd \in Fds
      BY <1>1, <2>1 DEF RunInit, WorkItem
    <3>2. /\ closingFds' \subseteq Fds
          /\ workQueue' \in Seq(WorkItem) /\ Len(workQueue') <= QueueCap
      BY <2>1, <2>3, <3>1, CloseSessionType DEF TypeOK
    <3>3. UNCHANGED <<sessions, job, asked>>
      BY <1>1 DEF RunInit
    <3>4. initialised' \subseteq Open /\ givenUp' \subseteq Open
      BY <1>1 DEF RunInit, TypeOK
    <3>5. QED
      BY <3>2, <3>3, <3>4 DEF TypeOK, sessions, Open
  <2>4. QED
    BY <1>1, <2>2, <2>3 DEF RunInit
<1>2. CASE RunClose
  <2>1. Head1 \in WorkItem /\ Rest \in Seq(WorkItem) /\ Len(Rest) <= QueueCap
    BY <1>2, HeadType DEF RunClose, TypeOK
  <2>2. slot' \in [Slots -> Fds \cup {NoFd}] /\ Open' = Open \ {Head1.fd}
    BY <1>2, DropSessionOpen DEF RunClose, TypeOK
  <2>3. QED
    BY <1>2, <2>1, <2>2 DEF RunClose, DropSession, TypeOK
<1>3. CASE BroadcastStart
  <2>1. Rest \in Seq(WorkItem) /\ Len(Rest) <= QueueCap
    BY <1>3, HeadType DEF BroadcastStart, TypeOK
  <2>2. QED
    BY <1>0, <1>3, <2>1
       DEF BroadcastStart, TypeOK, Job, sessions, history, Open
<1>4. CASE SkipClient \/ OverLimit \/ SendToClient
  <2>1. job' \in Job
    BY <1>4, ClientType, NextClientType
       DEF SkipClient, OverLimit, SendToClient, TypeOK, Job
  <2>2. UNCHANGED <<sessions, closingFds, workQueue, history>>
    BY <1>4 DEF SkipClient, OverLimit, SendToClient
  <2>3. QED
    BY <2>1, <2>2 DEF TypeOK, sessions, history, Open
<1>5. CASE SendFails
  <2>1. Client \in Open /\ Client \in Fds
    BY <1>5, ClientType DEF SendFails, TypeOK
  <2>2. job' \in Job
    BY <1>5, NextClientType DEF SendFails, TypeOK, Job
  <2>3. /\ closingFds' \subseteq Fds
        /\ workQueue' \in Seq(WorkItem) /\ Len(workQueue') <= QueueCap
    BY <1>5, <2>1, CloseSessionType DEF SendFails, TypeOK
  <2>4. QED
    BY <1>5, <2>1, <2>2, <2>3 DEF SendFails, TypeOK, sessions, Open
<1>6. CASE BroadcastEnd
  BY <1>6 DEF BroadcastEnd, NoJob, Job, TypeOK, sessions, history, Open
<1>7. CASE Broadcast
  <2>1. Work("broadcast", NoFd) \in WorkItem
    BY DEF Work, WorkItem
  <2>2. QED
    BY <1>7, <2>1, QueueWorkType
       DEF Broadcast, TypeOK, sessions, history, Open
<1>8. CASE Restart
  BY <1>8 DEF Restart, TypeOK, Open
<1>9. ASSUME NEW f \in Fds, Peer(f) PROVE TypeOK'
  <2>1. ASSUME NEW i \in Slots, Accept(i, f) PROVE TypeOK'
    <3>1. slot' \in [Slots -> Fds \cup {NoFd}] /\ Open \subseteq Open'
      BY <2>1 DEF Accept, TypeOK, Open
    <3>2. QED
      BY <2>1, <3>1 DEF Accept, TypeOK, history
  <2>2. CASE LruPurge(f)
    <3>1. Work("close", f) \in WorkItem
      BY DEF Work, WorkItem
    <3>2. QED
      BY <2>2, <3>1, QueueWorkType
         DEF LruPurge, TypeOK, sessions, history, Open
  <2>3. CASE Upgrade(f)
    BY <2>3 DEF Upgrade, ClearClosingSession, TypeOK, Open
  <2>4. CASE ReceiveInit(f)
    <3>1. Work("init", f) \in WorkItem
      BY DEF Work, WorkItem
    <3>2. QED
      BY <2>4, <3>1, QueueWorkType DEF ReceiveInit, TypeOK, sessions, Open
  <2>5. CASE ReceiveFails(f)
    <3>1. /\ closingFds' \subseteq Fds
          /\ workQueue' \in Seq(WorkItem) /\ Len(workQueue') <= QueueCap
      BY <2>5, CloseSessionType DEF ReceiveFails, TypeOK
    <3>2. slot' \in [Slots -> Fds \cup {NoFd}] /\ Open' = Open \ {f}
      BY <2>5, DropSessionOpen DEF ReceiveFails, TypeOK
    <3>3. QED
      BY <2>5, <3>1, <3>2 DEF ReceiveFails, DropSession, TypeOK
  <2>6. CASE PeerCloses(f)
    <3>1. slot' \in [Slots -> Fds \cup {NoFd}] /\ Open' = Open \ {f}
      BY <2>6, DropSessionOpen DEF PeerCloses, TypeOK
    <3>2. QED
      BY <2>6, <3>1 DEF PeerCloses, DropSession, TypeOK
  <2>7. QED
    BY <1>9, <2>1, <2>2, <2>3, <2>4, <2>5, <2>6 DEF Peer
<1>10. CASE UNCHANGED vars
  BY <1>10 DEF vars, TypeOK, Open
<1>11. QED
  BY <1>1, <1>2, <1>3, <1>4, <1>5, <1>6, <1>7, <1>8, <1>9, <1>10
     DEF Next, HttpdWork

\* In every behaviour the variables keep their types: the table never holds
\* the session of a descriptor it does not list, and the queue its bound.
THEOREM TypeCorrect == Spec => []TypeOK
  BY TypeInit, TypeNext, PTL DEF Spec

-----------------------------------------------------------------------------
(* The quarantine.                                                         *)

\* The steps that touch neither the quarantine nor what it is about.
QuarantineUntouched == UNCHANGED <<upgraded, closingFds, givenUp>>

LEMMA QuarantineFrame ==
  ASSUME \/ BroadcastStart \/ SkipClient \/ OverLimit \/ SendToClient
         \/ BroadcastEnd \/ Broadcast
         \/ \E f \in Fds : \/ \E i \in Slots : Accept(i, f)
                          \/ LruPurge(f)
                          \/ ReceiveInit(f)
         \/ UNCHANGED vars
  PROVE  QuarantineUntouched
  BY DEF QuarantineUntouched, BroadcastStart, SkipClient, OverLimit,
         SendToClient, BroadcastEnd, Broadcast, Accept, LruPurge, ReceiveInit,
         vars, sessions, history

\* A step of the server gives up a session and quarantines its descriptor in
\* one step, or takes the session and its history away together.
LEMMA QuarantineOnlyNext ==
  TypeOK /\ QuarantineOnlyGivenUp /\ [Next]_vars => QuarantineOnlyGivenUp'
<1> SUFFICES ASSUME TypeOK, QuarantineOnlyGivenUp, [Next]_vars
             PROVE  QuarantineOnlyGivenUp'
  OBVIOUS
<1>1. CASE QuarantineUntouched
  BY <1>1 DEF QuarantineUntouched, QuarantineOnlyGivenUp
<1>2. CASE RunInit
  <2>1. CASE UNCHANGED <<closingFds, givenUp>>
    BY <1>2, <2>1 DEF RunInit, QuarantineOnlyGivenUp, sessions
  <2>2. CASE /\ CloseSession(Rest, Head1.fd)
             /\ givenUp' = givenUp \cup ({Head1.fd} \cap Open)
    <3>1. closingFds' \subseteq closingFds \cup {Head1.fd}
      BY <2>2, MarkType DEF CloseSession
    <3>2. upgraded' = upgraded /\ upgraded \subseteq Open
      BY <1>2 DEF RunInit, TypeOK, sessions
    <3>3. QED
      BY <2>2, <3>1, <3>2 DEF QuarantineOnlyGivenUp
  <2>3. QED
    BY <1>2, <2>1, <2>2 DEF RunInit
<1>3. CASE RunClose
  BY <1>3 DEF RunClose, DropSession, QuarantineOnlyGivenUp
<1>4. CASE SendFails
  <2>1. closingFds' \subseteq closingFds \cup {Client}
    BY <1>4, MarkType DEF SendFails, CloseSession
  <2>2. QED
    BY <1>4, <2>1 DEF SendFails, QuarantineOnlyGivenUp, sessions
<1>5. CASE Restart
  BY <1>5 DEF Restart, QuarantineOnlyGivenUp
<1>6. ASSUME NEW f \in Fds, Upgrade(f) PROVE QuarantineOnlyGivenUp'
  BY <1>6 DEF Upgrade, ClearClosingSession, QuarantineOnlyGivenUp
<1>7. ASSUME NEW f \in Fds, ReceiveFails(f) PROVE QuarantineOnlyGivenUp'
  <2>1. closingFds' \subseteq closingFds \cup {f}
    BY <1>7, MarkType DEF ReceiveFails, CloseSession
  <2>2. QED
    BY <1>7, <2>1 DEF ReceiveFails, DropSession, QuarantineOnlyGivenUp
<1>8. ASSUME NEW f \in Fds, PeerCloses(f) PROVE QuarantineOnlyGivenUp'
  BY <1>8 DEF PeerCloses, DropSession, QuarantineOnlyGivenUp
<1>9. QED
  BY <1>1, <1>2, <1>3, <1>4, <1>5, <1>6, <1>7, <1>8, QuarantineFrame
     DEF Next, HttpdWork, Peer

\* The marker of an earlier session never silences its replacement: a
\* WebSocket client in s_closing_fds is one close_session was called on.
THEOREM QuarantineSound == Spec => []QuarantineOnlyGivenUp
<1>1. Init => QuarantineOnlyGivenUp
  BY DEF Init, QuarantineOnlyGivenUp
<1>2. QED
  BY <1>1, QuarantineOnlyNext, TypeCorrect, PTL DEF Spec

\* With an entry for every descriptor, no step leaves a given-up client
\* outside the quarantine.
LEMMA QuarantineCoversNext ==
  ASSUME Cardinality(Fds) <= MaxSockets
  PROVE  TypeOK /\ QuarantineCoversGivenUp /\ [Next]_vars
           => QuarantineCoversGivenUp'
<1> SUFFICES ASSUME TypeOK, QuarantineCoversGivenUp, [Next]_vars
             PROVE  QuarantineCoversGivenUp'
  OBVIOUS
<1>1. CASE QuarantineUntouched
  BY <1>1 DEF QuarantineUntouched, QuarantineCoversGivenUp
<1>2. CASE RunInit
  <2>1. CASE UNCHANGED <<closingFds, givenUp>>
    BY <1>2, <2>1 DEF RunInit, QuarantineCoversGivenUp, sessions
  <2>2. CASE /\ CloseSession(Rest, Head1.fd)
             /\ givenUp' = givenUp \cup ({Head1.fd} \cap Open)
    <3>1. Head1.fd \in Open => Head1.fd \in Fds
      BY DEF TypeOK, Open
    <3>2. /\ closingFds \subseteq closingFds'
          /\ Head1.fd \in Open => Head1.fd \in closingFds'
      BY <2>2, <3>1, MarkType, MarkSucceeds DEF CloseSession, TypeOK
    <3>3. upgraded' = upgraded
      BY <1>2 DEF RunInit, sessions
    <3>4. QED
      BY <2>2, <3>2, <3>3 DEF QuarantineCoversGivenUp
  <2>3. QED
    BY <1>2, <2>1, <2>2 DEF RunInit
<1>3. CASE RunClose
  BY <1>3 DEF RunClose, DropSession, QuarantineCoversGivenUp
<1>4. CASE SendFails
  <2>1. Client \in Fds
    BY <1>4, ClientType DEF SendFails, TypeOK
  <2>2. closingFds \subseteq closingFds' /\ Client \in closingFds'
    BY <1>4, <2>1, MarkType, MarkSucceeds DEF SendFails, CloseSession, TypeOK
  <2>3. QED
    BY <1>4, <2>2 DEF SendFails, QuarantineCoversGivenUp, sessions
<1>5. CASE Restart
  BY <1>5 DEF Restart, QuarantineCoversGivenUp
<1>6. ASSUME NEW f \in Fds, Upgrade(f) PROVE QuarantineCoversGivenUp'
  BY <1>6 DEF Upgrade, ClearClosingSession, QuarantineCoversGivenUp
<1>7. ASSUME NEW f \in Fds, ReceiveFails(f) PROVE QuarantineCoversGivenUp'
  <2>1. closingFds \subseteq closingFds'
    BY <1>7, MarkType DEF ReceiveFails, CloseSession
  <2>2. QED
    BY <1>7, <2>1 DEF ReceiveFails, DropSession, QuarantineCoversGivenUp
<1>8. ASSUME NEW f \in Fds, PeerCloses(f) PROVE QuarantineCoversGivenUp'
  BY <1>8 DEF PeerCloses, DropSession, QuarantineCoversGivenUp
<1>9. QED
  BY <1>1, <1>2, <1>3, <1>4, <1>5, <1>6, <1>7, <1>8, QuarantineFrame
     DEF Next, HttpdWork, Peer

\* As long as the network stack has no more client descriptors than the
\* quarantine has entries, every given-up client is quarantined until its
\* session is gone.
THEOREM QuarantineComplete ==
  ASSUME Cardinality(Fds) <= MaxSockets
  PROVE  Spec => []QuarantineCoversGivenUp
<1>1. Init => QuarantineCoversGivenUp
  BY DEF Init, QuarantineCoversGivenUp
<1>2. QED
  BY <1>1, QuarantineCoversNext, TypeCorrect, PTL DEF Spec

-----------------------------------------------------------------------------
(* One broadcast reaches every client it should and no other.              *)
(*                                                                         *)
(* The argument: the session table does not change while the loop runs and *)
(* lists no descriptor twice, so the loop meets every client once.  What   *)
(* it counts are clients it has met, so the limit is only reached when     *)
(* there are more clients than the limit.                                  *)

\* The descriptors the loop has met.
Met == {slot[i] : i \in {k \in Slots : k < job.pos}}

MetTargets == job.targets \cap Met

\* No descriptor has two entries of the session table.
TableInjective ==
  \A i, j \in Slots : slot[i] = slot[j] /\ slot[i] # NoFd => i = j

\* The clients the loop is for: live ones when it began, and nobody else.
TargetsFixed ==
  /\ job.targets \subseteq upgraded
  /\ upgraded \ closingFds \subseteq job.targets

\* What the loop has counted are clients it has met.
CountedMet == job.clients <= Cardinality(MetTargets)

\* A client that was met has been served or given up, unless there are more
\* clients than the limit.
MetHandled ==
  Cardinality(job.targets) <= MaxClients
    => MetTargets \subseteq job.served \cup givenUp

\* The loop has served clients it met, at most as many as it counted and at
\* most MaxClients.
ServedBounded ==
  /\ job.served \subseteq MetTargets
  /\ Cardinality(job.served) <= job.clients
  /\ Cardinality(job.served) <= MaxClients

\* The inductive invariant of the loop.
LoopInv ==
  /\ TableInjective
  /\ Idle => job = NoJob
  /\ ~Idle => TargetsFixed /\ CountedMet /\ MetHandled /\ ServedBounded

-----------------------------------------------------------------------------
\* A set of descriptors is finite.
LEMMA FdsFinite ==
  ASSUME NEW S \in SUBSET Fds
  PROVE  IsFiniteSet(S) /\ Cardinality(S) \in Nat
  BY ServerAssumptions, FS_Subset, FS_CardinalityType

\* The loop's position moves over one more descriptor.
LEMMA MetGrows ==
  ASSUME TypeOK, AtClient, slot' = slot, job'.pos = job.pos + 1
  PROVE  Met' = Met \cup {Client}
<1>1. job.pos \in Slots /\ job.pos \in Nat
  BY ServerAssumptions DEF AtClient, Slots
<1>2. {k \in Slots : k < job'.pos} = {k \in Slots : k < job.pos} \cup {job.pos}
  BY <1>1, ServerAssumptions DEF Slots
<1>3. QED
  BY <1>1, <1>2 DEF Met, Client

\* A client the loop meets, it has not met before.
LEMMA ClientIsNew ==
  ASSUME TypeOK, TableInjective, AtClient, Client # NoFd
  PROVE  Client \notin Met
  BY ServerAssumptions DEF TableInjective, AtClient, Client, Met, Slots

-----------------------------------------------------------------------------
(* The session table.                                                      *)

LEMMA TableInjectiveNext ==
  TypeOK /\ TableInjective /\ [Next]_vars => TableInjective'
<1> SUFFICES ASSUME TypeOK, TableInjective, [Next]_vars
             PROVE  TableInjective'
  OBVIOUS
<1>1. CASE slot' = slot
  BY <1>1 DEF TableInjective
<1>2. CASE \E f : DropSession(f)
  BY <1>2 DEF DropSession, TableInjective, TypeOK
<1>3. CASE Restart
  BY <1>3 DEF Restart, TableInjective
<1>4. ASSUME NEW f \in Fds, NEW i \in Slots, Accept(i, f)
      PROVE  TableInjective'
  <2>1. \A k \in Slots : slot[k] # f
    BY <1>4, ServerAssumptions DEF Accept, Open
  <2>2. QED
    BY <1>4, <2>1 DEF Accept, TableInjective, TypeOK
<1>5. QED
  BY <1>1, <1>2, <1>3, <1>4
     DEF Next, HttpdWork, Peer, RunInit, RunClose, BroadcastStart, SkipClient,
         OverLimit, SendToClient, SendFails, BroadcastEnd, Broadcast, LruPurge,
         Upgrade, ReceiveInit, ReceiveFails, PeerCloses, sessions, vars

-----------------------------------------------------------------------------
(* One step of the loop.                                                   *)

\* What every step of the loop has in common.
LEMMA LoopStep ==
  ASSUME TypeOK, LoopInv,
         SkipClient \/ OverLimit \/ SendToClient \/ SendFails
  PROVE  /\ AtClient /\ ~Idle /\ ~Idle'
         /\ UNCHANGED <<slot, upgraded>> /\ job'.targets = job.targets
         /\ closingFds \subseteq closingFds' /\ givenUp \subseteq givenUp'
         /\ MetTargets' = MetTargets \cup ({Client} \cap job.targets)
         /\ TargetsFixed'
<1>1. PICK c, s : NextClient(c, s)
  BY DEF SkipClient, OverLimit, SendToClient, SendFails
<1>2. AtClient /\ UNCHANGED <<slot, upgraded>>
  BY DEF SkipClient, OverLimit, SendToClient, SendFails, sessions
<1>3. job'.pos = job.pos + 1 /\ job'.targets = job.targets
  BY <1>1 DEF NextClient, TypeOK, Job
<1>4. ~Idle /\ ~Idle'
  BY <1>2, <1>3, ServerAssumptions DEF AtClient, Slots, Idle
<1>5. closingFds \subseteq closingFds' /\ givenUp \subseteq givenUp'
  BY MarkType
     DEF SkipClient, OverLimit, SendToClient, SendFails, CloseSession, history
<1>6. Met' = Met \cup {Client}
  BY <1>2, <1>3, MetGrows
<1>7. TargetsFixed'
  BY <1>2, <1>3, <1>4, <1>5 DEF LoopInv, TargetsFixed
<1>8. QED
  BY <1>2, <1>3, <1>4, <1>5, <1>6, <1>7 DEF MetTargets

\* A client the loop counts is one of its targets, met for the first time.
LEMMA CountedClient ==
  ASSUME TypeOK, LoopInv, AtClient, ~Idle, Eligible(Client)
  PROVE  Client \in job.targets /\ Client \notin Met
<1>1. Client \in upgraded \ closingFds /\ Client # NoFd
  BY ClientType DEF TypeOK, Eligible, Open
<1>2. QED
  BY <1>1, ClientIsNew DEF LoopInv, TargetsFixed

\* The sizes of the sets the loop keeps.
LEMMA LoopSizes ==
  ASSUME TypeOK
  PROVE  /\ job.clients \in Nat /\ MaxClients \in Nat
         /\ IsFiniteSet(job.targets) /\ Cardinality(job.targets) \in Nat
         /\ IsFiniteSet(MetTargets) /\ Cardinality(MetTargets) \in Nat
         /\ IsFiniteSet(job.served) /\ Cardinality(job.served) \in Nat
         /\ Cardinality(MetTargets) <= Cardinality(job.targets)
<1>1. job.targets \in SUBSET Fds /\ job.served \in SUBSET Fds
      /\ job.clients \in Nat
  BY DEF TypeOK, Job
<1>2. MetTargets \in SUBSET job.targets /\ MetTargets \in SUBSET Fds
  BY <1>1 DEF MetTargets
<1>3. QED
  BY <1>1, <1>2, FdsFinite, FS_Subset, ServerAssumptions

\* The loop passes over a socket that is no client, or is about to be closed.
LEMMA SkipKeeps ==
  ASSUME TypeOK, LoopInv, QuarantineOnlyGivenUp, SkipClient
  PROVE  CountedMet' /\ MetHandled' /\ ServedBounded'
<1>1. job'.clients = job.clients /\ job'.served = job.served
  BY DEF SkipClient, NextClient, TypeOK, Job
<1>2. CountedMet /\ MetHandled /\ ServedBounded
  BY LoopStep DEF LoopInv
<1>3. CountedMet'
  <2>1. Cardinality(MetTargets) <= Cardinality(MetTargets')
    <3>1. MetTargets' \in SUBSET Fds /\ MetTargets \in SUBSET MetTargets'
      BY LoopStep DEF TypeOK, Job, MetTargets
    <3>2. QED
      BY <3>1, FdsFinite, FS_Subset
  <2>2. MetTargets' \in SUBSET Fds
    BY LoopStep DEF TypeOK, Job, MetTargets
  <2>3. Cardinality(MetTargets') \in Nat
    BY <2>2, FdsFinite
  <2>4. QED
    BY <1>1, <1>2, <2>1, <2>3, LoopSizes DEF CountedMet
<1>4. MetHandled'
  <2>1. Client \in job.targets => Client \in givenUp
    BY LoopStep
       DEF SkipClient, Eligible, LoopInv, TargetsFixed, QuarantineOnlyGivenUp
  <2>2. QED
    BY <1>1, <1>2, <2>1, LoopStep DEF MetHandled
<1>5. ServedBounded'
  BY <1>1, <1>2, LoopStep DEF ServedBounded
<1>6. QED
  BY <1>3, <1>4, <1>5

\* What a step that counts its client does to the clients met.
LEMMA CountKeeps ==
  ASSUME TypeOK, LoopInv, OverLimit \/ SendToClient \/ SendFails
  PROVE  /\ Client \in job.targets /\ Client \notin job.served
         /\ job'.clients = job.clients + 1
         /\ MetTargets' = MetTargets \cup {Client}
         /\ Cardinality(MetTargets') = Cardinality(MetTargets) + 1
         /\ CountedMet'
<1>1. Client \in job.targets /\ Client \notin Met
  BY LoopStep, CountedClient DEF OverLimit, SendToClient, SendFails
<1>2. job'.clients = job.clients + 1
  BY DEF OverLimit, SendToClient, SendFails, NextClient, TypeOK, Job
<1>3. MetTargets' = MetTargets \cup {Client} /\ Client \notin MetTargets
  BY <1>1, LoopStep DEF MetTargets
<1>4. Cardinality(MetTargets') = Cardinality(MetTargets) + 1
  BY <1>3, LoopSizes, FS_AddElement
<1>5. CountedMet /\ ServedBounded
  BY LoopStep DEF LoopInv
<1>6. CountedMet'
  BY <1>2, <1>4, <1>5, LoopSizes DEF CountedMet
<1>7. QED
  BY <1>1, <1>2, <1>3, <1>4, <1>5, <1>6 DEF ServedBounded

\* The limit is only reached when there are more clients than the limit.
LEMMA OverLimitKeeps ==
  ASSUME TypeOK, LoopInv, OverLimit
  PROVE  CountedMet' /\ MetHandled' /\ ServedBounded'
<1>1. job'.served = job.served
  BY DEF OverLimit, NextClient, TypeOK, Job
<1>2. ServedBounded /\ CountedMet
  BY LoopStep DEF LoopInv
<1>3. Cardinality(job.targets) > MaxClients
  <2>1. MetTargets' \in SUBSET job.targets
    BY CountKeeps DEF MetTargets
  <2>2. Cardinality(MetTargets') <= Cardinality(job.targets)
    BY <2>1, LoopSizes, FS_Subset
  <2>3. Cardinality(MetTargets) >= MaxClients
    BY <1>2, LoopSizes DEF OverLimit, WithinLimit, CountedMet
  <2>4. QED
    BY <2>2, <2>3, CountKeeps, LoopSizes
<1>4. MetHandled'
  BY <1>3, LoopStep, LoopSizes DEF MetHandled
<1>5. ServedBounded'
  BY <1>1, <1>2, LoopStep, CountKeeps, LoopSizes DEF ServedBounded
<1>6. QED
  BY <1>4, <1>5, CountKeeps

\* The client is served.
LEMMA SendKeeps ==
  ASSUME TypeOK, LoopInv, SendToClient
  PROVE  CountedMet' /\ MetHandled' /\ ServedBounded'
<1>1. job'.served = job.served \cup {Client} /\ givenUp' = givenUp
  BY DEF SendToClient, NextClient, TypeOK, Job, history
<1>2. ServedBounded /\ MetHandled
  BY LoopStep DEF LoopInv
<1>3. MetHandled'
  BY <1>1, <1>2, LoopStep, CountKeeps DEF MetHandled
<1>4. ServedBounded'
  <2>1. Cardinality(job'.served) = Cardinality(job.served) + 1
    BY <1>1, CountKeeps, LoopSizes, FS_AddElement
  <2>2. job.clients < MaxClients
    BY DEF SendToClient, WithinLimit
  <2>3. QED
    BY <1>1, <1>2, <2>1, <2>2, CountKeeps, LoopSizes DEF ServedBounded
<1>5. QED
  BY <1>3, <1>4, CountKeeps

\* The client is given up.
LEMMA FailKeeps ==
  ASSUME TypeOK, LoopInv, SendFails
  PROVE  CountedMet' /\ MetHandled' /\ ServedBounded'
<1>1. job'.served = job.served /\ givenUp' = givenUp \cup {Client}
  BY DEF SendFails, NextClient, TypeOK, Job
<1>2. ServedBounded /\ MetHandled
  BY LoopStep DEF LoopInv
<1>3. MetHandled'
  BY <1>1, <1>2, LoopStep, CountKeeps DEF MetHandled
<1>4. ServedBounded'
  BY <1>1, <1>2, LoopStep, CountKeeps, LoopSizes DEF ServedBounded
<1>5. QED
  BY <1>3, <1>4, CountKeeps

-----------------------------------------------------------------------------
(* The invariant of the loop.                                              *)

LEMMA LoopInit == Init => LoopInv
  BY DEF Init, LoopInv, TableInjective, Idle, NoJob

\* A broadcast starts having met nobody.
LEMMA StartKeeps ==
  ASSUME TypeOK, BroadcastStart
  PROVE  ~Idle' /\ TargetsFixed' /\ CountedMet' /\ MetHandled' /\ ServedBounded'
<1>1. /\ job' = [pos |-> 1, clients |-> 0,
                 targets |-> upgraded \ closingFds, served |-> {}]
      /\ UNCHANGED <<slot, upgraded, closingFds>>
  BY DEF BroadcastStart, sessions
<1>2. Met' = {} /\ MetTargets' = {}
  BY <1>1, ServerAssumptions DEF Met, MetTargets, Slots
<1>3. Cardinality({}) = 0
  BY FS_EmptySet
<1>4. QED
  BY <1>1, <1>2, <1>3, ServerAssumptions
     DEF Idle, TargetsFixed, CountedMet, MetHandled, ServedBounded

\* Steps that leave the job and what it is about alone.
LEMMA LoopFrame ==
  ASSUME LoopInv, TableInjective',
         UNCHANGED <<slot, upgraded, closingFds, givenUp, job>>
  PROVE  LoopInv'
  BY DEF LoopInv, Idle, TargetsFixed, CountedMet, MetHandled, ServedBounded,
         MetTargets, Met

LEMMA LoopNext ==
  TypeOK /\ QuarantineOnlyGivenUp /\ LoopInv /\ [Next]_vars => LoopInv'
<1> SUFFICES ASSUME TypeOK, QuarantineOnlyGivenUp, LoopInv, [Next]_vars
             PROVE  LoopInv'
  OBVIOUS
<1>1. TableInjective'
  BY TableInjectiveNext DEF LoopInv
<1>2. CASE Idle /\ job' = job
  BY <1>1, <1>2 DEF LoopInv, Idle
<1>3. CASE BroadcastStart
  BY <1>1, <1>3, StartKeeps DEF LoopInv
<1>4. CASE SkipClient \/ OverLimit \/ SendToClient \/ SendFails
  BY <1>1, <1>4, LoopStep, SkipKeeps, OverLimitKeeps, SendKeeps, FailKeeps
     DEF LoopInv
<1>5. CASE BroadcastEnd
  BY <1>1, <1>5 DEF BroadcastEnd, LoopInv, Idle, NoJob
<1>6. CASE Broadcast \/ UNCHANGED vars
  BY <1>1, <1>6, LoopFrame DEF Broadcast, vars, sessions, history
<1>7. QED
  BY <1>2, <1>3, <1>4, <1>5, <1>6
     DEF Next, HttpdWork, Peer, RunInit, RunClose, Restart, Accept, LruPurge,
         Upgrade, ReceiveInit, ReceiveFails, PeerCloses

\* The loop's invariant gives the two promises of a broadcast.
LEMMA LoopImplies ==
  ASSUME TypeOK, LoopInv
  PROVE  BroadcastReachesClients /\ BroadcastBounded
<1>1. BroadcastReachesClients
  <2> SUFFICES ASSUME job.pos = MaxSockets + 1,
                      Cardinality(job.targets) <= MaxClients
               PROVE  job.targets \subseteq job.served \cup givenUp
    BY DEF BroadcastReachesClients
  <2>1. TargetsFixed /\ MetHandled
    BY ServerAssumptions DEF LoopInv, Idle
  <2>2. {k \in Slots : k < job.pos} = Slots
    BY ServerAssumptions DEF Slots
  <2>3. job.targets \subseteq Met
    BY <2>1, <2>2 DEF TargetsFixed, TypeOK, Open, Met
  <2>4. QED
    BY <2>1, <2>3 DEF MetHandled, MetTargets
<1>2. BroadcastBounded
  <2>1. CASE Idle
    <3>1. job.served = {} /\ Cardinality({}) = 0
      BY <2>1, FS_EmptySet DEF LoopInv, NoJob
    <3>2. QED
      BY <3>1, ServerAssumptions DEF BroadcastBounded
  <2>2. CASE ~Idle
    BY <2>2 DEF LoopInv, ServedBounded, MetTargets, BroadcastBounded
  <2>3. QED
    BY <2>1, <2>2
<1>3. QED
  BY <1>1, <1>2

LEMMA LoopInvariant == Spec => [](BroadcastReachesClients /\ BroadcastBounded)
<1>1. Spec => []LoopInv
  BY LoopInit, LoopNext, TypeCorrect, QuarantineSound, PTL DEF Spec
<1>2. QED
  BY <1>1, LoopImplies, TypeCorrect, PTL

\* A broadcast reaches every live client when they are no more than the limit:
\* for every size of the table and every limit, whatever the peers do and
\* whatever other sessions are in the table.
THEOREM BroadcastReaches == Spec => []BroadcastReachesClients
  BY LoopInvariant, PTL

\* It is never sent to more clients than the limit, nor to one that was not
\* live when it began.
THEOREM BroadcastLimited == Spec => []BroadcastBounded
  BY LoopInvariant, PTL
=============================================================================
