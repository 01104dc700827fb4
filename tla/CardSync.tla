------------------------------ MODULE CardSync ------------------------------
(***************************************************************************)
(* The cards of the device and the pages that show them.                   *)
(*                                                                         *)
(* Application tasks add cards to the pool and update them: an update      *)
(* writes the entry and then queues a broadcast.  The task of the HTTP     *)
(* server answers the page's init: it reads the pool entry by entry,       *)
(* queues what it read for that page, executes queued items in order, and  *)
(* calls the callbacks of the cards, which may update them as well.        *)
(* No lock orders the two (esp_dashboard_plus.cpp, dashboard_cards.cpp).   *)
(* The page replaces its cards by an init and then applies updates         *)
(* (extras/dashboard.html, handleMessage).                                 *)
(*                                                                         *)
(* A card is the number of its slot, its value the number of the write it  *)
(* holds: Blank until add*Card sets its data, then 1, 2, ...  One task     *)
(* adds the cards, for the code orders nothing between two; an update of a *)
(* card by its callback may overlap one by the task that writes the card.  *)
(* Connected pages are at most the client limit and their sends succeed:   *)
(* DashboardServer is about the rest, and BroadcastReachesClients is why   *)
(* one item here reaches them all.                                         *)
(***************************************************************************)
EXTENDS Integers, Sequences

CONSTANTS
  Tasks,       \* application tasks
  MaxCards,    \* entries of the pool, maxCards of begin()
  Pages,
  QueueCap,    \* items the work queue holds
  Adder,       \* the task that adds the cards
  Writer,      \* the task that updates a card
  Server,      \* the task of the HTTP server, when it runs a callback
  Callbacks,   \* the cards whose callback updates them
  MaxVersion,  \* bound: writes of a card
  NoJob,       \* the server task is not building an initialization
  Idle         \* a task is not inside a call

Slots == 1 .. MaxCards
Versions == Nat
Call == [at : {"naming", "filling", "queueing"}, slot : Slots, ver : Versions]

ASSUME SyncAssumptions ==
  /\ MaxCards \in Nat \ {0}
  /\ QueueCap \in Nat
  /\ MaxVersion \in [Slots -> Nat \ {0}]
  /\ Adder \in Tasks
  /\ Server \notin Tasks
  /\ Callbacks \subseteq Slots
  /\ Writer \in [Slots -> Tasks]
  /\ Idle \notin Call

VARIABLES
  active,     \* slots taken
  named,      \* slots whose type and id are set
  stored,     \* the value of each entry
  task,       \* where each task is in its call
  initJob,    \* the initialization the server task is building
  workQueue,  \* items queued for the server task
  link,       \* of a page: closed, asked for its initialization, or ready
  view,       \* the cards a page shows
  known,      \* history: of a page, the values stored when it asked
  dropped,    \* history: cards whose last update the queue refused
  raced,      \* history: cards whose last update was queued when a newer one
              \* had been written
  overtaken   \* history: cards whose last update was queued before an older
              \* initialization of the page

vars == <<active, named, stored, task, initJob, workQueue, link, view,
          known, dropped, raced, overtaken>>

history == <<known, dropped, raced, overtaken>>

Absent == -1
Blank == 0
Shown == Versions \cup {Absent}

Callers == Tasks \cup {Server}

UpdateItem == [type : {"update"}, slot : Slots, ver : Versions, raced : BOOLEAN]
InitItem == [type : {"init"}, page : Pages, snap : [Slots -> Shown],
             had : [Slots -> Versions], overtaken : SUBSET Slots]
Item == UpdateItem \cup InitItem
InitJob == [page : Pages, next : 1 .. MaxCards + 1, snap : [Slots -> Shown],
            had : [Slots -> Versions], overtaken : SUBSET Slots]

Init ==
  /\ active = {}
  /\ named = {}
  /\ stored = [c \in Slots |-> Blank]
  /\ task = [t \in Callers |-> Idle]
  /\ initJob = NoJob
  /\ workQueue = <<>>
  /\ link = [p \in Pages |-> "closed"]
  /\ view = [p \in Pages |-> [c \in Slots |-> Absent]]
  /\ known = [p \in Pages |-> [c \in Slots |-> Blank]]
  /\ dropped = {}
  /\ raced = {}
  /\ overtaken = [p \in Pages |-> {}]

QueueHasRoom == Len(workQueue) < QueueCap

ServerFree == initJob = NoJob /\ task[Server] = Idle

-----------------------------------------------------------------------------
(* The application tasks, and the callbacks.                               *)

\* cards_alloc_slot: the first free slot becomes active.
AllocSlot ==
  /\ task[Adder] = Idle
  /\ \E c \in Slots \ active :
       /\ \A d \in Slots : d < c => d \in active
       /\ active' = active \cup {c}
       /\ task' = [task EXCEPT ![Adder] = [at |-> "naming", slot |-> c, ver |-> Blank]]
  /\ UNCHANGED <<named, stored, initJob, workQueue, link, view, history>>

\* The rest of add*Card, which sends nothing: first type and id ...
NameCard ==
  /\ task[Adder] # Idle /\ task[Adder].at = "naming"
  /\ named' = named \cup {task[Adder].slot}
  /\ task' = [task EXCEPT ![Adder].at = "filling"]
  /\ UNCHANGED <<active, stored, initJob, workQueue, link, view, history>>

\* ... then the data.
FillCard ==
  /\ task[Adder] # Idle /\ task[Adder].at = "filling"
  /\ stored' = [stored EXCEPT ![task[Adder].slot] = 1]
  /\ task' = [task EXCEPT ![Adder] = Idle]
  /\ UNCHANGED <<active, named, initJob, workQueue, link, view, history>>

\* Mutated form: the value is broadcast and not kept.
StoredByNothing(c, v) == stored

StoredByCall(c, v) == [stored EXCEPT ![c] = v]

\* The application updates a card when add*Card has returned; a callback does
\* when a page's action has arrived and the server task has nothing else to do.
MayUpdate(t, c) ==
  \/ t = Writer[c]
  \/ t = Server /\ ServerFree /\ c \in Callbacks /\ \E p \in Pages : link[p] # "closed"

\* update*Card finds its card and writes it.
WriteCard(t, c) ==
  /\ task[t] = Idle
  /\ MayUpdate(t, c)
  /\ stored[c] \in 1 .. MaxVersion[c] - 1
  /\ stored' = StoredByCall(c, stored[c] + 1)
  /\ task' = [task EXCEPT ![t] = [at |-> "queueing", slot |-> c,
                                  ver |-> stored[c] + 1]]
  /\ UNCHANGED <<active, named, initJob, workQueue, link, view, history>>

\* Serves the history only: the snapshot being built already holds an older
\* value of the card.
Outdates(c) == initJob # NoJob /\ initJob.next > c

\* It then queues the broadcast, or loses it when the queue is full.
QueueUpdate(t) ==
  /\ task[t] # Idle /\ task[t].at = "queueing"
  /\ task' = [task EXCEPT ![t] = Idle]
  /\ LET c == task[t].slot
         late == task[t].ver < stored[c]
         item == [type |-> "update", slot |-> c, ver |-> task[t].ver, raced |-> late]
     IN \/ /\ QueueHasRoom
           /\ workQueue' = Append(workQueue, item)
           /\ dropped' = dropped \ {c}
           /\ raced' = IF late THEN raced \cup {c} ELSE raced \ {c}
           /\ overtaken' = [p \in Pages |-> overtaken[p] \ {c}]
           /\ initJob' = IF Outdates(c)
                THEN [initJob EXCEPT !.overtaken = @ \cup {c}] ELSE initJob
        \/ /\ ~QueueHasRoom
           /\ dropped' = dropped \cup {c}
           /\ UNCHANGED <<workQueue, raced, overtaken, initJob>>
  /\ UNCHANGED <<active, named, stored, link, view, known>>

-----------------------------------------------------------------------------
(* The task of the HTTP server.                                            *)

\* The init message of a page is handled: the snapshot begins.
BeginInit(p) ==
  /\ ServerFree
  /\ link[p] = "open"
  /\ link' = [link EXCEPT ![p] = "asked"]
  /\ initJob' = [page |-> p, next |-> 1, snap |-> [c \in Slots |-> Absent],
                 had |-> stored, overtaken |-> {}]
  /\ UNCHANGED <<active, named, stored, task, workQueue, view, history>>

\* Mutated form: the loop runs one entry past the pool.
MoreCardsPast == initJob.next <= MaxCards + 1

MoreCards == initJob.next <= MaxCards

\* _buildInitJson: one entry.  One that is active but has no id yet is
\* nothing the page could show later updates in.
ReadCard ==
  /\ initJob # NoJob /\ MoreCards
  /\ LET c == initJob.next
     IN initJob' = [initJob EXCEPT
          !.next = c + 1,
          !.snap[c] = IF c \in active \cap named THEN stored[c] ELSE Absent]
  /\ UNCHANGED <<active, named, stored, task, workQueue, link, view, history>>

\* server_send_to_fd_async: the text is queued for the page, or lost.
QueueInit ==
  /\ initJob # NoJob /\ ~MoreCards
  /\ initJob' = NoJob
  /\ workQueue' = IF QueueHasRoom
       THEN Append(workQueue, [type |-> "init", page |-> initJob.page,
                               snap |-> initJob.snap, had |-> initJob.had,
                               overtaken |-> initJob.overtaken])
       ELSE workQueue
  /\ UNCHANGED <<active, named, stored, task, link, view, history>>

\* Mutated form: what the page already shows is kept.
CardsAfterInitKept(p, snap) ==
  [c \in Slots |-> IF view[p][c] = Absent THEN snap[c] ELSE view[p][c]]

\* cards = {}, then the cards of the message.
CardsAfterInit(p, snap) == snap

\* Serves the history only: an update of the card follows the item at the head.
UpdateQueuedBehind(c) ==
  \E i \in 2 .. Len(workQueue) :
    workQueue[i].type = "update" /\ workQueue[i].slot = c

\* send_to_fd_work_fn, and case 'init' of the page.
ExecuteInit(p) ==
  /\ ServerFree
  /\ workQueue # <<>>
  /\ LET item == Head(workQueue)
     IN /\ item.type = "init" /\ item.page = p
        /\ \/ /\ link[p] = "closed"
              /\ UNCHANGED <<link, view, known, overtaken>>
           \/ /\ link[p] # "closed"
              /\ view' = [view EXCEPT ![p] = CardsAfterInit(p, item.snap)]
              /\ link' = [link EXCEPT ![p] = IF @ = "asked" THEN "ready" ELSE @]
              /\ known' = [known EXCEPT ![p] = item.had]
              /\ overtaken' = [overtaken EXCEPT
                   ![p] = {c \in item.overtaken : ~UpdateQueuedBehind(c)}]
  /\ workQueue' = Tail(workQueue)
  /\ UNCHANGED <<active, named, stored, task, initJob, dropped, raced>>

\* case 'update' of the page: cards it does not have are ignored.
Applied(p, c, v) ==
  IF link[p] # "closed" /\ view[p][c] # Absent
    THEN [view[p] EXCEPT ![c] = v] ELSE view[p]

\* broadcast_work_fn: the update goes to every connected page.
ExecuteUpdate ==
  /\ ServerFree
  /\ workQueue # <<>>
  /\ LET item == Head(workQueue)
     IN /\ item.type = "update"
        /\ view' = [p \in Pages |-> Applied(p, item.slot, item.ver)]
  /\ workQueue' = Tail(workQueue)
  /\ UNCHANGED <<active, named, stored, task, initJob, link, history>>

-----------------------------------------------------------------------------
(* The pages.                                                              *)

\* A socket opens; the page sends its init message.
Connect(p) ==
  /\ link[p] = "closed"
  /\ link' = [link EXCEPT ![p] = "open"]
  /\ UNCHANGED <<active, named, stored, task, initJob, workQueue, view, history>>

\* It closes.  The page goes on showing its cards until it is reloaded.
Disconnect(p) ==
  /\ link[p] # "closed"
  /\ link' = [link EXCEPT ![p] = "closed"]
  /\ \/ UNCHANGED view
     \/ view' = [view EXCEPT ![p] = [c \in Slots |-> Absent]]
  /\ UNCHANGED <<active, named, stored, task, initJob, workQueue, history>>

Next ==
  \/ \E t \in Callers :
       QueueUpdate(t) \/ \E c \in Slots : WriteCard(t, c)
  \/ AllocSlot \/ NameCard \/ FillCard
  \/ ReadCard \/ QueueInit \/ ExecuteUpdate
  \/ \E p \in Pages : BeginInit(p) \/ ExecuteInit(p) \/ Connect(p) \/ Disconnect(p)

Spec == Init /\ [][Next]_vars

-----------------------------------------------------------------------------
(* Properties.                                                             *)

TypeOK ==
  /\ active \in SUBSET Slots /\ named \in SUBSET active
  /\ stored \in [Slots -> Versions] /\ \A c \in Slots : stored[c] <= MaxVersion[c]
  /\ task \in [Callers -> Call \cup {Idle}]
  /\ initJob \in InitJob \cup {NoJob}
  /\ workQueue \in Seq(Item)
  /\ link \in [Pages -> {"closed", "open", "asked", "ready"}]
  /\ view \in [Pages -> [Slots -> Shown]]
  /\ known \in [Pages -> [Slots -> Versions]]
  /\ dropped \in SUBSET Slots /\ raced \in SUBSET Slots
  /\ overtaken \in [Pages -> SUBSET Slots]

\* Nothing is on its way: no call is in progress and the queue is empty.
AtRest ==
  /\ \A t \in Callers : task[t] = Idle
  /\ initJob = NoJob
  /\ workQueue = <<>>

\* What page p shows of card c is what the device stores.  Adding a card
\* announces nothing: one added since the page asked may be missing from it, or
\* be blank when it was read between its id and its data.
ShowsStored(p, c) ==
  \/ view[p][c] = stored[c]
  \/ known[p][c] = Blank /\ view[p][c] \in {Absent, Blank}

\* At rest an initialized page shows every card that was there when it asked,
\* and shows the stored value of every card it has, whatever happened before.
\* Every later update repairs all earlier losses: this is so if the last update
\* of the card was not dropped by a full queue, not queued behind a newer one of
\* another task, and not queued between the reading and the queueing of the
\* page's initialization.  A later initialization repairs what was dropped or
\* overtaken: this is so whatever those were if the card has not been written
\* since the page asked (update*Card, _queueInitForFd, handleMessage).
AtRestShowsStored ==
  AtRest => \A p \in Pages : link[p] = "ready" =>
    \A c \in Slots :
      /\ c \notin raced
      /\ c \notin dropped \cup overtaken[p] \/ known[p][c] = stored[c]
      => ShowsStored(p, c)

\* A page never goes back to an older value, not across reconnections either,
\* except by an initialization that an update has overtaken or by an update
\* that was queued when another task had written a newer value.
NeverBackwards ==
  [][\A p \in Pages, c \in Slots :
       view'[p][c] \in 0 .. view[p][c] - 1 =>
         /\ workQueue # <<>>
         /\ IF Head(workQueue).type = "init"
              THEN c \in Head(workQueue).overtaken
              ELSE Head(workQueue).raced]_vars
=============================================================================
