---------------------------- MODULE CardSyncProofs ----------------------------
(***************************************************************************)
(* Proofs about CardSync, for any number of tasks, cards and pages, any    *)
(* queue and any updates.                                                  *)
(*                                                                         *)
(* SyncInv, for the order of values: whatever is shown, queued or read is  *)
(* at most what is stored, and an item that is not excused brings nothing  *)
(* older than what is in front of it.  So a page goes back for one of the  *)
(* two named reasons only.                                                 *)
(*                                                                         *)
(* RestInv, for what pages show in the end: of a card whose last update    *)
(* was queued in time, the last item in the queue that concerns a page     *)
(* brings the stored value; when there is none the page shows it.          *)
(*                                                                         *)
(* Fresh, for what an initialization repairs: a page shows nothing older   *)
(* than what was stored when it asked, but for a raced update.             *)
(***************************************************************************)
EXTENDS CardSync, SequenceTheorems, TLAPS

-----------------------------------------------------------------------------
(* What a queued item does to a page.                                      *)

\* The value an item has for card c, Absent if it has none.
Value(m, c) ==
  IF m.type = "init" THEN m.snap[c] ELSE IF m.slot = c THEN m.ver ELSE Absent

\* The value may be older than what went before.
Excused(m, c) == IF m.type = "init" THEN c \in m.overtaken ELSE m.raced

\* Value v of card c is shown nowhere in a newer version, and nothing newer is
\* queued for it.
NewestShown(c, v) == \A p \in Pages : view[p][c] <= v
NewestQueued(c, v) == \A i \in 1 .. Len(workQueue) : Value(workQueue[i], c) <= v

-----------------------------------------------------------------------------
(* The invariant.                                                          *)

\* A card is written only after add*Card has filled it, which happens once.
Adding ==
  /\ \A c \in Slots \ active : stored[c] = Blank
  /\ task[Adder] # Idle /\ task[Adder].at # "queueing" =>
       task[Adder].slot \in active /\ stored[task[Adder].slot] = Blank

\* Nothing is newer than the stored value.
Bounded == \A c \in Slots : NewestShown(c, stored[c]) /\ NewestQueued(c, stored[c])

BoundedCalls ==
  \A t \in Callers : task[t] # Idle /\ task[t].at = "queueing" =>
    task[t].ver <= stored[task[t].slot]

BoundedJob == initJob # NoJob => \A c \in Slots : initJob.snap[c] <= stored[c]

\* An item that is not excused brings nothing older than the items before it,
\* and than what the pages show.
QueueOrdered ==
  \A c \in Slots : \A i, j \in 1 .. Len(workQueue) :
    i < j /\ Value(workQueue[j], c) # Absent /\ ~Excused(workQueue[j], c)
      => Value(workQueue[i], c) <= Value(workQueue[j], c)

ViewOrdered ==
  \A c \in Slots : \A j \in 1 .. Len(workQueue) :
    Value(workQueue[j], c) # Absent /\ ~Excused(workQueue[j], c)
      => NewestShown(c, Value(workQueue[j], c))

\* Nor will the initialization that is being built.
JobOrdered ==
  initJob # NoJob =>
    \A c \in Slots :
      initJob.snap[c] # Absent /\ c \notin initJob.overtaken
        => NewestShown(c, initJob.snap[c]) /\ NewestQueued(c, initJob.snap[c])

\* What has not been read is not in the snapshot.
JobUnread ==
  initJob # NoJob => \A c \in Slots : initJob.next <= c => initJob.snap[c] = Absent

Order == Bounded /\ QueueOrdered /\ ViewOrdered

SyncInv ==
  /\ TypeOK /\ Adding /\ BoundedCalls
  /\ Order
  /\ BoundedJob /\ JobOrdered /\ JobUnread

LEMMA ValueType ==
  ASSUME NEW m \in Item, NEW c \in Slots
  PROVE  Value(m, c) \in Shown /\ Value(m, c) \in Int
BY DEF Value, Item, UpdateItem, InitItem, Shown, Versions, Absent

LEMMA QueueTypes ==
  ASSUME TypeOK
  PROVE  /\ workQueue \in Seq(Item) /\ Len(workQueue) \in Nat
         /\ \A i \in 1 .. Len(workQueue) : workQueue[i] \in Item
         /\ \A i \in 1 .. Len(workQueue), c \in Slots : Value(workQueue[i], c) \in Int
         /\ \A p \in Pages, c \in Slots : view[p][c] \in Int
         /\ \A c \in Slots : stored[c] \in Nat
<1>1. workQueue \in Seq(Item) /\ Len(workQueue) \in Nat
  BY DEF TypeOK
<1>2. \A i \in 1 .. Len(workQueue) : workQueue[i] \in Item
  BY <1>1, ElementOfSeq
<1>3. \A i \in 1 .. Len(workQueue), c \in Slots : Value(workQueue[i], c) \in Int
  BY <1>2, ValueType
<1>4. \A p \in Pages, c \in Slots : view[p][c] \in Int
  BY DEF TypeOK, Shown, Versions, Absent
<1>5. \A c \in Slots : stored[c] \in Nat
  BY DEF TypeOK, Versions
<1>6. QED
  BY <1>1, <1>2, <1>3, <1>4, <1>5

-----------------------------------------------------------------------------
(* The order is kept by whatever can happen to the queue and the pages.    *)

\* The application writes, and queues nothing yet.
LEMMA GrowKeeps ==
  ASSUME TypeOK, Order, stored' \in [Slots -> Nat],
         \A c \in Slots : stored[c] <= stored'[c],
         UNCHANGED <<workQueue, view>>
  PROVE  Order'
<1>1. QueueOrdered' /\ ViewOrdered'
  BY DEF Order, QueueOrdered, ViewOrdered, NewestShown, Value, Excused
<1>2. ASSUME NEW c \in Slots
      PROVE  NewestShown(c, stored[c])' /\ NewestQueued(c, stored[c])'
  <2>1. stored[c] \in Nat /\ stored'[c] \in Nat /\ stored[c] <= stored'[c]
    BY <1>2, QueueTypes
  <2>2. \A p \in Pages : view[p][c] <= stored[c] /\ view[p][c] \in Int
    BY <1>2, QueueTypes DEF Order, Bounded, NewestShown
  <2>3. \A i \in 1 .. Len(workQueue) :
          Value(workQueue[i], c) <= stored[c] /\ Value(workQueue[i], c) \in Int
    BY <1>2, QueueTypes DEF Order, Bounded, NewestQueued
  <2>4. NewestShown(c, stored[c])'
    BY <2>1, <2>2 DEF NewestShown
  <2>5. NewestQueued(c, stored[c])'
    <3>1. \A i \in 1 .. Len(workQueue) : Value(workQueue[i], c) <= stored'[c]
      BY <2>1, <2>3
    <3>2. QED
      BY <3>1 DEF NewestQueued, Value
  <2>6. QED
    BY <2>4, <2>5
<1>3. QED
  BY <1>1, <1>2 DEF Order, Bounded

\* An item is queued that is the newest, or excused.
LEMMA AppendKeeps ==
  ASSUME TypeOK, Order, NEW m \in Item,
         workQueue' = Append(workQueue, m), UNCHANGED <<stored, view>>,
         \A c \in Slots : Value(m, c) <= stored[c],
         \A c \in Slots : Value(m, c) # Absent /\ ~Excused(m, c) =>
           NewestShown(c, Value(m, c)) /\ NewestQueued(c, Value(m, c))
  PROVE  Order'
<1> DEFINE n == Len(workQueue)
<1>1. n \in Nat /\ workQueue \in Seq(Item)
  BY QueueTypes
<1>2. /\ Len(workQueue') = n + 1
      /\ \A i \in 1 .. n : workQueue'[i] = workQueue[i]
      /\ workQueue'[n + 1] = m
  BY <1>1, AppendProperties
<1>3. \A i \in 1 .. Len(workQueue') :
        \/ i \in 1 .. n /\ workQueue'[i] = workQueue[i]
        \/ i = n + 1 /\ workQueue'[i] = m
  BY <1>1, <1>2
<1>4. Bounded'
  <2>1. SUFFICES ASSUME NEW c \in Slots
                 PROVE  /\ \A p \in Pages : view[p][c] <= stored[c]
                        /\ \A i \in 1 .. Len(workQueue') : Value(workQueue'[i], c) <= stored[c]
    BY DEF Bounded, NewestShown, NewestQueued, Value
  <2>2. QED
    BY <1>3, <2>1 DEF Order, Bounded, NewestShown, NewestQueued
<1>5. QueueOrdered'
  <2>1. SUFFICES ASSUME NEW c \in Slots, NEW i \in 1 .. Len(workQueue'),
                        NEW j \in 1 .. Len(workQueue'), i < j,
                        Value(workQueue'[j], c) # Absent, ~Excused(workQueue'[j], c)
                 PROVE  Value(workQueue'[i], c) <= Value(workQueue'[j], c)
    BY DEF QueueOrdered, Value, Excused
  <2>2. i \in 1 .. n /\ workQueue'[i] = workQueue[i]
    BY <1>1, <1>2, <2>1
  <2>3. CASE j \in 1 .. n /\ workQueue'[j] = workQueue[j]
    BY <2>1, <2>2, <2>3 DEF Order, QueueOrdered
  <2>4. CASE workQueue'[j] = m
    BY <2>1, <2>2, <2>4 DEF NewestQueued
  <2>5. QED
    BY <1>3, <2>1, <2>3, <2>4
<1>6. ViewOrdered'
  <2>1. SUFFICES ASSUME NEW c \in Slots, NEW j \in 1 .. Len(workQueue'),
                        Value(workQueue'[j], c) # Absent, ~Excused(workQueue'[j], c)
                 PROVE  \A p \in Pages : view[p][c] <= Value(workQueue'[j], c)
    BY DEF ViewOrdered, NewestShown, Value, Excused
  <2>2. QED
    BY <1>3, <2>1 DEF Order, ViewOrdered, NewestShown
<1>7. QED
  BY <1>4, <1>5, <1>6 DEF Order

\* The first item is taken off, and pages show what it brings.
LEMMA DeliverKeeps ==
  ASSUME TypeOK, Order, workQueue # <<>>, workQueue' = Tail(workQueue), UNCHANGED stored,
         \A p \in Pages, c \in Slots :
           view'[p][c] = view[p][c] \/ view'[p][c] = Value(Head(workQueue), c)
  PROVE  Order'
<1> DEFINE n == Len(workQueue)
<1>1. n \in Nat /\ n # 0 /\ workQueue \in Seq(Item) /\ Head(workQueue) = workQueue[1]
  BY QueueTypes, EmptySeq
<1>2. /\ Len(workQueue') = n - 1
      /\ \A i \in 1 .. Len(workQueue') : workQueue'[i] = workQueue[i + 1]
      /\ \A i \in 1 .. Len(workQueue') : i + 1 \in 1 .. n /\ 1 < i + 1
      /\ 1 \in 1 .. n
  BY <1>1
<1>3. Bounded'
  <2>1. SUFFICES ASSUME NEW c \in Slots
                 PROVE  /\ \A p \in Pages : view'[p][c] <= stored[c]
                        /\ \A i \in 1 .. Len(workQueue') : Value(workQueue'[i], c) <= stored[c]
    BY DEF Bounded, NewestShown, NewestQueued, Value
  <2>2. QED
    BY <1>1, <1>2, <2>1 DEF Order, Bounded, NewestShown, NewestQueued
<1>4. QueueOrdered'
  <2>1. SUFFICES ASSUME NEW c \in Slots, NEW i \in 1 .. Len(workQueue'),
                        NEW j \in 1 .. Len(workQueue'), i < j,
                        Value(workQueue'[j], c) # Absent, ~Excused(workQueue'[j], c)
                 PROVE  Value(workQueue'[i], c) <= Value(workQueue'[j], c)
    BY DEF QueueOrdered, Value, Excused
  <2>2. i + 1 < j + 1 /\ i + 1 \in 1 .. n /\ j + 1 \in 1 .. n
    BY <1>1, <1>2, <2>1
  <2>3. workQueue'[i] = workQueue[i + 1] /\ workQueue'[j] = workQueue[j + 1]
    BY <1>2, <2>1
  <2>4. QED
    BY <2>1, <2>2, <2>3 DEF Order, QueueOrdered
<1>5. ViewOrdered'
  <2>1. SUFFICES ASSUME NEW c \in Slots, NEW j \in 1 .. Len(workQueue'),
                        Value(workQueue'[j], c) # Absent, ~Excused(workQueue'[j], c),
                        NEW p \in Pages
                 PROVE  view'[p][c] <= Value(workQueue'[j], c)
    BY DEF ViewOrdered, NewestShown, Value, Excused
  <2>2. j + 1 \in 1 .. n /\ 1 < j + 1 /\ workQueue'[j] = workQueue[j + 1]
    BY <1>2, <2>1
  <2>3. view[p][c] <= Value(workQueue[j + 1], c)
    BY <2>1, <2>2 DEF Order, ViewOrdered, NewestShown
  <2>4. Value(workQueue[1], c) <= Value(workQueue[j + 1], c)
    BY <1>2, <2>1, <2>2 DEF Order, QueueOrdered
  <2>5. QED
    BY <1>1, <2>1, <2>2, <2>3, <2>4
<1>6. QED
  BY <1>3, <1>4, <1>5 DEF Order

\* A page is reloaded and shows nothing.
LEMMA ClearKeeps ==
  ASSUME TypeOK, Order, UNCHANGED <<stored, workQueue>>,
         \A p \in Pages, c \in Slots : view'[p][c] = view[p][c] \/ view'[p][c] = Absent
  PROVE  Order'
<1>1. QueueOrdered'
  BY DEF Order, QueueOrdered, Value, Excused
<1>2. Bounded'
  <2>1. SUFFICES ASSUME NEW c \in Slots
                 PROVE  /\ \A p \in Pages : view'[p][c] <= stored[c]
                        /\ \A i \in 1 .. Len(workQueue) : Value(workQueue[i], c) <= stored[c]
    BY DEF Bounded, NewestShown, NewestQueued, Value
  <2>2. Absent <= stored[c]
    BY <2>1, QueueTypes DEF Absent
  <2>3. QED
    BY <2>1, <2>2 DEF Order, Bounded, NewestShown, NewestQueued
<1>3. ViewOrdered'
  <2>1. SUFFICES ASSUME NEW c \in Slots, NEW j \in 1 .. Len(workQueue),
                        Value(workQueue[j], c) # Absent, ~Excused(workQueue[j], c),
                        NEW p \in Pages
                 PROVE  view'[p][c] <= Value(workQueue[j], c)
    BY DEF ViewOrdered, NewestShown, Value, Excused
  <2>2. Absent <= Value(workQueue[j], c)
    <3>1. Value(workQueue[j], c) \in Shown
      BY <2>1, QueueTypes, ValueType
    <3>2. QED
      BY <3>1 DEF Shown, Versions, Absent
  <2>3. view[p][c] <= Value(workQueue[j], c)
    BY <2>1 DEF Order, ViewOrdered, NewestShown
  <2>4. QED
    BY <2>1, <2>2, <2>3
<1>4. QED
  BY <1>1, <1>2, <1>3 DEF Order

-----------------------------------------------------------------------------
(* The steps of the application.                                           *)

LEMMA CallTypes ==
  ASSUME TypeOK, NEW t \in Callers, task[t] # Idle
  PROVE  task[t] \in Call /\ task[t].slot \in Slots /\ task[t].ver \in Nat
<1>1. task[t] \in Call
  BY DEF TypeOK
<1>2. QED
  BY <1>1 DEF Call, Versions

LEMMA JobTypes ==
  ASSUME TypeOK, initJob # NoJob
  PROVE  /\ initJob \in InitJob
         /\ \A c \in Slots : initJob.snap[c] \in Shown /\ initJob.snap[c] \in Int
<1>1. initJob \in InitJob
  BY DEF TypeOK
<1>2. QED
  BY <1>1 DEF InitJob, Shown, Versions, Absent

\* What a step keeps that lets values grow and touches neither queue nor page.
LEMMA GrowStep ==
  ASSUME SyncInv, stored' \in [Slots -> Nat],
         \A c \in Slots : stored[c] <= stored'[c],
         UNCHANGED <<workQueue, view, initJob>>
  PROVE  Order' /\ BoundedJob' /\ JobOrdered' /\ JobUnread'
<1>1. Order'
  BY GrowKeeps DEF SyncInv
<1>2. BoundedJob'
  <2>1. SUFFICES ASSUME initJob # NoJob, NEW c \in Slots
                 PROVE  initJob.snap[c] <= stored'[c]
    BY DEF BoundedJob
  <2>2. initJob.snap[c] \in Int /\ stored[c] \in Nat /\ stored'[c] \in Nat
    BY <2>1, JobTypes, QueueTypes DEF SyncInv
  <2>3. QED
    BY <2>1, <2>2 DEF SyncInv, BoundedJob
<1>3. JobOrdered'
  BY DEF SyncInv, JobOrdered, NewestShown, NewestQueued, Value
<1>4. JobUnread'
  BY DEF SyncInv, JobUnread
<1>5. QED
  BY <1>1, <1>2, <1>3, <1>4

LEMMA AllocKeeps ==
  ASSUME SyncInv, AllocSlot
  PROVE  SyncInv'
<1>1. PICK c \in Slots \ active :
        /\ active' = active \cup {c}
        /\ task' = [task EXCEPT ![Adder] = [at |-> "naming", slot |-> c, ver |-> Blank]]
  BY DEF AllocSlot
<1>2. UNCHANGED <<named, stored, initJob, workQueue, link, view, history>>
  BY DEF AllocSlot
<1>3. Adder \in Callers
  BY SyncAssumptions DEF Callers
<1>4. TypeOK'
  <2>1. [at |-> "naming", slot |-> c, ver |-> Blank] \in Call
    BY <1>1 DEF Call, Versions, Blank
  <2>2. task' \in [Callers -> Call \cup {Idle}]
    BY <1>1, <2>1 DEF SyncInv, TypeOK
  <2>3. QED
    BY <1>1, <1>2, <2>2 DEF SyncInv, TypeOK, history
<1>5. task'[Adder] = [at |-> "naming", slot |-> c, ver |-> Blank]
  BY <1>1, <1>3 DEF SyncInv, TypeOK
<1>6. Adding'
  BY <1>1, <1>2, <1>5 DEF SyncInv, Adding
<1>7. BoundedCalls'
  BY <1>1, <1>2, <1>3, <1>5 DEF SyncInv, TypeOK, BoundedCalls
<1>8. Order' /\ BoundedJob' /\ JobOrdered' /\ JobUnread'
  <2>1. stored \in [Slots -> Nat] /\ \A d \in Slots : stored[d] <= stored[d]
    BY DEF SyncInv, TypeOK, Versions
  <2>2. QED
    BY <1>2, <2>1, GrowStep
<1>9. QED
  BY <1>4, <1>6, <1>7, <1>8 DEF SyncInv

LEMMA NameKeeps ==
  ASSUME SyncInv, NameCard
  PROVE  SyncInv'
<1> DEFINE s == task[Adder].slot
<1>1. /\ Adder \in Callers /\ task[Adder] # Idle /\ task[Adder].at = "naming"
      /\ named' = named \cup {s}
      /\ task' = [task EXCEPT ![Adder].at = "filling"]
      /\ UNCHANGED <<active, stored, initJob, workQueue, link, view, history>>
  BY SyncAssumptions DEF NameCard, Callers
<1>2. task[Adder] \in Call /\ s \in Slots /\ s \in active /\ stored[s] = Blank
  BY <1>1, CallTypes DEF SyncInv, Adding
<1>3. task'[Adder] = [task[Adder] EXCEPT !.at = "filling"]
  BY <1>1 DEF SyncInv, TypeOK
<1>4. task'[Adder] \in Call /\ task'[Adder].at = "filling" /\ task'[Adder].slot = s
  BY <1>2, <1>3 DEF Call
<1>5. \A t \in Callers \ {Adder} : task'[t] = task[t]
  BY <1>1 DEF SyncInv, TypeOK
<1>6. TypeOK'
  <2>1. task' \in [Callers -> Call \cup {Idle}]
    BY <1>1, <1>2, <1>3, <1>4 DEF SyncInv, TypeOK
  <2>2. QED
    BY <1>1, <1>2, <2>1 DEF SyncInv, TypeOK, history
<1>7. Adding'
  BY <1>1, <1>2, <1>4 DEF SyncInv, Adding
<1>8. BoundedCalls'
  BY <1>1, <1>4, <1>5 DEF SyncInv, BoundedCalls
<1>9. Order' /\ BoundedJob' /\ JobOrdered' /\ JobUnread'
  <2>1. stored \in [Slots -> Nat] /\ \A d \in Slots : stored[d] <= stored[d]
    BY DEF SyncInv, TypeOK, Versions
  <2>2. QED
    BY <1>1, <2>1, GrowStep
<1>10. QED
  BY <1>6, <1>7, <1>8, <1>9 DEF SyncInv

\* A value was blank or is replaced by the next one, so no value shrinks.
LEMMA FillKeeps ==
  ASSUME SyncInv, FillCard
  PROVE  SyncInv'
<1> DEFINE s == task[Adder].slot
<1>1. /\ Adder \in Callers /\ task[Adder] # Idle /\ task[Adder].at = "filling"
      /\ stored' = [stored EXCEPT ![s] = 1]
      /\ task' = [task EXCEPT ![Adder] = Idle]
      /\ UNCHANGED <<active, named, initJob, workQueue, link, view, history>>
  BY SyncAssumptions DEF FillCard, Callers
<1>2. s \in Slots /\ s \in active /\ stored[s] = Blank
  BY <1>1, CallTypes DEF SyncInv, Adding
<1>3. stored \in [Slots -> Nat] /\ \A d \in Slots : stored[d] <= MaxVersion[d]
  BY DEF SyncInv, TypeOK, Versions
<1>4. stored' \in [Slots -> Nat] /\ \A d \in Slots : stored[d] <= stored'[d]
  BY <1>1, <1>2, <1>3 DEF Blank
<1>5. \A d \in Slots : stored'[d] <= MaxVersion[d]
  <2>1. MaxVersion[s] \in Nat \ {0}
    BY <1>2, SyncAssumptions
  <2>2. QED
    BY <1>1, <1>2, <1>3, <2>1
<1>6. task'[Adder] = Idle /\ \A t \in Callers \ {Adder} : task'[t] = task[t]
  BY <1>1 DEF SyncInv, TypeOK
<1>7. TypeOK'
  <2>1. task' \in [Callers -> Call \cup {Idle}]
    BY <1>1 DEF SyncInv, TypeOK
  <2>2. QED
    BY <1>1, <1>4, <1>5, <2>1 DEF SyncInv, TypeOK, history, Versions
<1>8. Adding'
  BY <1>1, <1>2, <1>3, <1>6 DEF SyncInv, Adding
<1>9. BoundedCalls'
  <2>1. SUFFICES ASSUME NEW t \in Callers, task'[t] # Idle, task'[t].at = "queueing"
                 PROVE  task'[t].ver <= stored'[task'[t].slot]
    BY DEF BoundedCalls
  <2>2. task'[t] = task[t] /\ task[t].ver <= stored[task[t].slot]
    BY <1>6, <2>1 DEF SyncInv, BoundedCalls
  <2>3. task[t].slot \in Slots /\ task[t].ver \in Nat
    BY <2>1, <2>2, CallTypes DEF SyncInv
  <2>4. QED
    BY <1>3, <1>4, <2>2, <2>3
<1>10. QED
  BY <1>1, <1>4, <1>7, <1>8, <1>9, GrowStep DEF SyncInv

LEMMA WriteKeeps ==
  ASSUME SyncInv, NEW t \in Callers, NEW c \in Slots, WriteCard(t, c)
  PROVE  SyncInv'
<1> DEFINE call == [at |-> "queueing", slot |-> c, ver |-> stored[c] + 1]
<1>1. /\ task[t] = Idle
      /\ stored[c] \in 1 .. MaxVersion[c] - 1
      /\ stored' = [stored EXCEPT ![c] = stored[c] + 1]
      /\ task' = [task EXCEPT ![t] = call]
      /\ UNCHANGED <<active, named, initJob, workQueue, link, view, history>>
  BY DEF WriteCard, StoredByCall
<1>2. stored \in [Slots -> Nat] /\ \A d \in Slots : stored[d] <= MaxVersion[d]
  BY DEF SyncInv, TypeOK, Versions
<1>3. stored' \in [Slots -> Nat] /\ \A d \in Slots : stored[d] <= stored'[d]
  BY <1>1, <1>2
<1>4. \A d \in Slots : stored'[d] <= MaxVersion[d]
  <2>1. MaxVersion[c] \in Nat
    BY SyncAssumptions
  <2>2. QED
    BY <1>1, <1>2, <2>1
<1>5. task'[t] = call /\ \A u \in Callers \ {t} : task'[u] = task[u]
  BY <1>1 DEF SyncInv, TypeOK
<1>6. TypeOK'
  <2>1. call \in Call
    BY <1>1, <1>2 DEF Call, Versions
  <2>2. task' \in [Callers -> Call \cup {Idle}]
    BY <1>1, <2>1 DEF SyncInv, TypeOK
  <2>3. QED
    BY <1>1, <1>3, <1>4, <2>2 DEF SyncInv, TypeOK, history, Versions
<1>7. Adding'
  <2>1. \A d \in Slots : stored[d] = Blank => stored'[d] = Blank
    BY <1>1, <1>2 DEF Blank
  <2>2. \A d \in Slots \ active' : stored'[d] = Blank
    BY <1>1, <2>1 DEF SyncInv, Adding
  <2>3. ASSUME task'[Adder] # Idle, task'[Adder].at # "queueing"
        PROVE  task'[Adder].slot \in active' /\ stored'[task'[Adder].slot] = Blank
    <3>1. Adder \in Callers \ {t}
      BY <1>5, <2>3, SyncAssumptions DEF Callers
    <3>2. task'[Adder] = task[Adder]
      BY <1>5, <3>1
    <3>3. task[Adder].slot \in Slots
      BY <2>3, <3>1, <3>2, CallTypes DEF SyncInv
    <3>4. QED
      BY <1>1, <2>1, <2>3, <3>2, <3>3 DEF SyncInv, Adding
  <2>4. QED
    BY <2>2, <2>3 DEF Adding
<1>8. BoundedCalls'
  <2>1. SUFFICES ASSUME NEW u \in Callers, task'[u] # Idle, task'[u].at = "queueing"
                 PROVE  task'[u].ver <= stored'[task'[u].slot]
    BY DEF BoundedCalls
  <2>2. CASE u = t
    BY <1>1, <1>2, <1>5, <2>2
  <2>3. CASE u # t
    <3>1. task'[u] = task[u] /\ task[u].ver <= stored[task[u].slot]
      BY <1>5, <2>1, <2>3 DEF SyncInv, BoundedCalls
    <3>2. task[u].slot \in Slots /\ task[u].ver \in Nat
      BY <2>1, <3>1, CallTypes DEF SyncInv
    <3>3. QED
      BY <1>2, <1>3, <3>1, <3>2
  <2>4. QED
    BY <2>2, <2>3
<1>9. QED
  BY <1>1, <1>3, <1>6, <1>7, <1>8, GrowStep DEF SyncInv

\* An update that is not raced carries the stored value, which is the newest;
\* the snapshot being built either has not read the card or is overtaken.
LEMMA QueueUpdateKeeps ==
  ASSUME SyncInv, NEW t \in Callers, QueueUpdate(t)
  PROVE  SyncInv'
<1> DEFINE c == task[t].slot
           late == task[t].ver < stored[c]
           m == [type |-> "update", slot |-> c, ver |-> task[t].ver, raced |-> late]
<1>1. /\ task[t] # Idle /\ task[t].at = "queueing"
      /\ task' = [task EXCEPT ![t] = Idle]
      /\ UNCHANGED <<active, named, stored, link, view, known>>
  BY DEF QueueUpdate
<1>2. c \in Slots /\ task[t].ver \in Nat /\ stored[c] \in Nat /\ task[t].ver <= stored[c]
  <2>1. c \in Slots /\ task[t].ver \in Nat
    BY <1>1, CallTypes DEF SyncInv
  <2>2. QED
    BY <1>1, <2>1, QueueTypes DEF SyncInv, BoundedCalls
<1>3. m \in Item
  BY <1>2 DEF Item, UpdateItem, Versions
<1>4. task'[t] = Idle /\ \A u \in Callers \ {t} : task'[u] = task[u]
  BY <1>1 DEF SyncInv, TypeOK
<1>5. task' \in [Callers -> Call \cup {Idle}]
  BY <1>1 DEF SyncInv, TypeOK
<1>6. Adding'
  BY <1>1, <1>4, SyncAssumptions DEF SyncInv, Adding, Callers
<1>7. BoundedCalls'
  BY <1>1, <1>4 DEF SyncInv, BoundedCalls
<1>8. CASE ~QueueHasRoom
  <2>1. dropped' = dropped \cup {c} /\ UNCHANGED <<workQueue, raced, overtaken, initJob>>
    BY <1>8 DEF QueueUpdate
  <2>2. TypeOK'
    BY <1>1, <1>2, <1>5, <2>1 DEF SyncInv, TypeOK
  <2>3. stored \in [Slots -> Nat] /\ \A d \in Slots : stored[d] <= stored[d]
    BY DEF SyncInv, TypeOK, Versions
  <2>4. Order' /\ BoundedJob' /\ JobOrdered' /\ JobUnread'
    BY <1>1, <2>1, <2>3, GrowStep
  <2>5. QED
    BY <1>6, <1>7, <2>2, <2>4 DEF SyncInv
<1>9. CASE QueueHasRoom
  <2>1. /\ workQueue' = Append(workQueue, m)
        /\ dropped' = dropped \ {c}
        /\ raced' = IF late THEN raced \cup {c} ELSE raced \ {c}
        /\ overtaken' = [p \in Pages |-> overtaken[p] \ {c}]
        /\ initJob' = IF Outdates(c)
             THEN [initJob EXCEPT !.overtaken = initJob.overtaken \cup {c}] ELSE initJob
    BY <1>9 DEF QueueUpdate
  <2>2. initJob = NoJob => initJob' = NoJob
    BY <2>1 DEF Outdates
  <2>3. initJob # NoJob =>
          /\ initJob' \in InitJob
          /\ initJob'.snap = initJob.snap /\ initJob'.next = initJob.next
          /\ initJob.overtaken \subseteq initJob'.overtaken
          /\ initJob.next > c => c \in initJob'.overtaken
    <3>1. SUFFICES ASSUME initJob # NoJob PROVE initJob \in InitJob
      BY <1>2, <2>1, <3>1 DEF Outdates, InitJob
    <3>2. QED
      BY <3>1, JobTypes DEF SyncInv
  <2>4. TypeOK'
    <3>1. workQueue' \in Seq(Item)
      BY <1>3, <2>1, AppendProperties DEF SyncInv, TypeOK
    <3>2. initJob' \in InitJob \cup {NoJob}
      BY <2>2, <2>3
    <3>3. dropped' \in SUBSET Slots /\ raced' \in SUBSET Slots
          /\ overtaken' \in [Pages -> SUBSET Slots]
      BY <1>2, <2>1 DEF SyncInv, TypeOK
    <3>4. QED
      BY <1>1, <1>5, <3>1, <3>2, <3>3 DEF SyncInv, TypeOK
  <2>5. \A d \in Slots : Value(m, d) = IF d = c THEN task[t].ver ELSE Absent
    BY DEF Value
  <2>6. \A d \in Slots : stored[d] \in Nat /\ NewestShown(d, stored[d])
                         /\ NewestQueued(d, stored[d])
    BY QueueTypes DEF SyncInv, Order, Bounded
  <2>7. Order'
    <3>1. \A d \in Slots : Value(m, d) <= stored[d]
      BY <1>2, <2>5, <2>6 DEF Absent
    <3>2. ASSUME NEW d \in Slots, Value(m, d) # Absent, ~Excused(m, d)
          PROVE  NewestShown(d, Value(m, d)) /\ NewestQueued(d, Value(m, d))
      <4>1. d = c /\ ~late
        BY <2>5, <3>2 DEF Excused
      <4>2. Value(m, d) = stored[d]
        BY <1>2, <2>5, <4>1
      <4>3. QED
        BY <2>6, <4>2
    <3>3. QED
      BY <1>1, <1>3, <2>1, <3>1, <3>2, AppendKeeps DEF SyncInv
  <2>8. BoundedJob' /\ JobUnread'
    BY <1>1, <2>2, <2>3 DEF SyncInv, BoundedJob, JobUnread
  <2>9. JobOrdered'
    <3>1. SUFFICES ASSUME initJob' # NoJob, NEW d \in Slots, initJob'.snap[d] # Absent,
                          d \notin initJob'.overtaken
                   PROVE  /\ \A p \in Pages : view[p][d] <= initJob.snap[d]
                          /\ \A i \in 1 .. Len(workQueue') :
                               Value(workQueue'[i], d) <= initJob.snap[d]
      BY <1>1, <2>2, <2>3 DEF JobOrdered, NewestShown, NewestQueued, Value
    <3>2. /\ initJob # NoJob /\ initJob.snap[d] # Absent /\ d \notin initJob.overtaken
          /\ initJob.next > c => c # d
      BY <2>2, <2>3, <3>1
    <3>3. NewestShown(d, initJob.snap[d]) /\ NewestQueued(d, initJob.snap[d])
      BY <3>1, <3>2 DEF SyncInv, JobOrdered
    <3>4. initJob \in InitJob /\ initJob.snap[d] \in Shown
      BY <3>1, <3>2, JobTypes DEF SyncInv
    <3>5. d # c
      <4>1. initJob.next \in Int /\ c \in Int /\ d \in Int
        BY <1>2, <3>1, <3>4, SyncAssumptions DEF InitJob, Slots
      <4>2. ~(initJob.next <= d)
        BY <3>1, <3>2 DEF SyncInv, JobUnread
      <4>3. QED
        BY <3>2, <4>1, <4>2
    <3>6. Value(m, d) <= initJob.snap[d]
      BY <2>5, <3>1, <3>2, <3>4, <3>5 DEF Shown, Versions, Absent
    <3>7. \A i \in 1 .. Len(workQueue') :
            \/ workQueue'[i] = m
            \/ i \in 1 .. Len(workQueue) /\ workQueue'[i] = workQueue[i]
      <4>1. Len(workQueue) \in Nat /\ workQueue \in Seq(Item)
        BY QueueTypes DEF SyncInv
      <4>2. QED
        BY <1>3, <2>1, <4>1, AppendProperties
    <3>8. QED
      BY <3>3, <3>6, <3>7 DEF NewestShown, NewestQueued
  <2>10. QED
    BY <1>6, <1>7, <2>4, <2>7, <2>8, <2>9 DEF SyncInv
<1>10. QED
  BY <1>8, <1>9

-----------------------------------------------------------------------------
(* The steps of the server task and of the pages.                          *)

LEMMA BeginKeeps ==
  ASSUME SyncInv, NEW p \in Pages, BeginInit(p)
  PROVE  SyncInv'
<1> DEFINE job == [page |-> p, next |-> 1, snap |-> [c \in Slots |-> Absent],
                   had |-> stored, overtaken |-> {}]
<1>1. /\ initJob' = job
      /\ link' = [link EXCEPT ![p] = "asked"]
      /\ UNCHANGED <<active, named, stored, task, workQueue, view, history>>
  BY DEF BeginInit
<1>2. job \in InitJob /\ \A c \in Slots : job.snap[c] = Absent
  BY SyncAssumptions DEF InitJob, Shown, SyncInv, TypeOK
<1>3. TypeOK'
  BY <1>1, <1>2 DEF SyncInv, TypeOK, history
<1>4. Adding' /\ BoundedCalls'
  BY <1>1 DEF SyncInv, Adding, BoundedCalls
<1>5. Order'
  <2>1. stored \in [Slots -> Nat] /\ \A d \in Slots : stored[d] <= stored[d]
    BY DEF SyncInv, TypeOK, Versions
  <2>2. QED
    BY <1>1, <2>1, GrowKeeps DEF SyncInv
<1>6. BoundedJob'
  <2>1. \A c \in Slots : Absent <= stored[c]
    BY QueueTypes DEF SyncInv, Absent
  <2>2. QED
    BY <1>1, <1>2, <2>1 DEF BoundedJob
<1>7. JobOrdered' /\ JobUnread'
  BY <1>1, <1>2 DEF JobOrdered, JobUnread
<1>8. QED
  BY <1>3, <1>4, <1>5, <1>6, <1>7 DEF SyncInv

\* What is read is the newest value there is.
LEMMA ReadKeeps ==
  ASSUME SyncInv, ReadCard
  PROVE  SyncInv'
<1> DEFINE c == initJob.next
           v == IF c \in active \cap named THEN stored[c] ELSE Absent
<1>1. /\ initJob # NoJob /\ c <= MaxCards
      /\ initJob' = [initJob EXCEPT !.next = c + 1, !.snap[c] = v]
      /\ UNCHANGED <<active, named, stored, task, workQueue, link, view, history>>
  BY DEF ReadCard, MoreCards
<1>2. initJob \in InitJob /\ \A d \in Slots : initJob.snap[d] \in Int
  BY <1>1, JobTypes DEF SyncInv
<1>3. c \in Slots /\ stored[c] \in Nat /\ v \in Shown /\ c \in Int
  <2>1. c \in Slots /\ c \in Int
    BY <1>1, <1>2, SyncAssumptions DEF InitJob, Slots
  <2>2. stored[c] \in Nat
    BY <2>1, QueueTypes DEF SyncInv
  <2>3. QED
    BY <2>1, <2>2 DEF Shown, Versions
<1>4. /\ initJob' \in InitJob
      /\ initJob'.next = c + 1 /\ initJob'.overtaken = initJob.overtaken
      /\ initJob'.snap[c] = v
      /\ \A d \in Slots \ {c} : initJob'.snap[d] = initJob.snap[d]
  <2>1. c + 1 \in 1 .. MaxCards + 1
    BY <1>1, <1>3, SyncAssumptions DEF Slots
  <2>2. QED
    BY <1>1, <1>2, <1>3, <2>1 DEF InitJob
<1>5. TypeOK'
  BY <1>1, <1>4 DEF SyncInv, TypeOK, history
<1>6. Adding' /\ BoundedCalls'
  BY <1>1 DEF SyncInv, Adding, BoundedCalls
<1>7. Order'
  <2>1. stored \in [Slots -> Nat] /\ \A d \in Slots : stored[d] <= stored[d]
    BY DEF SyncInv, TypeOK, Versions
  <2>2. QED
    BY <1>1, <2>1, GrowKeeps DEF SyncInv
<1>8. BoundedJob'
  <2>1. v <= stored[c]
    BY <1>3 DEF Absent
  <2>2. QED
    BY <1>1, <1>4, <2>1 DEF SyncInv, BoundedJob
<1>9. JobOrdered'
  <2>1. SUFFICES ASSUME NEW d \in Slots, initJob'.snap[d] # Absent,
                        d \notin initJob'.overtaken
                 PROVE  NewestShown(d, initJob'.snap[d]) /\ NewestQueued(d, initJob'.snap[d])
    BY <1>1 DEF JobOrdered, NewestShown, NewestQueued, Value
  <2>2. CASE d = c
    BY <1>4, <2>1, <2>2 DEF SyncInv, Order, Bounded
  <2>3. CASE d # c
    BY <1>1, <1>4, <2>1, <2>3 DEF SyncInv, JobOrdered
  <2>4. QED
    BY <2>2, <2>3
<1>10. JobUnread'
  <2>1. SUFFICES ASSUME NEW d \in Slots, initJob'.next <= d
                 PROVE  initJob'.snap[d] = Absent
    BY DEF JobUnread
  <2>2. d # c /\ c <= d
    BY <1>3, <1>4, <2>1, SyncAssumptions DEF Slots
  <2>3. QED
    BY <1>1, <1>4, <2>1, <2>2 DEF SyncInv, JobUnread
<1>11. QED
  BY <1>5, <1>6, <1>7, <1>8, <1>9, <1>10 DEF SyncInv

LEMMA QueueInitKeeps ==
  ASSUME SyncInv, QueueInit
  PROVE  SyncInv'
<1> DEFINE m == [type |-> "init", page |-> initJob.page, snap |-> initJob.snap,
                 had |-> initJob.had, overtaken |-> initJob.overtaken]
<1>1. /\ initJob # NoJob /\ initJob' = NoJob
      /\ workQueue' = IF QueueHasRoom THEN Append(workQueue, m) ELSE workQueue
      /\ UNCHANGED <<active, named, stored, task, link, view, history>>
  BY DEF QueueInit
<1>2. m \in Item
  BY <1>1, JobTypes DEF SyncInv, InitJob, Item, InitItem
<1>3. \A c \in Slots : Value(m, c) = initJob.snap[c]
        /\ (Excused(m, c) <=> c \in initJob.overtaken)
  BY DEF Value, Excused
<1>4. workQueue' \in Seq(Item)
  BY <1>1, <1>2, AppendProperties DEF SyncInv, TypeOK
<1>5. TypeOK'
  BY <1>1, <1>4 DEF SyncInv, TypeOK, history
<1>6. Adding' /\ BoundedCalls' /\ BoundedJob' /\ JobOrdered' /\ JobUnread'
  BY <1>1 DEF SyncInv, Adding, BoundedCalls, BoundedJob, JobOrdered, JobUnread
<1>7. CASE QueueHasRoom
  <2>1. Order'
    BY <1>1, <1>2, <1>3, <1>7, AppendKeeps DEF SyncInv, BoundedJob, JobOrdered
  <2>2. QED
    BY <1>5, <1>6, <2>1 DEF SyncInv
<1>8. CASE ~QueueHasRoom
  <2>1. stored \in [Slots -> Nat] /\ \A d \in Slots : stored[d] <= stored[d]
    BY DEF SyncInv, TypeOK, Versions
  <2>2. Order'
    BY <1>1, <1>8, <2>1, GrowKeeps DEF SyncInv
  <2>3. QED
    BY <1>5, <1>6, <2>2 DEF SyncInv
<1>9. QED
  BY <1>7, <1>8

LEMMA HeadType ==
  ASSUME TypeOK, workQueue # <<>>
  PROVE  /\ Head(workQueue) \in Item /\ Tail(workQueue) \in Seq(Item)
         /\ Head(workQueue) = workQueue[1] /\ 1 \in 1 .. Len(workQueue)
         /\ Head(workQueue).type = "init" => Head(workQueue) \in InitItem
         /\ Head(workQueue).type = "update" => Head(workQueue) \in UpdateItem
<1>1. workQueue \in Seq(Item)
  BY DEF TypeOK
<1>2. Head(workQueue) \in Item /\ Tail(workQueue) \in Seq(Item)
  BY <1>1, HeadTailProperties
<1>3. Head(workQueue) = workQueue[1] /\ 1 \in 1 .. Len(workQueue)
  BY <1>1, EmptySeq
<1>4. \A m \in Item : /\ m.type = "init" => m \in InitItem
                      /\ m.type = "update" => m \in UpdateItem
  <2>1. \A m \in UpdateItem : m.type = "update"
    BY DEF UpdateItem
  <2>2. \A m \in InitItem : m.type = "init"
    BY DEF InitItem
  <2>3. QED
    BY <2>1, <2>2 DEF Item
<1>5. QED
  BY <1>2, <1>3, <1>4

\* What the steps that deliver an item have in common.
LEMMA DeliverStep ==
  ASSUME SyncInv, ServerFree, workQueue # <<>>, workQueue' = Tail(workQueue),
         UNCHANGED <<active, named, stored, task, initJob>>,
         \A p \in Pages, c \in Slots :
           view'[p][c] = view[p][c] \/ view'[p][c] = Value(Head(workQueue), c)
  PROVE  Adding' /\ BoundedCalls' /\ Order' /\ BoundedJob' /\ JobOrdered' /\ JobUnread'
<1>1. Order'
  BY DeliverKeeps DEF SyncInv
<1>2. Adding' /\ BoundedCalls'
  BY DEF SyncInv, Adding, BoundedCalls
<1>3. BoundedJob' /\ JobOrdered' /\ JobUnread'
  BY DEF ServerFree, BoundedJob, JobOrdered, JobUnread
<1>4. QED
  BY <1>1, <1>2, <1>3

\* A page that takes an initialization shows what it brings; the others are
\* left alone.
LEMMA InitShows ==
  ASSUME TypeOK, NEW p \in Pages, ExecuteInit(p)
  PROVE  /\ view' \in [Pages -> [Slots -> Shown]]
         /\ \A q \in Pages, c \in Slots :
              view'[q][c] = view[q][c] \/ view'[q][c] = Value(Head(workQueue), c)
<1> DEFINE m == Head(workQueue)
<1>1. workQueue # <<>> /\ m.type = "init"
  BY DEF ExecuteInit
<1>2. m.snap \in [Slots -> Shown]
  BY <1>1, HeadType DEF InitItem
<1>3. view' = view \/ view' = [view EXCEPT ![p] = m.snap]
  BY DEF ExecuteInit, CardsAfterInit
<1>4. view \in [Pages -> [Slots -> Shown]]
  BY DEF TypeOK
<1>5. view' \in [Pages -> [Slots -> Shown]]
  BY <1>2, <1>3, <1>4
<1>6. \A q \in Pages : view'[q] = view[q] \/ view'[q] = m.snap
  BY <1>3, <1>4
<1>7. QED
  BY <1>1, <1>5, <1>6 DEF Value

LEMMA ExecuteInitKeeps ==
  ASSUME SyncInv, NEW p \in Pages, ExecuteInit(p)
  PROVE  SyncInv'
<1> DEFINE m == Head(workQueue)
<1>1. /\ ServerFree /\ workQueue # <<>> /\ workQueue' = Tail(workQueue) /\ m.type = "init"
      /\ UNCHANGED <<active, named, stored, task, initJob, dropped, raced>>
  BY DEF ExecuteInit
<1>2. m.had \in [Slots -> Versions] /\ m.overtaken \in SUBSET Slots
  BY <1>1, HeadType DEF SyncInv, InitItem
<1>3. link' \in [Pages -> {"closed", "open", "asked", "ready"}]
  BY DEF SyncInv, TypeOK, ExecuteInit
<1>4. known' \in [Pages -> [Slots -> Versions]]
  BY <1>2 DEF SyncInv, TypeOK, ExecuteInit
<1>5. overtaken' \in [Pages -> SUBSET Slots]
  <2>1. overtaken' = overtaken \/
        overtaken' = [overtaken EXCEPT ![p] = {c \in m.overtaken : ~UpdateQueuedBehind(c)}]
    BY DEF ExecuteInit
  <2>2. {c \in m.overtaken : ~UpdateQueuedBehind(c)} \in SUBSET Slots
    BY <1>2
  <2>3. QED
    BY <2>1, <2>2 DEF SyncInv, TypeOK
<1>6. workQueue' \in Seq(Item)
  BY <1>1, HeadType DEF SyncInv
<1>7. TypeOK'
  BY <1>1, <1>3, <1>4, <1>5, <1>6, InitShows DEF SyncInv, TypeOK
<1>8. QED
  BY <1>1, <1>7, InitShows, DeliverStep DEF SyncInv

\* An update changes the card it is for, where it is shown.
LEMMA UpdateShows ==
  ASSUME TypeOK, ExecuteUpdate
  PROVE  /\ view' \in [Pages -> [Slots -> Shown]]
         /\ \A q \in Pages, c \in Slots :
              view'[q][c] = view[q][c] \/ view'[q][c] = Value(Head(workQueue), c)
<1> DEFINE m == Head(workQueue)
<1>1. /\ workQueue # <<>> /\ m.type = "update"
      /\ view' = [q \in Pages |-> Applied(q, m.slot, m.ver)]
  BY DEF ExecuteUpdate
<1>2. m.slot \in Slots /\ m.ver \in Shown
  BY <1>1, HeadType DEF UpdateItem, Shown
<1>3. ASSUME NEW q \in Pages
      PROVE  /\ view'[q] \in [Slots -> Shown]
             /\ \A c \in Slots : view'[q][c] = view[q][c] \/ view'[q][c] = Value(m, c)
  <2>1. view[q] \in [Slots -> Shown]
    BY DEF TypeOK
  <2>2. CASE view'[q] = view[q]
    BY <2>1, <2>2
  <2>3. CASE view'[q] = [view[q] EXCEPT ![m.slot] = m.ver]
    <3>1. view'[q] \in [Slots -> Shown]
      BY <1>2, <2>1, <2>3
    <3>2. ASSUME NEW c \in Slots
          PROVE  view'[q][c] = IF c = m.slot THEN m.ver ELSE view[q][c]
      BY <2>1, <2>3
    <3>3. \A c \in Slots : c = m.slot => Value(m, c) = m.ver
      BY <1>1 DEF Value
    <3>4. QED
      BY <3>1, <3>2, <3>3
  <2>4. view'[q] = view[q] \/ view'[q] = [view[q] EXCEPT ![m.slot] = m.ver]
    BY <1>1, <1>3 DEF Applied
  <2>5. QED
    BY <2>2, <2>3, <2>4
<1>4. view' \in [Pages -> [Slots -> Shown]]
  BY <1>1, <1>3
<1>5. QED
  BY <1>3, <1>4

LEMMA ExecuteUpdateKeeps ==
  ASSUME SyncInv, ExecuteUpdate
  PROVE  SyncInv'
<1>1. /\ ServerFree /\ workQueue # <<>> /\ workQueue' = Tail(workQueue)
      /\ UNCHANGED <<active, named, stored, task, initJob, link, history>>
  BY DEF ExecuteUpdate
<1>2. workQueue' \in Seq(Item)
  BY <1>1, HeadType DEF SyncInv
<1>3. TypeOK'
  BY <1>1, <1>2, UpdateShows DEF SyncInv, TypeOK, history
<1>4. QED
  BY <1>1, <1>3, UpdateShows, DeliverStep DEF SyncInv

\* What a step keeps that at most clears a page.
LEMMA PageStep ==
  ASSUME SyncInv, link' \in [Pages -> {"closed", "open", "asked", "ready"}],
         view' \in [Pages -> [Slots -> Shown]],
         \A p \in Pages, c \in Slots : view'[p][c] = view[p][c] \/ view'[p][c] = Absent,
         UNCHANGED <<active, named, stored, task, initJob, workQueue, history>>
  PROVE  SyncInv'
<1>1. TypeOK'
  BY DEF SyncInv, TypeOK, history
<1>2. Adding' /\ BoundedCalls' /\ BoundedJob' /\ JobUnread'
  BY DEF SyncInv, Adding, BoundedCalls, BoundedJob, JobUnread
<1>3. Order'
  BY ClearKeeps DEF SyncInv
<1>4. JobOrdered'
  <2>1. SUFFICES ASSUME initJob # NoJob, NEW c \in Slots, initJob.snap[c] # Absent,
                        c \notin initJob.overtaken
                 PROVE  /\ \A p \in Pages : view'[p][c] <= initJob.snap[c]
                        /\ NewestQueued(c, initJob.snap[c])
    BY DEF JobOrdered, NewestShown, NewestQueued, Value
  <2>2. NewestShown(c, initJob.snap[c]) /\ NewestQueued(c, initJob.snap[c])
    BY <2>1 DEF SyncInv, JobOrdered
  <2>3. Absent <= initJob.snap[c]
    BY <2>1, JobTypes DEF SyncInv, Shown, Versions, Absent
  <2>4. QED
    BY <2>1, <2>2, <2>3 DEF NewestShown
<1>5. QED
  BY <1>1, <1>2, <1>3, <1>4 DEF SyncInv

LEMMA ConnectKeeps ==
  ASSUME SyncInv, NEW p \in Pages, Connect(p)
  PROVE  SyncInv'
<1>1. link' \in [Pages -> {"closed", "open", "asked", "ready"}]
  BY DEF SyncInv, TypeOK, Connect
<1>2. /\ UNCHANGED <<active, named, stored, task, initJob, workQueue, view, history>>
      /\ view \in [Pages -> [Slots -> Shown]]
  BY DEF SyncInv, TypeOK, Connect
<1>3. QED
  BY <1>1, <1>2, PageStep

LEMMA DisconnectKeeps ==
  ASSUME SyncInv, NEW p \in Pages, Disconnect(p)
  PROVE  SyncInv'
<1>1. link' \in [Pages -> {"closed", "open", "asked", "ready"}]
  BY DEF SyncInv, TypeOK, Disconnect
<1>2. /\ UNCHANGED <<active, named, stored, task, initJob, workQueue, history>>
      /\ view' = view \/ view' = [view EXCEPT ![p] = [c \in Slots |-> Absent]]
      /\ view \in [Pages -> [Slots -> Shown]]
  BY DEF SyncInv, TypeOK, Disconnect
<1>3. [c \in Slots |-> Absent] \in [Slots -> Shown]
  BY DEF Shown
<1>4. view' \in [Pages -> [Slots -> Shown]]
  BY <1>2, <1>3
<1>5. \A q \in Pages, c \in Slots : view'[q][c] = view[q][c] \/ view'[q][c] = Absent
  BY <1>2
<1>6. QED
  BY <1>1, <1>2, <1>4, <1>5, PageStep

-----------------------------------------------------------------------------
(* The theorems.                                                           *)

LEMMA SyncInit == Init => SyncInv
<1>1. SUFFICES ASSUME Init PROVE SyncInv
  OBVIOUS
<1>2. TypeOK
  BY <1>1, SyncAssumptions DEF Init, TypeOK, Versions, Blank, Shown, Item
<1>3. Len(workQueue) = 0 /\ task[Adder] = Idle /\ \A t \in Callers : task[t] = Idle
  BY <1>1, SyncAssumptions DEF Init, Callers
<1>4. Adding /\ BoundedCalls
  BY <1>1, <1>3 DEF Init, Adding, BoundedCalls
<1>5. Order
  BY <1>1, <1>3 DEF Init, Order, Bounded, QueueOrdered, ViewOrdered, NewestShown,
                    NewestQueued, Absent, Blank
<1>6. BoundedJob /\ JobOrdered /\ JobUnread
  BY <1>1 DEF Init, BoundedJob, JobOrdered, JobUnread
<1>7. QED
  BY <1>2, <1>4, <1>5, <1>6 DEF SyncInv

LEMMA SyncStutters == SyncInv /\ UNCHANGED vars => SyncInv'
<1>1. SUFFICES ASSUME SyncInv, UNCHANGED vars PROVE SyncInv'
  OBVIOUS
<1>2. UNCHANGED <<active, named, stored, task, initJob, workQueue, link, view, history>>
  BY <1>1 DEF vars, history
<1>3. /\ link \in [Pages -> {"closed", "open", "asked", "ready"}]
      /\ view \in [Pages -> [Slots -> Shown]]
  BY <1>1 DEF SyncInv, TypeOK
<1>4. QED
  BY <1>1, <1>2, <1>3, PageStep

LEMMA SyncNext == SyncInv /\ [Next]_vars => SyncInv'
<1>1. SUFFICES ASSUME SyncInv, Next PROVE SyncInv'
  BY SyncStutters
<1>2. CASE \E t \in Callers : QueueUpdate(t) \/ \E c \in Slots : WriteCard(t, c)
  BY <1>1, <1>2, QueueUpdateKeeps, WriteKeeps
<1>3. CASE AllocSlot \/ NameCard \/ FillCard
  BY <1>1, <1>3, AllocKeeps, NameKeeps, FillKeeps
<1>4. CASE ReadCard \/ QueueInit \/ ExecuteUpdate
  BY <1>1, <1>4, ReadKeeps, QueueInitKeeps, ExecuteUpdateKeeps
<1>5. CASE \E p \in Pages : BeginInit(p) \/ ExecuteInit(p) \/ Connect(p) \/ Disconnect(p)
  BY <1>1, <1>5, BeginKeeps, ExecuteInitKeeps, ConnectKeeps, DisconnectKeeps
<1>6. QED
  BY <1>1, <1>2, <1>3, <1>4, <1>5 DEF Next

LEMMA SyncInvariant == Spec => []SyncInv
BY SyncInit, SyncNext, PTL DEF Spec

\* The types are kept by every interleaving of the application's tasks, the
\* callbacks, the server task and the pages (CardSync's actions).
THEOREM SyncTypeCorrect == Spec => []TypeOK
<1>1. SyncInv => TypeOK
  BY DEF SyncInv
<1>2. QED
  BY SyncInvariant, <1>1, PTL

\* A step that delivers makes a page go back only if the item says why.
LEMMA DeliveredInOrder ==
  ASSUME SyncInv, workQueue # <<>>,
         NEW p \in Pages, NEW c \in Slots,
         view'[p][c] = view[p][c] \/ view'[p][c] = Value(Head(workQueue), c),
         view'[p][c] \in 0 .. view[p][c] - 1
  PROVE  Excused(Head(workQueue), c)
<1>1. Head(workQueue) = workQueue[1] /\ 1 \in 1 .. Len(workQueue)
  BY HeadType DEF SyncInv
<1>2. view[p][c] \in Int
  BY QueueTypes DEF SyncInv
<1>3. view'[p][c] = Value(workQueue[1], c) /\ Value(workQueue[1], c) # Absent
  BY <1>1, <1>2 DEF Absent
<1>4. ~(view[p][c] <= Value(workQueue[1], c))
  BY <1>2, <1>3
<1>5. QED
  BY <1>1, <1>3, <1>4 DEF SyncInv, Order, ViewOrdered, NewestShown

LEMMA StepNotBackwards ==
  ASSUME SyncInv, [Next]_vars, NEW p \in Pages, NEW c \in Slots,
         view'[p][c] \in 0 .. view[p][c] - 1
  PROVE  /\ workQueue # <<>>
         /\ IF Head(workQueue).type = "init"
              THEN c \in Head(workQueue).overtaken
              ELSE Head(workQueue).raced
<1>1. view[p][c] \in Int
  BY QueueTypes DEF SyncInv
<1>2. CASE \E q \in Pages : ExecuteInit(q)
  <2>1. workQueue # <<>> /\ Excused(Head(workQueue), c)
    BY <1>2, InitShows, DeliveredInOrder DEF ExecuteInit, SyncInv
  <2>2. QED
    BY <2>1 DEF Excused
<1>3. CASE ExecuteUpdate
  <2>1. workQueue # <<>> /\ Excused(Head(workQueue), c)
    BY <1>3, UpdateShows, DeliveredInOrder DEF ExecuteUpdate, SyncInv
  <2>2. QED
    BY <2>1 DEF Excused
<1>4. CASE \E q \in Pages : Disconnect(q)
  <2>1. PICK q \in Pages :
          view' = view \/ view' = [view EXCEPT ![q] = [d \in Slots |-> Absent]]
    BY <1>4 DEF Disconnect
  <2>2. view'[p][c] = view[p][c] \/ view'[p][c] = Absent
    <3>1. view \in [Pages -> [Slots -> Shown]]
      BY DEF SyncInv, TypeOK
    <3>2. QED
      BY <2>1, <3>1
  <2>3. QED
    BY <1>1, <2>2 DEF Absent
<1>5. CASE UNCHANGED view
  BY <1>1, <1>5
<1>6. QED
  BY <1>2, <1>3, <1>4, <1>5 DEF Next, vars, QueueUpdate, WriteCard, AllocSlot, NameCard,
     FillCard, ReadCard, QueueInit, BeginInit, Connect

\* A page goes back to an older value only by an initialization that was read
\* before the card's last update was queued, or by an update queued when another
\* task had written a newer value (update*Card, _queueInitForFd, handleMessage).
THEOREM SyncNeverBackwards == Spec => NeverBackwards
<1>1. SyncInv /\ [Next]_vars =>
        [\A p \in Pages, c \in Slots :
           view'[p][c] \in 0 .. view[p][c] - 1 =>
             /\ workQueue # <<>>
             /\ IF Head(workQueue).type = "init"
                  THEN c \in Head(workQueue).overtaken
                  ELSE Head(workQueue).raced]_vars
  BY StepNotBackwards
<1>2. QED
  BY SyncInvariant, <1>1, PTL DEF Spec, NeverBackwards

-----------------------------------------------------------------------------
(* What a page shows in the end.                                           *)

\* A call has written card c and has not queued its update.
Pending(c) ==
  \E t \in Callers : task[t] # Idle /\ task[t].at = "queueing" /\ task[t].slot = c

\* The last update of the card was queued, and queued in time.
Settled(c) == ~Pending(c) /\ c \notin dropped \cup raced

\* An item changes what page p shows of card c.
Concerns(m, p, c) == IF m.type = "init" THEN m.page = p ELSE m.slot = c

\* A value is the stored one, or of a card that is being added.
Current(c, v, had) == v = stored[c] \/ (had[c] = Blank /\ v \in {Absent, Blank})

Brings(m, c) ==
  IF m.type = "init" THEN c \in m.overtaken \/ Current(c, m.snap[c], m.had)
                     ELSE m.ver = stored[c]

\* The last queued item that concerns a page's card brings the stored value ...
LastCurrent ==
  \A c \in Slots, p \in Pages : Settled(c) =>
    \A i \in 1 .. Len(workQueue) :
      /\ Concerns(workQueue[i], p, c)
      /\ \A j \in 1 .. Len(workQueue) : i < j => ~Concerns(workQueue[j], p, c)
      => Brings(workQueue[i], c)

\* ... or the page shows it when there is none ...
ViewCurrent ==
  \A c \in Slots, p \in Pages :
    /\ Settled(c) /\ link[p] = "ready" /\ c \notin overtaken[p]
    /\ \A j \in 1 .. Len(workQueue) : ~Concerns(workQueue[j], p, c)
    => Current(c, view[p][c], known[p])

\* ... and the initialization being built has it if it has been read.
JobCurrent ==
  initJob # NoJob => \A c \in Slots :
    Settled(c) /\ c < initJob.next /\ c \notin initJob.overtaken =>
      Current(c, initJob.snap[c], initJob.had)

\* A card that has a value has its id, and every update has a value.
Filled ==
  /\ \A c \in Slots : stored[c] # Blank => c \in active \cap named
  /\ task[Adder] # Idle /\ task[Adder].at = "filling" => task[Adder].slot \in named
Written ==
  /\ \A t \in Callers : task[t] # Idle /\ task[t].at = "queueing" => task[t].ver # Blank
  /\ \A i \in 1 .. Len(workQueue) : workQueue[i].type = "update" => workQueue[i].ver # Blank

\* A card that was there when the page asked is in its initialization.
KnownShown ==
  \A p \in Pages, c \in Slots : known[p][c] # Blank =>
    stored[c] # Blank /\ (link[p] = "ready" => view[p][c] # Absent)
QueuedHad ==
  \A i \in 1 .. Len(workQueue) : workQueue[i].type = "init" =>
    \A c \in Slots : workQueue[i].had[c] # Blank =>
      stored[c] # Blank /\ workQueue[i].snap[c] # Absent
HadRead ==
  initJob # NoJob => \A c \in Slots : initJob.had[c] # Blank =>
    stored[c] # Blank /\ (c < initJob.next => initJob.snap[c] # Absent)

RestInv ==
  /\ SyncInv
  /\ Filled /\ Written /\ KnownShown /\ QueuedHad /\ HadRead
  /\ LastCurrent /\ ViewCurrent /\ JobCurrent

LEMMA RestTypes ==
  ASSUME RestInv
  PROVE  /\ Len(workQueue) \in Nat /\ workQueue \in Seq(Item)
         /\ \A i \in 1 .. Len(workQueue) :
              /\ workQueue[i].type = "init" => workQueue[i] \in InitItem
              /\ workQueue[i].type # "init" => workQueue[i] \in UpdateItem
         /\ \A c \in Slots : stored[c] \in Nat
         /\ known \in [Pages -> [Slots -> Versions]]
<1>1. /\ workQueue \in Seq(Item) /\ Len(workQueue) \in Nat
      /\ \A i \in 1 .. Len(workQueue) : workQueue[i] \in Item
  BY QueueTypes DEF RestInv, SyncInv
<1>2. \A m \in Item : /\ m.type = "init" => m \in InitItem
                      /\ m.type # "init" => m \in UpdateItem
  <2>1. \A m \in UpdateItem : m.type = "update"
    BY DEF UpdateItem
  <2>2. \A m \in InitItem : m.type = "init"
    BY DEF InitItem
  <2>3. QED
    BY <2>1, <2>2 DEF Item
<1>3. \A c \in Slots : stored[c] \in Nat
  BY QueueTypes DEF RestInv, SyncInv
<1>4. known \in [Pages -> [Slots -> Versions]]
  BY DEF RestInv, SyncInv, TypeOK
<1>5. QED
  BY <1>1, <1>2, <1>3, <1>4

\* A blank card is nowhere shown with a value: what there is of it is current,
\* and stays so when the card is filled.
LEMMA BlankCurrent ==
  ASSUME RestInv, NEW c \in Slots, stored[c] = Blank
  PROVE  /\ \A p \in Pages : known[p][c] = Blank /\ view[p][c] \in {Absent, Blank}
         /\ \A i \in 1 .. Len(workQueue) :
              IF workQueue[i].type = "init"
                THEN workQueue[i].had[c] = Blank /\ workQueue[i].snap[c] \in {Absent, Blank}
                ELSE workQueue[i].slot # c
         /\ initJob # NoJob => initJob.had[c] = Blank /\ initJob.snap[c] \in {Absent, Blank}
<1>1. \A v \in Shown : v <= stored[c] => v \in {Absent, Blank}
  BY DEF Shown, Versions, Absent, Blank
<1>2. \A p \in Pages : view[p][c] \in Shown /\ view[p][c] <= stored[c]
  BY DEF RestInv, SyncInv, TypeOK, Order, Bounded, NewestShown
<1>3. \A i \in 1 .. Len(workQueue) : Value(workQueue[i], c) <= stored[c]
  BY DEF RestInv, SyncInv, Order, Bounded, NewestQueued
<1>4. ASSUME NEW i \in 1 .. Len(workQueue)
      PROVE  IF workQueue[i].type = "init"
                THEN workQueue[i].had[c] = Blank /\ workQueue[i].snap[c] \in {Absent, Blank}
                ELSE workQueue[i].slot # c
  <2>1. CASE workQueue[i].type = "init"
    <3>1. workQueue[i].snap[c] \in Shown /\ workQueue[i].snap[c] <= stored[c]
      BY <1>3, <2>1, RestTypes DEF InitItem, Value
    <3>2. workQueue[i].had[c] = Blank
      BY <2>1 DEF RestInv, KnownShown, QueuedHad
    <3>3. QED
      BY <1>1, <2>1, <3>1, <3>2
  <2>2. CASE workQueue[i].type # "init"
    <3>1. workQueue[i] \in UpdateItem /\ workQueue[i].ver # Blank
      BY <2>2, RestTypes DEF RestInv, Written, UpdateItem
    <3>2. workQueue[i].slot = c => workQueue[i].ver <= stored[c]
      BY <1>3, <2>2 DEF Value
    <3>3. QED
      BY <2>2, <3>1, <3>2 DEF UpdateItem, Versions, Blank
  <2>3. QED
    BY <2>1, <2>2
<1>5. ASSUME initJob # NoJob
      PROVE  initJob.had[c] = Blank /\ initJob.snap[c] \in {Absent, Blank}
  <2>1. initJob.snap[c] \in Shown /\ initJob.snap[c] <= stored[c]
    BY <1>5, JobTypes DEF RestInv, SyncInv, BoundedJob
  <2>2. initJob.had[c] = Blank
    BY <1>5 DEF RestInv, HadRead
  <2>3. QED
    BY <1>1, <2>1, <2>2
<1>6. \A p \in Pages : known[p][c] = Blank
  BY DEF RestInv, KnownShown
<1>7. QED
  BY <1>1, <1>2, <1>4, <1>5, <1>6

\* What a step keeps that touches neither queue nor page, and makes a card
\* settled only if it leaves its value alone or fills it.
LEMMA GrowRest ==
  ASSUME RestInv, stored' \in [Slots -> Nat],
         \A c \in Slots : stored[c] <= stored'[c],
         \A c \in Slots : Settled(c)' =>
           stored[c] = Blank \/ (Settled(c) /\ stored'[c] = stored[c]),
         \A p \in Pages : link'[p] = "ready" => link[p] = "ready",
         UNCHANGED <<workQueue, view, known, overtaken, initJob>>
  PROVE  KnownShown' /\ QueuedHad' /\ HadRead' /\ LastCurrent' /\ ViewCurrent' /\ JobCurrent'
<1>1. \A c \in Slots : stored[c] # Blank => stored'[c] # Blank
  BY RestTypes DEF Blank
<1>2. KnownShown' /\ QueuedHad'
  BY <1>1 DEF RestInv, KnownShown, QueuedHad
<1>3. HadRead'
  BY <1>1 DEF RestInv, HadRead
<1>4. LastCurrent'
  <2>1. SUFFICES ASSUME NEW c \in Slots, NEW p \in Pages, Settled(c)',
                        NEW i \in 1 .. Len(workQueue), Concerns(workQueue[i], p, c),
                        \A j \in 1 .. Len(workQueue) : i < j => ~Concerns(workQueue[j], p, c)
                 PROVE  Brings(workQueue[i], c)'
    BY DEF LastCurrent, Concerns
  <2>2. CASE stored[c] = Blank
    BY <2>1, <2>2, BlankCurrent DEF Concerns, Brings, Current
  <2>3. CASE Settled(c) /\ stored'[c] = stored[c]
    <3>1. Brings(workQueue[i], c)
      BY <2>1, <2>3 DEF RestInv, LastCurrent
    <3>2. QED
      BY <2>3, <3>1 DEF Brings, Current
  <2>4. QED
    BY <2>1, <2>2, <2>3
<1>5. ViewCurrent'
  <2>1. SUFFICES ASSUME NEW c \in Slots, NEW p \in Pages, Settled(c)', link[p] = "ready",
                        c \notin overtaken[p],
                        \A j \in 1 .. Len(workQueue) : ~Concerns(workQueue[j], p, c)
                 PROVE  Current(c, view[p][c], known[p])'
    BY DEF ViewCurrent, Concerns
  <2>2. CASE stored[c] = Blank
    BY <2>1, <2>2, BlankCurrent DEF Current
  <2>3. CASE Settled(c) /\ stored'[c] = stored[c]
    <3>1. Current(c, view[p][c], known[p])
      BY <2>1, <2>3 DEF RestInv, ViewCurrent
    <3>2. QED
      BY <2>3, <3>1 DEF Current
  <2>4. QED
    BY <2>1, <2>2, <2>3
<1>6. JobCurrent'
  <2>1. SUFFICES ASSUME initJob # NoJob, NEW c \in Slots, Settled(c)', c < initJob.next,
                        c \notin initJob.overtaken
                 PROVE  Current(c, initJob.snap[c], initJob.had)'
    BY DEF JobCurrent
  <2>2. CASE stored[c] = Blank
    BY <2>1, <2>2, BlankCurrent DEF Current
  <2>3. CASE Settled(c) /\ stored'[c] = stored[c]
    <3>1. Current(c, initJob.snap[c], initJob.had)
      BY <2>1, <2>3 DEF RestInv, JobCurrent
    <3>2. QED
      BY <2>3, <3>1 DEF Current
  <2>4. QED
    BY <2>1, <2>2, <2>3
<1>7. QED
  BY <1>2, <1>3, <1>4, <1>5, <1>6

\* A step of the adder, which is nowhere in an update, settles nothing.
LEMMA AddSettles ==
  ASSUME RestInv, NEW s, task' = [task EXCEPT ![Adder] = s],
         task[Adder] = Idle \/ task[Adder].at # "queueing",
         s = Idle \/ s.at # "queueing",
         UNCHANGED <<dropped, raced>>
  PROVE  /\ \A c \in Slots : Settled(c)' => Settled(c)
         /\ (UNCHANGED workQueue => Written')
<1>1. \A t \in Callers \ {Adder} : task'[t] = task[t]
  BY DEF RestInv, SyncInv, TypeOK
<1>2. Adder \in Callers /\ task'[Adder] = s
  BY SyncAssumptions DEF Callers, RestInv, SyncInv, TypeOK
<1>3. \A c \in Slots : Pending(c) => Pending(c)'
  BY <1>1, <1>2 DEF Pending
<1>4. \A c \in Slots : Settled(c)' => Settled(c)
  BY <1>3 DEF Settled
<1>5. ASSUME UNCHANGED workQueue PROVE Written'
  BY <1>1, <1>2, <1>5 DEF RestInv, Written
<1>6. QED
  BY <1>4, <1>5

LEMMA SameStored ==
  ASSUME RestInv
  PROVE  stored \in [Slots -> Nat] /\ \A c \in Slots : stored[c] <= stored[c]
BY DEF RestInv, SyncInv, TypeOK, Versions

LEMMA AllocRest ==
  ASSUME RestInv, AllocSlot
  PROVE  RestInv'
<1>1. SyncInv'
  BY AllocKeeps DEF RestInv
<1>2. /\ task[Adder] = Idle
      /\ UNCHANGED <<named, stored, initJob, workQueue, link, view, history>>
      /\ active \subseteq active'
  BY DEF AllocSlot
<1>3. PICK c \in Slots :
        task' = [task EXCEPT ![Adder] = [at |-> "naming", slot |-> c, ver |-> Blank]]
  BY DEF AllocSlot
<1>4. (\A d \in Slots : Settled(d)' => Settled(d)) /\ Written'
  BY <1>2, <1>3, AddSettles DEF history
<1>5. Filled'
  <2>1. task'[Adder] = [at |-> "naming", slot |-> c, ver |-> Blank]
    BY <1>3, SyncAssumptions DEF RestInv, SyncInv, TypeOK, Callers
  <2>2. QED
    BY <1>2, <2>1 DEF RestInv, Filled
<1>6. QED
  BY <1>1, <1>2, <1>4, <1>5, SameStored, GrowRest DEF RestInv, history

LEMMA NameRest ==
  ASSUME RestInv, NameCard
  PROVE  RestInv'
<1> DEFINE s == [task[Adder] EXCEPT !.at = "filling"]
<1>1. SyncInv'
  BY NameKeeps DEF RestInv
<1>2. /\ task[Adder] # Idle /\ task[Adder].at = "naming"
      /\ named' = named \cup {task[Adder].slot}
      /\ UNCHANGED <<active, stored, initJob, workQueue, link, view, history>>
  BY DEF NameCard
<1>3. task[Adder] \in Call /\ Adder \in Callers
  BY <1>2, CallTypes, SyncAssumptions DEF RestInv, SyncInv, Callers
<1>4. task' = [task EXCEPT ![Adder] = s]
  BY <1>3 DEF NameCard
<1>5. s.at = "filling" /\ s.slot = task[Adder].slot
  BY <1>3 DEF Call
<1>6. (\A d \in Slots : Settled(d)' => Settled(d)) /\ Written'
  BY <1>2, <1>4, <1>5, AddSettles DEF history
<1>7. Filled'
  <2>1. task'[Adder] = s
    BY <1>3, <1>4 DEF RestInv, SyncInv, TypeOK
  <2>2. QED
    BY <1>2, <1>5, <2>1 DEF RestInv, Filled
<1>8. QED
  BY <1>1, <1>2, <1>6, <1>7, SameStored, GrowRest DEF RestInv, history

LEMMA FillRest ==
  ASSUME RestInv, FillCard
  PROVE  RestInv'
<1> DEFINE s == task[Adder].slot
<1>1. SyncInv'
  BY FillKeeps DEF RestInv
<1>2. /\ Adder \in Callers /\ task[Adder] # Idle /\ task[Adder].at = "filling"
      /\ stored' = [stored EXCEPT ![s] = 1]
      /\ task' = [task EXCEPT ![Adder] = Idle]
      /\ UNCHANGED <<active, named, initJob, workQueue, link, view, history>>
  BY SyncAssumptions DEF FillCard, Callers
<1>3. s \in Slots /\ s \in active \cap named /\ stored[s] = Blank
  BY <1>2, CallTypes DEF RestInv, SyncInv, Adding, Filled
<1>4. /\ stored' \in [Slots -> Nat]
      /\ \A c \in Slots : stored[c] <= stored'[c]
      /\ \A c \in Slots : c = s \/ stored'[c] = stored[c]
  BY <1>2, <1>3, SameStored DEF Blank
<1>5. (\A d \in Slots : Settled(d)' => Settled(d)) /\ Written'
  BY <1>2, AddSettles DEF history
<1>6. Filled'
  <2>1. task'[Adder] = Idle
    BY <1>2 DEF RestInv, SyncInv, TypeOK
  <2>2. QED
    BY <1>2, <1>3, <1>4, <2>1 DEF RestInv, Filled
<1>7. \A c \in Slots : Settled(c)' =>
        stored[c] = Blank \/ (Settled(c) /\ stored'[c] = stored[c])
  BY <1>3, <1>4, <1>5
<1>8. QED
  BY <1>1, <1>2, <1>4, <1>5, <1>6, <1>7, GrowRest DEF RestInv, history

\* The card that is written is not settled until its update is queued.
LEMMA WriteRest ==
  ASSUME RestInv, NEW t \in Callers, NEW c \in Slots, WriteCard(t, c)
  PROVE  RestInv'
<1> DEFINE call == [at |-> "queueing", slot |-> c, ver |-> stored[c] + 1]
<1>1. SyncInv'
  BY WriteKeeps DEF RestInv
<1>2. /\ task[t] = Idle
      /\ stored[c] \in 1 .. MaxVersion[c] - 1
      /\ stored' = [stored EXCEPT ![c] = stored[c] + 1]
      /\ task' = [task EXCEPT ![t] = call]
      /\ UNCHANGED <<active, named, initJob, workQueue, link, view, history>>
  BY DEF WriteCard, StoredByCall
<1>3. task'[t] = call /\ \A u \in Callers \ {t} : task'[u] = task[u]
  BY <1>2 DEF RestInv, SyncInv, TypeOK
<1>4. Idle \notin {call}
  <2>1. call \in Call
    BY <1>2, SameStored DEF Call, Versions
  <2>2. QED
    BY <2>1, SyncAssumptions
<1>5. /\ stored' \in [Slots -> Nat]
      /\ \A d \in Slots : stored[d] <= stored'[d]
      /\ \A d \in Slots : d = c \/ stored'[d] = stored[d]
      /\ stored[c] + 1 # Blank /\ stored[c] # Blank
  BY <1>2, SameStored DEF Blank
<1>6. ~Settled(c)'
  BY <1>3, <1>4 DEF Settled, Pending
<1>7. \A d \in Slots : Pending(d) => Pending(d)'
  BY <1>2, <1>3 DEF Pending
<1>8. \A d \in Slots : Settled(d)' => Settled(d) /\ d # c
  BY <1>2, <1>6, <1>7 DEF Settled, history
<1>9. Written'
  BY <1>2, <1>3, <1>5 DEF RestInv, Written
<1>10. Filled'
  <2>1. task'[Adder] # Idle /\ task'[Adder].at = "filling" => task'[Adder] = task[Adder]
    BY <1>3, SyncAssumptions DEF Callers
  <2>2. QED
    BY <1>2, <1>5, <2>1 DEF RestInv, Filled
<1>11. QED
  BY <1>1, <1>2, <1>5, <1>8, <1>9, <1>10, GrowRest DEF RestInv, history

\* The update that is queued last is the stored value, unless it is raced.
LEMMA QueueUpdateRest ==
  ASSUME RestInv, NEW t \in Callers, QueueUpdate(t)
  PROVE  RestInv'
<1> DEFINE c == task[t].slot
           n == Len(workQueue)
           late == task[t].ver < stored[c]
           m == [type |-> "update", slot |-> c, ver |-> task[t].ver, raced |-> late]
<1>1. SyncInv'
  BY QueueUpdateKeeps DEF RestInv
<1>2. /\ task[t] # Idle /\ task[t].at = "queueing"
      /\ task' = [task EXCEPT ![t] = Idle]
      /\ UNCHANGED <<active, named, stored, link, view, known>>
  BY DEF QueueUpdate
<1>3. c \in Slots /\ task[t].ver \in Nat /\ stored[c] \in Nat /\ task[t].ver <= stored[c]
  <2>1. c \in Slots /\ task[t].ver \in Nat
    BY <1>2, CallTypes DEF RestInv, SyncInv
  <2>2. QED
    BY <1>2, <2>1, RestTypes DEF RestInv, SyncInv, BoundedCalls
<1>4. task'[t] = Idle /\ \A u \in Callers \ {t} : task'[u] = task[u]
  BY <1>2 DEF RestInv, SyncInv, TypeOK
<1>5. \A d \in Slots : d # c /\ Pending(d) => Pending(d)'
  BY <1>4 DEF Pending
<1>6. Filled'
  BY <1>2, <1>4, SyncAssumptions DEF RestInv, Filled, Callers
<1>7. CASE ~QueueHasRoom
  <2>1. dropped' = dropped \cup {c} /\ UNCHANGED <<workQueue, raced, overtaken, initJob>>
    BY <1>7 DEF QueueUpdate
  <2>2. \A d \in Slots : Settled(d)' => Settled(d)
    BY <1>5, <2>1 DEF Settled
  <2>3. Written'
    BY <1>4, <2>1 DEF RestInv, Written
  <2>4. QED
    BY <1>1, <1>2, <1>6, <2>1, <2>2, <2>3, SameStored, GrowRest DEF RestInv
<1>8. CASE QueueHasRoom
  <2>1. /\ workQueue' = Append(workQueue, m)
        /\ dropped' = dropped \ {c}
        /\ raced' = IF late THEN raced \cup {c} ELSE raced \ {c}
        /\ overtaken' = [p \in Pages |-> overtaken[p] \ {c}]
        /\ initJob' = IF Outdates(c)
             THEN [initJob EXCEPT !.overtaken = initJob.overtaken \cup {c}] ELSE initJob
    BY <1>8 DEF QueueUpdate
  <2>2. /\ n \in Nat /\ n + 1 \in 1 .. n + 1
        /\ Len(workQueue') = n + 1
        /\ \A i \in 1 .. n : workQueue'[i] = workQueue[i] /\ i \in 1 .. n + 1 /\ i < n + 1
        /\ workQueue'[n + 1] = m
        /\ \A i \in 1 .. n + 1 : i \in 1 .. n \/ i = n + 1
    BY <2>1, RestTypes, AppendProperties
  <2>3. \A d \in Slots : d # c /\ Settled(d)' => Settled(d)
    BY <1>5, <2>1 DEF Settled
  <2>4. \A d \in Slots : d = c /\ Settled(d)' => task[t].ver = stored[d]
    BY <1>3, <2>1 DEF Settled
  <2>5. \A d \in Slots, p \in Pages : Concerns(m, p, d) <=> d = c
    BY DEF Concerns
  <2>6. Written'
    <3>1. \A u \in Callers : task'[u] # Idle /\ task'[u].at = "queueing" => task'[u].ver # Blank
      BY <1>4 DEF RestInv, Written
    <3>2. \A i \in 1 .. n + 1 : workQueue'[i].type = "update" => workQueue'[i].ver # Blank
      BY <1>2, <2>2 DEF RestInv, Written
    <3>3. QED
      BY <2>2, <3>1, <3>2 DEF Written
  <2>7. KnownShown' /\ QueuedHad'
    <3>1. \A i \in 1 .. n + 1 : workQueue'[i].type = "init" => i \in 1 .. n
      BY <2>2
    <3>2. QED
      BY <1>2, <2>2, <3>1 DEF RestInv, KnownShown, QueuedHad
  <2>8. initJob # NoJob =>
          /\ initJob' # NoJob => initJob'.snap = initJob.snap /\ initJob'.next = initJob.next
          /\ initJob'.had = initJob.had
          /\ initJob.overtaken \subseteq initJob'.overtaken
          /\ c < initJob.next => c \in initJob'.overtaken
    <3>1. SUFFICES ASSUME initJob # NoJob PROVE initJob \in InitJob
      BY <1>3, <2>1, <3>1 DEF Outdates, InitJob, Slots
    <3>2. QED
      BY <3>1, JobTypes DEF RestInv, SyncInv
  <2>9. initJob' # NoJob => initJob # NoJob
    BY <2>1 DEF Outdates
  <2>10. HadRead'
    BY <1>2, <2>8, <2>9 DEF RestInv, HadRead
  <2>11. JobCurrent'
    BY <1>2, <2>3, <2>8, <2>9 DEF RestInv, JobCurrent, Current
  <2>12. LastCurrent'
    <3>1. SUFFICES ASSUME NEW d \in Slots, NEW p \in Pages, Settled(d)',
                          NEW i \in 1 .. n + 1, Concerns(workQueue'[i], p, d),
                          \A j \in 1 .. n + 1 : i < j => ~Concerns(workQueue'[j], p, d)
                   PROVE  Brings(workQueue[i], d)'
      BY <2>2 DEF LastCurrent, Concerns
    <3>2. CASE d = c
      <4>1. i = n + 1
        BY <2>2, <2>5, <3>1, <3>2
      <4>2. QED
        BY <1>2, <2>2, <2>4, <3>1, <3>2, <4>1 DEF Brings
    <3>3. CASE d # c
      <4>1. i \in 1 .. n /\ workQueue'[i] = workQueue[i]
        BY <2>2, <2>5, <3>1, <3>3
      <4>2. \A j \in 1 .. n : i < j => ~Concerns(workQueue[j], p, d)
        BY <2>2, <3>1
      <4>3. Brings(workQueue[i], d)
        BY <2>3, <3>1, <3>3, <4>1, <4>2 DEF RestInv, LastCurrent
      <4>4. QED
        BY <1>2, <4>1, <4>3 DEF Brings, Current
    <3>4. QED
      BY <3>2, <3>3
  <2>13. ViewCurrent'
    <3>1. SUFFICES ASSUME NEW d \in Slots, NEW p \in Pages, Settled(d)', link[p] = "ready",
                          d \notin overtaken'[p],
                          \A j \in 1 .. n + 1 : ~Concerns(workQueue'[j], p, d)
                   PROVE  Current(d, view[p][d], known[p])'
      BY <1>2, <2>2 DEF ViewCurrent, Concerns
    <3>2. d # c
      BY <2>2, <2>5, <3>1
    <3>3. d \notin overtaken[p] /\ \A j \in 1 .. n : ~Concerns(workQueue[j], p, d)
      BY <2>1, <2>2, <3>1, <3>2
    <3>4. Current(d, view[p][d], known[p])
      BY <2>3, <3>1, <3>2, <3>3 DEF RestInv, ViewCurrent
    <3>5. QED
      BY <1>2, <3>4 DEF Current
  <2>14. QED
    BY <1>1, <1>6, <2>6, <2>7, <2>10, <2>11, <2>12, <2>13 DEF RestInv
<1>9. QED
  BY <1>7, <1>8

-----------------------------------------------------------------------------
(* The steps of the server task and of the pages, again.                   *)

LEMMA BeginRest ==
  ASSUME RestInv, NEW p \in Pages, BeginInit(p)
  PROVE  RestInv'
<1>1. SyncInv'
  BY BeginKeeps DEF RestInv
<1>2. /\ initJob' = [page |-> p, next |-> 1, snap |-> [c \in Slots |-> Absent],
                     had |-> stored, overtaken |-> {}]
      /\ link' = [link EXCEPT ![p] = "asked"]
      /\ UNCHANGED <<active, named, stored, task, workQueue, view, history>>
  BY DEF BeginInit
<1>3. \A c \in Slots : ~(c < 1)
  BY SyncAssumptions DEF Slots
<1>4. \A q \in Pages : link'[q] = "ready" => link[q] = "ready"
  BY <1>2 DEF RestInv, SyncInv, TypeOK
<1>5. Filled' /\ Written'
  BY <1>2 DEF RestInv, Filled, Written
<1>6. KnownShown' /\ QueuedHad'
  BY <1>2, <1>4 DEF RestInv, KnownShown, QueuedHad, history
<1>7. HadRead'
  BY <1>2, <1>3 DEF HadRead
<1>8. \A c \in Slots : Settled(c)' => Settled(c)
  BY <1>2 DEF Settled, Pending, history
<1>9. LastCurrent'
  BY <1>2, <1>8 DEF RestInv, LastCurrent, Concerns, Brings, Current
<1>10. ViewCurrent'
  BY <1>2, <1>4, <1>8 DEF RestInv, ViewCurrent, Concerns, Current, history
<1>11. JobCurrent'
  BY <1>2, <1>3 DEF JobCurrent
<1>12. QED
  BY <1>1, <1>5, <1>6, <1>7, <1>9, <1>10, <1>11 DEF RestInv

\* What is read is the stored value, if the card has one.
LEMMA ReadRest ==
  ASSUME RestInv, ReadCard
  PROVE  RestInv'
<1> DEFINE r == initJob.next
           v == IF r \in active \cap named THEN stored[r] ELSE Absent
<1>1. SyncInv'
  BY ReadKeeps DEF RestInv
<1>2. /\ initJob # NoJob /\ r <= MaxCards
      /\ initJob' = [initJob EXCEPT !.next = r + 1, !.snap[r] = v]
      /\ UNCHANGED <<active, named, stored, task, workQueue, link, view, history>>
  BY DEF ReadCard, MoreCards
<1>3. initJob \in InitJob
  BY <1>2, JobTypes DEF RestInv, SyncInv
<1>4. r \in Slots /\ r \in Int /\ \A c \in Slots : c \in Int
  BY <1>2, <1>3, SyncAssumptions DEF InitJob, Slots
<1>5. /\ initJob'.next = r + 1 /\ initJob'.overtaken = initJob.overtaken
      /\ initJob'.had = initJob.had
      /\ initJob'.snap[r] = v
      /\ \A c \in Slots \ {r} : initJob'.snap[c] = initJob.snap[c]
  BY <1>2, <1>3, <1>4 DEF InitJob
<1>6. /\ stored[r] # Blank => v = stored[r]
      /\ v \in {stored[r], Absent}
  BY <1>4 DEF RestInv, Filled
<1>7. \A c \in Slots : c < r + 1 => c = r \/ c < r
  BY <1>4
<1>8. Filled' /\ Written'
  BY <1>2 DEF RestInv, Filled, Written
<1>9. KnownShown' /\ QueuedHad'
  BY <1>2 DEF RestInv, KnownShown, QueuedHad, history
<1>10. HadRead'
  <2>1. SUFFICES ASSUME NEW c \in Slots, initJob.had[c] # Blank
                 PROVE  stored[c] # Blank /\ (c < r + 1 => initJob'.snap[c] # Absent)
    BY <1>2, <1>5 DEF HadRead
  <2>2. stored[c] # Blank /\ stored[c] \in Nat /\ (c < r => initJob.snap[c] # Absent)
    BY <1>2, <2>1, RestTypes DEF RestInv, HadRead
  <2>3. CASE c = r
    BY <1>5, <1>6, <2>2, <2>3 DEF Absent
  <2>4. CASE c # r
    BY <1>5, <1>7, <2>2, <2>4
  <2>5. QED
    BY <2>3, <2>4
<1>11. \A c \in Slots : Settled(c)' => Settled(c)
  BY <1>2 DEF Settled, Pending, history
<1>12. LastCurrent'
  BY <1>2, <1>11 DEF RestInv, LastCurrent, Concerns, Brings, Current
<1>13. ViewCurrent'
  BY <1>2, <1>11 DEF RestInv, ViewCurrent, Concerns, Current, history
<1>14. JobCurrent'
  <2>1. SUFFICES ASSUME NEW c \in Slots, Settled(c), c < r + 1, c \notin initJob.overtaken
                 PROVE  Current(c, initJob'.snap[c], initJob.had)
    BY <1>2, <1>5, <1>11 DEF JobCurrent, Current
  <2>2. CASE c = r
    <3>1. stored[r] = Blank => initJob.had[r] = Blank
      BY <1>2, <1>4 DEF RestInv, HadRead
    <3>2. QED
      BY <1>5, <1>6, <2>2, <3>1 DEF Current
  <2>3. CASE c # r
    BY <1>2, <1>5, <1>7, <2>1, <2>3 DEF RestInv, JobCurrent
  <2>4. QED
    BY <2>2, <2>3
<1>15. QED
  BY <1>1, <1>8, <1>9, <1>10, <1>12, <1>13, <1>14 DEF RestInv

LEMMA QueueInitRest ==
  ASSUME RestInv, QueueInit
  PROVE  RestInv'
<1> DEFINE n == Len(workQueue)
           m == [type |-> "init", page |-> initJob.page, snap |-> initJob.snap,
                 had |-> initJob.had, overtaken |-> initJob.overtaken]
<1>1. SyncInv'
  BY QueueInitKeeps DEF RestInv
<1>2. /\ initJob # NoJob /\ initJob' = NoJob /\ ~(initJob.next <= MaxCards)
      /\ workQueue' = IF QueueHasRoom THEN Append(workQueue, m) ELSE workQueue
      /\ UNCHANGED <<active, named, stored, task, link, view, history>>
  BY DEF QueueInit, MoreCards
<1>3. initJob \in InitJob /\ m \in Item
  BY <1>2, JobTypes DEF RestInv, SyncInv, InitJob, Item, InitItem
<1>4. \A c \in Slots : c < initJob.next
  BY <1>2, <1>3, SyncAssumptions DEF InitJob, Slots
<1>5. HadRead' /\ JobCurrent'
  BY <1>2 DEF HadRead, JobCurrent
<1>6. Filled' /\ KnownShown'
  BY <1>2 DEF RestInv, Filled, KnownShown, history
<1>7. \A c \in Slots : Settled(c)' => Settled(c)
  BY <1>2 DEF Settled, Pending, history
<1>8. CASE ~QueueHasRoom
  <2>1. Written' /\ QueuedHad'
    BY <1>2, <1>8 DEF RestInv, Written, QueuedHad
  <2>2. LastCurrent'
    BY <1>2, <1>7, <1>8 DEF RestInv, LastCurrent, Concerns, Brings, Current
  <2>3. ViewCurrent'
    BY <1>2, <1>7, <1>8 DEF RestInv, ViewCurrent, Concerns, Current, history
  <2>4. QED
    BY <1>1, <1>5, <1>6, <2>1, <2>2, <2>3 DEF RestInv
<1>9. CASE QueueHasRoom
  <2>1. /\ n \in Nat /\ n + 1 \in 1 .. n + 1
        /\ Len(workQueue') = n + 1
        /\ \A i \in 1 .. n : workQueue'[i] = workQueue[i] /\ i \in 1 .. n + 1 /\ i < n + 1
        /\ workQueue'[n + 1] = m
        /\ \A i \in 1 .. n + 1 : i \in 1 .. n \/ i = n + 1
    BY <1>2, <1>9, RestTypes, AppendProperties
  <2>2. m.type = "init" /\ m.snap = initJob.snap /\ m.had = initJob.had
        /\ m.overtaken = initJob.overtaken
    OBVIOUS
  <2>3. Written'
    <3>1. \A i \in 1 .. n + 1 : workQueue'[i].type = "update" => i \in 1 .. n
      BY <2>1, <2>2
    <3>2. QED
      BY <1>2, <2>1, <3>1 DEF RestInv, Written
  <2>4. QueuedHad'
    <3>1. \A c \in Slots : m.had[c] # Blank => stored[c] # Blank /\ m.snap[c] # Absent
      BY <1>2, <1>4, <2>2 DEF RestInv, HadRead
    <3>2. \A i \in 1 .. n + 1 : workQueue'[i].type = "init" =>
            \A c \in Slots : workQueue'[i].had[c] # Blank =>
              stored[c] # Blank /\ workQueue'[i].snap[c] # Absent
      BY <2>1, <3>1 DEF RestInv, QueuedHad
    <3>3. QED
      BY <1>2, <2>1, <3>2 DEF QueuedHad
  <2>5. LastCurrent'
    <3>1. SUFFICES ASSUME NEW d \in Slots, NEW p \in Pages, Settled(d)',
                          NEW i \in 1 .. n + 1, Concerns(workQueue'[i], p, d),
                          \A j \in 1 .. n + 1 : i < j => ~Concerns(workQueue'[j], p, d)
                   PROVE  Brings(workQueue[i], d)'
      BY <2>1 DEF LastCurrent, Concerns
    <3>2. CASE i = n + 1
      <4>1. d \in initJob.overtaken \/ Current(d, initJob.snap[d], initJob.had)
        BY <1>2, <1>4, <1>7, <3>1 DEF RestInv, JobCurrent
      <4>2. QED
        BY <1>2, <2>1, <2>2, <3>2, <4>1 DEF Brings, Current
    <3>3. CASE i \in 1 .. n
      <4>1. \A j \in 1 .. n : i < j => ~Concerns(workQueue[j], p, d)
        BY <2>1, <3>1
      <4>2. Brings(workQueue[i], d)
        BY <1>7, <2>1, <3>1, <3>3, <4>1 DEF RestInv, LastCurrent
      <4>3. QED
        BY <1>2, <2>1, <3>3, <4>2 DEF Brings, Current
    <3>4. QED
      BY <2>1, <3>2, <3>3
  <2>6. ViewCurrent'
    <3>1. SUFFICES ASSUME NEW d \in Slots, NEW p \in Pages, Settled(d)', link[p] = "ready",
                          d \notin overtaken[p],
                          \A j \in 1 .. n + 1 : ~Concerns(workQueue'[j], p, d)
                   PROVE  Current(d, view[p][d], known[p])'
      BY <1>2, <2>1 DEF ViewCurrent, Concerns, history
    <3>2. \A j \in 1 .. n : ~Concerns(workQueue[j], p, d)
      BY <2>1, <3>1
    <3>3. Current(d, view[p][d], known[p])
      BY <1>7, <3>1, <3>2 DEF RestInv, ViewCurrent
    <3>4. QED
      BY <1>2, <3>3 DEF Current, history
  <2>7. QED
    BY <1>1, <1>5, <1>6, <2>3, <2>4, <2>5, <2>6 DEF RestInv
<1>10. QED
  BY <1>8, <1>9

\* What the steps have in common that take the first item off the queue.
LEMMA TailRest ==
  ASSUME RestInv, ServerFree, workQueue # <<>>, workQueue' = Tail(workQueue),
         UNCHANGED <<active, named, stored, task, initJob, dropped, raced>>
  PROVE  /\ Filled' /\ Written' /\ QueuedHad' /\ HadRead' /\ LastCurrent' /\ JobCurrent'
         /\ \A c \in Slots : Settled(c)' => Settled(c)
         /\ \A c \in Slots, p \in Pages :
              (\A j \in 1 .. Len(workQueue') : ~Concerns(workQueue'[j], p, c)) =>
                \A j \in 1 .. Len(workQueue) : 1 < j => ~Concerns(workQueue[j], p, c)
<1> DEFINE n == Len(workQueue)
<1>1. n \in Nat /\ n # 0 /\ workQueue \in Seq(Item)
  BY RestTypes, EmptySeq
<1>2. /\ Len(workQueue') = n - 1
      /\ \A i \in 1 .. n - 1 : workQueue'[i] = workQueue[i + 1] /\ i + 1 \in 1 .. n
      /\ \A j \in 1 .. n : 1 < j => j - 1 \in 1 .. n - 1 /\ workQueue'[j - 1] = workQueue[j]
  BY <1>1
<1>3. Filled' /\ HadRead' /\ JobCurrent'
  BY DEF RestInv, Filled, ServerFree, HadRead, JobCurrent
<1>4. Written'
  <2>1. \A i \in 1 .. n - 1 : workQueue'[i].type = "update" => workQueue'[i].ver # Blank
    BY <1>2 DEF RestInv, Written
  <2>2. QED
    BY <1>2, <2>1 DEF RestInv, Written
<1>5. QueuedHad'
  <2>1. \A i \in 1 .. n - 1 : workQueue'[i].type = "init" =>
          \A c \in Slots : workQueue'[i].had[c] # Blank =>
            stored[c] # Blank /\ workQueue'[i].snap[c] # Absent
    BY <1>2 DEF RestInv, QueuedHad
  <2>2. QED
    BY <1>2, <2>1 DEF QueuedHad
<1>6. \A c \in Slots : Settled(c)' => Settled(c)
  BY DEF Settled, Pending
<1>7. LastCurrent'
  <2>1. SUFFICES ASSUME NEW c \in Slots, NEW p \in Pages, Settled(c)',
                        NEW i \in 1 .. Len(workQueue'), Concerns(workQueue'[i], p, c),
                        \A j \in 1 .. Len(workQueue') : i < j => ~Concerns(workQueue'[j], p, c)
                 PROVE  Brings(workQueue[i], c)'
    BY DEF LastCurrent, Concerns
  <2>2. i + 1 \in 1 .. n /\ Concerns(workQueue[i + 1], p, c)
    BY <1>2, <2>1
  <2>3. \A j \in 1 .. n : i + 1 < j => ~Concerns(workQueue[j], p, c)
    <3>1. SUFFICES ASSUME NEW j \in 1 .. n, i + 1 < j PROVE ~Concerns(workQueue[j], p, c)
      OBVIOUS
    <3>2. i < j - 1 /\ 1 < j /\ j - 1 \in 1 .. n - 1
      BY <1>1, <2>1, <3>1
    <3>3. QED
      BY <1>2, <2>1, <3>2
  <2>4. Brings(workQueue[i + 1], c)
    BY <1>6, <2>1, <2>2, <2>3 DEF RestInv, LastCurrent
  <2>5. QED
    BY <1>2, <2>1, <2>4 DEF Brings, Current
<1>8. ASSUME NEW c \in Slots, NEW p \in Pages,
             \A j \in 1 .. Len(workQueue') : ~Concerns(workQueue'[j], p, c),
             NEW j \in 1 .. n, 1 < j
      PROVE  ~Concerns(workQueue[j], p, c)
  BY <1>2, <1>8
<1>9. QED
  BY <1>3, <1>4, <1>5, <1>6, <1>7, <1>8

\* A page takes the stored values from the last initialization queued for it.
LEMMA ExecuteInitRest ==
  ASSUME RestInv, NEW p \in Pages, ExecuteInit(p)
  PROVE  RestInv'
<1> DEFINE n == Len(workQueue)
           m == workQueue[1]
<1>1. SyncInv'
  BY ExecuteInitKeeps DEF RestInv
<1>2. /\ ServerFree /\ workQueue # <<>> /\ workQueue' = Tail(workQueue)
      /\ UNCHANGED <<active, named, stored, task, initJob, dropped, raced>>
  BY DEF ExecuteInit
<1>3. m = Head(workQueue) /\ 1 \in 1 .. n /\ m.type = "init" /\ m.page = p /\ m \in InitItem
  BY <1>2, HeadType DEF RestInv, SyncInv, ExecuteInit
<1>4. \/ link[p] = "closed" /\ UNCHANGED <<link, view, known, overtaken>>
      \/ /\ link[p] # "closed"
         /\ view' = [view EXCEPT ![p] = m.snap]
         /\ known' = [known EXCEPT ![p] = m.had]
         /\ overtaken' = [overtaken EXCEPT
              ![p] = {c \in m.overtaken : ~UpdateQueuedBehind(c)}]
         /\ \A q \in Pages : q # p => link'[q] = link[q]
  BY <1>3 DEF ExecuteInit, CardsAfterInit, RestInv, SyncInv, TypeOK
<1>5. \A q \in Pages : q # p =>
        link'[q] = link[q] /\ view'[q] = view[q] /\ known'[q] = known[q]
        /\ overtaken'[q] = overtaken[q]
  BY <1>4 DEF RestInv, SyncInv, TypeOK
<1>6. link[p] = "closed" =>
        link'[p] # "ready" /\ known'[p] = known[p]
  BY <1>4
<1>7. link[p] # "closed" =>
        /\ view'[p] = m.snap /\ known'[p] = m.had
        /\ overtaken'[p] = {c \in m.overtaken : ~UpdateQueuedBehind(c)}
  BY <1>4 DEF RestInv, SyncInv, TypeOK
<1>8. KnownShown'
  <2>1. SUFFICES ASSUME NEW q \in Pages, NEW c \in Slots, known'[q][c] # Blank
                 PROVE  stored[c] # Blank /\ (link'[q] = "ready" => view'[q][c] # Absent)
    BY <1>2 DEF KnownShown
  <2>2. CASE q # p
    BY <1>5, <2>1, <2>2 DEF RestInv, KnownShown
  <2>3. CASE q = p /\ link[p] = "closed"
    BY <1>6, <2>1, <2>3 DEF RestInv, KnownShown
  <2>4. CASE q = p /\ link[p] # "closed"
    BY <1>3, <1>7, <2>1, <2>4 DEF RestInv, QueuedHad
  <2>5. QED
    BY <2>2, <2>3, <2>4
<1>9. ViewCurrent'
  <2>1. SUFFICES ASSUME NEW c \in Slots, NEW q \in Pages, Settled(c)', link'[q] = "ready",
                        c \notin overtaken'[q],
                        \A j \in 1 .. Len(workQueue') : ~Concerns(workQueue'[j], q, c)
                 PROVE  Current(c, view[q][c], known[q])'
    BY DEF ViewCurrent, Concerns
  <2>2. Settled(c) /\ \A j \in 1 .. n : 1 < j => ~Concerns(workQueue[j], q, c)
    BY <1>2, <2>1, TailRest
  <2>3. CASE q # p
    <3>1. \A j \in 1 .. n : ~Concerns(workQueue[j], q, c)
      <4>1. ~Concerns(m, q, c)
        BY <1>3, <2>3 DEF Concerns
      <4>2. \A j \in 1 .. n : j = 1 \/ 1 < j
        OBVIOUS
      <4>3. QED
        BY <2>2, <4>1, <4>2
    <3>2. Current(c, view[q][c], known[q])
      BY <1>5, <2>1, <2>2, <2>3, <3>1 DEF RestInv, ViewCurrent
    <3>3. QED
      BY <1>2, <1>5, <2>3, <3>2 DEF Current
  <2>4. CASE q = p
    <3>1. link[p] # "closed"
      BY <1>6, <2>1, <2>4
    <3>2. Brings(m, c)
      BY <1>3, <2>2, <2>4 DEF RestInv, LastCurrent, Concerns
    <3>3. c \notin m.overtaken
      <4>1. SUFFICES ASSUME UpdateQueuedBehind(c) PROVE FALSE
        BY <1>7, <2>1, <2>4, <3>1
      <4>2. PICK j \in 2 .. n : workQueue[j].type = "update" /\ workQueue[j].slot = c
        BY <4>1 DEF UpdateQueuedBehind
      <4>3. j \in 1 .. n /\ 1 < j /\ Concerns(workQueue[j], q, c)
        BY <4>2 DEF Concerns
      <4>4. QED
        BY <2>2, <4>3
    <3>4. Current(c, m.snap[c], m.had)
      BY <1>3, <3>2, <3>3 DEF Brings
    <3>5. QED
      BY <1>2, <1>7, <2>4, <3>1, <3>4 DEF Current
  <2>5. QED
    BY <2>3, <2>4
<1>10. QED
  BY <1>1, <1>2, <1>8, <1>9, TailRest DEF RestInv

\* The last update of a card brings the stored value where the card is shown.
LEMMA ExecuteUpdateRest ==
  ASSUME RestInv, ExecuteUpdate
  PROVE  RestInv'
<1> DEFINE n == Len(workQueue)
           m == workQueue[1]
<1>1. SyncInv'
  BY ExecuteUpdateKeeps DEF RestInv
<1>2. /\ ServerFree /\ workQueue # <<>> /\ workQueue' = Tail(workQueue)
      /\ UNCHANGED <<active, named, stored, task, initJob, link, history>>
  BY DEF ExecuteUpdate
<1>3. /\ m = Head(workQueue) /\ 1 \in 1 .. n /\ m.type = "update" /\ m \in UpdateItem
      /\ m.slot \in Slots /\ m.ver \in Nat
      /\ view' = [q \in Pages |-> Applied(q, m.slot, m.ver)]
  BY <1>2, HeadType DEF RestInv, SyncInv, ExecuteUpdate, UpdateItem, Versions
<1>4. ASSUME NEW q \in Pages, NEW c \in Slots
      PROVE  /\ c # m.slot => view'[q][c] = view[q][c]
             /\ c = m.slot /\ link[q] # "closed" =>
                  view'[q][c] = IF view[q][c] = Absent THEN Absent ELSE m.ver
  <2>1. view'[q] = Applied(q, m.slot, m.ver) /\ view[q] \in [Slots -> Shown]
    BY <1>3 DEF RestInv, SyncInv, TypeOK
  <2>2. QED
    BY <1>3, <2>1 DEF Applied
<1>5. KnownShown'
  <2>1. SUFFICES ASSUME NEW q \in Pages, NEW c \in Slots, known[q][c] # Blank
                 PROVE  stored[c] # Blank /\ (link[q] = "ready" => view'[q][c] # Absent)
    BY <1>2 DEF KnownShown, history
  <2>2. stored[c] # Blank /\ (link[q] = "ready" => view[q][c] # Absent)
    BY <2>1 DEF RestInv, KnownShown
  <2>3. QED
    BY <1>3, <1>4, <2>2 DEF Absent
<1>6. ViewCurrent'
  <2>1. SUFFICES ASSUME NEW c \in Slots, NEW q \in Pages, Settled(c)', link[q] = "ready",
                        c \notin overtaken[q],
                        \A j \in 1 .. Len(workQueue') : ~Concerns(workQueue'[j], q, c)
                 PROVE  Current(c, view[q][c], known[q])'
    BY <1>2 DEF ViewCurrent, Concerns, history
  <2>2. Settled(c) /\ \A j \in 1 .. n : 1 < j => ~Concerns(workQueue[j], q, c)
    BY <1>2, <2>1, TailRest DEF history
  <2>3. CASE c = m.slot
    <3>1. m.ver = stored[c]
      <4>1. Brings(m, c)
        BY <1>3, <2>2, <2>3 DEF RestInv, LastCurrent, Concerns
      <4>2. QED
        BY <1>3, <4>1 DEF Brings
    <3>2. view[q][c] = Absent => known[q][c] = Blank
      BY <2>1 DEF RestInv, KnownShown
    <3>3. QED
      BY <1>2, <1>4, <2>1, <2>3, <3>1, <3>2 DEF Current, history
  <2>4. CASE c # m.slot
    <3>1. \A j \in 1 .. n : ~Concerns(workQueue[j], q, c)
      <4>1. ~Concerns(m, q, c)
        BY <1>3, <2>4 DEF Concerns
      <4>2. \A j \in 1 .. n : j = 1 \/ 1 < j
        OBVIOUS
      <4>3. QED
        BY <2>2, <4>1, <4>2
    <3>2. Current(c, view[q][c], known[q])
      BY <2>1, <2>2, <3>1 DEF RestInv, ViewCurrent
    <3>3. QED
      BY <1>2, <1>4, <2>4, <3>2 DEF Current, history
  <2>5. QED
    BY <2>3, <2>4
<1>7. QED
  BY <1>1, <1>2, <1>5, <1>6, TailRest DEF RestInv, history

\* A page that has lost its connection promises nothing until it is
\* initialized again.
LEMMA PageRest ==
  ASSUME RestInv, SyncInv',
         UNCHANGED <<active, named, stored, task, initJob, workQueue, history>>,
         \A q \in Pages : link'[q] = "ready" => link[q] = "ready" /\ view'[q] = view[q]
  PROVE  RestInv'
<1>1. Filled' /\ Written' /\ QueuedHad' /\ HadRead'
  BY DEF RestInv, Filled, Written, QueuedHad, HadRead
<1>2. KnownShown'
  BY DEF RestInv, KnownShown, history
<1>3. \A c \in Slots : Settled(c)' => Settled(c)
  BY DEF Settled, Pending, history
<1>4. LastCurrent'
  BY <1>3 DEF RestInv, LastCurrent, Concerns, Brings, Current
<1>5. ViewCurrent'
  BY <1>3 DEF RestInv, ViewCurrent, Concerns, Current, history
<1>6. JobCurrent'
  BY <1>3 DEF RestInv, JobCurrent, Current
<1>7. QED
  BY <1>1, <1>2, <1>4, <1>5, <1>6 DEF RestInv

LEMMA ConnectRest ==
  ASSUME RestInv, NEW p \in Pages, Connect(p)
  PROVE  RestInv'
<1>1. SyncInv'
  BY ConnectKeeps DEF RestInv
<1>2. \A q \in Pages : link'[q] = "ready" => link[q] = "ready" /\ view'[q] = view[q]
  BY DEF Connect, RestInv, SyncInv, TypeOK
<1>3. QED
  BY <1>1, <1>2, PageRest DEF Connect

LEMMA DisconnectRest ==
  ASSUME RestInv, NEW p \in Pages, Disconnect(p)
  PROVE  RestInv'
<1>1. SyncInv'
  BY DisconnectKeeps DEF RestInv
<1>2. \A q \in Pages : link'[q] = "ready" => link[q] = "ready" /\ view'[q] = view[q]
  BY DEF Disconnect, RestInv, SyncInv, TypeOK
<1>3. QED
  BY <1>1, <1>2, PageRest DEF Disconnect

LEMMA RestInit == Init => RestInv
<1>1. SUFFICES ASSUME Init PROVE RestInv
  OBVIOUS
<1>2. SyncInv
  BY <1>1, SyncInit
<1>3. Len(workQueue) = 0 /\ \A t \in Callers : task[t] = Idle
  BY <1>1 DEF Init
<1>4. Filled /\ Written
  BY <1>1, <1>3, SyncAssumptions DEF Init, Filled, Written, Callers
<1>5. KnownShown /\ QueuedHad /\ HadRead
  BY <1>1, <1>3 DEF Init, KnownShown, QueuedHad, HadRead
<1>6. LastCurrent /\ ViewCurrent /\ JobCurrent
  BY <1>1, <1>3 DEF Init, LastCurrent, ViewCurrent, JobCurrent
<1>7. QED
  BY <1>2, <1>4, <1>5, <1>6 DEF RestInv

LEMMA RestNext == RestInv /\ [Next]_vars => RestInv'
<1>1. ASSUME RestInv, UNCHANGED vars PROVE RestInv'
  <2>1. SyncInv'
    BY <1>1, SyncStutters DEF RestInv
  <2>2. QED
    BY <1>1, <2>1, PageRest DEF vars, history
<1>2. SUFFICES ASSUME RestInv, Next PROVE RestInv'
  BY <1>1
<1>3. CASE \E t \in Callers : QueueUpdate(t) \/ \E c \in Slots : WriteCard(t, c)
  BY <1>2, <1>3, QueueUpdateRest, WriteRest
<1>4. CASE AllocSlot \/ NameCard \/ FillCard
  BY <1>2, <1>4, AllocRest, NameRest, FillRest
<1>5. CASE ReadCard \/ QueueInit \/ ExecuteUpdate
  BY <1>2, <1>5, ReadRest, QueueInitRest, ExecuteUpdateRest
<1>6. CASE \E p \in Pages : BeginInit(p) \/ ExecuteInit(p) \/ Connect(p) \/ Disconnect(p)
  BY <1>2, <1>6, BeginRest, ExecuteInitRest, ConnectRest, DisconnectRest
<1>7. QED
  BY <1>2, <1>3, <1>4, <1>5, <1>6 DEF Next

-----------------------------------------------------------------------------
(* What an initialization repairs.                                         *)

\* An update of the card that was queued while its value was stored.
Timely(m, c) == m.type = "update" /\ m.slot = c /\ ~m.raced

\* A page asked when nothing newer was stored than is now, or than what the
\* updates bring that are still to come.
AskedOrdered ==
  /\ \A p \in Pages, c \in Slots :
       /\ known[p][c] <= stored[c]
       /\ \A j \in 1 .. Len(workQueue) :
            Timely(workQueue[j], c) => known[p][c] <= workQueue[j].ver
  /\ \A i \in 1 .. Len(workQueue), c \in Slots : workQueue[i].type = "init" =>
       /\ workQueue[i].had[c] <= stored[c]
       /\ \A j \in 1 .. Len(workQueue) : i < j /\ Timely(workQueue[j], c) =>
            workQueue[i].had[c] <= workQueue[j].ver
  /\ initJob # NoJob => \A c \in Slots : initJob.had[c] <= stored[c]

\* A value v is not older than what was stored when the page asked.
NotOlder(v, had) == had = Blank \/ had <= v

\* An initialization has what was stored when the page asked, or newer values.
SnapsFresh ==
  /\ \A i \in 1 .. Len(workQueue), c \in Slots : workQueue[i].type = "init" =>
       NotOlder(workQueue[i].snap[c], workQueue[i].had[c])
  /\ initJob # NoJob => \A c \in Slots : c < initJob.next =>
       NotOlder(initJob.snap[c], initJob.had[c])

\* A raced update is repaired by a later one, or is the card's last.
RacedRepaired ==
  \A c \in Slots : \A i \in 1 .. Len(workQueue) :
    workQueue[i].type = "update" /\ workQueue[i].slot = c /\ workQueue[i].raced =>
      c \in raced \/ \E j \in 1 .. Len(workQueue) : i < j /\ Timely(workQueue[j], c)

\* A page shows nothing older than when it asked, once raced updates are repaired.
ViewFresh ==
  \A p \in Pages, c \in Slots : link[p] = "ready" =>
    \/ NotOlder(view[p][c], known[p][c])
    \/ c \in raced
    \/ \E j \in 1 .. Len(workQueue) : Timely(workQueue[j], c)

Fresh == AskedOrdered /\ SnapsFresh /\ RacedRepaired /\ ViewFresh

FreshInv == RestInv /\ Fresh

LEMMA FreshTypes ==
  ASSUME RestInv
  PROVE  /\ \A c \in Slots : stored[c] \in Nat
         /\ \A p \in Pages, c \in Slots : known[p][c] \in Nat /\ view[p][c] \in Int
         /\ \A i \in 1 .. Len(workQueue), c \in Slots : workQueue[i].type = "init" =>
              workQueue[i].had[c] \in Nat /\ workQueue[i].snap[c] \in Int
         /\ \A i \in 1 .. Len(workQueue), c \in Slots :
              Timely(workQueue[i], c) => workQueue[i].ver \in Nat
         /\ initJob # NoJob => \A c \in Slots :
              initJob.had[c] \in Nat /\ initJob.snap[c] \in Int
<1>1. \A p \in Pages, c \in Slots : known[p][c] \in Nat /\ view[p][c] \in Int
  BY RestTypes, QueueTypes DEF RestInv, SyncInv, Versions
<1>2. \A m \in InitItem, c \in Slots : m.had[c] \in Nat /\ m.snap[c] \in Int
  BY DEF InitItem, Versions, Shown, Absent
<1>3. \A m \in UpdateItem : m.ver \in Nat
  BY DEF UpdateItem, Versions
<1>4. \A i \in 1 .. Len(workQueue), c \in Slots :
        Timely(workQueue[i], c) => workQueue[i] \in UpdateItem
  BY RestTypes DEF Timely
<1>5. initJob # NoJob => \A c \in Slots : initJob.had[c] \in Nat /\ initJob.snap[c] \in Int
  BY JobTypes DEF RestInv, SyncInv, InitJob, Versions
<1>6. QED
  BY <1>1, <1>2, <1>3, <1>4, <1>5, RestTypes

\* What a step keeps that lets values grow and changes neither the queue nor
\* what was read: a page may close, or ask again.
LEMMA GrowFresh ==
  ASSUME FreshInv, RestInv',
         \A c \in Slots : stored[c] <= stored'[c],
         \A p \in Pages : link'[p] = "ready" => link[p] = "ready" /\ view'[p] = view[p],
         UNCHANGED <<workQueue, known, raced, initJob>>
  PROVE  Fresh'
<1>1. \A c \in Slots : stored[c] \in Nat /\ stored'[c] \in Nat
  BY FreshTypes, RestTypes DEF FreshInv, RestInv, SyncInv, TypeOK, Versions
<1>2. AskedOrdered'
  <2>1. \A p \in Pages, c \in Slots : known[p][c] <= stored'[c]
    BY <1>1, FreshTypes DEF FreshInv, Fresh, AskedOrdered
  <2>2. \A i \in 1 .. Len(workQueue), c \in Slots : workQueue[i].type = "init" =>
          workQueue[i].had[c] <= stored'[c]
    BY <1>1, FreshTypes DEF FreshInv, Fresh, AskedOrdered
  <2>3. initJob # NoJob => \A c \in Slots : initJob.had[c] <= stored'[c]
    BY <1>1, FreshTypes DEF FreshInv, Fresh, AskedOrdered
  <2>4. QED
    BY <2>1, <2>2, <2>3 DEF FreshInv, Fresh, AskedOrdered
<1>3. SnapsFresh' /\ RacedRepaired' /\ ViewFresh'
  BY DEF FreshInv, Fresh, SnapsFresh, RacedRepaired, ViewFresh
<1>4. QED
  BY <1>2, <1>3 DEF Fresh

\* The steps of the tasks that queue nothing, and of the pages.
LEMMA QuietFresh ==
  ASSUME FreshInv, RestInv',
         \/ AllocSlot \/ NameCard \/ FillCard
         \/ \E t \in Callers, c \in Slots : WriteCard(t, c)
         \/ \E p \in Pages : Connect(p) \/ Disconnect(p)
         \/ UNCHANGED vars
  PROVE  Fresh'
<1>1. UNCHANGED <<workQueue, known, raced, initJob>>
  BY DEF AllocSlot, NameCard, FillCard, WriteCard, Connect, Disconnect, vars, history
<1>2. \A p \in Pages : link'[p] = "ready" => link[p] = "ready" /\ view'[p] = view[p]
  BY DEF AllocSlot, NameCard, FillCard, WriteCard, Connect, Disconnect, vars,
     FreshInv, RestInv, SyncInv, TypeOK
<1>3. \A c \in Slots : stored[c] <= stored'[c]
  <2>1. stored \in [Slots -> Nat]
    BY SameStored DEF FreshInv
  <2>2. CASE FillCard
    <3>1. Adder \in Callers
      BY SyncAssumptions DEF Callers
    <3>2. task[Adder].slot \in Slots /\ stored[task[Adder].slot] = Blank
      BY <2>2, <3>1, CallTypes DEF FillCard, FreshInv, RestInv, SyncInv, Adding
    <3>3. QED
      BY <2>1, <2>2, <3>2 DEF FillCard, Blank
  <2>3. CASE \E t \in Callers, c \in Slots : WriteCard(t, c)
    BY <2>1, <2>3 DEF WriteCard, StoredByCall
  <2>4. CASE UNCHANGED stored
    BY <2>1, <2>4
  <2>5. QED
    BY <2>2, <2>3, <2>4 DEF AllocSlot, NameCard, Connect, Disconnect, vars
<1>4. QED
  BY <1>1, <1>2, <1>3, GrowFresh

\* A timely update brings the stored value, which is not older than anything.
LEMMA QueueUpdateFresh ==
  ASSUME FreshInv, RestInv', NEW t \in Callers, QueueUpdate(t)
  PROVE  Fresh'
<1> DEFINE c == task[t].slot
           n == Len(workQueue)
           late == task[t].ver < stored[c]
           m == [type |-> "update", slot |-> c, ver |-> task[t].ver, raced |-> late]
<1>1. RestInv /\ task[t] # Idle /\ task[t].at = "queueing"
      /\ UNCHANGED <<stored, link, view, known>>
  BY DEF QueueUpdate, FreshInv
<1>2. c \in Slots /\ task[t].ver \in Nat /\ stored[c] \in Nat /\ task[t].ver <= stored[c]
  <2>1. c \in Slots /\ task[t].ver \in Nat
    BY <1>1, CallTypes DEF RestInv, SyncInv
  <2>2. QED
    BY <1>1, <2>1, RestTypes DEF RestInv, SyncInv, BoundedCalls
<1>3. CASE ~QueueHasRoom
  <2>1. UNCHANGED <<workQueue, raced, initJob>>
    BY <1>3 DEF QueueUpdate
  <2>2. \A d \in Slots : stored[d] <= stored[d]
    BY <1>1, SameStored
  <2>3. QED
    BY <1>1, <2>1, <2>2, GrowFresh
<1>4. CASE QueueHasRoom
  <2>1. /\ workQueue' = Append(workQueue, m)
        /\ raced' = IF late THEN raced \cup {c} ELSE raced \ {c}
        /\ initJob' = IF Outdates(c)
             THEN [initJob EXCEPT !.overtaken = initJob.overtaken \cup {c}] ELSE initJob
    BY <1>4 DEF QueueUpdate
  <2>2. /\ n \in Nat /\ n + 1 \in 1 .. n + 1
        /\ Len(workQueue') = n + 1
        /\ \A i \in 1 .. n : workQueue'[i] = workQueue[i] /\ i \in 1 .. n + 1 /\ i < n + 1
        /\ workQueue'[n + 1] = m
        /\ \A i \in 1 .. n + 1 : i \in 1 .. n \/ i = n + 1
    BY <1>1, <2>1, RestTypes, AppendProperties
  <2>3. /\ initJob' # NoJob => initJob # NoJob
        /\ initJob # NoJob => initJob'.had = initJob.had /\ initJob'.snap = initJob.snap
                              /\ initJob'.next = initJob.next
    <3>1. initJob # NoJob => initJob \in InitJob
      BY <1>1, JobTypes DEF RestInv, SyncInv
    <3>2. QED
      BY <2>1, <3>1 DEF Outdates, InitJob
  <2>4. \A d \in Slots : Timely(m, d) => d = c /\ ~late /\ m.ver = stored[c]
    <3>1. \A d \in Slots : Timely(m, d) => d = c /\ ~late
      BY DEF Timely
    <3>2. ~late => task[t].ver = stored[c]
      BY <1>2
    <3>3. QED
      BY <3>1, <3>2
  <2>11. ~late => Timely(m, c)
    BY Zenon DEF Timely
  <2>12. m.raced => late
    BY Zenon
  <2>5. \A d \in Slots : d # c => (d \in raced' <=> d \in raced)
    BY <2>1
  <2>6. AskedOrdered'
    <3>1. \A p \in Pages, d \in Slots :
            /\ known[p][d] <= stored[d]
            /\ \A j \in 1 .. n + 1 :
                 Timely(workQueue'[j], d) => known[p][d] <= workQueue'[j].ver
      BY <2>2, <2>4 DEF FreshInv, Fresh, AskedOrdered
    <3>2. \A i \in 1 .. n + 1, d \in Slots : workQueue'[i].type = "init" =>
            /\ workQueue'[i].had[d] <= stored[d]
            /\ \A j \in 1 .. n + 1 : i < j /\ Timely(workQueue'[j], d) =>
                 workQueue'[i].had[d] <= workQueue'[j].ver
      <4>1. SUFFICES ASSUME NEW i \in 1 .. n + 1, NEW d \in Slots, workQueue'[i].type = "init"
                     PROVE  /\ workQueue'[i].had[d] <= stored[d]
                            /\ \A j \in 1 .. n + 1 : i < j /\ Timely(workQueue'[j], d) =>
                                 workQueue'[i].had[d] <= workQueue'[j].ver
        OBVIOUS
      <4>2. i \in 1 .. n /\ workQueue'[i] = workQueue[i]
        BY <2>2, <4>1
      <4>3. QED
        BY <2>2, <2>4, <4>1, <4>2 DEF FreshInv, Fresh, AskedOrdered
    <3>3. initJob' # NoJob => \A d \in Slots : initJob'.had[d] <= stored[d]
      BY <2>3 DEF FreshInv, Fresh, AskedOrdered
    <3>4. QED
      BY <1>1, <2>2, <3>1, <3>2, <3>3 DEF AskedOrdered
  <2>7. SnapsFresh'
    <3>1. \A i \in 1 .. n + 1, d \in Slots : workQueue'[i].type = "init" =>
            NotOlder(workQueue'[i].snap[d], workQueue'[i].had[d])
      BY <2>2 DEF FreshInv, Fresh, SnapsFresh
    <3>2. QED
      BY <2>2, <2>3, <3>1 DEF FreshInv, Fresh, SnapsFresh
  <2>8. RacedRepaired'
    <3>1. SUFFICES ASSUME NEW d \in Slots, NEW i \in 1 .. n + 1,
                          workQueue'[i].type = "update", workQueue'[i].slot = d,
                          workQueue'[i].raced
                   PROVE  d \in raced' \/ \E j \in 1 .. n + 1 : i < j /\ Timely(workQueue'[j], d)
      BY <2>2 DEF RacedRepaired
    <3>2. CASE d = c /\ late
      BY <2>1, <3>2
    <3>3. CASE d = c /\ ~late
      <4>1. Timely(workQueue'[n + 1], d)
        BY <2>2, <2>11, <3>3
      <4>2. i # n + 1
        BY <2>2, <2>12, <3>1, <3>3
      <4>3. QED
        BY <2>2, <4>1, <4>2
    <3>4. CASE d # c
      <4>1. i \in 1 .. n /\ workQueue'[i] = workQueue[i]
        BY <2>2, <3>1, <3>4
      <4>2. d \in raced \/ \E j \in 1 .. n : i < j /\ Timely(workQueue[j], d)
        BY <3>1, <4>1 DEF FreshInv, Fresh, RacedRepaired
      <4>3. QED
        BY <2>2, <2>5, <3>4, <4>2
    <3>5. QED
      BY <3>2, <3>3, <3>4
  <2>9. ViewFresh'
    <3>1. SUFFICES ASSUME NEW p \in Pages, NEW d \in Slots, link[p] = "ready"
                   PROVE  \/ NotOlder(view[p][d], known[p][d])
                          \/ d \in raced'
                          \/ \E j \in 1 .. n + 1 : Timely(workQueue'[j], d)
      BY <1>1, <2>2 DEF ViewFresh
    <3>2. CASE d = c
      BY <2>1, <2>2, <2>11, <3>2
    <3>3. CASE d # c
      BY <2>2, <2>5, <3>1, <3>3 DEF FreshInv, Fresh, ViewFresh
    <3>4. QED
      BY <3>2, <3>3
  <2>10. QED
    BY <2>6, <2>7, <2>8, <2>9 DEF Fresh
<1>5. QED
  BY <1>3, <1>4

LEMMA BeginFresh ==
  ASSUME FreshInv, RestInv', NEW p \in Pages, BeginInit(p)
  PROVE  Fresh'
<1>1. /\ initJob' = [page |-> p, next |-> 1, snap |-> [c \in Slots |-> Absent],
                     had |-> stored, overtaken |-> {}]
      /\ link' = [link EXCEPT ![p] = "asked"]
      /\ UNCHANGED <<stored, workQueue, view, history>>
  BY DEF BeginInit
<1>2. \A c \in Slots : ~(c < 1) /\ stored[c] <= stored[c]
  BY SameStored, SyncAssumptions DEF Slots, FreshInv
<1>3. \A q \in Pages : link'[q] = "ready" => link[q] = "ready"
  BY <1>1 DEF FreshInv, RestInv, SyncInv, TypeOK
<1>4. AskedOrdered' /\ SnapsFresh'
  BY <1>1, <1>2 DEF FreshInv, Fresh, AskedOrdered, SnapsFresh, history
<1>5. RacedRepaired' /\ ViewFresh'
  BY <1>1, <1>3 DEF FreshInv, Fresh, RacedRepaired, ViewFresh, history
<1>6. QED
  BY <1>4, <1>5 DEF Fresh

\* What is read is stored later than the page asked.
LEMMA ReadFresh ==
  ASSUME FreshInv, RestInv', ReadCard
  PROVE  Fresh'
<1> DEFINE r == initJob.next
           v == IF r \in active \cap named THEN stored[r] ELSE Absent
<1>1. /\ initJob # NoJob /\ r <= MaxCards
      /\ initJob' = [initJob EXCEPT !.next = r + 1, !.snap[r] = v]
      /\ UNCHANGED <<active, named, stored, task, workQueue, link, view, history>>
  BY DEF ReadCard, MoreCards
<1>2. initJob \in InitJob
  BY <1>1, JobTypes DEF FreshInv, RestInv, SyncInv
<1>3. r \in Slots /\ r \in Int /\ \A c \in Slots : c \in Int
  BY <1>1, <1>2, SyncAssumptions DEF InitJob, Slots
<1>4. /\ initJob'.next = r + 1 /\ initJob'.had = initJob.had
      /\ initJob'.snap[r] = v
      /\ \A c \in Slots \ {r} : initJob'.snap[c] = initJob.snap[c]
  BY <1>1, <1>2, <1>3 DEF InitJob
<1>5. AskedOrdered' /\ RacedRepaired' /\ ViewFresh'
  BY <1>1, <1>4 DEF FreshInv, Fresh, AskedOrdered, RacedRepaired, ViewFresh, history
<1>6. \A c \in Slots : c < r + 1 => NotOlder(initJob'.snap[c], initJob.had[c])
  <2>1. SUFFICES ASSUME NEW c \in Slots, c < r + 1, initJob.had[c] # Blank
                 PROVE  initJob.had[c] <= initJob'.snap[c]
    BY DEF NotOlder
  <2>2. CASE c = r
    <3>1. stored[r] # Blank /\ initJob.had[r] <= stored[r]
      BY <1>1, <1>3, <2>1, <2>2 DEF FreshInv, RestInv, HadRead, Fresh, AskedOrdered
    <3>2. v = stored[r]
      BY <1>3, <3>1 DEF FreshInv, RestInv, Filled
    <3>3. QED
      BY <1>4, <2>2, <3>1, <3>2
  <2>3. CASE c # r
    <3>1. c < r /\ initJob'.snap[c] = initJob.snap[c]
      BY <1>3, <1>4, <2>1, <2>3
    <3>2. QED
      BY <1>1, <2>1, <3>1 DEF FreshInv, Fresh, SnapsFresh, NotOlder
  <2>4. QED
    BY <2>2, <2>3
<1>7. SnapsFresh'
  BY <1>1, <1>4, <1>6 DEF FreshInv, Fresh, SnapsFresh
<1>8. QED
  BY <1>5, <1>7 DEF Fresh

LEMMA QueueInitFresh ==
  ASSUME FreshInv, RestInv', QueueInit
  PROVE  Fresh'
<1> DEFINE n == Len(workQueue)
           m == [type |-> "init", page |-> initJob.page, snap |-> initJob.snap,
                 had |-> initJob.had, overtaken |-> initJob.overtaken]
<1>1. /\ initJob # NoJob /\ initJob' = NoJob /\ ~(initJob.next <= MaxCards)
      /\ workQueue' = IF QueueHasRoom THEN Append(workQueue, m) ELSE workQueue
      /\ UNCHANGED <<active, named, stored, task, link, view, history>>
  BY DEF QueueInit, MoreCards
<1>2. initJob \in InitJob /\ m \in Item
  BY <1>1, JobTypes DEF FreshInv, RestInv, SyncInv, InitJob, Item, InitItem
<1>3. \A c \in Slots : c < initJob.next
  BY <1>1, <1>2, SyncAssumptions DEF InitJob, Slots
<1>4. CASE ~QueueHasRoom
  BY <1>1, <1>4 DEF FreshInv, Fresh, AskedOrdered, SnapsFresh, RacedRepaired, ViewFresh, history
<1>5. CASE QueueHasRoom
  <2>1. /\ n \in Nat /\ n + 1 \in 1 .. n + 1
        /\ Len(workQueue') = n + 1
        /\ \A i \in 1 .. n : workQueue'[i] = workQueue[i] /\ i \in 1 .. n + 1 /\ i < n + 1
        /\ workQueue'[n + 1] = m
        /\ \A i \in 1 .. n + 1 : i \in 1 .. n \/ i = n + 1
    BY <1>1, <1>2, <1>5, RestTypes, AppendProperties DEF FreshInv
  <2>2. m.type = "init" /\ m.had = initJob.had /\ m.snap = initJob.snap
        /\ \A c \in Slots : ~Timely(m, c)
    BY DEF Timely
  <2>3. AskedOrdered'
    <3>1. \A p \in Pages, c \in Slots :
            /\ known[p][c] <= stored[c]
            /\ \A j \in 1 .. n + 1 :
                 Timely(workQueue'[j], c) => known[p][c] <= workQueue'[j].ver
      BY <2>1, <2>2 DEF FreshInv, Fresh, AskedOrdered
    <3>2. ASSUME NEW i \in 1 .. n + 1, NEW c \in Slots, workQueue'[i].type = "init"
          PROVE  /\ workQueue'[i].had[c] <= stored[c]
                 /\ \A j \in 1 .. n + 1 : i < j /\ Timely(workQueue'[j], c) =>
                      workQueue'[i].had[c] <= workQueue'[j].ver
      <4>1. CASE i = n + 1
        <5>1. workQueue'[i].had[c] <= stored[c]
          BY <1>1, <2>1, <2>2, <4>1 DEF FreshInv, Fresh, AskedOrdered
        <5>2. \A j \in 1 .. n + 1 : ~(i < j)
          BY <2>1, <4>1
        <5>3. QED
          BY <5>1, <5>2
      <4>2. CASE i \in 1 .. n
        BY <2>1, <2>2, <3>2, <4>2 DEF FreshInv, Fresh, AskedOrdered
      <4>3. QED
        BY <2>1, <4>1, <4>2
    <3>3. QED
      BY <1>1, <2>1, <3>1, <3>2 DEF AskedOrdered, history
  <2>4. SnapsFresh'
    <3>1. \A c \in Slots : NotOlder(m.snap[c], m.had[c])
      BY <1>1, <1>3, <2>2 DEF FreshInv, Fresh, SnapsFresh
    <3>2. \A i \in 1 .. n + 1, c \in Slots : workQueue'[i].type = "init" =>
            NotOlder(workQueue'[i].snap[c], workQueue'[i].had[c])
      BY <2>1, <3>1 DEF FreshInv, Fresh, SnapsFresh
    <3>3. QED
      BY <1>1, <2>1, <3>2 DEF SnapsFresh
  <2>5. RacedRepaired'
    <3>1. SUFFICES ASSUME NEW c \in Slots, NEW i \in 1 .. n + 1,
                          workQueue'[i].type = "update", workQueue'[i].slot = c,
                          workQueue'[i].raced
                   PROVE  c \in raced \/ \E j \in 1 .. n + 1 : i < j /\ Timely(workQueue'[j], c)
      BY <1>1, <2>1 DEF RacedRepaired, history
    <3>2. i \in 1 .. n /\ workQueue'[i] = workQueue[i]
      BY <2>1, <2>2, <3>1
    <3>3. c \in raced \/ \E j \in 1 .. n : i < j /\ Timely(workQueue[j], c)
      BY <3>1, <3>2 DEF FreshInv, Fresh, RacedRepaired
    <3>4. QED
      BY <2>1, <3>3
  <2>6. ViewFresh'
    <3>1. \A p \in Pages, c \in Slots : link[p] = "ready" =>
            \/ NotOlder(view[p][c], known[p][c])
            \/ c \in raced
            \/ \E j \in 1 .. n + 1 : Timely(workQueue'[j], c)
      BY <2>1 DEF FreshInv, Fresh, ViewFresh
    <3>2. QED
      BY <1>1, <2>1, <3>1 DEF ViewFresh, history
  <2>7. QED
    BY <2>3, <2>4, <2>5, <2>6 DEF Fresh
<1>6. QED
  BY <1>4, <1>5

\* What the steps have in common that take the first item off the queue.
LEMMA TailFresh ==
  ASSUME FreshInv, ServerFree, workQueue # <<>>, workQueue' = Tail(workQueue),
         UNCHANGED <<stored, initJob, raced>>,
         \A p \in Pages, c \in Slots :
           \/ known'[p][c] = known[p][c]
           \/ workQueue[1].type = "init" /\ known'[p][c] = workQueue[1].had[c]
  PROVE  /\ AskedOrdered' /\ SnapsFresh' /\ RacedRepaired'
         /\ \A c \in Slots :
              (\E j \in 1 .. Len(workQueue) : 1 < j /\ Timely(workQueue[j], c)) =>
                \E j \in 1 .. Len(workQueue') : Timely(workQueue'[j], c)
<1> DEFINE n == Len(workQueue)
<1>1. n \in Nat /\ n # 0 /\ workQueue \in Seq(Item)
  BY RestTypes, EmptySeq DEF FreshInv
<1>2. /\ Len(workQueue') = n - 1 /\ 1 \in 1 .. n
      /\ \A i \in 1 .. n - 1 : workQueue'[i] = workQueue[i + 1] /\ i + 1 \in 1 .. n /\ 1 < i + 1
      /\ \A j \in 1 .. n : 1 < j => j - 1 \in 1 .. n - 1 /\ workQueue'[j - 1] = workQueue[j]
  BY <1>1
<1>3. AskedOrdered'
  <2>1. ASSUME NEW p \in Pages, NEW c \in Slots
        PROVE  /\ known'[p][c] <= stored[c]
               /\ \A j \in 1 .. n - 1 :
                    Timely(workQueue'[j], c) => known'[p][c] <= workQueue'[j].ver
    <3>1. CASE known'[p][c] = known[p][c]
      BY <1>2, <2>1, <3>1 DEF FreshInv, Fresh, AskedOrdered
    <3>2. CASE workQueue[1].type = "init" /\ known'[p][c] = workQueue[1].had[c]
      BY <1>2, <2>1, <3>2 DEF FreshInv, Fresh, AskedOrdered
    <3>3. QED
      BY <3>1, <3>2
  <2>2. ASSUME NEW i \in 1 .. n - 1, NEW c \in Slots, workQueue'[i].type = "init"
        PROVE  /\ workQueue'[i].had[c] <= stored[c]
               /\ \A j \in 1 .. n - 1 : i < j /\ Timely(workQueue'[j], c) =>
                    workQueue'[i].had[c] <= workQueue'[j].ver
    <3>1. \A j \in 1 .. n - 1 : i < j => i + 1 < j + 1
      BY <1>1
    <3>2. QED
      BY <1>2, <2>2, <3>1 DEF FreshInv, Fresh, AskedOrdered
  <2>3. initJob' # NoJob => FALSE
    BY DEF ServerFree
  <2>4. QED
    BY <1>2, <2>1, <2>2, <2>3 DEF AskedOrdered
<1>4. SnapsFresh'
  <2>1. \A i \in 1 .. n - 1, c \in Slots : workQueue'[i].type = "init" =>
          NotOlder(workQueue'[i].snap[c], workQueue'[i].had[c])
    BY <1>2 DEF FreshInv, Fresh, SnapsFresh
  <2>2. QED
    BY <1>2, <2>1 DEF SnapsFresh, ServerFree
<1>5. RacedRepaired'
  <2>1. SUFFICES ASSUME NEW c \in Slots, NEW i \in 1 .. n - 1,
                        workQueue'[i].type = "update", workQueue'[i].slot = c,
                        workQueue'[i].raced
                 PROVE  c \in raced \/ \E j \in 1 .. n - 1 : i < j /\ Timely(workQueue'[j], c)
    BY <1>2 DEF RacedRepaired
  <2>2. c \in raced \/ \E j \in 1 .. n : i + 1 < j /\ Timely(workQueue[j], c)
    BY <1>2, <2>1 DEF FreshInv, Fresh, RacedRepaired
  <2>3. ASSUME NEW j \in 1 .. n, i + 1 < j, Timely(workQueue[j], c)
        PROVE  \E k \in 1 .. n - 1 : i < k /\ Timely(workQueue'[k], c)
    <3>1. 1 < j /\ i < j - 1
      BY <1>1, <2>1, <2>3
    <3>2. QED
      BY <1>2, <2>3, <3>1
  <2>4. QED
    BY <2>2, <2>3
<1>6. \A c \in Slots : (\E j \in 1 .. n : 1 < j /\ Timely(workQueue[j], c)) =>
        \E j \in 1 .. Len(workQueue') : Timely(workQueue'[j], c)
  BY <1>2
<1>7. QED
  BY <1>3, <1>4, <1>5, <1>6

LEMMA ExecuteInitFresh ==
  ASSUME FreshInv, RestInv', NEW p \in Pages, ExecuteInit(p)
  PROVE  Fresh'
<1> DEFINE n == Len(workQueue)
           m == workQueue[1]
<1>1. /\ ServerFree /\ workQueue # <<>> /\ workQueue' = Tail(workQueue)
      /\ UNCHANGED <<stored, initJob, raced>>
  BY DEF ExecuteInit
<1>2. m = Head(workQueue) /\ 1 \in 1 .. n /\ m.type = "init"
  BY <1>1, HeadType DEF FreshInv, RestInv, SyncInv, ExecuteInit
<1>3. \/ link[p] = "closed" /\ UNCHANGED <<link, view, known>>
      \/ /\ link[p] # "closed"
         /\ view' = [view EXCEPT ![p] = m.snap]
         /\ known' = [known EXCEPT ![p] = m.had]
         /\ \A q \in Pages : q # p => link'[q] = link[q]
  BY <1>2 DEF ExecuteInit, CardsAfterInit, FreshInv, RestInv, SyncInv, TypeOK
<1>4. view \in [Pages -> [Slots -> Shown]] /\ known \in [Pages -> [Slots -> Versions]]
  BY DEF FreshInv, RestInv, SyncInv, TypeOK
<1>5. \A q \in Pages : \/ link'[q] = link[q] /\ view'[q] = view[q] /\ known'[q] = known[q]
                          /\ (link[q] = "ready" => q # p)
                       \/ q = p /\ view'[q] = m.snap /\ known'[q] = m.had
  BY <1>3, <1>4
<1>6. /\ AskedOrdered' /\ SnapsFresh' /\ RacedRepaired'
      /\ \A c \in Slots : (\E j \in 1 .. n : 1 < j /\ Timely(workQueue[j], c)) =>
           \E j \in 1 .. Len(workQueue') : Timely(workQueue'[j], c)
  BY <1>1, <1>2, <1>5, TailFresh
<1>7. ViewFresh'
  <2>1. SUFFICES ASSUME NEW q \in Pages, NEW c \in Slots, link'[q] = "ready"
                 PROVE  \/ NotOlder(view'[q][c], known'[q][c])
                        \/ c \in raced
                        \/ \E j \in 1 .. Len(workQueue') : Timely(workQueue'[j], c)
    BY <1>1 DEF ViewFresh
  <2>2. CASE link[q] = "ready" /\ view'[q] = view[q] /\ known'[q] = known[q]
    <3>1. \/ NotOlder(view[q][c], known[q][c])
          \/ c \in raced
          \/ \E j \in 1 .. n : Timely(workQueue[j], c)
      BY <2>1, <2>2 DEF FreshInv, Fresh, ViewFresh
    <3>2. \A j \in 1 .. n : Timely(workQueue[j], c) => 1 < j
      BY <1>2 DEF Timely
    <3>3. QED
      BY <1>6, <2>1, <2>2, <3>1, <3>2
  <2>3. CASE view'[q] = m.snap /\ known'[q] = m.had
    BY <1>2, <2>1, <2>3 DEF FreshInv, Fresh, SnapsFresh
  <2>4. QED
    BY <1>5, <2>1, <2>2, <2>3
<1>8. QED
  BY <1>6, <1>7 DEF Fresh

\* A timely update is not older than when the page asked; a raced one is
\* repaired by what is still queued.
LEMMA ExecuteUpdateFresh ==
  ASSUME FreshInv, RestInv', ExecuteUpdate
  PROVE  Fresh'
<1> DEFINE n == Len(workQueue)
           m == workQueue[1]
<1>1. /\ ServerFree /\ workQueue # <<>> /\ workQueue' = Tail(workQueue)
      /\ UNCHANGED <<stored, initJob, raced, link, known>>
  BY DEF ExecuteUpdate, history
<1>2. /\ m = Head(workQueue) /\ 1 \in 1 .. n /\ m.type = "update" /\ m.slot \in Slots
      /\ view' = [q \in Pages |-> Applied(q, m.slot, m.ver)]
  BY <1>1, HeadType DEF FreshInv, RestInv, SyncInv, ExecuteUpdate, UpdateItem
<1>3. ASSUME NEW q \in Pages, NEW c \in Slots
      PROVE  /\ c # m.slot => view'[q][c] = view[q][c]
             /\ c = m.slot /\ link[q] # "closed" =>
                  view'[q][c] = IF view[q][c] = Absent THEN Absent ELSE m.ver
  <2>1. view'[q] = Applied(q, m.slot, m.ver) /\ view[q] \in [Slots -> Shown]
    BY <1>2 DEF FreshInv, RestInv, SyncInv, TypeOK
  <2>2. QED
    BY <1>2, <2>1 DEF Applied
<1>4. /\ AskedOrdered' /\ SnapsFresh' /\ RacedRepaired'
      /\ \A c \in Slots : (\E j \in 1 .. n : 1 < j /\ Timely(workQueue[j], c)) =>
           \E j \in 1 .. Len(workQueue') : Timely(workQueue'[j], c)
  BY <1>1, TailFresh
<1>5. ViewFresh'
  <2>1. SUFFICES ASSUME NEW q \in Pages, NEW c \in Slots, link[q] = "ready", c \notin raced,
                        ~ \E j \in 1 .. n : 1 < j /\ Timely(workQueue[j], c)
                 PROVE  NotOlder(view'[q][c], known[q][c])
    BY <1>1, <1>4 DEF ViewFresh
  <2>2. CASE c = m.slot
    <3>1. Timely(m, c)
      BY <1>2, <2>1, <2>2 DEF FreshInv, Fresh, RacedRepaired, Timely
    <3>2. known[q][c] <= m.ver
      BY <1>2, <3>1 DEF FreshInv, Fresh, AskedOrdered
    <3>3. view[q][c] = Absent => known[q][c] = Blank
      BY <2>1 DEF FreshInv, RestInv, KnownShown
    <3>4. QED
      BY <1>3, <2>1, <2>2, <3>2, <3>3 DEF NotOlder
  <2>3. CASE c # m.slot
    <3>1. ~Timely(m, c) /\ \A j \in 1 .. n : j = 1 \/ 1 < j
      BY <2>3 DEF Timely
    <3>2. NotOlder(view[q][c], known[q][c])
      BY <2>1, <3>1 DEF FreshInv, Fresh, ViewFresh
    <3>3. QED
      BY <1>3, <2>3, <3>2
  <2>4. QED
    BY <2>2, <2>3
<1>6. QED
  BY <1>4, <1>5 DEF Fresh

LEMMA FreshInit == Init => FreshInv
<1>1. SUFFICES ASSUME Init PROVE FreshInv
  OBVIOUS
<1>2. RestInv /\ Len(workQueue) = 0
  BY <1>1, RestInit DEF Init
<1>3. AskedOrdered /\ SnapsFresh /\ RacedRepaired /\ ViewFresh
  BY <1>1, <1>2 DEF Init, AskedOrdered, SnapsFresh, RacedRepaired, ViewFresh, Blank
<1>4. QED
  BY <1>2, <1>3 DEF FreshInv, Fresh

LEMMA FreshNext == FreshInv /\ [Next]_vars => FreshInv'
<1>1. SUFFICES ASSUME FreshInv, [Next]_vars PROVE FreshInv'
  OBVIOUS
<1>2. RestInv'
  BY <1>1, RestNext DEF FreshInv
<1>3. CASE \E t \in Callers : QueueUpdate(t)
  BY <1>1, <1>2, <1>3, QueueUpdateFresh DEF FreshInv
<1>4. CASE ReadCard \/ QueueInit \/ ExecuteUpdate
  BY <1>1, <1>2, <1>4, ReadFresh, QueueInitFresh, ExecuteUpdateFresh DEF FreshInv
<1>5. CASE \E p \in Pages : BeginInit(p) \/ ExecuteInit(p)
  BY <1>1, <1>2, <1>5, BeginFresh, ExecuteInitFresh DEF FreshInv
<1>6. CASE \/ AllocSlot \/ NameCard \/ FillCard
           \/ \E t \in Callers, c \in Slots : WriteCard(t, c)
           \/ \E p \in Pages : Connect(p) \/ Disconnect(p)
           \/ UNCHANGED vars
  BY <1>1, <1>2, <1>6, QuietFresh DEF FreshInv
<1>7. QED
  BY <1>1, <1>3, <1>4, <1>5, <1>6 DEF Next

\* At rest every initialized page shows the stored values, but for updates that
\* were raced, and for those that were dropped or overtaken and that no
\* initialization has repaired since (update*Card, _queueInitForFd,
\* handleMessage).
THEOREM SyncAtRest == Spec => []AtRestShowsStored
<1>1. ASSUME FreshInv PROVE AtRestShowsStored
  <2>1. SUFFICES ASSUME AtRest, NEW p \in Pages, link[p] = "ready", NEW c \in Slots,
                        c \notin raced,
                        c \notin dropped \cup overtaken[p] \/ known[p][c] = stored[c]
                 PROVE  ShowsStored(p, c)
    BY DEF AtRestShowsStored
  <2>2. Len(workQueue) = 0
    BY <2>1 DEF AtRest
  <2>3. CASE c \notin dropped \cup overtaken[p]
    <3>1. Settled(c)
      BY <2>1, <2>3 DEF AtRest, Settled, Pending
    <3>2. Current(c, view[p][c], known[p])
      BY <1>1, <2>1, <2>2, <2>3, <3>1 DEF FreshInv, RestInv, ViewCurrent
    <3>3. QED
      BY <3>2 DEF Current, ShowsStored
  <2>4. CASE known[p][c] = stored[c] /\ stored[c] = Blank
    BY <1>1, <2>1, <2>4, BlankCurrent DEF FreshInv, ShowsStored
  <2>5. CASE known[p][c] = stored[c] /\ stored[c] # Blank
    <3>1. known[p][c] <= view[p][c]
      BY <1>1, <2>1, <2>2, <2>5 DEF FreshInv, Fresh, ViewFresh, NotOlder
    <3>2. view[p][c] <= stored[c]
      BY <1>1, <2>1 DEF FreshInv, RestInv, SyncInv, Order, Bounded, NewestShown
    <3>3. view[p][c] \in Int /\ stored[c] \in Nat
      BY <1>1, <2>1, FreshTypes DEF FreshInv
    <3>4. QED
      BY <2>5, <3>1, <3>2, <3>3 DEF ShowsStored
  <2>6. QED
    BY <2>1, <2>3, <2>4, <2>5
<1>2. QED
  BY <1>1, FreshInit, FreshNext, PTL DEF Spec
=============================================================================
