--------------------------- MODULE CardInputProofs ---------------------------
(***************************************************************************)
(* Proofs about CardInput, for any pages, cards of any kinds, values and   *)
(* queue.                                                                  *)
(*                                                                         *)
(* Sound: every value the device stores or hears, or that is under way to  *)
(* it or to a page, is one some user let go at, and fits the card's kind.  *)
(* A slider that is dragged is the one place with another value.           *)
(*                                                                         *)
(* Agreed: the last item queued that concerns a page's card brings what    *)
(* the device stores, and when there is none, and no input of the page is  *)
(* under way, the page shows it.                                           *)
(***************************************************************************)
EXTENDS CardInput, SequenceTheorems, TLAPS

-----------------------------------------------------------------------------
(* The invariants.                                                         *)

\* A toggle has two values.
ValuesOf(c) == IF kind[c] = "toggle" THEN {0, 1} ELSE Values

Displayed == {WithOffset(v) : v \in Values}
Shown == {Absent} \cup Values \cup Displayed

Fits(c, v) ==
  /\ v \in Shown
  /\ kind[c] # "timezone" => v \notin Displayed
  /\ kind[c] = "toggle" => v \in {Absent, 0, 1}

MessageSound(m) == m.type = "action" => m.value \in settled[m.card]
ItemSound(m) ==
  IF m.type = "init" THEN \A c \in Cards : m.cards[c] \in settled[c]
                     ELSE m.value \in settled[m.card]

SettledFit == \A c \in Cards : 0 \in settled[c] /\ settled[c] \subseteq ValuesOf(c)
StoredSettled == \A c \in Cards : store[c] \in settled[c] /\ heard[c] \in settled[c]
InboundSettled ==
  \A p \in Pages : \A i \in 1 .. Len(inbound[p]) : MessageSound(inbound[p][i])
QueueSettled == \A i \in 1 .. Len(workQueue) : ItemSound(workQueue[i])
ViewFits == \A p \in Pages, c \in Cards : Fits(c, view[p][c])
DragSound ==
  \A p \in Pages : dragging[p] # NoDrag =>
    /\ kind[dragging[p].card] = "slider"
    /\ view[p][dragging[p].card] \in {dragging[p].value} \cup settled[dragging[p].card]

Sound ==
  /\ TypeOK
  /\ SettledFit /\ StoredSettled /\ InboundSettled /\ QueueSettled
  /\ ViewFits /\ DragSound

\* The application hears the card and updates it.
Echoes(c) == Hears(c) /\ kind[c] \in Updatable

Concerns(m, p, c) == IF m.type = "init" THEN m.page = p ELSE m.card = c
Brings(m, c) == IF m.type = "init" THEN m.cards[c] = store[c] ELSE m.value = store[c]

HeardStored == \A c \in Cards : Echoes(c) => heard[c] = store[c]

LastStored ==
  \A c \in Cards, p \in Pages : Echoes(c) /\ c \notin dropped =>
    \A i \in 1 .. Len(workQueue) :
      /\ Concerns(workQueue[i], p, c)
      /\ \A j \in 1 .. Len(workQueue) : i < j => ~Concerns(workQueue[j], p, c)
      => Brings(workQueue[i], c)

\* No input of the page to the card is under way.
Untouched(p, c) ==
  /\ ~Drags(p, c)
  /\ \A i \in 1 .. Len(inbound[p]) :
       inbound[p][i].type = "action" => inbound[p][i].card # c

ReadyShown ==
  \A p \in Pages : socket[p] = "ready" => \A c \in Cards : view[p][c] # Absent

ViewStored ==
  \A c \in Cards, p \in Pages :
    /\ Echoes(c) /\ c \notin dropped /\ socket[p] = "ready" /\ Untouched(p, c)
    /\ \A j \in 1 .. Len(workQueue) : ~Concerns(workQueue[j], p, c)
    => view[p][c] = store[c]

Agreed == HeardStored /\ LastStored /\ ReadyShown /\ ViewStored

InputInv == Sound /\ Agreed

-----------------------------------------------------------------------------
(* Types of what is under way.                                             *)

ActionType == [type : {"action"}, card : Cards, value : Values]
InitType == [type : {"init"}, page : Pages, cards : [Cards -> Values]]
UpdateType == [type : {"update"}, card : Cards, value : Values]

LEMMA MessageTypes ==
  \A m \in Message : m.type = "action" => m \in ActionType
<1>1. InitRequest.type = "init"
  BY DEF InitRequest
<1>2. QED
  BY <1>1 DEF Message, ActionType

LEMMA ItemTypes ==
  \A m \in Item : /\ m.type = "init" => m \in InitType
                  /\ m.type # "init" => m \in UpdateType
<1>1. \A m \in UpdateType : m.type = "update"
  BY DEF UpdateType
<1>2. \A m \in InitType : m.type = "init"
  BY DEF InitType
<1>3. QED
  BY <1>1, <1>2 DEF Item, InitType, UpdateType

LEMMA InboundTypes ==
  ASSUME TypeOK, NEW p \in Pages
  PROVE  /\ inbound[p] \in Seq(Message) /\ Len(inbound[p]) \in Nat
         /\ \A i \in 1 .. Len(inbound[p]) :
              /\ inbound[p][i] \in Message
              /\ inbound[p][i].type = "action" => inbound[p][i] \in ActionType
<1>1. inbound[p] \in Seq(Message)
  BY DEF TypeOK
<1>2. Len(inbound[p]) \in Nat /\ \A i \in 1 .. Len(inbound[p]) : inbound[p][i] \in Message
  BY <1>1, ElementOfSeq
<1>3. QED
  BY <1>1, <1>2, MessageTypes

LEMMA QueueTypes ==
  ASSUME TypeOK
  PROVE  /\ workQueue \in Seq(Item) /\ Len(workQueue) \in Nat
         /\ \A i \in 1 .. Len(workQueue) :
              /\ workQueue[i] \in Item
              /\ workQueue[i].type = "init" => workQueue[i] \in InitType
              /\ workQueue[i].type # "init" => workQueue[i] \in UpdateType
<1>1. workQueue \in Seq(Item)
  BY DEF TypeOK
<1>2. Len(workQueue) \in Nat /\ \A i \in 1 .. Len(workQueue) : workQueue[i] \in Item
  BY <1>1, ElementOfSeq
<1>3. QED
  BY <1>1, <1>2, ItemTypes

\* What sendAction does to the messages under way.
LEMMA SendTypes ==
  ASSUME TypeOK, NEW p \in Pages, NEW c \in Cards, NEW w \in Values,
         inbound' = Sending(p, c, w)
  PROVE  /\ inbound' \in [Pages -> Seq(Message)]
         /\ \A q \in Pages : q # p => inbound'[q] = inbound[q]
         /\ socket[p] = "closed" => inbound'[p] = inbound[p]
         /\ socket[p] # "closed" =>
              /\ Len(inbound'[p]) = Len(inbound[p]) + 1
              /\ \A i \in 1 .. Len(inbound[p]) : inbound'[p][i] = inbound[p][i]
              /\ inbound'[p][Len(inbound[p]) + 1] = Action(c, w)
<1>1. inbound \in [Pages -> Seq(Message)]
  BY DEF TypeOK
<1>2. Action(c, w) \in Message
  BY DEF Action, Message
<1>3. CASE socket[p] = "closed"
  BY <1>1, <1>3 DEF Sending
<1>4. CASE socket[p] # "closed"
  <2>1. inbound' = [inbound EXCEPT ![p] = Append(inbound[p], Action(c, w))]
    BY <1>4 DEF Sending
  <2>2. inbound'[p] = Append(inbound[p], Action(c, w))
    BY <1>1, <2>1
  <2>3. inbound[p] \in Seq(Message) /\ Append(inbound[p], Action(c, w)) \in Seq(Message)
    BY <1>1, <1>2, AppendProperties
  <2>4. /\ Len(inbound'[p]) = Len(inbound[p]) + 1
        /\ \A i \in 1 .. Len(inbound[p]) : inbound'[p][i] = inbound[p][i]
        /\ inbound'[p][Len(inbound[p]) + 1] = Action(c, w)
    BY <1>2, <2>2, <2>3, AppendProperties
  <2>5. QED
    BY <1>1, <1>4, <2>1, <2>3, <2>4
<1>5. QED
  BY <1>3, <1>4

-----------------------------------------------------------------------------
(* The controls of a page.                                                 *)

\* What a control keeps that changes one card of one page, sends at most one
\* value at which the user let go, and sends it whenever the page is ready and
\* shows something else than before.
LEMMA ControlKeeps ==
  ASSUME InputInv, NEW p \in Pages, NEW c \in Cards, NEW w \in Values,
         UNCHANGED <<kind, store, heard, socket, workQueue, dropped>>,
         \/ inbound' = inbound
         \/ inbound' = Sending(p, c, w) /\ (socket[p] # "closed" => w \in settled'[c]),
         settled' \in [Cards -> SUBSET Values],
         \A d \in Cards : settled[d] \subseteq settled'[d] /\ settled'[d] \subseteq ValuesOf(d),
         view' \in [Pages -> [Cards -> Shown]],
         \A q \in Pages, d \in Cards : q # p \/ d # c => view'[q][d] = view[q][d],
         Fits(c, view'[p][c]), view'[p][c] # Absent,
         dragging' \in [Pages -> [card : Cards, value : Values] \cup {NoDrag}],
         \A q \in Pages : q # p => dragging'[q] = dragging[q],
         dragging'[p] # NoDrag =>
           /\ kind[dragging'[p].card] = "slider"
           /\ view'[p][dragging'[p].card] \in
                {dragging'[p].value} \cup settled'[dragging'[p].card],
         \A d \in Cards : socket[p] = "ready" /\ Untouched(p, d)' =>
           Untouched(p, d) /\ view'[p][d] = view[p][d]
  PROVE  InputInv'
<1>1. Sound /\ Agreed /\ TypeOK
  BY DEF InputInv, Sound
<1>2. inbound' \in [Pages -> Seq(Message)] /\ \A q \in Pages : q # p => inbound'[q] = inbound[q]
  BY <1>1, SendTypes DEF TypeOK
<1>3. TypeOK'
  BY <1>1, <1>2 DEF TypeOK, Shown, Displayed, Values, WithOffset
<1>4. SettledFit' /\ StoredSettled'
  BY <1>1 DEF Sound, SettledFit, StoredSettled, ValuesOf
<1>5. InboundSettled'
  <2>1. \A q \in Pages : \A i \in 1 .. Len(inbound[q]) :
          inbound[q][i].type = "action" =>
            inbound[q][i].value \in settled'[inbound[q][i].card]
    <3>1. SUFFICES ASSUME NEW q \in Pages, NEW i \in 1 .. Len(inbound[q]),
                          inbound[q][i].type = "action"
                   PROVE  inbound[q][i].value \in settled'[inbound[q][i].card]
      OBVIOUS
    <3>2. inbound[q][i].card \in Cards
      BY <1>1, <3>1, InboundTypes DEF ActionType
    <3>3. inbound[q][i].value \in settled[inbound[q][i].card]
      BY <1>1, <3>1 DEF Sound, InboundSettled, MessageSound
    <3>4. QED
      BY <3>2, <3>3
  <2>2. SUFFICES ASSUME NEW q \in Pages, NEW i \in 1 .. Len(inbound'[q]),
                        inbound'[q][i].type = "action"
                 PROVE  inbound'[q][i].value \in settled'[inbound'[q][i].card]
    BY DEF InboundSettled, MessageSound
  <2>3. CASE inbound'[q] = inbound[q]
    BY <2>1, <2>2, <2>3
  <2>4. CASE inbound'[q] # inbound[q]
    <3>1. q = p /\ inbound' = Sending(p, c, w) /\ socket[p] # "closed" /\ w \in settled'[c]
      BY <1>1, <1>2, <2>4, SendTypes
    <3>2. /\ Len(inbound'[p]) = Len(inbound[p]) + 1
          /\ \A k \in 1 .. Len(inbound[p]) : inbound'[p][k] = inbound[p][k]
          /\ inbound'[p][Len(inbound[p]) + 1] = Action(c, w)
          /\ Len(inbound[p]) \in Nat
      BY <1>1, <3>1, SendTypes, InboundTypes
    <3>3. i \in 1 .. Len(inbound[p]) \/ i = Len(inbound[p]) + 1
      BY <2>2, <3>1, <3>2
    <3>4. CASE i \in 1 .. Len(inbound[p])
      BY <2>1, <2>2, <3>1, <3>2, <3>4
    <3>5. CASE i = Len(inbound[p]) + 1
      BY <3>1, <3>2, <3>5 DEF Action
    <3>6. QED
      BY <3>3, <3>4, <3>5
  <2>5. QED
    BY <2>3, <2>4
<1>6. QueueSettled'
  <2>1. SUFFICES ASSUME NEW i \in 1 .. Len(workQueue) PROVE ItemSound(workQueue[i])'
    BY DEF QueueSettled
  <2>2. ItemSound(workQueue[i])
    BY <1>1 DEF Sound, QueueSettled
  <2>3. workQueue[i].type # "init" => workQueue[i].card \in Cards
    BY <1>1, QueueTypes DEF UpdateType
  <2>4. QED
    BY <2>2, <2>3 DEF ItemSound
<1>7. ViewFits'
  BY <1>1 DEF Sound, ViewFits, Fits
<1>8. DragSound'
  <2>1. SUFFICES ASSUME NEW q \in Pages, q # p, dragging[q] # NoDrag
                 PROVE  /\ kind[dragging[q].card] = "slider"
                        /\ view'[q][dragging[q].card] \in
                             {dragging[q].value} \cup settled'[dragging[q].card]
    BY DEF DragSound
  <2>2. dragging[q].card \in Cards
    BY <1>1, <2>1 DEF TypeOK
  <2>3. QED
    BY <1>1, <2>1, <2>2 DEF Sound, DragSound
<1>9. HeardStored' /\ LastStored'
  BY <1>1 DEF Agreed, HeardStored, LastStored, Echoes, Hears, Concerns, Brings
<1>10. ReadyShown'
  BY <1>1 DEF Agreed, ReadyShown
<1>11. ViewStored'
  <2>1. SUFFICES ASSUME NEW d \in Cards, NEW q \in Pages, Echoes(d), d \notin dropped,
                        socket[q] = "ready", Untouched(q, d)',
                        \A j \in 1 .. Len(workQueue) : ~Concerns(workQueue[j], q, d)
                 PROVE  view'[q][d] = store[d]
    BY DEF ViewStored, Echoes, Hears, Concerns
  <2>2. CASE q = p
    BY <1>1, <2>1, <2>2 DEF Agreed, ViewStored
  <2>3. CASE q # p
    <3>1. Untouched(q, d)
      BY <1>2, <2>1, <2>3 DEF Untouched, Drags
    <3>2. QED
      BY <1>1, <2>1, <2>3, <3>1 DEF Agreed, ViewStored
  <2>4. QED
    BY <2>2, <2>3
<1>12. QED
  BY <1>3, <1>4, <1>5, <1>6, <1>7, <1>8, <1>9, <1>10, <1>11 DEF InputInv, Sound, Agreed

\* A message sent is an input under way to its card.
LEMMA SentTouches ==
  ASSUME TypeOK, NEW p \in Pages, NEW c \in Cards, NEW w \in Values, NEW d \in Cards,
         inbound' = Sending(p, c, w), socket[p] = "ready", Untouched(p, d)'
  PROVE  d # c /\ \A i \in 1 .. Len(inbound[p]) :
                    inbound[p][i].type = "action" => inbound[p][i].card # d
<1>1. /\ Len(inbound'[p]) = Len(inbound[p]) + 1
      /\ \A i \in 1 .. Len(inbound[p]) : inbound'[p][i] = inbound[p][i]
      /\ inbound'[p][Len(inbound[p]) + 1] = Action(c, w)
      /\ Len(inbound[p]) \in Nat
  BY SendTypes, InboundTypes
<1>2. \A i \in 1 .. Len(inbound'[p]) : inbound'[p][i].type = "action" => inbound'[p][i].card # d
  BY DEF Untouched
<1>3. Len(inbound[p]) + 1 \in 1 .. Len(inbound'[p])
  BY <1>1
<1>4. Action(c, w).type = "action" /\ Action(c, w).card = c
  BY DEF Action
<1>5. d # c
  BY <1>1, <1>2, <1>3, <1>4
<1>6. \A i \in 1 .. Len(inbound[p]) : i \in 1 .. Len(inbound'[p])
  BY <1>1
<1>7. QED
  BY <1>1, <1>2, <1>5, <1>6

\* The sets of the invariant, by their members.
LEMMA ValueFacts ==
  /\ 0 \in Values /\ 1 \in Values /\ Absent \notin Values
  /\ \A v \in Values : v \in Shown /\ v \notin Displayed
  /\ \A v \in Values : WithOffset(v) \in Shown /\ WithOffset(v) # Absent
  /\ \A v \in Shown : v \in Values \/ v = Absent \/ v \in Displayed
<1>1. MaxValue \in Nat \ {0}
  BY InputAssumptions
<1>2. QED
  BY <1>1 DEF Values, Absent, Shown, Displayed, WithOffset

LEMMA PressKeeps ==
  ASSUME InputInv, NEW p \in Pages, NEW c \in Cards, Press(p, c), UNCHANGED kind
  PROVE  InputInv'
<1>1. TypeOK /\ Sound
  BY DEF InputInv, Sound
<1>2. 0 \in Values /\ 0 \in settled[c] /\ \A d \in Cards : settled[d] \subseteq ValuesOf(d)
  BY <1>1, ValueFacts DEF Sound, SettledFit
<1>3. /\ UNCHANGED <<kind, store, heard, socket, workQueue, dropped>>
      /\ view' = view /\ dragging' = dragging /\ settled' = settled
      /\ inbound' = Sending(p, c, 0) /\ view[p][c] # Absent
  BY DEF Press, UserActs
<1>4. view \in [Pages -> [Cards -> Shown]] /\ settled \in [Cards -> SUBSET Values]
  BY <1>1 DEF TypeOK, Shown, Displayed
<1>5. Fits(c, view[p][c])
  BY <1>1 DEF Sound, ViewFits
<1>6. \A d \in Cards : socket[p] = "ready" /\ Untouched(p, d)' => Untouched(p, d)
  BY <1>1, <1>2, <1>3, SentTouches DEF Untouched, Drags
<1>7. dragging \in [Pages -> [card : Cards, value : Values] \cup {NoDrag}]
  BY <1>1 DEF TypeOK
<1>8. dragging[p] # NoDrag =>
        /\ kind[dragging[p].card] = "slider"
        /\ view[p][dragging[p].card] \in {dragging[p].value} \cup settled[dragging[p].card]
  BY <1>1 DEF Sound, DragSound
<1>9. QED
  BY <1>2, <1>3, <1>4, <1>5, <1>6, <1>7, <1>8, ControlKeeps

\* The page shows x, and its user lets go at w.
LEMMA ChangeKeeps ==
  ASSUME InputInv, NEW p \in Pages, NEW c \in Cards, NEW w \in ValuesOf(c), NEW x \in Shown,
         UNCHANGED <<kind, store, heard, socket, workQueue, dropped, dragging>>,
         kind[c] # "slider", Fits(c, x), x # Absent,
         view' = [view EXCEPT ![p][c] = x],
         inbound' = Sending(p, c, w),
         settled' = LetGo(p, c, w)
  PROVE  InputInv'
<1>1. TypeOK /\ Sound
  BY DEF InputInv, Sound
<1>2. w \in Values
  BY ValueFacts DEF ValuesOf
<1>3. settled \in [Cards -> SUBSET Values] /\ \A d \in Cards : settled[d] \subseteq ValuesOf(d)
  BY <1>1 DEF TypeOK, Sound, SettledFit
<1>4. /\ settled' \in [Cards -> SUBSET Values]
      /\ \A d \in Cards : settled[d] \subseteq settled'[d] /\ settled'[d] \subseteq ValuesOf(d)
      /\ socket[p] # "closed" => w \in settled'[c]
  BY <1>2, <1>3 DEF LetGo
<1>5. view \in [Pages -> [Cards -> Shown]]
  BY <1>1 DEF TypeOK, Shown, Displayed
<1>6. /\ view' \in [Pages -> [Cards -> Shown]] /\ view'[p][c] = x
      /\ \A q \in Pages, d \in Cards : q # p \/ d # c => view'[q][d] = view[q][d]
  BY <1>5
<1>7. \A d \in Cards : socket[p] = "ready" /\ Untouched(p, d)' => Untouched(p, d) /\ d # c
  BY <1>1, <1>2, SentTouches DEF Untouched, Drags
<1>8. dragging \in [Pages -> [card : Cards, value : Values] \cup {NoDrag}]
  BY <1>1 DEF TypeOK
<1>9. dragging[p] # NoDrag =>
        /\ kind[dragging[p].card] = "slider"
        /\ view'[p][dragging[p].card] \in {dragging[p].value} \cup settled'[dragging[p].card]
  <2>1. SUFFICES ASSUME dragging[p] # NoDrag
                 PROVE  /\ kind[dragging[p].card] = "slider"
                        /\ view'[p][dragging[p].card] \in
                             {dragging[p].value} \cup settled'[dragging[p].card]
    OBVIOUS
  <2>2. dragging[p].card \in Cards
    BY <1>8, <2>1
  <2>3. /\ kind[dragging[p].card] = "slider"
        /\ view[p][dragging[p].card] \in {dragging[p].value} \cup settled[dragging[p].card]
    BY <1>1, <2>1 DEF Sound, DragSound
  <2>4. QED
    BY <1>4, <1>6, <2>2, <2>3
<1>10. QED
  BY <1>2, <1>4, <1>6, <1>7, <1>8, <1>9, ControlKeeps

LEMMA ToggleKeeps ==
  ASSUME InputInv, NEW p \in Pages, NEW c \in Cards, ToggleSwitch(p, c), UNCHANGED kind
  PROVE  InputInv'
<1>1. Fits(c, view[p][c]) /\ view[p][c] # Absent /\ kind[c] = "toggle"
  BY DEF ToggleSwitch, UserActs, InputInv, Sound, ViewFits
<1>2. Turned(view[p][c]) \in {0, 1}
  BY <1>1 DEF Fits, Turned
<1>3. Turned(view[p][c]) \in ValuesOf(c) /\ Turned(view[p][c]) \in Values
  BY <1>1, <1>2, ValueFacts DEF ValuesOf
<1>4. Fits(c, Turned(view[p][c])) /\ Turned(view[p][c]) # Absent /\ Turned(view[p][c]) \in Shown
  BY <1>1, <1>2, <1>3, ValueFacts DEF Fits
<1>5. \A v : v = Turned(view[p][c]) =>
        /\ view' = [view EXCEPT ![p][c] = v]
        /\ inbound' = Sending(p, c, v)
        /\ settled' = LetGo(p, c, v)
  BY DEF ToggleSwitch
<1>6. QED
  BY <1>1, <1>3, <1>4, <1>5, ChangeKeeps DEF ToggleSwitch

LEMMA ChooseKeeps ==
  ASSUME InputInv, NEW p \in Pages, NEW c \in Cards, NEW v \in Values,
         Choose(p, c, v), UNCHANGED kind
  PROVE  InputInv'
<1>1. kind[c] # "slider" /\ kind[c] # "toggle"
  BY DEF Choose
<1>2. v \in ValuesOf(c)
  BY <1>1 DEF ValuesOf
<1>3. PICK x : x = IF kind[c] = "timezone" THEN WithOffset(v) ELSE v
  OBVIOUS
<1>4. x \in Shown /\ x # Absent /\ (kind[c] # "timezone" => x \notin Displayed)
  BY <1>3, ValueFacts
<1>5. Fits(c, x)
  BY <1>1, <1>4 DEF Fits
<1>6. view' = [view EXCEPT ![p][c] = x]
  BY <1>3 DEF Choose
<1>7. QED
  BY <1>1, <1>2, <1>4, <1>5, <1>6, ChangeKeeps DEF Choose

\* A slider under the pointer: the page shows v, and sends nothing.
LEMMA DragKeeps ==
  ASSUME InputInv, NEW p \in Pages, NEW c \in Cards, NEW v \in Values,
         UNCHANGED <<kind, store, heard, socket, inbound, workQueue, dropped, settled>>,
         kind[c] = "slider", dragging[p] = NoDrag \/ Drags(p, c),
         dragging' = [dragging EXCEPT ![p] = [card |-> c, value |-> v]],
         view' = [view EXCEPT ![p][c] = v]
  PROVE  InputInv'
<1>1. TypeOK /\ Sound
  BY DEF InputInv, Sound
<1>2. /\ settled \in [Cards -> SUBSET Values] /\ \A d \in Cards : settled[d] \subseteq ValuesOf(d)
      /\ dragging \in [Pages -> [card : Cards, value : Values] \cup {NoDrag}]
  BY <1>1 DEF TypeOK, Sound, SettledFit
<1>3. view \in [Pages -> [Cards -> Shown]]
  BY <1>1 DEF TypeOK, Shown, Displayed
<1>4. /\ view' \in [Pages -> [Cards -> Shown]] /\ view'[p][c] = v
      /\ \A q \in Pages, d \in Cards : q # p \/ d # c => view'[q][d] = view[q][d]
  BY <1>3, ValueFacts
<1>5. Fits(c, v) /\ v # Absent
  BY ValueFacts DEF Fits
<1>6. /\ dragging' \in [Pages -> [card : Cards, value : Values] \cup {NoDrag}]
      /\ \A q \in Pages : q # p => dragging'[q] = dragging[q]
      /\ dragging'[p] = [card |-> c, value |-> v]
  BY <1>2
<1>7. dragging'[p] # NoDrag
  BY <1>6, InputAssumptions
<1>8. \A d \in Cards : Untouched(p, d)' => Untouched(p, d) /\ d # c
  <2>1. SUFFICES ASSUME NEW d \in Cards, Untouched(p, d)' PROVE Untouched(p, d) /\ d # c
    OBVIOUS
  <2>2. d # c
    BY <1>6, <1>7, <2>1 DEF Untouched, Drags
  <2>3. ~Drags(p, d)
    BY <2>2 DEF Drags
  <2>4. QED
    BY <2>1, <2>2, <2>3 DEF Untouched
<1>9. QED
  BY <1>2, <1>4, <1>5, <1>6, <1>8, ControlKeeps

LEMMA StartSliderKeeps ==
  ASSUME InputInv, NEW p \in Pages, NEW c \in Cards, NEW v \in Values,
         StartSlider(p, c, v), UNCHANGED kind
  PROVE  InputInv'
BY DragKeeps DEF StartSlider

LEMMA UpdateSliderKeeps ==
  ASSUME InputInv, NEW p \in Pages, NEW c \in Cards, NEW v \in Values,
         UpdateSlider(p, c, v), UNCHANGED kind
  PROVE  InputInv'
<1>1. Drags(p, c) /\ kind[c] = "slider"
  BY DEF UpdateSlider, Drags, InputInv, Sound, DragSound
<1>2. dragging \in [Pages -> [card : Cards, value : Values] \cup {NoDrag}]
  BY DEF InputInv, Sound, TypeOK
<1>3. dragging[p] \in [card : Cards, value : Values] /\ dragging[p].card = c
  BY <1>1, <1>2 DEF Drags
<1>4. [dragging[p] EXCEPT !.value = v] = [card |-> c, value |-> v]
  BY <1>3
<1>5. dragging' = [dragging EXCEPT ![p] = [card |-> c, value |-> v]]
  BY <1>2, <1>4 DEF UpdateSlider
<1>6. QED
  BY <1>1, <1>5, DragKeeps DEF UpdateSlider, AfterMove

LEMMA StopSliderKeeps ==
  ASSUME InputInv, NEW p \in Pages, NEW c \in Cards, StopSlider(p, c), UNCHANGED kind
  PROVE  InputInv'
<1>1. TypeOK /\ Sound
  BY DEF InputInv, Sound
<1>2. /\ UNCHANGED <<kind, store, heard, view, socket, workQueue, dropped>>
      /\ Drags(p, c) /\ view[p][c] # Absent
      /\ inbound' = Sending(p, c, view[p][c])
      /\ settled' = LetGo(p, c, dragging[p].value)
      /\ dragging' = [dragging EXCEPT ![p] = NoDrag]
  BY DEF StopSlider, UserActs
<1>3. /\ settled \in [Cards -> SUBSET Values] /\ \A d \in Cards : settled[d] \subseteq ValuesOf(d)
      /\ dragging \in [Pages -> [card : Cards, value : Values] \cup {NoDrag}]
  BY <1>1 DEF TypeOK, Sound, SettledFit
<1>4. dragging[p].value \in Values /\ kind[c] = "slider"
      /\ view[p][c] \in {dragging[p].value} \cup settled[c]
  BY <1>1, <1>2, <1>3 DEF Drags, Sound, DragSound
<1>5. ValuesOf(c) = Values
  BY <1>4 DEF ValuesOf
<1>6. view[p][c] \in Values
  BY <1>3, <1>4
<1>7. /\ settled' \in [Cards -> SUBSET Values]
      /\ \A d \in Cards : settled[d] \subseteq settled'[d] /\ settled'[d] \subseteq ValuesOf(d)
      /\ socket[p] # "closed" => view[p][c] \in settled'[c]
  BY <1>2, <1>3, <1>4, <1>5 DEF LetGo
<1>8. view \in [Pages -> [Cards -> Shown]] /\ Fits(c, view[p][c])
  BY <1>1 DEF TypeOK, Shown, Displayed, Sound, ViewFits
<1>9. /\ dragging' \in [Pages -> [card : Cards, value : Values] \cup {NoDrag}]
      /\ \A q \in Pages : q # p => dragging'[q] = dragging[q]
      /\ dragging'[p] = NoDrag
  BY <1>2, <1>3
<1>10. \A d \in Cards : socket[p] = "ready" /\ Untouched(p, d)' => Untouched(p, d)
  BY <1>1, <1>2, <1>6, SentTouches DEF Untouched, Drags
<1>11. QED
  BY <1>2, <1>6, <1>7, <1>8, <1>9, <1>10, ControlKeeps

-----------------------------------------------------------------------------
(* Connections.                                                            *)

LEMMA ConnectionKeeps ==
  ASSUME InputInv, NEW p \in Pages, NEW ms \in {<<>>, <<InitRequest>>},
         NEW s \in {"closed", "asked"},
         UNCHANGED <<kind, store, heard, view, workQueue, dragging, dropped, settled>>,
         socket' = [socket EXCEPT ![p] = s],
         inbound' = [inbound EXCEPT ![p] = ms]
  PROVE  InputInv'
<1>1. TypeOK /\ Sound /\ Agreed
  BY DEF InputInv, Sound
<1>2. /\ socket \in [Pages -> {"closed", "asked", "ready"}]
      /\ inbound \in [Pages -> Seq(Message)]
  BY <1>1 DEF TypeOK
<1>3. InitRequest \in Message
  BY DEF Message
<1>4. ms \in Seq(Message) /\ Len(ms) \in Nat /\ \A i \in 1 .. Len(ms) : ms[i].type = "init"
  <2>1. CASE ms = <<>>
    BY <2>1, EmptySeq
  <2>2. CASE ms = <<InitRequest>>
    BY <1>3, <2>2 DEF InitRequest
  <2>3. QED
    BY <2>1, <2>2
<1>5. /\ inbound' \in [Pages -> Seq(Message)] /\ inbound'[p] = ms
      /\ \A q \in Pages : q # p => inbound'[q] = inbound[q] /\ socket'[q] = socket[q]
      /\ socket' \in [Pages -> {"closed", "asked", "ready"}] /\ socket'[p] # "ready"
  BY <1>2, <1>4
<1>6. TypeOK'
  BY <1>1, <1>5 DEF TypeOK
<1>7. SettledFit' /\ StoredSettled' /\ ViewFits' /\ DragSound'
  BY <1>1 DEF Sound, SettledFit, StoredSettled, ValuesOf, ViewFits, Fits, DragSound
<1>8. QueueSettled'
  BY <1>1 DEF Sound, QueueSettled, ItemSound
<1>9. InboundSettled'
  BY <1>1, <1>4, <1>5 DEF Sound, InboundSettled, MessageSound
<1>10. HeardStored' /\ LastStored'
  BY <1>1 DEF Agreed, HeardStored, LastStored, Echoes, Hears, Concerns, Brings
<1>11. ReadyShown'
  BY <1>1, <1>5 DEF Agreed, ReadyShown
<1>12. ViewStored'
  BY <1>1, <1>5 DEF Agreed, ViewStored, Echoes, Hears, Concerns, Untouched, Drags
<1>13. QED
  BY <1>6, <1>7, <1>8, <1>9, <1>10, <1>11, <1>12 DEF InputInv, Sound, Agreed

LEMMA OpenKeeps ==
  ASSUME InputInv, NEW p \in Pages, Open(p), UNCHANGED kind
  PROVE  InputInv'
BY ConnectionKeeps DEF Open

LEMMA CloseKeeps ==
  ASSUME InputInv, NEW p \in Pages, Close(p), UNCHANGED kind
  PROVE  InputInv'
BY ConnectionKeeps DEF Close

-----------------------------------------------------------------------------
(* The device.                                                             *)

\* What Queued does to the queue.
LEMMA QueuedTypes ==
  ASSUME TypeOK, NEW item \in Item, workQueue' = Queued(item)
  PROVE  /\ workQueue' \in Seq(Item) /\ Len(workQueue') <= QueueCap /\ Len(workQueue) \in Nat
         /\ ~QueueHasRoom => workQueue' = workQueue
         /\ QueueHasRoom =>
              /\ Len(workQueue') = Len(workQueue) + 1
              /\ \A i \in 1 .. Len(workQueue) : workQueue'[i] = workQueue[i]
              /\ workQueue'[Len(workQueue) + 1] = item
<1>1. workQueue \in Seq(Item) /\ Len(workQueue) <= QueueCap /\ QueueCap \in Nat
  BY InputAssumptions DEF TypeOK
<1>2. Len(workQueue) \in Nat
  BY <1>1
<1>3. CASE QueueHasRoom
  <2>1. workQueue' = Append(workQueue, item)
    BY <1>3 DEF Queued
  <2>2. /\ workQueue' \in Seq(Item)
        /\ Len(workQueue') = Len(workQueue) + 1
        /\ \A i \in 1 .. Len(workQueue) : workQueue'[i] = workQueue[i]
        /\ workQueue'[Len(workQueue) + 1] = item
    BY <1>1, <2>1, AppendProperties
  <2>3. Len(workQueue') <= QueueCap
    BY <1>1, <1>2, <1>3, <2>2 DEF QueueHasRoom
  <2>4. QED
    BY <1>2, <1>3, <2>2, <2>3
<1>4. CASE ~QueueHasRoom
  BY <1>1, <1>2, <1>4 DEF Queued
<1>5. QED
  BY <1>3, <1>4

\* What receiving does to the messages under way.
LEMMA ReceivedTypes ==
  ASSUME TypeOK, NEW p \in Pages, NEW t, Received(p, t)
  PROVE  /\ inbound' \in [Pages -> Seq(Message)]
         /\ \A q \in Pages : q # p => inbound'[q] = inbound[q]
         /\ Head(inbound[p]) = inbound[p][1] /\ inbound[p][1].type = t
         /\ Len(inbound[p]) \in Nat /\ 1 \in 1 .. Len(inbound[p])
         /\ Len(inbound'[p]) = Len(inbound[p]) - 1
         /\ \A i \in 1 .. Len(inbound'[p]) : inbound'[p][i] = inbound[p][i + 1]
<1>1. inbound \in [Pages -> Seq(Message)] /\ inbound[p] # <<>> /\ Head(inbound[p]).type = t
  BY DEF TypeOK, Received
<1>2. inbound' = [inbound EXCEPT ![p] = Tail(inbound[p])]
  BY DEF Received
<1>3. inbound'[p] = Tail(inbound[p])
  BY <1>1, <1>2
<1>4. /\ Head(inbound[p]) = inbound[p][1] /\ Tail(inbound[p]) \in Seq(Message)
      /\ Len(Tail(inbound[p])) = Len(inbound[p]) - 1
      /\ \A i \in 1 .. Len(Tail(inbound[p])) : Tail(inbound[p])[i] = inbound[p][i + 1]
  BY <1>1, HeadTailProperties
<1>5. Len(inbound[p]) \in Nat /\ Len(inbound[p]) # 0
  BY <1>1, EmptySeq
<1>6. QED
  BY <1>1, <1>2, <1>3, <1>4, <1>5

\* A message was received, the values of one card may have changed to its
\* value, and an item that brings what is then stored may have been queued.
LEMMA HandleKeeps ==
  ASSUME InputInv, NEW p \in Pages, NEW t, Received(p, t),
         UNCHANGED <<kind, view, socket, dragging, settled>>,
         NEW item \in Item,
         workQueue' = workQueue \/ workQueue' = Queued(item),
         ItemSound(item),
         NEW C \in SUBSET Cards, \* the cards with an input handled
         \A c \in C : t = "action" /\ inbound[p][1].card = c,
         t = "action" => inbound[p][1].card \in C,
         store' \in [Cards -> Values], heard' \in [Cards -> Values],
         \A c \in Cards : store'[c] \in settled[c] /\ heard'[c] \in settled[c],
         \A c \in Cards \ C : store'[c] = store[c] /\ heard'[c] = heard[c],
         \A c \in C : Echoes(c) => heard'[c] = store'[c],
         dropped' \in SUBSET Cards,
         \A c \in Cards \ C : c \in dropped' <=> c \in dropped,
         \A c \in C, q \in Pages : Echoes(c) /\ c \notin dropped' =>
           QueueHasRoom /\ workQueue' = Queued(item) /\ Concerns(item, q, c),
         workQueue' = Queued(item) =>
           \A c \in Cards, q \in Pages : Echoes(c) /\ Concerns(item, q, c) => Brings(item, c)'
  PROVE  InputInv'
<1>1. TypeOK /\ Sound /\ Agreed
  BY DEF InputInv, Sound
<1>2. /\ inbound' \in [Pages -> Seq(Message)]
      /\ \A q \in Pages : q # p => inbound'[q] = inbound[q]
      /\ inbound[p][1].type = t
      /\ Len(inbound[p]) \in Nat /\ 1 \in 1 .. Len(inbound[p])
      /\ Len(inbound'[p]) = Len(inbound[p]) - 1
      /\ \A i \in 1 .. Len(inbound'[p]) : inbound'[p][i] = inbound[p][i + 1]
  BY <1>1, ReceivedTypes
<1>3. workQueue \in Seq(Item) /\ Len(workQueue) \in Nat /\ Len(workQueue) <= QueueCap
  BY <1>1, QueueTypes DEF TypeOK
<1>4. workQueue' # workQueue =>
        /\ workQueue' = Queued(item) /\ QueueHasRoom
        /\ workQueue' \in Seq(Item) /\ Len(workQueue') <= QueueCap
        /\ Len(workQueue') = Len(workQueue) + 1
        /\ \A i \in 1 .. Len(workQueue) : workQueue'[i] = workQueue[i]
        /\ workQueue'[Len(workQueue) + 1] = item
  BY <1>1, QueuedTypes
<1>5. TypeOK'
  <2>1. workQueue' \in Seq(Item) /\ Len(workQueue') <= QueueCap
    BY <1>3, <1>4
  <2>2. QED
    BY <1>1, <1>2, <2>1 DEF TypeOK
<1>6. SettledFit' /\ StoredSettled' /\ ViewFits' /\ DragSound'
  BY <1>1 DEF Sound, SettledFit, StoredSettled, ValuesOf, ViewFits, Fits, DragSound
<1>7. InboundSettled'
  <2>1. SUFFICES ASSUME NEW q \in Pages, NEW i \in 1 .. Len(inbound'[q])
                 PROVE  inbound'[q][i].type = "action" =>
                          inbound'[q][i].value \in settled[inbound'[q][i].card]
    BY DEF InboundSettled, MessageSound
  <2>2. CASE q = p
    <3>1. i + 1 \in 1 .. Len(inbound[p]) /\ inbound'[p][i] = inbound[p][i + 1]
      BY <1>2, <2>1, <2>2
    <3>2. QED
      BY <1>1, <2>2, <3>1 DEF Sound, InboundSettled, MessageSound
  <2>3. CASE q # p
    BY <1>1, <1>2, <2>1, <2>3 DEF Sound, InboundSettled, MessageSound
  <2>4. QED
    BY <2>2, <2>3
<1>8. QueueSettled'
  <2>1. SUFFICES ASSUME NEW i \in 1 .. Len(workQueue') PROVE ItemSound(workQueue'[i])
    BY DEF QueueSettled, ItemSound
  <2>2. i \in 1 .. Len(workQueue) \/ (workQueue' # workQueue /\ i = Len(workQueue) + 1)
    BY <1>3, <1>4, <2>1
  <2>3. QED
    BY <1>1, <1>4, <2>2 DEF Sound, QueueSettled
<1>9. HeardStored'
  BY <1>1 DEF Agreed, HeardStored, Echoes, Hears
<1>10. LastStored'
  <2>1. SUFFICES ASSUME NEW c \in Cards, NEW q \in Pages, Echoes(c), c \notin dropped',
                        NEW i \in 1 .. Len(workQueue'), Concerns(workQueue'[i], q, c),
                        \A j \in 1 .. Len(workQueue') : i < j => ~Concerns(workQueue'[j], q, c)
                 PROVE  IF workQueue'[i].type = "init" THEN workQueue'[i].cards[c] = store'[c]
                                                       ELSE workQueue'[i].value = store'[c]
    BY DEF LastStored, Echoes, Hears, Concerns, Brings
  <2>2. CASE workQueue' # workQueue /\ i = Len(workQueue) + 1
    BY <1>4, <2>1, <2>2 DEF Brings
  <2>3. CASE i \in 1 .. Len(workQueue)
    <3>1. c \notin C
      <4>1. SUFFICES ASSUME c \in C PROVE FALSE
        OBVIOUS
      <4>2. QueueHasRoom /\ workQueue' = Queued(item) /\ Concerns(item, q, c)
        BY <2>1, <4>1
      <4>3. Len(workQueue') = Len(workQueue) + 1 /\ workQueue'[Len(workQueue) + 1] = item
        BY <1>1, <4>2, QueuedTypes
      <4>4. Len(workQueue) + 1 \in 1 .. Len(workQueue') /\ i < Len(workQueue) + 1
        BY <1>3, <2>3, <4>3
      <4>5. QED
        BY <2>1, <4>2, <4>3, <4>4
    <3>2. c \notin dropped /\ store'[c] = store[c]
      BY <2>1, <3>1
    <3>3. \A j \in 1 .. Len(workQueue) : j \in 1 .. Len(workQueue') /\ workQueue'[j] = workQueue[j]
      BY <1>3, <1>4
    <3>4. Brings(workQueue[i], c)
      BY <1>1, <2>1, <2>3, <3>2, <3>3 DEF Agreed, LastStored
    <3>5. QED
      BY <2>3, <3>2, <3>3, <3>4 DEF Brings
  <2>4. QED
    BY <1>3, <1>4, <2>1, <2>2, <2>3
<1>11. ReadyShown'
  BY <1>1 DEF Agreed, ReadyShown
<1>12. ViewStored'
  <2>1. SUFFICES ASSUME NEW c \in Cards, NEW q \in Pages, Echoes(c), c \notin dropped',
                        socket[q] = "ready", Untouched(q, c)',
                        \A j \in 1 .. Len(workQueue') : ~Concerns(workQueue'[j], q, c)
                 PROVE  view[q][c] = store'[c]
    BY DEF ViewStored, Echoes, Hears, Concerns
  <2>2. c \notin C
    <3>1. SUFFICES ASSUME c \in C PROVE FALSE
      OBVIOUS
    <3>2. QueueHasRoom /\ workQueue' = Queued(item) /\ Concerns(item, q, c)
      BY <2>1, <3>1
    <3>3. Len(workQueue') = Len(workQueue) + 1 /\ workQueue'[Len(workQueue) + 1] = item
      BY <1>1, <3>2, QueuedTypes
    <3>4. Len(workQueue) + 1 \in 1 .. Len(workQueue')
      BY <1>3, <3>3
    <3>5. QED
      BY <2>1, <3>2, <3>3, <3>4
  <2>3. c \notin dropped /\ store'[c] = store[c]
    BY <2>1, <2>2
  <2>4. \A j \in 1 .. Len(workQueue) : j \in 1 .. Len(workQueue') /\ workQueue'[j] = workQueue[j]
    BY <1>3, <1>4
  <2>5. \A j \in 1 .. Len(workQueue) : ~Concerns(workQueue[j], q, c)
    BY <2>1, <2>4
  <2>6. Untouched(q, c)
    <3>1. ~Drags(q, c)
      BY <2>1 DEF Untouched, Drags
    <3>2. CASE q # p
      BY <1>2, <2>1, <3>1, <3>2 DEF Untouched
    <3>3. CASE q = p
      <4>1. SUFFICES ASSUME NEW i \in 1 .. Len(inbound[p]), inbound[p][i].type = "action"
                     PROVE  inbound[p][i].card # c
        BY <3>1, <3>3 DEF Untouched
      <4>2. CASE i = 1
        BY <1>2, <2>2, <4>1, <4>2
      <4>3. CASE i # 1
        <5>1. i - 1 \in 1 .. Len(inbound'[p]) /\ (i - 1) + 1 = i
          BY <1>2, <4>1, <4>3
        <5>2. inbound'[p][i - 1] = inbound[p][i]
          BY <1>2, <5>1
        <5>3. QED
          BY <2>1, <3>3, <4>1, <5>1, <5>2 DEF Untouched
      <4>4. QED
        BY <4>2, <4>3
    <3>4. QED
      BY <3>2, <3>3
  <2>7. QED
    BY <1>1, <2>1, <2>3, <2>5, <2>6 DEF Agreed, ViewStored
<1>13. QED
  BY <1>5, <1>6, <1>7, <1>8, <1>9, <1>10, <1>11, <1>12 DEF InputInv, Sound, Agreed

LEMMA HandleInitKeeps ==
  ASSUME InputInv, NEW p \in Pages, HandleInit(p), UNCHANGED kind
  PROVE  InputInv'
<1>1. TypeOK /\ Sound /\ Agreed
  BY DEF InputInv, Sound
<1>2. PICK item : item = [type |-> "init", page |-> p, cards |-> store]
  OBVIOUS
<1>3. store \in [Cards -> Values] /\ heard \in [Cards -> Values] /\ dropped \in SUBSET Cards
  BY <1>1 DEF TypeOK
<1>4. item \in Item /\ item.type = "init" /\ item.cards = store
  BY <1>2, <1>3 DEF Item
<1>5. ItemSound(item)
  BY <1>1, <1>4 DEF ItemSound, Sound, StoredSettled
<1>6. /\ Received(p, "init") /\ workQueue' = Queued(item)
      /\ UNCHANGED <<kind, store, heard, view, socket, dragging, dropped, settled>>
  BY <1>2 DEF HandleInit
<1>7. \A c \in Cards : Brings(item, c)'
  BY <1>4, <1>6 DEF Brings
<1>8. \A c \in Cards : store[c] \in settled[c] /\ heard[c] \in settled[c]
  BY <1>1 DEF Sound, StoredSettled
<1>9. \A t, C : t = "init" /\ C = {} => InputInv'
  <2>1. SUFFICES ASSUME NEW t, NEW C, t = "init", C = {} PROVE InputInv'
    OBVIOUS
  <2>2. C \in SUBSET Cards /\ Received(p, t) /\ t # "action"
    BY <1>6, <2>1
  <2>3. \A c \in C : FALSE
    BY <2>1
  <2>4. QED
    BY <1>3, <1>4, <1>5, <1>6, <1>7, <1>8, <2>2, <2>3, HandleKeeps
<1>10. QED
  BY <1>9

\* The function of the card hears the value, and what it stores is queued.
LEMMA HandleActionKeeps ==
  ASSUME InputInv, NEW p \in Pages, HandleAction(p), UNCHANGED kind
  PROVE  InputInv'
<1>1. TypeOK /\ Sound /\ Agreed
  BY DEF InputInv, Sound
<1>2. /\ Received(p, "action") /\ UNCHANGED <<kind, view, socket, dragging, settled>>
  BY DEF HandleAction
<1>3. /\ Head(inbound[p]) = inbound[p][1] /\ inbound[p][1].type = "action"
      /\ 1 \in 1 .. Len(inbound[p])
  BY <1>1, <1>2, ReceivedTypes
<1>4. PICK c, v : c = inbound[p][1].card /\ v = inbound[p][1].value
  OBVIOUS
<1>5. c \in Cards /\ v \in Values
  BY <1>1, <1>3, <1>4, InboundTypes DEF ActionType
<1>6. v \in settled[c]
  BY <1>1, <1>3, <1>4 DEF Sound, InboundSettled, MessageSound
<1>7. PICK item : item = [type |-> "update", card |-> c, value |-> v]
  OBVIOUS
<1>8. item \in Item /\ item.type = "update" /\ item.card = c /\ item.value = v
  BY <1>5, <1>7 DEF Item
<1>9. ItemSound(item)
  BY <1>6, <1>8 DEF ItemSound
<1>10. /\ heard' = IF Hears(c) THEN [heard EXCEPT ![c] = v] ELSE heard
       /\ store' = IF Echoes(c) \/ Stores(Sent(kind[c])) THEN [store EXCEPT ![c] = v] ELSE store
       /\ \/ /\ Echoes(c) /\ workQueue' = Queued(item)
             /\ dropped' = IF QueueHasRoom THEN dropped \ {c} ELSE dropped \cup {c}
          \/ /\ ~Echoes(c) /\ workQueue' = workQueue /\ dropped' = dropped
  BY <1>3, <1>4, <1>7 DEF HandleAction, Echoes
<1>11. store \in [Cards -> Values] /\ heard \in [Cards -> Values] /\ dropped \in SUBSET Cards
  BY <1>1 DEF TypeOK
<1>12. /\ store' \in [Cards -> Values] /\ heard' \in [Cards -> Values]
       /\ dropped' \in SUBSET Cards
       /\ \A d \in Cards : d # c => /\ store'[d] = store[d] /\ heard'[d] = heard[d]
                                    /\ d \in dropped' <=> d \in dropped
       /\ store'[c] \in {store[c], v} /\ heard'[c] \in {heard[c], v}
       /\ Echoes(c) => store'[c] = v /\ heard'[c] = v
  BY <1>5, <1>10, <1>11 DEF Echoes
<1>13. \A d \in Cards : store'[d] \in settled[d] /\ heard'[d] \in settled[d]
  BY <1>1, <1>6, <1>12 DEF Sound, StoredSettled
<1>14. \A d \in Cards, q \in Pages : Concerns(item, q, d) <=> d = c
  BY <1>8 DEF Concerns
<1>15. Echoes(c) /\ c \notin dropped' => QueueHasRoom /\ workQueue' = Queued(item)
  BY <1>10, <1>11, <1>5
<1>16. Echoes(c) => Brings(item, c)'
  BY <1>8, <1>12 DEF Brings
<1>17. \A t, C : t = "action" /\ C = {c} => InputInv'
  <2>1. SUFFICES ASSUME NEW t, NEW C, t = "action", C = {c} PROVE InputInv'
    OBVIOUS
  <2>2. /\ C \in SUBSET Cards /\ Received(p, t) /\ inbound[p][1].card \in C
        /\ \A d \in C : d = c
        /\ \A d \in Cards \ C : d # c
    BY <1>2, <1>4, <1>5, <2>1
  <2>3. workQueue' = workQueue \/ workQueue' = Queued(item)
    BY <1>10
  <2>4. \A d \in C : t = "action" /\ inbound[p][1].card = d
    BY <1>4, <2>1, <2>2
  <2>5. /\ \A d \in Cards \ C : store'[d] = store[d] /\ heard'[d] = heard[d]
        /\ \A d \in C : Echoes(d) => heard'[d] = store'[d]
        /\ \A d \in Cards \ C : d \in dropped' <=> d \in dropped
    BY <1>12, <2>2
  <2>6. \A d \in C, q \in Pages : Echoes(d) /\ d \notin dropped' =>
          QueueHasRoom /\ workQueue' = Queued(item) /\ Concerns(item, q, d)
    BY <1>5, <1>14, <1>15, <2>2
  <2>7. \A d \in Cards, q \in Pages : Echoes(d) /\ Concerns(item, q, d) => Brings(item, d)'
    BY <1>14, <1>16
  <2>8. QED
    BY <1>2, <1>8, <1>9, <1>12, <1>13, <2>2, <2>3, <2>4, <2>5, <2>6, <2>7, HandleKeeps
<1>18. QED
  BY <1>17

\* The first item leaves the queue.
LEMMA ExecutedTypes ==
  ASSUME TypeOK, workQueue # <<>>, workQueue' = Tail(workQueue)
  PROVE  /\ workQueue' \in Seq(Item) /\ Len(workQueue') <= QueueCap
         /\ Head(workQueue) = workQueue[1] /\ 1 \in 1 .. Len(workQueue) /\ Len(workQueue) \in Nat
         /\ Len(workQueue') = Len(workQueue) - 1
         /\ \A i \in 1 .. Len(workQueue') : workQueue'[i] = workQueue[i + 1]
<1>1. workQueue \in Seq(Item) /\ Len(workQueue) <= QueueCap /\ QueueCap \in Nat
  BY InputAssumptions DEF TypeOK
<1>2. Len(workQueue) \in Nat /\ Len(workQueue) # 0
  BY <1>1, EmptySeq
<1>3. /\ Head(workQueue) = workQueue[1] /\ Tail(workQueue) \in Seq(Item)
      /\ Len(Tail(workQueue)) = Len(workQueue) - 1
      /\ \A i \in 1 .. Len(Tail(workQueue)) : Tail(workQueue)[i] = workQueue[i + 1]
  BY <1>1, HeadTailProperties
<1>4. QED
  BY <1>1, <1>2, <1>3

\* What executing the first item keeps, if the pages it concerns then show
\* what it brings.
LEMMA ExecuteKeeps ==
  ASSUME InputInv, workQueue # <<>>, workQueue' = Tail(workQueue),
         UNCHANGED <<kind, store, heard, inbound, dragging, dropped, settled>>,
         socket' \in [Pages -> {"closed", "asked", "ready"}],
         view' \in [Pages -> [Cards -> Shown]],
         \A p \in Pages, c \in Cards :
           \/ view'[p][c] = view[p][c]
           \/ view'[p][c] \in settled[c],
         \A p \in Pages : socket'[p] = "ready" /\ socket[p] # "ready" =>
           \A c \in Cards : Concerns(workQueue[1], p, c),
         \A p \in Pages, c \in Cards :
           IF Concerns(workQueue[1], p, c) /\ socket'[p] = "ready"
             THEN view'[p][c] \in settled[c] /\ (Brings(workQueue[1], c) => view'[p][c] = store[c])
             ELSE socket'[p] = "ready" => view'[p][c] = view[p][c]
  PROVE  InputInv'
<1>1. TypeOK /\ Sound /\ Agreed
  BY DEF InputInv, Sound
<1>2. /\ workQueue' \in Seq(Item) /\ Len(workQueue') <= QueueCap
      /\ 1 \in 1 .. Len(workQueue) /\ Len(workQueue) \in Nat
      /\ Len(workQueue') = Len(workQueue) - 1
      /\ \A i \in 1 .. Len(workQueue') : workQueue'[i] = workQueue[i + 1]
  BY <1>1, ExecutedTypes
<1>3. \A i \in 1 .. Len(workQueue') : i + 1 \in 1 .. Len(workQueue) /\ workQueue'[i] = workQueue[i + 1]
  BY <1>2
<1>4. \A i \in 1 .. Len(workQueue) : i # 1 =>
        i - 1 \in 1 .. Len(workQueue') /\ workQueue'[i - 1] = workQueue[i]
  BY <1>2
<1>5. TypeOK'
  BY <1>1, <1>2 DEF TypeOK, Shown, Displayed
<1>6. \A c \in Cards : \A v \in settled[c] :
        v \in Values /\ v \in ValuesOf(c) /\ v # Absent /\ Fits(c, v)
  <2>1. SUFFICES ASSUME NEW c \in Cards, NEW v \in settled[c]
                 PROVE  v \in Values /\ v \in ValuesOf(c) /\ v # Absent /\ Fits(c, v)
    OBVIOUS
  <2>2. v \in Values /\ v \in ValuesOf(c)
    BY <1>1 DEF TypeOK, Sound, SettledFit
  <2>3. QED
    BY <2>2, ValueFacts DEF Fits, ValuesOf
<1>7. SettledFit' /\ StoredSettled' /\ InboundSettled'
  BY <1>1 DEF Sound, SettledFit, StoredSettled, ValuesOf, InboundSettled, MessageSound
<1>8. QueueSettled'
  BY <1>1, <1>3 DEF Sound, QueueSettled, ItemSound
<1>9. ViewFits'
  <2>1. SUFFICES ASSUME NEW p \in Pages, NEW c \in Cards PROVE Fits(c, view'[p][c])
    BY DEF ViewFits, Fits
  <2>2. CASE view'[p][c] = view[p][c]
    BY <1>1, <2>2 DEF Sound, ViewFits
  <2>3. CASE view'[p][c] \in settled[c]
    BY <1>6, <2>3
  <2>4. QED
    BY <2>2, <2>3
<1>10. DragSound'
  <2>1. SUFFICES ASSUME NEW p \in Pages, dragging[p] # NoDrag
                 PROVE  /\ kind[dragging[p].card] = "slider"
                        /\ view'[p][dragging[p].card] \in
                             {dragging[p].value} \cup settled[dragging[p].card]
    BY DEF DragSound
  <2>2. dragging[p].card \in Cards
    BY <1>1, <2>1 DEF TypeOK
  <2>3. QED
    BY <1>1, <2>1, <2>2 DEF Sound, DragSound
<1>11. HeardStored'
  BY <1>1 DEF Agreed, HeardStored, Echoes, Hears
<1>12. LastStored'
  <2>1. SUFFICES ASSUME NEW c \in Cards, NEW p \in Pages, Echoes(c), c \notin dropped,
                        NEW i \in 1 .. Len(workQueue'), Concerns(workQueue'[i], p, c),
                        \A j \in 1 .. Len(workQueue') : i < j => ~Concerns(workQueue'[j], p, c)
                 PROVE  IF workQueue'[i].type = "init" THEN workQueue'[i].cards[c] = store'[c]
                                                       ELSE workQueue'[i].value = store'[c]
    BY DEF LastStored, Echoes, Hears, Concerns, Brings
  <2>2. \A j \in 1 .. Len(workQueue) : i + 1 < j => ~Concerns(workQueue[j], p, c)
    <3>1. SUFFICES ASSUME NEW j \in 1 .. Len(workQueue), i + 1 < j
                   PROVE  ~Concerns(workQueue[j], p, c)
      OBVIOUS
    <3>2. j # 1 /\ i < j - 1
      BY <1>2, <2>1, <3>1
    <3>3. QED
      BY <1>4, <2>1, <3>1, <3>2
  <2>3. i + 1 \in 1 .. Len(workQueue) /\ workQueue'[i] = workQueue[i + 1]
    BY <1>3, <2>1
  <2>4. Brings(workQueue[i + 1], c)
    BY <1>1, <2>1, <2>2, <2>3 DEF Agreed, LastStored
  <2>5. QED
    BY <2>3, <2>4 DEF Brings
<1>13. ReadyShown'
  <2>1. SUFFICES ASSUME NEW p \in Pages, socket'[p] = "ready", NEW c \in Cards
                 PROVE  view'[p][c] # Absent
    BY DEF ReadyShown
  <2>2. CASE Concerns(workQueue[1], p, c)
    BY <1>6, <2>1, <2>2
  <2>3. CASE ~Concerns(workQueue[1], p, c)
    BY <1>1, <2>1, <2>3 DEF Agreed, ReadyShown
  <2>4. QED
    BY <2>2, <2>3
<1>14. ViewStored'
  <2>1. SUFFICES ASSUME NEW c \in Cards, NEW p \in Pages, Echoes(c), c \notin dropped,
                        socket'[p] = "ready", Untouched(p, c)',
                        \A j \in 1 .. Len(workQueue') : ~Concerns(workQueue'[j], p, c)
                 PROVE  view'[p][c] = store[c]
    BY DEF ViewStored, Echoes, Hears, Concerns
  <2>2. /\ Untouched(p, c)
        /\ \A j \in 1 .. Len(workQueue) : j # 1 => ~Concerns(workQueue[j], p, c)
    BY <1>4, <2>1 DEF Untouched, Drags
  <2>3. CASE Concerns(workQueue[1], p, c)
    <3>1. \A j \in 1 .. Len(workQueue) : 1 < j => ~Concerns(workQueue[j], p, c)
      BY <1>2, <2>2
    <3>2. Brings(workQueue[1], c)
      BY <1>1, <1>2, <2>1, <2>3, <3>1 DEF Agreed, LastStored
    <3>3. QED
      BY <2>1, <2>3, <3>2
  <2>4. CASE ~Concerns(workQueue[1], p, c)
    BY <1>1, <1>2, <2>1, <2>2, <2>4 DEF Agreed, ViewStored
  <2>5. QED
    BY <2>3, <2>4
<1>15. QED
  BY <1>5, <1>7, <1>8, <1>9, <1>10, <1>11, <1>12, <1>13, <1>14 DEF InputInv, Sound, Agreed

LEMMA ExecuteInitKeeps ==
  ASSUME InputInv, NEW p \in Pages, ExecuteInit(p), UNCHANGED kind
  PROVE  InputInv'
<1>1. TypeOK /\ Sound
  BY DEF InputInv, Sound
<1>2. /\ workQueue # <<>> /\ workQueue' = Tail(workQueue)
      /\ Head(workQueue).type = "init" /\ Head(workQueue).page = p
      /\ UNCHANGED <<kind, store, heard, inbound, dragging, dropped, settled>>
  BY DEF ExecuteInit
<1>3. Head(workQueue) = workQueue[1] /\ 1 \in 1 .. Len(workQueue)
  BY <1>1, <1>2, ExecutedTypes
<1>4. workQueue[1] \in InitType /\ workQueue[1].type = "init" /\ workQueue[1].page = p
  BY <1>1, <1>2, <1>3, QueueTypes
<1>5. /\ workQueue[1].cards \in [Cards -> Values]
      /\ \A c \in Cards : workQueue[1].cards[c] \in settled[c]
  BY <1>1, <1>3, <1>4 DEF InitType, Sound, QueueSettled, ItemSound
<1>6. \A q \in Pages, c \in Cards : Concerns(workQueue[1], q, c) <=> q = p
  BY <1>4 DEF Concerns
<1>7. /\ view \in [Pages -> [Cards -> Shown]]
      /\ socket \in [Pages -> {"closed", "asked", "ready"}]
  BY <1>1 DEF TypeOK, Shown, Displayed
<1>8. CASE socket[p] = "closed" /\ view' = view /\ socket' = socket
  BY <1>2, <1>6, <1>7, <1>8, ExecuteKeeps
<1>9. CASE /\ view' = [view EXCEPT ![p] = workQueue[1].cards]
           /\ socket' = [socket EXCEPT ![p] = "ready"]
  <2>1. workQueue[1].cards \in [Cards -> Shown]
    BY <1>5, ValueFacts
  <2>2. /\ view' \in [Pages -> [Cards -> Shown]]
        /\ view'[p] = workQueue[1].cards
        /\ \A q \in Pages : q # p => view'[q] = view[q] /\ socket'[q] = socket[q]
        /\ socket' \in [Pages -> {"closed", "asked", "ready"}]
    BY <1>7, <1>9, <2>1
  <2>3. \A c \in Cards : Brings(workQueue[1], c) => view'[p][c] = store[c]
    BY <1>4, <2>2 DEF Brings
  <2>4. QED
    BY <1>2, <1>5, <1>6, <2>2, <2>3, ExecuteKeeps
<1>10. QED
  BY <1>3, <1>8, <1>9 DEF ExecuteInit, ShownAfterInit

LEMMA ExecuteUpdateKeeps ==
  ASSUME InputInv, ExecuteUpdate, UNCHANGED kind
  PROVE  InputInv'
<1>1. TypeOK /\ Sound /\ Agreed
  BY DEF InputInv, Sound
<1>2. /\ workQueue # <<>> /\ workQueue' = Tail(workQueue)
      /\ Head(workQueue).type = "update"
      /\ UNCHANGED <<kind, store, heard, socket, inbound, dragging, dropped, settled>>
  BY DEF ExecuteUpdate
<1>3. Head(workQueue) = workQueue[1] /\ 1 \in 1 .. Len(workQueue)
  BY <1>1, <1>2, ExecutedTypes
<1>4. workQueue[1] \in UpdateType /\ workQueue[1].type # "init"
  BY <1>1, <1>2, <1>3, QueueTypes
<1>5. PICK c, v : c = workQueue[1].card /\ v = workQueue[1].value
  OBVIOUS
<1>6. c \in Cards /\ v \in Values /\ v \in settled[c]
  BY <1>1, <1>3, <1>4, <1>5 DEF UpdateType, Sound, QueueSettled, ItemSound
<1>7. view' = [q \in Pages |-> ShownAfterUpdate(q, c, v)]
  BY <1>3, <1>5 DEF ExecuteUpdate
<1>8. /\ view \in [Pages -> [Cards -> Shown]]
      /\ socket \in [Pages -> {"closed", "asked", "ready"}]
  BY <1>1 DEF TypeOK, Shown, Displayed
<1>9. \A q \in Pages :
        /\ ShownAfterUpdate(q, c, v) \in [Cards -> Shown]
        /\ \A d \in Cards : d # c => ShownAfterUpdate(q, c, v)[d] = view[q][d]
        /\ ShownAfterUpdate(q, c, v)[c] \in {view[q][c], v}
        /\ socket[q] = "ready" => ShownAfterUpdate(q, c, v)[c] = v
  BY <1>1, <1>6, <1>8, ValueFacts DEF ShownAfterUpdate, Agreed, ReadyShown
<1>10. /\ view' \in [Pages -> [Cards -> Shown]]
       /\ \A q \in Pages, d \in Cards : d # c => view'[q][d] = view[q][d]
       /\ \A q \in Pages : view'[q][c] \in {view[q][c], v}
       /\ \A q \in Pages : socket[q] = "ready" => view'[q][c] = v
  BY <1>6, <1>7, <1>9
<1>11. \A q \in Pages, d \in Cards : Concerns(workQueue[1], q, d) <=> d = c
  BY <1>4, <1>5 DEF Concerns
<1>12. Brings(workQueue[1], c) => v = store[c]
  BY <1>4, <1>5 DEF Brings
<1>13. QED
  BY <1>2, <1>6, <1>8, <1>10, <1>11, <1>12, ExecuteKeeps

-----------------------------------------------------------------------------
(* The theorems.                                                           *)

LEMMA InputInit ==
  ASSUME Init
  PROVE  InputInv
<1>1. TypeOK
  <2>1. CardKinds \subseteq Kinds /\ QueueCap \in Nat /\ 0 \in Values
    BY InputAssumptions, ValueFacts
  <2>2. workQueue = <<>> /\ workQueue \in Seq(Item) /\ Len(workQueue) = 0
    BY EmptySeq DEF Init
  <2>3. inbound \in [Pages -> Seq(Message)]
    BY EmptySeq DEF Init
  <2>4. QED
    BY <2>1, <2>2, <2>3 DEF Init, TypeOK
<1>2. SettledFit /\ StoredSettled
  BY ValueFacts DEF Init, SettledFit, StoredSettled, ValuesOf
<1>3. Len(workQueue) = 0 /\ \A p \in Pages : Len(inbound[p]) = 0
  BY EmptySeq DEF Init
<1>4. InboundSettled /\ QueueSettled
  BY <1>3 DEF InboundSettled, QueueSettled
<1>5. Absent \in Shown /\ Absent \notin Displayed
  BY InputAssumptions DEF Absent, Shown, Displayed, WithOffset, Values
<1>6. ViewFits
  BY <1>5 DEF Init, ViewFits, Fits
<1>7. DragSound
  BY DEF Init, DragSound
<1>8. HeardStored /\ LastStored
  BY <1>3 DEF Init, HeardStored, LastStored
<1>9. \A p \in Pages : socket[p] # "ready"
  BY DEF Init
<1>10. ReadyShown /\ ViewStored
  BY <1>9 DEF ReadyShown, ViewStored
<1>11. QED
  BY <1>1, <1>2, <1>4, <1>6, <1>7, <1>8, <1>10 DEF InputInv, Sound, Agreed

LEMMA InputNext ==
  ASSUME InputInv, [Next]_vars
  PROVE  InputInv'
<1>1. CASE ExecuteUpdate /\ UNCHANGED kind
  BY <1>1, ExecuteUpdateKeeps
<1>2. ASSUME NEW p \in Pages, UNCHANGED kind,
             \/ Open(p) \/ Close(p)
             \/ HandleInit(p) \/ HandleAction(p) \/ ExecuteInit(p)
      PROVE  InputInv'
  BY <1>2, OpenKeeps, CloseKeeps, HandleInitKeeps, HandleActionKeeps, ExecuteInitKeeps
<1>3. ASSUME NEW p \in Pages, NEW c \in Cards, UNCHANGED kind,
             Press(p, c) \/ ToggleSwitch(p, c) \/ StopSlider(p, c)
      PROVE  InputInv'
  BY <1>3, PressKeeps, ToggleKeeps, StopSliderKeeps
<1>4. ASSUME NEW p \in Pages, NEW c \in Cards, NEW v \in Values, UNCHANGED kind,
             Choose(p, c, v) \/ StartSlider(p, c, v) \/ UpdateSlider(p, c, v)
      PROVE  InputInv'
  BY <1>4, ChooseKeeps, StartSliderKeeps, UpdateSliderKeeps
<1>5. CASE UNCHANGED vars
  BY <1>5 DEF vars, InputInv, Sound, TypeOK, SettledFit, StoredSettled, InboundSettled,
       QueueSettled, ViewFits, DragSound, MessageSound, ItemSound, ValuesOf, Fits,
       Agreed, HeardStored, LastStored, ReadyShown, ViewStored, Echoes, Hears,
       Concerns, Brings, Untouched, Drags
<1>6. QED
  BY <1>1, <1>2, <1>3, <1>4, <1>5 DEF Next, Step

LEMMA InputInvariant == Spec => []InputInv
BY InputInit, InputNext, PTL DEF Spec

\* Every variable keeps its type.
THEOREM InputTypeCorrect == Spec => []TypeOK
<1>1. InputInv => TypeOK
  BY DEF InputInv, Sound
<1>2. QED
  BY <1>1, InputInvariant, PTL

\* The application only hears values at which some user let go, whatever
\* updates and initializations arrive in the middle of a drag.
THEOREM InputNothingTransient == Spec => []NothingTransientHeard
<1>1. InputInv => NothingTransientHeard
  BY DEF InputInv, Sound, StoredSettled, NothingTransientHeard
<1>2. QED
  BY <1>1, InputInvariant, PTL

\* Once nothing is under way, what the application heard last, what the device
\* stores and what every initialized page shows is one value.
THEOREM InputAtRestAgree == Spec => []AtRestAllAgree
<1>1. ASSUME InputInv PROVE AtRestAllAgree
  <2>1. SUFFICES ASSUME AtRest, NEW c \in Cards, Echoes(c)
                 PROVE  /\ heard[c] = store[c]
                        /\ \A p \in Pages : socket[p] = "ready" /\ c \notin dropped =>
                             view[p][c] = store[c]
    BY DEF AtRestAllAgree, Echoes
  <2>2. Agreed
    BY <1>1 DEF InputInv
  <2>3. heard[c] = store[c]
    BY <2>1, <2>2 DEF Agreed, HeardStored
  <2>4. \A p \in Pages : Untouched(p, c)
    <3>1. SUFFICES ASSUME NEW p \in Pages PROVE Untouched(p, c)
      OBVIOUS
    <3>2. inbound[p] = <<>> /\ dragging[p] = NoDrag
      BY <2>1, Zenon DEF AtRest
    <3>3. ~Drags(p, c)
      BY <3>2, Zenon DEF Drags
    <3>4. Len(inbound[p]) = 0
      BY <3>2, EmptySeq
    <3>5. QED
      BY <3>3, <3>4 DEF Untouched
  <2>5. \A p \in Pages : \A j \in 1 .. Len(workQueue) : ~Concerns(workQueue[j], p, c)
    BY <2>1, EmptySeq DEF AtRest
  <2>6. QED
    BY <2>1, <2>2, <2>3, <2>4, <2>5 DEF Agreed, ViewStored
<1>2. QED
  BY <1>1, InputInvariant, PTL
=============================================================================
