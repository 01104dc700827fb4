----------------------------- MODULE CardInput -----------------------------
(***************************************************************************)
(* User input: from a control of a page (extras/dashboard.html) as an      *)
(* action message to the device, through _handleWebSocketMessage           *)
(* (src/esp_dashboard_plus.cpp) to the function the application set for    *)
(* the card, and back to every page as an update.                          *)
(*                                                                         *)
(* The application sets the function of the card's own kind, onToggle for  *)
(* a toggle and so on, and it stores and broadcasts what it hears with the *)
(* update*Card method of that kind, if there is one.  Its functions run in *)
(* the task of the HTTP server, as everything here does on the device:     *)
(* updates by other tasks are the subject of CardSync.                     *)
(*                                                                         *)
(* A value is a number, 0 for what a card starts with.  A user has one     *)
(* pointer: a drag begins when no other is in progress.                    *)
(***************************************************************************)
EXTENDS Integers, Sequences

CONSTANTS
  Pages,
  Cards,
  CardKinds,   \* the kinds of card the application adds
  QueueCap,    \* items the work queue holds
  MaxValue,    \* bound: values of a card
  MaxInputs,   \* bound: messages of a page under way
  NoDrag       \* no slider is dragged, activeSlider = null

Kinds == {"button", "action", "toggle", "slider", "input", "color", "dropdown",
          "date", "time", "location", "timezone"}

Values == 0 .. MaxValue

ASSUME InputAssumptions ==
  /\ CardKinds \subseteq Kinds
  /\ QueueCap \in Nat
  /\ MaxValue \in Nat \ {0}
  /\ MaxInputs \in Nat
  /\ NoDrag \notin [card : Cards, value : Values]

VARIABLES
  kind,       \* what add*Card created
  store,      \* the value in each card of the device
  heard,      \* what the function of the card was last called with
  view,       \* config.value of each card in a page
  socket,     \* of a page: closed, asked for its initialization, or ready
  inbound,    \* messages of a page the device has not handled
  workQueue,  \* updates and initializations queued for the server task
  dragging,   \* activeSlider of a page, and where its user last moved it
  dropped,    \* history: cards whose last update the queue refused
  settled     \* history: values some user let go at

vars == <<kind, store, heard, view, socket, inbound, workQueue, dragging, dropped, settled>>

Absent == -1
InitRequest == [type |-> "init"]
Action(c, v) == [type |-> "action", card |-> c, value |-> v]

\* What getTimezone displays: the zone it sends, with the offset.
WithOffset(v) == v + MaxValue + 1

Init ==
  /\ kind \in [Cards -> CardKinds]
  /\ store = [c \in Cards |-> 0]
  /\ heard = [c \in Cards |-> 0]
  /\ view = [p \in Pages |-> [c \in Cards |-> Absent]]
  /\ socket = [p \in Pages |-> "closed"]
  /\ inbound = [p \in Pages |-> <<>>]
  /\ workQueue = <<>>
  /\ dragging = [p \in Pages |-> NoDrag]
  /\ dropped = {}
  /\ settled = [c \in Cards |-> {0}]

-----------------------------------------------------------------------------
(* What a control sends, and what the device does with it.                 *)

\* The calls of sendAction: action, name and JSON type of the value.
Sent(k) ==
  CASE k = "button"   -> [action |-> "click",    field |-> "none",     json |-> "none"]
    [] k = "action"   -> [action |-> "confirm",  field |-> "none",     json |-> "none"]
    [] k = "toggle"   -> [action |-> "change",   field |-> "value",    json |-> "bool"]
    [] k = "slider"   -> [action |-> "change",   field |-> "value",    json |-> "number"]
    [] k = "input"    -> [action |-> "submit",   field |-> "value",    json |-> "string"]
    [] k = "color"    -> [action |-> "change",   field |-> "color",    json |-> "string"]
    [] k = "location" -> [action |-> "location", field |-> "latitude", json |-> "number"]
    [] k = "timezone" -> [action |-> "timezone", field |-> "timezone", json |-> "string"]
    [] OTHER             -> [action |-> "change",   field |-> "value",    json |-> "string"]

OfJson == [string |-> "onInput", bool |-> "onToggle", number |-> "onSlider"]
OfAction == [click |-> "onButton", confirm |-> "onButton", color |-> "onColor",
             timezone |-> "onTimezone", location |-> "onLocation",
             date |-> "onDate", time |-> "onTime", dropdown |-> "onDropdown"]

\* The functions the branches of the dispatch call.
Called(m) ==
  IF m.action \in {"change", "submit"}
    THEN IF m.field = "value" THEN {OfJson[m.json]} ELSE {}
    ELSE {OfAction[m.action]}

\* The branches that also write the card.
Stores(m) == m.action \in {"timezone", "location", "date", "time", "dropdown"}

OwnFunction(k) ==
  CASE k \in {"button", "action"} -> "onButton"
    [] k = "toggle" -> "onToggle"
    [] k = "slider" -> "onSlider"
    [] k = "input" -> "onInput"
    [] OTHER -> OfAction[k]

Hears(c) == OwnFunction(kind[c]) \in Called(Sent(kind[c]))

\* The kinds that have an update*Card method.
Updatable == {"toggle", "slider", "color", "dropdown", "date", "time", "location"}

-----------------------------------------------------------------------------
(* The pages.                                                              *)

\* sendAction: nothing is sent unless the socket is open.
Sending(p, c, v) ==
  IF socket[p] # "closed"
    THEN [inbound EXCEPT ![p] = Append(@, Action(c, v))]
    ELSE inbound

LetGo(p, c, v) ==
  IF socket[p] # "closed" THEN [settled EXCEPT ![c] = @ \cup {v}] ELSE settled

\* Bound: the user waits while MaxInputs messages are under way.
UserActs(p, c) ==
  /\ view[p][c] # Absent
  /\ Len(inbound[p]) < MaxInputs

\* sendAction(id, 'click'), and 'confirm' of the modal dialog.
Press(p, c) ==
  /\ UserActs(p, c)
  /\ kind[c] \in {"button", "action"}
  /\ inbound' = Sending(p, c, 0)
  /\ UNCHANGED <<store, heard, view, socket, workQueue, dragging, dropped, settled>>

\* Mutated form: the value is counted up.
TurnedUp(v) == v + 1

Turned(v) == 1 - v

\* toggleSwitch: what the page shows is turned around.
ToggleSwitch(p, c) ==
  /\ UserActs(p, c)
  /\ kind[c] = "toggle"
  /\ LET v == Turned(view[p][c])
     IN /\ view' = [view EXCEPT ![p][c] = v]
        /\ inbound' = Sending(p, c, v)
        /\ settled' = LetGo(p, c, v)
  /\ UNCHANGED <<store, heard, socket, workQueue, dragging, dropped>>

\* submitInput, changeColor, changeDate, changeTime, selectDropdown,
\* getLocation, setManualLocation, getTimezone.
Choose(p, c, v) ==
  /\ UserActs(p, c)
  /\ kind[c] \in Kinds \ {"button", "action", "toggle", "slider"}
  /\ view' = [view EXCEPT ![p][c] =
       IF kind[c] = "timezone" THEN WithOffset(v) ELSE v]
  /\ inbound' = Sending(p, c, v)
  /\ settled' = LetGo(p, c, v)
  /\ UNCHANGED <<store, heard, socket, workQueue, dragging, dropped>>

Drags(p, c) == dragging[p] # NoDrag /\ dragging[p].card = c

\* startSlider and updateSlider: the page follows the pointer.
StartSlider(p, c, v) ==
  /\ UserActs(p, c)
  /\ kind[c] = "slider"
  /\ dragging[p] = NoDrag
  /\ dragging' = [dragging EXCEPT ![p] = [card |-> c, value |-> v]]
  /\ view' = [view EXCEPT ![p][c] = v]
  /\ UNCHANGED <<store, heard, socket, inbound, workQueue, dropped, settled>>

\* Mutated form: every movement is sent.
AfterMoveSent(p, c, v) == Sending(p, c, v)

\* updateSlider sends nothing.
AfterMove(p, c, v) == inbound

UpdateSlider(p, c, v) ==
  /\ Drags(p, c)
  /\ dragging' = [dragging EXCEPT ![p].value = v]
  /\ view' = [view EXCEPT ![p][c] = v]
  /\ inbound' = AfterMove(p, c, v)
  /\ UNCHANGED <<store, heard, socket, workQueue, dropped, settled>>

\* stopSlider sends what the page shows, which an update may have changed
\* since the user last moved.
StopSlider(p, c) ==
  /\ UserActs(p, c)
  /\ Drags(p, c)
  /\ inbound' = Sending(p, c, view[p][c])
  /\ settled' = LetGo(p, c, dragging[p].value)
  /\ dragging' = [dragging EXCEPT ![p] = NoDrag]
  /\ UNCHANGED <<store, heard, view, socket, workQueue, dropped>>

\* A socket opens, and its first message asks for the initialization.
Open(p) ==
  /\ socket[p] = "closed"
  /\ socket' = [socket EXCEPT ![p] = "asked"]
  /\ inbound' = [inbound EXCEPT ![p] = <<InitRequest>>]
  /\ UNCHANGED <<store, heard, view, workQueue, dragging, dropped, settled>>

\* It closes, and the messages under way are lost.
Close(p) ==
  /\ socket[p] # "closed"
  /\ socket' = [socket EXCEPT ![p] = "closed"]
  /\ inbound' = [inbound EXCEPT ![p] = <<>>]
  /\ UNCHANGED <<store, heard, view, workQueue, dragging, dropped, settled>>

-----------------------------------------------------------------------------
(* The device.                                                             *)

QueueHasRoom == Len(workQueue) < QueueCap

\* httpd_queue_work refuses an item when the queue is full.
Queued(item) == IF QueueHasRoom THEN Append(workQueue, item) ELSE workQueue

Received(p, type) ==
  /\ inbound[p] # <<>>
  /\ Head(inbound[p]).type = type
  /\ inbound' = [inbound EXCEPT ![p] = Tail(@)]

\* The init message: all cards as they are, queued for the page.
HandleInit(p) ==
  /\ Received(p, "init")
  /\ workQueue' = Queued([type |-> "init", page |-> p, cards |-> store])
  /\ UNCHANGED <<store, heard, view, socket, dragging, dropped, settled>>

\* The action message: the function of the card, which stores and broadcasts
\* the value, and the branches that write the card themselves.
HandleAction(p) ==
  /\ Received(p, "action")
  /\ LET c == Head(inbound[p]).card
         v == Head(inbound[p]).value
         echoes == Hears(c) /\ kind[c] \in Updatable
     IN /\ heard' = IF Hears(c) THEN [heard EXCEPT ![c] = v] ELSE heard
        /\ store' = IF echoes \/ Stores(Sent(kind[c]))
                      THEN [store EXCEPT ![c] = v] ELSE store
        /\ \/ /\ echoes
              /\ workQueue' = Queued([type |-> "update", card |-> c, value |-> v])
              /\ dropped' = IF QueueHasRoom THEN dropped \ {c} ELSE dropped \cup {c}
           \/ /\ ~echoes
              /\ UNCHANGED <<workQueue, dropped>>
  /\ UNCHANGED <<view, socket, dragging, settled>>

\* Mutated form: what the page already shows is kept.
ShownAfterInitKept(p, cards) ==
  [c \in Cards |-> IF view[p][c] = Absent THEN cards[c] ELSE view[p][c]]

\* case 'init' of the page.
ShownAfterInit(p, cards) == cards

\* send_to_fd_work_fn, and the page's handler.
ExecuteInit(p) ==
  /\ workQueue # <<>>
  /\ Head(workQueue).type = "init" /\ Head(workQueue).page = p
  /\ workQueue' = Tail(workQueue)
  /\ \/ /\ socket[p] = "closed"
        /\ UNCHANGED <<view, socket>>
     \/ /\ socket[p] # "closed"
        /\ view' = [view EXCEPT ![p] = ShownAfterInit(p, Head(workQueue).cards)]
        /\ socket' = [socket EXCEPT ![p] = "ready"]
  /\ UNCHANGED <<store, heard, inbound, dragging, dropped, settled>>

\* case 'update' of the page: cards it does not have are ignored.
ShownAfterUpdate(p, c, v) ==
  IF socket[p] # "closed" /\ view[p][c] # Absent
    THEN [view[p] EXCEPT ![c] = v] ELSE view[p]

\* broadcast_work_fn, and updateCard in every connected page.
ExecuteUpdate ==
  /\ workQueue # <<>>
  /\ Head(workQueue).type = "update"
  /\ LET c == Head(workQueue).card
         v == Head(workQueue).value
     IN view' = [p \in Pages |-> ShownAfterUpdate(p, c, v)]
  /\ workQueue' = Tail(workQueue)
  /\ UNCHANGED <<store, heard, socket, inbound, dragging, dropped, settled>>

Step ==
  \/ ExecuteUpdate
  \/ \E p \in Pages :
       \/ Open(p) \/ Close(p)
       \/ HandleInit(p) \/ HandleAction(p) \/ ExecuteInit(p)
       \/ \E c \in Cards :
            \/ Press(p, c) \/ ToggleSwitch(p, c) \/ StopSlider(p, c)
            \/ \E v \in Values :
                 Choose(p, c, v) \/ StartSlider(p, c, v) \/ UpdateSlider(p, c, v)

Next == Step /\ UNCHANGED kind

Spec == Init /\ [][Next]_vars

-----------------------------------------------------------------------------
(* Properties.                                                             *)

Message == [type : {"action"}, card : Cards, value : Values] \cup {InitRequest}
Item == [type : {"init"}, page : Pages, cards : [Cards -> Values]]
          \cup [type : {"update"}, card : Cards, value : Values]

TypeOK ==
  /\ kind \in [Cards -> Kinds]
  /\ store \in [Cards -> Values]
  /\ heard \in [Cards -> Values]
  /\ view \in [Pages -> [Cards -> {Absent} \cup Values \cup {WithOffset(v) : v \in Values}]]
  /\ socket \in [Pages -> {"closed", "asked", "ready"}]
  /\ inbound \in [Pages -> Seq(Message)]
  /\ workQueue \in Seq(Item) /\ Len(workQueue) <= QueueCap
  /\ dragging \in [Pages -> [card : Cards, value : Values] \cup {NoDrag}]
  /\ dropped \in SUBSET Cards
  /\ settled \in [Cards -> SUBSET Values]

\* Nothing is under way and nobody drags.
AtRest ==
  /\ \A p \in Pages : inbound[p] = <<>> /\ dragging[p] = NoDrag
  /\ workQueue = <<>>

\* At rest every initialized page shows what the device stores and what the
\* application last heard, for the cards whose kind is heard and can be
\* updated, toggle, slider and location: inputs of several pages, inputs lost with a connection or made
\* without one, drags and updates in flight end in one value everywhere
\* (sendAction, the dispatch of actions, broadcast and init).
AtRestAllAgree ==
  AtRest =>
    \A c \in Cards : Hears(c) /\ kind[c] \in Updatable =>
      /\ heard[c] = store[c]
      /\ \A p \in Pages : socket[p] = "ready" /\ c \notin dropped =>
           view[p][c] = store[c]

\* The application is never called with a value at which no user let go: not
\* with one a slider was only dragged across, whatever updates arrive in the
\* middle of a drag (updateSlider, stopSlider).
NothingTransientHeard ==
  \A c \in Cards : heard[c] \in settled[c]

\* Every handled input is given to the function of its card, as the branches of
\* the dispatch mean it: "if (e->onDropdown) e->onDropdown(val->valuestring)" for
\* the action "dropdown" (src/esp_dashboard_plus.cpp:416-422), one function for
\* each card (include/esp_dashboard_plus.h:176, "One std::function per card").
InputReachesItsFunction ==
  [][\A p \in Pages : HandleAction(p) =>
       Hears(Head(inbound[p]).card)]_vars
=============================================================================
