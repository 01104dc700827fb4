# ESP-DashboardPlus-IDF: a TLA+ verification project

The specifications in this directory model the dashboard component of this
repository: the WebSocket server side, the firmware update, the card state and
the page that shows it. Every definition is translated from the C++, JavaScript
and Python under the repository root; `PROJECT.json` maps each one to its lines.
Paths below are relative to the repository root.

## 1. Inventory

| component | code | state | operations |
|---|---|---|---|
| WebSocket server | `src/dashboard_server.cpp` | `s_closing_fds` (seven quarantined descriptors), the work items it queues; the ESP-IDF HTTP server holds the session table | upgrade, receive, `server_broadcast`, `server_send_to_fd_async`, `close_session`, start and stop |
| Firmware update | `src/dashboard_ota.cpp`, the `ota_*` branches of `_handleWebSocketMessage`, the two uploaders of `extras/dashboard.html` | `s_ota_handle`, `s_ota_partition`, `s_in_progress`, `_otaSize`, `_otaReceived`; in the page the offset | `ota_begin`, `ota_write`, `ota_end`, `ota_abort`; page: start, chunk every 20 ms, end |
| Cards | `src/dashboard_cards.cpp`, `add*Card`, `update*Card` | a pool of entries with a union of card data | allocate, find, update and broadcast, serialise, free |
| Chart history | `addChartSeries`, `updateChartCard`, chart part of `cards_to_cjson` | a ring of `maxPoints` values per series with one head index | add a series, add a point, serialise |
| Groups | `addGroup`, `addCardToGroup`, `removeCardFromGroup`, `removeGroup` | eight groups of sixteen card ids, arrays with counts | add, remove with shifting |
| Message dispatch | `_handleWebSocketMessage` | card data, callbacks | `init`, `action`, `command`, `ota_*` |
| Page: connection | `extras/dashboard.html`, `connect` | socket, reconnect timer, staleness timer, time of the last message | open, message, close, stale after ten seconds, reconnect after three |
| Page: view | `extras/dashboard.html`, `handleMessage`, `updateCard` | cards and groups as shown | `init`, `update`, `log`, user input |
| Base64 | `_b64_decoded_len`, `_b64_decode`; `btoa` in the page | none | encode, size and decode a chunk of an upload |
| Heartbeat | `loop` | `_lastHeartbeatMs` | broadcast a heartbeat when 2.5 s have passed |
| Build scripts | `scripts/*.py`, `CMakeLists.txt` | generated files | embed the page, generate the certificate |

How they interact. The ESP-IDF HTTP server runs one task. It accepts
connections, calls the handlers of `dashboard_server.cpp` and, between them,
executes queued work items. The application's tasks call `update*Card`, `log*`
and `loop`, which write the card data directly and queue a broadcast. There is
no lock anywhere: what keeps the parts consistent is that sessions, the
quarantine and the update are only touched by the server task, and that
everything else crosses the bounded work queue. Descriptors identify sessions
in queued items and in the quarantine, and are reused. The page asks for its
initialization once per connection, replaces its view by it and then applies
updates; it uploads firmware without any acknowledgement.

Hard behaviours: descriptor reuse between queueing and execution; a full work
queue that silently drops a close, an initialization or an update; a full
quarantine; card writes of application tasks racing the snapshot the server
task takes; two pages uploading at once; a broken connection in the middle of
an upload; a restart at any point; a ring whose series share one head index.

What makes each component correct:

- *WebSocket server*: a broadcast reaches every live client and nobody else, at
  most `CONFIG_DASHBOARD_MAX_CLIENTS` of them; a failing session is quarantined
  at once and its replacement is not; an initialization goes to who asked.
- *Firmware update*: one handle, owned by one update; the count compared with
  the declared size is what was written; the boot partition only switches to a
  whole file of the declared size.
- *Cards and view*: a client that is connected and initialised ends up showing
  the current card data.
- *Chart history*: the points are shown oldest first and none is lost before
  `maxPoints` newer ones arrived.
- *Groups*: the arrays are the sets and sequences the API promises, within
  their limits.
- *Input*: what a user lets go at, and nothing else, reaches the function of the
  card, and pages, device and application agree again when nothing is under way,
  for the kinds of card that the application can update.
- *Connection*: a page never gives up reconnecting and never uses two sockets.
- *Heartbeat*: a few lost or late heartbeats cost no page its connection.
- *Base64*: the buffer of a chunk is filled exactly, and what was cut out of the
  file is what is written.

Not listed above: `include/esp_dashboard_plus.h` declares the types and the
interface; `Kconfig`, `CMakeLists.txt` and `scripts/` configure and build. The
page's markup, style, SVG drawing, theme and console are output and local
filters without protocol of their own.

## 2. Modules

| module | models | state and actions | proofs |
|---|---|---|---|
| `DashboardServer` | `src/dashboard_server.cpp` over the ESP-IDF server | session table, quarantine, work queue, the loop of `broadcast_work_fn` one client at a time; upgrade, receive, work items, peers, restart | `DashboardServerProofs` |
| `Base64` | `btoa`, `_b64_decoded_len`, `_b64_decode` | operators: the lengths of text, buffer and output, and the conversion itself | `Base64Proofs` |
| `OtaUpdate` | the page's uploader, the `ota_*` messages, `src/dashboard_ota.cpp` over `esp_ota` | page (phase, offset, link), messages under way, `_otaSize`, `_otaReceived`, the handle, flash and boot partitions, in bytes; start, chunk, end with each error of `esp_ota`, restart | `OtaUpdateProofs` |
| `PageConnection` | `connect` of `extras/dashboard.html` | sockets, pending reconnect timeouts, the staleness check, the age of the last message; the four handlers, both timers, the clock | `PageConnectionProofs` |
| `Heartbeat` | `loop`, composed with `PageConnection` | time since the last heartbeat and the last call of `loop`, the heartbeat under way, how many were lost; extends the actions of the connection | `PageConnectionProofs`, second part |
| `CardSync` | adding and updating cards from tasks and from callbacks, `_buildInitJson`, the queue, the page's `init` and `update` | pool, where every task is in its call, the snapshot being built, queue, views; one action per step between which tasks can switch | `CardSyncProofs` |
| `CardInput` | the controls of the cards, `sendAction`, the dispatch of `action` and `init` messages, callbacks | card values, what the functions heard, views, messages under way, queue, drags | `CardInputProofs` |
| `ChartHistory` | `addChartSeries`, both `updateChartCard`, `cards_to_cjson` for charts, what the page draws | array, head, number of series, the page's copy; the caller's tick | `ChartHistoryProofs` |
| `GroupList` | (abstract) a sequence of groups, each a sequence of ids | what a group call promises | |
| `CardGroups` | the arrays `_groups`, `cardIds` and their counts | add and remove at both levels, shifting; implements `GroupList` | `CardGroupsProofs` |

`MC<module>` modules give the instances of the runs; each `.cfg` is one run.

Correspondence. A variable has the name of the field or global it stands for
where there is one (`closingFds` is `s_closing_fds`, `headIdx`, `otaReceived`,
`messageTimeoutCheck`). A handler that the program runs to completion in one
task is one action with everything it calls: `ReceiveInit` includes the queueing
in `server_send_to_fd_async`, `HandleAction` the callback and the update the
callback makes. A call is split where another task can really run in between:
`update*Card` into the write and the queueing, `_buildInitJson` into one step
for each card, `broadcast_work_fn` into one step for each client. Definitions
called *mutated form* are not part of any specification: each is a plausible
slip in the definition that follows it, kept to show that a property can fail.

External code is modelled from its use: the ESP-IDF server (accepting, LRU
purge, deleting a session, `httpd_queue_work` that may refuse,
`httpd_sess_trigger_close` that queues), `esp_ota` (every call may fail), the
browser's WebSocket and timers (timers run in due order and may be late; events
of a closing socket are dropped), the application (samples a chart in ticks;
updates a card from one task and from its callback; adds cards from one task;
keeps calling `loop`).

How the modules meet. `CardSync` and `CardInput` take one queued item to reach
every connected page: that is `BroadcastReachesClients` of `DashboardServer`.
`DashboardServer` takes a message as one frame; what a page sends and when it
reconnects is in `PageConnection`, which in turn takes the server as a peer that
may be silent, close or answer at any time. `Heartbeat` puts the one message the
device sends by itself on that connection: a broadcast that the queue of
`DashboardServer` refuses is a lost heartbeat there. `CardInput` runs everything
on the server task and is about values and kinds; `CardSync` lets a callback of
the server task overlap an application task that updates the same card, and is
about the order of writes, broadcasts and snapshots. `OtaUpdate` sends its chunks
as text whose lengths are those of `Base64`.

## 3. Runs

Eight runs check what the code does right, four show where it does something
other than its documentation says.

### WebSocket server

| run | instance | shows |
|---|---|---|
| `server_safety` | 3 descriptors, 3 sessions, 2 recipients, queue of 2 | `TypeOK`; a quarantined client is one whose own session was given up (`QuarantineOnlyGivenUp`); a given-up client is quarantined until its session is gone (`QuarantineCoversGivenUp`); a broadcast reaches every live client if there are at most `MaxClients` (`BroadcastReachesClients`) and never more (`BroadcastBounded`) |
| `server_liveness` | 2 descriptors, 2 sessions, 1 recipient, queue of 3, fair | an accepted broadcast gets to every client that stays (`HealthyClientHears`), and a queued initialization to the page that asked for it, unless it is closed or given up (`QueuedInitAnswered`), although broadcasts never stop |
| `server_stale_init` | as `server_liveness`, queue of 2 | *violated*: a queued initialization is sent to the next session with the descriptor (`InitOnlyToRequester`) |

Three descriptors and two recipients are the least at which a client can be
skipped, failing, counted or past the limit at once, and at which a descriptor
is reused while another session is being closed. A queue of two holds a close
and an initialization of the previous owner of a descriptor together. In the
runs there are as many descriptors as quarantine entries, as in the default
configuration (seven of each); theorem `QuarantineComplete` has that as its
assumption.

Fairness: `WF(HttpdWork)`. The loop of the ESP-IDF server takes a queued item in
each of its rounds, and a work function runs to its end. Nothing is assumed of
peers, of the application, or of room in the queue.

### Firmware update

| run | instance | shows |
|---|---|---|
| `ota_safety` | 3 uploads of 3, 3 and 0 bytes in chunks of 2 | `TypeOK`, with every buffer of a chunk filled to its end; one handle, owned by the update in progress (`HandleOwnership`); the count that decides is what was written (`WrittenIsReceived`); only an image of the declared size is booted (`BootedSizeDeclared`), and one made of a single upload is its whole file in order (`BootedUploadWhole`); an upload that nothing disturbed has every byte counted when its end comes (`UndisturbedAccepted`) |
| `ota_mixed_image` | same | *violated*: chunks of the aborted upload get into the next image (`OneUploadPerImage`) |

Two uploads of equal size are what can deceive the size check; their last chunk
is shorter than the others and padded, as nearly every real file's is; an empty
file is the case of an end directly after a start. `MCOtaUpdate` also evaluates
the conversion itself, `RoundTrip`, for all chunks of up to five bytes from
samples that set and clear every bit: two groups of characters and each padding
(theorem `Base64RoundTrip` has it for every chunk).
Connections break and come back at
any point, each `esp_ota` call can fail, and the device can restart at any time.

### Page connection

| run | instance | shows |
|---|---|---|
| `connection` | 3 sockets, half seconds, timers up to 2 s late, `loop` at most half a second late, a network of at most 1 s, the delays of the code, fair | `TypeOK`; one live socket (`OneConnection`); a reconnection or a running check whenever one is needed (`NeverAbandoned`); *connected* is shown only for a socket heard within 10 s plus one check (`ShownConnectedIsAlive`); a connection heard within 10 s is not closed by the page (`HealthyKept`); an open connection is given up only after more than two heartbeats in a row were lost (`LossesTolerated`); the page always gets an open connection again (`Recovers`) |
| `connection_closing` | 2 sockets | *violated*: while a stale socket is closing, the check postpones the reconnection each second (`ReconnectsWhileClosing`) |

A closed socket object is used again, so three stand for a chain of any length.
Fairness: the clock and due timers advance and a closing socket is closed in the
end, which browsers guarantee; infinitely many attempts that could succeed do
not all fail (`SF(Opened)`). The application keeps calling `loop`, the only
thing that sends heartbeats, and what is under way arrives; any heartbeat may be
lost before it is.
The tick is half a second because the period is 2.5 s; two tolerated losses are
the most the assumption `HeartbeatAssumptions` leaves room for with the delays
of the code: three periods of 3 s and a delay of 1 s are ten seconds.

### Cards, input, charts, groups

| run | instance | shows |
|---|---|---|
| `sync_safety` | 2 cards, 2 tasks and a callback of the first card, 1 page, queue of 2, 4 and 1 values | `TypeOK`; at rest a page shows every card that was there when it asked, with the stored value, unless the card's last update was queued behind a newer write of another task, or was dropped by a full queue or overtaken by the page's own initialization and no initialization has been asked for since the card was written (`AtRestShowsStored`); a page goes back to an older value only by such an update or initialization (`NeverBackwards`) |
| `input_cards` | 2 pages, 1 card of any of 8 kinds, 3 values, queue of 2 | `TypeOK`; at rest, for the kinds that are heard and can be updated (toggle, slider, location), the application and the store agree, and so does every initialised page unless the card's broadcast was dropped (`AtRestAllAgree`); the application hears no value that was only dragged across (`NothingTransientHeard`) |
| `input_dropdown` | 1 dropdown | *violated*: a dropdown's own function is never called (`InputReachesItsFunction`) |
| `chart_windows` | rings of 3, up to 3 series, 8 ticks | `TypeOK`; after every tick each label stands at the point of its age, of series 0 in any order of updates and of the others when series 0 is last (`LabelsTrue`); following the updates or being initialized now gives the same picture at every moment (`UpdatesAgreeWithInit`) |
| `group_arrays` | 3 groups of 2 ids, 2 names of each | `TypeOK`; the arrays implement the list of groups (`ImplementsGroupList`) |

Eight ticks turn a ring of three more than twice. `ZeroLast` is how the caller
samples in the run: series 0 last in each tick; the theorems hold for either. Three cells and two names make groups of
the same id and the same card twice in a group, the cases in which the code
takes the first. Two pages are needed for one page's input to cross another's;
one page is enough where nothing a page does reaches the others (`sync_safety`).
Four values of the card that a task and a callback both write are its data and
three updates: two that race and one that must repair what they left. The second
card is added by the other task while all that goes on, and not updated.
`QueueCap` is small so that it is full often; a dropped item is part of the model
and the properties say what it costs and what repairs it: the next update of the
card in every page, the next initialization in the page that asks. Named bounds: `MaxVersion`,
`MaxTicks`, `MaxSeries`, `MaxValue`, `MaxInputs`, and the caps of the two
history clocks of `PageConnection`.

### Behaviour in the models that no run judges

Seen while modelling, in the transitions as the code has it, and without a
property of its own; most are hazards in `PROJECT.json`:

- WebSocket clients are limited per broadcast (`BroadcastBounded`), not on
  upgrade, unlike `README.md:42-44`.
- A close that a full queue refuses is not tried again (`README.md:28-29`); the
  session stays quarantined and open.
- An initialization that cannot be queued is dropped and the page asks once
  (`README.md:47-48`); `QueuedInitAnswered` begins when it is queued.
- With more descriptors than quarantine entries, markers of descriptors that are
  gone can fill it, and a given-up client stays eligible.
- The page reports a complete upload without an answer of the device.
- An update queued while a page's initialization is built is overwritten by it
  in that page until the next update or initialization, and of two updates of
  one card the pages keep the one queued last, the device the one written last;
  `AtRestShowsStored` and `NeverBackwards` say that these and a refused
  broadcast are the only ways to show an old value for good.
- What a user enters in an input or timezone card has no update method to bring
  it to the other pages, and an input is not stored either: a page shows what its
  user entered until its next initialization. Color, date, time and dropdown do
  not reach their functions at all (`input_dropdown`). `AtRestAllAgree` is about
  the other kinds that have a value, toggle, slider and location.
- A card added after a page asked is not announced to it.
- With `ZeroLast = FALSE` a series updated after series 0 is drawn turned by one
  point.

## 4. Proofs

The proof modules extend the module they are about. `tlapm` checks each to the
last leaf; nothing is assumed but the named assumptions of the constants.

| theorem | says, for every value of the constants |
|---|---|
| `TypeCorrect` | `DashboardServer` keeps its types, and a queue never exceeds its capacity |
| `QuarantineSound` | `[]QuarantineOnlyGivenUp`: a descriptor reused after a close never inherits the quarantine |
| `QuarantineComplete` | `[]QuarantineCoversGivenUp`, if there are at most as many descriptors as entries |
| `BroadcastReaches`, `BroadcastLimited` | `[]BroadcastReachesClients`, `[]BroadcastBounded` |
| `OtaTypeCorrect`, `OtaHandleOwned`, `OtaCountExact`, `OtaBootedSize`, `OtaBootedWhole`, `OtaUndisturbedAccepted` | `TypeOK`, `HandleOwnership`, `WrittenIsReceived`, `BootedSizeDeclared`, `BootedUploadWhole`, `UndisturbedAccepted` for any uploads, file sizes and chunk size |
| `Base64RoundTrip` | `RoundTrip` for every sequence of bytes: the buffer is sized for the chunk, filled to its end and not beyond, and with the chunk's bytes |
| `ConnectionTypeCorrect`, `ConnectionIsOne`, `ConnectionNeverAbandoned`, `ConnectionShownTruly`, `ConnectionKept` | `TypeOK`, `OneConnection`, `NeverAbandoned`, `ShownConnectedIsAlive`, `HealthyKept` for any number of sockets and any delays with the check shorter than the reconnection |
| `HeartbeatLossesTolerated` | `LossesTolerated` for any periods and delays that leave room for so many losses |
| `SyncTypeCorrect`, `SyncNeverBackwards`, `SyncAtRest` | `TypeOK`, `NeverBackwards`, `AtRestShowsStored` of `CardSync` for any tasks, callbacks, cards, pages, queue and writes |
| `InputTypeCorrect`, `InputNothingTransient`, `InputAtRestAgree` | `TypeOK`, `NothingTransientHeard`, `AtRestAllAgree` for any cards of any kinds, pages, values and queue |
| `ChartTypeCorrect`, `ChartLabelsTrue`, `ChartUpdatesAgree` | `TypeOK`, `LabelsTrue`, `UpdatesAgreeWithInit` for any number of points, series and ticks, and either order of updates |
| `GroupsTypeCorrect`, `GroupsImplementList` | `TypeOK` and the refinement of `GroupList`, for any limits |

Assumptions: the set of descriptors is finite and the capacities are positive
(`ServerAssumptions`); markers such as `NoFd`, `NoHandle`, `Idle` and `NoDrag`
are not members of the sets they stand outside of; file sizes and limits are
natural numbers, a chunk has at least one byte; the task of the server is not an
application task (`SyncAssumptions`); the check comes more often than a
reconnection (`ConnectionAssumptions`); so many periods of the heartbeat and a
delay fit into the page's limit (`HeartbeatAssumptions`).

Arguments.

*Quarantine.* With `TypeOK`, both quarantine invariants are inductive. A
descriptor enters `closingFds` and `givenUp` in one step, and `Upgrade` is the
only step that makes a descriptor a client again; it clears its marker. Where
an entry is needed one is free, because the entries in use are other
descriptors and there are no more of them than entries.

*Broadcast.* `BroadcastReachesClients` speaks of the end of the loop, so the
invariant has to speak of its middle. `LoopInv`: the session table lists no
descriptor twice; the clients counted so far are among those met; those met are
served or given up unless there are more clients than the limit; those served
were met and counted. The table cannot change while the loop runs, because it
belongs to the same task, so the loop meets each client once.

*Update.* `OtaInv` adds to the properties what a message carries (a start
announces its upload's size, a chunk is a part of the file, `Meant`), that a
handle is held exactly while an update is in progress (`HandleHeld`), and that
the size compared is the one the starting upload declared (`SizeOfDeclarer`).
The steps of the page change only the wire and those of the device only consume
it, so the proof splits into `PageKeeps` and `DeviceKeeps`. That a booted image
of one upload is its file needs that chunks travel and are written in the order
of the file (`InOrder`): increasing places that fill the declared size leave no
room for a hole. `Base64Lengths` is why a chunk of n bytes is n bytes again.

*Base64.* The decoder is a recursive function over the text, and its output is
known by induction on the groups of four characters: after g of them the loop
has no bits at hand and has written the first 3g bytes (`GroupsDecoded`). A step
of that induction is `GroupRun`, which takes the four characters of three bytes
(`GroupChars`) through the loop (`GroupDecoded`); `Window` says what a character
leaves in the last bits of the buffer, whatever older bits are above them. The
last group may end early, and the padding stops the loop (`PadKeeps`).
The induction is over a set of numbers (`SetInduction`, from the well-foundedness
of <): the theorems of the library that take a predicate cannot be instantiated.

*Undisturbed uploads.* `UndisturbedAccepted` speaks of the moment the end is at
the head of its connection, and is not inductive. `Unbroken` speaks of the whole
way: an upload passes stages, one before its start, one for each count of bytes,
one after its end; each message leads from one to another, and those under way
lead without a gap from the stage of the device to that of the page. The page
appends at one end (`SendKeepsUnbroken`), the device takes off at the other
(`ReceiveKeepsUnbroken`), and what loses a message or lets another upload in
makes the upload disturbed (`OthersKeepUnbroken`, `RestartKeepsUnbroken`). At
the end's stage the device has counted the file.

*Connection.* `ConnectionInv` adds `Pending` (how many reconnections there are
in each state of the current socket), `OthersClosed` (every other socket is
closed, which makes the shared globals those of the current one) and
`CheckedInTime` (how the age of the last message and the time to the next check
add up). That a reconnection runs only when the current socket is closed
(`TimeoutMeansClosed`) is what makes one connection.

*Heartbeat.* With `Gap(n)` for the longest silence that n losses in a row can
cause, the invariant says that the age of the last message is at most the gap of
the losses counted plus the time since the last heartbeat and its delay. The
page closes only after `StaleAfter`, by `ConnectionKept`, and the gap of the
tolerated losses is less.

*Cards.* Two invariants, for any interleaving of tasks, callbacks and the server
task. `SyncInv` orders values: nothing shown, queued or read is newer than the
store, and an item that is not excused (`Excused`: raced, or overtaken) brings
nothing older than what is in front of it; that gives `NeverBackwards`.
`RestInv` follows the last write: for a card whose last update was queued in
time, the last thing that will concern a page, be it a call in progress, the
initialization being built or an item in the queue, brings the stored value, and
if there is none the page shows it. At rest there is none. `Fresh` follows the
page instead: once an initialization has arrived, it shows nothing older than
what was stored when it asked, whatever was dropped or overtaken before, because
the snapshot is read after it asked and a timely update queued behind it brings
what was stored later still (`AskedOrdered`); only a raced update goes back, and
a later one repairs it (`RacedRepaired`). For that the history remembers what
was stored when a page asked (`known`, `had`). The history variables of
`CardSync`, and the predicates `Outdates` and `UpdateQueuedBehind` that only
serve them, model no code and constrain no step.

*Input.* `Sound`: every value stored, heard, under way or queued is one at which
a user let go and fits the card's kind; the slider under a pointer is the only
place where a page can show another, and it shows where the pointer is or what
an update brought. `Agreed`: what the application heard is what is stored, the
last item queued for a page's card brings it, and without one and without an
input under way the page shows it. The three kinds of step have one lemma each:
`ControlKeeps`, `HandleKeeps`, `ExecuteKeeps`.

*Charts.* Seen from the head, a row holds its points by age, the oldest under the
head (`RowsAged`). A step of the head moves every place by one (`HeadStep`), so
that the point just written becomes the last. Within a tick the rows are not all
in that state: a row written before series 0 keeps the new point under the head,
in the place of its oldest (`Early`), and is right again once series 0 advances
the head. That is why the order of updates matters for all rows but the first,
and `ZeroWaits` is what the caller contributes. `PageFollows` says that the two
serialisations read the same cells (`SameRow`), in any order. `WithinTicks` only
keeps the model's bound.

*Groups.* The refinement maps the arrays, up to their counts, to sequences.
`RemoveAtShifts` says that shifting the cells is removing from the sequence,
`SameFirst` and `SameHolds` that both sides find the same place.

Only model-checked: liveness (`HealthyClientHears`, `QueuedInitAnswered`,
`Recovers`), which the prover cannot treat, and the four runs that end in a
violation. Every invariant, action property and refinement of the passing
runs is a theorem.

## 5. Not modelled, and why

- Drawing, style and markup: output. Characters outside the Base64 alphabet,
  which `btoa` never makes.
- The console: a capped list and filters in the page; a log line is one
  broadcast.
- TLS, sockets, frames and flash below the ESP-IDF calls: external, modelled
  from how the code uses them.
- `begin` that fails or is called twice, and the destructor with a busy server:
  the pool is then used after it was freed or replaced, of which no outcome can
  be ruled out. The models begin after a `begin` that succeeded.
- Values of cards: the number of a write (`CardSync`) or a small number
  (`CardInput`); truncation by `strncpy`, where the broadcast carries more than
  the store keeps, and ids that are equal once cut, where pages and pool are
  keyed differently.
- Text torn by a copy during serialisation, cards added from two tasks and
  series added while clients connect: data races of the host program.
- Groups changed while an initialization is built: `CardGroups` reads the groups
  in one step; nothing weaker than an exact reading could be claimed and the code
  does not give it.
- The HTTP handlers of the page and its assets: no state beyond the session.
- Build scripts and configuration: sequential generation of files.

## 6. Plan

Done: the server, the update in bytes with its text, the connection with the
heartbeat, cards with racing tasks and callbacks, input, charts and groups, each
with the proofs of section 4.

1. Truncation between the store and the broadcast, and ids cut to their field,
   as values of `CardSync`.
2. The build scripts as a small module: an incremental build that skips a step.
