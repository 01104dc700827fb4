----------------------------- MODULE OtaUpdate -----------------------------
(***************************************************************************)
(* A firmware update over the dashboard's WebSocket: the page that sends   *)
(* the file (extras/dashboard.html), the handler of its messages           *)
(* (_handleWebSocketMessage) and the update itself (src/dashboard_ota.cpp).*)
(*                                                                         *)
(* The device keeps one update for all pages, and nothing in a chunk tells *)
(* which upload it belongs to.  An upload is one file selection on one     *)
(* connection: a start message with the size, the chunks in order, an end  *)
(* message.  The page sends blindly: what it cannot send is skipped, and   *)
(* the device answers nothing.  A byte is known by the upload and its      *)
(* place in the file; of the text of a chunk the lengths matter (Base64).  *)
(* s_in_progress and a handle go together (HandleOwnership), so one test   *)
(* stands for the code's two.                                              *)
(***************************************************************************)
EXTENDS Base64, FiniteSets

CONSTANTS
  Uploads,   \* file selections, each on a connection of its own
  FileSize,  \* the size of the file of an upload, in bytes
  ChunkSize, \* bytes the page cuts at once (2048)
  Handles,   \* update handles esp_ota_begin can give
  NoHandle,  \* s_ota_handle = 0
  Factory,   \* the firmware the device starts with
  NoUpload,  \* no start was handled since the last restart
  Garbage    \* what is in a buffer that nobody wrote

ASSUME OtaAssumptions ==
  /\ FileSize \in [Uploads -> Nat]
  /\ ChunkSize \in Nat \ {0}
  /\ NoHandle \notin Handles
  /\ NoUpload \notin Uploads
  /\ Garbage \notin [by : Uploads, pos : Nat]

VARIABLES
  phase,           \* of an upload in its page: new, sending or done
  offset,          \* bytes the page has passed
  link,            \* the page's socket is open
  wire,            \* messages on their way to the device, per connection
  otaSize,        \* ESPDashboardPlus: the declared size
  otaReceived,    \* ESPDashboardPlus: what arrived since the last start
  s_in_progress,
  s_ota_handle,
  openHandles,     \* esp_ota: updates begun and neither ended nor aborted
  flash,           \* esp_ota: what was written since the last erase
  boot,            \* esp_ota: the image of the boot partition
  rebooting,       \* the update ended well: one second to the restart
  declarer,        \* history: the upload whose start was handled last
  disturbed        \* history: uploads that lost a message or met another one

page == <<phase, offset, link>>
update == <<s_in_progress, s_ota_handle, openHandles, flash>>
vars == <<phase, offset, link, wire, otaSize, otaReceived, s_in_progress,
          s_ota_handle, openHandles, flash, boot, rebooting, declarer, disturbed>>

Byte == [by : Uploads, pos : Nat]

\* A start carries the size, a chunk the place in the file it was cut at (for
\* the properties: the text does not tell) and the lengths of its text.
Message == [type : {"start", "chunk", "end"}, num : Nat, chars : Nat, pads : 0 .. 2]

Msg(t, n) == [type |-> t, num |-> n, chars |-> 0, pads |-> 0]

ChunkMsg(at, n) ==
  [type |-> "chunk", num |-> at, chars |-> EncodedLen(n), pads |-> Padding(n)]

\* The file of an upload, as the device should write it.
WholeFile(u) == [i \in 1 .. FileSize[u] |-> [by |-> u, pos |-> i]]

Init ==
  /\ phase = [u \in Uploads |-> "new"]
  /\ offset = [u \in Uploads |-> 0]
  /\ link = [u \in Uploads |-> TRUE]
  /\ wire = [u \in Uploads |-> <<>>]
  /\ otaSize = 0
  /\ otaReceived = 0
  /\ s_in_progress = FALSE
  /\ s_ota_handle = NoHandle
  /\ openHandles = {}
  /\ flash = <<>>
  /\ boot = Factory
  /\ rebooting = FALSE
  /\ declarer = NoUpload
  /\ disturbed = {}

-----------------------------------------------------------------------------
(* The page.  ws.send only runs while the socket is open.                  *)

Send(u, m) ==
  /\ wire' = [wire EXCEPT ![u] = IF link[u] THEN Append(@, m) ELSE @]
  /\ disturbed' = IF link[u] THEN disturbed ELSE disturbed \cup {u}

\* Mutated form: the chunk that is not full is left out.
AllSentEarly(u) == offset[u] + ChunkSize > FileSize[u]

AllSent(u) == offset[u] >= FileSize[u]

\* A file is chosen: its size is announced while it is read.
Select(u) ==
  /\ phase[u] = "new"
  /\ phase' = [phase EXCEPT ![u] = "sending"]
  /\ Send(u, Msg("start", FileSize[u]))
  /\ UNCHANGED <<offset, link, otaSize, otaReceived, update, boot, rebooting,
                 declarer>>

\* data.slice(offset, offset + chunkSize) ends with the file.
SliceLen(u) ==
  IF offset[u] + ChunkSize <= FileSize[u] THEN ChunkSize ELSE FileSize[u] - offset[u]

\* sendChunk: the offset advances whether or not the chunk could be sent.
SendChunk(u) ==
  /\ phase[u] = "sending"
  /\ ~AllSent(u)
  /\ Send(u, ChunkMsg(offset[u], SliceLen(u)))
  /\ offset' = [offset EXCEPT ![u] = @ + ChunkSize]
  /\ UNCHANGED <<phase, link, otaSize, otaReceived, update, boot, rebooting,
                 declarer>>

\* sendChunk past the end: "Upload complete! Restarting..."
Finish(u) ==
  /\ phase[u] = "sending"
  /\ AllSent(u)
  /\ Send(u, Msg("end", 0))
  /\ phase' = [phase EXCEPT ![u] = "done"]
  /\ UNCHANGED <<offset, link, otaSize, otaReceived, update, boot, rebooting,
                 declarer>>

\* The connection breaks: the device still reads what had arrived.
LinkDown(u) ==
  /\ link[u]
  /\ link' = [link EXCEPT ![u] = FALSE]
  /\ \E k \in 0 .. Len(wire[u]) :
       /\ wire' = [wire EXCEPT ![u] = SubSeq(@, 1, k)]
       /\ disturbed' = IF k < Len(wire[u]) THEN disturbed \cup {u} ELSE disturbed
  /\ UNCHANGED <<phase, offset, otaSize, otaReceived, update, boot, rebooting,
                 declarer>>

\* The page reconnects; the upload goes on, unaware.
LinkUp(u) ==
  /\ ~link[u]
  /\ link' = [link EXCEPT ![u] = TRUE]
  /\ UNCHANGED <<phase, offset, wire, otaSize, otaReceived, update, boot,
                 rebooting, declarer, disturbed>>

-----------------------------------------------------------------------------
(* The device: the server task handles one message of some connection.     *)

Receive(u, t) ==
  /\ ~rebooting
  /\ wire[u] # <<>> /\ Head(wire[u]).type = t
  /\ wire' = [wire EXCEPT ![u] = Tail(@)]
  /\ disturbed' = disturbed \cup ({declarer} \ {u, NoUpload})
  /\ UNCHANGED page

\* What ota_abort does, and ota_end once the size is right.
ReleaseHandle ==
  /\ openHandles' = openHandles \ {s_ota_handle}
  /\ s_ota_handle' = NoHandle
  /\ s_in_progress' = FALSE

\* Mutated form: the previous update is overwritten, not aborted.
OpenAfterBeginLeaking == openHandles

\* ota_begin first aborts an update in progress.
OpenAfterBegin ==
  IF s_in_progress THEN openHandles \ {s_ota_handle} ELSE openHandles

\* Mutated form: a second start goes on counting.
ReceivedAtStartKept == otaReceived

ReceivedAtStart == 0

\* ota_start: the size and the count are set first, whatever ota_begin does.
\* It fails without an update partition, or when esp_ota_begin refuses.
HandleStart(u) ==
  /\ Receive(u, "start")
  /\ otaSize' = Head(wire[u]).num
  /\ otaReceived' = ReceivedAtStart
  /\ declarer' = u
  /\ \/ \E h \in Handles \ OpenAfterBegin :
          /\ s_ota_handle' = h
          /\ openHandles' = OpenAfterBegin \cup {h}
          /\ s_in_progress' = TRUE
          /\ flash' = <<>>
     \/ /\ s_ota_handle' = NoHandle
        /\ openHandles' = OpenAfterBegin
        /\ s_in_progress' = FALSE
        /\ UNCHANGED flash
  /\ UNCHANGED <<boot, rebooting>>

\* ota_chunk while no update is in progress.
IgnoreChunk(u) ==
  /\ Receive(u, "chunk")
  /\ ~s_in_progress
  /\ UNCHANGED <<otaSize, otaReceived, update, boot, rebooting, declarer>>

\* Mutated form: the padding is forgotten.
BufferLenPadded(m) == (m.chars * 3) \div 4

\* The size of the buffer a chunk is decoded into, and what is then in it.
BufferLen(m) == DecodedLen(m.chars, m.pads)

Buffer(u, m) ==
  [i \in 1 .. BufferLen(m) |->
     IF i <= FilledLen(m.chars, m.pads) THEN [by |-> u, pos |-> m.num + i] ELSE Garbage]

WriteChunk(u) ==
  /\ Receive(u, "chunk")
  /\ s_in_progress
  /\ flash' = flash \o Buffer(u, Head(wire[u]))
  /\ otaReceived' = otaReceived + BufferLen(Head(wire[u]))
  /\ UNCHANGED <<otaSize, s_in_progress, s_ota_handle, openHandles, boot,
                 rebooting, declarer>>

\* Mutated form: the error is only logged.
WriteFailsLogged(u) ==
  /\ Receive(u, "chunk")
  /\ s_in_progress
  /\ otaReceived' = otaReceived + BufferLen(Head(wire[u]))
  /\ UNCHANGED <<otaSize, update, boot, rebooting, declarer>>

\* esp_ota_write fails: the update is aborted; the chunk counts all the same.
WriteFails(u) ==
  /\ Receive(u, "chunk")
  /\ s_in_progress
  /\ ReleaseHandle
  /\ otaReceived' = otaReceived + BufferLen(Head(wire[u]))
  /\ UNCHANGED <<otaSize, flash, boot, rebooting, declarer>>

\* ota_end while no update is in progress.
IgnoreEnd(u) ==
  /\ Receive(u, "end")
  /\ ~s_in_progress
  /\ UNCHANGED <<otaSize, otaReceived, update, boot, rebooting, declarer>>

\* Mutated form: a short image is let through.
SizeAccepted(expected, received) == received <= expected

SizeMatches(expected, received) == received = expected

EndMismatch(u) ==
  /\ Receive(u, "end")
  /\ s_in_progress
  /\ ~SizeMatches(otaSize, otaReceived)
  /\ ReleaseHandle
  /\ UNCHANGED <<otaSize, otaReceived, flash, boot, rebooting, declarer>>

\* esp_ota_end frees the handle, whatever it answers; then the boot partition
\* is switched.  Either may fail.
EndUpdate(u) ==
  /\ Receive(u, "end")
  /\ s_in_progress
  /\ SizeMatches(otaSize, otaReceived)
  /\ ReleaseHandle
  /\ \/ /\ boot' = [by |-> declarer, image |-> flash]
        /\ rebooting' = TRUE
     \/ UNCHANGED <<boot, rebooting>>
  /\ UNCHANGED <<otaSize, otaReceived, flash, declarer>>

\* esp_restart after an update, or a loss of power at any time: the device
\* forgets everything but its partitions, and every connection breaks.
Restart ==
  /\ link' = [u \in Uploads |-> FALSE]
  /\ wire' = [u \in Uploads |-> <<>>]
  /\ otaSize' = 0
  /\ otaReceived' = 0
  /\ s_in_progress' = FALSE
  /\ s_ota_handle' = NoHandle
  /\ openHandles' = {}
  /\ rebooting' = FALSE
  /\ declarer' = NoUpload
  /\ disturbed' = disturbed \cup {u \in Uploads : phase[u] # "new"}
  /\ UNCHANGED <<phase, offset, flash, boot>>

-----------------------------------------------------------------------------
Page(u) == Select(u) \/ SendChunk(u) \/ Finish(u)

Network(u) == LinkDown(u) \/ LinkUp(u)

Device(u) ==
  \/ HandleStart(u)
  \/ IgnoreChunk(u)
  \/ WriteChunk(u)
  \/ WriteFails(u)
  \/ IgnoreEnd(u)
  \/ EndMismatch(u)
  \/ EndUpdate(u)

Next ==
  \/ \E u \in Uploads : Page(u) \/ Network(u) \/ Device(u)
  \/ Restart

Spec == Init /\ [][Next]_vars

-----------------------------------------------------------------------------
(* Properties.                                                             *)

\* The type of every variable; a page stops with the chunk that ends its file,
\* the booted image says whose size was declared for it, and every byte the
\* device writes is one of a file: the buffer of a chunk is filled to its end.
TypeOK ==
  /\ phase \in [Uploads -> {"new", "sending", "done"}]
  /\ offset \in [Uploads -> Nat] /\ \A u \in Uploads : offset[u] < FileSize[u] + ChunkSize
  /\ link \in [Uploads -> BOOLEAN]
  /\ wire \in [Uploads -> Seq(Message)]
  /\ otaSize \in Nat /\ otaReceived \in Nat
  /\ s_in_progress \in BOOLEAN /\ rebooting \in BOOLEAN
  /\ s_ota_handle \in Handles \cup {NoHandle} /\ openHandles \subseteq Handles
  /\ flash \in Seq(Byte)
  /\ declarer \in Uploads \cup {NoUpload} /\ disturbed \subseteq Uploads
  /\ boot # Factory => boot \in [by : Uploads, image : Seq(Byte)]

\* esp_ota knows of exactly the update the device believes in: no handle is
\* leaked by a second start, a failed write, a wrong size or a failed end, and
\* none is used after it was released.
HandleOwnership ==
  openHandles = IF s_in_progress THEN {s_ota_handle} ELSE {}

\* While an update is in progress the count that decides about it is what was
\* written: no chunk is counted that was lost or failed, none written twice.
WrittenIsReceived == s_in_progress => otaReceived = Len(flash)

\* The boot partition is never switched to an image of another size than the
\* one declared for it, whatever was lost, aborted or started again.
BootedSizeDeclared ==
  boot # Factory => Len(boot.image) = FileSize[boot.by]

\* An image made of the bytes of the upload that declared it is the whole
\* file in order: chunks lost on the way, skipped while the socket was closed
\* or left over from an interrupted update never make a file with holes.
BootedUploadWhole ==
  boot # Factory /\ (\A i \in 1 .. Len(boot.image) :
                        boot.image[i].by = boot.by)
    => boot.image = WholeFile(boot.by)

\* Nothing is refused for its size without a cause: an update whose upload
\* lost no message and met no other upload ends with every byte counted, the
\* last chunk, shorter and padded differently, included (btoa in sendChunk,
\* _b64_decoded_len, ota_end).
UndisturbedAccepted ==
  \A u \in Uploads \ disturbed :
    /\ s_in_progress /\ declarer = u
    /\ wire[u] # <<>> /\ Head(wire[u]).type = "end"
    => SizeMatches(otaSize, otaReceived)

-----------------------------------------------------------------------------
(* What the code says of itself and does not do.                           *)

\* dashboard_ota.cpp: a second start means "aborting previous".  The chunks of
\* the previous upload that still arrive are written into the new image.
OneUploadPerImage ==
  s_in_progress => \A i \in 1 .. Len(flash) : flash[i].by = declarer
=============================================================================
