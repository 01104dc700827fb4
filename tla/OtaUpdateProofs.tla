--------------------------- MODULE OtaUpdateProofs ---------------------------
(***************************************************************************)
(* Proofs about OtaUpdate, for any number of uploads, files of any size    *)
(* and any set of handles.                                                 *)
(***************************************************************************)
EXTENDS OtaUpdate, Base64Proofs, SequenceTheorems

-----------------------------------------------------------------------------
(* The text of a chunk.                                                    *)

\* What a message of upload u can be.
IsStart(u, m) == m.type = "start" => m.num = FileSize[u]

IsSlice(u, m) ==
  m.type = "chunk" => /\ BufferLen(m) \in Nat
                      /\ m.num + BufferLen(m) <= FileSize[u]
                      /\ FilledLen(m.chars, m.pads) = BufferLen(m)

LEMMA SliceLengths ==
  ASSUME NEW a \in Nat, NEW n \in Nat
  PROVE  /\ ChunkMsg(a, n) \in Message
         /\ ChunkMsg(a, n).type = "chunk" /\ ChunkMsg(a, n).num = a
         /\ BufferLen(ChunkMsg(a, n)) = n
         /\ FilledLen(ChunkMsg(a, n).chars, ChunkMsg(a, n).pads) = n
BY Base64Lengths DEF ChunkMsg, Message, BufferLen

\* The place in the file after a chunk.
ChunkEnd(m) == m.num + BufferLen(m)

-----------------------------------------------------------------------------
(* The connections.                                                        *)

\* A handle is held exactly while an update is in progress.
HandleHeld == s_in_progress <=> s_ota_handle # NoHandle

\* The size the count is compared with is the declarer's.
SizeOfDeclarer ==
  s_in_progress => declarer \in Uploads /\ otaSize = FileSize[declarer]

\* A start message announces the size of its upload's file, and a chunk is
\* a part of it.
Meant ==
  \A u \in Uploads : \A i \in 1 .. Len(wire[u]) :
    IsStart(u, wire[u][i]) /\ IsSlice(u, wire[u][i])

\* The chunks on a connection are in the order of the file ...
InOrder ==
  \A u \in Uploads : \A i, j \in 1 .. Len(wire[u]) :
    i < j /\ wire[u][i].type = "chunk" /\ wire[u][j].type = "chunk"
      => ChunkEnd(wire[u][i]) <= wire[u][j].num

\* ... and none is of what the page has not passed.
Passed ==
  \A u \in Uploads : \A i \in 1 .. Len(wire[u]) :
    wire[u][i].type = "chunk" => ChunkEnd(wire[u][i]) <= offset[u]

WireOK ==
  /\ wire \in [Uploads -> Seq(Message)]
  /\ offset \in [Uploads -> Nat]
  /\ Meant /\ InOrder /\ Passed

\* A step leaves on a connection what was there, and what the page sends next.
OldOrNext ==
  \A u \in Uploads :
    /\ offset[u] <= offset'[u]
    /\ \A i \in 1 .. Len(wire'[u]) :
         \/ \E j \in 1 .. Len(wire[u]) : wire'[u][i] = wire[u][j]
         \/ wire'[u][i].type = "chunk" => offset[u] <= wire'[u][i].num

\* A page sends a message, or skips it.
LEMMA SendKeepsWire ==
  ASSUME WireOK, NEW u \in Uploads, NEW m \in Message, Send(u, m),
         IsStart(u, m), IsSlice(u, m),
         offset' \in [Uploads -> Nat], \A v \in Uploads : offset[v] <= offset'[v],
         m.type = "chunk" => offset[u] <= m.num /\ ChunkEnd(m) <= offset'[u]
  PROVE  WireOK' /\ OldOrNext
<1>1. \A v \in Uploads : wire[v] \in Seq(Message) /\ Len(wire[v]) \in Nat
  BY DEF WireOK
<1>2. \A v \in Uploads : \A i \in 1 .. Len(wire[v]) :
        /\ wire[v][i] \in Message /\ wire[v][i].num \in Nat
        /\ wire[v][i].type = "chunk" =>
             ChunkEnd(wire[v][i]) \in Nat /\ ChunkEnd(wire[v][i]) <= offset[v]
  <2>1. SUFFICES ASSUME NEW v \in Uploads, NEW i \in 1 .. Len(wire[v])
                 PROVE  /\ wire[v][i] \in Message /\ wire[v][i].num \in Nat
                        /\ wire[v][i].type = "chunk" =>
                             /\ ChunkEnd(wire[v][i]) \in Nat
                             /\ ChunkEnd(wire[v][i]) <= offset[v]
    OBVIOUS
  <2>2. wire[v][i] \in Message
    BY <1>1, <2>1, ElementOfSeq
  <2>3. wire[v][i].num \in Nat
    BY <2>2 DEF Message
  <2>4. QED
    BY <2>2, <2>3 DEF WireOK, Meant, IsSlice, Passed, ChunkEnd
<1>3. CASE ~link[u]
  <2>1. wire' = wire
    BY <1>3 DEF Send, WireOK
  <2>2. Passed'
    <3>1. SUFFICES ASSUME NEW v \in Uploads, NEW i \in 1 .. Len(wire[v]),
                          wire[v][i].type = "chunk"
                   PROVE  ChunkEnd(wire[v][i]) <= offset'[v]
      BY <2>1 DEF Passed, ChunkEnd, BufferLen
    <3>2. offset[v] <= offset'[v] /\ offset[v] \in Nat /\ offset'[v] \in Nat
      BY DEF WireOK
    <3>3. QED
      BY <1>2, <3>1, <3>2
  <2>3. QED
    BY <2>1, <2>2
    DEF WireOK, Meant, IsStart, IsSlice, InOrder, ChunkEnd, BufferLen, OldOrNext
<1>4. CASE link[u]
  <2>1. /\ Append(wire[u], m) \in Seq(Message)
        /\ Len(Append(wire[u], m)) = Len(wire[u]) + 1
        /\ \A i \in 1 .. Len(wire[u]) : Append(wire[u], m)[i] = wire[u][i]
        /\ Append(wire[u], m)[Len(wire[u]) + 1] = m
    BY <1>1, AppendProperties
  <2>2. /\ wire' \in [Uploads -> Seq(Message)]
        /\ wire'[u] = Append(wire[u], m)
        /\ \A v \in Uploads \ {u} : wire'[v] = wire[v]
    BY <1>4, <2>1 DEF Send, WireOK
  <2>3. \A v \in Uploads : \A i \in 1 .. Len(wire'[v]) :
          \/ i \in 1 .. Len(wire[v]) /\ wire'[v][i] = wire[v][i]
          \/ v = u /\ i = Len(wire[u]) + 1 /\ wire'[v][i] = m
    BY <1>1, <2>1, <2>2
  <2>4. Meant'
    <3>1. SUFFICES ASSUME NEW v \in Uploads, NEW i \in 1 .. Len(wire'[v])
                   PROVE  IsStart(v, wire'[v][i]) /\ IsSlice(v, wire'[v][i])
      BY DEF Meant, IsStart, IsSlice, BufferLen
    <3>2. QED
      BY <2>3, <3>1 DEF WireOK, Meant
  <2>5. InOrder'
    <3>1. SUFFICES ASSUME NEW v \in Uploads, NEW i \in 1 .. Len(wire'[v]),
                          NEW j \in 1 .. Len(wire'[v]), i < j,
                          wire'[v][i].type = "chunk", wire'[v][j].type = "chunk"
                   PROVE  ChunkEnd(wire'[v][i]) <= wire'[v][j].num
      BY DEF InOrder, ChunkEnd, BufferLen
    <3>2. i \in 1 .. Len(wire[v]) /\ wire'[v][i] = wire[v][i]
      BY <1>1, <2>1, <2>2, <2>3, <3>1
    <3>3. CASE j \in 1 .. Len(wire[v]) /\ wire'[v][j] = wire[v][j]
      BY <3>1, <3>2, <3>3 DEF WireOK, InOrder
    <3>4. CASE v = u /\ wire'[v][j] = m
      <4>1. /\ ChunkEnd(wire[v][i]) <= offset[u] /\ ChunkEnd(wire[v][i]) \in Nat
            /\ offset[u] <= m.num /\ m.num \in Nat /\ offset[u] \in Nat
        BY <1>2, <3>1, <3>2, <3>4 DEF Message, WireOK
      <4>2. QED
        BY <3>2, <3>4, <4>1
    <3>5. QED
      BY <2>3, <3>1, <3>3, <3>4
  <2>6. Passed'
    <3>1. SUFFICES ASSUME NEW v \in Uploads, NEW i \in 1 .. Len(wire'[v]),
                          wire'[v][i].type = "chunk"
                   PROVE  ChunkEnd(wire'[v][i]) <= offset'[v]
      BY DEF Passed, ChunkEnd, BufferLen
    <3>2. CASE i \in 1 .. Len(wire[v]) /\ wire'[v][i] = wire[v][i]
      <4>1. offset[v] <= offset'[v] /\ offset[v] \in Nat /\ offset'[v] \in Nat
        BY DEF WireOK
      <4>2. QED
        BY <1>2, <3>1, <3>2, <4>1
    <3>3. QED
      BY <2>3, <3>1, <3>2
  <2>7. OldOrNext
    BY <2>3 DEF OldOrNext
  <2>8. QED
    BY <2>2, <2>4, <2>5, <2>6, <2>7 DEF WireOK
<1>5. QED
  BY <1>3, <1>4

\* Losing messages, or handling the first one.
LEMMA SubSeqKeepsWire ==
  ASSUME WireOK, NEW u \in Uploads, NEW a \in 1 .. Len(wire[u]) + 1,
         NEW b \in 0 .. Len(wire[u]), UNCHANGED offset,
         wire' = [wire EXCEPT ![u] = SubSeq(@, a, b)]
  PROVE  WireOK' /\ OldOrNext
<1> DEFINE s == SubSeq(wire[u], a, b)
<1>1. Len(wire[u]) \in Nat /\ wire[u] \in Seq(Message)
  BY DEF WireOK
<1>2. /\ s \in Seq(Message)
      /\ Len(s) = IF a <= b THEN b - a + 1 ELSE 0
      /\ \A i \in 1 .. b - a + 1 : s[i] = wire[u][a + i - 1]
  BY <1>1, SubSeqProperties
<1>3. /\ wire' \in [Uploads -> Seq(Message)]
      /\ wire'[u] = s
      /\ \A v \in Uploads \ {u} : wire'[v] = wire[v]
  BY <1>2 DEF WireOK
<1> DEFINE old(v, i) == IF v = u THEN a + i - 1 ELSE i
<1>4. \A v \in Uploads : \A i \in 1 .. Len(wire'[v]) :
        old(v, i) \in 1 .. Len(wire[v]) /\ wire'[v][i] = wire[v][old(v, i)]
  BY <1>1, <1>2, <1>3
<1>5. \A v \in Uploads : Len(wire[v]) \in Nat /\ Len(wire'[v]) \in Nat
  BY <1>3 DEF WireOK
<1>6. \A v \in Uploads : \A i, j \in 1 .. Len(wire'[v]) :
        i < j => old(v, i) < old(v, j)
  BY <1>5
<1> HIDE DEF old
<1>7. Meant'
  <2>1. SUFFICES ASSUME NEW v \in Uploads, NEW i \in 1 .. Len(wire'[v])
                 PROVE  IsStart(v, wire'[v][i]) /\ IsSlice(v, wire'[v][i])
    BY DEF Meant, IsStart, IsSlice, BufferLen
  <2>2. QED
    BY <1>4, <2>1 DEF WireOK, Meant
<1>8. InOrder'
  <2>1. SUFFICES ASSUME NEW v \in Uploads, NEW i \in 1 .. Len(wire'[v]),
                        NEW j \in 1 .. Len(wire'[v]), i < j,
                        wire'[v][i].type = "chunk", wire'[v][j].type = "chunk"
                 PROVE  ChunkEnd(wire'[v][i]) <= wire'[v][j].num
    BY DEF InOrder, ChunkEnd, BufferLen
  <2>2. /\ old(v, i) \in 1 .. Len(wire[v]) /\ wire'[v][i] = wire[v][old(v, i)]
        /\ old(v, j) \in 1 .. Len(wire[v]) /\ wire'[v][j] = wire[v][old(v, j)]
        /\ old(v, i) < old(v, j)
    BY <1>4, <1>6, <2>1
  <2>3. QED
    BY <2>1, <2>2 DEF WireOK, InOrder
<1>9. Passed'
  <2>1. SUFFICES ASSUME NEW v \in Uploads, NEW i \in 1 .. Len(wire'[v]),
                        wire'[v][i].type = "chunk"
                 PROVE  ChunkEnd(wire'[v][i]) <= offset[v]
    BY DEF Passed, ChunkEnd, BufferLen
  <2>2. QED
    BY <1>4, <2>1 DEF WireOK, Passed
<1>10. OldOrNext
  <2>1. \A v \in Uploads : offset[v] <= offset'[v]
    BY DEF WireOK
  <2>2. QED
    BY <1>4, <2>1 DEF OldOrNext
<1>11. QED
  BY <1>3, <1>7, <1>8, <1>9, <1>10 DEF WireOK

\* The first message is taken off, and was what its upload could send.
LEMMA ReceiveKeepsWire ==
  ASSUME WireOK, NEW u \in Uploads, NEW t, Receive(u, t)
  PROVE  /\ WireOK' /\ OldOrNext
         /\ wire[u] # <<>> /\ Head(wire[u]) = wire[u][1] /\ 1 \in 1 .. Len(wire[u])
         /\ Head(wire[u]) \in Message /\ Head(wire[u]).type = t
         /\ IsStart(u, Head(wire[u])) /\ IsSlice(u, Head(wire[u]))
         /\ wire' = [wire EXCEPT ![u] = SubSeq(@, 2, Len(wire[u]))]
<1>1. wire[u] \in Seq(Message) /\ wire[u] # <<>> /\ Len(wire[u]) \in Nat \ {0}
  BY EmptySeq DEF WireOK, Receive
<1>2. /\ Head(wire[u]) = wire[u][1] /\ Head(wire[u]) \in Message
      /\ Tail(wire[u]) = SubSeq(wire[u], 2, Len(wire[u]))
  BY <1>1
<1>3. wire' = [wire EXCEPT ![u] = SubSeq(@, 2, Len(wire[u]))]
  BY <1>2 DEF Receive
<1>4. WireOK' /\ OldOrNext
  <2>1. 2 \in 1 .. Len(wire[u]) + 1 /\ Len(wire[u]) \in 0 .. Len(wire[u])
    BY <1>1
  <2>2. UNCHANGED offset
    BY DEF Receive, page
  <2>3. QED
    BY <1>3, <2>1, <2>2, SubSeqKeepsWire
<1>5. 1 \in 1 .. Len(wire[u]) /\ Head(wire[u]).type = t
  BY <1>1 DEF Receive
<1>6. IsStart(u, Head(wire[u])) /\ IsSlice(u, Head(wire[u]))
  BY <1>2, <1>5 DEF WireOK, Meant
<1>7. QED
  BY <1>1, <1>2, <1>3, <1>4, <1>5, <1>6

\* Every step keeps what is known of the connections.
LEMMA WireNext == TypeOK /\ WireOK /\ [Next]_vars => WireOK' /\ OldOrNext
<1> SUFFICES ASSUME TypeOK, WireOK, [Next]_vars PROVE WireOK' /\ OldOrNext
  OBVIOUS
<1> USE OtaAssumptions
<1>1. ASSUME NEW u \in Uploads, Page(u) PROVE WireOK' /\ OldOrNext
  <2>1. \A v \in Uploads : offset[v] \in Nat /\ FileSize[v] \in Nat
    BY DEF WireOK
  <2>2. CASE Select(u)
    <3>1. Msg("start", FileSize[u]) \in Message
      BY <2>1 DEF Msg, Message
    <3>2. /\ IsStart(u, Msg("start", FileSize[u]))
          /\ IsSlice(u, Msg("start", FileSize[u]))
          /\ Msg("start", FileSize[u]).type # "chunk"
      BY DEF IsStart, IsSlice, Msg
    <3>3. offset' \in [Uploads -> Nat] /\ \A v \in Uploads : offset[v] <= offset'[v]
      BY <2>1, <2>2 DEF Select, WireOK
    <3>4. QED
      BY <2>2, <3>1, <3>2, <3>3, SendKeepsWire DEF Select
  <2>3. CASE SendChunk(u)
    <3> DEFINE n == SliceLen(u)
               m == ChunkMsg(offset[u], n)
    <3>1. n \in Nat /\ offset[u] + n <= FileSize[u] /\ n <= ChunkSize
      BY <2>1, <2>3 DEF SendChunk, AllSent, SliceLen
    <3>2. /\ m \in Message /\ m.type = "chunk" /\ m.num = offset[u]
          /\ BufferLen(m) = n /\ FilledLen(m.chars, m.pads) = n
      BY <2>1, <3>1, SliceLengths
    <3>3. /\ offset' \in [Uploads -> Nat] /\ offset'[u] = offset[u] + ChunkSize
          /\ \A v \in Uploads : offset[v] <= offset'[v]
      BY <2>1, <2>3 DEF SendChunk, WireOK
    <3>4. IsStart(u, m) /\ IsSlice(u, m)
      BY <3>1, <3>2 DEF IsStart, IsSlice
    <3>5. offset[u] <= m.num /\ ChunkEnd(m) <= offset'[u]
      BY <2>1, <3>1, <3>2, <3>3 DEF ChunkEnd
    <3>6. Send(u, m)
      BY <2>3 DEF SendChunk
    <3> HIDE DEF m, n
    <3>7. QED
      BY <3>2, <3>3, <3>4, <3>5, <3>6, SendKeepsWire
  <2>4. CASE Finish(u)
    <3>1. Msg("end", 0) \in Message
      BY DEF Msg, Message
    <3>2. /\ IsStart(u, Msg("end", 0)) /\ IsSlice(u, Msg("end", 0))
          /\ Msg("end", 0).type # "chunk"
      BY DEF IsStart, IsSlice, Msg
    <3>3. offset' \in [Uploads -> Nat] /\ \A v \in Uploads : offset[v] <= offset'[v]
      BY <2>1, <2>4 DEF Finish, WireOK
    <3>4. QED
      BY <2>4, <3>1, <3>2, <3>3, SendKeepsWire DEF Finish
  <2>5. QED
    BY <1>1, <2>2, <2>3, <2>4 DEF Page
<1>2. ASSUME UNCHANGED <<wire, offset>> PROVE WireOK' /\ OldOrNext
  <2>1. \A v \in Uploads : offset[v] <= offset'[v]
    BY <1>2 DEF WireOK
  <2>2. QED
    BY <1>2, <2>1
    DEF WireOK, Meant, IsStart, IsSlice, InOrder, Passed, ChunkEnd, BufferLen, OldOrNext
<1>3. ASSUME NEW u \in Uploads, Network(u) PROVE WireOK' /\ OldOrNext
  <2>1. CASE LinkDown(u)
    <3>1. PICK k \in 0 .. Len(wire[u]) :
            wire' = [wire EXCEPT ![u] = SubSeq(@, 1, k)]
      BY <2>1 DEF LinkDown
    <3>2. 1 \in 1 .. Len(wire[u]) + 1 /\ UNCHANGED offset
      BY <2>1 DEF WireOK, LinkDown
    <3>3. QED
      BY <3>1, <3>2, SubSeqKeepsWire
  <2>2. CASE LinkUp(u)
    BY <1>2, <2>2 DEF LinkUp
  <2>3. QED
    BY <1>3, <2>1, <2>2 DEF Network
<1>4. ASSUME NEW u \in Uploads, Device(u) PROVE WireOK' /\ OldOrNext
  <2>1. PICK t : Receive(u, t)
    BY <1>4 DEF Device, HandleStart, IgnoreChunk, WriteChunk, WriteFails,
                IgnoreEnd, EndMismatch, EndUpdate
  <2>2. QED
    BY <2>1, ReceiveKeepsWire
<1>5. CASE Restart
  <2>1. \A v \in Uploads : wire'[v] = <<>> /\ Len(wire'[v]) = 0
    BY <1>5 DEF Restart
  <2>2. wire' \in [Uploads -> Seq(Message)] /\ UNCHANGED offset
    BY <1>5 DEF Restart
  <2>3. \A v \in Uploads : offset[v] <= offset'[v]
    BY <2>2 DEF WireOK
  <2>4. QED
    BY <2>1, <2>2, <2>3
    DEF WireOK, Meant, InOrder, Passed, OldOrNext
<1>6. QED
  BY <1>1, <1>2, <1>3, <1>4, <1>5 DEF Next, vars

-----------------------------------------------------------------------------
(* The update.                                                             *)

\* A byte in the flash is one the page has passed, and every chunk of its
\* upload that is still to come is of what follows it in the file.
Behind(b) ==
  /\ b.pos <= FileSize[b.by]
  /\ b.pos <= offset[b.by]
  /\ \A i \in 1 .. Len(wire[b.by]) :
       wire[b.by][i].type = "chunk" => b.pos <= wire[b.by][i].num

Written == \A k \in 1 .. Len(flash) : Behind(flash[k])

\* All that was written comes from the upload the size was declared by.
OneWriter == \A i \in 1 .. Len(flash) : flash[i].by = declarer

\* Such bytes are in the order of the file: no two of them are closer there
\* than in the flash, and none is nearer to the beginning.
WrittenInOrder ==
  s_in_progress /\ OneWriter =>
    \A j \in 1 .. Len(flash) :
      /\ j <= flash[j].pos
      /\ \A i \in 1 .. j : flash[i].pos + (j - i) <= flash[j].pos

\* The part of the invariant that is about the page.
PageOK ==
  /\ phase \in [Uploads -> {"new", "sending", "done"}]
  /\ offset \in [Uploads -> Nat]
  /\ \A u \in Uploads : offset[u] < FileSize[u] + ChunkSize
  /\ \A u \in Uploads : phase[u] = "new" => offset[u] = 0
  /\ link \in [Uploads -> BOOLEAN]

\* The part that is about the device.
DeviceOK ==
  /\ otaSize \in Nat /\ otaReceived \in Nat
  /\ s_in_progress \in BOOLEAN /\ rebooting \in BOOLEAN
  /\ s_ota_handle \in Handles \cup {NoHandle} /\ openHandles \subseteq Handles
  /\ flash \in Seq(Byte)
  /\ declarer \in Uploads \cup {NoUpload}
  /\ boot # Factory => boot \in [by : Uploads, image : Seq(Byte)]
  /\ HandleHeld
  /\ HandleOwnership
  /\ WrittenIsReceived
  /\ SizeOfDeclarer
  /\ BootedSizeDeclared
  /\ WrittenInOrder
  /\ BootedUploadWhole

\* The inductive invariant: the properties, and what ties the handle, the
\* declared size, the messages and the bytes written to them.
OtaInv == PageOK /\ WireOK /\ DeviceOK /\ Written /\ disturbed \subseteq Uploads

LEMMA OtaInvTypes == OtaInv => TypeOK
  BY DEF OtaInv, TypeOK, PageOK, WireOK, DeviceOK

LEMMA DeviceFrame ==
  ASSUME DeviceOK,
         UNCHANGED <<otaSize, otaReceived, update, boot, rebooting, declarer>>
  PROVE  DeviceOK'
  BY DEF DeviceOK, update, HandleHeld, HandleOwnership, WrittenIsReceived,
         SizeOfDeclarer, BootedSizeDeclared, WrittenInOrder, OneWriter,
         BootedUploadWhole, WholeFile

\* What was booted stays what it was.
LEMMA BootFrame ==
  ASSUME DeviceOK, UNCHANGED boot
  PROVE  BootedSizeDeclared' /\ BootedUploadWhole'
  BY DEF DeviceOK, BootedSizeDeclared, BootedUploadWhole, WholeFile

\* Releasing the handle leaves no update open.
LEMMA ReleaseKeeps ==
  ASSUME DeviceOK, ReleaseHandle
  PROVE  /\ openHandles' = {} /\ s_ota_handle' = NoHandle /\ s_in_progress' = FALSE
         /\ HandleHeld' /\ HandleOwnership' /\ WrittenIsReceived'
         /\ SizeOfDeclarer' /\ WrittenInOrder'
  BY DEF DeviceOK, ReleaseHandle, HandleHeld, HandleOwnership,
         WrittenIsReceived, SizeOfDeclarer, WrittenInOrder

LEMMA StartKeeps ==
  ASSUME WireOK, DeviceOK, Written, NEW u \in Uploads, HandleStart(u)
  PROVE  DeviceOK' /\ (flash' = <<>> \/ UNCHANGED flash)
<1> USE OtaAssumptions
<1>1. Head(wire[u]).num = FileSize[u] /\ FileSize[u] \in Nat
  BY ReceiveKeepsWire DEF HandleStart, IsStart
<1>2. OpenAfterBegin = {}
  BY DEF OpenAfterBegin, DeviceOK, HandleOwnership
<1>3. /\ otaSize' = FileSize[u] /\ otaReceived' = 0 /\ declarer' = u
      /\ UNCHANGED <<boot, rebooting>>
  BY <1>1 DEF HandleStart, ReceivedAtStart
<1>4. BootedSizeDeclared' /\ BootedUploadWhole'
  BY <1>3, BootFrame
<1>5. CASE \E h \in Handles \ OpenAfterBegin :
             /\ s_ota_handle' = h
             /\ openHandles' = OpenAfterBegin \cup {h}
             /\ s_in_progress' = TRUE
             /\ flash' = <<>>
  <2>1. Len(<<>>) = 0 /\ <<>> \in Seq(Byte)
    OBVIOUS
  <2>2. WrittenInOrder'
    BY <1>5, <2>1 DEF WrittenInOrder
  <2>3. QED
    BY <1>2, <1>3, <1>4, <1>5, <2>1, <2>2
       DEF DeviceOK, HandleHeld, HandleOwnership, WrittenIsReceived,
           SizeOfDeclarer
<1>6. CASE /\ s_ota_handle' = NoHandle
           /\ openHandles' = OpenAfterBegin
           /\ s_in_progress' = FALSE
           /\ UNCHANGED flash
  BY <1>2, <1>3, <1>4, <1>6
     DEF DeviceOK, HandleHeld, HandleOwnership, WrittenIsReceived,
         SizeOfDeclarer, WrittenInOrder
<1>7. QED
  BY <1>5, <1>6 DEF HandleStart

\* A chunk adds the bytes it was cut from, one by one.
LEMMA WriteAppends ==
  ASSUME WireOK, flash \in Seq(Byte), NEW u \in Uploads, WriteChunk(u)
  PROVE  LET m == Head(wire[u])
         IN /\ m.num \in Nat /\ BufferLen(m) \in Nat
            /\ flash' \in Seq(Byte)
            /\ Len(flash') = Len(flash) + BufferLen(m)
            /\ \A i \in 1 .. Len(flash) : flash'[i] = flash[i]
            /\ \A i \in Len(flash) + 1 .. Len(flash') :
                 flash'[i] = [by |-> u, pos |-> m.num + (i - Len(flash))]
<1> DEFINE m == Head(wire[u])
           bytes == [i \in 1 .. BufferLen(m) |-> [by |-> u, pos |-> m.num + i]]
<1>1. m \in Message /\ m.type = "chunk" /\ IsSlice(u, m)
  BY ReceiveKeepsWire DEF WriteChunk
<1>2. m.num \in Nat /\ BufferLen(m) \in Nat /\ FilledLen(m.chars, m.pads) = BufferLen(m)
  BY <1>1 DEF Message, IsSlice
<1>3. Buffer(u, m) = bytes
  BY <1>2 DEF Buffer
<1>4. flash' = flash \o bytes
  BY <1>3 DEF WriteChunk
<1>5. bytes \in Seq(Byte) /\ Len(bytes) = BufferLen(m)
  <2>1. \A i \in 1 .. BufferLen(m) : [by |-> u, pos |-> m.num + i] \in Byte
    BY <1>2 DEF Byte
  <2>2. QED
    BY <1>2, <2>1
<1>6. /\ flash' \in Seq(Byte)
      /\ Len(flash') = Len(flash) + Len(bytes)
      /\ \A i \in 1 .. Len(flash) + Len(bytes) :
           flash'[i] = IF i <= Len(flash) THEN flash[i] ELSE bytes[i - Len(flash)]
  BY <1>4, <1>5, ConcatProperties
<1>7. Len(flash) \in Nat
  OBVIOUS
<1>8. ASSUME NEW i \in Len(flash) + 1 .. Len(flash')
      PROVE  flash'[i] = [by |-> u, pos |-> m.num + (i - Len(flash))]
  <2>1. /\ i \in 1 .. Len(flash) + Len(bytes) /\ ~(i <= Len(flash))
        /\ i - Len(flash) \in 1 .. BufferLen(m)
    BY <1>2, <1>5, <1>6, <1>7
  <2>2. flash'[i] = bytes[i - Len(flash)]
    BY <1>6, <2>1
  <2>3. QED
    BY <2>1, <2>2
<1>9. ASSUME NEW i \in 1 .. Len(flash)
      PROVE  flash'[i] = flash[i]
  BY <1>2, <1>5, <1>6, <1>7
<1>10. QED
  BY <1>2, <1>5, <1>6, <1>8, <1>9

\* Bytes of the declarer stay in the order of the file: those of the chunk
\* follow what was written, by Written.
LEMMA WriteInOrder ==
  ASSUME WireOK, DeviceOK, Written, NEW u \in Uploads, WriteChunk(u)
  PROVE  WrittenInOrder'
<1> DEFINE m == Head(wire[u])
           n == Len(flash)
<1>1. /\ m.num \in Nat /\ BufferLen(m) \in Nat /\ n \in Nat
      /\ flash \in Seq(Byte)
      /\ Len(flash') = n + BufferLen(m)
      /\ \A i \in 1 .. n : flash'[i] = flash[i]
      /\ \A i \in n + 1 .. Len(flash') :
           flash'[i] = [by |-> u, pos |-> m.num + (i - n)]
  BY WriteAppends DEF DeviceOK
<1>2. wire[u] # <<>> /\ m = wire[u][1] /\ 1 \in 1 .. Len(wire[u]) /\ m.type = "chunk"
  BY ReceiveKeepsWire DEF WriteChunk
<1>3. \A i \in 1 .. n : flash[i].by = u => flash[i].pos <= m.num
  BY <1>2 DEF Written, Behind
<1>4. \A i \in 1 .. n : flash[i].pos \in Nat
  <2>1. SUFFICES ASSUME NEW i \in 1 .. n PROVE flash[i] \in Byte
    BY DEF Byte
  <2>2. QED
    BY <1>1, ElementOfSeq
<1> HIDE DEF m, n
<1>5. SUFFICES ASSUME OneWriter', NEW j \in 1 .. Len(flash')
               PROVE  /\ j <= flash'[j].pos
                      /\ \A i \in 1 .. j : flash'[i].pos + (j - i) <= flash'[j].pos
  BY DEF WrittenInOrder
<1>6. s_in_progress /\ UNCHANGED declarer
  BY DEF WriteChunk
<1>7. OneWriter
  BY <1>1, <1>5, <1>6 DEF OneWriter, n
<1>8. \A k \in 1 .. n :
        /\ k <= flash[k].pos
        /\ \A i \in 1 .. k : flash[i].pos + (k - i) <= flash[k].pos
  BY <1>6, <1>7 DEF DeviceOK, WrittenInOrder, n
<1>9. CASE j <= n
  <2>1. j \in 1 .. n /\ \A i \in 1 .. j : i \in 1 .. n
    BY <1>1, <1>9
  <2>2. QED
    BY <1>1, <1>8, <2>1
<1>10. CASE j > n
  <2>1. /\ j \in n + 1 .. Len(flash') /\ flash'[j].by = u
        /\ flash'[j].pos = m.num + (j - n)
    <3>1. j \in n + 1 .. Len(flash')
      BY <1>1, <1>5, <1>10
    <3>2. flash'[j] = [by |-> u, pos |-> m.num + (j - n)]
      BY <1>1, <3>1
    <3>3. QED
      BY <3>1, <3>2
  <2>2. declarer = u
    BY <1>1, <1>5, <1>6, <2>1 DEF OneWriter
  <2>3. \A i \in 1 .. n : flash[i].pos + (n - i) <= m.num /\ n <= m.num
    <3>1. SUFFICES ASSUME NEW i \in 1 .. n
                   PROVE  flash[i].pos + (n - i) <= m.num /\ n <= m.num
      OBVIOUS
    <3>2. n \in 1 .. n /\ i \in 1 .. n
      BY <1>1, <3>1
    <3>3. flash[n].by = u /\ flash[n].pos <= m.num
      BY <1>3, <1>7, <2>2, <3>2 DEF OneWriter, n
    <3>4. n <= flash[n].pos /\ flash[i].pos + (n - i) <= flash[n].pos
      BY <1>8, <3>2
    <3>5. flash[n].pos \in Nat /\ flash[i].pos \in Nat
      BY <1>4, <3>2
    <3>6. \A a, b \in Nat : a + (n - i) <= b /\ b <= m.num => a + (n - i) <= m.num
      BY <1>1, <3>1
    <3>7. \A b \in Nat : n <= b /\ b <= m.num => n <= m.num
      BY <1>1
    <3>8. QED
      BY <3>3, <3>4, <3>5, <3>6, <3>7
  <2>4. j <= flash'[j].pos
    <3>1. n = 0 \/ n \in 1 .. n
      BY <1>1
    <3>2. n <= m.num
      BY <1>1, <2>3, <3>1
    <3>3. QED
      BY <1>1, <2>1, <3>2
  <2>5. ASSUME NEW i \in 1 .. j
        PROVE  flash'[i].pos + (j - i) <= flash'[j].pos
    <3>1. CASE i \in 1 .. n
      <4>1. flash'[i] = flash[i] /\ flash[i].pos \in Nat
        BY <1>1, <1>4, <3>1
      <4>2. flash[i].pos + (n - i) <= m.num
        BY <2>3, <3>1
      <4>3. i \in Nat /\ j \in Nat
        BY <1>1, <2>1, <3>1
      <4>4. flash[i].pos + (j - i) <= m.num + (j - n)
        <5>1. \A b, k \in Nat : b + (n - i) <= k => b + (j - i) <= k + (j - n)
          BY <1>1, <4>3
        <5>2. QED
          BY <1>1, <4>1, <4>2, <5>1
      <4>5. QED
        BY <2>1, <4>1, <4>4
    <3>2. CASE i \in n + 1 .. Len(flash')
      <4>1. flash'[i] = [by |-> u, pos |-> m.num + (i - n)]
        BY <1>1, <3>2
      <4>2. flash'[i].pos = m.num + (i - n)
        BY <4>1
      <4>3. QED
        BY <1>1, <2>1, <3>2, <4>2
    <3>3. QED
      BY <1>1, <2>1, <2>5, <3>1, <3>2
  <2>6. QED
    BY <2>4, <2>5
<1>11. QED
  BY <1>1, <1>9, <1>10

LEMMA WriteKeeps ==
  ASSUME WireOK, DeviceOK, Written, NEW u \in Uploads, WriteChunk(u)
  PROVE  DeviceOK'
<1>1. /\ BufferLen(Head(wire[u])) \in Nat
      /\ flash' \in Seq(Byte)
      /\ Len(flash') = Len(flash) + BufferLen(Head(wire[u]))
  BY WriteAppends DEF DeviceOK
<1>2. otaReceived' \in Nat /\ WrittenIsReceived'
  BY <1>1 DEF WriteChunk, DeviceOK, WrittenIsReceived
<1>3. WrittenInOrder'
  BY WriteInOrder
<1>4. BootedSizeDeclared' /\ BootedUploadWhole'
  BY BootFrame DEF WriteChunk
<1>5. QED
  BY <1>1, <1>2, <1>3, <1>4
     DEF WriteChunk, DeviceOK, HandleHeld, HandleOwnership, SizeOfDeclarer

\* As many bytes as the file has, in its order, are the file.
LEMMA OrderedIsWhole ==
  ASSUME DeviceOK, Written, s_in_progress, OneWriter, declarer \in Uploads,
         Len(flash) = FileSize[declarer]
  PROVE  flash = WholeFile(declarer)
<1> DEFINE n == Len(flash)
<1>1. flash \in Seq(Byte) /\ n \in Nat
  BY DEF DeviceOK
<1>2. ASSUME NEW i \in 1 .. n
      PROVE  flash[i] = [by |-> declarer, pos |-> i]
  <2>1. i \in 1 .. n /\ n \in 1 .. n
    BY <1>1, <1>2
  <2>2. flash[i] \in Byte /\ flash[n] \in Byte
    BY <1>1, <2>1, ElementOfSeq
  <2>3. i <= flash[i].pos /\ flash[i].pos + (n - i) <= flash[n].pos
    BY <2>1 DEF DeviceOK, WrittenInOrder
  <2>4. flash[n].pos <= n
    BY <2>1 DEF Written, Behind, OneWriter
  <2>5. flash[i].pos = i
    BY <1>1, <2>1, <2>2, <2>3, <2>4 DEF Byte
  <2>6. flash[i].by = declarer
    BY <2>1 DEF OneWriter
  <2>7. QED
    BY <2>2, <2>5, <2>6 DEF Byte
<1>3. flash = [i \in 1 .. n |-> flash[i]]
  BY <1>1
<1>4. QED
  BY <1>2, <1>3 DEF WholeFile

LEMMA EndKeeps ==
  ASSUME DeviceOK, Written, NEW u \in Uploads, EndUpdate(u)
  PROVE  DeviceOK'
<1>1. ReleaseHandle /\ UNCHANGED <<otaSize, otaReceived, flash, declarer>>
  BY DEF EndUpdate
<1>2. CASE UNCHANGED <<boot, rebooting>>
  BY <1>1, <1>2, ReleaseKeeps, BootFrame DEF DeviceOK
<1>3. CASE boot' = [by |-> declarer, image |-> flash] /\ rebooting' = TRUE
  <2>1. s_in_progress /\ declarer \in Uploads /\ Len(flash) = FileSize[declarer]
    BY DEF EndUpdate, SizeMatches, DeviceOK, WrittenIsReceived, SizeOfDeclarer
  <2>2. /\ boot' \in [by : Uploads, image : Seq(Byte)]
        /\ boot'.by = declarer /\ boot'.image = flash
    BY <1>3, <2>1 DEF DeviceOK
  <2>3. BootedSizeDeclared'
    BY <2>1, <2>2 DEF BootedSizeDeclared
  <2>4. BootedUploadWhole'
    <3>1. OneWriter => flash = WholeFile(declarer)
      BY <2>1, OrderedIsWhole
    <3>2. QED
      BY <2>2, <3>1 DEF BootedUploadWhole, OneWriter, WholeFile
  <2>5. QED
    BY <1>1, <1>3, <2>2, <2>3, <2>4, ReleaseKeeps DEF DeviceOK
<1>4. QED
  BY <1>2, <1>3 DEF EndUpdate

LEMMA DeviceKeeps ==
  ASSUME WireOK, DeviceOK, Written, NEW u \in Uploads, Device(u)
  PROVE  DeviceOK'
<1>1. CASE IgnoreChunk(u) \/ IgnoreEnd(u)
  BY <1>1, DeviceFrame DEF IgnoreChunk, IgnoreEnd
<1>2. CASE WriteFails(u)
  <2>1. otaReceived' \in Nat
    <3>1. IsSlice(u, Head(wire[u])) /\ Head(wire[u]).type = "chunk"
      BY <1>2, ReceiveKeepsWire DEF WriteFails
    <3>2. QED
      BY <1>2, <3>1 DEF WriteFails, DeviceOK, IsSlice
  <2>2. ReleaseHandle /\ UNCHANGED <<otaSize, flash, boot, rebooting, declarer>>
    BY <1>2 DEF WriteFails
  <2>3. QED
    BY <2>1, <2>2, ReleaseKeeps, BootFrame DEF DeviceOK
<1>3. CASE EndMismatch(u)
  BY <1>3, ReleaseKeeps, BootFrame DEF EndMismatch, DeviceOK
<1>4. QED
  BY <1>1, <1>2, <1>3, StartKeeps, WriteKeeps, EndKeeps DEF Device

-----------------------------------------------------------------------------
(* What was written and what is to come.                                   *)

\* No step of the page or of the network makes a written byte one to come.
LEMMA BehindStays ==
  ASSUME WireOK, WireOK', OldOrNext, NEW b \in Byte, Behind(b)
  PROVE  Behind(b)'
<1> DEFINE u == b.by
<1>1. u \in Uploads /\ b.pos \in Nat
  BY DEF Byte
<1>2. b.pos <= FileSize[u] /\ b.pos <= offset[u] /\ offset[u] <= offset'[u]
  BY <1>1 DEF Behind, OldOrNext
<1>3. offset[u] \in Nat /\ offset'[u] \in Nat
  BY <1>1 DEF WireOK
<1>4. ASSUME NEW i \in 1 .. Len(wire'[u]), wire'[u][i].type = "chunk"
      PROVE  b.pos <= wire'[u][i].num
  <2>1. wire'[u][i].num \in Nat
    <3>1. wire'[u] \in Seq(Message)
      BY <1>1 DEF WireOK
    <3>2. wire'[u][i] \in Message
      BY <1>4, <3>1, ElementOfSeq
    <3>3. QED
      BY <3>2 DEF Message
  <2>2. CASE \E j \in 1 .. Len(wire[u]) : wire'[u][i] = wire[u][j]
    BY <1>4, <2>2 DEF Behind
  <2>3. CASE offset[u] <= wire'[u][i].num
    BY <1>1, <1>2, <1>3, <2>1, <2>3
  <2>4. QED
    BY <1>1, <1>4, <2>2, <2>3 DEF OldOrNext
<1>5. QED
  BY <1>1, <1>2, <1>3, <1>4 DEF Behind

LEMMA WrittenFrame ==
  ASSUME WireOK, WireOK', flash \in Seq(Byte), Written, OldOrNext,
         flash' = <<>> \/ UNCHANGED flash
  PROVE  Written'
<1>1. CASE flash' = <<>>
  BY <1>1 DEF Written
<1>2. CASE UNCHANGED flash
  <2>1. SUFFICES ASSUME NEW k \in 1 .. Len(flash), NEW b, b = flash[k]
                 PROVE  Behind(b)'
    BY <1>2 DEF Written, Behind
  <2>2. b \in Byte
    BY <2>1, ElementOfSeq
  <2>3. Behind(b)
    BY <2>1 DEF Written
  <2>4. QED
    BY <2>2, <2>3, BehindStays
<1>3. QED
  BY <1>1, <1>2

\* The bytes of a chunk are behind the chunks that were sent after it.
LEMMA WriteKeepsWritten ==
  ASSUME WireOK, flash \in Seq(Byte), Written, NEW u \in Uploads, WriteChunk(u)
  PROVE  Written'
<1> DEFINE m == Head(wire[u])
           n == Len(flash)
<1>1. Receive(u, "chunk")
  BY DEF WriteChunk
<1>2. /\ WireOK' /\ OldOrNext /\ m = wire[u][1] /\ 1 \in 1 .. Len(wire[u])
      /\ m.type = "chunk" /\ IsSlice(u, m)
      /\ wire' = [wire EXCEPT ![u] = SubSeq(@, 2, Len(wire[u]))]
  BY <1>1, ReceiveKeepsWire
<1>3. /\ m.num \in Nat /\ BufferLen(m) \in Nat /\ n \in Nat
      /\ flash' \in Seq(Byte)
      /\ Len(flash') = n + BufferLen(m)
      /\ \A i \in 1 .. n : flash'[i] = flash[i]
      /\ \A i \in n + 1 .. Len(flash') :
           flash'[i] = [by |-> u, pos |-> m.num + (i - n)]
  BY WriteAppends
<1>4. UNCHANGED offset
  BY <1>1 DEF Receive, page
<1>5. /\ offset[u] \in Nat /\ FileSize[u] \in Nat
      /\ ChunkEnd(m) <= FileSize[u] /\ ChunkEnd(m) <= offset[u]
  BY <1>2, OtaAssumptions DEF WireOK, Passed, IsSlice, ChunkEnd
<1>6. ASSUME NEW i \in 1 .. Len(wire'[u]), wire'[u][i].type = "chunk"
      PROVE  ChunkEnd(m) <= wire'[u][i].num /\ wire'[u][i].num \in Nat
  <2>1. wire[u] \in Seq(Message) /\ Len(wire[u]) \in Nat
    BY DEF WireOK
  <2>2. /\ wire'[u] = SubSeq(wire[u], 2, Len(wire[u]))
        /\ Len(wire'[u]) = Len(wire[u]) - 1
        /\ \A j \in 1 .. Len(wire[u]) - 1 : wire'[u][j] = wire[u][j + 1]
    <3>1. wire'[u] = SubSeq(wire[u], 2, Len(wire[u]))
      BY <1>2 DEF WireOK
    <3>2. /\ Len(SubSeq(wire[u], 2, Len(wire[u]))) = Len(wire[u]) - 1
          /\ \A j \in 1 .. Len(wire[u]) - 1 :
               SubSeq(wire[u], 2, Len(wire[u]))[j] = wire[u][j + 1]
      BY <1>2, <2>1
    <3>3. QED
      BY <3>1, <3>2
  <2>3. i + 1 \in 1 .. Len(wire[u]) /\ 1 < i + 1 /\ wire'[u][i] = wire[u][i + 1]
    BY <1>6, <2>1, <2>2
  <2>4. wire[u][i + 1] \in Message
    BY <2>1, <2>3, ElementOfSeq
  <2>5. ChunkEnd(wire[u][1]) <= wire[u][i + 1].num
    BY <1>2, <1>6, <2>3 DEF WireOK, InOrder
  <2>6. QED
    BY <1>2, <2>3, <2>4, <2>5 DEF Message
<1>7. \A t \in 1 .. BufferLen(m) :
        /\ m.num + t <= FileSize[u] /\ m.num + t <= offset[u]
        /\ \A i \in 1 .. Len(wire'[u]) :
             wire'[u][i].type = "chunk" => m.num + t <= wire'[u][i].num
  <2>1. SUFFICES ASSUME NEW t \in 1 .. BufferLen(m)
                 PROVE  /\ m.num + t <= FileSize[u] /\ m.num + t <= offset[u]
                        /\ \A i \in 1 .. Len(wire'[u]) :
                             wire'[u][i].type = "chunk" =>
                               m.num + t <= wire'[u][i].num
    OBVIOUS
  <2>2. ChunkEnd(m) \in Nat /\ m.num + t \in Nat /\ m.num + t <= ChunkEnd(m)
    BY <1>3, <2>1 DEF ChunkEnd
  <2>3. \A c \in Nat : ChunkEnd(m) <= c => m.num + t <= c
    BY <2>2
  <2>4. QED
    BY <1>5, <1>6, <2>3
<1> HIDE DEF m, n
<1>8. SUFFICES ASSUME NEW k \in 1 .. Len(flash'), NEW b, b = flash'[k]
               PROVE  Behind(b)'
  BY DEF Written, Behind
<1>9. CASE k \in 1 .. n
  <2>1. b = flash[k]
    BY <1>3, <1>8, <1>9
  <2>2. b \in Byte
    BY <1>9, <2>1, ElementOfSeq DEF n
  <2>3. Behind(b)
    BY <1>9, <2>1 DEF Written, n
  <2>4. QED
    BY <1>2, <2>2, <2>3, BehindStays
<1>10. CASE k \in n + 1 .. Len(flash')
  <2>1. b.by = u /\ b.pos = m.num + (k - n) /\ k - n \in 1 .. BufferLen(m)
    <3>1. b = [by |-> u, pos |-> m.num + (k - n)]
      BY <1>3, <1>8, <1>10
    <3>2. k - n \in 1 .. BufferLen(m)
      BY <1>3, <1>10
    <3>3. QED
      BY <3>1, <3>2
  <2>2. QED
    BY <1>4, <1>7, <2>1 DEF Behind
<1>11. QED
  BY <1>3, <1>8, <1>9, <1>10

-----------------------------------------------------------------------------
(* The page.                                                               *)

LEMMA PageKeeps ==
  ASSUME PageOK, NEW u \in Uploads, Page(u) \/ Network(u)
  PROVE  PageOK'
<1>1. CASE Select(u) \/ Finish(u)
  BY <1>1 DEF Select, Finish, PageOK
<1>2. CASE SendChunk(u)
  <2>1. /\ offset[u] \in Nat /\ FileSize[u] \in Nat /\ ChunkSize \in Nat
        /\ ~(offset[u] >= FileSize[u])
    BY <1>2, OtaAssumptions DEF PageOK, SendChunk, AllSent
  <2>2. /\ offset[u] + ChunkSize \in Nat
        /\ offset[u] + ChunkSize < FileSize[u] + ChunkSize
    BY <2>1
  <2>3. offset' = [offset EXCEPT ![u] = offset[u] + ChunkSize]
    BY <1>2 DEF SendChunk
  <2>4. /\ offset' \in [Uploads -> Nat]
        /\ \A v \in Uploads : offset'[v] < FileSize[v] + ChunkSize
    BY <2>2, <2>3 DEF PageOK
  <2>5. QED
    BY <1>2, <2>4 DEF SendChunk, PageOK
<1>3. CASE LinkDown(u) \/ LinkUp(u)
  BY <1>3 DEF LinkDown, LinkUp, PageOK
<1>4. QED
  BY <1>1, <1>2, <1>3 DEF Page, Network

\* Only uploads are ever counted as disturbed.
LEMMA DisturbedKeeps ==
  ASSUME DeviceOK, disturbed \subseteq Uploads, [Next]_vars
  PROVE  disturbed' \subseteq Uploads
<1>1. ASSUME NEW u \in Uploads, Page(u) \/ Network(u)
      PROVE  disturbed' \subseteq Uploads
  BY <1>1 DEF Page, Network, Select, SendChunk, Finish, Send, LinkDown, LinkUp
<1>2. ASSUME NEW u \in Uploads, Device(u) PROVE disturbed' \subseteq Uploads
  <2>1. disturbed' = disturbed \cup ({declarer} \ {u, NoUpload})
    BY <1>2 DEF Device, HandleStart, IgnoreChunk, WriteChunk, WriteFails,
                IgnoreEnd, EndMismatch, EndUpdate, Receive
  <2>2. QED
    BY <2>1 DEF DeviceOK
<1>3. CASE Restart
  BY <1>3 DEF Restart
<1>4. QED
  BY <1>1, <1>2, <1>3 DEF Next, vars

-----------------------------------------------------------------------------
(* The invariant.                                                          *)

LEMMA OtaInit == Init => OtaInv
<1> SUFFICES ASSUME Init PROVE OtaInv
  OBVIOUS
<1>1. <<>> \in Seq(Byte) /\ <<>> \in Seq(Message) /\ Len(<<>>) = 0
  OBVIOUS
<1>2. PageOK
  <2>1. \A u \in Uploads : 0 < FileSize[u] + ChunkSize
    BY OtaAssumptions
  <2>2. QED
    BY <2>1 DEF Init, PageOK
<1>3. WireOK
  BY <1>1 DEF Init, WireOK, Meant, InOrder, Passed
<1>4. DeviceOK
  BY <1>1
     DEF Init, DeviceOK, HandleHeld, HandleOwnership, WrittenIsReceived,
         SizeOfDeclarer, BootedSizeDeclared, WrittenInOrder, BootedUploadWhole
<1>5. Written /\ disturbed \subseteq Uploads
  BY <1>1 DEF Init, Written
<1>6. QED
  BY <1>2, <1>3, <1>4, <1>5 DEF OtaInv

\* A restart forgets the update and keeps the partitions.
LEMMA RestartKeeps ==
  ASSUME PageOK, DeviceOK, Restart
  PROVE  PageOK' /\ DeviceOK'
<1>1. PageOK'
  BY DEF Restart, PageOK
<1>2. BootedSizeDeclared' /\ BootedUploadWhole'
  BY BootFrame DEF Restart
<1>3. HandleHeld' /\ HandleOwnership' /\ WrittenIsReceived' /\ SizeOfDeclarer'
      /\ WrittenInOrder'
  BY DEF Restart, HandleHeld, HandleOwnership, WrittenIsReceived,
         SizeOfDeclarer, WrittenInOrder
<1>4. QED
  BY <1>1, <1>2, <1>3 DEF Restart, DeviceOK

LEMMA OtaNext == OtaInv /\ [Next]_vars => OtaInv'
<1> SUFFICES ASSUME OtaInv, [Next]_vars PROVE OtaInv'
  OBVIOUS
<1>1. PageOK /\ WireOK /\ DeviceOK /\ Written /\ flash \in Seq(Byte)
  BY DEF OtaInv, DeviceOK
<1>2. WireOK' /\ OldOrNext
  BY <1>1, OtaInvTypes, WireNext
<1>3. disturbed' \subseteq Uploads
  BY DisturbedKeeps DEF OtaInv
<1>4. ASSUME NEW u \in Uploads, Page(u) \/ Network(u)
      PROVE  PageOK' /\ DeviceOK' /\ UNCHANGED flash
  <2>1. UNCHANGED <<otaSize, otaReceived, update, boot, rebooting, declarer>>
    BY <1>4 DEF Page, Network, Select, SendChunk, Finish, LinkDown, LinkUp
  <2>2. QED
    BY <1>1, <1>4, <2>1, PageKeeps, DeviceFrame DEF update
<1>5. ASSUME NEW u \in Uploads, Device(u)
      PROVE  PageOK' /\ DeviceOK' /\ Written'
  <2>1. UNCHANGED page
    BY <1>5 DEF Device, HandleStart, IgnoreChunk, WriteChunk, WriteFails,
                IgnoreEnd, EndMismatch, EndUpdate, Receive
  <2>2. PageOK' /\ DeviceOK'
    BY <1>1, <1>5, <2>1, DeviceKeeps DEF PageOK, page
  <2>3. CASE WriteChunk(u)
    BY <1>1, <2>2, <2>3, WriteKeepsWritten
  <2>4. CASE ~WriteChunk(u)
    <3>1. flash' = <<>> \/ UNCHANGED flash
      BY <1>5, <2>4 DEF Device, HandleStart, IgnoreChunk, WriteFails,
                        IgnoreEnd, EndMismatch, EndUpdate, update
    <3>2. QED
      BY <1>1, <1>2, <2>2, <3>1, WrittenFrame
  <2>5. QED
    BY <2>2, <2>3, <2>4
<1>6. CASE Restart
  <2>1. UNCHANGED flash
    BY <1>6 DEF Restart
  <2>2. QED
    BY <1>1, <1>2, <1>3, <1>6, <2>1, RestartKeeps, WrittenFrame DEF OtaInv
<1>7. CASE UNCHANGED vars
  <2>1. PageOK' /\ UNCHANGED flash
    BY <1>1, <1>7 DEF PageOK, vars
  <2>2. UNCHANGED <<otaSize, otaReceived, update, boot, rebooting, declarer>>
    BY <1>7 DEF vars, update
  <2>3. DeviceOK'
    BY <1>1, <2>2, DeviceFrame
  <2>4. QED
    BY <1>1, <1>2, <1>3, <2>1, <2>3, WrittenFrame DEF OtaInv
<1>8. ASSUME NEW u \in Uploads, Page(u) \/ Network(u) PROVE OtaInv'
  BY <1>1, <1>2, <1>3, <1>4, <1>8, WrittenFrame DEF OtaInv
<1>9. ASSUME NEW u \in Uploads, Device(u) PROVE OtaInv'
  BY <1>2, <1>3, <1>5, <1>9 DEF OtaInv
<1>10. QED
  BY <1>6, <1>7, <1>8, <1>9 DEF Next

-----------------------------------------------------------------------------
LEMMA OtaInvariant == Spec => []OtaInv
  BY OtaInit, OtaNext, PTL DEF Spec

\* The variables keep their types, the page stops with the chunk that ends its
\* file, and no byte is written that is not one of a file: the buffer of every
\* chunk, the last one's too, is filled to its end.
THEOREM OtaTypeCorrect == Spec => []TypeOK
  BY OtaInvariant, OtaInvTypes, PTL

\* No update handle is leaked and none is used after its release, whatever
\* starts, errors, restarts and interleavings of uploads there are.
THEOREM OtaHandleOwned == Spec => []HandleOwnership
<1>1. OtaInv => HandleOwnership
  BY DEF OtaInv, DeviceOK
<1>2. QED
  BY <1>1, OtaInvariant, PTL

\* The count compared with the declared size is what was written.
THEOREM OtaCountExact == Spec => []WrittenIsReceived
<1>1. OtaInv => WrittenIsReceived
  BY DEF OtaInv, DeviceOK
<1>2. QED
  BY <1>1, OtaInvariant, PTL

\* The boot partition is only ever switched to an image as long as the file
\* that was declared for it.
THEOREM OtaBootedSize == Spec => []BootedSizeDeclared
<1>1. OtaInv => BootedSizeDeclared
  BY DEF OtaInv, DeviceOK
<1>2. QED
  BY <1>1, OtaInvariant, PTL

\* An image that only holds bytes of the upload it was declared by is that
\* upload's whole file: the device has no sequence numbers, and needs none.
THEOREM OtaBootedWhole == Spec => []BootedUploadWhole
<1>1. OtaInv => BootedUploadWhole
  BY DEF OtaInv, DeviceOK
<1>2. QED
  BY <1>1, OtaInvariant, PTL

-----------------------------------------------------------------------------
(* An upload that nothing disturbed.                                       *)

\* An upload passes stages: 0 before its start message, 1 + k with k bytes of
\* the file behind it, and the last after its end message.  This is the stage
\* of the page ...
Sent(u) ==
  CASE phase[u] = "new" -> 0
    [] phase[u] = "sending" -> 1 + (IF AllSent(u) THEN FileSize[u] ELSE offset[u])
    [] phase[u] = "done" -> FileSize[u] + 2

\* ... and these are the stages between which a message leads.
From(u, m) ==
  CASE m.type = "start" -> 0
    [] m.type = "chunk" -> 1 + m.num
    [] m.type = "end" -> FileSize[u] + 1

To(u, m) ==
  CASE m.type = "start" -> 1
    [] m.type = "chunk" -> 1 + ChunkEnd(m)
    [] m.type = "end" -> FileSize[u] + 2

\* The stage after i messages of the connection.
Stage(u, i) == IF i < Len(wire[u]) THEN From(u, wire[u][i + 1]) ELSE Sent(u)

\* The messages under way lead without a gap from what the device has counted
\* to what the page has sent.
Unbroken(u) ==
  /\ \A i \in 1 .. Len(wire[u]) : To(u, wire[u][i]) = Stage(u, i)
  /\ declarer = u <=> Stage(u, 0) > 0
  /\ declarer = u /\ s_in_progress => Stage(u, 0) = 1 + otaReceived

Undisturbed == \A u \in Uploads \ disturbed : Unbroken(u)

\* What an upload's own page and messages do not touch stays.
LEMMA UnbrokenFrame ==
  ASSUME NEW u \in Uploads, Unbroken(u),
         wire'[u] = wire[u], phase'[u] = phase[u], offset'[u] = offset[u],
         declarer' = u <=> declarer = u,
         declarer = u => UNCHANGED <<s_in_progress, otaReceived>>
  PROVE  Unbroken(u)'
<1>1. Sent(u)' = Sent(u)
  BY DEF Sent, AllSent
<1>2. \A i : Stage(u, i)' = Stage(u, i)
  BY <1>1 DEF Stage, From
<1>3. \A i : To(u, wire[u][i])' = To(u, wire[u][i])
  BY DEF To, ChunkEnd, BufferLen
<1>4. QED
  BY <1>2, <1>3 DEF Unbroken

\* The page sends the message of its stage.
LEMMA SendKeepsUnbroken ==
  ASSUME WireOK, NEW u \in Uploads, Unbroken(u), NEW m \in Message, Send(u, m),
         u \notin disturbed', From(u, m) = Sent(u), To(u, m) = Sent(u)',
         Sent(u)' > 0, UNCHANGED <<declarer, s_in_progress, otaReceived>>
  PROVE  Unbroken(u)'
<1> DEFINE n == Len(wire[u])
<1>1. wire[u] \in Seq(Message) /\ n \in Nat /\ link[u]
  BY DEF WireOK, Send
<1>2. wire'[u] = Append(wire[u], m)
  BY <1>1 DEF Send, WireOK
<1>3. /\ Len(wire'[u]) = n + 1 /\ wire'[u][n + 1] = m
      /\ \A i \in 1 .. n : wire'[u][i] = wire[u][i]
  BY <1>1, <1>2, AppendProperties
<1>4. \A i : Stage(u, i)' = IF i < n + 1 THEN From(u, wire'[u][i + 1]) ELSE Sent(u)'
  BY <1>3 DEF Stage, From
<1>5. \A i \in 0 .. n : Stage(u, i)' = Stage(u, i)
  <2>1. SUFFICES ASSUME NEW i \in 0 .. n PROVE Stage(u, i)' = Stage(u, i)
    OBVIOUS
  <2>2. CASE i < n
    BY <1>1, <1>3, <1>4, <2>2 DEF Stage
  <2>3. CASE i = n
    BY <1>1, <1>3, <1>4, <2>3 DEF Stage
  <2>4. QED
    BY <1>1, <2>2, <2>3
<1>6. \A i \in 1 .. n + 1 : To(u, wire'[u][i]) = Stage(u, i)'
  <2>1. SUFFICES ASSUME NEW i \in 1 .. n + 1 PROVE To(u, wire'[u][i]) = Stage(u, i)'
    OBVIOUS
  <2>2. CASE i \in 1 .. n
    BY <1>1, <1>3, <1>5, <2>2 DEF Unbroken
  <2>3. CASE i = n + 1
    BY <1>1, <1>3, <1>4, <2>3
  <2>4. QED
    BY <1>1, <2>2, <2>3
<1>7. 0 \in 0 .. n
  BY <1>1
<1>8. QED
  BY <1>3, <1>5, <1>6, <1>7 DEF Unbroken, To, ChunkEnd, BufferLen

\* The device takes the first message off: the stage it leads from was the
\* device's, and the one it leads to is.
LEMMA ReceiveKeepsUnbroken ==
  ASSUME WireOK, NEW u \in Uploads, Unbroken(u), NEW t, Receive(u, t)
  PROVE  /\ Stage(u, 0) = From(u, Head(wire[u]))
         /\ Stage(u, 0)' = To(u, Head(wire[u]))
         /\ \A i \in 1 .. Len(wire'[u]) : To(u, wire'[u][i]) = Stage(u, i)'
<1> DEFINE n == Len(wire[u])
<1>1. wire[u] \in Seq(Message) /\ n \in Nat /\ 1 \in 1 .. n /\ Head(wire[u]) = wire[u][1]
  BY ReceiveKeepsWire DEF WireOK
<1>2. wire'[u] = SubSeq(wire[u], 2, n)
  BY ReceiveKeepsWire DEF WireOK
<1>3. Len(wire'[u]) = n - 1 /\ \A i \in 1 .. n - 1 : wire'[u][i] = wire[u][i + 1]
  BY <1>1, <1>2
<1>4. Sent(u)' = Sent(u)
  BY DEF Receive, page, Sent, AllSent
<1>5. \A i : Stage(u, i)' = IF i < n - 1 THEN From(u, wire'[u][i + 1]) ELSE Sent(u)
  BY <1>3, <1>4 DEF Stage, From
<1>6. \A i \in 0 .. n - 1 : Stage(u, i)' = Stage(u, i + 1)
  BY <1>1, <1>3, <1>5 DEF Stage
<1>7. Stage(u, 0) = From(u, wire[u][1])
  BY <1>1 DEF Stage
<1>8. Stage(u, 0)' = To(u, wire[u][1])
  BY <1>1, <1>6 DEF Unbroken
<1>9. ASSUME NEW i \in 1 .. n - 1 PROVE To(u, wire'[u][i]) = Stage(u, i)'
  BY <1>1, <1>3, <1>6, <1>9 DEF Unbroken
<1>10. QED
  BY <1>1, <1>3, <1>7, <1>8, <1>9

LEMMA PageKeepsUnbroken ==
  ASSUME PageOK, WireOK, NEW u \in Uploads, Unbroken(u), Page(u), u \notin disturbed'
  PROVE  Unbroken(u)'
<1>1. /\ offset[u] \in Nat /\ FileSize[u] \in Nat /\ ChunkSize \in Nat \ {0}
      /\ UNCHANGED <<declarer, s_in_progress, otaReceived>>
  BY OtaAssumptions DEF PageOK, Page, Select, SendChunk, Finish, update
<1>2. CASE Select(u)
  <2> DEFINE m == Msg("start", FileSize[u])
  <2>1. m \in Message /\ From(u, m) = 0 /\ To(u, m) = 1
    BY <1>1 DEF Msg, Message, From, To
  <2>2. phase'[u] = "sending" /\ offset'[u] = 0
    BY <1>2 DEF Select, PageOK
  <2>3. Sent(u) = 0
    BY <1>2 DEF Select, Sent
  <2>4. Sent(u)' = 1
    BY <1>1, <2>2 DEF Sent, AllSent
  <2>5. QED
    BY <1>1, <1>2, <2>1, <2>3, <2>4, SendKeepsUnbroken DEF Select
<1>3. CASE SendChunk(u)
  <2> DEFINE n == SliceLen(u)
             m == ChunkMsg(offset[u], n)
  <2>1. phase[u] = "sending" /\ ~AllSent(u) /\ Send(u, m)
    BY <1>3 DEF SendChunk
  <2>2. /\ n \in Nat
        /\ offset[u] + n = IF offset[u] + ChunkSize >= FileSize[u] THEN FileSize[u]
                                                    ELSE offset[u] + ChunkSize
    BY <1>1, <2>1 DEF SliceLen, AllSent
  <2>3. m \in Message /\ m.type = "chunk" /\ m.num = offset[u] /\ BufferLen(m) = n
    BY <1>1, <2>2, SliceLengths
  <2>4. phase'[u] = "sending" /\ offset'[u] = offset[u] + ChunkSize
    BY <1>3 DEF SendChunk, PageOK
  <2>5. Sent(u) = 1 + offset[u]
    BY <2>1 DEF Sent
  <2>6. Sent(u)' = 1 + (offset[u] + n)
    BY <2>2, <2>4 DEF Sent, AllSent
  <2>7. From(u, m) = 1 + offset[u] /\ To(u, m) = 1 + (offset[u] + n)
    BY <2>3 DEF From, To, ChunkEnd
  <2>8. 1 + (offset[u] + n) > 0
    BY <1>1, <2>2
  <2> HIDE DEF m, n
  <2>9. QED
    BY <1>1, <2>1, <2>3, <2>5, <2>6, <2>7, <2>8, SendKeepsUnbroken
<1>4. CASE Finish(u)
  <2> DEFINE m == Msg("end", 0)
  <2>1. m \in Message /\ From(u, m) = FileSize[u] + 1 /\ To(u, m) = FileSize[u] + 2
    BY DEF Msg, Message, From, To
  <2>2. phase'[u] = "done"
    BY <1>4 DEF Finish, PageOK
  <2>3. Sent(u) = 1 + FileSize[u] /\ 1 + FileSize[u] = FileSize[u] + 1
    BY <1>1, <1>4 DEF Finish, Sent
  <2>4. Sent(u)' = FileSize[u] + 2 /\ FileSize[u] + 2 > 0
    BY <1>1, <2>2 DEF Sent
  <2>5. Send(u, m)
    BY <1>4 DEF Finish
  <2> HIDE DEF m
  <2>6. QED
    BY <1>1, <2>1, <2>3, <2>4, <2>5, SendKeepsUnbroken
<1>5. QED
  BY <1>2, <1>3, <1>4 DEF Page

\* Its own messages find the count where they were sent from.
LEMMA DeviceKeepsUnbroken ==
  ASSUME WireOK, otaReceived \in Nat, NEW u \in Uploads, Unbroken(u), Device(u)
  PROVE  Unbroken(u)'
<1> DEFINE m == Head(wire[u])
<1>1. PICK t \in {"start", "chunk", "end"} : Receive(u, t)
  BY DEF Device, HandleStart, IgnoreChunk, WriteChunk, WriteFails,
         IgnoreEnd, EndMismatch, EndUpdate
<1>2. m \in Message /\ m.type = t /\ IsSlice(u, m) /\ m.num \in Nat
  BY <1>1, ReceiveKeepsWire DEF Message
<1>3. /\ Stage(u, 0) = From(u, m) /\ Stage(u, 0)' = To(u, m)
      /\ \A i \in 1 .. Len(wire'[u]) : To(u, wire'[u][i]) = Stage(u, i)'
  BY <1>1, ReceiveKeepsUnbroken
<1>4. FileSize[u] \in Nat
  BY OtaAssumptions
<1>5. SUFFICES /\ declarer' = u
               /\ To(u, m) > 0
               /\ s_in_progress' => To(u, m) = 1 + otaReceived'
  BY <1>3 DEF Unbroken, To, ChunkEnd, BufferLen
<1>6. CASE t = "start"
  <2>1. To(u, m) = 1
    BY <1>2, <1>6 DEF To
  <2>2. HandleStart(u)
    BY <1>2, <1>6 DEF Device, HandleStart, IgnoreChunk, WriteChunk, WriteFails,
                      IgnoreEnd, EndMismatch, EndUpdate, Receive
  <2>3. QED
    BY <2>1, <2>2 DEF HandleStart, ReceivedAtStart
<1>7. CASE t = "chunk"
  <2>1. BufferLen(m) \in Nat /\ To(u, m) = 1 + (m.num + BufferLen(m)) /\ From(u, m) = 1 + m.num
    BY <1>2, <1>7 DEF To, From, ChunkEnd, IsSlice
  <2>2. declarer = u /\ (s_in_progress => 1 + m.num = 1 + otaReceived)
    BY <1>2, <1>3, <2>1 DEF Unbroken
  <2>3. IgnoreChunk(u) \/ WriteChunk(u) \/ WriteFails(u)
    BY <1>2, <1>7 DEF Device, HandleStart, IgnoreEnd, EndMismatch, EndUpdate, Receive
  <2>4. declarer' = declarer
    BY <2>3 DEF IgnoreChunk, WriteChunk, WriteFails
  <2>5. s_in_progress' => s_in_progress /\ otaReceived' = otaReceived + BufferLen(m)
    BY <2>3 DEF IgnoreChunk, WriteChunk, WriteFails, ReleaseHandle, update
  <2>6. To(u, m) \in Nat /\ To(u, m) > 0
    <3>1. \A a, b \in Nat : 1 + (a + b) \in Nat /\ 1 + (a + b) > 0
      OBVIOUS
    <3>2. QED
      BY <1>2, <2>1, <3>1
  <2>7. ASSUME s_in_progress' PROVE To(u, m) = 1 + otaReceived'
    <3>1. /\ 1 + m.num = 1 + otaReceived /\ otaReceived' = otaReceived + BufferLen(m)
      BY <2>2, <2>5, <2>7
    <3>2. \A a, b, c \in Nat : 1 + a = 1 + c => 1 + (a + b) = 1 + (c + b)
      OBVIOUS
    <3>3. QED
      BY <1>2, <2>1, <3>1, <3>2
  <2>8. QED
    BY <2>2, <2>4, <2>6, <2>7
<1>8. CASE t = "end"
  <2>1. To(u, m) = FileSize[u] + 2 /\ From(u, m) = FileSize[u] + 1
    BY <1>2, <1>8 DEF To, From
  <2>2. declarer = u
    BY <1>3, <1>4, <2>1 DEF Unbroken
  <2>3. IgnoreEnd(u) \/ EndMismatch(u) \/ EndUpdate(u)
    BY <1>2, <1>8 DEF Device, HandleStart, IgnoreChunk, WriteChunk, WriteFails, Receive
  <2>4. declarer' = declarer /\ ~s_in_progress'
    BY <2>3 DEF IgnoreEnd, EndMismatch, EndUpdate, ReleaseHandle, update
  <2>5. QED
    BY <1>4, <2>1, <2>2, <2>4
<1>9. QED
  BY <1>6, <1>7, <1>8

\* What happens to another upload disturbs this one, or leaves it alone.
LEMMA OthersKeepUnbroken ==
  ASSUME OtaInv, NEW u \in Uploads, Unbroken(u), u \notin disturbed',
         NEW v \in Uploads \ {u}, Page(v) \/ Network(v) \/ Device(v)
  PROVE  Unbroken(u)'
<1>1. WireOK /\ PageOK /\ u # NoUpload
  BY OtaAssumptions DEF OtaInv
<1>2. CASE Page(v) \/ Network(v)
  <2>1. /\ wire'[u] = wire[u] /\ phase'[u] = phase[u] /\ offset'[u] = offset[u]
        /\ UNCHANGED <<declarer, s_in_progress, otaReceived>>
    BY <1>1, <1>2 DEF Page, Network, Select, SendChunk, Finish, Send, LinkDown,
                      LinkUp, WireOK, PageOK, update
  <2>2. QED
    BY <2>1, UnbrokenFrame
<1>3. CASE Device(v)
  <2>1. PICK t : Receive(v, t)
    BY <1>3 DEF Device, HandleStart, IgnoreChunk, WriteChunk, WriteFails,
                IgnoreEnd, EndMismatch, EndUpdate
  <2>2. /\ wire'[u] = wire[u] /\ phase'[u] = phase[u] /\ offset'[u] = offset[u]
        /\ declarer # u
    BY <1>1, <2>1 DEF Receive, WireOK, page
  <2>3. declarer' # u
    BY <1>3, <2>2 DEF Device, HandleStart, IgnoreChunk, WriteChunk, WriteFails,
                IgnoreEnd, EndMismatch, EndUpdate
  <2>4. QED
    BY <2>2, <2>3, UnbrokenFrame
<1>4. QED
  BY <1>2, <1>3

\* A connection that breaks with nothing lost, or comes back.
LEMMA NetworkKeepsUnbroken ==
  ASSUME WireOK, NEW u \in Uploads, Unbroken(u), u \notin disturbed', Network(u)
  PROVE  Unbroken(u)'
<1>1. /\ phase'[u] = phase[u] /\ offset'[u] = offset[u]
      /\ UNCHANGED <<declarer, s_in_progress, otaReceived>>
  BY DEF Network, LinkDown, LinkUp, update
<1>2. wire'[u] = wire[u]
  <2>1. CASE LinkDown(u)
    <3>1. PICK k \in 0 .. Len(wire[u]) :
            /\ wire' = [wire EXCEPT ![u] = SubSeq(wire[u], 1, k)]
            /\ disturbed' = IF k < Len(wire[u]) THEN disturbed \cup {u} ELSE disturbed
      BY <2>1 DEF LinkDown
    <3>2. wire[u] \in Seq(Message) /\ Len(wire[u]) \in Nat
      BY DEF WireOK
    <3>3. k = Len(wire[u])
      BY <3>1, <3>2
    <3>4. SubSeq(wire[u], 1, Len(wire[u])) = wire[u]
      BY <3>2, SubSeqFull
    <3>5. QED
      BY <3>1, <3>3, <3>4 DEF WireOK
  <2>2. CASE LinkUp(u)
    BY <2>2 DEF LinkUp
  <2>3. QED
    BY <2>1, <2>2 DEF Network
<1>3. QED
  BY <1>1, <1>2, UnbrokenFrame

\* A restart disturbs every upload that has begun.
LEMMA RestartKeepsUnbroken ==
  ASSUME OtaInv, NEW u \in Uploads, Restart, u \notin disturbed'
  PROVE  Unbroken(u)'
<1>1. /\ phase[u] = "new" /\ phase'[u] = "new" /\ wire'[u] = <<>>
      /\ declarer' = NoUpload /\ u # NoUpload
  BY OtaAssumptions DEF Restart
<1>2. Len(wire'[u]) = 0
  BY <1>1
<1>3. Stage(u, 0)' = 0
  BY <1>1, <1>2 DEF Stage, Sent
<1>4. QED
  BY <1>1, <1>2, <1>3 DEF Unbroken

LEMMA UndisturbedInit ==
  ASSUME Init
  PROVE  Undisturbed
<1>1. SUFFICES ASSUME NEW u \in Uploads PROVE Unbroken(u)
  BY DEF Undisturbed
<1>2. wire[u] = <<>> /\ Len(wire[u]) = 0 /\ phase[u] = "new" /\ declarer # u
  BY OtaAssumptions DEF Init
<1>3. Stage(u, 0) = 0
  BY <1>2 DEF Stage, Sent
<1>4. QED
  BY <1>2, <1>3 DEF Unbroken

\* Once disturbed, always disturbed.
LEMMA DisturbedGrows == [Next]_vars => disturbed \subseteq disturbed'
  BY DEF Next, vars, Page, Network, Device, Select, SendChunk, Finish, Send, LinkDown,
         LinkUp, HandleStart, IgnoreChunk, WriteChunk, WriteFails, IgnoreEnd,
         EndMismatch, EndUpdate, Receive, Restart

LEMMA UndisturbedNext ==
  ASSUME OtaInv, Undisturbed, [Next]_vars
  PROVE  Undisturbed'
<1>1. SUFFICES ASSUME NEW u \in Uploads, u \notin disturbed' PROVE Unbroken(u)'
  BY DEF Undisturbed
<1>2. Unbroken(u) /\ PageOK /\ WireOK /\ otaReceived \in Nat
  BY <1>1, DisturbedGrows DEF Undisturbed, OtaInv, DeviceOK
<1>3. CASE Page(u) \/ Network(u) \/ Device(u)
  BY <1>1, <1>2, <1>3, PageKeepsUnbroken, NetworkKeepsUnbroken, DeviceKeepsUnbroken
<1>4. ASSUME NEW v \in Uploads \ {u}, Page(v) \/ Network(v) \/ Device(v)
      PROVE  Unbroken(u)'
  BY <1>1, <1>2, <1>4, OthersKeepUnbroken
<1>5. CASE Restart
  BY <1>1, <1>5, RestartKeepsUnbroken
<1>6. CASE UNCHANGED vars
  BY <1>2, <1>6, UnbrokenFrame DEF vars, update
<1>7. QED
  BY <1>3, <1>4, <1>5, <1>6 DEF Next

\* An update whose upload lost no message and met no other is never refused
\* for its size: every byte of the file has been counted when its end comes,
\* for files of any size and any cut into chunks.
THEOREM OtaUndisturbedAccepted == Spec => []UndisturbedAccepted
<1>1. Init => Undisturbed
  BY UndisturbedInit
<1>2. OtaInv /\ Undisturbed /\ [Next]_vars => Undisturbed'
  BY UndisturbedNext
<1>3. OtaInv /\ Undisturbed => UndisturbedAccepted
  <2>1. SUFFICES ASSUME OtaInv, Undisturbed, NEW u \in Uploads \ disturbed,
                        s_in_progress, declarer = u, wire[u] # <<>>,
                        Head(wire[u]).type = "end"
                 PROVE  otaReceived = otaSize
    BY DEF UndisturbedAccepted, SizeMatches
  <2>2. wire[u] \in Seq(Message) /\ FileSize[u] \in Nat /\ otaReceived \in Nat
    BY <2>1, OtaAssumptions DEF OtaInv, WireOK, DeviceOK
  <2>3. 0 < Len(wire[u]) /\ Head(wire[u]) = wire[u][1]
    <3>1. Len(wire[u]) \in Nat /\ Len(wire[u]) # 0
      BY <2>1, <2>2, EmptySeq
    <3>2. QED
      BY <2>2, <3>1
  <2>4. Stage(u, 0) = FileSize[u] + 1
    BY <2>1, <2>3 DEF Stage, From
  <2>5. 1 + otaReceived = FileSize[u] + 1
    BY <2>1, <2>4 DEF Undisturbed, Unbroken
  <2>6. otaSize = FileSize[u]
    BY <2>1 DEF OtaInv, DeviceOK, SizeOfDeclarer
  <2>7. QED
    BY <2>2, <2>5, <2>6
<1>4. QED
  BY <1>1, <1>2, <1>3, OtaInvariant, PTL DEF Spec
=============================================================================
