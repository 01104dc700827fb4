------------------------ MODULE PageConnectionProofs ------------------------
(***************************************************************************)
(* Proofs about PageConnection, for any number of socket objects and any   *)
(* delays with CheckEvery < ReconnectAfter: the period of the check must   *)
(* be shorter than the delay of a reconnection, or a reconnection set by   *)
(* one check would run before the next one could set it back.              *)
(*                                                                         *)
(* The second part is about Heartbeat, for any periods and delays that     *)
(* satisfy its assumptions: how long an open connection can be silent is   *)
(* bounded by the number of heartbeats lost, and the page does nothing to  *)
(* a connection that was heard within StaleAfter (ConnectionKept).         *)
(***************************************************************************)
EXTENDS Heartbeat, SequenceTheorems, TLAPS

\* What is pending in each state of the current socket.  While it closes,
\* the next check comes before the only reconnection and sets it back; so
\* connect() runs when the current socket is closed, and never before.
Pending ==
  /\ readyState[ws] # "none"
  /\ readyState[ws] = "connecting" =>
       Len(timeouts) = 0 /\ messageTimeoutCheck = Off
  /\ readyState[ws] = "open" =>
       /\ Len(timeouts) = 0 /\ messageTimeoutCheck # Off
       /\ lastMessageAge = Capped(silence, StaleAfter + 1)
  /\ readyState[ws] = "closing" =>
       /\ Len(timeouts) = 1 /\ reconnectTimeout
       /\ messageTimeoutCheck # Off /\ messageTimeoutCheck < timeouts[1]
       /\ lastMessageAge = StaleAfter + 1
  /\ readyState[ws] = "closed" =>
       Len(timeouts) \in 1 .. 2 /\ reconnectTimeout /\ messageTimeoutCheck = Off

\* Only the current socket is not closed.
OthersClosed == \A s \in Sockets : s # ws => Unused(s)

\* While the page shows a connection, the next check is due in time.
CheckedInTime ==
  connected => /\ readyState[ws] = "open"
               /\ silence + messageTimeoutCheck <= StaleAfter + CheckEvery

ConnectionInv == TypeOK /\ Pending /\ OthersClosed /\ CheckedInTime

-----------------------------------------------------------------------------
(* Lemmas about the sequence of timeouts.                                  *)

\* The bounds of the counters are above what the properties compare with.
LEMMA Bounds ==
  /\ SilenceBound \in Nat /\ SilenceBound > StaleAfter + CheckEvery + MaxLate
  /\ ClosingBound \in Nat
BY ConnectionAssumptions DEF SilenceBound, ClosingBound

\* Setting a reconnection.
LEMMA AppendTimeout ==
  ASSUME NEW q \in Seq(Left)
  PROVE  /\ Append(q, ReconnectAfter) \in Seq(Left)
         /\ Len(Append(q, ReconnectAfter)) = Len(q) + 1
         /\ Append(q, ReconnectAfter)[Len(q) + 1] = ReconnectAfter
<1>1. ReconnectAfter \in Left
  BY ConnectionAssumptions DEF Left
<1>2. QED
  BY <1>1, AppendProperties

\* All but the last.
LEMMA DropLastTimeout ==
  ASSUME NEW q \in Seq(Left), Len(q) \in Nat \ {0}
  PROVE  /\ SubSeq(q, 1, Len(q) - 1) \in Seq(Left)
         /\ Len(SubSeq(q, 1, Len(q) - 1)) = Len(q) - 1
<1> DEFINE n == Len(q) - 1
           rest == SubSeq(q, 1, n)
<1>1. n \in Nat /\ 1 \in Int /\ \A i \in 1 .. n : q[i] \in Left
  BY ElementOfSeq
<1>2. /\ rest \in Seq(Left)
      /\ Len(rest) = IF 1 <= n THEN n - 1 + 1 ELSE 0
  BY <1>1, SubSeqProperties
<1>3. Len(rest) = n
  <2> HIDE DEF n, rest
  <2>1. QED
    BY <1>1, <1>2
<1>4. QED
  BY <1>2, <1>3

\* Cancelling the last reconnection.
LEMMA ClearTimeout ==
  ASSUME NEW q \in Seq(Left)
  PROVE  /\ Cleared(q) \in Seq(Left)
         /\ ~reconnectTimeout => Cleared(q) = q
         /\ reconnectTimeout /\ q # <<>> => Len(Cleared(q)) = Len(q) - 1
         /\ q = <<>> => Cleared(q) = <<>>
<1>1. Len(q) \in Nat /\ (q # <<>> => Len(q) > 0)
  BY EmptySeq, LenProperties
<1>2. CASE reconnectTimeout /\ q # <<>>
  <2>1. /\ SubSeq(q, 1, Len(q) - 1) \in Seq(Left)
        /\ Len(SubSeq(q, 1, Len(q) - 1)) = Len(q) - 1
    BY <1>1, <1>2, DropLastTimeout
  <2>2. QED
    BY <1>2, <2>1 DEF Cleared
<1>3. CASE ~(reconnectTimeout /\ q # <<>>)
  BY <1>3 DEF Cleared
<1>4. QED
  BY <1>2, <1>3

\* Cancelling the only one.
LEMMA ClearOnlyTimeout ==
  ASSUME NEW q \in Seq(Left), Len(q) = 1, reconnectTimeout
  PROVE  Cleared(q) \in Seq(Left) /\ Len(Cleared(q)) = 0
<1>1. q # <<>>
  BY EmptySeq
<1>2. QED
  BY <1>1, ClearTimeout

\* A sequence of length zero is the empty one.
LEMMA NoTimeouts ==
  ASSUME NEW q \in Seq(Left), Len(q) = 0
  PROVE  q = <<>>
BY EmptySeq

-----------------------------------------------------------------------------
(* The invariant.                                                          *)

LEMMA ConnectionInit == Init => ConnectionInv
<1>1. SUFFICES ASSUME Init PROVE ConnectionInv
  OBVIOUS
<1>2. Len(timeouts) = 0 /\ TimeoutsOK
  BY <1>1, EmptySeq DEF Init, TimeoutsOK
<1>3. TypeOK
  <2>1. FlagsOK
    BY <1>1 DEF Init, FlagsOK
  <2>2. QED
    BY <1>1, <1>2, <2>1, Bounds DEF Init, TypeOK
<1>4. Pending /\ OthersClosed /\ CheckedInTime
  BY <1>1, <1>2 DEF Init, Pending, OthersClosed, CheckedInTime, Unused
<1>5. QED
  BY <1>3, <1>4 DEF ConnectionInv

LEMMA OpenedKeeps ==
  ASSUME ConnectionInv, NEW s \in Sockets, Opened(s)
  PROVE  ConnectionInv'
<1>1. s = ws /\ Len(timeouts) = 0 /\ timeouts \in Seq(Left)
  BY DEF ConnectionInv, TypeOK, TimeoutsOK, OthersClosed, Unused, Opened, Pending
<1>2. Len(timeouts') = 0 /\ TimeoutsOK'
  <2>1. timeouts' = Cleared(timeouts)
    BY DEF Opened
  <2>2. timeouts = <<>>
    BY <1>1, NoTimeouts
  <2>3. timeouts' = timeouts
    BY <2>1, <2>2, <1>1, ClearTimeout
  <2>4. QED
    BY <2>3, <1>1 DEF TimeoutsOK
<1>3. TypeOK'
  <2>1. FlagsOK'
    BY DEF Opened, FlagsOK, ConnectionInv, TypeOK
  <2>2. QED
    BY <2>1, <1>2, ConnectionAssumptions, Bounds DEF ConnectionInv, TypeOK, Opened
<1>4. Pending' /\ OthersClosed' /\ CheckedInTime'
  BY <1>1, <1>2, ConnectionAssumptions
  DEF ConnectionInv, TypeOK, OthersClosed, Unused, Opened, Pending, CheckedInTime, Capped
<1>5. QED
  BY <1>3, <1>4 DEF ConnectionInv

LEMMA ReceivedKeeps ==
  ASSUME ConnectionInv, NEW s \in Sockets, Received(s)
  PROVE  ConnectionInv'
<1>1. s = ws
  BY DEF ConnectionInv, OthersClosed, Unused, Received
<1>2. TypeOK'
  BY ConnectionAssumptions, Bounds DEF ConnectionInv, TypeOK, TimeoutsOK, FlagsOK, Received
<1>3. Pending' /\ OthersClosed' /\ CheckedInTime'
  BY <1>1, ConnectionAssumptions
  DEF ConnectionInv, TypeOK, OthersClosed, Unused, Received, Pending, CheckedInTime, Capped
<1>4. QED
  BY <1>2, <1>3 DEF ConnectionInv

LEMMA ClosedKeeps ==
  ASSUME ConnectionInv, NEW s \in Sockets, Closed(s)
  PROVE  ConnectionInv'
<1>1. s = ws /\ readyState[ws] \in {"connecting", "open", "closing"}
  BY DEF ConnectionInv, OthersClosed, Unused, Closed
<1>2. timeouts \in Seq(Left) /\ Len(timeouts) \in 0 .. 1
  BY <1>1 DEF ConnectionInv, TypeOK, TimeoutsOK, Pending
<1>3. Len(timeouts') = Len(timeouts) + 1 /\ TimeoutsOK'
  BY <1>2, AppendTimeout DEF Closed, AfterClose, TimeoutsOK
<1>4. TypeOK'
  <2>1. FlagsOK'
    BY DEF Closed, FlagsOK, ConnectionInv, TypeOK
  <2>2. QED
    BY <2>1, <1>3, ConnectionAssumptions, Bounds DEF ConnectionInv, TypeOK, Closed, WatchAfterClose
<1>5. Len(timeouts') \in 1 .. 2
  BY <1>2, <1>3 DEF TimeoutsOK
<1>6. Pending' /\ OthersClosed' /\ CheckedInTime'
  BY <1>1, <1>5
  DEF ConnectionInv, TypeOK, OthersClosed, Unused, Closed, WatchAfterClose, Pending, CheckedInTime
<1>7. QED
  BY <1>4, <1>6 DEF ConnectionInv

LEMMA CheckFreshKeeps ==
  ASSUME ConnectionInv, CheckFresh
  PROVE  ConnectionInv'
<1>1. readyState[ws] = "open"
  BY ConnectionAssumptions
  DEF ConnectionInv, TypeOK, Pending, CheckFresh, CheckIsNext, IsStale
<1>2. TypeOK'
  BY ConnectionAssumptions DEF ConnectionInv, TypeOK, TimeoutsOK, FlagsOK, CheckFresh
<1>3. silence <= StaleAfter
  BY <1>1, ConnectionAssumptions
  DEF ConnectionInv, TypeOK, Pending, CheckFresh, IsStale, Capped, SilenceBound
<1>4. Pending' /\ OthersClosed' /\ CheckedInTime'
  BY <1>1, <1>3, ConnectionAssumptions
  DEF ConnectionInv, TypeOK, OthersClosed, Unused, CheckFresh, Pending, CheckedInTime, Capped
<1>5. QED
  BY <1>2, <1>4 DEF ConnectionInv

LEMMA CheckStaleKeeps ==
  ASSUME ConnectionInv, CheckStale
  PROVE  ConnectionInv'
<1>1. readyState[ws] \in {"open", "closing"} /\ lastMessageAge = StaleAfter + 1
  BY ConnectionAssumptions
  DEF ConnectionInv, TypeOK, Pending, CheckStale, CheckIsNext, IsStale
<1>2. readyState' = [readyState EXCEPT ![ws] = "closing"]
  BY <1>1 DEF CheckStale, CloseCalled, ConnectionInv, TypeOK
<1>3. Len(timeouts) \in 0 .. 1 /\ (Len(timeouts) = 1 => reconnectTimeout)
  BY <1>1 DEF ConnectionInv, Pending
<1>4. timeouts \in Seq(Left) /\ timeouts' = Append(Cleared(timeouts), ReconnectAfter)
  BY <1>1 DEF CheckStale, Rescheduled, ConnectionInv, TypeOK, TimeoutsOK
<1>5. Cleared(timeouts) \in Seq(Left) /\ Len(Cleared(timeouts)) = 0
  BY <1>3, <1>4, ClearTimeout, EmptySeq
<1>6. TimeoutsOK' /\ Len(timeouts') = 1 /\ timeouts'[1] = ReconnectAfter
  BY <1>4, <1>5, AppendTimeout DEF TimeoutsOK
<1>7. TypeOK'
  <2>1. FlagsOK'
    BY DEF CheckStale, FlagsOK, ConnectionInv, TypeOK
  <2>2. QED
    BY <2>1, <1>1, <1>2, <1>6, ConnectionAssumptions DEF ConnectionInv, TypeOK, CheckStale
<1>8. Pending' /\ OthersClosed' /\ CheckedInTime'
  BY <1>1, <1>2, <1>6, ConnectionAssumptions
  DEF ConnectionInv, TypeOK, OthersClosed, Unused, CheckStale, Pending, CheckedInTime
<1>9. QED
  BY <1>7, <1>8 DEF ConnectionInv

\* connect() only runs when the current socket is closed.
LEMMA TimeoutMeansClosed ==
  ASSUME ConnectionInv, TimeoutIsNext
  PROVE  readyState[ws] = "closed"
<1>1. timeouts \in Seq(Left) /\ timeouts # <<>>
  BY DEF ConnectionInv, TypeOK, TimeoutsOK, TimeoutIsNext
<1>2. Len(timeouts) \in Nat \ {0} /\ Head(timeouts) = timeouts[1]
  BY <1>1, EmptySeq, HeadTailProperties
<1>3. timeouts[1] \in Int
  BY <1>1, <1>2, ConnectionAssumptions, ElementOfSeq DEF Left
<1>4. readyState[ws] # "closing"
  BY <1>2, <1>3, ConnectionAssumptions
  DEF ConnectionInv, TypeOK, Pending, TimeoutIsNext
<1>5. QED
  BY <1>2, <1>4 DEF ConnectionInv, TypeOK, Pending

LEMMA ConnectKeeps ==
  ASSUME ConnectionInv, NEW s \in Sockets, Connect(s)
  PROVE  ConnectionInv'
<1>1. readyState[ws] = "closed"
  BY TimeoutMeansClosed DEF Connect
<1>2. /\ timeouts \in Seq(Left) /\ timeouts # <<>>
      /\ Len(timeouts) \in 1 .. 2 /\ reconnectTimeout
  BY <1>1 DEF Connect, TimeoutIsNext, ConnectionInv, TypeOK, TimeoutsOK, Pending
<1>3. Tail(timeouts) \in Seq(Left) /\ Len(Tail(timeouts)) = Len(timeouts) - 1
  BY <1>2, HeadTailProperties
<1>4. Len(timeouts') = 0 /\ TimeoutsOK'
  <2>1. timeouts' = Cleared(Tail(timeouts))
    BY DEF Connect, Reconnected
  <2>2. CASE Tail(timeouts) = <<>>
    <3>1. Cleared(Tail(timeouts)) = Tail(timeouts)
      BY <2>2, <1>3, ClearTimeout
    <3>2. timeouts' \in Seq(Left) /\ Len(timeouts') = 0
      BY <3>1, <2>1, <2>2, EmptySeq
    <3>3. QED
      BY <3>2 DEF TimeoutsOK
  <2>3. CASE Tail(timeouts) # <<>>
    <3>1. Len(Tail(timeouts)) \in Nat \ {0}
      BY <2>3, <1>3, EmptySeq
    <3>2. Len(Tail(timeouts)) = 1
      BY <3>1, <1>2, <1>3
    <3>3. Cleared(Tail(timeouts)) \in Seq(Left) /\ Len(Cleared(Tail(timeouts))) = 0
      BY <3>2, <1>2, <1>3, ClearOnlyTimeout
    <3>4. timeouts' \in Seq(Left) /\ Len(timeouts') = 0
      BY <3>3, <2>1
    <3>5. QED
      BY <3>4 DEF TimeoutsOK
  <2>4. QED
    BY <2>2, <2>3
<1>5. /\ readyState' = [readyState EXCEPT ![ws] = "closed", ![s] = "connecting"]
      /\ ws' = s /\ s # ws
  BY <1>1 DEF Connect, CloseCalled
<1>6. TypeOK'
  <2>1. FlagsOK'
    BY DEF Connect, FlagsOK, ConnectionInv, TypeOK
  <2>2. QED
    BY <2>1, <1>4, <1>5, ConnectionAssumptions, Bounds DEF ConnectionInv, TypeOK, Connect
<1>7. Pending' /\ OthersClosed' /\ CheckedInTime'
  BY <1>1, <1>4, <1>5
  DEF ConnectionInv, TypeOK, OthersClosed, Unused, Connect, Pending, CheckedInTime
<1>8. QED
  BY <1>6, <1>7 DEF ConnectionInv

LEMMA TickKeeps ==
  ASSUME ConnectionInv, Tick
  PROVE  ConnectionInv'
<1>1. timeouts \in Seq(Left) /\ Len(timeouts) \in Nat /\ Len(timeouts) <= 2
  BY LenProperties DEF ConnectionInv, TypeOK, TimeoutsOK
<1>2. \A i \in 1 .. Len(timeouts) :
        timeouts[i] \in Left /\ Elapse(timeouts[i]) = timeouts[i] - 1
  BY <1>1, ConnectionAssumptions, ElementOfSeq DEF Left, Elapse
<1>3. \A i \in 1 .. Len(timeouts) : Elapse(timeouts[i]) \in Left
  BY <1>2, ConnectionAssumptions DEF Left, Tick
<1>4. /\ timeouts' \in Seq(Left) /\ Len(timeouts') = Len(timeouts)
      /\ \A i \in 1 .. Len(timeouts) : timeouts'[i] = timeouts[i] - 1
  BY <1>1, <1>2, <1>3 DEF Tick
<1>5. TimeoutsOK'
  BY <1>1, <1>4 DEF TimeoutsOK
<1>6. messageTimeoutCheck' \in (-MaxLate .. CheckEvery) \cup {Off}
  BY ConnectionAssumptions DEF ConnectionInv, TypeOK, Tick, Elapse
<1>7. /\ lastMessageAge' \in (0 .. StaleAfter + 1) \cup {Off}
      /\ silence' \in 0 .. SilenceBound
      /\ closingFor' \in 0 .. ClosingBound
  BY ConnectionAssumptions, Bounds DEF ConnectionInv, TypeOK, Tick, Capped
<1>8. TypeOK'
  BY <1>5, <1>6, <1>7 DEF ConnectionInv, TypeOK, FlagsOK, Tick
<1>9. OthersClosed'
  BY DEF ConnectionInv, OthersClosed, Unused, Tick
<1>10. Pending'
  <2>1. CASE readyState[ws] = "open"
    BY <2>1, <1>4, ConnectionAssumptions, Bounds
    DEF ConnectionInv, TypeOK, Pending, Tick, Elapse, Capped
  <2>2. CASE readyState[ws] = "closing"
    <3>1. timeouts[1] \in Int /\ timeouts'[1] = timeouts[1] - 1
      BY <2>2, <1>2, <1>4, ConnectionAssumptions DEF ConnectionInv, Pending, Left
    <3>2. QED
      BY <2>2, <3>1, <1>4, ConnectionAssumptions
      DEF ConnectionInv, TypeOK, Pending, Tick, Elapse, Capped
  <2>3. CASE readyState[ws] \notin {"open", "closing"}
    BY <2>3, <1>4 DEF ConnectionInv, TypeOK, Pending, Tick, Elapse
  <2>4. QED
    BY <2>1, <2>2, <2>3
<1>11. CheckedInTime'
  BY ConnectionAssumptions, Bounds
  DEF ConnectionInv, TypeOK, Pending, CheckedInTime, Tick, Elapse, Capped
<1>12. QED
  BY <1>8, <1>9, <1>10, <1>11 DEF ConnectionInv

LEMMA ConnectionInvariant == Spec => []ConnectionInv
<1>1. ConnectionInv /\ [Next]_vars => ConnectionInv'
  <2>1. ASSUME ConnectionInv, UNCHANGED vars
        PROVE  ConnectionInv'
    BY <2>1
    DEF vars, ConnectionInv, TypeOK, TimeoutsOK, FlagsOK, Pending,
        OthersClosed, Unused, CheckedInTime
  <2>2. QED
    BY <2>1, OpenedKeeps, ReceivedKeeps, ClosedKeeps, CheckFreshKeeps,
       CheckStaleKeeps, ConnectKeeps, TickKeeps
    DEF Next, Timers
<1>2. QED
  BY <1>1, ConnectionInit, PTL DEF Spec

-----------------------------------------------------------------------------
(* The theorems.                                                           *)

\* Types, and never more than two reconnections pending.
THEOREM ConnectionTypeCorrect == Spec => []TypeOK
BY ConnectionInvariant, PTL DEF ConnectionInv

\* One connection at a time: no late event of an old socket can reach the
\* globals of the current one.
THEOREM ConnectionIsOne == Spec => []OneConnection
<1>1. ConnectionInv => OneConnection
  BY DEF ConnectionInv, OthersClosed, OneConnection
<1>2. QED
  BY <1>1, ConnectionInvariant, PTL

\* A reconnection or a check is always pending.
THEOREM ConnectionNeverAbandoned == Spec => []NeverAbandoned
<1>1. ConnectionInv => NeverAbandoned
  <2>1. SUFFICES ASSUME ConnectionInv PROVE NeverAbandoned
    OBVIOUS
  <2>2. readyState[ws] = "closed" => timeouts # <<>>
    <3>1. Len(<<>>) = 0
      BY EmptySeq
    <3>2. QED
      BY <2>1, <3>1 DEF ConnectionInv, Pending
  <2>3. readyState[ws] = "open" => messageTimeoutCheck # Off /\ lastMessageAge # Off
    BY <2>1, ConnectionAssumptions
    DEF ConnectionInv, TypeOK, Pending, Capped, SilenceBound
  <2>4. QED
    BY <2>2, <2>3 DEF NeverAbandoned
<1>2. QED
  BY <1>1, ConnectionInvariant, PTL

\* What the page shows is true to within one check.
THEOREM ConnectionShownTruly == Spec => []ShownConnectedIsAlive
<1>1. ConnectionInv => ShownConnectedIsAlive
  BY ConnectionAssumptions
  DEF ConnectionInv, TypeOK, Pending, CheckedInTime, ShownConnectedIsAlive, SilenceBound
<1>2. QED
  BY <1>1, ConnectionInvariant, PTL

\* The page never closes a connection that is alive.
THEOREM ConnectionKept == Spec => HealthyKept
<1>1. ConnectionInv /\ [Next]_vars =>
        [\A s \in Sockets : readyState[s] = "open" /\ silence <= StaleAfter
                              => readyState'[s] # "closing"]_vars
  <2>1. SUFFICES ASSUME ConnectionInv, Next, NEW s \in Sockets,
                        readyState[s] = "open", silence <= StaleAfter
                 PROVE  readyState'[s] # "closing"
    OBVIOUS
  <2>2. s = ws /\ lastMessageAge = silence
    BY <2>1, ConnectionAssumptions
    DEF ConnectionInv, TypeOK, OthersClosed, Unused, Pending, Capped, SilenceBound
  <2>3. CASE \E t \in Sockets : Opened(t) \/ Received(t) \/ Closed(t)
    BY <2>1, <2>2, <2>3 DEF Opened, Received, Closed, ConnectionInv, TypeOK
  <2>4. CASE CheckFresh
    BY <2>1, <2>4 DEF CheckFresh
  <2>5. ~CheckStale
    BY <2>1, <2>2, ConnectionAssumptions
    DEF CheckStale, IsStale, ConnectionInv, TypeOK, SilenceBound
  <2>6. \A t \in Sockets : ~Connect(t)
    BY <2>1, <2>2, TimeoutMeansClosed DEF Connect
  <2>7. CASE Tick
    BY <2>1, <2>7 DEF Tick
  <2>8. QED
    BY <2>1, <2>3, <2>4, <2>5, <2>6, <2>7 DEF Next, Timers
<1>2. QED
  BY <1>1, ConnectionInvariant, PTL DEF Spec, HealthyKept

-----------------------------------------------------------------------------
(* The silence that n heartbeats, all lost, can cause.                     *)

Gap(n) == n * Period

\* The assumptions without the product.
LEMMA Delays ==
  /\ BeatEvery \in Nat /\ LoopEvery \in Nat \ {0}
  /\ MaxDelay \in Nat /\ MaxDelay < BeatEvery
  /\ Tolerated \in Nat
BY HeartbeatAssumptions

LEMMA PeriodNat == Period \in Nat
BY Delays DEF Period

LEMMA GapNat == \A n \in Nat : Gap(n) \in Nat
BY PeriodNat DEF Gap

LEMMA GapStep == \A n \in Nat : Gap(n + 1) = Gap(n) + Period
BY PeriodNat DEF Gap

LEMMA GapMonotone == \A m, n \in Nat : m <= n => Gap(m) <= Gap(n)
<1>1. SUFFICES ASSUME NEW m \in Nat, NEW n \in Nat, m <= n
               PROVE  Gap(m) <= Gap(n)
  OBVIOUS
<1>2. n - m \in Nat /\ n = m + (n - m)
  BY <1>1
<1>3. Gap(n) = Gap(m) + (n - m) * Period /\ (n - m) * Period \in Nat
  BY <1>2, PeriodNat DEF Gap
<1>4. QED
  BY <1>3, GapNat

LEMMA GapWithinLimit == Gap(Tolerated + 1) + MaxDelay <= StaleAfter
BY HeartbeatAssumptions DEF Gap

-----------------------------------------------------------------------------
(* The inductive invariant.                                                *)

\* loop() is called in time and sends in time, so a heartbeat arrives before
\* the next is due.
InTime ==
  /\ sinceLoop \in 0 .. LoopEvery
  /\ sinceBeat \in Nat /\ sinceBeat <= BeatEvery + sinceLoop
  /\ coming => sinceBeat <= MaxDelay
  /\ lost \in 0 .. Tolerated + 1

\* Silence has a cause: the heartbeats lost, the one on its way, and the time
\* since the last.
SilenceExplained ==
  readyState[ws] = "open" /\ lost <= Tolerated =>
    silence <= Gap(IF coming THEN lost + 1 ELSE lost) + sinceBeat

HeartbeatInv == InTime /\ SilenceExplained

\* The composition narrows nothing of the page: its steps are the page's.
LEMMA HeartbeatIsConnection == HeartbeatSpec => Spec
<1>1. HeartbeatInit => Init
  BY DEF HeartbeatInit
<1>2. [HeartbeatNext]_allVars => [Next]_vars
  BY DEF HeartbeatNext, Loop, Hear, HearOther, HeartbeatTick, Next, allVars
<1>3. QED
  BY <1>1, <1>2, PTL DEF HeartbeatSpec, Spec

LEMMA HeartbeatInitInv == HeartbeatInit => HeartbeatInv
<1>1. SUFFICES ASSUME HeartbeatInit PROVE HeartbeatInv
  OBVIOUS
<1>2. readyState[ws] = "connecting"
  BY <1>1 DEF HeartbeatInit, Init
<1>3. InTime
  BY <1>1, Delays DEF HeartbeatInit, InTime
<1>4. QED
  BY <1>2, <1>3 DEF HeartbeatInv, SilenceExplained

\* A heartbeat sent or lost explains one period of silence.
LEMMA LoopKeeps ==
  ASSUME ConnectionInv, HeartbeatInv, Loop
  PROVE  HeartbeatInv'
<1>1. lost \in Nat /\ lost + 1 \in Nat /\ silence \in Nat /\ sinceBeat \in Nat
  BY Delays, Bounds DEF HeartbeatInv, InTime, ConnectionInv, TypeOK
<1>2. UNCHANGED <<readyState, ws, silence>>
  BY DEF Loop, vars
<1>3. CASE ~Due
  BY <1>2, <1>3, Delays
  DEF Loop, HeartbeatInv, InTime, SilenceExplained, Due, delivery
<1>4. CASE Due
  <2>1. coming = FALSE /\ sinceBeat <= Period /\ sinceBeat' = 0 /\ sinceLoop' = 0
    BY <1>4, Delays DEF Loop, Due, HeartbeatInv, InTime, Period
  <2>2. readyState[ws] = "open" /\ lost <= Tolerated => silence <= Gap(lost + 1)
    BY <1>1, <2>1, GapStep, GapNat, PeriodNat DEF HeartbeatInv, SilenceExplained
  <2>3. CASE coming' = (readyState[ws] = "open") /\ UNCHANGED lost
    <3>1. InTime'
      BY <2>1, <2>3, Delays DEF HeartbeatInv, InTime
    <3>2. SilenceExplained'
      <4>1. SUFFICES ASSUME readyState[ws] = "open", lost <= Tolerated
                     PROVE  silence <= Gap(lost + 1) + 0
        BY <1>2, <2>1, <2>3 DEF SilenceExplained
      <4>2. QED
        BY <1>1, <2>2, <4>1, GapNat
    <3>3. QED
      BY <3>1, <3>2 DEF HeartbeatInv
  <2>4. CASE /\ lost' = IF readyState[ws] = "open"
                          THEN Capped(lost + 1, Tolerated + 1) ELSE lost
             /\ UNCHANGED coming
    <3>1. InTime'
      BY <1>1, <2>1, <2>4, Delays DEF HeartbeatInv, InTime, Capped
    <3>2. readyState[ws] = "open" /\ lost' <= Tolerated => lost' = lost + 1
      BY <1>1, <2>4, Delays DEF Capped
    <3>3. SilenceExplained'
      <4>1. SUFFICES ASSUME readyState[ws] = "open", lost' <= Tolerated
                     PROVE  silence <= Gap(lost') + 0
        BY <1>2, <2>1, <2>4 DEF SilenceExplained
      <4>2. lost' = lost + 1 /\ lost <= Tolerated
        BY <1>1, <3>2, <4>1, Delays
      <4>3. QED
        BY <1>1, <2>2, <4>1, <4>2, GapNat
    <3>4. QED
      BY <3>1, <3>3 DEF HeartbeatInv
  <2>5. QED
    BY <1>4, <2>3, <2>4 DEF Loop
<1>5. QED
  BY <1>3, <1>4

\* Hearing anything ends the silence.
LEMMA HeardKeeps ==
  ASSUME ConnectionInv, HeartbeatInv, NEW s \in Sockets, Received(s),
         UNCHANGED device, lost' = 0, coming' => coming
  PROVE  HeartbeatInv'
<1>1. s = ws
  BY DEF ConnectionInv, OthersClosed, Unused, Received
<1>2. silence' = 0
  BY <1>1 DEF Received
<1>3. InTime'
  BY Delays DEF HeartbeatInv, InTime, device
<1>4. SilenceExplained'
  BY <1>2, <1>3, GapNat DEF SilenceExplained, InTime
<1>5. QED
  BY <1>3, <1>4 DEF HeartbeatInv

\* A connection that opens has just been heard.
LEMMA FollowKeeps ==
  ASSUME ConnectionInv, HeartbeatInv, Follow,
         Timers \/ \E s \in Sockets : Opened(s) \/ Closed(s)
  PROVE  HeartbeatInv'
<1>1. InTime'
  BY Delays DEF Follow, HeartbeatInv, InTime, device, delivery
<1>2. readyState'[ws'] = "open" =>
        \/ silence' = 0
        \/ /\ readyState[ws] = "open" /\ ws' = ws /\ silence' = silence
           /\ readyState'[ws] = readyState[ws]
  <2>1. CASE \E s \in Sockets : Opened(s)
    BY <2>1 DEF Opened, ConnectionInv, OthersClosed, Unused
  <2>2. CASE \E s \in Sockets : Closed(s)
    BY <2>2 DEF Closed, ConnectionInv, TypeOK
  <2>3. CASE CheckFresh
    BY <2>3 DEF CheckFresh
  <2>4. CASE CheckStale
    BY <2>4 DEF CheckStale, ConnectionInv, TypeOK
  <2>5. CASE \E s \in Sockets : Connect(s)
    BY <2>5 DEF Connect
  <2>6. QED
    BY <2>1, <2>2, <2>3, <2>4, <2>5 DEF Timers
<1>3. SilenceExplained'
  <2>1. SUFFICES ASSUME readyState'[ws'] = "open", lost' <= Tolerated
                 PROVE  silence' <= Gap(IF coming' THEN lost' + 1 ELSE lost')
                                      + sinceBeat'
    BY DEF SilenceExplained
  <2>2. CASE silence' = 0
    BY <1>1, <2>2, GapNat DEF InTime
  <2>3. CASE /\ readyState[ws] = "open" /\ ws' = ws /\ silence' = silence
             /\ readyState'[ws] = readyState[ws]
    BY <2>1, <2>3 DEF Follow, device, delivery, HeartbeatInv, SilenceExplained
  <2>4. QED
    BY <1>2, <2>1, <2>2, <2>3
<1>4. QED
  BY <1>1, <1>3 DEF HeartbeatInv

\* Silence and the time since the last heartbeat grow together.
LEMMA HeartbeatTickKeeps ==
  ASSUME ConnectionInv, HeartbeatInv, HeartbeatTick
  PROVE  HeartbeatInv'
<1>1. InTime'
  BY Delays DEF HeartbeatTick, HeartbeatInv, InTime, delivery
<1>2. silence \in Nat /\ silence' <= silence + 1 /\ silence' \in Nat
  BY Bounds, ConnectionAssumptions
  DEF HeartbeatTick, Tick, ConnectionInv, TypeOK, Capped
<1>3. UNCHANGED <<readyState, ws, lost, coming>> /\ sinceBeat' = sinceBeat + 1
  BY DEF HeartbeatTick, Tick, delivery
<1>4. lost \in Nat /\ lost + 1 \in Nat /\ sinceBeat \in Nat
  BY Delays DEF HeartbeatInv, InTime
<1>5. SilenceExplained'
  BY <1>2, <1>3, <1>4, GapNat DEF HeartbeatInv, SilenceExplained
<1>6. QED
  BY <1>1, <1>5 DEF HeartbeatInv

LEMMA HeartbeatNextInv ==
  ConnectionInv /\ HeartbeatInv /\ [HeartbeatNext]_allVars => HeartbeatInv'
<1>1. SUFFICES ASSUME ConnectionInv, HeartbeatInv, [HeartbeatNext]_allVars
               PROVE  HeartbeatInv'
  OBVIOUS
<1>2. CASE \E s \in Sockets : Hear(s)
  BY <1>1, <1>2, HeardKeeps DEF Hear
<1>3. ASSUME NEW s \in Sockets, HearOther(s) PROVE HeartbeatInv'
  <2>1. s = ws
    BY <1>1, <1>3 DEF HearOther, ConnectionInv, OthersClosed, Unused, Received
  <2>2. QED
    BY <1>1, <1>3, <2>1, HeardKeeps DEF HearOther
<1>4. CASE \E s \in Sockets : (Opened(s) /\ Follow) \/ (Closed(s) /\ Follow)
  BY <1>1, <1>4, FollowKeeps
<1>5. CASE Timers /\ Follow
  BY <1>1, <1>5, FollowKeeps
<1>6. CASE UNCHANGED allVars
  BY <1>1, <1>6
  DEF allVars, vars, device, delivery, HeartbeatInv, InTime, SilenceExplained
<1>7. QED
  BY <1>1, <1>2, <1>3, <1>4, <1>5, <1>6, LoopKeeps, HeartbeatTickKeeps
  DEF HeartbeatNext

-----------------------------------------------------------------------------
LEMMA HeartbeatInvariant == HeartbeatSpec => [](ConnectionInv /\ HeartbeatInv)
BY HeartbeatIsConnection, ConnectionInvariant, HeartbeatInitInv,
   HeartbeatNextInv, PTL DEF HeartbeatSpec

\* The page closes an open connection only after more than Tolerated
\* heartbeats in a row were lost, for every period, delay and limit with
\* (Tolerated + 1) * Period + MaxDelay <= StaleAfter.
THEOREM HeartbeatLossesTolerated == HeartbeatSpec => LossesTolerated
<1>1. ConnectionInv /\ HeartbeatInv
        /\ [\A s \in Sockets : readyState[s] = "open" /\ silence <= StaleAfter
                                 => readyState'[s] # "closing"]_vars
        => [readyState[ws] = "open" /\ readyState'[ws] = "closing"
              => lost > Tolerated]_allVars
  <2>1. SUFFICES ASSUME ConnectionInv, HeartbeatInv,
                        [\A s \in Sockets :
                           readyState[s] = "open" /\ silence <= StaleAfter
                             => readyState'[s] # "closing"]_vars,
                        readyState[ws] = "open", readyState'[ws] = "closing",
                        lost <= Tolerated
                 PROVE  FALSE
    BY Delays DEF HeartbeatInv, InTime
  <2>2. silence > StaleAfter
    BY <2>1, ConnectionAssumptions, Bounds DEF vars, ConnectionInv, TypeOK
  <2>3. /\ lost \in Nat /\ lost + 1 \in Nat /\ Tolerated + 1 \in Nat
        /\ lost + 1 <= Tolerated + 1 /\ silence \in Nat /\ sinceBeat \in Nat
    BY <2>1, Delays, Bounds
    DEF HeartbeatInv, InTime, ConnectionInv, TypeOK
  <2>4. Gap(lost + 1) <= Gap(Tolerated + 1) /\ Gap(lost + 1) = Gap(lost) + Period
    BY <2>3, GapMonotone, GapStep
  <2>5. silence <= Gap(lost + 1) + MaxDelay
    <3>1. CASE coming
      BY <2>1, <2>3, <3>1, GapNat, Delays
      DEF HeartbeatInv, InTime, SilenceExplained
    <3>2. CASE ~coming
      <4>1. sinceBeat <= Period
        BY <2>1, Delays DEF HeartbeatInv, InTime, Period
      <4>2. QED
        BY <2>1, <2>3, <2>4, <3>2, <4>1, GapNat, PeriodNat, Delays
        DEF HeartbeatInv, SilenceExplained
    <3>3. QED
      BY <3>1, <3>2
  <2>6. QED
    BY <2>2, <2>3, <2>4, <2>5, GapNat, GapWithinLimit, Delays,
       ConnectionAssumptions
<1>2. QED
  BY <1>1, HeartbeatIsConnection, ConnectionKept, HeartbeatInvariant, PTL
  DEF HealthyKept, LossesTolerated
=============================================================================
