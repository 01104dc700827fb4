--------------------------- MODULE PageConnection ---------------------------
(***************************************************************************)
(* How the page keeps its connection: connect() of extras/dashboard.html   *)
(* with the four handlers of a WebSocket, the reconnect timeouts and the   *)
(* staleness check.  The handlers of every socket share one set of         *)
(* globals, so a late event of an old socket acts on the current one.      *)
(*                                                                         *)
(* Time passes in ticks of one second.  Handlers run to completion, and    *)
(* timers run in the order they are due, at most MaxLate ticks late.  All  *)
(* reconnect timeouts have the same delay, so the order in which they were *)
(* set is the order in which they run: a sequence holds what is left of    *)
(* each.  reconnectTimeout, when set, is always the last of them, which is *)
(* why a flag stands for it.                                               *)
(***************************************************************************)
EXTENDS Integers, Sequences

CONSTANTS
  Sockets,         \* WebSocket objects; a closed one is used again for a new one
  CheckEvery,      \* period of the staleness check (1000 ms)
  StaleAfter,      \* silence that makes a connection stale (10000 ms)
  ReconnectAfter,  \* delay of a reconnection (3000 ms)
  MaxLate,         \* a timer runs at most this late
  Off              \* no interval is set, lastMessageTime is null

ASSUME ConnectionAssumptions ==
  /\ CheckEvery \in Nat \ {0}
  /\ StaleAfter \in Nat
  /\ ReconnectAfter \in Nat
  /\ CheckEvery < ReconnectAfter
  /\ MaxLate \in Nat
  /\ Off \notin Int

VARIABLES
  ws,                   \* the current socket
  readyState,           \* of every socket
  timeouts,             \* time left of each pending reconnection
  reconnectTimeout,     \* the global holds the last of them
  messageTimeoutCheck,  \* time left to the next check, or Off
  lastMessageAge,       \* Date.now() - lastMessageTime, or Off when null
  connected,            \* what the page shows
  silence,              \* history: ticks since the current socket was heard
  closingFor            \* history: ticks the current socket has been closing

vars == <<ws, readyState, timeouts, reconnectTimeout, messageTimeoutCheck,
          lastMessageAge, connected, silence, closingFor>>

globals == <<timeouts, reconnectTimeout, messageTimeoutCheck, lastMessageAge,
             connected>>

\* Bounds of what counts up: more silence than staleness, and more closing
\* than any property asks for, is all the same.
SilenceBound == StaleAfter + CheckEvery + MaxLate + 1
ClosingBound == ReconnectAfter + CheckEvery + MaxLate + 1

Capped(n, bound) == IF n > bound THEN bound ELSE n

Unused(s) == readyState[s] \in {"none", "closed"}

\* connect() was called when the page loaded.
Init ==
  /\ ws \in Sockets
  /\ readyState = [s \in Sockets |-> IF s = ws THEN "connecting" ELSE "none"]
  /\ timeouts = <<>>
  /\ reconnectTimeout = FALSE
  /\ messageTimeoutCheck = Off
  /\ lastMessageAge = Off
  /\ connected = FALSE
  /\ silence = 0
  /\ closingFor = 0

-----------------------------------------------------------------------------
(* What the handlers do with the globals.                                  *)

\* Mutated form: a pending reconnection is never cancelled.
ClearedNever(pending) == pending

\* if (reconnectTimeout) clearTimeout(reconnectTimeout)
Cleared(pending) ==
  IF reconnectTimeout /\ pending # <<>>
    THEN SubSeq(pending, 1, Len(pending) - 1) ELSE pending

\* The check puts a reconnection off.
Rescheduled == Append(Cleared(timeouts), ReconnectAfter)

\* Mutated form: connect leaves the later of two reconnections pending.
ReconnectedUncleared == Tail(timeouts)

\* The first reconnection runs, and connect cancels the other.
Reconnected == Cleared(Tail(timeouts))

\* WebSocket.close() on the state of a socket.
CloseCalled(state) == IF state \in {"connecting", "open"} THEN "closing" ELSE state

\* Mutated forms: half the silence is enough, and a second more is needed.
IsStaleEarly == 2 * lastMessageAge > StaleAfter
IsStaleLate == lastMessageAge > StaleAfter + 1

IsStale == lastMessageAge > StaleAfter

\* Mutated form: only a connection that never opened is tried again.
AfterCloseOfAttempt(s) ==
  IF readyState[s] = "connecting" THEN Append(timeouts, ReconnectAfter) ELSE timeouts

AfterClose(s) == Append(timeouts, ReconnectAfter)

\* Mutated form: the check of a closed socket goes on.
WatchAfterCloseKept == [check |-> messageTimeoutCheck, age |-> lastMessageAge]

\* clearInterval(messageTimeoutCheck) and lastMessageTime = null
WatchAfterClose == [check |-> Off, age |-> Off]

-----------------------------------------------------------------------------
(* The handlers.                                                           *)

\* onopen: the page also asks for its initialization here.
Opened(s) ==
  /\ readyState[s] = "connecting"
  /\ readyState' = [readyState EXCEPT ![s] = "open"]
  /\ connected' = TRUE
  /\ lastMessageAge' = 0
  /\ timeouts' = Cleared(timeouts)
  /\ reconnectTimeout' = FALSE
  /\ messageTimeoutCheck' = CheckEvery
  /\ silence' = IF s = ws THEN 0 ELSE silence
  /\ UNCHANGED <<ws, closingFor>>

\* onmessage: events of a socket that is closing are dropped by the browser.
Received(s) ==
  /\ readyState[s] = "open"
  /\ lastMessageAge' = 0
  /\ connected' = TRUE
  /\ silence' = IF s = ws THEN 0 ELSE silence
  /\ UNCHANGED <<ws, readyState, timeouts, reconnectTimeout,
                 messageTimeoutCheck, closingFor>>

\* onclose: the attempt failed, the peer closed, or closing has ended.
Closed(s) ==
  /\ readyState[s] \in {"connecting", "open", "closing"}
  /\ readyState' = [readyState EXCEPT ![s] = "closed"]
  /\ connected' = FALSE
  /\ messageTimeoutCheck' = WatchAfterClose.check
  /\ lastMessageAge' = WatchAfterClose.age
  /\ timeouts' = AfterClose(s)
  /\ reconnectTimeout' = TRUE
  /\ closingFor' = IF s = ws THEN 0 ELSE closingFor
  /\ UNCHANGED <<ws, silence>>

\* Timers run in the order they are due.
CheckIsNext ==
  /\ messageTimeoutCheck # Off
  /\ messageTimeoutCheck <= 0
  /\ timeouts # <<>> => messageTimeoutCheck <= Head(timeouts)

TimeoutIsNext ==
  /\ timeouts # <<>>
  /\ Head(timeouts) <= 0
  /\ messageTimeoutCheck # Off => Head(timeouts) <= messageTimeoutCheck

\* The check finds the connection fresh, or the socket still connecting.
CheckFresh ==
  /\ CheckIsNext
  /\ lastMessageAge = Off \/ ~IsStale
  /\ messageTimeoutCheck' = CheckEvery
  /\ UNCHANGED <<ws, readyState, timeouts, reconnectTimeout, lastMessageAge,
                 connected, silence, closingFor>>

\* It finds it stale: an open socket is closed, and a reconnection is set.
CheckStale ==
  /\ CheckIsNext
  /\ lastMessageAge # Off /\ IsStale
  /\ messageTimeoutCheck' = CheckEvery
  /\ connected' = FALSE
  /\ \/ /\ readyState[ws] = "connecting"
        /\ UNCHANGED <<timeouts, reconnectTimeout>>
     \/ /\ readyState[ws] \in {"open", "closing", "closed"}
        /\ timeouts' = Rescheduled
        /\ reconnectTimeout' = TRUE
  /\ readyState' = [readyState EXCEPT
       ![ws] = IF @ = "open" THEN CloseCalled(@) ELSE @]
  /\ UNCHANGED <<ws, lastMessageAge, silence, closingFor>>

\* connect(), from a reconnect timeout.
Connect(s) ==
  /\ TimeoutIsNext
  /\ Unused(s) /\ s # ws
  /\ readyState' = [readyState EXCEPT ![ws] = CloseCalled(@), ![s] = "connecting"]
  /\ ws' = s
  /\ timeouts' = Reconnected
  /\ reconnectTimeout' = FALSE
  /\ connected' = FALSE
  /\ silence' = 0
  /\ closingFor' = 0
  /\ UNCHANGED <<messageTimeoutCheck, lastMessageAge>>

Elapse(t) == IF t = Off THEN Off ELSE t - 1

Tick ==
  /\ messageTimeoutCheck # Off => messageTimeoutCheck > -MaxLate
  /\ \A i \in 1 .. Len(timeouts) : timeouts[i] > -MaxLate
  /\ messageTimeoutCheck' = Elapse(messageTimeoutCheck)
  /\ timeouts' = [i \in 1 .. Len(timeouts) |-> Elapse(timeouts[i])]
  /\ lastMessageAge' =
       IF lastMessageAge = Off THEN Off ELSE Capped(lastMessageAge + 1, StaleAfter + 1)
  /\ silence' = IF readyState[ws] = "open"
                  THEN Capped(silence + 1, SilenceBound) ELSE silence
  /\ closingFor' = IF readyState[ws] = "closing"
                     THEN Capped(closingFor + 1, ClosingBound) ELSE closingFor
  /\ UNCHANGED <<ws, readyState, reconnectTimeout, connected>>

Timers == CheckFresh \/ CheckStale \/ \E s \in Sockets : Connect(s)

Next ==
  \/ \E s \in Sockets : Opened(s) \/ Received(s) \/ Closed(s)
  \/ Timers
  \/ Tick

Spec == Init /\ [][Next]_vars

\* Time passes, timers run and a closing socket is closed in the end, which
\* the browser guarantees.  Of the connection attempts some get through.
FairSpec ==
  /\ Spec
  /\ WF_vars(Tick)
  /\ WF_vars(Timers)
  /\ WF_vars(\E s \in Sockets : readyState[s] = "closing" /\ Closed(s))
  /\ SF_vars(\E s \in Sockets : Opened(s))

-----------------------------------------------------------------------------
(* Properties.                                                             *)

\* The values a timeout can have left.
Left == -MaxLate .. ReconnectAfter

TimeoutsOK == timeouts \in Seq(Left) /\ Len(timeouts) <= 2

FlagsOK == reconnectTimeout \in BOOLEAN /\ connected \in BOOLEAN

\* Type correctness; at most two reconnections are ever pending.
TypeOK ==
  /\ ws \in Sockets
  /\ readyState \in [Sockets -> {"none", "connecting", "open", "closing", "closed"}]
  /\ TimeoutsOK
  /\ FlagsOK
  /\ messageTimeoutCheck \in (-MaxLate .. CheckEvery) \cup {Off}
  /\ lastMessageAge \in (0 .. StaleAfter + 1) \cup {Off}
  /\ silence \in 0 .. SilenceBound
  /\ closingFor \in 0 .. ClosingBound

\* A page has one connection: while a socket is connecting, open or closing,
\* every other one is closed.  The handlers do not say whose they are, so the
\* late onclose of an old socket would otherwise stop the staleness check of
\* the current one and reconnect it (connect, ws.onclose).
OneConnection ==
  \A s, t \in Sockets : ~Unused(s) /\ ~Unused(t) => s = t

\* The page never gives up: a closed socket has a reconnection pending, and
\* an open one is watched by a check that knows when it was last heard.
NeverAbandoned ==
  /\ readyState[ws] = "closed" => timeouts # <<>>
  /\ readyState[ws] = "open" => messageTimeoutCheck # Off /\ lastMessageAge # Off

\* The page shows a connection only while its socket is open and was heard
\* in the last StaleAfter ticks, give or take one check.
ShownConnectedIsAlive ==
  connected => /\ readyState[ws] = "open"
               /\ silence <= StaleAfter + CheckEvery + MaxLate

\* The page itself never closes a connection it heard from less than
\* StaleAfter ago: neither the check nor a left-over reconnection does.
HealthyKept ==
  [][\A s \in Sockets :
       readyState[s] = "open" /\ silence <= StaleAfter => readyState'[s] # "closing"]_vars

\* After any failure the page has an open connection again: automatic
\* recovery, given that some attempt gets through.
Recovers == []<>(readyState[ws] = "open")

\* What the check says of itself: "Try to reconnect if WebSocket is closed,
\* closing, or not receiving messages" (extras/dashboard.html:1661).  A stale
\* socket that is closing is replaced once the delay of a reconnection passed.
ReconnectsWhileClosing ==
  closingFor <= ReconnectAfter + CheckEvery + MaxLate
=============================================================================
