------------------------------ MODULE Heartbeat ------------------------------
(***************************************************************************)
(* The heartbeat of the device (ESPDashboardPlus::loop) composed with the  *)
(* connection of one page.  The application calls loop() again and again;  *)
(* it broadcasts a heartbeat when enough time has passed since the last    *)
(* one.  A broadcast that the work queue refuses, or that there is no      *)
(* memory for, is lost without a retry, so that a page may miss any number *)
(* of heartbeats; the page only knows that it heard nothing.               *)
(*                                                                         *)
(* A tick of this module is half a second.  A heartbeat on its way is as   *)
(* old as the last one the device sent: it arrives before the next is due. *)
(***************************************************************************)
EXTENDS PageConnection

CONSTANTS
  BeatEvery,  \* period of the heartbeat (2500 ms)
  LoopEvery,  \* the application calls loop() at least this often
  MaxDelay,   \* from the broadcast to the page, at most
  Tolerated   \* heartbeats in a row whose loss does no harm

\* The longest time between two heartbeats.
Period == BeatEvery + LoopEvery

ASSUME HeartbeatAssumptions ==
  /\ BeatEvery \in Nat /\ LoopEvery \in Nat \ {0}
  /\ MaxDelay \in Nat /\ MaxDelay < BeatEvery
  /\ Tolerated \in Nat
  /\ (Tolerated + 1) * Period + MaxDelay <= StaleAfter

VARIABLES
  sinceBeat,  \* now - _lastHeartbeatMs
  sinceLoop,  \* time since the application called loop()
  coming,     \* the last heartbeat is on its way to the page
  lost        \* history: heartbeats lost since the page last heard anything

device == <<sinceBeat, sinceLoop>>
delivery == <<coming, lost>>
allVars == <<vars, device, delivery>>

HeartbeatInit ==
  /\ Init
  /\ sinceBeat \in 0 .. BeatEvery
  /\ sinceLoop = 0
  /\ coming = FALSE
  /\ lost = 0

-----------------------------------------------------------------------------
(* The device.                                                             *)

\* Mutated form: twice the period.
DueLate == sinceBeat >= 2 * BeatEvery

Due == sinceBeat >= BeatEvery

\* loop(): nothing to do yet, or a heartbeat is queued for every page, or it
\* is lost; _lastHeartbeatMs is set all the same.
Loop ==
  /\ sinceLoop' = 0
  /\ \/ /\ ~Due
        /\ UNCHANGED <<sinceBeat, delivery>>
     \/ /\ Due
        /\ sinceBeat' = 0
        /\ \/ /\ coming' = (readyState[ws] = "open")
              /\ UNCHANGED lost
           \/ /\ lost' = IF readyState[ws] = "open"
                           THEN Capped(lost + 1, Tolerated + 1) ELSE lost
              /\ UNCHANGED coming
  /\ UNCHANGED vars

-----------------------------------------------------------------------------
(* The page, on whose connection the heartbeats come.                      *)

\* What was on its way is gone with the connection.
Follow ==
  /\ UNCHANGED device
  /\ IF ws' = ws /\ readyState'[ws] = readyState[ws]
       THEN UNCHANGED delivery ELSE coming' = FALSE /\ lost' = 0

\* case 'heartbeat': all that matters is that a message came.
Hear(s) ==
  /\ coming /\ s = ws
  /\ Received(s)
  /\ coming' = FALSE
  /\ lost' = 0
  /\ UNCHANGED device

\* An update, a log line or an initialization.
HearOther(s) ==
  /\ Received(s)
  /\ lost' = IF s = ws THEN 0 ELSE lost
  /\ UNCHANGED <<coming, device>>

\* Time passes, if neither loop() nor a heartbeat is late.
HeartbeatTick ==
  /\ sinceLoop < LoopEvery
  /\ coming => sinceBeat < MaxDelay
  /\ Tick
  /\ sinceBeat' = sinceBeat + 1
  /\ sinceLoop' = sinceLoop + 1
  /\ UNCHANGED delivery

HeartbeatNext ==
  \/ Loop
  \/ \E s \in Sockets : Hear(s) \/ HearOther(s)
  \/ \E s \in Sockets : Opened(s) /\ Follow
  \/ \E s \in Sockets : Closed(s) /\ Follow
  \/ Timers /\ Follow
  \/ HeartbeatTick

HeartbeatSpec == HeartbeatInit /\ [][HeartbeatNext]_allVars

\* As in FairSpec, and the application keeps calling loop().
HeartbeatFairSpec ==
  /\ HeartbeatSpec
  /\ WF_allVars(HeartbeatTick)
  /\ WF_allVars(Loop)
  /\ WF_allVars(\E s \in Sockets : Hear(s))
  /\ WF_allVars(Timers /\ Follow)
  /\ WF_allVars(\E s \in Sockets : readyState[s] = "closing" /\ Closed(s) /\ Follow)
  /\ SF_allVars(\E s \in Sockets : Opened(s) /\ Follow)

-----------------------------------------------------------------------------
(* Properties.                                                             *)

\* The page gives up an open connection only after more than Tolerated
\* heartbeats in a row were lost: with the periods of the code (2500 ms in
\* loop, 10000 ms in the staleness check) two losses in a row, a late loop()
\* and a slow network together cost no healthy connection.
LossesTolerated ==
  [][readyState[ws] = "open" /\ readyState'[ws] = "closing" => lost > Tolerated]_allVars
=============================================================================
