---------------------------- MODULE ChartHistory ----------------------------
(***************************************************************************)
(* One chart card: addChartSeries and updateChartCard                      *)
(* (src/esp_dashboard_plus.cpp), its serialisation in cards_to_cjson       *)
(* (src/dashboard_cards.cpp), and the series the page draws.               *)
(*                                                                         *)
(* The points of all series are in one array, maxPoints for each.  Every   *)
(* series is a ring, and the rings share one head, which only an update of *)
(* series 0 advances.  The application samples in ticks: in tick t it adds *)
(* the point t to series, so a point tells its age.  A chart without       *)
(* series has one row of points, here row 0, and its own overload of       *)
(* updateChartCard.                                                        *)
(***************************************************************************)
EXTENDS Integers, Sequences

CONSTANTS
  MaxPoints,      \* points of a row, maxPoints of addChartCard
  ZeroLast,       \* the caller updates series 0 last in a tick
  MaxSeries,      \* bound: series of the chart
  MaxTicks        \* bound: ticks since the last reset

ASSUME ChartAssumptions ==
  /\ MaxPoints \in Nat \ {0}
  /\ MaxSeries \in Nat
  /\ MaxTicks \in Nat
  /\ ZeroLast \in BOOLEAN

VARIABLES
  numSeries,
  headIdx,   \* the next cell of every ring to be written
  data,      \* the array of points
  tick,      \* ticks since the array was allocated
  todo,      \* rows the tick has not updated yet
  page       \* config.data and config.series of the card in a page

vars == <<numSeries, headIdx, data, tick, todo, page>>

RowsOf(ns) == IF ns = 0 THEN {0} ELSE 0 .. ns - 1
Rows == RowsOf(numSeries)

Zeros(rows) == [i \in 0 .. rows * MaxPoints - 1 |-> 0]

\* A row as cards_to_cjson writes it, from the head on.
SerialisedRow(s) ==
  [i \in 1 .. MaxPoints |-> data[((headIdx + i - 1) % MaxPoints) + s * MaxPoints]]

\* Mutated form: the row starts one cell late.
BroadcastRowPast(d, head, s) ==
  [i \in 1 .. MaxPoints |-> d[s * MaxPoints + ((head + i) % MaxPoints)]]

\* A row as updateChartCard broadcasts it.
BroadcastRow(d, head, s) ==
  [i \in 1 .. MaxPoints |-> d[s * MaxPoints + ((head + i - 1) % MaxPoints)]]

Init ==
  /\ numSeries = 0
  /\ headIdx = 0
  /\ data = Zeros(1)
  /\ tick = 0
  /\ todo = {0}
  /\ page = [data |-> [i \in 1 .. MaxPoints |-> 0], series |-> <<>>]

\* addChartSeries: a new array, all zeros, and no message.
AddSeries ==
  /\ todo = Rows
  /\ numSeries < MaxSeries
  /\ numSeries' = numSeries + 1
  /\ data' = Zeros(numSeries + 1)
  /\ headIdx' = 0
  /\ tick' = 0
  /\ todo' = RowsOf(numSeries + 1)
  /\ UNCHANGED page

\* The caller's side of a tick: every series once.
MayUpdate(s) ==
  /\ tick < MaxTicks
  /\ s \in todo
  /\ ZeroLast /\ s = 0 => todo = {0}

EndTick ==
  /\ todo = {}
  /\ tick' = tick + 1
  /\ todo' = Rows
  /\ UNCHANGED <<numSeries, headIdx, data, page>>

\* updateChartCard(id, value): the caller uses it for charts without series.
UpdatePoint ==
  /\ numSeries = 0
  /\ MayUpdate(0)
  /\ data' = [data EXCEPT ![headIdx % MaxPoints] = tick + 1]
  /\ headIdx' = (headIdx + 1) % MaxPoints
  /\ page' = [page EXCEPT !.data = BroadcastRow(data', headIdx', 0)]
  /\ todo' = todo \ {0}
  /\ UNCHANGED <<numSeries, tick>>

\* Mutated forms: every series advances the head, or none does; the write
\* ignores where the row of the series begins.
HeadAfterEach(s) == (headIdx + 1) % MaxPoints
HeadAfterUnwrapped(s) == IF s = 0 THEN headIdx + 1 ELSE headIdx
CellInRowZero(s) == headIdx % MaxPoints

\* The head advances only when series 0 is updated.
HeadAfter(s) == IF s = 0 THEN (headIdx + 1) % MaxPoints ELSE headIdx

Cell(s) == s * MaxPoints + (headIdx % MaxPoints)

\* updateChartCard(id, seriesIndex, value).
UpdateSeries(s) ==
  /\ s < numSeries
  /\ MayUpdate(s)
  /\ data' = [data EXCEPT ![Cell(s)] = tick + 1]
  /\ headIdx' = HeadAfter(s)
  /\ page' = [page EXCEPT !.series =
       [n \in 1 .. numSeries |-> BroadcastRow(data', headIdx', n - 1)]]
  /\ todo' = todo \ {s}
  /\ UNCHANGED <<numSeries, tick>>

\* What cards_to_cjson puts in the card's config.
Serialised ==
  IF numSeries > 0
    THEN [data |-> <<>>, series |-> [n \in 1 .. numSeries |-> SerialisedRow(n - 1)]]
    ELSE [data |-> SerialisedRow(0), series |-> <<>>]

\* An init message replaces the page's card.
PageInit ==
  /\ page' = Serialised
  /\ UNCHANGED <<numSeries, headIdx, data, tick, todo>>

Next ==
  \/ AddSeries \/ EndTick \/ UpdatePoint \/ PageInit
  \/ \E s \in Rows : UpdateSeries(s)

Spec == Init /\ [][Next]_vars

-----------------------------------------------------------------------------
(* Properties.                                                             *)

\* renderChartContent and getChartAxisData: the series, or else the data.
Drawn(config) == IF config.series # <<>> THEN config.series ELSE <<config.data>>

Points == 0 .. MaxTicks
Row == [1 .. MaxPoints -> Points]

TypeOK ==
  /\ numSeries \in 0 .. MaxSeries
  /\ headIdx \in 0 .. MaxPoints - 1
  /\ data \in [0 .. (IF numSeries = 0 THEN 1 ELSE numSeries) * MaxPoints - 1 -> Points]
  /\ tick \in 0 .. MaxTicks
  /\ todo \in SUBSET Rows
  /\ page \in [data : Row \cup {<<>>}, series : Seq(Row)]

AtTickEnd == tick > 0 /\ todo = Rows

\* The axis labels the last point N, now, and the one k before it N-k
\* (getChartAxisData, extras/dashboard.html:2210): after each tick the point
\* labelled N-k is the one of k ticks ago, zero before the first.  That is so
\* for series 0 in any order of updates, and for every series of a caller that
\* updates series 0 last, because only series 0 advances the head.
LabelsTrue ==
  AtTickEnd =>
    \A n \in DOMAIN Drawn(page), k \in 0 .. MaxPoints - 1 :
      n = 1 \/ ZeroLast =>
        Drawn(page)[n][MaxPoints - k] = IF tick > k THEN tick - k ELSE 0

\* A page that followed the updates draws what one that was initialized just
\* now draws: the two serialisations of the rings agree at every moment, also
\* within a tick, once an update followed the last addChartSeries.
UpdatesAgreeWithInit ==
  tick > 0 \/ todo # Rows => Drawn(page) = Drawn(Serialised)
=============================================================================
