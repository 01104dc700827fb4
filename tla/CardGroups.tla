----------------------------- MODULE CardGroups -----------------------------
(***************************************************************************)
(* The group methods of ESPDashboardPlus (src/esp_dashboard_plus.cpp): an  *)
(* array of groups with a count, each with an array of card ids and a      *)
(* count.  Cells past a count keep what was last in them.  They implement  *)
(* the lists of GroupList, which are what the initialization of a page     *)
(* reads from them.                                                        *)
(***************************************************************************)
EXTENDS Integers, Sequences

CONSTANTS
  GroupIds,
  CardIds,
  MaxGroups,  \* 8 in the code
  MaxIds,     \* 16 in the code
  NoId        \* the empty string

ASSUME GroupAssumptions ==
  /\ MaxGroups \in Nat
  /\ MaxIds \in Nat
  /\ NoId \notin GroupIds \cup CardIds

VARIABLES
  groups,     \* _groups
  groupCount  \* _groupCount

vars == <<groups, groupCount>>

GroupSlots == 0 .. MaxGroups - 1
CardSlots == 0 .. MaxIds - 1

\* memset of the entry, then its id.
EmptyGroup(g) ==
  [id |-> g, cardIds |-> [j \in CardSlots |-> NoId], cardCount |-> 0]

Init ==
  /\ groups = [i \in GroupSlots |-> EmptyGroup(NoId)]
  /\ groupCount = 0

Live == 0 .. groupCount - 1

\* The cell of the first group with this id.
IsFirst(i, g) ==
  /\ groups[i].id = g
  /\ \A k \in 0 .. i - 1 : groups[k].id # g

AddGroup(g) ==
  /\ groupCount < MaxGroups
  /\ groups' = [groups EXCEPT ![groupCount] = EmptyGroup(g)]
  /\ groupCount' = groupCount + 1

WithCards(group, ids, count) ==
  [id |-> group.id, cardIds |-> ids, cardCount |-> count]

\* Mutated form: one id more than the array holds.
HasRoomLate(i) == groups[i].cardCount <= MaxIds

HasRoom(i) == groups[i].cardCount < MaxIds

AddCardToGroup(g, c) ==
  \E i \in Live :
    /\ IsFirst(i, g)
    /\ HasRoom(i)
    /\ groups' = [groups EXCEPT ![i] = WithCards(groups[i],
         [groups[i].cardIds EXCEPT ![groups[i].cardCount] = c],
         groups[i].cardCount + 1)]
    /\ UNCHANGED groupCount

\* Mutated form: the loop stops one cell early.
ShiftedShort(a, from, count) ==
  [k \in DOMAIN a |-> IF from <= k /\ k < count - 2 THEN a[k + 1] ELSE a[k]]

\* The cells after from move down by one; the last live one keeps a copy.
Shifted(a, from, count) ==
  [k \in DOMAIN a |-> IF from <= k /\ k < count - 1 THEN a[k + 1] ELSE a[k]]

Holds(i, c) == \E j \in 0 .. groups[i].cardCount - 1 : groups[i].cardIds[j] = c

\* Groups of the same id are searched until one holds the card.
RemoveCardFromGroup(g, c) ==
  \E i \in Live :
    /\ groups[i].id = g
    /\ \A k \in 0 .. i - 1 : groups[k].id = g => ~Holds(k, c)
    /\ \E j \in 0 .. groups[i].cardCount - 1 :
         /\ groups[i].cardIds[j] = c
         /\ \A k \in 0 .. j - 1 : groups[i].cardIds[k] # c
         /\ groups' = [groups EXCEPT ![i] = WithCards(groups[i],
              Shifted(groups[i].cardIds, j, groups[i].cardCount),
              groups[i].cardCount - 1)]
         /\ UNCHANGED groupCount

RemoveGroup(g) ==
  \E i \in Live :
    /\ IsFirst(i, g)
    /\ groups' = Shifted(groups, i, groupCount)
    /\ groupCount' = groupCount - 1

Next ==
  \E g \in GroupIds :
    \/ AddGroup(g) \/ RemoveGroup(g)
    \/ \E c \in CardIds : AddCardToGroup(g, c) \/ RemoveCardFromGroup(g, c)

Spec == Init /\ [][Next]_vars

-----------------------------------------------------------------------------
\* "groups" of the init message (_buildInitJson).
GroupRead(group) ==
  [id |-> group.id,
   cardIds |-> [j \in 1 .. group.cardCount |-> group.cardIds[j - 1]]]

GroupsRead == [i \in 1 .. groupCount |-> GroupRead(groups[i - 1])]

Group ==
  [id : GroupIds \cup {NoId}, cardIds : [CardSlots -> CardIds \cup {NoId}],
   cardCount : 0 .. MaxIds]

\* The arrays and counts stay within their bounds (CardGroup in
\* include/esp_dashboard_plus.h).
TypeOK ==
  /\ groups \in [GroupSlots -> Group]
  /\ groupCount \in 0 .. MaxGroups

Promised == INSTANCE GroupList WITH list <- GroupsRead

\* What pages are told of the groups is a list that only the group methods
\* change, as they promise: no leftover of a shifted array shows.
ImplementsGroupList == Promised!Spec
=============================================================================
