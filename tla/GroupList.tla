----------------------------- MODULE GroupList -----------------------------
(***************************************************************************)
(* What the group methods of ESPDashboardPlus promise: a list of groups,   *)
(* each with a list of card ids, both in the order of the calls and of     *)
(* bounded length.  Ids may repeat; a call means the first match, and a    *)
(* call without a match, or on a full list, changes nothing.               *)
(***************************************************************************)
EXTENDS Naturals, Sequences, SequencesExt

CONSTANTS GroupIds, CardIds, MaxGroups, MaxIds

VARIABLE list

Init == list = <<>>

IsFirst(i, g) ==
  /\ list[i].id = g
  /\ \A k \in 1 .. i - 1 : list[k].id # g

AddGroup(g) ==
  /\ Len(list) < MaxGroups
  /\ list' = Append(list, [id |-> g, cardIds |-> <<>>])

AddCardToGroup(g, c) ==
  \E i \in 1 .. Len(list) :
    /\ IsFirst(i, g)
    /\ Len(list[i].cardIds) < MaxIds
    /\ list' = [list EXCEPT ![i] = [id |-> g, cardIds |-> Append(list[i].cardIds, c)]]

Holds(i, c) == \E j \in 1 .. Len(list[i].cardIds) : list[i].cardIds[j] = c

RemoveCardFromGroup(g, c) ==
  \E i \in 1 .. Len(list) :
    /\ list[i].id = g
    /\ \A k \in 1 .. i - 1 : list[k].id = g => ~Holds(k, c)
    /\ \E j \in 1 .. Len(list[i].cardIds) :
         /\ list[i].cardIds[j] = c
         /\ \A k \in 1 .. j - 1 : list[i].cardIds[k] # c
         /\ list' = [list EXCEPT
              ![i] = [id |-> g, cardIds |-> RemoveAt(list[i].cardIds, j)]]

RemoveGroup(g) ==
  \E i \in 1 .. Len(list) : IsFirst(i, g) /\ list' = RemoveAt(list, i)

Next ==
  \E g \in GroupIds :
    \/ AddGroup(g) \/ RemoveGroup(g)
    \/ \E c \in CardIds : AddCardToGroup(g, c) \/ RemoveCardFromGroup(g, c)

Spec == Init /\ [][Next]_list
=============================================================================
