-------------------------- MODULE CardGroupsProofs --------------------------
(***************************************************************************)
(* The group arrays stay within their bounds and implement GroupList, for  *)
(* any number of groups, cards and ids.  TypeOK is inductive, and each     *)
(* method changes what is read from the arrays as the abstract method      *)
(* changes the list.                                                       *)
(***************************************************************************)
EXTENDS CardGroups, SequencesExt, SequenceTheorems, TLAPS

USE GroupAssumptions

-----------------------------------------------------------------------------
(* Bounds.                                                                 *)

\* Shifting an array down moves values within it.
LEMMA ShiftedType ==
  ASSUME NEW S, NEW n \in Nat, NEW a \in [0 .. n - 1 -> S],
         NEW count \in 0 .. n, NEW from \in 0 .. count - 1
  PROVE  Shifted(a, from, count) \in [0 .. n - 1 -> S]
  BY DEF Shifted

LEMMA EmptyGroupType ==
  ASSUME NEW g \in GroupIds \cup {NoId}
  PROVE  EmptyGroup(g) \in Group
  BY DEF EmptyGroup, Group

LEMMA TypeInit == Init => TypeOK
  BY EmptyGroupType DEF Init, TypeOK, GroupSlots

\* What each method keeps, with the cells it writes.
LEMMA TypeStep == TypeOK /\ [Next]_vars => TypeOK'
<1> SUFFICES ASSUME TypeOK, [Next]_vars PROVE TypeOK'
  OBVIOUS
<1> USE DEF TypeOK
<1>1. ASSUME NEW g \in GroupIds, AddGroup(g) PROVE TypeOK'
  BY <1>1, EmptyGroupType DEF AddGroup, GroupSlots
<1>2. ASSUME NEW g \in GroupIds, NEW c \in CardIds, AddCardToGroup(g, c) PROVE TypeOK'
  <2>1. PICK i \in Live :
          /\ HasRoom(i)
          /\ groups' = [groups EXCEPT ![i] = WithCards(groups[i],
               [groups[i].cardIds EXCEPT ![groups[i].cardCount] = c],
               groups[i].cardCount + 1)]
    BY <1>2 DEF AddCardToGroup
  <2>2. i \in GroupSlots /\ groups[i] \in Group
    BY DEF Live, GroupSlots
  <2>3. WithCards(groups[i], [groups[i].cardIds EXCEPT ![groups[i].cardCount] = c],
                  groups[i].cardCount + 1) \in Group
    BY <2>1, <2>2 DEF HasRoom, WithCards, Group, CardSlots
  <2> QED BY <1>2, <2>1, <2>2, <2>3 DEF AddCardToGroup
<1>3. ASSUME NEW g \in GroupIds, NEW c \in CardIds, RemoveCardFromGroup(g, c)
      PROVE  TypeOK'
  <2>0. PICK i \in Live : \E j \in 0 .. groups[i].cardCount - 1 :
          groups' = [groups EXCEPT ![i] = WithCards(groups[i],
            Shifted(groups[i].cardIds, j, groups[i].cardCount),
            groups[i].cardCount - 1)]
    BY <1>3 DEF RemoveCardFromGroup
  <2>1. PICK j \in 0 .. groups[i].cardCount - 1 :
          groups' = [groups EXCEPT ![i] = WithCards(groups[i],
            Shifted(groups[i].cardIds, j, groups[i].cardCount),
            groups[i].cardCount - 1)]
    BY <2>0
  <2>2. i \in GroupSlots /\ groups[i] \in Group
    BY DEF Live, GroupSlots
  <2>3. /\ groups[i].cardCount \in 1 .. MaxIds
        /\ groups[i].cardIds \in [CardSlots -> CardIds \cup {NoId}]
    BY <2>1, <2>2 DEF Group
  <2>4. Shifted(groups[i].cardIds, j, groups[i].cardCount)
          \in [CardSlots -> CardIds \cup {NoId}]
    BY <2>1, <2>3 DEF Shifted, CardSlots
  <2>5. WithCards(groups[i], Shifted(groups[i].cardIds, j, groups[i].cardCount),
                  groups[i].cardCount - 1) \in Group
    BY <2>2, <2>3, <2>4 DEF WithCards, Group
  <2> QED BY <1>3, <2>1, <2>2, <2>5 DEF RemoveCardFromGroup
<1>4. ASSUME NEW g \in GroupIds, RemoveGroup(g) PROVE TypeOK'
  <2>1. PICK i \in Live : groups' = Shifted(groups, i, groupCount)
    BY <1>4 DEF RemoveGroup
  <2>2. groups' \in [GroupSlots -> Group]
    BY <2>1, ShiftedType DEF Live, GroupSlots
  <2>3. groupCount' \in 0 .. MaxGroups
    BY <1>4 DEF RemoveGroup, Live
  <2> QED BY <2>2, <2>3
<1>5. CASE UNCHANGED vars
  BY <1>5 DEF vars
<1> QED BY <1>1, <1>2, <1>3, <1>4, <1>5 DEF Next

\* The group arrays and counts stay within their bounds.
THEOREM GroupsTypeCorrect == Spec => []TypeOK
  BY TypeInit, TypeStep, PTL DEF Spec

-----------------------------------------------------------------------------
(* What is read from the arrays.                                           *)

Ids == CardIds \cup {NoId}
ReadGroup == [id : GroupIds \cup {NoId}, cardIds : Seq(Ids)]

\* RemoveAt moves down what follows.
LEMMA RemoveAtShifts ==
  ASSUME NEW S, NEW s \in Seq(S), NEW i \in 1 .. Len(s)
  PROVE  /\ RemoveAt(s, i) \in Seq(S)
         /\ Len(RemoveAt(s, i)) = Len(s) - 1
         /\ \A k \in 1 .. Len(s) - 1 :
              RemoveAt(s, i)[k] = IF k < i THEN s[k] ELSE s[k + 1]
<1> DEFINE t == [k \in 1 .. Len(s) - 1 |-> IF k < i THEN s[k] ELSE s[k + 1]]
<1> DEFINE before == SubSeq(s, 1, i - 1)
           after == SubSeq(s, i + 1, Len(s))
<1>1. t \in Seq(S) /\ Len(t) = Len(s) - 1
  OBVIOUS
<1>2. /\ before \in Seq(S) /\ Len(before) = i - 1
      /\ after \in Seq(S) /\ Len(after) = Len(s) - i
      /\ \A k \in 1 .. i - 1 : before[k] = s[k]
      /\ \A k \in 1 .. Len(s) - i : after[k] = s[i + k]
  OBVIOUS
<1> HIDE DEF before, after
<1>3. /\ before \o after \in Seq(S)
      /\ Len(before \o after) = Len(s) - 1
      /\ \A k \in 1 .. Len(s) - 1 :
           (before \o after)[k] = IF k < i THEN before[k] ELSE after[k - (i - 1)]
  <2>1. /\ before \o after \in Seq(S)
        /\ Len(before \o after) = Len(before) + Len(after)
        /\ \A k \in 1 .. Len(before) + Len(after) : (before \o after)[k] =
             IF k <= Len(before) THEN before[k] ELSE after[k - Len(before)]
    BY <1>2, ConcatProperties
  <2>2. Len(s) \in Nat /\ i \in Nat
    OBVIOUS
  <2> QED BY <1>2, <2>1, <2>2
<1>4. \A k \in 1 .. Len(s) - 1 : (before \o after)[k] = t[k]
  BY <1>2, <1>3
<1>5. before \o after = t
  BY <1>1, <1>3, <1>4, SeqEqual
<1>6. RemoveAt(s, i) = t
  BY <1>5 DEF RemoveAt, before, after
<1> QED BY <1>1, <1>6

\* The list read from arrays within their bounds.
LEMMA ReadOfArrays ==
  ASSUME TypeOK
  PROVE  /\ GroupsRead \in Seq(ReadGroup)
         /\ Len(GroupsRead) = groupCount
         /\ \A i \in Live :
              /\ GroupsRead[i + 1] = GroupRead(groups[i])
              /\ GroupRead(groups[i]).id = groups[i].id
              /\ GroupRead(groups[i]).cardIds \in Seq(Ids)
              /\ Len(GroupRead(groups[i]).cardIds) = groups[i].cardCount
              /\ \A j \in 0 .. groups[i].cardCount - 1 :
                   GroupRead(groups[i]).cardIds[j + 1] = groups[i].cardIds[j]
<1>1. ASSUME NEW i \in Live
      PROVE  /\ groups[i].id \in GroupIds \cup {NoId}
             /\ groups[i].cardCount \in 0 .. MaxIds
             /\ groups[i].cardIds \in [CardSlots -> Ids]
  BY DEF TypeOK, Live, GroupSlots, Group, Ids
<1>2. ASSUME NEW i \in Live
      PROVE  /\ GroupRead(groups[i]) \in ReadGroup
             /\ GroupRead(groups[i]).id = groups[i].id
             /\ GroupRead(groups[i]).cardIds \in Seq(Ids)
             /\ Len(GroupRead(groups[i]).cardIds) = groups[i].cardCount
             /\ \A j \in 0 .. groups[i].cardCount - 1 :
                  GroupRead(groups[i]).cardIds[j + 1] = groups[i].cardIds[j]
  <2> DEFINE q == [j \in 1 .. groups[i].cardCount |-> groups[i].cardIds[j - 1]]
  <2>1. \A j \in 1 .. groups[i].cardCount : groups[i].cardIds[j - 1] \in Ids
    BY <1>1 DEF CardSlots
  <2>2. q \in Seq(Ids) /\ Len(q) = groups[i].cardCount
    BY <1>1, <2>1
  <2>3. \A j \in 0 .. groups[i].cardCount - 1 : q[j + 1] = groups[i].cardIds[j]
    BY <1>1
  <2>4. GroupRead(groups[i]) = [id |-> groups[i].id, cardIds |-> q]
    BY DEF GroupRead
  <2> HIDE DEF q
  <2> QED BY <1>1, <2>2, <2>3, <2>4 DEF ReadGroup
<1>3. groupCount \in Nat
  BY DEF TypeOK
<1>4. \A i \in 1 .. groupCount : GroupRead(groups[i - 1]) \in ReadGroup
  BY <1>2, <1>3 DEF Live
<1>5. GroupsRead \in Seq(ReadGroup) /\ Len(GroupsRead) = groupCount
  BY <1>3, <1>4 DEF GroupsRead
<1>6. \A i \in Live : GroupsRead[i + 1] = GroupRead(groups[i])
  BY <1>3 DEF GroupsRead, Live
<1> QED BY <1>2, <1>5, <1>6

-----------------------------------------------------------------------------
(* Each method is the abstract one.                                        *)

\* The first group with an id is the same in the arrays and in the list.
LEMMA SameFirst ==
  ASSUME TypeOK, NEW i \in Live, NEW g, IsFirst(i, g)
  PROVE  i + 1 \in 1 .. Len(GroupsRead) /\ Promised!IsFirst(i + 1, g)
<1>1. groupCount \in Nat
  BY DEF TypeOK
<1>2. GroupsRead[i + 1].id = g
  BY ReadOfArrays DEF IsFirst
<1>3. ASSUME NEW k \in 1 .. i PROVE GroupsRead[k].id # g
  <2>1. k - 1 \in Live /\ k - 1 \in 0 .. i - 1 /\ (k - 1) + 1 = k
    BY <1>1 DEF Live
  <2>2. GroupsRead[k].id = groups[k - 1].id
    BY <2>1, ReadOfArrays
  <2> QED BY <2>1, <2>2 DEF IsFirst
<1> QED BY <1>1, <1>2, <1>3, ReadOfArrays DEF Live, Promised!IsFirst

\* So is what a group holds.
LEMMA SameHolds ==
  ASSUME TypeOK, NEW i \in Live, NEW c, ~Holds(i, c)
  PROVE  ~Promised!Holds(i + 1, c)
<1>1. groups[i].cardCount \in Nat
  BY DEF TypeOK, Live, GroupSlots, Group
<1>2. ASSUME NEW j \in 1 .. groups[i].cardCount PROVE GroupRead(groups[i]).cardIds[j] # c
  <2>1. j - 1 \in 0 .. groups[i].cardCount - 1 /\ (j - 1) + 1 = j
    BY <1>1
  <2>2. GroupRead(groups[i]).cardIds[j] = groups[i].cardIds[j - 1]
    BY <2>1, ReadOfArrays
  <2> QED BY <2>1, <2>2 DEF Holds
<1> QED BY <1>2, ReadOfArrays DEF Promised!Holds

\* Arrays that differ in one live group are read as lists that do.
LEMMA ReadOfOneChanged ==
  ASSUME TypeOK, TypeOK', NEW i \in Live, groupCount' = groupCount,
         NEW group, groups' = [groups EXCEPT ![i] = group]
  PROVE  GroupsRead' = [GroupsRead EXCEPT ![i + 1] = GroupRead(group)]
<1>1. groupCount \in Nat /\ groupCount <= MaxGroups /\ i \in 0 .. groupCount - 1
  BY DEF TypeOK, Live
<1>2. \A k \in 0 .. MaxGroups - 1 : groups'[k] = IF k = i THEN group ELSE groups[k]
  BY <1>1 DEF TypeOK, GroupSlots
<1>3. \A k \in 1 .. groupCount :
        groups'[k - 1] = IF k = i + 1 THEN group ELSE groups[k - 1]
  BY <1>1, <1>2
<1>4. \A k \in 1 .. groupCount :
        GroupRead(groups'[k - 1]) =
          IF k = i + 1 THEN GroupRead(group) ELSE GroupRead(groups[k - 1])
  BY <1>3
<1> QED BY <1>1, <1>4 DEF GroupsRead

LEMMA RefineInit == Init => Promised!Init
  BY ReadOfArrays, TypeInit, EmptySeq DEF Init, Promised!Init

LEMMA RefineAddGroup ==
  ASSUME TypeOK, TypeOK', NEW g \in GroupIds, AddGroup(g)
  PROVE  Promised!AddGroup(g)
<1> DEFINE new == [id |-> g, cardIds |-> <<>>]
<1>1. groupCount \in Nat /\ groupCount < MaxGroups /\ groupCount' = groupCount + 1
  BY DEF TypeOK, AddGroup
<1>2. GroupRead(EmptyGroup(g)) = new
  BY DEF GroupRead, EmptyGroup
<1>3. \A k \in 0 .. MaxGroups - 1 :
        groups'[k] = IF k = groupCount THEN EmptyGroup(g) ELSE groups[k]
  BY <1>1 DEF TypeOK, AddGroup, GroupSlots
<1>4. \A k \in 1 .. groupCount + 1 :
        groups'[k - 1] = IF k = groupCount + 1 THEN EmptyGroup(g) ELSE groups[k - 1]
  BY <1>1, <1>3
<1>5. GroupsRead' = [k \in 1 .. groupCount + 1 |->
        IF k = groupCount + 1 THEN new ELSE GroupRead(groups[k - 1])]
  BY <1>1, <1>2, <1>4 DEF GroupsRead
<1>6. GroupsRead = [k \in 1 .. groupCount |-> GroupRead(groups[k - 1])]
  BY DEF GroupsRead
<1>7. GroupsRead \in Seq(ReadGroup) /\ Len(GroupsRead) = groupCount
  BY ReadOfArrays
<1>8. Append(GroupsRead, new) = [k \in 1 .. groupCount + 1 |->
        IF k = groupCount + 1 THEN new ELSE GroupsRead[k]]
  BY <1>1, <1>7
<1>9. GroupsRead' = Append(GroupsRead, new)
  BY <1>1, <1>5, <1>6, <1>8
<1> QED BY <1>1, <1>7, <1>9 DEF Promised!AddGroup

LEMMA RefineAddCard ==
  ASSUME TypeOK, TypeOK', NEW g \in GroupIds, NEW c \in CardIds, AddCardToGroup(g, c)
  PROVE  Promised!AddCardToGroup(g, c)
<1>1. PICK i \in Live :
        /\ IsFirst(i, g)
        /\ groups[i].cardCount < MaxIds
        /\ groups' = [groups EXCEPT ![i] = WithCards(groups[i],
             [groups[i].cardIds EXCEPT ![groups[i].cardCount] = c],
             groups[i].cardCount + 1)]
        /\ groupCount' = groupCount
  BY DEF AddCardToGroup, HasRoom
<1> DEFINE ids == groups[i].cardIds
           count == groups[i].cardCount
           group == WithCards(groups[i], [ids EXCEPT ![count] = c], count + 1)
<1>2. count \in Nat /\ count < MaxIds /\ ids \in [0 .. MaxIds - 1 -> Ids]
  BY <1>1 DEF TypeOK, Live, GroupSlots, Group, CardSlots, Ids
<1>3. /\ GroupRead(groups[i]).id = groups[i].id
      /\ GroupRead(groups[i]).cardIds = [j \in 1 .. count |-> ids[j - 1]]
      /\ GroupRead(groups[i]).cardIds \in Seq(Ids)
      /\ Len(GroupRead(groups[i]).cardIds) = count
  BY ReadOfArrays DEF GroupRead
<1>4. [j \in 1 .. count + 1 |-> [ids EXCEPT ![count] = c][j - 1]] =
        Append([j \in 1 .. count |-> ids[j - 1]], c)
  BY <1>2
<1>5. GroupRead(group) =
        [id |-> groups[i].id, cardIds |-> Append(GroupRead(groups[i]).cardIds, c)]
  BY <1>3, <1>4 DEF GroupRead, WithCards
<1>6. GroupsRead' = [GroupsRead EXCEPT ![i + 1] = GroupRead(group)]
  BY <1>1, ReadOfOneChanged
<1>7. GroupRead(group) =
        [id |-> g, cardIds |-> Append(GroupsRead[i + 1].cardIds, c)]
  BY <1>1, <1>5, ReadOfArrays DEF IsFirst
<1>8. /\ i + 1 \in 1 .. Len(GroupsRead)
      /\ Promised!IsFirst(i + 1, g)
      /\ Len(GroupsRead[i + 1].cardIds) = count
  BY <1>1, <1>3, SameFirst, ReadOfArrays
<1> HIDE DEF group
<1> QED BY <1>1, <1>6, <1>7, <1>8 DEF Promised!AddCardToGroup

LEMMA RefineRemoveCard ==
  ASSUME TypeOK, TypeOK', NEW g \in GroupIds, NEW c \in CardIds,
         RemoveCardFromGroup(g, c)
  PROVE  Promised!RemoveCardFromGroup(g, c)
<1>1. PICK i \in Live :
        /\ groups[i].id = g
        /\ \A k \in 0 .. i - 1 : groups[k].id = g => ~Holds(k, c)
        /\ \E j \in 0 .. groups[i].cardCount - 1 :
             /\ groups[i].cardIds[j] = c
             /\ \A k \in 0 .. j - 1 : groups[i].cardIds[k] # c
             /\ groups' = [groups EXCEPT ![i] = WithCards(groups[i],
                  Shifted(groups[i].cardIds, j, groups[i].cardCount),
                  groups[i].cardCount - 1)]
        /\ groupCount' = groupCount
  BY DEF RemoveCardFromGroup
<1> DEFINE ids == groups[i].cardIds
           count == groups[i].cardCount
           read == GroupRead(groups[i]).cardIds
<1>2. PICK j \in 0 .. count - 1 :
        /\ ids[j] = c
        /\ \A k \in 0 .. j - 1 : ids[k] # c
        /\ groups' = [groups EXCEPT ![i] =
             WithCards(groups[i], Shifted(ids, j, count), count - 1)]
  BY <1>1
<1> DEFINE group == WithCards(groups[i], Shifted(ids, j, count), count - 1)
<1>3. /\ count \in 1 .. MaxIds /\ ids \in [0 .. MaxIds - 1 -> Ids]
      /\ j \in Nat /\ j < count
  BY <1>1, <1>2 DEF TypeOK, Live, GroupSlots, Group, CardSlots, Ids
<1>4. /\ read = [k \in 1 .. count |-> ids[k - 1]]
      /\ read \in Seq(Ids) /\ Len(read) = count
      /\ \A k \in 0 .. count - 1 : read[k + 1] = ids[k]
  BY ReadOfArrays DEF GroupRead
<1> HIDE DEF read, ids, count
<1>5. /\ RemoveAt(read, j + 1) \in Seq(Ids)
      /\ Len(RemoveAt(read, j + 1)) = count - 1
      /\ \A k \in 1 .. count - 1 :
           RemoveAt(read, j + 1)[k] = IF k < j + 1 THEN read[k] ELSE read[k + 1]
  <2>1. j + 1 \in 1 .. Len(read)
    BY <1>3, <1>4
  <2> QED BY <1>4, <2>1, RemoveAtShifts
<1>6. [k \in 1 .. count - 1 |-> Shifted(ids, j, count)[k - 1]] = RemoveAt(read, j + 1)
  <2>1. ASSUME NEW k \in 1 .. count - 1
        PROVE  Shifted(ids, j, count)[k - 1] = RemoveAt(read, j + 1)[k]
    <3>1. k - 1 \in 0 .. MaxIds - 1 /\ k \in Nat /\ k <= count - 1
      BY <1>3
    <3>2. Shifted(ids, j, count)[k - 1] = IF j <= k - 1 THEN ids[k] ELSE ids[k - 1]
      BY <1>3, <3>1 DEF Shifted
    <3>3. (k - 1) + 1 = k /\ k - 1 \in 0 .. count - 1 /\ k \in 0 .. count - 1
      BY <1>3, <3>1
    <3>4. read[k] = ids[k - 1] /\ read[k + 1] = ids[k]
      BY <1>4, <3>3
    <3> QED BY <1>3, <1>5, <3>1, <3>2, <3>4
  <2>2. count - 1 \in Nat /\ \A k \in 1 .. count - 1 : Shifted(ids, j, count)[k - 1] \in Ids
    <3>1. \A k \in 1 .. count - 1 : RemoveAt(read, j + 1)[k] \in Ids
      BY <1>5
    <3>2. ASSUME NEW k \in 1 .. count - 1 PROVE Shifted(ids, j, count)[k - 1] \in Ids
      BY <2>1, <3>1, Zenon
    <3>3. count - 1 \in Nat
      BY <1>3
    <3> QED BY <3>2, <3>3
  <2> DEFINE shifted == [k \in 1 .. count - 1 |-> Shifted(ids, j, count)[k - 1]]
  <2>3. shifted \in Seq(Ids) /\ Len(shifted) = count - 1
    BY <2>2
  <2>4. \A k \in 1 .. count - 1 : shifted[k] = RemoveAt(read, j + 1)[k]
    BY <2>1
  <2> HIDE DEF shifted
  <2>5. shifted = RemoveAt(read, j + 1)
    BY <1>5, <2>3, <2>4, SeqEqual
  <2> QED BY <2>5 DEF shifted
<1>7. GroupRead(group) = [id |-> groups[i].id, cardIds |-> RemoveAt(read, j + 1)]
  BY <1>6 DEF GroupRead, WithCards, ids, count
<1>8. GroupsRead' = [GroupsRead EXCEPT ![i + 1] = GroupRead(group)]
  BY <1>1, <1>2, ReadOfOneChanged DEF ids, count
<1>10. /\ i + 1 \in 1 .. Len(GroupsRead)
       /\ GroupsRead[i + 1].id = g /\ GroupsRead[i + 1].cardIds = read
  BY <1>1, ReadOfArrays DEF TypeOK, Live, read
<1>11. ASSUME NEW k \in 1 .. (i + 1) - 1, GroupsRead[k].id = g
       PROVE  ~Promised!Holds(k, c)
  <2>1. k - 1 \in Live /\ k - 1 \in 0 .. i - 1 /\ (k - 1) + 1 = k
    BY <1>1 DEF TypeOK, Live
  <2>2. groups[k - 1].id = g
    BY <1>11, <2>1, ReadOfArrays
  <2> QED BY <1>1, <2>1, <2>2, SameHolds
<1>12. /\ j + 1 \in 1 .. Len(read)
       /\ read[j + 1] = c
       /\ \A k \in 1 .. (j + 1) - 1 : read[k] # c
  BY <1>2, <1>3, <1>4
<1>13. GroupRead(group) =
         [id |-> g, cardIds |-> Promised!RemoveAt(GroupsRead[i + 1].cardIds, j + 1)]
  BY <1>1, <1>7, <1>10 DEF RemoveAt, Promised!RemoveAt
<1> HIDE DEF group
<1> QED BY <1>8, <1>10, <1>11, <1>12, <1>13 DEF Promised!RemoveCardFromGroup

LEMMA RefineRemoveGroup ==
  ASSUME TypeOK, TypeOK', NEW g \in GroupIds, RemoveGroup(g)
  PROVE  Promised!RemoveGroup(g)
<1>1. PICK i \in Live :
        /\ IsFirst(i, g)
        /\ groups' = Shifted(groups, i, groupCount)
        /\ groupCount' = groupCount - 1
  BY DEF RemoveGroup
<1>2. groupCount \in 1 .. MaxGroups /\ i \in Nat /\ i < groupCount
  BY <1>1 DEF TypeOK, Live
<1>3. /\ GroupsRead \in Seq(ReadGroup) /\ Len(GroupsRead) = groupCount
      /\ i + 1 \in 1 .. Len(GroupsRead) /\ Promised!IsFirst(i + 1, g)
  BY <1>1, ReadOfArrays, SameFirst
<1>4. /\ RemoveAt(GroupsRead, i + 1) \in Seq(ReadGroup)
      /\ Len(RemoveAt(GroupsRead, i + 1)) = groupCount - 1
      /\ \A k \in 1 .. groupCount - 1 : RemoveAt(GroupsRead, i + 1)[k] =
           IF k < i + 1 THEN GroupsRead[k] ELSE GroupsRead[k + 1]
  BY <1>3, RemoveAtShifts
<1>5. ASSUME NEW k \in 1 .. groupCount - 1
      PROVE  GroupRead(groups'[k - 1]) = RemoveAt(GroupsRead, i + 1)[k]
  <2>1. /\ k \in 0 .. MaxGroups - 1 /\ k - 1 \in 0 .. MaxGroups - 1
        /\ k \in 1 .. groupCount /\ k + 1 \in 1 .. groupCount /\ (k + 1) - 1 = k
    BY <1>2
  <2>2. groups'[k - 1] = IF i <= k - 1 THEN groups[k] ELSE groups[k - 1]
    BY <1>1, <1>2, <2>1 DEF Shifted, TypeOK, GroupSlots
  <2>3. /\ GroupsRead[k] = GroupRead(groups[k - 1])
        /\ GroupsRead[k + 1] = GroupRead(groups[k])
    BY <2>1 DEF GroupsRead
  <2> QED BY <1>2, <1>4, <2>1, <2>2, <2>3
<1>6. /\ GroupsRead' \in Seq(ReadGroup) /\ Len(GroupsRead') = groupCount - 1
      /\ \A k \in 1 .. groupCount - 1 : GroupsRead'[k] = GroupRead(groups'[k - 1])
  <2>1. /\ groupCount - 1 \in Nat
        /\ \A k \in 1 .. groupCount - 1 : GroupRead(groups'[k - 1]) \in ReadGroup
    <3>1. groupCount - 1 \in Nat
      BY <1>2
    <3>2. \A k \in 1 .. groupCount - 1 : RemoveAt(GroupsRead, i + 1)[k] \in ReadGroup
      BY <1>4, <3>1
    <3>3. ASSUME NEW k \in 1 .. groupCount - 1
          PROVE  GroupRead(groups'[k - 1]) \in ReadGroup
      BY <1>5, <3>2, Zenon
    <3> QED BY <3>1, <3>3
  <2>2. GroupsRead' = [k \in 1 .. groupCount - 1 |-> GroupRead(groups'[k - 1])]
    BY <1>1 DEF GroupsRead
  <2> QED BY <2>1, <2>2
<1>7. GroupsRead' = RemoveAt(GroupsRead, i + 1)
  BY <1>4, <1>5, <1>6, SeqEqual
<1> QED BY <1>3, <1>7 DEF Promised!RemoveGroup, RemoveAt, Promised!RemoveAt

LEMMA RefineStep ==
  ASSUME TypeOK, TypeOK', [Next]_vars
  PROVE  [Promised!Next]_GroupsRead
<1>1. ASSUME NEW g \in GroupIds, AddGroup(g) PROVE Promised!Next
  BY <1>1, RefineAddGroup DEF Promised!Next
<1>2. ASSUME NEW g \in GroupIds, RemoveGroup(g) PROVE Promised!Next
  BY <1>2, RefineRemoveGroup DEF Promised!Next
<1>3. ASSUME NEW g \in GroupIds, NEW c \in CardIds, AddCardToGroup(g, c)
      PROVE  Promised!Next
  BY <1>3, RefineAddCard DEF Promised!Next
<1>4. ASSUME NEW g \in GroupIds, NEW c \in CardIds, RemoveCardFromGroup(g, c)
      PROVE  Promised!Next
  BY <1>4, RefineRemoveCard DEF Promised!Next
<1>5. CASE UNCHANGED vars
  BY <1>5 DEF vars, GroupsRead
<1> QED BY <1>1, <1>2, <1>3, <1>4, <1>5 DEF Next

\* The group methods on the arrays implement the list of groups, whatever the
\* sizes of the arrays: shifting a shared array down is removing from the list,
\* and what pages read never shows a cell past a count.
THEOREM GroupsImplementList == Spec => ImplementsGroupList
<1>1. Init => Promised!Init
  BY RefineInit
<1>2. TypeOK /\ TypeOK' /\ [Next]_vars => [Promised!Next]_GroupsRead
  BY RefineStep
<1>3. Spec => []TypeOK
  BY GroupsTypeCorrect
<1> QED BY <1>1, <1>2, <1>3, PTL DEF Spec, ImplementsGroupList, Promised!Spec
=============================================================================
