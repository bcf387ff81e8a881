------------------------ MODULE GroupSelectionProofs ------------------------
(***************************************************************************)
(* Proofs about GroupSelection for every household: any rooms, any groups  *)
(* and any set of topologies that satisfy IsTopology.                      *)
(***************************************************************************)
EXTENDS GroupSelection, TLAPS, FiniteSetTheorems, NaturalsInduction,
        WellFoundedInduction
-----------------------------------------------------------------------------
(* Numbers and rows *)

\* Every non-empty set of naturals has a least element.
LEMMA LeastOf ==
  ASSUME NEW T, T \subseteq Nat, T # {}
  PROVE  \E x \in T : \A y \in T : x <= y
<1>1. PICK x \in T : \A y \in T : ~(<<y, x>> \in OpToRel(<, Nat))
  BY NatLessThanWellFounded, WFMin, Zenon
<1>2. \A y \in T : ~(y < x)
  BY <1>1, Zenon DEF OpToRel
<1> QED
  BY <1>2

\* A clamped row is a natural number.
LEMMA ClampType ==
  ASSUME NEW row \in Int, NEW size \in Nat
  PROVE  Clamp(row, size) \in Nat
BY DEF Clamp

\* The cards of a group can be counted, and so can those above a card.
LEMMA CardsCounted ==
  ASSUME NEW g \in Group
  PROVE  /\ Cardinality(Cards(g)) \in Nat
         /\ \A c \in DOMAIN g.members : RowOf(g, c) \in Nat
<1>1. DOMAIN g.members = 1..Len(g.members) /\ Len(g.members) \in Nat
  BY DEF Group
<1>2. IsFiniteSet(DOMAIN g.members)
  BY <1>1, FS_Interval
<1>3. \A S : S \subseteq DOMAIN g.members => Cardinality(S) \in Nat
  BY <1>2, FS_Subset, FS_CardinalityType
<1>4. Cards(g) \subseteq DOMAIN g.members
  BY DEF Cards
<1>5. ASSUME NEW c \in DOMAIN g.members
      PROVE  RowOf(g, c) \in Nat
  <2>1. {j \in Cards(g) : j < c} \subseteq DOMAIN g.members
    BY <1>4
  <2> QED
    BY <1>3, <2>1 DEF RowOf
<1> QED
  BY <1>3, <1>4, <1>5
-----------------------------------------------------------------------------
(* Topologies *)

\* What the assumption on Households gives for one topology.
LEMMA TopologyFacts ==
  ASSUME NEW t \in Households
  PROVE  /\ t \in Seq(Group) /\ t # <<>> /\ 1 \in DOMAIN t
         /\ DOMAIN t = 1..Len(t) /\ Len(t) \in Nat
         /\ \A i \in DOMAIN t :
              /\ t[i] \in Group /\ t[i].members # <<>>
              /\ t[i].members[1] \in MembersOf(t[i])
              /\ MembersOf(t[i]) \subseteq Rooms
         /\ AllMembers(t) \subseteq Rooms
<1>1. IsTopology(t)
  BY HouseholdsAreTopologies
<1>2. t \in Seq(Group) /\ t # <<>>
  BY <1>1 DEF IsTopology
<1>3. DOMAIN t = 1..Len(t) /\ Len(t) \in Nat /\ 1 \in DOMAIN t
  BY <1>2
<1>4. ASSUME NEW i \in DOMAIN t
      PROVE  /\ t[i] \in Group /\ t[i].members # <<>>
             /\ t[i].members[1] \in MembersOf(t[i])
             /\ MembersOf(t[i]) \subseteq Rooms
  <2>1. t[i] \in Group /\ t[i].members # <<>>
    BY <1>1, <1>2, <1>3 DEF IsTopology
  <2>2. t[i].members \in Seq(Rooms)
    BY <2>1 DEF Group
  <2>3. 1 \in DOMAIN t[i].members
    BY <2>1, <2>2
  <2> QED
    BY <2>1, <2>2, <2>3 DEF MembersOf
<1>5. AllMembers(t) \subseteq Rooms
  BY <1>4 DEF AllMembers
<1> QED
  BY <1>2, <1>3, <1>4, <1>5

\* Group ids and rooms occur once.
LEMMA TopologyUnique ==
  ASSUME NEW t \in Households, NEW i \in DOMAIN t, NEW j \in DOMAIN t
  PROVE  /\ t[i].id = t[j].id => i = j
         /\ \A room : room \in MembersOf(t[i]) /\ room \in MembersOf(t[j])
                        => i = j
<1>1. IsTopology(t)
  BY HouseholdsAreTopologies
<1> QED
  BY <1>1 DEF IsTopology

\* The group the controller takes is one of the answer, and it is a match when
\* there is one.
LEMMA ChosenIsGroup ==
  ASSUME NEW t \in Households
  PROVE  /\ Chosen(t) \in DOMAIN t
         /\ (\E i \in DOMAIN t : Matches(t[i])) => Matches(t[Chosen(t)])
<1> DEFINE M == {i \in DOMAIN t : Matches(t[i])}
<1>1. DOMAIN t = 1..Len(t) /\ Len(t) \in Nat /\ 1 \in DOMAIN t
  BY TopologyFacts
<1>2. CASE M = {}
  BY <1>1, <1>2 DEF Chosen
<1>3. CASE M # {}
  <2>1. M \subseteq Nat
    BY <1>1
  <2>2. PICK i \in M : \A j \in M : i <= j
    BY <1>3, <2>1, LeastOf
  <2>3. i \in DOMAIN t /\ Matches(t[i]) /\ \A j \in 1..(i - 1) : ~Matches(t[j])
    BY <1>1, <2>1, <2>2
  <2>4. \E k \in DOMAIN t :
          Matches(t[k]) /\ \A j \in 1..(k - 1) : ~Matches(t[j])
    BY <2>3
  <2> QED
    BY <1>3, <2>4 DEF Chosen
<1> QED
  BY <1>2, <1>3
-----------------------------------------------------------------------------
(* Types *)

\* The rows a screen can come back with.
LEMMA SizesType ==
  ASSUME TypeOK
  PROVE  RoomsSize \in Nat /\ SpeakersSize \in Nat
<1>1. topology = <<>> \/ topology \in Seq(Group)
  BY TopologyFacts DEF TypeOK
<1>2. RoomsSize \in Nat
  BY <1>1 DEF RoomsSize
<1>3. CASE ActiveIndices = {}
  BY <1>2, <1>3 DEF SpeakersSize
<1>4. CASE ActiveIndices # {}
  <2>1. ActiveIndices \subseteq DOMAIN topology
    BY DEF ActiveIndices
  <2>2. (CHOOSE i \in ActiveIndices : TRUE) \in DOMAIN topology
    BY <1>4, <2>1
  <2>3. topology[CHOOSE i \in ActiveIndices : TRUE] \in Group
    BY <1>1, <2>2
  <2> QED
    BY <1>2, <1>4, <2>3, CardsCounted DEF SpeakersSize
<1> QED
  BY <1>3, <1>4

\* select_group leaves well-typed settings and a room of the group it takes.
LEMMA SelectGroupType ==
  ASSUME TypeOK, NEW t \in Households, NEW i \in DOMAIN t, NEW byUser \in BOOLEAN,
         SelectGroup(t[i], byUser)
  PROVE  /\ activeGroup' \in GroupIds /\ activeGroup' = t[i].id
         /\ activeRoom' \in MembersOf(t[i]) /\ activeRoom' \in Rooms
         /\ groupTarget' = TRUE /\ screen' \in Screens
         /\ lastGroup' = activeGroup' /\ lastRoom' = activeRoom'
         /\ UNCHANGED <<selection, startupMode, startupRoom>>
<1>1. t[i] \in Group /\ t[i].members[1] \in MembersOf(t[i])
      /\ MembersOf(t[i]) \subseteq Rooms
  BY TopologyFacts
<1>2. KeptRoom(t[i]) \in MembersOf(t[i])
  BY <1>1 DEF KeptRoom
<1>3. t[i].id \in GroupIds
  BY <1>1 DEF Group
<1> QED
  BY <1>1, <1>2, <1>3 DEF SelectGroup, Remember, TypeOK, Screens

\* A focused card is a speaker of the active group.
LEMMA FocusCardType ==
  ASSUME TypeOK, NEW row \in Nat, FocusCard(row)
  PROVE  /\ selection' \in Nat
         /\ \/ UNCHANGED <<activeRoom, groupTarget>>
            \/ /\ groupTarget' = FALSE
               /\ \E i \in ActiveIndices : activeRoom' \in MembersOf(topology[i])
         /\ activeRoom' \in Rooms \cup {None} /\ groupTarget' \in BOOLEAN
<1>1. CASE SpeakersSize = 0 /\ selection' = row
           /\ UNCHANGED <<activeRoom, groupTarget>>
  BY <1>1 DEF TypeOK
<1>2. ASSUME NEW i \in ActiveIndices, NEW c \in Cards(topology[i]),
             selection' = RowOf(topology[i], c),
             TargetRoom(topology[i].members[c])
      PROVE  /\ selection' \in Nat /\ groupTarget' = FALSE
             /\ activeRoom' \in MembersOf(topology[i]) /\ activeRoom' \in Rooms
  <2>1. i \in DOMAIN topology /\ c \in DOMAIN topology[i].members
    BY DEF ActiveIndices, Cards
  <2>2. topology \in Households
    BY <2>1 DEF TypeOK
  <2>3. topology[i] \in Group /\ MembersOf(topology[i]) \subseteq Rooms
    BY <2>1, <2>2, TopologyFacts
  <2>4. RowOf(topology[i], c) \in Nat
    BY <2>1, <2>3, CardsCounted
  <2>5. topology[i].members[c] \in MembersOf(topology[i])
    BY <2>1 DEF MembersOf
  <2> QED
    BY <1>2, <2>3, <2>4, <2>5 DEF TargetRoom
<1> QED
  BY <1>1, <1>2 DEF FocusCard

\* The modes follow each other in a ring.
LEMMA StartupModeType ==
  ASSUME TypeOK, NEW direction \in {-1, 1}, AdjustStartupMode(direction)
  PROVE  startupMode' \in Modes /\ startupRoom' \in Rooms \cup {None}
<1> DEFINE order == <<"LastUsed", "SpecificRoom", "AskEveryTime">>
           at == CHOOSE i \in 1..3 : order[i] = startupMode
<1>1. \E i \in 1..3 : order[i] = startupMode
  BY DEF TypeOK, Modes
<1>2. at \in 1..3
  BY <1>1
<1>3. ((at + direction + 2) % 3) + 1 \in 1..3
  <2> HIDE DEF at
  <2>1. at + direction + 2 \in Nat
    BY <1>2
  <2>2. \A n \in Nat : n % 3 \in 0..2
    OBVIOUS
  <2> QED
    BY <2>1, <2>2
<1>4. \A i \in 1..3 : order[i] \in Modes
  BY DEF Modes
<1>5. startupMode' = order[((at + direction + 2) % 3) + 1]
  BY DEF AdjustStartupMode
<1>6. startupMode' \in Modes
  BY <1>3, <1>4, <1>5
<1>7. startupRoom' \in Rooms \cup {None}
  BY DEF AdjustStartupMode, TypeOK
<1> QED
  BY <1>6, <1>7

\* Every step keeps the types.
LEMMA TypeStep ==
  TypeOK /\ [Next]_vars => TypeOK'
<1> SUFFICES ASSUME TypeOK, [Next]_vars PROVE TypeOK'
  OBVIOUS
<1> USE DEF settings, household, choice
<1>1. CASE UNCHANGED vars
  BY <1>1 DEF TypeOK, vars
<1>2. CASE OpenRooms
  <2>1. \A row \in 0..Clamp(RoomsSize, RoomsSize) : row \in Nat
    BY SizesType, ClampType
  <2>2. selection' \in Nat
    BY <1>2, <2>1 DEF OpenRooms
  <2> QED
    BY <1>2, <2>2 DEF OpenRooms, TypeOK, Screens
<1>3. CASE OpenSpeakers
  <2>1. PICK row \in 0..Clamp(SpeakersSize, SpeakersSize) : FocusCard(row)
    BY <1>3 DEF OpenSpeakers
  <2>2. row \in Nat
    BY SizesType, ClampType
  <2> QED
    BY <1>3, <2>1, <2>2, FocusCardType DEF OpenSpeakers, TypeOK, Screens
<1>4. CASE OpenOther
  BY <1>4 DEF OpenOther, TypeOK, Screens
<1>5. CASE Back
  <2>1. \A row \in 0..Clamp(RoomsSize, RoomsSize) : row \in Nat
    BY SizesType, ClampType
  <2>2. screen' \in Screens /\ selection' \in Nat /\ groupTarget' \in BOOLEAN
    <3>1. "NowPlaying" \in Screens
      BY DEF Screens
    <3>2. CASE screen' = "NowPlaying" /\ groupTarget' = TRUE /\ selection' = 0
      BY <3>1, <3>2
    <3>3. CASE /\ screen' \in Screens \ {"NowPlaying", screen}
               /\ selection' \in 0..Clamp(RoomsSize, RoomsSize)
               /\ UNCHANGED groupTarget
      BY <2>1, <3>3 DEF TypeOK
    <3> QED
      BY <1>5, <3>2, <3>3 DEF Back
  <2> QED
    BY <1>5, <2>2 DEF Back, TypeOK
<1>6. CASE Retry
  BY <1>6 DEF Retry, TypeOK, Screens
<1>7. ASSUME NEW delta \in {-1, 1}, MoveOnRooms(delta)
      PROVE  TypeOK'
  <2>1. selection + delta \in Int /\ RoomsSize \in Nat
    BY SizesType DEF TypeOK
  <2>2. Clamp(selection + delta, RoomsSize) \in Nat
    BY <2>1, ClampType
  <2> QED
    BY <1>7, <2>2 DEF MoveOnRooms, TypeOK
<1>8. ASSUME NEW delta \in {-1, 1}, MoveOnSpeakers(delta)
      PROVE  TypeOK'
  <2>1. Clamp(selection + delta, SpeakersSize) \in Nat
    <3>1. selection + delta \in Int /\ SpeakersSize \in Nat
      BY SizesType DEF TypeOK
    <3> QED
      BY <3>1, ClampType
  <2>2. CASE SpeakersSize = 0
    BY <1>8, <2>2 DEF MoveOnSpeakers, TypeOK
  <2>3. CASE SpeakersSize # 0
    BY <1>8, <2>1, <2>3, FocusCardType DEF MoveOnSpeakers, TypeOK
  <2> QED
    BY <2>2, <2>3
<1>9. ASSUME NEW delta \in {-1, 1}, CycleVolumeTarget(delta)
      PROVE  TypeOK'
  <2>1. /\ activeRoom' \in Rooms \cup {None} /\ lastRoom' \in Rooms \cup {None}
        /\ groupTarget' \in BOOLEAN
    <3>1. ASSUME NEW i \in ActiveIndices, NEW c \in Cards(topology[i])
          PROVE  topology[i].members[c] \in Rooms
      <4>1. i \in DOMAIN topology /\ c \in DOMAIN topology[i].members
        BY DEF ActiveIndices, Cards
      <4>2. topology \in Households
        BY <4>1 DEF TypeOK
      <4> QED
        BY <4>1, <4>2, TopologyFacts DEF MembersOf
    <3> QED
      BY <1>9, <3>1 DEF CycleVolumeTarget, TargetRoom, TypeOK
  <2> QED
    BY <1>9, <2>1 DEF CycleVolumeTarget, TypeOK
<1>10. ASSUME NEW delta \in {-1, 1}, AdjustStartupMode(delta)
       PROVE  TypeOK'
  BY <1>10, StartupModeType DEF AdjustStartupMode, TypeOK
<1>11. CASE ConfirmRoom
  <2>1. topology \in Households /\ selection + 1 \in DOMAIN topology
    BY <1>11 DEF ConfirmRoom, TypeOK
  <2>2. SelectGroup(topology[selection + 1], TRUE)
    BY <1>11 DEF ConfirmRoom
  <2> QED
    BY <1>11, <2>1, <2>2, SelectGroupType DEF ConfirmRoom, TypeOK
<1>12. CASE CycleGroup
  <2>1. PICK i \in ActiveIndices :
          SelectGroup(topology[IF i = Len(topology) THEN 1 ELSE i + 1], TRUE)
    BY <1>12 DEF CycleGroup
  <2>2. i \in DOMAIN topology
    BY DEF ActiveIndices
  <2>3. topology \in Households
    BY <2>2 DEF TypeOK
  <2>4. (IF i = Len(topology) THEN 1 ELSE i + 1) \in DOMAIN topology
    BY <2>2, <2>3, TopologyFacts
  <2> QED
    BY <1>12, <2>1, <2>3, <2>4, SelectGroupType DEF CycleGroup, TypeOK
<1>13. CASE ForgetSystem
  BY <1>13 DEF ForgetSystem, TypeOK, Screens
<1>14. CASE ResetSettings
  BY <1>14 DEF ResetSettings, TypeOK, Screens, Modes
<1>15. ASSUME NEW found \in (SUBSET Rooms) \ {{}}, DiscoveryFound(found)
       PROVE  TypeOK'
  BY <1>15, MaxRefreshesIsNat DEF DiscoveryFound, AskTopology, TypeOK
<1>16. CASE DiscoveryFailed
  BY <1>16 DEF DiscoveryFailed, TypeOK, Screens
<1>17. ASSUME NEW t \in Households, TopologyArrived(t)
       PROVE  TypeOK'
  <2>1. AllMembers(t) \subseteq Rooms
    BY TopologyFacts
  <2>2. /\ topology' \in Households /\ players' \subseteq Rooms
        /\ unavailable' \subseteq players' /\ refreshes' \in 0..MaxRefreshes
    BY <1>17, <2>1, MaxRefreshesIsNat DEF TopologyArrived, TypeOK
  <2>3. Chosen(t) \in DOMAIN t /\ DOMAIN t = 1..Len(t)
    BY ChosenIsGroup, TopologyFacts
  <2>4. CASE /\ screen' = "Rooms" /\ selection' = Chosen(t) - 1
             /\ UNCHANGED <<choice, groupTarget, settings>>
    BY <2>2, <2>3, <2>4 DEF TypeOK, Screens
  <2>5. CASE SelectGroup(t[Chosen(t)], FALSE)
    BY <2>2, <2>3, <2>5, SelectGroupType DEF TypeOK
  <2> QED
    BY <1>17, <2>4, <2>5 DEF TopologyArrived
<1>18. CASE TopologyFailed
  BY <1>18, MaxRefreshesIsNat DEF TopologyFailed, TypeOK, Screens
<1>19. CASE OpenNowPlaying
  BY <1>19 DEF OpenNowPlaying, TypeOK, Screens
<1>20. CASE RefreshTopology
  BY <1>20, MaxRefreshesIsNat DEF RefreshTopology, AskTopology, TypeOK
<1>21. CASE Restart
  BY <1>21, MaxRefreshesIsNat DEF Restart, TypeOK, Screens
<1> QED
  BY <1>1, <1>2, <1>3, <1>4, <1>5, <1>6, <1>7, <1>8, <1>9, <1>10, <1>11, <1>12,
     <1>13, <1>14, <1>15, <1>16, <1>17, <1>18, <1>19, <1>20, <1>21
     DEF Next, Buttons, Results

\* TypeOK holds for every household: rows never become negative and the rooms
\* and groups on display are always names the household has used.
THEOREM TypeCorrect == Spec => []TypeOK
<1>1. Init => TypeOK
  BY MaxRefreshesIsNat DEF Init, TypeOK, Screens, Modes
<1> QED
  BY <1>1, TypeStep, PTL DEF Spec
-----------------------------------------------------------------------------
(* The selected group and room *)

\* Before a group is selected no room is: the first topology finds an empty
\* view.
NoRoomWithoutGroup == activeGroup = None => activeRoom = None

\* The inductive invariant of the selection.
Selection ==
  /\ TypeOK
  /\ ActiveRoomInActiveGroup
  /\ SavedGroupIsCurrent
  /\ NoRoomWithoutGroup

\* An active group of the topology has a name.
LEMMA ActiveHasName ==
  ASSUME TypeOK, ActiveIndices # {}
  PROVE  topology \in Households /\ topology # <<>> /\ activeGroup # None
<1>1. PICK i \in DOMAIN topology : topology[i].id = activeGroup
  BY DEF ActiveIndices
<1>2. topology \in Households
  BY <1>1 DEF TypeOK
<1>3. topology[i] \in Group /\ topology # <<>>
  BY <1>1, <1>2, TopologyFacts
<1> QED
  BY <1>1, <1>2, <1>3, NoneIsNoName DEF Group

\* A room of the active group may become the active room.
LEMMA RoomOfActiveGroup ==
  ASSUME TypeOK, SavedGroupIsCurrent,
         \E i \in ActiveIndices : activeRoom' \in MembersOf(topology[i]),
         UNCHANGED <<topology, activeGroup, lastGroup>>
  PROVE  ActiveRoomInActiveGroup' /\ SavedGroupIsCurrent' /\ NoRoomWithoutGroup'
BY ActiveHasName
   DEF ActiveRoomInActiveGroup, SavedGroupIsCurrent, NoRoomWithoutGroup,
       ActiveIndices

\* So may the group that select_group takes.
LEMMA SelectGroupKeeps ==
  ASSUME TypeOK, NEW t \in Households, NEW i \in DOMAIN t, NEW byUser \in BOOLEAN,
         SelectGroup(t[i], byUser), topology' = t
  PROVE  ActiveRoomInActiveGroup' /\ SavedGroupIsCurrent' /\ NoRoomWithoutGroup'
<1>1. /\ activeGroup' \in GroupIds /\ activeGroup' = t[i].id
      /\ activeRoom' \in MembersOf(t[i]) /\ lastGroup' = activeGroup'
  BY SelectGroupType
<1> QED
  BY <1>1, NoneIsNoName
     DEF ActiveRoomInActiveGroup, SavedGroupIsCurrent, NoRoomWithoutGroup,
         ActiveIndices

\* The three facts survive when neither groups nor choice nor memory change.
LEMMA ChoiceKept ==
  ASSUME Selection, UNCHANGED <<topology, activeGroup, activeRoom, lastGroup>>
  PROVE  ActiveRoomInActiveGroup' /\ SavedGroupIsCurrent' /\ NoRoomWithoutGroup'
BY DEF Selection, ActiveRoomInActiveGroup, SavedGroupIsCurrent,
       NoRoomWithoutGroup, ActiveIndices

\* Every step keeps the selection consistent.
LEMMA SelectionStep ==
  Selection /\ [Next]_vars => Selection'
<1> SUFFICES ASSUME Selection, [Next]_vars
             PROVE  /\ ActiveRoomInActiveGroup' /\ SavedGroupIsCurrent'
                    /\ NoRoomWithoutGroup'
  BY TypeStep DEF Selection
<1> USE DEF settings, household, choice
<1>0. TypeOK
  BY DEF Selection
<1>1. CASE UNCHANGED vars
  BY <1>1, ChoiceKept DEF vars
<1>2. CASE OpenRooms \/ OpenOther \/ Back \/ Retry \/ OpenNowPlaying
  BY <1>2, ChoiceKept DEF OpenRooms, OpenOther, Back, Retry, OpenNowPlaying
<1>3. ASSUME NEW row \in Nat, FocusCard(row),
             UNCHANGED <<topology, activeGroup, lastGroup>>
      PROVE  ActiveRoomInActiveGroup' /\ SavedGroupIsCurrent'
             /\ NoRoomWithoutGroup'
  <2>1. CASE UNCHANGED <<activeRoom, groupTarget>>
    BY <1>3, <2>1, ChoiceKept
  <2>2. CASE \E i \in ActiveIndices : activeRoom' \in MembersOf(topology[i])
    BY <1>0, <1>3, <2>2, RoomOfActiveGroup DEF Selection
  <2> QED
    BY <1>0, <1>3, <2>1, <2>2, FocusCardType
<1>4. CASE OpenSpeakers
  <2>1. \A row \in 0..Clamp(SpeakersSize, SpeakersSize) : row \in Nat
    BY <1>0, SizesType, ClampType
  <2> QED
    BY <1>3, <1>4, <2>1 DEF OpenSpeakers
<1>5. ASSUME NEW delta \in {-1, 1}, MoveOnRooms(delta) \/ MoveOnSpeakers(delta)
      PROVE  ActiveRoomInActiveGroup' /\ SavedGroupIsCurrent'
             /\ NoRoomWithoutGroup'
  <2>1. Clamp(selection + delta, SpeakersSize) \in Nat
    <3>1. selection + delta \in Int /\ SpeakersSize \in Nat
      BY <1>0, SizesType DEF TypeOK
    <3> QED
      BY <3>1, ClampType
  <2>2. CASE MoveOnRooms(delta)
    BY <2>2, ChoiceKept DEF MoveOnRooms
  <2>3. CASE MoveOnSpeakers(delta) /\ SpeakersSize = 0
    BY <2>3, ChoiceKept DEF MoveOnSpeakers
  <2>4. CASE MoveOnSpeakers(delta) /\ SpeakersSize # 0
    BY <1>3, <2>1, <2>4 DEF MoveOnSpeakers
  <2> QED
    BY <1>5, <2>2, <2>3, <2>4
<1>6. ASSUME NEW delta \in {-1, 1}, CycleVolumeTarget(delta)
      PROVE  ActiveRoomInActiveGroup' /\ SavedGroupIsCurrent'
             /\ NoRoomWithoutGroup'
  <2>1. UNCHANGED <<topology, activeGroup, lastGroup>>
    BY <1>6 DEF CycleVolumeTarget
  <2>2. \/ UNCHANGED activeRoom
        \/ \E i \in ActiveIndices : activeRoom' \in MembersOf(topology[i])
    BY <1>6 DEF CycleVolumeTarget, TargetRoom, Cards, MembersOf
  <2> QED
    BY <1>0, <2>1, <2>2, ChoiceKept, RoomOfActiveGroup DEF Selection
<1>7. ASSUME NEW delta \in {-1, 1}, AdjustStartupMode(delta)
      PROVE  ActiveRoomInActiveGroup' /\ SavedGroupIsCurrent'
             /\ NoRoomWithoutGroup'
  BY <1>7, ChoiceKept DEF AdjustStartupMode
<1>8. CASE ConfirmRoom
  <2>1. topology \in Households /\ selection + 1 \in DOMAIN topology
    BY <1>0, <1>8 DEF ConfirmRoom, TypeOK
  <2> QED
    BY <1>0, <1>8, <2>1, SelectGroupKeeps DEF ConfirmRoom
<1>9. CASE CycleGroup
  <2>1. PICK i \in ActiveIndices :
          SelectGroup(topology[IF i = Len(topology) THEN 1 ELSE i + 1], TRUE)
    BY <1>9 DEF CycleGroup
  <2>2. i \in DOMAIN topology /\ topology \in Households
    BY <1>0 DEF ActiveIndices, TypeOK
  <2>3. (IF i = Len(topology) THEN 1 ELSE i + 1) \in DOMAIN topology
    BY <2>2, TopologyFacts
  <2> QED
    BY <1>0, <1>9, <2>1, <2>2, <2>3, SelectGroupKeeps DEF CycleGroup
<1>10. CASE ForgetSystem \/ ResetSettings
  BY <1>10 DEF ForgetSystem, ResetSettings, Selection, ActiveRoomInActiveGroup,
               SavedGroupIsCurrent, NoRoomWithoutGroup, ActiveIndices
<1>11. ASSUME NEW found \in (SUBSET Rooms) \ {{}}, DiscoveryFound(found)
       PROVE  ActiveRoomInActiveGroup' /\ SavedGroupIsCurrent'
              /\ NoRoomWithoutGroup'
  BY <1>11, ChoiceKept DEF DiscoveryFound
<1>12. CASE DiscoveryFailed \/ TopologyFailed \/ RefreshTopology
  BY <1>12, ChoiceKept DEF DiscoveryFailed, TopologyFailed, RefreshTopology
<1>13. ASSUME NEW t \in Households, TopologyArrived(t)
       PROVE  ActiveRoomInActiveGroup' /\ SavedGroupIsCurrent'
              /\ NoRoomWithoutGroup'
  <2>1. Chosen(t) \in DOMAIN t /\ topology' = t
    BY <1>13, ChosenIsGroup DEF TopologyArrived
  <2>2. CASE activeGroup = None /\ UNCHANGED <<choice, settings>>
    BY <2>2 DEF Selection, ActiveRoomInActiveGroup, SavedGroupIsCurrent,
                NoRoomWithoutGroup
  <2>3. CASE SelectGroup(t[Chosen(t)], FALSE)
    BY <1>0, <2>1, <2>3, SelectGroupKeeps
  <2> QED
    BY <1>13, <2>2, <2>3 DEF TopologyArrived
<1>14. CASE Restart
  BY <1>14 DEF Restart, ActiveRoomInActiveGroup, SavedGroupIsCurrent,
               NoRoomWithoutGroup
<1> QED
  BY <1>1, <1>2, <1>4, <1>5, <1>6, <1>7, <1>8, <1>9, <1>10, <1>11, <1>12, <1>13,
     <1>14 DEF Next, Buttons, Results

\* The selection is consistent in every reachable state.
LEMMA SelectionHolds == Spec => []Selection
<1>1. Init => Selection
  BY MaxRefreshesIsNat
     DEF Init, Selection, TypeOK, Screens, Modes, ActiveRoomInActiveGroup,
         SavedGroupIsCurrent, NoRoomWithoutGroup
<1> QED
  BY <1>1, SelectionStep, PTL DEF Spec

\* Volume and mute go to a member of the group on display, in any household
\* and whatever regrouping, discovery or button comes in between.
THEOREM RoomFollowsGroup == Spec => []ActiveRoomInActiveGroup
BY SelectionHolds, PTL DEF Selection

\* What is saved for the next start is the group on display, or nothing.
THEOREM MemoryFollowsGroup == Spec => []SavedGroupIsCurrent
BY SelectionHolds, PTL DEF Selection

\* Group, room and memory agree after every step, in any household.
THEOREM SelectionStaysAgreed == Spec => []SelectionAgrees
<1>1. Selection => SelectionAgrees
  BY DEF Selection, SelectionAgrees
<1> QED
  BY <1>1, SelectionHolds, PTL
-----------------------------------------------------------------------------
(* What a topology answer does *)

\* When one group is the only match, the controller takes it.
LEMMA OnlyMatchTaken ==
  ASSUME Selection, NEW t \in Households, NEW i \in DOMAIN t, TopologyArrived(t),
         Matches(t[i]), \A j \in DOMAIN t : Matches(t[j]) => j = i,
         startupMode # "AskEveryTime" \/ activeGroup # None
  PROVE  SelectGroup(t[i], FALSE) /\ topology' = t
<1>1. Chosen(t) = i
  BY ChosenIsGroup
<1> QED
  BY <1>1 DEF TopologyArrived

\* The group that still holds the listener's room is the only match.
LEMMA StaysStep ==
  ASSUME Selection, NEW t \in Households, TopologyArrived(t),
         activeGroup # None, startupMode # "SpecificRoom",
         NEW i \in DOMAIN t, activeRoom \in MembersOf(t[i]),
         \/ t[i].id = activeGroup
         \/ \A j \in DOMAIN t : t[j].id # activeGroup
  PROVE  /\ activeRoom' = activeRoom /\ topology' = t
         /\ activeGroup' = t[i].id
<1>1. Matches(t[i])
  BY DEF Matches
<1>2. ASSUME NEW j \in DOMAIN t, Matches(t[j])
      PROVE  j = i
  <2>1. t[j].id # None
    BY TopologyFacts, NoneIsNoName DEF Group
  <2>2. t[j].id = activeGroup \/ activeRoom \in MembersOf(t[j])
    BY <1>2, <2>1 DEF Matches, Selection, SavedGroupIsCurrent
  <2> QED
    BY <2>2, TopologyUnique
<1>3. SelectGroup(t[i], FALSE) /\ topology' = t
  BY <1>1, <1>2, OnlyMatchTaken
<1> QED
  BY <1>3 DEF SelectGroup, KeptRoom

\* Whatever the answer says, the remote follows the listener's room.
THEOREM ListenerIsFollowed == Spec => StaysWithListener
<1> DEFINE A == /\ Refreshed /\ activeGroup # None
                /\ startupMode # "SpecificRoom"
                /\ \E i \in DOMAIN topology' :
                     /\ activeRoom \in MembersOf(topology'[i])
                     /\ \/ topology'[i].id = activeGroup
                        \/ \A j \in DOMAIN topology' :
                             topology'[j].id # activeGroup
                => /\ activeRoom' = activeRoom
                   /\ \E i \in DOMAIN topology' :
                        /\ topology'[i].id = activeGroup'
                        /\ activeRoom \in MembersOf(topology'[i])
<1>1. Selection /\ [Next]_vars => [A]_vars
  <2> SUFFICES ASSUME Selection, Refreshed, activeGroup # None,
                      startupMode # "SpecificRoom",
                      NEW i \in DOMAIN topology',
                      activeRoom \in MembersOf(topology'[i]),
                      \/ topology'[i].id = activeGroup
                      \/ \A j \in DOMAIN topology' :
                           topology'[j].id # activeGroup
               PROVE  /\ activeRoom' = activeRoom
                      /\ topology'[i].id = activeGroup'
    OBVIOUS
  <2>1. PICK t \in Households : TopologyArrived(t)
    BY DEF Refreshed
  <2>2. topology' = t
    BY <2>1 DEF TopologyArrived
  <2> QED
    BY <2>1, <2>2, StaysStep
<1> QED
  BY <1>1, SelectionHolds, PTL DEF Spec, StaysWithListener

\* The remembered group is the only match of a fresh start.
LEMMA ReopensStep ==
  ASSUME Selection, NEW t \in Households, TopologyArrived(t),
         activeGroup = None, startupMode = "LastUsed",
         NEW i \in DOMAIN t, t[i].id = lastGroup, lastRoom \in MembersOf(t[i])
  PROVE  activeGroup' = lastGroup /\ activeRoom' = lastRoom
<1>1. activeRoom = None
  BY DEF Selection, NoRoomWithoutGroup
<1>2. \A j \in DOMAIN t : t[j].id # None /\ activeRoom \notin MembersOf(t[j])
  BY <1>1, TopologyFacts, NoneIsNoName DEF Group
<1>3. \A j \in DOMAIN t : Matches(t[j]) => j = i
  BY <1>2, TopologyUnique DEF Matches
<1>4. Matches(t[i])
  BY DEF Matches
<1>5. SelectGroup(t[i], FALSE)
  BY <1>3, <1>4, OnlyMatchTaken
<1> QED
  BY <1>2, <1>5 DEF SelectGroup, KeptRoom

\* Last Used reopens what was on display at the last exit.
THEOREM LastGroupReopens == Spec => ReopensLastGroup
<1> DEFINE A == /\ Refreshed /\ activeGroup = None /\ startupMode = "LastUsed"
                /\ \E i \in DOMAIN topology' :
                     /\ topology'[i].id = lastGroup
                     /\ lastRoom \in MembersOf(topology'[i])
                => activeGroup' = lastGroup /\ activeRoom' = lastRoom
<1>1. Selection /\ [Next]_vars => [A]_vars
  <2> SUFFICES ASSUME Selection, Refreshed, activeGroup = None,
                      startupMode = "LastUsed",
                      NEW i \in DOMAIN topology', topology'[i].id = lastGroup,
                      lastRoom \in MembersOf(topology'[i])
               PROVE  activeGroup' = lastGroup /\ activeRoom' = lastRoom
    OBVIOUS
  <2>1. PICK t \in Households : TopologyArrived(t)
    BY DEF Refreshed
  <2>2. topology' = t
    BY <2>1 DEF TopologyArrived
  <2> QED
    BY <2>1, <2>2, ReopensStep
<1> QED
  BY <1>1, SelectionHolds, PTL DEF Spec, ReopensLastGroup
-----------------------------------------------------------------------------
(* Who selects, and what Now Playing controls *)

\* With Ask Every Time and nothing selected, an answer selects nothing, and the
\* one button that can is A on a row of Rooms.
LEMMA AskStep ==
  ASSUME Selection, Next, startupMode = "AskEveryTime",
         activeGroup = None, activeGroup' # None
  PROVE  screen = "Rooms" /\ \E i \in ActiveIndices' : i = selection + 1
<1> USE DEF settings, household, choice
<1>0. ActiveIndices = {}
  BY ActiveHasName DEF Selection
<1>1. \A t \in Households : ~TopologyArrived(t)
  <2> SUFFICES ASSUME NEW t \in Households, TopologyArrived(t)
               PROVE  FALSE
    OBVIOUS
  <2> QED
    BY DEF TopologyArrived
<1>2. ~CycleGroup /\ ~OpenSpeakers
  BY <1>0 DEF CycleGroup, OpenSpeakers
<1>3. ConfirmRoom
  BY <1>1, <1>2
     DEF Next, Buttons, Results, OpenRooms, OpenOther, Back, Retry, MoveOnRooms,
         MoveOnSpeakers, CycleVolumeTarget, AdjustStartupMode, ForgetSystem,
         ResetSettings, DiscoveryFound, DiscoveryFailed, TopologyFailed,
         OpenNowPlaying, RefreshTopology, Restart
<1>4. /\ screen = "Rooms" /\ selection + 1 \in DOMAIN topology
      /\ activeGroup' = topology[selection + 1].id /\ topology' = topology
  BY <1>3 DEF ConfirmRoom, SelectGroup
<1> QED
  BY <1>4 DEF ActiveIndices

\* Ask Every Time leaves the choice to the listener.
THEOREM ListenerIsAsked == Spec => AskWaitsForListener
<1> DEFINE A == startupMode = "AskEveryTime" /\ activeGroup = None
                  /\ activeGroup' # None
                => screen = "Rooms" /\ \E i \in ActiveIndices' : i = selection + 1
<1>1. Selection /\ [Next]_vars => [A]_vars
  BY AskStep
<1> QED
  BY <1>1, SelectionHolds, PTL DEF Spec, AskWaitsForListener

\* Both startup modes that have a promise keep it, whatever is answered.
THEOREM ModesKeepTheirPromise == Spec => StartupModesHold
BY ListenerIsAsked, LastGroupReopens DEF StartupModesHold

\* Each way to Now Playing selects the group as the volume target.
LEMMA NowPlayingStep ==
  ASSUME Selection, Next, screen # "NowPlaying", screen' = "NowPlaying"
  PROVE  groupTarget'
<1> USE DEF settings, household, choice
<1>1. ASSUME NEW t \in Households, TopologyArrived(t)
      PROVE  groupTarget'
  BY <1>1 DEF TopologyArrived, SelectGroup
<1>2. CASE ConfirmRoom \/ CycleGroup \/ OpenNowPlaying \/ Back
  BY <1>2 DEF ConfirmRoom, CycleGroup, SelectGroup, OpenNowPlaying, Back
<1> QED
  BY <1>1, <1>2
     DEF Next, Buttons, Results, OpenRooms, OpenSpeakers, OpenOther, Retry,
         MoveOnRooms, MoveOnSpeakers, CycleVolumeTarget, AdjustStartupMode,
         ForgetSystem, ResetSettings, DiscoveryFound, DiscoveryFailed,
         TopologyFailed, RefreshTopology, Restart

\* The volume keys of Now Playing start on the group, never on the speaker that
\* Speaker Volumes focused before.
THEOREM NowPlayingIsGroup == Spec => NowPlayingStartsWithGroup
<1>1. Selection /\ [Next]_vars
        => [screen # "NowPlaying" /\ screen' = "NowPlaying" => groupTarget']_vars
  BY NowPlayingStep
<1> QED
  BY <1>1, SelectionHolds, PTL DEF Spec, NowPlayingStartsWithGroup
=============================================================================
