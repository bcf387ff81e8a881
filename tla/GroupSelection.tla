--------------------------- MODULE GroupSelection ---------------------------
(***************************************************************************)
(* Which Sonos group and which speaker the remote controls: the selection  *)
(* part of src/app/controller.cpp.  The household regroups on its own; the *)
(* controller learns of it from topology answers and has to follow the     *)
(* listener's room, keep what the user chose, and remember it for the next *)
(* start.                                                                  *)
(*                                                                         *)
(* A topology is the sequence of visible groups in the order of the        *)
(* answer.  Any zone group state of Households can be in an answer.  The   *)
(* order of commands and results is the subject of Connection.tla: here an *)
(* answer may arrive whenever a request is outstanding.                    *)
(***************************************************************************)
EXTENDS Integers, Sequences, FiniteSets

CONSTANTS
  Rooms,        \* player uuids
  GroupIds,     \* Sonos group ids
  Households,   \* the topologies the household can report
  None,         \* an empty string
  MaxRefreshes  \* bound of the model: topology requests outstanding at once

Group == [id : GroupIds, coordinator : Rooms, members : Seq(Rooms)]

MembersOf(g) == {g.members[i] : i \in DOMAIN g.members}
AllMembers(t) == UNION {MembersOf(t[i]) : i \in DOMAIN t}

\* What parse_topology accepts: at least one group, no group without a visible
\* member, no group id and no room in two groups (the household's promise).
IsTopology(t) ==
  /\ t \in Seq(Group) /\ t # <<>>
  /\ \A i \in DOMAIN t :
       /\ t[i].members # <<>> /\ t[i].coordinator \in MembersOf(t[i])
       /\ \A j, k \in DOMAIN t[i].members :
            t[i].members[j] = t[i].members[k] => j = k
  /\ \A i, j \in DOMAIN t :
       i # j => /\ t[i].id # t[j].id
                /\ MembersOf(t[i]) \cap MembersOf(t[j]) = {}

ASSUME NoneIsNoName == None \notin Rooms /\ None \notin GroupIds
ASSUME HouseholdsAreTopologies == \A t \in Households : IsTopology(t)
ASSUME RoomsFinite == IsFiniteSet(Rooms)
ASSUME MaxRefreshesIsNat == MaxRefreshes \in Nat

Screens == {"Discovery", "Offline", "Rooms", "NowPlaying", "Speakers",
            "Settings", "Other"}

VARIABLES
  topology,     \* view_.topology.groups, <<>> before the first answer
  players,      \* rooms of view_.topology.players
  unavailable,  \* those of players that are marked unavailable
  refreshes,    \* topology answers to come: RefreshTopology, Join, Leave
  activeGroup,  \* view_.active_group_id
  activeRoom,   \* view_.active_room_uuid
  groupTarget,  \* view_.group_volume_target
  screen,       \* view_.screen; "Other" stands for the screens not named here
  selection,    \* view_.selection on the Rooms and Speakers screens
  lastGroup,    \* settings_.last_group_id
  lastRoom,     \* settings_.last_room_uuid
  startupMode,  \* settings_.startup_mode
  startupRoom   \* settings_.startup_room_uuid

settings == <<lastGroup, lastRoom, startupMode, startupRoom>>
household == <<topology, players, unavailable>>
choice == <<activeGroup, activeRoom>>
vars == <<household, refreshes, choice, groupTarget, screen, selection,
          settings>>

Modes == {"LastUsed", "SpecificRoom", "AskEveryTime"}

TypeOK ==
  /\ topology = <<>> \/ topology \in Households
  /\ players \subseteq Rooms
  /\ unavailable \subseteq players
  /\ refreshes \in 0..MaxRefreshes
  /\ activeGroup \in GroupIds \cup {None}
  /\ activeRoom \in Rooms \cup {None}
  /\ groupTarget \in BOOLEAN
  /\ screen \in Screens
  /\ selection \in Nat
  /\ lastGroup \in GroupIds \cup {None}
  /\ lastRoom \in Rooms \cup {None}
  /\ startupMode \in Modes
  /\ startupRoom \in Rooms \cup {None}

\* A first start, without a settings file.
Init ==
  /\ topology = <<>> /\ players = {} /\ unavailable = {} /\ refreshes = 0
  /\ activeGroup = None /\ activeRoom = None /\ groupTarget = TRUE
  /\ screen = "Discovery" /\ selection = 0
  /\ lastGroup = None /\ lastRoom = None
  /\ startupMode = "LastUsed" /\ startupRoom = None
-----------------------------------------------------------------------------
(* Helpers *)

\* active_group(): the groups of the topology with the active id.
ActiveIndices == {i \in DOMAIN topology : topology[i].id = activeGroup}

\* The positions in the member list of the speakers that have a card, and the
\* row of the card of the i-th member.
Cards(g) == {i \in DOMAIN g.members : g.members[i] \in players \ unavailable}
RowOf(g, i) == Cardinality({j \in Cards(g) : j < i})

\* Faulty variant for the sensitivity checks: no lower bound.
ClampAboveOnly(row, size) ==
  IF size = 0 THEN 0 ELSE IF row >= size THEN size - 1 ELSE row

\* move_selection, navigate and focus_speaker_card keep a row inside its list.
Clamp(row, size) ==
  IF size = 0 \/ row < 0 THEN 0 ELSE IF row >= size THEN size - 1 ELSE row

\* list_size() of the two screens whose rows matter here.
RoomsSize == Len(topology)
SpeakersSize ==
  IF ActiveIndices = {} THEN 0
  ELSE Cardinality(Cards(topology[CHOOSE i \in ActiveIndices : TRUE]))

\* request_topology() after a discovery, on the Refresh button or the timer.
AskTopology(n) ==
  refreshes' = IF n < MaxRefreshes THEN n + 1 ELSE n
-----------------------------------------------------------------------------
(* Selecting a group *)

\* Faulty variants for the sensitivity checks: the settings saved before the
\* group is changed, groups matched without the listener's room.
RememberPrevious(g) == lastGroup' = activeGroup /\ lastRoom' = activeRoom'
MatchesWithoutRoom(g) == g.id \in {activeGroup, lastGroup}

\* The room shown for a newly selected group: the one already shown, else the
\* remembered one, else the first member.
KeptRoom(g) ==
  IF activeRoom \in MembersOf(g) THEN activeRoom
  ELSE IF lastRoom \in MembersOf(g) THEN lastRoom
  ELSE g.members[1]

Remember(g) ==
  /\ lastGroup' = g.id
  /\ lastRoom' = activeRoom'

\* select_group(index, opened_by_user)
SelectGroup(g, byUser) ==
  /\ activeGroup' = g.id
  /\ activeRoom' = KeptRoom(g)
  /\ groupTarget' = TRUE
  /\ Remember(g)
  /\ screen' = IF byUser \/ activeGroup # g.id THEN "NowPlaying" ELSE screen
  /\ UNCHANGED <<selection, startupMode, startupRoom>>

\* match_group: what makes the controller take a group of the new topology.
Matches(g) ==
  \/ g.id = activeGroup
  \/ activeRoom \in MembersOf(g)
  \/ startupMode = "SpecificRoom" /\ startupRoom \in MembersOf(g)
  \/ g.id = lastGroup

\* The first match in the order of the answer, else the first group.
Chosen(t) ==
  IF \E i \in DOMAIN t : Matches(t[i])
  THEN CHOOSE i \in DOMAIN t :
         Matches(t[i]) /\ \A j \in 1..(i - 1) : ~Matches(t[j])
  ELSE 1
-----------------------------------------------------------------------------
(* Results of the network worker *)

\* ResultType::Discovery, success: the players are replaced, the groups of the
\* previous topology stay until the topology that is now requested arrives.
DiscoveryFound(found) ==
  /\ players' = found /\ unavailable' = {}
  /\ AskTopology(refreshes)
  /\ UNCHANGED <<topology, choice, groupTarget, screen, selection, settings>>

DiscoveryFailed ==
  /\ screen' = "Offline" /\ selection' = 0
  /\ UNCHANGED <<household, refreshes, choice, groupTarget, settings>>

\* Faulty variant for the sensitivity checks: the startup mode is ignored.
TopologyArrivedAnyMode(t) ==
  /\ refreshes > 0 /\ refreshes' = refreshes - 1
  /\ topology' = t
  /\ players' = AllMembers(t)
  /\ unavailable' \in SUBSET AllMembers(t)
  /\ SelectGroup(t[Chosen(t)], FALSE)

\* ResultType::Topology, success.  get_topology marks any member unavailable
\* whose description it cannot fetch.
TopologyArrived(t) ==
  /\ refreshes > 0 /\ refreshes' = refreshes - 1
  /\ topology' = t
  /\ players' = AllMembers(t)
  /\ unavailable' \in SUBSET AllMembers(t)
  /\ \/ /\ startupMode = "AskEveryTime" /\ activeGroup = None
        /\ screen' = "Rooms" /\ selection' = Chosen(t) - 1
        /\ UNCHANGED <<choice, groupTarget, settings>>
     \/ /\ startupMode # "AskEveryTime" \/ activeGroup # None
        /\ SelectGroup(t[Chosen(t)], FALSE)

\* ResultType::Topology, failure: only a controller without groups goes offline.
TopologyFailed ==
  /\ refreshes > 0 /\ refreshes' = refreshes - 1
  /\ screen' = IF topology = <<>> THEN "Offline" ELSE screen
  /\ UNCHANGED <<household, choice, groupTarget, selection, settings>>

\* The 30 s timer of update() and the Refresh button on Rooms.
RefreshTopology ==
  /\ players # {} /\ refreshes < MaxRefreshes
  /\ AskTopology(refreshes)
  /\ UNCHANGED <<household, choice, groupTarget, screen, selection, settings>>
-----------------------------------------------------------------------------
(* Buttons *)

\* cycle_volume_target's and focus_speaker_card's common effect.
TargetRoom(room) == groupTarget' = FALSE /\ activeRoom' = room

\* focus_speaker_card(): the card at the (clamped) row becomes the target.
FocusCard(row) ==
  \/ /\ SpeakersSize = 0
     /\ selection' = row
     /\ UNCHANGED <<activeRoom, groupTarget>>
  \/ \E i \in ActiveIndices : \E c \in Cards(topology[i]) :
       /\ RowOf(topology[i], c) = Clamp(row, SpeakersSize)
       /\ selection' = RowOf(topology[i], c)
       /\ TargetRoom(topology[i].members[c])

\* Opening the room list: navigate(Rooms) brings back some remembered row.
OpenRooms ==
  /\ screen # "Rooms" /\ screen' = "Rooms"
  /\ \E row \in 0..Clamp(RoomsSize, RoomsSize) : selection' = row
  /\ UNCHANGED <<household, refreshes, choice, groupTarget, settings>>

\* navigate(Speakers) focuses the card at the remembered row.
OpenSpeakers ==
  /\ screen # "Speakers" /\ screen' = "Speakers"
  /\ \E row \in 0..Clamp(SpeakersSize, SpeakersSize) : FocusCard(row)
  /\ UNCHANGED <<household, refreshes, activeGroup, settings>>

\* Settings, the menu, the lists and the other screens.
OpenOther ==
  /\ \E s \in {"Settings", "Other"} : screen # s /\ screen' = s
  /\ UNCHANGED <<household, refreshes, choice, groupTarget, selection, settings>>

\* navigate(NowPlaying) when a started playlist or collection is acknowledged.
OpenNowPlaying ==
  /\ screen # "NowPlaying" /\ screen' = "NowPlaying"
  /\ groupTarget' = TRUE
  /\ UNCHANGED <<household, refreshes, choice, selection, settings>>

\* back(): to Now Playing, or to some screen of the history with its old row.
\* Unlike navigate it focuses no speaker card.
Back ==
  \/ /\ screen' = "NowPlaying" /\ groupTarget' = TRUE /\ selection' = 0
     /\ UNCHANGED <<household, refreshes, choice, settings>>
  \/ /\ screen # "NowPlaying"
     /\ screen' \in Screens \ {"NowPlaying", screen}
     /\ selection' \in 0..Clamp(RoomsSize, RoomsSize)
     /\ UNCHANGED <<household, refreshes, choice, groupTarget, settings>>

MoveOnRooms(delta) ==
  /\ screen = "Rooms"
  /\ selection' = Clamp(selection + delta, RoomsSize)
  /\ UNCHANGED <<household, refreshes, choice, groupTarget, screen, settings>>

MoveOnSpeakers(delta) ==
  /\ screen = "Speakers"
  /\ IF SpeakersSize = 0
     THEN selection' = 0 /\ UNCHANGED <<activeRoom, groupTarget>>
     ELSE FocusCard(Clamp(selection + delta, SpeakersSize))
  /\ UNCHANGED <<household, refreshes, activeGroup, screen, settings>>

\* A on a row of Rooms.
ConfirmRoom ==
  /\ screen = "Rooms" /\ selection + 1 \in DOMAIN topology
  /\ SelectGroup(topology[selection + 1], TRUE)
  /\ UNCHANGED <<household, refreshes>>

\* Now Playing ignores every button without a coordinator.
HasCoordinator ==
  \E i \in ActiveIndices : topology[i].coordinator \in players

\* R1: the group after the active one in the list.
CycleGroup ==
  /\ screen = "NowPlaying" /\ HasCoordinator /\ Len(topology) > 1
  /\ \E i \in ActiveIndices :
       SelectGroup(topology[IF i = Len(topology) THEN 1 ELSE i + 1], TRUE)
  /\ UNCHANGED <<household, refreshes>>

\* Previous/next speaker, when a button is mapped to it: the group and then
\* each card in turn.
CycleVolumeTarget(direction) ==
  /\ screen = "NowPlaying" /\ HasCoordinator
  /\ \E i \in ActiveIndices :
       LET g == topology[i]
           count == Cardinality(Cards(g)) + 1
           shown == {c \in Cards(g) : ~groupTarget /\ g.members[c] = activeRoom}
           current == IF shown = {} THEN 0
                      ELSE RowOf(g, CHOOSE c \in shown : TRUE) + 1
           following == (current + direction + count) % count
       IN \/ /\ count > 1 /\ following = 0
             /\ groupTarget' = TRUE
             /\ UNCHANGED <<activeRoom, lastRoom>>
          \/ \E c \in Cards(g) :
               /\ following = RowOf(g, c) + 1
               /\ TargetRoom(g.members[c])
               /\ lastRoom' = g.members[c]
  /\ UNCHANGED <<household, refreshes, activeGroup, screen, selection,
                 lastGroup, startupMode, startupRoom>>

\* Settings, first row.
AdjustStartupMode(direction) ==
  /\ screen = "Settings"
  /\ LET order == <<"LastUsed", "SpecificRoom", "AskEveryTime">>
         at == CHOOSE i \in 1..3 : order[i] = startupMode
     IN startupMode' = order[((at + direction + 2) % 3) + 1]
  /\ startupRoom' = IF startupMode' = "SpecificRoom" THEN activeRoom
                    ELSE startupRoom
  /\ UNCHANGED <<household, refreshes, choice, groupTarget, screen, selection,
                 lastGroup, lastRoom>>

\* The confirmation dialog's Forget Sonos System: the topology is dropped, the
\* active group and room of the view are not.
ForgetSystem ==
  /\ screen = "Other" /\ screen' = "Discovery"
  /\ topology' = <<>> /\ players' = {} /\ unavailable' = {}
  /\ lastGroup' = None /\ lastRoom' = None
  /\ UNCHANGED <<refreshes, choice, groupTarget, selection, startupMode,
                 startupRoom>>

\* Reset All Settings, back to the screen before the dialog.
ResetSettings ==
  /\ screen = "Other" /\ screen' = "Settings"
  /\ lastGroup' = None /\ lastRoom' = None
  /\ startupMode' = "LastUsed" /\ startupRoom' = None
  /\ UNCHANGED <<household, refreshes, choice, groupTarget, selection>>

\* Retry on the Offline screen shows Discovery again.
Retry ==
  /\ screen = "Offline" /\ screen' = "Discovery"
  /\ UNCHANGED <<household, refreshes, choice, groupTarget, selection, settings>>

\* Exit and a later start: the settings file is what is left.
Restart ==
  /\ topology' = <<>> /\ players' = {} /\ unavailable' = {}
  /\ refreshes' = 0
  /\ activeGroup' = None /\ activeRoom' = None /\ groupTarget' = TRUE
  /\ screen' = "Discovery" /\ selection' = 0
  /\ UNCHANGED settings
-----------------------------------------------------------------------------
Buttons ==
  \/ OpenRooms \/ OpenSpeakers \/ OpenOther \/ Back \/ Retry
  \/ \E delta \in {-1, 1} :
       MoveOnRooms(delta) \/ MoveOnSpeakers(delta) \/ CycleVolumeTarget(delta)
         \/ AdjustStartupMode(delta)
  \/ ConfirmRoom \/ CycleGroup \/ ForgetSystem \/ ResetSettings

Results ==
  \/ \E found \in (SUBSET Rooms) \ {{}} : DiscoveryFound(found)
  \/ DiscoveryFailed
  \/ \E t \in Households : TopologyArrived(t)
  \/ TopologyFailed
  \/ OpenNowPlaying

Next == Buttons \/ Results \/ RefreshTopology \/ Restart

Spec == Init /\ [][Next]_vars
-----------------------------------------------------------------------------
(* Properties *)

\* The selected room is always a member of the selected group, so volume and
\* mute never go to a speaker of a group the remote does not show, whatever
\* regrouping happened meanwhile (volume_target's fallback is not needed).
ActiveRoomInActiveGroup ==
  topology # <<>> /\ activeGroup # None =>
    \E i \in ActiveIndices : activeRoom \in MembersOf(topology[i])

\* The settings never remember another group than the one on display: a restart
\* cannot reopen a group the listener has left (select_group, Forget, Reset).
SavedGroupIsCurrent ==
  activeGroup # None => lastGroup \in {activeGroup, None}

\* Group, room and memory change in different lines of select_group, Forget and
\* Reset, and agree after each of them.
SelectionAgrees == ActiveRoomInActiveGroup /\ SavedGroupIsCurrent

\* A topology answer reached the controller in this step.
Refreshed == \E t \in Households : TopologyArrived(t)

\* When the household regroups, the remote stays with the listener's room as
\* long as the old group still holds that room or no longer exists.
StaysWithListener ==
  [][ /\ Refreshed /\ activeGroup # None /\ startupMode # "SpecificRoom"
      /\ \E i \in DOMAIN topology' :
           /\ activeRoom \in MembersOf(topology'[i])
           /\ \/ topology'[i].id = activeGroup
              \/ \A j \in DOMAIN topology' : topology'[j].id # activeGroup
      => /\ activeRoom' = activeRoom
         /\ \E i \in DOMAIN topology' : /\ topology'[i].id = activeGroup'
                                        /\ activeRoom \in MembersOf(topology'[i])
    ]_vars

\* Ask Every Time: until the listener has confirmed a row of Rooms no group is
\* taken on their behalf, however many answers arrive.
AskWaitsForListener ==
  [][ startupMode = "AskEveryTime" /\ activeGroup = None /\ activeGroup' # None
      => screen = "Rooms" /\ \E i \in ActiveIndices' : i = selection + 1 ]_vars

\* Last Used: the first answer after a start reopens the remembered group and
\* room if they still belong together.
ReopensLastGroup ==
  [][ /\ Refreshed /\ activeGroup = None /\ startupMode = "LastUsed"
      /\ \E i \in DOMAIN topology' :
           /\ topology'[i].id = lastGroup
           /\ lastRoom \in MembersOf(topology'[i])
      => activeGroup' = lastGroup /\ activeRoom' = lastRoom ]_vars

\* What the startup modes promise, against answers that come again and again.
StartupModesHold == AskWaitsForListener /\ ReopensLastGroup

\* Every way to Now Playing gives its volume keys the group, never the single
\* speaker that was focused before (docs/CONTROLS.md: "Now Playing always
\* adjusts the active group's volume").
NowPlayingStartsWithGroup ==
  [][ screen # "NowPlaying" /\ screen' = "NowPlaying" => groupTarget' ]_vars

\* docs/PROTOCOL.md: "A routine refresh of the same group preserves this
\* context; selecting another group or starting a different source clears it."
\* An answer that changes nothing must not select another group.
RoutineRefreshKeepsGroup ==
  [][ Refreshed /\ topology' = topology /\ activeGroup # None
      => activeGroup' = activeGroup ]_vars

\* docs/CONTROLS.md, Speaker Volumes: "Use Left/Right to choose a speaker,
\* Up/Down to change that speaker's volume": the card under the selection is
\* the volume target.
CardIsTarget ==
  \E i \in ActiveIndices : \E c \in Cards(topology[i]) :
    /\ RowOf(topology[i], c) = selection
    /\ ~groupTarget /\ activeRoom = topology[i].members[c]

\* An answer that changes nothing leaves the chosen card chosen.
RefreshKeepsCard ==
  [][ /\ Refreshed /\ topology' = topology
      /\ screen = "Speakers" /\ screen' = "Speakers" /\ CardIsTarget
      => CardIsTarget' ]_vars
=============================================================================
