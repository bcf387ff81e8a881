--------------------------- MODULE SpeakerVolume ---------------------------
(***************************************************************************)
(* Volumes, as the listener sees and changes them: the volume paths of     *)
(* src/app/controller.cpp between the buttons, the command queue, the      *)
(* network worker and the answers that come back later.                    *)
(*                                                                         *)
(* The remote keeps three copies of a volume, all of them possibly stale:  *)
(* the last playback snapshot (the group's volume), the cards of the       *)
(* Speaker Volumes screen, and the number its keys count from.  A key is   *)
(* optimistic: it changes the copies at once and sends a request.          *)
(*                                                                         *)
(* The groups do not change here (GroupSelection.tla) and the household    *)
(* stays reachable (Connection.tla), but a request may fail.  Mute travels *)
(* with the volume in every command and answer and is left out.            *)
(***************************************************************************)
EXTENDS Queues, FiniteSets

CONSTANTS
  Rooms, Groups,
  Members,         \* the rooms of each group, in the order of the topology
  Coordinator,     \* the coordinator of each group
  Relative,        \* the groups whose coordinator has GroupRenderingControl
  Mean(_, _),      \* external: the volume Sonos has of a group, from its rooms'
  FirstGroup,      \* the group selected at the beginning
  MaxVolume,       \* 100 in the code
  Step,            \* settings_.volume_step
  Loudness,        \* the rooms' volumes at the beginning
  Capacity,        \* of commands_, 32 in the code
  ResultCapacity,  \* of results_, 64 in the code
  PollBelow,       \* commands_.size() under which the timer polls, 4
  MaxEvents,       \* bound of the model: failures and changes by others
  MaxActs          \* bound of the model: buttons and events together

Levels == 0..MaxVolume
Unknown == -1
MembersOf(g) == {Members[g][i] : i \in DOMAIN Members[g]}

ASSUME GroupsAreDisjoint ==
  /\ FirstGroup \in Groups /\ Relative \subseteq Groups
  /\ \A g \in Groups : /\ Members[g] \in Seq(Rooms)
                       /\ Coordinator[g] \in MembersOf(g)
  /\ \A g, h \in Groups : g # h => MembersOf(g) \cap MembersOf(h) = {}
ASSUME LoudnessIsLevel == Loudness \in [Rooms -> Levels]
ASSUME MeanIsLevel ==
  \A volumes \in [Rooms -> Levels], g \in Groups : Mean(volumes, g) \in Levels
ASSUME NumbersAreNat ==
  /\ {MaxVolume, Step, Capacity, ResultCapacity, PollBelow, MaxEvents, MaxActs}
       \subseteq Nat
  /\ Capacity > 1

VARIABLES
  actual,       \* the speakers' volumes
  group,        \* view_.active_group_id
  room,         \* view_.active_room_uuid
  groupTarget,  \* view_.group_volume_target
  shown,        \* view_.speaker_volume, which the keys count from
  snapshot,     \* volume part of view_.playback, and the group it is of
  known,        \* speaker_volumes_, the cards
  feedback,     \* volume_feedback_until_ms_ is not over
  screen,       \* view_.screen: NowPlaying or Speakers
  commands,     \* commands_
  results,      \* results_
  asked,        \* history: volume each room was last asked to have
  presses, events  \* bounds of the model

view == <<group, room, groupTarget, shown, snapshot, known, feedback, screen>>
vars == <<actual, view, commands, results, asked, presses, events>>

CommandTypes ==
  {"Poll", "Topology", "Get", "Volume", "Adjust", "Sync", "Mute"}

\* Volume, Get and Mute go to a speaker, the others to a coordinator; all but
\* Adjust, whose value is a difference, have a volume or 0.
Commands ==
  {c \in [type : CommandTypes, to : Rooms \cup Groups, value : Int] :
     /\ c.to \in IF c.type \in {"Get", "Volume", "Mute"} THEN Rooms ELSE Groups
     /\ c.type # "Adjust" => c.value \in Levels}
Answers ==
  {a \in [type : CommandTypes, from : Rooms \cup Groups, success : BOOLEAN,
          value : Levels, relative : BOOLEAN] :
     a.from \in IF a.type \in {"Get", "Volume", "Mute"} THEN Rooms ELSE Groups}

TypeOK ==
  /\ actual \in [Rooms -> Levels]
  /\ group \in Groups /\ room \in MembersOf(group) /\ groupTarget \in BOOLEAN
  /\ shown \in Levels \cup {Unknown}
  /\ snapshot \in [group : Groups, volume : Levels, relative : BOOLEAN,
                   received : BOOLEAN]
  /\ known \in [Rooms -> Levels \cup {Unknown}]
  /\ feedback \in BOOLEAN
  /\ screen \in {"NowPlaying", "Speakers"}
  /\ commands \in Seq(Commands) /\ Len(commands) <= Capacity
  /\ results \in Seq(Answers) /\ Len(results) <= ResultCapacity
  /\ asked \in [Rooms -> Levels \cup {Unknown}]
  /\ presses \in 0..MaxActs /\ events \in 0..MaxEvents
-----------------------------------------------------------------------------
(* Requests of the SDL thread *)

\* The player or the coordinator a command goes to, and its value.
Command(type, to, value) == [type |-> type, to |-> to, value |-> value]

Poll(g) == <<Command("Poll", g, 0)>>

\* request_group_speaker_volumes()
Reads(g) ==
  [i \in DOMAIN Members[g] |-> Command("Get", Members[g][i], 0)]

\* One enqueue() after the other, each refused when the queue is full.
Accepted(queue, list) ==
  LET space == Capacity - Len(queue)
  IN queue \o SubSeq(list, 1, IF space < Len(list) THEN space ELSE Len(list))
Send(list) == commands' = Accepted(commands, list)

\* Faulty variant for the sensitivity checks: enqueue forgets the player.
PendingOfAnyRoom(r) == {i \in DOMAIN commands : commands[i].type = "Volume"}

\* The queued request that a newer one for the same speaker replaces.
Pending(r) ==
  {i \in DOMAIN commands : commands[i].type = "Volume" /\ commands[i].to = r}

\* A Sync queued after the request that is about to be replaced undoes the
\* newer request.
UndoneBySync(r) ==
  \E i \in Pending(r) : \E j \in DOMAIN commands :
    i < j /\ commands[j].type = "Sync"

SendVolume(r, volume) ==
  IF CanReplaceLatest(commands, Capacity, Pending(r))
  THEN /\ commands' = ReplaceLatest(commands, Pending(r),
                                    Command("Volume", r, volume))
       /\ asked' = [asked EXCEPT ![r] = IF UndoneBySync(r) THEN Unknown
                                        ELSE volume]
  ELSE /\ asked' = [asked EXCEPT ![r] = Unknown]
       /\ UNCHANGED commands

\* volume_target(): every member is visible and available here.
Target == IF groupTarget THEN Coordinator[group] ELSE room

\* The group's volume as the latest snapshot has it, whatever group that is of.
SnapshotVolume == IF snapshot.received THEN snapshot.volume ELSE Unknown

\* request_speaker_volume()
RequestSpeakerVolume ==
  IF groupTarget
  THEN IF snapshot.received
       THEN shown' = snapshot.volume /\ UNCHANGED commands
       ELSE Send(Poll(group)) /\ UNCHANGED shown
  ELSE Send(<<Command("Get", room, 0)>>) /\ UNCHANGED shown

\* What Sonos reports for a group, or the coordinator's own volume where the
\* service for groups is missing.
GroupVolume(g) ==
  IF g \in Relative THEN Mean(actual, g) ELSE actual[Coordinator[g]]

\* Faulty variant for the sensitivity checks: no limits.
NoClamp(volume) == volume

\* clamp_volume()
ClampVolume(volume) ==
  IF volume < 0 THEN 0 ELSE IF volume > MaxVolume THEN MaxVolume ELSE volume

\* A start, when select_group has asked for the state of the first group.
Started ==
  /\ room = Coordinator[FirstGroup] /\ groupTarget = TRUE /\ shown = Unknown
  /\ snapshot = [group |-> FirstGroup, volume |-> 0, relative |-> FALSE,
                 received |-> FALSE]
  /\ known = [r \in Rooms |-> Unknown] /\ feedback = FALSE
  /\ screen = "NowPlaying"
  /\ commands = Accepted(<<>>, Poll(FirstGroup) \o Reads(FirstGroup))
  /\ asked = [r \in Rooms |-> Unknown]

\* Some time later: everything was read, the coordinator's card was turned down
\* and another card of the group is now in focus.
Adjusting ==
  LET first == Coordinator[FirstGroup]
      lower == ClampVolume(Loudness[first] - Step)
  IN /\ room \in MembersOf(FirstGroup) \ {first}
     /\ groupTarget = FALSE /\ shown = Loudness[room]
     /\ snapshot = [group |-> FirstGroup, volume |-> GroupVolume(FirstGroup),
                    relative |-> FirstGroup \in Relative, received |-> TRUE]
     /\ known = [r \in Rooms |-> IF r = first THEN lower
                                 ELSE IF r \in MembersOf(FirstGroup)
                                 THEN Loudness[r] ELSE Unknown]
     /\ feedback = TRUE /\ screen = "Speakers"
     /\ commands = <<Command("Volume", first, lower), Command("Get", room, 0)>>
     /\ asked = [r \in Rooms |-> IF r = first THEN lower ELSE Unknown]

Init ==
  /\ actual = Loudness /\ group = FirstGroup
  /\ Started \/ Adjusting
  /\ results = <<>> /\ presses = 0 /\ events = 0
-----------------------------------------------------------------------------
(* The buttons *)

Press ==
  /\ presses + events < MaxActs /\ presses' = presses + 1
  /\ UNCHANGED <<actual, results, events>>

\* The number is not known yet: read it, and wait for another press.
ReadFirst ==
  /\ shown = Unknown /\ RequestSpeakerVolume
  /\ UNCHANGED <<group, room, groupTarget, snapshot, known, feedback, screen,
                 asked>>

\* An optimistic change of the target's card, sent as an absolute volume.
SetTarget(volume) ==
  /\ shown' = volume /\ known' = [known EXCEPT ![Target] = volume]
  /\ feedback' = TRUE
  /\ SendVolume(Target, volume)
  /\ UNCHANGED <<group, room, groupTarget, snapshot, screen>>

\* An optimistic change of the group's volume, sent as a difference.
AdjustGroup(volume) ==
  /\ shown' = volume /\ snapshot' = [snapshot EXCEPT !.volume = volume]
  /\ feedback' = TRUE
  /\ Send(<<Command("Adjust", group, volume - shown)>>)
  /\ UNCHANGED <<group, room, groupTarget, known, screen, asked>>

\* Up and Down on Now Playing; nothing to do at either end.
VolumeKey(direction) ==
  /\ Press /\ screen = "NowPlaying"
  /\ \/ ReadFirst
     \/ LET intended == ClampVolume(shown + direction * Step)
        IN /\ shown # Unknown /\ intended # shown
           /\ \/ groupTarget /\ snapshot.relative /\ AdjustGroup(intended)
              \/ ~(groupTarget /\ snapshot.relative) /\ SetTarget(intended)

\* adjust_speaker_card_volume()
CardKey(direction) ==
  /\ Press /\ screen = "Speakers"
  /\ \/ ReadFirst
     \/ shown # Unknown /\ SetTarget(ClampVolume(shown + direction * Step))

\* toggle_speaker_card_mute(): the card is written with the shown volume.
MuteCard ==
  /\ Press /\ screen = "Speakers"
  /\ \/ ReadFirst
     \/ /\ shown # Unknown
        /\ known' = [known EXCEPT ![Target] = shown]
        /\ Send(<<Command("Mute", Target, 0)>>)
        /\ UNCHANGED <<group, room, groupTarget, shown, snapshot, feedback,
                       screen, asked>>

\* sync_speaker_card_volumes(): only cards that were read follow at once.
SyncCards ==
  /\ Press /\ screen = "Speakers"
  /\ \/ ReadFirst
     \/ /\ shown # Unknown /\ Cardinality(MembersOf(group)) > 1
        /\ HasRoom(commands, Capacity)
        /\ Send(<<Command("Sync", group, shown)>>)
        /\ known' = [r \in Rooms |->
                       IF r \in MembersOf(group) /\ known[r] # Unknown
                       THEN shown ELSE known[r]]
        /\ asked' = [r \in Rooms |-> IF r \in MembersOf(group) THEN shown
                                     ELSE asked[r]]
        /\ feedback' = TRUE
        /\ UNCHANGED <<group, room, groupTarget, shown, snapshot, screen>>

\* The card or the speaker becomes the target, after the requests in list.
Focus(r, list) ==
  /\ groupTarget' = FALSE /\ room' = r /\ shown' = known[r]
  /\ Send(list \o <<Command("Get", r, 0)>>)
  /\ UNCHANGED <<group, snapshot, known, feedback, asked>>

\* navigate(Speakers), with the card last selected there.
OpenSpeakers ==
  /\ Press /\ screen # "Speakers" /\ screen' = "Speakers"
  /\ \E r \in MembersOf(group) : Focus(r, Reads(group))

\* Left and Right on the cards; at the ends the same card again.
MoveToCard ==
  /\ Press /\ screen = "Speakers" /\ UNCHANGED screen
  /\ \E r \in MembersOf(group) : Focus(r, <<>>)

\* Previous and next speaker on Now Playing, when mapped to a button.
CycleVolumeTarget ==
  /\ Press /\ screen = "NowPlaying" /\ UNCHANGED screen
  /\ \/ \E r \in MembersOf(group) : /\ groupTarget \/ r # room
                                    /\ Focus(r, <<>>)
     \/ /\ ~groupTarget /\ groupTarget' = TRUE
        /\ shown' = snapshot.volume
        /\ Send(Poll(group))
        /\ UNCHANGED <<group, room, snapshot, known, feedback, asked>>

\* navigate(NowPlaying) and back().
ShowNowPlaying ==
  /\ Press /\ screen' = "NowPlaying"
  /\ groupTarget' = TRUE /\ shown' = SnapshotVolume
  /\ Send(Poll(group))
  /\ UNCHANGED <<group, room, snapshot, known, feedback, asked>>

\* select_group(): the snapshot of another group is not shown.
Select(g) ==
  /\ group' = g /\ groupTarget' = TRUE
  /\ room' \in IF room \in MembersOf(g) THEN {room} ELSE MembersOf(g)
  /\ shown' = IF g = group THEN SnapshotVolume ELSE Unknown
  /\ Send(Poll(g) \o Reads(g))
  /\ UNCHANGED <<snapshot, known, feedback, asked>>

\* Next group, or a row of Rooms.
SelectGroup ==
  /\ Press /\ screen' = "NowPlaying"
  /\ \E g \in Groups : Select(g)

\* The Refresh button.
Refresh ==
  /\ Press
  /\ \/ screen = "Speakers" /\ Send(Reads(group)) /\ UNCHANGED shown
     \/ /\ screen = "NowPlaying"
        /\ shown' = IF groupTarget /\ snapshot.received THEN snapshot.volume
                    ELSE shown
        /\ Send(Poll(group) \o
                IF ~groupTarget THEN <<Command("Get", room, 0)>>
                ELSE IF snapshot.received THEN <<>> ELSE Poll(group))
  /\ UNCHANGED <<group, room, groupTarget, snapshot, known, feedback, screen,
                 asked>>
-----------------------------------------------------------------------------
(* The network worker: a command is taken, done and answered.  In between it *)
(* can no longer be replaced, and nothing else of it shows.                  *)

Taken(type) ==
  /\ commands # <<>> /\ Head(commands).type = type
  /\ commands' = Tail(commands)

\* A full result queue drops the answer.
Reply(success, value, relative) ==
  results' = PushIfRoom(results, ResultCapacity,
    [type |-> Head(commands).type, from |-> Head(commands).to,
     success |-> success, value |-> value, relative |-> relative])

Undisturbed == UNCHANGED <<view, presses, events>>
Event ==
  /\ events < MaxEvents /\ presses + events < MaxActs
  /\ events' = events + 1 /\ UNCHANGED presses

\* get_playback(): only the transport state must be read.  Without an answer
\* for the volume, 0 and "no group volume" stay in the snapshot.
PollDone ==
  /\ Taken("Poll")
  /\ LET g == Head(commands).to IN
     \/ Reply(TRUE, GroupVolume(g), g \in Relative) /\ Undisturbed
     \/ Event /\ Reply(TRUE, 0, FALSE) /\ UNCHANGED view
     \/ Event /\ Reply(FALSE, 0, FALSE) /\ UNCHANGED view
  /\ UNCHANGED <<actual, asked>>

\* get_topology()
TopologyDone ==
  /\ Taken("Topology")
  /\ \/ Reply(TRUE, 0, FALSE) /\ Undisturbed
     \/ Event /\ Reply(FALSE, 0, FALSE) /\ UNCHANGED view
  /\ UNCHANGED <<actual, asked>>

\* get_speaker_volume()
GetDone ==
  /\ Taken("Get")
  /\ \/ Reply(TRUE, actual[Head(commands).to], FALSE) /\ Undisturbed
     \/ Event /\ Reply(FALSE, 0, FALSE) /\ UNCHANGED view
  /\ UNCHANGED <<actual, asked>>

\* set_volume(); on an error the speaker may have obeyed or not.
VolumeDone ==
  /\ Taken("Volume")
  /\ LET command == Head(commands)
         obeyed == [actual EXCEPT ![command.to] = command.value]
     IN \/ /\ actual' = obeyed /\ Reply(TRUE, 0, FALSE) /\ Undisturbed
           /\ UNCHANGED asked
        \/ /\ Event /\ actual' \in {actual, obeyed} /\ Reply(FALSE, 0, FALSE)
           /\ asked' = [asked EXCEPT ![command.to] = Unknown]
           /\ UNCHANGED view

\* adjust_group_volume(): Sonos moves every room by the difference, if the
\* coordinator can at all.
AdjustDone ==
  /\ Taken("Adjust")
  /\ LET command == Head(commands)
         rooms == MembersOf(command.to)
         moved == [r \in Rooms |->
                     IF r \in rooms THEN ClampVolume(actual[r] + command.value)
                     ELSE actual[r]]
     IN /\ \/ /\ command.to \in Relative \/ command.value = 0
              /\ actual' = moved /\ Reply(TRUE, 0, FALSE) /\ Undisturbed
           \/ /\ command.to \notin Relative /\ command.value # 0
              /\ actual' = actual /\ Reply(FALSE, 0, FALSE) /\ Undisturbed
           \/ /\ command.to \in Relative /\ command.value # 0
              /\ Event /\ actual' \in {actual, moved} /\ Reply(FALSE, 0, FALSE)
              /\ UNCHANGED view
        /\ asked' = [r \in Rooms |-> IF r \in rooms THEN Unknown ELSE asked[r]]

\* SyncSpeakerVolumes: one speaker after the other, up to the first error.
SyncDone ==
  /\ Taken("Sync")
  /\ LET command == Head(commands)
         list == Members[command.to]
         set(n) == {list[i] : i \in 1..n}
         after(rooms) == [r \in Rooms |-> IF r \in rooms THEN command.value
                                          ELSE actual[r]]
     IN \/ /\ actual' = after(set(Len(list))) /\ Reply(TRUE, 0, FALSE)
           /\ Undisturbed /\ UNCHANGED asked
        \/ /\ Event /\ Reply(FALSE, 0, FALSE) /\ UNCHANGED view
           /\ \E n \in 0..Len(list) : actual' = after(set(n))
           /\ asked' = [r \in Rooms |-> IF r \in set(Len(list)) THEN Unknown
                                        ELSE asked[r]]

MuteDone ==
  /\ Taken("Mute")
  /\ \/ Reply(TRUE, 0, FALSE) /\ Undisturbed
     \/ Event /\ Reply(FALSE, 0, FALSE) /\ UNCHANGED view
  /\ UNCHANGED <<actual, asked>>

Worker ==
  \/ PollDone \/ TopologyDone \/ GetDone
  \/ VolumeDone \/ AdjustDone \/ SyncDone \/ MuteDone
-----------------------------------------------------------------------------
(* apply_result *)

Received(type) ==
  /\ results # <<>> /\ Head(results).type = type
  /\ results' = Tail(results)
  /\ UNCHANGED <<actual, screen, presses, events>>

\* An answer that leaves the selection alone.
Answer(type) ==
  Received(type) /\ UNCHANGED <<group, room, groupTarget, feedback, asked>>

\* A topology answer selects the active group again.
TopologyArrived ==
  /\ Received("Topology")
  /\ IF Head(results).success THEN Select(group)
     ELSE UNCHANGED <<group, room, groupTarget, shown, snapshot, known,
                      feedback, commands, asked>>

\* Faulty variant for the sensitivity checks: a number once shown is kept for
\* ever, not for 1200 ms.
PlaybackArrivedKeepsShown ==
  /\ Answer("Poll") /\ UNCHANGED <<commands, known>>
  /\ LET answer == Head(results)
         kept == groupTarget /\ shown # Unknown
     IN \/ ~answer.success /\ UNCHANGED <<snapshot, shown>>
        \/ /\ answer.success
           /\ snapshot' = [group |-> answer.from,
                           volume |-> IF kept THEN shown ELSE answer.value,
                           relative |-> answer.relative, received |-> TRUE]
           /\ shown' = IF groupTarget /\ ~kept THEN answer.value ELSE shown

\* ResultType::Playback.  Shortly after a key the number on display is taken
\* over into the snapshot instead of the other way round.
PlaybackArrived ==
  /\ Answer("Poll") /\ UNCHANGED <<commands, known>>
  /\ LET answer == Head(results)
         kept == groupTarget /\ feedback /\ shown # Unknown
     IN \/ ~answer.success /\ UNCHANGED <<snapshot, shown>>
        \/ /\ answer.success
           /\ snapshot' = [group |-> answer.from,
                           volume |-> IF kept THEN shown ELSE answer.value,
                           relative |-> answer.relative, received |-> TRUE]
           /\ shown' = IF groupTarget /\ ~kept THEN answer.value ELSE shown

\* Faulty variant for the sensitivity checks: any room's volume is shown.
SpeakerVolumeArrivedForAny ==
  /\ Answer("Get") /\ UNCHANGED <<commands, snapshot>>
  /\ LET answer == Head(results) IN
     \/ ~answer.success /\ UNCHANGED <<known, shown>>
     \/ /\ answer.success
        /\ known' = [known EXCEPT ![answer.from] = answer.value]
        /\ shown' = IF ~groupTarget THEN answer.value ELSE shown

\* ResultType::SpeakerVolume
SpeakerVolumeArrived ==
  /\ Answer("Get") /\ UNCHANGED <<commands, snapshot>>
  /\ LET answer == Head(results) IN
     \/ ~answer.success /\ UNCHANGED <<known, shown>>
     \/ /\ answer.success
        /\ known' = [known EXCEPT ![answer.from] = answer.value]
        /\ shown' = IF ~groupTarget /\ room = answer.from THEN answer.value
                    ELSE shown

\* A quiet success, or a toast.
VolumeAcknowledged ==
  Answer("Volume") /\ UNCHANGED <<commands, snapshot, known, shown>>

\* After a change of the group its volume and its rooms' are read again.
AdjustAcknowledged ==
  /\ Answer("Adjust") /\ Send(Poll(group) \o Reads(group))
  /\ UNCHANGED <<snapshot, known, shown>>

SyncAcknowledged ==
  /\ Answer("Sync")
  /\ Send((IF Head(results).success THEN Poll(group) ELSE <<>>)
            \o Reads(group))
  /\ UNCHANGED <<snapshot, known, shown>>

MuteAcknowledged ==
  /\ Answer("Mute")
  /\ Send(IF Head(results).success THEN Poll(group) ELSE <<>>)
  /\ UNCHANGED <<snapshot, known, shown>>

ApplyResult ==
  \/ PlaybackArrived \/ TopologyArrived \/ SpeakerVolumeArrived
  \/ VolumeAcknowledged \/ AdjustAcknowledged \/ SyncAcknowledged \/ MuteAcknowledged

\* update() drains the results before it looks at the timers.
Drained == results = <<>>

PollTimer ==
  /\ Drained /\ Len(commands) < PollBelow /\ Send(Poll(group))
  /\ UNCHANGED <<actual, view, results, asked, presses, events>>

TopologyTimer ==
  /\ Drained /\ Len(commands) < PollBelow
  /\ Send(<<Command("Topology", group, 0)>>)
  /\ UNCHANGED <<actual, view, results, asked, presses, events>>

\* The 1200 ms in which a key's number wins over a snapshot.
FeedbackEnds ==
  /\ feedback /\ feedback' = FALSE
  /\ UNCHANGED <<actual, group, room, groupTarget, shown, snapshot, known,
                 screen, commands, results, asked, presses, events>>

\* Another controller, or the buttons of the speaker.
ChangeElsewhere ==
  /\ Event
  /\ \E r \in Rooms, volume \in Levels :
       /\ actual' = [actual EXCEPT ![r] = volume]
       /\ asked' = [asked EXCEPT ![r] = Unknown]
  /\ UNCHANGED <<view, commands, results>>
-----------------------------------------------------------------------------
User ==
  \/ \E direction \in {-1, 1} : VolumeKey(direction) \/ CardKey(direction)
  \/ MuteCard \/ SyncCards \/ OpenSpeakers \/ MoveToCard \/ CycleVolumeTarget
  \/ ShowNowPlaying \/ SelectGroup \/ Refresh

Next ==
  \/ User \/ Worker \/ ApplyResult
  \/ PollTimer \/ TopologyTimer \/ FeedbackEnds \/ ChangeElsewhere

Spec == Init /\ [][Next]_vars

\* The worker ends every exchange, update() applies the answers each frame, and
\* 1200 ms pass.  A timer that is due stays due and is looked at in each frame,
\* so the other timer's requests, seconds apart, cannot keep it out for ever.
Fairness ==
  /\ WF_vars(Worker) /\ WF_vars(ApplyResult) /\ WF_vars(FeedbackEnds)
  /\ SF_vars(PollTimer) /\ SF_vars(TopologyTimer)

FairSpec == Spec /\ Fairness
-----------------------------------------------------------------------------
(* Properties *)

\* While a single speaker is the target, the number the keys count from is the
\* one on its card: an answer for another room, a Sync or a mute in between
\* never separates them.
CardShowsTarget == ~groupTarget => shown = known[room]

\* What the listener asked of a room is what it gets: with no request for it
\* left in the queue, the room has the volume of the latest accepted request,
\* whatever was asked of other rooms meanwhile (docs/ARCHITECTURE.md: "rapid
\* changes to one room cannot discard another room's request").  Left out:
\* failed requests, changes by others, and a request that replaced an older
\* one queued before a Sync.
RequestsLand ==
  \A r \in Rooms :
    \/ asked[r] \in {Unknown, actual[r]}
    \/ \E i \in DOMAIN commands :
         \/ commands[i].type = "Volume" /\ commands[i].to = r
         \/ commands[i].type = "Sync" /\ r \in MembersOf(commands[i].to)

\* Once the listener and the others leave the volumes alone, the number that
\* the group's keys count from becomes the group's volume and stays it.
GroupVolumeSettles ==
  <>[](groupTarget => shown = GroupVolume(group))

\* The comment in select_group: "The old playback snapshot belongs to a
\* different group, so never use it as a volume value for the newly selected
\* group."
NoForeignVolume ==
  groupTarget /\ shown # Unknown => snapshot.group = group

\* Nor do wrong cards stay: the periodic topology answers read every speaker of
\* the group again, whatever went wrong before.
CardsSettle ==
  <>[](\A r \in MembersOf(group) : known[r] \in {Unknown, actual[r]})

\* Every number on display ends as what Sonos has.
NumbersSettle == GroupVolumeSettles /\ CardsSettle

\* docs/PROTOCOL.md: "Miyonos then reads the group and every visible member
\* again; the per-speaker screen always reflects the levels Sonos actually
\* applied."  At least when no request is under way.
CardsTrueAtRest ==
  commands = <<>> /\ results = <<>> =>
    \A r \in MembersOf(group) : known[r] \in {Unknown, actual[r]}
=============================================================================
