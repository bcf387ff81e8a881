-------------------------- MODULE PlaylistContext --------------------------
(***************************************************************************)
(* The playlist label of Now Playing.  Sonos loads a playlist favorite     *)
(* into the group's generic queue and forgets its name, so the remote      *)
(* keeps it: src/app/controller.cpp shows the name as soon as the listener *)
(* starts the playlist, takes it back when the start fails, and remembers  *)
(* it across restarts with a fingerprint of the queue.                     *)
(*                                                                         *)
(* A playlist is its title and its object id at once, and the fingerprint  *)
(* of a queue is its content.  Left out: covers, which follow the label;   *)
(* a live playlist that is reported by id only, which the favorites list   *)
(* never resolves; connection and topology (Connection.tla).               *)
(***************************************************************************)
EXTENDS Queues

CONSTANTS
  Groups, Playlists,
  Others,          \* the content of a queue that is no playlist
  Empty,           \* an empty queue, and its empty fingerprint
  None,            \* an empty string
  FirstGroup,      \* the group selected at the beginning
  Capacity,        \* of commands_, 32 in the code
  ResultCapacity,  \* of results_, 64 in the code
  PollBelow,       \* commands_.size() under which the timer polls, 4
  MaxEvents,       \* bound of the model: failures and changes by others
  MaxActs          \* bound of the model: buttons and events together

ASSUME NamesDiffer ==
  /\ FirstGroup \in Groups
  /\ Others # Empty /\ Others # None /\ Empty # None
  /\ {Others, Empty, None} \cap Playlists = {}
ASSUME NumbersAreNat ==
  /\ {Capacity, ResultCapacity, PollBelow, MaxEvents, MaxActs} \subseteq Nat
  /\ Capacity > 0

VARIABLES
  queue,       \* content of each group's queue
  source,      \* what each group plays: its Queue, a queue that Sonos Named
               \* after its playlist, or a Direct source (radio, collection)
  group,       \* view_.active_group_id
  label,       \* view_.playback.playlist_title
  selected,    \* selected_playlist_title_ and _object_id_
  pending,     \* pending_playlist_title_ and _object_id_
  before,      \* playlist_title_before_start_
  acked,       \* playlist_start_acknowledged_
  saved,       \* settings_.playlist_context_*, the group and fingerprint too
  validating,  \* playlist_context_validation_pending_
  recent,      \* the last validation began less than 15 s ago
  commands,    \* commands_
  results,     \* results_
  lost,        \* history: a full queue lost a validation or an answer
  seen, played,    \* history: playlists started in each group, played by it
  presses, events  \* bounds of the model

start == <<pending, before, acked>>
memory == <<saved, validating, recent>>
view == <<group, label, selected, start, memory>>
household == <<queue, source, played>>
bounds == <<presses, events>>
vars == <<household, view, commands, results, lost, seen, bounds>>

Contents == Playlists \cup {Others, Empty}
Sources == {"Queue", "Named", "Direct"}
Forgotten == [group |-> None, title |-> None, fingerprint |-> Empty]
Starts == {"Start", "Collection", "PlayQueue"}
CommandTypes == Starts \cup {"Direct", "Poll", "Capture", "Validate"}

TypeOK ==
  /\ queue \in [Groups -> Contents] /\ source \in [Groups -> Sources]
  /\ group \in Groups
  /\ {label, selected, pending, before} \subseteq Playlists \cup {None}
  /\ acked \in BOOLEAN
  /\ saved = Forgotten \/ saved \in [group : Groups, title : Playlists,
                                     fingerprint : Contents \ {Empty}]
  /\ validating \in BOOLEAN /\ recent \in BOOLEAN /\ lost \in BOOLEAN
  /\ Len(commands) <= Capacity /\ Len(results) <= ResultCapacity
  /\ \A i \in DOMAIN commands : commands[i].type \in CommandTypes
  /\ seen \in [Groups -> SUBSET Playlists]
  /\ played \in [Groups -> SUBSET Playlists]
  /\ presses \in 0..MaxActs /\ events \in 0..MaxEvents
-----------------------------------------------------------------------------
(* Requests of the SDL thread *)

Command(type, item) == [type |-> type, to |-> group, item |-> item]
Poll(g) == [type |-> "Poll", to |-> g, item |-> None]

\* One enqueue() after the other, each refused when the queue is full.
Sent(list) ==
  LET space == Capacity - Len(commands)
  IN commands \o SubSeq(list, 1, IF space < Len(list) THEN space ELSE Len(list))
Send(list) == commands' = Sent(list)

\* A queue that is remembered and plays.
Remembers(g, playlist) ==
  saved = [group |-> g, title |-> playlist, fingerprint |-> playlist]

\* A start, without memory or with a playlist playing that is remembered; its
\* queue may have been changed elsewhere since the last answer.
Init ==
  /\ group = FirstGroup /\ source = [g \in Groups |-> "Queue"]
  /\ pending = None /\ before = None /\ acked = FALSE
  /\ validating = FALSE /\ recent = FALSE
  /\ \/ /\ queue = [g \in Groups |-> Others]
        /\ saved = Forgotten /\ label = None /\ selected = None
        /\ seen = [g \in Groups |-> {}]
     \/ \E playlist \in Playlists, content \in Contents :
          /\ queue = [g \in Groups |-> IF g = FirstGroup THEN content
                                       ELSE Others]
          /\ Remembers(FirstGroup, playlist)
          /\ label = playlist /\ selected = playlist
          /\ seen = [g \in Groups |-> IF g = FirstGroup THEN {playlist} ELSE {}]
  /\ played = seen
  /\ commands = <<Poll(FirstGroup)>> /\ results = <<>>
  /\ lost = FALSE /\ presses = 0 /\ events = 0
-----------------------------------------------------------------------------
(* The buttons *)

Press ==
  /\ presses + events < MaxActs /\ presses' = presses + 1
  /\ UNCHANGED <<household, results, lost, events>>

\* A on a playlist favorite: Now Playing shows its name at once.  The polls are
\* navigate's and activate's.
StartPlaylist ==
  /\ Press /\ HasRoom(commands, Capacity)
  /\ \E playlist \in Playlists :
       /\ Send(<<Command("Start", playlist), Poll(group), Poll(group)>>)
       /\ pending' = playlist /\ before' = label /\ acked' = FALSE
       /\ selected' = playlist /\ label' = playlist
       /\ seen' = [seen EXCEPT ![group] = @ \cup {playlist}]
  /\ UNCHANGED <<group, memory>>

\* A on a station, on a collection, and on a row of Queue.
StartOther ==
  /\ Press /\ HasRoom(commands, Capacity)
  /\ \E type \in {"Direct", "Collection", "PlayQueue"} :
       Send(<<Command(type, None)>>)
  /\ UNCHANGED <<view, seen>>

\* select_group() of another group.  The label on display stays until the next
\* answer, and so do the memory and a validation that is under way.
SwitchGroup ==
  /\ Press
  /\ \E g \in Groups \ {group} : group' = g /\ Send(<<Poll(g)>>)
  /\ selected' = None /\ pending' = None /\ before' = None /\ acked' = FALSE
  /\ UNCHANGED <<label, memory, seen>>

\* Exit and a later start, which opens a group and asks for its state.
Restart ==
  /\ presses + events < MaxActs /\ presses' = presses + 1
  /\ \E g \in Groups : group' = g /\ commands' = <<Poll(g)>>
  /\ label' = None /\ selected' = None
  /\ pending' = None /\ before' = None /\ acked' = FALSE
  /\ validating' = FALSE /\ recent' = FALSE /\ results' = <<>>
  /\ UNCHANGED <<household, saved, lost, seen, events>>
-----------------------------------------------------------------------------
(* The network worker: a command is taken, done and answered *)

Taken(type) ==
  /\ commands # <<>> /\ Head(commands).type = type
  /\ commands' = Tail(commands)
  /\ UNCHANGED <<view, seen>>

\* A full result queue drops the answer.
ReplyWith(success, reported) ==
  LET command == Head(commands) IN
  /\ results' = PushIfRoom(results, ResultCapacity,
       [type |-> command.type, item |-> command.item, success |-> success,
        content |-> queue[command.to], source |-> reported])
  /\ lost' = (lost \/ ~HasRoom(results, ResultCapacity))
Reply(success) == ReplyWith(success, source[Head(commands).to])

Event ==
  /\ events < MaxEvents /\ presses + events < MaxActs
  /\ events' = events + 1 /\ UNCHANGED presses

Plays(g, content, kind) ==
  /\ queue' = [queue EXCEPT ![g] = content]
  /\ source' = [source EXCEPT ![g] = kind]
  /\ played' = [played EXCEPT ![g] = @ \cup ({content} \cap Playlists)]

\* play_item() for a playlist: clear the queue, which loses its name, add the
\* playlist, open the queue, select its first track, play.  It stops at the
\* first error, and a request without an answer may have been done or not.
StartDone ==
  /\ Taken("Start")
  /\ LET g == Head(commands).to
         item == Head(commands).item
         unnamed == IF source[g] = "Named" THEN "Queue" ELSE source[g]
     IN \/ Reply(TRUE) /\ Plays(g, item, "Queue") /\ UNCHANGED bounds
        \/ /\ Event /\ Reply(FALSE)
           /\ \/ UNCHANGED household
              \/ Plays(g, Empty, unnamed)
              \/ Plays(g, item, unnamed)
              \/ Plays(g, item, "Queue")

\* play_item() otherwise: open the source, play.
DirectDone(type) ==
  /\ Taken(type)
  /\ LET g == Head(commands).to
         obeyed == Plays(g, queue[g], "Direct")
     IN \/ Reply(TRUE) /\ obeyed /\ UNCHANGED bounds
        \/ Event /\ Reply(FALSE) /\ (obeyed \/ UNCHANGED household)

\* Requests that leave the household's queues as they are: play_queue_item,
\* get_playback and browse.
ReadDone(type) ==
  /\ Taken(type) /\ UNCHANGED household
  /\ \/ Reply(TRUE) /\ UNCHANGED bounds
     \/ Event /\ Reply(FALSE)

\* get_playback() succeeds as soon as the transport state is known: without its
\* other answers a queue looks unnamed, or like no queue at all.
PartialPoll ==
  /\ Taken("Poll") /\ UNCHANGED household
  /\ source[Head(commands).to] # "Direct"
  /\ Event /\ \E reported \in {"Queue", "Direct"} : ReplyWith(TRUE, reported)

Worker ==
  \/ StartDone \/ PartialPoll \/ DirectDone("Direct") \/ DirectDone("Collection")
  \/ \E type \in {"PlayQueue", "Poll", "Capture", "Validate"} : ReadDone(type)
-----------------------------------------------------------------------------
(* apply_result *)

Received(type, success) ==
  /\ results # <<>>
  /\ Head(results).type = type /\ Head(results).success = success
  /\ results' = Tail(results)
  /\ UNCHANGED <<household, group, seen, bounds>>

StartIsOver == pending' = None /\ before' = None /\ acked' = FALSE

\* Faulty variant for the sensitivity checks: only a queue with a name confirms
\* a start.
RelabelNamedOnly(answer) ==
  IF pending # None
  THEN /\ label' = pending /\ selected' = pending
       /\ IF acked /\ answer.source = "Named" THEN StartIsOver
          ELSE UNCHANGED start
  ELSE /\ selected' = CASE answer.source = "Named"  -> answer.content
                        [] answer.source = "Queue"  -> selected
                        [] answer.source = "Direct" -> None
       /\ label' = selected' /\ UNCHANGED start

\* The label after a playback answer.  While a start is pending it keeps its
\* name, until the start was acknowledged and the group plays its queue.
Relabel(answer) ==
  IF pending # None
  THEN /\ label' = pending /\ selected' = pending
       /\ IF acked /\ answer.source # "Direct" THEN StartIsOver
          ELSE UNCHANGED start
  ELSE /\ selected' = CASE answer.source = "Named"  -> answer.content
                        [] answer.source = "Queue"  -> selected
                        [] answer.source = "Direct" -> None
       /\ label' = selected' /\ UNCHANGED start

\* validate_playlist_context(): the flag is set whether or not the command was
\* accepted.
Validate ==
  IF validating \/ recent THEN UNCHANGED <<memory, commands, lost>>
  ELSE /\ Send(<<Command("Validate", None)>>)
       /\ validating' = TRUE /\ recent' = TRUE
       /\ lost' = (lost \/ ~HasRoom(commands, Capacity))
       /\ UNCHANGED saved

\* ResultType::Playback, success.  The answer may be another group's.
PlaybackArrived ==
  /\ Received("Poll", TRUE)
  /\ Relabel(Head(results))
  /\ IF saved.group # group THEN UNCHANGED <<memory, commands, lost>>
     ELSE IF Head(results).source = "Queue" THEN Validate
     ELSE /\ saved' = Forgotten
          /\ UNCHANGED <<validating, recent, commands, lost>>

\* A start that replaces the playlist was acknowledged.  Without a name, it is
\* a collection or a row of the queue.  A collection also opens Now Playing.
StartAcknowledged(type) ==
  /\ Received(type, TRUE)
  /\ LET item == Head(results).item IN
     /\ selected' = item
     /\ label' = IF item = None THEN None ELSE label
     /\ saved' = Forgotten
     /\ acked' = (acked \/ item = pending)
     /\ \E opened \in {<<>>, <<Poll(group)>>} :
          /\ opened # <<>> => type = "Collection"
          /\ Send((IF item = None THEN <<>> ELSE <<Command("Capture", None)>>)
                    \o opened \o <<Poll(group)>>)
  /\ UNCHANGED <<pending, before, validating, recent, lost>>

\* Faulty variant for the sensitivity checks: the rollback forgets to end the
\* start.
StartRefusedOnDisplay(type) ==
  /\ Received(type, FALSE)
  /\ \/ /\ Head(results).item = pending
        /\ selected' = before /\ label' = before /\ before' = None
        /\ Send(<<Poll(group)>>) /\ UNCHANGED <<pending, acked>>
     \/ /\ Head(results).item # pending
        /\ UNCHANGED <<selected, label, start, commands>>
  /\ UNCHANGED <<memory, lost>>

\* It failed: back to what was shown before the pending start.
StartRefused(type) ==
  /\ Received(type, FALSE)
  /\ \/ /\ Head(results).item = pending
        /\ selected' = before /\ label' = before
        /\ StartIsOver /\ Send(<<Poll(group)>>)
     \/ /\ Head(results).item # pending
        /\ UNCHANGED <<selected, label, start, commands>>
  /\ UNCHANGED <<memory, lost>>

\* A station: the next poll tells.  Other failures are toasts.
DirectAnswered ==
  /\ \/ Received("Direct", TRUE) /\ Send(<<Poll(group)>>)
     \/ /\ \E type \in {"Direct", "Poll", "Capture"} : Received(type, FALSE)
        /\ UNCHANGED commands
  /\ UNCHANGED <<label, selected, start, memory, lost>>

\* Faulty variant for the sensitivity checks: an empty queue is remembered.
CaptureArrivedAnyway ==
  /\ Received("Capture", TRUE)
  /\ saved' = IF selected = None THEN saved
              ELSE [group |-> group, title |-> selected,
                    fingerprint |-> Head(results).content]
  /\ UNCHANGED <<label, selected, start, validating, recent, commands, lost>>

\* The queue of the started playlist is remembered under the name that is
\* selected by now, for the group that is selected by now.
CaptureArrived ==
  /\ Received("Capture", TRUE)
  /\ LET content == Head(results).content IN
     saved' = IF content = Empty \/ selected = None THEN saved
              ELSE [group |-> group, title |-> selected, fingerprint |-> content]
  /\ UNCHANGED <<label, selected, start, validating, recent, commands, lost>>

ValidationArrived ==
  /\ Received("Validate", TRUE)
  /\ validating' = FALSE
  /\ \/ /\ Head(results).content = saved.fingerprint
        /\ selected' = saved.title /\ label' = saved.title
        /\ UNCHANGED saved
     \/ /\ Head(results).content # saved.fingerprint
        /\ selected' = None
        /\ label' = IF label = saved.title THEN None ELSE label
        /\ saved' = Forgotten
  /\ UNCHANGED <<start, recent, commands, lost>>

\* Faulty variant for the sensitivity checks: the flag stays set.
ValidationFailedForGood ==
  /\ Received("Validate", FALSE)
  /\ UNCHANGED <<label, selected, start, memory, commands, lost>>

ValidationFailed ==
  /\ Received("Validate", FALSE)
  /\ validating' = FALSE
  /\ UNCHANGED <<label, selected, start, saved, recent, commands, lost>>

ApplyResult ==
  \/ PlaybackArrived
  \/ \E type \in Starts : StartAcknowledged(type) \/ StartRefused(type)
  \/ DirectAnswered \/ CaptureArrived \/ ValidationArrived \/ ValidationFailed
-----------------------------------------------------------------------------
(* Timers, and other controllers *)

\* update() drains the results before it looks at the timer.
PollTimer ==
  /\ results = <<>> /\ Len(commands) < PollBelow /\ Send(<<Poll(group)>>)
  /\ UNCHANGED <<household, view, results, lost, seen, bounds>>

ValidationDue ==
  /\ recent /\ recent' = FALSE
  /\ UNCHANGED <<household, group, label, selected, start, saved, validating,
                 commands, results, lost, seen, bounds>>

ChangeElsewhere ==
  /\ Event
  /\ \E g \in Groups, content \in Contents, kind \in Sources :
       /\ kind = "Named" => content \in Playlists
       /\ Plays(g, content, kind)
       /\ seen' = [seen EXCEPT ![g] = @ \cup ({content} \cap Playlists)]
  /\ UNCHANGED <<view, commands, results, lost>>
-----------------------------------------------------------------------------
User == StartPlaylist \/ StartOther \/ SwitchGroup \/ Restart

Next ==
  \/ User \/ Worker \/ ApplyResult
  \/ PollTimer \/ ValidationDue \/ ChangeElsewhere

Spec == Init /\ [][Next]_vars

\* The worker ends every exchange, update() applies the answers and polls in
\* its frames, and 15 s pass.
Fairness ==
  /\ WF_vars(Worker) /\ WF_vars(ApplyResult)
  /\ WF_vars(PollTimer) /\ WF_vars(ValidationDue)

FairSpec == Spec /\ Fairness
-----------------------------------------------------------------------------
(* Properties *)

Queued(playlist) ==
  \/ \E i \in DOMAIN commands :
       commands[i].type = "Start" /\ commands[i].item = playlist
  \/ \E i \in DOMAIN results :
       results[i].type = "Start" /\ results[i].item = playlist

\* A start that holds the label is under way or was acknowledged: no order of
\* answers, rollbacks and switches of the group leaves an orphan, whose label
\* no answer could ever correct.
PendingIsUnderWay ==
  pending # None => acked \/ Queued(pending) \/ lost

\* Every start comes to an end: it stays pending only beside a source that is
\* not the queue.
StartsConclude ==
  <>[](pending = None \/ source[group] = "Direct" \/ lost)

\* docs/PROTOCOL.md: "starting a different source clears it": a station or a
\* collection never keeps a playlist's label, unless a start is pending.
DirectSourceClears ==
  <>[](source[group] = "Direct" /\ pending = None => label = None)

\* In the end it is the source, not a start or a memory of one, that decides
\* about the label.
LabelFollowsSource == StartsConclude /\ DirectSourceClears

\* The label in use is none, or remembered with the queue it belongs to.
Tracked ==
  selected = None \/ Remembers(group, selected)

\* docs/PROTOCOL.md: "a queue changed by another Sonos controller is never
\* mislabeled": a remembered label goes when its queue has gone, after a failed
\* validation too.
ChangedQueueLosesLabel ==
  <>[](Tracked /\ pending = None /\ source[group] = "Queue"
        => label \in {None, queue[group]} \/ lost)

AtRest == commands = <<>> /\ results = <<>>

\* docs/PROTOCOL.md: "Miyonos keeps the title of the playlist it started for
\* that active group queue [...] selecting another group or starting a different
\* source clears it": a group is not labelled with a playlist that was started
\* in another one.
LabelIsOfGroup ==
  AtRest /\ label # None => label \in seen[group]

\* CHANGELOG.md, 0.1.27: "If the playlist cannot start, Miyonos restores the
\* previous context and explains the failure instead of leaving a misleading
\* playlist label": no label of a playlist that never got into the queue.
FailedStartLeavesNoLabel ==
  AtRest /\ label # None => label \in played[group] \/ lost
=============================================================================
