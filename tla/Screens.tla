------------------------------- MODULE Screens -------------------------------
(***************************************************************************)
(* Which screen is on display and how one leaves it: navigate() and        *)
(* back(), the questions before something is lost, the Controls pop-up,    *)
(* the editors of the button mapping and of the player address; in the     *)
(* order in which Controller::handle looks at a press.                     *)
(*                                                                         *)
(* Answers of the network move the screen too: they jump to Now Playing,   *)
(* Rooms or Offline, over whatever is open, an editor or a question.  Any  *)
(* of them may arrive here at any time; Connection.tla, GroupSelection.tla *)
(* and PlaylistContext.tla say when they do.                               *)
(*                                                                         *)
(* Of a mapping the module keeps which of the essential actions have a     *)
(* button: a press of one that has none is not possible.                   *)
(***************************************************************************)
EXTENDS Integers, Sequences, SequencesExt

CONSTANTS
  Essential,  \* the actions that button_mapping_is_safe keeps
  Plain,      \* screens with nothing special: Speakers, Help, About, the lists
  Shortcuts,  \* those that have a button: Menu, Rooms and Speakers
  MaxActs,    \* bounds of the model: presses other than Back and Exit,
  MaxJumps    \*   and answers

ASSUME BackAndExit == {"Back", "ExitButton", "Confirm"} \subseteq Essential

Special ==
  {"Splash", "Discovery", "Offline", "Rooms", "GroupEditor", "NowPlaying", "Menu",
   "Settings", "Diagnostics", "IpEditor", "ButtonMapping", "ConfirmExit",
   "ConfirmAction"}
Screens == Plain \cup Special
ASSUME PlainIsNotSpecial == Plain \cap Special = {}
ASSUME ShortcutsAreScreens == Shortcuts \subseteq Plain \cup {"Menu", "Rooms"}
ASSUME BoundsAreNat == MaxActs \in Nat /\ MaxJumps \in Nat
\* Lists whose Confirm may open Now Playing at once, and the two that Further
\* exchanges for each other.
Starters == Plain \cap {"Favorites", "Playlists"}
Pair == Plain \cap {"Queue", "Playlists"}
Questions == {"ClearArtwork", "ForgetSystem", "ResetSettings", "ClearLogs"}
Dialogs == {"ConfirmExit", "ConfirmAction"}

VARIABLES
  screen, history,  \* view_.screen, history_
  overlay,          \* view_.controls_overlay
  pending,          \* pending_confirmation_
  asked,            \* what view_.confirmation_title asks
  mapping, draft,   \* settings_.button_mapping, view_.pending_button_mapping
  confirmExit,      \* settings_.confirm_exit
  connected,        \* view_.connected
  groups,           \* view_.topology.groups is not empty
  chosen,           \* view_.active_group_id is not empty
  exited,           \* exit_requested_
  acts, jumps,      \* so far
  cut               \* history: went offline over what one can go back to

place == <<screen, history>>
question == <<pending, asked>>
keys == <<mapping, draft, confirmExit>>
household == <<connected, groups, chosen>>
bounds == <<acts, jumps>>
vars == <<place, overlay, question, keys, household, exited, bounds, cut>>

TypeOK ==
  /\ screen \in Screens /\ history \in Seq(Screens)
  /\ pending \in Questions \cup {"None"} /\ asked \in Questions \cup {"None"}
  /\ mapping = Essential  \* what is saved is safe
  /\ draft \subseteq Essential
  /\ {overlay, confirmExit, exited, cut} \subseteq BOOLEAN
  /\ {connected, groups, chosen} \subseteq BOOLEAN
  /\ acts \in 0..MaxActs /\ jumps \in 0..MaxJumps

Init ==
  /\ screen = "Splash" /\ history = <<>> /\ overlay = FALSE
  /\ pending = "None" /\ asked = "None"
  /\ mapping = Essential /\ draft = Essential
  /\ confirmExit \in BOOLEAN /\ exited = FALSE
  /\ connected = FALSE /\ groups = FALSE /\ chosen = FALSE
  /\ acts = 0 /\ jumps = 0 /\ cut = FALSE
-----------------------------------------------------------------------------
(* Moving between screens *)

Show(s) == screen' = s /\ history' = <<>>

\* navigate
Navigate(s) ==
  IF screen = s THEN UNCHANGED place
  ELSE screen' = s /\ history' = Append(history, screen)

\* Faulty variant for the sensitivity checks: Now Playing is a screen like any
\* other.
GoBackAnywhere ==
  IF history = <<>> THEN Show("NowPlaying")
  ELSE screen' = Last(history) /\ history' = Front(history)

\* back(): Now Playing is the bottom, whatever is under it.
GoBack ==
  IF screen = "NowPlaying" \/ history = <<>> THEN Show("NowPlaying")
  ELSE screen' = Last(history) /\ history' = Front(history)

Leave ==
  IF confirmExit THEN Navigate("ConfirmExit") /\ UNCHANGED exited
  ELSE exited' = TRUE /\ UNCHANGED place

\* A press: the loop runs until the exit has been requested.  Back and Exit may
\* be pressed as often as one likes.
Press(a) ==
  /\ ~exited
  /\ a \in Essential => a \in mapping
  /\ IF a \in {"Back", "ExitButton"} THEN UNCHANGED bounds
     ELSE acts < MaxActs /\ acts' = acts + 1 /\ UNCHANGED jumps
  /\ UNCHANGED cut

\* What a press reaches when no pop-up or question is on display.
Open == ~overlay /\ screen \notin Dialogs
-----------------------------------------------------------------------------
(* Presses *)

\* Faulty variant: any mapping may be saved.
IsSafeAlways(m) == TRUE

\* button_mapping_is_safe
IsSafe(m) == m = Essential

\* Back closes the pop-up, answers a question with no, or saves the mapping,
\* which stays open as long as it is not safe.
PressBack ==
  /\ Press("Back")
  /\ overlay' = FALSE
  /\ pending' = IF ~overlay /\ screen = "ConfirmAction" THEN "None" ELSE pending
  /\ LET saves == ~overlay /\ screen = "ButtonMapping"
     IN /\ mapping' = IF saves /\ IsSafe(draft) THEN draft ELSE mapping
        /\ IF overlay \/ (saves /\ ~IsSafe(draft)) THEN UNCHANGED place ELSE GoBack
  /\ UNCHANGED <<asked, draft, confirmExit, household, exited>>

\* Exit leaves from everywhere but a question, which it answers with no; what
\* the editor has staged is gone.
PressExit ==
  /\ Press("ExitButton")
  /\ overlay' = FALSE
  /\ IF ~overlay /\ screen = "ConfirmExit" THEN exited' = TRUE /\ UNCHANGED place
     ELSE IF ~overlay /\ screen = "ConfirmAction" THEN GoBack /\ UNCHANGED exited
     ELSE Leave
  /\ pending' = IF ~overlay /\ screen = "ConfirmAction" THEN "None" ELSE pending
  /\ draft' = IF ~overlay /\ screen = "ButtonMapping" THEN mapping ELSE draft
  /\ UNCHANGED <<asked, mapping, confirmExit, household>>

\* confirm_pending; that of nothing does nothing.  What is forgotten does not
\* include which group was active.
Carry(q) ==
  /\ pending' = "None"
  /\ IF q = "ForgetSystem" THEN Show("Discovery")
     ELSE IF q = "None" THEN UNCHANGED place ELSE GoBack
  /\ connected' = (connected /\ q # "ForgetSystem")
  /\ groups' = (groups /\ q # "ForgetSystem")
  /\ IF q = "ResetSettings" THEN mapping' = Essential /\ confirmExit' = TRUE
     ELSE UNCHANGED <<mapping, confirmExit>>
  /\ UNCHANGED <<asked, draft, chosen, exited>>

\* Confirm on the pop-up and on the questions.
ConfirmDialog ==
  /\ Press("Confirm") /\ ~Open /\ overlay' = FALSE
  /\ IF overlay THEN UNCHANGED <<place, question, keys, household, exited>>
     ELSE IF screen = "ConfirmAction" THEN Carry(pending)
     ELSE exited' = TRUE /\ UNCHANGED <<place, question, keys, household>>

\* request_confirmation
Ask(q) == pending' = q /\ asked' = q /\ Navigate("ConfirmAction")

\* enter_ip_editor does not compare with the screen on display.
EnterIpEditor ==
  history' = Append(history, screen) /\ screen' = "IpEditor" /\ UNCHANGED question

\* save_ip_editor of a valid address.
SaveIp ==
  /\ IF connected THEN GoBack
     ELSE /\ history' = IF history = <<>> THEN <<>> ELSE Front(history)
          /\ screen' = "Discovery"
  /\ UNCHANGED question

\* coordinator() finds the player of the active group.
HasCoordinator == groups /\ chosen

\* select_group for a row of Rooms, and for the next group on Now Playing.
SelectGroup ==
  /\ Open /\ groups
  /\ \/ screen = "Rooms" /\ Press("Confirm")
     \/ screen = "NowPlaying" /\ HasCoordinator /\ Press("NextGroup")
  /\ Show("NowPlaying") /\ chosen' = TRUE /\ connected' = TRUE
  /\ UNCHANGED <<overlay, question, keys, groups, exited>>

\* activate, as far as it changes the screen.
Confirm ==
  /\ Press("Confirm") /\ Open
  /\ \/ /\ screen = "Menu"
        /\ \E s \in Plain \cup {"Rooms", "Settings", "Diagnostics"} : Navigate(s)
        /\ UNCHANGED <<question, keys>>
     \/ /\ screen = "Settings"
        /\ \/ EnterIpEditor /\ UNCHANGED keys
           \/ Navigate("ButtonMapping") /\ draft' = mapping
              /\ UNCHANGED <<question, mapping, confirmExit>>
           \/ (\E q \in Questions \ {"ClearLogs"} : Ask(q)) /\ UNCHANGED keys
           \/ confirmExit' = ~confirmExit /\ UNCHANGED <<place, question, mapping, draft>>
     \/ screen = "Diagnostics" /\ Ask("ClearLogs") /\ UNCHANGED keys
     \/ /\ screen = "Offline" /\ UNCHANGED keys
        /\ \/ screen' = "Discovery" /\ UNCHANGED <<history, question>>
           \/ EnterIpEditor
           \/ (\E s \in Plain : Navigate(s)) /\ UNCHANGED question
     \/ screen = "IpEditor" /\ SaveIp /\ UNCHANGED keys
     \/ /\ screen \in Starters /\ HasCoordinator /\ Navigate("NowPlaying")
        /\ UNCHANGED <<question, keys>>
  /\ UNCHANGED <<overlay, household, exited>>

\* The editor stages a change of one button, or the default of all of them.
Edit ==
  /\ Press("Edit") /\ Open /\ screen = "ButtonMapping"
  /\ \/ \E a \in Essential : draft' \in {draft \cup {a}, draft \ {a}} /\ draft' # draft
     \/ draft' = Essential
  /\ UNCHANGED <<place, overlay, question, mapping, confirmExit, household, exited>>

\* Menu, Rooms and Speaker Volumes; not out of the address editor, and out of
\* the editor of the mapping without what it has staged.
Go(s) ==
  /\ Press(s) /\ Open /\ screen # "IpEditor" /\ Navigate(s)
  /\ draft' = IF screen = "ButtonMapping" THEN mapping ELSE draft
  /\ UNCHANGED <<overlay, question, mapping, confirmExit, household, exited>>

\* Y on the Rooms; the lists of Now Playing; switch_queue_playlist.
Further ==
  /\ Press("Further") /\ Open
  /\ \/ screen = "Rooms" /\ Navigate("GroupEditor")
     \/ screen = "NowPlaying" /\ HasCoordinator /\ \E s \in Plain : Navigate(s)
     \/ screen \in Pair /\ screen' \in Pair \ {screen} /\ UNCHANGED history
  /\ UNCHANGED <<overlay, question, keys, household, exited>>

\* Controls shows the pop-up, or closes it.
PressControls ==
  /\ Press("Controls") /\ (overlay \/ Open) /\ overlay' = ~overlay
  /\ UNCHANGED <<place, question, keys, household, exited>>

\* Menu and Start, held: restore_button_mapping.
HoldChord ==
  /\ Press("ResetButtonMapping")
  /\ mapping' = Essential /\ draft' = Essential
  /\ Show("Settings") /\ overlay' = FALSE
  /\ UNCHANGED <<question, confirmExit, household, exited>>
-----------------------------------------------------------------------------
(* Answers *)

Jump == ~exited /\ jumps < MaxJumps /\ jumps' = jumps + 1 /\ UNCHANGED acts

\* update() after 650 ms.
SplashEnds ==
  /\ ~exited /\ screen = "Splash" /\ screen' = "Discovery"
  /\ UNCHANGED <<history, overlay, question, keys, household, exited, bounds, cut>>

\* No player is found, none answers, or there are no rooms.  A remote that has
\* groups keeps them unless the answer is that there are none.
GoesOffline ==
  /\ Jump /\ screen' = "Offline" /\ connected' = FALSE
  /\ groups' \in {groups, FALSE}
  /\ cut' = (cut \/ history # <<>>)
  /\ UNCHANGED <<history, overlay, question, keys, chosen, exited>>

\* The rooms arrive.  The active group stays, or another becomes active; an owner
\* who wants to be asked is, as long as no group has been active.
RoomsArrive ==
  /\ Jump /\ connected' = TRUE /\ groups' = TRUE
  /\ \/ chosen /\ UNCHANGED <<place, chosen>>
     \/ Show("NowPlaying") /\ chosen' = TRUE
     \/ ~chosen /\ screen' = "Rooms" /\ UNCHANGED <<history, chosen>>
  /\ UNCHANGED <<overlay, question, keys, exited, cut>>

\* A collection has started: show_now_playing_on_success.  It was asked of the
\* active group, but may answer when the remote is offline or has forgotten it.
StartConcludes ==
  /\ Jump /\ chosen /\ Navigate("NowPlaying")
  /\ UNCHANGED <<overlay, question, keys, household, exited, cut>>

Next ==
  \/ PressBack \/ PressExit \/ ConfirmDialog \/ SelectGroup \/ Confirm \/ Edit
  \/ Further
  \/ \E s \in Shortcuts : Go(s)
  \/ PressControls \/ HoldChord
  \/ SplashEnds \/ GoesOffline \/ RoomsArrive \/ StartConcludes

Spec == Init /\ [][Next]_vars
-----------------------------------------------------------------------------
(* Properties *)

\* A question on display stands for what it asks: one that an answer has jumped
\* over is not come back to after another has been asked and answered.  The
\* exception is a remote that has gone offline over a screen with something
\* under it: Offline has a way back where Now Playing has none.
QuestionsAreMeant == screen = "ConfirmAction" => (pending = asked \/ cut)

\* An owner who keeps pressing Exit, and no longer Back, gets out, wherever the
\* remote is, whatever has been remapped and whatever arrives.
ExitLeaves ==
  (WF_vars(PressExit) /\ <>[][~PressBack]_vars) => <>exited

\* One who keeps pressing Back, and no longer Exit, gets to Now Playing, unless
\* a mapping is being edited that is not safe.
BackLeadsHome ==
  (WF_vars(PressBack) /\ <>[][~PressExit]_vars) =>
    []<>(exited \/ screen = "NowPlaying"
           \/ (screen = "ButtonMapping" /\ ~IsSafe(draft)))

\* No screen, question or pop-up is a dead end.
NoDeadEnd == ExitLeaves /\ BackLeadsHome
=============================================================================
