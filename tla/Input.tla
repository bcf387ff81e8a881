-------------------------------- MODULE Input --------------------------------
(***************************************************************************)
(* From buttons to actions: Input::translate and Input::repeat_action, and *)
(* process_event and the loop of the runtime around them.                  *)
(*                                                                         *)
(* A press means the action it is mapped to, with four twists: a held      *)
(* D-pad repeats; R2 on Favorites acts on its release, or as Shuffle when  *)
(* held; Menu and Start held together restore the mapping; and a press     *)
(* that ends the idle battery saver is meant to do nothing else.           *)
(*                                                                         *)
(* Time is counted in frames of the loop.  Of the controller the module    *)
(* keeps what bears on the buttons: their mapping, the idle saver and the  *)
(* way out of the program (Screens.tla has the rest).  A mouse press of    *)
(* the simulator is like a key press.                                      *)
(***************************************************************************)
EXTENDS Integers, FiniteSets

CONSTANTS
  Links,          \* which device has which buttons: <<"key", b>>, <<"pad", b>>
  Mappings,       \* what the editor may save: functions from buttons to actions
  Default,        \* kDefaultButtonMapping
  RepeatDelay,    \* frames until a held button repeats (420 ms)
  RepeatEvery,    \* frames between two repeats (160 ms)
  ShuffleHold,    \* frames until R2 means Shuffle (800 ms)
  ChordHold,      \* frames until Menu and Start restore the mapping (3 s)
  IdleDelay       \* frames until the idle saver (60 s)

ASSUME LinksAreDevices == \A l \in Links : l[1] \in {"key", "pad"}
ASSUME DefaultMaps == Default \in Mappings
ASSUME HoldsAreOrdered ==
  0 < RepeatEvery /\ RepeatEvery < RepeatDelay /\ RepeatDelay < ShuffleHold
    /\ ShuffleHold < ChordHold /\ ChordHold < IdleDelay

Buttons == {l[2] : l \in Links}
Triggers == {"L2", "R2"}
Repeatable == {"Up", "Down", "Left", "Right"}
Actions == Repeatable \cup {"None", "Confirm", "Back", "Menu", "Queue", "Favorites",
                            "ToggleShuffle", "ExitButton", "ResetButtonMapping"}
Gestures == {"Favorites", "ToggleShuffle"}
NoButton == "Count"

ASSUME NoSuchButton == NoButton \notin Buttons

ASSUME FramesAreCounted ==
  {RepeatDelay, RepeatEvery, ShuffleHold, ChordHold, IdleDelay} \subseteq Nat
ASSUME MappingsMap == Mappings \subseteq [Buttons -> Actions]

VARIABLES
  down,         \* external: what is held, per device
  mapping,      \* settings_.button_mapping, and Input::mapping_
  current,      \* current_press_button_
  suppressed,   \* suppressed_press_button_
  held,         \* held_action_, held_button_ and the frames since held_since_ms_
  sinceRepeat,  \* frames since last_repeat_ms_
  r2,           \* r2_favorites_*: pending, r2_shuffle_emitted_, frames, action
  flags,        \* physical_menu_down_, physical_start_down_ as a set of buttons
  chord,        \* recovery_chord_*: active, emitted, frames
  saver,        \* idle_battery_saver_active
  idleFor,      \* frames since last_input_ms
  confirm,      \* settings_.confirm_exit
  asking,       \* ConfirmExit is on display
  exited,       \* exit_requested_
  acted,        \* the action handled in the last step and the button it is of
  woke,         \* history: what is held whose press, or a key repeat of it, came
                \* while the idle saver was on, a trigger's press included
  overtaken,    \* history: those of woke before the latest press that the code
                \* takes for a waking one; it remembers only that one
  r2Acts,       \* history: Favorites and Shuffle out of the latest press of R2
  bothFor       \* history: frames for which Menu and Start are down together

timers == <<held, sinceRepeat, r2, flags, chord>>
press == <<current, suppressed>>
controller == <<mapping, saver, idleFor, asking, exited, acted>>
history == <<woke, overtaken, r2Acts, bothFor>>
vars == <<down, timers, press, controller, confirm, history>>

NotHeld == [action |-> "None", button |-> NoButton, for |-> 0]
NotPending == [pending |-> FALSE, emitted |-> FALSE, for |-> 0, short |-> "None"]
NoChord == [active |-> FALSE, emitted |-> FALSE, for |-> 0]
Silence == [action |-> "None", by |-> NoButton]

TypeOK ==
  /\ down \subseteq Links /\ mapping \in Mappings
  /\ {current, suppressed} \subseteq Buttons \cup {NoButton}
  /\ woke \subseteq Links /\ overtaken \subseteq Links
  /\ held \in [action : Actions, button : Buttons \cup {NoButton},
               for : 0..RepeatDelay]
  /\ sinceRepeat \in 0..RepeatEvery
  /\ r2 \in [pending : BOOLEAN, emitted : BOOLEAN, for : 0..ShuffleHold,
             short : Actions]
  /\ flags \subseteq {"Menu", "Start"}
  /\ chord \in [active : BOOLEAN, emitted : BOOLEAN, for : 0..ChordHold]
  /\ idleFor \in 0..IdleDelay
  /\ {saver, confirm, asking, exited} \subseteq BOOLEAN
  /\ acted \in [action : Actions, by : Buttons \cup {NoButton}]
  /\ r2Acts \in 0..2 /\ bothFor \in 0..ChordHold

Init ==
  /\ down = {} /\ mapping \in Mappings
  /\ current = NoButton /\ suppressed = NoButton
  /\ held = NotHeld /\ sinceRepeat = RepeatEvery /\ r2 = NotPending
  /\ flags = {} /\ chord = NoChord
  /\ saver = FALSE /\ idleFor = 0
  /\ confirm \in BOOLEAN /\ asking = FALSE /\ exited = FALSE
  /\ acted = Silence /\ woke = {} /\ overtaken = {} /\ r2Acts = 0 /\ bothFor = 0

UpTo(limit, n) == IF n < limit THEN n + 1 ELSE limit
-----------------------------------------------------------------------------
(* Controller::handle, as far as buttons go *)

\* Leaving may have to be confirmed; restoring the mapping also leaves the
\* question.
Handle(a, by) ==
  /\ acted' = [action |-> a, by |-> by]
  /\ mapping' = IF a = "ResetButtonMapping" THEN Default ELSE mapping
  /\ exited' = (exited \/ (a = "ExitButton" /\ (asking \/ ~confirm))
                       \/ (a = "Confirm" /\ asking))
  /\ asking' = IF a = "ExitButton" THEN TRUE
               ELSE asking /\ a \notin {"Back", "ResetButtonMapping"}
  /\ UNCHANGED confirm

\* note_user_activity, on every press of a key or button and every action.
Activity(active) ==
  /\ saver' = (saver /\ ~active)
  /\ idleFor' = IF active THEN 0 ELSE idleFor
-----------------------------------------------------------------------------
(* The parts of translate *)

\* Faulty variant for the sensitivity checks: any two buttons are the chord.
NoteAnyButton(b, isDown) ==
  /\ flags' = IF isDown THEN flags \cup {b} ELSE flags \ {b}
  /\ chord' = IF Cardinality(flags') < 2 THEN NoChord ELSE chord

\* note_physical_button.
NoteButton(b, isDown) ==
  /\ flags' = IF b \notin {"Menu", "Start"} THEN flags
              ELSE IF isDown THEN flags \cup {b} ELSE flags \ {b}
  /\ chord' = IF flags' # {"Menu", "Start"} THEN NoChord
              ELSE IF chord.active THEN chord ELSE [NoChord EXCEPT !.active = TRUE]

BothDown(links) == \A b \in {"Menu", "Start"} : \E l \in links : l[2] = b

\* delays_r2_favorites.
Delays(b, a) == b = "R2" /\ a = "Favorites"

\* wake_only: a press that the runtime takes for the one that ends the idle
\* saver, and any repeat of a key while it is on; an axis motion never is.
Wakes(physical) == physical /\ saver

\* The history of the waking presses.  It goes by the saver and not by
\* wake_only, so that a trigger's press counts as one.
NoteWake(l, physical) ==
  /\ woke' = IF saver THEN woke \cup {l} ELSE woke
  /\ overtaken' = IF Wakes(physical) THEN (overtaken \cup woke) \ {l} ELSE overtaken

\* A press of a key, a button or a trigger of the pad.  A trigger neither counts
\* as activity by itself nor only wakes; a button of the pad may be held.  Nobody
\* holds the same button on both devices.
Press(device, b) ==
  LET a == mapping[b]
      physical == device = "key" \/ b \notin Triggers
      wakes == Wakes(physical)
      delayed == Delays(b, a) /\ (device = "key" \/ b \in Triggers)
      due == IF delayed \/ suppressed = b THEN "None" ELSE a
      handled == IF wakes THEN "None" ELSE due
      holds == device = "pad" /\ physical /\ a \in Repeatable
  IN /\ ~exited /\ <<device, b>> \in Links /\ \A l \in down : l[2] # b
     /\ down' = down \cup {<<device, b>>}
     /\ current' = b
     /\ suppressed' = IF wakes THEN b ELSE suppressed
     /\ NoteWake(<<device, b>>, physical)
     /\ NoteButton(b, TRUE)
     /\ held' = IF holds THEN [action |-> a, button |-> b, for |-> 0] ELSE held
     /\ sinceRepeat' = IF device = "key" \/ holds THEN 0 ELSE sinceRepeat
     /\ r2' = IF delayed THEN [NotPending EXCEPT !.pending = TRUE, !.short = a]
              ELSE r2
     /\ Handle(handled, b)
     /\ Activity(physical \/ handled # "None")
     /\ r2Acts' = IF b # "R2" THEN r2Acts ELSE IF handled \in Gestures THEN 1 ELSE 0
     /\ UNCHANGED bothFor

\* A repeat by the operating system of the key pressed last.
KeyRepeat(b) ==
  LET due == mapping[b] \in Repeatable /\ sinceRepeat >= RepeatEvery
      handled == IF due /\ suppressed # b /\ ~Wakes(TRUE) THEN mapping[b] ELSE "None"
  IN /\ ~exited /\ <<"key", b>> \in down /\ current = b
     /\ sinceRepeat' = IF due THEN 0 ELSE sinceRepeat
     /\ suppressed' = IF Wakes(TRUE) THEN current ELSE suppressed
     /\ NoteWake(<<"key", b>>, TRUE)
     /\ Handle(handled, b) /\ Activity(TRUE)
     /\ UNCHANGED <<down, current, held, r2, flags, chord, r2Acts, bothFor>>

\* Faulty variant: the release lifts the suppression before it looks at it.
SuppressesAfterClear(b) == FALSE

\* suppresses().
Suppresses(b) == suppressed = b

\* release().
Released(b) == IF b = held.button THEN NotHeld ELSE held

\* A release; that of R2 ends its press.
Release(device, b) ==
  LET ends == b = "R2" /\ r2.pending
      handled == IF ends /\ ~r2.emitted /\ ~Suppresses(b) THEN r2.short ELSE "None"
  IN /\ ~exited /\ <<device, b>> \in down
     /\ down' = down \ {<<device, b>>}
     /\ NoteButton(b, FALSE)
     /\ held' = Released(b)
     /\ r2' = IF ends THEN NotPending ELSE r2
     /\ suppressed' = IF suppressed = b THEN NoButton ELSE suppressed
     /\ current' = IF current = b THEN NoButton ELSE current
     /\ woke' = woke \ {<<device, b>>}
     /\ overtaken' = overtaken \ {<<device, b>>}
     /\ Handle(handled, b) /\ Activity(handled # "None")
     /\ r2Acts' = IF handled # "None" THEN UpTo(2, r2Acts) ELSE r2Acts
     /\ bothFor' = IF BothDown(down') THEN bothFor ELSE 0
     /\ UNCHANGED sinceRepeat
-----------------------------------------------------------------------------
(* One turn of the loop without an event *)

\* Faulty variant: the chord is for an awake remote.
ChordDueAwake(for) ==
  chord.active /\ ~chord.emitted /\ for >= ChordHold /\ suppressed = NoButton

\* Faulty variant: Shuffle does not remember that it was given.
ShuffleDueAgain(for) == r2.pending /\ ~Suppresses("R2") /\ for >= ShuffleHold

\* Of the three that may be due repeat_action returns the first.
ChordDue(for) == chord.active /\ ~chord.emitted /\ for >= ChordHold
ShuffleDue(for) ==
  r2.pending /\ ~r2.emitted /\ ~Suppresses("R2") /\ for >= ShuffleHold
RepeatDue(for, since) ==
  /\ held.action \in Repeatable /\ ~Suppresses(held.button)
  /\ for >= RepeatDelay /\ since >= RepeatEvery

Frame ==
  LET chordFor == IF chord.active THEN UpTo(ChordHold, chord.for) ELSE 0
      r2For == IF r2.pending THEN UpTo(ShuffleHold, r2.for) ELSE 0
      heldFor == IF held.action # "None" THEN UpTo(RepeatDelay, held.for) ELSE held.for
      since == UpTo(RepeatEvery, sinceRepeat)
      restores == ChordDue(chordFor)
      shuffles == ~restores /\ ShuffleDue(r2For)
      repeats == ~restores /\ ~shuffles /\ RepeatDue(heldFor, since)
      idle == IF restores \/ shuffles \/ repeats THEN 0 ELSE UpTo(IdleDelay, idleFor)
  IN /\ ~exited
     /\ Handle(IF restores THEN "ResetButtonMapping"
               ELSE IF shuffles THEN "ToggleShuffle"
               ELSE IF repeats THEN held.action ELSE "None",
               IF shuffles THEN "R2" ELSE IF repeats THEN held.button ELSE NoButton)
     /\ chord' = [chord EXCEPT !.for = chordFor, !.emitted = @ \/ restores]
     /\ r2' = [r2 EXCEPT !.for = r2For, !.emitted = @ \/ shuffles]
     /\ held' = IF restores THEN [held EXCEPT !.action = "None"]
                ELSE [held EXCEPT !.for = heldFor]
     /\ sinceRepeat' = IF repeats THEN 0 ELSE since
     /\ idleFor' = idle /\ saver' = (idle >= IdleDelay)
     /\ r2Acts' = IF shuffles THEN UpTo(2, r2Acts) ELSE r2Acts
     /\ bothFor' = IF BothDown(down) THEN UpTo(ChordHold, bothFor) ELSE 0
     /\ UNCHANGED <<down, current, suppressed, flags, woke, overtaken>>

\* The button editor saves another mapping.
Remap(m) ==
  /\ ~exited /\ mapping' = m /\ m # mapping
  /\ acted' = Silence
  /\ UNCHANGED <<down, timers, press, saver, idleFor, asking, exited, confirm, history>>

Next ==
  \/ \E l \in Links : Press(l[1], l[2]) \/ Release(l[1], l[2])
  \/ \E b \in Buttons : KeyRepeat(b)
  \/ \E m \in Mappings : Remap(m)
  \/ Frame

Spec == Init /\ [][Next]_vars
-----------------------------------------------------------------------------
(* Properties *)

\* The step acts for the button of one of the links.
ActsFor(links) ==
  acted'.action # "None" /\ acted'.by \in {l[2] : l \in links}

PadTriggers == {l \in Links : l[1] = "pad" /\ l[2] \in Triggers}

\* The press that ends the idle saver does nothing else: not when it is pressed,
\* not by repeating, not as Shuffle, and not by its release.  (That Menu wakes
\* the remote does not stop the chord.)  This is what the comment at
\* src/app/runtime.cpp:67-70, docs/CONTROLS.md and CHANGELOG.md say of every
\* button; a trigger of the pad breaks it.
WakePressIsSilent == [][~ActsFor(woke \cup woke')]_vars

\* The same of every button but the triggers of a pad, also when another press
\* wakes the remote a second time before the first button is let go: "discarded
\* until the button is released" (src/platform/input.h).  The second press takes
\* the one place in which a waking press is remembered.
WakeButtonStaysSilent == [][~ActsFor((woke \cup woke') \ PadTriggers)]_vars

\* What the code does keep: a waking press of a key or of a pad's button does
\* nothing until its release, through repeats of either kind, the delayed
\* actions of R2, other presses, remapping and the saver coming on again, as
\* long as no other press wakes the remote meanwhile.
WakePressIsRemembered ==
  [][~ActsFor((woke \cup woke') \ (PadTriggers \cup overtaken))]_vars

\* R2 on Favorites means Favorites or Shuffle, never both and never twice: a
\* press of it gives one of them at most, whatever is pressed, mapped or woken
\* meanwhile.
OneActionPerR2Press == r2Acts <= 1

\* When Menu and Start have been down together long enough the mapping is the
\* default one, whatever they are mapped to and whatever else happens, unless
\* one of them has left the program.
ChordRestores ==
  [][bothFor < ChordHold /\ bothFor' = ChordHold => mapping' = Default]_vars
=============================================================================
