------------------------- MODULE InputAndQueueProofs --------------------------
(***************************************************************************)
(* The two ends of the application loop.  What a press means, for every    *)
(* set of buttons and devices, every set of mappings and every length of   *)
(* the delays; and the queue to the workers, for every set of consumers,   *)
(* every set of keys and every capacity.                                   *)
(***************************************************************************)
EXTENDS Input, BoundedQueue, FiniteSetTheorems, SequenceTheorems, TLAPS
-----------------------------------------------------------------------------
(* The input: the helpers *)

\* The delays are positive numbers of frames.
LEMMA Delayed ==
  /\ RepeatDelay \in Nat /\ RepeatEvery \in Nat /\ ShuffleHold \in Nat
  /\ ChordHold \in Nat /\ IdleDelay \in Nat
  /\ 0 < RepeatEvery /\ 0 < RepeatDelay /\ 0 < ShuffleHold
  /\ 0 < ChordHold /\ 0 < IdleDelay
BY FramesAreCounted, HoldsAreOrdered

\* A counter of frames stops at its limit.
LEMMA UpToType ==
  ASSUME NEW limit \in Nat, NEW n \in 0..limit
  PROVE  /\ UpTo(limit, n) \in 0..limit
         /\ n < limit => UpTo(limit, n) = n + 1
         /\ n = limit => UpTo(limit, n) = limit
BY DEF UpTo

\* A link is of a button, and every button means an action.
LEMMA LinkTypes ==
  /\ \A device, b : <<device, b>> \in Links => b \in Buttons
  /\ \A m \in Mappings : m \in [Buttons -> Actions]
  /\ \A m \in Mappings : \A b \in Buttons : m[b] \in Actions
  /\ Default \in Mappings
<1>1. \A device, b : <<device, b>> \in Links => b \in Buttons
  <2> SUFFICES ASSUME NEW device, NEW b, <<device, b>> \in Links
               PROVE  b \in Buttons
    OBVIOUS
  <2>1. b = <<device, b>>[2]
    OBVIOUS
  <2> QED
    BY <2>1 DEF Buttons
<1>2. \A m \in Mappings : m \in [Buttons -> Actions]
  BY MappingsMap
<1> QED
  BY <1>1, <1>2, DefaultMaps
-----------------------------------------------------------------------------
(* Types *)

\* Handling any action keeps the types of what the controller has.
LEMMA HandleType ==
  ASSUME TypeOK, NEW a \in Actions, NEW by \in Buttons \cup {NoButton},
         Handle(a, by)
  PROVE  /\ mapping' \in Mappings
         /\ {confirm, asking, exited}' \subseteq BOOLEAN
         /\ acted' \in [action : Actions, by : Buttons \cup {NoButton}]
<1>1. mapping' \in Mappings
  BY DefaultMaps DEF TypeOK, Handle
<1>2. confirm' \in BOOLEAN /\ asking' \in BOOLEAN /\ exited' \in BOOLEAN
  BY DEF TypeOK, Handle
<1>3. acted' \in [action : Actions, by : Buttons \cup {NoButton}]
  BY DEF Handle
<1> QED
  BY <1>1, <1>2, <1>3

\* So does noting what the owner does.
LEMMA ActivityType ==
  ASSUME TypeOK, NEW active \in BOOLEAN, Activity(active)
  PROVE  saver' \in BOOLEAN /\ idleFor' \in 0..IdleDelay
BY Delayed DEF TypeOK, Activity

\* The flags of the chord are of its two buttons, and the chord's clock is kept
\* or starts anew.
LEMMA NoteButtonType ==
  ASSUME TypeOK, NEW b, NEW isDown \in BOOLEAN, NoteButton(b, isDown)
  PROVE  /\ flags' \subseteq {"Menu", "Start"}
         /\ chord' \in [active : BOOLEAN, emitted : BOOLEAN, for : 0..ChordHold]
<1>1. flags' \subseteq {"Menu", "Start"}
  BY DEF TypeOK, NoteButton
<1>2. NoChord \in [active : BOOLEAN, emitted : BOOLEAN, for : 0..ChordHold]
  BY Delayed DEF NoChord
<1>3. [NoChord EXCEPT !.active = TRUE]
        \in [active : BOOLEAN, emitted : BOOLEAN, for : 0..ChordHold]
  BY <1>2
<1> QED
  BY <1>1, <1>2, <1>3 DEF TypeOK, NoteButton

\* The history of the waking presses is of links.
LEMMA NoteWakeType ==
  ASSUME TypeOK, NEW l \in Links, NEW physical \in BOOLEAN, NoteWake(l, physical)
  PROVE  woke' \subseteq Links /\ overtaken' \subseteq Links
BY DEF TypeOK, NoteWake

\* A held button, an R2 and a chord that are not, and a silent step.
LEMMA RestTypes ==
  /\ NotHeld \in [action : Actions, button : Buttons \cup {NoButton},
                  for : 0..RepeatDelay]
  /\ NotPending \in [pending : BOOLEAN, emitted : BOOLEAN, for : 0..ShuffleHold,
                     short : Actions]
  /\ NoChord \in [active : BOOLEAN, emitted : BOOLEAN, for : 0..ChordHold]
  /\ Silence \in [action : Actions, by : Buttons \cup {NoButton}]
  /\ "None" \in Actions /\ "ToggleShuffle" \in Actions
  /\ "ResetButtonMapping" \in Actions
BY Delayed DEF NotHeld, NotPending, NoChord, Silence, Actions, Repeatable

\* A press keeps the types.
LEMMA PressType ==
  ASSUME TypeOK, NEW device, NEW b, Press(device, b)
  PROVE  TypeOK'
<1> DEFINE a == mapping[b]
           physical == device = "key" \/ b \notin Triggers
           wakes == Wakes(physical)
           delayed == Delays(b, a) /\ (device = "key" \/ b \in Triggers)
           due == IF delayed \/ suppressed = b THEN "None" ELSE a
           handled == IF wakes THEN "None" ELSE due
           holds == device = "pad" /\ physical /\ a \in Repeatable
<1>1. b \in Buttons /\ a \in Actions /\ <<device, b>> \in Links
  BY LinkTypes DEF Press, TypeOK
<1>2. handled \in Actions /\ (physical \/ handled # "None") \in BOOLEAN
  BY <1>1, RestTypes
<1>3. Handle(handled, b) /\ Activity(physical \/ handled # "None")
        /\ NoteButton(b, TRUE)
  BY DEF Press
<1>4. /\ mapping' \in Mappings
      /\ {confirm, asking, exited}' \subseteq BOOLEAN
      /\ acted' \in [action : Actions, by : Buttons \cup {NoButton}]
  <2> HIDE DEF handled
  <2> QED
    BY <1>1, <1>2, <1>3, HandleType
<1>5. saver' \in BOOLEAN /\ idleFor' \in 0..IdleDelay
  BY <1>2, <1>3, ActivityType
<1>6. /\ flags' \subseteq {"Menu", "Start"}
      /\ chord' \in [active : BOOLEAN, emitted : BOOLEAN, for : 0..ChordHold]
  BY <1>3, NoteButtonType
<1>7. down' \subseteq Links
  BY <1>1 DEF Press, TypeOK
<1>8. /\ {current, suppressed}' \subseteq Buttons \cup {NoButton}
      /\ woke' \subseteq Links /\ overtaken' \subseteq Links
  <2>1. physical \in BOOLEAN /\ NoteWake(<<device, b>>, physical)
    BY DEF Press
  <2> QED
    BY <1>1, <2>1, NoteWakeType DEF Press, TypeOK
<1>9. held' \in [action : Actions, button : Buttons \cup {NoButton},
                 for : 0..RepeatDelay]
  <2>1. [action |-> a, button |-> b, for |-> 0]
          \in [action : Actions, button : Buttons \cup {NoButton},
               for : 0..RepeatDelay]
    BY <1>1, Delayed
  <2> QED
    BY <2>1 DEF Press, TypeOK
<1>10. sinceRepeat' \in 0..RepeatEvery
  BY Delayed DEF Press, TypeOK
<1>11. r2' \in [pending : BOOLEAN, emitted : BOOLEAN, for : 0..ShuffleHold,
                short : Actions]
  <2>1. [NotPending EXCEPT !.pending = TRUE, !.short = a]
          \in [pending : BOOLEAN, emitted : BOOLEAN, for : 0..ShuffleHold,
               short : Actions]
    BY <1>1, RestTypes
  <2> QED
    BY <2>1 DEF Press, TypeOK
<1>12. r2Acts' \in 0..2 /\ bothFor' \in 0..ChordHold
  BY DEF Press, TypeOK
<1> QED
  BY <1>4, <1>5, <1>6, <1>7, <1>8, <1>9, <1>10, <1>11, <1>12 DEF TypeOK

\* So does a repeat by the operating system.
LEMMA KeyRepeatType ==
  ASSUME TypeOK, NEW b \in Buttons, KeyRepeat(b)
  PROVE  TypeOK'
<1> DEFINE due == mapping[b] \in Repeatable /\ sinceRepeat >= RepeatEvery
           handled == IF due /\ suppressed # b /\ ~Wakes(TRUE) THEN mapping[b]
                      ELSE "None"
<1>1. handled \in Actions
  BY LinkTypes, RestTypes DEF TypeOK
<1>2. Handle(handled, b) /\ Activity(TRUE)
  BY DEF KeyRepeat
<1>3. /\ mapping' \in Mappings
      /\ {confirm, asking, exited}' \subseteq BOOLEAN
      /\ acted' \in [action : Actions, by : Buttons \cup {NoButton}]
  <2> HIDE DEF handled
  <2> QED
    BY <1>1, <1>2, HandleType
<1>4. saver' \in BOOLEAN /\ idleFor' \in 0..IdleDelay
  BY <1>2, ActivityType
<1>5. sinceRepeat' \in 0..RepeatEvery
  BY Delayed DEF KeyRepeat, TypeOK
<1>6. /\ {current, suppressed}' \subseteq Buttons \cup {NoButton}
      /\ woke' \subseteq Links /\ overtaken' \subseteq Links
  <2>1. <<"key", b>> \in Links /\ NoteWake(<<"key", b>>, TRUE)
    BY DEF KeyRepeat, TypeOK
  <2> QED
    BY <2>1, NoteWakeType DEF KeyRepeat, TypeOK
<1>7. UNCHANGED <<down, held, r2, flags, chord, r2Acts, bothFor>>
  BY DEF KeyRepeat
<1> QED
  BY <1>3, <1>4, <1>5, <1>6, <1>7 DEF TypeOK

\* So does a release.
LEMMA ReleaseType ==
  ASSUME TypeOK, NEW device, NEW b, Release(device, b)
  PROVE  TypeOK'
<1> DEFINE ends == b = "R2" /\ r2.pending
           handled == IF ends /\ ~r2.emitted /\ ~Suppresses(b) THEN r2.short
                      ELSE "None"
<1>1. b \in Buttons
  BY LinkTypes DEF Release, TypeOK
<1>2. handled \in Actions
  BY RestTypes DEF TypeOK
<1>3. Handle(handled, b) /\ Activity(handled # "None") /\ NoteButton(b, FALSE)
  BY DEF Release
<1>4. /\ mapping' \in Mappings
      /\ {confirm, asking, exited}' \subseteq BOOLEAN
      /\ acted' \in [action : Actions, by : Buttons \cup {NoButton}]
  <2> HIDE DEF handled
  <2> QED
    BY <1>1, <1>2, <1>3, HandleType
<1>5. saver' \in BOOLEAN /\ idleFor' \in 0..IdleDelay
  BY <1>3, ActivityType
<1>6. /\ flags' \subseteq {"Menu", "Start"}
      /\ chord' \in [active : BOOLEAN, emitted : BOOLEAN, for : 0..ChordHold]
  BY <1>3, NoteButtonType
<1>7. down' \subseteq Links /\ sinceRepeat' \in 0..RepeatEvery
  BY DEF Release, TypeOK
<1>8. /\ {current, suppressed}' \subseteq Buttons \cup {NoButton}
      /\ woke' \subseteq Links /\ overtaken' \subseteq Links
  BY DEF Release, TypeOK
<1>9. held' \in [action : Actions, button : Buttons \cup {NoButton},
                 for : 0..RepeatDelay]
  BY RestTypes DEF Release, Released, TypeOK
<1>10. r2' \in [pending : BOOLEAN, emitted : BOOLEAN, for : 0..ShuffleHold,
                short : Actions]
  BY RestTypes DEF Release, TypeOK
<1>11. r2Acts' \in 0..2
  <2>1. r2Acts' \in {r2Acts, UpTo(2, r2Acts)}
    BY DEF Release
  <2> QED
    BY <2>1, UpToType DEF TypeOK
<1>12. bothFor' \in 0..ChordHold
  BY Delayed DEF Release, TypeOK
<1> QED
  BY <1>4, <1>5, <1>6, <1>7, <1>8, <1>9, <1>10, <1>11, <1>12 DEF TypeOK

\* R2 waits for its release only as long as it is held.
R2Held == r2.pending => \E l \in down : l[2] = "R2"

\* So does a turn of the loop; that Shuffle is of a button takes that R2 is held.
LEMMA FrameType ==
  ASSUME TypeOK, R2Held, Frame
  PROVE  TypeOK'
<1> DEFINE chordFor == IF chord.active THEN UpTo(ChordHold, chord.for) ELSE 0
           r2For == IF r2.pending THEN UpTo(ShuffleHold, r2.for) ELSE 0
           heldFor == IF held.action # "None" THEN UpTo(RepeatDelay, held.for)
                      ELSE held.for
           since == UpTo(RepeatEvery, sinceRepeat)
           restores == ChordDue(chordFor)
           shuffles == ~restores /\ ShuffleDue(r2For)
           repeats == ~restores /\ ~shuffles /\ RepeatDue(heldFor, since)
           idle == IF restores \/ shuffles \/ repeats THEN 0
                   ELSE UpTo(IdleDelay, idleFor)
           handled == IF restores THEN "ResetButtonMapping"
                      ELSE IF shuffles THEN "ToggleShuffle"
                      ELSE IF repeats THEN held.action ELSE "None"
           by == IF shuffles THEN "R2"
                 ELSE IF repeats THEN held.button ELSE NoButton
<1>1. chordFor \in 0..ChordHold /\ r2For \in 0..ShuffleHold
        /\ heldFor \in 0..RepeatDelay /\ since \in 0..RepeatEvery
        /\ idle \in 0..IdleDelay
  <2>1. chord.for \in 0..ChordHold /\ r2.for \in 0..ShuffleHold
          /\ held.for \in 0..RepeatDelay
    BY DEF TypeOK
  <2>2. UpTo(ChordHold, chord.for) \in 0..ChordHold
          /\ UpTo(ShuffleHold, r2.for) \in 0..ShuffleHold
          /\ UpTo(RepeatDelay, held.for) \in 0..RepeatDelay
          /\ UpTo(RepeatEvery, sinceRepeat) \in 0..RepeatEvery
          /\ UpTo(IdleDelay, idleFor) \in 0..IdleDelay
    BY <2>1, UpToType, Delayed DEF TypeOK
  <2> QED
    BY <2>1, <2>2, Delayed
<1>2. restores \in BOOLEAN /\ shuffles \in BOOLEAN /\ repeats \in BOOLEAN
  BY DEF ChordDue, ShuffleDue, RepeatDue
<1>3. handled \in Actions
  BY RestTypes DEF TypeOK
<1>4. by \in Buttons \cup {NoButton}
  <2>1. r2.pending => "R2" \in Buttons
    BY DEF R2Held, Buttons, TypeOK
  <2> QED
    BY <2>1 DEF ShuffleDue, TypeOK
<1>5. Handle(handled, by)
  BY DEF Frame
<1>6. /\ mapping' \in Mappings
      /\ {confirm, asking, exited}' \subseteq BOOLEAN
      /\ acted' \in [action : Actions, by : Buttons \cup {NoButton}]
  <2> HIDE DEF handled, by
  <2> QED
    BY <1>3, <1>4, <1>5, HandleType
<1> HIDE DEF chordFor, r2For, heldFor, since, restores, shuffles, repeats, idle
<1>7. /\ chord' = [chord EXCEPT !.for = chordFor, !.emitted = @ \/ restores]
      /\ r2' = [r2 EXCEPT !.for = r2For, !.emitted = @ \/ shuffles]
      /\ held' = IF restores THEN [held EXCEPT !.action = "None"]
                 ELSE [held EXCEPT !.for = heldFor]
      /\ sinceRepeat' = (IF repeats THEN 0 ELSE since)
      /\ idleFor' = idle /\ saver' = (idle >= IdleDelay)
      /\ r2Acts' = IF shuffles THEN UpTo(2, r2Acts) ELSE r2Acts
      /\ bothFor' = IF BothDown(down) THEN UpTo(ChordHold, bothFor) ELSE 0
      /\ UNCHANGED <<down, current, suppressed, flags, woke, overtaken>>
  BY DEF Frame, chordFor, r2For, heldFor, since, restores, shuffles, repeats, idle
<1>8. chord' \in [active : BOOLEAN, emitted : BOOLEAN, for : 0..ChordHold]
  BY <1>1, <1>2, <1>7 DEF TypeOK
<1>9. r2' \in [pending : BOOLEAN, emitted : BOOLEAN, for : 0..ShuffleHold,
               short : Actions]
  BY <1>1, <1>2, <1>7 DEF TypeOK
<1>10. held' \in [action : Actions, button : Buttons \cup {NoButton},
                  for : 0..RepeatDelay]
  BY <1>1, <1>2, <1>7, RestTypes DEF TypeOK
<1>11. sinceRepeat' \in 0..RepeatEvery
  BY <1>1, <1>2, <1>7, Delayed
<1>12. saver' \in BOOLEAN /\ idleFor' \in 0..IdleDelay
  BY <1>1, <1>7
<1>13. r2Acts' \in 0..2 /\ bothFor' \in 0..ChordHold
  BY <1>7, UpToType, Delayed DEF TypeOK
<1> QED
  BY <1>6, <1>7, <1>8, <1>9, <1>10, <1>11, <1>12, <1>13 DEF TypeOK

\* R2 waits only while it is held, whatever happens.
LEMMA R2HeldStep ==
  ASSUME TypeOK, R2Held, [Next]_vars
  PROVE  R2Held'
<1>1. ASSUME NEW device, NEW b, Press(device, b)
      PROVE  R2Held'
  <2>1. CASE r2' = r2
    BY <1>1, <2>1 DEF Press, R2Held
  <2>2. CASE r2' # r2
    <3>1. b = "R2" /\ <<device, b>> \in down'
      BY <1>1, <2>2 DEF Press, Delays
    <3>2. <<device, b>>[2] = "R2"
      BY <3>1
    <3> QED
      BY <3>1, <3>2 DEF R2Held
  <2> QED
    BY <2>1, <2>2
<1>2. ASSUME NEW device, NEW b, Release(device, b)
      PROVE  R2Held'
  <2> SUFFICES ASSUME r2'.pending
               PROVE  \E l \in down' : l[2] = "R2"
    BY DEF R2Held
  <2>1. r2' = r2 /\ b # "R2"
    BY <1>2 DEF Release, NotPending
  <2>2. PICK l \in down : l[2] = "R2"
    BY <2>1 DEF R2Held
  <2>3. l # <<device, b>>
    BY <2>1, <2>2
  <2> QED
    BY <1>2, <2>2, <2>3 DEF Release
<1>3. ASSUME NEW b \in Buttons, KeyRepeat(b)
      PROVE  R2Held'
  BY <1>3 DEF KeyRepeat, R2Held
<1>4. CASE Frame
  <2>1. down' = down /\ r2'.pending = r2.pending
    BY <1>4 DEF Frame, TypeOK
  <2> QED
    BY <2>1 DEF R2Held
<1>5. ASSUME NEW m \in Mappings, Remap(m)
      PROVE  R2Held'
  BY <1>5 DEF Remap, timers, R2Held
<1>6. CASE UNCHANGED vars
  BY <1>6 DEF vars, timers, R2Held
<1> QED
  BY <1>1, <1>2, <1>3, <1>4, <1>5, <1>6 DEF Next

\* Both hold from the start and are kept.
LEMMA TypesKept == Spec => [](TypeOK /\ R2Held)
<1>1. Init => TypeOK /\ R2Held
  <2> SUFFICES ASSUME Init
               PROVE  TypeOK /\ R2Held
    OBVIOUS
  <2>1. R2Held
    BY DEF Init, R2Held, NotPending
  <2>2. down \subseteq Links /\ mapping \in Mappings /\ flags \subseteq {"Menu", "Start"}
          /\ {current, suppressed} \subseteq Buttons \cup {NoButton}
          /\ woke \subseteq Links /\ overtaken \subseteq Links
          /\ {saver, confirm, asking, exited} \subseteq BOOLEAN
    BY DEF Init
  <2>3. sinceRepeat \in 0..RepeatEvery /\ idleFor \in 0..IdleDelay
          /\ r2Acts \in 0..2 /\ bothFor \in 0..ChordHold
    BY Delayed DEF Init
  <2> QED
    BY <2>1, <2>2, <2>3, RestTypes DEF Init, TypeOK
<1>2. TypeOK /\ R2Held /\ [Next]_vars => (TypeOK /\ R2Held)'
  <2> SUFFICES ASSUME TypeOK, R2Held, [Next]_vars
               PROVE  TypeOK'
    BY R2HeldStep
  <2>1. ASSUME NEW m \in Mappings, Remap(m)
        PROVE  TypeOK'
    BY <2>1, RestTypes DEF Remap, timers, press, history, TypeOK
  <2>2. CASE UNCHANGED vars
    BY <2>2 DEF vars, timers, press, controller, history, TypeOK
  <2> QED
    BY <2>1, <2>2, PressType, ReleaseType, KeyRepeatType, FrameType DEF Next
<1> QED
  BY <1>1, <1>2, PTL DEF Spec

\* Every variable has its type, whatever is pressed, held, remapped or restored:
\* in particular the clocks stop at their delays, and what a step acts on is an
\* action, by a button there is.
THEOREM TypeCorrect == Spec => []TypeOK
BY TypesKept, PTL
-----------------------------------------------------------------------------
(* R2 on Favorites *)

\* As long as R2 waits for its release its press has given Shuffle, if that was
\* emitted, and nothing else; afterwards it has given one action at most.
R2Counted ==
  /\ r2.pending => r2Acts = IF r2.emitted THEN 1 ELSE 0
  /\ r2Acts \in 0..1

\* Every step keeps the count.
LEMMA R2CountedStep ==
  ASSUME TypeOK, R2Held, R2Counted, [Next]_vars
  PROVE  R2Counted'
<1>1. ASSUME NEW device, NEW b, Press(device, b)
      PROVE  R2Counted'
  <2>1. CASE b # "R2"
    BY <1>1, <2>1 DEF Press, Delays, R2Counted
  <2>2. CASE b = "R2"
    <3>1. ~r2.pending
      BY <1>1, <2>2 DEF Press, R2Held
    <3>2. r2Acts' \in 0..1
      BY <1>1, <2>2 DEF Press
    <3>3. CASE r2' = r2
      BY <3>1, <3>2, <3>3 DEF R2Counted
    <3>4. CASE r2' # r2
      <4>1. Delays(b, mapping[b]) /\ b \in Triggers
        BY <1>1, <2>2, <3>4 DEF Press, Triggers
      <4>2. r2Acts' = 0
        BY <1>1, <2>2, <4>1 DEF Press, Gestures
      <4>3. r2' = [NotPending EXCEPT !.pending = TRUE, !.short = mapping[b]]
        BY <1>1, <3>4 DEF Press
      <4>4. ~r2'.emitted
        BY <4>3 DEF NotPending
      <4> QED
        BY <3>2, <4>2, <4>4 DEF R2Counted
    <3> QED
      BY <3>3, <3>4
  <2> QED
    BY <2>1, <2>2
<1>2. ASSUME NEW device, NEW b, Release(device, b)
      PROVE  R2Counted'
  <2>1. CASE b = "R2" /\ r2.pending
    <3>1. ~r2'.pending
      BY <1>2, <2>1 DEF Release, NotPending
    <3>2. r2.emitted => r2Acts' = r2Acts
      BY <1>2, <2>1 DEF Release
    <3>3. ~r2.emitted => r2Acts' \in 0..1
      BY <1>2, <2>1 DEF Release, R2Counted, UpTo
    <3> QED
      BY <3>1, <3>2, <3>3 DEF R2Counted
  <2>2. CASE ~(b = "R2" /\ r2.pending)
    BY <1>2, <2>2 DEF Release, R2Counted
  <2> QED
    BY <2>1, <2>2
<1>3. ASSUME NEW b \in Buttons, KeyRepeat(b)
      PROVE  R2Counted'
  BY <1>3 DEF KeyRepeat, R2Counted
<1>4. CASE Frame
  <2> DEFINE chordFor == IF chord.active THEN UpTo(ChordHold, chord.for) ELSE 0
             r2For == IF r2.pending THEN UpTo(ShuffleHold, r2.for) ELSE 0
             shuffles == ~ChordDue(chordFor) /\ ShuffleDue(r2For)
  <2>1. /\ shuffles => r2.pending /\ ~r2.emitted
        /\ r2' = [r2 EXCEPT !.for = r2For, !.emitted = @ \/ shuffles]
        /\ r2Acts' = IF shuffles THEN UpTo(2, r2Acts) ELSE r2Acts
        /\ shuffles \in BOOLEAN
    BY <1>4 DEF Frame, ShuffleDue
  <2> HIDE DEF r2For, shuffles
  <2>2. r2'.pending = r2.pending /\ r2'.emitted = (r2.emitted \/ shuffles)
    BY <2>1 DEF TypeOK
  <2>3. CASE shuffles
    <3>1. r2.pending /\ ~r2.emitted
      BY <2>1, <2>3
    <3>2. r2Acts' = 1
      BY <2>1, <2>3, <3>1 DEF R2Counted, UpTo
    <3>3. r2'.emitted
      BY <2>2, <2>3
    <3> QED
      BY <3>2, <3>3 DEF R2Counted
  <2>4. CASE ~shuffles
    BY <2>1, <2>2, <2>4 DEF R2Counted, TypeOK
  <2> QED
    BY <2>3, <2>4
<1>5. ASSUME NEW m \in Mappings, Remap(m)
      PROVE  R2Counted'
  BY <1>5 DEF Remap, timers, history, R2Counted
<1>6. CASE UNCHANGED vars
  BY <1>6 DEF vars, timers, history, R2Counted
<1> QED
  BY <1>1, <1>2, <1>3, <1>4, <1>5, <1>6 DEF Next

\* A press of R2 gives Favorites or Shuffle once at most: for all delays, with
\* any mapping saved or restored while it is held, and whether the remote sleeps.
THEOREM R2ActsOnce == Spec => []OneActionPerR2Press
<1>1. Init => R2Counted
  BY DEF Init, NotPending, R2Counted
<1>2. R2Counted => OneActionPerR2Press
  BY DEF R2Counted, OneActionPerR2Press
<1> QED
  BY <1>1, <1>2, R2CountedStep, TypesKept, PTL DEF Spec
-----------------------------------------------------------------------------
(* The press that wakes *)

\* A button is held on one device only; the waking presses are of what is held;
\* and the one of them that no other has overtaken is what is suppressed, unless
\* it is a trigger's, which the runtime never takes for a waking press.
Awoken ==
  /\ \A l, m \in down : l[2] = m[2] => l = m
  /\ woke \subseteq down
  /\ \A l \in woke \ (PadTriggers \cup overtaken) : suppressed = l[2]

\* A press or a key repeat that the runtime takes for a waking one is from then
\* on the only one that nothing has overtaken; any other leaves the rest alone.
LEMMA NoteWakeKeeps ==
  ASSUME Awoken, NEW l, NEW physical \in BOOLEAN, NoteWake(l, physical),
         suppressed' = (IF Wakes(physical) THEN l[2] ELSE suppressed),
         physical \/ l \in PadTriggers
  PROVE  /\ \A m \in woke' \ (PadTriggers \cup overtaken') : suppressed' = m[2]
         /\ woke' \subseteq woke \cup {l}
BY DEF Awoken, NoteWake, Wakes

\* Every step keeps that.
LEMMA AwokenStep ==
  ASSUME TypeOK, Awoken, [Next]_vars
  PROVE  Awoken'
<1>1. ASSUME NEW device, NEW b, Press(device, b)
      PROVE  Awoken'
  <2> DEFINE l == <<device, b>>
             physical == device = "key" \/ b \notin Triggers
  <2>1. /\ l \in Links /\ \A m \in down : m[2] # b
        /\ down' = down \cup {l} /\ l[1] = device /\ l[2] = b
        /\ NoteWake(l, physical) /\ physical \in BOOLEAN
        /\ suppressed' = IF Wakes(physical) THEN l[2] ELSE suppressed
    BY <1>1 DEF Press
  <2>2. physical \/ l \in PadTriggers
    BY <2>1, LinksAreDevices DEF PadTriggers
  <2> HIDE DEF l, physical
  <2>3. /\ \A m \in woke' \ (PadTriggers \cup overtaken') : suppressed' = m[2]
        /\ woke' \subseteq woke \cup {l}
    BY <2>1, <2>2, NoteWakeKeeps
  <2>4. \A k, m \in down' : k[2] = m[2] => k = m
    BY <2>1 DEF Awoken
  <2> QED
    BY <2>1, <2>3, <2>4 DEF Awoken, PadTriggers
<1>2. ASSUME NEW device, NEW b, Release(device, b)
      PROVE  Awoken'
  <2> DEFINE l == <<device, b>>
  <2>1. /\ l \in down /\ l[2] = b
        /\ down' = down \ {l} /\ woke' = woke \ {l} /\ overtaken' = overtaken \ {l}
        /\ suppressed' = IF suppressed = b THEN NoButton ELSE suppressed
    BY <1>2 DEF Release
  <2> HIDE DEF l
  <2>2. \A m \in woke' : m \in woke /\ m[2] # b
    BY <2>1 DEF Awoken
  <2>3. \A m \in woke' \ (PadTriggers \cup overtaken') :
          m \in woke \ (PadTriggers \cup overtaken)
    BY <2>1, <2>2
  <2> QED
    BY <2>1, <2>2, <2>3 DEF Awoken, PadTriggers
<1>3. ASSUME NEW b \in Buttons, KeyRepeat(b)
      PROVE  Awoken'
  <2> DEFINE l == <<"key", b>>
  <2>1. /\ l \in down /\ down' = down /\ NoteWake(l, TRUE)
        /\ suppressed' = IF Wakes(TRUE) THEN l[2] ELSE suppressed
    BY <1>3 DEF KeyRepeat
  <2> HIDE DEF l
  <2>2. /\ \A m \in woke' \ (PadTriggers \cup overtaken') : suppressed' = m[2]
        /\ woke' \subseteq woke \cup {l}
    BY <2>1, NoteWakeKeeps
  <2> QED
    BY <2>1, <2>2 DEF Awoken, PadTriggers
<1>4. CASE Frame
  BY <1>4 DEF Frame, Awoken, PadTriggers
<1>5. ASSUME NEW m \in Mappings, Remap(m)
      PROVE  Awoken'
  BY <1>5 DEF Remap, press, history, Awoken, PadTriggers
<1>6. CASE UNCHANGED vars
  BY <1>6 DEF vars, press, history, Awoken, PadTriggers
<1> QED
  BY <1>1, <1>2, <1>3, <1>4, <1>5, <1>6 DEF Next

\* A step that acts for the button of a waking press that is remembered, or that
\* is just being made, would act for what is suppressed.
LEMMA SilentStep ==
  ASSUME TypeOK, Awoken, [Next]_vars
  PROVE  [~ActsFor((woke \cup woke') \ (PadTriggers \cup overtaken))]_vars
<1> SUFFICES ASSUME Next, acted'.action # "None",
                    NEW l \in (woke \cup woke') \ (PadTriggers \cup overtaken),
                    acted'.by = l[2]
             PROVE  FALSE
  BY DEF vars, ActsFor
<1>0. l \in woke => l \in down /\ suppressed = l[2]
  BY DEF Awoken
<1>1. ASSUME NEW device, NEW b, Press(device, b)
      PROVE  FALSE
  <2>1. acted'.by = b /\ \A m \in down : m[2] # b
    BY <1>1 DEF Press, Handle
  <2>2. l \notin woke
    BY <1>0, <2>1
  <2>3. saver /\ l = <<device, b>>
    BY <1>1, <2>2 DEF Press, NoteWake
  <2>4. device = "key" \/ b \notin Triggers
    <3>1. l \in Links /\ l[1] = device /\ l[2] = b
      BY <1>1, <2>3 DEF Press
    <3> QED
      BY <3>1, LinksAreDevices DEF PadTriggers
  <2>5. acted'.action = "None"
    BY <1>1, <2>3, <2>4 DEF Press, Wakes, Handle
  <2> QED
    BY <2>5
<1>2. ASSUME NEW device, NEW b, Release(device, b)
      PROVE  FALSE
  <2>1. l \in woke
    BY <1>2 DEF Release
  <2> QED
    BY <1>0, <1>2, <2>1 DEF Release, Handle, Suppresses
<1>3. ASSUME NEW b \in Buttons, KeyRepeat(b)
      PROVE  FALSE
  <2>1. suppressed # b /\ ~saver /\ acted'.by = b
    BY <1>3 DEF KeyRepeat, Handle, Wakes
  <2>2. l \in woke
    BY <1>3, <2>1 DEF KeyRepeat, NoteWake
  <2> QED
    BY <1>0, <2>1, <2>2
<1>4. CASE Frame
  <2>1. l \in woke
    BY <1>4 DEF Frame
  <2>2. l[2] \in Buttons
    BY <2>1 DEF TypeOK, Buttons
  <2>3. suppressed = acted'.by /\ acted'.by # NoButton
    BY <1>0, <2>1, <2>2, NoSuchButton
  <2> QED
    BY <1>4, <2>3 DEF Frame, Handle, ShuffleDue, RepeatDue, Suppresses
<1>5. ASSUME NEW m \in Mappings, Remap(m)
      PROVE  FALSE
  BY <1>5 DEF Remap, Silence
<1> QED
  BY <1>1, <1>2, <1>3, <1>4, <1>5 DEF Next

\* A waking press does nothing until its release, by any route, as long as no
\* other press wakes the remote meanwhile.  It is about every key and button but
\* a pad's triggers, for which the runs find the contrary.
THEOREM WakingIsSilent == Spec => WakePressIsRemembered
<1>1. Init => Awoken
  BY DEF Init, Awoken
<1> QED
  BY <1>1, AwokenStep, SilentStep, TypesKept, PTL DEF Spec, WakePressIsRemembered
-----------------------------------------------------------------------------
(* Menu and Start *)

\* The chord is on exactly while its two buttons are down, and its clock is the
\* time for which they are; once emitted it has run to its end.
ChordTracked ==
  /\ \A l, m \in down : l[2] = m[2] => l = m
  /\ flags = {b \in {"Menu", "Start"} : \E l \in down : l[2] = b}
  /\ chord.active <=> flags = {"Menu", "Start"}
  /\ ~chord.active => chord.for = 0
  /\ bothFor = chord.for
  /\ chord.emitted => chord.for = ChordHold

\* The flags tell whether both buttons are down.
LEMMA FlagsTell ==
  ASSUME NEW links, NEW set,
         set = {b \in {"Menu", "Start"} : \E l \in links : l[2] = b}
  PROVE  BothDown(links) <=> set = {"Menu", "Start"}
BY DEF BothDown

\* A press keeps that: the button was not down.
LEMMA ChordPress ==
  ASSUME TypeOK, ChordTracked, NEW device, NEW b, Press(device, b)
  PROVE  ChordTracked'
<1>1. /\ down' = down \cup {<<device, b>>} /\ \A l \in down : l[2] # b
      /\ NoteButton(b, TRUE) /\ bothFor' = bothFor
  BY DEF Press
<1>2. <<device, b>>[2] = b
  OBVIOUS
<1>3. \A l, m \in down' : l[2] = m[2] => l = m
  BY <1>1, <1>2 DEF ChordTracked
<1>4. flags' = {x \in {"Menu", "Start"} : \E l \in down' : l[2] = x}
  <2>1. \A x : (\E l \in down' : l[2] = x)
                 <=> (x = b \/ \E l \in down : l[2] = x)
    BY <1>1, <1>2
  <2>2. \A x : x \in flags' <=> (x \in flags \/ (x = b /\ b \in {"Menu", "Start"}))
    BY <1>1 DEF NoteButton
  <2> QED
    BY <2>1, <2>2 DEF ChordTracked
<1>5. CASE flags' # {"Menu", "Start"}
  <2>1. chord' = NoChord /\ flags # {"Menu", "Start"}
    <3>1. flags \subseteq flags' /\ flags' \subseteq {"Menu", "Start"}
      BY <1>1 DEF NoteButton, TypeOK
    <3> QED
      BY <1>1, <1>5, <3>1 DEF NoteButton
  <2>2. bothFor = 0
    BY <2>1 DEF ChordTracked
  <2> QED
    BY <1>1, <1>3, <1>4, <1>5, <2>1, <2>2 DEF ChordTracked, NoChord
<1>6. CASE flags' = {"Menu", "Start"} /\ chord.active
  <2>1. chord' = chord
    BY <1>1, <1>6 DEF NoteButton
  <2> QED
    BY <1>1, <1>3, <1>4, <1>6, <2>1 DEF ChordTracked
<1>7. CASE flags' = {"Menu", "Start"} /\ ~chord.active
  <2>1. chord' = [NoChord EXCEPT !.active = TRUE]
    BY <1>1, <1>7 DEF NoteButton
  <2>2. chord'.active /\ chord'.for = 0 /\ ~chord'.emitted
    BY <2>1 DEF NoChord
  <2> QED
    BY <1>1, <1>3, <1>4, <1>7, <2>2 DEF ChordTracked
<1> QED
  BY <1>5, <1>6, <1>7

\* So does a release: nobody holds a button on both devices.
LEMMA ChordRelease ==
  ASSUME TypeOK, ChordTracked, NEW device, NEW b, Release(device, b)
  PROVE  ChordTracked'
<1>1. /\ down' = down \ {<<device, b>>} /\ <<device, b>> \in down
      /\ NoteButton(b, FALSE)
      /\ bothFor' = IF BothDown(down') THEN bothFor ELSE 0
  BY DEF Release
<1>2. <<device, b>>[2] = b
  OBVIOUS
<1>3. \A l, m \in down' : l[2] = m[2] => l = m
  BY <1>1 DEF ChordTracked
<1>4. flags' = {x \in {"Menu", "Start"} : \E l \in down' : l[2] = x}
  <2>1. \A x : (\E l \in down' : l[2] = x)
                 <=> (x # b /\ \E l \in down : l[2] = x)
    BY <1>1, <1>2 DEF ChordTracked
  <2>2. \A x : x \in flags' <=> (x \in flags /\ (x # b \/ b \notin {"Menu", "Start"}))
    BY <1>1 DEF NoteButton
  <2> QED
    BY <2>1, <2>2 DEF ChordTracked
<1>5. BothDown(down') <=> flags' = {"Menu", "Start"}
  BY <1>4, FlagsTell
<1>6. CASE flags' # {"Menu", "Start"}
  BY <1>1, <1>3, <1>4, <1>5, <1>6 DEF ChordTracked, NoteButton, NoChord
<1>7. CASE flags' = {"Menu", "Start"}
  <2>1. flags = {"Menu", "Start"}
    <3>1. flags' \subseteq flags /\ flags \subseteq {"Menu", "Start"}
      BY <1>1 DEF NoteButton, TypeOK
    <3> QED
      BY <1>7, <3>1
  <2>2. chord' = chord /\ bothFor' = bothFor
    BY <1>1, <1>5, <1>7, <2>1 DEF ChordTracked, NoteButton
  <2> QED
    BY <1>3, <1>4, <1>7, <2>1, <2>2 DEF ChordTracked
<1> QED
  BY <1>6, <1>7

\* What a turn of the loop does to the chord.
LEMMA FrameChord ==
  ASSUME TypeOK, ChordTracked, Frame
  PROVE  /\ down' = down /\ flags' = flags
         /\ chord'.active = chord.active
         /\ chord'.for = IF chord.active THEN UpTo(ChordHold, chord.for) ELSE 0
         /\ bothFor' = chord'.for
         /\ chord'.emitted = (chord.emitted \/ (chord.active /\ chord'.for = ChordHold))
         /\ ~chord.emitted /\ chord'.emitted => mapping' = Default
<1> DEFINE chordFor == IF chord.active THEN UpTo(ChordHold, chord.for) ELSE 0
           restores == ChordDue(chordFor)
<1>1. chord.for \in 0..ChordHold /\ chordFor \in 0..ChordHold
  BY UpToType, Delayed DEF TypeOK
<1>2. restores = (chord.active /\ ~chord.emitted /\ chordFor = ChordHold)
  BY <1>1, Delayed DEF ChordDue, TypeOK
<1>3. /\ chord' = [chord EXCEPT !.for = chordFor, !.emitted = @ \/ restores]
      /\ down' = down /\ flags' = flags
      /\ bothFor' = IF BothDown(down) THEN UpTo(ChordHold, bothFor) ELSE 0
      /\ restores => mapping' = Default
  BY DEF Frame, Handle
<1>4. BothDown(down) <=> chord.active
  <2>1. flags = {b \in {"Menu", "Start"} : \E l \in down : l[2] = b}
    BY DEF ChordTracked
  <2>2. BothDown(down) <=> flags = {"Menu", "Start"}
    BY <2>1, FlagsTell
  <2> QED
    BY <2>2 DEF ChordTracked
<1> HIDE DEF restores, chordFor
<1>5. /\ chord'.for = chordFor /\ chord'.active = chord.active
      /\ chord'.emitted = (chord.emitted \/ restores)
  BY <1>3 DEF TypeOK
<1>6. bothFor' = chordFor
  BY <1>3, <1>4 DEF ChordTracked, chordFor
<1>7. chord'.emitted = (chord.emitted \/ (chord.active /\ chordFor = ChordHold))
  BY <1>2, <1>5 DEF TypeOK
<1>8. ~chord.emitted /\ chord'.emitted => mapping' = Default
  BY <1>3, <1>5
<1> QED
  BY <1>3, <1>5, <1>6, <1>7, <1>8 DEF chordFor

\* Every step keeps the chord in step with its buttons.
LEMMA ChordStep ==
  ASSUME TypeOK, ChordTracked, [Next]_vars
  PROVE  ChordTracked'
<1>1. ASSUME NEW b \in Buttons, KeyRepeat(b)
      PROVE  ChordTracked'
  BY <1>1 DEF KeyRepeat, ChordTracked
<1>2. CASE Frame
  <2>1. /\ down' = down /\ flags' = flags
        /\ chord'.active = chord.active
        /\ chord'.for = IF chord.active THEN UpTo(ChordHold, chord.for) ELSE 0
        /\ bothFor' = chord'.for
        /\ chord'.emitted = (chord.emitted \/ (chord.active /\ chord'.for = ChordHold))
    BY <1>2, FrameChord
  <2>2. chord.emitted => chord.active /\ UpTo(ChordHold, chord.for) = ChordHold
    BY UpToType, Delayed DEF ChordTracked, TypeOK
  <2> QED
    BY <2>1, <2>2 DEF ChordTracked
<1>3. ASSUME NEW m \in Mappings, Remap(m)
      PROVE  ChordTracked'
  BY <1>3 DEF Remap, timers, history, ChordTracked
<1>4. CASE UNCHANGED vars
  BY <1>4 DEF vars, timers, history, ChordTracked
<1> QED
  BY <1>1, <1>2, <1>3, <1>4, ChordPress, ChordRelease DEF Next

\* The step on which the two have been down for long enough restores the mapping.
LEMMA RestoreStep ==
  ASSUME TypeOK, ChordTracked, [Next]_vars, bothFor < ChordHold, bothFor' = ChordHold
  PROVE  mapping' = Default
<1>1. bothFor' # bothFor /\ bothFor' # 0
  BY Delayed DEF TypeOK
<1>2. Frame
  BY <1>1 DEF Next, vars, history, Press, Release, KeyRepeat, Remap
<1>3. ~chord.emitted /\ chord'.emitted
  <2>1. chord.for # ChordHold /\ chord'.for = ChordHold /\ chord'.for # 0
    BY <1>1, <1>2, FrameChord DEF ChordTracked
  <2> QED
    BY <1>2, <2>1, FrameChord DEF ChordTracked
<1> QED
  BY <1>2, <1>3, FrameChord

\* Menu and Start held together for the whole delay restore the default mapping:
\* whatever they are mapped to, whatever else is pressed, and also while the
\* saver is on.
THEOREM ChordAlwaysRestores == Spec => ChordRestores
<1>1. Init => ChordTracked
  BY DEF Init, NoChord, ChordTracked
<1>2. TypeOK /\ ChordTracked /\ [Next]_vars
        => [bothFor < ChordHold /\ bothFor' = ChordHold => mapping' = Default]_vars
  BY RestoreStep
<1> QED
  BY <1>1, <1>2, ChordStep, TypesKept, PTL DEF Spec, ChordRestores
-----------------------------------------------------------------------------
(* The queue *)

\* What a pop does to the queue: one element shorter, the others one place on.
LEMMA PopShifts ==
  ASSUME QueueTypeOK, Pop
  PROVE  /\ queue' \in Seq(Elements)
         /\ delivered' \in Seq(Elements)
         /\ Len(queue) \in Nat /\ Len(queue) > 0
         /\ Len(queue') = Len(queue) - 1
         /\ \A i \in DOMAIN queue' : i + 1 \in DOMAIN queue
                                     /\ queue'[i] = queue[i + 1]
BY DEF QueueTypeOK, Pop

\* What a worker's pop does: a pop that keeps the queue within its capacity, and
\* one element more to the worker's account when the program is being stopped.
LEMMA TakeShifts ==
  ASSUME QueueTypeOK, NEW c \in Consumers, Take(c)
  PROVE  /\ queue' \in Seq(Elements) /\ Len(queue') <= Capacity
         /\ delivered' \in Seq(Elements)
         /\ late' \in [Consumers -> Nat]
<1>1. Pop /\ (late' = late \/ late' = [late EXCEPT ![c] = late[c] + 1])
  BY DEF Take
<1>2. late' \in [Consumers -> Nat]
  <2>1. late \in [Consumers -> Nat] /\ late[c] + 1 \in Nat
    BY DEF QueueTypeOK
  <2> QED BY <1>1, <2>1
<1> QED BY <1>1, <1>2, PopShifts, CapacityIsNat DEF QueueTypeOK

\* Overwriting a position, whether the sequence has it or not, changes neither
\* the type of a sequence nor its length.
LEMMA ExceptIsSeq ==
  ASSUME NEW S, NEW s \in Seq(S), NEW i, NEW v \in S
  PROVE  /\ [s EXCEPT ![i] = v] \in Seq(S)
         /\ Len([s EXCEPT ![i] = v]) = Len(s)
<1>1. Len(s) \in Nat /\ s \in [1..Len(s) -> S]
  OBVIOUS
<1>2. [s EXCEPT ![i] = v] \in [1..Len(s) -> S]
  BY <1>1
<1> QED BY <1>1, <1>2, LenProperties

\* An accepted call is recorded, and its number is a stamp.
LEMMA AcceptedType ==
  ASSUME QueueTypeOK, NEW k \in Keys, Len(sent) < MaxSent, sent' = Append(sent, k)
  PROVE  /\ sent' \in Seq(Keys) /\ Len(sent') <= MaxSent
         /\ Len(sent) + 1 \in 1..MaxSent
<1>1. sent \in Seq(Keys) /\ Len(sent) \in Nat
  BY DEF QueueTypeOK
<1>2. sent' \in Seq(Keys) /\ Len(sent') = Len(sent) + 1
  BY <1>1
<1> QED BY <1>1, <1>2, MaxSentIsNat

\* replace_latest keeps the queue a sequence within its capacity and makes it
\* at most one longer.
LEMMA ReplaceLatestType ==
  ASSUME QueueTypeOK, NEW k \in Coalesced, ReplaceLatestOf(k)
  PROVE  /\ queue' \in Seq(Elements)
         /\ Len(queue') \in Nat /\ Len(queue) \in Nat
         /\ Len(queue') <= Capacity
         /\ Len(queue') <= Len(queue) + 1
         /\ sent' \in Seq(Keys) /\ Len(sent') <= MaxSent
<1> DEFINE v == [key |-> k, stamp |-> Len(sent) + 1]
<1>1. v \in Elements /\ sent' \in Seq(Keys) /\ Len(sent') <= MaxSent
  <2>1. k \in Keys /\ Len(sent) < MaxSent /\ sent' = Append(sent, k)
    BY CoalescedAreKeys DEF ReplaceLatestOf
  <2> QED BY <2>1, AcceptedType DEF Elements
<1>2. CASE Pending(k) = {}
  <2>1. queue' = Append(queue, v) /\ Len(queue) < Capacity
    BY <1>2 DEF ReplaceLatestOf, CanReplaceLatest, HasRoom, ReplaceLatest
  <2>2. queue' \in Seq(Elements) /\ Len(queue') = Len(queue) + 1
        /\ Len(queue) \in Nat
    BY <2>1, <1>1 DEF QueueTypeOK
  <2> QED BY <2>1, <2>2, <1>1, CapacityIsNat
<1>3. CASE Pending(k) # {}
  <2>1. queue' = [queue EXCEPT ![Latest(Pending(k))] = v]
    BY <1>3 DEF ReplaceLatestOf, ReplaceLatest
  <2> HIDE DEF v
  <2>2. queue' \in Seq(Elements) /\ Len(queue') = Len(queue)
        /\ Len(queue) \in Nat
    <3>1. queue \in Seq(Elements) /\ v \in Elements
      BY <1>1 DEF QueueTypeOK
    <3> QED BY <2>1, <3>1, ExceptIsSeq
  <2> QED BY <2>2, <1>1 DEF QueueTypeOK
<1> QED BY <1>2, <1>3

\* Every operation keeps the queue within its capacity and a thread in at most
\* one place: outside, asleep, or on its way back to the mutex.
THEOREM QueueTypeCorrect == QueueSpec => []QueueTypeOK
<1>1. QueueInit => QueueTypeOK
  <2> SUFFICES ASSUME QueueInit PROVE QueueTypeOK
    OBVIOUS
  <2>1. queue \in Seq(Elements) /\ Len(queue) <= Capacity
    BY EmptySeq, CapacityIsNat DEF QueueInit
  <2>2. sent \in Seq(Keys) /\ Len(sent) <= MaxSent
    BY EmptySeq, MaxSentIsNat DEF QueueInit
  <2> QED BY <2>1, <2>2 DEF QueueInit, QueueTypeOK
<1>2. QueueTypeOK /\ [QueueNext]_queueVars => QueueTypeOK'
  <2> SUFFICES ASSUME QueueTypeOK, [QueueNext]_queueVars PROVE QueueTypeOK'
    OBVIOUS
  <2>1. ASSUME NEW k \in Keys \ Coalesced, TryPush(k) PROVE QueueTypeOK'
    <3>1. /\ [key |-> k, stamp |-> Len(sent) + 1] \in Elements
          /\ sent' \in Seq(Keys) /\ Len(sent') <= MaxSent
      BY <2>1, AcceptedType DEF TryPush, Elements
    <3>2. queue' \in Seq(Elements) /\ Len(queue') <= Capacity
      BY <2>1, <3>1, CapacityIsNat DEF QueueTypeOK, TryPush, HasRoom
    <3> QED BY <2>1, <3>1, <3>2 DEF QueueTypeOK, TryPush, NotifyOne
  <2>2. ASSUME NEW k \in Coalesced, ReplaceLatestOf(k) PROVE QueueTypeOK'
    <3>1. queue' \in Seq(Elements) /\ Len(queue') <= Capacity
          /\ sent' \in Seq(Keys) /\ Len(sent') <= MaxSent
      BY <2>2, ReplaceLatestType
    <3> QED BY <2>2, <3>1 DEF QueueTypeOK, ReplaceLatestOf, NotifyOne
  <2>3. ASSUME NEW c \in Consumers, WaitPop(c) PROVE QueueTypeOK'
    <3>1. CASE Take(c) /\ UNCHANGED waiting
      BY <3>1, <2>3, TakeShifts DEF QueueTypeOK, WaitPop
    <3>2. CASE UNCHANGED <<queue, delivered, late>>
      BY <3>2, <2>3 DEF QueueTypeOK, WaitPop, Take
    <3> QED BY <3>1, <3>2, <2>3 DEF WaitPop
  <2>4. ASSUME NEW c \in Consumers, Timeout(c) PROVE QueueTypeOK'
    BY <2>4 DEF QueueTypeOK, Timeout
  <2>5. ASSUME NEW c \in Consumers, Resume(c) PROVE QueueTypeOK'
    <3>1. CASE Take(c) /\ UNCHANGED waiting
      BY <3>1, <2>5, TakeShifts DEF QueueTypeOK, Resume
    <3>2. CASE UNCHANGED <<queue, delivered, late>>
      BY <3>2, <2>5 DEF QueueTypeOK, Resume, Take
    <3> QED BY <3>1, <3>2, <2>5 DEF Resume
  <2>6. CASE TryPop
    BY <2>6, PopShifts, CapacityIsNat DEF QueueTypeOK, TryPop, Pop
  <2>7. CASE Close \/ Cancel \/ \E c \in Consumers : Enter(c)
    BY <2>7 DEF QueueTypeOK, Close, Cancel, Enter
  <2>8. CASE UNCHANGED queueVars
    BY <2>8 DEF QueueTypeOK, queueVars
  <2> QED BY <2>1, <2>2, <2>3, <2>4, <2>5, <2>6, <2>7, <2>8 DEF QueueNext
<1> QED BY <1>1, <1>2, PTL DEF QueueSpec
-----------------------------------------------------------------------------
\* A notification moves one thread from the wait set to the awake ones, so the
\* number of awake threads grows by one whenever somebody was asleep.
LEMMA NotifyCounts ==
  ASSUME QueueTypeOK, NotifyOne, waiting' # {}
  PROVE  /\ waiting # {}
         /\ Cardinality(awake) \in Nat
         /\ Cardinality(awake') = Cardinality(awake) + 1
<1>1. IsFiniteSet(awake) /\ Cardinality(awake) \in Nat
  BY ConsumersFinite, FS_Subset, FS_CardinalityType DEF QueueTypeOK
<1>2. PICK c \in waiting : awake' = awake \cup {c}
  BY DEF NotifyOne
<1>3. c \notin awake
  BY <1>2 DEF QueueTypeOK
<1> QED BY <1>1, <1>2, <1>3, FS_AddElement

\* A thread that reaches the mutex leaves the awake ones.
LEMMA ResumeCounts ==
  ASSUME QueueTypeOK, NEW c \in awake, awake' = awake \ {c}
  PROVE  /\ Cardinality(awake) \in Nat
         /\ Cardinality(awake') = Cardinality(awake) - 1
BY ConsumersFinite, FS_Subset, FS_CardinalityType, FS_RemoveElement DEF QueueTypeOK

\* No wakeup is lost: while some thread sleeps in wait_pop, each queued element
\* has an awake thread on its way to it, without help from the 200 ms timeout.
THEOREM NoLostWakeup == QueueSpec => []NoSleepBesideWork
<1>1. QueueInit => NoSleepBesideWork
  BY DEF QueueInit, NoSleepBesideWork
<1>2. QueueTypeOK /\ NoSleepBesideWork /\ [QueueNext]_queueVars => NoSleepBesideWork'
  <2> SUFFICES ASSUME QueueTypeOK, NoSleepBesideWork, [QueueNext]_queueVars, waiting' # {}
               PROVE  Len(queue') <= Cardinality(awake')
    BY DEF NoSleepBesideWork
  <2>a. Len(queue) \in Nat /\ Cardinality(awake) \in Nat
    BY ConsumersFinite, FS_Subset, FS_CardinalityType DEF QueueTypeOK
  <2>b. Len(<<>>) = 0
    OBVIOUS
  <2>1. ASSUME NEW k \in Keys \ Coalesced, TryPush(k)
        PROVE  Len(queue') <= Cardinality(awake')
    <3>1. NotifyOne /\ Len(queue') = Len(queue) + 1
      BY <2>1 DEF QueueTypeOK, TryPush
    <3> QED BY <3>1, <2>a, NotifyCounts DEF NoSleepBesideWork
  <2>2. ASSUME NEW k \in Coalesced, ReplaceLatestOf(k)
        PROVE  Len(queue') <= Cardinality(awake')
    <3>1. NotifyOne
      BY <2>2 DEF ReplaceLatestOf
    <3>2. Len(queue') \in Nat /\ Len(queue') <= Len(queue) + 1
      BY <2>2, ReplaceLatestType
    <3> QED BY <3>1, <3>2, <2>a, NotifyCounts DEF NoSleepBesideWork
  <2>3. ASSUME NEW c \in Consumers, WaitPop(c)
        PROVE  Len(queue') <= Cardinality(awake')
    <3>1. CASE Take(c) /\ UNCHANGED waiting
      BY <3>1, <2>3, <2>a, PopShifts DEF WaitPop, Take, NoSleepBesideWork
    <3>2. CASE queue = <<>> /\ UNCHANGED queue
      BY <3>2, <2>3, <2>a, <2>b DEF WaitPop
    <3> QED BY <3>1, <3>2, <2>3 DEF WaitPop
  <2>4. ASSUME NEW c \in Consumers, Timeout(c)
        PROVE  Len(queue') <= Cardinality(awake')
    <3>1. IsFiniteSet(awake) /\ c \notin awake /\ awake' = awake \cup {c}
      BY <2>4, ConsumersFinite, FS_Subset DEF QueueTypeOK, Timeout
    <3>2. Cardinality(awake') = Cardinality(awake) + 1
      BY <3>1, FS_AddElement
    <3> QED BY <3>2, <2>4, <2>a DEF Timeout, NoSleepBesideWork
  <2>5. ASSUME NEW c \in Consumers, Resume(c)
        PROVE  Len(queue') <= Cardinality(awake')
    <3>1. c \in awake /\ Cardinality(awake') = Cardinality(awake) - 1
      BY <2>5, ResumeCounts DEF Resume
    <3>2. CASE Take(c) /\ UNCHANGED waiting
      BY <3>1, <3>2, <2>a, PopShifts DEF Take, NoSleepBesideWork
    <3>3. CASE queue = <<>> /\ UNCHANGED queue
      <4>1. Cardinality(awake') \in Nat
        BY <2>5, ConsumersFinite, FS_Subset, FS_CardinalityType
           DEF QueueTypeOK, Resume
      <4> QED BY <3>3, <4>1, <2>b
    <3> QED BY <3>2, <3>3, <2>5 DEF Resume
  <2>6. CASE TryPop
    BY <2>6, <2>a, PopShifts DEF TryPop, NoSleepBesideWork
  <2>7. CASE Close
    BY <2>7 DEF Close
  <2>8. CASE UNCHANGED queueVars \/ Cancel \/ \E c \in Consumers : Enter(c)
    BY <2>8 DEF queueVars, Cancel, Enter, NoSleepBesideWork
  <2> QED BY <2>1, <2>2, <2>3, <2>4, <2>5, <2>6, <2>7, <2>8 DEF QueueNext
<1> QED BY <1>1, <1>2, QueueTypeCorrect, PTL DEF QueueSpec
-----------------------------------------------------------------------------
\* The same, with the positions that the predicate of enqueue selects.
OnePending == \A k \in Coalesced : \A i, j \in Pending(k) : i = j

\* Every operation keeps the pending positions of a coalesced key down to one.
LEMMA OnePendingKept == QueueSpec => []OnePending
<1>1. QueueInit => OnePending
  BY DEF QueueInit, OnePending, Pending
<1>2. QueueTypeOK /\ OnePending /\ [QueueNext]_queueVars => OnePending'
  <2> SUFFICES ASSUME QueueTypeOK, OnePending, [QueueNext]_queueVars
               PROVE  OnePending'
    OBVIOUS
  <2>0. OnePending' <=>
          \A k \in Coalesced : \A i, j \in DOMAIN queue' :
             queue'[i].key = k /\ queue'[j].key = k => i = j
    BY DEF OnePending, Pending
  <2>p. ASSUME Pop PROVE OnePending'
    <3> SUFFICES ASSUME NEW k \in Coalesced,
                        NEW i \in DOMAIN queue', NEW j \in DOMAIN queue',
                        queue'[i].key = k, queue'[j].key = k
                 PROVE  i = j
      BY <2>0
    <3>1. i + 1 \in Pending(k) /\ j + 1 \in Pending(k)
      BY <2>p, PopShifts DEF Pending
    <3>2. i + 1 = j + 1
      BY <3>1 DEF OnePending
    <3>3. i \in Int /\ j \in Int
      BY <2>p, PopShifts
    <3> QED BY <3>2, <3>3
  <2>u. ASSUME UNCHANGED queue PROVE OnePending'
    BY <2>u DEF OnePending, Pending
  <2>1. ASSUME NEW q \in Keys \ Coalesced, TryPush(q) PROVE OnePending'
    <3>1. /\ DOMAIN queue' = 1..(Len(queue) + 1)
          /\ queue'[Len(queue) + 1].key = q
          /\ \A i \in DOMAIN queue : queue'[i] = queue[i]
          /\ DOMAIN queue = 1..Len(queue) /\ Len(queue) \in Nat
      BY <2>1 DEF TryPush, QueueTypeOK
    <3> QED BY <2>0, <3>1 DEF OnePending, Pending
  <2>2. ASSUME NEW q \in Coalesced, ReplaceLatestOf(q) PROVE OnePending'
    <3> DEFINE v == [key |-> q, stamp |-> Len(sent) + 1]
    <3>0. DOMAIN queue = 1..Len(queue) /\ Len(queue) \in Nat /\ v.key = q
      BY DEF QueueTypeOK
    <3>1. CASE Pending(q) = {}
      <4>1. queue' = Append(queue, v)
        BY <3>1, <2>2 DEF ReplaceLatestOf, ReplaceLatest
      <4>2. /\ DOMAIN queue' = 1..(Len(queue) + 1)
            /\ queue'[Len(queue) + 1].key = q
            /\ \A i \in DOMAIN queue : queue'[i] = queue[i]
        BY <4>1, <3>0 DEF QueueTypeOK
      <4> QED BY <2>0, <3>0, <3>1, <4>2 DEF OnePending, Pending
    <3>2. CASE Pending(q) # {}
      <4>1. PICK p \in Pending(q) : Pending(q) = {p}
        BY <3>2 DEF OnePending
      <4>2. p \in DOMAIN queue /\ queue[p].key = q /\ p <= p
        BY <4>1, <3>0 DEF Pending
      <4>3. Latest(Pending(q)) = p
        BY <4>1, <4>2 DEF Latest
      <4>4. queue' = [queue EXCEPT ![p] = v]
        BY <3>2, <2>2, <4>3 DEF ReplaceLatestOf, ReplaceLatest
      <4>5. /\ DOMAIN queue' = DOMAIN queue
            /\ \A i \in DOMAIN queue : queue'[i].key = queue[i].key
        BY <4>4, <4>2, <3>0
      <4> QED BY <2>0, <4>5 DEF OnePending, Pending
    <3> QED BY <3>1, <3>2
  <2>3. ASSUME NEW c \in Consumers, Enter(c) \/ WaitPop(c) \/ Timeout(c) \/ Resume(c)
        PROVE  OnePending'
    BY <2>3, <2>p, <2>u DEF Enter, WaitPop, Timeout, Resume, Take
  <2>4. CASE TryPop
    BY <2>4, <2>p DEF TryPop
  <2>5. CASE Cancel \/ Close \/ UNCHANGED queueVars
    BY <2>5, <2>u DEF Cancel, Close, queueVars
  <2> QED BY <2>1, <2>2, <2>3, <2>4, <2>5 DEF QueueNext
<1> QED BY <1>1, <1>2, QueueTypeCorrect, PTL DEF QueueSpec

\* A key sent with replace_latest never has two requests in the queue, however
\* long the consumer is busy.
THEOREM Coalescing == QueueSpec => []OnePendingPerKey
<1>1. OnePending => OnePendingPerKey
  BY DEF OnePending, OnePendingPerKey, Pending
<1> QED BY <1>1, OnePendingKept, PTL
-----------------------------------------------------------------------------
(* What is delivered *)

\* What has been sent and is not superseded, as a sequence t, and the keys s of
\* the accepted calls, one number per call: every element carries the number of
\* its call, no two the same; the order of those that must not overtake is that
\* of their calls; and a call without an element has been superseded.
Faithful(t, s) ==
  /\ \A i \in 1..Len(t) : t[i].stamp \in 1..Len(s) /\ s[t[i].stamp] = t[i].key
  /\ \A i, j \in 1..Len(t) : t[i].stamp = t[j].stamp => i = j
  /\ \A i, j \in 1..Len(t) :
       /\ i < j
       /\ t[i].key = t[j].key \/ {t[i].key, t[j].key} \cap Coalesced = {}
       => t[i].stamp < t[j].stamp
  /\ \A n \in 1..Len(s) :
       \/ \E i \in 1..Len(t) : t[i].stamp = n
       \/ /\ s[n] \in Coalesced
          /\ \E i \in 1..Len(t) : t[i].key = s[n] /\ t[i].stamp > n

\* The traffic is a sequence: what is delivered, then what is queued.
LEMMA TrafficType ==
  ASSUME QueueTypeOK
  PROVE  /\ Traffic \in Seq(Elements)
         /\ Len(Traffic) \in Nat /\ Len(delivered) \in Nat /\ Len(queue) \in Nat
         /\ Len(Traffic) = Len(delivered) + Len(queue)
         /\ \A i \in 1..Len(Traffic) :
              Traffic[i] = IF i <= Len(delivered) THEN delivered[i]
                           ELSE queue[i - Len(delivered)]
BY ConcatProperties DEF QueueTypeOK, Traffic

\* The traffic of the next state is put together in the same way.
LEMMA TrafficPrimed ==
  ASSUME QueueTypeOK'
  PROVE  /\ Traffic' \in Seq(Elements)
         /\ Len(Traffic') = Len(delivered') + Len(queue')
         /\ Len(delivered') \in Nat /\ Len(queue') \in Nat
         /\ \A i \in 1..Len(Traffic') :
              Traffic'[i] = IF i <= Len(delivered') THEN delivered'[i]
                            ELSE queue'[i - Len(delivered')]
<1>1. delivered' \in Seq(Elements) /\ queue' \in Seq(Elements)
  BY DEF QueueTypeOK
<1>2. Traffic' = delivered' \o queue'
  BY DEF Traffic
<1>3. Len(delivered') \in Nat /\ Len(queue') \in Nat
  BY <1>1
<1> HIDE DEF Traffic
<1> QED
  BY <1>1, <1>2, <1>3, ConcatProperties

\* A pop changes where an element is, not the traffic.
LEMMA PopTraffic ==
  ASSUME QueueTypeOK, QueueTypeOK', Pop
  PROVE  Traffic' = Traffic
<1>1. /\ Len(delivered') = Len(delivered) + 1 /\ Len(queue) > 0
      /\ Len(queue') = Len(queue) - 1
      /\ \A i \in 1..Len(delivered) : delivered'[i] = delivered[i]
      /\ delivered'[Len(delivered) + 1] = queue[1]
      /\ \A i \in 1..Len(queue') : queue'[i] = queue[i + 1]
  BY DEF QueueTypeOK, Pop
<1>2. /\ Traffic' \in Seq(Elements)
      /\ Len(Traffic') = Len(delivered') + Len(queue')
      /\ \A i \in 1..Len(Traffic') :
           Traffic'[i] = IF i <= Len(delivered') THEN delivered'[i]
                         ELSE queue'[i - Len(delivered')]
  BY TrafficPrimed
<1>3. Len(Traffic') = Len(Traffic)
  <2>1. Len(delivered) \in Nat /\ Len(queue) \in Nat
        /\ Len(Traffic) = Len(delivered) + Len(queue)
    BY TrafficType
  <2>2. Len(Traffic') = (Len(delivered) + 1) + (Len(queue) - 1)
    BY <1>1, <1>2
  <2> QED
    BY <2>1, <2>2
<1>4. ASSUME NEW i \in 1..Len(Traffic')
      PROVE  Traffic'[i] = Traffic[i]
  <2>1. CASE i <= Len(delivered)
    BY <1>1, <1>2, <1>3, <2>1, TrafficType
  <2>2. CASE i = Len(delivered) + 1
    BY <1>1, <1>2, <1>3, <2>2, TrafficType
  <2>3. CASE i > Len(delivered) + 1
    <3>1. i - Len(delivered') \in 1..Len(queue')
          /\ (i - Len(delivered')) + 1 = i - Len(delivered)
          /\ ~(i <= Len(delivered')) /\ ~(i <= Len(delivered))
      BY <1>1, <1>2, <1>3, <2>3, TrafficType
    <3>2. Traffic'[i] = queue[i - Len(delivered)]
      BY <1>1, <1>2, <3>1
    <3> QED
      BY <1>3, <3>1, <3>2, TrafficType
  <2> QED
    BY <2>1, <2>2, <2>3, TrafficType
<1> QED
  BY <1>2, <1>3, <1>4, TrafficType, SeqEqual

\* An accepted element at the end of the traffic.
LEMMA AppendFaithful ==
  ASSUME NEW t \in Seq(Elements), NEW s \in Seq(Keys), NEW k \in Keys,
         NEW u \in Seq(Elements), Faithful(t, s),
         Len(u) = Len(t) + 1, \A i \in 1..Len(t) : u[i] = t[i],
         u[Len(u)] = [key |-> k, stamp |-> Len(s) + 1]
  PROVE  Faithful(u, Append(s, k))
<1> DEFINE r == Append(s, k)
<1>1. /\ Len(t) \in Nat /\ Len(s) \in Nat /\ Len(r) = Len(s) + 1 /\ r[Len(r)] = k
      /\ \A n \in 1..Len(s) : r[n] = s[n]
  OBVIOUS
<1>2. u[Len(u)].key = k /\ u[Len(u)].stamp = Len(s) + 1
  OBVIOUS
<1> HIDE DEF r
<1>3. ASSUME NEW i \in 1..Len(t)
      PROVE  /\ u[i].stamp \in 1..Len(s) /\ u[i].stamp = t[i].stamp
             /\ u[i].key = t[i].key /\ s[u[i].stamp] = u[i].key
             /\ u[i].stamp < u[Len(u)].stamp
  BY <1>1, <1>2 DEF Faithful
<1>4. \A i \in 1..Len(u) : i = Len(u) \/ i \in 1..Len(t)
  BY <1>1
<1>5. \A i \in 1..Len(u) : u[i].stamp \in 1..Len(r) /\ r[u[i].stamp] = u[i].key
  BY <1>1, <1>2, <1>3, <1>4
<1>6. \A i, j \in 1..Len(u) : u[i].stamp = u[j].stamp => i = j
  <2> SUFFICES ASSUME NEW i \in 1..Len(u), NEW j \in 1..Len(u),
                      u[i].stamp = u[j].stamp
               PROVE  i = j
    OBVIOUS
  <2>1. CASE i = Len(u) \/ j = Len(u)
    BY <1>1, <1>2, <1>3, <1>4, <2>1
  <2>2. CASE i \in 1..Len(t) /\ j \in 1..Len(t)
    BY <1>3, <2>2 DEF Faithful
  <2> QED
    BY <1>4, <2>1, <2>2
<1>7. \A i, j \in 1..Len(u) :
        /\ i < j
        /\ u[i].key = u[j].key \/ {u[i].key, u[j].key} \cap Coalesced = {}
        => u[i].stamp < u[j].stamp
  <2> SUFFICES ASSUME NEW i \in 1..Len(u), NEW j \in 1..Len(u), i < j,
                      u[i].key = u[j].key \/ {u[i].key, u[j].key} \cap Coalesced = {}
               PROVE  u[i].stamp < u[j].stamp
    OBVIOUS
  <2>1. i \in 1..Len(t)
    BY <1>1
  <2>2. CASE j = Len(u)
    BY <1>3, <2>1, <2>2
  <2>3. CASE j \in 1..Len(t)
    BY <1>3, <2>1, <2>3 DEF Faithful
  <2> QED
    BY <1>4, <2>2, <2>3
<1>8. ASSUME NEW n \in 1..Len(r)
      PROVE  \/ \E i \in 1..Len(u) : u[i].stamp = n
             \/ /\ r[n] \in Coalesced
                /\ \E i \in 1..Len(u) : u[i].key = r[n] /\ u[i].stamp > n
  <2>1. CASE n = Len(r)
    <3>1. Len(u) \in 1..Len(u)
      BY <1>1
    <3> QED
      BY <1>1, <1>2, <2>1, <3>1
  <2>2. CASE n \in 1..Len(s)
    <3>1. \A i \in 1..Len(t) :
            i \in 1..Len(u) /\ u[i].stamp = t[i].stamp /\ u[i].key = t[i].key
      BY <1>1, <1>3
    <3>2. CASE \E i \in 1..Len(t) : t[i].stamp = n
      BY <3>1, <3>2
    <3>3. CASE s[n] \in Coalesced /\ \E i \in 1..Len(t) : t[i].key = s[n] /\ t[i].stamp > n
      BY <1>1, <2>2, <3>1, <3>3
    <3> QED
      BY <2>2, <3>2, <3>3 DEF Faithful
  <2> QED
    BY <1>1, <2>1, <2>2
<1> QED
  BY <1>5, <1>6, <1>7, <1>8 DEF Faithful, r

\* An accepted element in the place of the last one of its key.
LEMMA ReplaceFaithful ==
  ASSUME NEW t \in Seq(Elements), NEW s \in Seq(Keys), NEW k \in Coalesced,
         NEW u \in Seq(Elements), NEW m \in 1..Len(t), Faithful(t, s),
         Len(u) = Len(t), \A i \in 1..Len(t) : i # m => u[i] = t[i],
         u[m] = [key |-> k, stamp |-> Len(s) + 1], t[m].key = k,
         \A i \in 1..Len(t) : i > m => t[i].key # k
  PROVE  Faithful(u, Append(s, k))
<1> DEFINE r == Append(s, k)
<1>1. /\ Len(t) \in Nat /\ Len(s) \in Nat /\ Len(r) = Len(s) + 1 /\ r[Len(r)] = k
      /\ \A n \in 1..Len(s) : r[n] = s[n]
  BY CoalescedAreKeys
<1>2. u[m].key = k /\ u[m].stamp = Len(s) + 1
  OBVIOUS
<1> HIDE DEF r
<1>3. ASSUME NEW i \in 1..Len(t), i # m
      PROVE  /\ u[i].stamp \in 1..Len(s) /\ u[i].stamp = t[i].stamp
             /\ u[i].key = t[i].key /\ s[u[i].stamp] = u[i].key
             /\ u[i].stamp < u[m].stamp
  BY <1>1, <1>2, <1>3 DEF Faithful
<1>4. \A i \in 1..Len(u) : u[i].key = t[i].key
  BY <1>2, <1>3
<1>5. \A i \in 1..Len(u) : u[i].stamp \in 1..Len(r) /\ r[u[i].stamp] = u[i].key
  BY <1>1, <1>2, <1>3
<1>6. \A i, j \in 1..Len(u) : u[i].stamp = u[j].stamp => i = j
  <2> SUFFICES ASSUME NEW i \in 1..Len(u), NEW j \in 1..Len(u),
                      u[i].stamp = u[j].stamp
               PROVE  i = j
    OBVIOUS
  <2>1. CASE i = m \/ j = m
    BY <1>1, <1>2, <1>3, <2>1
  <2>2. CASE i # m /\ j # m
    BY <1>3, <2>2 DEF Faithful
  <2> QED
    BY <2>1, <2>2
<1>7. \A i, j \in 1..Len(u) :
        /\ i < j
        /\ u[i].key = u[j].key \/ {u[i].key, u[j].key} \cap Coalesced = {}
        => u[i].stamp < u[j].stamp
  <2> SUFFICES ASSUME NEW i \in 1..Len(u), NEW j \in 1..Len(u), i < j,
                      u[i].key = u[j].key \/ {u[i].key, u[j].key} \cap Coalesced = {}
               PROVE  u[i].stamp < u[j].stamp
    OBVIOUS
  <2>1. CASE i = m
    BY <1>2, <1>4, <2>1
  <2>2. CASE j = m
    BY <1>3, <2>2
  <2>3. CASE i # m /\ j # m
    BY <1>3, <2>3 DEF Faithful
  <2> QED
    BY <2>1, <2>2, <2>3
<1>8. ASSUME NEW n \in 1..Len(r)
      PROVE  \/ \E i \in 1..Len(u) : u[i].stamp = n
             \/ /\ r[n] \in Coalesced
                /\ \E i \in 1..Len(u) : u[i].key = r[n] /\ u[i].stamp > n
  <2>1. CASE n = Len(r)
    BY <1>1, <1>2, <2>1
  <2>2. CASE n \in 1..Len(s) /\ \E i \in 1..Len(t) : i # m /\ t[i].stamp = n
    BY <1>3, <2>2
  <2>3. CASE n \in 1..Len(s) /\ t[m].stamp = n
    <3>1. s[n] = k /\ u[m].stamp > n
      BY <1>1, <1>2, <2>3 DEF Faithful
    <3> QED
      BY <1>1, <1>2, <2>3, <3>1
  <2>4. CASE n \in 1..Len(s) /\ ~\E i \in 1..Len(t) : t[i].stamp = n
    <3>1. s[n] \in Coalesced
          /\ \E i \in 1..Len(t) : t[i].key = s[n] /\ t[i].stamp > n
      BY <2>4 DEF Faithful
    <3>2. PICK i \in 1..Len(t) : t[i].key = s[n] /\ t[i].stamp > n
      BY <3>1
    <3>3. u[i].key = s[n] /\ u[i].stamp > n
      BY <1>1, <1>2, <1>3, <1>4, <2>4, <3>2
    <3> QED
      BY <1>1, <2>4, <3>1, <3>3
  <2> QED
    BY <1>1, <2>1, <2>2, <2>3, <2>4
<1> QED
  BY <1>5, <1>6, <1>7, <1>8 DEF Faithful, r

\* An accepted element at the back of the queue.
LEMMA AppendTraffic ==
  ASSUME QueueTypeOK, QueueTypeOK', NEW k \in Keys, delivered' = delivered,
         queue' = Append(queue, [key |-> k, stamp |-> Len(sent) + 1]),
         sent' = Append(sent, k), Faithful(Traffic, sent)
  PROVE  Faithful(Traffic', sent')
<1> DEFINE v == [key |-> k, stamp |-> Len(sent) + 1]
<1>1. sent \in Seq(Keys) /\ queue \in Seq(Elements) /\ Len(queue) \in Nat
  BY DEF QueueTypeOK
<1>2. Len(queue') = Len(queue) + 1 /\ queue'[Len(queue) + 1] = v
      /\ \A i \in 1..Len(queue) : queue'[i] = queue[i]
  BY <1>1
<1>3. /\ Traffic \in Seq(Elements) /\ Len(Traffic) \in Nat /\ Len(delivered) \in Nat
      /\ Len(Traffic) = Len(delivered) + Len(queue)
      /\ \A i \in 1..Len(Traffic) :
           Traffic[i] = IF i <= Len(delivered) THEN delivered[i]
                        ELSE queue[i - Len(delivered)]
  BY TrafficType
<1>4. /\ Traffic' \in Seq(Elements)
      /\ Len(Traffic') = Len(delivered) + Len(queue')
      /\ \A i \in 1..Len(Traffic') :
           Traffic'[i] = IF i <= Len(delivered) THEN delivered[i]
                         ELSE queue'[i - Len(delivered)]
  BY TrafficPrimed
<1> HIDE DEF v
<1>5. Len(Traffic') = Len(Traffic) + 1
  BY <1>1, <1>2, <1>3, <1>4
<1>6. /\ Len(Traffic') - Len(delivered) = Len(queue) + 1
      /\ ~(Len(Traffic') <= Len(delivered)) /\ Len(Traffic') \in 1..Len(Traffic')
  BY <1>1, <1>3, <1>5
<1>7. Traffic'[Len(Traffic')] = v
  BY <1>2, <1>4, <1>6
<1>8. ASSUME NEW i \in 1..Len(Traffic)
      PROVE  Traffic'[i] = Traffic[i]
  <2>1. i \in 1..Len(Traffic')
    BY <1>3, <1>5
  <2>2. ~(i <= Len(delivered)) => i - Len(delivered) \in 1..Len(queue)
    BY <1>1, <1>3
  <2> QED
    BY <1>2, <1>3, <1>4, <2>1, <2>2
<1> QED
  BY <1>1, <1>3, <1>4, <1>5, <1>7, <1>8, AppendFaithful DEF v

\* The element of a coalesced key is the last of its kind when it is replaced,
\* and its key is in the queue once; any other goes to the back.
LEMMA ReplaceTraffic ==
  ASSUME QueueTypeOK, QueueTypeOK', OnePending, NEW k \in Coalesced, ReplaceLatestOf(k),
         Faithful(Traffic, sent)
  PROVE  Faithful(Traffic', sent')
<1> DEFINE v == [key |-> k, stamp |-> Len(sent) + 1]
<1>1. k \in Keys /\ sent \in Seq(Keys) /\ sent' = Append(sent, k)
      /\ delivered' = delivered /\ queue \in Seq(Elements) /\ Len(queue) \in Nat
  BY CoalescedAreKeys DEF ReplaceLatestOf, QueueTypeOK
<1>2. Traffic \in Seq(Elements)
  BY TrafficType
<1>3. /\ Traffic' \in Seq(Elements)
      /\ Len(Traffic') = Len(delivered) + Len(queue')
      /\ \A i \in 1..Len(Traffic') :
           Traffic'[i] = IF i <= Len(delivered) THEN delivered[i]
                         ELSE queue'[i - Len(delivered)]
  BY <1>1, TrafficPrimed
<1>4. CASE Pending(k) = {}
  <2>1. queue' = Append(queue, v)
    BY <1>4 DEF ReplaceLatestOf, ReplaceLatest
  <2> QED
    BY <1>1, <2>1, AppendTraffic
<1>5. CASE Pending(k) # {}
  <2>1. PICK p \in Pending(k) : Pending(k) = {p}
    BY <1>5 DEF OnePending
  <2>2. p \in 1..Len(queue) /\ queue[p].key = k
    BY <2>1, <1>1 DEF Pending
  <2>3. Latest(Pending(k)) = p
    BY <2>1, <2>2 DEF Latest
  <2>4. queue' = [queue EXCEPT ![p] = v]
    BY <1>5, <2>3 DEF ReplaceLatestOf, ReplaceLatest
  <2>5. Len(queue') = Len(queue) /\ queue'[p] = v
        /\ \A i \in 1..Len(queue) : i # p => queue'[i] = queue[i]
    BY <2>2, <2>4, <1>1
  <2> DEFINE m == Len(delivered) + p
  <2>6. /\ Len(delivered) \in Nat /\ Len(Traffic) = Len(delivered) + Len(queue)
        /\ Len(Traffic) \in Nat
        /\ \A i \in 1..Len(Traffic) :
             Traffic[i] = IF i <= Len(delivered) THEN delivered[i]
                          ELSE queue[i - Len(delivered)]
    BY TrafficType
  <2>7. m \in 1..Len(Traffic) /\ m - Len(delivered) = p /\ ~(m <= Len(delivered))
    BY <2>2, <2>6
  <2> HIDE DEF v, m
  <2>8. Len(Traffic') = Len(Traffic)
    BY <1>3, <2>5, <2>6
  <2>9. Traffic'[m] = v /\ Traffic[m].key = k
    BY <1>3, <2>2, <2>5, <2>6, <2>7, <2>8
  <2>10. \A i \in 1..Len(Traffic) :
           i # m /\ ~(i <= Len(delivered)) =>
             i - Len(delivered) \in 1..Len(queue) /\ i - Len(delivered) # p
    BY <1>1, <2>2, <2>6 DEF m
  <2>11. \A i \in 1..Len(Traffic) : i # m => Traffic'[i] = Traffic[i]
    BY <1>3, <2>5, <2>6, <2>8, <2>10
  <2>12. ASSUME NEW i \in 1..Len(Traffic), i > m
         PROVE  Traffic[i].key # k
    <3>1. i - Len(delivered) \in 1..Len(queue) /\ i - Len(delivered) # p
          /\ Traffic[i] = queue[i - Len(delivered)]
      BY <2>6, <2>7, <2>10, <2>12, <2>2 DEF m
    <3> QED
      BY <2>1, <3>1, <1>1 DEF Pending
  <2> QED
    BY <1>1, <1>2, <1>3, <2>7, <2>8, <2>9, <2>11, <2>12, ReplaceFaithful DEF v
<1> QED
  BY <1>4, <1>5

\* Each step keeps the traffic faithful to the accepted calls.
LEMMA FaithfulStep ==
  ASSUME QueueTypeOK, QueueTypeOK', OnePending, Faithful(Traffic, sent), [QueueNext]_queueVars
  PROVE  Faithful(Traffic', sent')
<1>p. ASSUME Pop, sent' = sent PROVE Faithful(Traffic', sent')
  BY <1>p, PopTraffic
<1>u. ASSUME UNCHANGED <<queue, delivered, sent>> PROVE Faithful(Traffic', sent')
  <2>1. Traffic' = Traffic
    BY <1>u DEF Traffic
  <2> QED BY <1>u, <2>1
<1>1. ASSUME NEW k \in Keys \ Coalesced, TryPush(k)
      PROVE  Faithful(Traffic', sent')
  BY <1>1, AppendTraffic DEF TryPush
<1>2. ASSUME NEW k \in Coalesced, ReplaceLatestOf(k)
      PROVE  Faithful(Traffic', sent')
  BY <1>2, ReplaceTraffic
<1>3. ASSUME NEW c \in Consumers, Enter(c) \/ WaitPop(c) \/ Timeout(c) \/ Resume(c)
      PROVE  Faithful(Traffic', sent')
  BY <1>3, <1>p, <1>u DEF Enter, WaitPop, Timeout, Resume, Take
<1>4. CASE TryPop
  BY <1>4, <1>p DEF TryPop
<1>5. CASE Cancel \/ Close \/ UNCHANGED queueVars
  BY <1>5, <1>u DEF Cancel, Close, queueVars
<1> QED BY <1>1, <1>2, <1>3, <1>4, <1>5 DEF QueueNext

\* A faithful traffic is in order and complete; its elements are as many as the
\* numbers they carry because no number occurs twice.
LEMMA FaithfulDelivers ==
  ASSUME QueueTypeOK, Faithful(Traffic, sent)
  PROVE  Delivery
<1>1. /\ DOMAIN Traffic = 1..Len(Traffic) /\ Len(Traffic) \in Nat
      /\ DOMAIN sent = 1..Len(sent)
  BY TrafficType DEF QueueTypeOK
<1>2. InOrder
  BY <1>1 DEF InOrder, Faithful
<1> DEFINE seen == {Traffic[i].stamp : i \in DOMAIN Traffic}
           stamp == [i \in 1..Len(Traffic) |-> Traffic[i].stamp]
<1>3. Cardinality(seen) = Len(Traffic)
  <2>1. stamp \in [1..Len(Traffic) -> seen]
    BY <1>1
  <2>2. \A i, j \in 1..Len(Traffic) : stamp[i] = stamp[j] => i = j
    BY DEF Faithful
  <2>3. \A n \in seen : \E i \in 1..Len(Traffic) : stamp[i] = n
    BY <1>1
  <2> HIDE DEF stamp
  <2>4. stamp \in Bijection(1..Len(Traffic), seen)
    BY <2>1, <2>2, <2>3 DEF Bijection, Injection, Surjection, IsInjective
  <2>5. ExistsBijection(1..Len(Traffic), seen)
    BY <2>4 DEF ExistsBijection
  <2> HIDE DEF seen
  <2> QED BY <1>1, <2>5, FS_CountingElements
<1>4. ASSUME NEW n \in DOMAIN sent \ seen
      PROVE  /\ sent[n] \in Coalesced
             /\ \E i \in DOMAIN Traffic :
                  Traffic[i].key = sent[n] /\ Traffic[i].stamp > n
  BY <1>1 DEF Faithful
<1>5. NothingLost
  BY <1>3, <1>4 DEF NothingLost
<1> QED BY <1>2, <1>5 DEF Delivery

\* What is accepted arrives once and in its turn, or is superseded by a later
\* call of its key, whatever the threads, the capacity and the order in which
\* the operations meet at the mutex.
THEOREM Delivered == QueueSpec => []Delivery
<1>1. QueueInit => Faithful(Traffic, sent)
  <2> SUFFICES ASSUME QueueInit PROVE Faithful(Traffic, sent)
    OBVIOUS
  <2>1. Traffic = <<>> /\ sent = <<>>
    BY DEF QueueInit, Traffic
  <2>2. Len(Traffic) = 0 /\ Len(sent) = 0
    BY <2>1
  <2> QED BY <2>2 DEF Faithful
<1>2. QueueTypeOK /\ QueueTypeOK' /\ OnePending /\ Faithful(Traffic, sent) /\ [QueueNext]_queueVars
        => Faithful(Traffic, sent)'
  <2>1. Faithful(Traffic, sent)' <=> Faithful(Traffic', sent')
    BY DEF Faithful
  <2> QED BY <2>1, FaithfulStep
<1> QED BY <1>1, <1>2, FaithfulDelivers, OnePendingKept, QueueTypeCorrect, PTL DEF QueueSpec
-----------------------------------------------------------------------------
(* The stop *)

\* A worker has taken nothing since cancelled_ as long as the flag is not set, or
\* as long as it is on its way through one call of wait_pop: the element that
\* this call brings is its last, because it will not pass the test again.
StillPrompt ==
  /\ ~cancelled => \A c \in Consumers : late[c] = 0
  /\ \A c \in calling \cup waiting \cup awake : late[c] = 0
  /\ \A c \in Consumers : late[c] <= 1

\* A worker that takes an element is outside wait_pop afterwards, with one
\* element at most to its account.
LEMMA TakeIsLast ==
  ASSUME QueueTypeOK, StillPrompt, NEW c \in calling \cup awake, Take(c),
         UNCHANGED <<cancelled, waiting>>,
         c \notin (calling \cup waiting \cup awake)',
         (calling \cup awake)' \subseteq calling \cup awake
  PROVE  StillPrompt'
<1>1. /\ c \in Consumers /\ late[c] = 0 /\ late \in [Consumers -> Nat]
      /\ calling \cup waiting \cup awake \subseteq Consumers
  BY DEF QueueTypeOK, StillPrompt
<1>2. CASE cancelled
  <2>1. late' = [late EXCEPT ![c] = 1]
    BY <1>1, <1>2 DEF Take
  <2>2. late'[c] = 1 /\ \A d \in Consumers : d # c => late'[d] = late[d]
    BY <1>1, <2>1
  <2> QED BY <1>1, <1>2, <2>2 DEF StillPrompt
<1>3. CASE ~cancelled
  <2>1. late' = late
    BY <1>3 DEF Take
  <2> QED BY <2>1, <1>3, <1>1 DEF StillPrompt
<1> QED BY <1>2, <1>3

\* Once the program is being stopped no worker takes more than one element,
\* however the flag, the close, the waits and their timeouts interleave.
THEOREM StopPrompt == QueueSpec => []StopIsPrompt
<1>1. QueueInit => StillPrompt
  BY DEF QueueInit, StillPrompt
<1>2. QueueTypeOK /\ StillPrompt /\ [QueueNext]_queueVars => StillPrompt'
  <2> SUFFICES ASSUME QueueTypeOK, StillPrompt, [QueueNext]_queueVars
               PROVE  StillPrompt'
    OBVIOUS
  <2>n. ASSUME NotifyOne, UNCHANGED <<cancelled, calling, late>> PROVE StillPrompt'
    BY <2>n DEF NotifyOne, StillPrompt
  <2>1. ASSUME NEW k \in Keys, TryPush(k) \/ ReplaceLatestOf(k) PROVE StillPrompt'
    BY <2>1, <2>n DEF TryPush, ReplaceLatestOf
  <2>2. ASSUME NEW c \in Consumers, Enter(c) PROVE StillPrompt'
    BY <2>2 DEF Enter, StillPrompt
  <2>3. ASSUME NEW c \in Consumers, WaitPop(c) PROVE StillPrompt'
    <3>1. CASE Take(c) /\ UNCHANGED waiting
      BY <3>1, <2>3, TakeIsLast DEF WaitPop, QueueTypeOK
    <3>2. CASE ~Take(c) \/ ~UNCHANGED waiting
      BY <3>2, <2>3 DEF WaitPop, StillPrompt
    <3> QED BY <3>1, <3>2
  <2>4. ASSUME NEW c \in Consumers, Timeout(c) PROVE StillPrompt'
    BY <2>4 DEF Timeout, StillPrompt
  <2>5. ASSUME NEW c \in Consumers, Resume(c) PROVE StillPrompt'
    <3>1. CASE Take(c) /\ UNCHANGED waiting
      BY <3>1, <2>5, TakeIsLast DEF Resume, QueueTypeOK
    <3>2. CASE ~Take(c) \/ ~UNCHANGED waiting
      BY <3>2, <2>5 DEF Resume, StillPrompt
    <3> QED BY <3>1, <3>2
  <2>6. CASE TryPop \/ Cancel \/ Close \/ UNCHANGED queueVars
    BY <2>6 DEF TryPop, Cancel, Close, queueVars, StillPrompt
  <2> QED BY <2>1, <2>2, <2>3, <2>4, <2>5, <2>6, CoalescedAreKeys DEF QueueNext
<1>3. StillPrompt => StopIsPrompt
  BY DEF StillPrompt, StopIsPrompt
<1> QED BY <1>1, <1>2, <1>3, QueueTypeCorrect, PTL DEF QueueSpec
=============================================================================
