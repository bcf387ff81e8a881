------------------------ MODULE ScreensAndFileProofs ------------------------
(***************************************************************************)
(* Where Back leads, for any number of presses and answers, any plain      *)
(* screens and shortcuts and any essential actions; and what the settings  *)
(* dialogs write: for every set of addresses, length of lists and set of   *)
(* process ids, the settings file keeps its type and implements            *)
(* SettingsRegister.                                                       *)
(***************************************************************************)
EXTENDS Screens, SettingsFile, SequenceTheorems, TLAPS
-----------------------------------------------------------------------------
(* The stack of screens *)

\* What Back comes back to, and what is left below it.
LEMMA LastAndFront ==
  ASSUME NEW S, NEW h \in Seq(S), h # <<>>
  PROVE  /\ Len(h) \in Nat /\ Len(h) > 0
         /\ Last(h) = h[Len(h)] /\ Last(h) \in S
         /\ Front(h) \in Seq(S) /\ Len(Front(h)) = Len(h) - 1
         /\ \A i \in 1..(Len(h) - 1) : Front(h)[i] = h[i]
<1>1. Len(h) \in Nat /\ Len(h) > 0 /\ Last(h) = h[Len(h)] /\ Last(h) \in S
  BY DEF Last
<1>2. Front(h) = SubSeq(h, 1, Len(h) - 1)
  BY DEF Front
<1>3. \A i \in 1..(Len(h) - 1) : h[i] \in S
  BY <1>1
<1> DEFINE n == Len(h) - 1
<1>4. n \in Int /\ 1 \in Int /\ \A i \in 1..n : h[i] \in S
  BY <1>1, <1>3
<1> HIDE DEF n
<1>5. /\ SubSeq(h, 1, n) \in Seq(S)
      /\ Len(SubSeq(h, 1, n)) = IF 1 <= n THEN n - 1 + 1 ELSE 0
      /\ \A i \in 1..(n - 1 + 1) : SubSeq(h, 1, n)[i] = h[1 + i - 1]
  BY <1>4, SubSeqProperties
<1>6. Len(SubSeq(h, 1, n)) = n /\ \A i \in 1..n : SubSeq(h, 1, n)[i] = h[i]
  <2>1. n \in Nat /\ n - 1 + 1 = n /\ \A i \in 1..n : 1 + i - 1 = i
    BY <1>1 DEF n
  <2>2. Len(SubSeq(h, 1, n)) = n
    BY <2>1, <1>5
  <2>3. \A i \in 1..n : SubSeq(h, 1, n)[i] = h[i]
    BY <2>1, <1>5, Zenon
  <2> QED
    BY <2>2, <2>3
<1> QED
  BY <1>1, <1>2, <1>5, <1>6 DEF n

\* What is on display over the screen at a place of the history.
Above(h, top, i) == IF i < Len(h) THEN h[i + 1] ELSE top

\* Only Now Playing is ever over a question, and the address editor never over
\* Now Playing.
Layered(h, top) ==
  \A i \in 1..Len(h) :
    /\ h[i] = "ConfirmAction" => Above(h, top, i) = "NowPlaying"
    /\ h[i] = "NowPlaying" => Above(h, top, i) # "IpEditor"

\* A question somewhere below the screen on display.
Buried(h) == \E i \in 1..Len(h) : h[i] = "ConfirmAction"

\* An empty history.
LEMMA EmptyLayered == \A s : Layered(<<>>, s) /\ ~Buried(<<>>)
BY DEF Layered, Buried

\* A screen over another.
LEMMA PushLayered ==
  ASSUME NEW h \in Seq(Screens), NEW top \in Screens, NEW s, Layered(h, top),
         top = "ConfirmAction" => s = "NowPlaying",
         top = "NowPlaying" => s # "IpEditor"
  PROVE  /\ Layered(Append(h, top), s)
         /\ Buried(Append(h, top)) => Buried(h) \/ top = "ConfirmAction"
<1> DEFINE g == Append(h, top)
<1>1. Len(h) \in Nat /\ Len(g) = Len(h) + 1 /\ g[Len(g)] = top
      /\ \A i \in 1..Len(h) : g[i] = h[i]
  OBVIOUS
<1> HIDE DEF g
<1>2. ASSUME NEW i \in 1..Len(g)
      PROVE  /\ g[i] = "ConfirmAction" => Above(g, s, i) = "NowPlaying"
             /\ g[i] = "NowPlaying" => Above(g, s, i) # "IpEditor"
  <2>1. CASE i = Len(g)
    BY <1>1, <2>1 DEF Above
  <2>2. CASE i # Len(g)
    <3>1. i \in 1..Len(h) /\ i < Len(g) /\ g[i] = h[i]
      BY <1>1, <2>2
    <3>2. g[i + 1] = Above(h, top, i)
      BY <1>1, <3>1 DEF Above
    <3> QED
      BY <3>1, <3>2 DEF Above, Layered
  <2> QED
    BY <2>1, <2>2
<1>3. Buried(g) => Buried(h) \/ top = "ConfirmAction"
  BY <1>1 DEF Buried
<1> QED
  BY <1>2, <1>3 DEF Layered, g

\* The screen on display gives way to the one below.
LEMMA PopLayered ==
  ASSUME NEW h \in Seq(Screens), NEW top, h # <<>>, Layered(h, top)
  PROVE  /\ Layered(Front(h), Last(h))
         /\ Buried(Front(h)) => Buried(h)
         /\ Last(h) = "ConfirmAction" => top = "NowPlaying"
         /\ Last(h) = "NowPlaying" => top # "IpEditor"
<1> DEFINE g == Front(h)
<1>1. /\ Len(h) \in Nat /\ Len(h) > 0 /\ Last(h) = h[Len(h)]
      /\ Len(g) = Len(h) - 1 /\ \A i \in 1..Len(g) : g[i] = h[i]
  BY LastAndFront
<1> HIDE DEF g
<1>2. ASSUME NEW i \in 1..Len(g)
      PROVE  /\ g[i] = h[i] /\ i \in 1..Len(h)
             /\ Above(g, Last(h), i) = Above(h, top, i)
  BY <1>1 DEF Above
<1>3. Layered(g, Last(h)) /\ (Buried(g) => Buried(h))
  BY <1>2 DEF Layered, Buried
<1>4. Above(h, top, Len(h)) = top /\ Len(h) \in 1..Len(h)
  BY <1>1 DEF Above
<1> QED
  BY <1>1, <1>3, <1>4 DEF Layered, g

\* Another screen in the place of the one on display.
LEMMA SwapLayered ==
  ASSUME NEW h \in Seq(Screens), NEW top, NEW s, Layered(h, top),
         h # <<>> => /\ Last(h) = "ConfirmAction" => s = "NowPlaying"
                     /\ Last(h) = "NowPlaying" => s # "IpEditor"
  PROVE  Layered(h, s)
<1>1. Len(h) \in Nat /\ (h # <<>> => Last(h) = h[Len(h)]) /\ (h = <<>> <=> Len(h) = 0)
  BY LastAndFront
<1> SUFFICES ASSUME NEW i \in 1..Len(h)
             PROVE  /\ h[i] = "ConfirmAction" => Above(h, s, i) = "NowPlaying"
                    /\ h[i] = "NowPlaying" => Above(h, s, i) # "IpEditor"
  BY DEF Layered
<1>2. CASE i = Len(h)
  BY <1>1, <1>2 DEF Above
<1>3. CASE i < Len(h)
  BY <1>3 DEF Above, Layered
<1> QED
  BY <1>1, <1>2, <1>3
-----------------------------------------------------------------------------
(* Types *)

\* Of the names.
LEMMA SpecialScreens ==
  /\ Special \subseteq Screens /\ Plain \subseteq Screens /\ Shortcuts \subseteq Screens
  /\ Plain \cap {"ConfirmAction", "IpEditor", "NowPlaying"} = {}
  /\ Shortcuts \cap {"ConfirmAction", "IpEditor", "NowPlaying"} = {}
BY PlainIsNotSpecial, ShortcutsAreScreens DEF Screens, Special

\* A move leads from screens to screens.
LEMMA MovesType ==
  ASSUME TypeOK
  PROVE  /\ \A s \in Screens : Navigate(s) \/ Show(s) =>
                screen' \in Screens /\ history' \in Seq(Screens)
         /\ GoBack \/ EnterIpEditor \/ UNCHANGED place =>
                screen' \in Screens /\ history' \in Seq(Screens)
<1>1. screen \in Screens /\ history \in Seq(Screens)
      /\ "NowPlaying" \in Screens /\ "IpEditor" \in Screens
  BY SpecialScreens DEF TypeOK, Special
<1>2. <<>> \in Seq(Screens) /\ Append(history, screen) \in Seq(Screens)
  BY <1>1
<1>3. history # <<>> => Last(history) \in Screens /\ Front(history) \in Seq(Screens)
  BY <1>1, LastAndFront
<1> QED
  BY <1>1, <1>2, <1>3 DEF Navigate, Show, GoBack, EnterIpEditor, place
\* A press counts itself, or is one that is not counted.
LEMMA PressType ==
  ASSUME TypeOK, NEW a, Press(a)
  PROVE  acts' \in 0..MaxActs /\ jumps' \in 0..MaxJumps /\ cut' = cut
BY BoundsAreNat DEF TypeOK, Press, bounds

\* An answer counts itself.
LEMMA JumpType ==
  ASSUME TypeOK, Jump
  PROVE  acts' \in 0..MaxActs /\ jumps' \in 0..MaxJumps
BY BoundsAreNat DEF TypeOK, Jump

\* Every step keeps the types; in particular what is saved is safe.
LEMMA TypeStep ==
  ASSUME TypeOK, [Next]_vars
  PROVE  TypeOK'
<1> USE DEF TypeOK
<1>1. CASE PressBack
  <2>1. screen' \in Screens /\ history' \in Seq(Screens)
    BY <1>1, MovesType DEF PressBack
  <2> QED
    BY <1>1, <2>1, PressType DEF PressBack, IsSafe, household
<1>2. CASE PressExit
  <2>1. screen' \in Screens /\ history' \in Seq(Screens)
    BY <1>2, MovesType, SpecialScreens DEF PressExit, Leave, Special
  <2>2. exited' \in BOOLEAN
    BY <1>2 DEF PressExit, Leave
  <2> QED
    BY <1>2, <2>1, <2>2, PressType DEF PressExit, household
<1>3. CASE ConfirmDialog
  <2>1. CASE overlay \/ screen # "ConfirmAction"
    BY <1>3, <2>1, PressType DEF ConfirmDialog, place, question, keys, household
  <2>2. CASE ~overlay /\ screen = "ConfirmAction"
    <3>1. screen' \in Screens /\ history' \in Seq(Screens)
      BY <1>3, <2>2, MovesType, SpecialScreens DEF ConfirmDialog, Carry, Special
    <3> QED
      BY <1>3, <2>2, <3>1, PressType DEF ConfirmDialog, Carry
  <2> QED
    BY <2>1, <2>2
<1>4. CASE SelectGroup
  <2>1. screen' \in Screens /\ history' \in Seq(Screens)
    BY <1>4, MovesType, SpecialScreens DEF SelectGroup, Special
  <2> QED
    BY <1>4, <2>1, PressType DEF SelectGroup, question, keys
<1>5. CASE Confirm
  <2>1. screen' \in Screens /\ history' \in Seq(Screens)
    <3>1. SaveIp => screen' \in Screens /\ history' \in Seq(Screens)
      BY MovesType, SpecialScreens, LastAndFront DEF SaveIp, Special
    <3>2. \A q : Ask(q) => screen' \in Screens /\ history' \in Seq(Screens)
      BY MovesType, SpecialScreens DEF Ask, Special
    <3> QED
      BY <1>5, <3>1, <3>2, MovesType, SpecialScreens DEF Confirm, Special, place
  <2>2. pending' \in Questions \cup {"None"} /\ asked' \in Questions \cup {"None"}
    BY <1>5 DEF Confirm, question, Ask, EnterIpEditor, SaveIp, Questions
  <2>3. mapping' = Essential /\ draft' \subseteq Essential /\ confirmExit' \in BOOLEAN
    BY <1>5 DEF Confirm, keys
  <2> QED
    BY <1>5, <2>1, <2>2, <2>3, PressType DEF Confirm, household
<1>6. CASE Edit
  BY <1>6, PressType DEF Edit, place, question, household
<1>7. CASE Further
  <2>1. screen' \in Screens /\ history' \in Seq(Screens)
    BY <1>7, MovesType, SpecialScreens DEF Further, Special, Pair, TypeOK
  <2> QED
    BY <1>7, <2>1, PressType DEF Further, question, keys, household
<1>8. ASSUME NEW s \in Shortcuts, Go(s)
      PROVE  TypeOK'
  <2>1. screen' \in Screens /\ history' \in Seq(Screens)
    BY <1>8, MovesType, SpecialScreens DEF Go
  <2> QED
    BY <1>8, <2>1, PressType DEF Go, question, household
<1>9. CASE PressControls
  BY <1>9, PressType DEF PressControls, place, question, keys, household
<1>10. CASE HoldChord
  <2>1. screen' \in Screens /\ history' \in Seq(Screens)
    BY <1>10, MovesType, SpecialScreens DEF HoldChord, Special
  <2> QED
    BY <1>10, <2>1, PressType DEF HoldChord, question, household
<1>11. CASE SplashEnds
  BY <1>11, SpecialScreens DEF SplashEnds, Special, question, keys, household, bounds
<1>12. CASE GoesOffline
  BY <1>12, JumpType, SpecialScreens DEF GoesOffline, Special, question, keys
<1>13. CASE RoomsArrive
  <2>1. screen' \in Screens /\ history' \in Seq(Screens)
    BY <1>13, MovesType, SpecialScreens DEF RoomsArrive, Special, place
  <2>2. chosen' \in BOOLEAN
    BY <1>13 DEF RoomsArrive
  <2> QED
    BY <1>13, <2>1, <2>2, JumpType DEF RoomsArrive, question, keys
<1>14. CASE StartConcludes
  <2>1. screen' \in Screens /\ history' \in Seq(Screens)
    BY <1>14, MovesType, SpecialScreens DEF StartConcludes, Special
  <2> QED
    BY <1>14, <2>1, JumpType DEF StartConcludes, question, keys, household
<1>15. CASE UNCHANGED vars
  BY <1>15 DEF vars, place, question, keys, household, bounds
<1> QED
  BY <1>1, <1>2, <1>3, <1>4, <1>5, <1>6, <1>7, <1>8, <1>9, <1>10, <1>11, <1>12,
     <1>13, <1>14, <1>15 DEF Next

\* Every screen that Back comes back to is a screen, and what is saved is a
\* mapping with a button for Back, Exit and Confirm, whatever is pressed in the
\* editor and whatever arrives over it.
THEOREM TypeCorrect == Spec => []TypeOK
<1>1. Init => TypeOK
  <2>1. "Splash" \in Screens /\ <<>> \in Seq(Screens)
    BY SpecialScreens DEF Special
  <2>2. 0 \in 0..MaxActs /\ 0 \in 0..MaxJumps
    BY BoundsAreNat
  <2>3. Init => /\ {overlay, confirmExit, exited, cut} \subseteq BOOLEAN
                /\ {connected, groups, chosen} \subseteq BOOLEAN
    BY DEF Init
  <2> QED
    BY <2>1, <2>2, <2>3 DEF Init, TypeOK
<1> QED
  BY <1>1, TypeStep, PTL DEF Spec
-----------------------------------------------------------------------------
(* Questions *)

\* As long as the remote has not gone offline over a history, the stack is
\* layered, a question below the screen on display is one that a start of the
\* active group went over, and one on display stands for what it asks.  The
\* pop-up is never over a question.
Meant ==
  /\ overlay => screen # "ConfirmAction"
  /\ ~cut => /\ screen = "ConfirmAction" => pending = asked
             /\ Layered(history, screen)
             /\ Buried(history) => chosen

\* Going to a screen: a question is only left for Now Playing, which an answer
\* does, and the address editor is not gone to this way.
LEMMA NavigateLayered ==
  ASSUME TypeOK, Layered(history, screen), NEW s, Navigate(s),
         screen = "ConfirmAction" => s = "NowPlaying", s # "IpEditor"
  PROVE  /\ Layered(history', screen')
         /\ Buried(history') => Buried(history) \/ screen = "ConfirmAction"
         /\ screen' = s
<1>1. CASE screen = s
  BY <1>1 DEF Navigate, place
<1>2. CASE screen # s
  <2>1. screen' = s /\ history' = Append(history, screen)
    BY <1>2 DEF Navigate
  <2> QED
    BY <2>1, PushLayered DEF TypeOK
<1> QED
  BY <1>1, <1>2

\* Going back comes to no question.
LEMMA BackLayered ==
  ASSUME TypeOK, Layered(history, screen), GoBack
  PROVE  /\ Layered(history', screen') /\ screen' # "ConfirmAction"
         /\ Buried(history') => Buried(history)
<1>1. CASE screen = "NowPlaying" \/ history = <<>>
  BY <1>1, EmptyLayered DEF GoBack, Show
<1>2. CASE screen # "NowPlaying" /\ history # <<>>
  <2>1. screen' = Last(history) /\ history' = Front(history)
    BY <1>2 DEF GoBack
  <2> QED
    BY <1>2, <2>1, PopLayered DEF TypeOK
<1> QED
  BY <1>1, <1>2

\* Going back from anywhere leaves the rest of Meant alone.
LEMMA BackMeant ==
  ASSUME TypeOK, Meant, GoBack, UNCHANGED <<cut, chosen>>, ~overlay'
  PROVE  Meant'
BY BackLayered DEF Meant

\* Starting anew at another screen.
LEMMA ShowMeant ==
  ASSUME TypeOK, Meant, NEW s, Show(s), s # "ConfirmAction", cut' = cut
  PROVE  Meant'
BY EmptyLayered DEF Meant, Show

\* Staying, with the same question.
LEMMA StayMeant ==
  ASSUME Meant, UNCHANGED <<place, question, chosen, cut>>,
         overlay' => overlay \/ screen # "ConfirmAction"
  PROVE  Meant'
BY DEF Meant, place, question

\* Leaving for a screen that is neither a question nor the address editor.
LEMMA NavigateMeant ==
  ASSUME TypeOK, Meant, NEW s, Navigate(s), screen # "ConfirmAction",
         s \notin {"ConfirmAction", "IpEditor"}, UNCHANGED <<cut, chosen>>
  PROVE  Meant'
<1>1. screen' = s
  BY DEF Navigate, place
<1>2. ~cut => Layered(history', screen') /\ (Buried(history') => Buried(history))
  BY NavigateLayered DEF Meant
<1> QED
  BY <1>1, <1>2 DEF Meant

\* The presses keep it.
LEMMA PressMeant ==
  ASSUME TypeOK, Meant,
         PressBack \/ PressExit \/ ConfirmDialog \/ SelectGroup \/ Edit \/ Further
           \/ (\E s \in Shortcuts : Go(s)) \/ PressControls \/ HoldChord
  PROVE  Meant'
<1> USE DEF household
<1>1. CASE PressBack
  <2>1. cut' = cut /\ chosen' = chosen /\ overlay' = FALSE
    BY <1>1 DEF PressBack, Press
  <2>2. CASE GoBack
    BY <2>1, <2>2, BackMeant
  <2>3. CASE UNCHANGED place /\ (overlay \/ screen = "ButtonMapping")
    <3>1. UNCHANGED question
      BY <1>1, <2>3 DEF PressBack, question, Meant
    <3> QED
      BY <2>1, <2>3, <3>1, StayMeant
  <2> QED
    BY <1>1, <2>2, <2>3 DEF PressBack
<1>2. CASE PressExit
  <2>1. cut' = cut /\ chosen' = chosen /\ overlay' = FALSE
    BY <1>2 DEF PressExit, Press
  <2>2. CASE GoBack
    BY <2>1, <2>2, BackMeant
  <2>3. CASE screen # "ConfirmAction" /\ UNCHANGED place
    <3>1. UNCHANGED question
      BY <1>2, <2>3 DEF PressExit, question
    <3> QED
      BY <2>1, <2>3, <3>1, StayMeant
  <2>4. CASE screen # "ConfirmAction" /\ Navigate("ConfirmExit")
    BY <2>1, <2>4, NavigateMeant
  <2>5. overlay => screen # "ConfirmAction"
    BY DEF Meant
  <2> QED
    BY <1>2, <2>2, <2>3, <2>4, <2>5 DEF PressExit, Leave
<1>3. CASE ConfirmDialog
  <2>1. cut' = cut /\ chosen' = chosen /\ overlay' = FALSE
    BY <1>3 DEF ConfirmDialog, Press, Carry
  <2>2. CASE UNCHANGED <<place, question>>
    BY <2>1, <2>2, StayMeant
  <2>3. CASE Carry(pending)
    <3>1. CASE pending = "ForgetSystem"
      BY <2>1, <2>3, <3>1, ShowMeant DEF Carry
    <3>2. CASE pending = "None"
      <4>1. UNCHANGED <<place, question>>
        BY <2>3, <3>2 DEF Carry, question
      <4> QED
        BY <2>1, <4>1, StayMeant
    <3>3. CASE pending \notin {"ForgetSystem", "None"}
      BY <2>1, <2>3, <3>3, BackMeant DEF Carry
    <3> QED
      BY <3>1, <3>2, <3>3
  <2> QED
    BY <1>3, <2>2, <2>3 DEF ConfirmDialog
<1>4. CASE SelectGroup
  BY <1>4, ShowMeant DEF SelectGroup, Press
<1>5. CASE Edit
  BY <1>5, StayMeant DEF Edit, Press
<1>6. CASE Further
  <2>1. cut' = cut /\ chosen' = chosen /\ overlay' = overlay /\ UNCHANGED question
    BY <1>6 DEF Further, Press
  <2>2. CASE /\ screen \in {"Rooms", "NowPlaying"}
             /\ \E s \in Plain \cup {"GroupEditor"} : Navigate(s)
    BY <2>1, <2>2, NavigateMeant, SpecialScreens
  <2>3. CASE screen \in Pair /\ screen' \in Pair /\ UNCHANGED history
    <3>1. {screen, screen'} \cap {"ConfirmAction", "IpEditor", "NowPlaying"} = {}
      BY <2>3, SpecialScreens DEF Pair
    <3>2. ~cut => Layered(history, screen)
      BY DEF Meant
    <3>3. history # <<>> /\ ~cut => Last(history) # "ConfirmAction"
      BY <3>1, <3>2, PopLayered DEF TypeOK
    <3>4. ~cut => Layered(history, screen')
      BY <3>1, <3>2, <3>3, SwapLayered DEF TypeOK
    <3> QED
      BY <2>1, <2>3, <3>1, <3>4 DEF Meant, question
  <2> QED
    BY <1>6, <2>2, <2>3 DEF Further
<1>7. ASSUME NEW s \in Shortcuts, Go(s)
      PROVE  Meant'
  BY <1>7, NavigateMeant, SpecialScreens DEF Go, Press, Open, Dialogs
<1>8. CASE PressControls
  <2>1. overlay' => screen # "ConfirmAction"
    BY <1>8 DEF PressControls, Open, Dialogs, Meant
  <2> QED
    BY <1>8, <2>1, StayMeant DEF PressControls, Press
<1>9. CASE HoldChord
  BY <1>9, ShowMeant DEF HoldChord, Press
<1> QED
  BY <1>1, <1>2, <1>3, <1>4, <1>5, <1>6, <1>7, <1>8, <1>9

\* So does Confirm on a screen: a question comes with what it asks, and the
\* address editor gives way to what is under it or to Discovery.
LEMMA ConfirmMeant ==
  ASSUME TypeOK, Meant, Confirm
  PROVE  Meant'
<1>1. /\ cut' = cut /\ chosen' = chosen /\ overlay' = overlay /\ ~overlay
      /\ screen # "ConfirmAction"
  BY DEF Confirm, Press, household, Open, Dialogs
<1>2. ASSUME NEW s \in Plain \cup {"Rooms", "Settings", "Diagnostics", "ButtonMapping",
                              "NowPlaying"},
             Navigate(s)
      PROVE  Meant'
  BY <1>1, <1>2, NavigateMeant, SpecialScreens
<1>3. ASSUME EnterIpEditor, screen # "NowPlaying"
      PROVE  Meant'
  BY <1>1, <1>3, PushLayered DEF EnterIpEditor, Meant, TypeOK
<1>4. ASSUME NEW q, Ask(q)
      PROVE  Meant'
  BY <1>1, <1>4, NavigateLayered DEF Ask, Meant
<1>5. CASE UNCHANGED <<place, question>>
  BY <1>1, <1>5, StayMeant
<1>6. CASE screen = "Offline" /\ screen' = "Discovery" /\ UNCHANGED history
  BY <1>1, <1>6, SwapLayered, PopLayered DEF Meant, TypeOK
<1>7. CASE screen = "IpEditor" /\ SaveIp
  <2>1. CASE connected
    BY <1>1, <1>7, <2>1, BackMeant DEF SaveIp
  <2>2. CASE ~connected /\ history = <<>>
    BY <1>1, <1>7, <2>2, EmptyLayered DEF SaveIp, Meant
  <2>3. CASE ~connected /\ history # <<>> /\ cut
    BY <1>1, <1>7, <2>3 DEF SaveIp, Meant
  <2>4. CASE ~connected /\ history # <<>> /\ ~cut
    <3> DEFINE g == Front(history)
    <3>1. screen' = "Discovery" /\ history' = g /\ g \in Seq(Screens)
      BY <1>7, <2>4, LastAndFront DEF SaveIp, TypeOK
    <3>2. /\ Layered(g, Last(history)) /\ Last(history) # "NowPlaying"
          /\ Buried(g) => chosen
      BY <1>7, <2>4, PopLayered DEF Meant, TypeOK
    <3>3. g # <<>> => Last(g) # "ConfirmAction"
      BY <3>1, <3>2, PopLayered
    <3>4. Layered(g, "Discovery")
      BY <3>1, <3>2, <3>3, SwapLayered
    <3> QED
      BY <1>1, <3>1, <3>2, <3>4 DEF Meant
  <2> QED
    BY <2>1, <2>2, <2>3, <2>4
<1> QED
  BY <1>2, <1>3, <1>4, <1>5, <1>6, <1>7 DEF Confirm, place, question

\* So do the answers: only one that goes over a history loses track of it.
LEMMA AnswerMeant ==
  ASSUME TypeOK, Meant,
         SplashEnds \/ GoesOffline \/ RoomsArrive \/ StartConcludes
  PROVE  Meant'
<1>1. CASE SplashEnds
  BY <1>1, SwapLayered, PopLayered DEF SplashEnds, Meant, TypeOK, question, household
<1>2. CASE GoesOffline
  <2>1. CASE cut'
    BY <1>2, <2>1 DEF GoesOffline, Meant
  <2>2. CASE ~cut'
    BY <1>2, <2>2, EmptyLayered DEF GoesOffline, Meant, TypeOK
  <2> QED
    BY <2>1, <2>2
<1>3. CASE RoomsArrive
  <2>1. CASE chosen /\ UNCHANGED <<place, chosen>>
    BY <1>3, <2>1, StayMeant DEF RoomsArrive
  <2>2. CASE Show("NowPlaying")
    BY <1>3, <2>2, ShowMeant DEF RoomsArrive
  <2>3. CASE ~chosen /\ screen' = "Rooms" /\ UNCHANGED <<history, chosen>>
    <3>1. UNCHANGED <<question, overlay, cut>>
      BY <1>3 DEF RoomsArrive
    <3>2. ASSUME ~cut, history # <<>>
          PROVE  Last(history) # "ConfirmAction"
      <4>1. history \in Seq(Screens)
        BY DEF TypeOK
      <4>2. /\ Len(history) \in Nat /\ Len(history) > 0
            /\ Last(history) = history[Len(history)]
        BY <3>2, <4>1, LastAndFront
      <4>3. Len(history) \in 1..Len(history)
        BY <4>2
      <4> QED
        BY <2>3, <3>2, <4>2, <4>3 DEF Meant, Buried
    <3>3. ~cut => Layered(history, "Rooms")
      BY <3>2, SwapLayered DEF Meant, TypeOK
    <3> QED
      BY <2>3, <3>1, <3>3 DEF Meant, question
  <2> QED
    BY <1>3, <2>1, <2>2, <2>3 DEF RoomsArrive
<1>4. CASE StartConcludes
  <2>1. Navigate("NowPlaying") /\ UNCHANGED <<overlay, question, cut>>
        /\ chosen /\ chosen'
    BY <1>4 DEF StartConcludes, household
  <2>2. screen' = "NowPlaying"
    BY <2>1 DEF Navigate, place
  <2>3. ~cut => Layered(history', screen')
    BY <2>1, NavigateLayered DEF Meant
  <2> QED
    BY <2>1, <2>2, <2>3 DEF Meant
<1> QED
  BY <1>1, <1>2, <1>3, <1>4

\* A question on display stands for what it asks, however many presses and
\* answers there are: for one that an answer went over is not come back to after
\* another has been asked and answered, because Now Playing, which covers it, has
\* no way back, and nothing but going offline takes the place of Now Playing.
THEOREM QuestionsMeant == Spec => []QuestionsAreMeant
<1>1. Init => Meant
  BY EmptyLayered DEF Init, Meant
<1>2. TypeOK /\ Meant /\ [Next]_vars => Meant'
  <2> SUFFICES ASSUME TypeOK, Meant, [Next]_vars
               PROVE  Meant'
    OBVIOUS
  <2>1. CASE UNCHANGED vars
    BY <2>1, StayMeant DEF vars, household
  <2> QED
    BY <2>1, PressMeant, ConfirmMeant, AnswerMeant DEF Next
<1>3. Meant => QuestionsAreMeant
  BY DEF Meant, QuestionsAreMeant
<1> QED
  BY <1>1, <1>2, <1>3, TypeCorrect, PTL DEF Spec
-----------------------------------------------------------------------------
(* The settings file *)

\* What save has written so far comes from the settings in memory, and a file
\* that is about to replace the old one is complete.
Prefix ==
  /\ temp.lines \subseteq LinesOf(memory)
  /\ temp.lines # {} => temp.of = Validated(memory)
  /\ phase \in {"idle", "creating"} => temp.lines = {}
  /\ phase = "closed" => temp.lines = LinesOf(memory)
  /\ ~running => phase = "idle"

IInv == FileTypeOK /\ Prefix

\* Cutting a list to the length that is kept gives a list of addresses.
LEMMA FirstIpsType ==
  ASSUME NEW ips \in IpLists
  PROVE  FirstIps(ips) \in IpLists
<1>1. CASE Len(ips) <= MaxIps
  BY <1>1 DEF FirstIps
<1>2. CASE ~(Len(ips) <= MaxIps)
  <2>1. PICK n \in 0..MaxIps + 1 : ips \in [1..n -> Ips]
    BY DEF IpLists
  <2>2. Len(ips) = n /\ n \in Nat /\ MaxIps \in 0..n
    BY <2>1, <1>2, MaxIpsIsNat
  <2>3. FirstIps(ips) = [i \in 1..MaxIps |-> ips[i]]
    BY <1>2, <2>2, MaxIpsIsNat DEF FirstIps
  <2>4. FirstIps(ips) \in [1..MaxIps -> Ips]
    BY <2>1, <2>2, <2>3, MaxIpsIsNat
  <2>5. \A i, j \in 1..MaxIps : ips[i] = ips[j] => i = j
    BY <2>1, <2>2, MaxIpsIsNat DEF IpLists
  <2> QED BY <2>3, <2>4, <2>5, MaxIpsIsNat DEF IpLists
<1> QED BY <1>1, <1>2

\* A list that was cut is not cut again.
LEMMA FirstIpsOnce ==
  ASSUME NEW ips \in IpLists
  PROVE  FirstIps(FirstIps(ips)) = FirstIps(ips)
<1>1. CASE Len(ips) <= MaxIps
  BY <1>1 DEF FirstIps
<1>2. CASE ~(Len(ips) <= MaxIps)
  <2>1. PICK n \in 0..MaxIps + 1 : ips \in [1..n -> Ips]
    BY DEF IpLists
  <2>2. FirstIps(ips) = [i \in 1..MaxIps |-> ips[i]]
    BY <2>1, <1>2, MaxIpsIsNat DEF FirstIps
  <2>3. Len(FirstIps(ips)) = MaxIps
    BY <2>2, MaxIpsIsNat
  <2> QED BY <2>3, MaxIpsIsNat DEF FirstIps
<1> QED BY <1>1, <1>2

\* Validated contents can be in memory; validating them again, and writing them
\* first, changes nothing.
LEMMA ValidatedType ==
  ASSUME NEW s \in Contents
  PROVE  /\ Validated(s) \in Settings
         /\ Validated(Validated(s)) = Validated(s)
         /\ Validated(Migrated(Validated(s))) = Validated(Migrated(s))
<1>1. s.ips \in IpLists
  BY DEF Contents
<1>2. /\ FirstIps(s.ips) \in IpLists
      /\ FirstIps(FirstIps(s.ips)) = FirstIps(s.ips)
  BY <1>1, FirstIpsType, FirstIpsOnce
<1> HIDE DEF FirstIps, IpLists
<1> QED BY <1>2 DEF Validated, Migrated, Contents, Settings, Mappings

\* Settings are contents, migrated or not.
LEMMA MigratedType ==
  /\ Settings \subseteq Contents
  /\ \A s \in Contents : Migrated(s) \in Contents
BY DEF Settings, Contents, Migrated, Mappings

LEMMA DefaultsType == Defaults \in Settings
<1>1. <<>> \in IpLists
  <2>1. <<>> \in [1..0 -> Ips] /\ 0 \in 0..MaxIps + 1
    BY MaxIpsIsNat
  <2> QED BY <2>1 DEF IpLists
<1> QED BY <1>1 DEF Defaults, Settings, Mappings

\* A start always finds settings that can be in memory.
LEMMA LoadType ==
  ASSUME NEW f \in Files
  PROVE  Load(f) \in Settings
<1>1. Read(f) \in Contents
  <2>1. <<>> \in IpLists
    BY DefaultsType DEF Defaults, Settings
  <2> QED BY <2>1 DEF Read, Files, Contents, Mappings
<1>2. Validated(Migrated(Read(f))) \in Settings
  BY <1>1, MigratedType, ValidatedType
<1> QED BY <1>2, DefaultsType DEF Load

\* A complete file brings the settings it was written from back.
LEMMA LoadOfSave ==
  ASSUME NEW s \in Settings, NEW f \in Files,
         f.lines = LinesOf(s), f.of = Validated(s)
  PROVE  Load(f) = Kept(s)
<1>1. f.lines # {}
  BY DEF LinesOf, Lines
<1>2. Read(f) = Validated(s)
  <2>1. Validated(s) \in Settings
    BY MigratedType, ValidatedType
  <2>2. /\ f.of \in Settings
        /\ f.of.extra = s.extra
    BY <2>1 DEF Validated, Settings
  <2>3. /\ {"artwork", "ips", "buttons", "content_defaults_version"} \subseteq f.lines
        /\ "extra" \in f.lines <=> s.extra
    BY DEF LinesOf, Lines, Settings
  <2>4. Read(f) = [artwork |-> f.of.artwork, ips |-> f.of.ips,
                   buttons |-> f.of.buttons, extra |-> f.of.extra]
    BY <2>2, <2>3 DEF Read, Settings
  <2> QED BY <2>2, <2>4 DEF Settings
<1>3. Validated(Migrated(Validated(s))) = Validated(Migrated(s))
  BY MigratedType, ValidatedType
<1> QED BY <1>1, <1>2, <1>3 DEF Load, Kept
-----------------------------------------------------------------------------
LEMMA InitTyped == FileInit => IInv
<1> SUFFICES ASSUME FileInit PROVE IInv
  OBVIOUS
<1>1. NoFile \in Files
  BY DefaultsType, MigratedType DEF NoFile, Files
<1>2. file \in Files
  <2>1. /\ Defaults \in Contents
        /\ [Defaults EXCEPT !.artwork = FALSE, !.buttons = "former"] \in Contents
        /\ [Defaults EXCEPT !.extra = TRUE] \in Contents
        /\ [Defaults EXCEPT !.buttons = "unsafe"] \in Contents
    BY DefaultsType, MigratedType DEF Defaults, Contents, Mappings
  <2>2. /\ {"artwork", "buttons"} \subseteq Lines
        /\ {"buttons", "content_defaults_version"} \subseteq Lines
    BY DEF Lines
  <2> DEFINE d1 == [Defaults EXCEPT !.artwork = FALSE, !.buttons = "former"]
             d2 == [Defaults EXCEPT !.extra = TRUE]
             d3 == [Defaults EXCEPT !.buttons = "unsafe"]
  <2>3. \/ file = NoFile
        \/ file = [lines |-> {"artwork", "buttons"}, of |-> d1]
        \/ file = [lines |-> Lines, of |-> d2]
        \/ file = [lines |-> {"buttons", "content_defaults_version"}, of |-> d3]
    BY DEF FileInit
  <2>4. d1 \in Contents /\ d2 \in Contents /\ d3 \in Contents
    BY <2>1
  <2> HIDE DEF d1, d2, d3
  <2> QED BY <1>1, <2>2, <2>3, <2>4 DEF Files
<1> QED BY <1>1, <1>2, DefaultsType
        DEF FileInit, IInv, FileTypeOK, Prefix, Phases, NoFile

\* The settings an edit leaves in memory.
LEMMA EditType ==
  ASSUME FileTypeOK, Edits
  PROVE  /\ memory' \in Settings
         /\ Idle /\ phase' = "creating"
         /\ UNCHANGED <<running, pid, file, temp, litter>>
<1>1. CASE ToggleArtwork
  BY <1>1 DEF ToggleArtwork, SaveAs, FileTypeOK, Settings
<1>2. CASE MapButtons
  BY <1>2 DEF MapButtons, SaveAs, FileTypeOK, Settings
<1>3. CASE AddIp
  <2>1. PICK ip \in Ips :
          /\ ip \notin {memory.ips[i] : i \in DOMAIN memory.ips}
          /\ Len(memory.ips) <= MaxIps
          /\ SaveAs([memory EXCEPT !.ips = Append(@, ip)])
    BY <1>3 DEF AddIp
  <2>2. PICK n \in 0..MaxIps + 1 : memory.ips \in [1..n -> Ips]
    BY DEF FileTypeOK, Settings, IpLists
  <2>3. n = Len(memory.ips) /\ n + 1 \in 0..MaxIps + 1
    BY <2>1, <2>2, MaxIpsIsNat
  <2> DEFINE longer == Append(memory.ips, ip)
  <2>4. longer \in [1..n + 1 -> Ips]
    <3>1. memory.ips \in Seq(Ips)
      BY <2>2
    <3>2. longer \in Seq(Ips) /\ Len(longer) = n + 1
      BY <2>3, <3>1, AppendProperties
    <3> HIDE DEF longer
    <3> QED BY <3>2, LenProperties
  <2>5. \A i, j \in DOMAIN longer : longer[i] = longer[j] => i = j
    <3>1. \A i, j \in 1..n : memory.ips[i] = memory.ips[j] => i = j
      BY <2>2 DEF FileTypeOK, Settings, IpLists
    <3>2. /\ \A i \in 1..n : longer[i] = memory.ips[i]
          /\ longer[n + 1] = ip
          /\ \A i \in 1..n : memory.ips[i] # ip
      BY <2>1, <2>2, <2>3
    <3>3. DOMAIN longer = 1..n + 1
      BY <2>4
    <3> QED BY <3>1, <3>2, <3>3, <2>3
  <2>6. longer \in IpLists
    BY <2>3, <2>4, <2>5 DEF IpLists
  <2>7. /\ memory' = [memory EXCEPT !.ips = longer]
        /\ Idle /\ phase' = "creating"
        /\ UNCHANGED <<running, pid, file, temp, litter>>
    BY <2>1 DEF SaveAs
  <2> HIDE DEF longer
  <2> QED BY <2>6, <2>7 DEF FileTypeOK, Settings
<1>4. CASE ResetSettings
  BY <1>4, DefaultsType DEF ResetSettings, SaveAs
<1>5. CASE SaveOnStop
  BY <1>5 DEF SaveOnStop, SaveAs, FileTypeOK
<1>6. CASE ClearIps
  BY <1>6, DefaultsType DEF ClearIps, SaveAs, FileTypeOK, Settings, Defaults
<1>7. Idle /\ phase' = "creating" /\ UNCHANGED <<running, pid, file, temp, litter>>
  BY DEF Edits, ToggleArtwork, MapButtons, AddIp, ClearIps, ResetSettings,
         SaveOnStop, SaveAs
<1> QED BY <1>1, <1>2, <1>3, <1>4, <1>5, <1>6, <1>7 DEF Edits

\* The settings in memory are written as they are validated.
LEMMA WriteType ==
  ASSUME FileTypeOK, Prefix, WriteLine
  PROVE  /\ temp' \in Files
         /\ temp'.lines \subseteq LinesOf(memory) /\ temp'.of = Validated(memory)
<1>1. PICK l \in LinesOf(memory) \ temp.lines :
        temp' = [lines |-> temp.lines \cup {l}, of |-> Validated(memory)]
  BY DEF WriteLine
<1>2. Validated(memory) \in Contents
  <2>1. memory \in Contents /\ Validated(memory) \in Settings
    BY MigratedType, ValidatedType DEF FileTypeOK
  <2> QED BY <2>1, MigratedType
<1>3. LinesOf(memory) \subseteq Lines
  BY DEF LinesOf
<1> QED BY <1>1, <1>2, <1>3 DEF FileTypeOK, Prefix, Files

\* The inductive invariant is preserved by every step.
LEMMA StepTyped == IInv /\ [FileNext]_fileVars => IInv'
<1> SUFFICES ASSUME FileTypeOK, Prefix, [FileNext]_fileVars PROVE FileTypeOK' /\ Prefix'
  BY DEF IInv
<1>0. NoFile \in Files /\ NoFile.lines = {}
  BY DefaultsType, MigratedType DEF NoFile, Files
<1>1. CASE Start
  <2>1. memory' \in Settings
    BY <1>1, LoadType DEF Start, FileTypeOK
  <2>2. phase = "idle" /\ temp.lines = {}
    BY <1>1 DEF Start, Prefix
  <2> QED BY <1>1, <2>1, <2>2 DEF Start, FileTypeOK, Prefix
<1>2. CASE Edits
  <2>1. /\ memory' \in Settings
        /\ Idle /\ phase' = "creating"
        /\ UNCHANGED <<running, pid, file, temp, litter>>
    BY <1>2, EditType
  <2>2. temp.lines = {}
    BY <2>1 DEF Idle, Prefix
  <2> QED BY <2>1, <2>2 DEF Idle, FileTypeOK, Prefix, Phases
<1>3. CASE Killed
  BY <1>0, <1>3 DEF Killed, FileTypeOK, Prefix, Phases
<1>4. CASE OpenTemporary
  BY <1>0, <1>4 DEF OpenTemporary, FileTypeOK, Prefix, Phases
<1>5. CASE OpenFails
  BY <1>5 DEF OpenFails, FileTypeOK, Prefix, Phases
<1>6. CASE WriteLine
  BY <1>6, WriteType DEF WriteLine, FileTypeOK, Prefix
<1>7. CASE FinishWriting
  BY <1>7 DEF FinishWriting, FileTypeOK, Prefix, Phases
<1>8. CASE WritingFails
  BY <1>0, <1>8 DEF WritingFails, FileTypeOK, Prefix, Phases
<1>9. CASE Replace
  BY <1>0, <1>9 DEF Replace, FileTypeOK, Prefix, Phases
<1>10. CASE ReplaceFails
  BY <1>0, <1>10 DEF ReplaceFails, FileTypeOK, Prefix, Phases
<1>11. CASE UNCHANGED fileVars
  BY <1>11 DEF fileVars, FileTypeOK, Prefix
<1> QED BY <1>1, <1>2, <1>3, <1>4, <1>5, <1>6, <1>7, <1>8, <1>9, <1>10, <1>11
        DEF FileNext, Saves

\* Whatever fails or is interrupted, the variables keep their types; what is in
\* memory is always a layout from which the owner finds back.
THEOREM FileTypeCorrect == FileSpec => []FileTypeOK
<1>1. IInv => FileTypeOK
  BY DEF IInv
<1> QED BY InitTyped, StepTyped, <1>1, PTL DEF FileSpec
-----------------------------------------------------------------------------
\* The register holds settings at the start.
LEMMA RegisterInit == FileInit => Register!Init
<1> SUFFICES ASSUME FileInit PROVE Register!Init
  OBVIOUS
<1>1. Load(file) \in Settings
  BY InitTyped, LoadType DEF IInv, FileTypeOK
<1> QED BY <1>1, DefaultsType DEF FileInit, Register!Init

\* Every step of the file is a step of the register or none: only the rename
\* changes what a start would read, and it changes it to what Kept says.
LEMMA RegisterStep ==
  IInv /\ IInv' /\ [FileNext]_fileVars => [Register!Next]_(Register!vars)
<1> SUFFICES ASSUME FileTypeOK, Prefix, FileTypeOK', Prefix', [FileNext]_fileVars
             PROVE  [Register!Next]_(Register!vars)
  BY DEF IInv
<1> USE DEF Register!vars, Register!Next
<1>1. CASE Start
  BY <1>1 DEF Start, Register!Start
<1>2. CASE Edits
  <2>1. memory' \in Settings /\ running /\ running' = running /\ file' = file
    BY <1>2, EditType DEF Idle
  <2> QED BY <2>1 DEF Register!Edit
<1>3. CASE Killed
  BY <1>3 DEF Killed, Register!Halt
<1>4. CASE Saves /\ file' = file
  BY <1>4 DEF Saves, OpenTemporary, OpenFails, WriteLine, FinishWriting,
              WritingFails, Replace, ReplaceFails
<1>5. CASE Replace
  <2>1. /\ file' = temp /\ temp \in Files
        /\ temp.lines = LinesOf(memory) /\ temp.lines # {}
        /\ temp.of = Validated(memory) /\ running
    BY <1>5 DEF Replace, FileTypeOK, Prefix, LinesOf, Lines
  <2>2. Load(file') = Kept(memory)
    BY <2>1, LoadOfSave DEF FileTypeOK
  <2> QED BY <1>5, <2>1, <2>2 DEF Replace, Register!Save
<1>6. CASE UNCHANGED fileVars
  BY <1>6 DEF fileVars
<1>7. Saves => Replace \/ file' = file
  BY DEF Saves, OpenTemporary, OpenFails, WriteLine, FinishWriting,
         WritingFails, ReplaceFails
<1> QED BY <1>1, <1>2, <1>3, <1>4, <1>5, <1>6, <1>7 DEF FileNext

\* The settings file implements the register: no failure and no crash lets a
\* start read anything but the last save that succeeded.
THEOREM ImplementsRegister == FileSpec => IsRegister
<1> QED BY InitTyped, StepTyped, RegisterInit, RegisterStep, PTL
        DEF FileSpec, IsRegister, Register!Spec

\* A save that fails takes its temporary file away.
THEOREM NoLitter == FileSpec => FailuresLeaveNoLitter
<1>1. [FileNext]_fileVars => [litter' \subseteq litter \/ (running /\ ~running')]_fileVars
  BY DEF FileNext, Start, Edits, ToggleArtwork, MapButtons, AddIp, ClearIps, ResetSettings,
         SaveOnStop, SaveAs, Killed, Saves, OpenTemporary, OpenFails, WriteLine,
         FinishWriting, WritingFails, Replace, ReplaceFails, fileVars
<1> QED BY <1>1, PTL DEF FileSpec, FailuresLeaveNoLitter
=============================================================================
