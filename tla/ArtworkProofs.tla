---------------------------- MODULE ArtworkProofs ----------------------------
(***************************************************************************)
(* Safety of Artwork for any covers, any pages and photos, any capacities, *)
(* cache sizes and bounds of the model.                                    *)
(***************************************************************************)
EXTENDS Artwork, FunctionTheorems, SequenceTheorems, WellFoundedInduction, TLAPS
-----------------------------------------------------------------------------
(* Lists and queues *)

\* Every non-empty set of naturals has a least element.
LEMMA LeastOf ==
  ASSUME NEW T, T \subseteq Nat, T # {}
  PROVE  \E x \in T : \A y \in T : x <= y
<1>1. PICK x \in T : \A y \in T : ~(<<y, x>> \in OpToRel(<, Nat))
  BY NatLessThanWellFounded, WFMin, Zenon
<1>2. \A y \in T : ~(y < x)
  BY <1>1, Zenon DEF OpToRel
<1> QED
  BY <1>2

LEMMA FrontIsList ==
  ASSUME NEW S, NEW n \in Nat, NEW f \in [1..n -> S]
  PROVE  f \in Seq(S) /\ Len(f) = n /\ DOMAIN f = 1..n
OBVIOUS

LEMMA NoneOfType ==
  ASSUME NEW s, NEW n \in Nat, Len(s) = n
  PROVE  /\ NoneOf(s) \in Seq(Maybe) /\ Len(NoneOf(s)) = n
         /\ DOMAIN NoneOf(s) = 1..n
         /\ \A i \in 1..n : NoneOf(s)[i] = None
<1>1. NoneOf(s) \in [1..n -> Maybe]
  BY DEF NoneOf, Maybe
<1>2. \A i \in 1..n : NoneOf(s)[i] = None
  BY DEF NoneOf
<1> QED BY <1>1, <1>2, FrontIsList

LEMMA ClampType ==
  ASSUME NEW s \in Seq(Maybe), NEW at \in Nat \ {0}
  PROVE  Clamp(at, s) \in Nat \ {0}
<1>1. s # <<>> => Len(s) \in Nat \ {0}
  BY EmptySeq
<1> QED BY <1>1 DEF Clamp

LEMMA CommandParts ==
  /\ ClearCache \in Command
  /\ \A t \in Targets, u \in Covers : Download(t, u) \in Command
  /\ \A t \in Targets, u \in Covers : Download(t, u) # ClearCache
  /\ \A c \in Command : c # ClearCache =>
       c.target \in Targets /\ c.cover \in Covers /\ c = Download(c.target, c.cover)
  /\ \A t, u : Download(t, u).target = t /\ Download(t, u).cover = u
  /\ \A s, u, t, v : Download(s, u) = Download(t, v) => s = t /\ u = v
BY DEF Command, Download, ClearCache

\* A queue takes a command behind all that it holds.
LEMMA Appended ==
  ASSUME NEW S, NEW q \in Seq(S), NEW x \in S, NEW n \in Nat
  PROVE  /\ Append(q, x) \in Seq(S)
         /\ Len(q) < n => Len(Append(q, x)) <= n
         /\ DOMAIN q \subseteq DOMAIN Append(q, x)
         /\ DOMAIN Append(q, x) = 1..(Len(q) + 1)
         /\ \A i \in DOMAIN q : Append(q, x)[i] = q[i]
         /\ Len(q) + 1 \in DOMAIN Append(q, x)
         /\ Append(q, x)[Len(q) + 1] = x
OBVIOUS

LEMMA HeadAndTail ==
  ASSUME NEW S, NEW q \in Seq(S), q # <<>>
  PROVE  /\ Head(q) \in S /\ Tail(q) \in Seq(S) /\ Len(Tail(q)) = Len(q) - 1
         /\ Len(q) \in Nat \ {0} /\ 1 \in DOMAIN q /\ Head(q) = q[1]
         /\ \A i \in DOMAIN q : i # 1 => i - 1 \in DOMAIN Tail(q) /\ Tail(q)[i-1] = q[i]
         /\ \A i \in DOMAIN Tail(q) : i + 1 \in DOMAIN q /\ Tail(q)[i] = q[i + 1]
<1>1. Len(q) \in Nat \ {0}
  BY EmptySeq
<1> QED BY <1>1
-----------------------------------------------------------------------------
(* What asking for covers does *)

Boxes == [last : Maybe, path : Maybe]
Answers == [command : Command, success : BOOLEAN]
Workers == [phase : {"idle", "holding", "fetching", "storing", "answering", "done"},
            command : Command, success : BOOLEAN]

\* Marks with a cover, or none, for every row.
Tidy(m) == m \in Marks /\ Len(m.shown) = Len(m.urls)

\* A command was put into the queue, or nothing was.
Queued ==
  \/ commands' = commands
  \/ /\ HasRoom(commands, Capacity)
     /\ \E c \in Command : commands' = Append(commands, c)

\* A dropped answer of ClearCache is not forgotten.
Dropped == <<"Queue", None>> \in lost
DropStays == Dropped => Dropped'

\* After an answer or a press a chain waits as before, for nothing, or for what
\* it has just asked for or was refused.
Waits(c, was) ==
  \/ /\ chain'[c].inflight = was
     /\ \A u \in Covers : <<c, u>> \in lost => <<c, u>> \in lost'
  \/ \E u \in Covers :
       /\ was = None /\ chain'[c].inflight = u
       /\ commands' = Append(commands, Download(c, u))

\* What concerns other targets than t is left alone.
OthersLost(t) == \A s \in Targets \ {t}, u \in Covers :
                   <<s, u>> \in lost => <<s, u>> \in lost'

LEMMA Asking ==
  ASSUME NEW c \in Chains, NEW list \in Seq(Maybe), NEW at,
         NEW marks \in [Chains -> Marks], Tidy(marks[c]),
         commands \in Seq(Command), cache \subseteq Covers,
         Ask(c, list, at, marks)
  PROVE  /\ chain' = [marks EXCEPT ![c] = chain'[c]]
         /\ Tidy(chain'[c]) /\ chain'[c].urls = list
         /\ \A i \in DOMAIN chain'[c].shown :
              \/ chain'[c].shown[i] \in cache \cup {None}
              \/ \E j \in DOMAIN marks[c].shown : chain'[c].shown[i] = marks[c].shown[j]
         /\ Queued /\ DropStays /\ Waits(c, marks[c].inflight) /\ OthersLost(c)
<1> DEFINE m == marks[c]
           seen == [i \in 1..Len(list) |->
                      IF i \in DOMAIN m.urls /\ m.urls[i] = list[i]
                      THEN m.shown[i] ELSE None]
           window == IF c = "Queue" THEN QueueWindow(Len(list), at)
                     ELSE 1..Len(list)
           looked == {i \in window : list[i] # None
                               /\ (c = "Queue" => list[i] \notin m.failed)}
           misses == {i \in looked : list[i] \notin cache \cup m.failed}
           stop == m.inflight = None /\ misses # {}
           first == CHOOSE i \in misses : \A j \in misses : i <= j
           accepted == stop /\ HasRoom(commands, Capacity)
           shown == [i \in 1..Len(list) |->
             IF i \in looked /\ list[i] \in cache /\ (stop => i < first)
             THEN list[i] ELSE seen[i]]
           now == [urls |-> list, shown |-> shown,
                   inflight |-> IF accepted THEN list[first] ELSE m.inflight,
                   failed |-> m.failed]
<1>1. /\ chain' = [marks EXCEPT ![c] = now]
      /\ commands' = IF accepted THEN Append(commands, Download(c, list[first]))
                                ELSE commands
      /\ lost' = IF accepted THEN {r \in lost : r[1] # c \/ r[2] = None}
               ELSE IF stop THEN lost \cup {<<c, list[first]>>} ELSE lost
  BY DEF Ask
<1>2. /\ m \in Marks /\ Len(m.shown) = Len(m.urls) /\ DOMAIN m.shown = DOMAIN m.urls
      /\ m.shown \in Seq(Maybe) /\ m.urls \in Seq(Maybe)
      /\ m.inflight \in Maybe /\ m.failed \subseteq Covers
      /\ Len(list) \in Nat /\ DOMAIN list = 1..Len(list)
      /\ \A i \in DOMAIN list : list[i] \in Maybe
  BY DEF Tidy, Marks
<1>3. window \subseteq 1..Len(list)
  BY DEF QueueWindow
<1>4. misses \subseteq Nat /\ looked \subseteq DOMAIN list
  BY <1>2, <1>3
<1>5. stop => first \in misses
  <2> SUFFICES ASSUME misses # {} PROVE first \in misses
    OBVIOUS
  <2> HIDE DEF misses
  <2>1. \E x \in misses : \A y \in misses : x <= y
    BY <1>4, LeastOf
  <2> QED BY <2>1
<1>6. stop => list[first] \in Covers
  BY <1>2, <1>4, <1>5 DEF Maybe
<1>7. \A i \in 1..Len(list) :
        \/ shown[i] = None \/ shown[i] \in cache
        \/ \E j \in DOMAIN m.shown : shown[i] = m.shown[j]
  <2> TAKE i \in 1..Len(list)
  <2>1. shown[i] = IF i \in looked /\ list[i] \in cache /\ (stop => i < first)
                   THEN list[i] ELSE seen[i]
    OBVIOUS
  <2>2. seen[i] = IF i \in DOMAIN m.urls /\ m.urls[i] = list[i]
                  THEN m.shown[i] ELSE None
    OBVIOUS
  <2> HIDE DEF shown, seen, looked, stop, first
  <2> QED BY <2>1, <2>2, <1>2
<1>8. shown \in [1..Len(list) -> Maybe]
  <2> HIDE DEF looked, stop, first
  <2>1. \A i \in 1..Len(list) : shown[i] \in Maybe
    <3> HIDE DEF shown, m
    <3> QED BY <1>7, <1>2 DEF Maybe
  <2> QED BY <2>1
<1>9. shown \in Seq(Maybe) /\ Len(shown) = Len(list) /\ DOMAIN shown = 1..Len(list)
  BY <1>8, <1>2, FrontIsList
<1>10. Tidy(now)
  <2>1. (IF accepted THEN list[first] ELSE m.inflight) \in Maybe
    BY <1>2, <1>6 DEF Maybe
  <2> HIDE DEF shown, accepted, first, m
  <2> QED BY <1>2, <1>9, <2>1 DEF Tidy, Marks
<1>11. chain'[c] = now
  BY <1>1
<1>12. Queued
  <2> HIDE DEF accepted, first
  <2>1. CASE accepted
    <3>1. HasRoom(commands, Capacity) /\ list[first] \in Covers
      BY <2>1, <1>6 DEF accepted
    <3>2. Download(c, list[first]) \in Command
      BY <3>1, CommandParts DEF Targets
    <3> QED BY <2>1, <3>1, <3>2, <1>1 DEF Queued
  <2>2. CASE ~accepted
    BY <2>2, <1>1 DEF Queued
  <2> QED BY <2>1, <2>2
<1>13. DropStays
  <2> HIDE DEF accepted, first, stop
  <2> QED BY <1>1 DEF DropStays, Dropped
<1>14. Waits(c, m.inflight)
  <2>1. now.inflight = IF accepted THEN list[first] ELSE m.inflight
    OBVIOUS
  <2>2. accepted => m.inflight = None /\ list[first] \in Covers
    BY <1>6
  <2> HIDE DEF accepted, first, stop, now, m
  <2> QED BY <2>1, <2>2, <1>1, <1>11 DEF Waits
<1>15. OthersLost(c)
  <2> HIDE DEF accepted, first, stop
  <2> QED BY <1>1 DEF OthersLost
<1>16. now.urls = list /\ now.shown = shown
  OBVIOUS
<1>17. \A i \in DOMAIN now.shown :
         \/ now.shown[i] \in cache \cup {None}
         \/ \E j \in DOMAIN m.shown : now.shown[i] = m.shown[j]
  <2> HIDE DEF shown, m, now
  <2> QED BY <1>7, <1>9, <1>16
<1>18. chain' = [marks EXCEPT ![c] = chain'[c]]
  <2> HIDE DEF now
  <2> QED BY <1>1, <1>11
<1> HIDE DEF now, shown, accepted, first, stop
<1> QED
  BY <1>10, <1>11, <1>12, <1>13, <1>14, <1>15, <1>16, <1>17, <1>18, Zenon

\* Continue does no more than Ask, and drops the photos when they are off.
LEMMA Continuing ==
  ASSUME NEW c \in Chains, NEW list \in Seq(Maybe), NEW place, NEW at,
         NEW marks \in [Chains -> Marks], \A d \in Chains : Tidy(marks[d]),
         c = "Queue" => Len(marks[c].urls) = Len(list),
         commands \in Seq(Command), cache \subseteq Covers,
         Continue(c, list, place, at, marks)
  PROVE  /\ chain' \in [Chains -> Marks] /\ \A d \in Chains : Tidy(chain'[d])
         /\ \A d \in Chains \ {c} : chain'[d] = marks[d]
         /\ c = "Queue" => Len(chain'[c].urls) = Len(list)
         /\ \A d \in Chains : \A i \in DOMAIN chain'[d].shown :
              \/ chain'[d].shown[i] \in cache \cup {None}
              \/ \E j \in DOMAIN marks[d].shown : chain'[d].shown[i] = marks[d].shown[j]
         /\ Queued /\ DropStays /\ Waits(c, marks[c].inflight) /\ OthersLost(c)
<1>1. CASE Goes(c, list, place)
  <2>1. Ask(c, list, at, marks)
    BY <1>1 DEF Continue
  <2>2. /\ chain' = [marks EXCEPT ![c] = chain'[c]]
        /\ Tidy(chain'[c]) /\ chain'[c].urls = list
        /\ \A i \in DOMAIN chain'[c].shown :
              \/ chain'[c].shown[i] \in cache \cup {None}
              \/ \E j \in DOMAIN marks[c].shown : chain'[c].shown[i] = marks[c].shown[j]
        /\ Queued /\ DropStays /\ Waits(c, marks[c].inflight) /\ OthersLost(c)
    BY <2>1, Asking, Zenon
  <2>3. chain' \in [Chains -> Marks] /\ \A d \in Chains \ {c} : chain'[d] = marks[d]
    BY <2>2 DEF Tidy
  <2>4. \A d \in Chains : Tidy(chain'[d])
    BY <2>2, <2>3, Zenon
  <2>5. \A d \in Chains : \A i \in DOMAIN chain'[d].shown :
              \/ chain'[d].shown[i] \in cache \cup {None}
              \/ \E j \in DOMAIN marks[d].shown : chain'[d].shown[i] = marks[d].shown[j]
    BY <2>2, <2>3, Zenon
  <2> QED BY <2>2, <2>3, <2>4, <2>5, Zenon
<1>2. CASE ~Goes(c, list, place)
  <2> DEFINE off == [NoMarks EXCEPT !.inflight = marks[c].inflight]
  <2>1. /\ \/ chain' = marks
           \/ c = "Speakers" /\ chain' = [marks EXCEPT ![c] = off]
        /\ commands' = commands /\ lost' = lost
    BY <1>2 DEF Continue
  <2>2. Tidy(off) /\ off.inflight = marks[c].inflight /\ off.shown = <<>>
    <3>1. /\ NoMarks \in Marks /\ marks[c].inflight \in Maybe
          /\ NoMarks.shown = <<>> /\ NoMarks.urls = <<>>
      BY DEF NoMarks, Marks, Maybe
    <3> QED BY <3>1 DEF Tidy, Marks
  <2>3. Queued /\ DropStays /\ OthersLost(c)
    BY <2>1 DEF Queued, DropStays, Dropped, OthersLost
  <2>4. CASE chain' = marks
    BY <2>1, <2>3, <2>4 DEF Waits
  <2>5. CASE c = "Speakers" /\ chain' = [marks EXCEPT ![c] = off]
    <3> HIDE DEF off
    <3>1. chain'[c] = off /\ \A d \in Chains \ {c} : chain'[d] = marks[d]
      BY <2>5
    <3>2. chain' \in [Chains -> Marks] /\ \A d \in Chains : Tidy(chain'[d])
      BY <2>2, <2>5, <3>1 DEF Tidy
    <3>3. Waits(c, marks[c].inflight)
      BY <2>1, <2>2, <3>1 DEF Waits
    <3>4. \A i \in DOMAIN chain'[c].shown : FALSE
      BY <2>2, <3>1
    <3> QED BY <2>3, <2>5, <3>1, <3>2, <3>3, <3>4
  <2> QED BY <2>1, <2>4, <2>5
<1> QED BY <1>1, <1>2

\* A frame that turns to a cover waits for what it has just asked for or was
\* refused, or shows what was in the cache.
LEMMA Turning ==
  ASSUME NEW t \in Frames, NEW u \in Covers, NEW old \in Maybe,
         frame \in [Frames -> Boxes], Turn(t, u, old)
  PROVE  /\ frame' \in [Frames -> Boxes]
         /\ \A f \in Frames \ {t} : frame'[f] = frame[f]
         /\ frame'[t].path \in cache \cup {old} /\ frame'[t].last = u
         /\ Queued /\ DropStays /\ OthersLost(t)
         /\ \/ frame'[t].path = u \/ <<t, u>> \in lost'
            \/ commands' = Append(commands, Download(t, u))
<1> DEFINE new == [last |-> u, path |-> IF u \in cache THEN u ELSE old]
<1>1. frame' = [frame EXCEPT ![t] = new]
  BY DEF Turn
<1>2. new \in Boxes /\ new.last = u /\ new.path \in cache \cup {old}
      /\ (u \in cache => new.path = u)
  BY DEF Boxes, Maybe
<1> HIDE DEF new
<1>3. frame' \in [Frames -> Boxes] /\ frame'[t] = new
      /\ \A f \in Frames \ {t} : frame'[f] = frame[f]
  BY <1>1, <1>2
<1>4. Download(t, u) \in Command /\ u # None
  BY CommandParts, NoneIsNoCover DEF Targets
<1>5. /\ commands' = IF u \in cache THEN commands
                      ELSE PushIfRoom(commands, Capacity, Download(t, u))
      /\ lost' = IF u \in cache \/ HasRoom(commands, Capacity)
                 THEN lost \ {<<t, u>>} ELSE lost \cup {<<t, u>>}
  BY DEF Turn
<1>6. Queued /\ OthersLost(t)
  BY <1>4, <1>5 DEF Queued, OthersLost, PushIfRoom
<1>7. DropStays
  BY <1>4, <1>5 DEF DropStays, Dropped
<1> QED BY <1>2, <1>3, <1>5, <1>6, <1>7 DEF PushIfRoom
-----------------------------------------------------------------------------
(* What a press or an answer of the household may do *)

Watched == Targets \ {"NowPlayingPlaylist"}

\* A chain or a frame waits for a cover.
Awaits(t, u) ==
  \/ t \in Chains /\ chain[t].inflight = u
  \/ t \in Frames /\ frame[t].last = u /\ frame[t].path = None

\* Whatever t waits for after the step it waited for before, was refused or has
\* just been asked for.
KeepsUp(t) ==
  \A u \in Covers : Awaits(t, u)' =>
    \/ Awaits(t, u) /\ (<<t, u>> \in lost => <<t, u>> \in lost')
    \/ <<t, u>> \in lost'
    \/ commands' = Append(commands, Download(t, u))

\* A row or a frame has the cover on display.
Shows(u) ==
  \/ \E c \in Chains : \E i \in DOMAIN chain[c].shown : chain[c].shown[i] = u
  \/ \E t \in Frames \ {"NowPlayingPlaylist"} : frame[t].path = u

\* The playlist of Now Playing has it, or a start under way may put it back.
Holds(u) ==
  \/ frame["NowPlayingPlaylist"].path = u
  \/ before.pending /\ before.path = u

Kept(u) == Holds(u) \/ Shows(u) \/ u \in cache \cup {None}

\* A step that puts nothing on display but what the cache has, and waits for
\* nothing but what it asks for.
Calm ==
  /\ chain' \in [Chains -> Marks] /\ \A c \in Chains : Tidy(chain'[c])
  /\ frame' \in [Frames -> Boxes]
  /\ Queued /\ DropStays
  /\ \A t \in Watched : KeepsUp(t)
  /\ \A u : Shows(u)' => Shows(u) \/ u \in cache \cup {None}
  /\ Kept(frame'["NowPlayingPlaylist"].path)

LEMMA Kinds ==
  /\ Chains \cap Frames = {} /\ Targets = Chains \cup Frames
  /\ Browsers \subseteq Frames /\ Browsers \subseteq Lists
  /\ {"NowPlaying", "NowPlayingPlaylist"} \subseteq Frames
  /\ "NowPlayingPlaylist" \notin Browsers \cup Chains
  /\ "Queue" \in Chains \cap Lists /\ "Speakers" \in Chains /\ "Queue" \notin Browsers
  /\ {"NowPlaying", "Queue", "Speakers", "Settings"} \cup Browsers \subseteq Screens
BY BrowsersAreLists DEF Chains, Frames, Targets, Lists, Screens

LEMMA Typed ==
  ASSUME TypeOK
  PROVE  /\ chain \in [Chains -> Marks] /\ \A c \in Chains : Tidy(chain[c])
         /\ frame \in [Frames -> Boxes]
         /\ commands \in Seq(Command) /\ cache \subseteq Covers
         /\ \A l \in Lists : rows[l] \in Seq(Maybe)
         /\ Photos \in Seq(Maybe) /\ \A page \in RowLists : page \in Seq(Maybe)
BY RowsAreCovers DEF TypeOK, Tidy, Boxes, Maybe

\* One chain goes on from marks that show and await no more than it did.
LEMMA ChainCalm ==
  ASSUME TypeOK, frame' = frame,
         NEW c \in Chains, NEW list \in Seq(Maybe), NEW place, NEW at,
         NEW marks \in [Chains -> Marks], \A d \in Chains : Tidy(marks[d]),
         \A d \in Chains : marks[d].inflight = chain[d].inflight,
         \A d \in Chains : \A i \in DOMAIN marks[d].shown :
           marks[d].shown[i] = None \/ Shows(marks[d].shown[i]),
         c = "Queue" => Len(marks[c].urls) = Len(list),
         Continue(c, list, place, at, marks)
  PROVE  /\ Calm
         /\ c = "Queue" => Len(chain'[c].urls) = Len(list)
         /\ \A d \in Chains \ {c} : chain'[d] = marks[d]
<1>1. /\ chain' \in [Chains -> Marks] /\ \A d \in Chains : Tidy(chain'[d])
      /\ \A d \in Chains \ {c} : chain'[d] = marks[d]
      /\ c = "Queue" => Len(chain'[c].urls) = Len(list)
      /\ \A d \in Chains : \A i \in DOMAIN chain'[d].shown :
           \/ chain'[d].shown[i] \in cache \cup {None}
           \/ \E j \in DOMAIN marks[d].shown : chain'[d].shown[i] = marks[d].shown[j]
      /\ Queued /\ DropStays /\ Waits(c, marks[c].inflight) /\ OthersLost(c)
  BY Typed, Continuing, Zenon
<1>2. frame' \in [Frames -> Boxes]
  BY Typed
<1>3. ASSUME NEW t \in Watched PROVE KeepsUp(t)
  <2>1. CASE t = c
    BY <1>1, <2>1, Kinds DEF KeepsUp, Waits, Awaits
  <2>2. CASE t # c
    <3>1. \A u \in Covers : <<t, u>> \in lost => <<t, u>> \in lost'
      BY <1>1, <2>2 DEF OthersLost, Watched
    <3>2. \A u \in Covers : Awaits(t, u)' => Awaits(t, u)
      BY <1>1, <2>2 DEF Awaits
    <3> QED BY <3>1, <3>2 DEF KeepsUp
  <2> QED BY <2>1, <2>2
<1>4. ASSUME NEW u, Shows(u)' PROVE Shows(u) \/ u \in cache \cup {None}
  <2>1. CASE \E t \in Frames \ {"NowPlayingPlaylist"} : frame'[t].path = u
    BY <2>1 DEF Shows
  <2>2. CASE \E d \in Chains : \E i \in DOMAIN chain'[d].shown : chain'[d].shown[i] = u
    <3>1. PICK d \in Chains : \E i \in DOMAIN chain'[d].shown : chain'[d].shown[i] = u
      BY <2>2
    <3>2. PICK i \in DOMAIN chain'[d].shown : chain'[d].shown[i] = u
      BY <3>1
    <3>3. \/ u \in cache \cup {None}
          \/ \E j \in DOMAIN marks[d].shown : u = marks[d].shown[j]
      BY <1>1, <3>2
    <3> QED BY <3>3
  <2> QED BY <1>4, <2>1, <2>2 DEF Shows
<1>5. Kept(frame'["NowPlayingPlaylist"].path)
  BY DEF Kept, Holds
<1> QED BY <1>1, <1>2, <1>3, <1>4, <1>5 DEF Calm

\* A chain's marks change and nothing is asked for.
LEMMA MarksCalm ==
  ASSUME TypeOK, frame' = frame, commands' = commands, lost' = lost,
         chain' \in [Chains -> Marks], \A d \in Chains : Tidy(chain'[d]),
         \A d \in Chains : chain'[d].inflight \in {chain[d].inflight, None},
         \A d \in Chains : \A i \in DOMAIN chain'[d].shown :
           chain'[d].shown[i] = None \/ Shows(chain'[d].shown[i])
  PROVE  Calm
<1>1. frame' \in [Frames -> Boxes]
  BY Typed
<1>2. Queued /\ DropStays
  BY DEF Queued, DropStays, Dropped
<1>3. ASSUME NEW t \in Watched PROVE KeepsUp(t)
  BY NoneIsNoCover DEF KeepsUp, Awaits
<1>4. ASSUME NEW u, Shows(u)' PROVE Shows(u) \/ u \in cache \cup {None}
  BY <1>4 DEF Shows
<1>5. Kept(frame'["NowPlayingPlaylist"].path)
  BY DEF Kept, Holds
<1> QED BY <1>1, <1>2, <1>3, <1>4, <1>5 DEF Calm

\* One frame turns, goes dark or stays as it is.
LEMMA FrameCalm ==
  ASSUME TypeOK, chain' = chain, NEW t \in Frames,
         frame' \in [Frames -> Boxes],
         \A f \in Frames \ {t} : frame'[f] = frame[f],
         t # "NowPlayingPlaylist" => frame'[t].path \in cache \cup {None, frame[t].path},
         t = "NowPlayingPlaylist" => Kept(frame'[t].path),
         Queued, DropStays, OthersLost(t),
         t # "NowPlayingPlaylist" => KeepsUp(t)
  PROVE  Calm
<1>1. chain' \in [Chains -> Marks] /\ \A d \in Chains : Tidy(chain'[d])
  BY Typed
<1>2. ASSUME NEW s \in Watched PROVE KeepsUp(s)
  <2>1. CASE s = t
    BY <2>1 DEF Watched
  <2>2. CASE s # t
    <3>1. \A u \in Covers : <<s, u>> \in lost => <<s, u>> \in lost'
      BY <2>2 DEF OthersLost, Watched
    <3>2. \A u \in Covers : Awaits(s, u)' => Awaits(s, u)
      BY <2>2 DEF Awaits
    <3> QED BY <3>1, <3>2 DEF KeepsUp
  <2> QED BY <2>1, <2>2
<1>3. ASSUME NEW u, Shows(u)' PROVE Shows(u) \/ u \in cache \cup {None}
  BY <1>3 DEF Shows
<1>4. Kept(frame'["NowPlayingPlaylist"].path)
  BY Kinds DEF Kept, Holds
<1> QED BY <1>1, <1>2, <1>3, <1>4 DEF Calm

LEMMA StayCalm ==
  ASSUME TypeOK, UNCHANGED <<chain, frame, commands, lost>>
  PROVE  Calm
<1>1. \A d \in Chains : \A i \in DOMAIN chain[d].shown : Shows(chain[d].shown[i])
  BY DEF Shows
<1> QED BY <1>1, Typed, MarksCalm

LEMMA BlankCalm ==
  ASSUME TypeOK, chain' = chain, NEW t \in Frames, Blank(t)
  PROVE  Calm
<1>1. Dark \in Boxes /\ Dark.last = None /\ Dark.path = None
  BY DEF Dark, Boxes, Maybe
<1>2. /\ frame' = [frame EXCEPT ![t] = Dark] /\ commands' = commands /\ lost' = lost
      /\ frame \in [Frames -> Boxes]
  BY Typed DEF Blank
<1>3. /\ frame' \in [Frames -> Boxes] /\ frame'[t] = Dark
      /\ \A f \in Frames \ {t} : frame'[f] = frame[f]
  BY <1>1, <1>2
<1>4. Queued /\ DropStays /\ OthersLost(t)
  BY <1>2 DEF Queued, DropStays, Dropped, OthersLost
<1>5. KeepsUp(t)
  BY <1>1, <1>3, NoneIsNoCover, Kinds DEF KeepsUp, Awaits
<1>6. Kept(frame'[t].path)
  BY <1>1, <1>3 DEF Kept
<1> QED BY <1>1, <1>3, <1>4, <1>5, <1>6, FrameCalm

LEMMA TurnCalm ==
  ASSUME TypeOK, chain' = chain, NEW t \in Frames, NEW u \in Covers, NEW old \in Maybe,
         old = None \/ old = frame[t].path, t # "NowPlayingPlaylist" => old = None,
         Turn(t, u, old)
  PROVE  Calm
<1>1. /\ frame' \in [Frames -> Boxes]
      /\ \A f \in Frames \ {t} : frame'[f] = frame[f]
      /\ frame'[t].path \in cache \cup {old} /\ frame'[t].last = u
      /\ Queued /\ DropStays /\ OthersLost(t)
      /\ \/ frame'[t].path = u \/ <<t, u>> \in lost'
         \/ commands' = Append(commands, Download(t, u))
  BY Typed, Turning
<1>2. KeepsUp(t)
  BY <1>1, NoneIsNoCover, Kinds DEF KeepsUp, Awaits
<1>3. Kept(frame'[t].path)
  BY <1>1 DEF Kept, Holds
<1> QED BY <1>1, <1>2, <1>3, FrameCalm

LEMMA SelectCalm ==
  ASSUME TypeOK, chain' = chain, NEW l \in Browsers, NEW list \in Seq(Maybe),
         NEW place, NEW at, Select(l, list, place, at)
  PROVE  Calm
<1>1. l \in Frames
  BY Kinds
<1>2. CASE Blank(l)
  BY <1>1, <1>2, BlankCalm
<1>3. CASE Stay
  BY <1>3, StayCalm DEF Stay
<1>4. CASE at \in DOMAIN list /\ CoverAt(list, at) # None /\ Turn(l, CoverAt(list, at), None)
  <2>1. CoverAt(list, at) \in Covers
    BY <1>4 DEF CoverAt, Maybe
  <2> QED BY <1>1, <1>4, <2>1, TurnCalm DEF Maybe
<1> QED BY <1>2, <1>3, <1>4, Zenon DEF Select
-----------------------------------------------------------------------------
(* Presses and answers of the household, one by one *)

\* What a start would put back is what was on display when it was asked for.
StartHolds == before' = before \/ before'.path = frame["NowPlayingPlaylist"].path

\* A step of the SDL thread that leaves the worker alone.
Harmless ==
  /\ TypeOK' /\ Calm /\ worker' = worker /\ results' = results
  /\ cache \cup evicted \subseteq cache' \cup evicted' /\ outlived' = outlived
  /\ before'.pending => StartHolds
  /\ cancelled => cancelled'

LEMMA QueuedType ==
  ASSUME TypeOK, Queued
  PROVE  commands' \in Seq(Command) /\ Len(commands') <= Capacity
<1>1. commands \in Seq(Command) /\ Len(commands) <= Capacity /\ Capacity \in Nat
  BY BoundsAreNat DEF TypeOK
<1>2. CASE commands' = commands
  BY <1>1, <1>2
<1>3. CASE /\ HasRoom(commands, Capacity)
           /\ \E c \in Command : commands' = Append(commands, c)
  BY <1>1, <1>3, Appended DEF HasRoom
<1> QED BY <1>2, <1>3 DEF Queued

LEMMA HarmlessWhen ==
  ASSUME TypeOK, Calm, screen' \in Screens, selection' \in Nat \ {0},
         rows' \in [Lists -> Seq(Maybe)], on' \in [Chains -> BOOLEAN],
         Len(chain'["Queue"].urls) = Len(rows'["Queue"]),
         before' \in [pending : BOOLEAN, last : Maybe, path : Maybe],
         before'.pending => StartHolds,
         worker' = worker, results' = results,
         cache' \subseteq Covers, size' \in Sizes, outlived' = outlived,
         cache \cup evicted \subseteq cache' \cup evicted',
         paused' \in BOOLEAN, cancelled' \in BOOLEAN, cancelled => cancelled'
  PROVE  Harmless
<1>1. commands' \in Seq(Command) /\ Len(commands') <= Capacity
  BY QueuedType DEF Calm
<1>2. /\ chain' \in [Chains -> Marks] /\ frame' \in [Frames -> Boxes]
      /\ \A c \in Chains : Len(chain'[c].shown) = Len(chain'[c].urls)
  BY DEF Calm, Tidy
<1>3. TypeOK'
  BY <1>1, <1>2 DEF TypeOK, Boxes
<1> QED BY <1>3 DEF Harmless

\* Most steps leave the settings, the rows and the files alone too.
LEMMA HarmlessHere ==
  ASSUME TypeOK, Calm, screen' \in Screens, selection' \in Nat \ {0},
         UNCHANGED <<rows, on>>, chain'["Queue"].urls = chain["Queue"].urls
                              \/ Len(chain'["Queue"].urls) = Len(rows["Queue"]),
         before' \in [pending : BOOLEAN, last : Maybe, path : Maybe],
         before'.pending => StartHolds, KeepWorker, paused' \in BOOLEAN, cancelled' \in BOOLEAN,
         cancelled => cancelled'
  PROVE  Harmless
<1>1. /\ worker' = worker /\ results' = results /\ cache' = cache /\ size' = size
      /\ evicted' = evicted /\ outlived' = outlived
  BY DEF KeepWorker, disk
<1>2. Len(chain'["Queue"].urls) = Len(rows'["Queue"])
  BY DEF TypeOK
<1> QED BY <1>1, <1>2, HarmlessWhen DEF TypeOK

\* Marks as they are may go on in either chain.
LEMMA MarksAsTheyAre ==
  ASSUME TypeOK
  PROVE  /\ \A d \in Chains : \A i \in DOMAIN chain[d].shown : Shows(chain[d].shown[i])
         /\ Len(chain["Queue"].urls) = Len(rows["Queue"])
BY DEF Shows, TypeOK

LEMMA PressKeeps ==
  Act => /\ paused' = paused /\ cancelled' = cancelled /\ ~cancelled
BY DEF Act, Running

LEMMA OpenIsHarmless ==
  ASSUME TypeOK, NEW s \in Screens, Open(s) PROVE Harmless
<1>1. /\ screen' = s /\ UNCHANGED <<frame, before, rows, on>> /\ KeepWorker
      /\ paused' = paused /\ cancelled' = cancelled
  BY PressKeeps DEF Open, KeepSettings
<1>2. selection' \in Nat \ {0}
  <2>1. \E at \in 1..MaxRows :
          selection' = IF s \in Lists THEN Clamp(at, rows[s]) ELSE 1
    BY DEF Open
  <2>2. MaxRows \in Nat
    BY BoundsAreNat
  <2> QED BY <2>1, <2>2, Typed, ClampType
<1>3. Calm /\ chain'["Queue"] = chain["Queue"]
  <2>1. CASE s = "Speakers"
    <3>1. Continue("Speakers", Photos, s, 1, chain)
      BY <2>1 DEF Open
    <3> QED BY <1>1, <3>1, Typed, MarksAsTheyAre, Kinds, ChainCalm
  <2>2. CASE s # "Speakers"
    BY <1>1, <2>2, StayCalm DEF Open, KeepQueues
  <2> QED BY <2>1, <2>2
<1> QED BY <1>1, <1>2, <1>3, HarmlessHere DEF TypeOK, StartHolds

LEMMA BackIsHarmless ==
  ASSUME TypeOK, NEW s \in Screens, Back(s) PROVE Harmless
<1>1. /\ screen' = s /\ UNCHANGED <<chain, before, rows, on>> /\ KeepWorker
      /\ paused' = paused /\ cancelled' = cancelled
  BY PressKeeps DEF Back, KeepSettings, Press
<1>2. selection' \in Nat \ {0}
  <2>1. selection' \in IF s \in Lists THEN 1..MaxRows ELSE {1}
    BY DEF Back
  <2>2. MaxRows \in Nat
    BY BoundsAreNat
  <2> QED BY <2>1, <2>2
<1>3. Calm
  <2>1. CASE s \in Browsers
    <3>1. Select(s, rows[s], s, selection')
      BY <2>1 DEF Back
    <3>2. rows[s] \in Seq(Maybe)
      BY <2>1, Typed, Kinds
    <3>3. \A at : Select(s, rows[s], s, at) => Calm
      BY <1>1, <2>1, <3>2, SelectCalm
    <3> QED BY <3>1, <3>3
  <2>2. CASE s \notin Browsers
    BY <1>1, <2>2, StayCalm DEF Back, Stay
  <2> QED BY <2>1, <2>2
<1> QED BY <1>1, <1>2, <1>3, HarmlessHere DEF TypeOK, StartHolds

LEMMA MoveIsHarmless ==
  ASSUME TypeOK, NEW to \in 1..MaxRows, Move(to) PROVE Harmless
<1>1. /\ selection' = to /\ UNCHANGED <<screen, before, rows, on>> /\ KeepWorker
      /\ paused' = paused /\ cancelled' = cancelled /\ to \in Nat \ {0}
  BY PressKeeps, BoundsAreNat DEF Move, KeepSettings, Press
<1>2. CASE /\ screen = "Queue" /\ UNCHANGED frame
           /\ Continue("Queue", rows["Queue"], screen, to, chain)
  <2>1. Calm /\ Len(chain'["Queue"].urls) = Len(rows["Queue"])
    BY <1>2, Typed, MarksAsTheyAre, Kinds, ChainCalm
  <2> QED BY <1>1, <2>1, HarmlessHere DEF TypeOK, StartHolds
<1>3. CASE /\ screen # "Queue" /\ UNCHANGED chain
           /\ Select(screen, rows[screen], screen, to)
  <2>1. screen \in Browsers
    BY <1>3 DEF Move, Lists
  <2>2. rows[screen] \in Seq(Maybe)
    BY <2>1, Typed, Kinds
  <2>3. \A l \in Browsers : rows[l] \in Seq(Maybe) /\ Select(l, rows[l], l, to) => Calm
    BY <1>3, SelectCalm
  <2>4. Calm
    BY <1>3, <2>1, <2>2, <2>3
  <2> QED BY <1>1, <1>3, <2>4, HarmlessHere DEF TypeOK, StartHolds
<1> QED BY <1>2, <1>3 DEF Move

\* The Queue's marks when its covers are forgotten or looked up anew.
LEMMA QueueMarks ==
  ASSUME TypeOK, NEW m \in Marks,
         m.urls = NoneOf(rows["Queue"]), m.inflight = chain["Queue"].inflight,
         \/ m.shown = chain["Queue"].shown \/ m.shown = NoneOf(rows["Queue"]),
         chain' = [chain EXCEPT !["Queue"] = m],
         frame' = frame, commands' = commands, lost' = lost
  PROVE  Calm /\ Len(chain'["Queue"].urls) = Len(rows["Queue"])
<1> DEFINE n == Len(rows["Queue"])
<1>1. /\ n \in Nat /\ rows["Queue"] \in Seq(Maybe)
      /\ Len(chain["Queue"].urls) = n /\ Len(chain["Queue"].shown) = n
      /\ "Queue" \in Chains /\ chain \in [Chains -> Marks]
      /\ \A c \in Chains : Tidy(chain[c])
  BY Typed, Kinds DEF TypeOK
<1>2. /\ Len(NoneOf(rows["Queue"])) = n /\ DOMAIN NoneOf(rows["Queue"]) = 1..n
      /\ \A i \in 1..n : NoneOf(rows["Queue"])[i] = None
  BY <1>1, NoneOfType
<1> HIDE DEF n
<1>3. /\ chain' \in [Chains -> Marks] /\ chain'["Queue"] = m
      /\ \A d \in Chains \ {"Queue"} : chain'[d] = chain[d]
  BY <1>1
<1>4. Tidy(m) /\ Len(m.urls) = n
  BY <1>1, <1>2 DEF Tidy
<1>5. \A d \in Chains : Tidy(chain'[d])
  BY <1>1, <1>3, <1>4
<1>6. \A d \in Chains : \A i \in DOMAIN chain'[d].shown :
        chain'[d].shown[i] = None \/ Shows(chain'[d].shown[i])
  BY <1>2, <1>3, MarksAsTheyAre
<1>7. Calm
  BY <1>3, <1>5, <1>6, MarksCalm
<1> QED BY <1>3, <1>4, <1>7 DEF n

LEMMA TogglesAreHarmless ==
  ASSUME TypeOK, ToggleArtwork \/ ToggleHttps PROVE Harmless
<1>1. /\ UNCHANGED <<screen, selection, rows, frame, before, commands, lost>>
      /\ KeepWorker /\ paused' = paused /\ cancelled' = cancelled
  BY PressKeeps DEF ToggleArtwork, ToggleHttps, Press, KeepQueues, view
<1>2. /\ chain \in [Chains -> Marks] /\ "Queue" \in Chains
      /\ rows["Queue"] \in Seq(Maybe)
  BY Typed, Kinds
<1>3. NoneOf(rows["Queue"]) \in Seq(Maybe) /\ {} \subseteq Covers
  <2>1. Len(rows["Queue"]) \in Nat
    BY <1>2
  <2> QED BY <2>1, NoneOfType
<1> DEFINE old == chain["Queue"]
           forgotten == [old EXCEPT !.urls = NoneOf(rows["Queue"]),
                                    !.shown = NoneOf(rows["Queue"]), !.failed = {}]
           anew == [old EXCEPT !.urls = NoneOf(rows["Queue"]), !.failed = {}]
<1>4. /\ forgotten \in Marks /\ anew \in Marks
      /\ forgotten.urls = NoneOf(rows["Queue"]) /\ anew.urls = NoneOf(rows["Queue"])
      /\ forgotten.shown = NoneOf(rows["Queue"]) /\ anew.shown = old.shown
      /\ forgotten.inflight = old.inflight /\ anew.inflight = old.inflight
  BY <1>2, <1>3 DEF Marks
<1>5. CASE chain' = chain /\ on' = [on EXCEPT !["Queue"] = ~@]
  <2>1. Calm
    BY <1>1, <1>5, StayCalm
  <2>2. on' \in [Chains -> BOOLEAN]
    BY <1>5, <1>2 DEF TypeOK
  <2> QED BY <1>1, <1>5, <2>1, <2>2, HarmlessWhen DEF TypeOK, KeepWorker, disk, StartHolds
<1>6. CASE /\ chain' = [chain EXCEPT !["Queue"] = forgotten]
           /\ on' = [on EXCEPT !["Queue"] = ~@]
  <2>1. Calm /\ Len(chain'["Queue"].urls) = Len(rows["Queue"])
    <3> HIDE DEF forgotten
    <3> QED BY <1>1, <1>4, <1>6, QueueMarks
  <2>2. on' \in [Chains -> BOOLEAN]
    BY <1>6, <1>2 DEF TypeOK
  <2> QED BY <1>1, <1>6, <2>1, <2>2, HarmlessWhen DEF TypeOK, KeepWorker, disk, StartHolds
<1>7. CASE chain' = [chain EXCEPT !["Queue"] = anew] /\ on' = on
  <2>1. Calm /\ Len(chain'["Queue"].urls) = Len(rows["Queue"])
    <3> HIDE DEF anew
    <3> QED BY <1>1, <1>4, <1>7, QueueMarks
  <2> QED BY <1>1, <1>7, <2>1, HarmlessHere DEF TypeOK, StartHolds
<1>8. ToggleArtwork => \/ chain' = chain /\ on' = [on EXCEPT !["Queue"] = ~@]
                       \/ /\ chain' = [chain EXCEPT !["Queue"] = forgotten]
                          /\ on' = [on EXCEPT !["Queue"] = ~@]
  BY DEF ToggleArtwork
<1>9. ToggleHttps => chain' = [chain EXCEPT !["Queue"] = anew] /\ on' = on
  BY DEF ToggleHttps, view
<1> HIDE DEF forgotten, anew
<1> QED BY <1>5, <1>6, <1>7, <1>8, <1>9

LEMMA TogglePhotosIsHarmless ==
  ASSUME TypeOK, TogglePhotos PROVE Harmless
<1> DEFINE blank == [chain EXCEPT !["Speakers"] = NoMarks]
<1>1. /\ UNCHANGED <<screen, selection, rows, frame, before>>
      /\ KeepWorker /\ paused' = paused /\ cancelled' = cancelled
      /\ on' = [on EXCEPT !["Speakers"] = ~@]
  BY PressKeeps DEF TogglePhotos, Press
<1>2. /\ chain \in [Chains -> Marks] /\ "Speakers" \in Chains
      /\ \A d \in Chains : Tidy(chain[d])
      /\ commands \in Seq(Command) /\ cache \subseteq Covers /\ Photos \in Seq(Maybe)
  BY Typed, Kinds
<1>3. Tidy(NoMarks) /\ NoMarks.inflight = None /\ NoMarks.shown = <<>>
  BY DEF NoMarks, Tidy, Marks, Maybe
<1>4. /\ blank \in [Chains -> Marks] /\ blank["Speakers"] = NoMarks
      /\ \A d \in Chains \ {"Speakers"} : blank[d] = chain[d]
  BY <1>2, <1>3 DEF Tidy
<1> HIDE DEF blank
<1>5. /\ \A d \in Chains : Tidy(blank[d])
      /\ \A d \in Chains : \A i \in DOMAIN blank[d].shown : Shows(blank[d].shown[i])
      /\ \A d \in Chains : blank[d].inflight \in {chain[d].inflight, None}
  BY <1>2, <1>3, <1>4, MarksAsTheyAre
<1>6. on' \in [Chains -> BOOLEAN]
  BY <1>1, <1>2 DEF TypeOK
<1>7. ASSUME chain' = blank, KeepQueues PROVE Calm
  <2>1. /\ chain' \in [Chains -> Marks] /\ \A d \in Chains : Tidy(chain'[d])
        /\ \A d \in Chains : chain'[d].inflight \in {chain[d].inflight, None}
    BY <1>4, <1>5, <1>7
  <2>2. \A d \in Chains : \A i \in DOMAIN chain'[d].shown :
           chain'[d].shown[i] = None \/ Shows(chain'[d].shown[i])
    BY <1>5, <1>7
  <2>3. frame' = frame /\ commands' = commands /\ lost' = lost
    BY <1>1, <1>7 DEF KeepQueues
  <2> QED BY <2>1, <2>2, <2>3, MarksCalm
<1>8. ASSUME Ask("Speakers", Photos, 1, blank) PROVE Calm
  <2>1. /\ chain' = [blank EXCEPT !["Speakers"] = chain'["Speakers"]]
        /\ Tidy(chain'["Speakers"])
        /\ \A i \in DOMAIN chain'["Speakers"].shown :
              \/ chain'["Speakers"].shown[i] \in cache \cup {None}
              \/ \E j \in DOMAIN blank["Speakers"].shown :
                   chain'["Speakers"].shown[i] = blank["Speakers"].shown[j]
        /\ Queued /\ DropStays /\ Waits("Speakers", blank["Speakers"].inflight)
        /\ OthersLost("Speakers")
    BY <1>2, <1>4, <1>5, <1>8, Asking
  <2>2. /\ chain' \in [Chains -> Marks]
        /\ \A d \in Chains \ {"Speakers"} : chain'[d] = chain[d]
    BY <1>2, <1>4, <2>1 DEF Tidy
  <2>3. \A d \in Chains : Tidy(chain'[d])
    BY <1>2, <2>1, <2>2
  <2>4. ASSUME NEW t \in Watched PROVE KeepsUp(t)
    <3>1. CASE t = "Speakers"
      <4>1. \/ chain'["Speakers"].inflight = None
            \/ \E u \in Covers : /\ chain'["Speakers"].inflight = u
                                 /\ commands' = Append(commands, Download("Speakers", u))
        BY <1>3, <1>4, <2>1 DEF Waits
      <4> QED BY <3>1, <4>1, NoneIsNoCover, Kinds DEF KeepsUp, Awaits
    <3>2. CASE t # "Speakers"
      <4>1. \A u \in Covers : <<t, u>> \in lost => <<t, u>> \in lost'
        BY <2>1, <3>2 DEF OthersLost, Watched
      <4>2. \A u \in Covers : Awaits(t, u)' => Awaits(t, u)
        BY <1>1, <2>2, <3>2 DEF Awaits
      <4> QED BY <4>1, <4>2 DEF KeepsUp
    <3> QED BY <3>1, <3>2
  <2>5. ASSUME NEW u, Shows(u)' PROVE Shows(u) \/ u \in cache \cup {None}
    BY <1>1, <1>3, <1>4, <2>1, <2>2, <2>5 DEF Shows
  <2>6. frame' \in [Frames -> Boxes] /\ Kept(frame'["NowPlayingPlaylist"].path)
    BY <1>1, Typed DEF Kept, Holds
  <2> QED BY <2>1, <2>2, <2>3, <2>4, <2>5, <2>6 DEF Calm
<1>9. \/ chain' = blank /\ KeepQueues
      \/ Ask("Speakers", Photos, 1, blank)
  BY DEF TogglePhotos, blank
<1>10. Calm
  BY <1>7, <1>8, <1>9
<1>11. chain'["Queue"] = chain["Queue"]
  <2>1. CASE Ask("Speakers", Photos, 1, blank)
    <3>1. chain' = [blank EXCEPT !["Speakers"] = chain'["Speakers"]]
      BY <1>2, <1>4, <1>5, <2>1, Asking
    <3> QED BY <1>4, <3>1, Kinds
  <2>2. CASE chain' = blank
    BY <1>4, <2>2, Kinds
  <2> QED BY <1>9, <2>1, <2>2
<1> QED BY <1>1, <1>6, <1>10, <1>11, HarmlessWhen DEF TypeOK, KeepWorker, disk, StartHolds

\* Eviction takes files from the cache and remembers that it did.
LEMMA Evicting ==
  ASSUME TypeOK, NEW limit \in Sizes, EvictTo(limit)
  PROVE  /\ size' \in Sizes /\ cache' \subseteq cache
         /\ cache' \cup evicted' = cache \cup evicted /\ outlived' = outlived
BY DEF EvictTo

LEMMA CacheSettingsAreHarmless ==
  ASSUME TypeOK, ResetSettings \/ (\E limit \in Sizes : ResizeCache(limit))
  PROVE  Harmless
<1>1. /\ UNCHANGED <<screen, selection, rows, chain, frame, before, worker, results,
                     commands, lost>>
      /\ paused' = paused /\ cancelled' = cancelled
      /\ \E limit \in Sizes : EvictTo(limit)
      /\ on' = on \/ on' = [c \in Chains |-> TRUE]
  BY PressKeeps DEF ResetSettings, ResizeCache, Press, KeepQueues, view
<1>2. /\ size' \in Sizes /\ cache' \subseteq cache
      /\ cache' \cup evicted' = cache \cup evicted /\ outlived' = outlived
  BY <1>1, Evicting
<1>3. Calm
  BY <1>1, StayCalm
<1>4. on' \in [Chains -> BOOLEAN]
  BY <1>1 DEF TypeOK
<1> QED BY <1>1, <1>2, <1>3, <1>4, HarmlessWhen DEF TypeOK, StartHolds

LEMMA ClearArtworkIsHarmless ==
  ASSUME TypeOK, ClearArtwork PROVE Harmless
<1>1. /\ UNCHANGED <<screen, selection, rows, on, chain, frame, before, lost>>
      /\ KeepWorker /\ paused' = paused /\ cancelled' = cancelled
      /\ commands' = PushIfRoom(commands, Capacity, ClearCache)
  BY PressKeeps DEF ClearArtwork, Press, view
<1>2. Queued /\ DropStays
  BY <1>1, CommandParts DEF Queued, DropStays, Dropped, PushIfRoom
<1>3. Calm
  BY <1>1, <1>2, Typed DEF Calm, KeepsUp, Awaits, Shows, Kept, Holds
<1> QED BY <1>1, <1>3, HarmlessHere DEF TypeOK, StartHolds

LEMMA StartPlaylistIsHarmless ==
  ASSUME TypeOK, NEW l \in Browsers, StartPlaylist(l) PROVE Harmless
<1> DEFINE u == CoverAt(rows[l], selection)
           t == "NowPlayingPlaylist"
<1>1. /\ screen' = "NowPlaying" /\ selection' = 1 /\ UNCHANGED <<chain, rows, on>>
      /\ KeepWorker /\ paused' = paused /\ cancelled' = cancelled
      /\ before' = [pending |-> TRUE, last |-> frame[t].last, path |-> frame[t].path]
      /\ selection \in DOMAIN rows[l]
      /\ \/ Blank(t) \/ Stay
         \/ u # None /\ Turn(t, u, None)
         \/ frame' = [frame EXCEPT ![t] = frame["Playlists"]] /\ KeepQueues
  <2>1. StartPlaylist(l) => Act
    BY DEF StartPlaylist, Press
  <2> QED BY <2>1, PressKeeps DEF StartPlaylist, KeepSettings
<1>2. /\ t \in Frames /\ frame \in [Frames -> Boxes] /\ rows[l] \in Seq(Maybe)
      /\ "Playlists" \in Frames /\ "NowPlaying" \in Screens
  BY Typed, Kinds, BrowsersAreLists
<1>3. u \in Maybe
  BY <1>1, <1>2 DEF CoverAt
<1> HIDE DEF u
<1>4. ASSUME Blank(t) PROVE Calm
  BY <1>1, <1>2, <1>4, BlankCalm
<1>5. ASSUME Stay PROVE Calm
  BY <1>1, <1>5, StayCalm DEF Stay
<1>6. ASSUME u # None, Turn(t, u, None) PROVE Calm
  BY <1>1, <1>2, <1>3, <1>6, TurnCalm DEF Maybe
<1>7. ASSUME frame' = [frame EXCEPT ![t] = frame["Playlists"]], KeepQueues PROVE Calm
  <2>1. /\ frame' \in [Frames -> Boxes]
        /\ \A f \in Frames \ {t} : frame'[f] = frame[f]
    BY <1>2, <1>7
  <2>2. Queued /\ DropStays /\ OthersLost(t)
    BY <1>7 DEF KeepQueues, Queued, DropStays, Dropped, OthersLost
  <2>3. Kept(frame'[t].path)
    <3>1. frame'[t] = frame["Playlists"]
      BY <1>2, <1>7
    <3> QED BY <1>2, <3>1, Kinds, BrowsersAreLists DEF Kept, Shows
  <2> QED BY <1>1, <1>2, <2>1, <2>2, <2>3, FrameCalm
<1>8. before' \in [pending : BOOLEAN, last : Maybe, path : Maybe]
  BY <1>1, <1>2 DEF Boxes
<1>9. Calm
  BY <1>1, <1>4, <1>5, <1>6, <1>7
<1> QED BY <1>1, <1>2, <1>8, <1>9, HarmlessHere DEF TypeOK, StartHolds

LEMMA ListArrivesIsHarmless ==
  ASSUME TypeOK, NEW l \in Lists, NEW page \in RowLists, NEW first \in BOOLEAN,
         ListArrives(l, page, first)
  PROVE  Harmless
<1> DEFINE list == IF first THEN page ELSE rows[l] \o page
           at == Clamp(selection, list)
           grown(s) == [i \in 1..Len(list) |->
                     IF ~first /\ i \in DOMAIN s THEN s[i] ELSE None]
           old == chain["Queue"]
           new == [old EXCEPT !.urls = grown(old.urls), !.shown = grown(old.shown),
                              !.failed = IF first THEN {} ELSE old.failed]
           marks == [chain EXCEPT !["Queue"] = new]
<1>1. /\ UNCHANGED <<screen, on, before>> /\ KeepWorker
      /\ paused' = paused /\ cancelled' = cancelled
      /\ rows' = [rows EXCEPT ![l] = list] /\ selection' = at
      /\ IF l = "Queue" THEN Continue(l, list, screen, at, marks) /\ UNCHANGED frame
         ELSE Select(l, list, screen, at) /\ UNCHANGED chain
  BY PressKeeps DEF ListArrives
<1>2. /\ page \in Seq(Maybe) /\ rows[l] \in Seq(Maybe)
      /\ chain \in [Chains -> Marks] /\ old \in Marks
      /\ Len(old.shown) = Len(old.urls) /\ "Queue" \in Chains
      /\ \A d \in Chains : Tidy(chain[d])
  BY Typed, Kinds DEF Tidy
<1>3. list \in Seq(Maybe) /\ Len(list) \in Nat
  BY <1>2
<1> HIDE DEF list
<1>4. selection' \in Nat \ {0}
  BY <1>1, <1>3, ClampType DEF TypeOK
<1> HIDE DEF at
<1>5. rows' \in [Lists -> Seq(Maybe)] /\ rows'[l] = list
      /\ \A k \in Lists \ {l} : rows'[k] = rows[k]
  BY <1>1, <1>3 DEF TypeOK
<1>6. CASE l = "Queue"
  <2>1. /\ old.urls \in Seq(Maybe) /\ old.shown \in Seq(Maybe)
        /\ (IF first THEN {} ELSE old.failed) \subseteq Covers
    BY <1>2 DEF Marks
  <2>2. /\ grown(old.urls) \in Seq(Maybe) /\ Len(grown(old.urls)) = Len(list)
        /\ grown(old.shown) \in Seq(Maybe) /\ Len(grown(old.shown)) = Len(list)
        /\ DOMAIN grown(old.shown) = 1..Len(list)
        /\ \A i \in 1..Len(list) : grown(old.shown)[i] = None
             \/ \E j \in DOMAIN old.shown : grown(old.shown)[i] = old.shown[j]
    \* The rows that were there keep their marks, the new ones have none yet.
    <3> DEFINE more(s) == [i \in 1..Len(list) |->
                              IF ~first /\ i \in DOMAIN s THEN s[i] ELSE None]
    <3>1. \A s \in Seq(Maybe) :
            /\ more(s) \in Seq(Maybe) /\ Len(more(s)) = Len(list)
            /\ DOMAIN more(s) = 1..Len(list)
            /\ \A i \in 1..Len(list) :
                 more(s)[i] = None \/ \E j \in DOMAIN s : more(s)[i] = s[j]
      <4> TAKE s \in Seq(Maybe)
      <4>1. \A i \in 1..Len(list) : more(s)[i] \in Maybe
        BY DEF Maybe
      <4>2. more(s) \in [1..Len(list) -> Maybe]
        BY <4>1
      <4>3. \A i \in 1..Len(list) :
              more(s)[i] = None \/ \E j \in DOMAIN s : more(s)[i] = s[j]
        OBVIOUS
      <4> HIDE DEF more
      <4> QED BY <1>3, <4>2, <4>3, FrontIsList
    <3> QED BY <2>1, <3>1
  <2> HIDE DEF grown
  <2>3. /\ new \in Marks /\ new.shown = grown(old.shown)
        /\ new.urls = grown(old.urls) /\ new.inflight = old.inflight
    BY <1>2, <2>1, <2>2 DEF Marks
  <2> HIDE DEF new, old
  <2>4. Tidy(new)
    BY <2>2, <2>3 DEF Tidy
  <2>5. /\ marks \in [Chains -> Marks] /\ marks["Queue"] = new
        /\ \A d \in Chains \ {"Queue"} : marks[d] = chain[d]
    BY <1>2, <2>3
  <2> HIDE DEF marks
  <2>6. /\ \A d \in Chains : Tidy(marks[d])
        /\ \A d \in Chains : marks[d].inflight = chain[d].inflight
    BY <1>2, <2>3, <2>4, <2>5 DEF old
  <2>7. \A d \in Chains : \A i \in DOMAIN marks[d].shown :
          marks[d].shown[i] = None \/ Shows(marks[d].shown[i])
    <3>1. \A i \in DOMAIN old.shown : Shows(old.shown[i])
      BY MarksAsTheyAre, Kinds DEF old
    <3>2. \A i \in DOMAIN new.shown : new.shown[i] = None \/ Shows(new.shown[i])
      BY <2>2, <2>3, <3>1
    <3> QED BY <2>5, <3>2, MarksAsTheyAre
  <2>8. Len(marks["Queue"].urls) = Len(list)
    BY <2>2, <2>3, <2>5
  <2>9. Continue("Queue", list, screen, at, marks) /\ frame' = frame
    BY <1>1, <1>6
  <2>10. Calm /\ Len(chain'["Queue"].urls) = Len(list)
    BY <1>2, <1>3, <2>5, <2>6, <2>7, <2>8, <2>9, ChainCalm
  <2> QED BY <1>1, <1>4, <1>5, <1>6, <2>10, HarmlessWhen DEF TypeOK, KeepWorker, disk, StartHolds
<1>7. CASE l # "Queue"
  <2>1. l \in Browsers
    BY <1>7 DEF Lists
  <2>2. Calm
    BY <1>1, <1>3, <1>7, <2>1, SelectCalm
  <2>3. Len(chain'["Queue"].urls) = Len(rows'["Queue"])
    BY <1>1, <1>5, <1>7, Kinds DEF TypeOK
  <2> QED BY <1>1, <1>4, <1>5, <2>2, <2>3, HarmlessWhen DEF TypeOK, KeepWorker, disk, StartHolds
<1> QED BY <1>6, <1>7

\* Playback answers, a context that ends or comes back.
LEMMA NowPlayingIsHarmless ==
  ASSUME TypeOK,
         \/ \E u \in Maybe : PlaybackArrives(u)
         \/ \E u \in Covers : ContextRestored(u)
         \/ ContextGone
  PROVE  Harmless
<1>1. /\ UNCHANGED <<screen, selection, rows, on, chain, before>> /\ KeepWorker
      /\ paused' = paused /\ cancelled' = cancelled
  BY PressKeeps DEF PlaybackArrives, ContextRestored, ContextGone, view, flags
<1>2. /\ {"NowPlaying", "NowPlayingPlaylist"} \subseteq Frames
      /\ frame \in [Frames -> Boxes] /\ None \in Maybe
  BY Typed, Kinds DEF Maybe
<1>3. ASSUME NEW u \in Maybe, PlaybackArrives(u) PROVE Calm
  <2>1. CASE Blank("NowPlaying")
    BY <1>1, <1>2, <2>1, BlankCalm
  <2>2. CASE Stay
    BY <1>1, <2>2, StayCalm DEF Stay
  <2>3. CASE u # None /\ Turn("NowPlaying", u, None)
    BY <1>1, <1>2, <2>3, TurnCalm DEF Maybe
  <2> QED BY <1>3, <2>1, <2>2, <2>3, Zenon DEF PlaybackArrives
<1>4. ASSUME NEW u \in Covers, ContextRestored(u) PROVE Calm
  <2>1. CASE Stay
    BY <1>1, <2>1, StayCalm DEF Stay
  <2>2. CASE Turn("NowPlayingPlaylist", u, frame["NowPlayingPlaylist"].path)
    <3>1. frame["NowPlayingPlaylist"].path \in Maybe
      BY <1>2 DEF Boxes
    <3> QED BY <1>1, <1>2, <2>2, <3>1, TurnCalm
  <2> QED BY <1>4, <2>1, <2>2 DEF ContextRestored
<1>5. ASSUME ContextGone PROVE Calm
  BY <1>1, <1>2, <1>5, BlankCalm DEF ContextGone
<1>6. Calm
  BY <1>3, <1>4, <1>5
<1> QED BY <1>1, <1>6, HarmlessHere DEF TypeOK, StartHolds

LEMMA TopologyIsHarmless ==
  ASSUME TypeOK, TopologyArrives PROVE Harmless
<1>1. /\ UNCHANGED <<screen, selection, rows, on, frame, before>> /\ KeepWorker
      /\ paused' = paused /\ cancelled' = cancelled
      /\ Continue("Speakers", Photos, screen, 1, chain)
  BY DEF TopologyArrives, view, flags
<1>2. Calm /\ chain'["Queue"] = chain["Queue"]
  BY <1>1, Typed, MarksAsTheyAre, Kinds, ChainCalm
<1> QED BY <1>1, <1>2, HarmlessHere DEF TypeOK, StartHolds

\* A start that ends, one way or another, or is forgotten with its group.
LEMMA StartEndsIsHarmless ==
  ASSUME TypeOK, StartSucceeds \/ StartFails \/ GroupChanges
  PROVE  Harmless
<1> DEFINE t == "NowPlayingPlaylist"
           old == [last |-> before.last, path |-> before.path]
<1>1. /\ screen' \in {screen, "NowPlaying"}
      /\ UNCHANGED <<selection, rows, on, chain, commands, lost>>
      /\ KeepWorker /\ paused' = paused /\ cancelled' = cancelled
      /\ before' = Nothing
  BY DEF StartSucceeds, StartFails, GroupChanges, Blank, view, flags, KeepQueues,
         KeepSettings, Stay
<1>2. /\ before' \in [pending : BOOLEAN, last : Maybe, path : Maybe] /\ ~before'.pending
      /\ old \in Boxes /\ t \in Frames /\ frame \in [Frames -> Boxes]
      /\ screen' \in Screens
  BY <1>1, Typed, Kinds DEF Nothing, Maybe, Boxes, TypeOK
<1>3. ASSUME StartSucceeds PROVE Calm
  BY <1>1, <1>3, StayCalm DEF StartSucceeds, Stay
<1>4. ASSUME GroupChanges PROVE Calm
  BY <1>1, <1>2, <1>4, BlankCalm DEF GroupChanges
<1>5. ASSUME StartFails PROVE Calm
  <2>1. before.pending /\ frame' = [frame EXCEPT ![t] = old]
    BY <1>5 DEF StartFails
  <2>2. Kept(old.path)
    BY <2>1 DEF Kept, Holds
  <2> HIDE DEF old
  <2>3. /\ frame' \in [Frames -> Boxes] /\ frame'[t] = old
        /\ \A f \in Frames \ {t} : frame'[f] = frame[f]
    BY <1>2, <2>1
  <2>4. Queued /\ DropStays /\ OthersLost(t)
    BY <1>1 DEF Queued, DropStays, Dropped, OthersLost
  <2> QED BY <1>1, <1>2, <2>2, <2>3, <2>4, FrameCalm
<1>6. Calm
  BY <1>3, <1>4, <1>5
<1> QED BY <1>1, <1>2, <1>6, HarmlessHere DEF TypeOK

LEMMA SwitchesAreHarmless ==
  ASSUME TypeOK, Pause \/ Wake \/ Stop PROVE Harmless
<1>1. /\ UNCHANGED <<screen, selection, rows, on, chain, frame, before, commands,
                     worker, results, cache, size, evicted, outlived, lost>>
      /\ paused' = paused \/ paused' = TRUE \/ paused' = FALSE
      /\ cancelled' = cancelled \/ cancelled' = TRUE
  BY DEF Pause, Wake, Stop, view, disk
<1>2. Calm
  BY <1>1, StayCalm
<1>3. paused \in BOOLEAN /\ cancelled \in BOOLEAN
  BY DEF TypeOK
<1>4. paused' \in BOOLEAN /\ cancelled' \in BOOLEAN /\ (cancelled => cancelled')
  BY <1>1, <1>3, Zenon
<1> QED BY <1>1, <1>2, <1>4, HarmlessWhen DEF TypeOK, StartHolds

LEMMA SdlIsHarmless ==
  ASSUME TypeOK, UserStep \/ WorldStep PROVE Harmless
<1>1. CASE UserStep
  BY <1>1, OpenIsHarmless, BackIsHarmless, MoveIsHarmless, TogglesAreHarmless,
     TogglePhotosIsHarmless, CacheSettingsAreHarmless, ClearArtworkIsHarmless,
     StartPlaylistIsHarmless, Zenon DEF UserStep
<1>2. CASE WorldStep
  BY <1>2, ListArrivesIsHarmless, NowPlayingIsHarmless, TopologyIsHarmless,
     StartEndsIsHarmless, SwitchesAreHarmless, Zenon DEF WorldStep
<1> QED BY <1>1, <1>2
-----------------------------------------------------------------------------
(* The worker *)

\* What the worker never touches.
Untouched == UNCHANGED <<screen, selection, rows, on, chain, frame, before, paused,
                         cancelled>>

LEMMA WorkerKeepsSdl ==
  WorkerStep => Untouched
<1>1. ASSUME KeepSdl PROVE Untouched
  BY <1>1 DEF KeepSdl, Untouched, view, flags
<1>2. WorkerStep => KeepSdl
  BY DEF WorkerStep, Take, Begin, Leave, Evict, Answer, Fetch, Clear
<1> QED BY <1>1, <1>2

LEMMA WorkerTypes ==
  ASSUME TypeOK,
         Untouched, worker' \in Workers, cache' \subseteq Covers, size' \in Sizes,
         commands' \in Seq(Command), Len(commands') <= Capacity,
         results' \in Seq(Answers), Len(results') <= ResultCapacity
  PROVE  TypeOK'
BY DEF TypeOK, Untouched, Workers, Answers

LEMMA WorkerTyped ==
  ASSUME TypeOK
  PROVE  /\ worker \in Workers /\ results \in Seq(Answers)
         /\ Len(results) <= ResultCapacity /\ ResultCapacity \in Nat
         /\ commands \in Seq(Command) /\ Len(commands) <= Capacity
         /\ Capacity \in Nat /\ cache \subseteq Covers /\ size \in Sizes
BY BoundsAreNat DEF TypeOK, Workers, Answers

LEMMA WorkerKeepsTypes ==
  ASSUME TypeOK, WorkerStep PROVE TypeOK'
<1> USE WorkerKeepsSdl, WorkerTyped
<1>1. CASE Take
  <2>1. Head(commands) \in Command /\ Tail(commands) \in Seq(Command)
        /\ Len(Tail(commands)) <= Capacity
    BY <1>1, HeadAndTail DEF Take
  <2>2. worker' \in Workers /\ commands' = Tail(commands)
        /\ UNCHANGED <<results, cache, size>>
    BY <1>1, <2>1 DEF Take, Workers, disk
  <2> QED BY <2>1, <2>2, WorkerTypes
<1>2. CASE Begin \/ Leave
  <2>1. worker' \in Workers /\ UNCHANGED <<commands, results, cache, size>>
    BY <1>2 DEF Begin, Leave, Workers, disk
  <2> QED BY <2>1, WorkerTypes
<1>3. CASE Evict
  <2>1. size' \in Sizes /\ cache' \subseteq cache
    BY <1>3, Evicting DEF Evict
  <2>2. worker' \in Workers /\ UNCHANGED <<commands, results>>
    BY <1>3 DEF Evict, Workers
  <2> QED BY <2>1, <2>2, WorkerTypes
<1>4. CASE Answer
  <2>1. worker' \in Workers /\ UNCHANGED <<commands, cache, size>>
    BY <1>4, CommandParts DEF Answer, Workers, Idle, disk
  <2>2. [command |-> worker.command, success |-> worker.success] \in Answers
    BY DEF Workers, Answers
  <2>3. results' \in Seq(Answers) /\ Len(results') <= ResultCapacity
    BY <1>4, <2>2, Appended DEF Answer, PushIfRoom, HasRoom
  <2> QED BY <2>1, <2>3, WorkerTypes
<1>5. CASE \E success \in BOOLEAN : Fetch(success)
  <2>1. worker' \in Workers /\ UNCHANGED <<commands, results, size>>
    BY <1>5 DEF Fetch, Workers
  <2>2. worker.command.cover \in Covers
    BY <1>5, CommandParts DEF Fetch, Workers
  <2>3. cache' \subseteq Covers
    BY <1>5, <2>2 DEF Fetch
  <2> QED BY <2>1, <2>3, WorkerTypes
<1>6. CASE \E success \in BOOLEAN : Clear(success)
  <2>1. worker' \in Workers /\ UNCHANGED <<commands, results, size>>
    BY <1>6 DEF Clear, Workers
  <2>2. cache' \subseteq Covers
    BY <1>6 DEF Clear
  <2> QED BY <2>1, <2>2, WorkerTypes
<1>7. QED
  BY <1>1, <1>2, <1>3, <1>4, <1>5, <1>6 DEF WorkerStep
-----------------------------------------------------------------------------
(* The worker's answers *)

\* An answer is applied: what was waited for has come or failed, and besides the
\* cache only the answer itself puts a cover on display.
Applied(r) ==
  /\ chain' \in [Chains -> Marks] /\ \A c \in Chains : Tidy(chain'[c])
  /\ Len(chain'["Queue"].urls) = Len(rows["Queue"])
  /\ frame' \in [Frames -> Boxes]
  /\ Queued /\ DropStays
  /\ \A t \in Watched, u \in Covers : Awaits(t, u)' =>
       \/ /\ Awaits(t, u) /\ Download(t, u) # r.command
          /\ <<t, u>> \in lost => <<t, u>> \in lost'
       \/ <<t, u>> \in lost'
       \/ commands' = Append(commands, Download(t, u))
  /\ \A u : Shows(u)' =>
       \/ u \in cache \cup {None}
       \/ /\ r.command # ClearCache
          /\ Shows(u) \/ (r.success /\ u = r.command.cover)
  /\ LET u == frame'["NowPlayingPlaylist"].path IN
       \/ u = None
       \/ /\ r.command # ClearCache
          /\ Holds(u) \/ (r.success /\ u = r.command.cover)

LEMMA AnsweredMarks ==
  ASSUME NEW c \in Chains, NEW u \in Covers, NEW success \in BOOLEAN,
         chain \in [Chains -> Marks], Tidy(chain[c])
  PROVE  LET m == Answered(c, u, success) IN
         /\ Tidy(m) /\ m.urls = chain[c].urls
         /\ m.inflight \in {chain[c].inflight, None} /\ m.inflight # u
         /\ \A i \in DOMAIN m.shown :
              \/ success /\ m.shown[i] = u
              \/ i \in DOMAIN chain[c].shown /\ m.shown[i] = chain[c].shown[i]
<1> DEFINE old == chain[c]
           shown == [i \in DOMAIN old.shown |->
                      IF success /\ old.urls[i] = u THEN u ELSE old.shown[i]]
           inflight == IF old.inflight = u THEN None ELSE old.inflight
           failed == IF success THEN old.failed ELSE old.failed \cup {u}
           m == Answered(c, u, success)
<1>1. /\ old \in Marks /\ Len(old.shown) = Len(old.urls)
      /\ old.shown \in Seq(Maybe) /\ DOMAIN old.shown = 1..Len(old.shown)
      /\ Len(old.shown) \in Nat /\ old.inflight \in Maybe /\ old.failed \subseteq Covers
      /\ old.urls \in Seq(Maybe)
  BY DEF Tidy, Marks
<1>2. \A i \in DOMAIN old.shown : shown[i] = u \/ shown[i] = old.shown[i]
  OBVIOUS
<1>3. /\ shown \in Seq(Maybe) /\ Len(shown) = Len(old.shown)
      /\ DOMAIN shown = DOMAIN old.shown
  <2>1. shown \in [1..Len(old.shown) -> Maybe]
    BY <1>1, <1>2 DEF Maybe
  <2> HIDE DEF shown, old
  <2> QED BY <1>1, <2>1, FrontIsList
<1>4. /\ inflight \in Maybe /\ inflight # u /\ inflight \in {old.inflight, None}
      /\ failed \subseteq Covers
  BY <1>1, NoneIsNoCover DEF Maybe
<1>5. m = [old EXCEPT !.inflight = inflight, !.shown = shown, !.failed = failed]
  BY <1>1 DEF Answered, Marks
<1>6. \A i \in DOMAIN old.shown :
        (success /\ shown[i] = u) \/ shown[i] = old.shown[i]
  OBVIOUS
<1> HIDE DEF old, shown, inflight, failed, m
<1>7. /\ m \in Marks /\ m.urls = old.urls /\ m.shown = shown
      /\ m.inflight = inflight
  BY <1>1, <1>3, <1>4, <1>5 DEF Marks
<1>8. Tidy(m)
  BY <1>1, <1>3, <1>7 DEF Tidy
<1> QED BY <1>3, <1>4, <1>6, <1>7, <1>8 DEF m, old

LEMMA ChainApplied ==
  ASSUME TypeOK, NEW r \in Answers, r.command # ClearCache,
         r.command.target \in Chains,
         ChainAnswer(r.command.target, r.command.cover, r.success)
  PROVE  Applied(r)
<1> DEFINE c == r.command.target
           u == r.command.cover
           m == Answered(c, u, r.success)
           list == IF c = "Queue" THEN rows[c] ELSE Photos
           marks == [chain EXCEPT ![c] = m]
<1>1. /\ c \in Chains /\ u \in Covers /\ r.success \in BOOLEAN
      /\ r.command = Download(c, u)
  BY CommandParts DEF Answers
<1>2. /\ chain \in [Chains -> Marks] /\ \A d \in Chains : Tidy(chain[d])
      /\ list \in Seq(Maybe) /\ commands \in Seq(Command) /\ cache \subseteq Covers
      /\ frame \in [Frames -> Boxes]
      /\ Len(chain["Queue"].urls) = Len(rows["Queue"])
  BY Typed, MarksAsTheyAre, Kinds
<1>3. Continue(c, list, screen, selection, marks) /\ frame' = frame
  BY DEF ChainAnswer
<1> HIDE DEF c, u, list
<1>4. /\ Tidy(m) /\ m.urls = chain[c].urls
      /\ m.inflight \in {chain[c].inflight, None} /\ m.inflight # u
      /\ \A i \in DOMAIN m.shown :
           \/ r.success /\ m.shown[i] = u
           \/ i \in DOMAIN chain[c].shown /\ m.shown[i] = chain[c].shown[i]
  BY <1>1, <1>2, AnsweredMarks
<1> HIDE DEF m
<1>5. /\ marks \in [Chains -> Marks] /\ marks[c] = m
      /\ \A d \in Chains \ {c} : marks[d] = chain[d]
  BY <1>1, <1>2, <1>4 DEF Tidy
<1> HIDE DEF marks
<1>6. \A d \in Chains : Tidy(marks[d])
  BY <1>2, <1>4, <1>5
<1>7. c = "Queue" => Len(marks[c].urls) = Len(list)
  BY <1>2, <1>4, <1>5 DEF list
<1>8. /\ chain' \in [Chains -> Marks] /\ \A d \in Chains : Tidy(chain'[d])
      /\ \A d \in Chains \ {c} : chain'[d] = marks[d]
      /\ c = "Queue" => Len(chain'[c].urls) = Len(list)
      /\ \A d \in Chains : \A i \in DOMAIN chain'[d].shown :
           \/ chain'[d].shown[i] \in cache \cup {None}
           \/ \E j \in DOMAIN marks[d].shown : chain'[d].shown[i] = marks[d].shown[j]
      /\ Queued /\ DropStays /\ Waits(c, marks[c].inflight) /\ OthersLost(c)
  BY <1>1, <1>2, <1>3, <1>5, <1>6, <1>7, Continuing, Zenon
<1>9. Len(chain'["Queue"].urls) = Len(rows["Queue"])
  BY <1>2, <1>5, <1>8, Kinds DEF list
<1>10. ASSUME NEW t \in Watched, NEW v \in Covers, Awaits(t, v)'
       PROVE  \/ /\ Awaits(t, v) /\ Download(t, v) # r.command
                 /\ <<t, v>> \in lost => <<t, v>> \in lost'
              \/ <<t, v>> \in lost'
              \/ commands' = Append(commands, Download(t, v))
  <2>1. CASE t = c
    <3>1. chain'[c].inflight = v
      BY <1>10, <2>1, <1>1, Kinds DEF Awaits
    <3>2. CASE commands' = Append(commands, Download(c, v))
      BY <2>1, <3>2
    <3>3. CASE /\ v = marks[c].inflight
               /\ \A w \in Covers : <<c, w>> \in lost => <<c, w>> \in lost'
      <4>1. v = chain[c].inflight /\ v # u
        BY <1>4, <1>5, <3>3, NoneIsNoCover
      <4>2. Download(t, v) # r.command
        BY <1>1, <2>1, <4>1, CommandParts
      <4> QED BY <1>1, <2>1, <3>3, <4>1, <4>2 DEF Awaits
    <3> QED BY <1>8, <3>1, <3>2, <3>3 DEF Waits
  <2>2. CASE t # c
    <3>1. <<t, v>> \in lost => <<t, v>> \in lost'
      BY <1>8, <2>2 DEF OthersLost, Watched
    <3>2. Awaits(t, v)
      BY <1>3, <1>5, <1>8, <1>10, <2>2 DEF Awaits
    <3>3. Download(t, v) # r.command
      BY <1>1, <2>2, CommandParts
    <3> QED BY <3>1, <3>2, <3>3
  <2> QED BY <2>1, <2>2
<1>11. ASSUME NEW v, Shows(v)'
       PROVE  \/ v \in cache \cup {None}
              \/ /\ r.command # ClearCache
                 /\ Shows(v) \/ (r.success /\ v = u)
  <2>1. CASE \E t \in Frames \ {"NowPlayingPlaylist"} : frame'[t].path = v
    BY <1>3, <2>1 DEF Shows
  <2>2. CASE \E d \in Chains : \E i \in DOMAIN chain'[d].shown : chain'[d].shown[i] = v
    <3>1. PICK d \in Chains : \E i \in DOMAIN chain'[d].shown : chain'[d].shown[i] = v
      BY <2>2
    <3>2. PICK i \in DOMAIN chain'[d].shown : chain'[d].shown[i] = v
      BY <3>1
    <3>3. \/ v \in cache \cup {None}
          \/ \E j \in DOMAIN marks[d].shown : v = marks[d].shown[j]
      BY <1>8, <3>2
    <3>4. \A j \in DOMAIN marks[d].shown :
            (r.success /\ marks[d].shown[j] = u) \/ Shows(marks[d].shown[j])
      BY <1>4, <1>5, MarksAsTheyAre
    <3> QED BY <3>3, <3>4
  <2> QED BY <1>11, <2>1, <2>2 DEF Shows
<1>12. Holds(frame'["NowPlayingPlaylist"].path)
  BY <1>3 DEF Holds
<1> QED
  BY <1>2, <1>3, <1>8, <1>9, <1>10, <1>11, <1>12 DEF Applied, u

LEMMA FrameApplied ==
  ASSUME TypeOK, NEW r \in Answers, r.command # ClearCache,
         r.command.target \in Frames,
         FrameAnswer(r.command.target, r.command.cover, r.success)
  PROVE  Applied(r)
<1> DEFINE t == r.command.target
           u == r.command.cover
<1>1. /\ t \in Frames /\ u \in Covers /\ r.success \in BOOLEAN
      /\ r.command = Download(t, u) /\ u # None
  BY CommandParts, NoneIsNoCover DEF Answers
<1>2. /\ chain \in [Chains -> Marks] /\ \A d \in Chains : Tidy(chain[d])
      /\ frame \in [Frames -> Boxes]
      /\ Len(chain["Queue"].urls) = Len(rows["Queue"])
  BY Typed, MarksAsTheyAre
<1>3. chain' = chain /\ commands' = commands /\ lost' = lost
  BY DEF FrameAnswer, KeepQueues
<1>4. frame' \in [Frames -> Boxes]
  <2>1. \A f \in Frames : frame[f] \in Boxes
    BY <1>2
  <2>2. [last |-> u, path |-> u] \in Boxes /\ [frame[t] EXCEPT !.last = None] \in Boxes
    BY <1>1, <2>1 DEF Boxes, Maybe
  <2> HIDE DEF t, u
  <2> QED BY <2>1, <2>2 DEF FrameAnswer, t, u
<1>5. \A f \in Frames : \/ frame'[f] = frame[f] /\ (f = t => frame[t].last # u)
                        \/ r.success /\ frame'[f].last = u /\ frame'[f].path = u
                        \/ frame'[f].last = None /\ frame'[f].path = frame[f].path
  <2> TAKE f \in Frames
  <2>1. frame'[f] =
          IF frame[t].last # u \/ frame[f].last # u THEN frame[f]
          ELSE IF f = t THEN IF r.success THEN [last |-> u, path |-> u]
                             ELSE [frame[t] EXCEPT !.last = None]
          ELSE IF r.success /\ t = "Playlists" /\ f = "NowPlayingPlaylist"
          THEN [last |-> u, path |-> u]
          ELSE frame[f]
    BY DEF FrameAnswer
  <2>2. [frame[t] EXCEPT !.last = None].last = None
        /\ [frame[t] EXCEPT !.last = None].path = frame[t].path
    BY <1>1, <1>2 DEF Boxes
  <2> HIDE DEF t, u
  <2> QED BY <2>1, <2>2
<1> HIDE DEF t, u
<1>6. ASSUME NEW f \in Watched, NEW v \in Covers, Awaits(f, v)'
      PROVE  Awaits(f, v) /\ Download(f, v) # r.command
  <2>1. CASE f \in Chains
    <3>1. f \notin Frames /\ f # t
      BY <1>1, <2>1, Kinds
    <3> QED BY <1>1, <1>3, <1>6, <2>1, <3>1, CommandParts DEF Awaits
  <2>2. CASE f \in Frames
    <3>1. frame'[f].last = v /\ frame'[f].path = None /\ v # None
      BY <1>6, <2>2, Kinds, NoneIsNoCover DEF Awaits
    <3>2. frame'[f] = frame[f] /\ (f = t => frame[t].last # u)
      BY <1>1, <1>5, <2>2, <3>1
    <3>3. Download(f, v) # r.command
      BY <1>1, <3>1, <3>2, CommandParts
    <3> QED BY <2>2, <3>1, <3>2, <3>3 DEF Awaits
  <2> QED BY <2>1, <2>2 DEF Watched, Targets
<1>7. ASSUME NEW v, Shows(v)'
      PROVE  Shows(v) \/ (r.success /\ v = u)
  BY <1>3, <1>5, <1>7 DEF Shows
<1>8. Queued /\ DropStays
  BY <1>3 DEF Queued, DropStays, Dropped
<1>9. LET v == frame'["NowPlayingPlaylist"].path
      IN Holds(v) \/ (r.success /\ v = u)
  BY <1>5, Kinds DEF Holds
<1> QED
  BY <1>2, <1>3, <1>4, <1>6, <1>7, <1>8, <1>9 DEF Applied, u

LEMMA ForgetAllApplied ==
  ASSUME TypeOK, NEW r \in Answers, r.command = ClearCache, ForgetAll
  PROVE  Applied(r)
<1> DEFINE marks == [c \in Chains |-> Forgotten(c)]
<1>1. /\ chain \in [Chains -> Marks] /\ \A d \in Chains : Tidy(chain[d])
      /\ commands \in Seq(Command) /\ cache \subseteq Covers /\ Photos \in Seq(Maybe)
      /\ rows["Queue"] \in Seq(Maybe) /\ "Speakers" \in Chains /\ "Queue" \in Chains
  BY Typed, Kinds
<1>2. ASSUME NEW c \in Chains
      PROVE  /\ Tidy(Forgotten(c)) /\ Forgotten(c).inflight = None
             /\ Forgotten(c).urls
                  = (IF c = "Queue" THEN NoneOf(rows[c]) ELSE chain[c].urls)
             /\ \A i \in DOMAIN Forgotten(c).shown : Forgotten(c).shown[i] = None
  <2> DEFINE list == IF c = "Queue" THEN rows[c] ELSE chain[c].urls
             urls == IF c = "Queue" THEN NoneOf(rows[c]) ELSE chain[c].urls
  <2>1. list \in Seq(Maybe) /\ Len(list) \in Nat /\ chain[c].urls \in Seq(Maybe)
    BY <1>1 DEF Marks
  <2> HIDE DEF list
  <2>2. /\ NoneOf(list) \in Seq(Maybe) /\ Len(NoneOf(list)) = Len(list)
        /\ DOMAIN NoneOf(list) = 1..Len(list)
        /\ \A i \in 1..Len(list) : NoneOf(list)[i] = None
    BY <2>1, NoneOfType
  <2>3. urls \in Seq(Maybe) /\ Len(urls) = Len(list)
    BY <2>1, <2>2 DEF list
  <2> HIDE DEF urls
  <2>4. Forgotten(c) = [urls |-> urls, shown |-> NoneOf(list),
                        inflight |-> None, failed |-> {}]
    BY DEF Forgotten, urls, list
  <2>5. Forgotten(c) \in Marks
    BY <2>2, <2>3, <2>4 DEF Marks, Maybe
  <2> QED BY <2>2, <2>3, <2>4, <2>5 DEF Tidy, urls
<1>3. /\ marks \in [Chains -> Marks] /\ \A c \in Chains : marks[c] = Forgotten(c)
      /\ \A c \in Chains : Tidy(marks[c])
  BY <1>2 DEF Tidy
<1>4. /\ frame' = [t \in Frames |-> Dark]
      /\ \/ Continue("Speakers", Photos, screen, 1, marks)
         \/ chain' = marks /\ KeepQueues
  BY DEF ForgetAll
<1> HIDE DEF marks
<1>5. /\ chain' \in [Chains -> Marks] /\ \A d \in Chains : Tidy(chain'[d])
      /\ chain'["Queue"] = marks["Queue"]
      /\ \A d \in Chains : \A i \in DOMAIN chain'[d].shown :
           chain'[d].shown[i] \in cache \cup {None}
      /\ Queued /\ DropStays
      /\ \A d \in Chains, u \in Covers : chain'[d].inflight = u =>
           commands' = Append(commands, Download(d, u))
  <2>1. \A d \in Chains : \A i \in DOMAIN marks[d].shown : marks[d].shown[i] = None
    BY <1>2, <1>3
  <2>2. \A d \in Chains : marks[d].inflight = None
    BY <1>2, <1>3
  <2>3. ASSUME Continue("Speakers", Photos, screen, 1, marks)
        PROVE  <1>5!:
    <3>1. /\ chain' \in [Chains -> Marks] /\ \A d \in Chains : Tidy(chain'[d])
          /\ \A d \in Chains \ {"Speakers"} : chain'[d] = marks[d]
          /\ \A d \in Chains : \A i \in DOMAIN chain'[d].shown :
              \/ chain'[d].shown[i] \in cache \cup {None}
              \/ \E j \in DOMAIN marks[d].shown : chain'[d].shown[i] = marks[d].shown[j]
          /\ Queued /\ DropStays /\ Waits("Speakers", marks["Speakers"].inflight)
      BY <1>1, <1>3, <2>3, Continuing
    <3>2. \A d \in Chains : \A i \in DOMAIN chain'[d].shown :
            chain'[d].shown[i] \in cache \cup {None}
      BY <2>1, <3>1
    <3>3. ASSUME NEW d \in Chains, NEW u \in Covers, chain'[d].inflight = u
          PROVE  commands' = Append(commands, Download(d, u))
      <4>1. u # None
        BY NoneIsNoCover
      <4>2. d = "Speakers"
        BY <2>2, <3>1, <3>3, <4>1
      <4> QED BY <2>2, <3>1, <3>3, <4>1, <4>2 DEF Waits
    <3>4. chain'["Queue"] = marks["Queue"]
      BY <1>1, <3>1
    <3> QED BY <3>1, <3>2, <3>3, <3>4
  <2>4. ASSUME chain' = marks, KeepQueues
        PROVE  <1>5!:
    <3>1. Queued /\ DropStays
      BY <2>4 DEF KeepQueues, Queued, DropStays, Dropped
    <3> QED BY <1>3, <2>1, <2>2, <2>4, <3>1, NoneIsNoCover
  <2> QED BY <1>4, <2>3, <2>4
<1>6. /\ frame' \in [Frames -> Boxes]
      /\ \A t \in Frames : frame'[t].last = None /\ frame'[t].path = None
  BY <1>4 DEF Dark, Boxes, Maybe
<1>7. Len(chain'["Queue"].urls) = Len(rows["Queue"])
  <2>1. Len(rows["Queue"]) \in Nat
    BY <1>1
  <2> QED BY <1>1, <1>2, <1>3, <1>5, <2>1, NoneOfType
<1>8. \A t \in Watched, u \in Covers : Awaits(t, u)' =>
        commands' = Append(commands, Download(t, u))
  BY <1>5, <1>6, NoneIsNoCover DEF Awaits
<1>9. \A u : Shows(u)' => u \in cache \cup {None}
  BY <1>5, <1>6 DEF Shows
<1>10. frame'["NowPlayingPlaylist"].path = None
  BY <1>6, Kinds
<1> QED BY <1>5, <1>6, <1>7, <1>8, <1>9, <1>10 DEF Applied

LEMMA ApplyKeeps ==
  ASSUME TypeOK, ApplyResult
  PROVE  /\ TypeOK' /\ Applied(Head(results))
         /\ results # <<>> /\ results' = Tail(results) /\ Head(results) \in Answers
         /\ UNCHANGED <<worker, cache, evicted, before, cancelled>> /\ ~cancelled
         /\ outlived \subseteq outlived'
         /\ Head(results).command = ClearCache /\ before.pending
              => before.path \in cache \cup {None} \cup outlived'
<1> DEFINE r == Head(results)
<1>1. /\ results # <<>> /\ results' = Tail(results) /\ ~cancelled
      /\ UNCHANGED <<screen, selection, rows, on, before, worker, cache, size, evicted,
                     paused, cancelled>>
  BY DEF ApplyResult, view, disk, flags, Running
<1>2. r \in Answers /\ Tail(results) \in Seq(Answers)
      /\ Len(Tail(results)) <= ResultCapacity
  BY <1>1, WorkerTyped, HeadAndTail
<1>3. \/ r.command = ClearCache /\ ForgetAll
      \/ /\ r.command # ClearCache /\ r.command.target \in Chains
         /\ ChainAnswer(r.command.target, r.command.cover, r.success)
      \/ /\ r.command # ClearCache /\ r.command.target \in Frames
         /\ FrameAnswer(r.command.target, r.command.cover, r.success)
  BY DEF ApplyResult
<1> HIDE DEF r
<1>4. Applied(r)
  BY <1>2, <1>3, ForgetAllApplied, ChainApplied, FrameApplied
<1>5. commands' \in Seq(Command) /\ Len(commands') <= Capacity
  BY <1>4, QueuedType DEF Applied
<1>6. /\ chain' \in [Chains -> Marks] /\ frame' \in [Frames -> Boxes]
      /\ \A c \in Chains : Len(chain'[c].shown) = Len(chain'[c].urls)
      /\ Len(chain'["Queue"].urls) = Len(rows'["Queue"])
  BY <1>1, <1>4 DEF Applied, Tidy
<1>7. TypeOK'
  BY <1>1, <1>2, <1>5, <1>6 DEF TypeOK, Boxes, Answers
<1>8. /\ outlived \subseteq outlived'
      /\ r.command = ClearCache /\ before.pending
           => before.path \in cache \cup {None} \cup outlived'
  <2>1. r.command # ClearCache => outlived' = outlived
    BY DEF ApplyResult, r
  <2>2. ForgetAll => outlived' = outlived \cup (IF before.pending
                                  THEN {before.path} \ (cache \cup {None}) ELSE {})
    BY DEF ForgetAll
  <2> QED BY <1>3, <2>1, <2>2
<1> QED BY <1>1, <1>2, <1>4, <1>7, <1>8 DEF r
-----------------------------------------------------------------------------
(* Types *)

\* Every step is one of the SDL thread, the worker or an answer.
LEMMA StepKinds ==
  ASSUME [Next]_vars
  PROVE  UserStep \/ WorldStep \/ WorkerStep \/ ApplyResult \/ UNCHANGED vars
BY DEF Next

LEMMA TypeInit == Init => TypeOK
<1> SUFFICES ASSUME Init PROVE TypeOK
  OBVIOUS
<1>1. NoMarks \in Marks /\ Len(NoMarks.shown) = Len(NoMarks.urls)
      /\ Len(NoMarks.urls) = Len(<<>>)
  BY DEF NoMarks, Marks, Maybe
<1>2. /\ Dark \in [last : Maybe, path : Maybe]
      /\ Nothing \in [pending : BOOLEAN, last : Maybe, path : Maybe]
  BY DEF Dark, Nothing, Maybe
<1>3. Idle \in [phase : {"idle", "holding", "fetching", "storing", "answering", "done"},
                command : Command, success : BOOLEAN]
  BY CommandParts DEF Idle
<1>4. /\ commands = <<>> /\ results = <<>> /\ Len(<<>>) <= Capacity
      /\ Len(<<>>) <= ResultCapacity
  BY BoundsAreNat DEF Init
<1>5. /\ chain = [c \in Chains |-> NoMarks] /\ rows["Queue"] = <<>>
      /\ rows \in [Lists -> Seq(Maybe)] /\ screen \in Screens
      /\ frame \in [Frames -> [last : Maybe, path : Maybe]] /\ cache \subseteq Covers
  <2>1. CASE Fresh
    BY <2>1, <1>2, StartIsAChoice, Kinds DEF Init, Fresh
  <2>2. CASE \E list \in RowLists \ {<<>>} : Listening(list)
    <3>1. PICK list \in RowLists \ {<<>>} : Listening(list)
      BY <2>2
    <3>2. list \in Seq(Maybe) /\ list[1] \in Maybe
      BY <3>1, RowsAreCovers DEF Maybe
    <3>3. cache \subseteq Covers
      BY <3>1, <3>2 DEF Listening, Maybe
    <3>4. rows["Queue"] = <<>> /\ rows \in [Lists -> Seq(Maybe)]
      BY <3>1, <3>2, Kinds DEF Listening
    <3>5. frame \in [Frames -> [last : Maybe, path : Maybe]]
      BY <3>1, <3>2, <1>2 DEF Listening
    <3>6. screen \in Screens
      BY <3>1, BrowsersAreLists DEF Listening, Screens, Lists
    <3> QED BY <3>3, <3>4, <3>5, <3>6 DEF Init
  <2> QED BY <2>1, <2>2 DEF Init
<1>6. /\ chain \in [Chains -> Marks]
      /\ \A c \in Chains : Len(chain[c].shown) = Len(chain[c].urls)
      /\ Len(chain["Queue"].urls) = Len(rows["Queue"])
      /\ rows \in [Lists -> Seq(Maybe)]
  BY <1>1, <1>5, Kinds
<1>7. commands \in Seq(Command) /\ results \in Seq([command : Command, success : BOOLEAN])
  BY <1>4
<1>8. /\ selection \in Nat \ {0}
      /\ on \in [Chains -> BOOLEAN] /\ size \in Sizes
      /\ before \in [pending : BOOLEAN, last : Maybe, path : Maybe]
      /\ paused = FALSE /\ cancelled = FALSE /\ worker = Idle
  BY <1>2, StartIsAChoice DEF Init
<1> QED BY <1>3, <1>4, <1>5, <1>6, <1>7, <1>8 DEF TypeOK

LEMMA TypeStep == TypeOK /\ [Next]_vars => TypeOK'
<1> SUFFICES ASSUME TypeOK, [Next]_vars PROVE TypeOK'
  OBVIOUS
<1>1. CASE UserStep \/ WorldStep
  BY <1>1, SdlIsHarmless DEF Harmless
<1>2. CASE WorkerStep
  BY <1>2, WorkerKeepsTypes
<1>3. CASE ApplyResult
  BY <1>3, ApplyKeeps
<1>4. CASE UNCHANGED vars
  BY <1>4 DEF TypeOK, vars, view, disk, flags
<1> QED BY <1>1, <1>2, <1>3, <1>4, StepKinds

\* Every variable keeps its type: above all, the marks of the Queue are always
\* of the rows that are there, one for each, whichever page, toggle or answer
\* came last (queue_artwork_paths_ is indexed by the row).
THEOREM TypeCorrect == Spec => []TypeOK
BY TypeInit, TypeStep, PTL DEF Spec
-----------------------------------------------------------------------------
(* Whatever is awaited is under way *)

Followed ==
  Running => \A t \in Watched, u \in Covers :
    Awaits(t, u) => UnderWay(Download(t, u)) \/ <<t, u>> \in lost

LEMMA FollowedIsEnough == TypeOK /\ Followed => AwaitedIsUnderWay
<1> SUFFICES ASSUME TypeOK, Followed, Running PROVE AwaitedIsUnderWay
  BY DEF AwaitedIsUnderWay
<1>1. ASSUME NEW c \in Chains, chain[c].inflight # None
      PROVE  UnderWay(Download(c, chain[c].inflight)) \/ <<c, chain[c].inflight>> \in lost
  <2>1. chain[c].inflight \in Covers
    BY <1>1, Typed DEF Marks, Maybe
  <2>2. c \in Watched
    BY Kinds DEF Watched
  <2> QED BY <2>1, <2>2 DEF Followed, Awaits
<1>2. ASSUME NEW t \in Frames \ {"NowPlayingPlaylist"},
             frame[t].last # None, frame[t].path = None
      PROVE  UnderWay(Download(t, frame[t].last)) \/ <<t, frame[t].last>> \in lost
  <2>1. frame[t].last \in Covers
    BY <1>2, Typed DEF Boxes, Maybe
  <2>2. t \in Watched
    BY Kinds DEF Watched
  <2> QED BY <1>2, <2>1, <2>2 DEF Followed, Awaits
<1> QED BY <1>1, <1>2 DEF AwaitedIsUnderWay

\* What the SDL thread puts into the queue takes nothing off its way.
LEMMA QueuedStaysUnderWay ==
  ASSUME TypeOK, Queued, worker' = worker, results' = results, NEW d
  PROVE  /\ UnderWay(d) => UnderWay(d)'
         /\ d \in Command /\ commands' = Append(commands, d) => UnderWay(d)'
<1>1. commands \in Seq(Command) /\ Len(commands) \in Nat
  BY Typed
<1>2. \A c \in Command : commands' = Append(commands, c) =>
        /\ \A i \in DOMAIN commands : i \in DOMAIN commands' /\ commands'[i] = commands[i]
        /\ \E i \in DOMAIN commands' : commands'[i] = c
  BY <1>1, Appended
<1>3. \A i \in DOMAIN commands : i \in DOMAIN commands' /\ commands'[i] = commands[i]
  BY <1>2 DEF Queued
<1> QED BY <1>2, <1>3 DEF UnderWay

LEMMA HarmlessKeepsFollowed ==
  ASSUME TypeOK, Harmless, Followed PROVE Followed'
<1> SUFFICES ASSUME Running', NEW t \in Watched, NEW u \in Covers, Awaits(t, u)'
             PROVE  UnderWay(Download(t, u))' \/ <<t, u>> \in lost'
  BY DEF Followed
<1>1. Running
  BY DEF Harmless, Running
<1>2. Download(t, u) \in Command
  BY CommandParts DEF Watched
<1>3. Queued /\ worker' = worker /\ results' = results /\ KeepsUp(t)
  BY DEF Harmless, Calm
<1>4. \/ Awaits(t, u) /\ (<<t, u>> \in lost => <<t, u>> \in lost')
      \/ <<t, u>> \in lost'
      \/ commands' = Append(commands, Download(t, u))
  BY <1>3 DEF KeepsUp
<1> QED BY <1>1, <1>2, <1>3, <1>4, QueuedStaysUnderWay DEF Followed

LEMMA ApplyKeepsFollowed ==
  ASSUME TypeOK, ApplyResult, Followed PROVE Followed'
<1> SUFFICES ASSUME NEW t \in Watched, NEW u \in Covers, Awaits(t, u)'
             PROVE  UnderWay(Download(t, u))' \/ <<t, u>> \in lost'
  BY DEF Followed
<1> DEFINE r == Head(results)
           d == Download(t, u)
<1>1. /\ Applied(r) /\ results # <<>> /\ results' = Tail(results) /\ worker' = worker
      /\ Running /\ results \in Seq(Answers)
  BY ApplyKeeps, WorkerTyped DEF Running
<1>2. d \in Command
  BY CommandParts DEF Watched
<1> HIDE DEF r, d
<1>3. \/ Awaits(t, u) /\ d # r.command /\ (<<t, u>> \in lost => <<t, u>> \in lost')
      \/ <<t, u>> \in lost'
      \/ commands' = Append(commands, d)
  BY <1>1 DEF Applied, d
<1>4. commands \in Seq(Command) /\ Queued
  BY <1>1, Typed DEF Applied
<1>5. \A c \in Command : commands' = Append(commands, c) =>
        /\ \A i \in DOMAIN commands : i \in DOMAIN commands' /\ commands'[i] = commands[i]
        /\ \E i \in DOMAIN commands' : commands'[i] = c
  <2>1. Len(commands) \in Nat
    BY <1>4
  <2> QED BY <1>4, <2>1, Appended
<1>6. \A i \in DOMAIN commands : i \in DOMAIN commands' /\ commands'[i] = commands[i]
  BY <1>4, <1>5 DEF Queued
<1>7. \A i \in DOMAIN results : results[i].command = d /\ d # r.command =>
        \E j \in DOMAIN results' : results'[j].command = d
  BY <1>1, HeadAndTail DEF r
<1>8. UnderWay(d) /\ d # r.command => UnderWay(d)'
  BY <1>1, <1>6, <1>7 DEF UnderWay
<1>9. commands' = Append(commands, d) => UnderWay(d)'
  BY <1>2, <1>5 DEF UnderWay
<1> QED BY <1>1, <1>3, <1>8, <1>9 DEF Followed, d

\* The worker loses a command only to stop() or to a full queue of results.
LEMMA WorkerCarries ==
  ASSUME TypeOK, WorkerStep, ~cancelled, NEW d, UnderWay(d)
  PROVE  UnderWay(d)' \/ <<d.target, d.cover>> \in lost'
<1> USE WorkerTyped
<1>1. CASE Take
  <2>1. /\ commands # <<>> /\ commands' = Tail(commands) /\ results' = results
        /\ worker.phase = "idle" /\ worker'.phase = "holding"
        /\ worker'.command = Head(commands)
    BY <1>1 DEF Take
  <2>2. ASSUME NEW i \in DOMAIN commands, commands[i] = d PROVE UnderWay(d)'
    <3>1. /\ Head(commands) = commands[1]
          /\ i # 1 => i - 1 \in DOMAIN Tail(commands) /\ Tail(commands)[i - 1] = d
      BY <2>1, <2>2, HeadAndTail
    <3>2. CASE i = 1
      BY <2>1, <2>2, <3>1, <3>2 DEF UnderWay
    <3>3. CASE i # 1
      BY <2>1, <3>1, <3>3 DEF UnderWay
    <3> QED BY <3>2, <3>3
  <2> QED BY <2>1, <2>2 DEF UnderWay
<1>2. CASE Begin \/ Leave
  BY <1>2 DEF Begin, Leave, UnderWay, Workers
<1>3. CASE Evict \/ (\E success \in BOOLEAN : Fetch(success) \/ Clear(success))
  BY <1>3 DEF Evict, Fetch, Clear, UnderWay, Workers
<1>4. CASE Answer
  <2> DEFINE a == [command |-> worker.command, success |-> worker.success]
  <2>1. a \in Answers /\ a.command = worker.command
    BY DEF Workers, Answers
  <2>2. /\ worker' = Idle /\ commands' = commands
        /\ \/ HasRoom(results, ResultCapacity) /\ results' = Append(results, a)
           \/ results' = results
              /\ <<worker.command.target, worker.command.cover>> \in lost'
    BY <1>4 DEF Answer, PushIfRoom
  <2> HIDE DEF a
  <2>3. CASE results' = Append(results, a)
    <3>1. /\ \A i \in DOMAIN results : i \in DOMAIN results' /\ results'[i] = results[i]
          /\ \E i \in DOMAIN results' : results'[i] = a
      BY <2>1, <2>3, Appended
    <3> QED BY <2>1, <2>2, <3>1 DEF UnderWay
  <2>4. CASE /\ results' = results
             /\ <<worker.command.target, worker.command.cover>> \in lost'
    BY <2>2, <2>4 DEF UnderWay
  <2> QED BY <2>2, <2>3, <2>4
<1> QED BY <1>1, <1>2, <1>3, <1>4 DEF WorkerStep

LEMMA WorkerKeepsLost ==
  ASSUME WorkerStep PROVE lost \subseteq lost'
BY DEF WorkerStep, Take, Begin, Leave, Evict, Answer, Fetch, Clear

LEMMA WorkerKeepsFollowed ==
  ASSUME TypeOK, WorkerStep, Followed PROVE Followed'
<1> SUFFICES ASSUME Running', NEW t \in Watched, NEW u \in Covers, Awaits(t, u)'
             PROVE  UnderWay(Download(t, u))' \/ <<t, u>> \in lost'
  BY DEF Followed
<1>1. chain' = chain /\ frame' = frame /\ cancelled' = cancelled
  BY WorkerKeepsSdl DEF Untouched
<1>2. Awaits(t, u) /\ ~cancelled /\ Running
  BY <1>1 DEF Awaits, Running
<1>3. UnderWay(Download(t, u)) \/ <<t, u>> \in lost
  BY <1>2 DEF Followed
<1>4. UnderWay(Download(t, u)) =>
        UnderWay(Download(t, u))'
        \/ <<Download(t, u).target, Download(t, u).cover>> \in lost'
  BY <1>2, WorkerCarries
<1>5. Download(t, u).target = t /\ Download(t, u).cover = u
  BY CommandParts
<1> QED BY <1>3, <1>4, <1>5, WorkerKeepsLost

\* Whatever a chain or a frame waits for is on its way or was lost to a full
\* queue, for any sizes of the queues and whatever order presses, pages and
\* answers come in: no mark outlives its request (queue_artwork_inflight_ and
\* the last_*_url_ that request_*_artwork return early on).
THEOREM AwaitedComes == Spec => []AwaitedIsUnderWay
<1>1. Init => Followed
  <2> SUFFICES ASSUME Init PROVE Followed
    OBVIOUS
  <2>1. \A c \in Chains : chain[c].inflight = None
    BY DEF Init, NoMarks
  <2>2. \A t \in Frames : frame[t].last = frame[t].path
    BY DEF Init, Fresh, Listening, Dark
  <2> QED BY <2>1, <2>2, NoneIsNoCover DEF Followed, Awaits
<1>2. TypeOK /\ Followed /\ [Next]_vars => Followed'
  <2> SUFFICES ASSUME TypeOK, Followed, [Next]_vars PROVE Followed'
    OBVIOUS
  <2>1. CASE UserStep \/ WorldStep
    BY <2>1, SdlIsHarmless, HarmlessKeepsFollowed
  <2>2. CASE WorkerStep
    BY <2>2, WorkerKeepsFollowed
  <2>3. CASE ApplyResult
    BY <2>3, ApplyKeepsFollowed
  <2>4. CASE UNCHANGED vars
    BY <2>4 DEF Followed, Awaits, UnderWay, Running, vars, view, disk, flags
  <2> QED BY <2>1, <2>2, <2>3, <2>4, StepKinds
<1> QED BY <1>1, <1>2, TypeCorrect, FollowedIsEnough, PTL DEF Spec
-----------------------------------------------------------------------------
(* No cover is on display without its file *)

\* The cover has its file, or had it until eviction took it.
Filed(u) == u \in cache \cup evicted \cup {None}

\* The files have been removed, and the answer that takes the covers off the
\* display comes after the i-th result.
ClearsAfter(i) ==
  \/ worker.phase = "answering" /\ worker.command = ClearCache
  \/ \E j \in DOMAIN results : j > i /\ results[j].command = ClearCache

\* A cover without a file comes off the display with an answer to ClearCache, or
\* is remembered as outlived if the playlist of Now Playing may have it back; one
\* that a result will put on display comes off with a later answer; and the
\* worker never answers with one.
Haunted ==
  /\ \A u : Shows(u) /\ ~Filed(u) => ClearsAfter(0)
  /\ \A u : Holds(u) /\ ~Filed(u) /\ u \notin outlived => ClearsAfter(0)
  /\ \A i \in DOMAIN results :
       results[i].success /\ ~Filed(results[i].command.cover) => ClearsAfter(i)
  /\ worker.phase \in {"storing", "answering"} /\ worker.success
       => Filed(worker.command.cover)

ClearedInTime == Dropped \/ Haunted

LEMMA ClearedIsEnough == TypeOK /\ ClearedInTime => NoGhostCover
<1> SUFFICES ASSUME TypeOK, Haunted PROVE NoGhostCover
  BY DEF ClearedInTime, Dropped, NoGhostCover, ClearCache
<1>1. CASE ClearsAfter(0)
  BY <1>1 DEF ClearsAfter, UnderWay, NoGhostCover
<1>2. CASE ~ClearsAfter(0)
  <2>1. /\ \A u : Shows(u) => Filed(u)
        /\ \A u : Holds(u) => Filed(u) \/ u \in outlived
    BY <1>2 DEF Haunted
  <2> QED BY <2>1 DEF Shows, Holds, Filed, NoGhostCover
<1> QED BY <1>1, <1>2

LEMMA HarmlessKeepsCleared ==
  ASSUME TypeOK, Harmless, ClearedInTime PROVE ClearedInTime'
<1>1. /\ worker' = worker /\ results' = results /\ DropStays
      /\ cache \cup evicted \subseteq cache' \cup evicted'
      /\ outlived' = outlived
      /\ \A u : Shows(u)' => Shows(u) \/ u \in cache \cup {None}
      /\ \A u : Holds(u)' => Kept(u)
  <2>1. Kept(frame'["NowPlayingPlaylist"].path) /\ (before'.pending => StartHolds)
    BY DEF Harmless, Calm
  <2>2. \A u : Holds(u)' => Kept(u)
    BY <2>1 DEF Holds, Kept, StartHolds
  <2> QED BY <2>2 DEF Harmless, Calm
<1>2. CASE Dropped
  BY <1>1, <1>2 DEF DropStays, ClearedInTime
<1>3. CASE Haunted
  <2>1. \A u : Filed(u) => Filed(u)'
    BY <1>1 DEF Filed
  <2>2. \A i : ClearsAfter(i) => ClearsAfter(i)'
    BY <1>1 DEF ClearsAfter
  <2>3. \A u : Shows(u)' /\ ~Filed(u)' => Shows(u) /\ ~Filed(u)
    BY <1>1, <2>1 DEF Filed
  <2>4. \A u : Shows(u)' /\ ~Filed(u)' => ClearsAfter(0)'
    BY <1>3, <2>2, <2>3 DEF Haunted
  <2>5. \A i \in DOMAIN results' :
          results'[i].success /\ ~Filed(results[i].command.cover)' => ClearsAfter(i)'
    BY <1>1, <1>3, <2>1, <2>2 DEF Haunted
  <2>6. worker'.phase \in {"storing", "answering"} /\ worker'.success
          => Filed(worker.command.cover)'
    BY <1>1, <1>3, <2>1 DEF Haunted
  <2>7. ASSUME NEW u, Holds(u)', ~Filed(u)', u \notin outlived' PROVE ClearsAfter(0)'
    <3>1. ~Filed(u) /\ u \notin outlived /\ (Holds(u) \/ Shows(u))
      BY <1>1, <2>1, <2>7 DEF Kept, Filed
    <3> QED BY <1>3, <2>2, <3>1 DEF Haunted
  <2> QED BY <2>4, <2>5, <2>6, <2>7 DEF Haunted, ClearedInTime
<1> QED BY <1>2, <1>3 DEF ClearedInTime

\* The answer that is applied was the first result, so all that was to come
\* after it still is.
LEMMA ApplyKeepsCleared ==
  ASSUME TypeOK, ApplyResult, ClearedInTime PROVE ClearedInTime'
<1> DEFINE r == Head(results)
<1>1. /\ worker' = worker /\ cache' = cache /\ evicted' = evicted
      /\ results' = Tail(results) /\ results # <<>> /\ Applied(r)
      /\ results \in Seq(Answers)
      /\ before' = before /\ outlived \subseteq outlived'
      /\ r.command = ClearCache /\ before.pending
           => before.path \in cache \cup {None} \cup outlived'
  BY ApplyKeeps, WorkerTyped
<1>2. /\ 1 \in DOMAIN results /\ r = results[1] /\ DOMAIN results = 1..Len(results)
      /\ Len(results) \in Nat
      /\ \A i \in DOMAIN results : i # 1 => i - 1 \in DOMAIN Tail(results)
                                            /\ Tail(results)[i-1] = results[i]
      /\ \A i \in DOMAIN Tail(results) : i + 1 \in DOMAIN results
                                         /\ Tail(results)[i] = results[i + 1]
      /\ DOMAIN Tail(results) = 1..Len(Tail(results)) /\ Len(Tail(results)) \in Nat
  BY <1>1, HeadAndTail
<1> HIDE DEF r
<1>3. /\ DropStays
      /\ \A u : Shows(u)' =>
           \/ u \in cache \cup {None}
           \/ /\ r.command # ClearCache
              /\ Shows(u) \/ (r.success /\ u = r.command.cover)
      /\ LET u == frame'["NowPlayingPlaylist"].path IN
           \/ u = None
           \/ /\ r.command # ClearCache
              /\ Holds(u) \/ (r.success /\ u = r.command.cover)
  BY <1>1 DEF Applied
<1>4. CASE Dropped
  BY <1>3, <1>4 DEF DropStays, ClearedInTime
<1>5. CASE Haunted
  <2>1. \A u : Filed(u)' <=> Filed(u)
    BY <1>1 DEF Filed
  <2>2. \A i \in Nat : ClearsAfter(i + 1) => ClearsAfter(i)'
    <3> SUFFICES ASSUME NEW i \in Nat, ClearsAfter(i + 1) PROVE ClearsAfter(i)'
      OBVIOUS
    <3>1. CASE worker.phase = "answering" /\ worker.command = ClearCache
      BY <1>1, <3>1 DEF ClearsAfter
    <3>2. ASSUME NEW j \in DOMAIN results, j > i + 1, results[j].command = ClearCache
          PROVE  ClearsAfter(i)'
      <4>1. j # 1 /\ j - 1 > i
        BY <1>2, <3>2
      <4>2. j - 1 \in DOMAIN results' /\ results'[j - 1] = results[j]
        BY <1>1, <1>2, <3>2, <4>1
      <4> QED BY <3>2, <4>1, <4>2 DEF ClearsAfter
    <3> QED BY <3>1, <3>2 DEF ClearsAfter
  <2>3. r.command # ClearCache /\ ClearsAfter(0) => ClearsAfter(1)
    BY <1>2 DEF ClearsAfter
  <2>4. ASSUME NEW u, Shows(u)', ~Filed(u)' PROVE ClearsAfter(0)'
    <3>1. /\ ~Filed(u) /\ r.command # ClearCache
          /\ Shows(u) \/ (r.success /\ u = r.command.cover)
      BY <1>3, <2>1, <2>4 DEF Filed
    <3>2. ClearsAfter(1)
      <4>1. CASE Shows(u)
        BY <1>5, <2>3, <3>1, <4>1 DEF Haunted
      <4>2. CASE r.success /\ u = r.command.cover
        BY <1>2, <1>5, <3>1, <4>2 DEF Haunted
      <4> QED BY <3>1, <4>1, <4>2
    <3>3. ClearsAfter(0 + 1) => ClearsAfter(0)'
      BY <2>2
    <3> QED BY <3>2, <3>3
  <2>5. ASSUME NEW i \in DOMAIN results', results'[i].success,
               ~Filed(results[i].command.cover)'
        PROVE  ClearsAfter(i)'
    <3>1. i \in Nat /\ i + 1 \in DOMAIN results /\ results'[i] = results[i + 1]
      BY <1>1, <1>2
    <3>2. ClearsAfter(i + 1)
      BY <1>5, <2>1, <2>5, <3>1 DEF Haunted
    <3> QED BY <2>2, <3>1, <3>2
  <2>6. worker'.phase \in {"storing", "answering"} /\ worker'.success
          => Filed(worker.command.cover)'
    BY <1>1, <1>5, <2>1 DEF Haunted
  <2>7. ASSUME NEW u, Holds(u)', ~Filed(u)', u \notin outlived' PROVE ClearsAfter(0)'
    <3>1. ~Filed(u) /\ u \notin outlived /\ u \notin cache \cup {None}
      BY <1>1, <2>1, <2>7 DEF Filed
    <3>2. /\ r.command # ClearCache
          /\ Holds(u) \/ (r.success /\ u = r.command.cover)
      <4>1. CASE frame'["NowPlayingPlaylist"].path = u
        BY <1>3, <3>1, <4>1
      <4>2. CASE before.pending /\ before.path = u
        BY <1>1, <2>7, <3>1, <4>2 DEF Holds
      <4> QED BY <1>1, <2>7, <4>1, <4>2 DEF Holds
    <3>3. ClearsAfter(1)
      <4>1. CASE Holds(u)
        BY <1>5, <2>3, <3>1, <3>2, <4>1 DEF Haunted
      <4>2. CASE r.success /\ u = r.command.cover
        BY <1>2, <1>5, <3>1, <4>2 DEF Haunted
      <4> QED BY <3>2, <4>1, <4>2
    <3>4. ClearsAfter(0 + 1) => ClearsAfter(0)'
      BY <2>2
    <3> QED BY <3>3, <3>4
  <2> QED BY <2>4, <2>5, <2>6, <2>7 DEF Haunted, ClearedInTime
<1> QED BY <1>4, <1>5 DEF ClearedInTime

\* The worker's own part: it removes files only to answer that it did.
LEMMA WorkerKeepsHaunted ==
  ASSUME TypeOK, WorkerStep, Haunted PROVE Haunted' \/ Dropped'
<1> USE WorkerTyped
<1>1. \A u : (Shows(u)' <=> Shows(u)) /\ (Holds(u)' <=> Holds(u))
  BY WorkerKeepsSdl DEF Untouched, Shows, Holds
<1>2. CASE Take \/ Begin \/ Leave
  <2>1. /\ results' = results /\ cache' = cache /\ evicted' = evicted
        /\ outlived' = outlived /\ worker.phase # "answering"
        /\ worker'.phase \notin {"storing", "answering"}
    BY <1>2 DEF Take, Begin, Leave, disk, Workers
  <2>2. \A i : ClearsAfter(i) => ClearsAfter(i)'
    BY <2>1 DEF ClearsAfter
  <2>3. \A u : Filed(u)' <=> Filed(u)
    BY <2>1 DEF Filed
  <2> QED BY <1>1, <2>1, <2>2, <2>3 DEF Haunted
<1>3. CASE Evict \/ (\E success \in BOOLEAN : Fetch(success))
  <2>1. /\ results' = results /\ cache \cup evicted \subseteq cache' \cup evicted'
        /\ outlived \subseteq outlived' \cup cache'
        /\ worker.phase # "answering" /\ worker'.command = worker.command
    <3>1. CASE Evict
      BY <3>1, Evicting DEF Evict, Workers
    <3>2. CASE \E success \in BOOLEAN : Fetch(success)
      BY <3>2 DEF Fetch, Workers
    <3> QED BY <1>3, <3>1, <3>2
  <2>2. \A i : ClearsAfter(i) => ClearsAfter(i)'
    BY <2>1 DEF ClearsAfter
  <2>3. \A u : Filed(u) => Filed(u)'
    BY <2>1 DEF Filed
  <2>4. worker'.success => Filed(worker.command.cover)'
    <3>1. CASE Evict
      <4>1. worker.phase = "storing" /\ worker'.success = worker.success
        BY <3>1 DEF Evict, Workers
      <4> QED BY <2>1, <2>3, <4>1 DEF Haunted
    <3>2. ASSUME NEW success \in BOOLEAN, Fetch(success)
          PROVE  worker'.success => Filed(worker.command.cover)'
      <4>1. /\ worker'.success = success
            /\ cache' = IF success THEN cache \cup {worker.command.cover} ELSE cache
        BY <3>2 DEF Fetch, Workers
      <4> QED BY <2>1, <4>1 DEF Filed
    <3> QED BY <1>3, <3>1, <3>2
  <2>5. \A u : Shows(u)' /\ ~Filed(u)' => ClearsAfter(0)'
    BY <1>1, <2>2, <2>3 DEF Haunted
  <2>6. \A i \in DOMAIN results' :
          results'[i].success /\ ~Filed(results[i].command.cover)' => ClearsAfter(i)'
    BY <2>1, <2>2, <2>3 DEF Haunted
  <2>7. \A u : Holds(u)' /\ ~Filed(u)' /\ u \notin outlived' => ClearsAfter(0)'
    <3>1. \A u : ~Filed(u)' /\ u \notin outlived' => u \notin outlived
      BY <2>1 DEF Filed
    <3> QED BY <1>1, <2>2, <2>3, <3>1 DEF Haunted
  <2> QED BY <2>4, <2>5, <2>6, <2>7 DEF Haunted
<1>4. CASE \E success \in BOOLEAN : Clear(success)
  <2>1. worker'.phase = "answering" /\ worker'.command = ClearCache
    BY <1>4 DEF Clear, Workers
  <2>2. \A i : ClearsAfter(i)'
    BY <2>1 DEF ClearsAfter
  <2>3. Filed(worker.command.cover)'
    BY <2>1 DEF ClearCache, Filed
  <2> QED BY <2>2, <2>3 DEF Haunted
<1>5. CASE Answer
  <2> DEFINE a == [command |-> worker.command, success |-> worker.success]
  <2>1. a \in Answers /\ a.command = worker.command /\ a.success = worker.success
    BY DEF Workers, Answers
  <2>2. /\ worker.phase = "answering" /\ worker'.phase = "idle"
        /\ cache' = cache /\ evicted' = evicted /\ outlived' = outlived
        /\ \/ results' = Append(results, a)
           \/ results' = results
              /\ <<worker.command.target, worker.command.cover>> \in lost'
    BY <1>5 DEF Answer, PushIfRoom, Idle, disk
  <2>3. \A u : Filed(u)' <=> Filed(u)
    BY <2>2 DEF Filed
  <2> HIDE DEF a
  <2>4. CASE results' = Append(results, a)
    <3> DEFINE n == Len(results) + 1
    <3>1. /\ DOMAIN results' = 1..n /\ n \in DOMAIN results' /\ results'[n] = a
          /\ DOMAIN results = 1..Len(results) /\ Len(results) \in Nat
          /\ \A i \in DOMAIN results : i \in DOMAIN results' /\ results'[i] = results[i]
      BY <2>1, <2>4, Appended
    <3>2. \A i \in 0..Len(results) : ClearsAfter(i) => ClearsAfter(i)'
      <4> SUFFICES ASSUME NEW i \in 0..Len(results), ClearsAfter(i)
                   PROVE  ClearsAfter(i)'
        OBVIOUS
      <4>1. CASE worker.command = ClearCache
        BY <2>1, <3>1, <4>1 DEF ClearsAfter
      <4>2. CASE \E j \in DOMAIN results : j > i /\ results[j].command = ClearCache
        BY <3>1, <4>2 DEF ClearsAfter
      <4> QED BY <4>1, <4>2 DEF ClearsAfter
    <3>3. /\ \A u : Shows(u)' /\ ~Filed(u)' => ClearsAfter(0)'
          /\ \A u : Holds(u)' /\ ~Filed(u)' /\ u \notin outlived' => ClearsAfter(0)'
      BY <1>1, <2>2, <2>3, <3>1, <3>2 DEF Haunted
    <3>4. ASSUME NEW i \in DOMAIN results', results'[i].success,
                 ~Filed(results[i].command.cover)'
          PROVE  ClearsAfter(i)'
      <4>1. CASE i = n
        BY <2>1, <2>2, <2>3, <3>1, <3>4, <4>1 DEF Haunted
      <4>2. CASE i # n
        <5>1. i \in DOMAIN results /\ i \in 0..Len(results) /\ results'[i] = results[i]
          BY <3>1, <4>2
        <5> QED BY <2>3, <3>2, <3>4, <5>1 DEF Haunted
      <4> QED BY <4>1, <4>2
    <3> QED BY <2>2, <3>3, <3>4 DEF Haunted
  <2>5. CASE /\ results' = results
             /\ <<worker.command.target, worker.command.cover>> \in lost'
    <3>1. CASE worker.command = ClearCache
      BY <2>5, <3>1 DEF Dropped, ClearCache
    <3>2. CASE worker.command # ClearCache
      <4>1. \A i : ClearsAfter(i) => ClearsAfter(i)'
        BY <2>5, <3>2 DEF ClearsAfter
      <4> QED BY <1>1, <2>2, <2>3, <2>5, <4>1 DEF Haunted
    <3> QED BY <3>1, <3>2
  <2> QED BY <2>2, <2>4, <2>5
<1> QED BY <1>2, <1>3, <1>4, <1>5 DEF WorkerStep

\* A cover on display has its file, or had it until eviction took it, or an
\* answer that takes all covers off the display is still to come (or was lost to
\* a full queue): a download that clear() overtakes cannot bring back a cover
\* whose file is gone, for its answer is applied before clear()'s.  The playlist
\* of Now Playing may show one cleared cover more, and no other: one that a start
\* held on to while CacheCleared was applied, and put back when it failed.
THEOREM NoGhosts == Spec => []NoGhostCover
<1>1. Init => ClearedInTime
  <2> SUFFICES ASSUME Init PROVE Haunted
    BY DEF ClearedInTime
  <2>1. \A c \in Chains : chain[c].shown = <<>>
    BY DEF Init, NoMarks
  <2>2. \A t \in Frames : frame[t].path \in cache \cup {None}
    BY DEF Init, Fresh, Listening, Dark
  <2>3. results = <<>> /\ worker.phase = "idle" /\ ~before.pending
    BY DEF Init, Idle, Nothing
  <2> QED BY <2>1, <2>2, <2>3, Kinds DEF Haunted, Shows, Holds, Filed
<1>2. TypeOK /\ ClearedInTime /\ [Next]_vars => ClearedInTime'
  <2> SUFFICES ASSUME TypeOK, ClearedInTime, [Next]_vars PROVE ClearedInTime'
    OBVIOUS
  <2>1. CASE UserStep \/ WorldStep
    BY <2>1, SdlIsHarmless, HarmlessKeepsCleared
  <2>2. CASE WorkerStep
    <3>1. Dropped => Dropped'
      BY <2>2, WorkerKeepsLost DEF Dropped
    <3> QED BY <2>2, <3>1, WorkerKeepsHaunted DEF ClearedInTime
  <2>3. CASE ApplyResult
    BY <2>3, ApplyKeepsCleared
  <2>4. CASE UNCHANGED vars
    BY <2>4 DEF ClearedInTime, Dropped, Haunted, Shows, Holds, Filed,
                ClearsAfter, vars, view, disk
  <2> QED BY <2>1, <2>2, <2>3, <2>4, StepKinds
<1> QED BY <1>1, <1>2, TypeCorrect, ClearedIsEnough, PTL DEF Spec
=============================================================================
