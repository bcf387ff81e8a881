------------------------ MODULE SpeakerVolumeProofs ------------------------
(***************************************************************************)
(* Safety of SpeakerVolume for any household, any range of volumes, any    *)
(* step and capacity, and whatever Sonos makes of a group's volume.        *)
(***************************************************************************)
EXTENDS SpeakerVolume, SequenceTheorems, WellFoundedInduction, TLAPS

\* The types of the commands and answers about one speaker.
OfRoom == {"Get", "Volume", "Mute"}
-----------------------------------------------------------------------------
(* The household and its volumes *)

LEMMA HouseholdType ==
  /\ FirstGroup \in Groups
  /\ \A g \in Groups : /\ Members[g] \in Seq(Rooms)
                       /\ MembersOf(g) \subseteq Rooms
                       /\ Coordinator[g] \in MembersOf(g)
<1>1. ASSUME NEW g \in Groups
      PROVE  Members[g] \in Seq(Rooms) /\ MembersOf(g) \subseteq Rooms
             /\ Coordinator[g] \in MembersOf(g)
  <2>1. Members[g] \in Seq(Rooms) /\ Coordinator[g] \in MembersOf(g)
    BY GroupsAreDisjoint
  <2>2. \A i \in DOMAIN Members[g] : Members[g][i] \in Rooms
    BY <2>1, LenProperties
  <2> QED BY <2>1, <2>2 DEF MembersOf
<1> QED BY <1>1, GroupsAreDisjoint

LEMMA LevelsAre ==
  /\ MaxVolume \in Nat /\ Step \in Nat /\ 0 \in Levels
  /\ Levels \subseteq Int /\ Unknown \in Int /\ Unknown \notin Levels
  /\ Capacity \in Nat /\ ResultCapacity \in Nat /\ Capacity > 1
  /\ MaxActs \in Nat /\ MaxEvents \in Nat
BY NumbersAreNat DEF Levels, Unknown

LEMMA ClampType ==
  ASSUME NEW v \in Int
  PROVE  ClampVolume(v) \in Levels
BY LevelsAre DEF ClampVolume, Levels

\* A key's step from a number on display.
LEMMA KeyType ==
  ASSUME NEW v \in Levels, NEW direction \in {-1, 1}
  PROVE  ClampVolume(v + direction * Step) \in Levels
<1>1. v \in Int /\ Step \in Int
  BY LevelsAre
<1>2. v + direction * Step \in Int
  <2>1. CASE direction = 1
    BY <1>1, <2>1
  <2>2. CASE direction = -1
    BY <1>1, <2>2
  <2> QED BY <2>1, <2>2
<1> QED BY <1>2, ClampType

LEMMA GroupVolumeType ==
  ASSUME actual \in [Rooms -> Levels], NEW g \in Groups
  PROVE  GroupVolume(g) \in Levels
<1>1. Mean(actual, g) \in Levels
  BY MeanIsLevel
<1>2. Coordinator[g] \in Rooms
  BY HouseholdType
<1>3. actual[Coordinator[g]] \in Levels
  BY <1>2
<1> QED BY <1>1, <1>3 DEF GroupVolume
-----------------------------------------------------------------------------
(* What is sent *)

LEMMA CommandParts ==
  /\ \A c \in Commands : /\ c.type \in CommandTypes /\ c.value \in Int
                         /\ c.type \in OfRoom => c.to \in Rooms
                         /\ c.type \notin OfRoom => c.to \in Groups
                         /\ c.type # "Adjust" => c.value \in Levels
  /\ \A a \in Answers : /\ a.type \in CommandTypes /\ a.success \in BOOLEAN
                        /\ a.value \in Levels /\ a.relative \in BOOLEAN
                        /\ a.type \in OfRoom => a.from \in Rooms
                        /\ a.type \notin OfRoom => a.from \in Groups
BY DEF Commands, Answers, OfRoom

LEMMA CommandMakes ==
  /\ \A r \in Rooms, type \in OfRoom, v \in Levels :
       /\ Command(type, r, v) \in Commands
       /\ Command(type, r, v).type = type /\ Command(type, r, v).to = r
       /\ Command(type, r, v).value = v
  /\ \A g \in Groups, type \in {"Poll", "Topology", "Sync"}, v \in Levels :
       /\ Command(type, g, v) \in Commands
       /\ Command(type, g, v).type = type /\ Command(type, g, v).to = g
       /\ Command(type, g, v).value = v
  /\ \A g \in Groups, v \in Int :
       /\ Command("Adjust", g, v) \in Commands
       /\ Command("Adjust", g, v).type = "Adjust"
BY LevelsAre DEF Command, Commands, CommandTypes, OfRoom

LEMMA AnswerMakes ==
  ASSUME NEW c \in Commands, NEW success \in BOOLEAN, NEW v \in Levels,
         NEW relative \in BOOLEAN
  PROVE  [type |-> c.type, from |-> c.to, success |-> success, value |-> v,
          relative |-> relative] \in Answers
BY CommandParts DEF Answers, Commands, OfRoom

\* Commands that set no speaker's volume to a value.
Reading == {c \in Commands : c.type \notin {"Volume", "Sync"}}

LEMMA ReadingMakes ==
  ASSUME NEW g \in Groups
  PROVE  /\ Poll(g) \in Seq(Reading) /\ Reads(g) \in Seq(Reading)
         /\ Poll(g) \o Reads(g) \in Seq(Reading)
         /\ Poll(g) \o Poll(g) \in Seq(Reading) /\ Poll(g) \o <<>> \in Seq(Reading)
         /\ <<>> \o Reads(g) \in Seq(Reading)
         /\ <<Command("Topology", g, 0)>> \in Seq(Reading)
         /\ \A v \in Int : <<Command("Adjust", g, v)>> \in Seq(Reading)
         /\ \A r \in Rooms : /\ <<Command("Get", r, 0)>> \in Seq(Reading)
                             /\ <<Command("Mute", r, 0)>> \in Seq(Reading)
                             /\ <<>> \o <<Command("Get", r, 0)>> \in Seq(Reading)
                             /\ Poll(g) \o <<Command("Get", r, 0)>> \in Seq(Reading)
                             /\ Reads(g) \o <<Command("Get", r, 0)>> \in Seq(Reading)
<1>1. Poll(g) \in Seq(Reading)
  <2>1. Command("Poll", g, 0) \in Reading
    BY CommandMakes, LevelsAre DEF Reading
  <2> QED BY <2>1 DEF Poll
<1>2. ASSUME NEW r \in Rooms, NEW type \in {"Get", "Mute"}
      PROVE  <<Command(type, r, 0)>> \in Seq(Reading) /\ Command(type, r, 0) \in Reading
  <2>1. type \in OfRoom
    BY DEF OfRoom
  <2>2. Command(type, r, 0) \in Reading
    BY <2>1, CommandMakes, LevelsAre DEF Reading
  <2> QED BY <2>2
<1>3. Reads(g) \in Seq(Reading)
  <2>1. Members[g] \in Seq(Rooms)
    BY HouseholdType
  <2>2. Len(Members[g]) \in Nat /\ DOMAIN Members[g] = 1..Len(Members[g])
        /\ \A i \in 1..Len(Members[g]) : Members[g][i] \in Rooms
    BY <2>1, LenProperties
  <2>3. \A i \in 1..Len(Members[g]) : Command("Get", Members[g][i], 0) \in Reading
    BY <2>2, <1>2
  <2>4. Reads(g) \in [1..Len(Members[g]) -> Reading]
    BY <2>2, <2>3 DEF Reads
  <2> QED BY <2>2, <2>4
<1>4. <<Command("Topology", g, 0)>> \in Seq(Reading)
  <2>1. Command("Topology", g, 0) \in Reading
    BY CommandMakes, LevelsAre DEF Reading
  <2> QED BY <2>1
<1>5. ASSUME NEW v \in Int
      PROVE  <<Command("Adjust", g, v)>> \in Seq(Reading)
  <2>1. Command("Adjust", g, v) \in Reading
    BY CommandMakes DEF Reading
  <2> QED BY <2>1
<1>6. <<>> \in Seq(Reading)
  OBVIOUS
<1>7. \A s, t \in Seq(Reading) : s \o t \in Seq(Reading)
  BY ConcatProperties
<1> QED BY <1>1, <1>2, <1>3, <1>4, <1>5, <1>6, <1>7
-----------------------------------------------------------------------------
(* The queue of commands *)

\* A list is appended as far as there is room for it.
LEMMA AcceptedType ==
  ASSUME NEW S, NEW queue \in Seq(S), Len(queue) <= Capacity, NEW list \in Seq(S)
  PROVE  LET longer == Accepted(queue, list) IN
         /\ longer \in Seq(S) /\ Len(longer) <= Capacity
         /\ Len(queue) <= Len(longer)
         /\ \A i \in 1..Len(queue) : longer[i] = queue[i]
         /\ \A i \in Len(queue) + 1..Len(longer) :
              i - Len(queue) \in 1..Len(list) /\ longer[i] = list[i - Len(queue)]
         /\ Len(list) <= Capacity - Len(queue) => longer = queue \o list
<1> DEFINE space == Capacity - Len(queue)
           n == IF space < Len(list) THEN space ELSE Len(list)
           accepted == SubSeq(list, 1, n)
<1>1. Len(queue) \in Nat /\ Len(list) \in Nat /\ n \in Nat /\ n <= Len(list)
      /\ Len(queue) + n <= Capacity /\ Capacity \in Nat
  BY LevelsAre, LenProperties
<1>2. \A i \in 1..n : list[i] \in S
  BY <1>1, LenProperties
<1>3. accepted \in Seq(S) /\ Len(accepted) = n
      /\ \A i \in 1..n : accepted[i] = list[i]
  BY <1>1, <1>2, SubSeqProperties
<1>4. Accepted(queue, list) = queue \o accepted
  BY DEF Accepted
<1>5. Len(list) <= space => accepted = list
  <2> SUFFICES ASSUME Len(list) <= space PROVE accepted = list
    OBVIOUS
  <2>1. n = Len(list)
    BY <1>1
  <2> HIDE DEF n, accepted
  <2>2. accepted \in Seq(S) /\ Len(accepted) = Len(list)
        /\ \A i \in 1..Len(list) : accepted[i] = list[i]
    BY <2>1, <1>3
  <2> QED BY <2>2
<1> HIDE DEF accepted, n
<1>6. /\ queue \o accepted \in Seq(S)
      /\ Len(queue \o accepted) = Len(queue) + n
      /\ \A i \in 1..Len(queue) + n :
           (queue \o accepted)[i] = IF i <= Len(queue) THEN queue[i]
                                    ELSE accepted[i - Len(queue)]
  BY <1>3, ConcatProperties
<1>7. \A i \in Len(queue) + 1..Len(queue) + n :
        i - Len(queue) \in 1..n /\ i \in 1..Len(queue) + n /\ ~(i <= Len(queue))
  BY <1>1
<1>8. \A i \in 1..Len(queue) : i \in 1..Len(queue) + n /\ i <= Len(queue)
  BY <1>1
<1>9. \A i \in 1..n : i \in 1..Len(list)
  BY <1>1
<1> HIDE DEF space
<1> DEFINE longer == Accepted(queue, list)
<1>10. longer \in Seq(S) /\ Len(longer) = Len(queue) + n
       /\ \A i \in 1..Len(queue) + n :
            longer[i] = IF i <= Len(queue) THEN queue[i] ELSE accepted[i - Len(queue)]
  BY <1>4, <1>6
<1>11. Len(list) <= Capacity - Len(queue) => longer = queue \o list
  BY <1>4, <1>5 DEF space
<1> HIDE DEF longer
<1>12. Len(longer) <= Capacity /\ Len(queue) <= Len(longer)
  BY <1>1, <1>10
<1>13. \A i \in 1..Len(queue) : longer[i] = queue[i]
  BY <1>8, <1>10
<1>14. \A i \in Len(queue) + 1..Len(longer) :
         i - Len(queue) \in 1..Len(list) /\ longer[i] = list[i - Len(queue)]
  BY <1>3, <1>7, <1>9, <1>10
<1> QED BY <1>10, <1>11, <1>12, <1>13, <1>14 DEF longer

\* A command that sets this speaker's volume to its value.
Sets(c, r) ==
  \/ c.type = "Volume" /\ c.to = r
  \/ c.type = "Sync" /\ r \in MembersOf(c.to)

\* What becomes of a request: the last command of the queue that sets the
\* speaker's volume is the one that was asked for last, or there is none and the
\* speaker has it.
Lands(queue, wanted, has, r) ==
  \/ wanted = Unknown
  \/ wanted = has /\ \A i \in DOMAIN queue : ~Sets(queue[i], r)
  \/ \E i \in DOMAIN queue :
       /\ Sets(queue[i], r) /\ queue[i].value = wanted
       /\ \A j \in DOMAIN queue : i < j => ~Sets(queue[j], r)

\* The strengthened invariant of RequestsLand.
AllLand == \A r \in Rooms : Lands(commands, asked[r], actual[r], r)

LEMMA AllLandIsEnough == AllLand => RequestsLand
BY DEF AllLand, Lands, Sets, RequestsLand

\* Requests that only read leave the last setting the last one.
LEMMA LandsMore ==
  ASSUME NEW queue \in Seq(Commands), Len(queue) <= Capacity,
         NEW list \in Seq(Reading), NEW wanted, NEW has, NEW r,
         Lands(queue, wanted, has, r)
  PROVE  Lands(Accepted(queue, list), wanted, has, r)
<1> DEFINE longer == Accepted(queue, list)
<1>1. list \in Seq(Commands)
  BY SeqMonotonic DEF Reading
<1>2. /\ longer \in Seq(Commands) /\ Len(queue) <= Len(longer)
      /\ \A i \in 1..Len(queue) : longer[i] = queue[i]
      /\ \A i \in Len(queue) + 1..Len(longer) :
           i - Len(queue) \in 1..Len(list) /\ longer[i] = list[i - Len(queue)]
  BY <1>1, AcceptedType
<1> HIDE DEF longer
<1>3. /\ DOMAIN longer = 1..Len(longer) /\ Len(longer) \in Nat
      /\ DOMAIN queue = 1..Len(queue) /\ Len(queue) \in Nat
  BY <1>2, LenProperties
<1>4. \A i \in 1..Len(list) : ~Sets(list[i], r)
  <2>1. \A i \in 1..Len(list) : list[i] \in Reading
    BY LenProperties
  <2> QED BY <2>1 DEF Reading, Sets
<1>5. \A i \in DOMAIN longer :
        \/ i \in DOMAIN queue /\ longer[i] = queue[i]
        \/ i > Len(queue) /\ ~Sets(longer[i], r)
  <2> SUFFICES ASSUME NEW i \in DOMAIN longer
               PROVE  \/ i \in DOMAIN queue /\ longer[i] = queue[i]
                      \/ i > Len(queue) /\ ~Sets(longer[i], r)
    OBVIOUS
  <2>1. i \in 1..Len(queue) \/ i \in Len(queue) + 1..Len(longer)
    BY <1>3
  <2>2. i \in Len(queue) + 1..Len(longer) => i > Len(queue)
    BY <1>3
  <2> QED BY <2>1, <2>2, <1>2, <1>3, <1>4
<1>6. \A i \in DOMAIN queue : i \in DOMAIN longer /\ longer[i] = queue[i]
  BY <1>2, <1>3
<1>7. CASE wanted = has /\ \A i \in DOMAIN queue : ~Sets(queue[i], r)
  BY <1>5, <1>7 DEF Lands, longer
<1>8. ASSUME NEW i \in DOMAIN queue,
             Sets(queue[i], r) /\ queue[i].value = wanted,
             \A j \in DOMAIN queue : i < j => ~Sets(queue[j], r)
      PROVE  Lands(longer, wanted, has, r)
  <2>1. i \in DOMAIN longer /\ longer[i] = queue[i]
    BY <1>6
  <2>2. \A j \in DOMAIN longer : i < j => ~Sets(longer[j], r)
    BY <1>5, <1>8
  <2> QED BY <1>8, <2>1, <2>2 DEF Lands
<1> QED BY <1>7, <1>8 DEF Lands, longer

\* A setting at the back is the last one.
LEMMA LandsAppended ==
  ASSUME NEW queue \in Seq(Commands), NEW c \in Commands, NEW has, NEW r
  PROVE  /\ Sets(c, r) => Lands(Append(queue, c), c.value, has, r)
         /\ \A wanted : ~Sets(c, r) /\ Lands(queue, wanted, has, r)
              => Lands(Append(queue, c), wanted, has, r)
<1> DEFINE longer == Append(queue, c)
           n == Len(queue) + 1
<1>1. /\ longer \in Seq(Commands) /\ Len(longer) = n /\ longer[n] = c
      /\ \A i \in 1..Len(queue) : longer[i] = queue[i]
  BY AppendProperties
<1> HIDE DEF longer
<1>2. /\ DOMAIN longer = 1..n /\ DOMAIN queue = 1..Len(queue) /\ Len(queue) \in Nat
  BY <1>1, LenProperties
<1>3. /\ n \in DOMAIN longer /\ \A i \in DOMAIN longer : i \in DOMAIN queue \/ i = n
      /\ \A i \in DOMAIN longer : ~(n < i)
      /\ \A i \in DOMAIN queue : i \in DOMAIN longer /\ longer[i] = queue[i]
  BY <1>1, <1>2
<1>4. Sets(c, r) => Lands(longer, c.value, has, r)
  BY <1>1, <1>3 DEF Lands
<1>5. ASSUME NEW wanted, ~Sets(c, r), Lands(queue, wanted, has, r)
      PROVE  Lands(longer, wanted, has, r)
  BY <1>1, <1>3, <1>5 DEF Lands
<1> QED BY <1>4, <1>5 DEF longer

\* The command at the front is taken: one that sets the volume is the last one
\* or another one still comes.
LEMMA LandsTaken ==
  ASSUME NEW queue \in Seq(Commands), queue # <<>>, NEW wanted, NEW has, NEW r,
         Lands(queue, wanted, has, r)
  PROVE  /\ ~Sets(Head(queue), r) => Lands(Tail(queue), wanted, has, r)
         /\ Sets(Head(queue), r) => Lands(Tail(queue), wanted, Head(queue).value, r)
<1> DEFINE rest == Tail(queue)
<1>1. /\ Head(queue) = queue[1] /\ rest \in Seq(Commands)
      /\ Len(rest) = Len(queue) - 1 /\ \A i \in 1..Len(rest) : rest[i] = queue[i + 1]
  BY HeadTailProperties
<1> HIDE DEF rest
<1>2. /\ DOMAIN rest = 1..Len(rest) /\ DOMAIN queue = 1..Len(queue)
      /\ Len(queue) \in Nat /\ Len(queue) > 0
  BY <1>1, LenProperties, EmptySeq
<1>3. /\ \A i \in DOMAIN rest : i + 1 \in DOMAIN queue /\ rest[i] = queue[i + 1]
                              /\ i \in Int
      /\ \A i \in DOMAIN queue :
           i = 1 \/ (i > 1 /\ i - 1 \in DOMAIN rest /\ rest[i - 1] = queue[i])
      /\ 1 \in DOMAIN queue /\ \A i \in DOMAIN queue : i \in Int
  <2>1. \A i \in DOMAIN queue : i # 1 => i > 1 /\ i - 1 \in 1..Len(rest) /\ (i - 1) + 1 = i
    BY <1>1, <1>2
  <2> QED BY <1>1, <1>2, <2>1
<1>4. CASE wanted = has /\ \A i \in DOMAIN queue : ~Sets(queue[i], r)
  BY <1>1, <1>3, <1>4 DEF Lands, rest
<1>5. ASSUME NEW i \in DOMAIN queue,
             Sets(queue[i], r) /\ queue[i].value = wanted,
             \A j \in DOMAIN queue : i < j => ~Sets(queue[j], r)
      PROVE  /\ ~Sets(Head(queue), r) => Lands(rest, wanted, has, r)
             /\ Sets(Head(queue), r) => Lands(rest, wanted, Head(queue).value, r)
  <2>1. CASE i = 1
    <3>1. \A j \in DOMAIN rest : ~Sets(rest[j], r)
      <4> SUFFICES ASSUME NEW j \in DOMAIN rest PROVE ~Sets(rest[j], r)
        OBVIOUS
      <4>1. j + 1 \in DOMAIN queue /\ rest[j] = queue[j + 1] /\ 1 < j + 1
        BY <1>2, <1>3
      <4> QED BY <4>1, <1>5, <2>1
    <3> QED BY <3>1, <2>1, <1>1, <1>5 DEF Lands
  <2>2. CASE i # 1
    <3>1. i - 1 \in DOMAIN rest /\ rest[i - 1] = queue[i]
      BY <2>2, <1>3
    <3>2. \A j \in DOMAIN rest : i - 1 < j => ~Sets(rest[j], r)
      <4> SUFFICES ASSUME NEW j \in DOMAIN rest, i - 1 < j PROVE ~Sets(rest[j], r)
        OBVIOUS
      <4>1. j + 1 \in DOMAIN queue /\ rest[j] = queue[j + 1] /\ i < j + 1
        BY <1>3
      <4> QED BY <4>1, <1>5
    <3> QED BY <3>1, <3>2, <1>5 DEF Lands
  <2> QED BY <2>1, <2>2
<1> QED BY <1>4, <1>5 DEF Lands, rest
-----------------------------------------------------------------------------
(* A newer request for a speaker *)

\* Every non-empty set of naturals has a least element.
LEMMA LeastOf ==
  ASSUME NEW T, T \subseteq Nat, T # {}
  PROVE  \E x \in T : \A y \in T : x <= y
<1>1. PICK x \in T : \A y \in T : ~(<<y, x>> \in OpToRel(<, Nat))
  BY NatLessThanWellFounded, WFMin, Zenon
<1>2. \A y \in T : ~(y < x)
  BY <1>1, Zenon DEF OpToRel
<1> QED
  BY <1>2

\* The position that replace_latest overwrites.
LEMMA LatestIs ==
  ASSUME NEW n \in Nat, NEW P, P \subseteq 1..n, P # {}
  PROVE  Latest(P) \in P /\ \A j \in P : j <= Latest(P)
<1> DEFINE U == {m \in Nat : \A i \in P : i <= m}
<1>1. n \in U
  OBVIOUS
<1>2. PICK u \in U : \A m \in U : u <= m
  <2>1. U \subseteq Nat /\ U # {}
    BY <1>1
  <2> HIDE DEF U
  <2> QED BY <2>1, LeastOf
<1>3. \A m \in U : ~(m < u)
  BY <1>2
<1>4. u \in P
  <2> SUFFICES ASSUME u \notin P PROVE FALSE
    OBVIOUS
  <2>1. \A i \in P : i <= u - 1
    BY <1>2
  <2>2. PICK i \in P : TRUE
    OBVIOUS
  <2>3. i \in Nat /\ i >= 1 /\ i <= u /\ u \in Nat
    BY <1>2, <2>2
  <2>4. u - 1 \in U /\ u - 1 < u
    BY <2>1, <2>3
  <2> QED BY <2>4, <1>3
<1>5. \E i \in P : \A j \in P : j <= i
  BY <1>2, <1>4
<1> QED BY <1>5 DEF Latest

\* Overwritten where it stands or put at the back, the newer request lands,
\* except where it is undone by a Sync; those for other speakers are untouched.
LEMMA SendVolumeLands ==
  ASSUME TypeOK, NEW r \in Rooms, NEW v \in Levels, SendVolume(r, v)
  PROVE  /\ commands' \in Seq(Commands) /\ Len(commands') <= Capacity
         /\ asked' \in [Rooms -> Levels \cup {Unknown}]
         /\ AllLand /\ UNCHANGED actual => AllLand'
<1> DEFINE c == Command("Volume", r, v)
<1>1. c \in Commands /\ c.type = "Volume" /\ c.to = r /\ c.value = v
  BY CommandMakes DEF OfRoom
<1> HIDE DEF c
<1>2. /\ commands \in Seq(Commands) /\ Len(commands) <= Capacity
      /\ asked \in [Rooms -> Levels \cup {Unknown}]
  BY DEF TypeOK
<1>3. DOMAIN commands = 1..Len(commands) /\ Len(commands) \in Nat
  BY <1>2, LenProperties
<1>4. CASE ~CanReplaceLatest(commands, Capacity, Pending(r))
  <2>1. commands' = commands /\ asked' = [asked EXCEPT ![r] = Unknown]
    BY <1>4 DEF SendVolume
  <2>2. AllLand /\ UNCHANGED actual => AllLand'
    BY <2>1, <1>2 DEF AllLand, Lands
  <2> QED BY <2>1, <2>2, <1>2
<1>5. CASE CanReplaceLatest(commands, Capacity, Pending(r))
  <2> DEFINE wanted == IF UndoneBySync(r) THEN Unknown ELSE v
  <2>1. /\ commands' = ReplaceLatest(commands, Pending(r), c)
        /\ asked' = [asked EXCEPT ![r] = wanted]
    BY <1>5 DEF SendVolume, c
  <2>2. /\ asked' \in [Rooms -> Levels \cup {Unknown}]
        /\ asked'[r] = wanted /\ \A q \in Rooms : q # r => asked'[q] = asked[q]
    BY <2>1, <1>2
  <2>3. CASE Pending(r) = {}
    <3>1. commands' = Append(commands, c) /\ Len(commands) < Capacity
      BY <2>1, <2>3, <1>5 DEF ReplaceLatest, CanReplaceLatest, HasRoom
    <3>2. commands' \in Seq(Commands) /\ Len(commands') <= Capacity
      BY <3>1, <1>1, <1>2, <1>3, AppendProperties, LevelsAre
    <3>3. wanted = v
      BY <2>3 DEF UndoneBySync
    <3>4. ASSUME AllLand, UNCHANGED actual, NEW q \in Rooms
          PROVE  Lands(commands', asked'[q], actual'[q], q)
      <4>1. CASE q = r
        <5>1. Sets(c, r)
          BY <1>1 DEF Sets
        <5> QED BY <4>1, <5>1, <3>1, <3>3, <2>2, <1>1, <1>2, LandsAppended
      <4>2. CASE q # r
        <5>1. ~Sets(c, q)
          BY <4>2, <1>1 DEF Sets
        <5>2. Lands(commands, asked[q], actual[q], q)
          BY <3>4 DEF AllLand
        <5> QED BY <4>2, <5>1, <5>2, <3>1, <3>4, <2>2, <1>1, <1>2, LandsAppended
      <4> QED BY <4>1, <4>2
    <3> QED BY <3>2, <3>4, <2>2 DEF AllLand
  <2>4. CASE Pending(r) # {}
    <3> DEFINE k == Latest(Pending(r))
    <3>1. k \in Pending(r) /\ \A j \in Pending(r) : j <= k
      <4>1. Pending(r) \subseteq 1..Len(commands)
        BY <1>3 DEF Pending
      <4> QED BY <4>1, <2>4, <1>3, LatestIs
    <3>2. k \in 1..Len(commands) /\ commands[k].type = "Volume" /\ commands[k].to = r
      BY <3>1, <1>3 DEF Pending
    <3>3. commands' = [commands EXCEPT ![k] = c]
      BY <2>1, <2>4 DEF ReplaceLatest
    <3> HIDE DEF k
    <3>4. /\ commands' \in Seq(Commands) /\ Len(commands') = Len(commands)
          /\ \A j \in 1..Len(commands) :
               commands'[j] = IF j = k THEN c ELSE commands[j]
      BY <3>2, <3>3, <1>1, <1>2, ExceptSeq
    <3>5. DOMAIN commands' = DOMAIN commands
      BY <3>4, <1>3, LenProperties
    <3>6. ASSUME AllLand, UNCHANGED actual, NEW q \in Rooms
          PROVE  Lands(commands', asked'[q], actual'[q], q)
      <4>1. CASE q = r
        <5>1. CASE UndoneBySync(r)
          BY <5>1, <4>1, <2>2 DEF Lands
        <5>2. CASE ~UndoneBySync(r)
          <6>1. k \in DOMAIN commands' /\ Sets(commands'[k], r) /\ commands'[k].value = v
            BY <3>2, <3>4, <3>5, <1>1, <1>3 DEF Sets
          <6>2. \A j \in DOMAIN commands' : k < j => ~Sets(commands'[j], r)
            <7> SUFFICES ASSUME NEW j \in DOMAIN commands', k < j
                         PROVE  ~Sets(commands'[j], r)
              OBVIOUS
            <7>1. j \in DOMAIN commands /\ j # k /\ ~(j <= k)
              BY <3>2, <3>5, <1>3
            <7>2. j \notin Pending(r)
              BY <3>1, <7>1
            <7>3. commands[j].type # "Sync"
              BY <3>1, <5>2, <7>1 DEF UndoneBySync
            <7>4. commands'[j] = commands[j]
              BY <3>4, <7>1, <1>3
            <7> QED BY <7>1, <7>2, <7>3, <7>4 DEF Pending, Sets
          <6> QED BY <6>1, <6>2, <5>2, <4>1, <2>2 DEF Lands
        <5> QED BY <5>1, <5>2
      <4>2. CASE q # r
        <5>1. \A j \in DOMAIN commands' :
                /\ Sets(commands'[j], q) <=> Sets(commands[j], q)
                /\ Sets(commands[j], q) => commands'[j] = commands[j]
          BY <4>2, <3>2, <3>4, <3>5, <1>1, <1>3 DEF Sets
        <5>2. Lands(commands, asked[q], actual[q], q) /\ asked'[q] = asked[q]
              /\ actual'[q] = actual[q]
          BY <3>6, <4>2, <2>2 DEF AllLand
        <5> QED BY <5>1, <5>2, <3>5 DEF Lands
      <4> QED BY <4>1, <4>2
    <3> QED BY <3>4, <3>6, <2>2, <1>2 DEF AllLand
  <2> QED BY <2>3, <2>4
<1> QED BY <1>4, <1>5
-----------------------------------------------------------------------------
(* The steps *)

\* The part of the type invariant about what is on display.
ViewOK ==
  /\ group \in Groups /\ room \in MembersOf(group) /\ groupTarget \in BOOLEAN
  /\ shown \in Levels \cup {Unknown}
  /\ snapshot \in [group : Groups, volume : Levels, relative : BOOLEAN,
                   received : BOOLEAN]
  /\ known \in [Rooms -> Levels \cup {Unknown}]
  /\ feedback \in BOOLEAN
  /\ screen \in {"NowPlaying", "Speakers"}

\* Steps that at most ask for volumes to be read or changed by a difference.
Asks == UNCHANGED commands \/ \E list \in Seq(Reading) : Send(list)

LEMMA AsksType ==
  ASSUME TypeOK, Asks
  PROVE  /\ commands' \in Seq(Commands) /\ Len(commands') <= Capacity
         /\ AllLand /\ UNCHANGED <<actual, asked>> => AllLand'
<1>1. commands \in Seq(Commands) /\ Len(commands) <= Capacity
  BY DEF TypeOK
<1>2. CASE UNCHANGED commands
  BY <1>1, <1>2 DEF AllLand, Lands
<1>3. ASSUME NEW list \in Seq(Reading), Send(list)
      PROVE  /\ commands' \in Seq(Commands) /\ Len(commands') <= Capacity
             /\ AllLand /\ UNCHANGED <<actual, asked>> => AllLand'
  <2>1. list \in Seq(Commands) /\ commands' = Accepted(commands, list)
    BY <1>3, SeqMonotonic DEF Reading, Send
  <2>2. commands' \in Seq(Commands) /\ Len(commands') <= Capacity
    BY <2>1, <1>1, AcceptedType
  <2>3. ASSUME AllLand, UNCHANGED <<actual, asked>>, NEW r \in Rooms
        PROVE  Lands(commands', asked'[r], actual'[r], r)
    BY <2>1, <2>3, <1>1, LandsMore DEF AllLand
  <2> QED BY <2>2, <2>3 DEF AllLand
<1> QED BY <1>2, <1>3 DEF Asks

LEMMA ViewTypes == TypeOK => /\ ViewOK /\ room \in Rooms /\ MembersOf(group) \subseteq Rooms
                             /\ Target \in Rooms
                             /\ snapshot.volume \in Levels /\ snapshot.relative \in BOOLEAN
                             /\ SnapshotVolume \in Levels \cup {Unknown}
                             /\ shown \in Int
                             /\ \A r \in Rooms : known[r] \in Levels \cup {Unknown}
<1> SUFFICES ASSUME TypeOK
             PROVE  /\ ViewOK /\ room \in Rooms /\ MembersOf(group) \subseteq Rooms
                    /\ Target \in Rooms
                    /\ snapshot.volume \in Levels /\ snapshot.relative \in BOOLEAN
                    /\ SnapshotVolume \in Levels \cup {Unknown}
                    /\ shown \in Int
                    /\ \A r \in Rooms : known[r] \in Levels \cup {Unknown}
  OBVIOUS
<1>1. ViewOK
  BY DEF TypeOK, ViewOK
<1>2. room \in Rooms /\ MembersOf(group) \subseteq Rooms
      /\ Coordinator[group] \in MembersOf(group)
  BY <1>1, HouseholdType DEF ViewOK
<1>3. Target \in Rooms
  BY <1>2 DEF Target
<1>4. snapshot.volume \in Levels /\ snapshot.relative \in BOOLEAN
  BY <1>1 DEF ViewOK
<1>5. SnapshotVolume \in Levels \cup {Unknown}
  BY <1>4 DEF SnapshotVolume
<1>6. shown \in Int
  BY <1>1, LevelsAre DEF ViewOK
<1>7. \A r \in Rooms : known[r] \in Levels \cup {Unknown}
  BY <1>1 DEF ViewOK
<1> QED BY <1>1, <1>2, <1>3, <1>4, <1>5, <1>6, <1>7

LEMMA ReadFirstKeeps ==
  ASSUME TypeOK, ReadFirst
  PROVE  ViewOK' /\ Asks /\ UNCHANGED asked /\ (CardShowsTarget => CardShowsTarget')
<1>1. ViewOK /\ room \in Rooms /\ snapshot.volume \in Levels /\ group \in Groups
  BY ViewTypes DEF ViewOK
<1>2. UNCHANGED <<group, room, groupTarget, snapshot, known, feedback, screen, asked>>
  BY DEF ReadFirst
<1>3. CASE groupTarget
  <2>1. \/ UNCHANGED commands /\ shown' = snapshot.volume
        \/ Send(Poll(group)) /\ UNCHANGED shown
    BY <1>3 DEF ReadFirst, RequestSpeakerVolume
  <2>2. Asks
    BY <2>1, <1>1, ReadingMakes DEF Asks
  <2>3. shown' \in Levels \cup {Unknown}
    BY <2>1, <1>1 DEF ViewOK
  <2> QED BY <2>2, <2>3, <1>1, <1>2, <1>3 DEF ViewOK, CardShowsTarget
<1>4. CASE ~groupTarget
  <2>1. Send(<<Command("Get", room, 0)>>) /\ UNCHANGED shown
    BY <1>4 DEF ReadFirst, RequestSpeakerVolume
  <2>2. Asks
    BY <2>1, <1>1, ReadingMakes DEF Asks
  <2> QED BY <2>1, <2>2, <1>1, <1>2 DEF ViewOK, CardShowsTarget
<1>5. groupTarget \in BOOLEAN
  BY <1>1 DEF ViewOK
<1> QED BY <1>3, <1>4, <1>5

LEMMA SetTargetKeeps ==
  ASSUME TypeOK, NEW v \in Levels, SetTarget(v)
  PROVE  /\ ViewOK' /\ (CardShowsTarget => CardShowsTarget')
         /\ \E r \in Rooms : SendVolume(r, v)
<1>1. ViewOK /\ Target \in Rooms
  BY ViewTypes
<1>2. /\ shown' = v /\ known' = [known EXCEPT ![Target] = v] /\ feedback' = TRUE
      /\ SendVolume(Target, v)
      /\ UNCHANGED <<group, room, groupTarget, snapshot, screen>>
  BY DEF SetTarget
<1>3. known' \in [Rooms -> Levels \cup {Unknown}] /\ known'[Target] = v
  BY <1>1, <1>2 DEF ViewOK
<1>4. ViewOK'
  BY <1>1, <1>2, <1>3 DEF ViewOK
<1>5. CardShowsTarget'
  BY <1>2, <1>3 DEF CardShowsTarget, Target
<1> QED BY <1>1, <1>2, <1>4, <1>5

LEMMA AdjustGroupKeeps ==
  ASSUME TypeOK, NEW v \in Levels, groupTarget, AdjustGroup(v)
  PROVE  ViewOK' /\ Asks /\ UNCHANGED asked /\ CardShowsTarget'
<1>1. ViewOK /\ shown \in Int /\ group \in Groups /\ v \in Int
  BY ViewTypes, LevelsAre DEF ViewOK
<1>2. /\ shown' = v /\ snapshot' = [snapshot EXCEPT !.volume = v] /\ feedback' = TRUE
      /\ Send(<<Command("Adjust", group, v - shown)>>)
      /\ UNCHANGED <<group, room, groupTarget, known, screen, asked>>
  BY DEF AdjustGroup
<1>3. Asks
  <2>1. v - shown \in Int
    BY <1>1
  <2> QED BY <2>1, <1>1, <1>2, ReadingMakes DEF Asks
<1>4. snapshot' \in [group : Groups, volume : Levels, relative : BOOLEAN,
                    received : BOOLEAN]
  BY <1>1, <1>2 DEF ViewOK
<1> QED BY <1>1, <1>2, <1>3, <1>4 DEF ViewOK, CardShowsTarget

LEMMA FocusKeeps ==
  ASSUME TypeOK, NEW r \in MembersOf(group), NEW list, Focus(r, list),
         list = <<>> \/ list = Reads(group), screen' \in {"NowPlaying", "Speakers"}
  PROVE  ViewOK' /\ Asks /\ UNCHANGED asked /\ CardShowsTarget'
<1>1. ViewOK /\ r \in Rooms /\ known[r] \in Levels \cup {Unknown} /\ group \in Groups
  BY ViewTypes DEF ViewOK
<1>2. /\ groupTarget' = FALSE /\ room' = r /\ shown' = known[r]
      /\ Send(list \o <<Command("Get", r, 0)>>)
      /\ UNCHANGED <<group, snapshot, known, feedback, asked>>
  BY DEF Focus
<1>3. Asks
  BY <1>1, <1>2, ReadingMakes DEF Asks
<1> QED BY <1>1, <1>2, <1>3 DEF ViewOK, CardShowsTarget

LEMMA SelectKeeps ==
  ASSUME TypeOK, NEW g \in Groups, Select(g), screen' \in {"NowPlaying", "Speakers"}
  PROVE  ViewOK' /\ Asks /\ UNCHANGED asked /\ CardShowsTarget'
<1>1. ViewOK /\ SnapshotVolume \in Levels \cup {Unknown}
  BY ViewTypes
<1>2. /\ group' = g /\ groupTarget' = TRUE
      /\ room' \in IF room \in MembersOf(g) THEN {room} ELSE MembersOf(g)
      /\ shown' = IF g = group THEN SnapshotVolume ELSE Unknown
      /\ Send(Poll(g) \o Reads(g))
      /\ UNCHANGED <<snapshot, known, feedback, asked>>
  BY DEF Select
<1>3. Asks
  BY <1>2, ReadingMakes DEF Asks
<1>4. room' \in MembersOf(group')
  BY <1>2
<1> QED BY <1>1, <1>2, <1>3, <1>4 DEF ViewOK, CardShowsTarget

\* What every step keeps: a step that only asks, a button's new number for one
\* speaker or for all of them, or the worker.
Kept == TypeOK' /\ (CardShowsTarget => CardShowsTarget') /\ (AllLand => AllLand')

LEMMA AskingKeeps ==
  ASSUME TypeOK, ViewOK', Asks, UNCHANGED <<actual, asked>>,
         results' \in Seq(Answers), Len(results') <= ResultCapacity,
         presses' \in 0..MaxActs, events' \in 0..MaxEvents,
         CardShowsTarget => CardShowsTarget'
  PROVE  Kept
<1>1. /\ commands' \in Seq(Commands) /\ Len(commands') <= Capacity
      /\ AllLand => AllLand'
  BY AsksType
<1> QED BY <1>1 DEF Kept, TypeOK, ViewOK

LEMMA PressKeeps ==
  ASSUME TypeOK, Press, ViewOK', CardShowsTarget => CardShowsTarget'
  PROVE  /\ Asks /\ UNCHANGED asked => Kept
         /\ (\E r \in Rooms, v \in Levels : SendVolume(r, v)) => Kept
<1>1. /\ UNCHANGED <<actual, results, events>>
      /\ presses' \in 0..MaxActs
      /\ results' \in Seq(Answers) /\ Len(results') <= ResultCapacity
      /\ events' \in 0..MaxEvents
  BY NumbersAreNat DEF TypeOK, Press
<1>2. ASSUME Asks, UNCHANGED asked PROVE Kept
  BY <1>1, <1>2, AskingKeeps
<1>3. ASSUME NEW r \in Rooms, NEW v \in Levels, SendVolume(r, v) PROVE Kept
  <2>1. /\ commands' \in Seq(Commands) /\ Len(commands') <= Capacity
        /\ asked' \in [Rooms -> Levels \cup {Unknown}]
        /\ AllLand => AllLand'
    BY <1>1, <1>3, SendVolumeLands
  <2> QED BY <1>1, <2>1 DEF Kept, TypeOK, ViewOK
<1> QED BY <1>2, <1>3

LEMMA SetTargetIsKept ==
  ASSUME TypeOK, Press, NEW v \in Levels, SetTarget(v)
  PROVE  Kept
BY SetTargetKeeps, PressKeeps

LEMMA VolumeKeyKeeps ==
  ASSUME TypeOK, NEW direction \in {-1, 1}, VolumeKey(direction)
  PROVE  Kept
<1> DEFINE intended == ClampVolume(shown + direction * Step)
<1>1. Press
  BY DEF VolumeKey
<1>2. CASE ReadFirst
  BY <1>1, <1>2, ReadFirstKeeps, PressKeeps
<1>3. CASE shown # Unknown
  <2>1. shown \in Levels
    BY <1>3 DEF TypeOK
  <2>2. intended \in Levels
    BY <2>1, KeyType
  <2> HIDE DEF intended
  <2>3. CASE groupTarget /\ AdjustGroup(intended)
    BY <2>2, <2>3, <1>1, AdjustGroupKeeps, PressKeeps
  <2>4. CASE SetTarget(intended)
    BY <2>2, <2>4, <1>1, SetTargetIsKept
  <2>5. CASE ReadFirst
    BY <1>2, <2>5
  <2> QED BY <2>3, <2>4, <2>5 DEF VolumeKey, intended
<1> QED BY <1>2, <1>3 DEF VolumeKey

LEMMA CardKeyKeeps ==
  ASSUME TypeOK, NEW direction \in {-1, 1}, CardKey(direction)
  PROVE  Kept
<1> DEFINE intended == ClampVolume(shown + direction * Step)
<1>1. Press
  BY DEF CardKey
<1>2. CASE ReadFirst
  BY <1>1, <1>2, ReadFirstKeeps, PressKeeps
<1>3. CASE shown # Unknown /\ SetTarget(intended)
  <2>1. shown \in Levels
    BY <1>3 DEF TypeOK
  <2>2. intended \in Levels
    BY <2>1, KeyType
  <2> HIDE DEF intended
  <2> QED BY <2>2, <1>3, <1>1, SetTargetIsKept
<1> QED BY <1>2, <1>3 DEF CardKey

LEMMA MuteCardKeeps == TypeOK /\ MuteCard => Kept
<1> SUFFICES ASSUME TypeOK, MuteCard PROVE Kept
  OBVIOUS
<1>1. Press
  BY DEF MuteCard
<1>2. CASE ReadFirst
  BY <1>1, <1>2, ReadFirstKeeps, PressKeeps
<1>3. CASE ~ReadFirst
  <2>1. /\ shown # Unknown /\ known' = [known EXCEPT ![Target] = shown]
        /\ Send(<<Command("Mute", Target, 0)>>)
        /\ UNCHANGED <<group, room, groupTarget, shown, snapshot, feedback,
                       screen, asked>>
    BY <1>3 DEF MuteCard
  <2>2. ViewOK /\ Target \in Rooms /\ group \in Groups
    BY ViewTypes DEF ViewOK
  <2>3. Asks
    BY <2>1, <2>2, ReadingMakes DEF Asks
  <2>4. known' \in [Rooms -> Levels \cup {Unknown}] /\ known'[Target] = shown
    BY <2>1, <2>2 DEF ViewOK
  <2>5. ViewOK'
    BY <2>1, <2>2, <2>4 DEF ViewOK
  <2>6. CardShowsTarget'
    BY <2>1, <2>4 DEF CardShowsTarget, Target
  <2> QED BY <1>1, <2>1, <2>3, <2>5, <2>6, PressKeeps
<1> QED BY <1>2, <1>3

LEMMA MovesKeep ==
  ASSUME TypeOK, OpenSpeakers \/ MoveToCard \/ CycleVolumeTarget \/ ShowNowPlaying
                 \/ SelectGroup \/ Refresh
  PROVE  Kept
<1> USE DEF Press
<1>1. Press
  BY DEF OpenSpeakers, MoveToCard, CycleVolumeTarget, ShowNowPlaying, SelectGroup, Refresh
<1> HIDE DEF Press
<1>2. /\ ViewOK /\ room \in Rooms /\ group \in Groups /\ snapshot.volume \in Levels
      /\ SnapshotVolume \in Levels \cup {Unknown}
      /\ screen \in {"NowPlaying", "Speakers"}
  BY ViewTypes DEF ViewOK
<1>3. CASE OpenSpeakers
  <2>1. PICK r \in MembersOf(group) : Focus(r, Reads(group)) /\ screen' = "Speakers"
    BY <1>3 DEF OpenSpeakers
  <2> QED BY <2>1, <1>1, FocusKeeps, PressKeeps
<1>4. CASE MoveToCard
  <2>1. PICK r \in MembersOf(group) : Focus(r, <<>>) /\ screen' = screen
    BY <1>4 DEF MoveToCard
  <2> QED BY <2>1, <1>1, <1>2, FocusKeeps, PressKeeps
<1>5. CASE CycleVolumeTarget
  <2>1. ASSUME NEW r \in MembersOf(group), Focus(r, <<>>), screen' = screen
        PROVE  Kept
    BY <2>1, <1>1, <1>2, FocusKeeps, PressKeeps
  <2>2. ASSUME groupTarget' = TRUE, shown' = snapshot.volume, Send(Poll(group)),
               UNCHANGED <<group, room, snapshot, known, feedback, asked, screen>>
        PROVE  Kept
    <3>1. Asks
      BY <2>2, <1>2, ReadingMakes DEF Asks
    <3>2. ViewOK' /\ CardShowsTarget'
      BY <2>2, <1>2 DEF ViewOK, CardShowsTarget
    <3> QED BY <3>1, <3>2, <2>2, <1>1, PressKeeps
  <2> QED BY <2>1, <2>2, <1>5 DEF CycleVolumeTarget
<1>6. CASE ShowNowPlaying
  <2>1. /\ screen' = "NowPlaying" /\ groupTarget' = TRUE /\ shown' = SnapshotVolume
        /\ Send(Poll(group))
        /\ UNCHANGED <<group, room, snapshot, known, feedback, asked>>
    BY <1>6 DEF ShowNowPlaying
  <2>2. Asks
    BY <2>1, <1>2, ReadingMakes DEF Asks
  <2>3. ViewOK' /\ CardShowsTarget'
    BY <2>1, <1>2 DEF ViewOK, CardShowsTarget
  <2> QED BY <2>1, <2>2, <2>3, <1>1, PressKeeps
<1>7. CASE SelectGroup
  <2>1. PICK g \in Groups : Select(g) /\ screen' = "NowPlaying"
    BY <1>7 DEF SelectGroup
  <2> QED BY <2>1, <1>1, SelectKeeps, PressKeeps
<1>8. CASE Refresh
  <2>1. UNCHANGED <<group, room, groupTarget, snapshot, known, feedback, screen, asked>>
    BY <1>8 DEF Refresh
  <2>2. /\ shown' = shown \/ (groupTarget /\ shown' = snapshot.volume)
        /\ \/ Send(Reads(group)) \/ Send(Poll(group) \o <<Command("Get", room, 0)>>)
           \/ Send(Poll(group) \o <<>>) \/ Send(Poll(group) \o Poll(group))
    BY <1>8 DEF Refresh
  <2>3. Asks
    BY <2>2, <1>2, ReadingMakes DEF Asks
  <2>4. ViewOK' /\ (CardShowsTarget => CardShowsTarget')
    BY <2>1, <2>2, <1>2 DEF ViewOK, CardShowsTarget
  <2> QED BY <2>1, <2>3, <2>4, <1>1, PressKeeps
<1> QED BY <1>3, <1>4, <1>5, <1>6, <1>7, <1>8

LEMMA SyncCardsKeeps == TypeOK /\ SyncCards => Kept
<1> SUFFICES ASSUME TypeOK, SyncCards PROVE Kept
  OBVIOUS
<1>1. Press
  BY DEF SyncCards
<1>2. CASE ReadFirst
  BY <1>1, <1>2, ReadFirstKeeps, PressKeeps
<1>3. CASE ~ReadFirst
  <2> DEFINE c == Command("Sync", group, shown)
  <2>1. /\ shown # Unknown /\ HasRoom(commands, Capacity) /\ Send(<<c>>)
        /\ known' = [r \in Rooms |->
                       IF r \in MembersOf(group) /\ known[r] # Unknown
                       THEN shown ELSE known[r]]
        /\ asked' = [r \in Rooms |-> IF r \in MembersOf(group) THEN shown
                                     ELSE asked[r]]
        /\ feedback' = TRUE
        /\ UNCHANGED <<group, room, groupTarget, shown, snapshot, screen>>
    BY <1>3 DEF SyncCards
  <2>2. /\ ViewOK /\ room \in MembersOf(group) /\ room \in Rooms /\ group \in Groups
        /\ shown \in Levels /\ \A r \in Rooms : known[r] \in Levels \cup {Unknown}
    BY <2>1, ViewTypes DEF ViewOK
  <2>3. c \in Commands /\ c.type = "Sync" /\ c.to = group /\ c.value = shown
    BY <2>2, CommandMakes
  <2> HIDE DEF c
  <2>4. commands \in Seq(Commands) /\ Len(commands) < Capacity
        /\ asked \in [Rooms -> Levels \cup {Unknown}]
    BY <2>1 DEF TypeOK, HasRoom
  <2>5. commands' = Append(commands, c)
    <3>1. <<c>> \in Seq(Commands) /\ Len(<<c>>) = 1
      BY <2>3
    <3>2. Len(commands) <= Capacity /\ 1 <= Capacity - Len(commands)
      BY <2>4, LevelsAre, LenProperties
    <3>3. commands' = commands \o <<c>>
      BY <2>1, <2>4, <3>1, <3>2, AcceptedType DEF Send
    <3> QED BY <2>3, <2>4, <3>3, AppendIsConcat
  <2>6. commands' \in Seq(Commands) /\ Len(commands') <= Capacity
    <3>1. Len(commands') = Len(commands) + 1 /\ commands' \in Seq(Commands)
      BY <2>3, <2>4, <2>5, AppendProperties
    <3> QED BY <3>1, <2>4, LevelsAre, LenProperties
  <2>7. known' \in [Rooms -> Levels \cup {Unknown}]
        /\ asked' \in [Rooms -> Levels \cup {Unknown}]
    BY <2>1, <2>2, <2>4
  <2>8. ViewOK'
    BY <2>1, <2>2, <2>7 DEF ViewOK
  <2>9. CardShowsTarget => CardShowsTarget'
    BY <2>1, <2>2 DEF CardShowsTarget
  <2>10. ASSUME AllLand PROVE AllLand'
    <3> SUFFICES ASSUME NEW r \in Rooms
                 PROVE  Lands(commands', asked'[r], actual'[r], r)
      BY DEF AllLand
    <3>1. Lands(commands, asked[r], actual[r], r) /\ actual' = actual
      BY <2>10, <1>1 DEF AllLand, Press
    <3>2. /\ Sets(c, r) <=> r \in MembersOf(group)
      BY <2>3 DEF Sets
    <3>3. CASE r \in MembersOf(group)
      <4>1. asked'[r] = c.value
        BY <2>1, <2>3, <3>3
      <4> QED BY <4>1, <3>2, <3>3, <2>3, <2>4, <2>5, LandsAppended
    <3>4. CASE r \notin MembersOf(group)
      <4>1. asked'[r] = asked[r]
        BY <2>1, <3>4
      <4> QED BY <4>1, <3>1, <3>2, <3>4, <2>3, <2>4, <2>5, LandsAppended
    <3> QED BY <3>3, <3>4
  <2>11. /\ UNCHANGED <<actual, results, events>> /\ presses' \in 0..MaxActs
         /\ results' \in Seq(Answers) /\ Len(results') <= ResultCapacity
         /\ events' \in 0..MaxEvents /\ actual' \in [Rooms -> Levels]
    BY <1>1, NumbersAreNat DEF TypeOK, Press
  <2> QED BY <2>6, <2>7, <2>8, <2>9, <2>10, <2>11 DEF Kept, TypeOK, ViewOK
<1> QED BY <1>2, <1>3
-----------------------------------------------------------------------------
(* The worker *)

LEMMA EventType ==
  ASSUME TypeOK, Undisturbed \/ (Event /\ UNCHANGED view)
  PROVE  UNCHANGED view /\ presses' \in 0..MaxActs /\ events' \in 0..MaxEvents
BY NumbersAreNat DEF TypeOK, Undisturbed, Event

LEMMA HeadType ==
  ASSUME TypeOK, commands # <<>>
  PROVE  Head(commands) \in Commands /\ commands \in Seq(Commands)
BY HeadTailProperties DEF TypeOK

LEMMA ReplyType ==
  ASSUME TypeOK, commands # <<>>, NEW success \in BOOLEAN, NEW v \in Levels,
         NEW relative \in BOOLEAN, Reply(success, v, relative)
  PROVE  results' \in Seq(Answers) /\ Len(results') <= ResultCapacity
<1> DEFINE a == [type |-> Head(commands).type, from |-> Head(commands).to,
                 success |-> success, value |-> v, relative |-> relative]
<1>1. a \in Answers
  BY HeadType, AnswerMakes
<1>2. results' = PushIfRoom(results, ResultCapacity, a)
  BY DEF Reply
<1> HIDE DEF a
<1>3. results \in Seq(Answers) /\ Len(results) <= ResultCapacity /\ Len(results) \in Nat
  BY LenProperties DEF TypeOK
<1>4. CASE HasRoom(results, ResultCapacity)
  <2>1. results' = Append(results, a)
    BY <1>2, <1>4 DEF PushIfRoom
  <2>2. results' \in Seq(Answers) /\ Len(results') = Len(results) + 1
    BY <2>1, <1>1, <1>3, AppendProperties
  <2> QED BY <2>2, <1>3, <1>4, LevelsAre DEF HasRoom
<1>5. CASE ~HasRoom(results, ResultCapacity)
  BY <1>2, <1>3, <1>5 DEF PushIfRoom
<1> QED BY <1>4, <1>5

\* A command is done: rooms it does not set keep what they have, or nothing is
\* known of what was asked for them.
LEMMA WorkKeeps ==
  ASSUME TypeOK, commands # <<>>, commands' = Tail(commands),
         NEW success \in BOOLEAN, NEW v \in Levels, NEW relative \in BOOLEAN,
         Reply(success, v, relative), Undisturbed \/ (Event /\ UNCHANGED view),
         actual' \in [Rooms -> Levels], asked' \in [Rooms -> Levels \cup {Unknown}],
         \A r \in Rooms :
           \/ asked'[r] = Unknown
           \/ /\ asked'[r] = asked[r]
              /\ Sets(Head(commands), r) => actual'[r] = Head(commands).value
              /\ ~Sets(Head(commands), r) => actual'[r] = actual[r]
  PROVE  Kept
<1>1. /\ UNCHANGED view /\ presses' \in 0..MaxActs /\ events' \in 0..MaxEvents
      /\ results' \in Seq(Answers) /\ Len(results') <= ResultCapacity
  BY EventType, ReplyType
<1>2. commands' \in Seq(Commands) /\ Len(commands') <= Capacity
  <2>1. commands \in Seq(Commands) /\ Len(commands) <= Capacity /\ Len(commands) \in Nat
    BY LenProperties DEF TypeOK
  <2>2. Tail(commands) \in Seq(Commands) /\ Len(Tail(commands)) = Len(commands) - 1
    BY <2>1, HeadTailProperties
  <2> QED BY <2>1, <2>2, LevelsAre
<1>3. TypeOK'
  BY <1>1, <1>2 DEF TypeOK, view
<1>4. CardShowsTarget => CardShowsTarget'
  BY <1>1 DEF CardShowsTarget, view
<1>5. ASSUME AllLand PROVE AllLand'
  <2> SUFFICES ASSUME NEW r \in Rooms
               PROVE  Lands(commands', asked'[r], actual'[r], r)
    BY DEF AllLand
  <2>1. Lands(commands, asked[r], actual[r], r) /\ commands \in Seq(Commands)
    BY <1>5, HeadType DEF AllLand
  <2>2. CASE asked'[r] = Unknown
    BY <2>2 DEF Lands
  <2>3. CASE asked'[r] = asked[r] /\ Sets(Head(commands), r)
             /\ actual'[r] = Head(commands).value
    BY <2>1, <2>3, LandsTaken
  <2>4. CASE asked'[r] = asked[r] /\ ~Sets(Head(commands), r) /\ actual'[r] = actual[r]
    BY <2>1, <2>4, LandsTaken
  <2> QED BY <2>2, <2>3, <2>4
<1> QED BY <1>3, <1>4, <1>5 DEF Kept

LEMMA ReadsKeep ==
  ASSUME TypeOK, PollDone \/ TopologyDone \/ GetDone \/ MuteDone
  PROVE  Kept
<1>1. /\ commands # <<>> /\ commands' = Tail(commands) /\ UNCHANGED <<actual, asked>>
      /\ Head(commands).type \in {"Poll", "Topology", "Get", "Mute"}
  BY DEF PollDone, TopologyDone, GetDone, MuteDone, Taken
<1>2. /\ Head(commands) \in Commands /\ 0 \in Levels
      /\ actual \in [Rooms -> Levels] /\ asked \in [Rooms -> Levels \cup {Unknown}]
      /\ \A r \in Rooms : ~Sets(Head(commands), r)
  BY <1>1, HeadType, LevelsAre DEF TypeOK, Sets
<1>3. ASSUME NEW success \in BOOLEAN, NEW v \in Levels, NEW relative \in BOOLEAN,
             Reply(success, v, relative), Undisturbed \/ (Event /\ UNCHANGED view)
      PROVE  Kept
  BY <1>1, <1>2, <1>3, WorkKeeps
<1>4. CASE PollDone
  <2>1. Head(commands).to \in Groups
    BY <1>2, <1>4, CommandParts DEF PollDone, Taken, OfRoom
  <2>2. GroupVolume(Head(commands).to) \in Levels
    BY <2>1, <1>2, GroupVolumeType
  <2>3. PICK relative \in BOOLEAN : relative <=> Head(commands).to \in Relative
    OBVIOUS
  <2>4. \/ Reply(TRUE, GroupVolume(Head(commands).to), relative) /\ Undisturbed
        \/ Reply(TRUE, 0, FALSE) /\ Event /\ UNCHANGED view
        \/ Reply(FALSE, 0, FALSE) /\ Event /\ UNCHANGED view
    BY <2>3, <1>4, Zenon DEF PollDone
  <2>5. TRUE \in BOOLEAN /\ FALSE \in BOOLEAN
    OBVIOUS
  <2> QED BY <2>2, <2>4, <2>5, <1>2, <1>3
<1>5. CASE TopologyDone
  BY <1>2, <1>3, <1>5 DEF TopologyDone
<1>6. CASE GetDone
  <2>1. Head(commands).to \in Rooms
    BY <1>2, <1>6, CommandParts DEF GetDone, Taken, OfRoom
  <2>2. actual[Head(commands).to] \in Levels
    BY <2>1, <1>2
  <2>3. \/ Reply(TRUE, actual[Head(commands).to], FALSE) /\ Undisturbed
        \/ Reply(FALSE, 0, FALSE) /\ Event /\ UNCHANGED view
    BY <1>6 DEF GetDone
  <2>4. TRUE \in BOOLEAN /\ FALSE \in BOOLEAN
    OBVIOUS
  <2> QED BY <2>2, <2>3, <2>4, <1>2, <1>3
<1>7. CASE MuteDone
  BY <1>2, <1>3, <1>7 DEF MuteDone
<1> QED BY <1>1, <1>4, <1>5, <1>6, <1>7

LEMMA VolumeDoneKeeps == TypeOK /\ VolumeDone => Kept
<1> SUFFICES ASSUME TypeOK, VolumeDone PROVE Kept
  OBVIOUS
<1> DEFINE c == Head(commands)
           obeyed == [actual EXCEPT ![c.to] = c.value]
<1>1. commands # <<>> /\ commands' = Tail(commands) /\ c.type = "Volume"
  BY DEF VolumeDone, Taken
<1>2. c \in Commands /\ c.to \in Rooms /\ c.value \in Levels
  BY <1>1, HeadType, CommandParts DEF OfRoom
<1>3. /\ actual \in [Rooms -> Levels] /\ asked \in [Rooms -> Levels \cup {Unknown}]
      /\ 0 \in Levels
  BY LevelsAre DEF TypeOK
<1>4. \A r \in Rooms : Sets(c, r) <=> r = c.to
  BY <1>1 DEF Sets
<1>5. obeyed \in [Rooms -> Levels]
      /\ \A r \in Rooms : obeyed[r] = IF r = c.to THEN c.value ELSE actual[r]
  BY <1>2, <1>3
<1>6. CASE /\ actual' = obeyed /\ Reply(TRUE, 0, FALSE) /\ Undisturbed
           /\ UNCHANGED asked
  <2>1. actual' \in [Rooms -> Levels] /\ asked' \in [Rooms -> Levels \cup {Unknown}]
        /\ \A r \in Rooms : /\ asked'[r] = asked[r]
                            /\ Sets(c, r) => actual'[r] = c.value
                            /\ ~Sets(c, r) => actual'[r] = actual[r]
    BY <1>3, <1>4, <1>5, <1>6
  <2> QED BY <2>1, <1>1, <1>3, <1>6, WorkKeeps
<1>7. CASE /\ Event /\ actual' \in {actual, obeyed} /\ Reply(FALSE, 0, FALSE)
           /\ asked' = [asked EXCEPT ![c.to] = Unknown] /\ UNCHANGED view
  <2>1. actual' \in [Rooms -> Levels] /\ asked' \in [Rooms -> Levels \cup {Unknown}]
    BY <1>2, <1>3, <1>5, <1>7
  <2>2. \A r \in Rooms :
          \/ asked'[r] = Unknown
          \/ /\ asked'[r] = asked[r]
             /\ Sets(c, r) => actual'[r] = c.value
             /\ ~Sets(c, r) => actual'[r] = actual[r]
    BY <1>2, <1>3, <1>4, <1>5, <1>7
  <2> QED BY <2>1, <2>2, <1>1, <1>3, <1>7, WorkKeeps
<1> QED BY <1>6, <1>7 DEF VolumeDone

LEMMA AdjustDoneKeeps == TypeOK /\ AdjustDone => Kept
<1> SUFFICES ASSUME TypeOK, AdjustDone PROVE Kept
  OBVIOUS
<1> DEFINE c == Head(commands)
           rooms == MembersOf(c.to)
           moved == [r \in Rooms |->
                       IF r \in rooms THEN ClampVolume(actual[r] + c.value)
                       ELSE actual[r]]
<1>1. commands # <<>> /\ commands' = Tail(commands) /\ c.type = "Adjust"
  BY DEF AdjustDone, Taken
<1>2. c \in Commands /\ c.value \in Int
  BY <1>1, HeadType, CommandParts
<1>3. /\ actual \in [Rooms -> Levels] /\ asked \in [Rooms -> Levels \cup {Unknown}]
      /\ 0 \in Levels
  BY LevelsAre DEF TypeOK
<1>4. \A r \in Rooms : ~Sets(c, r)
  BY <1>1 DEF Sets
<1>5. moved \in [Rooms -> Levels]
      /\ \A r \in Rooms : r \notin rooms => moved[r] = actual[r]
  <2>1. ASSUME NEW r \in Rooms PROVE ClampVolume(actual[r] + c.value) \in Levels
    <3> DEFINE v == actual[r] + c.value
    <3>1. v \in Int
      <4>1. actual[r] \in Levels
        BY <1>3
      <4>2. actual[r] \in Int
        BY <4>1, LevelsAre
      <4> QED BY <4>2, <1>2
    <3> HIDE DEF v
    <3>2. ClampVolume(v) \in Levels
      BY <3>1, ClampType
    <3> QED BY <3>2 DEF v
  <2> QED BY <2>1, <1>3
<1>6. /\ actual' \in {actual, moved}
      /\ \E success \in BOOLEAN :
           Reply(success, 0, FALSE) /\ (Undisturbed \/ (Event /\ UNCHANGED view))
      /\ asked' = [r \in Rooms |-> IF r \in rooms THEN Unknown ELSE asked[r]]
  BY DEF AdjustDone
<1>7. actual' \in [Rooms -> Levels] /\ asked' \in [Rooms -> Levels \cup {Unknown}]
  BY <1>3, <1>5, <1>6
<1>8. \A r \in Rooms :
        \/ asked'[r] = Unknown
        \/ /\ asked'[r] = asked[r]
           /\ Sets(c, r) => actual'[r] = c.value
           /\ ~Sets(c, r) => actual'[r] = actual[r]
  BY <1>3, <1>4, <1>5, <1>6
<1> HIDE DEF moved, rooms
<1> QED BY <1>1, <1>3, <1>6, <1>7, <1>8, WorkKeeps

LEMMA SyncDoneKeeps == TypeOK /\ SyncDone => Kept
<1> SUFFICES ASSUME TypeOK, SyncDone PROVE Kept
  OBVIOUS
<1> DEFINE c == Head(commands)
           list == Members[c.to]
           set(n) == {list[i] : i \in 1..n}
           after(rooms) == [r \in Rooms |-> IF r \in rooms THEN c.value ELSE actual[r]]
<1>1. commands # <<>> /\ commands' = Tail(commands) /\ c.type = "Sync"
  BY DEF SyncDone, Taken
<1>2. c \in Commands /\ c.to \in Groups /\ c.value \in Levels
  BY <1>1, HeadType, CommandParts DEF OfRoom
<1>3. /\ actual \in [Rooms -> Levels] /\ asked \in [Rooms -> Levels \cup {Unknown}]
      /\ 0 \in Levels
  BY LevelsAre DEF TypeOK
<1>4. \A r \in Rooms : Sets(c, r) <=> r \in set(Len(list))
  <2>1. DOMAIN list = 1..Len(list)
    BY <1>2, HouseholdType, LenProperties
  <2> QED BY <2>1, <1>1 DEF Sets, MembersOf
<1>5. ASSUME NEW rooms
      PROVE  /\ after(rooms) \in [Rooms -> Levels]
             /\ \A r \in Rooms : after(rooms)[r] = IF r \in rooms THEN c.value
                                                   ELSE actual[r]
  BY <1>2, <1>3
<1>6. ASSUME NEW n \in 0..Len(list)
      PROVE  set(n) \subseteq set(Len(list))
  <2>1. Len(list) \in Nat
    BY <1>2, HouseholdType, LenProperties
  <2> QED BY <2>1
<1>7. \/ /\ actual' = after(set(Len(list))) /\ Reply(TRUE, 0, FALSE)
         /\ Undisturbed /\ UNCHANGED asked
      \/ /\ Event /\ Reply(FALSE, 0, FALSE) /\ UNCHANGED view
         /\ \E n \in 0..Len(list) : actual' = after(set(n))
         /\ asked' = [r \in Rooms |-> IF r \in set(Len(list)) THEN Unknown
                                      ELSE asked[r]]
  BY DEF SyncDone
<1> HIDE DEF set, after, c
<1>8. CASE /\ actual' = after(set(Len(list))) /\ Reply(TRUE, 0, FALSE)
           /\ Undisturbed /\ UNCHANGED asked
  <2>1. actual' \in [Rooms -> Levels] /\ asked' \in [Rooms -> Levels \cup {Unknown}]
        /\ \A r \in Rooms : /\ asked'[r] = asked[r]
                            /\ Sets(c, r) => actual'[r] = c.value
                            /\ ~Sets(c, r) => actual'[r] = actual[r]
    BY <1>3, <1>4, <1>5, <1>8
  <2> QED BY <2>1, <1>1, <1>3, <1>8, WorkKeeps DEF c
<1>9. CASE /\ Event /\ Reply(FALSE, 0, FALSE) /\ UNCHANGED view
           /\ \E n \in 0..Len(list) : actual' = after(set(n))
           /\ asked' = [r \in Rooms |-> IF r \in set(Len(list)) THEN Unknown
                                        ELSE asked[r]]
  <2>1. PICK n \in 0..Len(list) : actual' = after(set(n))
    BY <1>9
  <2>2. actual' \in [Rooms -> Levels] /\ asked' \in [Rooms -> Levels \cup {Unknown}]
    BY <2>1, <1>3, <1>5, <1>9
  <2>3. \A r \in Rooms :
          \/ asked'[r] = Unknown
          \/ /\ asked'[r] = asked[r]
             /\ Sets(c, r) => actual'[r] = c.value
             /\ ~Sets(c, r) => actual'[r] = actual[r]
    <3> SUFFICES ASSUME NEW r \in Rooms, r \notin set(Len(list))
                 PROVE  asked'[r] = asked[r] /\ ~Sets(c, r) /\ actual'[r] = actual[r]
      BY <1>9
    <3>1. r \notin set(n)
      BY <1>6
    <3> QED BY <3>1, <2>1, <1>3, <1>4, <1>5, <1>9
  <2> QED BY <2>2, <2>3, <1>1, <1>3, <1>9, WorkKeeps DEF c
<1> QED BY <1>7, <1>8, <1>9
-----------------------------------------------------------------------------
(* apply_result, and what else happens *)

LEMMA ReceivedType ==
  ASSUME TypeOK, NEW type, Received(type)
  PROVE  /\ Head(results) \in Answers /\ Head(results).type = type
         /\ results' \in Seq(Answers) /\ Len(results') <= ResultCapacity
         /\ UNCHANGED <<actual, screen, presses, events>>
         /\ presses' \in 0..MaxActs /\ events' \in 0..MaxEvents
<1>1. /\ results # <<>> /\ Head(results).type = type /\ results' = Tail(results)
      /\ UNCHANGED <<actual, screen, presses, events>>
  BY DEF Received
<1>2. results \in Seq(Answers) /\ Len(results) <= ResultCapacity /\ Len(results) \in Nat
  BY LenProperties DEF TypeOK
<1>3. /\ Head(results) \in Answers /\ Tail(results) \in Seq(Answers)
      /\ Len(Tail(results)) = Len(results) - 1
  BY <1>1, <1>2, HeadTailProperties
<1>4. Len(results') <= ResultCapacity
  BY <1>1, <1>2, <1>3, LevelsAre
<1> QED BY <1>1, <1>3, <1>4 DEF TypeOK

LEMMA ArrivalKeeps ==
  ASSUME TypeOK, NEW type, Received(type), ViewOK', Asks, UNCHANGED asked,
         CardShowsTarget => CardShowsTarget'
  PROVE  Kept
BY ReceivedType, AskingKeeps

LEMMA AnswersKeep == TypeOK /\ ApplyResult => Kept
<1> SUFFICES ASSUME TypeOK, ApplyResult PROVE Kept
  OBVIOUS
<1>1. /\ ViewOK /\ group \in Groups /\ screen \in {"NowPlaying", "Speakers"}
      /\ room \in Rooms
  BY ViewTypes DEF ViewOK
<1>2. ASSUME NEW type, Answer(type)
      PROVE  /\ Received(type)
             /\ UNCHANGED <<group, room, groupTarget, feedback, asked, screen>>
  BY <1>2 DEF Answer, Received
<1>3. ASSUME NEW type, Answer(type), UNCHANGED <<snapshot, known, shown>>
      PROVE  ViewOK' /\ (CardShowsTarget => CardShowsTarget')
  BY <1>1, <1>2, <1>3 DEF ViewOK, CardShowsTarget
<1>4. CASE PlaybackArrived
  <2> DEFINE a == Head(results)
             kept == groupTarget /\ feedback /\ shown # Unknown
  <2>1. /\ Answer("Poll") /\ UNCHANGED <<commands, known>>
        /\ \/ ~a.success /\ UNCHANGED <<snapshot, shown>>
           \/ /\ snapshot' = [group |-> a.from,
                              volume |-> IF kept THEN shown ELSE a.value,
                              relative |-> a.relative, received |-> TRUE]
              /\ shown' = IF groupTarget /\ ~kept THEN a.value ELSE shown
    BY <1>4 DEF PlaybackArrived
  <2>2. a.from \in Groups /\ a.value \in Levels /\ a.relative \in BOOLEAN
    BY <2>1, <1>2, ReceivedType, CommandParts DEF OfRoom
  <2> HIDE DEF a
  <2>3. shown \in Levels \cup {Unknown}
    BY <1>1 DEF ViewOK
  <2>4. CASE UNCHANGED <<snapshot, shown>>
    BY <2>1, <2>4, <1>2, <1>3, ArrivalKeeps DEF Asks
  <2>5. CASE /\ snapshot' = [group |-> a.from,
                             volume |-> IF kept THEN shown ELSE a.value,
                             relative |-> a.relative, received |-> TRUE]
             /\ shown' = IF groupTarget /\ ~kept THEN a.value ELSE shown
    <3>1. (IF kept THEN shown ELSE a.value) \in Levels
      BY <2>2, <2>3
    <3>2. snapshot' \in [group : Groups, volume : Levels, relative : BOOLEAN,
                         received : BOOLEAN]
      BY <3>1, <2>2, <2>5
    <3>3. shown' \in Levels \cup {Unknown} /\ (~groupTarget => shown' = shown)
      BY <2>2, <2>3, <2>5
    <3>4. ViewOK' /\ (CardShowsTarget => CardShowsTarget')
      BY <3>2, <3>3, <2>1, <1>1, <1>2 DEF ViewOK, CardShowsTarget
    <3> QED BY <3>4, <2>1, <1>2, ArrivalKeeps DEF Asks
  <2> QED BY <2>1, <2>4, <2>5
<1>5. CASE TopologyArrived
  <2>1. Received("Topology") /\ UNCHANGED screen
    BY <1>5 DEF TopologyArrived, Received
  <2>2. CASE Select(group)
    BY <2>1, <2>2, <1>1, SelectKeeps, ArrivalKeeps
  <2>3. CASE UNCHANGED <<group, room, groupTarget, shown, snapshot, known,
                         feedback, commands, asked>>
    <3>1. ViewOK' /\ (CardShowsTarget => CardShowsTarget')
      BY <2>1, <2>3, <1>1 DEF ViewOK, CardShowsTarget
    <3> QED BY <3>1, <2>1, <2>3, ArrivalKeeps DEF Asks
  <2> QED BY <2>2, <2>3, <1>5 DEF TopologyArrived
<1>6. CASE SpeakerVolumeArrived
  <2> DEFINE a == Head(results)
  <2>1. /\ Answer("Get") /\ UNCHANGED <<commands, snapshot>>
        /\ \/ UNCHANGED <<known, shown>>
           \/ /\ known' = [known EXCEPT ![a.from] = a.value]
              /\ shown' = IF ~groupTarget /\ room = a.from THEN a.value ELSE shown
    BY <1>6 DEF SpeakerVolumeArrived
  <2>2. a.from \in Rooms /\ a.value \in Levels
    BY <2>1, <1>2, ReceivedType, CommandParts DEF OfRoom
  <2> HIDE DEF a
  <2>3. CASE UNCHANGED <<known, shown>>
    BY <2>1, <2>3, <1>2, <1>3, ArrivalKeeps DEF Asks
  <2>4. CASE /\ known' = [known EXCEPT ![a.from] = a.value]
             /\ shown' = IF ~groupTarget /\ room = a.from THEN a.value ELSE shown
    <3>1. /\ known \in [Rooms -> Levels \cup {Unknown}]
          /\ shown \in Levels \cup {Unknown}
      BY <1>1 DEF ViewOK
    <3>2. /\ known' \in [Rooms -> Levels \cup {Unknown}]
          /\ known'[room] = IF room = a.from THEN a.value ELSE known[room]
          /\ shown' \in Levels \cup {Unknown}
      BY <3>1, <2>2, <2>4, <1>1
    <3>3. ViewOK' /\ (CardShowsTarget => CardShowsTarget')
      BY <3>2, <2>1, <2>4, <1>1, <1>2 DEF ViewOK, CardShowsTarget
    <3> QED BY <3>3, <2>1, <1>2, ArrivalKeeps DEF Asks
  <2> QED BY <2>1, <2>3, <2>4
<1>7. CASE VolumeAcknowledged
  BY <1>2, <1>3, <1>7, ArrivalKeeps DEF VolumeAcknowledged, Asks
<1>8. CASE AdjustAcknowledged
  <2>1. Asks
    BY <1>1, <1>8, ReadingMakes DEF AdjustAcknowledged, Asks
  <2> QED BY <2>1, <1>2, <1>3, <1>8, ArrivalKeeps DEF AdjustAcknowledged
<1>9. CASE SyncAcknowledged
  <2>1. Send(Poll(group) \o Reads(group)) \/ Send(<<>> \o Reads(group))
    BY <1>9 DEF SyncAcknowledged
  <2>2. Asks
    BY <2>1, <1>1, ReadingMakes DEF Asks
  <2> QED BY <2>2, <1>2, <1>3, <1>9, ArrivalKeeps DEF SyncAcknowledged
<1>10. CASE MuteAcknowledged
  <2>1. Send(Poll(group)) \/ Send(<<>>)
    BY <1>10 DEF MuteAcknowledged
  <2>2. <<>> \in Seq(Reading)
    OBVIOUS
  <2>3. Asks
    BY <2>1, <2>2, <1>1, ReadingMakes DEF Asks
  <2> QED BY <2>3, <1>2, <1>3, <1>10, ArrivalKeeps DEF MuteAcknowledged
<1> QED BY <1>4, <1>5, <1>6, <1>7, <1>8, <1>9, <1>10 DEF ApplyResult

LEMMA OthersKeep ==
  ASSUME TypeOK, PollTimer \/ TopologyTimer \/ FeedbackEnds \/ ChangeElsewhere
                 \/ UNCHANGED vars
  PROVE  Kept
<1>1. ViewOK /\ group \in Groups
  BY ViewTypes DEF ViewOK
<1>2. /\ results \in Seq(Answers) /\ Len(results) <= ResultCapacity
      /\ presses \in 0..MaxActs /\ events \in 0..MaxEvents
      /\ commands \in Seq(Commands)
      /\ actual \in [Rooms -> Levels] /\ asked \in [Rooms -> Levels \cup {Unknown}]
  BY DEF TypeOK
<1>3. CASE PollTimer \/ TopologyTimer \/ UNCHANGED vars
  <2>1. /\ UNCHANGED <<actual, view, results, asked, presses, events>>
        /\ UNCHANGED commands \/ Send(Poll(group))
           \/ Send(<<Command("Topology", group, 0)>>)
    BY <1>3 DEF PollTimer, TopologyTimer, vars
  <2>2. Asks
    BY <2>1, <1>1, ReadingMakes DEF Asks
  <2>3. ViewOK' /\ (CardShowsTarget => CardShowsTarget')
    BY <2>1, <1>1 DEF view, ViewOK, CardShowsTarget
  <2> QED BY <2>1, <2>2, <2>3, <1>2, AskingKeeps
<1>4. CASE FeedbackEnds
  <2>1. /\ feedback' = FALSE
        /\ UNCHANGED <<actual, group, room, groupTarget, shown, snapshot, known,
                       screen, commands, results, asked, presses, events>>
    BY <1>4 DEF FeedbackEnds
  <2>2. ViewOK' /\ (CardShowsTarget => CardShowsTarget')
    BY <2>1, <1>1 DEF ViewOK, CardShowsTarget
  <2> QED BY <2>1, <2>2, <1>2, AskingKeeps DEF Asks
<1>5. CASE ChangeElsewhere
  <2>1. PICK r \in Rooms, volume \in Levels :
          /\ actual' = [actual EXCEPT ![r] = volume]
          /\ asked' = [asked EXCEPT ![r] = Unknown]
    BY <1>5 DEF ChangeElsewhere
  <2>2. UNCHANGED <<view, commands, results>> /\ Event
    BY <1>5 DEF ChangeElsewhere
  <2>3. presses' \in 0..MaxActs /\ events' \in 0..MaxEvents
    BY <2>2, EventType
  <2>4. /\ actual' \in [Rooms -> Levels] /\ asked' \in [Rooms -> Levels \cup {Unknown}]
        /\ \A q \in Rooms : asked'[q] = Unknown
                            \/ (asked'[q] = asked[q] /\ actual'[q] = actual[q])
    BY <2>1, <1>2
  <2>5. TypeOK'
    BY <2>2, <2>3, <2>4 DEF TypeOK, view
  <2>6. CardShowsTarget => CardShowsTarget'
    BY <2>2 DEF CardShowsTarget, view
  <2>7. AllLand => AllLand'
    BY <2>2, <2>4 DEF AllLand, Lands
  <2> QED BY <2>5, <2>6, <2>7 DEF Kept
<1> QED BY <1>3, <1>4, <1>5
-----------------------------------------------------------------------------
(* The theorems *)

LEMMA StartKeeps == Init => TypeOK /\ CardShowsTarget /\ AllLand
<1> SUFFICES ASSUME Init PROVE TypeOK /\ CardShowsTarget /\ AllLand
  OBVIOUS
<1>1. /\ actual = Loudness /\ group = FirstGroup /\ results = <<>>
      /\ presses = 0 /\ events = 0
  BY DEF Init
<1>2. /\ group \in Groups /\ Coordinator[FirstGroup] \in MembersOf(group)
      /\ MembersOf(group) \subseteq Rooms /\ 0 \in Levels
      /\ actual \in [Rooms -> Levels] /\ Coordinator[FirstGroup] \in Rooms
  BY <1>1, HouseholdType, LoudnessIsLevel, LevelsAre
<1>3. /\ presses \in 0..MaxActs /\ events \in 0..MaxEvents
      /\ results \in Seq(Answers) /\ Len(results) <= ResultCapacity
  BY <1>1, LevelsAre
<1>4. CASE Started
  <2>1. /\ room = Coordinator[FirstGroup] /\ groupTarget = TRUE /\ shown = Unknown
        /\ snapshot = [group |-> FirstGroup, volume |-> 0, relative |-> FALSE,
                       received |-> FALSE]
        /\ known = [r \in Rooms |-> Unknown] /\ feedback = FALSE
        /\ screen = "NowPlaying"
        /\ commands = Accepted(<<>>, Poll(FirstGroup) \o Reads(FirstGroup))
        /\ asked = [r \in Rooms |-> Unknown]
    BY <1>4 DEF Started
  <2>2. commands \in Seq(Commands) /\ Len(commands) <= Capacity
    <3>1. Poll(FirstGroup) \o Reads(FirstGroup) \in Seq(Commands)
      BY <1>1, <1>2, ReadingMakes, SeqMonotonic DEF Reading
    <3>2. <<>> \in Seq(Commands) /\ Len(<<>>) <= Capacity
      BY LevelsAre
    <3> QED BY <2>1, <3>1, <3>2, AcceptedType
  <2>3. TypeOK
    BY <1>1, <1>2, <1>3, <2>1, <2>2 DEF TypeOK
  <2> QED BY <2>1, <2>3 DEF CardShowsTarget, AllLand, Lands
<1>5. CASE Adjusting
  <2> DEFINE first == Coordinator[FirstGroup]
             lower == ClampVolume(Loudness[first] - Step)
             set == Command("Volume", first, lower)
             get == Command("Get", room, 0)
  <2>1. /\ room \in MembersOf(FirstGroup) \ {first}
        /\ groupTarget = FALSE /\ shown = Loudness[room]
        /\ snapshot = [group |-> FirstGroup, volume |-> GroupVolume(FirstGroup),
                       relative |-> FirstGroup \in Relative, received |-> TRUE]
        /\ known = [r \in Rooms |-> IF r = first THEN lower
                                    ELSE IF r \in MembersOf(FirstGroup)
                                    THEN Loudness[r] ELSE Unknown]
        /\ feedback = TRUE /\ screen = "Speakers"
        /\ commands = <<set, get>>
        /\ asked = [r \in Rooms |-> IF r = first THEN lower ELSE Unknown]
    BY <1>5 DEF Adjusting
  <2>2. room \in Rooms /\ room \in MembersOf(group) /\ room # first
        /\ first \in Rooms /\ Loudness \in [Rooms -> Levels]
    BY <1>1, <1>2, <2>1, LoudnessIsLevel
  <2>3. lower \in Levels
    <3>1. Loudness[first] \in Levels
      BY <2>2
    <3> DEFINE v == Loudness[first] - Step
    <3>2. v \in Int
      <4>1. Step \in Int /\ \A level \in Levels : level \in Int
        BY LevelsAre
      <4>2. Loudness[first] \in Int
        BY <3>1, <4>1
      <4> QED BY <4>1, <4>2
    <3> HIDE DEF v
    <3>3. ClampVolume(v) \in Levels
      BY <3>2, ClampType
    <3> QED BY <3>3 DEF v
  <2>4. /\ set \in Commands /\ set.type = "Volume" /\ set.to = first
        /\ set.value = lower
        /\ get \in Commands /\ get.type = "Get"
    BY <1>2, <2>2, <2>3, CommandMakes DEF OfRoom
  <2> HIDE DEF lower, set, get
  <2>5. snapshot \in [group : Groups, volume : Levels, relative : BOOLEAN,
                      received : BOOLEAN]
    <3>1. GroupVolume(FirstGroup) \in Levels
      BY <1>1, <1>2, GroupVolumeType
    <3>2. PICK relative \in BOOLEAN : relative <=> FirstGroup \in Relative
      OBVIOUS
    <3>3. snapshot = [group |-> FirstGroup, volume |-> GroupVolume(FirstGroup),
                      relative |-> relative, received |-> TRUE]
      BY <2>1, <3>2, Zenon
    <3> QED BY <3>1, <3>3, <1>1, <1>2
  <2>6. /\ known \in [Rooms -> Levels \cup {Unknown}] /\ known[room] = shown
        /\ asked \in [Rooms -> Levels \cup {Unknown}]
        /\ shown \in Levels
    <3>1. \A r \in Rooms : Loudness[r] \in Levels
      BY <2>2
    <3>2. known \in [Rooms -> Levels \cup {Unknown}]
      BY <3>1, <2>1, <2>3
    <3>3. asked \in [Rooms -> Levels \cup {Unknown}]
      BY <2>1, <2>3
    <3>4. shown \in Levels /\ known[room] = shown
      BY <3>1, <1>1, <2>1, <2>2
    <3> QED BY <3>2, <3>3, <3>4
  <2>7. commands \in Seq(Commands) /\ Len(commands) = 2 /\ Len(commands) <= Capacity
    BY <2>1, <2>4, LevelsAre
  <2>8. TypeOK
    BY <1>1, <1>2, <1>3, <2>1, <2>2, <2>5, <2>6, <2>7 DEF TypeOK
  <2>9. ASSUME NEW r \in Rooms
        PROVE  Lands(commands, asked[r], actual[r], r)
    <3>1. CASE r # first
      BY <3>1, <2>1 DEF Lands
    <3>2. CASE r = first
      <4>1. DOMAIN commands = 1..2 /\ commands[1] = set /\ commands[2] = get
        BY <2>1
      <4>2. Sets(commands[1], r) /\ ~Sets(commands[2], r)
            /\ commands[1].value = asked[r]
        BY <4>1, <3>2, <2>1, <2>2, <2>4 DEF Sets
      <4> QED BY <4>1, <4>2 DEF Lands
    <3> QED BY <3>1, <3>2
  <2> QED BY <2>6, <2>8, <2>9 DEF CardShowsTarget, AllLand
<1> QED BY <1>4, <1>5 DEF Init

LEMMA StepKeeps == TypeOK /\ [Next]_vars => Kept
<1> SUFFICES ASSUME TypeOK, [Next]_vars PROVE Kept
  OBVIOUS
<1>1. CASE User
  BY <1>1, VolumeKeyKeeps, CardKeyKeeps, MuteCardKeeps, SyncCardsKeeps, MovesKeep
     DEF User
<1>2. CASE Worker
  BY <1>2, ReadsKeep, VolumeDoneKeeps, AdjustDoneKeeps, SyncDoneKeeps DEF Worker
<1>3. CASE ApplyResult
  BY <1>3, AnswersKeep
<1>4. CASE PollTimer \/ TopologyTimer \/ FeedbackEnds \/ ChangeElsewhere
           \/ UNCHANGED vars
  BY <1>4, OthersKeep
<1> QED BY <1>1, <1>2, <1>3, <1>4 DEF Next

\* The variables keep their types, and neither queue outgrows its capacity.
THEOREM TypeCorrect == Spec => []TypeOK
<1>1. Init => TypeOK
  BY StartKeeps
<1>2. TypeOK /\ [Next]_vars => TypeOK'
  BY StepKeeps DEF Kept
<1> QED BY <1>1, <1>2, PTL DEF Spec

\* The number the keys count from is the one on the target's card: an answer for
\* another room, a Sync, a mute or a change of the group never separates the two.
THEOREM CardAndTargetAgree == Spec => []CardShowsTarget
<1>1. Init => CardShowsTarget
  BY StartKeeps
<1>2. TypeOK /\ CardShowsTarget /\ [Next]_vars => CardShowsTarget'
  BY StepKeeps DEF Kept
<1> QED BY <1>1, <1>2, TypeCorrect, PTL DEF Spec

\* The volume last asked of a room is what the last queued request for it will
\* set or, with none left, what the room has: replacing a queued request, a Sync
\* and the requests for other rooms lose none.
THEOREM VolumesLand == Spec => []AllLand
<1>1. Init => AllLand
  BY StartKeeps
<1>2. TypeOK /\ AllLand /\ [Next]_vars => AllLand'
  BY StepKeeps DEF Kept
<1> QED BY <1>1, <1>2, TypeCorrect, PTL DEF Spec

\* So rapid changes to one room cannot discard another room's request.
THEOREM AskedVolumesLand == Spec => []RequestsLand
<1>1. AllLand => RequestsLand
  BY AllLandIsEnough
<1> QED BY <1>1, VolumesLand, PTL
=============================================================================
