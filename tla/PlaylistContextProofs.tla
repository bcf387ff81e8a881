------------------------ MODULE PlaylistContextProofs ------------------------
(***************************************************************************)
(* Safety of PlaylistContext for all groups, playlists and capacities.     *)
(***************************************************************************)
EXTENDS PlaylistContext, SequenceTheorems, TLAPS

Titles == Playlists \cup {None}

Commands ==
  {command \in [type : CommandTypes, to : Groups, item : Titles] :
     command.type = "Start" => command.item \in Playlists}

\* A queue with a name is the queue of that playlist.
Answers ==
  {answer \in [type : CommandTypes, item : Titles, success : BOOLEAN,
               content : Contents, source : Sources] :
     answer.source = "Named" => answer.content \in Playlists}

NamedIsPlaylist == \A g \in Groups : source[g] = "Named" => queue[g] \in Playlists

\* The type invariant with what makes it inductive.
Typed ==
  /\ TypeOK
  /\ commands \in Seq(Commands) /\ results \in Seq(Answers)
  /\ NamedIsPlaylist

\* A start in a queue.
Holds(list, playlist) ==
  \E i \in DOMAIN list : list[i].type = "Start" /\ list[i].item = playlist
-----------------------------------------------------------------------------
(* Sequences *)

LEMMA EmptyStringIsNoTitle == None \notin Playlists /\ Empty # None
  BY NamesDiffer

\* Without its first element a sequence still holds its other starts.
LEMMA TailHolds ==
  ASSUME NEW S, NEW list \in Seq(S), list # <<>>
  PROVE  /\ Head(list) \in S /\ Tail(list) \in Seq(S)
         /\ Len(Tail(list)) = Len(list) - 1 /\ Len(list) \in Nat
         /\ \A playlist : Holds(list, playlist)
              => \/ Holds(Tail(list), playlist)
                 \/ Head(list).type = "Start" /\ Head(list).item = playlist
<1>1. Head(list) \in S /\ Tail(list) \in Seq(S)
      /\ Len(Tail(list)) = Len(list) - 1 /\ Len(list) \in Nat
      /\ Head(list) = list[1] /\ DOMAIN list = 1..Len(list)
      /\ DOMAIN Tail(list) = 1..Len(Tail(list))
      /\ \A i \in 1..Len(Tail(list)) : Tail(list)[i] = list[i + 1]
  BY HeadTailProperties, LenProperties
<1>2. ASSUME NEW i \in DOMAIN list
      PROVE  i = 1 \/ (i - 1 \in DOMAIN Tail(list) /\ Tail(list)[i - 1] = list[i])
  <2>1. i \in 1..Len(list)
    BY <1>1
  <2>2. CASE i # 1
    <3>1. i - 1 \in 1..Len(Tail(list)) /\ (i - 1) + 1 = i
      BY <2>1, <2>2, <1>1
    <3> QED BY <3>1, <1>1
  <2> QED BY <2>2
<1> QED BY <1>1, <1>2 DEF Holds

\* Requests are appended as far as there is room.
LEMMA SentHolds ==
  ASSUME commands \in Seq(Commands), Len(commands) <= Capacity,
         NEW list \in Seq(Commands)
  PROVE  /\ Sent(list) \in Seq(Commands) /\ Len(Sent(list)) <= Capacity
         /\ \A playlist : Holds(commands, playlist) => Holds(Sent(list), playlist)
         /\ \A playlist :
              /\ HasRoom(commands, Capacity) /\ list # <<>>
              /\ list[1].type = "Start" /\ list[1].item = playlist
              => Holds(Sent(list), playlist)
<1> DEFINE space == Capacity - Len(commands)
           n == IF space < Len(list) THEN space ELSE Len(list)
           accepted == SubSeq(list, 1, n)
<1>1. /\ Capacity \in Nat /\ Len(commands) \in Nat /\ Len(list) \in Nat
      /\ n \in Nat /\ n <= Len(list) /\ Len(commands) + n <= Capacity
  BY NumbersAreNat, LenProperties
<1>2. \A i \in 1..n : list[i] \in Commands
  BY <1>1, LenProperties
<1>3. accepted \in Seq(Commands) /\ Len(accepted) = n
      /\ \A i \in 1..n : accepted[i] = list[i]
  BY <1>1, <1>2, SubSeqProperties
<1>4. Sent(list) = commands \o accepted
  BY DEF Sent
<1> HIDE DEF accepted, n
<1>5. /\ Sent(list) \in Seq(Commands)
      /\ Len(Sent(list)) = Len(commands) + n
      /\ \A i \in 1..Len(commands) + n :
           Sent(list)[i] = IF i <= Len(commands) THEN commands[i]
                           ELSE accepted[i - Len(commands)]
  <2>1. commands \in Seq(Commands) /\ accepted \in Seq(Commands)
    BY <1>3
  <2>2. /\ commands \o accepted \in Seq(Commands)
        /\ Len(commands \o accepted) = Len(commands) + Len(accepted)
        /\ \A i \in 1..Len(commands) + Len(accepted) :
             (commands \o accepted)[i] = IF i <= Len(commands) THEN commands[i]
                                         ELSE accepted[i - Len(commands)]
    BY <2>1, ConcatProperties
  <2> QED BY <2>2, <1>3, <1>4
<1>6. DOMAIN Sent(list) = 1..Len(commands) + n
      /\ DOMAIN commands = 1..Len(commands)
  BY <1>5, LenProperties
<1>7. ASSUME NEW playlist, Holds(commands, playlist)
      PROVE  Holds(Sent(list), playlist)
  BY <1>1, <1>5, <1>6, <1>7 DEF Holds
<1>8. ASSUME NEW playlist, HasRoom(commands, Capacity), list # <<>>,
             list[1].type = "Start", list[1].item = playlist
      PROVE  Holds(Sent(list), playlist)
  <2>1. n >= 1 /\ 1 \in 1..n
    <3>1. Len(list) > 0
      BY <1>8, <1>1, EmptySeq
    <3> QED BY <3>1, <1>1, <1>8 DEF HasRoom, n
  <2>2. Len(commands) + 1 \in 1..Len(commands) + n
        /\ (Len(commands) + 1) - Len(commands) = 1
        /\ ~(Len(commands) + 1 <= Len(commands))
    BY <2>1, <1>1
  <2>3. Sent(list)[Len(commands) + 1] = list[1]
    BY <2>1, <2>2, <1>3, <1>5
  <2> QED BY <2>2, <2>3, <1>6, <1>8 DEF Holds
<1> QED BY <1>1, <1>5, <1>7, <1>8

\* An answer is appended, or the result queue was full.
LEMMA PushHolds ==
  ASSUME results \in Seq(Answers), Len(results) <= ResultCapacity,
         NEW answer \in Answers
  PROVE  LET list == PushIfRoom(results, ResultCapacity, answer) IN
         /\ list \in Seq(Answers) /\ Len(list) <= ResultCapacity
         /\ \A playlist : Holds(results, playlist) => Holds(list, playlist)
         /\ HasRoom(results, ResultCapacity) /\ answer.type = "Start"
              => Holds(list, answer.item)
<1>1. Len(results) \in Nat /\ DOMAIN results = 1..Len(results)
      /\ ResultCapacity \in Nat
  BY NumbersAreNat, LenProperties
<1>2. CASE HasRoom(results, ResultCapacity)
  <2> DEFINE list == Append(results, answer)
  <2>1. /\ list \in Seq(Answers) /\ Len(list) = Len(results) + 1
        /\ DOMAIN list = 1..Len(results) + 1
        /\ \A i \in 1..Len(results) : list[i] = results[i]
        /\ list[Len(results) + 1] = answer
    BY <1>1, AppendProperties, LenProperties
  <2>2. PushIfRoom(results, ResultCapacity, answer) = list
    BY <1>2 DEF PushIfRoom
  <2> HIDE DEF list
  <2>3. Len(list) <= ResultCapacity
    BY <1>1, <1>2, <2>1 DEF HasRoom
  <2>4. \A playlist : Holds(results, playlist) => Holds(list, playlist)
    BY <1>1, <2>1 DEF Holds
  <2>5. answer.type = "Start" => Holds(list, answer.item)
    BY <1>1, <2>1 DEF Holds
  <2> QED BY <2>1, <2>2, <2>3, <2>4, <2>5
<1>3. CASE ~HasRoom(results, ResultCapacity)
  BY <1>3 DEF PushIfRoom
<1> QED BY <1>2, <1>3
-----------------------------------------------------------------------------
(* What the steps are made of *)

LEMMA CommandTyped ==
  ASSUME group \in Groups, NEW type \in CommandTypes, NEW item \in Titles,
         type = "Start" => item \in Playlists
  PROVE  Command(type, item) \in Commands /\ <<Command(type, item)>> \in Seq(Commands)
<1>1. Command(type, item) \in Commands
  BY DEF Command, Commands
<1> QED BY <1>1

LEMMA PollTyped ==
  ASSUME NEW g \in Groups
  PROVE  Poll(g) \in Commands /\ <<Poll(g)>> \in Seq(Commands)
<1>1. Poll(g) \in Commands
  BY DEF Poll, Commands, CommandTypes, Titles
<1> QED BY <1>1

\* An accepted or refused request leaves the starts that wait where they are.
LEMMA SendTyped ==
  ASSUME Typed, NEW list \in Seq(Commands), Send(list)
  PROVE  /\ commands' \in Seq(Commands) /\ Len(commands') <= Capacity
         /\ \A i \in DOMAIN commands' : commands'[i].type \in CommandTypes
         /\ \A playlist : Holds(commands, playlist) => Holds(commands', playlist)
<1>1. commands' \in Seq(Commands) /\ Len(commands') <= Capacity
      /\ \A playlist : Holds(commands, playlist) => Holds(commands', playlist)
  BY SentHolds DEF Typed, TypeOK, Send
<1>2. \A i \in DOMAIN commands' : commands'[i] \in Commands
  BY <1>1, LenProperties
<1> QED BY <1>1, <1>2 DEF Commands

\* The worker takes the command at the front.
LEMMA TakenTyped ==
  ASSUME Typed, NEW type, Taken(type)
  PROVE  /\ commands' \in Seq(Commands) /\ Len(commands') <= Capacity
         /\ \A i \in DOMAIN commands' : commands'[i].type \in CommandTypes
         /\ Head(commands) \in Commands /\ Head(commands).type = type
         /\ \A playlist : Holds(commands, playlist)
              => \/ Holds(commands', playlist)
                 \/ type = "Start" /\ Head(commands).item = playlist
<1>1. commands # <<>> /\ commands' = Tail(commands) /\ Head(commands).type = type
  BY DEF Taken
<1>2. commands \in Seq(Commands) /\ Len(commands) <= Capacity
  BY DEF Typed, TypeOK
<1>3. /\ commands' \in Seq(Commands) /\ Len(commands') <= Capacity
      /\ Head(commands) \in Commands
      /\ \A playlist : Holds(commands, playlist)
           => \/ Holds(commands', playlist)
              \/ type = "Start" /\ Head(commands).item = playlist
  BY <1>1, <1>2, TailHolds, NumbersAreNat
<1>4. \A i \in DOMAIN commands' : commands'[i] \in Commands
  BY <1>3, LenProperties
<1> QED BY <1>1, <1>3, <1>4 DEF Commands

\* The worker answers what it took: a start goes from one queue to the other.
LEMMA ReplyTyped ==
  ASSUME Typed, Head(commands) \in Commands,
         NEW success \in BOOLEAN, NEW reported \in Sources,
         reported = "Named" => source[Head(commands).to] = "Named",
         ReplyWith(success, reported)
  PROVE  /\ results' \in Seq(Answers) /\ Len(results') <= ResultCapacity
         /\ lost' \in BOOLEAN /\ (lost => lost')
         /\ \A playlist : Holds(results, playlist) => Holds(results', playlist)
         /\ Head(commands).type = "Start"
              => Holds(results', Head(commands).item) \/ lost'
<1> DEFINE command == Head(commands)
           answer == [type |-> command.type, item |-> command.item,
                      success |-> success, content |-> queue[command.to],
                      source |-> reported]
<1>1. command.type \in CommandTypes /\ command.item \in Titles
      /\ command.to \in Groups
  BY DEF Commands
<1>2. queue[command.to] \in Contents
      /\ (reported = "Named" => queue[command.to] \in Playlists)
  BY <1>1 DEF Typed, TypeOK, NamedIsPlaylist
<1>3. answer \in Answers /\ answer.type = command.type
      /\ answer.item = command.item
  BY <1>1, <1>2 DEF Answers
<1>4. results' = PushIfRoom(results, ResultCapacity, answer)
      /\ lost' = (lost \/ ~HasRoom(results, ResultCapacity))
  BY DEF ReplyWith
<1> HIDE DEF answer
<1>5. results \in Seq(Answers) /\ Len(results) <= ResultCapacity
      /\ lost \in BOOLEAN
  BY DEF Typed, TypeOK
<1>6. /\ results' \in Seq(Answers) /\ Len(results') <= ResultCapacity
      /\ \A playlist : Holds(results, playlist) => Holds(results', playlist)
      /\ HasRoom(results, ResultCapacity) /\ answer.type = "Start"
           => Holds(results', answer.item)
  BY <1>3, <1>4, <1>5, PushHolds, Zenon
<1> QED BY <1>3, <1>4, <1>5, <1>6

\* update() applies the answer at the front.
LEMMA ReceivedTyped ==
  ASSUME Typed, NEW type, NEW success, Received(type, success)
  PROVE  /\ results' \in Seq(Answers) /\ Len(results') <= ResultCapacity
         /\ Head(results) \in Answers /\ Head(results).type = type
         /\ Head(results).success = success
         /\ \A playlist : Holds(results, playlist)
              => \/ Holds(results', playlist)
                 \/ type = "Start" /\ Head(results).item = playlist
<1>1. results # <<>> /\ results' = Tail(results) /\ Head(results).type = type
      /\ Head(results).success = success
  BY DEF Received
<1>2. results \in Seq(Answers) /\ Len(results) <= ResultCapacity
  BY DEF Typed, TypeOK
<1> QED BY <1>1, <1>2, TailHolds, NumbersAreNat

\* Whatever a group plays, only a playlist has a name.
LEMMA PlaysTyped ==
  ASSUME Typed, NEW g \in Groups, NEW content \in Contents,
         NEW kind \in Sources, kind = "Named" => content \in Playlists,
         Plays(g, content, kind)
  PROVE  /\ queue' \in [Groups -> Contents] /\ source' \in [Groups -> Sources]
         /\ played' \in [Groups -> SUBSET Playlists]
         /\ NamedIsPlaylist'
BY DEF Typed, TypeOK, NamedIsPlaylist, Plays

LEMMA EventTyped ==
  ASSUME Typed, Event
  PROVE  presses' \in 0..MaxActs /\ events' \in 0..MaxEvents
BY NumbersAreNat DEF Typed, TypeOK, Event

LEMMA PressTyped ==
  ASSUME Typed, presses + events < MaxActs
  PROVE  presses + 1 \in 0..MaxActs
BY NumbersAreNat DEF Typed, TypeOK
-----------------------------------------------------------------------------
(* The worker *)

\* What the worker never does: it moves a start from queue to queue, or the
\* answer was dropped, and touches nothing that the remote shows.
Moved ==
  /\ UNCHANGED view /\ (lost => lost')
  /\ \A playlist : Holds(commands, playlist) \/ Holds(results, playlist)
       => Holds(commands', playlist) \/ Holds(results', playlist) \/ lost'

LEMMA AnsweredTyped ==
  ASSUME Typed, NEW type, Taken(type),
         NEW success \in BOOLEAN, NEW reported \in Sources,
         reported = "Named" => source[Head(commands).to] = "Named",
         ReplyWith(success, reported)
  PROVE  /\ Moved
         /\ commands' \in Seq(Commands) /\ Len(commands') <= Capacity
         /\ \A i \in DOMAIN commands' : commands'[i].type \in CommandTypes
         /\ results' \in Seq(Answers) /\ Len(results') <= ResultCapacity
         /\ lost' \in BOOLEAN /\ UNCHANGED <<view, seen>>
<1>1. /\ commands' \in Seq(Commands) /\ Len(commands') <= Capacity
      /\ \A i \in DOMAIN commands' : commands'[i].type \in CommandTypes
      /\ Head(commands) \in Commands /\ Head(commands).type = type
      /\ \A playlist : Holds(commands, playlist)
           => \/ Holds(commands', playlist)
              \/ type = "Start" /\ Head(commands).item = playlist
  BY TakenTyped
<1>2. /\ results' \in Seq(Answers) /\ Len(results') <= ResultCapacity
      /\ lost' \in BOOLEAN /\ (lost => lost')
      /\ \A playlist : Holds(results, playlist) => Holds(results', playlist)
      /\ Head(commands).type = "Start"
           => Holds(results', Head(commands).item) \/ lost'
  BY <1>1, ReplyTyped
<1>3. UNCHANGED <<view, seen>>
  BY DEF Taken
<1> QED BY <1>1, <1>2, <1>3 DEF Moved

\* The worker and the household keep the type invariant.
LEMMA WorkerStep ==
  ASSUME Typed, Worker
  PROVE  Typed' /\ Moved
<1> DEFINE Answered ==
      /\ Moved
      /\ commands' \in Seq(Commands) /\ Len(commands') <= Capacity
      /\ \A i \in DOMAIN commands' : commands'[i].type \in CommandTypes
      /\ results' \in Seq(Answers) /\ Len(results') <= ResultCapacity
      /\ lost' \in BOOLEAN /\ UNCHANGED <<view, seen>>
    Played ==
      /\ queue' \in [Groups -> Contents] /\ source' \in [Groups -> Sources]
      /\ played' \in [Groups -> SUBSET Playlists] /\ NamedIsPlaylist'
    Bounded == presses' \in 0..MaxActs /\ events' \in 0..MaxEvents
<1>1. ASSUME Answered, Played, Bounded PROVE Typed' /\ Moved
  BY <1>1 DEF Typed, TypeOK, view, start, memory
<1>2. \A type : \A success \in BOOLEAN :
        Taken(type) /\ Reply(success) => Answered
  <2> SUFFICES ASSUME NEW type, NEW success \in BOOLEAN, Taken(type), Reply(success)
               PROVE  Answered
    OBVIOUS
  <2>1. source[Head(commands).to] \in Sources
    BY TakenTyped DEF Commands, Typed, TypeOK
  <2> QED BY <2>1, AnsweredTyped DEF Reply
<1>3. UNCHANGED household => Played
  BY DEF household, Typed, TypeOK, NamedIsPlaylist
<1>4. UNCHANGED bounds \/ Event => Bounded
  BY EventTyped DEF bounds, Typed, TypeOK
<1>5. ASSUME StartDone PROVE Typed' /\ Moved
  <2>1. Answered /\ Bounded
    BY <1>2, <1>4, <1>5 DEF StartDone
  <2> DEFINE g == Head(commands).to
             item == Head(commands).item
             unnamed == IF source[g] = "Named" THEN "Queue" ELSE source[g]
  <2>2. g \in Groups /\ item \in Playlists /\ item \in Contents /\ Empty \in Contents
    <3>1. Head(commands) \in Commands /\ Head(commands).type = "Start"
      BY <1>5, TakenTyped DEF StartDone
    <3> QED BY <3>1 DEF Commands, Contents
  <2>3. unnamed \in Sources /\ unnamed # "Named" /\ "Queue" \in Sources
    BY <2>2 DEF Typed, TypeOK, Sources
  <2>4. \/ UNCHANGED household
        \/ Plays(g, item, "Queue") \/ Plays(g, item, unnamed)
        \/ Plays(g, Empty, unnamed)
    BY <1>5 DEF StartDone
  <2> HIDE DEF g, item, unnamed
  <2>5. Played
    BY <1>3, <2>2, <2>3, <2>4, PlaysTyped
  <2> QED BY <2>1, <2>5, <1>1
<1>6. ASSUME NEW type, DirectDone(type) PROVE Typed' /\ Moved
  <2>1. Answered /\ Bounded
    BY <1>2, <1>4, <1>6 DEF DirectDone
  <2> DEFINE g == Head(commands).to
  <2>2. g \in Groups /\ queue[g] \in Contents /\ "Direct" \in Sources
    <3>1. g \in Groups
      BY <1>6, TakenTyped DEF DirectDone, Commands
    <3> QED BY <3>1 DEF Typed, TypeOK, Sources
  <2>3. UNCHANGED household \/ Plays(g, queue[g], "Direct")
    BY <1>6 DEF DirectDone
  <2> HIDE DEF g
  <2>4. Played
    BY <1>3, <2>2, <2>3, PlaysTyped
  <2> QED BY <2>1, <2>4, <1>1
<1>7. ASSUME NEW type, ReadDone(type) PROVE Typed' /\ Moved
  BY <1>1, <1>2, <1>3, <1>4, <1>7 DEF ReadDone
<1>8. ASSUME PartialPoll PROVE Typed' /\ Moved
  <2>1. PICK reported \in {"Queue", "Direct"} : ReplyWith(TRUE, reported)
    BY <1>8 DEF PartialPoll
  <2>2. reported \in Sources /\ reported # "Named"
    BY DEF Sources
  <2>3. Answered
    BY <1>8, <2>1, <2>2, AnsweredTyped DEF PartialPoll
  <2> QED BY <1>1, <1>3, <1>4, <1>8, <2>3 DEF PartialPoll
<1> QED BY <1>5, <1>6, <1>7, <1>8 DEF Worker
-----------------------------------------------------------------------------
(* The buttons *)

LEMMA StartPlaylistStep ==
  ASSUME Typed, StartPlaylist
  PROVE  /\ Typed' /\ pending' # None /\ Holds(commands', pending')
         /\ UNCHANGED <<results, lost>>
<1>1. PICK playlist \in Playlists :
        /\ Send(<<Command("Start", playlist), Poll(group), Poll(group)>>)
        /\ pending' = playlist /\ before' = label /\ acked' = FALSE
        /\ selected' = playlist /\ label' = playlist
        /\ seen' = [seen EXCEPT ![group] = @ \cup {playlist}]
  BY DEF StartPlaylist
<1> DEFINE list == <<Command("Start", playlist), Poll(group), Poll(group)>>
<1>2. group \in Groups /\ playlist \in Titles /\ "Start" \in CommandTypes
  BY DEF Typed, TypeOK, Titles, CommandTypes, Starts
<1>3. Command("Start", playlist) \in Commands /\ Poll(group) \in Commands
  BY <1>2, CommandTyped, PollTyped
<1>4. list \in Seq(Commands) /\ list # <<>> /\ list[1] = Command("Start", playlist)
  BY <1>3
<1> HIDE DEF list
<1>5. Send(list)
  BY <1>1 DEF list
<1>6. /\ commands' \in Seq(Commands) /\ Len(commands') <= Capacity
      /\ \A i \in DOMAIN commands' : commands'[i].type \in CommandTypes
  BY <1>4, <1>5, SendTyped
<1>7. Holds(commands', playlist)
  <2>1. HasRoom(commands, Capacity) /\ commands' = Sent(list)
        /\ commands \in Seq(Commands) /\ Len(commands) <= Capacity
    BY <1>5 DEF StartPlaylist, Send, Typed, TypeOK
  <2>2. list[1].type = "Start" /\ list[1].item = playlist
    BY <1>4 DEF Command
  <2> QED BY <2>1, <2>2, <1>4, SentHolds
<1>8. presses' \in 0..MaxActs
  BY PressTyped DEF StartPlaylist, Press
<1>9. seen' \in [Groups -> SUBSET Playlists]
  BY <1>1 DEF Typed, TypeOK
<1>10. Typed'
  BY <1>1, <1>2, <1>6, <1>8, <1>9
     DEF Typed, TypeOK, Titles, NamedIsPlaylist, StartPlaylist, Press, household, memory
<1> QED BY <1>1, <1>7, <1>10, EmptyStringIsNoTitle DEF StartPlaylist, Press

LEMMA StartOtherStep ==
  ASSUME Typed, StartOther
  PROVE  /\ Typed' /\ UNCHANGED <<pending, acked, results, lost>>
         /\ \A playlist : Holds(commands, playlist) => Holds(commands', playlist)
<1>1. PICK type \in {"Direct", "Collection", "PlayQueue"} :
        Send(<<Command(type, None)>>)
  BY DEF StartOther
<1>2. <<Command(type, None)>> \in Seq(Commands)
  <2>1. group \in Groups /\ None \in Titles /\ type \in CommandTypes
        /\ type # "Start"
    BY DEF Typed, TypeOK, Titles, CommandTypes, Starts
  <2> QED BY <2>1, CommandTyped
<1>3. /\ commands' \in Seq(Commands) /\ Len(commands') <= Capacity
      /\ \A i \in DOMAIN commands' : commands'[i].type \in CommandTypes
      /\ \A playlist : Holds(commands, playlist) => Holds(commands', playlist)
  BY <1>1, <1>2, SendTyped
<1>4. presses' \in 0..MaxActs
  BY PressTyped DEF StartOther, Press
<1> QED BY <1>3, <1>4
     DEF Typed, TypeOK, NamedIsPlaylist, StartOther, Press, household, view,
         start, memory

LEMMA SwitchGroupStep ==
  ASSUME Typed, SwitchGroup
  PROVE  Typed' /\ pending' = None
<1>1. PICK g \in Groups \ {group} : group' = g /\ Send(<<Poll(g)>>)
  BY DEF SwitchGroup
<1>2. /\ commands' \in Seq(Commands) /\ Len(commands') <= Capacity
      /\ \A i \in DOMAIN commands' : commands'[i].type \in CommandTypes
  BY <1>1, PollTyped, SendTyped
<1>3. presses' \in 0..MaxActs
  BY PressTyped DEF SwitchGroup, Press
<1> QED BY <1>1, <1>2, <1>3
     DEF Typed, TypeOK, NamedIsPlaylist, SwitchGroup, Press, household, memory

\* One request fits into an empty queue.
LEMMA OneTyped ==
  ASSUME NEW command \in Commands
  PROVE  /\ <<command>> \in Seq(Commands) /\ Len(<<command>>) <= Capacity
         /\ \A i \in DOMAIN <<command>> : <<command>>[i].type \in CommandTypes
<1>1. command.type \in CommandTypes
  BY DEF Commands
<1> QED BY <1>1, NumbersAreNat

LEMMA NoneTyped ==
  ASSUME NEW S
  PROVE  <<>> \in Seq(S) /\ Len(<<>>) = 0
BY EmptySeq

LEMMA RestartStep ==
  ASSUME Typed, Restart
  PROVE  Typed' /\ pending' = None
<1>1. PICK g \in Groups : group' = g /\ commands' = <<Poll(g)>>
  BY DEF Restart
<1>2. /\ commands' \in Seq(Commands) /\ Len(commands') <= Capacity
      /\ \A i \in DOMAIN commands' : commands'[i].type \in CommandTypes
  BY <1>1, PollTyped, OneTyped
<1>3. results' \in Seq(Answers) /\ Len(results') <= ResultCapacity
  BY NoneTyped, NumbersAreNat DEF Restart
<1>4. presses' \in 0..MaxActs
  BY PressTyped DEF Restart
<1> QED BY <1>1, <1>2, <1>3, <1>4
     DEF Typed, TypeOK, NamedIsPlaylist, Restart, household

LEMMA InitTyped == Init => Typed /\ pending = None
<1> SUFFICES ASSUME Init PROVE Typed /\ pending = None
  OBVIOUS
<1>1. group \in Groups /\ source = [g \in Groups |-> "Queue"]
      /\ pending = None /\ before = None /\ acked = FALSE
      /\ validating = FALSE /\ recent = FALSE /\ lost = FALSE
      /\ commands = <<Poll(FirstGroup)>> /\ results = <<>>
      /\ presses = 0 /\ events = 0 /\ played = seen
      /\ FirstGroup \in Groups
  BY NamesDiffer DEF Init
<1>2. /\ commands \in Seq(Commands) /\ Len(commands) <= Capacity
      /\ \A i \in DOMAIN commands : commands[i].type \in CommandTypes
  BY <1>1, PollTyped, OneTyped
<1>3. results \in Seq(Answers) /\ Len(results) <= ResultCapacity
  BY <1>1, NoneTyped, NumbersAreNat
<1>4. /\ queue \in [Groups -> Contents]
      /\ seen \in [Groups -> SUBSET Playlists]
      /\ {label, selected} \subseteq Playlists \cup {None}
      /\ saved = Forgotten \/ saved \in [group : Groups, title : Playlists,
                                         fingerprint : Contents \ {Empty}]
  <2>1. CASE /\ queue = [g \in Groups |-> Others]
             /\ saved = Forgotten /\ label = None /\ selected = None
             /\ seen = [g \in Groups |-> {}]
    BY <2>1 DEF Contents
  <2>2. ASSUME NEW playlist \in Playlists, NEW content \in Contents,
               queue = [g \in Groups |-> IF g = FirstGroup THEN content
                                         ELSE Others],
               Remembers(FirstGroup, playlist),
               label = playlist, selected = playlist,
               seen = [g \in Groups |-> IF g = FirstGroup THEN {playlist} ELSE {}]
        PROVE  <1>4!1 /\ <1>4!2 /\ <1>4!3 /\ <1>4!4
    <3>1. playlist \in Contents \ {Empty} /\ Others \in Contents
      BY NamesDiffer DEF Contents
    <3> QED BY <2>2, <3>1, <1>1 DEF Remembers
  <2> QED BY <2>1, <2>2 DEF Init
<1>5. 0 \in 0..MaxActs /\ 0 \in 0..MaxEvents
  BY NumbersAreNat
<1>6. source \in [Groups -> Sources] /\ NamedIsPlaylist
  BY <1>1 DEF Sources, NamedIsPlaylist
<1> QED BY <1>1, <1>2, <1>3, <1>4, <1>5, <1>6 DEF Typed, TypeOK
-----------------------------------------------------------------------------
(* Timers and other controllers *)

LEMMA PollTimerStep ==
  ASSUME Typed, PollTimer
  PROVE  /\ Typed' /\ UNCHANGED <<pending, acked, results, lost>>
         /\ \A playlist : Holds(commands, playlist) => Holds(commands', playlist)
<1>1. group \in Groups
  BY DEF Typed, TypeOK
<1>2. /\ commands' \in Seq(Commands) /\ Len(commands') <= Capacity
      /\ \A i \in DOMAIN commands' : commands'[i].type \in CommandTypes
      /\ \A playlist : Holds(commands, playlist) => Holds(commands', playlist)
  BY <1>1, PollTyped, SendTyped DEF PollTimer
<1> QED BY <1>2 DEF Typed, TypeOK, NamedIsPlaylist, PollTimer, household, view,
                    start, memory, bounds

LEMMA ChangeElsewhereStep ==
  ASSUME Typed, ChangeElsewhere
  PROVE  Typed' /\ UNCHANGED <<pending, acked, commands, results, lost>>
<1>1. PICK g \in Groups, content \in Contents, kind \in Sources :
        /\ kind = "Named" => content \in Playlists
        /\ Plays(g, content, kind)
        /\ seen' = [seen EXCEPT ![g] = @ \cup ({content} \cap Playlists)]
  BY DEF ChangeElsewhere
<1>2. /\ queue' \in [Groups -> Contents] /\ source' \in [Groups -> Sources]
      /\ played' \in [Groups -> SUBSET Playlists] /\ NamedIsPlaylist'
  BY <1>1, PlaysTyped
<1>3. presses' \in 0..MaxActs /\ events' \in 0..MaxEvents
  BY EventTyped DEF ChangeElsewhere
<1>4. seen' \in [Groups -> SUBSET Playlists]
  BY <1>1 DEF Typed, TypeOK
<1> QED BY <1>2, <1>3, <1>4 DEF Typed, TypeOK, ChangeElsewhere, view, start, memory
-----------------------------------------------------------------------------
(* apply_result *)

\* What an answer never does to the starts: the one it reports may be gone from
\* the queue of answers, nothing else.
Applied(type) ==
  /\ lost => lost'
  /\ \A playlist : Holds(commands, playlist) \/ Holds(results, playlist)
       => \/ Holds(commands', playlist) \/ Holds(results', playlist)
          \/ type = "Start" /\ Head(results).item = playlist

CommandsTyped ==
  /\ commands' \in Seq(Commands) /\ Len(commands') <= Capacity
  /\ \A i \in DOMAIN commands' : commands'[i].type \in CommandTypes
  /\ \A playlist : Holds(commands, playlist) => Holds(commands', playlist)

LEMMA QuietCommands ==
  ASSUME Typed, UNCHANGED commands
  PROVE  CommandsTyped
BY DEF CommandsTyped, Typed, TypeOK

LEMMA SentCommands ==
  ASSUME Typed, NEW list \in Seq(Commands), Send(list)
  PROVE  CommandsTyped
BY SendTyped DEF CommandsTyped

\* It is enough to look at what the answer changes on the remote.
LEMMA AnswerStep ==
  ASSUME Typed, NEW type, NEW success, Received(type, success), CommandsTyped,
         {label', selected', pending', before'} \subseteq Titles,
         acked' \in BOOLEAN, validating' \in BOOLEAN, recent' \in BOOLEAN,
         lost' \in BOOLEAN, lost => lost',
         saved' = Forgotten \/ saved' \in [group : Groups, title : Playlists,
                                           fingerprint : Contents \ {Empty}]
  PROVE  Typed' /\ Applied(type)
<1>1. /\ results' \in Seq(Answers) /\ Len(results') <= ResultCapacity
      /\ \A playlist : Holds(results, playlist)
           => \/ Holds(results', playlist)
              \/ type = "Start" /\ Head(results).item = playlist
  BY ReceivedTyped
<1>2. Applied(type)
  BY <1>1 DEF Applied, CommandsTyped
<1>3. UNCHANGED <<household, group, seen, bounds>>
  BY DEF Received
<1> QED BY <1>1, <1>2, <1>3 DEF Typed, TypeOK, Titles, NamedIsPlaylist,
                               CommandsTyped, household, bounds

\* The label after a playback answer is a title; the start goes on as it was or
\* is over.
LEMMA RelabelTyped ==
  ASSUME Typed, NEW answer \in Answers, Relabel(answer)
  PROVE  /\ {label', selected', pending', before'} \subseteq Titles
         /\ acked' \in BOOLEAN
         /\ UNCHANGED <<pending, acked>> \/ pending' = None
<1>1. {label, selected, pending, before} \subseteq Titles /\ None \in Titles
      /\ acked \in BOOLEAN
  BY DEF Typed, TypeOK, Titles
<1>2. answer.source \in {"Queue", "Named", "Direct"}
      /\ (answer.source = "Named" => answer.content \in Titles)
  BY DEF Answers, Sources, Titles
<1>3. CASE pending # None
  BY <1>1, <1>3 DEF Relabel, StartIsOver, start
<1>4. CASE pending = None
  <2>1. label' = selected' /\ UNCHANGED <<pending, before, acked>>
    BY <1>4 DEF Relabel, start
  <2>2. selected' \in Titles
    BY <1>1, <1>2, <1>4 DEF Relabel
  <2> QED BY <1>1, <2>1, <2>2
<1> QED BY <1>3, <1>4

LEMMA ValidateTyped ==
  ASSUME Typed, Validate
  PROVE  /\ CommandsTyped /\ UNCHANGED saved
         /\ validating' \in BOOLEAN /\ recent' \in BOOLEAN
         /\ lost' \in BOOLEAN /\ (lost => lost')
<1>1. CASE validating \/ recent
  BY <1>1, QuietCommands DEF Validate, memory, Typed, TypeOK
<1>2. CASE ~(validating \/ recent)
  <2>1. <<Command("Validate", None)>> \in Seq(Commands)
    <3>1. group \in Groups /\ "Validate" \in CommandTypes /\ None \in Titles
      BY DEF Typed, TypeOK, CommandTypes, Titles
    <3> QED BY <3>1, CommandTyped
  <2>2. Send(<<Command("Validate", None)>>)
    BY <1>2 DEF Validate
  <2>3. CommandsTyped
    BY <2>1, <2>2, SentCommands
  <2> QED BY <1>2, <2>3 DEF Validate, Typed, TypeOK
<1> QED BY <1>1, <1>2

LEMMA PlaybackStep ==
  ASSUME Typed, PlaybackArrived
  PROVE  /\ Typed' /\ Applied("Poll")
         /\ UNCHANGED <<pending, acked>> \/ pending' = None
<1>1. /\ {label', selected', pending', before'} \subseteq Titles
      /\ acked' \in BOOLEAN
      /\ UNCHANGED <<pending, acked>> \/ pending' = None
  <2>1. Head(results) \in Answers
    BY ReceivedTyped DEF PlaybackArrived
  <2> QED BY <2>1, RelabelTyped DEF PlaybackArrived
<1>2. /\ validating \in BOOLEAN /\ recent \in BOOLEAN /\ lost \in BOOLEAN
      /\ saved = Forgotten \/ saved \in [group : Groups, title : Playlists,
                                         fingerprint : Contents \ {Empty}]
  BY DEF Typed, TypeOK
<1>3. /\ CommandsTyped
      /\ validating' \in BOOLEAN /\ recent' \in BOOLEAN
      /\ lost' \in BOOLEAN /\ (lost => lost')
      /\ saved' = saved \/ saved' = Forgotten
  <2>1. \/ Validate
        \/ /\ saved' = saved \/ saved' = Forgotten
           /\ UNCHANGED <<validating, recent, commands, lost>>
    BY DEF PlaybackArrived, memory
  <2>2. CASE Validate
    BY <2>2, ValidateTyped
  <2>3. CASE ~Validate
    BY <2>1, <2>3, <1>2, QuietCommands
  <2> QED BY <2>2, <2>3
<1>4. Received("Poll", TRUE)
  BY DEF PlaybackArrived
<1>5. Typed' /\ Applied("Poll")
  BY <1>1, <1>2, <1>3, <1>4, AnswerStep
<1> QED BY <1>1, <1>5

LEMMA AcknowledgedStep ==
  ASSUME Typed, NEW type \in Starts, StartAcknowledged(type)
  PROVE  /\ Typed' /\ Applied(type) /\ pending' = pending
         /\ acked' = (acked \/ Head(results).item = pending)
<1> DEFINE item == Head(results).item
           capture == IF item = None THEN <<>> ELSE <<Command("Capture", None)>>
<1>1. item \in Titles
  BY ReceivedTyped DEF StartAcknowledged, Answers
<1>2. /\ Received(type, TRUE) /\ selected' = item
      /\ label' = IF item = None THEN None ELSE label
      /\ saved' = Forgotten
      /\ acked' = (acked \/ item = pending)
      /\ UNCHANGED <<pending, before, validating, recent, lost>>
  BY DEF StartAcknowledged
<1>3. PICK opened \in {<<>>, <<Poll(group)>>} :
        Send(capture \o opened \o <<Poll(group)>>)
  BY DEF StartAcknowledged
<1>4. group \in Groups /\ None \in Titles /\ "Capture" \in CommandTypes
      /\ acked \in BOOLEAN
  BY DEF Typed, TypeOK, Titles, CommandTypes
<1>5. capture \o opened \o <<Poll(group)>> \in Seq(Commands)
  <2>1. capture \in Seq(Commands)
    BY <1>4, CommandTyped, NoneTyped
  <2>2. opened \in Seq(Commands) /\ <<Poll(group)>> \in Seq(Commands)
    BY <1>4, PollTyped, NoneTyped
  <2> HIDE DEF capture
  <2>3. capture \o opened \in Seq(Commands)
    BY <2>1, <2>2, ConcatProperties
  <2> QED BY <2>2, <2>3, ConcatProperties
<1>6. CommandsTyped
  BY <1>3, <1>5, SentCommands
<1> HIDE DEF item, capture
<1>7. /\ {label', selected', pending', before'} \subseteq Titles
      /\ acked' \in BOOLEAN /\ validating' \in BOOLEAN /\ recent' \in BOOLEAN
      /\ lost' \in BOOLEAN /\ (lost => lost')
  BY <1>1, <1>2, <1>4 DEF Typed, TypeOK, Titles
<1>8. Typed' /\ Applied(type)
  BY <1>2, <1>6, <1>7, AnswerStep
<1> QED BY <1>2, <1>8 DEF item

LEMMA RefusedStep ==
  ASSUME Typed, NEW type \in Starts, StartRefused(type)
  PROVE  /\ Typed' /\ Applied(type)
         /\ \/ pending' = None
            \/ UNCHANGED <<pending, acked>> /\ Head(results).item # pending
<1>1. /\ group \in Groups /\ None \in Titles
      /\ {label, selected, pending, before} \subseteq Titles
      /\ acked \in BOOLEAN /\ validating \in BOOLEAN /\ recent \in BOOLEAN
      /\ lost \in BOOLEAN
      /\ saved = Forgotten \/ saved \in [group : Groups, title : Playlists,
                                         fingerprint : Contents \ {Empty}]
  BY DEF Typed, TypeOK, Titles
<1>2. Received(type, FALSE) /\ UNCHANGED <<saved, validating, recent, lost>>
  BY DEF StartRefused, memory
<1>3. CASE /\ selected' = before /\ label' = before
           /\ StartIsOver /\ Send(<<Poll(group)>>)
  <2>1. <<Poll(group)>> \in Seq(Commands)
    BY <1>1, PollTyped
  <2>2. CommandsTyped
    BY <1>3, <2>1, SentCommands
  <2>3. selected' = before /\ label' = before
        /\ pending' = None /\ before' = None /\ acked' = FALSE
    BY <1>3 DEF StartIsOver
  <2> QED BY <1>1, <1>2, <2>2, <2>3, AnswerStep
<1>4. CASE /\ Head(results).item # pending
           /\ UNCHANGED <<selected, label, pending, before, acked, commands>>
  <2>1. CommandsTyped
    BY <1>4, QuietCommands
  <2> QED BY <1>1, <1>2, <1>4, <2>1, AnswerStep
<1> QED BY <1>3, <1>4 DEF StartRefused, start

LEMMA DirectAnsweredStep ==
  ASSUME Typed, DirectAnswered
  PROVE  /\ Typed' /\ UNCHANGED <<pending, acked>>
         /\ \E type : type # "Start" /\ Applied(type)
<1>1. /\ group \in Groups
      /\ {label, selected, pending, before} \subseteq Titles
      /\ acked \in BOOLEAN /\ validating \in BOOLEAN /\ recent \in BOOLEAN
      /\ lost \in BOOLEAN
      /\ saved = Forgotten \/ saved \in [group : Groups, title : Playlists,
                                         fingerprint : Contents \ {Empty}]
  BY DEF Typed, TypeOK, Titles
<1>2. UNCHANGED <<label, selected, pending, before, acked, saved, validating,
                  recent, lost>>
  BY DEF DirectAnswered, start, memory
<1>3. CommandsTyped
  <2>1. Send(<<Poll(group)>>) \/ UNCHANGED commands
    BY DEF DirectAnswered
  <2>2. <<Poll(group)>> \in Seq(Commands)
    BY <1>1, PollTyped
  <2> QED BY <2>1, <2>2, SentCommands, QuietCommands
<1>4. PICK type \in {"Direct", "Poll", "Capture"}, success \in BOOLEAN :
        Received(type, success)
  BY DEF DirectAnswered
<1>5. Typed' /\ Applied(type)
  BY <1>1, <1>2, <1>3, <1>4, AnswerStep
<1> QED BY <1>2, <1>4, <1>5

LEMMA CaptureStep ==
  ASSUME Typed, CaptureArrived
  PROVE  Typed' /\ Applied("Capture") /\ UNCHANGED <<pending, acked>>
<1> DEFINE content == Head(results).content
<1>1. /\ group \in Groups
      /\ {label, selected, pending, before} \subseteq Titles
      /\ acked \in BOOLEAN /\ validating \in BOOLEAN /\ recent \in BOOLEAN
      /\ lost \in BOOLEAN
      /\ saved = Forgotten \/ saved \in [group : Groups, title : Playlists,
                                         fingerprint : Contents \ {Empty}]
  BY DEF Typed, TypeOK, Titles
<1>2. content \in Contents
  BY ReceivedTyped DEF CaptureArrived, Answers
<1>3. saved' = IF content = Empty \/ selected = None THEN saved
               ELSE [group |-> group, title |-> selected,
                     fingerprint |-> content]
  BY DEF CaptureArrived
<1>4. saved' = saved \/ saved' \in [group : Groups, title : Playlists,
                                    fingerprint : Contents \ {Empty}]
  <2> HIDE DEF content
  <2>1. CASE content = Empty \/ selected = None
    BY <1>3, <2>1
  <2>2. CASE ~(content = Empty \/ selected = None)
    <3>1. selected \in Playlists /\ content \in Contents \ {Empty}
      BY <1>1, <1>2, <2>2 DEF Titles
    <3> QED BY <1>1, <1>3, <2>2, <3>1
  <2> QED BY <2>1, <2>2
<1>5. UNCHANGED <<label, selected, pending, before, acked, validating, recent,
                  commands, lost>>
      /\ Received("Capture", TRUE)
  BY DEF CaptureArrived, start
<1>6. CommandsTyped
  BY <1>5, QuietCommands
<1> QED BY <1>1, <1>4, <1>5, <1>6, AnswerStep

LEMMA ValidatedStep ==
  ASSUME Typed, ValidationArrived
  PROVE  Typed' /\ Applied("Validate") /\ UNCHANGED <<pending, acked>>
<1>1. /\ {label, selected, pending, before} \subseteq Titles /\ None \in Titles
      /\ acked \in BOOLEAN /\ recent \in BOOLEAN /\ lost \in BOOLEAN
      /\ saved = Forgotten \/ saved \in [group : Groups, title : Playlists,
                                         fingerprint : Contents \ {Empty}]
  BY DEF Typed, TypeOK, Titles
<1>2. saved.title \in Titles
  BY <1>1 DEF Forgotten, Titles
<1>3. /\ UNCHANGED <<pending, before, acked, recent, commands, lost>>
      /\ validating' = FALSE /\ Received("Validate", TRUE)
      /\ saved' = saved \/ saved' = Forgotten
      /\ selected' \in {saved.title, None}
      /\ label' \in {saved.title, label, None}
  BY DEF ValidationArrived, start
<1>4. CommandsTyped
  BY <1>3, QuietCommands
<1> QED BY <1>1, <1>2, <1>3, <1>4, AnswerStep

LEMMA ValidationFailedStep ==
  ASSUME Typed, ValidationFailed
  PROVE  Typed' /\ Applied("Validate") /\ UNCHANGED <<pending, acked>>
<1>1. /\ {label, selected, pending, before} \subseteq Titles
      /\ acked \in BOOLEAN /\ recent \in BOOLEAN /\ lost \in BOOLEAN
      /\ saved = Forgotten \/ saved \in [group : Groups, title : Playlists,
                                         fingerprint : Contents \ {Empty}]
  BY DEF Typed, TypeOK, Titles
<1>2. /\ UNCHANGED <<label, selected, pending, before, acked, saved, recent,
                     commands, lost>>
      /\ validating' = FALSE /\ Received("Validate", FALSE)
  BY DEF ValidationFailed, start
<1>3. CommandsTyped
  BY <1>2, QuietCommands
<1> QED BY <1>1, <1>2, <1>3, AnswerStep
-----------------------------------------------------------------------------
(* The theorems *)

\* Every step, whatever it does, ends the pending start, or keeps it while the
\* queues hold it, or has just sent it.
LEMMA NextStep ==
  ASSUME Typed, Next
  PROVE  /\ Typed'
         /\ PendingIsUnderWay => PendingIsUnderWay'
<1>1. PendingIsUnderWay <=>
        (pending # None => acked \/ Holds(commands, pending)
                             \/ Holds(results, pending) \/ lost)
  BY DEF PendingIsUnderWay, Queued, Holds
<1>2. PendingIsUnderWay' <=>
        (pending' # None => acked' \/ Holds(commands', pending')
                              \/ Holds(results', pending') \/ lost')
  BY DEF PendingIsUnderWay, Queued, Holds
<1>3. CASE StartPlaylist
  BY <1>2, <1>3, StartPlaylistStep
<1>4. CASE StartOther
  BY <1>1, <1>2, <1>4, StartOtherStep
<1>5. CASE SwitchGroup \/ Restart
  BY <1>2, <1>5, SwitchGroupStep, RestartStep
<1>6. CASE Worker
  <2>1. Typed' /\ Moved
    BY <1>6, WorkerStep
  <2> QED BY <1>1, <1>2, <2>1 DEF Moved, view, start
<1>7. CASE PlaybackArrived
  BY <1>1, <1>2, <1>7, PlaybackStep DEF Applied
<1>8. ASSUME NEW type \in Starts, StartAcknowledged(type)
      PROVE  Typed' /\ (PendingIsUnderWay => PendingIsUnderWay')
  BY <1>1, <1>2, <1>8, AcknowledgedStep DEF Applied
<1>9. ASSUME NEW type \in Starts, StartRefused(type)
      PROVE  Typed' /\ (PendingIsUnderWay => PendingIsUnderWay')
  BY <1>1, <1>2, <1>9, RefusedStep DEF Applied
<1>10. CASE DirectAnswered
  <2>1. PICK type : type # "Start" /\ Applied(type)
    BY <1>10, DirectAnsweredStep
  <2> QED BY <1>1, <1>2, <1>10, <2>1, DirectAnsweredStep DEF Applied
<1>11. CASE CaptureArrived
  BY <1>1, <1>2, <1>11, CaptureStep DEF Applied
<1>12. CASE ValidationArrived
  BY <1>1, <1>2, <1>12, ValidatedStep DEF Applied
<1>13. CASE ValidationFailed
  BY <1>1, <1>2, <1>13, ValidationFailedStep DEF Applied
<1>14. CASE PollTimer
  BY <1>1, <1>2, <1>14, PollTimerStep
<1>15. CASE ValidationDue
  <2>1. Typed'
    BY <1>15 DEF Typed, TypeOK, NamedIsPlaylist, ValidationDue, household, start,
                 bounds
  <2> QED BY <1>1, <1>2, <1>15, <2>1 DEF ValidationDue, start
<1>16. CASE ChangeElsewhere
  BY <1>1, <1>2, <1>16, ChangeElsewhereStep
<1> QED BY <1>3, <1>4, <1>5, <1>6, <1>7, <1>8, <1>9, <1>10, <1>11, <1>12,
           <1>13, <1>14, <1>15, <1>16
        DEF Next, User, ApplyResult

LEMMA StutterStep ==
  ASSUME Typed, UNCHANGED vars
  PROVE  Typed' /\ (PendingIsUnderWay => PendingIsUnderWay')
BY DEF Typed, TypeOK, NamedIsPlaylist, PendingIsUnderWay, Queued, vars,
       household, view, start, memory, bounds

\* The remote's and the household's state keep their types: only a title that
\* belongs to a queue is remembered, never with an empty fingerprint.
THEOREM TypeCorrect == Spec => []TypeOK
<1>1. Init => Typed
  BY InitTyped
<1>2. Typed /\ [Next]_vars => Typed'
  BY NextStep, StutterStep
<1>3. Typed => TypeOK
  BY DEF Typed
<1> QED BY <1>1, <1>2, <1>3, PTL DEF Spec

\* A start that holds the label is in one of the queues or was acknowledged,
\* unless a full queue lost its answer: apply_result's rollback and
\* select_group end every start whose answer can no longer come.
THEOREM NoOrphanedStart == Spec => []PendingIsUnderWay
<1> DEFINE Inv == Typed /\ PendingIsUnderWay
<1>1. Init => Inv
  BY InitTyped DEF PendingIsUnderWay
<1>2. Inv /\ [Next]_vars => Inv'
  BY NextStep, StutterStep
<1>3. Inv => PendingIsUnderWay
  OBVIOUS
<1> QED BY <1>1, <1>2, <1>3, PTL DEF Spec
=============================================================================
