-------------------------- MODULE ConnectionProofs --------------------------
(***************************************************************************)
(* Safety of Connection for every capacity, every threshold below it,      *)
(* every size of the selected group and every bound of the model.          *)
(***************************************************************************)
EXTENDS Connection, FiniteSetTheorems, SequenceTheorems, TLAPS

Messages == Command \cup Result

\* The positions that Count counts.
At(s, types) == {i \in DOMAIN s : s[i].type \in types}

LEMMA MessagesHold == Seq(Command) \subseteq Seq(Messages)
                      /\ Seq(Result) \subseteq Seq(Messages)
BY SeqMonotonic DEF Messages
-----------------------------------------------------------------------------
(* Counting in a queue *)

LEMMA CountIsNat ==
  ASSUME NEW s \in Seq(Messages), NEW types
  PROVE  /\ IsFiniteSet(At(s, types))
         /\ Count(s, types) = Cardinality(At(s, types))
         /\ Count(s, types) \in Nat
         /\ Count(s, types) > 0 <=> \E i \in DOMAIN s : s[i].type \in types
<1>1. DOMAIN s = 1..Len(s) /\ Len(s) \in Nat
  OBVIOUS
<1>2. IsFiniteSet(At(s, types))
  <2>1. IsFiniteSet(1..Len(s))
    BY <1>1, FS_Interval
  <2>2. At(s, types) \subseteq 1..Len(s)
    BY <1>1 DEF At
  <2> QED BY <2>1, <2>2, FS_Subset
<1>3. Count(s, types) = Cardinality(At(s, types))
  BY DEF Count, At
<1>4. Cardinality(At(s, types)) \in Nat
  BY <1>2, FS_CardinalityType
<1>5. Cardinality(At(s, types)) = 0 <=> At(s, types) = {}
  BY <1>2, FS_EmptySet
<1>6. At(s, types) = {} <=> ~\E i \in DOMAIN s : s[i].type \in types
  BY DEF At
<1> QED BY <1>2, <1>3, <1>4, <1>5, <1>6

LEMMA CountEmpty == \A types : Count(<<>>, types) = 0
<1> SUFFICES ASSUME NEW types PROVE Count(<<>>, types) = 0
  OBVIOUS
<1>1. {i \in DOMAIN <<>> : <<>>[i].type \in types} = {}
  OBVIOUS
<1> QED BY <1>1, FS_EmptySet DEF Count

LEMMA CountAppend ==
  ASSUME NEW s \in Seq(Messages), NEW m \in Messages, NEW types
  PROVE  Count(Append(s, m), types)
           = Count(s, types) + (IF m.type \in types THEN 1 ELSE 0)
<1> DEFINE n == Len(s) + 1
           t == Append(s, m)
<1>1. /\ t \in Seq(Messages) /\ DOMAIN t = 1..n /\ DOMAIN s = 1..Len(s)
      /\ Len(s) \in Nat /\ t[n] = m /\ \A i \in DOMAIN s : t[i] = s[i]
  OBVIOUS
<1>2. /\ IsFiniteSet(At(s, types)) /\ n \notin At(s, types)
      /\ Count(s, types) = Cardinality(At(s, types))
      /\ Count(s, types) \in Nat /\ Count(t, types) = Cardinality(At(t, types))
  <2>1. n \notin At(s, types)
    BY <1>1 DEF At
  <2> HIDE DEF n, t
  <2> QED BY <1>1, <2>1, CountIsNat
<1>3. CASE m.type \in types
  <2>1. At(t, types) = At(s, types) \cup {n}
    BY <1>1, <1>3 DEF At
  <2> QED BY <1>2, <1>3, <2>1, FS_AddElement
<1>4. CASE m.type \notin types
  <2>1. At(t, types) = At(s, types)
    BY <1>1, <1>4 DEF At
  <2> QED BY <1>2, <1>4, <2>1
<1> QED BY <1>3, <1>4

LEMMA CountTail ==
  ASSUME NEW s \in Seq(Messages), s # <<>>, NEW types
  PROVE  Count(s, types)
           = Count(Tail(s), types) + (IF Head(s).type \in types THEN 1 ELSE 0)
<1> DEFINE t == Tail(s)
           A == At(t, types)
           B == At(s, types) \ {1}
           f == [i \in A |-> i + 1]
<1>1. /\ t \in Seq(Messages) /\ Len(s) \in Nat /\ Len(s) > 0
      /\ DOMAIN s = 1..Len(s) /\ DOMAIN t = 1..(Len(s) - 1)
      /\ Head(s) = s[1] /\ \A i \in DOMAIN t : t[i] = s[i + 1]
  OBVIOUS
<1>2. A \subseteq 1..(Len(s) - 1) /\ B \subseteq 2..Len(s)
  BY <1>1 DEF At
<1>3. \A i \in A : i + 1 \in B
  BY <1>1 DEF At
<1>4. \A j \in B : j - 1 \in A
  <2> SUFFICES ASSUME NEW j \in B PROVE j - 1 \in A
    OBVIOUS
  <2>1. j \in 2..Len(s) /\ s[j].type \in types
    BY <1>2 DEF At
  <2>2. j - 1 \in DOMAIN t /\ t[j - 1] = s[j]
    BY <2>1, <1>1
  <2> QED BY <2>1, <2>2 DEF At
<1>5. /\ IsFiniteSet(A) /\ IsFiniteSet(At(s, types))
      /\ Count(t, types) = Cardinality(A) /\ Count(t, types) \in Nat
      /\ Count(s, types) = Cardinality(At(s, types))
  BY <1>1, CountIsNat
<1> HIDE DEF A, B, t
<1>6. f \in Surjection(A, B)
  <2>1. f \in [A -> B]
    BY <1>3
  <2>2. \A j \in B : j - 1 \in A /\ f[j - 1] = j
    BY <1>2, <1>4, <1>1
  <2> QED BY <2>1, <2>2 DEF Surjection
<1>7. f \in Injection(A, B)
  BY <1>2, <1>3, <1>1 DEF Injection, IsInjective
<1>8. Cardinality(B) = Cardinality(A)
  BY <1>5, <1>6, <1>7, FS_Surjection
<1>9. CASE Head(s).type \in types
  <2>1. At(s, types) = B \cup {1} /\ 1 \notin B
    BY <1>1, <1>9 DEF At, B
  <2>2. IsFiniteSet(B)
    BY <1>5, FS_Subset DEF B
  <2> QED BY <1>5, <1>8, <1>9, <2>1, <2>2, FS_AddElement DEF t
<1>10. CASE Head(s).type \notin types
  <2>1. At(s, types) = B
    BY <1>1, <1>10 DEF At, B
  <2> QED BY <1>5, <1>8, <1>10, <2>1 DEF t
<1> QED BY <1>9, <1>10

\* t is s with more messages behind it, none of them of these types.
Longer(s, t, types) ==
  /\ Len(s) <= Len(t)
  /\ \A i \in 1..Len(s) : t[i] = s[i]
  /\ \A i \in (Len(s) + 1)..Len(t) : t[i].type \notin types

LEMMA CountLonger ==
  ASSUME NEW s \in Seq(Messages), NEW t \in Seq(Messages), NEW types,
         Longer(s, t, types)
  PROVE  Count(t, types) = Count(s, types)
<1>1. At(t, types) = At(s, types)
  BY DEF At, Longer
<1> QED BY <1>1, CountIsNat
-----------------------------------------------------------------------------
(* What the operators do to the queues *)

LEMMA PushType ==
  ASSUME NEW S, NEW s \in Seq(S), NEW m \in S, NEW c \in Nat, Len(s) <= c
  PROVE  /\ PushIfRoom(s, c, m) \in Seq(S)
         /\ Len(PushIfRoom(s, c, m)) <= c
         /\ PushIfRoom(s, c, m) = IF HasRoom(s, c) THEN Append(s, m) ELSE s
BY DEF PushIfRoom, HasRoom

\* select_group adds a poll and volume requests, as many as there is room for.
LEMMA AskedType ==
  ASSUME TypeOK, NEW a \in Addresses \cup {Nobody}, AskSelectedGroup(a)
  PROVE  /\ commands' \in Seq(Command) /\ Len(commands') <= Capacity
         /\ Longer(commands, commands', {"Discover", "Discovery"})
<1> DEFINE others == [i \in 1..GroupSize |-> Other]
           asked == <<To("Poll", a)>> \o others
           room == Capacity - Len(commands)
           n == IF room < Len(asked) THEN room ELSE Len(asked)
           added == SubSeq(asked, 1, n)
           Quiet == {c \in Command : c.type \in {"Poll", "Other"}}
<1>1. others \in Seq(Quiet)
  <2>1. Other \in Quiet
    BY DEF Other, Command
  <2> QED BY <2>1, LimitsAreNat
<1>2. <<To("Poll", a)>> \in Seq(Quiet)
  BY DEF To, Command
<1> HIDE DEF others
<1>3. asked \in Seq(Quiet)
  BY <1>1, <1>2, ConcatProperties
<1>4. Len(asked) \in Nat /\ \A i \in 1..Len(asked) : asked[i] \in Quiet
  BY <1>3
<1>5. commands \in Seq(Command) /\ Len(commands) \in Nat /\ room \in Nat
  BY LimitsAreNat DEF TypeOK
<1> HIDE DEF asked
<1>6. n \in Nat /\ n <= Len(asked) /\ n <= room
  BY <1>4, <1>5
<1> HIDE DEF n
<1>7. added \in Seq(Quiet) /\ Len(added) = n
  <2>1. \A i \in 1..n : asked[i] \in Quiet
    BY <1>4, <1>6
  <2> QED BY <2>1, <1>6, SubSeqProperties
<1> HIDE DEF added
<1>8. added \in Seq(Command)
  BY <1>7, SeqMonotonic
<1>9. commands' = commands \o added
  BY DEF AskSelectedGroup, added, n, asked, others, room
<1>10. /\ commands' \in Seq(Command)
       /\ Len(commands') = Len(commands) + n
       /\ \A i \in 1..Len(commands') :
            commands'[i] = IF i <= Len(commands) THEN commands[i]
                           ELSE added[i - Len(commands)]
  <2>1. /\ commands \o added \in Seq(Command)
        /\ Len(commands \o added) = Len(commands) + Len(added)
        /\ \A i \in 1..(Len(commands) + Len(added)) :
             (commands \o added)[i] = IF i <= Len(commands) THEN commands[i]
                                      ELSE added[i - Len(commands)]
    BY <1>5, <1>8, ConcatProperties
  <2> QED BY <2>1, <1>7, <1>9
<1>11. \A i \in (Len(commands) + 1)..Len(commands') :
         commands'[i].type \in {"Poll", "Other"}
  <2> SUFFICES ASSUME NEW i \in (Len(commands) + 1)..Len(commands')
               PROVE  commands'[i].type \in {"Poll", "Other"}
    OBVIOUS
  <2>1. i - Len(commands) \in 1..Len(added)
    BY <1>5, <1>6, <1>7, <1>10
  <2>2. added[i - Len(commands)] \in Quiet
    BY <2>1, <1>7
  <2> QED BY <2>2, <1>10, <1>5, <1>6
<1>12. Len(commands') <= Capacity
  BY <1>5, <1>6, <1>10, LimitsAreNat
<1>13. Longer(commands, commands', {"Discover", "Discovery"})
  <2>1. Len(commands) <= Len(commands')
    BY <1>5, <1>6, <1>10
  <2>2. \A i \in 1..Len(commands) : commands'[i] = commands[i]
    BY <1>5, <1>6, <1>10
  <2> QED BY <2>1, <2>2, <1>11 DEF Longer
<1> QED BY <1>10, <1>12, <1>13

LEMMA CommandTypes ==
  /\ Discover \in Command /\ Other \in Command
  /\ \A a \in Addresses \cup {Nobody} :
       To("Poll", a) \in Command /\ To("RefreshTopology", a) \in Command
BY DEF Discover, Other, To, Command

LEMMA EnqueueType ==
  ASSUME TypeOK, NEW c \in Command, Enqueue(c)
  PROVE  commands' \in Seq(Command) /\ Len(commands') <= Capacity
BY PushType, LimitsAreNat DEF TypeOK, Enqueue

LEMMA BeginDiscoveryType ==
  ASSUME TypeOK, BeginDiscovery
  PROVE  /\ commands' \in Seq(Command) /\ Len(commands') <= Capacity
         /\ discovering' \in BOOLEAN /\ dropped' \in BOOLEAN
<1>1. Enqueue(Discover)
  BY DEF BeginDiscovery, Enqueue
<1> QED BY <1>1, EnqueueType, CommandTypes DEF BeginDiscovery, HasRoom

LEMMA RequestPollType ==
  ASSUME TypeOK, RequestPoll
  PROVE  commands' \in Seq(Command) /\ Len(commands') <= Capacity
<1>1. CASE HasCoordinator
  BY <1>1, EnqueueType, CommandTypes DEF RequestPoll, TypeOK
<1>2. CASE ~HasCoordinator
  BY <1>2 DEF RequestPoll, TypeOK
<1> QED BY <1>1, <1>2

LEMMA HeadOfResults ==
  ASSUME TypeOK, results # <<>>
  PROVE  /\ Head(results) \in Result /\ Tail(results) \in Seq(Result)
         /\ Len(Tail(results)) <= ResultCapacity
         /\ Head(results).address \in Addresses \cup {Nobody}
<1>1. results \in Seq(Result) /\ Len(results) <= ResultCapacity
  BY DEF TypeOK
<1>2. Head(results) \in Result /\ Tail(results) \in Seq(Result)
      /\ Len(Tail(results)) = Len(results) - 1 /\ Len(results) \in Nat
  BY <1>1, HeadTailProperties
<1>3. Head(results).address \in Addresses \cup {Nobody}
  BY <1>2 DEF Result
<1> QED BY <1>1, <1>2, <1>3, LimitsAreNat

LEMMA AnswerType ==
  ASSUME TypeOK, NEW c \in Command
  PROVE  /\ Answer(c) \in Result
         /\ c.type = "Discover" => Answer(c).type = "Discovery"
         /\ c.type = "RefreshTopology" => Answer(c).type = "Topology"
         /\ c.type = "Poll" => Answer(c).type = "Playback"
         /\ c.type = "Other" => Answer(c).type = "Other"
BY DEF TypeOK, Answer, Result, Command, Reached

LEMMA TakeType ==
  ASSUME TypeOK, TakeCommand
  PROVE  /\ commands' \in Seq(Command) /\ Len(commands') <= Capacity
         /\ Head(commands) \in Command
         /\ working' \in Seq(Command) /\ Len(working') <= 1
<1>1. commands \in Seq(Command) /\ Len(commands) <= Capacity /\ commands # <<>>
  BY DEF TypeOK, TakeCommand
<1>2. Head(commands) \in Command /\ Tail(commands) \in Seq(Command)
      /\ Len(Tail(commands)) = Len(commands) - 1 /\ Len(commands) \in Nat
  BY <1>1, HeadTailProperties
<1>3. commands' = Tail(commands) /\ working' = <<Head(commands)>>
  BY DEF TakeCommand
<1>4. <<Head(commands)>> \in Seq(Command) /\ Len(<<Head(commands)>>) = 1
  BY <1>2
<1> QED BY <1>1, <1>2, <1>3, <1>4, LimitsAreNat

LEMMA FinishType ==
  ASSUME TypeOK, FinishCommand
  PROVE  /\ working[1] \in Command /\ working = <<working[1]>>
         /\ results' \in Seq(Result) /\ Len(results') <= ResultCapacity
         /\ working' \in Seq(Command) /\ Len(working') <= 1
<1>1. working \in Seq(Command) /\ working # <<>> /\ Len(working) <= 1
  BY DEF TypeOK, FinishCommand
<1>2. Len(working) = 1 /\ working[1] \in Command
  <2>1. Len(working) \in Nat /\ Len(working) # 0
    BY <1>1, EmptySeq
  <2>2. Len(working) = 1
    BY <1>1, <2>1
  <2> QED BY <1>1, <2>2, ElementOfSeq
<1>3. working = <<working[1]>>
  <2>1. <<working[1]>> \in Seq(Command) /\ Len(<<working[1]>>) = 1
    BY <1>2
  <2>2. \A i \in 1..1 : working[i] = <<working[1]>>[i]
    OBVIOUS
  <2> QED BY <1>1, <1>2, <2>1, <2>2, SeqEqual
<1>4. Answer(working[1]) \in Result
  BY <1>2, AnswerType
<1>5. results' = PushIfRoom(results, ResultCapacity, Answer(working[1]))
  BY DEF FinishCommand
<1>6. results' \in Seq(Result) /\ Len(results') <= ResultCapacity
  BY <1>4, <1>5, PushType, LimitsAreNat DEF TypeOK
<1>7. working' = <<>>
  BY DEF FinishCommand
<1> QED BY <1>2, <1>3, <1>6, <1>7
-----------------------------------------------------------------------------
(* Type correctness *)

LEMMA WorkerTypes ==
  ASSUME TypeOK, TakeCommand \/ FinishCommand
  PROVE  TypeOK'
<1>1. CASE TakeCommand
  BY <1>1, TakeType DEF TypeOK, TakeCommand, ui, network
<1>2. CASE FinishCommand
  <2>1. dropped' \in BOOLEAN
    BY <1>2 DEF FinishCommand
  <2> QED BY <1>2, <2>1, FinishType DEF TypeOK, FinishCommand, ui, network
<1> QED BY <1>1, <1>2

LEMMA ApplyTypes ==
  ASSUME TypeOK, ApplyResult
  PROVE  TypeOK'
<1>1. results # <<>> /\ results' = Tail(results)
  BY DEF ApplyResult, DiscoverySucceeded, DiscoveryFailed, TopologySucceeded,
         TopologyFailed, PlaybackSucceeded, PlaybackFailed, OtherAnswered,
         Received
<1>2. /\ results' \in Seq(Result) /\ Len(results') <= ResultCapacity
      /\ Head(results).address \in Addresses \cup {Nobody}
  BY <1>1, HeadOfResults
<1>3. CASE DiscoverySucceeded
  <2>1. commands' \in Seq(Command) /\ Len(commands') <= Capacity
    BY <1>2, <1>3, EnqueueType, CommandTypes DEF DiscoverySucceeded
  <2> QED BY <1>2, <1>3, <2>1
             DEF TypeOK, DiscoverySucceeded, HasRoom, network
<1>4. CASE DiscoveryFailed
  BY <1>2, <1>4 DEF TypeOK, DiscoveryFailed, Screens, network
<1>5. CASE TopologySucceeded
  <2>1. commands' \in Seq(Command) /\ Len(commands') <= Capacity
    <3>1. CASE UNCHANGED commands
      BY <3>1 DEF TypeOK
    <3>2. CASE AskSelectedGroup(players')
      BY <1>2, <1>5, <3>2, AskedType DEF TopologySucceeded
    <3> QED BY <1>5, <3>1, <3>2 DEF TopologySucceeded
  <2> QED BY <1>2, <1>5, <2>1 DEF TypeOK, TopologySucceeded, Screens, network
<1>6. CASE TopologyFailed
  BY <1>2, <1>6 DEF TypeOK, TopologyFailed, Screens, network
<1>7. CASE PlaybackSucceeded
  BY <1>2, <1>7 DEF TypeOK, PlaybackSucceeded, network
<1>8. CASE PlaybackFailed
  <2>1. commands' \in Seq(Command) /\ Len(commands') <= Capacity
    <3>1. CASE UNCHANGED commands
      BY <3>1 DEF TypeOK
    <3>2. CASE Enqueue(To("RefreshTopology", players))
      BY <3>2, EnqueueType, CommandTypes DEF TypeOK
    <3> QED BY <1>8, <3>1, <3>2 DEF PlaybackFailed
  <2>2. pollFailures' \in 0..2
    BY <1>8 DEF TypeOK, PlaybackFailed
  <2> QED BY <1>2, <1>8, <2>1, <2>2 DEF TypeOK, PlaybackFailed, network
<1>9. CASE OtherAnswered
  BY <1>2, <1>9 DEF TypeOK, OtherAnswered, ui, network
<1> QED BY <1>3, <1>4, <1>5, <1>6, <1>7, <1>8, <1>9 DEF ApplyResult

LEMMA TimerTypes ==
  ASSUME TypeOK, RetryDiscovery \/ PollTimer \/ TopologyTimer
  PROVE  TypeOK'
<1>1. CASE RetryDiscovery
  BY <1>1, BeginDiscoveryType DEF TypeOK, RetryDiscovery, network
<1>2. CASE PollTimer
  BY <1>2, RequestPollType DEF TypeOK, PollTimer, ui, network
<1>3. CASE TopologyTimer
  <2>1. commands' \in Seq(Command) /\ Len(commands') <= Capacity
    BY <1>3, EnqueueType, CommandTypes DEF TypeOK, TopologyTimer
  <2> QED BY <1>3, <2>1 DEF TypeOK, TopologyTimer, ui, network
<1> QED BY <1>1, <1>2, <1>3

LEMMA UserTypes ==
  ASSUME TypeOK, User
  PROVE  TypeOK'
<1>1. presses' \in 0..MaxPresses
  BY LimitsAreNat
     DEF TypeOK, User, FindAgain, Forget, Leave, SelectRoom, Key, Press
<1>2. CASE FindAgain
  BY <1>1, <1>2, BeginDiscoveryType DEF TypeOK, FindAgain, Screens, network
<1>3. CASE Forget
  BY <1>1, <1>3, BeginDiscoveryType DEF TypeOK, Forget, Screens, network
<1>4. CASE Leave
  <2>1. commands' \in Seq(Command) /\ Len(commands') <= Capacity
    <3>1. CASE UNCHANGED commands
      BY <3>1 DEF TypeOK
    <3>2. CASE RequestPoll
      BY <3>2, RequestPollType
    <3> QED BY <1>4, <3>1, <3>2 DEF Leave
  <2> QED BY <1>1, <1>4, <2>1 DEF TypeOK, Leave, Screens, network
<1>5. CASE SelectRoom
  <2>1. commands' \in Seq(Command) /\ Len(commands') <= Capacity
    <3>1. CASE UNCHANGED commands
      BY <3>1 DEF TypeOK
    <3>2. CASE AskSelectedGroup(players)
      BY <3>2, AskedType DEF TypeOK
    <3> QED BY <1>5, <3>1, <3>2 DEF SelectRoom
  <2> QED BY <1>1, <1>5, <2>1 DEF TypeOK, SelectRoom, Screens, network
<1>6. CASE Key
  <2>1. commands' \in Seq(Command) /\ Len(commands') <= Capacity
    BY <1>6, EnqueueType, CommandTypes DEF Key
  <2> QED BY <1>1, <1>6, <2>1 DEF TypeOK, Key, ui, network
<1> QED BY <1>2, <1>3, <1>4, <1>5, <1>6 DEF User

LEMMA NetworkTypes ==
  ASSUME TypeOK, Network
  PROVE  TypeOK'
<1>1. CASE NetworkDown
  <2>1. outages' \in 0..MaxOutages
    BY <1>1, LimitsAreNat DEF TypeOK, NetworkDown
  <2> QED BY <1>1, <2>1 DEF TypeOK, NetworkDown, ui
<1>2. CASE NetworkUp
  BY <1>2 DEF TypeOK, NetworkUp, ui
<1>3. CASE MoveHousehold
  <2>1. epoch' \in Addresses
    BY <1>3, LimitsAreNat DEF TypeOK, MoveHousehold, Addresses
  <2> QED BY <1>3, <2>1 DEF TypeOK, MoveHousehold, ui
<1> QED BY <1>1, <1>2, <1>3 DEF Network

\* Neither queue outgrows its capacity, however many requests select_group
\* makes; poll_failures_ stops at 2.
THEOREM TypeCorrect == Spec => []TypeOK
<1>1. Init => TypeOK
  <2> SUFFICES ASSUME Init PROVE TypeOK
    OBVIOUS
  <2>1. <<Discover>> \in Seq(Command) /\ Len(<<Discover>>) = 1
    BY CommandTypes
  <2>2. Capacity \in Nat /\ 1 <= Capacity /\ ResultCapacity \in Nat
    BY LimitsAreNat, ThresholdsInCapacity
  <2>3. 0 \in Addresses /\ 0 \in 0..MaxPresses /\ 0 \in 0..MaxOutages
    BY LimitsAreNat DEF Addresses
  <2>4. /\ commands \in Seq(Command) /\ Len(commands) <= Capacity
        /\ working \in Seq(Command) /\ Len(working) <= 1
        /\ results \in Seq(Result) /\ Len(results) <= ResultCapacity
    BY <2>1, <2>2, EmptySeq DEF Init
  <2>5. pollFailures \in 0..2
    BY DEF Init
  <2> QED BY <2>3, <2>4, <2>5 DEF Init, TypeOK, Screens
<1>2. TypeOK /\ [Next]_vars => TypeOK'
  <2>1. TypeOK /\ UNCHANGED vars => TypeOK'
    BY DEF TypeOK, vars, ui, network
  <2> QED BY <2>1, WorkerTypes, ApplyTypes, TimerTypes, UserTypes, NetworkTypes
          DEF Next
<1> QED BY <1>1, <1>2, PTL DEF Spec
-----------------------------------------------------------------------------
(* What leads to a topology, and where it stands among the polls.  A poll  *)
(* that succeeds after the household was forgotten sets view_.connected,   *)
(* which stops the retry timer.  No plan is lost by it, because whatever   *)
(* polls are still on their way then are followed by a discovery or a      *)
(* topology request: no more are sent while there are no groups, and the   *)
(* queues keep their order.                                                *)

Searches == {"Discover", "Discovery"}
Refreshes == {"RefreshTopology", "Topology"}
Leads == Searches \cup Refreshes
Polls == {"Poll", "Playback"}

Has(s, types) == \E i \in DOMAIN s : s[i].type \in types
UnderWay(types) ==
  Has(commands, types) \/ Has(working, types) \/ Has(results, types)

\* Every poll of s has a lead behind it in s.
Followed(s) ==
  \A i \in DOMAIN s : s[i].type \in Polls =>
    \E j \in DOMAIN s : i < j /\ s[j].type \in Leads

\* Every poll on its way has a lead behind it.
PollsFollowed ==
  /\ Followed(commands)
  /\ Followed(working) \/ Has(commands, Leads)
  /\ Followed(results) \/ Has(working, Leads) \/ Has(commands, Leads)

Chased == ~groups /\ ~dropped => PollsFollowed
Served == discovering => UnderWay(Searches) \/ dropped
Planned ==
  ~groups => \/ UnderWay(Leads)
             \/ retryArmed /\ ~connected /\ ~discovering
             \/ dropped

LEMMA HasAppend ==
  ASSUME NEW s \in Seq(Messages), NEW m \in Messages, NEW types
  PROVE  Has(Append(s, m), types) <=> Has(s, types) \/ m.type \in types
<1>1. /\ DOMAIN Append(s, m) = 1..(Len(s) + 1) /\ DOMAIN s = 1..Len(s)
      /\ Len(s) \in Nat /\ Append(s, m)[Len(s) + 1] = m
      /\ \A i \in 1..Len(s) : Append(s, m)[i] = s[i]
  OBVIOUS
<1>2. ASSUME Has(s, types) PROVE Has(Append(s, m), types)
  BY <1>1, <1>2 DEF Has
<1>3. ASSUME m.type \in types PROVE Has(Append(s, m), types)
  BY <1>1, <1>3 DEF Has
<1>4. ASSUME Has(Append(s, m), types) PROVE Has(s, types) \/ m.type \in types
  BY <1>1, <1>4 DEF Has
<1> QED BY <1>2, <1>3, <1>4

LEMMA TailFacts ==
  ASSUME NEW s \in Seq(Messages), s # <<>>
  PROVE  /\ Tail(s) \in Seq(Messages) /\ Len(s) \in Nat \ {0}
         /\ DOMAIN s = 1..Len(s) /\ DOMAIN Tail(s) = 1..(Len(s) - 1)
         /\ Head(s) = s[1] /\ Head(s) \in Messages
         /\ \A i \in 1..(Len(s) - 1) : Tail(s)[i] = s[i + 1]
OBVIOUS

LEMMA HasTail ==
  ASSUME NEW s \in Seq(Messages), s # <<>>, NEW types
  PROVE  Has(s, types) <=> Has(Tail(s), types) \/ Head(s).type \in types
<1>1. ASSUME Has(Tail(s), types) PROVE Has(s, types)
  <2>1. PICK i \in 1..(Len(s) - 1) : s[i + 1].type \in types
    BY <1>1, TailFacts DEF Has
  <2>2. i + 1 \in DOMAIN s
    BY TailFacts
  <2> QED BY <2>1, <2>2 DEF Has
<1>2. ASSUME Head(s).type \in types PROVE Has(s, types)
  BY <1>2, TailFacts DEF Has
<1>3. ASSUME Has(s, types), Head(s).type \notin types
      PROVE  Has(Tail(s), types)
  <2>1. PICK i \in 1..Len(s) : s[i].type \in types
    BY <1>3, TailFacts DEF Has
  <2>2. i # 1 /\ Len(s) \in Nat
    BY <1>3, <2>1, TailFacts
  <2>3. i - 1 \in 1..(Len(s) - 1)
    BY <2>2
  <2>4. Tail(s)[i - 1] = s[(i - 1) + 1]
    BY <2>3, TailFacts
  <2>5. (i - 1) + 1 = i
    BY <2>1, <2>2
  <2>6. Tail(s)[i - 1] = s[i]
    BY <2>4, <2>5
  <2> QED BY <2>1, <2>3, <2>6, TailFacts DEF Has
<1> QED BY <1>1, <1>2, <1>3

LEMMA HasOne ==
  ASSUME NEW m, NEW types
  PROVE  Has(<<m>>, types) <=> m.type \in types
BY DEF Has

LEMMA HasNone == \A types : ~Has(<<>>, types)
BY DEF Has

LEMMA FollowedAppend ==
  ASSUME NEW s \in Seq(Messages), NEW m \in Messages,
         \/ m.type \in Leads
         \/ Followed(s) /\ m.type \notin Polls
  PROVE  Followed(Append(s, m))
<1> DEFINE t == Append(s, m)
<1>1. /\ DOMAIN t = 1..(Len(s) + 1) /\ DOMAIN s = 1..Len(s)
      /\ Len(s) \in Nat /\ t[Len(s) + 1] = m
      /\ \A i \in 1..Len(s) : t[i] = s[i]
  OBVIOUS
<1>2. m.type \notin Polls
  BY DEF Polls, Leads, Searches, Refreshes
<1> SUFFICES ASSUME NEW i \in DOMAIN t, t[i].type \in Polls
             PROVE  \E j \in DOMAIN t : i < j /\ t[j].type \in Leads
  BY DEF Followed
<1> HIDE DEF t
<1>3. i \in 1..Len(s)
  BY <1>1, <1>2
<1>4. CASE m.type \in Leads
  BY <1>1, <1>3, <1>4
<1>5. CASE Followed(s)
  <2>1. PICK j \in DOMAIN s : i < j /\ s[j].type \in Leads
    BY <1>1, <1>3, <1>5 DEF Followed
  <2> QED BY <1>1, <2>1
<1> QED BY <1>4, <1>5

LEMMA FollowedTail ==
  ASSUME NEW s \in Seq(Messages), s # <<>>, Followed(s)
  PROVE  /\ Followed(Tail(s))
         /\ Head(s).type \in Polls => Has(Tail(s), Leads)
<1> DEFINE n == Len(s)
           t == Tail(s)
<1>1. /\ n \in Nat \ {0} /\ DOMAIN s = 1..n /\ DOMAIN t = 1..(n - 1)
      /\ Head(s) = s[1] /\ \A i \in 1..(n - 1) : t[i] = s[i + 1]
  BY TailFacts
<1> HIDE DEF n, t
<1>2. ASSUME NEW i \in 1..n, s[i].type \in Polls
      PROVE  \E j \in 1..(n - 1) : i < j + 1 /\ t[j].type \in Leads
  <2>1. PICK j \in 1..n : i < j /\ s[j].type \in Leads
    BY <1>1, <1>2 DEF Followed
  <2>2. j - 1 \in 1..(n - 1) /\ (j - 1) + 1 = j
    BY <1>1, <2>1
  <2>3. t[j - 1] = s[j]
    BY <1>1, <2>2
  <2> QED BY <2>1, <2>2, <2>3
<1>3. ASSUME NEW i \in DOMAIN t, t[i].type \in Polls
      PROVE  \E j \in DOMAIN t : i < j /\ t[j].type \in Leads
  <2>1. i + 1 \in 1..n /\ s[i + 1].type \in Polls /\ i \in Nat
    BY <1>1, <1>3
  <2>2. PICK j \in 1..(n - 1) : i + 1 < j + 1 /\ t[j].type \in Leads
    BY <2>1, <1>2
  <2>3. j \in DOMAIN t /\ i < j
    BY <1>1, <2>1, <2>2
  <2> QED BY <2>2, <2>3
<1>4. ASSUME Head(s).type \in Polls PROVE Has(t, Leads)
  <2>1. 1 \in 1..n /\ s[1].type \in Polls
    BY <1>1, <1>4
  <2>2. PICK j \in 1..(n - 1) : 1 < j + 1 /\ t[j].type \in Leads
    BY <2>1, <1>2
  <2> QED BY <1>1, <2>2 DEF Has
<1> QED BY <1>3, <1>4 DEF Followed, t

LEMMA FollowedOne ==
  ASSUME NEW m, m.type \notin Polls
  PROVE  Followed(<<m>>)
BY DEF Followed

LEMMA FollowedNone == Followed(<<>>)
BY DEF Followed

\* Requests behind the others take nothing away.
LEMMA HasLonger ==
  ASSUME NEW s \in Seq(Messages), NEW t \in Seq(Messages), NEW types,
         NEW added, Longer(s, t, added), Has(s, types)
  PROVE  Has(t, types)
BY DEF Has, Longer

LEMMA LongerItself ==
  ASSUME NEW s \in Seq(Messages), NEW types
  PROVE  Longer(s, s, types)
BY DEF Longer

LEMMA LongerByPush ==
  ASSUME NEW s \in Seq(Messages), NEW c \in Nat, NEW m \in Messages,
         NEW types, m.type \notin types
  PROVE  Longer(s, PushIfRoom(s, c, m), types)
<1>1. CASE HasRoom(s, c)
  <2>1. PushIfRoom(s, c, m) = Append(s, m)
    BY <1>1 DEF PushIfRoom
  <2>2. /\ Len(Append(s, m)) = Len(s) + 1 /\ Len(s) \in Nat
        /\ Append(s, m)[Len(s) + 1] = m
        /\ \A i \in 1..Len(s) : Append(s, m)[i] = s[i]
    OBVIOUS
  <2>3. \A i \in (Len(s) + 1)..(Len(s) + 1) : i = Len(s) + 1
    BY <2>2
  <2> QED BY <2>1, <2>2, <2>3 DEF Longer
<1>2. CASE ~HasRoom(s, c)
  BY <1>2, LongerItself DEF PushIfRoom
<1> QED BY <1>1, <1>2

\* The queues of a state, as sequences of messages.
LEMMA QueueTypes ==
  ASSUME TypeOK
  PROVE  /\ commands \in Seq(Messages) /\ working \in Seq(Messages)
         /\ results \in Seq(Messages)
BY MessagesHold DEF TypeOK

LEMMA QueueTypesPrimed ==
  ASSUME TypeOK'
  PROVE  /\ commands' \in Seq(Messages) /\ working' \in Seq(Messages)
         /\ results' \in Seq(Messages)
BY MessagesHold DEF TypeOK

LEMMA NetworkIsOutside ==
  ASSUME Network
  PROVE  /\ UNCHANGED ui
         /\ UNCHANGED <<commands, working, results, presses, dropped>>
<1>1. CASE NetworkDown
  BY <1>1 DEF NetworkDown
<1>2. CASE NetworkUp
  BY <1>2 DEF NetworkUp
<1>3. CASE MoveHousehold
  BY <1>3 DEF MoveHousehold
<1> QED BY <1>1, <1>2, <1>3 DEF Network

Begins == RetryDiscovery \/ FindAgain \/ Forget
Applies == results # <<>> /\ results' = Tail(results)

\* The steps of the SDL thread and of the network leave the worker's command
\* alone, take at most the first result and queue commands behind the others;
\* only begin_discovery() queues a discovery.
LEMMA OutsideWorker ==
  ASSUME TypeOK, TypeOK',
         \/ ApplyResult \/ User \/ Network
         \/ RetryDiscovery \/ PollTimer \/ TopologyTimer
  PROVE  /\ working' = working
         /\ Longer(commands, commands', {})
         /\ Begins \/ Longer(commands, commands', Searches)
         /\ IF ApplyResult THEN Applies ELSE results' = results
<1> USE QueueTypes
<1>1. \A types : Longer(commands, commands, types)
  BY LongerItself
<1>2. Command \subseteq Messages /\ Capacity \in Nat
  BY LimitsAreNat DEF Messages
<1>3. ASSUME NEW c \in Command, Enqueue(c)
      PROVE  /\ Longer(commands, commands', {})
             /\ c.type \notin Searches => Longer(commands, commands', Searches)
  BY <1>2, <1>3, LongerByPush DEF Enqueue
<1>4. \A a \in Addresses \cup {Nobody} :
        /\ To("Poll", a) \in Command /\ To("Poll", a).type \notin Searches
        /\ To("RefreshTopology", a) \in Command
        /\ To("RefreshTopology", a).type \notin Searches
        /\ Other \in Command /\ Other.type \notin Searches
        /\ Discover \in Command
  BY CommandTypes DEF To, Other, Searches
<1>5. /\ players \in Addresses \cup {Nobody}
      /\ players' \in Addresses \cup {Nobody}
  BY DEF TypeOK
<1>6. ASSUME AskSelectedGroup(players')
      PROVE  Longer(commands, commands', {}) /\ Longer(commands, commands', Searches)
  BY <1>5, <1>6, AskedType DEF Longer, Searches
<1>7. ASSUME AskSelectedGroup(players)
      PROVE  Longer(commands, commands', {}) /\ Longer(commands, commands', Searches)
  BY <1>5, <1>7, AskedType DEF Longer, Searches
<1>8. ASSUME RequestPoll
      PROVE  Longer(commands, commands', {}) /\ Longer(commands, commands', Searches)
  BY <1>1, <1>3, <1>4, <1>5, <1>8 DEF RequestPoll
<1>9. ASSUME BeginDiscovery PROVE Longer(commands, commands', {})
  BY <1>3, <1>4, <1>5, <1>9 DEF BeginDiscovery, Enqueue
<1>10. CASE ApplyResult
  <2>1. Applies /\ working' = working
    BY <1>10 DEF ApplyResult, DiscoverySucceeded, DiscoveryFailed,
         TopologySucceeded, TopologyFailed, PlaybackSucceeded, PlaybackFailed,
         OtherAnswered, Received, Applies, ui, network
  <2>2. \/ UNCHANGED commands \/ AskSelectedGroup(players')
        \/ Enqueue(To("RefreshTopology", players'))
        \/ Enqueue(To("RefreshTopology", players))
    BY <1>10 DEF ApplyResult, DiscoverySucceeded, DiscoveryFailed,
         TopologySucceeded, TopologyFailed, PlaybackSucceeded, PlaybackFailed,
         OtherAnswered
  <2>3. Longer(commands, commands', {}) /\ Longer(commands, commands', Searches)
    BY <1>1, <1>3, <1>4, <1>5, <1>6, <2>2
  <2> QED BY <1>10, <2>1, <2>3
<1>11. CASE (\/ User \/ Network
             \/ RetryDiscovery \/ PollTimer \/ TopologyTimer) /\ ~ApplyResult
  <2>1. results' = results /\ working' = working
    BY <1>11 DEF User, FindAgain, Forget, Leave, SelectRoom, Key, Network,
         NetworkDown, NetworkUp, MoveHousehold, RetryDiscovery, PollTimer,
         TopologyTimer
  <2>2. \/ UNCHANGED commands \/ AskSelectedGroup(players) \/ RequestPoll
        \/ Enqueue(To("RefreshTopology", players)) \/ Enqueue(Other)
        \/ Begins /\ BeginDiscovery
    BY <1>11 DEF User, FindAgain, Forget, Leave, SelectRoom, Key, Network,
         NetworkDown, NetworkUp, MoveHousehold, RetryDiscovery, PollTimer,
         TopologyTimer, Begins
  <2>3. /\ Longer(commands, commands', {})
        /\ Begins \/ Longer(commands, commands', Searches)
    BY <1>1, <1>3, <1>4, <1>5, <1>7, <1>8, <1>9, <2>2
  <2> QED BY <1>11, <2>1, <2>3
<1> QED BY <1>10, <1>11

\* Such a step keeps what is under way, but for the result it applies.
LEMMA UnderWayKept ==
  ASSUME TypeOK, TypeOK', NEW types, UnderWay(types),
         working' = working, Longer(commands, commands', {}),
         \/ results' = results
         \/ Applies /\ Head(results).type \notin types
  PROVE  UnderWay(types)'
<1> USE QueueTypes, QueueTypesPrimed
<1>1. CASE Has(commands, types)
  BY <1>1, HasLonger DEF UnderWay
<1>2. CASE Has(working, types)
  BY <1>2 DEF UnderWay
<1>3. CASE Has(results, types)
  <2>1. CASE results' = results
    BY <1>3, <2>1 DEF UnderWay
  <2>2. CASE Applies /\ Head(results).type \notin types
    <3>1. results # <<>> /\ results' = Tail(results)
      BY <2>2 DEF Applies
    <3>2. Has(Tail(results), types)
      BY <1>3, <2>2, <3>1, HasTail
    <3> QED BY <3>1, <3>2 DEF UnderWay
  <2> QED BY <2>1, <2>2
<1> QED BY <1>1, <1>2, <1>3 DEF UnderWay

\* The worker keeps it too, unless the result queue is full.
LEMMA WorkerKeeps ==
  ASSUME TypeOK, TypeOK', TakeCommand \/ FinishCommand,
         NEW types \in {Searches, Leads}, UnderWay(types)
  PROVE  UnderWay(types)' \/ dropped'
<1> USE QueueTypes, QueueTypesPrimed
<1>1. CASE TakeCommand
  <2>1. /\ commands # <<>> /\ commands' = Tail(commands)
        /\ working = <<>> /\ working' = <<Head(commands)>>
        /\ results' = results
    BY <1>1 DEF TakeCommand
  <2>2. Has(commands, types) => Has(working', types) \/ Has(commands', types)
    BY <2>1, HasTail, HasOne
  <2> QED BY <2>1, <2>2, HasNone DEF UnderWay
<1>2. CASE FinishCommand
  <2> DEFINE c == working[1]
  <2>1. c \in Command /\ working = <<c>>
    BY <1>2, FinishType
  <2>2. c.type \in types => Answer(c).type \in types
    BY <2>1, AnswerType DEF Command, Searches, Leads, Refreshes
  <2>3. Answer(c) \in Messages
    BY <2>1, AnswerType DEF Messages
  <2>4. /\ commands' = commands
        /\ results' = PushIfRoom(results, ResultCapacity, Answer(c))
        /\ c.type \in {"Discover", "RefreshTopology"}
           /\ ~HasRoom(results, ResultCapacity) => dropped'
    BY <1>2 DEF FinishCommand
  <2> HIDE DEF c
  <2>5. CASE HasRoom(results, ResultCapacity)
    <3>1. results' = Append(results, Answer(c))
      BY <2>4, <2>5 DEF PushIfRoom
    <3>2. Has(results', types) <=> Has(results, types)
                                   \/ Answer(c).type \in types
      BY <2>3, <3>1, HasAppend
    <3> QED BY <2>1, <2>2, <2>4, <3>2, HasOne DEF UnderWay
  <2>6. CASE ~HasRoom(results, ResultCapacity)
    <3>1. results' = results
      BY <2>4, <2>6 DEF PushIfRoom
    <3>2. c.type \in types => dropped'
      BY <2>1, <2>4, <2>6 DEF Command, Searches, Leads, Refreshes
    <3> QED BY <2>1, <2>4, <3>1, <3>2, HasOne DEF UnderWay
  <2> QED BY <2>5, <2>6
<1> QED BY <1>1, <1>2

\* begin_discovery() puts a discovery behind everything, or finds no room.
LEMMA BeginLeads ==
  ASSUME TypeOK, TypeOK', BeginDiscovery
  PROVE  \/ dropped'
         \/ /\ commands' = Append(commands, Discover)
            /\ Has(commands', Searches) /\ Has(commands', Leads)
<1> USE QueueTypes, QueueTypesPrimed
<1>1. Discover \in Messages /\ Discover.type \in Searches
      /\ Discover.type \in Leads
  BY CommandTypes DEF Messages, Discover, Leads, Searches
<1>2. dropped' \/ commands' = Append(commands, Discover)
  BY DEF BeginDiscovery, PushIfRoom, HasRoom
<1>3. commands' = Append(commands, Discover)
      => Has(commands', Searches) /\ Has(commands', Leads)
  BY <1>1, HasAppend
<1> QED BY <1>2, <1>3

\* A discovery that succeeded puts the topology request there.
LEMMA SucceededLeads ==
  ASSUME TypeOK, TypeOK', DiscoverySucceeded
  PROVE  \/ dropped'
         \/ /\ commands' = Append(commands, To("RefreshTopology", players'))
            /\ Has(commands', Leads)
<1> USE QueueTypes, QueueTypesPrimed
<1> DEFINE c == To("RefreshTopology", players')
<1>1. c \in Messages /\ c.type \in Leads
  <2>1. players' \in Addresses \cup {Nobody}
    BY DEF TypeOK
  <2> QED BY <2>1, CommandTypes DEF Messages, To, Leads, Refreshes
<1>2. dropped' \/ commands' = Append(commands, c)
  BY DEF DiscoverySucceeded, Enqueue, PushIfRoom, HasRoom
<1> HIDE DEF c
<1>3. commands' = Append(commands, c) => Has(commands', Leads)
  BY <1>1, HasAppend
<1> QED BY <1>2, <1>3 DEF c
-----------------------------------------------------------------------------
(* The progress display *)

LEMMA ServedStep ==
  ASSUME TypeOK, TypeOK', Served, [Next]_vars
  PROVE  Served'
<1> SUFFICES ASSUME discovering', ~dropped' PROVE UnderWay(Searches)'
  BY DEF Served
<1> USE DEF ui
<1>0. dropped \in BOOLEAN /\ dropped' \in BOOLEAN
  BY DEF TypeOK
<1>1. CASE TakeCommand \/ FinishCommand
  <2>1. discovering /\ ~dropped
    <3>1. CASE TakeCommand
      BY <3>1 DEF TakeCommand
    <3>2. CASE FinishCommand
      BY <3>2, <1>0 DEF FinishCommand
    <3> QED BY <1>1, <3>1, <3>2
  <2>2. UnderWay(Searches)
    BY <2>1 DEF Served
  <2> QED BY <1>1, <2>2, WorkerKeeps
<1>2. CASE Begins
  <2>1. BeginDiscovery
    BY <1>2 DEF Begins, RetryDiscovery, FindAgain, Forget
  <2> QED BY <2>1, BeginLeads DEF UnderWay
<1>3. CASE DiscoverySucceeded \/ DiscoveryFailed
  BY <1>3 DEF DiscoverySucceeded, DiscoveryFailed
<1>4. CASE \/ TopologySucceeded \/ TopologyFailed \/ PlaybackSucceeded
           \/ PlaybackFailed \/ OtherAnswered
  <2>1. ApplyResult /\ Head(results).type \notin Searches
    BY <1>4 DEF ApplyResult, TopologySucceeded, TopologyFailed,
         PlaybackSucceeded, PlaybackFailed, OtherAnswered, Received, Searches
  <2>2. discovering /\ ~dropped
    <3>1. CASE TopologySucceeded
      BY <3>1 DEF TopologySucceeded
    <3>2. CASE TopologyFailed
      BY <3>2 DEF TopologyFailed
    <3>3. CASE PlaybackSucceeded
      BY <3>3 DEF PlaybackSucceeded
    <3>4. CASE PlaybackFailed
      BY <3>4 DEF PlaybackFailed
    <3>5. CASE OtherAnswered
      BY <3>5 DEF OtherAnswered
    <3> QED BY <1>4, <3>1, <3>2, <3>3, <3>4, <3>5
  <2>3. UnderWay(Searches)
    BY <2>2 DEF Served
  <2> QED BY <2>1, <2>3, OutsideWorker, UnderWayKept
<1>5. CASE (PollTimer \/ TopologyTimer \/ Leave \/ SelectRoom \/ Key \/ Network)
           /\ ~ApplyResult
  <2>1. discovering /\ ~dropped
    <3>1. CASE PollTimer
      BY <3>1 DEF PollTimer
    <3>2. CASE TopologyTimer
      BY <3>2 DEF TopologyTimer
    <3>3. CASE Leave
      BY <3>3 DEF Leave
    <3>4. CASE SelectRoom
      BY <3>4 DEF SelectRoom
    <3>5. CASE Key
      BY <3>5 DEF Key
    <3>6. CASE Network
      <4>1. UNCHANGED ui /\ UNCHANGED dropped
        BY <3>6, NetworkIsOutside
      <4> QED BY <4>1, <1>0
    <3> QED BY <1>5, <3>1, <3>2, <3>3, <3>4, <3>5, <3>6
  <2>2. UnderWay(Searches)
    BY <2>1 DEF Served
  <2>3. User \/ Network \/ PollTimer \/ TopologyTimer
    BY <1>5 DEF User
  <2> QED BY <1>5, <2>2, <2>3, OutsideWorker, UnderWayKept
<1>6. CASE UNCHANGED vars
  BY <1>6 DEF Served, UnderWay, Has, vars, ui
<1> QED BY <1>1, <1>2, <1>3, <1>4, <1>5, <1>6
        DEF Next, ApplyResult, User, Begins
-----------------------------------------------------------------------------
(* The polls are followed *)

\* A lead at the end follows everything before it.
LEMMA LeadFollowsAll ==
  ASSUME TypeOK, NEW c \in Messages, c.type \in Leads,
         commands' = Append(commands, c)
  PROVE  PollsFollowed'
<1>1. Followed(commands') /\ Has(commands', Leads)
  BY QueueTypes, FollowedAppend, HasAppend
<1> QED BY <1>1 DEF PollsFollowed

\* A request that is no poll and a result taken off the queue leave the polls
\* followed.
LEMMA FollowedKept ==
  ASSUME TypeOK, PollsFollowed, working' = working,
         \/ commands' = commands
         \/ \E c \in Command : /\ c.type \notin Polls
                               /\ commands' = Append(commands, c),
         results' = results \/ Applies
  PROVE  PollsFollowed'
<1> USE QueueTypes
<1>1. Followed(commands') /\ (Has(commands, Leads) => Has(commands', Leads))
  <2>1. CASE commands' = commands
    BY <2>1 DEF PollsFollowed
  <2>2. ASSUME NEW c \in Command, c.type \notin Polls,
               commands' = Append(commands, c)
        PROVE  Followed(commands') /\ (Has(commands, Leads) => Has(commands', Leads))
    <3>1. c \in Messages
      BY DEF Messages
    <3> QED BY <2>2, <3>1, FollowedAppend, HasAppend DEF PollsFollowed
  <2> QED BY <2>1, <2>2
<1>2. Followed(results) => Followed(results')
  BY FollowedTail DEF Applies
<1> QED BY <1>1, <1>2 DEF PollsFollowed

LEMMA WorkerFollows ==
  ASSUME TypeOK, TypeOK', ~dropped', PollsFollowed,
         TakeCommand \/ FinishCommand
  PROVE  PollsFollowed'
<1> USE QueueTypes, QueueTypesPrimed
<1>1. CASE TakeCommand
  <2> DEFINE c == Head(commands)
  <2>1. /\ commands # <<>> /\ commands' = Tail(commands)
        /\ working = <<>> /\ working' = <<c>>
        /\ results' = results
    BY <1>1 DEF TakeCommand
  <2>2. Has(commands, Leads) => Has(working', Leads) \/ Has(commands', Leads)
    BY <2>1, HasTail, HasOne
  <2>3. Followed(commands') /\ (c.type \in Polls => Has(commands', Leads))
    BY <2>1, FollowedTail DEF PollsFollowed
  <2> HIDE DEF c
  <2>4. Followed(working') \/ Has(commands', Leads)
    BY <2>1, <2>3, FollowedOne
  <2>5. ~Has(working, Leads)
    BY <2>1, HasNone
  <2> QED BY <2>1, <2>2, <2>3, <2>4, <2>5 DEF PollsFollowed
<1>2. CASE FinishCommand
  <2> DEFINE c == working[1]
  <2>1. c \in Command /\ working = <<c>>
    BY <1>2, FinishType
  <2>2. /\ Answer(c) \in Messages
        /\ c.type \in Leads => Answer(c).type \in Leads
        /\ c.type \in Polls \/ c.type \in Leads \/ Answer(c).type \notin Polls
    BY <2>1, AnswerType
       DEF Messages, Command, Polls, Leads, Searches, Refreshes
  <2>3. /\ commands' = commands /\ working' = <<>>
        /\ results' = PushIfRoom(results, ResultCapacity, Answer(c))
        /\ c.type \in {"Discover", "RefreshTopology"}
           /\ ~HasRoom(results, ResultCapacity) => dropped'
    BY <1>2 DEF FinishCommand
  <2>4. c.type \in Leads => HasRoom(results, ResultCapacity)
    BY <2>1, <2>3 DEF Command, Leads, Searches, Refreshes
  <2> HIDE DEF c
  <2>5. Followed(working')
    BY <2>3, FollowedNone
  <2>6. Has(working, Leads) <=> c.type \in Leads
    BY <2>1, HasOne
  <2>7. c.type \in Polls => Has(commands, Leads)
    <3>1. ASSUME c.type \in Polls PROVE ~Followed(working)
      <4>1. c.type \notin Leads
        BY <3>1 DEF Polls, Leads, Searches, Refreshes
      <4> QED BY <2>1, <3>1, <4>1 DEF Followed
    <3> QED BY <3>1 DEF PollsFollowed
  <2>8. Followed(results') \/ Has(commands, Leads)
    <3>1. CASE c.type \in Leads
      <4>1. results' = Append(results, Answer(c))
        BY <2>3, <2>4, <3>1 DEF PushIfRoom
      <4> QED BY <2>2, <3>1, <4>1, FollowedAppend
    <3>2. CASE c.type \in Polls
      BY <2>7, <3>2
    <3>3. CASE c.type \notin Leads /\ c.type \notin Polls
      <4>1. Followed(results) \/ Has(commands, Leads)
        BY <2>6, <3>3 DEF PollsFollowed
      <4>2. Followed(results) => Followed(results')
        <5>1. CASE HasRoom(results, ResultCapacity)
          BY <2>2, <2>3, <3>3, <5>1, FollowedAppend DEF PushIfRoom
        <5>2. CASE ~HasRoom(results, ResultCapacity)
          BY <2>3, <5>2 DEF PushIfRoom
        <5> QED BY <5>1, <5>2
      <4> QED BY <4>1, <4>2
    <3> QED BY <3>1, <3>2, <3>3
  <2> QED BY <2>3, <2>5, <2>8 DEF PollsFollowed
<1> QED BY <1>1, <1>2

LEMMA ChasedStep ==
  ASSUME TypeOK, TypeOK', Chased, [Next]_vars
  PROVE  Chased'
<1> SUFFICES ASSUME ~groups', ~dropped' PROVE PollsFollowed'
  BY DEF Chased
<1> USE DEF ui
<1>0. dropped \in BOOLEAN /\ dropped' \in BOOLEAN
  BY DEF TypeOK
<1>1. CASE TakeCommand \/ FinishCommand
  <2>1. ~groups /\ ~dropped
    <3>1. CASE TakeCommand
      BY <3>1 DEF TakeCommand
    <3>2. CASE FinishCommand
      BY <3>2, <1>0 DEF FinishCommand
    <3> QED BY <1>1, <3>1, <3>2
  <2> QED BY <1>1, <2>1, WorkerFollows DEF Chased
<1>2. CASE Begins
  <2>1. BeginDiscovery
    BY <1>2 DEF Begins, RetryDiscovery, FindAgain, Forget
  <2>2. commands' = Append(commands, Discover)
    BY <2>1, BeginLeads
  <2>3. Discover \in Messages /\ Discover.type \in Leads
    BY CommandTypes DEF Messages, Discover, Leads, Searches
  <2> QED BY <2>2, <2>3, LeadFollowsAll
<1>3. CASE DiscoverySucceeded
  <2>1. commands' = Append(commands, To("RefreshTopology", players'))
    BY <1>3, SucceededLeads
  <2>2. players' \in Addresses \cup {Nobody}
    BY DEF TypeOK
  <2>3. /\ To("RefreshTopology", players') \in Messages
        /\ To("RefreshTopology", players').type \in Leads
    BY <2>2, CommandTypes DEF Messages, To, Leads, Refreshes
  <2> QED BY <2>1, <2>3, LeadFollowsAll
<1>4. CASE TopologySucceeded \/ SelectRoom
  <2>1. CASE TopologySucceeded
    BY <2>1 DEF TopologySucceeded
  <2>2. CASE SelectRoom
    BY <2>2 DEF SelectRoom
  <2> QED BY <1>4, <2>1, <2>2
<1>5. ASSUME ~groups, ~dropped, working' = working,
             \/ UNCHANGED commands \/ Enqueue(Other)
             \/ Enqueue(To("RefreshTopology", players)),
             results' = results \/ Applies
      PROVE  PollsFollowed'
  <2>1. players \in Addresses \cup {Nobody}
    BY DEF TypeOK
  <2>2. /\ Other \in Command /\ Other.type \notin Polls
        /\ To("RefreshTopology", players) \in Command
        /\ To("RefreshTopology", players).type \notin Polls
    BY <2>1, CommandTypes DEF Other, To, Polls
  <2>3. \/ commands' = commands
        \/ \E c \in Command : /\ c.type \notin Polls
                              /\ commands' = Append(commands, c)
    BY <1>5, <2>2 DEF Enqueue, PushIfRoom
  <2>4. PollsFollowed
    BY <1>5 DEF Chased
  <2> QED BY <1>5, <2>3, <2>4, FollowedKept
<1>6. CASE DiscoveryFailed
  BY <1>5, <1>6 DEF DiscoveryFailed, Received, Applies
<1>7. CASE TopologyFailed
  BY <1>5, <1>7 DEF TopologyFailed, Received, Applies
<1>8. CASE PlaybackSucceeded
  BY <1>5, <1>8 DEF PlaybackSucceeded, Received, Applies
<1>9. CASE PlaybackFailed
  <2>1. UNCHANGED commands \/ Enqueue(To("RefreshTopology", players))
    BY <1>9 DEF PlaybackFailed
  <2> QED BY <1>5, <1>9, <2>1 DEF PlaybackFailed, Received, Applies
<1>10. CASE OtherAnswered
  BY <1>5, <1>10 DEF OtherAnswered, Applies
<1>11. CASE PollTimer
  BY <1>11 DEF PollTimer, HasCoordinator
<1>12. CASE TopologyTimer
  BY <1>5, <1>12 DEF TopologyTimer
<1>13. CASE Leave
  <2>1. ~groups /\ ~dropped /\ working' = working /\ results' = results
    BY <1>13 DEF Leave
  <2>2. UNCHANGED commands
    BY <1>13, <2>1 DEF Leave, RequestPoll, HasCoordinator
  <2> QED BY <1>5, <2>1, <2>2
<1>14. CASE Key
  BY <1>5, <1>14 DEF Key
<1>15. CASE Network
  BY <1>5, <1>15, NetworkIsOutside
<1>16. CASE UNCHANGED vars
  BY <1>5, <1>16 DEF vars
<1> QED BY <1>1, <1>2, <1>3, <1>4, <1>6, <1>7, <1>8, <1>9, <1>10, <1>11,
           <1>12, <1>13, <1>14, <1>15, <1>16
        DEF Next, ApplyResult, User, Begins
-----------------------------------------------------------------------------
(* The plan *)

CanRetry == retryArmed /\ ~connected /\ ~discovering

LEMMA PlannedStep ==
  ASSUME TypeOK, TypeOK', Served, Chased, Planned, [Next]_vars
  PROVE  Planned'
<1> SUFFICES ASSUME ~groups', ~dropped' PROVE UnderWay(Leads)' \/ CanRetry'
  BY DEF Planned, CanRetry
<1> USE DEF ui
<1>0. /\ dropped \in BOOLEAN /\ dropped' \in BOOLEAN
      /\ discovering \in BOOLEAN /\ discovering' \in BOOLEAN
  BY DEF TypeOK
<1>1. CASE TakeCommand \/ FinishCommand
  <2>1. ~groups /\ ~dropped /\ (CanRetry => CanRetry')
    <3>1. CASE TakeCommand
      BY <3>1 DEF TakeCommand, CanRetry
    <3>2. CASE FinishCommand
      BY <3>2, <1>0 DEF FinishCommand, CanRetry
    <3> QED BY <1>1, <3>1, <3>2
  <2>2. UnderWay(Leads) \/ CanRetry
    BY <2>1 DEF Planned, CanRetry
  <2> QED BY <1>1, <2>1, <2>2, WorkerKeeps
<1>2. CASE Begins
  <2>1. BeginDiscovery
    BY <1>2 DEF Begins, RetryDiscovery, FindAgain, Forget
  <2> QED BY <2>1, BeginLeads DEF UnderWay
<1>3. CASE DiscoverySucceeded
  BY <1>3, SucceededLeads DEF UnderWay
<1>4. CASE DiscoveryFailed
  BY <1>4 DEF DiscoveryFailed, CanRetry
<1>5. CASE TopologySucceeded \/ SelectRoom
  <2>1. CASE TopologySucceeded
    BY <2>1 DEF TopologySucceeded
  <2>2. CASE SelectRoom
    BY <2>2 DEF SelectRoom
  <2> QED BY <1>5, <2>1, <2>2
\* Offline is shown: a retry, if no discovery runs already.
<1>6. CASE TopologyFailed
  <2>1. /\ retryArmed' /\ ~connected' /\ discovering' = discovering
        /\ ~dropped /\ Head(results).type \notin Searches
    BY <1>6 DEF TopologyFailed, Received, Searches
  <2>2. CASE ~discovering
    BY <2>1, <2>2 DEF CanRetry
  <2>3. CASE discovering
    <3>1. UnderWay(Searches)
      BY <2>1, <2>3 DEF Served
    <3>2. UnderWay(Searches)'
      <4>1. ApplyResult
        BY <1>6 DEF ApplyResult
      <4> QED BY <2>1, <3>1, <4>1, OutsideWorker, UnderWayKept
    <3> QED BY <3>2 DEF UnderWay, Has, Leads
  <2> QED BY <1>0, <2>2, <2>3
\* The retry timer stops, but a lead follows the poll.
<1>7. CASE PlaybackSucceeded
  <2>1. /\ ~groups /\ ~dropped /\ UNCHANGED <<commands, working>>
        /\ results # <<>> /\ results' = Tail(results)
        /\ Head(results).type \in Polls
    BY <1>7 DEF PlaybackSucceeded, Received, Polls
  <2>2. PollsFollowed
    BY <2>1 DEF Chased
  <2>3. Followed(results) => Has(results', Leads)
    BY <2>1, QueueTypes, FollowedTail
  <2>4. Has(results', Leads) \/ Has(working, Leads) \/ Has(commands, Leads)
    BY <2>2, <2>3 DEF PollsFollowed
  <2> QED BY <2>1, <2>4 DEF UnderWay
<1>8. CASE PlaybackFailed \/ OtherAnswered
  <2>1. /\ ~groups /\ ~dropped /\ (CanRetry => CanRetry')
        /\ ApplyResult /\ Head(results).type \notin Leads
    <3>1. CASE PlaybackFailed
      BY <3>1 DEF PlaybackFailed, Received, CanRetry, ApplyResult, Leads,
                  Searches, Refreshes
    <3>2. CASE OtherAnswered
      BY <3>2 DEF OtherAnswered, CanRetry, ApplyResult, Leads, Searches,
                  Refreshes
    <3> QED BY <1>8, <3>1, <3>2
  <2>2. UnderWay(Leads) \/ CanRetry
    BY <2>1 DEF Planned, CanRetry
  <2> QED BY <2>1, <2>2, OutsideWorker, UnderWayKept
<1>9. CASE (PollTimer \/ TopologyTimer \/ Leave \/ Key \/ Network)
           /\ ~ApplyResult
  <2>1. /\ ~groups /\ ~dropped /\ (CanRetry => CanRetry')
    <3>1. CASE PollTimer
      BY <3>1 DEF PollTimer, CanRetry
    <3>2. CASE TopologyTimer
      BY <3>2 DEF TopologyTimer, CanRetry
    <3>3. CASE Leave
      BY <3>3 DEF Leave, CanRetry
    <3>4. CASE Key
      BY <3>4 DEF Key, CanRetry
    <3>5. CASE Network
      <4>1. UNCHANGED ui /\ UNCHANGED dropped
        BY <3>5, NetworkIsOutside
      <4> QED BY <4>1, <1>0 DEF CanRetry
    <3> QED BY <1>9, <3>1, <3>2, <3>3, <3>4, <3>5
  <2>2. UnderWay(Leads) \/ CanRetry
    BY <2>1 DEF Planned, CanRetry
  <2>3. User \/ Network \/ PollTimer \/ TopologyTimer
    BY <1>9 DEF User
  <2> QED BY <1>9, <2>1, <2>2, <2>3, OutsideWorker, UnderWayKept
<1>10. CASE UNCHANGED vars
  BY <1>10 DEF Planned, CanRetry, UnderWay, Has, vars
<1> QED BY <1>1, <1>2, <1>3, <1>4, <1>5, <1>6, <1>7, <1>8, <1>9, <1>10
        DEF Next, ApplyResult, User, Begins

LEMMA OutstandingFound ==
  ASSUME TypeOK
  PROVE  /\ Discoveries \in Nat /\ Topologies \in Nat
         /\ Discoveries > 0 <=> UnderWay(Searches)
         /\ Topologies > 0 <=> UnderWay(Refreshes)
         /\ UnderWay(Leads) <=> UnderWay(Searches) \/ UnderWay(Refreshes)
<1>1. ASSUME NEW types
      PROVE  /\ Outstanding(types) \in Nat
             /\ Outstanding(types) > 0 <=> UnderWay(types)
  <2>1. /\ Count(commands, types) \in Nat
        /\ Count(commands, types) > 0 <=> Has(commands, types)
    BY QueueTypes, CountIsNat DEF Has
  <2>2. /\ Count(working, types) \in Nat
        /\ Count(working, types) > 0 <=> Has(working, types)
    BY QueueTypes, CountIsNat DEF Has
  <2>3. /\ Count(results, types) \in Nat
        /\ Count(results, types) > 0 <=> Has(results, types)
    BY QueueTypes, CountIsNat DEF Has
  <2> QED BY <2>1, <2>2, <2>3 DEF Outstanding, UnderWay
<1>2. UnderWay(Leads) <=> UnderWay(Searches) \/ UnderWay(Refreshes)
  BY DEF UnderWay, Has, Leads
<1> QED BY <1>1, <1>2 DEF Discoveries, Topologies, Searches, Refreshes

LEMMA PlanHolds == Spec => [](TypeOK /\ Served /\ Chased /\ Planned)
<1>1. Init => Served /\ Chased /\ Planned
  <2> SUFFICES ASSUME Init PROVE Served /\ Chased /\ Planned
    OBVIOUS
  <2>1. commands = <<Discover>> /\ working = <<>> /\ results = <<>>
    BY DEF Init
  <2>2. Discover.type \in Searches /\ Discover.type \in Leads
        /\ Discover.type \notin Polls
    BY DEF Discover, Leads, Searches, Polls
  <2>3. Has(commands, Searches) /\ Has(commands, Leads) /\ Followed(commands)
    BY <2>1, <2>2, HasOne, FollowedOne
  <2>4. Followed(working) /\ Followed(results)
    BY <2>1, FollowedNone
  <2> QED BY <2>3, <2>4 DEF Served, Chased, Planned, PollsFollowed, UnderWay
<1>2. TypeOK /\ TypeOK' /\ (Served /\ Chased /\ Planned) /\ [Next]_vars
      => (Served /\ Chased /\ Planned)'
  BY ServedStep, ChasedStep, PlannedStep
<1> QED BY <1>1, <1>2, TypeCorrect, PTL DEF Spec

\* Without a topology a discovery, a topology request or a retry that can fire
\* is always pending (update(), apply_result and begin_discovery of
\* controller.cpp), unless a full queue lost it.
THEOREM ColdPlanHolds == Spec => []ColdHasAPlan
<1>1. TypeOK /\ Planned => ColdHasAPlan
  BY OutstandingFound DEF Planned, ColdHasAPlan
<1> QED BY <1>1, PlanHolds, PTL
-----------------------------------------------------------------------------
(* The number of discoveries.  The bound is not inductive by itself: a      *)
(* retry adds a discovery, and what makes room for it is that the flag is  *)
(* cleared only by the answer of an earlier one.                           *)

Slack == IF discovering THEN 0 ELSE 1
Spare == Discoveries + Slack <= presses + 1

LEMMA DiscoveriesSum ==
  ASSUME TypeOK
  PROVE  /\ Discoveries = Count(commands, Searches) + Count(working, Searches)
                          + Count(results, Searches)
         /\ Count(commands, Searches) \in Nat
         /\ Count(working, Searches) \in Nat
         /\ Count(results, Searches) \in Nat
BY QueueTypes, CountIsNat DEF Discoveries, Outstanding, Searches

LEMMA DiscoveriesSumPrimed ==
  ASSUME TypeOK'
  PROVE  /\ Discoveries' = Count(commands', Searches)
                           + Count(working', Searches)
                           + Count(results', Searches)
         /\ Count(commands', Searches) \in Nat
         /\ Count(working', Searches) \in Nat
         /\ Count(results', Searches) \in Nat
BY QueueTypesPrimed, CountIsNat DEF Discoveries, Outstanding, Searches

LEMMA CountOne ==
  ASSUME NEW m \in Messages, NEW types
  PROVE  Count(<<m>>, types) = IF m.type \in types THEN 1 ELSE 0
<1>1. <<m>> = Append(<<>>, m) /\ <<>> \in Seq(Messages)
  OBVIOUS
<1>2. Count(Append(<<>>, m), types)
        = Count(<<>>, types) + (IF m.type \in types THEN 1 ELSE 0)
  BY <1>1, CountAppend
<1> QED BY <1>1, <1>2, CountEmpty

LEMMA WorkerCounts ==
  ASSUME TypeOK, TypeOK', TakeCommand \/ FinishCommand
  PROVE  Discoveries' <= Discoveries
<1> USE QueueTypes, QueueTypesPrimed
<1>1. CASE TakeCommand
  <2>1. /\ commands # <<>> /\ commands' = Tail(commands) /\ working = <<>>
        /\ working' = <<Head(commands)>> /\ results' = results
    BY <1>1 DEF TakeCommand
  <2>2. Head(commands) \in Messages
    BY <1>1, TakeType DEF Messages
  <2>3. Count(commands, Searches) = Count(commands', Searches)
                                    + Count(working', Searches)
    BY <2>1, <2>2, CountTail, CountOne
  <2>4. Count(working, Searches) = 0
    BY <2>1, CountEmpty
  <2> QED BY <2>1, <2>3, <2>4, DiscoveriesSum, DiscoveriesSumPrimed
<1>2. CASE FinishCommand
  <2> DEFINE c == working[1]
  <2>1. c \in Command /\ working = <<c>>
    BY <1>2, FinishType
  <2>2. /\ c \in Messages /\ Answer(c) \in Messages
        /\ Answer(c).type \in Searches <=> c.type \in Searches
    BY <2>1, AnswerType DEF Messages, Command, Searches
  <2>3. /\ commands' = commands /\ working' = <<>>
        /\ results' = PushIfRoom(results, ResultCapacity, Answer(c))
    BY <1>2 DEF FinishCommand
  <2> HIDE DEF c
  <2>4. Count(working, Searches) = IF c.type \in Searches THEN 1 ELSE 0
    BY <2>1, <2>2, CountOne
  <2>5. Count(results', Searches) <= Count(results, Searches)
                                     + Count(working, Searches)
    <3>1. CASE HasRoom(results, ResultCapacity)
      <4>1. results' = Append(results, Answer(c))
        BY <2>3, <3>1 DEF PushIfRoom
      <4>2. Count(Append(results, Answer(c)), Searches)
              = Count(results, Searches)
                + (IF Answer(c).type \in Searches THEN 1 ELSE 0)
        BY <2>2, CountAppend
      <4> QED BY <2>2, <2>4, <4>1, <4>2, DiscoveriesSum
    <3>2. CASE ~HasRoom(results, ResultCapacity)
      <4>1. results' = results
        BY <2>3, <3>2 DEF PushIfRoom
      <4> QED BY <4>1, DiscoveriesSum
    <3> QED BY <3>1, <3>2
  <2>6. Count(working', Searches) = 0
    BY <2>3, CountEmpty
  <2> QED BY <2>3, <2>5, <2>6, DiscoveriesSum, DiscoveriesSumPrimed
<1> QED BY <1>1, <1>2

\* begin_discovery() adds at most one.
LEMMA BeginCounts ==
  ASSUME TypeOK, TypeOK', Begins
  PROVE  /\ BeginDiscovery /\ Discoveries' <= Discoveries + 1
         /\ working' = working /\ results' = results
<1>1. BeginDiscovery /\ working' = working /\ results' = results
  BY DEF Begins, RetryDiscovery, FindAgain, Forget
<1>2. Discover \in Messages
  BY CommandTypes DEF Messages
<1>3. Count(commands', Searches) <= Count(commands, Searches) + 1
  <2>1. CASE commands' = commands
    BY <2>1, DiscoveriesSum
  <2>2. CASE commands' = Append(commands, Discover)
    <3>1. Count(Append(commands, Discover), Searches)
            = Count(commands, Searches)
              + (IF Discover.type \in Searches THEN 1 ELSE 0)
      BY <1>2, QueueTypes, CountAppend
    <3> QED BY <2>2, <3>1, DiscoveriesSum
  <2> QED BY <1>1, <2>1, <2>2 DEF BeginDiscovery, PushIfRoom
<1> QED BY <1>1, <1>3, DiscoveriesSum, DiscoveriesSumPrimed

\* Every other step of the SDL thread adds none; an applied answer of a
\* discovery is one less.
LEMMA OthersCount ==
  ASSUME TypeOK, TypeOK', working' = working,
         Longer(commands, commands', Searches), results' = results \/ Applies
  PROVE  /\ Discoveries' <= Discoveries
         /\ Applies /\ Head(results).type \in Searches
              => Discoveries' + 1 <= Discoveries
<1> USE QueueTypes, QueueTypesPrimed
<1>1. Count(commands', Searches) = Count(commands, Searches)
  BY CountLonger
<1>2. CASE Applies
  <2>1. Count(results, Searches)
          = Count(results', Searches)
            + (IF Head(results).type \in Searches THEN 1 ELSE 0)
    BY <1>2, CountTail DEF Applies
  <2> QED BY <1>1, <2>1, DiscoveriesSum, DiscoveriesSumPrimed
<1>3. CASE ~Applies
  <2>1. results' = results
    BY <1>3
  <2> QED BY <1>1, <1>3, <2>1, DiscoveriesSum, DiscoveriesSumPrimed
<1> QED BY <1>2, <1>3

\* The arithmetic of the bound: no more discoveries, one more with the flag set
\* or for a press, one less with the flag cleared.
LEMMA BoundKept ==
  \A d, e, k, l, p, q \in Nat :
    /\ k <= 1 /\ l <= 1 /\ d + k <= p + 1
    /\ \/ e <= d /\ l = k /\ p <= q
       \/ e <= d + 1 /\ l = 0 /\ ((k = 1 /\ q = p) \/ q = p + 1)
       \/ e + 1 <= d /\ q = p
    => e + l <= q + 1
OBVIOUS

LEMMA SpareStep ==
  ASSUME TypeOK, TypeOK', Spare, [Next]_vars
  PROVE  Spare'
<1> USE DEF ui
<1>0. /\ Discoveries \in Nat /\ Discoveries' \in Nat
      /\ presses \in Nat /\ presses' \in Nat
  <2>1. Discoveries \in Nat
    BY DiscoveriesSum
  <2>2. Discoveries' \in Nat
    BY DiscoveriesSumPrimed
  <2>3. presses \in Nat /\ presses' \in Nat
    BY LimitsAreNat DEF TypeOK
  <2> QED BY <2>1, <2>2, <2>3
<1>a. /\ Discoveries + Slack <= presses + 1
      /\ Spare' <=> Discoveries' + Slack' <= presses' + 1
  BY DEF Spare
<1>b. /\ Slack \in Nat /\ Slack' \in Nat /\ Slack <= 1 /\ Slack' <= 1
      /\ discovering' = discovering => Slack' = Slack
      /\ discovering' = TRUE => Slack' = 0
      /\ ~discovering => Slack = 1
  BY DEF Slack
<1>c. ASSUME \/ Discoveries' <= Discoveries /\ Slack' = Slack /\ presses <= presses'
             \/ Discoveries' <= Discoveries + 1 /\ Slack' = 0
                /\ ((Slack = 1 /\ presses' = presses) \/ presses' = presses + 1)
             \/ Discoveries' + 1 <= Discoveries /\ presses' = presses
      PROVE  Spare'
  <2>1. Discoveries' + Slack' <= presses' + 1
    <3>1. /\ Slack \in Nat /\ Slack' \in Nat /\ Slack <= 1 /\ Slack' <= 1
          /\ Discoveries + Slack <= presses + 1
      BY <1>a, <1>b
    <3> QED BY <1>0, <1>c, <3>1, BoundKept
  <2> QED BY <1>a, <2>1
<1>1. ASSUME Discoveries' <= Discoveries, presses <= presses',
             discovering' = discovering
      PROVE  Spare'
  BY <1>1, <1>b, <1>c
<1>2. CASE TakeCommand \/ FinishCommand
  <2>1. presses' = presses /\ discovering' = discovering
    <3>1. CASE TakeCommand
      BY <3>1 DEF TakeCommand
    <3>2. CASE FinishCommand
      BY <3>2 DEF FinishCommand
    <3> QED BY <1>2, <3>1, <3>2
  <2> QED BY <1>0, <1>1, <1>2, <2>1, WorkerCounts
<1>3. CASE Begins
  <2>1. discovering' = TRUE /\ Discoveries' <= Discoveries + 1
    BY <1>3, BeginCounts DEF BeginDiscovery
  <2>2. CASE RetryDiscovery
    <3>1. ~discovering /\ presses' = presses
      BY <2>2 DEF RetryDiscovery
    <3> QED BY <1>b, <1>c, <2>1, <3>1
  <2>3. CASE FindAgain \/ Forget
    <3>1. presses' = presses + 1
      BY <2>3 DEF FindAgain, Forget, Press
    <3> QED BY <1>b, <1>c, <2>1, <3>1
  <2> QED BY <1>3, <2>2, <2>3 DEF Begins
<1>4. CASE DiscoverySucceeded \/ DiscoveryFailed
  <2>1. /\ ApplyResult
        /\ Head(results).type \in Searches
        /\ discovering' = FALSE /\ presses' = presses
    BY <1>4 DEF ApplyResult, DiscoverySucceeded, DiscoveryFailed, Received,
                Searches
  <2>2. CASE Begins
    BY <1>3, <2>2
  <2>3. CASE ~Begins
    <3>1. /\ working' = working /\ Applies
          /\ Longer(commands, commands', Searches)
      BY <2>1, <2>3, OutsideWorker
    <3>2. Discoveries' + 1 <= Discoveries
      BY <2>1, <3>1, OthersCount
    <3> QED BY <1>b, <1>c, <2>1, <3>2
  <2> QED BY <2>2, <2>3
<1>5. CASE \/ TopologySucceeded \/ TopologyFailed \/ PlaybackSucceeded
           \/ PlaybackFailed \/ OtherAnswered
           \/ PollTimer \/ TopologyTimer \/ Leave \/ SelectRoom \/ Key \/ Network
  <2>1. discovering' = discovering /\ presses <= presses'
    <3>1. CASE TopologySucceeded
      BY <1>0, <3>1 DEF TopologySucceeded
    <3>2. CASE TopologyFailed
      BY <1>0, <3>2 DEF TopologyFailed
    <3>3. CASE PlaybackSucceeded
      BY <1>0, <3>3 DEF PlaybackSucceeded
    <3>4. CASE PlaybackFailed
      BY <1>0, <3>4 DEF PlaybackFailed
    <3>5. CASE OtherAnswered
      BY <1>0, <3>5 DEF OtherAnswered
    <3>6. CASE PollTimer
      BY <1>0, <3>6 DEF PollTimer
    <3>7. CASE TopologyTimer
      BY <1>0, <3>7 DEF TopologyTimer
    <3>8. CASE Leave
      BY <1>0, <3>8 DEF Leave, Press
    <3>9. CASE SelectRoom
      BY <1>0, <3>9 DEF SelectRoom, Press
    <3>10. CASE Key
      BY <1>0, <3>10 DEF Key, Press
    <3>11. CASE Network
      <4>1. UNCHANGED ui /\ UNCHANGED presses
        BY <3>11, NetworkIsOutside
      <4> QED BY <1>0, <4>1
    <3> QED BY <1>5, <3>1, <3>2, <3>3, <3>4, <3>5, <3>6, <3>7, <3>8, <3>9,
               <3>10, <3>11
  <2>2. CASE Begins
    BY <1>3, <2>2
  <2>3. CASE ~Begins
    <3>1. \/ ApplyResult \/ User \/ Network \/ PollTimer \/ TopologyTimer
      BY <1>5 DEF ApplyResult, User
    <3>2. /\ working' = working /\ Longer(commands, commands', Searches)
          /\ results' = results \/ Applies
      BY <2>3, <3>1, OutsideWorker
    <3> QED BY <1>1, <2>1, <3>2, OthersCount
  <2> QED BY <2>2, <2>3
<1>6. CASE UNCHANGED vars
  BY <1>6 DEF Spare, Slack, Discoveries, Outstanding, Count, vars
<1> QED BY <1>2, <1>3, <1>4, <1>5, <1>6 DEF Next, ApplyResult, User, Begins

\* The progress display stands for a discovery that runs (unless a full queue
\* lost it), and the background retries of update() never pile up: there is at
\* most one discovery more than the user asked for.
THEOREM DiscoveryStaysOne == Spec => []OneDiscovery
<1>1. Init => Spare
  <2> SUFFICES ASSUME Init PROVE Spare
    OBVIOUS
  <2>1. commands = <<Discover>> /\ working = <<>> /\ results = <<>>
        /\ presses = 0 /\ discovering = TRUE
    BY DEF Init
  <2>2. Discover \in Messages
    BY CommandTypes DEF Messages
  <2>3. Count(commands, Searches) = 1
    BY <2>1, <2>2, CountOne DEF Discover, Searches
  <2>4. Count(working, Searches) = 0 /\ Count(results, Searches) = 0
    BY <2>1, CountEmpty
  <2>5. Discoveries = 1
    BY <2>3, <2>4 DEF Discoveries, Outstanding, Searches
  <2> QED BY <2>1, <2>5 DEF Spare, Slack
<1>2. TypeOK /\ TypeOK' /\ Spare /\ [Next]_vars => Spare'
  BY SpareStep
<1>3. TypeOK /\ Served /\ Spare => OneDiscovery
  <2> SUFFICES ASSUME TypeOK, Served, Spare PROVE OneDiscovery
    OBVIOUS
  <2>1. Discoveries \in Nat /\ presses \in Nat
    BY DiscoveriesSum, LimitsAreNat DEF TypeOK
  <2>0. Slack \in Nat
    BY DEF Slack
  <2>2. RetriesAreBounded
    BY <2>1, <2>0 DEF Spare, RetriesAreBounded
  <2>3. DiscoveringIsServed
    BY OutstandingFound DEF Served, DiscoveringIsServed
  <2> QED BY <2>2, <2>3 DEF OneDiscovery
<1> QED BY <1>1, <1>2, <1>3, TypeCorrect, PlanHolds, PTL DEF Spec
=============================================================================
