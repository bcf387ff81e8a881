---------------------------- MODULE BrowsingProofs ----------------------------
(***************************************************************************)
(* Safety of Browsing for any queues and any library, any length of a page *)
(* and of the command queue, and any number of presses.                    *)
(***************************************************************************)
EXTENDS Browsing, SequenceTheorems, FiniteSetTheorems, WellFoundedInduction, TLAPS
-----------------------------------------------------------------------------
(* The rows of a page that a list has *)

\* Every non-empty set of naturals has a least element, and a greatest one when
\* it is bounded.
LEMMA LeastOf ==
  ASSUME NEW T, T \subseteq Nat, T # {}
  PROVE  \E x \in T : \A y \in T : x <= y
<1>1. PICK x \in T : \A y \in T : ~(<<y, x>> \in OpToRel(<, Nat))
  BY NatLessThanWellFounded, WFMin, Zenon
<1>2. \A y \in T : ~(y < x)
  BY <1>1, Zenon DEF OpToRel
<1> QED
  BY <1>2

LEMMA GreatestOf ==
  ASSUME NEW n \in Nat, NEW P, P \subseteq 1..n, P # {}
  PROVE  \E x \in P : \A y \in P : y <= x
<1> DEFINE U == {m \in Nat : \A i \in P : i <= m}
<1>1. n \in U
  OBVIOUS
<1>2. PICK u \in U : \A m \in U : u <= m
  <2>1. U \subseteq Nat /\ U # {}
    BY <1>1
  <2> HIDE DEF U
  <2> QED BY <2>1, LeastOf
<1>3. u \in P
  <2> SUFFICES ASSUME u \notin P PROVE FALSE
    OBVIOUS
  <2>1. \A i \in P : i <= u - 1
    BY <1>2
  <2>2. PICK i \in P : TRUE
    OBVIOUS
  <2>3. i \in Nat /\ i >= 1 /\ i <= u /\ u \in Nat
    BY <1>2, <2>2
  <2>4. u - 1 \in U
    BY <2>1, <2>3
  <2> QED BY <2>3, <2>4, <1>2
<1> QED BY <1>2, <1>3

\* Of k positions one is the first, one the second, and so on to the k-th.
LEMMA Ranked ==
  ASSUME NEW n \in Nat, NEW P, P \subseteq 1..n, NEW k \in 1..Cardinality(P)
  PROVE  \E i \in P : Cardinality({j \in P : j <= i}) = k
<1> DEFINE upTo(i) == {j \in P : j <= i}
           U == {i \in P : Cardinality(upTo(i)) >= k}
<1>1. IsFiniteSet(P) /\ Cardinality(P) \in Nat
  <2>1. IsFiniteSet(1..n) /\ P \in SUBSET (1..n)
    BY FS_Interval
  <2>2. IsFiniteSet(P)
    BY <2>1, FS_Subset
  <2> QED BY <2>2, FS_CardinalityType
<1>2. ASSUME NEW i \in P
      PROVE  IsFiniteSet(upTo(i)) /\ Cardinality(upTo(i)) \in Nat
  <2>1. upTo(i) \in SUBSET P
    OBVIOUS
  <2> HIDE DEF upTo
  <2>2. IsFiniteSet(upTo(i))
    BY <1>1, <2>1, FS_Subset
  <2> QED BY <2>2, FS_CardinalityType
<1>3. \A Q : Q \subseteq P /\ Q # {} => \E x \in Q : \A y \in Q : y <= x
  BY GreatestOf
<1>4. P # {}
  BY <1>1, FS_EmptySet
<1>5. PICK top \in P : \A y \in P : y <= top
  BY <1>3, <1>4
<1>6. top \in U
  <2>1. upTo(top) = P
    BY <1>5
  <2>2. Cardinality(upTo(top)) >= k
    BY <2>1, <1>1
  <2> HIDE DEF upTo
  <2> QED BY <2>2
<1>7. PICK i \in U : \A m \in U : i <= m
  <2>1. P \subseteq Nat
    OBVIOUS
  <2>2. U \subseteq Nat /\ U # {}
    <3> HIDE DEF upTo
    <3> QED BY <1>6, <2>1
  <2> HIDE DEF U
  <2> QED BY <2>2, LeastOf
<1>8. i \in P /\ Cardinality(upTo(i)) >= k /\ i \in Nat
  <2> HIDE DEF upTo
  <2> QED BY <1>7
<1>9. CASE Cardinality(upTo(i)) = k
  BY <1>8, <1>9
<1>10. CASE Cardinality(upTo(i)) # k
  <2> DEFINE below == upTo(i) \ {i}
  <2>1. Cardinality(below) = Cardinality(upTo(i)) - 1 /\ IsFiniteSet(below)
    <3>1. i \in upTo(i)
      BY <1>8
    <3> HIDE DEF upTo
    <3> QED BY <3>1, <1>2, <1>8, FS_RemoveElement
  <2>2. Cardinality(below) >= k /\ k >= 1 /\ Cardinality(below) \in Nat
    <3>1. Cardinality(upTo(i)) \in Nat
      BY <1>2, <1>8
    <3> HIDE DEF upTo, below
    <3> QED BY <3>1, <2>1, <1>1, <1>8, <1>10
  <2>3. below # {}
    <3> HIDE DEF below
    <3> QED BY <2>2, FS_EmptySet
  <2>4. PICK m \in below : \A y \in below : y <= m
    <3>1. below \subseteq P
      OBVIOUS
    <3> HIDE DEF below
    <3> QED BY <2>3, <3>1, <1>3
  <2>5. m \in P /\ m < i /\ m \in Nat
    BY <2>4, <1>8
  <2>6. upTo(m) = below
    <3>1. \A j \in P : j <= m <=> j <= i /\ j # i
      <4> SUFFICES ASSUME NEW j \in P PROVE j <= m <=> j <= i /\ j # i
        OBVIOUS
      <4>1. j \in Nat
        OBVIOUS
      <4>2. j <= i /\ j # i => j <= m
        BY <2>4
      <4> QED BY <4>1, <4>2, <2>5, <1>8
    <3> QED BY <3>1
  <2>7. m \in U
    <3>1. Cardinality(upTo(m)) >= k
      BY <2>2, <2>6
    <3> HIDE DEF upTo
    <3> QED BY <3>1, <2>5
  <2> HIDE DEF U
  <2> QED BY <2>5, <2>7, <1>7, <1>8
<1> QED BY <1>9, <1>10

\* A list has rows of the page, and only those it can have.
LEMMA VisibleType ==
  ASSUME NEW S, NEW page \in Seq(S), NEW l
  PROVE  Visible(l, page) \in Seq({row \in S : Has(l, row)})
<1> DEFINE kept == {i \in DOMAIN page : Has(l, page[i])}
           rank(i) == Cardinality({j \in kept : j <= i})
           place(n) == CHOOSE i \in kept : rank(i) = n
           size == Cardinality(kept)
<1>1. DOMAIN page = 1..Len(page) /\ Len(page) \in Nat /\ kept \subseteq 1..Len(page)
  BY LenProperties
<1>2. \A i \in kept : page[i] \in {row \in S : Has(l, row)}
  BY <1>1, ElementOfSeq
<1>3. size \in Nat
  <2>1. IsFiniteSet(1..Len(page)) /\ kept \in SUBSET (1..Len(page))
    BY <1>1, FS_Interval
  <2> HIDE DEF kept
  <2>2. IsFiniteSet(kept)
    BY <2>1, FS_Subset
  <2> QED BY <2>2, FS_CardinalityType
<1>4. ASSUME NEW n \in 1..size PROVE page[place(n)] \in {row \in S : Has(l, row)}
  <2>1. \E i \in kept : rank(i) = n
    <3> HIDE DEF kept
    <3> QED BY <1>1, Ranked
  <2>2. place(n) \in kept
    <3> HIDE DEF kept, rank
    <3> QED BY <2>1
  <2> QED BY <2>2, <1>2
<1>5. Visible(l, page) = [n \in 1..size |-> page[place(n)]]
  BY DEF Visible
<1> HIDE DEF size, place
<1> QED BY <1>3, <1>4, <1>5

\* It has the whole page when it can have every row.
LEMMA VisibleAll ==
  ASSUME NEW S, NEW page \in Seq(S), NEW l, \A i \in DOMAIN page : Has(l, page[i])
  PROVE  Visible(l, page) = page
<1> DEFINE kept == {i \in DOMAIN page : Has(l, page[i])}
           rank(i) == Cardinality({j \in kept : j <= i})
           place(n) == CHOOSE i \in kept : rank(i) = n
           size == Cardinality(kept)
<1>1. DOMAIN page = 1..Len(page) /\ Len(page) \in Nat /\ page \in [1..Len(page) -> S]
  BY LenProperties
<1>2. kept = 1..Len(page)
  BY <1>1
<1>3. size = Len(page)
  <2>1. Cardinality(1..Len(page)) = Len(page)
    BY <1>1, FS_Interval
  <2> HIDE DEF kept
  <2> QED BY <2>1, <1>2
<1>4. \A i \in 1..Len(page) : rank(i) = i
  <2> SUFFICES ASSUME NEW i \in 1..Len(page) PROVE rank(i) = i
    OBVIOUS
  <2>1. {j \in kept : j <= i} = 1..i
    <3> HIDE DEF kept
    <3> QED BY <1>1, <1>2
  <2>2. Cardinality(1..i) = i
    BY FS_Interval
  <2> QED BY <2>1, <2>2
<1>5. \A n \in 1..Len(page) : place(n) = n
  <2> HIDE DEF kept, rank
  <2> QED BY <1>2, <1>4
<1>6. Visible(l, page) = [n \in 1..size |-> page[place(n)]]
  BY DEF Visible
<1> HIDE DEF size, place, kept, rank
<1> QED BY <1>1, <1>3, <1>5, <1>6
-----------------------------------------------------------------------------
(* What is asked for and what comes back *)

LEMMA ConstantsAre ==
  /\ PageSize \in Nat /\ PageSize > 0 /\ Ahead \in Nat /\ Capacity \in Nat
  /\ MaxActs \in Nat /\ Deltas \subseteq Int
  /\ \A l \in Lists : ObjectsOf(l) \subseteq Objects /\ Root[l] \in ObjectsOf(l)
  /\ \A l \in Lists \ {"Queue"} : ObjectsOf(l) = DOMAIN Library
  /\ ObjectsOf("Queue") = {"Q:0"} /\ "Q:0" \notin DOMAIN Library
  /\ Lists \subseteq Screens /\ "NowPlaying" \in Screens /\ "Menu" \in Screens
  /\ Folders \subseteq DOMAIN Library
BY PagesHaveRows, MovesAreRows, LimitsAreNat, FavoritesAreListed
   DEF ObjectsOf, Objects, Root, Lists, Screens, Folders

LEMMA ContentsType ==
  ASSUME NEW o \in Objects, NEW g \in Groups
  PROVE  /\ Contents(o, g) \in Seq(Kinds)
         /\ o = "Q:0" => Contents(o, g) \in Seq({"item"})
<1>1. CASE o = "Q:0"
  <2>1. Contents(o, g) \in Seq({"item"})
    BY <1>1, FavoritesAreListed DEF Contents
  <2>2. {"item"} \subseteq Kinds
    BY DEF Kinds
  <2> QED BY <2>1, <2>2, SeqMonotonic
<1>2. CASE o # "Q:0"
  BY <1>2, FavoritesAreListed DEF Contents, Objects
<1> QED BY <1>1, <1>2

LEMMA ClampType ==
  ASSUME NEW i \in Int, NEW size \in Nat
  PROVE  Clamped(i, size) \in Nat
BY DEF Clamped

\* The rows that a page has, as many as there are from its start.
Origin(c) == <<c.object, IF c.object = "Q:0" THEN c.group ELSE "any">>

LEMMA PageType ==
  ASSUME NEW c \in Requests
  PROVE  LET page == PageRows(c) IN
         /\ page \in Seq(Rows)
         /\ \A i \in DOMAIN page : /\ page[i].of = Origin(c)
                                   /\ page[i].at = c.start + i - 1
                                   /\ c.object = "Q:0" => page[i].kind = "item"
<1> DEFINE contents == Contents(c.object, c.group)
           n == Len(contents)
           last == IF c.start + PageSize < n THEN c.start + PageSize ELSE n
           size == IF last > c.start THEN last - c.start ELSE 0
           row(i) == Row(c.object, c.group, c.start + i - 1)
<1>1. c.object \in Objects /\ c.group \in Groups /\ c.start \in Nat
  BY DEF Requests
<1>2. /\ contents \in Seq(Kinds) /\ n \in Nat
      /\ \A j \in 1..n : contents[j] \in Kinds
      /\ c.object = "Q:0" => \A j \in 1..n : contents[j] = "item"
  <2>1. contents \in Seq(Kinds) /\ (c.object = "Q:0" => contents \in Seq({"item"}))
    BY <1>1, ContentsType
  <2> HIDE DEF contents
  <2> QED BY <2>1, LenProperties
<1> HIDE DEF contents, n
<1>3. size \in Nat /\ \A i \in 1..size : /\ c.start + i - 1 \in Nat
                                         /\ c.start + i - 1 + 1 \in 1..n
  BY <1>1, <1>2, ConstantsAre
<1>4. PageRows(c) = [i \in 1..size |-> row(i)]
  BY DEF PageRows, contents, n
<1> HIDE DEF last, size
<1>5. ASSUME NEW i \in 1..size
      PROVE  /\ row(i) \in Rows /\ row(i).of = Origin(c) /\ row(i).at = c.start + i - 1
             /\ c.object = "Q:0" => row(i).kind = "item"
  <2>1. contents[c.start + i - 1 + 1] \in Kinds
        /\ (c.object = "Q:0" => contents[c.start + i - 1 + 1] = "item")
    BY <1>2, <1>3
  <2>2. Origin(c) \in Objects \X (Groups \cup {"any"})
    BY <1>1 DEF Origin
  <2>3. row(i) = [of |-> Origin(c), at |-> c.start + i - 1,
                  kind |-> contents[c.start + i - 1 + 1]]
    BY DEF Row, Origin, contents
  <2> QED BY <2>1, <2>2, <2>3, <1>3 DEF Rows
<1> HIDE DEF row
<1> QED BY <1>3, <1>4, <1>5

LEMMA BrowseType ==
  ASSUME active \in Groups, NEW l \in Lists \cup {"None"}, NEW o \in Objects,
         NEW from \in Nat, NEW offset \in Nat, NEW e \in 0..MaxActs
  PROVE  LET c == Browse(l, o, from, offset, e) IN
         /\ c \in Requests /\ c.list = l /\ c.start = from /\ c.offset = offset
         /\ c.group = active /\ c.era = e
BY DEF Browse, Requests
-----------------------------------------------------------------------------
(* Requests under way *)

\* The oldest first: those answered, the worker's one and those that wait.
Of(answers) == [i \in DOMAIN answers |-> answers[i].of]
Pipe == Of(results) \o serving \o commands

\* Requests for the Queue come back in the order in which the groups were
\* selected; one of the latest selection is for the active group, and once a
\* first page of it has arrived there is none of an earlier one.  One of a later
\* page starts after the rows it was asked for.
Orderly(pipe, latest, group, read) ==
  \A i \in DOMAIN pipe :
    pipe[i].list = "Queue" =>
      /\ pipe[i].era <= latest
      /\ pipe[i].era = latest => pipe[i].group = group
      /\ read => pipe[i].era = latest
      /\ pipe[i].start \in {0, pipe[i].offset}
      /\ \A j \in DOMAIN pipe :
           i <= j /\ pipe[j].list = "Queue" => pipe[i].era <= pipe[j].era

InOrder == Orderly(Pipe, era["Queue"], active, fresh["Queue"])

LEMMA RequestParts ==
  \A c \in Requests : /\ c.list \in Lists \cup {"None"} /\ c.object \in Objects
                      /\ c.start \in Nat /\ c.offset \in Nat /\ c.group \in Groups
                      /\ c.era \in 0..MaxActs /\ c.era \in Nat
BY ConstantsAre DEF Requests

LEMMA OrderlyMore ==
  ASSUME NEW pipe \in Seq(Requests), NEW c \in Requests, NEW latest \in Nat,
         NEW group, NEW read, Orderly(pipe, latest, group, read),
         c.list = "Queue" => /\ c.era = latest /\ c.group = group
                             /\ c.start \in {0, c.offset}
  PROVE  Orderly(Append(pipe, c), latest, group, read)
<1> DEFINE longer == Append(pipe, c)
           n == Len(pipe) + 1
<1>1. /\ longer \in Seq(Requests) /\ Len(longer) = n /\ longer[n] = c
      /\ \A i \in 1..Len(pipe) : longer[i] = pipe[i]
  BY AppendProperties
<1> HIDE DEF longer
<1>2. DOMAIN longer = 1..n /\ DOMAIN pipe = 1..Len(pipe) /\ Len(pipe) \in Nat
  BY <1>1, LenProperties
<1>3. \A i \in DOMAIN longer : \/ i \in DOMAIN pipe /\ longer[i] = pipe[i] /\ i < n
                               \/ i = n /\ longer[i] = c
  BY <1>1, <1>2
<1>4. \A i \in DOMAIN longer : ~(n < i) /\ i \in Int
  BY <1>2
<1>5. \A i \in DOMAIN longer : longer[i].era \in Nat
  BY <1>1, <1>2, ElementOfSeq, RequestParts
<1> SUFFICES ASSUME NEW i \in DOMAIN longer, longer[i].list = "Queue"
             PROVE  /\ longer[i].era <= latest
                    /\ longer[i].era = latest => longer[i].group = group
                    /\ read => longer[i].era = latest
                    /\ longer[i].start \in {0, longer[i].offset}
                    /\ \A j \in DOMAIN longer :
                         i <= j /\ longer[j].list = "Queue"
                           => longer[i].era <= longer[j].era
  BY DEF Orderly, longer
<1>6. CASE i \in DOMAIN pipe /\ longer[i] = pipe[i]
  <2>1. /\ longer[i].era <= latest
        /\ longer[i].era = latest => longer[i].group = group
        /\ read => longer[i].era = latest
        /\ longer[i].start \in {0, longer[i].offset}
    BY <1>6 DEF Orderly
  <2>2. ASSUME NEW j \in DOMAIN longer, i <= j, longer[j].list = "Queue"
        PROVE  longer[i].era <= longer[j].era
    <3>1. CASE j \in DOMAIN pipe /\ longer[j] = pipe[j]
      BY <3>1, <2>2, <1>6 DEF Orderly
    <3>2. CASE j = n /\ longer[j] = c
      BY <3>2, <2>1, <2>2
    <3> QED BY <3>1, <3>2, <1>3
  <2> QED BY <2>1, <2>2
<1>7. CASE i = n /\ longer[i] = c
  <2>1. \A j \in DOMAIN longer : i <= j => j = i
    BY <1>2, <1>7
  <2> QED BY <2>1, <1>5, <1>7
<1> QED BY <1>3, <1>6, <1>7

LEMMA OrderlyRest ==
  ASSUME NEW pipe \in Seq(Requests), pipe # <<>>, NEW latest \in Nat,
         NEW group, NEW read, Orderly(pipe, latest, group, read), NEW now,
         now => read \/ (Head(pipe).list = "Queue" /\ Head(pipe).era = latest)
  PROVE  Orderly(Tail(pipe), latest, group, now)
<1> DEFINE rest == Tail(pipe)
<1>1. /\ Head(pipe) = pipe[1] /\ rest \in Seq(Requests) /\ Len(rest) = Len(pipe) - 1
      /\ \A i \in 1..Len(rest) : rest[i] = pipe[i + 1]
  BY HeadTailProperties
<1> HIDE DEF rest
<1>2. /\ DOMAIN rest = 1..Len(rest) /\ DOMAIN pipe = 1..Len(pipe)
      /\ Len(pipe) \in Nat /\ Len(pipe) > 0
  BY <1>1, LenProperties, EmptySeq
<1>3. /\ \A i \in DOMAIN rest : i + 1 \in DOMAIN pipe /\ rest[i] = pipe[i + 1]
                                /\ i \in Nat /\ 1 <= i + 1
      /\ 1 \in DOMAIN pipe
  BY <1>1, <1>2
<1>4. \A i \in DOMAIN pipe : pipe[i].era \in Nat
  BY <1>2, ElementOfSeq, RequestParts
<1> SUFFICES ASSUME NEW i \in DOMAIN rest, rest[i].list = "Queue"
             PROVE  /\ rest[i].era <= latest
                    /\ rest[i].era = latest => rest[i].group = group
                    /\ now => rest[i].era = latest
                    /\ rest[i].start \in {0, rest[i].offset}
                    /\ \A j \in DOMAIN rest :
                         i <= j /\ rest[j].list = "Queue" => rest[i].era <= rest[j].era
  BY DEF Orderly, rest
<1>5. /\ rest[i].era <= latest
      /\ rest[i].era = latest => rest[i].group = group
      /\ read => rest[i].era = latest
      /\ rest[i].start \in {0, rest[i].offset}
  BY <1>3 DEF Orderly
<1>6. ASSUME NEW j \in DOMAIN rest, i <= j, rest[j].list = "Queue"
      PROVE  rest[i].era <= rest[j].era
  <2>1. i + 1 \in DOMAIN pipe /\ j + 1 \in DOMAIN pipe /\ i + 1 <= j + 1
        /\ rest[i] = pipe[i + 1] /\ rest[j] = pipe[j + 1]
    BY <1>3, <1>6
  <2> QED BY <2>1, <1>6 DEF Orderly
<1>7. ASSUME now PROVE rest[i].era = latest
  <2>1. CASE read
    BY <2>1, <1>5
  <2>2. CASE Head(pipe).list = "Queue" /\ Head(pipe).era = latest
    <3>1. i + 1 \in DOMAIN pipe /\ rest[i] = pipe[i + 1] /\ 1 <= i + 1
          /\ pipe[1].list = "Queue" /\ pipe[1].era = latest
      BY <2>2, <1>1, <1>3
    <3>2. latest <= rest[i].era /\ rest[i].era \in Nat
      BY <3>1, <1>3, <1>4 DEF Orderly
    <3> QED BY <3>2, <1>5
  <2> QED BY <2>1, <2>2, <1>7
<1> QED BY <1>5, <1>6, <1>7

LEMMA OrderlyLater ==
  ASSUME NEW pipe \in Seq(Requests), NEW latest \in Nat, NEW group, NEW read,
         Orderly(pipe, latest, group, read), NEW other
  PROVE  Orderly(pipe, latest + 1, other, FALSE)
<1>1. \A i \in DOMAIN pipe : pipe[i].era \in Nat
  BY LenProperties, ElementOfSeq, RequestParts
<1>2. \A i \in DOMAIN pipe : pipe[i].list = "Queue" =>
        pipe[i].era <= latest + 1 /\ pipe[i].era # latest + 1
  BY <1>1 DEF Orderly
<1> QED BY <1>2 DEF Orderly
-----------------------------------------------------------------------------
(* The worker and the queues move requests, in their order *)

Replies == [of : Requests, ok : BOOLEAN]

LEMMA OfType ==
  ASSUME NEW answers \in Seq(Replies)
  PROVE  /\ Of(answers) \in Seq(Requests) /\ Len(Of(answers)) = Len(answers)
         /\ DOMAIN Of(answers) = 1..Len(answers)
         /\ \A i \in 1..Len(answers) : Of(answers)[i] = answers[i].of
<1>1. DOMAIN answers = 1..Len(answers) /\ Len(answers) \in Nat
  BY LenProperties
<1>2. \A i \in 1..Len(answers) : answers[i].of \in Requests
  <2>1. \A i \in 1..Len(answers) : answers[i] \in Replies
    BY ElementOfSeq
  <2> QED BY <2>1 DEF Replies
<1>3. Of(answers) = [i \in 1..Len(answers) |-> answers[i].of]
  BY <1>1 DEF Of
<1>4. Of(answers) \in [1..Len(answers) -> Requests]
  BY <1>2, <1>3
<1> QED BY <1>1, <1>3, <1>4

LEMMA TransitType ==
  ASSUME TypeOK
  PROVE  /\ results \in Seq(Replies) /\ Of(results) \in Seq(Requests)
         /\ serving \in Seq(Requests) /\ commands \in Seq(Requests)
         /\ Of(results) \o serving \in Seq(Requests) /\ Pipe \in Seq(Requests)
<1>1. results \in Seq(Replies) /\ serving \in Seq(Requests)
      /\ commands \in Seq(Requests)
  BY DEF TypeOK, Replies
<1>2. Of(results) \in Seq(Requests)
  BY <1>1, OfType
<1> QED BY <1>1, <1>2, ConcatProperties DEF Pipe

\* A request is sent, or refused.
LEMMA PushedPipe ==
  ASSUME TypeOK, NEW c \in Requests, UNCHANGED <<results, serving>>,
         commands' = PushIfRoom(commands, Capacity, c)
  PROVE  /\ commands' \in Seq(Requests) /\ Len(commands') <= Capacity
         /\ Pipe' = Pipe \/ Pipe' = Append(Pipe, c)
<1>1. CASE HasRoom(commands, Capacity)
  <2>1. commands' = Append(commands, c) /\ commands \in Seq(Requests)
        /\ Len(commands) < Capacity /\ Len(commands) \in Nat
    BY <1>1, TransitType, LenProperties DEF PushIfRoom, HasRoom
  <2>2. commands' \in Seq(Requests) /\ Len(commands') = Len(commands) + 1
        /\ commands' = commands \o <<c>> /\ <<c>> \in Seq(Requests)
    BY <2>1, AppendProperties, AppendIsConcat
  <2>3. Pipe' = Of(results) \o serving \o (commands \o <<c>>)
    BY <2>2 DEF Pipe, Of
  <2>4. Pipe' = Pipe \o <<c>>
    BY <2>2, <2>3, TransitType, ConcatAssociative DEF Pipe
  <2>5. Pipe' = Append(Pipe, c)
    BY <2>4, TransitType, AppendIsConcat
  <2> QED BY <2>1, <2>2, <2>5, ConstantsAre
<1>2. CASE ~HasRoom(commands, Capacity)
  BY <1>2 DEF PushIfRoom, TypeOK, Pipe, Of
<1> QED BY <1>1, <1>2

\* A sequence is its head and its tail.
LEMMA HeadThenTail ==
  ASSUME NEW S, NEW s \in Seq(S), s # <<>>
  PROVE  s = <<Head(s)>> \o Tail(s) /\ <<Head(s)>> \in Seq(S)
<1>1. /\ Head(s) \in S /\ Head(s) = s[1] /\ Tail(s) \in Seq(S)
      /\ Len(Tail(s)) = Len(s) - 1 /\ \A i \in 1..Len(Tail(s)) : Tail(s)[i] = s[i + 1]
  BY HeadTailProperties
<1>2. Len(s) \in Nat /\ Len(s) > 0
  BY EmptySeq, LenProperties
<1>3. <<Head(s)>> \in Seq(S) /\ Len(<<Head(s)>>) = 1 /\ <<Head(s)>>[1] = s[1]
  BY <1>1
<1> DEFINE t == Tail(s)
           h == <<Head(s)>>
<1> HIDE DEF t, h
<1>4. /\ h \o t \in Seq(S) /\ Len(h \o t) = Len(s)
      /\ \A i \in 1..Len(s) : (h \o t)[i] = IF i <= 1 THEN h[i] ELSE t[i - 1]
  BY <1>1, <1>2, <1>3, ConcatProperties DEF h, t
<1>5. \A i \in 1..Len(s) : (h \o t)[i] = s[i]
  <2> SUFFICES ASSUME NEW i \in 1..Len(s) PROVE (h \o t)[i] = s[i]
    OBVIOUS
  <2>1. CASE i = 1
    BY <2>1, <1>3, <1>4 DEF h
  <2>2. CASE i # 1
    <3>1. i - 1 \in 1..Len(t) /\ (i - 1) + 1 = i /\ ~(i <= 1)
      BY <2>2, <1>1, <1>2 DEF t
    <3> QED BY <3>1, <1>1, <1>4 DEF t
  <2> QED BY <2>1, <2>2
<1>6. h \o t = s
  BY <1>4, <1>5, SeqEqual
<1> QED BY <1>3, <1>6 DEF h, t

LEMMA TakePipe ==
  ASSUME TypeOK, Take
  PROVE  /\ Pipe' = Pipe /\ commands' \in Seq(Requests) /\ Len(commands') <= Capacity
         /\ serving' \in Seq(Requests) /\ Len(serving') <= 1
<1>1. /\ serving = <<>> /\ commands # <<>> /\ results' = results
      /\ serving' = <<Head(commands)>> /\ commands' = Tail(commands)
  BY DEF Take
<1>2. /\ commands \in Seq(Requests) /\ Len(commands) <= Capacity
      /\ Of(results) \in Seq(Requests)
  BY TransitType DEF TypeOK
<1>3. /\ commands = <<Head(commands)>> \o Tail(commands)
      /\ <<Head(commands)>> \in Seq(Requests)
      /\ Tail(commands) \in Seq(Requests) /\ Len(Tail(commands)) = Len(commands) - 1
  BY <1>1, <1>2, HeadThenTail, HeadTailProperties
<1>4. Pipe' = Of(results) \o <<Head(commands)>> \o Tail(commands)
  BY <1>1 DEF Pipe, Of
<1>5. Pipe = Of(results) \o commands
  BY <1>1, <1>2, ConcatEmptySeq DEF Pipe
<1>6. Pipe' = Pipe
  BY <1>2, <1>3, <1>4, <1>5, ConcatAssociative
<1>7. Len(Tail(commands)) <= Capacity
  BY <1>2, <1>3, ConstantsAre, LenProperties
<1> QED BY <1>1, <1>3, <1>6, <1>7

LEMMA AnswerPipe ==
  ASSUME TypeOK, Answer
  PROVE  /\ Pipe' = Pipe /\ results' \in Seq(Replies)
         /\ serving' = <<>>
<1>1. PICK ok \in BOOLEAN : results' = Append(results, [of |-> serving[1], ok |-> ok])
  BY DEF Answer
<1>2. serving # <<>> /\ serving' = <<>> /\ commands' = commands
  BY DEF Answer
<1>3. serving \in Seq(Requests) /\ Len(serving) = 1
  <2>1. serving \in Seq(Requests) /\ Len(serving) <= 1
    BY DEF TypeOK
  <2>2. Len(serving) \in Nat \ {0}
    BY <2>1, <1>2, EmptySeq
  <2> QED BY <2>1, <2>2
<1>4. serving[1] \in Requests /\ serving = <<serving[1]>>
  <2>1. 1 \in 1..Len(serving)
    BY <1>3
  <2>2. serving[1] \in Requests
    BY <2>1, <1>3, ElementOfSeq
  <2>3. <<serving[1]>> \in Seq(Requests) /\ Len(<<serving[1]>>) = 1
        /\ <<serving[1]>>[1] = serving[1]
    BY <2>2
  <2>4. \A i \in 1..Len(serving) : serving[i] = <<serving[1]>>[i]
    BY <1>3
  <2> DEFINE one == <<serving[1]>>
  <2> HIDE DEF one
  <2>5. serving = one
    BY <1>3, <2>3, <2>4, SeqEqual DEF one
  <2> QED BY <2>2, <2>5 DEF one
<1> DEFINE a == [of |-> serving[1], ok |-> ok]
<1>5. a \in Replies /\ a.of = serving[1]
  BY <1>4 DEF Replies
<1>6. results \in Seq(Replies) /\ Of(results) \in Seq(Requests) /\ results' = Append(results, a)
  BY <1>1, TransitType
<1> HIDE DEF a
<1>7. /\ results' \in Seq(Replies) /\ Len(results') = Len(results) + 1
      /\ results'[Len(results) + 1] = a
      /\ \A i \in 1..Len(results) : results'[i] = results[i]
  BY <1>5, <1>6, AppendProperties
<1> DEFINE more1 == Append(Of(results), serving[1])
<1>8. Of(results)' = more1
  <2>1. /\ more1 \in Seq(Requests) /\ Len(more1) = Len(results) + 1
        /\ more1[Len(results) + 1] = serving[1]
        /\ \A i \in 1..Len(results) : more1[i] = results[i].of
    BY <1>4, <1>6, OfType, AppendProperties
  <2> HIDE DEF more1
  <2>2. /\ Of(results') \in Seq(Requests) /\ Len(Of(results')) = Len(results) + 1
        /\ \A i \in 1..Len(results) + 1 : Of(results')[i] = results'[i].of
    BY <1>7, OfType
  <2>3. \A i \in 1..Len(results) + 1 : Of(results')[i] = more1[i]
    <3> SUFFICES ASSUME NEW i \in 1..Len(results) + 1
                 PROVE  Of(results')[i] = more1[i]
      OBVIOUS
    <3>1. i \in 1..Len(results) \/ i = Len(results) + 1
      BY <1>6, LenProperties
    <3> QED BY <3>1, <2>1, <2>2, <1>5, <1>7
  <2>4. Of(results') = more1
    BY <2>1, <2>2, <2>3, SeqEqual
  <2> QED BY <2>4 DEF Of
<1>9. more1 = Of(results) \o serving
  BY <1>4, <1>6, AppendIsConcat
<1>10. Pipe' = Of(results) \o serving \o <<>> \o commands
  <2>1. Pipe' = Of(results)' \o serving' \o commands'
    BY DEF Pipe
  <2> QED BY <2>1, <1>2, <1>8, <1>9
<1>11. Pipe' = Pipe
  BY <1>10, TransitType, ConcatEmptySeq DEF Pipe
<1> QED BY <1>2, <1>7, <1>11

LEMMA OneThenRest ==
  ASSUME NEW S, NEW e \in S, NEW rest \in Seq(S)
  PROVE  /\ <<e>> \o rest \in Seq(S) /\ <<e>> \o rest # <<>>
         /\ Head(<<e>> \o rest) = e /\ Tail(<<e>> \o rest) = rest
<1> DEFINE whole == <<e>> \o rest
<1>1. <<e>> \in Seq(S) /\ Len(<<e>>) = 1 /\ <<e>>[1] = e
  OBVIOUS
<1>2. /\ whole \in Seq(S) /\ Len(whole) = 1 + Len(rest)
      /\ \A i \in 1..1 + Len(rest) : whole[i] = IF i <= 1 THEN e ELSE rest[i - 1]
  BY <1>1, ConcatProperties
<1> HIDE DEF whole
<1>3. Len(rest) \in Nat
  BY LenProperties
<1>4. whole # <<>>
  BY <1>2, <1>3, EmptySeq
<1>5. /\ Tail(whole) \in Seq(S) /\ Len(Tail(whole)) = Len(whole) - 1
      /\ \A i \in 1..Len(Tail(whole)) : Tail(whole)[i] = whole[i + 1]
      /\ Head(whole) = whole[1]
  BY <1>2, <1>4, HeadTailProperties
<1>6. whole[1] = e
  BY <1>2, <1>3
<1>7. \A i \in 1..Len(rest) : Tail(whole)[i] = rest[i]
  <2> SUFFICES ASSUME NEW i \in 1..Len(rest) PROVE Tail(whole)[i] = rest[i]
    OBVIOUS
  <2>1. i + 1 \in 1..1 + Len(rest) /\ ~(i + 1 <= 1) /\ i + 1 - 1 = i
        /\ i \in 1..Len(Tail(whole))
    BY <1>2, <1>3, <1>5
  <2> QED BY <2>1, <1>2, <1>5
<1>8. Tail(whole) = rest
  BY <1>2, <1>3, <1>5, <1>7, SeqEqual
<1> QED BY <1>2, <1>4, <1>5, <1>6, <1>8 DEF whole

\* The oldest answer is of the oldest request.
LEMMA OldestOfPipe ==
  ASSUME TypeOK, results # <<>>
  PROVE  LET t == Of(Tail(results)) IN
         /\ Head(results) \in Replies /\ Tail(results) \in Seq(Replies)
         /\ Pipe # <<>> /\ Head(Pipe) = Head(results).of
         /\ Tail(Pipe) = t \o serving \o commands
         /\ t \o serving \in Seq(Requests) /\ Tail(Pipe) \in Seq(Requests)
<1>1. /\ results \in Seq(Replies) /\ serving \in Seq(Requests)
      /\ commands \in Seq(Requests) /\ Of(results) \in Seq(Requests)
      /\ Len(Of(results)) = Len(results)
      /\ \A i \in 1..Len(results) : Of(results)[i] = results[i].of
  BY TransitType, OfType
<1>2. /\ Head(results) \in Replies /\ Head(results) = results[1]
      /\ Tail(results) \in Seq(Replies) /\ Len(Tail(results)) = Len(results) - 1
      /\ \A i \in 1..Len(Tail(results)) : Tail(results)[i] = results[i + 1]
  BY <1>1, HeadTailProperties
<1>3. Len(results) \in Nat \ {0}
  BY <1>1, EmptySeq
<1>4. Of(results) # <<>>
  BY <1>1, <1>3, EmptySeq
<1>5. /\ Head(Of(results)) = Of(results)[1] /\ Tail(Of(results)) \in Seq(Requests)
      /\ Len(Tail(Of(results))) = Len(Of(results)) - 1
      /\ \A i \in 1..Len(Tail(Of(results))) : Tail(Of(results))[i] = Of(results)[i + 1]
  BY <1>1, <1>4, HeadTailProperties
<1>6. Head(Of(results)) = Head(results).of /\ Head(results).of \in Requests
  <2>1. 1 \in 1..Len(results)
    BY <1>3
  <2>2. Head(results).of \in Requests
    BY <1>2 DEF Replies
  <2> QED BY <2>1, <2>2, <1>1, <1>2, <1>5
<1> DEFINE t == Of(Tail(results))
           h == Head(results).of
           p == t \o serving \o commands
<1>7. t = Tail(Of(results)) /\ t \in Seq(Requests)
  <2>1. /\ t \in Seq(Requests) /\ Len(t) = Len(results) - 1
        /\ \A i \in 1..Len(results) - 1 : t[i] = Tail(results)[i].of
    BY <1>2, OfType
  <2>2. \A i \in 1..Len(t) : t[i] = Tail(Of(results))[i]
    <3> SUFFICES ASSUME NEW i \in 1..Len(results) - 1
                 PROVE  t[i] = Tail(Of(results))[i]
      BY <2>1
    <3>1. i + 1 \in 1..Len(results)
      BY <1>3
    <3> HIDE DEF t
    <3> QED BY <3>1, <2>1, <1>1, <1>2, <1>5
  <2> HIDE DEF t
  <2>3. t = Tail(Of(results))
    BY <2>1, <2>2, <1>1, <1>5, SeqEqual
  <2> QED BY <2>1, <2>3
<1>8. Of(results) = <<h>> \o t /\ <<h>> \in Seq(Requests) /\ h \in Requests
  BY <1>1, <1>4, <1>6, <1>7, HeadThenTail
<1> HIDE DEF t, h
<1>9. t \o serving \in Seq(Requests) /\ p \in Seq(Requests)
  BY <1>1, <1>7, ConcatProperties
<1>10. Pipe = <<h>> \o p
  <2>1. Pipe = ((<<h>> \o t) \o serving) \o commands
    BY <1>8 DEF Pipe
  <2>2. (<<h>> \o t) \o serving = <<h>> \o (t \o serving)
    BY <1>1, <1>7, <1>8, ConcatAssociative
  <2>3. (<<h>> \o (t \o serving)) \o commands = <<h>> \o p
    BY <1>1, <1>8, <1>9, ConcatAssociative
  <2> QED BY <2>1, <2>2, <2>3
<1>11. Pipe # <<>> /\ Head(Pipe) = h /\ Tail(Pipe) = p
  BY <1>8, <1>9, <1>10, OneThenRest
<1> QED BY <1>2, <1>9, <1>11 DEF h, t

\* It is taken, and a request is sent or not.
LEMMA ReceivedPipe ==
  ASSUME TypeOK, results # <<>>, results' = Tail(results), UNCHANGED serving
  PROVE  /\ commands' = commands => Pipe' = Tail(Pipe)
         /\ \A c \in Requests :
              commands' = PushIfRoom(commands, Capacity, c)
                => Pipe' = Tail(Pipe) \/ Pipe' = Append(Tail(Pipe), c)
<1> DEFINE t == Of(Tail(results))
           p == t \o serving \o commands
<1>1. /\ Tail(Pipe) = p /\ t \o serving \in Seq(Requests) /\ p \in Seq(Requests)
      /\ commands \in Seq(Requests)
  BY OldestOfPipe, TransitType
<1>2. Pipe' = t \o serving \o commands'
  <2>1. Of(results)' = t
    BY DEF Of
  <2> QED BY <2>1 DEF Pipe
<1> HIDE DEF t
<1>3. ASSUME commands' = commands PROVE Pipe' = Tail(Pipe)
  BY <1>1, <1>2, <1>3
<1>4. ASSUME NEW c \in Requests, commands' = PushIfRoom(commands, Capacity, c)
      PROVE  Pipe' = Tail(Pipe) \/ Pipe' = Append(Tail(Pipe), c)
  <2>1. CASE HasRoom(commands, Capacity)
    <3> DEFINE one == <<c>>
    <3>1. one \in Seq(Requests) /\ commands' = commands \o one
      BY <2>1, <1>1, <1>4, AppendIsConcat DEF PushIfRoom
    <3>2. Append(p, c) = p \o one
      BY <1>1, AppendIsConcat
    <3> HIDE DEF one
    <3>3. (t \o serving) \o (commands \o one) = p \o one
      <4>1. \A u, v, w \in Seq(Requests) : (u \o v) \o w = u \o (v \o w)
        BY ConcatAssociative
      <4> QED BY <4>1, <1>1, <3>1, Zenon
    <3> QED BY <3>1, <3>2, <3>3, <1>1, <1>2
  <2>2. CASE ~HasRoom(commands, Capacity)
    BY <2>2, <1>1, <1>2, <1>4 DEF PushIfRoom
  <2> QED BY <2>1, <2>2
<1> QED BY <1>3, <1>4
-----------------------------------------------------------------------------
(* The inductive invariant *)

\* A list changes what it is of at a press at most.
Counted == \A l \in Lists : era[l] <= acts

IInv == TypeOK /\ Counted /\ InOrder /\ RowsInPlace /\ ListIsCurrent

LEMMA InitKeeps == Init => IInv
<1> SUFFICES ASSUME Init PROVE IInv
  OBVIOUS
<1>1. TypeOK
  <2>1. Root \in [Lists -> Objects] /\ \A l \in Lists : Root[l] \in ObjectsOf(l)
    BY ConstantsAre, FavoritesAreListed DEF Root, Lists, Objects
  <2>2. \A l \in Lists : rows[l] \in Seq({row \in Rows : Has(l, row)})
    <3>1. \A S : <<>> \in Seq(S)
      BY EmptySeq
    <3>2. \A l \in Lists : rows[l] = <<>>
      BY DEF Init
    <3> QED BY <3>1, <3>2
  <2>3. DOMAIN object = Lists /\ \A l \in Lists : object[l] \in ObjectsOf(l)
    BY <2>1 DEF Init
  <2>4. 0 \in 0..MaxActs /\ 0 <= Capacity /\ Len(<<>>) = 0
    BY ConstantsAre
  <2>5. /\ active \in Groups /\ screen \in Screens /\ selection \in Nat
        /\ selections \in [Screens -> Nat] /\ total \in [{"Queue", "Favorites"} -> Nat]
        /\ DOMAIN rows = Lists /\ next \in Nat /\ acts \in 0..MaxActs
        /\ era \in [Lists -> 0..MaxActs] /\ fresh \in [Lists -> BOOLEAN]
    BY <2>4, ConstantsAre DEF Init
  <2>6. /\ history \in Seq(Screens) /\ commands \in Seq(Requests)
        /\ serving \in Seq(Requests) /\ results \in Seq(Replies)
        /\ Len(commands) = 0 /\ Len(serving) = 0
    <3>1. (\A S : <<>> \in Seq(S)) /\ Len(<<>>) = 0
      BY EmptySeq
    <3>2. history = <<>> /\ commands = <<>> /\ serving = <<>> /\ results = <<>>
      BY DEF Init
    <3> QED BY <3>1, <3>2
  <2>7. more \in BOOLEAN /\ busy \in BOOLEAN /\ lost \in BOOLEAN
    BY DEF Init
  <2> QED BY <2>2, <2>3, <2>5, <2>6, <2>7, ConstantsAre DEF TypeOK, Replies
<1>2. Counted
  BY DEF Init, Counted
<1>3. InOrder
  <2>1. DOMAIN Of(results) = {}
    BY DEF Of, Init
  <2>2. Of(results) \in Seq(Requests) /\ Len(Of(results)) = 0
    <3>1. <<>> \in Seq(Replies) /\ Len(<<>>) = 0
      BY EmptySeq
    <3> QED BY <3>1, OfType DEF Init
  <2>3. Of(results) = <<>>
    BY <2>2, EmptySeq
  <2>4. Pipe = <<>>
    BY <2>3 DEF Pipe, Init
  <2> QED BY <2>4 DEF InOrder, Orderly
<1>4. RowsInPlace /\ ListIsCurrent
  BY DEF Init, RowsInPlace, ListIsCurrent, Lists
<1> QED BY <1>1, <1>2, <1>3, <1>4 DEF IInv

\* A press may show something else, and ask for a page or not.
Shown == /\ screen' \in Screens /\ history' \in Seq(Screens)
         /\ selection' \in Nat /\ selections' \in [Screens -> Nat]

LEMMA AskKeeps ==
  ASSUME IInv, Act, Shown, UNCHANGED <<active, rows>>,
         NEW l \in Lists, NEW o \in ObjectsOf(l), NEW from \in Nat, NEW size \in Nat,
         l = "Queue" => from \in {0, size}, Ask(l, o, from, size)
  PROVE  IInv'
<1> DEFINE changes == from = 0 /\ o # object[l]
           now == IF changes THEN [era EXCEPT ![l] = @ + 1] ELSE era
           c == Browse(l, o, from, size, now[l])
<1>1. /\ commands' = PushIfRoom(commands, Capacity, c)
      /\ lost' = (lost \/ ~HasRoom(commands, Capacity))
      /\ UNCHANGED <<results, serving, total>>
      /\ busy' = HasRoom(commands, Capacity)
      /\ object' = IF from = 0 THEN [object EXCEPT ![l] = o] ELSE object
      /\ \/ next' = 0 /\ more' = FALSE
         \/ UNCHANGED <<next, more>>
      /\ era' = now
      /\ fresh' = IF changes THEN [fresh EXCEPT ![l] = FALSE] ELSE fresh
  BY DEF Ask, Send
<1>2. /\ acts \in Nat /\ acts' = acts + 1 /\ acts' \in 0..MaxActs
      /\ era \in [Lists -> 0..MaxActs] /\ \A k \in Lists : era[k] <= acts
      /\ fresh \in [Lists -> BOOLEAN] /\ TypeOK
  BY ConstantsAre DEF IInv, Act, TypeOK, Counted
<1>3. now \in [Lists -> 0..MaxActs] /\ \A k \in Lists : now[k] <= acts'
  BY <1>2, ConstantsAre
<1>4. l = "Queue" => ~changes
  BY <1>2, ConstantsAre DEF TypeOK, ObjectsOf
<1>5. now["Queue"] = era["Queue"] /\ fresh'["Queue"] = fresh["Queue"]
  BY <1>1, <1>2, <1>4 DEF Lists
<1>6. c \in Requests /\ c.list = l /\ c.start = from /\ c.offset = size
      /\ c.group = active /\ c.era = now[l]
  <2>1. now[l] \in 0..MaxActs /\ o \in Objects /\ l \in Lists \cup {"None"}
        /\ active \in Groups
    BY <1>2, <1>3, ConstantsAre DEF TypeOK
  <2> HIDE DEF now
  <2> QED BY <2>1, BrowseType
<1> HIDE DEF now, c
<1>7. InOrder'
  <2>1. Pipe' = Pipe \/ Pipe' = Append(Pipe, c)
    BY <1>1, <1>2, <1>6, PushedPipe
  <2>2. /\ Pipe \in Seq(Requests) /\ era["Queue"] \in Nat
        /\ Orderly(Pipe, era["Queue"], active, fresh["Queue"])
    BY <1>2, TransitType, ConstantsAre DEF IInv, InOrder, Lists
  <2>3. Orderly(Append(Pipe, c), era["Queue"], active, fresh["Queue"])
    BY <2>2, <1>5, <1>6, OrderlyMore
  <2>4. Orderly(Pipe', era["Queue"], active, fresh["Queue"])
    BY <2>1, <2>2, <2>3
  <2> QED BY <2>4, <1>1, <1>5 DEF InOrder
<1>8. DOMAIN object' = Lists /\ \A k \in Lists : object'[k] \in ObjectsOf(k)
  BY <1>1, <1>2 DEF TypeOK
<1>9. ListIsCurrent'
  <2> SUFFICES ASSUME NEW k \in Lists, fresh'[k], NEW i \in DOMAIN rows[k]
               PROVE  rows[k][i].of
                        = <<object'[k], IF k = "Queue" THEN active ELSE "any">>
    BY DEF ListIsCurrent
  <2>1. fresh[k] /\ object'[k] = object[k]
    <3>1. CASE changes
      BY <3>1, <1>1, <1>2 DEF TypeOK
    <3>2. CASE ~changes
      BY <3>2, <1>1, <1>2 DEF TypeOK
    <3> QED BY <3>1, <3>2
  <2> QED BY <2>1 DEF IInv, ListIsCurrent
<1>10. fresh' \in [Lists -> BOOLEAN] /\ busy' \in BOOLEAN /\ lost' \in BOOLEAN
  <2>1. fresh' \in [Lists -> BOOLEAN]
    BY <1>1, <1>2
  <2>2. busy' \in BOOLEAN
    BY <1>1 DEF HasRoom
  <2>3. lost' \in BOOLEAN
    BY <1>1 DEF HasRoom
  <2> QED BY <2>1, <2>2, <2>3
<1>11. commands' \in Seq(Requests) /\ Len(commands') <= Capacity
  BY <1>1, <1>2, <1>6, PushedPipe
<1>12. next' \in Nat /\ more' \in BOOLEAN
  <2>1. next \in Nat /\ more \in BOOLEAN
    BY <1>2 DEF TypeOK
  <2>2. CASE next' = 0 /\ more' = FALSE
    BY <2>2
  <2>3. CASE UNCHANGED <<next, more>>
    BY <2>1, <2>3
  <2> QED BY <2>2, <2>3, <1>1
<1>13. TypeOK'
  BY <1>1, <1>2, <1>3, <1>8, <1>10, <1>11, <1>12 DEF TypeOK, Shown
<1>14. Counted' /\ RowsInPlace'
  BY <1>1, <1>3 DEF Counted, IInv, RowsInPlace
<1> QED BY <1>7, <1>9, <1>13, <1>14 DEF IInv

LEMMA QuietKeeps ==
  ASSUME IInv, Act, Shown, UNCHANGED <<active, rows, transit, paging, ghosts>>,
         busy' \in BOOLEAN
  PROVE  IInv'
<1>1. acts' \in 0..MaxActs /\ acts' = acts + 1 /\ acts \in Nat
  BY ConstantsAre DEF IInv, Act, TypeOK
<1>2. TypeOK'
  BY <1>1 DEF IInv, TypeOK, Shown, transit, paging, ghosts
<1>3. Counted'
  <2>1. \A l \in Lists : era[l] <= acts /\ era[l] \in Int
    BY ConstantsAre DEF IInv, Counted, TypeOK
  <2> QED BY <2>1, <1>1 DEF Counted, ghosts
<1>4. InOrder'
  <2>1. UNCHANGED <<Of(results), serving, commands>>
    BY DEF transit, Of
  <2>2. Pipe' = Pipe
    BY <2>1 DEF Pipe
  <2>3. Orderly(Pipe, era["Queue"], active, fresh["Queue"])
    BY DEF IInv, InOrder
  <2> QED BY <2>2, <2>3 DEF InOrder, ghosts
<1>5. RowsInPlace' /\ ListIsCurrent'
  BY DEF IInv, RowsInPlace, ListIsCurrent, paging, ghosts
<1> QED BY <1>2, <1>3, <1>4, <1>5 DEF IInv
-----------------------------------------------------------------------------
(* Each action keeps it *)

LEMMA SizesType ==
  ASSUME TypeOK
  PROVE  /\ \A l \in Lists : Len(rows[l]) \in Nat /\ rows[l] \in Seq(Rows)
         /\ \A s \in Screens : ListSize(s) \in Nat
<1>1. ASSUME NEW l \in Lists PROVE Len(rows[l]) \in Nat /\ rows[l] \in Seq(Rows)
  <2>1. rows[l] \in Seq({row \in Rows : Has(l, row)})
    BY DEF TypeOK
  <2>2. {row \in Rows : Has(l, row)} \subseteq Rows
    OBVIOUS
  <2> QED BY <2>1, <2>2, SeqMonotonic, LenProperties
<1>2. \A s \in Screens : ListSize(s) \in Nat
  BY <1>1 DEF ListSize
<1> QED BY <1>1, <1>2

LEMMA FirstKeeps ==
  ASSUME IInv, Act, Shown, UNCHANGED <<active, rows>>,
         NEW l \in Lists, NEW o \in ObjectsOf(l), AskFirst(l, o)
  PROVE  IInv'
<1>1. Len(rows[l]) \in Nat
  BY SizesType DEF IInv
<1>2. Ask(l, o, 0, Len(rows[l]))
  BY DEF AskFirst
<1>3. 0 \in {0, Len(rows[l])} /\ 0 \in Nat
  OBVIOUS
<1> QED BY <1>1, <1>2, <1>3, AskKeeps

LEMMA OpenKeeps ==
  ASSUME IInv, Act, NEW s \in Screens, Open(s), history' \in Seq(Screens),
         UNCHANGED <<active, rows>>
  PROVE  IInv'
<1>1. /\ selections' \in [Screens -> Nat] /\ screen' = s
      /\ selection' = Clamped(selections'[s], ListSize(s))
  BY DEF Open, IInv, TypeOK
<1>2. ListSize(s) \in Nat /\ selections'[s] \in Nat
  BY <1>1, SizesType DEF IInv
<1>3. selection' \in Nat
  BY <1>1, <1>2, ClampType
<1>4. Shown
  BY <1>1, <1>3 DEF Shown
<1>5. CASE s \in Lists
  <2>1. AskFirst(s, Root[s]) /\ Root[s] \in ObjectsOf(s)
    BY <1>5, ConstantsAre DEF Open
  <2> QED BY <2>1, <1>4, <1>5, FirstKeeps
<1>6. CASE s \notin Lists
  <2>1. NoAsk
    BY <1>6 DEF Open
  <2>2. busy' \in BOOLEAN /\ UNCHANGED <<transit, paging, ghosts>>
    BY <2>1 DEF NoAsk, IInv, TypeOK
  <2> QED BY <2>2, <1>4, QuietKeeps
<1> QED BY <1>5, <1>6

LEMMA NavigateKeeps ==
  ASSUME IInv, NEW s \in Screens, Navigate(s)
  PROVE  IInv'
<1>1. Act /\ Open(s) /\ UNCHANGED <<active, rows>> /\ history' = Append(history, screen)
  BY DEF Navigate
<1>2. history' \in Seq(Screens)
  BY <1>1, AppendProperties DEF IInv, TypeOK
<1> QED BY <1>1, <1>2, OpenKeeps

LEMMA SwitchKeeps ==
  ASSUME IInv, SwitchQueuePlaylist
  PROVE  IInv'
<1>1. /\ Act /\ Open(IF screen = "Queue" THEN "Playlists" ELSE "Queue")
      /\ UNCHANGED <<active, rows, history>>
  BY DEF SwitchQueuePlaylist
<1>2. history' \in Seq(Screens)
  BY <1>1 DEF IInv, TypeOK
<1>3. "Playlists" \in Screens /\ "Queue" \in Screens
  BY DEF Screens, Lists
<1> QED BY <1>1, <1>2, <1>3, OpenKeeps

LEMMA BackKeeps ==
  ASSUME IInv, Back
  PROVE  IInv'
<1>1. Act /\ NoAsk /\ UNCHANGED <<active, rows>>
  BY DEF Back
<1>2. /\ screen \in Screens /\ history \in Seq(Screens) /\ selection \in Nat
      /\ selections \in [Screens -> Nat] /\ busy \in BOOLEAN
  BY DEF IInv, TypeOK
<1>3. Shown
  <2>1. CASE screen = "NowPlaying" \/ history = <<>>
    <3>1. /\ screen' = "NowPlaying" /\ history' = <<>> /\ selection' = 0
          /\ UNCHANGED selections
      BY <2>1 DEF Back
    <3>2. <<>> \in Seq(Screens)
      BY EmptySeq
    <3> QED BY <3>1, <3>2, <1>2, ConstantsAre DEF Shown
  <2>2. CASE ~(screen = "NowPlaying" \/ history = <<>>)
    <3>1. /\ selections' = [selections EXCEPT ![screen] = selection]
          /\ screen' = Last(history) /\ history' = Front(history)
          /\ selection' = selections'[screen']
      BY <2>2 DEF Back
    <3>2. Len(history) \in Nat \ {0}
      BY <2>2, <1>2, EmptySeq
    <3>3. Last(history) \in Screens
      <4>1. Len(history) \in 1..Len(history)
        BY <3>2
      <4> QED BY <4>1, <1>2, ElementOfSeq DEF Last
    <3>4. Front(history) \in Seq(Screens)
      <4>1. \A i \in 1..Len(history) - 1 : history[i] \in Screens
        BY <3>2, <1>2, ElementOfSeq
      <4> QED BY <4>1, <3>2, SubSeqProperties DEF Front
    <3>5. selections' \in [Screens -> Nat]
      BY <3>1, <1>2
    <3> QED BY <3>1, <3>3, <3>4, <3>5 DEF Shown
  <2> QED BY <2>1, <2>2
<1>4. busy' \in BOOLEAN /\ UNCHANGED <<transit, paging, ghosts>>
  BY <1>1, <1>2 DEF NoAsk
<1> QED BY <1>1, <1>3, <1>4, QuietKeeps

LEMMA MoveKeeps ==
  ASSUME IInv, NEW d \in Deltas, Move(d)
  PROVE  IInv'
<1>1. /\ Act /\ screen \in Lists /\ selection' = Clamped(selection + d, Len(rows[screen]))
      /\ UNCHANGED <<active, screen, history, selections, rows>>
      /\ NextPage(screen) \/ NoAsk
  BY DEF Move
<1>2. /\ screen \in Screens /\ history \in Seq(Screens) /\ selection \in Nat
      /\ selections \in [Screens -> Nat] /\ busy \in BOOLEAN /\ next \in Nat
      /\ object[screen] \in ObjectsOf(screen)
  BY <1>1 DEF IInv, TypeOK
<1>3. Len(rows[screen]) \in Nat
  BY <1>1, SizesType DEF IInv
<1>4. selection + d \in Int
  BY <1>2, ConstantsAre
<1>5. Shown
  BY <1>1, <1>2, <1>3, <1>4, ClampType DEF Shown
<1>6. CASE NextPage(screen)
  <2> DEFINE size == Len(rows[screen])
             from == IF screen = "Playlists" THEN next ELSE size
  <2>1. Ask(screen, object[screen], from, size)
    BY <1>6 DEF NextPage
  <2>2. from \in Nat /\ (screen = "Queue" => from \in {0, size})
    BY <1>2, <1>3
  <2> HIDE DEF from
  <2> QED BY <2>1, <2>2, <1>1, <1>2, <1>3, <1>5, AskKeeps
<1>7. CASE NoAsk
  <2>1. busy' \in BOOLEAN /\ UNCHANGED <<transit, paging, ghosts>>
    BY <1>7, <1>2 DEF NoAsk
  <2> QED BY <2>1, <1>1, <1>5, QuietKeeps
<1> QED BY <1>1, <1>6, <1>7

LEMMA StayShown ==
  ASSUME TypeOK, UNCHANGED shown
  PROVE  Shown
BY DEF TypeOK, Shown, shown

LEMMA RefreshKeeps ==
  ASSUME IInv, Refresh
  PROVE  IInv'
<1>1. /\ Act /\ screen \in Lists /\ AskFirst(screen, Root[screen])
      /\ UNCHANGED <<active, rows>> /\ UNCHANGED shown
  BY DEF Refresh
<1>2. Shown
  BY <1>1, StayShown DEF IInv
<1> QED BY <1>1, <1>2, FirstKeeps, ConstantsAre

LEMMA PlaybackKeeps ==
  ASSUME IInv, PlaybackAnswer
  PROVE  IInv'
<1>1. Act /\ UNCHANGED <<active, rows>> /\ UNCHANGED shown
  BY DEF PlaybackAnswer
<1>2. Shown
  BY <1>1, StayShown DEF IInv
<1>3. CASE busy' = FALSE /\ UNCHANGED <<transit, paging, ghosts>>
  BY <1>1, <1>2, <1>3, QuietKeeps
<1>4. CASE AskFirst("Queue", "Q:0")
  <2>1. "Queue" \in Lists /\ "Q:0" \in ObjectsOf("Queue")
    BY DEF Lists, ObjectsOf
  <2> QED BY <2>1, <1>1, <1>2, <1>4, FirstKeeps
<1>5. CASE AskFirst("Playlists", "FV:2")
  <2>1. "Playlists" \in Lists /\ "FV:2" \in ObjectsOf("Playlists")
    BY FavoritesAreListed DEF Lists, ObjectsOf
  <2> QED BY <2>1, <1>1, <1>2, <1>5, FirstKeeps
<1> QED BY <1>3, <1>4, <1>5 DEF PlaybackAnswer

\* The command of a row that is started is of no list.
LEMMA PlayKeeps ==
  ASSUME IInv, Act, Shown, UNCHANGED <<active, rows, paging, era, fresh>>,
         busy' \in BOOLEAN, NEW row \in Rows, Send(Play(row))
  PROVE  IInv'
<1> DEFINE c == Play(row)
<1>1. /\ commands' = PushIfRoom(commands, Capacity, c)
      /\ lost' = (lost \/ ~HasRoom(commands, Capacity))
      /\ UNCHANGED <<results, serving>> /\ TypeOK
  BY DEF Send, IInv
<1>2. c \in Requests /\ c.list = "None"
  <2>1. row.of[1] \in Objects /\ row.at \in Nat /\ 0 \in 0..MaxActs /\ active \in Groups
    BY ConstantsAre DEF Rows, IInv, TypeOK
  <2> QED BY <2>1, BrowseType DEF Play
<1> HIDE DEF c
<1>3. InOrder'
  <2>1. Pipe' = Pipe \/ Pipe' = Append(Pipe, c)
    BY <1>1, <1>2, PushedPipe
  <2>2. /\ Pipe \in Seq(Requests) /\ era["Queue"] \in Nat
        /\ Orderly(Pipe, era["Queue"], active, fresh["Queue"])
    BY <1>1, TransitType, ConstantsAre DEF IInv, InOrder, TypeOK, Lists
  <2>3. Orderly(Append(Pipe, c), era["Queue"], active, fresh["Queue"])
    BY <2>2, <1>2, OrderlyMore
  <2>4. Orderly(Pipe', era["Queue"], active, fresh["Queue"])
    BY <2>1, <2>2, <2>3
  <2> QED BY <2>4 DEF InOrder
<1>4. commands' \in Seq(Requests) /\ Len(commands') <= Capacity
  BY <1>1, <1>2, PushedPipe
<1>5. lost' \in BOOLEAN
  BY <1>1 DEF HasRoom
<1>6. acts' \in 0..MaxActs /\ acts' = acts + 1 /\ acts \in Nat
  BY <1>1, ConstantsAre DEF Act, TypeOK
<1>7. TypeOK'
  BY <1>1, <1>4, <1>5, <1>6 DEF TypeOK, Shown, paging
<1>8. Counted'
  <2>1. \A l \in Lists : era[l] <= acts /\ era[l] \in Int
    BY ConstantsAre DEF IInv, Counted, TypeOK
  <2> QED BY <2>1, <1>6 DEF Counted
<1>9. RowsInPlace' /\ ListIsCurrent'
  BY DEF IInv, RowsInPlace, ListIsCurrent, paging
<1> QED BY <1>3, <1>7, <1>8, <1>9 DEF IInv

LEMMA ConfirmKeeps ==
  ASSUME IInv, Confirm
  PROVE  IInv'
<1> DEFINE row == rows[screen][selection + 1]
<1>1. Act /\ screen \in Lists /\ selection < Len(rows[screen]) /\ UNCHANGED <<active, rows>>
  BY DEF Confirm
<1>2. /\ TypeOK /\ screen \in Screens /\ selection \in Nat
      /\ selections \in [Screens -> Nat] /\ history \in Seq(Screens)
  BY DEF IInv, TypeOK
<1>3. row \in Rows
  <2>1. selection + 1 \in 1..Len(rows[screen]) /\ rows[screen] \in Seq(Rows)
    BY <1>1, <1>2, SizesType
  <2> QED BY <2>1, ElementOfSeq
<1>4. CASE screen # "Queue" /\ row.kind \in Folders
  <2>1. AskFirst(screen, row.kind) /\ UNCHANGED shown
    BY <1>4 DEF Confirm
  <2>2. row.kind \in ObjectsOf(screen)
    BY <1>4, ConstantsAre DEF ObjectsOf
  <2> QED BY <2>1, <2>2, <1>1, <1>2, StayShown, FirstKeeps
<1>5. CASE ~(screen # "Queue" /\ row.kind \in Folders)
  <2>1. /\ Send(Play(row)) /\ busy' = HasRoom(commands, Capacity)
        /\ \/ /\ selections' = [selections EXCEPT ![screen] = selection]
              /\ screen' = "NowPlaying" /\ history' = Append(history, screen)
              /\ selection' = 0
           \/ UNCHANGED shown
        /\ UNCHANGED <<paging, era, fresh>>
    BY <1>5 DEF Confirm
  <2>2. Shown
    <3>1. CASE UNCHANGED shown
      BY <3>1, <1>2, StayShown
    <3>2. CASE /\ selections' = [selections EXCEPT ![screen] = selection]
               /\ screen' = "NowPlaying" /\ history' = Append(history, screen)
               /\ selection' = 0
      <4>1. history' \in Seq(Screens)
        BY <3>2, <1>2, AppendProperties
      <4> QED BY <4>1, <3>2, <1>2, ConstantsAre DEF Shown
    <3> QED BY <2>1, <3>1, <3>2
  <2>3. busy' \in BOOLEAN
    BY <2>1 DEF HasRoom
  <2> HIDE DEF row
  <2> QED BY <2>1, <2>2, <2>3, <1>1, <1>3, PlayKeeps
<1> QED BY <1>4, <1>5

\* Nothing asked for earlier is of the group selected now.
LEMMA SelectGroupKeeps ==
  ASSUME IInv, NEW g \in Groups, SelectGroup(g)
  PROVE  IInv'
<1>1. /\ Act /\ active' = g /\ screen' = "NowPlaying" /\ history' = <<>>
      /\ era' = [era EXCEPT !["Queue"] = @ + 1]
      /\ fresh' = [fresh EXCEPT !["Queue"] = FALSE]
      /\ UNCHANGED <<selection, selections, rows, busy, lost>>
      /\ UNCHANGED paging /\ UNCHANGED transit
  BY DEF SelectGroup
<1>2. /\ acts \in Nat /\ acts' = acts + 1 /\ acts' \in 0..MaxActs
      /\ era \in [Lists -> 0..MaxActs] /\ \A k \in Lists : era[k] <= acts
      /\ fresh \in [Lists -> BOOLEAN] /\ TypeOK /\ "Queue" \in Lists
  BY <1>1, ConstantsAre DEF IInv, Act, TypeOK, Counted, Lists
<1>3. era' \in [Lists -> 0..MaxActs] /\ Counted' /\ era'["Queue"] = era["Queue"] + 1
  <2>1. \A k \in Lists : /\ era[k] \in Nat
                         /\ era'[k] = IF k = "Queue" THEN era[k] + 1 ELSE era[k]
    BY <1>1, <1>2, ConstantsAre
  <2>2. \A k \in Lists : era'[k] <= acts' /\ era'[k] \in 0..MaxActs
    BY <2>1, <1>2, ConstantsAre
  <2> QED BY <2>1, <2>2, <1>1, <1>2 DEF Counted
<1>4. fresh' \in [Lists -> BOOLEAN] /\ fresh'["Queue"] = FALSE
  BY <1>1, <1>2
<1>5. InOrder'
  <2>1. UNCHANGED <<Of(results), serving, commands>>
    BY <1>1 DEF transit, Of
  <2>2. Pipe' = Pipe
    BY <2>1 DEF Pipe
  <2>3. Orderly(Pipe, era["Queue"], active, fresh["Queue"]) /\ Pipe \in Seq(Requests)
        /\ era["Queue"] \in Nat
    BY <1>2, TransitType DEF IInv, InOrder
  <2>4. Orderly(Pipe, era["Queue"] + 1, g, FALSE)
    BY <2>3, OrderlyLater
  <2> QED BY <2>2, <2>4, <1>1, <1>3, <1>4 DEF InOrder
<1>6. TypeOK'
  <2>1. <<>> \in Seq(Screens)
    BY EmptySeq
  <2> QED BY <2>1, <1>1, <1>2, <1>3, <1>4, ConstantsAre DEF TypeOK, paging, transit
<1>7. RowsInPlace'
  BY <1>1 DEF IInv, RowsInPlace
<1>8. ListIsCurrent'
  <2> SUFFICES ASSUME NEW k \in Lists, fresh'[k], NEW i \in DOMAIN rows[k]
               PROVE  rows[k][i].of = <<object[k], IF k = "Queue" THEN g ELSE "any">>
    BY <1>1 DEF ListIsCurrent, paging
  <2>1. k # "Queue" /\ fresh[k]
    BY <1>1, <1>2, <1>4
  <2> QED BY <2>1 DEF IInv, ListIsCurrent
<1> QED BY <1>3, <1>5, <1>6, <1>7, <1>8 DEF IInv

\* The worker changes where a request is, and nothing that is on display.
LEMMA WorkerKeeps ==
  ASSUME IInv, Take \/ Answer
  PROVE  IInv'
<1>1. UNCHANGED <<active, rows, busy, acts, era, fresh>> /\ UNCHANGED shown
      /\ UNCHANGED paging
  BY DEF Take, Answer, ghosts
<1>2. Pipe' = Pipe
  BY TakePipe, AnswerPipe DEF IInv
<1>3. lost' \in BOOLEAN
  <2>1. CASE Take
    BY <2>1 DEF Take, ghosts, IInv, TypeOK
  <2>2. CASE Answer
    BY <2>2 DEF Answer
  <2> QED BY <2>1, <2>2
<1>4. /\ commands' \in Seq(Requests) /\ Len(commands') <= Capacity
      /\ serving' \in Seq(Requests) /\ Len(serving') <= 1
      /\ results' \in Seq(Replies)
  <2>1. CASE Take
    BY <2>1, TakePipe, TransitType DEF Take, IInv
  <2>2. CASE Answer
    <3>1. commands' = commands
      BY <2>2 DEF Answer
    <3>2. <<>> \in Seq(Requests) /\ Len(<<>>) = 0
      BY EmptySeq
    <3>3. serving' = <<>> /\ results' \in Seq(Replies)
      BY <2>2, AnswerPipe DEF IInv
    <3>4. commands \in Seq(Requests) /\ Len(commands) <= Capacity
      BY DEF IInv, TypeOK
    <3> QED BY <3>1, <3>2, <3>3, <3>4
  <2> QED BY <2>1, <2>2
<1>5. TypeOK'
  BY <1>1, <1>3, <1>4 DEF IInv, TypeOK, Replies, shown, paging
<1>6. InOrder'
  <2>1. Orderly(Pipe, era["Queue"], active, fresh["Queue"])
    BY DEF IInv, InOrder
  <2> QED BY <2>1, <1>1, <1>2 DEF InOrder
<1>7. Counted' /\ RowsInPlace' /\ ListIsCurrent'
  BY <1>1 DEF IInv, Counted, RowsInPlace, ListIsCurrent, paging
<1> QED BY <1>5, <1>6, <1>7 DEF IInv

\* The rows of a page that a list has are of what was asked for; the Queue has
\* them all, each in its place.
LEMMA PageOf ==
  ASSUME NEW r \in Requests
  PROVE  LET page == Visible(r.list, PageRows(r)) IN
         /\ page \in Seq({row \in {q \in Rows : q.of = Origin(r)} : Has(r.list, row)})
         /\ r.list = "Queue" /\ r.object = "Q:0" =>
              \A i \in DOMAIN page : page[i].at = r.start + i - 1
<1> DEFINE raw == PageRows(r)
           S == {q \in Rows : q.of = Origin(r)}
<1>1. /\ raw \in Seq(Rows)
      /\ \A i \in DOMAIN raw : /\ raw[i].of = Origin(r)
                               /\ raw[i].at = r.start + i - 1
                               /\ r.object = "Q:0" => raw[i].kind = "item"
  BY PageType
<1> HIDE DEF raw
<1>2. raw \in Seq(S)
  <2>1. DOMAIN raw = 1..Len(raw) /\ Len(raw) \in Nat /\ raw \in [1..Len(raw) -> Rows]
    BY <1>1, LenProperties
  <2>2. raw \in [1..Len(raw) -> S]
    BY <2>1, <1>1
  <2> HIDE DEF S
  <2> QED BY <2>1, <2>2, SeqDef
<1>3. Visible(r.list, raw) \in Seq({row \in S : Has(r.list, row)})
  <2> HIDE DEF S
  <2> QED BY <1>2, VisibleType
<1>4. ASSUME r.list = "Queue", r.object = "Q:0"
      PROVE  Visible(r.list, raw) = raw
  <2>1. \A i \in DOMAIN raw : Has(r.list, raw[i])
    BY <1>1, <1>4 DEF Has, Usable
  <2> QED BY <2>1, <1>1, VisibleAll
<1> QED BY <1>1, <1>3, <1>4 DEF raw

Listed(r) == LET page == Visible(r.list, PageRows(r)) IN
             IF r.start = 0 THEN page
             ELSE IF Fits(r) THEN rows[r.list] \o page ELSE rows[r.list]

Place(l) == <<object[l], IF l = "Queue" THEN active ELSE "any">>

LEMMA ShownList ==
  ASSUME IInv, results # <<>>, NEW r, r = Head(results).of, r.list \in Lists,
         IsForList(r)
  PROVE  LET l == r.list
             list == Listed(r)
         IN /\ list \in Seq({row \in Rows : Has(l, row)})
            /\ l = "Queue" => \A i \in DOMAIN list : list[i].at = i - 1
            /\ fresh[l] \/ (r.start = 0 /\ r.era = era[l]) =>
                 \A i \in DOMAIN list : list[i].of = Place(l)
<1> DEFINE l == r.list
           page == Visible(l, PageRows(r))
           S == {row \in Rows : Has(l, row)}
           current == fresh[l] \/ (r.start = 0 /\ r.era = era[l])
<1>1. r \in Requests /\ Pipe # <<>> /\ r = Head(Pipe) /\ Pipe \in Seq(Requests) /\ TypeOK
  BY OldestOfPipe, TransitType DEF IInv, Replies
<1>2. ASSUME l = "Queue"
      PROVE  /\ r.start \in {0, r.offset} /\ r.object = "Q:0"
             /\ current => r.group = active
  <2>1. 1 \in DOMAIN Pipe /\ r = Pipe[1]
    <3>1. Len(Pipe) \in Nat \ {0} /\ DOMAIN Pipe = 1..Len(Pipe)
      BY <1>1, EmptySeq, LenProperties
    <3>2. Head(Pipe) = Pipe[1]
      BY <1>1, HeadTailProperties
    <3> QED BY <3>1, <3>2, <1>1
  <2>2. Orderly(Pipe, era["Queue"], active, fresh["Queue"])
    BY DEF IInv, InOrder
  <2>3. /\ r.start \in {0, r.offset}
        /\ r.era = era["Queue"] => r.group = active
        /\ fresh["Queue"] => r.era = era["Queue"]
    BY <2>1, <2>2, <1>2 DEF Orderly
  <2>4. object[l] \in ObjectsOf(l)
    BY <1>1 DEF TypeOK
  <2> QED BY <2>3, <2>4, <1>2, ConstantsAre DEF IsForList
<1>3. ASSUME current PROVE Origin(r) = Place(l)
  <2>1. object[l] \in ObjectsOf(l) /\ r.object = object[l]
    BY <1>1 DEF TypeOK, IsForList
  <2>2. CASE l = "Queue"
    BY <2>1, <2>2, <1>2, <1>3 DEF Origin, Place
  <2>3. CASE l # "Queue"
    <3>1. r.object # "Q:0"
      BY <2>1, <2>3, ConstantsAre
    <3> QED BY <3>1, <2>1, <2>3 DEF Origin, Place
  <2> QED BY <2>2, <2>3
<1>4. /\ page \in Seq({row \in {q \in Rows : q.of = Origin(r)} : Has(l, row)})
      /\ l = "Queue" /\ r.object = "Q:0" =>
           \A i \in DOMAIN page : page[i].at = r.start + i - 1
  BY <1>1, PageOf
<1> HIDE DEF page
<1>5. page \in Seq(S)
  <2>1. {row \in {q \in Rows : q.of = Origin(r)} : Has(l, row)} \subseteq S
    OBVIOUS
  <2> QED BY <2>1, <1>4, SeqMonotonic
<1>6. /\ Len(page) \in Nat /\ DOMAIN page = 1..Len(page)
      /\ \A i \in 1..Len(page) : page[i].of = Origin(r)
  <2>1. Len(page) \in Nat /\ DOMAIN page = 1..Len(page)
    BY <1>5, LenProperties
  <2>2. \A i \in 1..Len(page) :
          page[i] \in {row \in {q \in Rows : q.of = Origin(r)} : Has(l, row)}
    BY <1>4, ElementOfSeq
  <2> QED BY <2>1, <2>2
<1>7. rows[l] \in Seq(S) /\ Len(rows[l]) \in Nat /\ DOMAIN rows[l] = 1..Len(rows[l])
  <2>1. rows[l] \in Seq(S)
    BY <1>1 DEF TypeOK
  <2> HIDE DEF S
  <2> QED BY <2>1, LenProperties
<1>8. /\ l = "Queue" => \A i \in 1..Len(rows[l]) : rows[l][i].at = i - 1
      /\ fresh[l] => \A i \in 1..Len(rows[l]) : rows[l][i].of = Place(l)
  BY <1>7 DEF IInv, RowsInPlace, ListIsCurrent, Place
<1>9. CASE r.start = 0
  <2>1. Listed(r) = page
    BY <1>9 DEF Listed, page
  <2>2. l = "Queue" => \A i \in 1..Len(page) : page[i].at = i - 1
    <3> SUFFICES ASSUME l = "Queue", NEW i \in 1..Len(page)
                 PROVE  page[i].at = i - 1
      OBVIOUS
    <3>1. i \in DOMAIN page /\ r.object = "Q:0"
      BY <1>2, <1>6
    <3>2. page[i].at = 0 + i - 1
      BY <3>1, <1>4, <1>9
    <3> QED BY <3>2, <1>6
  <2> QED BY <2>1, <2>2, <1>3, <1>5, <1>6
<1>10. CASE r.start # 0 /\ ~Fits(r)
  <2>1. Listed(r) = rows[l]
    BY <1>10 DEF Listed
  <2> QED BY <2>1, <1>7, <1>8, <1>10
<1>11. CASE r.start # 0 /\ Fits(r)
  <2> DEFINE list == rows[l] \o page
             n == Len(rows[l])
  <2>1. Listed(r) = list
    BY <1>11 DEF Listed, page
  <2>2. /\ list \in Seq(S) /\ Len(list) = n + Len(page)
        /\ \A i \in 1..n + Len(page) :
             list[i] = IF i <= n THEN rows[l][i] ELSE page[i - n]
    <3> HIDE DEF S
    <3> QED BY <1>5, <1>7, ConcatProperties
  <2> HIDE DEF list
  <2>3. DOMAIN list = 1..n + Len(page)
    <3> HIDE DEF S
    <3> QED BY <2>2, LenProperties
  <2>4. \A i \in 1..n + Len(page) : \/ i \in 1..n /\ list[i] = rows[l][i]
                                    \/ i - n \in 1..Len(page) /\ list[i] = page[i - n]
    BY <2>2, <1>6, <1>7
  <2>5. ASSUME l = "Queue", NEW i \in 1..n + Len(page)
        PROVE  list[i].at = i - 1
    <3>1. r.start = n
      BY <2>5, <1>2, <1>11 DEF Fits
    <3>2. CASE i \in 1..n /\ list[i] = rows[l][i]
      BY <3>2, <2>5, <1>8
    <3>3. CASE i - n \in 1..Len(page) /\ list[i] = page[i - n]
      <4>1. page[i - n].at = n + (i - n) - 1
        BY <3>1, <3>3, <2>5, <1>2, <1>4, <1>6
      <4> QED BY <4>1, <3>3, <1>7
    <3> QED BY <3>2, <3>3, <2>4
  <2>6. ASSUME current, NEW i \in 1..n + Len(page)
        PROVE  list[i].of = Place(l)
    BY <2>4, <2>6, <1>3, <1>6, <1>8, <1>11
  <2> QED BY <2>1, <2>2, <2>3, <2>5, <2>6
<1> QED BY <1>9, <1>10, <1>11

LEMMA IgnoredKeeps ==
  ASSUME IInv, results # <<>>, results' = Tail(results), busy' = FALSE,
         UNCHANGED <<active, rows, commands, serving, acts>>, UNCHANGED shown,
         UNCHANGED paging, UNCHANGED ghosts
  PROVE  IInv'
<1>1. TypeOK /\ Tail(results) \in Seq(Replies)
  BY OldestOfPipe DEF IInv
<1>2. TypeOK'
  BY <1>1 DEF TypeOK, Replies, shown, paging, ghosts
<1>3. InOrder'
  <2>1. Pipe' = Tail(Pipe) /\ Pipe # <<>> /\ Pipe \in Seq(Requests)
    BY <1>1, ReceivedPipe, OldestOfPipe, TransitType
  <2>2. /\ Orderly(Pipe, era["Queue"], active, fresh["Queue"])
        /\ era["Queue"] \in Nat
    BY <1>1, ConstantsAre DEF IInv, InOrder, TypeOK, Lists
  <2>3. Orderly(Tail(Pipe), era["Queue"], active, fresh["Queue"])
    BY <2>1, <2>2, OrderlyRest
  <2> QED BY <2>1, <2>3 DEF InOrder, ghosts
<1>4. Counted' /\ RowsInPlace' /\ ListIsCurrent'
  BY DEF IInv, Counted, RowsInPlace, ListIsCurrent, paging, ghosts
<1> QED BY <1>2, <1>3, <1>4 DEF IInv

LEMMA ShowKeeps ==
  ASSUME IInv, results # <<>>, results' = Tail(results), NEW r, r = Head(results).of,
         r.list \in Lists, IsForList(r), ShowPage(r), UNCHANGED <<active, serving, acts>>
  PROVE  IInv'
<1> DEFINE l == r.list
           raw == PageRows(r)
           page == Visible(l, raw)
           list == Listed(r)
           matches == Len(Contents(r.object, r.group))
           reached == r.start + Len(raw)
           again == Browse(l, object[l], reached, Len(list), era[l])
           first == r.start = 0 /\ r.era = era[l]
<1>1. /\ TypeOK /\ r \in Requests /\ results' \in Seq(Replies)
      /\ Pipe # <<>> /\ r = Head(Pipe) /\ Pipe \in Seq(Requests)
      /\ Tail(Pipe) \in Seq(Requests)
  BY OldestOfPipe, TransitType DEF IInv, Replies
<1>2. /\ list \in Seq({row \in Rows : Has(l, row)})
      /\ l = "Queue" => \A i \in DOMAIN list : list[i].at = i - 1
      /\ fresh[l] \/ first => \A i \in DOMAIN list : list[i].of = Place(l)
  BY ShownList
<1>3. matches \in Nat /\ Len(raw) \in Nat /\ reached \in Nat /\ Len(list) \in Nat
  <2>1. raw \in Seq(Rows) /\ r.start \in Nat
    BY <1>1, PageType, RequestParts
  <2>2. Contents(r.object, r.group) \in Seq(Kinds)
    BY <1>1, ContentsType, RequestParts
  <2> HIDE DEF raw, list
  <2> QED BY <2>1, <2>2, <1>2, LenProperties
<1>4. /\ rows' = [rows EXCEPT ![l] = list]
      /\ selection' = Clamped(selection, Len(list))
      /\ \/ commands' = commands
         \/ commands' = PushIfRoom(commands, Capacity, again) /\ l = "Playlists"
      /\ fresh' = [fresh EXCEPT ![l] = @ \/ first]
      /\ UNCHANGED <<screen, history, selections, object, era>>
  BY DEF ShowPage, GoesOn, Listed
<1>5. total' \in [{"Queue", "Favorites"} -> Nat] /\ next' \in Nat /\ more' \in BOOLEAN
  <2>1. total \in [{"Queue", "Favorites"} -> Nat] /\ next \in Nat /\ more \in BOOLEAN
    BY <1>1 DEF TypeOK
  <2>2. CASE l = "Playlists"
    <3>1. next' = reached /\ more' = (Len(raw) > 0 /\ reached < matches) /\ total' = total
      BY <2>2 DEF ShowPage
    <3>2. more' \in BOOLEAN
      BY <3>1
    <3> QED BY <3>1, <3>2, <2>1, <1>3
  <2>3. CASE l # "Playlists"
    <3>1. /\ total' = [total EXCEPT ![l] =
                         IF r.start = 0 /\ Len(raw) >= matches THEN Len(list)
                         ELSE matches]
          /\ next' = next /\ more' = more
      BY <2>3 DEF ShowPage, Listed
    <3> HIDE DEF list, raw, matches
    <3> QED BY <3>1, <2>1, <1>3
  <2> QED BY <2>2, <2>3
<1>6. busy' \in BOOLEAN /\ lost' \in BOOLEAN
  <2>1. busy' \in BOOLEAN
    BY DEF ShowPage, HasRoom
  <2>2. lost' \in BOOLEAN
    BY DEF ShowPage, HasRoom
  <2> QED BY <2>1, <2>2
<1>7. again \in Requests /\ again.list = l
  <2>1. object[l] \in Objects /\ era[l] \in 0..MaxActs /\ active \in Groups
        /\ l \in Lists \cup {"None"}
    BY <1>1, ConstantsAre DEF TypeOK
  <2> DEFINE n == Len(list)
  <2>2. reached \in Nat /\ n \in Nat /\ again = Browse(l, object[l], reached, n, era[l])
    BY <1>3
  <2>3. active \in Groups
    BY <2>1
  <2> HIDE DEF list, reached, n, again
  <2>4. LET c == Browse(l, object[l], reached, n, era[l])
        IN  c \in Requests /\ c.list = l
    BY <2>1, <2>2, <2>3, BrowseType
  <2> QED BY <2>2, <2>4
<1> HIDE DEF list, raw, page, matches, reached, again
<1>8. commands' \in Seq(Requests) /\ Len(commands') <= Capacity
  <2>1. commands \in Seq(Requests) /\ Len(commands) <= Capacity /\ Len(commands) \in Nat
    BY <1>1, LenProperties DEF TypeOK
  <2>2. CASE commands' = PushIfRoom(commands, Capacity, again)
    <3>1. CASE HasRoom(commands, Capacity)
      <4>1. commands' = Append(commands, again) /\ Len(commands) < Capacity
        BY <2>2, <3>1 DEF PushIfRoom, HasRoom
      <4>2. commands' \in Seq(Requests) /\ Len(commands') = Len(commands) + 1
        BY <4>1, <2>1, <1>7, AppendProperties
      <4> QED BY <4>1, <4>2, <2>1, ConstantsAre
    <3>2. CASE ~HasRoom(commands, Capacity)
      BY <2>1, <2>2, <3>2 DEF PushIfRoom
    <3> QED BY <3>1, <3>2
  <2> QED BY <2>1, <2>2, <1>4
<1>9. /\ fresh \in [Lists -> BOOLEAN] /\ fresh' \in [Lists -> BOOLEAN]
      /\ fresh'[l] => fresh[l] \/ first
      /\ \A k \in Lists \ {l} : fresh'[k] = fresh[k]
  <2>1. fresh \in [Lists -> BOOLEAN]
    BY <1>1 DEF TypeOK
  <2>2. PICK b \in BOOLEAN : b <=> fresh[l] \/ first
    BY Zenon
  <2>3. fresh' = [fresh EXCEPT ![l] = b]
    <3>1. fresh[l] \in BOOLEAN
      BY <2>1
    <3>2. (fresh[l] \/ first) = b
      BY <2>2, <3>1
    <3> QED BY <3>2, <1>4
  <2> HIDE DEF first
  <2> QED BY <2>1, <2>2, <2>3
<1>10. InOrder'
  <2> DEFINE now == fresh'["Queue"]
  <2>1. /\ Orderly(Pipe, era["Queue"], active, fresh["Queue"])
        /\ era["Queue"] \in Nat
    BY <1>1, ConstantsAre DEF IInv, InOrder, TypeOK, Lists
  <2>2. now => fresh["Queue"] \/ (Head(Pipe).list = "Queue" /\ Head(Pipe).era = era["Queue"])
    BY <1>1, <1>9 DEF Lists
  <2> HIDE DEF now
  <2>3. Orderly(Tail(Pipe), era["Queue"], active, now)
    BY <2>1, <2>2, <1>1, OrderlyRest
  <2>4. Pipe' = Tail(Pipe) \/ (Pipe' = Append(Tail(Pipe), again) /\ l = "Playlists")
    BY <1>1, <1>4, <1>7, ReceivedPipe
  <2>5. Orderly(Pipe', era["Queue"], active, now)
    <3>1. CASE Pipe' = Tail(Pipe)
      BY <3>1, <2>3
    <3>2. CASE Pipe' = Append(Tail(Pipe), again) /\ l = "Playlists"
      BY <3>2, <2>1, <2>3, <1>1, <1>7, OrderlyMore
    <3> QED BY <2>4, <3>1, <3>2
  <2> QED BY <2>5, <1>4 DEF InOrder, now
<1>11. /\ DOMAIN rows' = Lists /\ rows'[l] = list
       /\ \A k \in Lists \ {l} : rows'[k] = rows[k]
  BY <1>1, <1>4 DEF TypeOK
<1>12. TypeOK'
  <2>1. \A k \in Lists : rows'[k] \in Seq({row \in Rows : Has(k, row)})
    BY <1>1, <1>2, <1>11 DEF TypeOK
  <2>2. selection' \in Nat
    BY <1>1, <1>3, <1>4, ClampType DEF TypeOK
  <2> QED BY <2>1, <2>2, <1>1, <1>4, <1>5, <1>6, <1>8, <1>9, <1>11 DEF TypeOK, Replies
<1>13. RowsInPlace'
  BY <1>2, <1>11 DEF IInv, RowsInPlace, Lists
<1>14. ListIsCurrent'
  <2> SUFFICES ASSUME NEW k \in Lists, fresh'[k], NEW i \in DOMAIN rows'[k]
               PROVE  rows'[k][i].of = Place(k)
    BY <1>4 DEF ListIsCurrent, Place
  <2>1. CASE k = l
    BY <2>1, <1>2, <1>9, <1>11
  <2>2. CASE k # l
    BY <2>2, <1>9, <1>11 DEF IInv, ListIsCurrent, Place
  <2> QED BY <2>1, <2>2
<1>15. Counted'
  BY <1>4 DEF IInv, Counted
<1> QED BY <1>10, <1>12, <1>13, <1>14, <1>15 DEF IInv

LEMMA ApplyKeeps ==
  ASSUME IInv, Apply
  PROVE  IInv'
<1> DEFINE r == Head(results).of
<1>1. results # <<>> /\ results' = Tail(results) /\ UNCHANGED <<active, serving, acts>>
  BY DEF Apply
<1>2. CASE r.list \in Lists /\ Head(results).ok /\ IsForList(r)
  <2>1. ShowPage(r)
    BY <1>2 DEF Apply
  <2> QED BY <2>1, <1>1, <1>2, ShowKeeps
<1>3. CASE ~(r.list \in Lists /\ Head(results).ok /\ IsForList(r))
  <2>1. busy' = FALSE /\ UNCHANGED <<rows, commands>> /\ UNCHANGED shown
        /\ UNCHANGED paging /\ UNCHANGED ghosts
    BY <1>3 DEF Apply
  <2> QED BY <2>1, <1>1, IgnoredKeeps
<1> QED BY <1>2, <1>3

LEMMA StutterKeeps == IInv /\ UNCHANGED vars => IInv'
<1> SUFFICES ASSUME IInv, UNCHANGED vars PROVE IInv'
  OBVIOUS
<1>1. /\ UNCHANGED <<active, rows, busy, acts>> /\ UNCHANGED shown /\ UNCHANGED paging
      /\ UNCHANGED transit /\ UNCHANGED ghosts
  BY DEF vars
<1>2. TypeOK'
  BY <1>1 DEF IInv, TypeOK, shown, paging, transit, ghosts
<1>3. InOrder'
  <2>1. UNCHANGED <<Of(results), serving, commands>>
    BY <1>1 DEF transit, Of
  <2>2. Pipe' = Pipe
    BY <2>1 DEF Pipe
  <2>3. Orderly(Pipe, era["Queue"], active, fresh["Queue"])
    BY DEF IInv, InOrder
  <2> QED BY <2>2, <2>3, <1>1 DEF InOrder, ghosts
<1>4. Counted' /\ RowsInPlace' /\ ListIsCurrent'
  BY <1>1 DEF IInv, Counted, RowsInPlace, ListIsCurrent, paging, ghosts
<1> QED BY <1>2, <1>3, <1>4 DEF IInv

LEMMA NextKeeps == IInv /\ [Next]_vars => IInv'
<1> SUFFICES ASSUME IInv, [Next]_vars PROVE IInv'
  OBVIOUS
<1>1. CASE \E s \in Screens : Navigate(s)
  BY <1>1, NavigateKeeps
<1>2. CASE \E d \in Deltas : Move(d)
  BY <1>2, MoveKeeps
<1>3. CASE \E g \in Groups : SelectGroup(g)
  BY <1>3, SelectGroupKeeps
<1>4. CASE SwitchQueuePlaylist \/ Back \/ Refresh \/ Confirm
  BY <1>4, SwitchKeeps, BackKeeps, RefreshKeeps, ConfirmKeeps
<1>5. CASE Take \/ Answer \/ Apply \/ PlaybackAnswer
  BY <1>5, WorkerKeeps, ApplyKeeps, PlaybackKeeps
<1>6. CASE UNCHANGED vars
  BY <1>6, StutterKeeps
<1> QED BY <1>1, <1>2, <1>3, <1>4, <1>5, <1>6 DEF Next

LEMMA Invariance == Spec => []IInv
<1> QED BY InitKeeps, NextKeeps, PTL DEF Spec
-----------------------------------------------------------------------------
(* Theorems *)

\* The lists, the requests and the answers are of their types: a list of
\* Favorites has no row that cannot be opened, the Playlists only playlists, and
\* no queue of commands is longer than its capacity.
THEOREM TypeCorrect == Spec => []TypeOK
<1>1. IInv => TypeOK
  BY DEF IInv
<1> QED BY <1>1, Invariance, PTL

\* Every row of the Queue stands where it is in the queue of its group, whatever
\* is refused, fails or is answered late: the position that activate sends to
\* Sonos is the one of the row that is shown.
THEOREM RowsStayInPlace == Spec => []RowsInPlace
<1>1. IInv => RowsInPlace
  BY DEF IInv
<1> QED BY <1>1, Invariance, PTL

\* After the first page of what a list is of, no late answer shows a row of what
\* it was of before: of another group, or of another folder.
THEOREM ListsAreCurrent == Spec => []ListIsCurrent
<1>1. IInv => ListIsCurrent
  BY DEF IInv
<1> QED BY <1>1, Invariance, PTL

\* The answers come back in the order of the requests, so that one for the Queue
\* of an earlier selection never follows one of the latest.
THEOREM RequestsStayInOrder == Spec => []InOrder
<1>1. IInv => InOrder
  BY DEF IInv
<1> QED BY <1>1, Invariance, PTL
=============================================================================
