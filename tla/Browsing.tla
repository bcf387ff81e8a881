------------------------------ MODULE Browsing ------------------------------
(***************************************************************************)
(* The Queue, Favorites and Favorite Playlists, read page by page.         *)
(*                                                                         *)
(* The SDL thread asks for pages and shows what it has; the worker asks    *)
(* Sonos, one command at a time, in order.  A request says where its rows  *)
(* go: what it lists, the first row wanted, and how many rows are on       *)
(* display.  The answer is used or not by comparing these with the list of *)
(* the moment, which the listener has had time to change.                  *)
(*                                                                         *)
(* A row is where it comes from, its index there and what it is; what      *)
(* Sonos lists does not change here.  Covers are in Artwork.tla, starting  *)
(* what a row names in PlaylistContext.tla.                                *)
(***************************************************************************)
EXTENDS Queues, FiniteSets, SequencesExt

CONSTANTS
  QueueOf,        \* what is in the queue of each group: a sequence of kinds
  Library,        \* what is in Favorites ("FV:2") and in each folder of them
  PageSize,       \* kBrowsePageSize (60)
  Ahead,          \* rows before the end that ask for the next page (3)
  Deltas,         \* rows a press moves (1, 6 and 20 up or down)
  Capacity,       \* of commands_ (32)
  MaxActs         \* bound of the model: presses and answers of other commands

Groups == DOMAIN QueueOf
Folders == DOMAIN Library \ {"FV:2"}
Kinds == {"item", "playlist", "placeholder"} \cup Folders
Lists == {"Queue", "Favorites", "Playlists"}
Screens == Lists \cup {"NowPlaying", "Menu"}
Objects == {"Q:0"} \cup DOMAIN Library
Root == [Queue |-> "Q:0", Favorites |-> "FV:2", Playlists |-> "FV:2"]

ASSUME FavoritesAreListed ==
  /\ "FV:2" \in DOMAIN Library /\ "Q:0" \notin DOMAIN Library
  /\ \A o \in DOMAIN Library : Library[o] \in Seq(Kinds)
  /\ \A g \in Groups : QueueOf[g] \in Seq({"item"})
ASSUME PagesHaveRows == PageSize \in Nat \ {0} /\ Ahead \in Nat
ASSUME MovesAreRows == Deltas \subseteq Int
ASSUME LimitsAreNat == {Capacity, MaxActs} \subseteq Nat

VARIABLES
  active,      \* view_.active_group_id
  screen, history, selection,  \* of view_, selections_: below
  selections,  \* selections_
  rows,        \* view_.queue, view_.favorites, view_.playlists
  total,       \* view_.queue_total, view_.favorites_total
  object,      \* queue_object_, favorites_object_, playlists_object_
  next,        \* playlists_next_raw_index_
  more,        \* playlists_has_more_
  busy,        \* view_.busy
  commands, serving, results,  \* commands_, the worker's command, results_
  acts,        \* presses and other answers so far
  era,         \* history: changes of what each list is of
  fresh,       \* history: its first page has arrived since
  lost         \* history: a request was refused or has failed

shown == <<screen, history, selection, selections>>
paging == <<total, object, next, more>>
transit == <<commands, serving, results>>
ghosts == <<era, fresh, lost>>
vars == <<active, shown, rows, paging, busy, transit, acts, ghosts>>

Contents(o, g) == IF o = "Q:0" THEN QueueOf[g] ELSE Library[o]

\* parse_browse_response leaves out what cannot be opened or started.
Row(o, g, i) == [of |-> <<o, IF o = "Q:0" THEN g ELSE "any">>, at |-> i,
                 kind |-> Contents(o, g)[i + 1]]

\* A Browse command; one that starts a row (list "None") only takes its time.
Browse(l, o, from, offset, e) ==
  [list |-> l, object |-> o, start |-> from, offset |-> offset, group |-> active,
   era |-> e]
Play(row) == Browse("None", row.of[1], row.at, 0, 0)

\* Rows that a Browse of SonosAdapter returns, at most PageSize of them.
PageRows(c) ==
  LET n == Len(Contents(c.object, c.group))
      last == IF c.start + PageSize < n THEN c.start + PageSize ELSE n
  IN [i \in 1..(IF last > c.start THEN last - c.start ELSE 0) |->
        Row(c.object, c.group, c.start + i - 1)]

Usable(r) == r.kind # "placeholder"
IsPlaylist(r) == r.kind \notin {"item", "placeholder"}

\* The rows of a page that a list has, in their order.
Has(l, row) == Usable(row) /\ (l = "Playlists" => IsPlaylist(row))
Visible(l, page) ==
  LET kept == {i \in DOMAIN page : Has(l, page[i])}
      rank(i) == Cardinality({j \in kept : j <= i})
  IN [n \in 1..Cardinality(kept) |-> page[CHOOSE i \in kept : rank(i) = n]]

\* What a list can be of: the Favorites and their folders are no queue.
ObjectsOf(l) == IF l = "Queue" THEN {"Q:0"} ELSE DOMAIN Library

Requests ==
  [list : Lists \cup {"None"}, object : Objects, start : Nat, offset : Nat,
   group : Groups, era : 0..MaxActs]
Rows == [of : Objects \X (Groups \cup {"any"}), at : Nat, kind : Kinds]

TypeOK ==
  /\ active \in Groups /\ screen \in Screens /\ history \in Seq(Screens)
  /\ selection \in Nat /\ selections \in [Screens -> Nat]
  /\ DOMAIN rows = Lists
  /\ \A l \in Lists : rows[l] \in Seq({row \in Rows : Has(l, row)})
  /\ total \in [{"Queue", "Favorites"} -> Nat]
  /\ DOMAIN object = Lists /\ \A l \in Lists : object[l] \in ObjectsOf(l)
  /\ next \in Nat /\ more \in BOOLEAN /\ busy \in BOOLEAN
  /\ commands \in Seq(Requests) /\ Len(commands) <= Capacity
  /\ serving \in Seq(Requests) /\ Len(serving) <= 1
  /\ results \in Seq([of : Requests, ok : BOOLEAN])
  /\ era \in [Lists -> 0..MaxActs] /\ fresh \in [Lists -> BOOLEAN]
  /\ lost \in BOOLEAN /\ acts \in 0..MaxActs

Init ==
  /\ active \in Groups /\ screen = "NowPlaying" /\ history = <<>>
  /\ selection = 0 /\ selections = [s \in Screens |-> 0]
  /\ rows = [l \in Lists |-> <<>>]
  /\ total = [l \in {"Queue", "Favorites"} |-> 0]
  /\ object = Root /\ next = 0 /\ more = FALSE /\ busy = FALSE
  /\ commands = <<>> /\ serving = <<>> /\ results = <<>>
  /\ acts = 0 /\ era = [l \in Lists |-> 0]
  /\ fresh = [l \in Lists |-> FALSE] /\ lost = FALSE
-----------------------------------------------------------------------------
(* Asking *)

\* Sends a command to the worker: enqueue.
Send(c) ==
  /\ commands' = PushIfRoom(commands, Capacity, c)
  /\ lost' = (lost \/ ~HasRoom(commands, Capacity))
  /\ UNCHANGED <<serving, results>>

\* request_browse: the first page says what the list is of from now on, and
\* forgets how far the playlists had been read.
Ask(l, o, from, size) ==
  LET changes == from = 0 /\ o # object[l]
      now == IF changes THEN [era EXCEPT ![l] = @ + 1] ELSE era
  IN /\ Send(Browse(l, o, from, size, now[l]))
     /\ busy' = HasRoom(commands, Capacity)
     /\ object' = IF from = 0 THEN [object EXCEPT ![l] = o] ELSE object
     /\ IF from = 0 /\ l = "Playlists" THEN next' = 0 /\ more' = FALSE
        ELSE UNCHANGED <<next, more>>
     /\ era' = now
     /\ fresh' = IF changes THEN [fresh EXCEPT ![l] = FALSE] ELSE fresh
     /\ UNCHANGED total

AskFirst(l, o) == Ask(l, o, 0, Len(rows[l]))

\* Quiet: nothing is asked for.
NoAsk == UNCHANGED <<transit, busy, paging, ghosts>>

Act == acts < MaxActs /\ acts' = acts + 1

ListSize(s) ==
  IF s \in Lists THEN Len(rows[s]) ELSE IF s = "Menu" THEN 8 ELSE 0

Clamped(i, size) == IF size = 0 THEN 0 ELSE IF i < 0 THEN 0
                    ELSE IF i >= size THEN size - 1 ELSE i

\* navigate and switch_queue_playlist, up to the history.
Open(s) ==
  /\ selections' = [selections EXCEPT ![screen] = selection]
  /\ screen' = s
  /\ selection' = Clamped(selections'[s], ListSize(s))
  /\ IF s \in Lists THEN AskFirst(s, Root[s]) ELSE NoAsk

\* The Queue and Favorites open from Now Playing and the Menu.
Navigate(s) ==
  /\ Act /\ s # screen
  /\ s \in {"Queue", "Favorites"} => screen \in {"NowPlaying", "Menu"}
  /\ s \in {"Queue", "Favorites", "Menu"}
  /\ Open(s) /\ history' = Append(history, screen)
  /\ UNCHANGED <<active, rows>>

\* X on the Queue and on the Playlists.
SwitchQueuePlaylist ==
  /\ Act /\ screen \in {"Queue", "Playlists"}
  /\ Open(IF screen = "Queue" THEN "Playlists" ELSE "Queue")
  /\ UNCHANGED <<active, rows, history>>

\* back(): the selection is the one that was left, whatever the list has become.
Back ==
  /\ Act
  /\ IF screen = "NowPlaying" \/ history = <<>>
     THEN /\ screen' = "NowPlaying" /\ history' = <<>> /\ selection' = 0
          /\ UNCHANGED selections
     ELSE /\ selections' = [selections EXCEPT ![screen] = selection]
          /\ screen' = Last(history) /\ history' = Front(history)
          /\ selection' = selections'[screen']
  /\ NoAsk /\ UNCHANGED <<active, rows>>

HasNextPage(l) == IF l = "Playlists" THEN more ELSE Len(rows[l]) < total[l]

\* The next page starts after the rows on display; the one of the Playlists
\* after what has been read.
NextPage(l) ==
  Ask(l, object[l], IF l = "Playlists" THEN next ELSE Len(rows[l]), Len(rows[l]))

\* move_selection on a list: near its end the next page is asked for, unless
\* something is.
Move(delta) ==
  LET size == Len(rows[screen])
      to == Clamped(selection + delta, size)
      asks == delta > 0 /\ ~busy /\ to >= size - Ahead
  IN /\ Act /\ screen \in Lists /\ selection' = to
     /\ IF size > 0 /\ asks /\ HasNextPage(screen) THEN NextPage(screen) ELSE NoAsk
     /\ UNCHANGED <<active, screen, history, selections, rows>>

\* Select on a list.
Refresh ==
  /\ Act /\ screen \in Lists /\ AskFirst(screen, Root[screen])
  /\ UNCHANGED <<active, shown, rows>>

\* activate: a folder is opened in place, anything else is started; a playlist
\* goes to Now Playing at once, a row of the Queue does not.
Confirm ==
  LET row == rows[screen][selection + 1]
  IN /\ Act /\ screen \in Lists /\ selection < Len(rows[screen])
     /\ IF screen # "Queue" /\ row.kind \in Folders
        THEN AskFirst(screen, row.kind) /\ UNCHANGED shown
        ELSE /\ Send(Play(row)) /\ busy' = HasRoom(commands, Capacity)
             /\ IF IsPlaylist(row) /\ busy'
                THEN /\ selections' = [selections EXCEPT ![screen] = selection]
                     /\ screen' = "NowPlaying" /\ history' = Append(history, screen)
                     /\ selection' = 0
                ELSE UNCHANGED shown
             /\ UNCHANGED <<paging, era, fresh>>
     /\ UNCHANGED <<active, rows>>

\* select_group: the lists stay as they are.
SelectGroup(g) ==
  /\ Act /\ g # active /\ active' = g
  /\ screen' = "NowPlaying" /\ history' = <<>>
  /\ era' = [era EXCEPT !["Queue"] = @ + 1]
  /\ fresh' = [fresh EXCEPT !["Queue"] = FALSE]
  /\ UNCHANGED <<selection, selections, rows, paging, busy, transit, lost>>
-----------------------------------------------------------------------------
(* Answers *)

\* Faulty variant: the latest request first.
TakeLatest ==
  /\ serving = <<>> /\ commands # <<>>
  /\ serving' = <<Last(commands)>> /\ commands' = Front(commands)
  /\ UNCHANGED <<active, shown, rows, paging, busy, results, acts, ghosts>>

\* worker_loop takes the commands in order and asks Sonos.
Take ==
  /\ serving = <<>> /\ commands # <<>>
  /\ serving' = <<Head(commands)>> /\ commands' = Tail(commands)
  /\ UNCHANGED <<active, shown, rows, paging, busy, results, acts, ghosts>>

Answer ==
  /\ serving # <<>> /\ serving' = <<>>
  /\ \E ok \in BOOLEAN : /\ results' = Append(results, [of |-> serving[1], ok |-> ok])
                        /\ lost' = (lost \/ ~ok)
  /\ UNCHANGED <<active, shown, rows, paging, busy, commands, acts, era, fresh>>

\* Faulty variant: a later page is a later page.
FitsAnything(r) == TRUE

\* Whether the rows of a later page go after those on display.
Fits(r) == r.offset = Len(rows[r.list])

\* result.context is what the list is of now.
IsForList(r) == r.object = object[r.list]

\* Faulty variant: a page without a playlist is a page.
GoesOnNever(l, page) == FALSE

\* A page of Favorites without a playlist asks for the next one.
GoesOn(l, page) == l = "Playlists" /\ page = <<>>

\* apply_result of a Browse that has been answered.
ShowPage(r) ==
  LET l == r.list
      raw == PageRows(r)
      page == Visible(l, raw)
      list == IF r.start = 0 THEN page
              ELSE IF Fits(r) THEN rows[l] \o page ELSE rows[l]
      matches == Len(Contents(r.object, r.group))
      reached == r.start + Len(raw)
      continues == Len(raw) > 0 /\ reached < matches
      asks == GoesOn(l, page) /\ continues
      room == HasRoom(commands, Capacity)
      again == Browse(l, object[l], reached, Len(list), era[l])
  IN /\ rows' = [rows EXCEPT ![l] = list]
     /\ IF l = "Playlists"
        THEN next' = reached /\ more' = continues /\ UNCHANGED total
        ELSE /\ total' = [total EXCEPT ![l] =
                            IF r.start = 0 /\ Len(raw) >= matches THEN Len(list)
                            ELSE matches]
             /\ UNCHANGED <<next, more>>
     /\ selection' = Clamped(selection, Len(list))
     /\ commands' = IF asks THEN PushIfRoom(commands, Capacity, again) ELSE commands
     /\ busy' = (asks /\ room)
     /\ lost' = (lost \/ (asks /\ ~room))
     /\ fresh' = [fresh EXCEPT ![l] = @ \/ (r.start = 0 /\ r.era = era[l])]
     /\ UNCHANGED <<screen, history, selections, object, era>>

\* process_results: any answer ends the spinner.
Apply ==
  LET r == Head(results).of
  IN /\ results # <<>> /\ results' = Tail(results)
     /\ IF r.list \in Lists /\ Head(results).ok /\ IsForList(r)
        THEN ShowPage(r)
        ELSE /\ busy' = FALSE
             /\ UNCHANGED <<shown, rows, paging, commands, ghosts>>
     /\ UNCHANGED <<active, serving, acts>>

\* A poll: it too ends the spinner, and may read the Queue on display again or
\* look for the playlist that plays.
PlaybackAnswer ==
  /\ Act
  /\ \/ busy' = FALSE /\ UNCHANGED <<transit, paging, ghosts>>
     \/ screen = "Queue" /\ AskFirst("Queue", "Q:0")
     \/ AskFirst("Playlists", "FV:2")
  /\ UNCHANGED <<active, shown, rows>>

Next ==
  \/ \E s \in Screens : Navigate(s)
  \/ \E d \in Deltas : Move(d)
  \/ \E g \in Groups : SelectGroup(g)
  \/ SwitchQueuePlaylist \/ Back \/ Refresh \/ Confirm
  \/ Take \/ Answer \/ Apply \/ PlaybackAnswer

\* The worker thread and the loop of the SDL thread go on; every request to
\* Sonos ends, by its timeout if need be.
Fairness == WF_vars(Take) /\ WF_vars(Answer) /\ WF_vars(Apply)

Spec == Init /\ [][Next]_vars /\ Fairness
-----------------------------------------------------------------------------
(* Properties *)

\* A row of the Queue stands where it is in the queue of its group, since Confirm
\* plays the row by its position: whatever is asked for again, refused, failed or
\* answered late.
RowsInPlace == \A i \in DOMAIN rows["Queue"] : rows["Queue"][i].at = i - 1

\* Once the first page of what a list is of has arrived, no late answer brings
\* back a row of what it was of before: of the group, or of the folder.
ListIsCurrent ==
  \A l \in Lists : fresh[l] =>
    \A i \in DOMAIN rows[l] :
      rows[l][i].of = <<object[l], IF l = "Queue" THEN active ELSE "any">>

\* Favorite Playlists on a later page than the first are found without a press,
\* unless a request is refused or fails.
PlaylistsAreFound ==
  (more /\ rows["Playlists"] = <<>>)
    ~> (rows["Playlists"] # <<>> \/ ~more \/ lost)

\* controller.cpp:1328-1330: "When a complete page contained a Sonos navigation
\* placeholder that was intentionally filtered by the protocol layer, keep
\* pagination aligned with the visible list instead of fetching a duplicate
\* tail."  The next page of Favorites starts at the number of rows on display,
\* which is less than what has been read when a placeholder was filtered.
FavoritesHaveNoRowTwice ==
  \A i, j \in DOMAIN rows["Favorites"] :
    i # j => rows["Favorites"][i] # rows["Favorites"][j]

\* What one expects of the Favorite Playlists, and no document says: a playlist
\* before one that is listed is listed too.  A later page that does not fit any
\* more is left aside (controller.cpp:1318), but playlists_next_raw_index_ moves
\* past it (controller.cpp:1331-1334).
PlaylistsHaveNoGap ==
  \A i \in DOMAIN rows["Playlists"] :
    LET row == rows["Playlists"][i]
    IN \A at \in 0..row.at - 1 :
         IsPlaylist(Row(row.of[1], "any", at)) =>
           \E j \in DOMAIN rows["Playlists"] : rows["Playlists"][j].at = at
=============================================================================
