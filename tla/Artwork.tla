------------------------------- MODULE Artwork -------------------------------
(***************************************************************************)
(* Covers: which ones the SDL thread asks for, the artwork worker that     *)
(* fetches them into the cache on the SD card, and what is on display.     *)
(*                                                                         *)
(* There are two ways to ask.  A chain (rows of the Queue, photos of the   *)
(* speakers) has one request under way for the first visible row that      *)
(* lacks its cover; the answer asks for the next.  A frame (the track, the *)
(* selected Favorite or playlist, the playlist of Now Playing) remembers   *)
(* the cover it waits for and takes the answer that names it.              *)
(*                                                                         *)
(* A cover stands for its URL, for the file the cache keeps it in and for  *)
(* the path on display.  Eviction picks any files: their order is their    *)
(* modification time, which FAT keeps in units of two seconds.             *)
(***************************************************************************)
EXTENDS Queues, FiniteSets

CONSTANTS
  Covers,          \* what rows and tracks may show
  None,            \* no cover
  Browsers,        \* the lists with a frame: Favorites, Playlists
  RowLists,        \* pages a Browse answer may bring, and
  MaxRows,         \*   the longest list they may make
  Photos,          \* photos of the speakers of the active group
  VisibleRows,     \* rows of the Queue on display (6)
  Capacity,        \* of artwork_commands_ (8)
  ResultCapacity,  \* of results_ (64)
  Sizes,           \* cache sizes the owner may choose, in covers
  FirstSize,       \* the one at the start (20 MB)
  FirstScreen,     \* of the model: where it starts, and
  MaxActs          \* its bound: presses and answers

ASSUME BrowsersAreLists ==
  "Playlists" \in Browsers /\ Browsers \subseteq {"Favorites", "Playlists"}
ASSUME NoneIsNoCover == None \notin Covers
ASSUME RowsAreCovers ==
  RowLists \subseteq Seq(Covers \cup {None}) /\ Photos \in Seq(Covers \cup {None})
ASSUME BoundsAreNat ==
  {VisibleRows, MaxRows, Capacity, ResultCapacity, MaxActs} \cup Sizes \subseteq Nat

Chains == {"Queue", "Speakers"}
Frames == Browsers \cup {"NowPlaying", "NowPlayingPlaylist"}
Lists == Browsers \cup {"Queue"}
Screens == Lists \cup {"NowPlaying", "Speakers", "Settings"}
Maybe == Covers \cup {None}
Targets == Chains \cup Frames

ASSUME StartIsAChoice == FirstScreen \in Screens /\ FirstSize \in Sizes

VARIABLES
  screen, selection,  \* view_
  rows,               \* covers of the rows of each list
  on,                 \* settings: auto_artwork, official_sonos_product_photos
  chain,              \* per chain: what each row should show and shows, the
                      \*   request in flight, the covers that failed
  frame,              \* per frame: last_*_url_ and *_artwork_path
  before,             \* the frame to go back to when a started playlist fails
  commands,           \* artwork_commands_
  worker,             \* artwork_worker_loop
  results,            \* results_
  cache, size,        \* files of the artwork directory and their limit
  paused, cancelled,  \* artwork_paused_, cancelled_
  acts,               \* number of them so far
  lost,               \* history: requests refused and answers dropped
  evicted,            \* history: covers whose files eviction has removed
  outlived            \* history: covers without a file that a start under way
                      \*   held on to when the others were forgotten

view == <<screen, selection, rows, on>>
disk == <<cache, size, evicted, outlived>>
flags == <<paused, cancelled, acts>>
vars == <<view, chain, frame, before, commands, worker, results, disk, flags, lost>>

Marks == [urls : Seq(Maybe), shown : Seq(Maybe), inflight : Maybe,
          failed : SUBSET Covers]
NoMarks == [urls |-> <<>>, shown |-> <<>>, inflight |-> None, failed |-> {}]
Dark == [last |-> None, path |-> None]
Nothing == [pending |-> FALSE, last |-> None, path |-> None]
Download(t, u) == [type |-> "Download", target |-> t, cover |-> u]
ClearCache == [type |-> "ClearCache", target |-> "Queue", cover |-> None]
Command == {Download(t, u) : t \in Targets, u \in Covers} \cup {ClearCache}
Idle == [phase |-> "idle", command |-> ClearCache, success |-> FALSE]

TypeOK ==
  /\ screen \in Screens /\ selection \in Nat \ {0}
  /\ rows \in [Lists -> Seq(Maybe)] /\ on \in [Chains -> BOOLEAN]
  /\ chain \in [Chains -> Marks]
  /\ \A c \in Chains : Len(chain[c].shown) = Len(chain[c].urls)
  /\ Len(chain["Queue"].urls) = Len(rows["Queue"])
  /\ frame \in [Frames -> [last : Maybe, path : Maybe]]
  /\ before \in [pending : BOOLEAN, last : Maybe, path : Maybe]
  /\ commands \in Seq(Command) /\ Len(commands) <= Capacity
  /\ worker \in [phase : {"idle", "holding", "fetching", "storing", "answering",
                          "done"},
                 command : Command, success : BOOLEAN]
  /\ results \in Seq([command : Command, success : BOOLEAN])
  /\ Len(results) <= ResultCapacity
  /\ cache \subseteq Covers /\ size \in Sizes
  /\ paused \in BOOLEAN /\ cancelled \in BOOLEAN
-----------------------------------------------------------------------------
NoneOf(s) == [i \in 1..Len(s) |-> None]
Clamp(at, s) == IF s = <<>> THEN 1 ELSE IF at > Len(s) THEN Len(s) ELSE at

\* The SDL thread acts and draws until stop(); a press ends the idle saver's
\* pause before it does anything else.
Running == ~cancelled
Act == /\ Running /\ acts < MaxActs
       /\ acts' = acts + 1 /\ UNCHANGED <<paused, cancelled>>
Press == ~paused /\ Act

\* The remote was just started.
Fresh ==
  /\ screen = FirstScreen /\ rows = [l \in Lists |-> <<>>]
  /\ frame = [t \in Frames |-> Dark] /\ cache = {}

\* The Playlists, read before, while the first of them plays: its cover is on
\* display as the selected one's and as that of Now Playing.
Listening(list) ==
  LET u == list[1] IN
  /\ screen = "Playlists"
  /\ rows = [l \in Lists |-> IF l = "Playlists" THEN list ELSE <<>>]
  /\ frame = [t \in Frames |->
                IF t \in {"Playlists", "NowPlayingPlaylist"}
                THEN [last |-> u, path |-> u] ELSE Dark]
  /\ cache = {u} \ {None}

Init ==
  /\ Fresh \/ \E list \in RowLists \ {<<>>} : Listening(list)
  /\ selection = 1 /\ on = [c \in Chains |-> TRUE]
  /\ chain = [c \in Chains |-> NoMarks] /\ before = Nothing
  /\ commands = <<>> /\ results = <<>> /\ worker = Idle
  /\ size = FirstSize
  /\ paused = FALSE /\ cancelled = FALSE /\ acts = 0
  /\ lost = {} /\ evicted = {} /\ outlived = {}
-----------------------------------------------------------------------------
(* Asking for covers *)

\* The rows of the Queue on display and one more on either side.
QueueWindow(count, at) ==
  LET from == at - 1 - VisibleRows \div 2
      most == IF count > VisibleRows THEN count - VisibleRows ELSE 0
      start == IF from < 0 THEN 0 ELSE IF from > most THEN most ELSE from
  IN {i \in 1..count : start <= i /\ i <= start + VisibleRows + 1}

\* Whether a chain goes on at all: the
\* Queue on its screen, the photos whenever they are switched on.
Goes(c, list, place) ==
  on[c] /\ ~paused /\ list # <<>> /\ (c = "Queue" => place = "Queue")

\* request_queue_artwork and request_speaker_product_photos behind their early
\* returns: hits are shown, the first miss is asked for if nothing is under way.
\* A cover that failed is not asked for again; the Queue does not even look for
\* it in the cache.
Ask(c, list, at, marks) ==
  LET m == marks[c]
      seen == [i \in 1..Len(list) |->
                 IF i \in DOMAIN m.urls /\ m.urls[i] = list[i]
                 THEN m.shown[i] ELSE None]
      window == IF c = "Queue" THEN QueueWindow(Len(list), at) ELSE 1..Len(list)
      looked == {i \in window : list[i] # None
                               /\ (c = "Queue" => list[i] \notin m.failed)}
      misses == {i \in looked : list[i] \notin cache \cup m.failed}
      stop == m.inflight = None /\ misses # {}
      first == CHOOSE i \in misses : \A j \in misses : i <= j
      accepted == stop /\ HasRoom(commands, Capacity)
  IN /\ chain' = [marks EXCEPT ![c] =
          [urls |-> list,
           shown |-> [i \in 1..Len(list) |->
             IF i \in looked /\ list[i] \in cache /\ (stop => i < first)
             THEN list[i] ELSE seen[i]],
           inflight |-> IF accepted THEN list[first] ELSE m.inflight,
           failed |-> m.failed]]
     /\ commands' = IF accepted THEN Append(commands, Download(c, list[first]))
                                ELSE commands
     /\ lost' = IF accepted THEN {r \in lost : r[1] # c \/ r[2] = None}
               ELSE IF stop THEN lost \cup {<<c, list[first]>>} ELSE lost

\* With the early returns: photos that are switched off leave nothing behind
\* but the mark of a request; else nothing changes.
Continue(c, list, place, at, marks) ==
  IF Goes(c, list, place)
  THEN Ask(c, list, at, marks)
  ELSE /\ chain' = IF c = "Speakers" /\ ~on[c]
                   THEN [marks EXCEPT ![c] =
                           [NoMarks EXCEPT !.inflight = marks[c].inflight]]
                   ELSE marks
       /\ UNCHANGED <<commands, lost>>

\* A frame turns to a cover: taken from the cache, or asked for once and shown
\* as `old` until it comes.  The request is remembered as made also when the
\* queue refuses it.
Turn(t, u, old) ==
  /\ frame' = [frame EXCEPT ![t] =
                 [last |-> u, path |-> IF u \in cache THEN u ELSE old]]
  /\ commands' = IF u \in cache THEN commands
                 ELSE PushIfRoom(commands, Capacity, Download(t, u))
  /\ lost' = IF u \in cache \/ HasRoom(commands, Capacity)
             THEN lost \ {<<t, u>>} ELSE lost \cup {<<t, u>>}

Blank(t) ==
  /\ frame' = [frame EXCEPT ![t] = Dark]
  /\ UNCHANGED <<commands, lost>>

Stay == UNCHANGED <<frame, commands, lost>>

CoverAt(list, at) == IF at \in DOMAIN list THEN list[at] ELSE None

\* request_selected_favorite_artwork and request_selected_playlist_artwork.
Select(l, list, place, at) ==
  IF ~on["Queue"] \/ place # l \/ at \notin DOMAIN list THEN Blank(l)
  ELSE IF paused THEN Stay
  ELSE IF CoverAt(list, at) = None THEN Blank(l)
  ELSE IF CoverAt(list, at) = frame[l].last THEN Stay
  ELSE Turn(l, CoverAt(list, at), None)
-----------------------------------------------------------------------------
(* The user *)

KeepQueues == UNCHANGED <<commands, lost>>
KeepWorker == UNCHANGED <<worker, results, disk>>
KeepSettings == UNCHANGED <<rows, on>>

\* navigate() and switch_queue_playlist(); an acknowledged start opens Now
\* Playing without a press.  The list that is asked for comes with ListArrives.
Open(s) ==
  /\ s # screen /\ Act /\ (~paused \/ s = "NowPlaying")
  /\ screen' = s
  /\ \E at \in 1..MaxRows :
       selection' = IF s \in Lists THEN Clamp(at, rows[s]) ELSE 1
  /\ IF s = "Speakers" THEN Continue(s, Photos, s, 1, chain)
     ELSE UNCHANGED chain /\ KeepQueues
  /\ KeepSettings /\ KeepWorker /\ UNCHANGED <<frame, before>>

\* back(): the remembered row may be past the end of the list by now.  The Queue
\* is shown as it was left.
Back(s) ==
  /\ s # screen /\ screen # "NowPlaying" /\ Press
  /\ screen' = s
  /\ selection' \in IF s \in Lists THEN 1..MaxRows ELSE {1}
  /\ IF s \in Browsers THEN Select(s, rows[s], s, selection') ELSE Stay
  /\ KeepSettings /\ UNCHANGED <<chain, before>> /\ KeepWorker

\* move_selection() on a list that is not empty.  At either end the row stays,
\* but its cover is looked at again.
Move(to) ==
  /\ screen \in Lists /\ to \in DOMAIN rows[screen] /\ Press
  /\ to = selection => to \in {1, Len(rows[screen])}
  /\ selection' = to
  /\ \/ /\ screen = "Queue" /\ UNCHANGED frame
        /\ Continue("Queue", rows["Queue"], screen, to, chain)
     \/ /\ screen # "Queue" /\ UNCHANGED chain
        /\ Select(screen, rows[screen], screen, to)
  /\ KeepSettings /\ UNCHANGED <<screen, before>> /\ KeepWorker

\* adjust_setting(), Automatic artwork: off forgets the Queue's covers; on
\* would ask for them, but the Queue is not on display.
ToggleArtwork ==
  /\ screen = "Settings" /\ Press
  /\ on' = [on EXCEPT !["Queue"] = ~@]
  /\ chain' = IF on["Queue"]
              THEN [chain EXCEPT !["Queue"] =
                      [@ EXCEPT !.urls = NoneOf(rows["Queue"]),
                                !.shown = NoneOf(rows["Queue"]), !.failed = {}]]
              ELSE chain
  /\ UNCHANGED <<screen, selection, rows, frame, before>>
  /\ KeepQueues /\ KeepWorker

\* Spotify covers over HTTPS: the Queue's covers are looked up anew.
ToggleHttps ==
  /\ screen = "Settings" /\ Press
  /\ chain' = [chain EXCEPT !["Queue"] =
                 [@ EXCEPT !.urls = NoneOf(rows["Queue"]), !.failed = {}]]
  /\ UNCHANGED <<view, frame, before>> /\ KeepQueues /\ KeepWorker

\* Official product photos: everything about them is forgotten, a request that
\* is under way too.
TogglePhotos ==
  /\ screen = "Settings" /\ Press
  /\ on' = [on EXCEPT !["Speakers"] = ~@]
  /\ LET blank == [chain EXCEPT !["Speakers"] = NoMarks]
     IN IF on["Speakers"] THEN chain' = blank /\ KeepQueues
        ELSE Ask("Speakers", Photos, 1, blank)
  /\ UNCHANGED <<screen, selection, rows, frame, before>> /\ KeepWorker

\* What eviction may leave of the files, under a new limit.
EvictTo(limit) ==
  /\ size' = limit
  /\ cache' \in IF Cardinality(cache) <= limit THEN {cache}
               ELSE {kept \in SUBSET cache : Cardinality(kept) = limit}
  /\ evicted' = evicted \cup (cache \ cache') /\ UNCHANGED outlived

\* The cache limit, on the SDL thread.
ResizeCache(limit) ==
  /\ screen = "Settings" /\ Press
  /\ EvictTo(limit)
  /\ UNCHANGED <<view, chain, frame, before, worker, results>> /\ KeepQueues

\* A confirmed reset of the settings.
ResetSettings ==
  /\ screen = "Settings" /\ Press
  /\ on' = [c \in Chains |-> TRUE]
  /\ \E limit \in Sizes : EvictTo(limit)
  /\ UNCHANGED <<screen, selection, rows, chain, frame, before, worker, results>>
  /\ KeepQueues

\* A confirmed Clear Artwork Cache, refused by a full queue.
ClearArtwork ==
  /\ screen = "Settings" /\ Press
  /\ commands' = PushIfRoom(commands, Capacity, ClearCache)
  /\ UNCHANGED <<view, chain, frame, before, lost>> /\ KeepWorker

\* activate() of a playlist: request_now_playing_playlist_artwork, which trusts
\* a request of the Playlists' frame to bring the same cover, and navigate().
StartPlaylist(l) ==
  LET u == CoverAt(rows[l], selection)
      t == "NowPlayingPlaylist"
  IN /\ screen = l /\ selection \in DOMAIN rows[l] /\ Press
     /\ before' = [pending |-> TRUE, last |-> frame[t].last,
                   path |-> frame[t].path]
     /\ IF ~on["Queue"] \/ u = None THEN Blank(t)
        ELSE IF u = frame[t].last THEN Stay
        ELSE IF u # frame["Playlists"].last THEN Turn(t, u, None)
        ELSE frame' = [frame EXCEPT ![t] = frame["Playlists"]] /\ KeepQueues
     /\ screen' = "NowPlaying" /\ selection' = 1
     /\ KeepSettings /\ KeepWorker /\ UNCHANGED chain
-----------------------------------------------------------------------------
(* Answers of the household and the idle saver *)

\* The parts of a Browse answer that are about covers: a first page starts the
\* Queue's chain anew, a next page extends it.  The selection is cut to the list
\* that came, also when another one is on display.
ListArrives(l, page, first) ==
  LET list == IF first THEN page ELSE rows[l] \o page
      at == Clamp(selection, list)
      grown(s) == [i \in 1..Len(list) |->
                     IF ~first /\ i \in DOMAIN s THEN s[i] ELSE None]
      old == chain["Queue"]
      marks == [chain EXCEPT !["Queue"] =
                  [old EXCEPT !.urls = grown(old.urls), !.shown = grown(old.shown),
                              !.failed = IF first THEN {} ELSE old.failed]]
  IN /\ Act /\ Len(list) <= MaxRows
     /\ rows' = [rows EXCEPT ![l] = list] /\ selection' = at
     /\ IF l = "Queue" THEN Continue(l, list, screen, at, marks) /\ UNCHANGED frame
        ELSE Select(l, list, screen, at) /\ UNCHANGED chain
     /\ UNCHANGED <<screen, on, before>> /\ KeepWorker

\* The parts of a playback answer that are about covers.  One that is already
\* remembered is not asked for again; while paused a miss is left for later.
PlaybackArrives(u) ==
  /\ Act
  /\ IF ~on["Queue"] \/ u = None THEN Blank("NowPlaying")
     ELSE IF u = frame["NowPlaying"].last \/ (u \notin cache /\ paused) THEN Stay
     ELSE Turn("NowPlaying", u, None)
  /\ UNCHANGED <<view, chain, before>> /\ KeepWorker

\* The playlist context ends: another or no named source, another queue.
ContextGone ==
  /\ Running /\ frame["NowPlayingPlaylist"].last # None
  /\ Blank("NowPlayingPlaylist")
  /\ UNCHANGED <<view, chain, before, flags>> /\ KeepWorker

\* select_group() of another group: a start under way is forgotten too.
GroupChanges ==
  /\ Running
  /\ screen' = "NowPlaying" /\ before' = Nothing
  /\ Blank("NowPlayingPlaylist")
  /\ UNCHANGED <<selection, chain, flags>> /\ KeepSettings /\ KeepWorker

\* A topology answer on the Speakers screen.
TopologyArrives ==
  /\ Running /\ screen = "Speakers"
  /\ Continue("Speakers", Photos, screen, 1, chain)
  /\ UNCHANGED <<view, frame, before, flags>> /\ KeepWorker

\* restore_playlist_context_artwork: a cover that is not in the cache is asked
\* for while the one on display stays.
ContextRestored(u) ==
  /\ Act
  /\ IF ~on["Queue"] \/ paused THEN Stay
     ELSE Turn("NowPlayingPlaylist", u, frame["NowPlayingPlaylist"].path)
  /\ UNCHANGED <<view, chain, before>> /\ KeepWorker

\* The start under way is confirmed by a playback answer.
StartSucceeds ==
  /\ Running /\ before.pending
  /\ before' = Nothing
  /\ Stay
  /\ UNCHANGED <<view, chain, flags>> /\ KeepWorker

\* It fails and puts back the cover that was there, also one that was cleared
\* in the meantime.
StartFails ==
  /\ Running /\ before.pending
  /\ before' = Nothing
  /\ frame' = [frame EXCEPT !["NowPlayingPlaylist"] =
                 [last |-> before.last, path |-> before.path]]
  /\ UNCHANGED <<view, chain, flags>> /\ KeepQueues /\ KeepWorker

\* update_idle_battery_saver, and note_user_activity on the next press.
Pause ==
  /\ Running /\ ~paused /\ acts < MaxActs
  /\ paused' = TRUE /\ acts' = acts + 1
  /\ UNCHANGED <<view, chain, frame, before, commands, worker, results, disk,
                 cancelled, lost>>

Wake ==
  /\ Running /\ paused
  /\ paused' = FALSE
  /\ UNCHANGED <<view, chain, frame, before, commands, worker, results, disk,
                 cancelled, acts, lost>>

\* stop() from the SDL thread, which then waits for the worker.
Stop ==
  /\ Running /\ acts < MaxActs
  /\ cancelled' = TRUE /\ acts' = acts + 1
  /\ UNCHANGED <<view, chain, frame, before, commands, worker, results, disk,
                 paused, lost>>
-----------------------------------------------------------------------------
(* artwork_worker_loop *)

KeepSdl == UNCHANGED <<view, chain, frame, before, flags>>

Take ==
  /\ worker.phase = "idle" /\ Running /\ commands # <<>>
  /\ worker' = [phase |-> "holding", command |-> Head(commands), success |-> FALSE]
  /\ commands' = Tail(commands)
  /\ KeepSdl /\ UNCHANGED <<results, disk, lost>>

\* A download waits for the user to come back; the cache is cleared at once.
Begin ==
  /\ worker.phase = "holding" /\ Running
  /\ worker.command # ClearCache => ~paused
  /\ worker' = [worker EXCEPT !.phase = "fetching"]
  /\ KeepSdl /\ UNCHANGED <<commands, results, disk, lost>>

\* Faulty variant: a waiting download does not look for stop().
LeaveWhenIdle ==
  /\ worker.phase = "idle" /\ cancelled
  /\ worker' = [worker EXCEPT !.phase = "done"]
  /\ KeepSdl /\ UNCHANGED <<commands, results, disk, lost>>

Leave ==
  /\ worker.phase \in {"idle", "holding"} /\ cancelled
  /\ worker' = [worker EXCEPT !.phase = "done"]
  /\ KeepSdl /\ UNCHANGED <<commands, results, disk, lost>>

\* The download ends within its limits and stop() aborts it; the file takes its
\* name by a rename.
Fetch(success) ==
  /\ worker.phase = "fetching" /\ worker.command # ClearCache
  /\ success => Running
  /\ worker' = [worker EXCEPT !.phase = IF success THEN "storing" ELSE "answering",
                              !.success = success]
  /\ cache' = IF success THEN cache \cup {worker.command.cover} ELSE cache
  /\ evicted' = evicted \ cache' /\ outlived' = outlived \ cache'
  /\ KeepSdl /\ UNCHANGED <<commands, results, lost, size>>

\* store() ends with evict(), which may take the new file itself.
Evict ==
  /\ worker.phase = "storing"
  /\ EvictTo(size)
  /\ worker' = [worker EXCEPT !.phase = "answering"]
  /\ KeepSdl /\ UNCHANGED <<commands, results, lost>>

\* clear() stops at the first file it cannot remove.
Clear(success) ==
  /\ worker.phase = "fetching" /\ worker.command = ClearCache
  /\ cache' \in IF success THEN {{}} ELSE SUBSET cache
  /\ worker' = [worker EXCEPT !.phase = "answering", !.success = success]
  /\ KeepSdl /\ UNCHANGED <<commands, results, lost, size, evicted, outlived>>

\* The answer, dropped by a full queue.
Answer ==
  /\ worker.phase = "answering"
  /\ results' = PushIfRoom(results, ResultCapacity,
                   [command |-> worker.command, success |-> worker.success])
  /\ lost' = IF HasRoom(results, ResultCapacity) THEN lost
             ELSE lost \cup {<<worker.command.target, worker.command.cover>>}
  /\ worker' = Idle
  /\ KeepSdl /\ UNCHANGED <<commands, disk>>
-----------------------------------------------------------------------------
(* apply_result on the artwork worker's answers *)

\* Faulty variant for the sensitivity checks: a cover that failed is not
\* remembered.
AnsweredForgetful(c, u, success) ==
  [chain[c] EXCEPT !.inflight = IF @ = u THEN None ELSE @,
                   !.shown = [i \in DOMAIN @ |->
                      IF success /\ chain[c].urls[i] = u THEN u ELSE @[i]]]

\* The rows that wait for a cover after its answer.
Answered(c, u, success) ==
  [chain[c] EXCEPT !.inflight = IF @ = u THEN None ELSE @,
                   !.shown = [i \in DOMAIN @ |->
                      IF success /\ chain[c].urls[i] = u THEN u ELSE @[i]],
                   !.failed = IF success THEN @ ELSE @ \cup {u}]

\* A cover of a chain is shown or given up, and the next one is asked for.
ChainAnswer(c, u, success) ==
  /\ Continue(c, IF c = "Queue" THEN rows[c] ELSE Photos, screen, selection,
              [chain EXCEPT ![c] = Answered(c, u, success)])
  /\ UNCHANGED frame

\* Faulty variant: a failed cover leaves its mark.
FrameAnswerKeepsMark(t, u, success) ==
  /\ frame' = IF success /\ frame[t].last = u
              THEN [frame EXCEPT ![t].path = u] ELSE frame
  /\ UNCHANGED chain /\ KeepQueues

\* A frame takes the answer it waits for; Now Playing shares the playlist's.
FrameAnswer(t, u, success) ==
  /\ frame' = [f \in Frames |->
       IF frame[t].last # u \/ frame[f].last # u THEN frame[f]
       ELSE IF f = t THEN IF success THEN [last |-> u, path |-> u]
                          ELSE [frame[t] EXCEPT !.last = None]
       ELSE IF success /\ t = "Playlists" /\ f = "NowPlayingPlaylist"
       THEN [last |-> u, path |-> u]
       ELSE frame[f]]
  /\ UNCHANGED chain /\ KeepQueues

\* Faulty variant: rows keep the covers that are on display.
ForgottenRequests(c) == [chain[c] EXCEPT !.inflight = None, !.failed = {}]

Forgotten(c) ==
  [urls |-> IF c = "Queue" THEN NoneOf(rows[c]) ELSE chain[c].urls,
   shown |-> NoneOf(IF c = "Queue" THEN rows[c] ELSE chain[c].urls),
   inflight |-> None, failed |-> {}]

\* All covers on display are forgotten and only the speakers' photos are asked
\* for again.  What a failed start would put back is not forgotten.
ForgetAll ==
  LET marks == [c \in Chains |-> Forgotten(c)] IN
  /\ frame' = [t \in Frames |-> Dark]
  /\ outlived' = outlived \cup (IF before.pending
                               THEN {before.path} \ (cache \cup {None}) ELSE {})
  /\ IF on["Speakers"] THEN Continue("Speakers", Photos, screen, 1, marks)
     ELSE chain' = marks /\ KeepQueues

ApplyResult ==
  LET r == Head(results) IN
  /\ Running /\ results # <<>>
  /\ results' = Tail(results)
  /\ \/ r.command = ClearCache /\ ForgetAll
     \/ /\ r.command # ClearCache /\ r.command.target \in Chains
        /\ ChainAnswer(r.command.target, r.command.cover, r.success)
        /\ UNCHANGED outlived
     \/ /\ r.command # ClearCache /\ r.command.target \in Frames
        /\ FrameAnswer(r.command.target, r.command.cover, r.success)
        /\ UNCHANGED outlived
  /\ UNCHANGED <<view, before, worker, cache, size, evicted, flags>>

UserStep ==
  \/ \E s \in Screens : Open(s) \/ Back(s)
  \/ \E to \in 1..MaxRows : Move(to)
  \/ ToggleArtwork \/ ToggleHttps \/ TogglePhotos \/ ResetSettings \/ ClearArtwork
  \/ \E limit \in Sizes : ResizeCache(limit)
  \/ \E l \in Browsers : StartPlaylist(l)

WorldStep ==
  \/ \E l \in Lists, page \in RowLists, first \in BOOLEAN : ListArrives(l, page, first)
  \/ \E u \in Maybe : PlaybackArrives(u)
  \/ \E u \in Covers : ContextRestored(u)
  \/ ContextGone \/ GroupChanges \/ TopologyArrives
  \/ StartSucceeds \/ StartFails
  \/ Pause \/ Wake \/ Stop

WorkerStep ==
  \/ Take \/ Begin \/ Leave \/ Evict \/ Answer
  \/ \E success \in BOOLEAN : Fetch(success) \/ Clear(success)

Next == UserStep \/ WorldStep \/ WorkerStep \/ ApplyResult

\* Both threads keep running; a download ends within its limits.
Fairness == WF_vars(WorkerStep) /\ WF_vars(ApplyResult)

Spec == Init /\ [][Next]_vars /\ Fairness
-----------------------------------------------------------------------------
(* Properties *)

\* Where a command is on its way round.
UnderWay(command) ==
  \/ \E i \in DOMAIN commands : commands[i] = command
  \/ worker.phase \notin {"idle", "done"} /\ worker.command = command
  \/ \E i \in DOMAIN results : results[i].command = command

\* Whatever a chain or a frame waits for is under way, or was refused or dropped
\* by a full queue: a mark without a request would leave the cover blank for as
\* long as the mark stands.  Not so the playlist of Now Playing, which may wait
\* for a request of another frame or one that it has already answered.
AwaitedIsUnderWay ==
  Running =>
    /\ \A c \in Chains : LET u == chain[c].inflight IN
         u # None => UnderWay(Download(c, u)) \/ <<c, u>> \in lost
    /\ \A t \in Frames \ {"NowPlayingPlaylist"} : LET u == frame[t].last IN
         u # None /\ frame[t].path = None
           => UnderWay(Download(t, u)) \/ <<t, u>> \in lost

\* A cover on display has its file in the cache: clearing it takes the covers off
\* the display too, also those whose answers were still to come when the files
\* went.  Eviction may take a file from under a cover.  And one frame, the
\* playlist of Now Playing, may show a cover that was cleared: CacheCleared does
\* not reset what a start under way would put back, and a failed start does.
NoGhostCover ==
  UnderWay(ClearCache) \/ <<ClearCache.target, ClearCache.cover>> \in lost
    \/ /\ \A c \in Chains : \A i \in DOMAIN chain[c].shown :
            chain[c].shown[i] \in cache \cup evicted \cup {None}
       /\ \A t \in Frames \ {"NowPlayingPlaylist"} :
            frame[t].path \in cache \cup evicted \cup {None}
       /\ frame["NowPlayingPlaylist"].path
            \in cache \cup evicted \cup outlived \cup {None}

\* A chain that has started brings every cover of the rows on display, one after
\* the other and past those that fail, unless the Queue is left, the remote goes
\* idle, covers are switched off or the cache is cleared, or a full queue
\* refuses a request.  A cache too small for them is excused as well: each cover
\* then evicts another that the chain asks for again, without end.
Blocked ==
  \/ screen # "Queue" \/ paused \/ cancelled \/ ~on["Queue"]
  \/ UnderWay(ClearCache) \/ \E r \in lost : r[1] = "Queue"
  \/ size < Cardinality(Covers)
RowLacks(u) ==
  \E i \in QueueWindow(Len(rows["Queue"]), selection) :
    rows["Queue"][i] = u /\ chain["Queue"].shown[i] = None
CoversArrive ==
  \A u \in Covers :
    chain["Queue"].inflight # None /\ RowLacks(u)
      ~> Blocked \/ ~RowLacks(u) \/ u \in chain["Queue"].failed

\* stop() is never kept waiting: not by a download that waits for the user to
\* come back, nor by what is still queued.
WorkerStops == cancelled ~> worker.phase = "done"
=============================================================================
