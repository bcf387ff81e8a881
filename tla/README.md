# Miyonos: TLA+ models, model checks and proofs

Miyonos is a Sonos remote control for the Miyoo Mini: a C++/SDL program with one
UI thread, two worker threads and two bounded queues between them. These modules
model what it *does* over time: which group it controls, how it stays in touch
with a household that regroups, moves and drops off the network, what happens to a
volume, a page or a cover between a key and the answer that comes back later, which
screen and question is on display, what a button means, and what survives on the SD
card. Paths such as
`app/controller.cpp` are below `src/src/`, documents below `src/docs/`.

## Inventory

| Component | State | Operations | Hard behaviour |
|---|---|---|---|
| Queues (`util/bounded_queue.h`; the head of the workers' loops and `stop` in `controller.cpp`) | elements, `closed_`, sleeping threads, `cancelled_` | `try_push`, `replace_latest`, `wait_pop`, `try_pop`, `close` | lost wakeups, coalescing at capacity, shutdown with work queued |
| Group and room selection (`controller.cpp`: `select_group`, `apply_result` Topology, `cycle_group`, `focus_speaker_card`, `cycle_volume_target`, Settings) | topology, active group and room, volume target, screen and row, saved group and room, startup mode | topology answers, buttons, restart | answers arrive after the household regrouped; memory across restarts |
| Discovery and polling (`begin_discovery`, `update`, `apply_result` Discovery/Topology/Playback) | `connected`, `discovering`, `next_discovery_ms_`, players, groups, `poll_failures_` | timers, retries, Forget | outages, address changes, full queues, retries that race with answers |
| Volumes (`handle` VolumeUp/Down, `adjust_speaker_card_volume`, `sync_speaker_card_volumes`, `request_speaker_volume`) | three copies of a volume: snapshot, cards, number on display; 1200 ms feedback window | keys, reads, acknowledgements | optimistic values against late answers, partial failure of Sync |
| Playlist context (`capture_`, `validate_`, `restore_`, `clear_playlist_context`) | label, pending start, values before the start, saved fingerprint | start, acknowledgement, rollback, polls | answers of an older start, radio in between |
| Browsing (`request_browse`, `move_selection`, `activate`, Browse results) | three lists, what each is of, totals, how far the playlists have been read | open, page, select, open a folder, switch list or group | answers for a list, folder or group that is no longer open; pages without a usable row |
| Artwork (`request_*_artwork`, `artwork_worker_loop`, `storage/artwork_cache.cpp`) | covers on display, requests in flight, failed URLs, files on the card | request, download, store, evict, resize, clear, pause, stop | clear during a download or under a start that fails, full queues, a failed cover in a row of covers, stop while a download waits |
| Screens, dialogs (`navigate`, `back`, `confirm_pending`, `ButtonMapping`, `IpEditor`) | history, rows, pending confirmation | buttons, and answers that navigate | an answer changes the screen under the user |
| Input (`platform/input.cpp`, `button_mapping.h`, `process_event` in `app/runtime.cpp`) | held button, R2's delayed press, recovery chord, suppressed press, mapping | press, release, repeat, long press, remapping | one press over several frames while another button, a remapping or the idle saver comes between |
| Protocol (`sonos/protocol.cpp`) | none | multi-step requests: `get_playback`, `play_item`, `play_saved_playlist`, `SyncSpeakerVolumes` | one step of several fails |
| Settings (`storage/settings.cpp`) | `settings.ini`, its temporary file | load with defaults, migration and validation; save through a temporary file and rename | crash or failure between the steps, files of other versions |
| HTTP, XML, HTTPS covers, rendering, presenter, battery, logger, simulator, installers | - | I/O and pure functions | not modelled |

Interaction: the SDL thread runs `handle` (buttons), `update` (drains the result
queue with `apply_result`, then looks at its timers) and draws; it never waits.
`worker_loop` takes a command, makes one or more HTTP exchanges, and pushes the
answer into the result queue. `artwork_worker_loop` does the same with covers.
Nothing else is shared, so a module needs one action per handler on the SDL side,
one per command on the worker side, and the two queues between them.

## Modules

| Module | Role |
|---|---|
| `Queues` | what the operations of `BoundedQueue` do to the sequence of elements; shared by all modules with queues |
| `BoundedQueue` | mutex, condition variable, timed waits, `close()`, and the order in which `stop()` uses them |
| `GroupSelection`, `MCGroupSelection` | which group and room is controlled; small households |
| `GroupSelectionProofs` | its theorems |
| `Connection` | discovery, topology and polls through both queues, network and address changes |
| `ConnectionProofs` | its theorems |
| `SpeakerVolume`, `MCSpeakerVolume` | volumes between the keys, both queues, the worker and the speakers |
| `SpeakerVolumeProofs` | its theorems |
| `PlaylistContext` | the playlist label of Now Playing: starts, rollbacks, memory and validation |
| `PlaylistContextProofs` | its theorems |
| `Browsing`, `MCBrowsing` | the three lists, read page by page through the command queue; two small libraries |
| `BrowsingProofs` | its theorems |
| `Artwork`, `MCArtwork` | covers: requests, the artwork worker, the cache, what is on display; two covers |
| `ArtworkProofs` | its theorems |
| `Screens` | history, questions, editors, pop-up, and the answers that jump over them |
| `Input`, `MCInput` | from buttons to actions, frame by frame; a keyboard and a pad |
| `SettingsRegister` | the abstract promise of the settings: a register that a save overwrites as a whole |
| `SettingsFile` | load and save step by step, which implement it |
| `InputAndQueueProofs` | theorems of `Input` and of `BoundedQueue`: the two ends of the application loop |
| `ScreensAndFileProofs` | theorems of `Screens` and of `SettingsFile`, the refinement among them: the dialogs and what they write |

The last two extend both of their components, which is why the parts of the
specifications of `BoundedQueue` and `SettingsFile` carry a prefix: `QueueInit`,
`QueueNext`, `QueueSpec`, `QueueTypeOK`, and `FileInit`, `FileNext`, `FileSpec`,
`FileTypeOK`.

### BoundedQueue

The mutex makes every operation atomic; what remains visible is the condition
variable. `waiting` is its wait set, `awake` the threads that were notified (or
timed out, `expired`) and do not have the mutex back yet. `WaitPop` is a call that
finds its predicate true or falls asleep, `Resume` the moment a woken thread looks
again, when another consumer may have been faster. A consumer is a worker: `Enter` is
the test of `cancelled_` at the head of its loop, after which it is `calling` and has
still to call `wait_pop`. `Cancel` and `Close` are `Controller::stop()`, which sets the
flag before it closes the queue; what is queued by then is dropped, and the Stop command
pushed in between is one more element. Two consumers stand for the
network worker and any other reader; in the program each queue has one consumer,
so the result is stronger than needed. `delivered` records what was popped, in
order, `late` how many elements each worker took since the flag was set. A key is a kind of request; the requests of a `Coalesced` key are sent with
`replace_latest`, as `Controller::enqueue` does for the volume of one speaker.

### GroupSelection

A topology is the sequence of visible groups in the order of the answer, because
the code takes the *first* group that `match_group` accepts. `TopologyArrived` is
the Topology branch of `apply_result` with `select_group` inside it; any topology
of `Households` can arrive at any time at which a request is outstanding. Buttons
that do not touch the selection are summarised by `OpenOther` and by the screens
`Back` can return to. `settings` is what the settings file keeps; `Restart` leaves
nothing else.

### Connection

The household has one address, an epoch that `MoveHousehold` advances. A command
carries the address it was built with, so a queued or answered request can be out
of date. `discovering` is set by `begin_discovery` whether or not the queue took
the command; `dropped` is a history variable that records that a full queue lost
the latest step of a discovery.

### SpeakerVolume

`actual` is what the speakers really have. The remote's copies are `snapshot` (the
group's volume in the last playback answer), `known` (the cards) and `shown` (the
number the keys count from). A command and its answer are one worker step, because
a command that was taken can no longer be replaced and nothing else of the exchange
shows. The volume that Sonos reports of a group is the external operator `Mean`, of which
only that it is a level is assumed; the model checks take the mean of its rooms (`Average`). `asked` is a history variable: the volume each room was last asked to have,
or Unknown when something other than this request decides the outcome.
`Init` covers a fresh start (`Started`) and a settled Speakers screen with a key
just pressed (`Adjusting`), so that two more presses reach the deep cases.

### PlaylistContext

`queue` and `source` are what the households' groups really have; `label` is what Now
Playing shows, `selected` what the next answer will show, `pending`, `before` and
`acked` an optimistic start, `saved` what the settings remember. The fingerprint of a
queue is modelled as its content, a playlist as its title and id at once. Requests of
`play_item` stop at the first failure, so a failed start leaves the queue as it was,
empty, or loaded. `PartialPoll` is `get_playback` that succeeds without the answer that
names the source. `seen` and `played` are history variables (which playlists were
started in a group, which it really had), and so is `lost` (a full queue refused a
validation or dropped an answer).

### Browsing

A row is where it comes from, its index there and what it is, so a property can tell
whether it stands where it belongs. A request carries what it lists, its first index
and the number of rows on display (`visible_offset`), and `Apply` compares them with
the list of the moment as `apply_result` does (`IsForList`, `Fits`). `PageRows` is
what Sonos returns, `Usable` what `parse_browse_response` keeps of it, `IsPlaylist`
what the Playlists keep of Favorites, `Visible` the rows of a page that remain for a
list, in their order. `PlaybackAnswer` stands for the polls, which
end the spinner and may read a list again. `era`, `fresh` and `lost` are history
variables: how often each list has become one of something else, whether its first
page has arrived since, whether a request was refused or failed.

### Artwork

A cover stands for its URL, its file and its path. The Queue and the photos of the
speakers are *chains*: `Ask` is `request_queue_artwork` or
`request_speaker_product_photos`, which show what the cache has and ask for the first
miss; its answer (`ChainAnswer`) asks for the next one. Now Playing, the selected
Favorite or playlist and the playlist of Now Playing are *frames*: `Turn` remembers the
cover it waits for, `FrameAnswer` takes the answer that names it. The worker takes a
command, waits while the remote is idle (`Begin`), downloads, stores under its name by
a rename, evicts, and answers. Eviction takes the oldest files; which ones these are is
left open, because the FAT file system of the card counts in units of two seconds.
`lost` (requests refused, answers dropped) and `evicted` are history variables; a request
that is made anew takes its entry out of `lost`, a dropped answer of `ClearCache` stays.
`Init` covers a fresh start (`Fresh`) and the Playlists, already read, while the first of
them plays (`Listening`), so that three presses reach the deep cases.
`before` is what a start under way would put back on the playlist of Now Playing
(`playlist_artwork_path_before_start_`); it ends with `StartSucceeds`, `StartFails` or
`GroupChanges`. `ForgetAll` does not reset it, and `outlived`, a history variable,
collects the covers that a start held on to in this way.

### Screens

`screen` and `history` are the view's screen and `history_`, `pending` is
`pending_confirmation_`, `asked` the question whose title is on display. The presses are
in the order in which `Controller::handle` looks at them: the pop-up, the questions, the
editor of the mapping, the rest. Answers may arrive at any time and jump to Now Playing,
Rooms or Offline; which of them come when is the matter of the other modules. What they
and Rooms look at is the `household`: whether the remote is `connected`, has `groups`,
and has `chosen` one. Rooms open themselves only before a group is chosen, a start can
only conclude after one was, and Confirm in Rooms (`SelectGroup`) leads to Now Playing
and empties the history. `Plain` screens are Queue and Playlists, which Y switches
between (`Pair`); Confirm on a playlist leads to Now Playing (`Starters`). Of a
mapping the module keeps which of the essential actions still have a button; the action
of a press must have one, so a lock-out would show.

### Input

Time is counted in frames of the loop. `Press`, `KeyRepeat` and `Release` are
`process_event` with `Input::translate` inside, for a key, a button of a pad or its
triggers; `Frame` is one turn of the loop without an event, with `repeat_action`.
`Handle` is what the controller does that bears on buttons: restore the mapping, ask
before leaving, leave. `woke`, `overtaken`, `r2Acts` and `bothFor` are history variables:
what is held that was pressed while the idle saver was on, which of these another waking
press came after, how often the latest press of R2 has acted, for how many frames Menu
and Start are down together. `woke` goes by the saver alone and not by the code's
`wake_only`, so it counts the triggers of a pad, which the code does not.

### SettingsRegister and SettingsFile

`SettingsRegister` has a start that reads a register, edits in memory, and a save that
writes the register as a whole. `SettingsFile` has the steps of
`SettingsStore::save`: create the temporary file, write line after line, flush and
close, rename; each may fail, and the program may be killed between any two. A file is
the set of the lines that are complete and the settings they are of. The refinement
mapping is `stored <- Load(file)`: what the next start would read. Four settings stand
for all: one with a one-time new default, the mapping (validated and migrated), a list
that is cut to a length, and the fields of a newer version. `Kept` says where a save is
not the identity: the list is cut, and a mapping that equals a former default becomes
the present one at the next start.

## Checks

Each faulty variant named in a module ("Faulty variant for the sensitivity checks")
replaces one definition by what a plausible bug would make of it; every property
below is violated by the variant that goes with it.

| Run | Question | Bounds |
|---|---|---|
| `bounded_queue` | no thread sleeps beside work (`NoSleepBesideWork`); order per key, nothing lost or doubled (`Delivery`); one pending request per coalesced key; once `stop()` has set its flag a worker takes at most one more element (`StopIsPrompt`) | capacity 2, two consumers, two keys, four elements: two can wait, two can be on their way, and one more finds the queue full |
| `group_selection` | the active room is in the active group and the settings remember the group on display (`SelectionAgrees`); a regrouping stays with the listener's room; Ask Every Time asks and Last Used reopens (`StartupModesHold`) | two rooms in five topologies: apart in either order, together under either coordinator, together under a new id |
| `connection` | a remote without groups always has something under way that leads to them (`ColdHasAPlan`) and gets them (`ColdConnects`); the progress display is served and retries do not pile up (`OneDiscovery`) | queues of two, one press, one outage, one address change |
| `address_change` (violated) | a connected remote finds players that have moved | no presses |
| `speaker_volume` | accepted requests land (`RequestsLand`); the focused card is the number the keys count from (`CardShowsTarget`); every number on display becomes the speakers' own (`NumbersSettle`) | a group of two rooms and a single one, volumes 0 to 2, queues of four, two acts of the user or of the world, one of which may be a failure or another controller |
| `playlist_context` | a pending start is always under way (`PendingIsUnderWay`); it ends, and a direct source clears the label (`LabelFollowsSource`); a queue changed elsewhere loses it, also after a failed validation (`ChangedQueueLosesLabel`) | two groups, two playlists, queues of four, two acts, one of which may be a failure or another controller |
| `settings_file` | whatever fails and wherever the program is killed, a start reads the last save that succeeded (`IsRegister`, the refinement); a failed save leaves no temporary file | two addresses of which one is kept, two process ids, files of four ages |
| `artwork` | what a chain or frame waits for is under way (`AwaitedIsUnderWay`); nothing on display was cleared, but for what a failed start puts back (`NoGhostCover`); every cover of the window arrives, past those that fail (`CoversArrive`); stop() is not kept waiting (`WorkerStops`) | two covers, command queue of two, result queue of one, cache of one or two, three presses or answers, from an empty Queue or from a list of playlists with its covers on display |
| `browsing` | rows of the Queue, which Confirm plays by their position, stand at it (`RowsInPlace`); no late answer brings back another group's or folder's rows (`ListIsCurrent`); playlists on later pages are found without a press (`PlaylistsAreFound`) | pages of two, queues of three and two rows, five Favorites with a placeholder and a folder, command queue of two, four presses or polls |
| `favorites_pages` (violated) | no row of Favorites is listed twice | same |
| `input` | the press of a key or a pad's button that ends the idle saver is silent until its release, or until another press wakes the remote (`WakePressIsRemembered`); R2 acts once per press (`OneActionPerR2Press`); the held chord restores the mapping (`ChordRestores`) | six buttons on two devices, two mappings, delays of 2, 3, 4 and 5 frames for 420 ms, 800 ms, 3 s and 60 s |
| `screens` | a question on display stands for what it asks (`QuestionsAreMeant`); from everywhere Exit leaves and Back leads to Now Playing (`NoDeadEnd`) | Queue and Playlists as plain screens, five presses besides Back and Exit, which are unbounded, two answers that jump |

Why the bounds are enough: queues of two and four fill up within the bounds, so
refused commands and dropped answers happen; three elements are the least for
which "in place" and "at the back" differ in `replace_latest`; two rooms are the
least for which coalescing can hit the wrong room and a group can split; volumes 0
to 2 have both limits and a middle. `Connection`, `SpeakerVolume` and `PlaylistContext` bound only the
user and the environment: the timers, the worker and the answers repeat without end.
A page of two rows is the least that can lose one row and keep one; the Favorites of the
run have a page with no playlist and a page with a placeholder. A window of one visible
row spans two covers, so a chain has a next cover to ask for, and one of them fits a
cache of one; with a playlist's cover on display from the start three presses reach a
start, a clear, and the failure of the start. The delays of `Input` keep the order of the code's, which is what lets one
of them expire while another runs. The files of `SettingsFile` lie one entry above the
kept length, so that cutting happens.

Deadlock is not checked. Where the bounds on the user and the environment are
used up the modelled system may really stop: an empty closed queue, or a remote
with nothing queued.

### Findings

A run that is expected to be violated states what a document or a comment says, and
TLC shows a behaviour of the code that does not do it.

* `address_change` (`controller.cpp:1554`): discovery is retried only while
  `connected` is false, and nothing makes it false once there are groups;
  `docs/TROUBLESHOOTING.md:43-44`.
* `favorites_pages` (`controller.cpp:1783`): the next page of Favorites starts at the
  number of rows on display, which is less than what was read when
  `parse_browse_response` left out a placeholder, so a row is listed twice; the comment
  at `controller.cpp:1328-1330` speaks of avoiding a duplicate tail. The Queue,
  which has no placeholders, is right (`RowsInPlace`).

Further disagreements are stated in the modules and refuted by TLC with the
configuration named here (`tlc -config <cfg> <module>`); they are not among the runs:

* `WakePressIsSilent` (`WakeTrigger.cfg`, `MCInput`; `runtime.cpp:71`): the triggers of a
  pad are axis motions, which `physical_press` leaves out, so L2 or R2 pressed while the
  idle saver is on ends it by acting (`platform/input.cpp:268`, `298`); the comment at
  `runtime.cpp:67-70`, `docs/CONTROLS.md:97-100` and `CHANGELOG.md:5-10` say that the
  first button only wakes. Keys and the buttons of a pad do so (`WakePressIsRemembered`).
* `WakeButtonStaysSilent` (`WakeHeld.cfg`, `MCInput`; `platform/input.cpp:37`): one waking
  press is remembered at a time. A D-pad button of a pad that woke the remote and is held
  until the saver comes on again, when another press wakes the remote, begins to repeat;
  comment at `platform/input.h:20-22`, `CHANGELOG.md:8`.
* `RoutineRefreshKeepsGroup` (`RoutineRefresh.cfg`, `MCGroupSelection`;
  `controller.cpp:1003`): in Specific Room mode, or with the remembered group listed
  first, a routine topology answer selects another group, while
  `docs/PROTOCOL.md:91-92` says that a routine refresh of the same group preserves the
  playlist context.
* `RefreshKeepsCard` (`SpeakerCard.cfg`, `MCGroupSelection`; `controller.cpp:879`): a
  routine topology answer makes the group the volume target under the open Speaker
  Volumes screen; `docs/CONTROLS.md:45-46`.
* `NoForeignVolume` (`OtherGroupVolume.cfg`, `MCSpeakerVolume`; `controller.cpp:291`):
  the first key after a switch of the group takes the previous group's snapshot;
  comment at `controller.cpp:896-897`.
* `CardsTrueAtRest` (`CardVolumes.cfg`, `MCSpeakerVolume`; `controller.cpp:1224`): a
  volume read before a key and applied after it stays on the card until the next
  topology answer; `docs/PROTOCOL.md:40-41`.
* `LabelIsOfGroup` (`GroupLabel.cfg`, `PlaylistContext`; `controller.cpp:1249`, also
  `:1380`): the answers to a validation and to a start carry no group and label the
  group that is selected when they arrive; `docs/PROTOCOL.md:90-93`.
* `FailedStartLeavesNoLabel` (`FailedStarts.cfg`, `PlaylistContext`;
  `controller.cpp:1847`): with two starts that overlap, the second remembers the first
  one's name as the one to go back to; when both fail the first one's name stays;
  `CHANGELOG.md:94-95`.

What the models also show, and no document contradicts: an address saved as the 17th is
reported as saved and cut at the next load (`Kept`); a mapping that happens to equal a
former default layout is replaced at the next start (`Migrated`); a later page of the
Playlists that no longer fits is left aside, but `playlists_next_raw_index_` moves past
it, so its playlists are missing until the list is read anew (`PlaylistsHaveNoGap`,
`PlaylistPages.cfg`, `MCBrowsing`; `controller.cpp:1331`); clearing the cache while a
playlist start is pending does not reset `playlist_artwork_path_before_start_`
(`controller.cpp:1849`, `1512-1533`), so when the start fails (`1413`) Now Playing gets
back the path of a cover whose file is gone (`outlived` excuses it in `NoGhostCover`;
without `outlived` in the formula TLC finds it under `Artwork.cfg`); a cache smaller than
the covers of the window downloads them in turn without end (`Blocked` excuses it); a
row selected before Back may be past the end of the list when one returns to it; going
offline over an open question leaves the question in the history, and one can come back
to it after another was answered (`cut` excuses it).

One difference is wording only: `docs/ARCHITECTURE.md:35-37` speaks of a result
queue of 32 and of one worker; the code has 64 (`controller.h`) and a second worker
for artwork.

## Fairness

* `Connection`: the worker takes and finishes commands (every socket operation has a
  timeout, `network/http.cpp`), `update()` runs in every frame and drains the
  results, the timers it looks at fire, an outage ends. Nothing is assumed of the
  user, and nothing of address changes.
* `SpeakerVolume`: the same for the worker, the results and the 1200 ms window. The
  two timers are strongly fair: each is due for good once its interval has passed
  (`last_*_requested_ms_` is set only when the request was accepted), update() looks
  at both in each frame, and the other one's requests are seconds apart, so a frame
  with a short queue comes.
* `PlaylistContext`: the worker, the answers and the polls as above (the poll timer only
  when `update()` has drained the results), and the 15 s between two validations pass.
* `Artwork`: the artwork worker goes on (a download ends within its limits) and
  `update()` applies its answers. Nothing is assumed of the user: `CoversArrive` holds
  until the listener leaves the Queue or the remote goes idle.
* `Browsing`: the worker takes and answers its commands and `update()` applies the
  answers; a Browse may fail.
* `Screens`: the specification has no fairness. `NoDeadEnd` says what an owner achieves
  who keeps pressing one button (its premises are a weakly fair press of Exit or Back and
  that the other is no longer pressed), against every answer that may jump in between.
* `BoundedQueue`, `GroupSelection`, `Input` and `SettingsFile` have safety and action properties only,
  and need none.

## Proofs

TLAPS proves for every value of the constants, within their named assumptions, what
TLC checks on the small instances.

* `InputAndQueueProofs`, the queue: `QueueTypeCorrect`; `NoLostWakeup`, for any number of consumers;
  `Coalescing`; `Delivered`; `StopPrompt`. `NoSleepBesideWork` is inductive together with the type
  invariant and the fact that `waiting` and `awake` are disjoint finite sets: a push adds
  one element and, if anybody sleeps, one thread to `awake`; a thread leaves `awake`
  with an element or on finding the queue empty. `Delivery` needs an invariant that
  follows each accepted element (`Faithful`): it stands once in what was delivered or
  queued, in the order in which its key's elements came, or a later one took its place.
  `StopIsPrompt` is inductive with the fact that a worker which took its one element
  after the flag is out of the loop, and that nobody has taken one before it
  (`StillPrompt`).
* `GroupSelectionProofs`: nine theorems: all four properties of the run
  (`SelectionStaysAgreed` and `ModesKeepTheirPromise` from theorems about their parts)
  and `NowPlayingIsGroup`, all from the inductive invariant
  `Selection`, which adds to the type invariant `ActiveRoomInActiveGroup`,
  `SavedGroupIsCurrent` and `NoRoomWithoutGroup` (no room is active before a group
  is). The last one is what makes `LastGroupReopens` true: after a restart no stale
  room may match a group before the remembered one does. The action properties
  follow from the invariant and from the step alone.
* `PlaylistContextProofs`: `TypeCorrect` and `NoOrphanedStart`. The inductive invariant
  `Typed` adds to the type invariant the types of what is in the queues and that only a
  playlist's queue has a name (`NamedIsPlaylist`), without which an answer could put an
  arbitrary content on display. `PendingIsUnderWay` is inductive beside it: one lemma per
  action shows that a start moves from the command queue to the result queue and leaves
  it only as an acknowledgement, as a rollback of the pending start, or as the answer to
  a start that is no longer pending.
* `ScreensAndFileProofs`, the file: `FileTypeCorrect`, `ImplementsRegister` and `NoLitter`, for any
  addresses, any limit and any process ids. The inductive invariant `IInv` adds to the
  type invariant `Prefix`: the temporary file's lines are of the validated settings in memory,
  and all of them are there once it is closed; `LoadOfSave` then says that loading
  such a file gives `Kept(memory)`, so the rename is the register's save. Every other
  step leaves `Load(file)` as it is and maps to a start, an edit, a halt or a stutter.
* `ConnectionProofs`: `TypeCorrect`, `ColdPlanHolds` and `DiscoveryStaysOne`, for any
  capacities, thresholds and sizes of a group. What makes `ColdHasAPlan` hold is that a
  late answer to a poll sets `connected` and so stops the retries: it may only come while
  something else leads to a topology. The inductive invariant therefore has, besides the
  plan itself (`Planned`) and the display that is served (`Served`), that without groups
  each poll on its way has a discovery or a topology request behind it (`PollsFollowed`),
  because the queues are first in, first out. `OneDiscovery` counts: the discoveries
  under way and the one that may begin (`Spare`) are one more than the presses at most.
* `InputAndQueueProofs`, the input: `TypeCorrect`, `R2ActsOnce`, `WakingIsSilent` and `ChordAlwaysRestores`,
  for any buttons, mappings and delays. `TypeOK` alone is not inductive: that Shuffle is
  of a button takes that R2 is held while its tap is pending (`R2Held`). The others are
  about history variables and tie them to the code's own: the count of R2's acts to
  `emitted` (`R2Counted`), the waking buttons that no later one overtook to the suppressed
  one (`Awoken`; the triggers of a pad are left out, for which it is false), the time
  both are down to the chord's (`ChordTracked`, which also has that a button is held
  only once and that the chord is active exactly while both are).
* `ScreensAndFileProofs`, the screens: `TypeCorrect` and `QuestionsMeant`, for any plain screens, shortcuts and
  bounds. A question that was jumped over lies in the history, and another asked above it
  would overwrite `pending`. The invariant `Meant` says why one never comes back to the
  first: until the remote goes offline nothing but Now Playing is ever over a question
  (`Layered`), a question below the screen on display means that a group was chosen
  (`Buried`), and from then on no answer leaves Now Playing on its own while Back never
  does.
* `ArtworkProofs`: `TypeCorrect`, `AwaitedComes` and `NoGhosts`, for any covers, pages,
  capacities and cache sizes. One lemma for each press and each answer of the household
  shows that it is `Harmless`: it puts nothing on display but what the cache has, and
  what it makes a chain or a frame wait for is in the queue or refused. The type
  invariant includes that the Queue's marks are as many as its rows, without which a
  toggle between two pages could leave a row without a mark. `NoGhostCover` is not
  inductive, since an answer that is still in the result queue may name a file that
  clearing removed meanwhile. `ClearedInTime` adds that such an answer, and any cover on
  display without a file, has the answer of `clear()` behind it, and that the worker
  itself never answers with a cover it has not stored. What a start would put back is
  either still good or will be in `outlived` (`Kept`, `Holds`), which is where the one
  exception of the property comes from.
* `SpeakerVolumeProofs`: `TypeCorrect`, `CardAndTargetAgree`, `VolumesLand` and
  `AskedVolumesLand`, for any household, range of volumes, step and capacities, and
  whatever Sonos makes of a group's volume. `RequestsLand` asks only that something is
  still queued for the room, which the next command taken would break; `AllLand` says what
  makes it inductive: the *last* command of the queue that sets the room's volume has the
  value that was asked for last, or there is none and the speaker has it. Replacing a
  request where it stands keeps this only if no Sync follows it (`UndoneBySync`), which is
  the exception the property names. The type invariant has to say which commands go to a
  speaker and which to a coordinator: an answer's value is written on that speaker's card.
* `BrowsingProofs`: `TypeCorrect`, `RowsStayInPlace`, `ListsAreCurrent` and
  `RequestsStayInOrder`, for any queues, folders, pages and presses. `Pipe` is everything
  under way, oldest first: the answers, the worker's command, the queue. It is first in,
  first out, and `InOrder` says what follows of the requests for the Queue: their eras
  never decrease, those of the latest era are of the selected group, none of an earlier
  era is left once the first page has been shown, and a later page starts where the rows
  ended when it was asked for. So a page that `Fits` goes to its place, and one that was
  asked for before a switch of the group comes before the first page of the new one. An
  era is at most the number of acts (`Counted`). `VisibleAll` says of the filter of a page
  that it keeps all of a page all of whose rows the list has.

The models became more exact on the way. In `Screens` Rooms and the answers had
looked at `connected` where the code looks at its groups and at the active one. In
`Artwork` a request of the Queue's chain took a dropped answer of `ClearCache` out of
`lost`, which the run's three presses were too few to show; `ListArrives` names the marks
it updates, because the prover misreads an `@` within another. In `Browsing` the rows of
the Playlists were to stand in the order of Favorites; the strengthening that would prove
it failed where a page is left aside, and led to `PlaylistsHaveNoGap`.

Only model-checked: the liveness properties, which are beyond the prover (fairness and
ENABLED): `ColdConnects`, `NumbersSettle`, `LabelFollowsSource`,
`ChangedQueueLosesLabel`, `CoversArrive`, `WorkerStops`, `PlaylistsAreFound` and
`NoDeadEnd`. Every invariant and every action property of the runs is a theorem. What
`Average` computes, a fold, is not proved about: it would take induction over data, which
the installed provers cannot instantiate. No module uses RECURSIVE.

## Not modelled, and why

* Strings, XML, URLs, layout and drawing: data without control; the repository's unit
  tests cover them.
* Time in milliseconds: a timer is an action that may occur when its guard holds; no
  property depends on a duration. `Input` counts frames and keeps the order of the
  delays.
* Power loss during the rename or before the card has written its buffers (`save` calls
  no fsync): the file system's promise, not the program's.
* A pad that is connected or removed while a button is held, the simulator's mouse and
  start options; `SettingsStore::reset`, which nothing calls.
* HTTP, HTTPS covers, XML, the presenter, battery and logger: I/O and parsing with no
  state that outlives a call; the models have their outcomes (answer, error, timeout).
* Mute: it travels with the volume in every command and answer.
* Data races: the SDL thread owns the view, the worker owns its adapter, and what
  they share is `BoundedQueue` and a few atomics, so there is no undefined behaviour
  to choose from.

## Plan

Done, in the order of importance: `BoundedQueue`, `GroupSelection`, `Connection`,
`SpeakerVolume`, `PlaylistContext`, `SettingsFile`, `Browsing`, `Artwork`, `Screens`,
`Input`, with the proofs above. Next:

1. Further abstract specifications that the proved modules implement: the command queue
   of `Connection` as the `BoundedQueue` of one consumer, the selection of
   `GroupSelection` as a register.
2. An abstract remote, which shows the latest answer or a request that is under way,
   that `SpeakerVolume` implements.
