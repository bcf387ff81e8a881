----------------------------- MODULE Connection -----------------------------
(***************************************************************************)
(* How the remote finds the Sonos household, stays in touch with it and    *)
(* finds it again: the discovery, topology and polling paths of            *)
(* src/app/controller.cpp between the SDL thread, the command queue, the   *)
(* network worker and the result queue.                                    *)
(*                                                                         *)
(* The household has one address, an epoch that MoveHousehold advances     *)
(* (new DHCP leases).  A command holds the address it was built with.      *)
(* Discover works at any address (SSDP); the other requests are answered   *)
(* only at the current one.  Which group is selected is the subject of     *)
(* GroupSelection.tla: here there are groups or there are none.            *)
(***************************************************************************)
EXTENDS Queues, FiniteSets

CONSTANTS
  Capacity,        \* of commands_, 32 in the code
  ResultCapacity,  \* of results_, 64 in the code
  RetryBelow,      \* commands_.size() under which discovery is retried, 2
  PollBelow,       \* commands_.size() under which timers poll, 4
  GroupSize,       \* members of the selected group
  MaxPresses,      \* bound of the model: user actions
  MaxOutages,      \* bound of the model: times the network goes down
  MaxMoves         \* bound of the model: changes of address

ASSUME LimitsAreNat ==
  /\ {Capacity, ResultCapacity, RetryBelow, PollBelow} \subseteq Nat
  /\ {GroupSize, MaxPresses, MaxOutages, MaxMoves} \subseteq Nat
ASSUME ThresholdsInCapacity ==
  0 < RetryBelow /\ RetryBelow <= PollBelow /\ PollBelow <= Capacity

Addresses == 0..MaxMoves
Nobody == -1           \* no players are known

Command == [type : {"Discover", "RefreshTopology", "Poll", "Other"},
            address : Addresses \cup {Nobody}]
Result == [type : {"Discovery", "Topology", "Playback", "Other"},
           success : BOOLEAN, address : Addresses \cup {Nobody}]

VARIABLES
  screen,        \* view_.screen: Discovery (also Splash), Offline, or Main
  connected,     \* view_.connected
  discovering,   \* view_.discovering
  retryArmed,    \* next_discovery_ms_ # 0
  players,       \* address of view_.topology.players, or Nobody
  groups,        \* view_.topology.groups is not empty
  selected,      \* view_.active_group_id is not empty
  pollFailures,  \* poll_failures_
  commands,      \* commands_
  working,       \* the command of worker_loop, <<>> or <<command>>
  results,       \* results_
  online,        \* the network reaches the household
  epoch,         \* its current address
  presses, outages,  \* bounds of the model
  dropped        \* history: a full queue lost the latest discovery step

ui == <<screen, connected, discovering, retryArmed, players, groups, selected,
        pollFailures>>
network == <<online, epoch, outages>>
vars == <<ui, commands, working, results, network, presses, dropped>>

Screens == {"Discovery", "Offline", "Main"}

TypeOK ==
  /\ screen \in Screens
  /\ connected \in BOOLEAN /\ discovering \in BOOLEAN /\ retryArmed \in BOOLEAN
  /\ players \in Addresses \cup {Nobody}
  /\ groups \in BOOLEAN /\ selected \in BOOLEAN
  /\ pollFailures \in 0..2
  /\ commands \in Seq(Command) /\ Len(commands) <= Capacity
  /\ working \in Seq(Command) /\ Len(working) <= 1
  /\ results \in Seq(Result) /\ Len(results) <= ResultCapacity
  /\ online \in BOOLEAN /\ epoch \in Addresses
  /\ presses \in 0..MaxPresses /\ outages \in 0..MaxOutages
  /\ dropped \in BOOLEAN

Discover == [type |-> "Discover", address |-> Nobody]
Other == [type |-> "Other", address |-> Nobody]
To(type, address) == [type |-> type, address |-> address]

\* Controller::start(): the threads run and the first discovery is queued.
Init ==
  /\ screen = "Discovery"
  /\ connected = FALSE /\ discovering = TRUE /\ retryArmed = FALSE
  /\ players = Nobody /\ groups = FALSE /\ selected = FALSE /\ pollFailures = 0
  /\ commands = <<Discover>> /\ working = <<>> /\ results = <<>>
  /\ online = TRUE /\ epoch = 0
  /\ presses = 0 /\ outages = 0 /\ dropped = FALSE
-----------------------------------------------------------------------------
(* Requests of the SDL thread *)

\* begin_discovery(): the flag is set whether or not the command fits.
BeginDiscovery ==
  /\ discovering' = TRUE
  /\ commands' = PushIfRoom(commands, Capacity, Discover)
  /\ dropped' = ~HasRoom(commands, Capacity)

\* enqueue() of one command that may be refused.
Enqueue(command) ==
  commands' = PushIfRoom(commands, Capacity, command)

\* coordinator(): the player of the active group.
HasCoordinator == groups /\ selected /\ players # Nobody

\* request_poll()
RequestPoll ==
  IF HasCoordinator THEN Enqueue(To("Poll", players)) ELSE UNCHANGED commands

\* Faulty variant for the sensitivity checks: the capacity is ignored.
AskSelectedGroupAnyway(address) ==
  commands' = commands \o <<To("Poll", address)>>
                \o [i \in 1..GroupSize |-> Other]

\* select_group's requests: a poll, then one volume request per member, each
\* refused on its own when the queue is full.
AskSelectedGroup(address) ==
  LET room == Capacity - Len(commands)
      asked == <<To("Poll", address)>>
                 \o [i \in 1..GroupSize |-> Other]
  IN commands' = commands \o SubSeq(asked, 1,
                   IF room < Len(asked) THEN room ELSE Len(asked))
-----------------------------------------------------------------------------
(* The network worker *)

\* wait_pop() of worker_loop.
TakeCommand ==
  /\ working = <<>> /\ commands # <<>>
  /\ working' = <<Head(commands)>>
  /\ commands' = Tail(commands)
  /\ UNCHANGED <<ui, results, network, presses, dropped>>

\* A request is answered at the household's current address only.
Reached(command) == online /\ command.address = epoch

\* What the worker reports; the address is the one of the players found.  A
\* topology keeps the addresses that discovery found: its request reached the
\* household, so they are the command's.
Answer(command) ==
  CASE command.type = "Discover" ->
         [type |-> "Discovery", success |-> online,
          address |-> IF online THEN epoch ELSE Nobody]
    [] command.type = "RefreshTopology" ->
         [type |-> "Topology", success |-> Reached(command),
          address |-> IF Reached(command) THEN command.address ELSE Nobody]
    [] command.type = "Poll" ->
         [type |-> "Playback", success |-> Reached(command), address |-> Nobody]
    [] OTHER ->
         [type |-> "Other", success |-> TRUE, address |-> Nobody]

\* The exchange ends.  A full result queue drops the answer: the SDL thread
\* has not drained it for long.
FinishCommand ==
  /\ working # <<>>
  /\ working' = <<>>
  /\ results' = PushIfRoom(results, ResultCapacity, Answer(working[1]))
  /\ dropped' = (\/ dropped
                 \/ /\ working[1].type \in {"Discover", "RefreshTopology"}
                    /\ ~HasRoom(results, ResultCapacity))
  /\ UNCHANGED <<ui, commands, network, presses>>
-----------------------------------------------------------------------------
(* apply_result, one action per kind of result *)

Received(type, success) ==
  /\ results # <<>>
  /\ Head(results).type = type /\ Head(results).success = success
  /\ results' = Tail(results)

\* Players are replaced, the groups stay until the requested topology comes.
DiscoverySucceeded ==
  /\ Received("Discovery", TRUE)
  /\ discovering' = FALSE /\ retryArmed' = FALSE
  /\ players' = Head(results).address
  /\ Enqueue(To("RefreshTopology", players'))
  /\ dropped' = ~HasRoom(commands, Capacity)
  /\ UNCHANGED <<screen, connected, groups, selected, pollFailures, working,
                 network, presses>>

\* Faulty variants for the sensitivity checks: no retry is scheduled, the flag
\* of the running discovery stays set.
DiscoveryFailedForGood ==
  /\ Received("Discovery", FALSE)
  /\ discovering' = FALSE /\ retryArmed' = FALSE
  /\ connected' = FALSE /\ screen' = "Offline"
  /\ UNCHANGED <<players, groups, selected, pollFailures, commands, working,
                 network, presses, dropped>>
DiscoveryFailedSilently ==
  /\ Received("Discovery", FALSE)
  /\ retryArmed' = TRUE
  /\ connected' = FALSE /\ screen' = "Offline"
  /\ UNCHANGED <<discovering, players, groups, selected, pollFailures,
                 commands, working, network, presses, dropped>>

DiscoveryFailed ==
  /\ Received("Discovery", FALSE)
  /\ discovering' = FALSE /\ retryArmed' = TRUE
  /\ connected' = FALSE /\ screen' = "Offline"
  /\ UNCHANGED <<players, groups, selected, pollFailures, commands, working,
                 network, presses, dropped>>

\* The new groups; select_group takes one and asks for its state.  Startup mode
\* Ask Every Time shows Rooms instead, as long as nothing is selected.  Only
\* another group than before changes the screen.
TopologySucceeded ==
  /\ Received("Topology", TRUE)
  /\ players' = Head(results).address /\ groups' = TRUE /\ connected' = TRUE
  /\ \/ /\ selected' = TRUE
        /\ AskSelectedGroup(players')
        /\ screen' \in (IF selected THEN {screen, "Main"} ELSE {"Main"})
     \/ /\ ~selected /\ UNCHANGED <<selected, commands>>
        /\ screen' = "Main"
  /\ UNCHANGED <<discovering, retryArmed, pollFailures, working, network,
                 presses, dropped>>

\* Faulty variant for the sensitivity checks: no retry is scheduled.
TopologyFailedForGood ==
  /\ Received("Topology", FALSE)
  /\ \/ ~groups /\ screen' = "Offline" /\ connected' = FALSE
     \/ groups /\ UNCHANGED <<screen, connected>>
  /\ UNCHANGED <<discovering, retryArmed, players, groups, selected,
                 pollFailures, commands, working, network, presses, dropped>>

\* Only a controller without groups gives up and schedules a discovery.
TopologyFailed ==
  /\ Received("Topology", FALSE)
  /\ \/ /\ ~groups
        /\ screen' = "Offline" /\ connected' = FALSE /\ retryArmed' = TRUE
     \/ /\ groups
        /\ UNCHANGED <<screen, connected, retryArmed>>
  /\ UNCHANGED <<discovering, players, groups, selected, pollFailures,
                 commands, working, network, presses, dropped>>

\* A success is taken as contact even when the household was forgotten since.
PlaybackSucceeded ==
  /\ Received("Playback", TRUE)
  /\ pollFailures' = 0 /\ connected' = TRUE
  /\ UNCHANGED <<screen, discovering, retryArmed, players, groups, selected,
                 commands, working, network, presses, dropped>>

\* The third failure in a row asks for the topology again.
PlaybackFailed ==
  /\ Received("Playback", FALSE)
  /\ IF pollFailures = 2 /\ players # Nobody
     THEN pollFailures' = 0 /\ Enqueue(To("RefreshTopology", players))
     ELSE /\ pollFailures' = IF pollFailures = 2 THEN 2 ELSE pollFailures + 1
          /\ UNCHANGED commands
  /\ UNCHANGED <<screen, connected, discovering, retryArmed, players, groups,
                 selected, working, network, presses, dropped>>

\* Speaker volumes, actions, lists: nothing that matters here.
OtherAnswered ==
  /\ results # <<>> /\ Head(results).type = "Other"
  /\ results' = Tail(results)
  /\ UNCHANGED <<ui, commands, working, network, presses, dropped>>

ApplyResult ==
  \/ DiscoverySucceeded \/ DiscoveryFailed
  \/ TopologySucceeded \/ TopologyFailed
  \/ PlaybackSucceeded \/ PlaybackFailed
  \/ OtherAnswered
-----------------------------------------------------------------------------
(* The timers of update() *)

RetryDiscovery ==
  /\ ~connected /\ ~discovering /\ retryArmed
  /\ Len(commands) < RetryBelow
  /\ BeginDiscovery
  /\ UNCHANGED <<screen, connected, retryArmed, players, groups, selected,
                 pollFailures, working, results, network, presses>>

PollTimer ==
  /\ connected /\ HasCoordinator /\ Len(commands) < PollBelow
  /\ RequestPoll
  /\ UNCHANGED <<ui, working, results, network, presses, dropped>>

TopologyTimer ==
  /\ connected /\ players # Nobody /\ Len(commands) < PollBelow
  /\ Enqueue(To("RefreshTopology", players))
  /\ UNCHANGED <<ui, working, results, network, presses, dropped>>
-----------------------------------------------------------------------------
(* The user *)

Press == presses < MaxPresses /\ presses' = presses + 1

\* Retry on Offline, the Refresh button on Offline and Discovery, or a player
\* address saved while nothing is connected.
FindAgain ==
  /\ Press /\ BeginDiscovery
  /\ \/ screen \in {"Offline", "Discovery"} /\ screen' \in {screen, "Discovery"}
     \/ ~connected /\ screen' = "Discovery"
  /\ UNCHANGED <<connected, retryArmed, players, groups, selected,
                 pollFailures, working, results, network>>

\* Forget Sonos System.  The active group id is not cleared.
Forget ==
  /\ Press /\ BeginDiscovery
  /\ players' = Nobody /\ groups' = FALSE /\ connected' = FALSE
  /\ screen' = "Discovery"
  /\ UNCHANGED <<retryArmed, selected, pollFailures, working, results, network>>

\* Back to Now Playing asks for the playback state; the menu and the other
\* screens do not, and Back can return to a screen of the history.
Leave ==
  /\ Press
  /\ \/ screen' = "Main" /\ RequestPoll
     \/ screen' \in Screens \ {screen} /\ UNCHANGED commands
  /\ UNCHANGED <<connected, discovering, retryArmed, players, groups, selected,
                 pollFailures, working, results, network, dropped>>

\* A row of Rooms.
SelectRoom ==
  /\ Press /\ groups
  /\ selected' = TRUE /\ connected' = TRUE /\ screen' = "Main"
  /\ IF players = Nobody THEN UNCHANGED commands ELSE AskSelectedGroup(players)
  /\ UNCHANGED <<discovering, retryArmed, players, groups, pollFailures,
                 working, results, network, dropped>>

\* Any key that sends a command to the selected group.
Key ==
  /\ Press /\ HasCoordinator
  /\ Enqueue(Other)
  /\ UNCHANGED <<ui, working, results, network, dropped>>
-----------------------------------------------------------------------------
(* The household's network *)

NetworkDown ==
  /\ online /\ outages < MaxOutages
  /\ online' = FALSE /\ outages' = outages + 1
  /\ UNCHANGED <<ui, commands, working, results, epoch, presses, dropped>>

NetworkUp ==
  /\ ~online /\ online' = TRUE
  /\ UNCHANGED <<ui, commands, working, results, epoch, outages, presses,
                 dropped>>

MoveHousehold ==
  /\ epoch < MaxMoves /\ epoch' = epoch + 1
  /\ UNCHANGED <<ui, commands, working, results, online, outages, presses,
                 dropped>>
-----------------------------------------------------------------------------
User == FindAgain \/ Forget \/ Leave \/ SelectRoom \/ Key
Network == NetworkDown \/ NetworkUp \/ MoveHousehold

Next ==
  \/ TakeCommand \/ FinishCommand
  \/ ApplyResult
  \/ RetryDiscovery \/ PollTimer \/ TopologyTimer
  \/ User \/ Network

Spec == Init /\ [][Next]_vars

\* The worker's requests end (every exchange has a timeout), update() runs each
\* frame and drains the results, its timers become due, and an outage ends.
Fairness ==
  /\ WF_vars(TakeCommand) /\ WF_vars(FinishCommand)
  /\ WF_vars(ApplyResult)
  /\ WF_vars(RetryDiscovery) /\ WF_vars(PollTimer) /\ WF_vars(TopologyTimer)
  /\ WF_vars(NetworkUp)

FairSpec == Spec /\ Fairness
-----------------------------------------------------------------------------
(* Properties *)

\* How many requests of a kind are queued, in the worker, or answered and not
\* yet applied.
Count(s, types) == Cardinality({i \in DOMAIN s : s[i].type \in types})
Outstanding(types) ==
  Count(commands, types) + Count(working, types) + Count(results, types)
Discoveries == Outstanding({"Discover", "Discovery"})
Topologies == Outstanding({"RefreshTopology", "Topology"})

\* Without a topology something is always under way that leads to one: a
\* discovery, a topology request, or a retry that can fire.  The one exception
\* is a step of discovery that found a queue full.
ColdHasAPlan ==
  ~groups => \/ Discoveries > 0 \/ Topologies > 0
             \/ retryArmed /\ ~connected /\ ~discovering
             \/ dropped

\* The progress display never waits for a discovery nobody runs, unless a full
\* queue lost it: update() does not retry while the flag is set.
DiscoveringIsServed ==
  discovering => Discoveries > 0 \/ dropped

\* Background retries do not pile up behind a slow network: beside the one
\* discovery of start() there is at most one more for each press.
RetriesAreBounded == Discoveries <= presses + 1

\* The discovering flag stands for a discovery, and for hardly more than one.
OneDiscovery == DiscoveringIsServed /\ RetriesAreBounded

\* A remote without topology (first start, or after Forget) gets one as soon as
\* outages end, with no help from the user, unless a full queue lost a step.
ColdConnects == ~groups ~> (groups \/ dropped)

\* docs/TROUBLESHOOTING.md: "After repeated failures Miyonos refreshes topology
\* and retries discovery with backoff. A changed player address is replaced in
\* persistent cache after successful discovery."  A connected remote whose
\* players have moved finds their new address, or sees that it is offline.
NewAddressIsFound ==
  (connected /\ groups /\ players # epoch) ~> (players = epoch \/ ~connected)
=============================================================================
