---------------------------- MODULE BoundedQueue ----------------------------
(***************************************************************************)
(* src/util/bounded_queue.h: the queue between the SDL thread and the two  *)
(* workers.  Every operation holds mutex_ for its whole body, so each is   *)
(* one step; wait_pop is three, because a thread asleep in wait_for has    *)
(* released the mutex and has to win it back before it looks again.        *)
(*                                                                         *)
(* A consumer is a worker of the controller: it reads cancelled_ at the    *)
(* head of its loop and calls wait_pop only when the flag is not set, and  *)
(* Controller::stop() sets the flag before it closes the queue, so that    *)
(* what is still queued is dropped.  The Stop command pushed in between is *)
(* one more accepted element (a full queue refuses it): the worker that    *)
(* takes it leaves, as it would at its next look at the flag.              *)
(*                                                                         *)
(* An element is a key with a stamp that numbers the accepted calls.  A    *)
(* key of Coalesced is sent with replace_latest (the controller's Volume   *)
(* commands), any other with try_push.                                     *)
(*                                                                         *)
(* The parts of the specification are named QueueInit, QueueNext and so    *)
(* on, so that InputAndQueueProofs can extend Input beside this module.    *)
(***************************************************************************)
EXTENDS Queues, FiniteSets

CONSTANTS
  Consumers,   \* the workers, which call wait_pop in a loop
  Keys,        \* what replace_latest's predicate distinguishes
  Coalesced,   \* the keys sent with replace_latest
  Capacity,    \* constructor argument
  MaxSent      \* bound of the model: number of accepted calls

ASSUME ConsumersFinite == IsFiniteSet(Consumers)
ASSUME CoalescedAreKeys == Coalesced \subseteq Keys
ASSUME CapacityIsNat == Capacity \in Nat
ASSUME MaxSentIsNat == MaxSent \in Nat

VARIABLES
  queue,      \* queue_
  closed,     \* closed_
  cancelled,  \* the controller's cancelled_
  calling,    \* threads past the test of cancelled_ that have still to call wait_pop
  waiting,    \* threads asleep in cv_.wait_for
  awake,      \* threads out of the wait set that still have to relock mutex_
  expired,    \* those of awake that the timeout woke
  delivered,  \* history: what the consumers received, in order
  sent,       \* history: the keys of the accepted calls, in order
  late        \* history: how many elements each worker took since cancelled_

queueVars == <<queue, closed, cancelled, calling, waiting, awake, expired,
               delivered, sent, late>>

Elements == [key : Keys, stamp : 1..MaxSent]

QueueTypeOK ==
  /\ queue \in Seq(Elements) /\ Len(queue) <= Capacity
  /\ closed \in BOOLEAN /\ cancelled \in BOOLEAN
  /\ calling \subseteq Consumers
  /\ waiting \subseteq Consumers
  /\ awake \subseteq Consumers
  /\ expired \subseteq awake
  /\ waiting \cap awake = {} /\ calling \cap (waiting \cup awake) = {}
  /\ delivered \in Seq(Elements)
  /\ sent \in Seq(Keys) /\ Len(sent) <= MaxSent
  /\ late \in [Consumers -> Nat]

QueueInit ==
  /\ queue = <<>> /\ closed = FALSE /\ cancelled = FALSE
  /\ calling = {} /\ waiting = {} /\ awake = {} /\ expired = {}
  /\ delivered = <<>> /\ sent = <<>>
  /\ late = [c \in Consumers |-> 0]
-----------------------------------------------------------------------------
\* Variants with a fault, for the sensitivity checks of PROJECT.json: a push
\* that wakes nobody, a predicate that matches nothing, a pop from the wrong
\* end, a loop that goes on until the queue is closed and empty.
NotifyNobody == UNCHANGED <<waiting, awake>>
PendingOfNoKey(k) == {}
PopBack ==
  /\ queue # <<>>
  /\ delivered' = Append(delivered, queue[Len(queue)])
  /\ queue' = SubSeq(queue, 1, Len(queue) - 1)
EnterUntilDrained(c) ==
  /\ c \notin calling \cup waiting \cup awake
  /\ ~(closed /\ queue = <<>>)
  /\ calling' = calling \cup {c}
  /\ UNCHANGED <<queue, closed, cancelled, waiting, awake, expired, delivered,
                 sent, late>>
-----------------------------------------------------------------------------
\* cv_.notify_one(): some sleeping thread leaves the wait set, if there is one.
NotifyOne ==
  \/ /\ waiting = {}
     /\ UNCHANGED <<waiting, awake>>
  \/ \E c \in waiting :
       /\ waiting' = waiting \ {c}
       /\ awake' = awake \cup {c}

TryPush(k) ==
  /\ Len(sent) < MaxSent /\ ~closed /\ HasRoom(queue, Capacity)
  /\ queue' = Append(queue, [key |-> k, stamp |-> Len(sent) + 1])
  /\ sent' = Append(sent, k)
  /\ NotifyOne
  /\ UNCHANGED <<closed, cancelled, calling, expired, delivered, late>>

\* The queued elements that enqueue's predicate selects for the key.
Pending(k) == {i \in DOMAIN queue : queue[i].key = k}

ReplaceLatestOf(k) ==
  /\ Len(sent) < MaxSent /\ ~closed
  /\ CanReplaceLatest(queue, Capacity, Pending(k))
  /\ queue' = ReplaceLatest(queue, Pending(k),
                            [key |-> k, stamp |-> Len(sent) + 1])
  /\ sent' = Append(sent, k)
  /\ NotifyOne
  /\ UNCHANGED <<closed, cancelled, calling, expired, delivered, late>>

Pop ==
  /\ queue # <<>>
  /\ delivered' = Append(delivered, Head(queue))
  /\ queue' = Tail(queue)

\* Worker c has an element from wait_pop.
Take(c) ==
  /\ Pop
  /\ late' = IF cancelled THEN [late EXCEPT ![c] = late[c] + 1] ELSE late

\* The head of the worker's loop, while (!cancelled_.load()).  A worker that is
\* nowhere in the loop has been started, or is done with its last element; once
\* the flag is set it leaves for good.
Enter(c) ==
  /\ c \notin calling \cup waiting \cup awake /\ ~cancelled
  /\ calling' = calling \cup {c}
  /\ UNCHANGED <<queue, closed, cancelled, waiting, awake, expired, delivered,
                 sent, late>>

\* wait_pop finds its predicate true, or the thread goes to sleep.
WaitPop(c) ==
  /\ c \in calling
  /\ calling' = calling \ {c}
  /\ \/ Take(c) /\ UNCHANGED waiting
     \/ /\ queue = <<>> /\ closed
        /\ UNCHANGED <<queue, delivered, waiting, late>>
     \/ /\ queue = <<>> /\ ~closed
        /\ waiting' = waiting \cup {c}
        /\ UNCHANGED <<queue, delivered, late>>
  /\ UNCHANGED <<closed, cancelled, awake, expired, sent>>

\* The 200 ms of wait_for are over.
Timeout(c) ==
  /\ c \in waiting
  /\ waiting' = waiting \ {c}
  /\ awake' = awake \cup {c}
  /\ expired' = expired \cup {c}
  /\ UNCHANGED <<queue, closed, cancelled, calling, delivered, sent, late>>

\* Back under the mutex: pop; or return false, on an empty queue that is closed
\* or whose wait timed out; or sleep again, another thread having been faster.
Resume(c) ==
  /\ c \in awake
  /\ awake' = awake \ {c}
  /\ expired' = expired \ {c}
  /\ \/ Take(c) /\ UNCHANGED waiting
     \/ /\ queue = <<>> /\ (closed \/ c \in expired)
        /\ UNCHANGED <<queue, delivered, waiting, late>>
     \/ /\ queue = <<>> /\ ~closed /\ c \notin expired
        /\ waiting' = waiting \cup {c}
        /\ UNCHANGED <<queue, delivered, late>>
  /\ UNCHANGED <<closed, cancelled, calling, sent>>

TryPop ==
  /\ Pop
  /\ UNCHANGED <<closed, cancelled, calling, waiting, awake, expired, sent, late>>

\* The first step of stop(): the workers have not heard of it yet.
Cancel ==
  /\ ~cancelled
  /\ cancelled' = TRUE
  /\ UNCHANGED <<queue, closed, calling, waiting, awake, expired, delivered,
                 sent, late>>

\* closed_ = true and cv_.notify_all(), which stop() calls next.
Close ==
  /\ cancelled /\ ~closed
  /\ closed' = TRUE
  /\ waiting' = {}
  /\ awake' = awake \cup waiting
  /\ UNCHANGED <<queue, cancelled, calling, expired, delivered, sent, late>>

QueueNext ==
  \/ \E k \in Keys \ Coalesced : TryPush(k)
  \/ \E k \in Coalesced : ReplaceLatestOf(k)
  \/ \E c \in Consumers : Enter(c) \/ WaitPop(c) \/ Timeout(c) \/ Resume(c)
  \/ TryPop
  \/ Cancel
  \/ Close

QueueSpec == QueueInit /\ [][QueueNext]_queueVars
-----------------------------------------------------------------------------
(* Properties *)

\* While a thread sleeps in wait_pop, every queued element has a thread of its
\* own already on the way to it: notify_one under the lock loses no wakeup,
\* also when it finds nobody asleep or when its thread is overtaken.
NoSleepBesideWork ==
  waiting # {} => Len(queue) <= Cardinality(awake)

Traffic == delivered \o queue

\* Between any two elements of one key the older goes first, and elements sent
\* with try_push keep the order of the calls whatever their keys.
InOrder ==
  \A i, j \in DOMAIN Traffic :
    /\ i < j
    /\ \/ Traffic[i].key = Traffic[j].key
       \/ {Traffic[i].key, Traffic[j].key} \cap Coalesced = {}
    => Traffic[i].stamp < Traffic[j].stamp

\* An accepted element is delivered, still queued, or (only when coalesced)
\* superseded by a later one of its key; nothing is delivered twice.
NothingLost ==
  LET seen == {Traffic[i].stamp : i \in DOMAIN Traffic} IN
  /\ Cardinality(seen) = Len(Traffic)
  /\ \A n \in DOMAIN sent \ seen :
       /\ sent[n] \in Coalesced
       /\ \E i \in DOMAIN Traffic :
            Traffic[i].key = sent[n] /\ Traffic[i].stamp > n

\* What is accepted arrives, once and in its turn.
Delivery == InOrder /\ NothingLost

\* A coalesced key never has two requests waiting: a held volume button cannot
\* fill the command queue (docs/ARCHITECTURE.md, runtime model).
OnePendingPerKey ==
  \A i, j \in DOMAIN queue :
    queue[i].key = queue[j].key /\ queue[i].key \in Coalesced => i = j

\* Exit does not wait for the work in the queue: once cancelled_ is set a worker
\* takes at most one more element, the one it was already on its way to, past
\* the test of the flag, asleep, or woken; what is left is dropped
\* (docs/ARCHITECTURE.md, shutdown: the flag first, then the queue's close).
StopIsPrompt == \A c \in Consumers : late[c] <= 1
=============================================================================
