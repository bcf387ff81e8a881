------------------------------- MODULE Queues -------------------------------
(***************************************************************************)
(* The effect of BoundedQueue's operations (src/util/bounded_queue.h) on   *)
(* the sequence of queued elements.  Every module of the controller uses   *)
(* these operators for its command and result queues; BoundedQueue.tla     *)
(* adds the mutex, the condition variable and close().                     *)
(***************************************************************************)
EXTENDS Integers, Sequences

\* Faulty variant for the sensitivity checks: one element too many.
HasRoomOffByOne(queue, capacity) == Len(queue) <= capacity

\* try_push succeeds only below the capacity.
HasRoom(queue, capacity) == Len(queue) < capacity

\* The last of a non-empty set of positions: the reverse scan of
\* replace_latest stops at the first match it meets.
Latest(positions) ==
  CHOOSE i \in positions : \A j \in positions : j <= i

\* replace_latest succeeds on a full queue too when an element matches.
CanReplaceLatest(queue, capacity, positions) ==
  positions # {} \/ HasRoom(queue, capacity)

\* The matching element nearest the back is overwritten where it stands, ahead
\* of everything queued after it; without a match the value goes to the back.
ReplaceLatest(queue, positions, value) ==
  IF positions = {}
  THEN Append(queue, value)
  ELSE [queue EXCEPT ![Latest(positions)] = value]

\* The queue after a try_push that may have been refused.
PushIfRoom(queue, capacity, value) ==
  IF HasRoom(queue, capacity) THEN Append(queue, value) ELSE queue
=============================================================================
