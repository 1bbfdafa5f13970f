------------------------------ MODULE LossyLog ------------------------------
(***************************************************************************)
(* What an asynchronous logger with a bounded queue promises its callers,  *)
(* with no threads, no mutex and no condition variable in sight.           *)
(*                                                                         *)
(* Accepted log calls are numbered 1, 2, 3, ... in call order.  The ones   *)
(* that survive sit in kept, in order; the first `delivered' of them have  *)
(* reached the output.  A call may push an event out only when QueueSize   *)
(* or more events are still undelivered, and then DropPolicy says which    *)
(* one goes: the oldest undelivered event that the writer has not taken,   *)
(* or the new event itself.  Every dropped event is counted in lost until  *)
(* a summary line moves the count to reported.                             *)
(***************************************************************************)
EXTENDS Naturals, Sequences

CONSTANTS QueueSize,    \* events the queue holds
          DropPolicy,   \* "DropOldest" or "DropNewest"
          MaxEvents     \* bound on the number of accepted calls

VARIABLES logged,       \* calls accepted so far
          kept,         \* events neither dropped nor forgotten, in call order
          delivered,    \* how many of kept the output holds
          lost,         \* drops no summary line has reported yet
          reported      \* drops the summary lines add up to

vars == <<logged, kept, delivered, lost, reported>>

Backlog == Len(kept) - delivered

\* s without its i-th element
Without(s, i) ==
  [j \in 1..(Len(s) - 1) |-> IF j < i THEN s[j] ELSE s[j + 1]]

Init ==
  /\ logged = 0
  /\ kept = <<>>
  /\ delivered = 0
  /\ lost = 0
  /\ reported = 0

Call ==
  /\ logged < MaxEvents
  /\ logged' = logged + 1

Accept ==
  /\ Call
  /\ kept' = Append(kept, logged + 1)
  /\ UNCHANGED <<delivered, lost, reported>>

\* The newest event always gets in; an undelivered one makes room for it.
\* The QueueSize - 1 events after the evicted one are untouchable: only the
\* head of a full queue is ever evicted.
Evict ==
  /\ DropPolicy = "DropOldest"
  /\ Call
  /\ Backlog >= QueueSize
  /\ kept' = Append(Without(kept, Len(kept) - QueueSize + 1), logged + 1)
  /\ lost' = lost + 1
  /\ UNCHANGED <<delivered, reported>>

Reject ==
  /\ DropPolicy = "DropNewest"
  /\ Call
  /\ Backlog >= QueueSize
  /\ lost' = lost + 1
  /\ UNCHANGED <<kept, delivered, reported>>

Deliver ==
  /\ delivered < Len(kept)
  /\ delivered' = delivered + 1
  /\ UNCHANGED <<logged, kept, lost, reported>>

Report ==
  /\ lost > 0
  /\ reported' = reported + lost
  /\ lost' = 0
  /\ UNCHANGED <<logged, kept, delivered>>

Next == Accept \/ Evict \/ Reject \/ Deliver \/ Report

\* Whatever is kept reaches the output in the end.
Spec == Init /\ [][Next]_vars /\ WF_vars(Deliver)

SafetySpec == Init /\ [][Next]_vars
=============================================================================
