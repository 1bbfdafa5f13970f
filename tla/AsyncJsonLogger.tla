--------------------------- MODULE AsyncJsonLogger ---------------------------
(***************************************************************************)
(* kalshi::logging::AsyncJsonLogger: a bounded queue filled by log() and   *)
(* emptied by one background thread, under a mutex and a condition         *)
(* variable, with an atomic stop flag and an atomic drop counter.          *)
(*                                                                         *)
(* Two threads step: the owner (the program's main thread, which calls     *)
(* log() and in the end destroys the logger) and the worker (run()).  An   *)
(* event is the number of the accepted log() call that made it: its text   *)
(* and fields do not matter to any property.  A call below the configured  *)
(* level returns before it touches the logger and is no step.              *)
(***************************************************************************)
EXTENDS Naturals, Sequences

CONSTANTS QueueSize,    \* options.queue_size
          DropPolicy,   \* options.drop_policy
          MaxEvents     \* bound on the number of accepted log() calls

\* parse_logging refuses queue_size 0 (config.cpp:245) and any other policy.
ASSUME LoggerAssumption ==
  /\ QueueSize \in Nat \ {0}
  /\ DropPolicy \in {"DropOldest", "DropNewest"}
  /\ MaxEvents \in Nat

VARIABLES
  queue,          \* queue_
  stop,           \* stop_
  droppedCount,   \* dropped_count_
  worker,         \* where run() is
  batch,          \* run()'s local batch, later remaining
  owner,          \* where the owner is: calling log(), or in the destructor
  written,        \* events handed to the output stream, in order
  durable,        \* how many of written a flush has pushed to the file
  reported,       \* sum of the counts in the dropped_logs lines written
  logged          \* accepted log() calls so far

vars == <<queue, stop, droppedCount, worker, batch, owner,
          written, durable, reported, logged>>

ownerVars == <<stop, owner, logged>>
fileVars  == <<written, durable, reported>>

WorkerPC == {"loop",      \* at while (!stop_.load())
             "wait",      \* about to lock and evaluate the wait predicate
             "parking",   \* predicate was false, mutex still held
             "parked",    \* blocked in cv_.wait, mutex released
             "writing",   \* write_batch(batch)
             "flush",     \* out_->flush()
             "drain",     \* past the loop, at if (!queue_.empty())
             "draining",  \* write_batch(remaining)
             "done"}      \* run() has returned

OwnerPC == {"alive",      \* free to call log()
            "stopping",   \* destructor: stop_ stored, not yet notified
            "joining",    \* destructor: in worker_.join()
            "destroyed"}  \* destructor has returned

\* The state the constructor leaves: the worker thread has been started.
Init ==
  /\ queue = <<>>
  /\ stop = FALSE
  /\ droppedCount = 0
  /\ worker = "loop"
  /\ batch = <<>>
  /\ owner = "alive"
  /\ written = <<>>
  /\ durable = 0
  /\ reported = 0
  /\ logged = 0

-----------------------------------------------------------------------------
(* The owner *)

\* The worker keeps the mutex from a false predicate until it is blocked;
\* every other critical section of either thread is a single step.
MutexFree == worker # "parking"

\* notify_one and notify_all alike: only a thread already blocked hears it.
Notified == IF worker = "parked" THEN "wait" ELSE worker

\* Mutants: > for >=, and a slot kept free
QueueFullLate == Len(queue) > QueueSize
QueueFullEarly == Len(queue) + 1 >= QueueSize

QueueFull == Len(queue) >= QueueSize

\* enqueue, with room in the queue
Push ==
  /\ ~QueueFull
  /\ queue' = Append(queue, logged + 1)
  /\ UNCHANGED droppedCount
  /\ worker' = Notified

\* Mutant: fetch_sub for fetch_add
PushOverUncounting ==
  /\ QueueFull
  /\ DropPolicy = "DropOldest"
  /\ queue' = Append(Tail(queue), logged + 1)
  /\ droppedCount' = droppedCount - 1
  /\ worker' = Notified

\* Mutant: returns after making room, as the other policy does
PushOverReturns ==
  /\ QueueFull
  /\ DropPolicy = "DropOldest"
  /\ queue' = Tail(queue)
  /\ droppedCount' = droppedCount + 1
  /\ UNCHANGED worker

\* enqueue, DropPolicy::DropOldest on a full queue
PushOverOldest ==
  /\ QueueFull
  /\ DropPolicy = "DropOldest"
  /\ queue' = Append(Tail(queue), logged + 1)
  /\ droppedCount' = droppedCount + 1
  /\ worker' = Notified

\* enqueue, DropPolicy::DropNewest on a full queue: returns without notifying
DropNew ==
  /\ QueueFull
  /\ DropPolicy = "DropNewest"
  /\ droppedCount' = droppedCount + 1
  /\ UNCHANGED <<queue, worker>>

\* log(event) of a level that should_log lets through.  Calling it once the
\* destructor runs would be outside the object's lifetime.
Log ==
  /\ owner = "alive"
  /\ logged < MaxEvents
  /\ MutexFree
  /\ Push \/ PushOverOldest \/ DropNew
  /\ logged' = logged + 1
  /\ UNCHANGED <<stop, batch, owner, fileVars>>

\* ~AsyncJsonLogger, first statement: stop_.store(true), without the mutex
StoreStop ==
  /\ owner = "alive"
  /\ owner' = "stopping"
  /\ stop' = TRUE
  /\ UNCHANGED <<queue, droppedCount, worker, batch, fileVars, logged>>

\* ~AsyncJsonLogger, second statement: cv_.notify_all(), without the mutex
NotifyAll ==
  /\ owner = "stopping"
  /\ owner' = "joining"
  /\ worker' = Notified
  /\ UNCHANGED <<queue, stop, droppedCount, batch, fileVars, logged>>

\* Mutant: the destructor does not flush
JoinOnly ==
  /\ owner = "joining"
  /\ worker = "done"
  /\ owner' = "destroyed"
  /\ UNCHANGED <<queue, stop, droppedCount, worker, batch, fileVars, logged>>

\* ~AsyncJsonLogger: worker_.join() returns, then file_.flush()
Join ==
  /\ owner = "joining"
  /\ worker = "done"
  /\ owner' = "destroyed"
  /\ durable' = Len(written)
  /\ UNCHANGED <<queue, stop, droppedCount, worker, batch,
                 written, reported, logged>>

-----------------------------------------------------------------------------
(* The worker *)

\* while (!stop_.load())
CheckStop ==
  /\ worker = "loop"
  /\ worker' = IF stop THEN "drain" ELSE "wait"
  /\ UNCHANGED <<queue, droppedCount, batch, ownerVars, fileVars>>

\* lock, then cv_.wait's predicate is false: the mutex stays held
FindNothing ==
  /\ worker = "wait"
  /\ ~stop
  /\ queue = <<>>
  /\ worker' = "parking"
  /\ UNCHANGED <<queue, droppedCount, batch, ownerVars, fileVars>>

\* cv_.wait blocks and releases the mutex, in one step
Park ==
  /\ worker = "parking"
  /\ worker' = "parked"
  /\ UNCHANGED <<queue, droppedCount, batch, ownerVars, fileVars>>

\* a condition variable may wake for no reason
WakeSpuriously ==
  /\ worker = "parked"
  /\ worker' = "wait"
  /\ UNCHANGED <<queue, droppedCount, batch, ownerVars, fileVars>>

\* if (stop_.load() && queue_.empty()) break
Break ==
  /\ worker = "wait"
  /\ stop
  /\ queue = <<>>
  /\ worker' = "drain"
  /\ UNCHANGED <<queue, droppedCount, batch, ownerVars, fileVars>>

\* Mutant: batch = queue_, a copy for the swap
TakeBatchCopies ==
  /\ worker = "wait"
  /\ queue # <<>>
  /\ batch' = queue
  /\ worker' = "writing"
  /\ UNCHANGED <<queue, droppedCount, ownerVars, fileVars>>

\* batch.swap(queue_)
TakeBatch ==
  /\ worker = "wait"
  /\ queue # <<>>
  /\ batch' = queue
  /\ queue' = <<>>
  /\ worker' = "writing"
  /\ UNCHANGED <<droppedCount, ownerVars, fileVars>>

\* one round of write_batch's loop; the line goes to the stream's buffer
WriteEvent ==
  /\ worker \in {"writing", "draining"}
  /\ batch # <<>>
  /\ written' = Append(written, Head(batch))
  /\ batch' = Tail(batch)
  /\ UNCHANGED <<queue, droppedCount, worker, ownerVars, durable, reported>>

\* Mutant: if (dropped > 1)
SummariseForgetsOne ==
  /\ worker = "writing"
  /\ batch = <<>>
  /\ reported' = IF droppedCount > 1 THEN reported + droppedCount ELSE reported
  /\ droppedCount' = 0
  /\ worker' = "flush"
  /\ UNCHANGED <<queue, batch, ownerVars, written, durable>>

\* Mutant: the drop counter is left for later
SummariseNothing ==
  /\ worker = "writing"
  /\ batch = <<>>
  /\ worker' = "flush"
  /\ UNCHANGED <<queue, droppedCount, batch, ownerVars, fileVars>>

\* dropped_count_.exchange(0), and write_dropped_summary if it was not 0
Summarise ==
  /\ worker = "writing"
  /\ batch = <<>>
  /\ reported' = reported + droppedCount
  /\ droppedCount' = 0
  /\ worker' = "flush"
  /\ UNCHANGED <<queue, batch, ownerVars, written, durable>>

\* Mutant: no flush
FlushNothing ==
  /\ worker = "flush"
  /\ worker' = "loop"
  /\ UNCHANGED <<queue, droppedCount, batch, ownerVars, fileVars>>

\* out_->flush(), back to the loop
Flush ==
  /\ worker = "flush"
  /\ durable' = Len(written)
  /\ worker' = "loop"
  /\ UNCHANGED <<queue, droppedCount, batch, ownerVars, written, reported>>

\* after the loop: remaining.swap(queue_), or nothing left to take
TakeRemaining ==
  /\ worker = "drain"
  /\ batch' = queue
  /\ queue' = <<>>
  /\ worker' = IF queue = <<>> THEN "done" ELSE "draining"
  /\ UNCHANGED <<droppedCount, ownerVars, fileVars>>

\* write_batch(remaining) is through and run() returns: no summary, no flush
Finish ==
  /\ worker = "draining"
  /\ batch = <<>>
  /\ worker' = "done"
  /\ UNCHANGED <<queue, droppedCount, batch, ownerVars, fileVars>>

Work == \/ CheckStop \/ FindNothing \/ Park \/ Break \/ TakeBatch
        \/ WriteEvent \/ Summarise \/ Flush \/ TakeRemaining \/ Finish

Destroy == NotifyAll \/ Join

\* The logger is gone and its thread has ended.
Terminated == owner = "destroyed" /\ UNCHANGED vars

Next == Log \/ StoreStop \/ Destroy \/ Work \/ WakeSpuriously \/ Terminated

Spec == Init /\ [][Next]_vars

\* Both threads get processor time, and a destructor once entered goes on.
\* Nothing forces the owner to log or to destroy the logger, and nothing
\* forces a spurious wake-up.
FairSpec == Spec /\ WF_vars(Work) /\ WF_vars(Destroy)
-----------------------------------------------------------------------------
(* Properties *)

TypeOK ==
  /\ queue \in Seq(Nat)
  /\ stop \in BOOLEAN
  /\ droppedCount \in Nat
  /\ worker \in WorkerPC
  /\ batch \in Seq(Nat)
  /\ owner \in OwnerPC
  /\ written \in Seq(Nat)
  /\ durable \in Nat
  /\ reported \in Nat
  /\ logged \in Nat

\* Everything accepted and not dropped, from the file back to the queue.
Pipeline == written \o batch \o queue

\* The lines of the file followed by the events still on their way are in
\* call order and none is there twice, although the queue is swapped out
\* under the caller's feet and its head may be dropped (lines 166-228).
InOrder ==
  \A i, j \in 1..Len(Pipeline) : i < j => Pipeline[i] < Pipeline[j]

\* No event disappears without being counted: what was accepted is in the
\* file, on its way, or part of a drop count that is reported or pending,
\* also across the unlocked dropped_count_.exchange(0) of line 207.
Conservation ==
  logged = Len(Pipeline) + reported + droppedCount

\* DropOldest keeps the newest event whatever the timing of the writer.
NewestKept ==
  DropPolicy = "DropOldest" /\ logged > 0 =>
    /\ Pipeline # <<>>
    /\ Pipeline[Len(Pipeline)] = logged

\* A worker that goes to sleep (lines 192-194) owes nothing: the queue is
\* empty, the file is flushed, and no drop waits for its summary line.
IdleOwesNothing ==
  worker \in {"parking", "parked"} =>
    /\ queue = <<>>
    /\ batch = <<>>
    /\ durable = Len(written)
    /\ droppedCount = 0

\* Killed at any moment, the process loses at most two queues' worth of
\* accepted events: one unwritten or unflushed batch and one queue.
CrashLossBounded ==
  Len(Pipeline) - durable <= 2 * QueueSize

\* "Flush and stop background writer thread" (async_json_logger.hpp:38):
\* once the destructor has returned nothing is left behind.
FlushedAtDestruction ==
  owner = "destroyed" =>
    /\ worker = "done"
    /\ queue = <<>>
    /\ batch = <<>>
    /\ durable = Len(written)

\* The logger is a lossy log: kept is the pipeline, delivered is the part
\* of it that is written, lost is the pending drop count.
Lossy == INSTANCE LossyLog
           WITH kept <- Pipeline, delivered <- Len(written),
                lost <- droppedCount

\* Accepted events reach the file in call order and only the head of a full
\* queue, or the newcomer, is ever dropped; what is kept is written in the
\* end, even if the destructor hangs.
ImplementsLossyLog == Lossy!Spec

\* While the logger lives every counted drop gets its summary line: the
\* queue was full when it happened, so one more batch is to come.
DropsGetReported ==
  droppedCount > 0 ~> (droppedCount = 0 \/ owner # "alive")

\* "Flush and stop background writer thread" (async_json_logger.hpp:38):
\* a destructor that has begun comes to an end.
DestructorReturns ==
  stop ~> owner = "destroyed"
=============================================================================
