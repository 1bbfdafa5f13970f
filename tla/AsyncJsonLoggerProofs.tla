------------------------ MODULE AsyncJsonLoggerProofs ------------------------
(***************************************************************************)
(* Proofs about AsyncJsonLogger, for every queue size, drop policy and     *)
(* number of calls.                                                        *)
(***************************************************************************)
EXTENDS AsyncJsonLogger, SequenceTheorems, TLAPS

-----------------------------------------------------------------------------
(* Type correctness *)

LEMMA InitType == Init => TypeOK
<1> SUFFICES ASSUME Init PROVE TypeOK
  OBVIOUS
<1>1. queue \in Seq(Nat) /\ batch \in Seq(Nat) /\ written \in Seq(Nat)
  BY DEF Init
<1>2. stop \in BOOLEAN
  BY DEF Init
<1>3. worker \in WorkerPC /\ owner \in OwnerPC
  BY DEF Init, WorkerPC, OwnerPC
<1>4. droppedCount \in Nat /\ durable \in Nat /\ reported \in Nat /\ logged \in Nat
  BY DEF Init
<1> QED
  BY <1>1, <1>2, <1>3, <1>4 DEF TypeOK

\* The head of a full queue exists: queue_size is never 0 (config.cpp:245).
LEMMA FullIsNonEmpty ==
  ASSUME queue \in Seq(Nat), QueueFull
  PROVE  queue # <<>>
  BY LoggerAssumption DEF LoggerAssumption, QueueFull

LEMMA NextType == TypeOK /\ [Next]_vars => TypeOK'
<1> SUFFICES ASSUME TypeOK, [Next]_vars PROVE TypeOK'
  OBVIOUS
<1> USE DEF TypeOK
<1>1. CASE Log
  <2>1. worker' \in WorkerPC
    BY <1>1 DEF Log, Push, PushOverOldest, DropNew, Notified, WorkerPC
  <2>2. queue' \in Seq(Nat)
    <3>1. CASE Push
      BY <3>1, logged + 1 \in Nat DEF Push
    <3>2. CASE PushOverOldest
      <4>1. Tail(queue) \in Seq(Nat)
        BY <3>2, FullIsNonEmpty, HeadTailProperties DEF PushOverOldest
      <4> QED
        BY <4>1, <3>2 DEF PushOverOldest
    <3>3. CASE DropNew
      BY <3>3 DEF DropNew
    <3> QED
      BY <1>1, <3>1, <3>2, <3>3 DEF Log
  <2>3. droppedCount' \in Nat /\ logged' \in Nat
    BY <1>1 DEF Log, Push, PushOverOldest, DropNew
  <2> QED
    BY <1>1, <2>1, <2>2, <2>3 DEF Log, fileVars
<1>2. CASE StoreStop
  BY <1>2 DEF StoreStop, OwnerPC, fileVars
<1>3. CASE NotifyAll
  BY <1>3 DEF NotifyAll, Notified, OwnerPC, WorkerPC, fileVars
<1>4. CASE Join
  BY <1>4 DEF Join, OwnerPC
<1>5. CASE CheckStop
  BY <1>5 DEF CheckStop, WorkerPC, ownerVars, fileVars
<1>6. CASE FindNothing
  BY <1>6 DEF FindNothing, WorkerPC, ownerVars, fileVars
<1>7. CASE Park
  BY <1>7 DEF Park, WorkerPC, ownerVars, fileVars
<1>8. CASE Break
  BY <1>8 DEF Break, WorkerPC, ownerVars, fileVars
<1>9. CASE TakeBatch
  BY <1>9 DEF TakeBatch, WorkerPC, ownerVars, fileVars
<1>10. CASE WriteEvent
  BY <1>10 DEF WriteEvent, ownerVars
<1>11. CASE Summarise
  BY <1>11 DEF Summarise, WorkerPC, ownerVars
<1>12. CASE Flush
  BY <1>12 DEF Flush, WorkerPC, ownerVars
<1>13. CASE TakeRemaining
  BY <1>13 DEF TakeRemaining, WorkerPC, ownerVars, fileVars
<1>14. CASE Finish
  BY <1>14 DEF Finish, WorkerPC, ownerVars, fileVars
<1>15. CASE WakeSpuriously
  BY <1>15 DEF WakeSpuriously, WorkerPC, ownerVars, fileVars
<1>16. CASE Terminated \/ UNCHANGED vars
  BY <1>16 DEF Terminated, vars
<1> QED
  BY <1>1, <1>2, <1>3, <1>4, <1>5, <1>6, <1>7, <1>8, <1>9, <1>10, <1>11,
     <1>12, <1>13, <1>14, <1>15, <1>16 DEF Next, Destroy, Work

\* Every variable of the logger keeps its type (declarations at
\* async_json_logger.hpp:69-82 and the locals of run()).
THEOREM TypeCorrect == Spec => []TypeOK
<1>1. Init => TypeOK
  BY InitType
<1>2. TypeOK /\ [Next]_vars => TypeOK'
  BY NextType
<1> QED
  BY <1>1, <1>2, PTL DEF Spec

-----------------------------------------------------------------------------
(* Where the threads are and what they owe *)

\* How far each thread can be, given the other one.
ThreadInv ==
  /\ stop <=> owner # "alive"
  /\ worker \in {"drain", "draining", "done"} => stop
  /\ worker \in {"parking", "parked", "draining", "done"} => queue = <<>>
  /\ worker \notin {"writing", "draining"} => batch = <<>>
  /\ owner = "destroyed" => worker = "done" /\ durable = Len(written)

\* How much is unflushed at each point of run().
FlushInv ==
  /\ Len(queue) <= QueueSize
  /\ durable <= Len(written)
  /\ Len(written) + Len(batch) <= durable + QueueSize
  /\ worker \in {"loop", "wait", "parking", "parked", "drain"} =>
       durable = Len(written)

\* A pending drop count means that the worker has yet to reach its exchange,
\* this round or, because the queue holds events, the next one.
DropInv ==
  /\ worker \in {"flush", "loop", "wait"} /\ droppedCount > 0 => queue # <<>>
  /\ worker \in {"parking", "parked"} => droppedCount = 0

ControlInv == TypeOK /\ ThreadInv /\ FlushInv /\ DropInv

LEMMA InitControl == Init => ControlInv
<1> SUFFICES ASSUME Init PROVE ControlInv
  OBVIOUS
<1>1. TypeOK
  BY InitType
<1>2. stop <=> owner # "alive"
  BY DEF Init
<1>3. ThreadInv
  BY <1>2 DEF Init, ThreadInv
<1>4. FlushInv /\ DropInv
  BY LoggerAssumption DEF Init, FlushInv, DropInv, LoggerAssumption
<1> QED
  BY <1>1, <1>3, <1>4 DEF ControlInv

\* Dropping the oldest event for the newest leaves the queue as long as it was.
LEMMA ShiftKeepsLength ==
  ASSUME TypeOK, PushOverOldest
  PROVE  queue # <<>> /\ queue' # <<>> /\ Len(queue') = Len(queue)
<1>1. queue \in Seq(Nat) /\ queue # <<>> /\ logged + 1 \in Nat
  BY FullIsNonEmpty DEF TypeOK, PushOverOldest
<1>2. Tail(queue) \in Seq(Nat) /\ Len(Tail(queue)) = Len(queue) - 1
  BY <1>1, HeadTailProperties
<1>3. queue' = Append(Tail(queue), logged + 1)
  BY DEF PushOverOldest
<1>4. Len(queue') = Len(Tail(queue)) + 1 /\ queue' # <<>>
  BY <1>1, <1>2, <1>3, AppendProperties
<1> QED
  BY <1>1, <1>2, <1>4, LenProperties

LEMMA NextControl == ControlInv /\ [Next]_vars => ControlInv'
<1> SUFFICES ASSUME ControlInv, [Next]_vars PROVE ControlInv'
  OBVIOUS
<1>0. TypeOK'
  BY NextType DEF ControlInv
<1> USE DEF ControlInv, TypeOK, ThreadInv, FlushInv, DropInv
<1>1. CASE Log
  <2>1. stop' = stop /\ owner' = owner /\ UNCHANGED <<batch, written, durable>>
    BY <1>1 DEF Log, fileVars
  <2>2. ThreadInv'
    BY <2>1, <1>1 DEF Log, Push, PushOverOldest, DropNew, Notified, MutexFree
  <2>3. CASE Push
    <3>1. Len(queue') = Len(queue) + 1 /\ queue' # <<>>
      BY <2>3, logged + 1 \in Nat DEF Push
    <3>2. Len(queue') <= QueueSize
      BY <3>1, <2>3, LoggerAssumption DEF Push, QueueFull, LoggerAssumption
    <3>3. worker' = Notified /\ worker # "parking" /\ droppedCount' = droppedCount
      BY <2>3, <1>1 DEF Push, Log, MutexFree
    <3>4. FlushInv'
      BY <2>1, <3>2, <3>3 DEF Notified
    <3>5. DropInv'
      BY <3>1, <3>3 DEF Notified
    <3> QED
      BY <1>0, <2>2, <3>4, <3>5
  <2>4. CASE PushOverOldest
    <3>1. queue # <<>> /\ queue' # <<>> /\ Len(queue') = Len(queue)
      BY <2>4, ShiftKeepsLength DEF ControlInv
    <3>3. worker' = Notified /\ worker # "parking"
      BY <2>4, <1>1 DEF PushOverOldest, Log, MutexFree
    <3>4. FlushInv'
      BY <2>1, <3>1, <3>3 DEF Notified
    <3>5. DropInv'
      BY <3>1, <3>3 DEF Notified
    <3> QED
      BY <1>0, <2>2, <3>4, <3>5
  <2>5. CASE DropNew
    <3>1. queue # <<>>
      BY <2>5, FullIsNonEmpty DEF DropNew
    <3>2. FlushInv' /\ DropInv'
      BY <2>1, <2>5, <1>1, <3>1 DEF Log, DropNew, MutexFree
    <3> QED
      BY <1>0, <2>2, <3>2
  <2> QED
    BY <1>1, <2>3, <2>4, <2>5 DEF Log
<1>2. CASE StoreStop
  BY <1>0, <1>2 DEF StoreStop, OwnerPC, fileVars
<1>3. CASE NotifyAll
  BY <1>0, <1>3 DEF NotifyAll, Notified, OwnerPC, WorkerPC, fileVars
<1>4. CASE Join
  BY <1>0, <1>4, LoggerAssumption DEF Join, OwnerPC, LoggerAssumption
<1>5. CASE CheckStop
  BY <1>0, <1>5 DEF CheckStop, WorkerPC, ownerVars, fileVars
<1>6. CASE FindNothing
  BY <1>0, <1>6 DEF FindNothing, WorkerPC, ownerVars, fileVars
<1>7. CASE Park
  BY <1>0, <1>7 DEF Park, WorkerPC, ownerVars, fileVars
<1>8. CASE Break
  BY <1>0, <1>8 DEF Break, WorkerPC, ownerVars, fileVars
<1>9. CASE TakeBatch
  BY <1>0, <1>9, LoggerAssumption
     DEF TakeBatch, WorkerPC, ownerVars, fileVars, LoggerAssumption
<1>10. CASE WriteEvent
  BY <1>0, <1>10 DEF WriteEvent, ownerVars
<1>11. CASE Summarise
  BY <1>0, <1>11 DEF Summarise, WorkerPC, ownerVars
<1>12. CASE Flush
  BY <1>0, <1>12, LoggerAssumption
     DEF Flush, WorkerPC, ownerVars, LoggerAssumption
<1>13. CASE TakeRemaining
  BY <1>0, <1>13, LoggerAssumption
     DEF TakeRemaining, WorkerPC, ownerVars, fileVars, LoggerAssumption
<1>14. CASE Finish
  BY <1>0, <1>14 DEF Finish, WorkerPC, ownerVars, fileVars
<1>15. CASE WakeSpuriously
  BY <1>0, <1>15 DEF WakeSpuriously, WorkerPC, ownerVars, fileVars
<1>16. CASE Terminated \/ UNCHANGED vars
  BY <1>0, <1>16 DEF Terminated, vars
<1> QED
  BY <1>1, <1>2, <1>3, <1>4, <1>5, <1>6, <1>7, <1>8, <1>9, <1>10, <1>11,
     <1>12, <1>13, <1>14, <1>15, <1>16 DEF Next, Destroy, Work

\* The worker never goes to sleep (async_json_logger.cpp:192-194) with an
\* event unflushed or a drop unreported; a destroyed logger has flushed
\* everything; a crash loses at most one batch and one queue.
THEOREM ControlCorrect == Spec => []ControlInv
<1>1. Init => ControlInv
  BY InitControl
<1>2. ControlInv /\ [Next]_vars => ControlInv'
  BY NextControl
<1> QED
  BY <1>1, <1>2, PTL DEF Spec

\* The worker never blocks in cv_.wait (async_json_logger.cpp:192-194) while
\* an event is queued or unflushed or a drop waits for its summary line.
THEOREM IdleWorker == Spec => []IdleOwesNothing
<1>1. ControlInv => IdleOwesNothing
  BY DEF ControlInv, ThreadInv, FlushInv, DropInv, IdleOwesNothing
<1> QED
  BY <1>1, ControlCorrect, PTL

\* ~AsyncJsonLogger (async_json_logger.cpp:139-151), when it returns, leaves
\* every kept event in the flushed file.
THEOREM DestroyedIsFlushed == Spec => []FlushedAtDestruction
<1>1. ControlInv => FlushedAtDestruction
  BY DEF ControlInv, ThreadInv, FlushedAtDestruction
<1> QED
  BY <1>1, ControlCorrect, PTL

\* At most 2 * queue_size accepted events are not yet in the flushed file
\* (enqueue and run, async_json_logger.cpp:166-228).
THEOREM BoundedLoss == Spec => []CrashLossBounded
<1>1. ControlInv => CrashLossBounded
  <2> SUFFICES ASSUME ControlInv PROVE CrashLossBounded
    OBVIOUS
  <2>1. Len(Pipeline) = Len(written) + Len(batch) + Len(queue)
    BY DEF ControlInv, TypeOK, Pipeline
  <2> QED
    BY <2>1, LoggerAssumption
    DEF ControlInv, TypeOK, FlushInv, CrashLossBounded, LoggerAssumption
<1> QED
  BY <1>1, ControlCorrect, PTL

-----------------------------------------------------------------------------
(* What each step does to the pipeline *)

\* Appending behind the queue appends behind the pipeline.
LEMMA AppendConcat ==
  ASSUME NEW s \in Seq(Nat), NEW t \in Seq(Nat), NEW x \in Nat
  PROVE  s \o Append(t, x) = Append(s \o t, x)
  BY SMT

\* Writing moves the head of the batch to the end of the file.
LEMMA HeadMoves ==
  ASSUME NEW s \in Seq(Nat), NEW t \in Seq(Nat), t # <<>>
  PROVE  Append(s, Head(t)) \o Tail(t) = s \o t
  BY SMT

\* Popping the head of the queue takes one element out of the pipeline.
LEMMA TailIsWithout ==
  ASSUME NEW s \in Seq(Nat), NEW t \in Seq(Nat), t # <<>>
  PROVE  s \o Tail(t) = Lossy!Without(s \o t, Len(s) + 1)
<1> DEFINE l == s \o Tail(t)
           r == Lossy!Without(s \o t, Len(s) + 1)
<1>1. l \in Seq(Nat) /\ Len(l) = Len(s \o t) - 1
  BY SMT
<1>2. \A j \in 1..Len(l) :
        l[j] = IF j < Len(s) + 1 THEN (s \o t)[j] ELSE (s \o t)[j + 1]
  BY SMT
<1>3. r = [j \in 1..Len(l) |-> l[j]]
  BY <1>1, <1>2 DEF Lossy!Without
<1>4. l = [j \in 1..Len(l) |-> l[j]]
  <2> HIDE DEF l
  <2> QED
    BY <1>1, LenProperties
<1> QED
  BY <1>3, <1>4

\* What a step may do to the pipeline: nothing, or what one log() call does.
PipelineGrows == Pipeline' = Append(Pipeline, logged + 1)

PipelineShifts ==
  Pipeline' = Append(Lossy!Without(Pipeline, Len(Pipeline) - QueueSize + 1),
                     logged + 1)

\* enqueue with room: the new event goes to the end.
LEMMA PushStep ==
  ASSUME TypeOK, Push, UNCHANGED <<written, batch>>
  PROVE  PipelineGrows
<1>1. logged + 1 \in Nat /\ queue' = Append(queue, logged + 1)
  BY DEF TypeOK, Push
<1>2. written \o batch \in Seq(Nat)
  BY DEF TypeOK
<1>3. (written \o batch) \o Append(queue, logged + 1)
         = Append((written \o batch) \o queue, logged + 1)
  BY <1>1, <1>2, AppendConcat DEF TypeOK
<1> QED
  BY <1>1, <1>3 DEF PipelineGrows, Pipeline

\* enqueue over a full queue: its head is the (QueueSize)-th from the end.
LEMMA PushOverStep ==
  ASSUME ControlInv, PushOverOldest, UNCHANGED <<written, batch>>
  PROVE  PipelineShifts
<1> DEFINE front == written \o batch
<1>1. logged + 1 \in Nat /\ queue' = Append(Tail(queue), logged + 1)
  BY DEF ControlInv, TypeOK, PushOverOldest
<1>2. front \in Seq(Nat) /\ queue \in Seq(Nat) /\ queue # <<>>
  BY FullIsNonEmpty DEF ControlInv, TypeOK, PushOverOldest
<1>3. Len(queue) = QueueSize
  <2>1. Len(queue) <= QueueSize /\ Len(queue) >= QueueSize
    BY DEF ControlInv, FlushInv, PushOverOldest, QueueFull
  <2> QED
    BY <2>1, <1>2, LoggerAssumption, LenProperties DEF LoggerAssumption
<1>4. Len(front) + 1 = Len(Pipeline) - QueueSize + 1
  <2>1. Len(Pipeline) = Len(front) + Len(queue)
    BY <1>2, ConcatProperties DEF Pipeline
  <2> QED
    BY <2>1, <1>2, <1>3, LenProperties
<1>5. Tail(queue) \in Seq(Nat)
  BY <1>2, HeadTailProperties
<1>6. front \o Append(Tail(queue), logged + 1)
        = Append(front \o Tail(queue), logged + 1)
  BY <1>1, <1>2, <1>5, AppendConcat
<1>7. front \o Tail(queue) = Lossy!Without(front \o queue, Len(front) + 1)
  BY <1>2, TailIsWithout
<1> QED
  BY <1>1, <1>4, <1>6, <1>7 DEF PipelineShifts, Pipeline

\* Swapping the queue out moves no event within the pipeline.
LEMMA SwapStep ==
  ASSUME TypeOK, batch = <<>>, batch' = queue, queue' = <<>>, written' = written
  PROVE  Pipeline' = Pipeline
<1>1. written \in Seq(Nat) /\ queue \in Seq(Nat)
  BY DEF TypeOK
<1>2. written \o <<>> = written
  BY <1>1, ConcatEmptySeq
<1>3. (written \o queue) \o <<>> = written \o queue
  BY <1>1, ConcatProperties, ConcatEmptySeq
<1> QED
  BY <1>2, <1>3 DEF Pipeline

\* Writing a line moves no event within the pipeline either.
LEMMA WriteStep ==
  ASSUME TypeOK, WriteEvent
  PROVE  Pipeline' = Pipeline
<1>1. Append(written, Head(batch)) \o Tail(batch) = written \o batch
  BY HeadMoves DEF TypeOK, WriteEvent
<1> QED
  BY <1>1 DEF WriteEvent, Pipeline

\* No step but a log() call changes the pipeline.
LEMMA QuietStep ==
  ASSUME ControlInv, StoreStop \/ Destroy \/ Work \/ WakeSpuriously
                       \/ Terminated \/ UNCHANGED vars
  PROVE  Pipeline' = Pipeline /\ logged' = logged
<1>1. CASE StoreStop \/ NotifyAll \/ Join
  BY <1>1 DEF StoreStop, NotifyAll, Join, fileVars, Pipeline
<1>2. CASE CheckStop \/ FindNothing \/ Park \/ Break
  BY <1>2 DEF CheckStop, FindNothing, Park, Break, fileVars, ownerVars, Pipeline
<1>3. CASE TakeBatch
  <2>1. batch = <<>>
    BY <1>3 DEF TakeBatch, ControlInv, ThreadInv
  <2> QED
    BY <1>3, <2>1, SwapStep DEF TakeBatch, ControlInv, fileVars, ownerVars
<1>4. CASE WriteEvent
  BY <1>4, WriteStep DEF ControlInv, WriteEvent, ownerVars
<1>5. CASE Summarise \/ Flush \/ Finish \/ WakeSpuriously
  BY <1>5 DEF Summarise, Flush, Finish, WakeSpuriously, fileVars, ownerVars,
              Pipeline
<1>6. CASE TakeRemaining
  <2>1. batch = <<>>
    BY <1>6 DEF TakeRemaining, ControlInv, ThreadInv
  <2> QED
    BY <1>6, <2>1, SwapStep DEF TakeRemaining, ControlInv, fileVars, ownerVars
<1>7. CASE Terminated \/ UNCHANGED vars
  BY <1>7 DEF Terminated, vars, Pipeline
<1> QED
  BY <1>1, <1>2, <1>3, <1>4, <1>5, <1>6, <1>7 DEF Destroy, Work

-----------------------------------------------------------------------------
(* Order, conservation, newest event *)

\* s is what is left of 1..n, in its order, so it grows by at least one from
\* each element to the next.
Numbered(s, n) ==
  /\ \A i, j \in 1..Len(s) : i < j => s[j] - s[i] >= j - i
  /\ \A i \in 1..Len(s) : 1 <= s[i] /\ s[i] <= n

LEMMA NumberedIncreases ==
  ASSUME NEW s \in Seq(Nat), NEW n \in Nat, Numbered(s, n),
         NEW i \in 1..Len(s), NEW j \in 1..Len(s), i < j
  PROVE  s[i] < s[j]
<1>1. s[i] \in Nat /\ s[j] \in Nat /\ i \in Nat /\ j \in Nat
  BY ElementOfSeq, LenProperties
<1>2. s[j] - s[i] >= j - i
  BY DEF Numbered
<1> QED
  BY <1>1, <1>2

\* What is behind the i-th element has room up to n.
LEMMA NumberedBounds ==
  ASSUME NEW s \in Seq(Nat), NEW n \in Nat, Numbered(s, n), NEW i \in 1..Len(s)
  PROVE  s[i] \in Nat /\ i <= s[i] /\ s[i] <= n - (Len(s) - i)
<1>1. /\ Len(s) \in Nat /\ i \in Nat /\ 1 \in 1..Len(s) /\ Len(s) \in 1..Len(s)
      /\ s[i] \in Nat /\ s[1] \in Nat /\ s[Len(s)] \in Nat
  BY ElementOfSeq, LenProperties
<1>2. 1 <= s[1] /\ s[Len(s)] <= n
  BY <1>1 DEF Numbered
<1>3. /\ 1 < i => s[i] - s[1] >= i - 1
      /\ i < Len(s) => s[Len(s)] - s[i] >= Len(s) - i
  BY <1>1 DEF Numbered
<1>4. i <= s[i]
  <2>1. CASE i = 1
    BY <1>2, <2>1
  <2>2. CASE 1 < i
    BY <1>1, <1>2, <1>3, <2>2
  <2> QED
    BY <1>1, <2>1, <2>2
<1>5. s[i] <= n - (Len(s) - i)
  <2>1. CASE i = Len(s)
    BY <1>1, <1>2, <2>1
  <2>2. CASE i < Len(s)
    BY <1>1, <1>2, <1>3, <2>2
  <2> QED
    BY <1>1, <2>1, <2>2
<1> QED
  BY <1>1, <1>4, <1>5

\* If there are n of them, none is missing.
LEMMA NothingMissing ==
  ASSUME NEW s \in Seq(Nat), NEW n \in Nat, Numbered(s, n), Len(s) = n,
         NEW i \in 1..Len(s)
  PROVE  s[i] = i
<1>1. s[i] \in Nat /\ i <= s[i] /\ s[i] <= n - (Len(s) - i)
  BY NumberedBounds
<1> QED
  BY <1>1

\* Two elements as far apart as their places have everything between them.
LEMMA NoGap ==
  ASSUME NEW s \in Seq(Nat), NEW n \in Nat, Numbered(s, n),
         NEW i \in 1..Len(s), NEW j \in 1..Len(s), i < j, s[j] - s[i] = j - i,
         NEW k \in i..j
  PROVE  s[k] = s[i] + (k - i)
<1>1. /\ i \in Nat /\ j \in Nat /\ k \in Nat /\ k \in 1..Len(s)
      /\ s[i] \in Nat /\ s[j] \in Nat
  BY ElementOfSeq, LenProperties
<1>2. s[k] \in Nat
  BY <1>1, ElementOfSeq
<1>3. /\ i < k => s[k] - s[i] >= k - i
      /\ k < j => s[j] - s[k] >= j - k
  BY <1>1 DEF Numbered
<1>4. CASE i < k /\ k < j
  <2> DEFINE a == s[i]
             b == s[k]
             c == s[j]
  <2>1. b - a >= k - i /\ c - b >= j - k /\ c - a = j - i
    BY <1>3, <1>4
  <2>2. a \in Nat /\ b \in Nat /\ c \in Nat
    BY <1>1, <1>2
  <2> HIDE DEF a, b, c
  <2>3. b = a + (k - i)
    BY <1>1, <2>1, <2>2
  <2> QED
    BY <2>3 DEF a, b
<1>5. CASE k = i
  BY <1>1, <1>5
<1>6. CASE k = j
  BY <1>1, <1>6
<1> QED
  BY <1>1, <1>4, <1>5, <1>6

LEMMA AppendNumbered ==
  ASSUME NEW s \in Seq(Nat), NEW n \in Nat, Numbered(s, n)
  PROVE  Numbered(Append(s, n + 1), n + 1)
<1> DEFINE t == Append(s, n + 1)
<1>1. Len(t) = Len(s) + 1 /\ t[Len(s) + 1] = n + 1
  BY n + 1 \in Nat, AppendProperties
<1>2. \A i \in 1..Len(s) : t[i] = s[i] /\ s[i] \in Nat
  BY n + 1 \in Nat, AppendProperties, ElementOfSeq
<1>3. Len(s) \in Nat
  BY LenProperties
<1>4. \A i \in 1..Len(t) : i \in 1..Len(s) \/ i = Len(s) + 1
  BY <1>1, <1>3
<1>5. \A i \in 1..Len(t) : 1 <= t[i] /\ t[i] <= n + 1
  BY <1>1, <1>2, <1>4 DEF Numbered
<1>6. \A i, j \in 1..Len(t) : i < j => t[j] - t[i] >= j - i
  <2> SUFFICES ASSUME NEW i \in 1..Len(t), NEW j \in 1..Len(t), i < j
               PROVE  t[j] - t[i] >= j - i
    OBVIOUS
  <2>1. i \in 1..Len(s)
    BY <1>1, <1>3
  <2>2. CASE j \in 1..Len(s)
    BY <1>2, <2>1, <2>2 DEF Numbered
  <2>3. CASE j = Len(s) + 1
    <3>1. s[i] \in Nat /\ s[i] <= n - (Len(s) - i)
      BY <2>1, NumberedBounds
    <3> QED
      BY <1>1, <1>2, <1>3, <2>1, <2>3, <3>1
  <2> QED
    BY <1>4, <2>2, <2>3
<1> QED
  BY <1>5, <1>6 DEF Numbered

LEMMA WithoutNumbered ==
  ASSUME NEW s \in Seq(Nat), NEW n \in Nat, NEW i \in 1..Len(s), Numbered(s, n)
  PROVE  /\ Lossy!Without(s, i) \in Seq(Nat)
         /\ Len(Lossy!Without(s, i)) = Len(s) - 1
         /\ Numbered(Lossy!Without(s, i), n)
<1> DEFINE t == Lossy!Without(s, i)
<1>1. Len(s) \in Nat /\ Len(s) - 1 \in Nat
  BY LenProperties
<1>2. \A j \in 1..(Len(s) - 1) :
        /\ t[j] = IF j < i THEN s[j] ELSE s[j + 1]
        /\ t[j] \in Nat
  BY <1>1, ElementOfSeq DEF Lossy!Without
<1>3. t \in [1..(Len(s) - 1) -> Nat]
  BY <1>2 DEF Lossy!Without
<1> HIDE DEF t
<1>4. t \in Seq(Nat) /\ Len(t) = Len(s) - 1
  <2> DEFINE m == Len(s) - 1
  <2>1. m \in Nat /\ t \in [1..m -> Nat]
    BY <1>1, <1>3
  <2> HIDE DEF m
  <2>2. t \in Seq(Nat) /\ Len(t) = m
    BY <2>1, SMT
  <2> QED
    BY <2>2 DEF m
<1>5. \A j \in 1..Len(t) :
        \E k \in 1..Len(s) : t[j] = s[k] /\ ((j < i /\ k = j) \/ (j >= i /\ k = j + 1))
  <2> TAKE j \in 1..Len(t)
  <2>1. j \in 1..(Len(s) - 1) /\ j \in Nat /\ i \in Nat
    BY <1>1, <1>4
  <2>2. CASE j < i
    <3>1. t[j] = s[j] /\ j \in 1..Len(s)
      BY <1>1, <1>2, <2>1, <2>2
    <3> QED
      BY <3>1, <2>2
  <2>3. CASE j >= i
    <3>1. t[j] = s[j + 1]
      <4>1. ~(j < i)
        BY <2>1, <2>3
      <4> QED
        BY <1>2, <2>1, <4>1
    <3>2. j + 1 \in 1..Len(s)
      BY <1>1, <2>1
    <3> QED
      BY <3>1, <3>2, <2>3
  <2> QED
    BY <2>1, <2>2, <2>3
<1>6. Numbered(t, n)
  <2>1. \A j \in 1..Len(t) : 1 <= t[j] /\ t[j] <= n
    BY <1>5 DEF Numbered
  <2>2. \A j, k \in 1..Len(t) : j < k => t[k] - t[j] >= k - j
    <3> SUFFICES ASSUME NEW j \in 1..Len(t), NEW k \in 1..Len(t), j < k
                 PROVE  t[k] - t[j] >= k - j
      OBVIOUS
    <3>1. PICK p \in 1..Len(s) : t[j] = s[p] /\ ((j < i /\ p = j) \/ (j >= i /\ p = j + 1))
      BY <1>5
    <3>2. PICK q \in 1..Len(s) : t[k] = s[q] /\ ((k < i /\ q = k) \/ (k >= i /\ q = k + 1))
      BY <1>5
    <3>3. p < q /\ q - p >= k - j
      <4>1. j \in Nat /\ k \in Nat /\ i \in Nat /\ p \in Nat /\ q \in Nat
        BY <1>1, <1>4
      <4>2. (j < i /\ p = j) \/ (j >= i /\ p = j + 1)
        BY <3>1
      <4>3. (k < i /\ q = k) \/ (k >= i /\ q = k + 1)
        BY <3>2
      <4> QED
        BY <4>1, <4>2, <4>3
    <3>4. s[q] - s[p] >= q - p
      BY <3>3 DEF Numbered
    <3>5. \A a, b, c, d, x, y \in Int :
            a - b >= c - d /\ c - d >= x - y => a - b >= x - y
      OBVIOUS
    <3>6. s[p] \in Int /\ s[q] \in Int
      <4>1. s[p] \in Nat /\ s[q] \in Nat
        BY ElementOfSeq
      <4> QED
        BY <4>1
    <3>7. p \in Int /\ q \in Int /\ j \in Int /\ k \in Int
      BY <1>1, <1>4
    <3>8. s[q] - s[p] >= k - j
      BY <3>3, <3>4, <3>5, <3>6, <3>7
    <3> QED
      BY <3>1, <3>2, <3>8
  <2> QED
    BY <2>1, <2>2 DEF Numbered
<1> QED
  BY <1>4, <1>6 DEF t

\* Every event in the pipeline came from a past call, each at its place, and
\* what is no longer there has been counted as a drop.
OrderInv ==
  /\ Numbered(Pipeline, logged)
  /\ Conservation
  /\ NewestKept

FullInv == ControlInv /\ OrderInv

LEMMA PipelineType == TypeOK => Pipeline \in Seq(Nat)
  BY ConcatProperties DEF TypeOK, Pipeline

LEMMA InitOrder == Init => OrderInv
<1> SUFFICES ASSUME Init PROVE OrderInv
  OBVIOUS
<1>1. Pipeline = <<>> /\ Len(Pipeline) = 0
  BY DEF Init, Pipeline
<1>2. Numbered(Pipeline, logged)
  BY <1>1 DEF Numbered
<1>3. Conservation /\ NewestKept
  BY <1>1 DEF Init, Conservation, NewestKept
<1> QED
  BY <1>2, <1>3 DEF OrderInv

LEMMA LogOrder == FullInv /\ Log => OrderInv'
<1> SUFFICES ASSUME FullInv, Log PROVE OrderInv'
  OBVIOUS
<1> DEFINE P == Pipeline
<1>1. /\ P \in Seq(Nat) /\ Len(P) \in Nat
      /\ logged \in Nat /\ logged + 1 \in Nat
      /\ droppedCount \in Nat /\ reported \in Nat
  BY PipelineType, LenProperties DEF FullInv, ControlInv, TypeOK
<1>2. /\ Numbered(P, logged)
      /\ logged = Len(P) + reported + droppedCount
      /\ DropPolicy = "DropOldest" /\ logged > 0 => P # <<>> /\ P[Len(P)] = logged
  BY DEF FullInv, OrderInv, Conservation, NewestKept
<1>3. /\ logged' = logged + 1 /\ reported' = reported
      /\ UNCHANGED <<written, batch>>
  BY DEF Log, fileVars
<1>4. CASE Push
  <2>1. P' = Append(P, logged + 1)
    BY <1>3, <1>4, PushStep DEF FullInv, ControlInv, PipelineGrows
  <2>2. Numbered(P', logged')
    BY <1>1, <1>2, <1>3, <2>1, AppendNumbered
  <2>3. P' # <<>> /\ Len(P') = Len(P) + 1 /\ P'[Len(P) + 1] = logged'
    BY <1>1, <1>3, <2>1, AppendProperties
  <2>4. Conservation'
    BY <1>1, <1>2, <1>3, <1>4, <2>3 DEF Conservation, Push
  <2> QED
    BY <2>2, <2>3, <2>4 DEF OrderInv, NewestKept
<1>5. CASE PushOverOldest
  <2> DEFINE i == Len(P) - QueueSize + 1
             W == Lossy!Without(P, i)
  <2>1. P' = Append(W, logged + 1)
    BY <1>3, <1>5, PushOverStep DEF FullInv, PipelineShifts
  <2>2. i \in 1..Len(P)
    <3>1. Len(P) = Len(written) + Len(batch) + Len(queue)
      BY DEF Pipeline, FullInv, ControlInv, TypeOK
    <3>2. Len(queue) >= QueueSize
      BY <1>5 DEF PushOverOldest, QueueFull
    <3>3. Len(written) \in Nat /\ Len(batch) \in Nat /\ Len(queue) \in Nat
      BY LenProperties DEF FullInv, ControlInv, TypeOK
    <3> HIDE DEF P
    <3> QED
      BY <1>1, <3>1, <3>2, <3>3, LoggerAssumption DEF LoggerAssumption
  <2>3. W \in Seq(Nat) /\ Len(W) = Len(P) - 1 /\ Numbered(W, logged)
    <3> HIDE DEF P, i
    <3> QED
      BY <1>1, <1>2, <2>2, WithoutNumbered
  <2> HIDE DEF W
  <2>4. Numbered(P', logged')
    BY <1>1, <1>3, <2>1, <2>3, AppendNumbered
  <2>5. P' # <<>> /\ Len(P') = Len(P) /\ P'[Len(P')] = logged'
    <3>1. P' # <<>> /\ Len(P') = Len(W) + 1 /\ P'[Len(W) + 1] = logged + 1
      BY <1>1, <2>1, <2>3, AppendProperties
    <3> QED
      BY <1>1, <1>3, <2>3, <3>1
  <2>6. Conservation'
    BY <1>1, <1>2, <1>3, <1>5, <2>5 DEF Conservation, PushOverOldest
  <2> QED
    BY <2>4, <2>5, <2>6 DEF OrderInv, NewestKept
<1>6. CASE DropNew
  <2>1. P' = P
    BY <1>3, <1>6 DEF DropNew, Pipeline
  <2>2. Numbered(P', logged')
    <3>1. \A k \in 1..Len(P) : P[k] \in Nat
      BY <1>1, ElementOfSeq
    <3> HIDE DEF P
    <3> QED
      BY <1>1, <1>2, <1>3, <2>1, <3>1 DEF Numbered
  <2>3. Conservation'
    BY <1>1, <1>2, <1>3, <1>6, <2>1 DEF Conservation, DropNew
  <2>4. NewestKept'
    BY <1>6 DEF DropNew, NewestKept
  <2> QED
    BY <2>2, <2>3, <2>4 DEF OrderInv
<1> QED
  BY <1>4, <1>5, <1>6 DEF Log

LEMMA NextOrder == FullInv /\ [Next]_vars => OrderInv'
<1> SUFFICES ASSUME FullInv, [Next]_vars PROVE OrderInv'
  OBVIOUS
<1>1. CASE Log
  BY <1>1, LogOrder
<1>2. CASE StoreStop \/ Destroy \/ Work \/ WakeSpuriously \/ Terminated
             \/ UNCHANGED vars
  <2>1. Pipeline' = Pipeline /\ logged' = logged
    BY <1>2, QuietStep DEF FullInv
  <2>2. \/ reported' = reported /\ droppedCount' = droppedCount
        \/ reported' = reported + droppedCount /\ droppedCount' = 0
    BY <1>2 DEF StoreStop, Destroy, NotifyAll, Join, Work, CheckStop, FindNothing,
       Park, Break, TakeBatch, WriteEvent, Summarise, Flush, TakeRemaining, Finish,
       WakeSpuriously, Terminated, vars, fileVars, ownerVars,
       FullInv, ControlInv, TypeOK
  <2>3. Len(Pipeline) \in Nat /\ reported \in Nat /\ droppedCount \in Nat
    BY PipelineType, LenProperties DEF FullInv, ControlInv, TypeOK
  <2>4. logged = Len(Pipeline) + reported + droppedCount
    BY DEF FullInv, OrderInv, Conservation
  <2>5. logged = Len(Pipeline) + reported' + droppedCount'
    BY <2>2, <2>3, <2>4
  <2>6. Conservation'
    BY <2>1, <2>5 DEF Conservation
  <2> QED
    BY <2>1, <2>6 DEF FullInv, OrderInv, NewestKept
<1> QED
  BY <1>1, <1>2 DEF Next

LEMMA FullCorrect == Spec => []FullInv
<1>1. Init => FullInv
  BY InitControl, InitOrder DEF FullInv
<1>2. FullInv /\ [Next]_vars => FullInv'
  BY NextControl, NextOrder DEF FullInv
<1> QED
  BY <1>1, <1>2, PTL DEF Spec

\* Events reach the file in call order and none twice, however enqueue's
\* drop of the head and run's swap of the queue interleave
\* (async_json_logger.cpp:166-228).
THEOREM Ordered == Spec => []InOrder
<1>1. FullInv => InOrder
  <2> SUFFICES ASSUME FullInv PROVE InOrder
    OBVIOUS
  <2>1. Pipeline \in Seq(Nat) /\ logged \in Nat /\ Numbered(Pipeline, logged)
    BY PipelineType DEF FullInv, ControlInv, TypeOK, OrderInv
  <2> QED
    BY <2>1, NumberedIncreases DEF InOrder
<1> QED
  BY <1>1, FullCorrect, PTL

\* No accepted event vanishes uncounted, across the unlocked exchange of the
\* drop counter (async_json_logger.cpp:207).
THEOREM Conserved == Spec => []Conservation
<1>1. FullInv => Conservation
  BY DEF FullInv, OrderInv
<1> QED
  BY <1>1, FullCorrect, PTL

\* Under DropOldest the last accepted event is always in the pipeline
\* (async_json_logger.cpp:171-183).
THEOREM NewestSurvives == Spec => []NewestKept
<1>1. FullInv => NewestKept
  BY DEF FullInv, OrderInv
<1> QED
  BY <1>1, FullCorrect, PTL

-----------------------------------------------------------------------------
(* The lines of the file *)

\* The file is the front of the pipeline.
LEMMA FileIsFront ==
  ASSUME TypeOK
  PROVE  /\ Len(written) \in Nat /\ Len(written) <= Len(Pipeline)
         /\ \A i \in 1..Len(written) : i \in 1..Len(Pipeline) /\ written[i] = Pipeline[i]
<1> DEFINE rest == batch \o queue
<1>1. written \in Seq(Nat) /\ rest \in Seq(Nat)
  BY ConcatProperties DEF TypeOK
<1>2. Pipeline = written \o rest
  BY ConcatAssociative DEF TypeOK, Pipeline
<1> HIDE DEF rest
<1>3. /\ Len(written) \in Nat /\ Len(rest) \in Nat
      /\ Len(Pipeline) = Len(written) + Len(rest)
  BY <1>1, <1>2, ConcatProperties, LenProperties
<1>4. \A i \in 1..Len(written) : written[i] = Pipeline[i]
  BY <1>1, <1>2, <1>3, SMT
<1> QED
  BY <1>3, <1>4

\* Every line of the file is an accepted call.
LEMMA LinesAreCalls ==
  ASSUME FullInv
  PROVE  \A i \in 1..Len(written) : written[i] \in 1..logged
<1>1. Pipeline \in Seq(Nat) /\ logged \in Nat /\ Numbered(Pipeline, logged)
  BY PipelineType DEF FullInv, ControlInv, TypeOK, OrderInv
<1>2. \A i \in 1..Len(Pipeline) : Pipeline[i] \in Nat /\ 1 <= Pipeline[i] /\ Pipeline[i] <= logged
  BY <1>1, ElementOfSeq DEF Numbered
<1>3. \A i \in 1..Len(written) : i \in 1..Len(Pipeline) /\ written[i] = Pipeline[i]
  BY FileIsFront DEF FullInv, ControlInv
<1> QED
  BY <1>1, <1>2, <1>3

\* Between two lines of the file is everything that was logged between them,
\* or something was dropped, and the drop has been counted.
LEMMA GapsAreDrops ==
  ASSUME FullInv, NEW i \in 1..Len(written), NEW j \in 1..Len(written), i < j
  PROVE  \/ \A k \in i..j : written[k] = written[i] + (k - i)
         \/ written[j] - written[i] > j - i /\ reported + droppedCount > 0
<1>1. /\ Pipeline \in Seq(Nat) /\ logged \in Nat /\ Numbered(Pipeline, logged)
      /\ reported \in Nat /\ droppedCount \in Nat
      /\ logged = Len(Pipeline) + reported + droppedCount
  BY PipelineType DEF FullInv, ControlInv, TypeOK, OrderInv, Conservation
<1>2. /\ Len(written) \in Nat
      /\ \A k \in 1..Len(written) : k \in 1..Len(Pipeline) /\ written[k] = Pipeline[k]
  BY FileIsFront DEF FullInv, ControlInv
<1> DEFINE a == Pipeline[i]
           b == Pipeline[j]
<1>3. a \in Nat /\ b \in Nat /\ i \in Nat /\ j \in Nat /\ Len(Pipeline) \in Nat
  BY <1>1, <1>2, ElementOfSeq, LenProperties
<1>4. b - a >= j - i
  BY <1>1, <1>2 DEF Numbered
<1>5. CASE b - a = j - i
  <2>1. \A k \in i..j : Pipeline[k] = a + (k - i)
    BY <1>1, <1>2, <1>5, NoGap
  <2>2. \A k \in i..j : k \in 1..Len(written)
    BY <1>2, <1>3
  <2> QED
    BY <1>2, <2>1, <2>2
<1>6. CASE b - a # j - i
  <2>1. b - a > j - i
    <3> HIDE DEF a, b
    <3> QED
      BY <1>3, <1>4, <1>6
  <2>2. reported + droppedCount # 0
    <3> SUFFICES ASSUME reported + droppedCount = 0 PROVE FALSE
      OBVIOUS
    <3>1. Len(Pipeline) = logged
      BY <1>1, <1>3
    <3>2. a = i /\ b = j
      BY <1>1, <1>2, <3>1, NothingMissing
    <3> QED
      BY <1>6, <3>2
  <2>3. reported + droppedCount > 0
    BY <1>1, <2>2
  <2> QED
    BY <1>2, <2>1, <2>3
<1> QED
  BY <1>5, <1>6

-----------------------------------------------------------------------------
(* The logger implements the lossy log *)

LEMMA InitRefines == Init => Lossy!Init
  BY ConcatEmptySeq DEF Init, Lossy!Init, Pipeline

LEMMA LogRefines == ControlInv /\ Log => Lossy!Next
<1> SUFFICES ASSUME ControlInv, Log PROVE Lossy!Next
  OBVIOUS
<1>1. /\ Lossy!Call
      /\ UNCHANGED <<written, batch, reported>> /\ Len(written)' = Len(written)
  BY DEF Log, Lossy!Call, fileVars
<1>2. Len(Pipeline) - Len(written) >= QueueSize \/ ~QueueFull
  <2>1. Len(Pipeline) = Len(written) + Len(batch) + Len(queue)
    BY DEF Pipeline, ControlInv, TypeOK
  <2>2. Len(written) \in Nat /\ Len(batch) \in Nat /\ Len(queue) \in Nat
    BY LenProperties DEF ControlInv, TypeOK
  <2> QED
    BY <2>1, <2>2, LoggerAssumption DEF QueueFull, LoggerAssumption
<1>3. CASE Push
  <2>1. Lossy!Accept
    BY <1>1, <1>3, PushStep DEF ControlInv, Push, PipelineGrows, Lossy!Accept
  <2> QED
    BY <2>1 DEF Lossy!Next
<1>4. CASE PushOverOldest
  <2>1. Lossy!Evict
    BY <1>1, <1>2, <1>4, PushOverStep
    DEF PushOverOldest, PipelineShifts, Lossy!Evict, Lossy!Backlog
  <2> QED
    BY <2>1 DEF Lossy!Next
<1>5. CASE DropNew
  <2>1. Pipeline' = Pipeline
    BY <1>1, <1>5 DEF DropNew, Pipeline
  <2>2. Lossy!Reject
    BY <1>1, <1>2, <1>5, <2>1 DEF DropNew, Lossy!Reject, Lossy!Backlog
  <2> QED
    BY <2>2 DEF Lossy!Next
<1> QED
  BY <1>3, <1>4, <1>5 DEF Log

LEMMA WriteRefines == ControlInv /\ WriteEvent => Lossy!Next
<1> SUFFICES ASSUME ControlInv, WriteEvent PROVE Lossy!Next
  OBVIOUS
<1>1. Pipeline' = Pipeline
  BY WriteStep DEF ControlInv
<1>2. Len(written)' = Len(written) + 1
  BY HeadTailProperties, AppendProperties DEF WriteEvent, ControlInv, TypeOK
<1>3. Len(written) < Len(Pipeline)
  <2>1. Len(Pipeline) = Len(written) + Len(batch) + Len(queue)
    BY DEF Pipeline, ControlInv, TypeOK
  <2>2. Len(written) \in Nat /\ Len(batch) \in Nat /\ Len(queue) \in Nat
    BY LenProperties DEF ControlInv, TypeOK
  <2>3. Len(batch) # 0
    BY EmptySeq DEF WriteEvent, ControlInv, TypeOK
  <2> QED
    BY <2>1, <2>2, <2>3
<1>4. Lossy!Deliver
  BY <1>1, <1>2, <1>3 DEF WriteEvent, ownerVars, Lossy!Deliver
<1> QED
  BY <1>4 DEF Lossy!Next

LEMMA SummariseRefines == ControlInv /\ Summarise => [Lossy!Next]_Lossy!vars
<1> SUFFICES ASSUME ControlInv, Summarise PROVE [Lossy!Next]_Lossy!vars
  OBVIOUS
<1>1. Pipeline' = Pipeline /\ logged' = logged /\ Len(written)' = Len(written)
  BY DEF Summarise, ownerVars, Pipeline
<1>2. CASE droppedCount > 0
  <2>1. Lossy!Report
    BY <1>1, <1>2 DEF Summarise, Lossy!Report
  <2> QED
    BY <2>1 DEF Lossy!Next
<1>3. CASE droppedCount = 0
  BY <1>1, <1>3 DEF Summarise, Lossy!vars, ControlInv, TypeOK
<1> QED
  BY <1>2, <1>3 DEF ControlInv, TypeOK

LEMMA StepRefines == ControlInv /\ [Next]_vars => [Lossy!Next]_Lossy!vars
<1> SUFFICES ASSUME ControlInv, [Next]_vars PROVE [Lossy!Next]_Lossy!vars
  OBVIOUS
<1>1. CASE Log
  BY <1>1, LogRefines
<1>2. CASE WriteEvent
  BY <1>2, WriteRefines
<1>3. CASE Summarise
  BY <1>3, SummariseRefines
<1>4. CASE StoreStop \/ Destroy \/ CheckStop \/ FindNothing \/ Park \/ Break
             \/ TakeBatch \/ Flush \/ TakeRemaining \/ Finish
             \/ WakeSpuriously \/ Terminated \/ UNCHANGED vars
  <2>1. Pipeline' = Pipeline /\ logged' = logged
    BY <1>4, QuietStep DEF Work
  <2>2. UNCHANGED <<written, droppedCount, reported>>
    BY <1>4 DEF StoreStop, Destroy, NotifyAll, Join, CheckStop, FindNothing, Park,
       Break, TakeBatch, Flush, TakeRemaining, Finish, WakeSpuriously, Terminated,
       vars, fileVars, ownerVars
  <2> QED
    BY <2>1, <2>2 DEF Lossy!vars
<1> QED
  BY <1>1, <1>2, <1>3, <1>4 DEF Next, Work

\* AsyncJsonLogger (async_json_logger.cpp:121-236) is a lossy log: whatever the
\* two threads do, a log() call appends, evicts the QueueSize-th youngest
\* event or rejects the new one, and everything else delivers or reports.
THEOREM Refinement == Spec => Lossy!SafetySpec
<1>1. Init => Lossy!Init
  BY InitRefines
<1>2. ControlInv /\ [Next]_vars => [Lossy!Next]_Lossy!vars
  BY StepRefines
<1> QED
  BY <1>1, <1>2, ControlCorrect, PTL DEF Spec, Lossy!SafetySpec
=============================================================================
