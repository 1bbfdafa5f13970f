--------------------------- MODULE AutotraderProofs ---------------------------
(***************************************************************************)
(* Proofs about Startup and about Autotrader, for every set of             *)
(* configuration files, every logger and every feed.  The program uses its *)
(* logger as AsyncJsonLogger is specified, it starts, logs and ends as     *)
(* Startup has it, and its feed is MarketFeed: what AsyncJsonLoggerProofs  *)
(* and MarketFeedProofs prove holds in the program as well.  To that comes *)
(* what relates the log file to the raw message file.                      *)
(***************************************************************************)
EXTENDS Autotrader, SequenceTheorems, TLAPS

LP == INSTANCE AsyncJsonLoggerProofs

LEMMA LoggerAssumed == LP!LoggerAssumption
  BY StartupAssumption DEF StartupAssumption, LP!LoggerAssumption

-----------------------------------------------------------------------------
(* The program's use of the logger *)

\* Logger and LP are the same module twice.
LEMMA SameLogger ==
  /\ Logger!Init => LP!Init
  /\ Logger!Log => LP!Log
  /\ Logger!StoreStop => LP!StoreStop
  /\ Logger!NotifyAll => LP!NotifyAll
  /\ Logger!Join => LP!Join
  /\ Logger!WakeSpuriously => LP!WakeSpuriously
<1>1. Logger!Init => LP!Init
  BY DEF Logger!Init, LP!Init
<1>2. Logger!Log => LP!Log
  BY DEF Logger!Log, Logger!MutexFree, Logger!Push, Logger!PushOverOldest,
         Logger!DropNew, Logger!QueueFull, Logger!Notified, Logger!fileVars,
         LP!Log, LP!MutexFree, LP!Push, LP!PushOverOldest,
         LP!DropNew, LP!QueueFull, LP!Notified, LP!fileVars
<1>3. Logger!StoreStop => LP!StoreStop
  BY DEF Logger!StoreStop, Logger!fileVars, LP!StoreStop, LP!fileVars
<1>4. Logger!NotifyAll => LP!NotifyAll
  BY DEF Logger!NotifyAll, Logger!Notified, Logger!fileVars,
         LP!NotifyAll, LP!Notified, LP!fileVars
<1>5. Logger!Join => LP!Join
  BY DEF Logger!Join, LP!Join
<1>6. Logger!WakeSpuriously => LP!WakeSpuriously
  BY DEF Logger!WakeSpuriously, Logger!ownerVars, Logger!fileVars,
         LP!WakeSpuriously, LP!ownerVars, LP!fileVars
<1> QED
  BY <1>1, <1>2, <1>3, <1>4, <1>5, <1>6

LEMMA SameWorker == Logger!Work => LP!Work
<1> USE DEF Logger!ownerVars, Logger!fileVars, LP!ownerVars, LP!fileVars
<1>1. Logger!CheckStop => LP!CheckStop
  BY DEF Logger!CheckStop, LP!CheckStop
<1>2. Logger!FindNothing => LP!FindNothing
  BY DEF Logger!FindNothing, LP!FindNothing
<1>3. Logger!Park => LP!Park
  BY DEF Logger!Park, LP!Park
<1>4. Logger!Break => LP!Break
  BY DEF Logger!Break, LP!Break
<1>5. Logger!TakeBatch => LP!TakeBatch
  BY DEF Logger!TakeBatch, LP!TakeBatch
<1>6. Logger!WriteEvent => LP!WriteEvent
  BY DEF Logger!WriteEvent, LP!WriteEvent
<1>7. Logger!Summarise => LP!Summarise
  BY DEF Logger!Summarise, LP!Summarise
<1>8. Logger!Flush => LP!Flush
  BY DEF Logger!Flush, LP!Flush
<1>9. Logger!TakeRemaining => LP!TakeRemaining
  BY DEF Logger!TakeRemaining, LP!TakeRemaining
<1>10. Logger!Finish => LP!Finish
  BY DEF Logger!Finish, LP!Finish
<1> QED
  BY <1>1, <1>2, <1>3, <1>4, <1>5, <1>6, <1>7, <1>8, <1>9, <1>10
  DEF Logger!Work, LP!Work

\* What a step of the program may do to the logger.
LoggerStep ==
  \/ LP!Log \/ LP!StoreStop \/ LP!Destroy \/ LP!Work \/ LP!WakeSpuriously
  \/ UNCHANGED loggerVars

LEMMA StepsOfLogger == [Next]_vars => LoggerStep
<1> SUFFICES ASSUME [Next]_vars PROVE LoggerStep
  OBVIOUS
<1>1. CASE LoadFile \/ MakeLogger \/ FeedReturns \/ Exited \/ Saturated
             \/ UNCHANGED vars
  BY <1>1 DEF LoadFile, MakeLogger, FeedReturns, Exited, Saturated, vars, LoggerStep
<1>2. CASE LoadAuth \/ MakeSubscription \/ BuildHeaders \/ LogConfig \/ Run
             \/ FeedLogs \/ RunFails
  <2>1. Logger!Log \/ UNCHANGED loggerVars
    BY <1>2 DEF LoadAuth, MakeSubscription, BuildHeaders, LogConfig, Run, FeedLogs,
                RunFails, FailLogged, LogAt
  <2> QED
    BY <2>1, SameLogger DEF LoggerStep
<1>3. CASE Unwind
  BY <1>3, SameLogger DEF Unwind, Logger!Destroy, LP!Destroy, LoggerStep
<1>4. CASE LoggerThread
  BY <1>4, SameLogger, SameWorker DEF LoggerThread, LoggerStep
<1> QED
  BY <1>1, <1>2, <1>3, <1>4 DEF Next

\* main and the feed use the logger as AsyncJsonLogger allows: nobody logs
\* once it is being destroyed, and it is destroyed once (main.cpp:9-40,
\* app_context.cpp:10-60).
THEOREM LoggerIsUsedWell == Spec => LP!Spec
<1>1. Init => LP!Init
  BY SameLogger DEF Init
<1>2. [Next]_vars => [LP!Next]_LP!vars
  BY StepsOfLogger DEF LoggerStep, LP!Next, LP!vars, loggerVars
<1> QED
  BY <1>1, <1>2, PTL DEF Spec, LP!Spec

LEMMA LoggerInvariant == Spec => []LP!FullInv
  BY LoggerIsUsedWell, LoggerAssumed, LP!FullCorrect, PTL

\* Between its construction and its destruction the logger's thread may step.
LEMMA LoggerTyped == LP!FullInv => Logger!TypeOK
  BY DEF LP!FullInv, LP!ControlInv, LP!TypeOK, LP!WorkerPC, LP!OwnerPC,
         Logger!TypeOK, Logger!WorkerPC, Logger!OwnerPC

-----------------------------------------------------------------------------
(* Levels *)

LEMMA ErrorIsHighest == (CHOOSE i \in DOMAIN LogLevels : LogLevels[i] = "error") = 5
<1>1. 5 \in DOMAIN LogLevels /\ LogLevels[5] = "error"
  BY DEF LogLevels
<1>2. \A i \in DOMAIN LogLevels : LogLevels[i] = "error" => i = 5
  <2>1. \A i \in {1, 2, 3, 4} : LogLevels[i] # "error"
    BY DEF LogLevels
  <2>2. DOMAIN LogLevels = {1, 2, 3, 4, 5}
    BY DEF LogLevels
  <2> QED
    BY <2>1, <2>2
<1> QED
  BY <1>1, <1>2

\* No level a logger can be made with hides an error (log_level.cpp:24-47).
LEMMA ErrorsAreLogged ==
  ASSUME BuildLoggerOptions(loaded.value).error = None
  PROVE  ShouldLog("error")
<1> DEFINE level == loaded.value.logging.level
<1>1. \E i \in DOMAIN LogLevels : LogLevels[i] = level
  BY DEF BuildLoggerOptions, Failed, None
<1>2. BuildLoggerOptions(loaded.value).value.level
        = CHOOSE i \in DOMAIN LogLevels : LogLevels[i] = level
  BY DEF BuildLoggerOptions, Failed, Parsed, None
<1>3. (CHOOSE i \in DOMAIN LogLevels : LogLevels[i] = level) \in 1..5
  <2>1. DOMAIN LogLevels = 1..5
    BY DEF LogLevels
  <2> QED
    BY <1>1, <2>1
<1>4. \A n \in 1..5 : 5 >= n
  OBVIOUS
<1>5. 5 >= BuildLoggerOptions(loaded.value).value.level
  BY <1>2, <1>3, <1>4
<1> QED
  BY <1>5, ErrorIsHighest, Zenon DEF ShouldLog

-----------------------------------------------------------------------------
(* Where main is *)

LEMMA LoadErrors ==
  ASSUME NEW f
  PROVE  LoadConfig(f).error \in {None, "FileOpenFailed", "ParseFailed"}
  BY DEF LoadConfig, Failed, Parsed

\* What main has got when it is at each of its stages.
StageInv ==
  /\ file \in Files /\ env \in Environments /\ app \in Stages /\ exitCode \in {0, 1}
  /\ loaded \in {NotLoaded, LoadConfig(file)}
  /\ app = "config" => loaded = NotLoaded
  /\ app \notin {"config", "exited"} => loaded.error = None
  /\ app \notin {"config", "logger", "exited"} =>
       BuildLoggerOptions(loaded.value).error = None

\* Who has the logger, and which event is the last one.
FatalInv ==
  /\ fatal \in 0..MaxEvents
  /\ app \notin {"unwinding", "exited"} => owner = "alive" /\ fatal = 0
  /\ app = "unwinding" => owner # "destroyed"
  /\ app = "exited" => owner = "destroyed" \/ (owner = "alive" /\ fatal = 0)
  /\ fatal > 0 => fatal = logged
  /\ fatal = 1 => LP!Pipeline = <<1>>

MainInv == StageInv /\ FatalInv

LEMMA InitMain == Init => MainInv
<1> SUFFICES ASSUME Init PROVE MainInv
  OBVIOUS
<1>1. StageInv
  BY DEF Init, ConfigInit, StageInv, Stages
<1>2. FatalInv
  BY StartupAssumption DEF Init, Logger!Init, FatalInv, StartupAssumption
<1> QED
  BY <1>1, <1>2 DEF MainInv

LEMMA StageStep == StageInv /\ [Next]_vars => StageInv'
<1> SUFFICES ASSUME StageInv, [Next]_vars PROVE StageInv'
  OBVIOUS
<1> USE DEF StageInv, Stages
<1>1. CASE LoadFile
  <2>1. loaded' = LoadConfig(file) /\ file' = file /\ env' = env
    BY <1>1 DEF LoadFile, Load
  <2> QED
    BY <1>1, <2>1 DEF LoadFile, To
<1>2. CASE MakeLogger
  BY <1>2 DEF MakeLogger, To, configVars
<1>3. CASE LoadAuth \/ MakeSubscription \/ BuildHeaders \/ RunFails
  <2>1. /\ UNCHANGED <<configVars, env>> /\ exitCode' \in {0, 1}
        /\ app' \in {"subscription", "headers", "log_url", "unwinding"}
        /\ app \notin {"config", "logger", "exited"}
    BY <1>3 DEF LoadAuth, MakeSubscription, BuildHeaders, RunFails, FailLogged, To
  <2> QED
    BY <2>1 DEF configVars
<1>4. CASE LogConfig \/ Run \/ FeedReturns
  <2>1. /\ UNCHANGED <<configVars, env, exitCode>>
        /\ app' \in {"log_subscription", "run", "running", "run_failed", "unwinding"}
        /\ app \notin {"config", "logger", "exited"}
    BY <1>4 DEF LogConfig, Run, FeedReturns, To
  <2> QED
    BY <2>1 DEF configVars
<1>5. CASE Unwind
  BY <1>5 DEF Unwind, To, configVars, appVars
<1>6. CASE FeedLogs \/ LoggerThread \/ Exited \/ Saturated \/ UNCHANGED vars
  BY <1>6 DEF FeedLogs, LoggerThread, Exited, Saturated, vars, configVars, appVars
<1> QED
  BY <1>1, <1>2, <1>3, <1>4, <1>5, <1>6 DEF Next

\* log() accepts the event that says why the program ends: it is the last one,
\* and if it is also the first it is all there is.
LEMMA FailLogged1 ==
  ASSUME LP!FullInv, LP!FullInv', FatalInv, FailLogged,
         BuildLoggerOptions(loaded.value).error = None,
         app \notin {"unwinding", "exited"}
  PROVE  FatalInv'
<1>1. Logger!Log /\ LP!Log
  BY ErrorsAreLogged, SameLogger DEF FailLogged, LogAt
<1>2. /\ logged \in Nat /\ logged < MaxEvents /\ logged' = logged + 1
      /\ owner' = owner /\ app' = "unwinding" /\ fatal' = logged + 1
  BY <1>1 DEF FailLogged, LP!Log, LP!FullInv, LP!ControlInv, LP!TypeOK
<1>3. ASSUME fatal' = 1 PROVE LP!Pipeline' = <<1>>
  <2>1. logged = 0
    BY <1>2, <1>3
  <2>2. LP!Pipeline \in Seq(Nat)
    BY LP!PipelineType, LoggerAssumed DEF LP!FullInv, LP!ControlInv
  <2>3. Len(LP!Pipeline) = 0
    BY <2>1, <2>2, LenProperties
    DEF LP!FullInv, LP!OrderInv, LP!Conservation, LP!ControlInv, LP!TypeOK
  <2>4. LP!Pipeline = <<>>
    BY <2>2, <2>3, EmptySeq
  <2>5. Len(queue) = 0
    <3>1. Len(LP!Pipeline) = Len(written) + Len(batch) + Len(queue)
      BY DEF LP!Pipeline, LP!FullInv, LP!ControlInv, LP!TypeOK
    <3>2. Len(written) \in Nat /\ Len(batch) \in Nat /\ Len(queue) \in Nat
      BY LenProperties DEF LP!FullInv, LP!ControlInv, LP!TypeOK
    <3>3. \A a, b, c \in Nat : a + b + c = 0 => c = 0
      OBVIOUS
    <3> QED
      BY <2>3, <3>1, <3>2, <3>3
  <2>6. LP!Push
    <3>1. ~LP!QueueFull
      BY <2>5, StartupAssumption DEF StartupAssumption, LP!QueueFull
    <3> QED
      BY <1>1, <3>1 DEF LP!Log, LP!PushOverOldest, LP!DropNew
  <2>7. LP!Pipeline' = Append(LP!Pipeline, logged + 1)
    BY <1>1, <2>6, LP!PushStep, LoggerAssumed
    DEF LP!FullInv, LP!ControlInv, LP!Log, LP!fileVars, LP!PipelineGrows
  <2> QED
    BY <2>1, <2>4, <2>7
<1> QED
  BY <1>2, <1>3, StartupAssumption DEF FatalInv, StartupAssumption

LEMMA FatalStep ==
  ASSUME LP!FullInv, LP!FullInv', StageInv, FatalInv, [Next]_vars
  PROVE  FatalInv'
<1> USE DEF FatalInv
<1>1. CASE LoadFile \/ MakeLogger
  <2>1. UNCHANGED loggerVars /\ UNCHANGED fatal /\ app \in {"config", "logger"}
    BY <1>1 DEF LoadFile, MakeLogger, To
  <2>2. app' \in {"logger", "auth", "exited"} /\ LP!Pipeline' = LP!Pipeline
    BY <1>1, <2>1 DEF LoadFile, MakeLogger, To, loggerVars, LP!Pipeline
  <2> QED
    BY <2>1, <2>2 DEF loggerVars
<1>2. CASE FailLogged /\ app \in {"auth", "subscription", "headers", "run_failed"}
  BY <1>2, FailLogged1 DEF StageInv
<1>3. CASE /\ app \in {"auth", "subscription", "headers", "log_url", "log_subscription",
                       "run", "running"}
           /\ app' \in Stages \ {"exited"} /\ UNCHANGED fatal
           /\ Logger!Log \/ UNCHANGED loggerVars
  <2>1. owner' = owner
    BY <1>3 DEF Logger!Log, loggerVars
  <2> QED
    BY <1>3, <2>1
<1>4. CASE Unwind
  <2>1. UNCHANGED fatal /\ app = "unwinding"
    BY <1>4 DEF Unwind, To, appVars
  <2>2. /\ owner' \in {"stopping", "joining", "destroyed"}
        /\ app' = IF owner' = "destroyed" THEN "exited" ELSE "unwinding"
    BY <1>4 DEF Unwind, To, appVars, Logger!StoreStop, Logger!Destroy,
                Logger!NotifyAll, Logger!Join
  <2>3. LP!StoreStop \/ LP!Destroy
    BY <1>4, SameLogger DEF Unwind, Logger!Destroy, LP!Destroy
  <2>4. LP!Pipeline' = LP!Pipeline /\ logged' = logged
    BY <2>3, LP!QuietStep, LoggerAssumed DEF LP!FullInv
  <2>5. CASE owner' = "destroyed"
    BY <2>1, <2>2, <2>4, <2>5
  <2>6. CASE owner' # "destroyed"
    BY <2>1, <2>2, <2>4, <2>6
  <2> QED
    BY <2>5, <2>6
<1>5. CASE LoggerThread
  <2>1. LP!Work \/ LP!WakeSpuriously
    BY <1>5, SameLogger, SameWorker DEF LoggerThread
  <2>2. LP!Pipeline' = LP!Pipeline /\ logged' = logged
    BY <2>1, LP!QuietStep, LoggerAssumed DEF LP!FullInv
  <2>3. owner' = owner
    BY <2>1 DEF LP!Work, LP!CheckStop, LP!FindNothing, LP!Park, LP!Break,
       LP!TakeBatch, LP!WriteEvent, LP!Summarise, LP!Flush, LP!TakeRemaining,
       LP!Finish, LP!WakeSpuriously, LP!ownerVars
  <2> QED
    BY <1>5, <2>2, <2>3 DEF LoggerThread, appVars
<1>6. CASE Exited \/ Saturated \/ UNCHANGED vars
  BY <1>6 DEF Exited, Saturated, vars, appVars, loggerVars, LP!Pipeline
<1>7. CASE LoadAuth \/ MakeSubscription \/ BuildHeaders \/ RunFails
  BY <1>2, <1>3, <1>7 DEF LoadAuth, MakeSubscription, BuildHeaders, RunFails, To, Stages
<1>8. CASE LogConfig \/ Run
  BY <1>3, <1>8 DEF LogConfig, Run, LogAt, To, Stages
<1>9. CASE FeedLogs
  BY <1>3, <1>9 DEF FeedLogs, appVars, Stages
<1>10. CASE FeedReturns
  <2>1. /\ app = "running" /\ app' = "unwinding"
        /\ UNCHANGED fatal /\ UNCHANGED loggerVars
    BY <1>10 DEF FeedReturns, To
  <2> QED
    BY <2>1 DEF loggerVars
<1> QED
  BY <1>1, <1>4, <1>5, <1>6, <1>7, <1>8, <1>9, <1>10 DEF Next

LEMMA MainCorrect == Spec => []MainInv
<1>1. Init => MainInv
  BY InitMain
<1>2. MainInv /\ LP!FullInv /\ LP!FullInv' /\ [Next]_vars => MainInv'
  BY StageStep, FatalStep DEF MainInv
<1> QED
  BY <1>1, <1>2, LoggerInvariant, PTL DEF Spec

-----------------------------------------------------------------------------
(* What the invariants give *)

\* Every variable of main and of its logger keeps its type; an exit code is 0
\* or 1 (main.cpp:9-40).
THEOREM TypeCorrect == Spec => []TypeOK
<1>1. MainInv /\ LP!FullInv => TypeOK
  <2> SUFFICES ASSUME MainInv, LP!FullInv PROVE TypeOK
    OBVIOUS
  <2>1. loaded.error \in {None, "not loaded", "FileOpenFailed", "ParseFailed"}
    <3>1. loaded = NotLoaded \/ loaded = LoadConfig(file)
      BY DEF MainInv, StageInv
    <3>2. NotLoaded.error = "not loaded"
      BY DEF NotLoaded, Failed
    <3> QED
      BY <3>1, <3>2, LoadErrors
  <2> QED
    BY <2>1, LoggerTyped DEF MainInv, StageInv, FatalInv, TypeOK
<1> QED
  BY <1>1, MainCorrect, LoggerInvariant, PTL

\* main returns only when the destructor of the logger has joined its thread
\* and flushed the file, whichever stage it returns from
\* (app_context.cpp:10-60, async_json_logger.cpp:139-151).
THEOREM LoggerEndsFirst == Spec => []NothingOutlivesMain
<1>1. MainInv /\ LP!FullInv => NothingOutlivesMain
  BY DEF MainInv, FatalInv, LP!FullInv, LP!ControlInv, LP!ThreadInv, NothingOutlivesMain
<1> QED
  BY <1>1, MainCorrect, LoggerInvariant, PTL

\* A program that fails leaves the reason in its log file: no level hides it
\* (log_level.cpp:24-47), drop_oldest does not drop it
\* (async_json_logger.cpp:171-183), and the destructor writes and flushes it.
THEOREM FailureIsLogged == Spec => []FailureIsOnDisk
<1>1. MainInv /\ LP!FullInv => FailureIsOnDisk
  <2> SUFFICES ASSUME MainInv, LP!FullInv, app = "exited", fatal > 0,
                      DropPolicy = "DropOldest" \/ fatal = 1
               PROVE  \E i \in 1..durable : written[i] = fatal
    BY DEF FailureIsOnDisk
  <2>1. fatal \in Nat /\ fatal = logged /\ owner = "destroyed"
    BY StartupAssumption DEF MainInv, FatalInv, StartupAssumption
  <2>2. queue = <<>> /\ batch = <<>> /\ durable = Len(written) /\ written \in Seq(Nat)
    BY <2>1 DEF LP!FullInv, LP!ControlInv, LP!ThreadInv, LP!TypeOK
  <2>3. LP!Pipeline = written
    BY <2>2, ConcatEmptySeq DEF LP!Pipeline
  <2>4. CASE DropPolicy = "DropOldest"
    <3>1. written # <<>> /\ written[Len(written)] = fatal
      BY <2>1, <2>3, <2>4 DEF LP!FullInv, LP!OrderInv, LP!NewestKept
    <3>2. Len(written) \in 1..durable
      BY <2>2, <3>1, LenProperties, EmptySeq
    <3> QED
      BY <3>1, <3>2
  <2>5. CASE fatal = 1
    <3>1. written = <<1>>
      BY <2>3, <2>5 DEF MainInv, FatalInv
    <3> QED
      BY <2>2, <2>5, <3>1
  <2> QED
    BY <2>4, <2>5
<1> QED
  BY <1>1, MainCorrect, LoggerInvariant, PTL

-----------------------------------------------------------------------------
(* The feed of the program *)


MP == INSTANCE MarketFeedProofs WITH MaxMessages <- 0, reconnects <- Reconnects

LEMMA FeedAssumed == MP!ParserAssumption /\ MP!MarketFeedAssumption
  BY AutotraderAssumption
     DEF MP!ParserAssumption, MP!MarketFeedAssumption,
         Market!ParserAssumption, Market!MarketFeedAssumption

-----------------------------------------------------------------------------
(* Market and MP are the same module twice. *)

LEMMA SameInit == Market!Init <=> MP!Init
  BY DEF Market!Init, MP!Init

LEMMA SameOpen == Market!OnOpen <=> MP!OnOpen
  BY DEF Market!OnOpen, Market!Open, Market!LogLine, Market!Entry, Market!troubles,
         MP!OnOpen, MP!Open, MP!LogLine, MP!Entry, MP!troubles

LEMMA SameChecks ==
  /\ \A v, kind : Market!FieldError(v, kind) = MP!FieldError(v, kind)
  /\ \A v, low, high : Market!OutOfRange(v, low, high) = MP!OutOfRange(v, low, high)
  /\ \A v : Market!SideError(v) = MP!SideError(v)
  /\ \A m : Market!MsgError(m) = MP!MsgError(m)
  /\ \A msg, key : Market!Field(msg, key) = MP!Field(msg, key)
  BY Zenon
     DEF Market!FieldError, Market!OutOfRange, Market!SideError,
         Market!MsgError, Market!None, Market!Kind, Market!Val, Market!Field,
         Market!Absent, MP!FieldError, MP!OutOfRange, MP!SideError, MP!MsgError,
         MP!None, MP!Kind, MP!Val, MP!Field, MP!Absent

LEMMA SameLevels ==
  /\ \A v : Market!Levels(v) = MP!Levels(v)
  /\ \A v : Market!LevelsError(v) = MP!LevelsError(v)
  BY SameChecks, Zenon
     DEF Market!Levels, Market!LevelsError, Market!BadLevel, Market!ToPrice,
         Market!ToSize, Market!None, Market!Kind, Market!Val, MP!Levels,
         MP!LevelsError, MP!BadLevel, MP!ToPrice, MP!ToSize, MP!None, MP!Kind,
         MP!Val

LEMMA SameFirst ==
  /\ \A checks : Market!FirstError(checks) = MP!FirstError(checks)
  /\ \A e, f : Market!FirstOf(e, f) = MP!FirstOf(e, f)
  BY Zenon
     DEF Market!FirstError, Market!FirstOf, Market!None, Market!Min,
         MP!FirstError, MP!FirstOf, MP!None, MP!Min

LEMMA SameParsers ==
  \A m, ts : /\ Market!ParseSnapshot(m) = MP!ParseSnapshot(m)
             /\ Market!ParseDelta(m) = MP!ParseDelta(m)
             /\ Market!ParseTrade(m, ts) = MP!ParseTrade(m, ts)
<1> TAKE m, ts
<1>1. Market!SequenceError(m) = MP!SequenceError(m)
  BY SameChecks, Zenon
     DEF Market!SequenceError, Market!Kind, Market!Val, MP!SequenceError,
         MP!Kind, MP!Val
<1>2. \A msg : /\ Market!SnapshotChecks(msg) = MP!SnapshotChecks(msg)
              /\ Market!DeltaChecks(msg) = MP!DeltaChecks(msg)
              /\ Market!TradeChecks(msg) = MP!TradeChecks(msg)
  BY SameChecks, SameLevels, Zenon
     DEF Market!SnapshotChecks, Market!DeltaChecks, Market!TradeChecks,
         MP!SnapshotChecks, MP!DeltaChecks, MP!TradeChecks
<1>3. Market!ParseSnapshot(m) = MP!ParseSnapshot(m)
  BY <1>1, <1>2, SameChecks, SameLevels, SameFirst
     DEF Market!ParseSnapshot, Market!Failure, Market!Success, Market!None,
         Market!Val, MP!ParseSnapshot, MP!Failure, MP!Success, MP!None, MP!Val
<1>4. Market!ParseDelta(m) = MP!ParseDelta(m)
  BY <1>1, <1>2, SameChecks, SameFirst
     DEF Market!ParseDelta, Market!ToPrice, Market!ToDelta, Market!Failure,
         Market!Success, Market!None, Market!Val, MP!ParseDelta, MP!ToPrice,
         MP!ToDelta, MP!Failure, MP!Success, MP!None, MP!Val
<1>5. Market!ParseTrade(m, ts) = MP!ParseTrade(m, ts)
  BY <1>2, SameChecks, SameFirst
     DEF Market!ParseTrade, Market!ToPrice, Market!ToSize, Market!Failure,
         Market!Success, Market!None, Market!Val, MP!ParseTrade, MP!ToPrice,
         MP!ToSize, MP!Failure, MP!Success, MP!None, MP!Val
<1> QED  BY <1>3, <1>4, <1>5

LEMMA SameTimestamps ==
  \A m : /\ Market!Timestamps(m) = MP!Timestamps(m)
         /\ Market!TypeError(m) = MP!TypeError(m)
  BY Zenon
     DEF Market!Timestamps, Market!TypeError, Market!Kind, Market!Val,
         Market!Field, Market!Absent, Market!None, Market!OutOfRange,
         Market!Int64, MP!Timestamps, MP!TypeError, MP!Kind, MP!Val, MP!Field,
         MP!Absent, MP!None, MP!OutOfRange, MP!Int64

LEMMA SameResults ==
  \A m, ts : Market!DispatchResult(m, ts) = MP!DispatchResult(m, ts)
<1> TAKE m, ts
<1>1. /\ Market!Val(m.type) = MP!Val(m.type)
      /\ Market!None = MP!None /\ Market!Handlers = MP!Handlers
      /\ \A e : Market!Failure(e) = MP!Failure(e)
  BY DEF Market!Val, MP!Val, Market!None, MP!None, Market!Handlers, MP!Handlers,
         Market!Failure, MP!Failure
<1>2. Market!Parse(m, ts) = MP!Parse(m, ts)
  BY <1>1, SameParsers, Zenon DEF Market!Parse, MP!Parse
<1> QED  BY <1>1, <1>2, SameTimestamps, Zenon DEF Market!DispatchResult, MP!DispatchResult

LEMMA SameDispatch ==
  \A m, n, ts : Market!Dispatch(m, n, ts) = MP!Dispatch(m, n, ts)
<1> TAKE m, n, ts
<1>1. Market!DispatchResult(m, ts) = MP!DispatchResult(m, ts)
  BY SameResults
<1> QED
  BY <1>1, Zenon
     DEF Market!Dispatch, Market!Handlers, Market!SinkCall, Market!LogLine,
         Market!Entry, Market!None, Market!Val, MP!Dispatch, MP!Handlers,
         MP!SinkCall, MP!LogLine, MP!Entry, MP!None, MP!Val

LEMMA SameMessages == Market!OnMessage => MP!OnMessage
  BY SameTimestamps, SameDispatch, Zenon
     DEF Market!OnMessage, Market!Receive, Market!Emit, Market!Number,
         Market!NextNumber, Market!TakesNumber, Market!CountDown, Market!seen,
         Market!troubles, Market!Raw, Market!When, Market!LogLine, Market!Entry,
         Market!Int64, MP!OnMessage, MP!Receive, MP!Emit, MP!Number,
         MP!NextNumber, MP!TakesNumber, MP!CountDown, MP!seen, MP!troubles,
         MP!Raw, MP!When, MP!LogLine, MP!Entry, MP!Int64

LEMMA SameErrors == Market!OnError => MP!OnError
  BY Zenon
     DEF Market!OnError, Market!ReportError, Market!ErrorLines, Market!When,
         Market!LogLine, Market!Entry, MP!OnError, MP!ReportError,
         MP!ErrorLines, MP!When, MP!LogLine, MP!Entry

LEMMA SameTimers ==
  \A refreshed, usable : Market!OnTimer(refreshed, usable) => MP!OnTimer(refreshed, usable)
  BY Zenon
     DEF Market!OnTimer, Market!FireTimer, Market!ErrorLines, Market!When,
         Market!LogLine, Market!Entry, MP!OnTimer, MP!FireTimer, MP!ErrorLines,
         MP!When, MP!LogLine, MP!Entry

\* The file is the one the program was started with.
LEMMA FileIsFixed == [ProgramNext]_programVars => file' = file /\ Reconnects' = Reconnects
<1> SUFFICES ASSUME [ProgramNext]_programVars
             PROVE  file' = file /\ Reconnects' = Reconnects
  OBVIOUS
<1>1. file' = file
  <2>1. CASE Boot
    BY <2>1 DEF Boot, LoadFile, Load, MakeLogger, LoadAuth, MakeSubscription,
                BuildHeaders, LogConfig, Run, RunFails, configVars
  <2>2. CASE Callback
    BY <2>2 DEF Callback, vars, configVars
  <2>3. CASE Emit \/ Return \/ DestroyLogger \/ Write
    BY <2>3 DEF Emit, Return, DestroyLogger, Unwind, Write, LoggerThread, configVars
  <2>4. CASE UNCHANGED programVars
    BY <2>4 DEF programVars, vars, configVars
  <2> QED  BY <2>1, <2>2, <2>3, <2>4 DEF ProgramNext, Over
<1> QED  BY <1>1 DEF Reconnects

\* A step of the program is a step of its feed or leaves the feed alone.
LEMMA StepsOfFeed == [ProgramNext]_programVars => [MP!Next]_MP!vars
<1> SUFFICES ASSUME [ProgramNext]_programVars
             PROVE  MP!Next \/ UNCHANGED MP!vars
  BY DEF MP!vars
<1>1. Reconnects' = Reconnects
  BY FileIsFixed
<1>2. CASE Callback
  <2>1. RefreshHeaders \in BOOLEAN
    BY DEF RefreshHeaders
  <2> QED
    BY <1>2, <2>1, SameOpen, SameMessages, SameErrors, SameTimers
       DEF Callback, MP!Next
<1>3. CASE UNCHANGED marketVars
  BY <1>1, <1>3 DEF marketVars, MP!vars, MP!troubles
<1>4. CASE ~Callback
  BY <1>3, <1>4 DEF ProgramNext, Boot, Emit, Return, DestroyLogger, Write, Over, programVars
<1> QED  BY <1>2, <1>4

\* The feed of the program is MarketFeed, without a limit on messages and with
\* the auto_reconnect of the configuration.
THEOREM FeedIsMarketFeed == ProgramSpec => MP!Spec
<1>1. ProgramInit => MP!Init
  BY SameInit DEF ProgramInit
<1> QED  BY <1>1, StepsOfFeed, PTL DEF ProgramSpec, MP!Spec

-----------------------------------------------------------------------------
(* The program starts, logs and ends as Startup has it *)

\* The message limit never runs out, and only a feed without reconnect stops.
OpenInv == remaining = 0 /\ (open \/ ~Reconnects)

LEMMA OpenStep == OpenInv /\ [ProgramNext]_programVars => OpenInv'
<1> SUFFICES ASSUME OpenInv, [ProgramNext]_programVars PROVE OpenInv'
  OBVIOUS
<1> USE DEF OpenInv
<1>1. Reconnects' = Reconnects
  BY FileIsFixed
<1>2. [MP!Next]_MP!vars
  BY StepsOfFeed
<1>3. CASE MP!OnMessage
  <2>1. open' = (remaining # 1) /\ remaining' = MP!CountDown(remaining)
    BY <1>3 DEF MP!OnMessage, MP!Receive
  <2>2. remaining # 1 /\ remaining' = 0
    BY <2>1 DEF MP!CountDown
  <2>3. open'
    BY <2>1, <2>2, Zenon
  <2> QED
    BY <2>2, <2>3
<1>4. CASE MP!OnError
  BY <1>1, <1>4 DEF MP!OnError, MP!ReportError
<1>5. CASE MP!OnOpen \/ MP!OnControl
  BY <1>1, <1>5 DEF MP!OnOpen, MP!Open, MP!OnControl, MP!Control
<1>6. CASE \E refreshed, usable \in BOOLEAN : MP!OnTimer(refreshed, usable)
  BY <1>1, <1>6 DEF MP!OnTimer, MP!FireTimer
<1>7. CASE UNCHANGED MP!vars
  BY <1>1, <1>7 DEF MP!vars
<1> QED
  BY <1>2, <1>3, <1>4, <1>5, <1>6, <1>7 DEF MP!Next, MP!Terminated

LEMMA StepsOfStartup ==
  ASSUME StageInv, OpenInv, [ProgramNext]_programVars
  PROVE  [Next]_vars
<1>1. CASE Boot
  BY <1>1 DEF Boot, Next
<1>2. CASE Callback \/ Over \/ UNCHANGED programVars
  BY <1>2 DEF Callback, Over, programVars
<1>3. CASE Emit
  <2>1. CASE UNCHANGED loggerVars
    BY <1>3, <2>1 DEF Emit, vars
  <2>2. CASE Logger!Log
    BY <1>3, <2>2 DEF Emit, FeedLogs, Next
  <2> QED
    BY <1>3, <2>1, <2>2 DEF Emit
<1>4. CASE Return
  <2>1. app = "running" /\ ~open
    BY <1>4 DEF Return, Turn
  <2>2. loaded = LoadConfig(file) /\ loaded.error = None
    <3>1. loaded.error = None /\ loaded \in {NotLoaded, LoadConfig(file)}
      BY <2>1 DEF StageInv
    <3>2. NotLoaded.error # None
      BY DEF NotLoaded, Failed, None
    <3> QED
      BY <3>1, <3>2
  <2>3. ~loaded.value.ws.auto_reconnect
    BY <2>1, <2>2 DEF OpenInv, Reconnects
  <2> QED
    BY <1>4, <2>1, <2>3 DEF Return, FeedReturns, Next
<1>5. CASE DestroyLogger \/ Write
  BY <1>5 DEF DestroyLogger, Write, Next
<1> QED
  BY <1>1, <1>2, <1>3, <1>4, <1>5 DEF ProgramNext

\* The program with its feed implements Startup, whose feed is abstract: what
\* the callbacks log is a FeedLogs each, and the program leaves run() only
\* where the configuration has no auto_reconnect (feed_handler.hpp:69-91,
\* main.cpp:24-31).
THEOREM ProgramImplementsStartup == ProgramSpec => ImplementsStartup
<1>1. ProgramInit => Init /\ StageInv /\ OpenInv
  <2>1. ProgramInit => Init /\ StageInv
    BY InitMain DEF ProgramInit, MainInv
  <2>2. ProgramInit => OpenInv
    BY DEF ProgramInit, OpenInv, Market!Init
  <2> QED
    BY <2>1, <2>2
<1>2. StageInv /\ OpenInv /\ [ProgramNext]_programVars
        => [Next]_vars /\ StageInv' /\ OpenInv'
  BY StepsOfStartup, StageStep, OpenStep
<1> QED
  BY <1>1, <1>2, PTL DEF ProgramSpec, ImplementsStartup, Spec

LEMMA ProgramInvariant == ProgramSpec => [](MainInv /\ LP!FullInv /\ OpenInv)
<1>1. ProgramInit => OpenInv
  BY DEF ProgramInit, OpenInv, Market!Init
<1>2. OpenInv /\ [ProgramNext]_programVars => OpenInv'
  BY OpenStep
<1>3. ProgramSpec => []OpenInv
  BY <1>1, <1>2, PTL DEF ProgramSpec
<1> QED
  BY <1>3, ProgramImplementsStartup, MainCorrect, LoggerInvariant, PTL
     DEF ImplementsStartup

\* No thread of the program outlives main, whatever its feed does.
THEOREM ProgramEndsLoggerFirst == ProgramSpec => []NothingOutlivesMain
  BY ProgramImplementsStartup, LoggerEndsFirst, PTL DEF ImplementsStartup

\* The reason of a failed start is in the log file of the whole program too.
THEOREM ProgramLogsFailure == ProgramSpec => []FailureIsOnDisk
  BY ProgramImplementsStartup, FailureIsLogged, PTL DEF ImplementsStartup

-----------------------------------------------------------------------------
(* The feed keeps what MarketFeedProofs has shown of it *)

LEMMA ProgramFeed ==
  MP!MessagesAreMessages => (ProgramSpec => [](MP!TypeInv /\ MP!CaptureInv))
<1> SUFFICES ASSUME MP!MessagesAreMessages PROVE ProgramSpec => [](MP!TypeInv /\ MP!CaptureInv)
  OBVIOUS
<1>1. MP!Spec => [](MP!TypeInv /\ MP!OutcomeInv /\ MP!CaptureInv)
  BY MP!OutcomeInvariant, FeedAssumed
<1> QED
  BY <1>1, FeedIsMarketFeed, PTL

LEMMA FeedOut ==
  ASSUME MP!TypeInv, [ProgramNext]_programVars
  PROVE  /\ Len(out) \in Nat /\ Len(out') \in Nat /\ Len(out) <= Len(out')
         /\ \A j \in 1..Len(out) : out'[j] = out[j]
  BY StepsOfFeed, MP!OutStays, FeedAssumed DEF MP!TypeInv

-----------------------------------------------------------------------------
(* The lines the logger accepts *)

LEMMA AppendedLine ==
  ASSUME NEW s, MP!Sequence(s), NEW x
  PROVE  /\ MP!Sequence(Append(s, x)) /\ Len(s) \in Nat
         /\ Len(Append(s, x)) = Len(s) + 1
         /\ Append(s, x)[Len(s) + 1] = x
         /\ \A i \in 1..Len(s) : Append(s, x)[i] = s[i]
<1>1. PICK S : s \in Seq(S)
  BY DEF MP!Sequence
<1>2. s \in Seq(S \cup {x}) /\ x \in S \cup {x}
  BY <1>1, SeqMonotonic
<1>3. Append(s, x) \in Seq(S \cup {x})
  BY <1>2
<1> QED
  BY <1>2, <1>3 DEF MP!Sequence

LEMMA LogAddsOne == Logger!Log => logged' = logged + 1
  BY DEF Logger!Log

\* A step of the program adds no line, one that is about no message, or the
\* entry of out that is next.
LEMMA LinesGrow ==
  ASSUME MainInv, LP!FullInv, OpenInv, [ProgramNext]_programVars
  PROVE  \/ /\ lines' = lines /\ logged' = logged
            /\ emitted' = emitted \/ (Emit /\ ~Logs(out[emitted + 1]))
         \/ /\ Boot /\ emitted' = emitted /\ logged' = logged + 1
            /\ lines' = Append(lines, Market!LogLine(BootLine[app], 0))
         \/ /\ Emit /\ Logs(out[emitted + 1]) /\ logged' = logged + 1
            /\ lines' = Append(lines, out[emitted + 1])
<1>1. CASE Boot
  <2>1. logged' = logged \/ Logger!Log
    BY <1>1 DEF Boot, LoadFile, MakeLogger, LoadAuth, MakeSubscription, BuildHeaders,
                LogConfig, Run, RunFails, FailLogged, LogAt, loggerVars
  <2>2. logged' = logged \/ logged' = logged + 1
    BY <2>1, LogAddsOne
  <2> QED
    BY <1>1, <2>2 DEF Boot
<1>2. CASE Callback \/ Over \/ UNCHANGED programVars
  BY <1>2 DEF Callback, Over, programVars, vars, loggerVars
<1>3. CASE Emit
  <2>1. CASE Logs(out[emitted + 1])
    BY <1>3, <2>1, LogAddsOne DEF Emit
  <2>2. CASE ~Logs(out[emitted + 1])
    BY <1>3, <2>2 DEF Emit, loggerVars
  <2> QED
    BY <2>1, <2>2
<1>4. CASE Return
  BY <1>4 DEF Return, loggerVars
<1>5. CASE DestroyLogger \/ Write
  <2>1. LP!StoreStop \/ LP!Destroy \/ LP!Work \/ LP!WakeSpuriously
    BY <1>5, SameLogger, SameWorker
       DEF DestroyLogger, Unwind, Logger!Destroy, LP!Destroy, Write, LoggerThread
  <2>2. logged' = logged
    BY <2>1, LP!QuietStep, LoggerAssumed DEF LP!FullInv
  <2> QED
    BY <1>5, <2>2 DEF DestroyLogger, Write
<1> QED
  BY <1>1, <1>2, <1>3, <1>4, <1>5 DEF ProgramNext

\* There is a line for each log call that was accepted, and it is about no
\* message or has been emitted by the feed.
LineInv ==
  /\ MP!Sequence(lines) /\ Len(lines) = logged
  /\ emitted \in 0..Len(out)
  /\ \A i \in 1..logged :
       lines[i].n = 0 \/ \E j \in 1..emitted : lines[i] = out[j]

LEMMA LineStep ==
  ASSUME MainInv, LP!FullInv, OpenInv, MP!TypeInv, LineInv, [ProgramNext]_programVars
  PROVE  LineInv'
<1> USE DEF LineInv
<1>1. /\ Len(out) \in Nat /\ Len(out') \in Nat /\ Len(out) <= Len(out')
      /\ \A j \in 1..Len(out) : out'[j] = out[j]
  BY FeedOut
<1>2. logged \in Nat
  BY DEF LP!FullInv, LP!ControlInv, LP!TypeOK
<1>3. ASSUME Emit PROVE emitted' = emitted + 1 /\ out' = out /\ emitted + 1 \in 1..Len(out)
  <2>1. emitted' = emitted + 1 /\ out' = out /\ emitted < Len(out)
    BY <1>3 DEF Emit, marketVars
  <2> QED
    BY <1>1, <2>1
<1>4. /\ emitted \in 0..emitted' /\ emitted' \in 0..Len(out')
      /\ \A j \in 1..emitted : out'[j] = out[j]
  <2>1. emitted' = emitted \/ Emit
    BY LinesGrow
  <2> QED
    BY <1>1, <1>3, <2>1
<1>5. CASE lines' = lines /\ logged' = logged
  BY <1>4, <1>5
<1>6. ASSUME NEW line, lines' = Append(lines, line), logged' = logged + 1,
             line.n = 0 \/ \E j \in 1..emitted' : line = out'[j]
      PROVE  LineInv'
  <2>1. /\ MP!Sequence(lines') /\ Len(lines') = logged'
        /\ lines'[logged'] = line
        /\ \A i \in 1..logged : lines'[i] = lines[i]
    BY <1>6, AppendedLine
  <2>2. ASSUME NEW i \in 1..logged'
        PROVE  lines'[i].n = 0 \/ \E j \in 1..emitted' : lines'[i] = out'[j]
    <3>1. CASE i = logged'
      BY <1>6, <2>1, <3>1
    <3>2. CASE i # logged'
      <4>1. i \in 1..logged
        BY <1>2, <1>6, <3>2
      <4> QED
        BY <1>4, <2>1, <4>1
    <3> QED
      BY <3>1, <3>2
  <2> QED
    BY <1>4, <2>1, <2>2
<1>7. CASE lines' = Append(lines, Market!LogLine(BootLine[app], 0)) /\ logged' = logged + 1
  <2>1. Market!LogLine(BootLine[app], 0).n = 0
    BY DEF Market!LogLine, Market!Entry
  <2> QED
    BY <1>6, <1>7, <2>1
<1>8. CASE Emit /\ logged' = logged + 1 /\ lines' = Append(lines, out[emitted + 1])
  BY <1>3, <1>6, <1>8
<1> QED
  BY <1>5, <1>7, <1>8, LinesGrow

LEMMA LineInvariant ==
  MP!MessagesAreMessages =>
    (ProgramSpec => [](LineInv /\ MainInv /\ LP!FullInv /\ OpenInv /\ MP!TypeInv /\ MP!CaptureInv))
<1> SUFFICES ASSUME MP!MessagesAreMessages
             PROVE  ProgramSpec => [](LineInv /\ MainInv /\ LP!FullInv /\ OpenInv
                                      /\ MP!TypeInv /\ MP!CaptureInv)
  OBVIOUS
<1>1. ProgramSpec => [](MP!TypeInv /\ MP!CaptureInv)
  BY ProgramFeed
<1>2. ProgramInit => LineInv
  <2>1. ProgramInit => MP!Sequence(lines) /\ Len(lines) = 0 /\ logged = 0
    BY MP!ShortSequences, FeedAssumed DEF ProgramInit, Init, Logger!Init
  <2>2. ProgramInit => emitted = 0 /\ Len(out) = 0
    BY EmptySeq DEF ProgramInit, Market!Init
  <2> QED
    BY <2>1, <2>2 DEF LineInv
<1>3. MainInv /\ LP!FullInv /\ OpenInv /\ MP!TypeInv /\ LineInv /\ [ProgramNext]_programVars
        => LineInv'
  BY LineStep
<1> QED
  BY <1>1, <1>2, <1>3, ProgramInvariant, PTL DEF ProgramSpec

-----------------------------------------------------------------------------
(* What the log file says *)

LEMMA SameFeedTypes == MP!TypeOK => Market!TypeOK
  BY Zenon DEF MP!TypeOK, MP!seen, Market!TypeOK, Market!seen

\* Every variable of the program keeps its type, and there is one line for
\* each log call that the logger has accepted (async_json_logger.cpp:121-137).
THEOREM ProgramTypeCorrect == MP!MessagesAreMessages => (ProgramSpec => []ProgramTypeOK)
<1> SUFFICES ASSUME MP!MessagesAreMessages PROVE ProgramSpec => []ProgramTypeOK
  OBVIOUS
<1>1. ProgramSpec => []MP!TypeOK
  BY MP!TypeCorrect, FeedAssumed, FeedIsMarketFeed, PTL
<1>2. ProgramSpec => []TypeOK
  BY ProgramImplementsStartup, TypeCorrect, PTL DEF ImplementsStartup
<1>3. MP!TypeOK /\ TypeOK /\ LineInv => ProgramTypeOK
  BY SameFeedTypes DEF ProgramTypeOK, LineInv
<1> QED
  BY <1>1, <1>2, <1>3, LineInvariant, PTL

\* A line of the file is a line the logger has accepted.
LEMMA LinesOfFile ==
  ASSUME LP!FullInv
  PROVE  /\ Len(written) \in Nat /\ DOMAIN written = 1..Len(written)
         /\ DOMAIN LogFile = 1..Len(written)
         /\ \A i \in 1..Len(written) :
              written[i] \in 1..logged /\ LogFile[i] = lines[written[i]]
<1>1. written \in Seq(Nat)
  BY DEF LP!FullInv, LP!ControlInv, LP!TypeOK
<1>2. Len(written) \in Nat /\ DOMAIN written = 1..Len(written)
  BY <1>1, LenProperties
<1> QED
  BY <1>2, LP!LinesAreCalls, LoggerAssumed DEF LogFile

\* The log file never names a message that the raw message file has not got:
\* on_message writes and flushes the message before it logs anything about it
\* (feed_handler.hpp:217-240), and no delay, batch or drop of the logger can
\* turn the two round.
THEOREM CaptureIsAhead == MP!MessagesAreMessages => (ProgramSpec => []LogBehindCapture)
<1> SUFFICES ASSUME MP!MessagesAreMessages PROVE ProgramSpec => []LogBehindCapture
  OBVIOUS
<1>1. LineInv /\ LP!FullInv /\ MP!TypeInv /\ MP!CaptureInv => LogBehindCapture
  <2> SUFFICES ASSUME LineInv, LP!FullInv, MP!TypeInv, MP!CaptureInv,
                      NEW i \in DOMAIN LogFile, LogFile[i].n # 0
               PROVE  \E k \in 1..emitted : out[k].to = "raw" /\ out[k].n = LogFile[i].n
    BY DEF LogBehindCapture
  <2>1. Len(out) \in Nat /\ DOMAIN out = 1..Len(out)
    BY MP!SequenceLength, FeedAssumed DEF MP!TypeInv, MP!EntryInv
  <2>2. PICK j \in 1..emitted : LogFile[i] = out[j]
    BY LinesOfFile DEF LineInv
  <2>3. j \in DOMAIN out /\ out[j].n # 0
    BY <2>1, <2>2 DEF LineInv
  <2>4. PICK k \in 1..j : out[k].to = "raw" /\ out[k].n = out[j].n
    BY <2>3 DEF MP!CaptureInv
  <2>5. k \in 1..emitted
    BY <2>1, <2>2, <2>4 DEF LineInv
  <2> QED
    BY <2>2, <2>4, <2>5
<1> QED
  BY <1>1, LineInvariant, PTL

-----------------------------------------------------------------------------
(* The last line *)

\* The error that stops the loop is the last entry of out, and the last line
\* once it has been dealt with; after that the program can only end.
LastInv ==
  ~open =>
    /\ app \in {"running", "unwinding", "exited"}
    /\ Len(out) > 0 /\ out[Len(out)] = MP!LogLine("ws_error", 0)
    /\ emitted = Len(out) => logged > 0 /\ lines[logged].what = "ws_error"
    /\ app # "running" => emitted = Len(out)
    /\ app = "exited" => owner = "destroyed"

LEMMA ErrorIsTaken ==
  ASSUME BuildLoggerOptions(loaded.value).error = None
  PROVE  Logs(MP!LogLine("ws_error", 0))
<1>1. /\ MP!LogLine("ws_error", 0).to = "log"
      /\ MP!LogLine("ws_error", 0).what = "ws_error"
  BY DEF MP!LogLine, MP!Entry
<1>2. Levels["ws_error"] = "error"
  BY DEF Levels
<1> QED
  BY <1>1, <1>2, ErrorsAreLogged DEF Logs

\* The loop stops.
LEMMA LoopStops ==
  ASSUME MP!TypeInv, LineInv, OpenInv, [ProgramNext]_programVars, open, ~open'
  PROVE  LastInv'
<1>1. /\ Len(out') > Len(out) /\ out'[Len(out')] = MP!LogLine("ws_error", 0)
  <2>1. [MP!Next]_MP!vars
    BY StepsOfFeed
  <2> QED
    BY <2>1, MP!ClosingStep, FeedAssumed
<1>2. Callback
  <2>1. CASE UNCHANGED marketVars
    BY <2>1 DEF marketVars
  <2>2. CASE ~Callback
    BY <2>1, <2>2 DEF ProgramNext, Boot, Emit, Return, DestroyLogger, Write, Over, programVars
  <2> QED
    BY <2>2
<1>3. app' = "running" /\ emitted' = Len(out)
  BY <1>2 DEF Callback, Turn, vars, appVars
<1>4. Len(out) \in Nat /\ Len(out') \in Nat
  BY FeedOut
<1> QED
  BY <1>1, <1>3, <1>4
     DEF LastInv, MP!LogLine, MP!Entry

\* The loop has been stopped.
LEMMA AfterLoop ==
  ASSUME MainInv, LP!FullInv, OpenInv, MP!TypeInv, LineInv, LastInv, ~open,
         [ProgramNext]_programVars
  PROVE  LastInv'
<1>1. open' = open /\ out' = out
  <2>1. [MP!Next]_MP!vars
    BY StepsOfFeed
  <2>2. UNCHANGED MP!vars
    BY <2>1, MP!ClosingStep, FeedAssumed
  <2> QED
    BY <2>2 DEF MP!vars
<1>2. /\ app \in {"running", "unwinding", "exited"}
      /\ Len(out) > 0 /\ out[Len(out)] = MP!LogLine("ws_error", 0)
      /\ emitted = Len(out) => logged > 0 /\ lines[logged].what = "ws_error"
      /\ app # "running" => emitted = Len(out)
      /\ app = "exited" => owner = "destroyed"
      /\ Len(out) \in Nat /\ emitted \in 0..Len(out) /\ logged \in Nat
  BY FeedOut DEF LastInv, LineInv, LP!FullInv, LP!ControlInv, LP!TypeOK
<1>3. ~Boot
  BY <1>2 DEF Boot, LoadFile, MakeLogger, LoadAuth, MakeSubscription, BuildHeaders,
              LogConfig, Run, RunFails
<1>4. CASE Emit
  <2>1. app = "running" /\ app' = app /\ emitted < Len(out) /\ emitted' = emitted + 1
    BY <1>4 DEF Emit, appVars
  <2>2. ASSUME emitted' = Len(out)
        PROVE  logged' > 0 /\ lines'[logged'].what = "ws_error"
    <3>1. BuildLoggerOptions(loaded.value).error = None
      BY <2>1 DEF MainInv, StageInv
    <3>2. out[emitted + 1] = MP!LogLine("ws_error", 0)
      BY <1>2, <2>1, <2>2
    <3>3. Logs(out[emitted + 1])
      BY <3>1, <3>2, ErrorIsTaken
    <3>4. logged' = logged + 1 /\ lines' = Append(lines, out[emitted + 1])
      BY <1>3, <1>4, <2>1, <3>3, LogAddsOne DEF Emit
    <3>5. lines'[logged'] = out[emitted + 1]
      BY <3>4, AppendedLine DEF LineInv
    <3>6. logged' > 0
      BY <1>2, <3>4
    <3>7. lines'[logged'] = MP!LogLine("ws_error", 0)
      BY <3>2, <3>5
    <3>8. MP!LogLine("ws_error", 0).what = "ws_error"
      BY DEF MP!LogLine, MP!Entry
    <3> QED
      BY <3>6, <3>7, <3>8, Zenon
  <2> QED
    BY <1>1, <1>2, <2>1, <2>2 DEF LastInv, MP!LogLine, MP!Entry
<1>5. CASE ~Emit
  <2>1. lines' = lines /\ logged' = logged /\ emitted' = emitted
    BY <1>3, <1>5, LinesGrow
  <2>2. CASE Return
    <3>1. app' = "unwinding" /\ emitted = Len(out)
      BY <2>2 DEF Return, Turn, To
    <3> QED
      BY <1>1, <1>2, <2>1, <3>1 DEF LastInv, MP!LogLine, MP!Entry
  <2>3. CASE DestroyLogger
    <3>1. /\ app = "unwinding"
          /\ (app' = "exited" /\ owner' = "destroyed") \/ app' = app
      BY <2>3 DEF DestroyLogger, Unwind, To, appVars
    <3> QED
      BY <1>1, <1>2, <2>1, <3>1 DEF LastInv, MP!LogLine, MP!Entry
  <2>4. CASE Write
    <3>1. app' = app /\ app # "exited"
      BY <2>4 DEF Write, LoggerThread, HasLogger, appVars
    <3> QED
      BY <1>1, <1>2, <2>1, <3>1 DEF LastInv, MP!LogLine, MP!Entry
  <2>5. CASE Callback \/ Over \/ UNCHANGED programVars
    <3>1. app' = app /\ owner' = owner
      BY <2>5 DEF Callback, Over, programVars, vars, appVars, loggerVars
    <3> QED
      BY <1>1, <1>2, <2>1, <3>1 DEF LastInv, MP!LogLine, MP!Entry
  <2> QED
    BY <1>3, <1>5, <2>2, <2>3, <2>4, <2>5 DEF ProgramNext
<1> QED
  BY <1>4, <1>5

LEMMA LastInvariant == MP!MessagesAreMessages => (ProgramSpec => []LastInv)
<1> SUFFICES ASSUME MP!MessagesAreMessages PROVE ProgramSpec => []LastInv
  OBVIOUS
<1>1. ProgramInit => LastInv
  BY DEF ProgramInit, Market!Init, LastInv
<1>2. MainInv /\ LP!FullInv /\ OpenInv /\ MP!TypeInv /\ LineInv /\ LastInv
        /\ [ProgramNext]_programVars => LastInv'
  <2> SUFFICES ASSUME MainInv, LP!FullInv, OpenInv, MP!TypeInv, LineInv, LastInv,
                      [ProgramNext]_programVars
               PROVE  LastInv'
    OBVIOUS
  <2>1. CASE open /\ open'
    BY <2>1 DEF LastInv
  <2>2. CASE open /\ ~open'
    BY <2>2, LoopStops
  <2>3. CASE ~open
    BY <2>3, AfterLoop
  <2> QED
    BY <2>1, <2>2, <2>3
<1> QED
  BY <1>1, <1>2, LineInvariant, PTL DEF ProgramSpec

\* A program that the feed has ended leaves the reason as the last line of its
\* file: fail() logs before it stops the loop and nothing logs after it
\* (feed_handler.hpp:69-91), drop_oldest keeps the youngest event
\* (async_json_logger.cpp:171-183), and the destructor writes and flushes it.
THEOREM LastWordIsOnDisk == MP!MessagesAreMessages => (ProgramSpec => []LastWordOnDisk)
<1> SUFFICES ASSUME MP!MessagesAreMessages PROVE ProgramSpec => []LastWordOnDisk
  OBVIOUS
<1>1. LineInv /\ LP!FullInv /\ LastInv => LastWordOnDisk
  <2> SUFFICES ASSUME LineInv, LP!FullInv, LastInv,
                      app = "exited", ~open, DropPolicy = "DropOldest"
               PROVE  durable > 0 /\ LogFile[durable].what = "ws_error"
    BY DEF LastWordOnDisk
  <2>1. owner = "destroyed" /\ logged > 0 /\ lines[logged].what = "ws_error"
    BY DEF LastInv
  <2>2. queue = <<>> /\ batch = <<>> /\ durable = Len(written) /\ written \in Seq(Nat)
    BY <2>1 DEF LP!FullInv, LP!ControlInv, LP!ThreadInv, LP!TypeOK
  <2>3. LP!Pipeline = written
    BY <2>2, ConcatEmptySeq DEF LP!Pipeline
  <2>4. written # <<>> /\ written[Len(written)] = logged
    BY <2>1, <2>3 DEF LP!FullInv, LP!OrderInv, LP!NewestKept
  <2>5. Len(written) \in Nat /\ Len(written) > 0
    BY <2>2, <2>4, LenProperties, EmptySeq
  <2>6. LogFile[Len(written)] = lines[written[Len(written)]]
    BY <2>5, LinesOfFile
  <2> QED
    BY <2>1, <2>2, <2>4, <2>5, <2>6
<1> QED
  BY <1>1, LineInvariant, LastInvariant, PTL

-----------------------------------------------------------------------------
(* Holes in the log at level debug *)

\* The first n lines of l account for the first m entries of o: a hole in the
\* numbers they show has a reason in between, and after the last of them comes
\* no number in o, and no reason without one in l.
Accounts(l, n, o, m) ==
  /\ \A i, j \in 1..n :
       /\ i < j /\ MP!IsNumbered(l[i]) /\ MP!IsNumbered(l[j])
       /\ \A k \in i+1..j-1 : ~MP!IsNumbered(l[k])
       => \/ l[j].event.sequence = l[i].event.sequence + 1
          \/ \E k \in i+1..j-1 : MP!IsReason(l[k])
  /\ \A i \in 1..n :
       MP!IsNumbered(l[i]) /\ (\A k \in i+1..n : ~MP!IsNumbered(l[k])) =>
         \E j \in 1..m :
           /\ l[i] = o[j]
           /\ \A k \in j+1..m : ~MP!IsNumbered(o[k])
           /\ (\E k \in j+1..m : MP!IsReason(o[k])) => \E k \in i+1..n : MP!IsReason(l[k])

LineHolesInv ==
  /\ app = "config" => logged = 0 /\ emitted = 0
  /\ Accepted /\ ShouldLog("debug") => Accounts(lines, logged, out, emitted)

\* A line or an entry without a number is added, or both; a reason in o is one
\* in l.
AddsQuietly(l, n, o, m, l2, n2, o2, m2) ==
  /\ n2 \in {n, n + 1} /\ m2 \in {m, m + 1}
  /\ \A i \in 1..n : l2[i] = l[i]
  /\ \A j \in 1..m : o2[j] = o[j]
  /\ n2 = n + 1 => ~MP!IsNumbered(l2[n + 1])
  /\ m2 = m + 1 => /\ ~MP!IsNumbered(o2[m + 1])
                   /\ MP!IsReason(o2[m + 1]) => n2 = n + 1 /\ MP!IsReason(l2[n + 1])

LEMMA AddQuiet ==
  ASSUME NEW l, NEW n \in Nat, NEW o, NEW m \in Nat, Accounts(l, n, o, m),
         NEW l2, NEW n2, NEW o2, NEW m2, AddsQuietly(l, n, o, m, l2, n2, o2, m2)
  PROVE  Accounts(l2, n2, o2, m2)
<1> USE DEF AddsQuietly
<1>1. ASSUME NEW i \in 1..n2, NEW j \in 1..n2, i < j,
             MP!IsNumbered(l2[i]), MP!IsNumbered(l2[j]),
             \A k \in i+1..j-1 : ~MP!IsNumbered(l2[k])
      PROVE  \/ l2[j].event.sequence = l2[i].event.sequence + 1
             \/ \E k \in i+1..j-1 : MP!IsReason(l2[k])
  <2>1. i \in 1..n /\ j \in 1..n /\ \A k \in i+1..j-1 : k \in 1..n
    BY <1>1
  <2>2. /\ l2[i] = l[i] /\ l2[j] = l[j]
        /\ \A k \in i+1..j-1 : l2[k] = l[k]
    BY <2>1
  <2>3. /\ MP!IsNumbered(l[i]) /\ MP!IsNumbered(l[j])
        /\ \A k \in i+1..j-1 : ~MP!IsNumbered(l[k])
    BY <1>1, <2>2
  <2>4. \/ l[j].event.sequence = l[i].event.sequence + 1
        \/ \E k \in i+1..j-1 : MP!IsReason(l[k])
    BY <1>1, <2>1, <2>3 DEF Accounts
  <2> QED
    BY <2>2, <2>4
<1>2. ASSUME NEW i \in 1..n2, MP!IsNumbered(l2[i]),
             \A k \in i+1..n2 : ~MP!IsNumbered(l2[k])
      PROVE  \E j \in 1..m2 :
               /\ l2[i] = o2[j]
               /\ \A k \in j+1..m2 : ~MP!IsNumbered(o2[k])
               /\ (\E k \in j+1..m2 : MP!IsReason(o2[k]))
                    => \E k \in i+1..n2 : MP!IsReason(l2[k])
  <2>1. i \in 1..n /\ \A k \in i+1..n : k \in i+1..n2 /\ k \in 1..n
    BY <1>2
  <2>2. /\ MP!IsNumbered(l[i]) /\ \A k \in i+1..n : ~MP!IsNumbered(l[k])
    BY <1>2, <2>1
  <2>3. PICK j \in 1..m :
          /\ l[i] = o[j]
          /\ \A k \in j+1..m : ~MP!IsNumbered(o[k])
          /\ (\E k \in j+1..m : MP!IsReason(o[k])) => \E k \in i+1..n : MP!IsReason(l[k])
    BY <2>1, <2>2 DEF Accounts
  <2>4. j \in 1..m2 /\ l2[i] = o2[j]
    BY <2>1, <2>3
  <2>5. ASSUME NEW k \in j+1..m2
        PROVE  /\ ~MP!IsNumbered(o2[k])
               /\ MP!IsReason(o2[k]) => \E q \in i+1..n2 : MP!IsReason(l2[q])
    <3>1. CASE k \in 1..m
      <4>1. k \in j+1..m /\ o2[k] = o[k]
        BY <3>1
      <4>2. ASSUME MP!IsReason(o2[k]) PROVE \E q \in i+1..n2 : MP!IsReason(l2[q])
        <5>1. PICK q \in i+1..n : MP!IsReason(l[q])
          BY <2>3, <4>1, <4>2
        <5> QED
          BY <2>1, <5>1
      <4> QED
        BY <2>3, <4>1, <4>2
    <3>2. CASE k \notin 1..m
      <4>1. k = m + 1 /\ m2 = m + 1
        BY <2>3, <3>2
      <4>2. n2 = n + 1 => n + 1 \in i+1..n2
        BY <2>1
      <4> QED
        BY <4>1, <4>2
    <3> QED
      BY <3>1, <3>2
  <2> QED
    BY <2>4, <2>5
<1> QED
  BY <1>1, <1>2 DEF Accounts

\* The next entry has a number and becomes a line.
LEMMA AddNumbered ==
  ASSUME NEW l, NEW n \in Nat, NEW o, NEW m \in Nat, Accounts(l, n, o, m),
         NEW l2, \A i \in 1..n : l2[i] = l[i],
         l2[n + 1] = o[m + 1], MP!IsNumbered(o[m + 1]),
         \A j \in 1..m :
           /\ MP!IsNumbered(o[j]) /\ \A k \in j+1..m : ~MP!IsNumbered(o[k])
           => \/ o[m + 1].event.sequence = o[j].event.sequence + 1
              \/ \E k \in j+1..m : MP!IsReason(o[k])
  PROVE  Accounts(l2, n + 1, o, m + 1)
<1>1. ASSUME NEW i \in 1..n+1, NEW j \in 1..n+1, i < j,
             MP!IsNumbered(l2[i]), MP!IsNumbered(l2[j]),
             \A k \in i+1..j-1 : ~MP!IsNumbered(l2[k])
      PROVE  \/ l2[j].event.sequence = l2[i].event.sequence + 1
             \/ \E k \in i+1..j-1 : MP!IsReason(l2[k])
  <2>1. i \in 1..n /\ \A k \in i+1..j-1 : k \in 1..n
    BY <1>1
  <2>2. /\ l2[i] = l[i] /\ \A k \in i+1..j-1 : l2[k] = l[k]
    BY <2>1
  <2>3. /\ MP!IsNumbered(l[i]) /\ \A k \in i+1..j-1 : ~MP!IsNumbered(l[k])
    BY <1>1, <2>2
  <2>4. CASE j \in 1..n
    <3>1. l2[j] = l[j]
      BY <2>4
    <3>2. \/ l[j].event.sequence = l[i].event.sequence + 1
          \/ \E k \in i+1..j-1 : MP!IsReason(l[k])
      BY <1>1, <2>1, <2>3, <2>4, <3>1 DEF Accounts
    <3> QED
      BY <2>2, <3>1, <3>2
  <2>5. CASE j = n + 1
    <3>1. i+1..j-1 = i+1..n
      BY <2>1, <2>5
    <3>2. PICK q \in 1..m :
            /\ l[i] = o[q]
            /\ \A k \in q+1..m : ~MP!IsNumbered(o[k])
            /\ (\E k \in q+1..m : MP!IsReason(o[k])) => \E k \in i+1..n : MP!IsReason(l[k])
      BY <2>1, <2>3, <3>1 DEF Accounts
    <3>3. \/ o[m + 1].event.sequence = o[q].event.sequence + 1
          \/ \E k \in q+1..m : MP!IsReason(o[k])
      BY <2>3, <3>2
    <3> QED
      BY <2>2, <2>5, <3>1, <3>2, <3>3
  <2> QED
    BY <2>4, <2>5
<1>2. ASSUME NEW i \in 1..n+1, MP!IsNumbered(l2[i]),
             \A k \in i+1..n+1 : ~MP!IsNumbered(l2[k])
      PROVE  \E j \in 1..m+1 :
               /\ l2[i] = o[j]
               /\ \A k \in j+1..m+1 : ~MP!IsNumbered(o[k])
               /\ (\E k \in j+1..m+1 : MP!IsReason(o[k]))
                    => \E k \in i+1..n+1 : MP!IsReason(l2[k])
  <2>1. i = n + 1
    <3>1. i \in 1..n => n + 1 \in i+1..n+1
      OBVIOUS
    <3> QED
      BY <1>2, <3>1
  <2>2. m + 1 \in 1..m+1 /\ m+2..m+1 = {}
    OBVIOUS
  <2> QED
    BY <2>1, <2>2
<1> QED
  BY <1>1, <1>2 DEF Accounts

LEMMA HigherLevels ==
  ASSUME ShouldLog("debug"), BuildLoggerOptions(loaded.value).error = None,
         NEW level \in {"debug", "info", "warn"}
  PROVE  ShouldLog(level)
<1> DEFINE at(l) == CHOOSE i \in DOMAIN LogLevels : LogLevels[i] = l
           least == BuildLoggerOptions(loaded.value).value.level
<1>1. /\ DOMAIN LogLevels = 1..5
      /\ LogLevels[1] = "trace" /\ LogLevels[2] = "debug" /\ LogLevels[3] = "info"
      /\ LogLevels[4] = "warn" /\ LogLevels[5] = "error"
  BY DEF LogLevels
<1>2. \A i \in 1..5 : i = 1 \/ i = 2 \/ i = 3 \/ i = 4 \/ i = 5
  OBVIOUS
<1>3. at("debug") = 2 /\ at("info") = 3 /\ at("warn") = 4
  <2>1. at("debug") = 2
    BY <1>1, <1>2
  <2>2. at("info") = 3
    BY <1>1, <1>2
  <2>3. at("warn") = 4
    BY <1>1, <1>2
  <2> QED
    BY <2>1, <2>2, <2>3
<1>4. least \in 1..5
  <2>1. \E i \in DOMAIN LogLevels : LogLevels[i] = loaded.value.logging.level
    BY DEF BuildLoggerOptions, Failed, None
  <2>2. least = at(loaded.value.logging.level)
    BY DEF BuildLoggerOptions, Failed, Parsed, None
  <2> QED
    BY <1>1, <2>1, <2>2
<1>5. at("debug") >= least
  BY DEF ShouldLog
<1> HIDE DEF at, least
<1>6. at("debug") >= least /\ at("info") >= least /\ at("warn") >= least
  BY <1>3, <1>4, <1>5
<1>7. at(level) >= least
  BY <1>6
<1> QED
  BY <1>7 DEF at, least, ShouldLog

\* At level debug an entry that says a number or a reason is a line.
LEMMA DebugLogs ==
  ASSUME ShouldLog("debug"), BuildLoggerOptions(loaded.value).error = None,
         NEW e, MP!IsEntry(e), MP!IsNumbered(e) \/ MP!IsReason(e)
  PROVE  Logs(e)
<1>1. e.to # "raw"
  BY DEF MP!IsEntry, MP!IsNumbered, MP!IsReason
<1>2. e.what \in {"on_snapshot", "on_delta", "parse_error", "ws_open"}
  BY DEF MP!IsNumbered, MP!IsReason
<1>3. Levels[e.what] \in {"debug", "info", "warn"}
  BY <1>2 DEF Levels
<1> QED
  BY <1>1, <1>3, HigherLevels DEF Logs

LEMMA LoadedStays ==
  ASSUME [ProgramNext]_programVars, app # "config"
  PROVE  app' # "config" /\ loaded' = loaded
<1>1. CASE Boot
  BY <1>1 DEF Boot, LoadFile, MakeLogger, LoadAuth, MakeSubscription, BuildHeaders,
              LogConfig, Run, RunFails, FailLogged, To, configVars
<1>2. CASE Callback \/ Over \/ UNCHANGED programVars
  BY <1>2 DEF Callback, Over, programVars, vars, configVars, appVars
<1>3. CASE Emit \/ Return \/ DestroyLogger \/ Write
  BY <1>3 DEF Emit, Return, DestroyLogger, Unwind, Write, LoggerThread, To,
              configVars, appVars
<1> QED
  BY <1>1, <1>2, <1>3 DEF ProgramNext

LEMMA FirstStep ==
  ASSUME [ProgramNext]_programVars, app = "config"
  PROVE  logged' = logged /\ emitted' = emitted
<1>1. CASE Boot
  BY <1>1 DEF Boot, LoadFile, MakeLogger, LoadAuth, MakeSubscription, BuildHeaders,
              LogConfig, Run, RunFails, loggerVars
<1>2. CASE UNCHANGED programVars
  BY <1>2 DEF programVars, vars, loggerVars
<1>3. ~Callback /\ ~Emit /\ ~Return /\ ~DestroyLogger /\ ~Write /\ ~Over
  BY DEF Callback, Emit, Return, Turn, DestroyLogger, Unwind, Write, LoggerThread,
         HasLogger, Over
<1> QED
  BY <1>1, <1>2, <1>3 DEF ProgramNext

LEMMA LineHolesStep ==
  ASSUME MainInv, LP!FullInv, OpenInv, MP!TypeInv, MP!HoleInv, LineInv, LineHolesInv,
         [ProgramNext]_programVars
  PROVE  LineHolesInv'
<1>1. /\ Len(out) \in Nat /\ emitted \in 0..Len(out) /\ logged \in Nat
      /\ DOMAIN out = 1..Len(out) /\ \A j \in 1..Len(out) : out'[j] = out[j]
  BY FeedOut, MP!SequenceLength, FeedAssumed
     DEF LineInv, MP!TypeInv, MP!EntryInv, LP!FullInv, LP!ControlInv, LP!TypeOK
<1>2. CASE app = "config"
  <2>1. logged' = 0 /\ emitted' = 0
    BY <1>2, FirstStep DEF LineHolesInv
  <2>2. Accounts(lines', 0, out', 0)
    BY DEF Accounts
  <2> QED
    BY <2>1, <2>2 DEF LineHolesInv
<1>3. CASE app # "config"
  <2>1. app' # "config" /\ loaded' = loaded
    BY <1>3, LoadedStays
  <2>2. (Accepted /\ ShouldLog("debug"))' => Accepted /\ ShouldLog("debug")
    BY <2>1 DEF Accepted, ShouldLog
  <2> SUFFICES ASSUME Accepted, ShouldLog("debug")
               PROVE  Accounts(lines', logged', out', emitted')
    BY <2>1, <2>2 DEF LineHolesInv
  <2>3. Accounts(lines, logged, out, emitted)
    BY DEF LineHolesInv
  <2>4. /\ emitted \in Nat /\ \A j \in 1..emitted : out'[j] = out[j]
    BY <1>1
  <2>5. ASSUME Emit
        PROVE  /\ emitted' = emitted + 1 /\ out' = out /\ emitted + 1 \in 1..Len(out)
               /\ MP!IsEntry(out[emitted + 1])
               /\ BuildLoggerOptions(loaded.value).error = None
    <3>1. /\ emitted' = emitted + 1 /\ out' = out /\ emitted < Len(out) /\ app = "running"
      BY <2>5 DEF Emit, marketVars
    <3>2. emitted + 1 \in 1..Len(out)
      BY <1>1, <3>1
    <3>3. MP!IsEntry(out[emitted + 1])
      BY <1>1, <3>2 DEF MP!TypeInv, MP!EntryInv
    <3>4. BuildLoggerOptions(loaded.value).error = None
      BY <3>1 DEF MainInv, StageInv
    <3> QED
      BY <3>1, <3>2, <3>3, <3>4
  <2>6. AddsQuietly(lines, logged, out, emitted, lines', logged', out', emitted')
          => Accounts(lines', logged', out', emitted')
    BY <1>1, <2>3, <2>4, AddQuiet
  <2>7. CASE /\ lines' = lines /\ logged' = logged
             /\ emitted' = emitted \/ (Emit /\ ~Logs(out[emitted + 1]))
    <3>1. CASE emitted' = emitted
      BY <1>1, <2>4, <2>6, <2>7, <3>1 DEF AddsQuietly
    <3>2. CASE Emit /\ ~Logs(out[emitted + 1])
      <4>1. ~MP!IsNumbered(out[emitted + 1]) /\ ~MP!IsReason(out[emitted + 1])
        BY <2>5, <3>2, DebugLogs
      <4> QED
        BY <1>1, <2>4, <2>5, <2>6, <2>7, <3>2, <4>1 DEF AddsQuietly
    <3> QED
      BY <2>7, <3>1, <3>2
  <2>8. CASE /\ Boot /\ emitted' = emitted /\ logged' = logged + 1
             /\ lines' = Append(lines, Market!LogLine(BootLine[app], 0))
    <3>1. /\ lines'[logged + 1] = Market!LogLine(BootLine[app], 0)
          /\ \A i \in 1..logged : lines'[i] = lines[i]
      BY <2>8, AppendedLine DEF LineInv
    <3>2. ~MP!IsNumbered(lines'[logged + 1])
      <4>1. Market!LogLine(BootLine[app], 0).to = "log"
        BY DEF Market!LogLine, Market!Entry
      <4> QED
        BY <3>1, <4>1 DEF MP!IsNumbered
    <3> QED
      <4>1. logged' = logged + 1 /\ emitted' # emitted + 1
        BY <2>4, <2>8
      <4> QED
        BY <1>1, <2>4, <2>6, <2>8, <3>1, <3>2, <4>1 DEF AddsQuietly
  <2>9. CASE /\ Emit /\ Logs(out[emitted + 1]) /\ logged' = logged + 1
             /\ lines' = Append(lines, out[emitted + 1])
    <3>1. /\ lines'[logged + 1] = out[emitted + 1]
          /\ \A i \in 1..logged : lines'[i] = lines[i]
      BY <2>9, AppendedLine DEF LineInv
    <3>2. CASE ~MP!IsNumbered(out[emitted + 1])
      BY <1>1, <2>4, <2>5, <2>6, <2>9, <3>1, <3>2 DEF AddsQuietly
    <3>3. CASE MP!IsNumbered(out[emitted + 1])
      <4>1. ASSUME NEW j \in 1..emitted, MP!IsNumbered(out[j]),
                   \A k \in j+1..emitted : ~MP!IsNumbered(out[k])
            PROVE  \/ out[emitted + 1].event.sequence = out[j].event.sequence + 1
                   \/ \E k \in j+1..emitted : MP!IsReason(out[k])
        <5>1. /\ j \in DOMAIN out /\ emitted + 1 \in DOMAIN out /\ j < emitted + 1
              /\ (emitted + 1) - 1 = emitted
          BY <1>1, <2>5, <2>9
        <5> QED
          BY <3>3, <4>1, <5>1 DEF MP!HoleInv, MP!HolesAreExplained, MP!IsReason
      <4>2. Accounts(lines', logged + 1, out, emitted + 1)
        BY <1>1, <2>3, <2>4, <3>1, <3>3, <4>1, AddNumbered
      <4> QED
        BY <2>5, <2>9, <4>2
    <3> QED
      BY <3>2, <3>3
  <2> QED
    BY <2>7, <2>8, <2>9, LinesGrow
<1> QED
  BY <1>2, <1>3

LEMMA LineHolesInvariant ==
  MP!MessagesAreMessages /\ MP!ExchangeNumbers => (ProgramSpec => []LineHolesInv)
<1> SUFFICES ASSUME MP!MessagesAreMessages, MP!ExchangeNumbers
             PROVE  ProgramSpec => []LineHolesInv
  OBVIOUS
<1>1. MP!Spec => [](MP!TypeInv /\ MP!HoleInv)
  BY MP!HoleInvariant, FeedAssumed
<1>2. ProgramInit => LineHolesInv
  <2>1. ProgramInit => logged = 0 /\ emitted = 0
    BY DEF ProgramInit, Init, Logger!Init
  <2>2. Accounts(lines, 0, out, 0)
    BY DEF Accounts
  <2> QED
    BY <2>1, <2>2 DEF LineHolesInv
<1>3. MainInv /\ LP!FullInv /\ OpenInv /\ MP!TypeInv /\ MP!HoleInv /\ LineInv
        /\ LineHolesInv /\ [ProgramNext]_programVars => LineHolesInv'
  BY LineHolesStep
<1> QED
  BY <1>1, <1>2, <1>3, FeedIsMarketFeed, LineInvariant, PTL DEF ProgramSpec

\* At level debug whoever reads the log file knows of every hole in the numbers
\* why it is there: each parse_error and each ws_open is logged where it
\* happens, in order with the events (feed_handler.hpp:216-240), the logger
\* keeps the order, and what it drops it counts
\* (async_json_logger.cpp:171-183).
THEOREM HolesInLogHaveReasons ==
  MP!MessagesAreMessages /\ MP!ExchangeNumbers => (ProgramSpec => []HolesInLogExplained)
<1> SUFFICES ASSUME MP!MessagesAreMessages, MP!ExchangeNumbers
             PROVE  ProgramSpec => []HolesInLogExplained
  OBVIOUS
<1>1. LineHolesInv /\ LP!FullInv => HolesInLogExplained
  <2> SUFFICES ASSUME LineHolesInv, LP!FullInv, Accepted, ShouldLog("debug"),
                      NEW j \in 1..durable, Market!IsNumbered(LogFile[j]),
                      NEW i \in 1..j-1, Market!IsNumbered(LogFile[i]),
                      \A k \in i+1..j-1 : ~Market!IsNumbered(LogFile[k]),
                      ~ (written[j] - written[i] > j - i /\ reported + droppedCount > 0)
               PROVE  \/ LogFile[j].event.sequence = LogFile[i].event.sequence + 1
                      \/ \E k \in i+1..j-1 : LogFile[k].what \in {"parse_error", "ws_open"}
    BY DEF HolesInLogExplained
  <2>1. /\ durable \in Nat /\ durable <= Len(written) /\ Len(written) \in Nat
        /\ logged \in Nat
    BY LinesOfFile DEF LP!FullInv, LP!ControlInv, LP!TypeOK, LP!FlushInv
  <2>2. i \in 1..Len(written) /\ j \in 1..Len(written) /\ i < j
    BY <2>1
  <2> DEFINE a == written[i]
             b == written[j]
  <2>3. \A k \in i..j : written[k] = a + (k - i)
    BY <2>2, LP!GapsAreDrops, LoggerAssumed
  <2>4. \A k \in i..j : written[k] \in 1..logged /\ LogFile[k] = lines[written[k]]
    BY <2>1, <2>2, LinesOfFile
  <2>5. a \in 1..logged /\ b \in 1..logged /\ b = a + (j - i)
    BY <2>2, <2>3, <2>4
  <2> HIDE DEF a, b
  <2>6. \A k \in i..j : LogFile[k] = lines[a + (k - i)]
    BY <2>3, <2>4
  <2>7. LogFile[i] = lines[a] /\ LogFile[j] = lines[b]
    BY <2>2, <2>4 DEF a, b
  <2>8. \A q \in a+1..b-1 : LogFile[i + (q - a)] = lines[q] /\ i + (q - a) \in i+1..j-1
    <3> SUFFICES ASSUME NEW q \in a+1..b-1
                 PROVE  LogFile[i + (q - a)] = lines[q] /\ i + (q - a) \in i+1..j-1
      OBVIOUS
    <3>1. i + (q - a) \in i+1..j-1 /\ i + (q - a) \in i..j
      BY <2>2, <2>5
    <3>2. a + ((i + (q - a)) - i) = q
      BY <2>2, <2>5
    <3> QED
      BY <2>6, <3>1, <3>2
  <2>9. /\ MP!IsNumbered(lines[a]) /\ MP!IsNumbered(lines[b])
        /\ \A q \in a+1..b-1 : ~MP!IsNumbered(lines[q])
    BY <2>7, <2>8 DEF Market!IsNumbered, MP!IsNumbered
  <2>10. a < b
    BY <2>2, <2>5
  <2>11. \/ lines[b].event.sequence = lines[a].event.sequence + 1
         \/ \E q \in a+1..b-1 : MP!IsReason(lines[q])
    BY <2>5, <2>9, <2>10 DEF LineHolesInv, Accounts
  <2> QED
    BY <2>7, <2>8, <2>11 DEF MP!IsReason
<1> QED
  BY <1>1, LineHolesInvariant, LineInvariant, PTL
=============================================================================
