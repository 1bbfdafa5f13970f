------------------------------ MODULE Autotrader ------------------------------
(***************************************************************************)
(* The whole program: main and its logger's thread (Startup) with the feed *)
(* (MarketFeed).  A callback of the feed writes its lines of the raw       *)
(* message file and makes its calls of the logger one after the other,     *)
(* while the logger's thread runs beside it; the next callback comes when  *)
(* the last one is through.                                                *)
(*                                                                         *)
(* Which callbacks the event loop and its connections bring is MarketLoop. *)
(* How the feed ends is Startup's FeedReturns, which is a property here.   *)
(* AppContext gives the feed no message limit (app_context.cpp:86).        *)
(***************************************************************************)
EXTENDS Startup

CONSTANTS PriceMax, U16, U32, Int64Max, NsPerSecond,    \* as in EventParser
          Messages(_), LogRawMessages, MaxReceived,
          MaxErrors, MaxControls                        \* as in MarketFeed

VARIABLES received, out, remaining, open, errors, timers, connections,
          sent,     \* as in MarketFeed
          emitted,  \* entries of out that the event loop has dealt with
          lines     \* the log calls the logger has accepted, in call order

marketVars  == <<received, out, remaining, open, errors, timers, connections, sent>>
programVars == <<vars, marketVars, emitted, lines>>

\* config_.ws.auto_reconnect
Reconnects ==
  LET result == LoadConfig(file) IN
  result.error = None /\ result.value.ws.auto_reconnect

\* RunOptions as AppContext::build_run_options fills them
Market == INSTANCE MarketFeed WITH MaxMessages <- 0, reconnects <- Reconnects

ASSUME AutotraderAssumption == Market!ParserAssumption /\ Market!MarketFeedAssumption

\* The file asks for this log_raw_messages.
ConfiguresThisFeed(f) ==
  LET result == LoadConfig(f) IN
  result.error = None => result.value.logging.log_raw_messages = LogRawMessages

\* options.refresh_headers: build_headers with the key that has signed the
\* first ones
RefreshHeaders == SignError = None

ProgramInit ==
  /\ Init
  /\ ConfiguresThisFeed(file)
  /\ Market!Init
  /\ emitted = 0
  /\ lines = <<>>
-----------------------------------------------------------------------------
(* The log calls of the callbacks *)

\* The levels of the log calls in feed_handler.hpp, app_context.cpp and
\* logging_sink.cpp
Levels == [ws_message |-> "debug", unsupported_message_type |-> "debug",
           on_delta |-> "debug", on_trade |-> "debug",
           ws_open |-> "info", first_message_received |-> "info",
           on_snapshot |-> "info",
           parse_error |-> "warn", reconnect_scheduled |-> "warn",
           ws_error |-> "error", signing_failed |-> "error",
           refresh_headers_failed |-> "error"]

\* Does the logger take an entry?  A call of LoggingSink is one log call.
Logs(entry) == entry.to # "raw" /\ ShouldLog(Levels[entry.what])

\* What main logs where it is; none of it is about a message.
BootLine == [auth             |-> "auth_error",
             subscription     |-> "orderbook_delta_requires_market_tickers",
             headers          |-> "signing_failed",
             log_url          |-> "ws_url",
             log_subscription |-> "subscription",
             run              |-> "output_open_failed",
             run_failed       |-> "run_failed"]
-----------------------------------------------------------------------------
(* Steps *)

\* The start, and where the run fails
Boot ==
  /\ \/ LoadFile \/ MakeLogger \/ LoadAuth \/ MakeSubscription \/ BuildHeaders
     \/ LogConfig \/ Run \/ RunFails
  /\ IF logged' = logged THEN UNCHANGED lines
     ELSE lines' = Append(lines, Market!LogLine(BootLine[app], 0))
  /\ UNCHANGED <<marketVars, emitted>>

\* The event loop's thread is between two callbacks.
Turn == app = "running" /\ emitted = Len(out)

\* on_control, which makes one log call more, is left to MarketFeed.
Callback ==
  /\ Turn
  /\ UNCHANGED <<vars, emitted, lines>>
  /\ \/ Market!OnOpen \/ Market!OnMessage \/ Market!OnError
     \/ \E usable \in BOOLEAN : Market!OnTimer(RefreshHeaders, usable)

\* The running callback writes its next line, or makes its next log call.
Emit ==
  /\ app = "running" /\ emitted < Len(out)
  /\ emitted' = emitted + 1
  /\ IF Logs(out[emitted + 1])
     THEN Logger!Log /\ lines' = Append(lines, out[emitted + 1])
     ELSE UNCHANGED <<loggerVars, lines>>
  /\ UNCHANGED <<configVars, appVars, env, marketVars>>

\* The loop has been stopped: run() and main return.
Return ==
  /\ Turn
  /\ ~open
  /\ To("unwinding")
  /\ UNCHANGED <<configVars, loggerVars, env, marketVars, emitted, lines>>

DestroyLogger == Unwind /\ UNCHANGED <<marketVars, emitted, lines>>

\* The other thread
Write == LoggerThread /\ UNCHANGED <<marketVars, emitted, lines>>

\* The program has exited, or a bound is used up.
Over ==
  /\ \/ app = "exited"
     \/ app = "running" /\ (logged = MaxEvents \/ errors = MaxErrors)
  /\ UNCHANGED programVars

ProgramNext == Boot \/ Callback \/ Emit \/ Return \/ DestroyLogger \/ Write \/ Over

ProgramSpec == ProgramInit /\ [][ProgramNext]_programVars

\* Both threads get processor time.  Emit is disabled while the logger's
\* thread holds the mutex, which spurious wake-ups may make it do again and
\* again: a mutex that is free again and again is taken in the end.
ProgramFairness ==
  /\ WF_programVars(Logger!Work /\ Write)
  /\ SF_programVars(Emit)
  /\ WF_programVars(Return)
  /\ WF_programVars(DestroyLogger)

FairProgramSpec == ProgramSpec /\ ProgramFairness
-----------------------------------------------------------------------------
(* Properties *)

\* The log file, without the summaries of dropped lines
LogFile == [i \in DOMAIN written |-> lines[written[i]]]

ProgramTypeOK ==
  /\ TypeOK
  /\ Market!TypeOK
  /\ emitted \in 0..Len(out)
  /\ logged = Len(lines)

\* What the log says of a message, the raw message file has: whatever the
\* logger's thread has written about message n, n was captured and flushed
\* before (feed_handler.hpp:217), so the two files can be read together.
LogBehindCapture ==
  LET captured == {out[j].n : j \in {k \in 1..emitted : out[k].to = "raw"}}
  IN \A i \in DOMAIN LogFile : LogFile[i].n \in captured \cup {0}

\* The log at level debug explains a hole in the sequence numbers it shows: a
\* message that could not be parsed or a new connection is between the two
\* lines, or lines between them were dropped, which is on record.
HolesInLogExplained ==
  Accepted /\ ShouldLog("debug") =>
    LET log == LogFile
        Numbered(i) == Market!IsNumbered(log[i])
    IN \A j \in {k \in 1..durable : Numbered(k)} :
       \A i \in {k \in 1..j-1 : Numbered(k) /\ \A l \in k+1..j-1 : ~Numbered(l)} :
         \/ log[j].event.sequence = log[i].event.sequence + 1
         \/ \E k \in i+1..j-1 : log[k].what \in {"parse_error", "ws_open"}
         \/ written[j] - written[i] > j - i /\ reported + droppedCount > 0

\* Without reconnect a program that has exited leaves the error that ended it
\* as the last line of its log: nothing is logged after it, the queue does not
\* drop it, and both destructors are through.
LastWordOnDisk ==
  app = "exited" /\ ~open /\ DropPolicy = "DropOldest" =>
    durable > 0 /\ LogFile[durable].what = "ws_error"

\* At level debug a message that was received has its line in the file in the
\* end, also if the program is about to exit; unless lines are dropped, or the
\* bound on log calls is used up.
MessageReachesLog ==
  \A n \in 1..MaxReceived :
    Len(received) >= n /\ ShouldLog("debug")
      ~> \/ reported + droppedCount > 0
         \/ logged = MaxEvents
         \/ \E i \in 1..durable : LogFile[i].n = n

\* The program starts, logs and ends as Startup has it.
ImplementsStartup == Spec
=============================================================================
