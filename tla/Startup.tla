------------------------------- MODULE Startup -------------------------------
(***************************************************************************)
(* main() and AppContext: load the configuration, make the logger, the     *)
(* credentials, the subscription and the signed headers, run the feed, and *)
(* whatever happens destroy the logger and return an exit code.            *)
(*                                                                         *)
(* Config and AsyncJsonLogger are composed here: main is the logger's      *)
(* owner, and the logger's thread runs beside it from its construction on. *)
(* The feed is one thread with main and is abstract here: it logs, and it  *)
(* may return.  Autotrader has the feed as well.                           *)
(***************************************************************************)
EXTENDS Config, FiniteSets

CONSTANTS QueueSize, DropPolicy, MaxEvents  \* as in AsyncJsonLogger

ASSUME StartupAssumption ==
  /\ QueueSize \in Nat \ {0}
  /\ DropPolicy \in {"DropOldest", "DropNewest"}
  /\ MaxEvents \in Nat

VARIABLES queue, stop, droppedCount, worker, batch, owner,
          written, durable, reported, logged   \* as in AsyncJsonLogger

Logger == INSTANCE AsyncJsonLogger

VARIABLES
  app,        \* where main is
  env,        \* the environment variables
  exitCode,   \* what main returns
  fatal       \* number of the event that says why main fails, 0 = none

loggerVars == <<queue, stop, droppedCount, worker, batch, owner,
                written, durable, reported, logged>>
appVars    == <<app, exitCode, fatal>>
vars       == <<configVars, loggerVars, appVars, env>>

Stages == {"config", "logger", "auth", "subscription", "headers",   \* build()
           "log_url", "log_subscription",                           \* log_config()
           "run", "running", "run_failed",                          \* handler.run()
           "unwinding",                                             \* main returns
           "exited"}

\* KALSHI_API_KEY, and the contents of KALSHI_PRIVATE_KEY or of the file that
\* KALSHI_PRIVATE_KEY_PATH names
Keys == {"none", "rsa_pem", "other_pem", "openssh", "garbage"}
Environments == [keyId : BOOLEAN, key : Keys]

\* A logger of this instance's size and policy is what the file asks for.
ConfiguresThisLogger(f) ==
  LET result == LoadConfig(f) IN
  result.error = None =>
    /\ result.value.logging.queue_size = QueueSize
    /\ DropPolicies[result.value.logging.drop_policy] = DropPolicy

Init ==
  /\ ConfigInit
  /\ ConfiguresThisLogger(file)
  /\ env \in Environments
  /\ Logger!Init
  /\ app = "config"
  /\ exitCode = 0
  /\ fatal = 0

-----------------------------------------------------------------------------
(* Helpers *)

\* Mutant: > for >=
ShouldLogAbove(level) ==
  (CHOOSE i \in DOMAIN LogLevels : LogLevels[i] = level)
    > BuildLoggerOptions(loaded.value).value.level

\* should_log
ShouldLog(level) ==
  (CHOOSE i \in DOMAIN LogLevels : LogLevels[i] = level)
    >= BuildLoggerOptions(loaded.value).value.level

\* logger.log at a level
LogAt(level) == IF ShouldLog(level) THEN Logger!Log ELSE UNCHANGED loggerVars

\* load_auth_from_env
AuthError ==
  IF ~env.keyId THEN "MissingKeyId"
  ELSE IF env.key = "none" THEN "MissingPrivateKey" ELSE None

\* is_openssh_key, load_private_key and sign_rsa_pss, which takes RSA keys
\* only.  OpenSSL running out of memory is left out.
IsOpenSshKey == env.key = "openssh"
LoadsPrivateKey == env.key \in {"rsa_pem", "other_pem"}
SignsRsaPss == env.key = "rsa_pem"

\* sign_ws_message
SignError ==
  IF ~IsOpenSshKey /\ LoadsPrivateKey /\ SignsRsaPss THEN None ELSE "SigningFailed"

To(stage) == app' = stage /\ UNCHANGED <<exitCode, fatal>>

\* log why, at level error, and return 1; the logger goes out of scope
FailLogged ==
  /\ LogAt("error")
  /\ app' = "unwinding"
  /\ exitCode' = 1
  /\ fatal' = logged + 1

-----------------------------------------------------------------------------
(* AppContext::build *)

LoadFile ==
  /\ app = "config"
  /\ Load
  /\ IF loaded'.error = None THEN To("logger")
     ELSE app' = "exited" /\ exitCode' = 1 /\ UNCHANGED fatal
  /\ UNCHANGED <<loggerVars, env>>

\* build_logger_options, then make_unique<AsyncJsonLogger>
MakeLogger ==
  /\ app = "logger"
  /\ IF BuildLoggerOptions(loaded.value).error = None THEN To("auth")
     ELSE app' = "exited" /\ exitCode' = 1 /\ UNCHANGED fatal
  /\ UNCHANGED <<configVars, loggerVars, env>>

LoadAuth ==
  /\ app = "auth"
  /\ IF AuthError = None THEN To("subscription") /\ UNCHANGED loggerVars
     ELSE FailLogged
  /\ UNCHANGED <<configVars, env>>

MakeSubscription ==
  /\ app = "subscription"
  /\ IF BuildRequest(loaded.value).error = None
     THEN To("headers") /\ UNCHANGED loggerVars
     ELSE FailLogged
  /\ UNCHANGED <<configVars, env>>

BuildHeaders ==
  /\ app = "headers"
  /\ IF SignError = None THEN To("log_url") /\ UNCHANGED loggerVars
     ELSE FailLogged
  /\ UNCHANGED <<configVars, env>>

-----------------------------------------------------------------------------
(* main *)

\* log_config, two lines
LogConfig ==
  /\ \/ app = "log_url" /\ To("log_subscription")
     \/ app = "log_subscription" /\ To("run")
  /\ LogAt("info")
  /\ UNCHANGED <<configVars, env>>

\* handler.run: init_state opens the raw message file, or it does not and
\* run() logs output_open_failed
Run ==
  /\ app = "run"
  /\ \/ To("running") /\ UNCHANGED loggerVars
     \/ To("run_failed") /\ LogAt("error")
  /\ UNCHANGED <<configVars, env>>

\* Anything the feed logs while it runs
FeedLogs ==
  /\ app = "running"
  /\ Logger!Log
  /\ UNCHANGED <<configVars, appVars, env>>

\* Without reconnect the first error ends the feed.
FeedReturns ==
  /\ app = "running"
  /\ ~loaded.value.ws.auto_reconnect
  /\ To("unwinding")
  /\ UNCHANGED <<configVars, loggerVars, env>>

\* run() has returned an error: "run_failed"
RunFails ==
  /\ app = "run_failed"
  /\ FailLogged
  /\ UNCHANGED <<configVars, env>>

\* Mutant: main returns while the logger is still being destroyed
UnwindEarly ==
  /\ app = "unwinding"
  /\ Logger!StoreStop \/ Logger!NotifyAll
  /\ IF owner' = "joining" THEN To("exited") ELSE UNCHANGED appVars
  /\ UNCHANGED <<configVars, env>>

\* The context, or build()'s local logger, is destroyed; then main returns.
Unwind ==
  /\ app = "unwinding"
  /\ Logger!StoreStop \/ Logger!Destroy
  /\ IF owner' = "destroyed" THEN To("exited") ELSE UNCHANGED appVars
  /\ UNCHANGED <<configVars, env>>

\* The logger's thread, from the constructor to the end of the destructor
HasLogger == app \notin {"config", "logger", "exited"}

LoggerThread ==
  /\ HasLogger
  /\ Logger!Work \/ Logger!WakeSpuriously
  /\ UNCHANGED <<configVars, appVars, env>>

Exited == app = "exited" /\ UNCHANGED vars

\* A feed that reconnects for ever, at the bound on events
Saturated == app = "running" /\ UNCHANGED vars

Next ==
  \/ LoadFile \/ MakeLogger \/ LoadAuth \/ MakeSubscription \/ BuildHeaders
  \/ LogConfig \/ Run \/ FeedLogs \/ FeedReturns \/ RunFails \/ Unwind
  \/ LoggerThread \/ Exited \/ Saturated

Spec == Init /\ [][Next]_vars
-----------------------------------------------------------------------------
(* Properties *)

TypeOK ==
  /\ Logger!TypeOK
  /\ file \in Files /\ loaded.error \in {None, "not loaded", "FileOpenFailed", "ParseFailed"}
  /\ env \in Environments
  /\ app \in Stages
  /\ exitCode \in {0, 1}
  /\ fatal \in 0..MaxEvents

\* When the program has failed after its logger was made, the line that says
\* why is on disk: no level hides an error, the queue does not drop it, and
\* the destructor of the logger, reached through an early return of build()
\* or of main(), writes and flushes it.  With drop_newest a full queue may
\* drop run_failed (main.cpp:28), the one error that need not be the first
\* event.
FailureIsOnDisk ==
  app = "exited" /\ fatal > 0 /\ (DropPolicy = "DropOldest" \/ fatal = 1) =>
    \E i \in 1..durable : written[i] = fatal

\* main never returns over a logger thread that still runs, and what the
\* logger holds is then in the file.
NothingOutlivesMain ==
  app = "exited" /\ owner # "alive" =>
    /\ worker = "done" /\ queue = <<>> /\ batch = <<>>
    /\ durable = Len(written)
=============================================================================
