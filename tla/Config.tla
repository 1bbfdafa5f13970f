-------------------------------- MODULE Config --------------------------------
(***************************************************************************)
(* kalshi::load_config (config.cpp) and what is made of a Config: the      *)
(* logger's options and the subscription.                                  *)
(*                                                                         *)
(* A file is a record: can it be opened, and the JSON value in it.         *)
(***************************************************************************)
EXTENDS Integers, Sequences, JsonValue

CONSTANTS Files,   \* the files config.json may be
          U64      \* how many values a std::uint64_t has

ASSUME ConfigAssumption == U64 \in Nat \ {0} /\ U64 % 2 = 0

\* A JSON array is a finite sequence.
IsSequence(s) == Len(s) \in Nat /\ s = [i \in 1..Len(s) |-> s[i]]

ChannelsOf(f) == Field(Val(Field(Val(f.json), "subscription")), "channels")

ASSUME FilesAssumption ==
  \A f \in Files :
    /\ Kind(f.json) = "object"
    /\ Kind(Field(Val(f.json), "subscription")) = "object"
    /\ Kind(ChannelsOf(f)) = "array"
    => IsSequence(Val(ChannelsOf(f)))

VARIABLES file,    \* config.json
          loaded   \* what load_config has returned

configVars == <<file, loaded>>

None == "none"
Failed(error) == [error |-> error]
Parsed(value) == [error |-> None, value |-> value]
NotLoaded == Failed("not loaded")
-----------------------------------------------------------------------------
(* Fields *)

\* static_cast<std::int64_t> of a std::uint64_t
ToInt64(n) == IF n < U64 \div 2 THEN n ELSE n - U64

\* Does get_string, get_uint64, get_bool succeed?
Is(v, kind) == Kind(v) = kind /\ (kind = "int" => Val(v) \in 0..U64-1)

\* Do get_optional_string, get_optional_size, get_optional_bool succeed?
IsOptional(v, kind) == Kind(v) = "absent" \/ Is(v, kind)

\* get_string_array
IsStringArray(v) ==
  Kind(v) = "array" /\ \A i \in DOMAIN Val(v) : Kind(Val(v)[i]) = "string"

Strings(v) == [i \in DOMAIN Val(v) |-> Val(Val(v)[i])]

\* Mutant: the value given is parsed and left
GivenNever(section, f, default) == default

\* base.f: the value given, or the default.  The integers of a WsConfig are
\* signed; queue_size, a std::size_t, goes through as it is.
Given(section, f, default) ==
  LET v == Field(section, f) IN
  CASE Kind(v) = "absent" -> default
    [] Kind(v) = "int" /\ f # "queue_size" -> ToInt64(Val(v))
    [] OTHER -> Val(v)

WsKinds == [handshake_timeout_ms |-> "int", idle_timeout_ms |-> "int",
            keep_alive_pings |-> "bool", auto_reconnect |-> "bool",
            reconnect_initial_delay_ms |-> "int", reconnect_max_delay_ms |-> "int"]

LoggingKinds == [level |-> "string", queue_size |-> "int",
                 drop_policy |-> "string", include_raw_on_parse_error |-> "bool",
                 log_raw_messages |-> "bool", output_path |-> "string"]

\* default_ws_config
DefaultWs == [handshake_timeout_ms |-> 30000, idle_timeout_ms |-> 60000,
              keep_alive_pings |-> TRUE, auto_reconnect |-> TRUE,
              reconnect_initial_delay_ms |-> 500, reconnect_max_delay_ms |-> 30000]

\* default_logging_config
DefaultLogging == [level |-> "info", queue_size |-> 10000,
                   drop_policy |-> "drop_oldest", include_raw_on_parse_error |-> TRUE,
                   log_raw_messages |-> FALSE, output_path |-> "logs/kalshi.log.json"]

\* default_output_config
DefaultOutput == [raw_messages_path |-> "logs/ws_messages.json"]

\* The fields of a section over its defaults
Merged(section, default) ==
  [f \in DOMAIN default |-> Given(section, f, default[f])]

-----------------------------------------------------------------------------
(* Sections *)

\* Mutant: the delays are compared only if the file gives the larger one
ValidWsUncompared(ws) ==
  /\ ws.handshake_timeout_ms >= 0 /\ ws.idle_timeout_ms >= 0
  /\ ws.reconnect_initial_delay_ms >= 0 /\ ws.reconnect_max_delay_ms >= 0
  /\ \/ ws.reconnect_initial_delay_ms <= ws.reconnect_max_delay_ms
     \/ ws.reconnect_max_delay_ms = DefaultWs.reconnect_max_delay_ms

\* the last two conditions of parse_ws
ValidWs(ws) ==
  /\ ws.handshake_timeout_ms >= 0 /\ ws.idle_timeout_ms >= 0
  /\ ws.reconnect_initial_delay_ms >= 0 /\ ws.reconnect_max_delay_ms >= 0
  /\ ws.reconnect_initial_delay_ms <= ws.reconnect_max_delay_ms

ParseWs(v) ==
  IF /\ Kind(v) = "object"
     /\ \A f \in DOMAIN WsKinds : IsOptional(Field(Val(v), f), WsKinds[f])
     /\ ValidWs(Merged(Val(v), DefaultWs))
  THEN Parsed(Merged(Val(v), DefaultWs)) ELSE Failed("ParseFailed")

ConfigLevels == {"trace", "debug", "info", "warn", "error"}
ConfigPolicies == {"drop_oldest", "drop_newest"}

\* Mutant: level and policy are left to build_logger_options
ValidLoggingLenient(log) == log.queue_size # 0 /\ log.output_path # ""

\* parse_logging checks only what the file gives; the defaults pass as well
ValidLogging(log) ==
  /\ log.level \in ConfigLevels
  /\ log.queue_size # 0
  /\ log.drop_policy \in ConfigPolicies
  /\ log.output_path # ""

ParseLogging(v) ==
  IF /\ Kind(v) = "object"
     /\ \A f \in DOMAIN LoggingKinds : IsOptional(Field(Val(v), f), LoggingKinds[f])
     /\ ValidLogging(Merged(Val(v), DefaultLogging))
  THEN Parsed(Merged(Val(v), DefaultLogging)) ELSE Failed("ParseFailed")

\* parse_output: the path is not optional in a section that is there
ParseOutput(v) ==
  IF /\ Kind(v) = "object"
     /\ Kind(Field(Val(v), "raw_messages_path")) = "string"
     /\ Val(Field(Val(v), "raw_messages_path")) # ""
  THEN Parsed([raw_messages_path |-> Val(Field(Val(v), "raw_messages_path"))])
  ELSE Failed("ParseFailed")

ParseSubscription(v) ==
  IF /\ Kind(v) = "object"
     /\ IsStringArray(Field(Val(v), "channels"))
     /\ Val(Field(Val(v), "channels")) # <<>>
     /\ IsStringArray(Field(Val(v), "market_tickers"))
  THEN Parsed([channels |-> Strings(Field(Val(v), "channels")),
               market_tickers |-> Strings(Field(Val(v), "market_tickers"))])
  ELSE Failed("ParseFailed")

\* A section is parsed if looking for it gives no error of any sort.
Optional(section, result, default) ==
  IF Kind(section) \in {"absent", "damaged"} THEN Parsed(default) ELSE result

\* load_config
LoadConfig(f) ==
  IF ~f.readable THEN Failed("FileOpenFailed")
  ELSE IF Kind(f.json) # "object" THEN Failed("ParseFailed")
  ELSE LET root == Val(f.json)
           subscription == ParseSubscription(Field(root, "subscription"))
           ws == LET v == Field(root, "ws") IN Optional(v, ParseWs(v), DefaultWs)
           logging == LET v == Field(root, "logging") IN Optional(v, ParseLogging(v), DefaultLogging)
           output == LET v == Field(root, "output") IN Optional(v, ParseOutput(v), DefaultOutput)
       IN IF /\ Kind(Field(root, "env")) = "string"
             /\ Kind(Field(root, "ws_url")) = "string"
             /\ \A part \in {subscription.error, ws.error, logging.error, output.error} :
                  part = None
          THEN Parsed([env |-> Val(root["env"]), ws_url |-> Val(root["ws_url"]),
                       subscription |-> subscription.value, ws |-> ws.value,
                       logging |-> logging.value, output |-> output.value])
          ELSE Failed("ParseFailed")
-----------------------------------------------------------------------------
(* What is made of a Config *)

\* parse_log_level: the levels in rising order
LogLevels == <<"trace", "debug", "info", "warn", "error">>

\* parse_drop_policy
DropPolicies == [drop_oldest |-> "DropOldest", drop_newest |-> "DropNewest"]

\* AppContext::build_logger_options
BuildLoggerOptions(config) ==
  IF \A i \in DOMAIN LogLevels : LogLevels[i] # config.logging.level
  THEN Failed("InvalidLogLevel")
  ELSE IF config.logging.drop_policy \notin DOMAIN DropPolicies
  THEN Failed("InvalidDropPolicy")
  ELSE Parsed([level |-> CHOOSE i \in DOMAIN LogLevels :
                           LogLevels[i] = config.logging.level,
               queue_size |-> config.logging.queue_size,
               drop_policy |-> DropPolicies[config.logging.drop_policy]])

\* SubscriptionCommand::build_request
BuildRequest(config) ==
  IF /\ \E i \in DOMAIN config.subscription.channels :
          config.subscription.channels[i] = "orderbook_delta"
     /\ config.subscription.market_tickers = <<>>
  THEN Failed("MissingMarketTickers")
  ELSE Parsed(config.subscription)
-----------------------------------------------------------------------------
(* Loading *)

ConfigInit == file \in Files /\ loaded = NotLoaded

\* load_config(path)
Load == loaded = NotLoaded /\ loaded' = LoadConfig(file) /\ UNCHANGED file

ConfigDone == loaded # NotLoaded /\ UNCHANGED configVars

ConfigNext == Load \/ ConfigDone

ConfigSpec == ConfigInit /\ [][ConfigNext]_configVars
-----------------------------------------------------------------------------
(* Properties *)

Accepted == loaded.error = None

\* What load_config accepts is fit for use: the logger's queue has room for
\* an event, the backoff has somewhere to go, no duration is negative although
\* the file's numbers are unsigned and 64 bits wide (config.cpp:168-204).
AcceptedIsUsable ==
  Accepted =>
    LET config == loaded.value IN
    /\ \A f \in DOMAIN WsKinds : WsKinds[f] = "int" => config.ws[f] >= 0
    /\ config.ws.reconnect_initial_delay_ms <= config.ws.reconnect_max_delay_ms
    /\ config.logging.queue_size > 0
    /\ config.logging.output_path # "" /\ config.output.raw_messages_path # ""
    /\ config.subscription.channels # <<>>

\* load_config and build_logger_options have a list of levels and of policies
\* each (config.cpp:235, log_level.cpp:24-47, log_policy.cpp:6-17): what the
\* one accepts the other understands, so InvalidLogLevel and InvalidDropPolicy
\* never end the program.
LoggerUnderstandsConfig ==
  Accepted => BuildLoggerOptions(loaded.value).error = None

\* Every number, switch and name the file gives in "ws" or "logging" is the
\* one the program uses, and every one it does not give is the default.
FileIsObeyed ==
  Accepted =>
    \A pair \in {<<"ws", loaded.value.ws, DefaultWs>>,
                 <<"logging", loaded.value.logging, DefaultLogging>>} :
      LET section == Field(Val(file.json), pair[1]) IN
      \A f \in DOMAIN pair[2] :
        IF Kind(section) = "object" /\ Kind(Field(Val(section), f)) # "absent"
        THEN pair[2][f] = Val(Field(Val(section), f))
        ELSE pair[2][f] = pair[3][f]
=============================================================================
