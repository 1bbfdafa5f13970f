------------------------------ MODULE ConfigTexts ------------------------------
(***************************************************************************)
(* What becomes of the texts in a configuration: the websocket url, the    *)
(* names of the subscription and the messages of the exchange, in the      *)
(* lines of the log, in the subscribe command and in the parts of the url. *)
(***************************************************************************)
EXTENDS Config, JsonText

CONSTANT Spelling   \* the characters of each name that a file may give

\* Texts are sequences of symbols, and the names in a file that is accepted
\* are in sequences and have their texts.
ASSUME TextsAssumption ==
  /\ \A n \in DOMAIN Spelling : Spelling[n] \in Seq(STRING)
  /\ \A f \in Files : LoadConfig(f).error = None =>
       LET config == LoadConfig(f).value IN
       /\ config.ws_url \in DOMAIN Spelling
       /\ config.subscription.channels \in Seq(DOMAIN Spelling)
       /\ config.subscription.market_tickers \in Seq(DOMAIN Spelling)

Spelled(names) == [i \in DOMAIN names |-> Spelling[names[i]]]
-----------------------------------------------------------------------------
(* Lines of the log *)

\* log_config
LogConfigEvents(config) ==
  {LogEvent("info", "core.config", "ws_url",
            <<LogField("ws_url", Str(Spelling[config.ws_url]))>>),
   LogEvent("info", "core.config", "subscription",
            <<LogField("channels", Arr(Spelled(config.subscription.channels))),
              LogField("market_tickers", Arr(Spelled(config.subscription.market_tickers)))>>)}

\* log_parse_error for an error and a message
ParseErrorEvent(config, error, raw) ==
  LET fields == <<LogField("parse_error", Int64(error))>> IN
  IF config.logging.include_raw_on_parse_error
  THEN LogEventRaw("warn", "md.dispatcher", "parse_error", fields, raw)
  ELSE LogEvent("warn", "md.dispatcher", "parse_error", fields)

\* write_dropped_summary
DroppedEvent(dropped) ==
  LogEvent("warn", "logging", "dropped_logs", <<LogField("dropped", Int64(dropped))>>)

\* FeedHandler::log without fields
PlainEvent == LogEvent("info", "md.ws_client", "ws_open", <<>>)
-----------------------------------------------------------------------------
(* The subscribe command *)

\* Mutant: a comma after the last item, too
ArrayTextTrailing(items) ==
  <<"[">> \o FlattenSeq([i \in DOMAIN items |->
              <<Quote>> \o items[i] \o <<Quote, ",">>]) \o <<"]">>

\* append_string_array: a comma after each item but the last
ArrayText(items) ==
  <<"[">> \o FlattenSeq([i \in DOMAIN items |->
              <<Quote>> \o items[i] \o <<Quote>>
              \o (IF i < Len(items) THEN <<",">> ELSE <<>>)]) \o <<"]">>

\* SubscriptionCommand::build_json; AppContext::build gives the request id 1.
BuildJson(request) ==
  <<"{">> \o Literal("id") \o <<"1">>
  \o <<",">> \o Literal("cmd") \o (<<Quote>> \o <<"subscribe">> \o <<Quote>>)
  \o <<",">> \o Literal("params")
     \o (<<"{">> \o Literal("channels") \o ArrayText(Spelled(request.channels))
         \o (IF request.market_tickers = <<>> THEN <<>>
             ELSE <<",">> \o Literal("market_tickers")
                  \o ArrayText(Spelled(request.market_tickers)))
         \o <<"}">>)
  \o <<"}">>
-----------------------------------------------------------------------------
(* The url *)

\* find: where a symbol is first, or past the end
Find(text, s) == Min({i \in DOMAIN text : text[i] = s} \cup {Len(text) + 1})

WsUrl(host, port, target) == [host |-> host, port |-> port, target |-> target]

\* Mutant: the colon of the port is looked for in the path as well
SplitPortAnywhere(rest) ==
  LET colon == Find(rest, ":") IN
  IF colon > Len(rest) THEN <<SubSeq(rest, 1, Find(rest, "/") - 1), <<"443">> >>
  ELSE <<SubSeq(rest, 1, colon - 1), SubSeq(rest, colon + 1, Find(rest, "/") - 1)>>

\* host and port, from what is before the path
SplitPort(rest) ==
  LET hostPort == SubSeq(rest, 1, Find(rest, "/") - 1)
      colon    == Find(hostPort, ":")
  IN IF colon > Len(hostPort) THEN <<hostPort, <<"443">> >>
     ELSE <<SubSeq(hostPort, 1, colon - 1), SubSeq(hostPort, colon + 1, Len(hostPort))>>

\* parse_ws_url
ParseWsUrl(url) ==
  IF url = <<>> \/ url[1] # "wss://" THEN Failed("InvalidUrl")
  ELSE LET rest   == Tail(url)
           path   == SubSeq(rest, Find(rest, "/"), Len(rest))
           host   == SplitPort(rest)[1]
           port   == SplitPort(rest)[2]
       IN IF host = <<>> \/ port = <<>> THEN Failed("InvalidUrl")
          ELSE Parsed(WsUrl(host, port, IF path = <<>> THEN <<"/">> ELSE path))
-----------------------------------------------------------------------------
(* Properties *)

\* Every line of the log is one JSON object on one line that says what was
\* logged, whatever characters a url, a name or a message of the exchange has.
LogLinesReadBack ==
  Accepted =>
    \A event \in LogConfigEvents(loaded.value)
                 \cup {ParseErrorEvent(loaded.value, error, Spelling[n]) :
                          error \in DOMAIN Numerals, n \in DOMAIN Spelling}
                 \cup {DroppedEvent(dropped) : dropped \in DOMAIN Numerals}
                 \cup {PlainEvent} :
      LET line == WriteEvent(event) IN
      /\ Means(line, EventTokens(event))
      /\ {i \in DOMAIN line : line[i] = "LF"} = {Len(line)}

IsPlain(text) == \A i \in DOMAIN text : text[i] \notin {Quote, Backslash} \cup Controls

\* "Return the JSON payload for websocket subscribe." (subscribe.hpp:49): the
\* command asks for the channels and tickers of the file, if no name in it
\* has a character that JSON would have escaped (protocol.cpp:20 escapes none).
CommandReadsBack ==
  LET request == BuildRequest(loaded.value) IN
  Accepted /\ request.error = None =>
    LET names == [channels |-> Spelled(request.value.channels),
                  market_tickers |-> Spelled(request.value.market_tickers)]
        params == <<Member("channels", StringTokens(names.channels))>>
                  \o (IF names.market_tickers = <<>> THEN <<>>
                      ELSE <<Member("market_tickers", StringTokens(names.market_tickers))>>)
    IN (\A f \in DOMAIN names : \A i \in DOMAIN names[f] : IsPlain(names[f][i])) =>
         Means(BuildJson(request.value),
               Between("{", <<Member("id", <<Mark("1")>>),
                              Member("cmd", <<String(<<"subscribe">>)>>),
                              Member("params", Between("{", params, "}"))>>, "}"))

\* Where the host may end in a url wss://host[:port][/...], and where the port,
\* or the host again
Ends(url) ==
  {p \in (2..Len(url)) \X (2..Len(url)) :
     /\ p[1] <= p[2]
     /\ \A k \in 2..p[1] : url[k] \notin {":", "/"}
     /\ p[2] = p[1] \/ (url[p[1] + 1] = ":" /\ p[2] > p[1] + 1)
     /\ \A k \in p[1]+1..p[2] : url[k] # "/"
     /\ p[2] < Len(url) => url[p[2] + 1] = "/"}

SplitAt(url, i, j) ==
  WsUrl(SubSeq(url, 2, i), IF j = i THEN <<"443">> ELSE SubSeq(url, i + 2, j),
        IF j = Len(url) THEN <<"/">> ELSE SubSeq(url, j + 1, Len(url)))

\* Every way to take a url for one
Splits(url) == {SplitAt(url, p[1], p[2]) : p \in Ends(url)}

\* "Parse wss:// URL into host/port/target." (ws_client.hpp:45): a url is
\* accepted if there is a way to split it, and then there is only that one.
UrlIsSplit ==
  Accepted =>
    LET url == Spelling[loaded.value.ws_url]
        result == ParseWsUrl(url)
        splits == IF url # <<>> /\ url[1] = "wss://" THEN Splits(url) ELSE {}
    IN splits = IF result.error = None THEN {result.value} ELSE {}
=============================================================================
