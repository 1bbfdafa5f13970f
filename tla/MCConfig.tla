------------------------------- MODULE MCConfig -------------------------------
(***************************************************************************)
(* Instance of ConfigTexts for TLC: files around one that is all right.    *)
(* The width of 64 bits is scaled to 20, so that the program's own         *)
(* defaults fit.                                                           *)
(***************************************************************************)
EXTENDS ConfigTexts

Sizes == {Absent, Other, Str("5")}
         \cup {Int64(n) : n \in {-1, 0, 1, 500, 1500, 30000, 30001,
                                 524287, 524288, 1048575, 1048576}}
Bools == {Absent, Other, Int64(1), Bool(TRUE), Bool(FALSE)}

Ws(h, i, k, a, d, m) ==
  Object([handshake_timeout_ms |-> h, idle_timeout_ms |-> i, keep_alive_pings |-> k,
          auto_reconnect |-> a, reconnect_initial_delay_ms |-> d,
          reconnect_max_delay_ms |-> m])

Log(l, q, p, path) ==
  Object([level |-> l, queue_size |-> q, drop_policy |-> p,
          include_raw_on_parse_error |-> Bool(FALSE), output_path |-> path])

WsSections ==
  {Absent, Other, Object(<<>>)}
  \cup {Ws(h, i, Bool(FALSE), Absent, Absent, Absent) : h \in Sizes, i \in Sizes}
  \cup {Ws(Absent, Absent, k, a, Int64(1), Int64(1)) : k \in Bools, a \in Bools}
  \cup {Ws(Int64(7000), Absent, Absent, Bool(FALSE), d, m) : d \in Sizes, m \in Sizes}

LogSections ==
  {Absent, Other, Object(<<>>)}
  \cup {Log(l, q, p, Str("x.log")) :
          l \in {Absent, Other, Str(""), Str("fatal"), Str("trace"), Str("debug"),
                 Str("warn"), Str("error")},
          q \in Sizes, p \in {Absent, Str("drop_oldest"), Str("drop_newest"), Str("block")}}
  \cup {Log(Absent, Absent, Absent, path) : path \in {Absent, Int64(1), Str("")}}

OutputSections ==
  {Absent, Damaged, Other, Object(<<>>), Object([raw_messages_path |-> Str("")]),
   Object([raw_messages_path |-> Int64(1)]), Object([raw_messages_path |-> Str("raw")])}

Channel == Arr(<<Str("orderbook_delta")>>)
Subscriptions ==
  {Absent, Other}
  \cup {Object([channels |-> c, market_tickers |-> t]) :
          c \in {Absent, Other, Arr(<<>>), Channel, Arr(<<Other>>)},
          t \in {Absent, Arr(<<>>), Arr(<<Str("M")>>), Arr(<<Int64(1)>>)}}

Root(env, url, sub, ws, log, out) ==
  [readable |-> TRUE,
   json |-> Object([env |-> env, ws_url |-> url, subscription |-> sub,
                    ws |-> ws, logging |-> log, output |-> out])]

\* Names, and how they are spelled
MCSpelling ==
  [M |-> <<"M">>, orderbook_delta |-> <<"o">>, fill |-> <<"f", "1">>,
   empty |-> <<>>, quotes |-> <<"a", Quote, "b">>, comma |-> <<",", "]">>,
   slashes |-> <<Backslash, Quote, Backslash>>, backslash |-> <<"n", Backslash, "n">>,
   lines |-> <<"LF", "a", "CR", "HT">>, controls |-> <<"ESC", "BS", "NUL", "FF", "u">>,
   url |-> <<"wss://", "h", "/", "t">>, host |-> <<"wss://", "h", ".", "c">>,
   port |-> <<"wss://", "h", ":", "8", "4">>, all |-> <<"wss://", "h", ":", "8", "/", "t", ":", "1">>,
   colon |-> <<"wss://", "h", "/", "t", ":", "1">>, colons |-> <<"wss://", "h", ":", "8", ":", "4">>,
   noport |-> <<"wss://", "h", ":", "/", "t">>, nohost |-> <<"wss://", ":", "8", "/">>,
   nothing |-> <<"wss://">>, path |-> <<"wss://", "/", "t">>, slash |-> <<"wss://", "h", "/", "/">>,
   http |-> <<"http://", "h", "/">>]

MCNumerals == [n \in 1..2 |-> ToString(n)]

Names == {Absent, Other, Str("url")}
Sub   == Object([channels |-> Channel, market_tickers |-> Arr(<<Str("M")>>)])
W     == Object([auto_reconnect |-> Bool(TRUE)])
L     == Object([queue_size |-> Int64(5)])

MCFiles ==
  {[readable |-> FALSE, json |-> Damaged], [readable |-> TRUE, json |-> Damaged],
   [readable |-> TRUE, json |-> Other]}
  \cup {Root(env, url, Sub, Absent, Absent, Absent) : env \in Names, url \in Names}
  \cup {Root(Str("prod"), Str(n), Sub, Absent, Absent, Absent) : n \in DOMAIN MCSpelling}
  \cup {Root(Str("prod"), Str("url"),
             Object([channels |-> Arr(c), market_tickers |-> Arr(<<Str(m), Str(n)>>)]),
             Absent, Log(Absent, Absent, Absent, Absent), Absent) :
           c \in {<<Str("orderbook_delta")>>, <<Str("fill"), Str("orderbook_delta")>>},
           m \in DOMAIN MCSpelling, n \in {"M", "quotes", "controls"}}
  \cup {Root(Str("prod"), Str("url"),
             Object([channels |-> Arr(<<Str("fill"), Str(n)>>), market_tickers |-> Arr(<<>>)]),
             Absent, Absent, Absent) : n \in {"M", "comma", "lines"}}
  \cup {Root(Str("prod"), Str("url"), s, Absent, Absent, Absent) : s \in Subscriptions}
  \cup {Root(Str("prod"), Str("url"), Sub, w, L, Absent) : w \in WsSections}
  \cup {Root(Str("prod"), Str("url"), Sub, W, l, Absent) : l \in LogSections}
  \cup {Root(Str("prod"), Str("url"), Sub, W, L, o) : o \in OutputSections}
=============================================================================
