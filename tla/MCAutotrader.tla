----------------------------- MODULE MCAutotrader -----------------------------
(***************************************************************************)
(* Instance of Autotrader for TLC: one configuration file for each way the *)
(* program can go, for a logger and a feed of the cfg file's parameters.   *)
(***************************************************************************)
EXTENDS Autotrader

Policy == CHOOSE p \in DOMAIN DropPolicies : DropPolicies[p] = DropPolicy

Root(tickers, level, reconnect) ==
  [readable |-> TRUE,
   json |-> Object([env |-> Str("prod"), ws_url |-> Str("url"),
     subscription |-> Object([channels |-> Arr(<<Str("orderbook_delta")>>),
                              market_tickers |-> Arr(tickers)]),
     ws |-> Object([auto_reconnect |-> Bool(reconnect)]),
     logging |-> Object([level |-> Str(level), queue_size |-> Int64(QueueSize),
                         drop_policy |-> Str(Policy),
                         log_raw_messages |-> Bool(LogRawMessages)])])]

M == <<Str("M")>>
MCFiles ==
  {[readable |-> FALSE, json |-> Damaged], Root(<<>>, "info", TRUE),
   Root(M, "fatal", TRUE), Root(M, "error", FALSE)}
  \cup {Root(M, "debug", reconnect) : reconnect \in BOOLEAN}

Delta == [doc |-> "json", type |-> Str("orderbook_delta"), seq |-> Market!NextNumber,
          msg |-> Object([market_ticker |-> Str("M"), price |-> Int64(1),
                          delta |-> Int64(1), side |-> Str("yes")])]
Broken == [doc |-> "broken", type |-> Absent, seq |-> Absent, msg |-> Absent]

\* Two deltas, which may have a broken message between them
MCMessages(past) ==
  CASE past = <<>> -> {Delta}
    [] Len(past) = 1 -> {Delta, Broken}
    [] OTHER -> IF past[2] = Broken THEN {Delta} ELSE {}
=============================================================================
