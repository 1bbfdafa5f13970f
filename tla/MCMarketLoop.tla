----------------------------- MODULE MCMarketLoop -----------------------------
(***************************************************************************)
(* Instance of MarketLoop for TLC: what a message is does not matter to    *)
(* the loop, so there are two.                                             *)
(***************************************************************************)
EXTENDS MarketLoop, JsonValue

MCMessages(past) ==
  {[doc |-> "broken", type |-> Absent, seq |-> Absent, msg |-> Absent],
   [doc |-> "json", type |-> Str("trade"), seq |-> Absent,
    msg |-> Object([market_ticker |-> Str("M"), yes_price |-> Int64(1),
                    no_price |-> Int64(1), count |-> Int64(2),
                    taker_side |-> Str("no")])]}
=============================================================================
