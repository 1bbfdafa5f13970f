------------------------------- MODULE MCMarket -------------------------------
(***************************************************************************)
(* Instance of MarketFeed for TLC: one message out of many forms, or a     *)
(* stream of a few.                                                        *)
(***************************************************************************)
EXTENDS MarketFeed

Message(doc, type, seq, msg) == [doc |-> doc, type |-> type, seq |-> seq, msg |-> msg]

\* Scaled: prices 0..2, sizes and counts 0..7, deltas -4..3
Integers1 == {Int64(n) : n \in {-5, -4, -1, 0, 2, 3, 4, 7, 8}}
Scalars  == Integers1 \cup {Absent, Other, Str("yes"), Str("no"), Str("both")}
Level(p, s) == Arr(<<Int64(p), Int64(s)>>)
Books == {Arr(<<>>), Arr(<<Level(0, 0)>>), Arr(<<Level(2, 7), Level(1, 3)>>),
          Arr(<<Level(1, 1), Level(3, 1)>>), Arr(<<Level(-1, 1)>>),
          Arr(<<Level(1, 8)>>), Arr(<<Level(1, -1)>>), Arr(<<Level(1, 1), Other>>),
          Arr(<<Arr(<<>>)>>), Arr(<<Arr(<<Int64(1)>>)>>), Arr(<<Int64(1)>>),
          Arr(<<Arr(<<Int64(1), Other>>)>>), Arr(<<Arr(<<Str("yes"), Int64(1)>>)>>),
          Arr(<<Arr(<<Int64(2), Int64(7), Other>>)>>),
          Absent, Other, Int64(1), Str("yes")}

\* What stands in for each field when it is varied
Values(f) == IF f \in {"yes", "no"} THEN Books
             ELSE IF f = "ts" THEN {Absent, Other, Int64(0), Int64(1), Int64(2), Int64(-3)}
             ELSE Scalars

\* Pairs of fields that are varied together
Pairs == {<<"price", "delta">>, <<"yes", "no">>, <<"count", "taker_side">>,
          <<"yes_price", "no_price">>, <<"market_ticker", "price">>}

\* At most two fields of msg at a time are not as in the base message.
Varied(base) ==
  UNION {{[base EXCEPT ![f] = v] : v \in Values(f)} : f \in DOMAIN base}
  \cup UNION {{[base EXCEPT ![p[1]] = v, ![p[2]] = w] :
                 v \in Values(p[1]), w \in Values(p[2])} :
              p \in {q \in Pairs : {q[1], q[2]} \subseteq DOMAIN base}}

Snapshot1 == [market_ticker |-> Str("M"), yes |-> Arr(<<Level(1, 5)>>), no |-> Arr(<<>>)]
Delta1    == [market_ticker |-> Str("M"), price |-> Int64(1), delta |-> Int64(-2),
              side |-> Str("yes")]
Trade1    == [market_ticker |-> Str("M"), yes_price |-> Int64(1), no_price |-> Int64(1),
              count |-> Int64(2), taker_side |-> Str("no"), ts |-> Int64(1)]

Typed == {<<Str("orderbook_snapshot"), Snapshot1>>, <<Str("orderbook_delta"), Delta1>>,
          <<Str("trade"), Trade1>>}

Forms ==
  {Message(doc, Absent, Absent, Absent) : doc \in {"empty", "broken"}}
  \cup {Message("json", type, Int64(1), Object(Trade1)) :
          type \in {Absent, Other, Int64(1), Str("subscribed"), Str("market_status")}}
  \cup UNION {{Message("json", t[1], seq, msg) :
                 seq \in {Absent, Other, Int64(-1), Int64(0), Str("yes")},
                 msg \in {Absent, Other, Str("yes"), Object(t[2])}} : t \in Typed}
  \cup UNION {{Message("json", t[1], Int64(1), Object(msg)) : msg \in Varied(t[2])} :
              t \in Typed}

Stream ==
  {Message("broken", Absent, Absent, Absent),
   Message("json", Str("market_status"), Absent, Object([market_ticker |-> Str("M")])),
   Message("json", Absent, Absent, Object(Trade1)),
   Message("json", Str("trade"), Absent, Object(Trade1)),
   Message("json", Str("orderbook_snapshot"), NextNumber, Object(Snapshot1)),
   Message("json", Str("orderbook_delta"), NextNumber, Object(Delta1)),
   Message("json", Str("orderbook_delta"), NextNumber, Object([Delta1 EXCEPT !.price = Int64(3)]))}

InStream(m) == \E t \in Stream : m \in {t, [t EXCEPT !.seq = Int64(1)]}
Rare        == {m \in Forms : ~InStream(m)}

\* A message of a rare form comes alone.
MCMessages(past) ==
  CASE past = <<>> -> Rare \cup Stream
    [] past # <<>> /\ InStream(past[1]) -> Stream
    [] OTHER -> {}
=============================================================================
