----------------------------- MODULE EventParser -----------------------------
(***************************************************************************)
(* kalshi::md: from the JSON of a websocket message to a market event      *)
(* (message_parser.cpp, event_parser.cpp), as operators.                   *)
(*                                                                         *)
(* simdjson finds a field wherever it is in the object, so the order of    *)
(* the fields does not matter; the order of the checks does, because the   *)
(* first one that fails is the error.  The optional client_order_id is     *)
(* left out.                                                               *)
(***************************************************************************)
EXTENDS Integers, Sequences, FiniteSetsExt, JsonValue

CONSTANTS PriceMax,     \* PRICE_MAX
          U16, U32,     \* 2^16 and 2^32: how many values Price and Size have
          Int64Max,     \* largest value of a Timestamp
          NsPerSecond   \* 10^9

ASSUME ParserAssumption ==
  /\ PriceMax \in Nat /\ U16 \in Nat /\ PriceMax < U16
  /\ U32 \in Nat \ {0} /\ U32 % 2 = 0
  /\ Int64Max \in Nat
  /\ NsPerSecond \in Nat \ {0}

(* Conversions: static_cast to the types of types.hpp *)

ToPrice(n) == n % U16
ToSize(n)  == n % U32
ToDelta(n) == ((n + U32 \div 2) % U32) - U32 \div 2

(* Errors: a parser is a sequence of checks, each "none" or an error *)

None == "none"

FirstError(checks) ==
  LET failed == {i \in DOMAIN checks : checks[i] # None}
  IN IF failed = {} THEN None ELSE checks[Min(failed)]

Failure(error) == [error |-> error]
Success(event) == [error |-> None, event |-> event]

\* get_string, get_int: field.error() first, then the type of the value
FieldError(v, kind) ==
  CASE Kind(v) \in {"absent", "damaged"} -> "MissingField"
    [] Kind(v) = kind -> None
    [] OTHER -> "InvalidField"

\* Mutants: one value too many, and no range check
OutOfRangeLate(v, low, high) ==
  IF Kind(v) = "int" /\ (Val(v) < low \/ Val(v) > high + 1)
  THEN "InvalidField" ELSE None
OutOfRangeNever(v, low, high) == None

\* a range check, of a value whose type has been checked before
OutOfRange(v, low, high) ==
  IF Kind(v) = "int" /\ (Val(v) < low \/ Val(v) > high)
  THEN "InvalidField" ELSE None

\* parse_side
SideError(v) ==
  IF Kind(v) = "string" /\ Val(v) \notin {"yes", "no"}
  THEN "InvalidField" ELSE None

\* an entry of parse_levels; elements after the second are not looked at
BadLevel(entry) ==
  \/ Kind(entry) # "array"
  \/ Len(Val(entry)) < 2
  \/ \E i \in 1..2 : Kind(Val(entry)[i]) # "int"
  \/ OutOfRange(Val(entry)[1], 0, PriceMax) # None
  \/ OutOfRange(Val(entry)[2], 0, U32 - 1) # None

\* parse_levels
LevelsError(v) ==
  IF FieldError(v, "array") # None THEN FieldError(v, "array")
  ELSE IF \E i \in DOMAIN Val(v) : BadLevel(Val(v)[i]) THEN "InvalidField"
  ELSE None

Levels(v) ==
  [i \in DOMAIN Val(v) |-> [price |-> ToPrice(Val(Val(Val(v)[i])[1])),
                           size  |-> ToSize(Val(Val(Val(v)[i])[2]))]]

(* Whole messages: doc is "empty", "broken" (iterate fails) or "json" *)

\* parse_message_type
TypeError(m) ==
  CASE m.doc = "empty" -> "EmptyMessage"
    [] m.doc = "broken" -> "InvalidJson"
    [] m.doc = "json" /\ Kind(m.type) # "string" -> "MissingType"
    [] OTHER -> None

\* get_sequence: an unsigned number
SequenceError(m) ==
  IF Kind(m.seq) = "int" /\ Val(m.seq) < 0
  THEN "InvalidField" ELSE FieldError(m.seq, "int")

\* get_message_object: any trouble with msg counts as missing
MsgError(m) == IF Kind(m.msg) = "object" THEN None ELSE "MissingField"

\* Any error of the envelope comes before one in msg's fields.
FirstOf(envelope, fields) ==
  IF envelope # None THEN envelope ELSE fields

\* parse_snapshot_fields
SnapshotChecks(msg) ==
  << FieldError(Field(msg, "market_ticker"), "string"),
     LevelsError(Field(msg, "yes")),
     LevelsError(Field(msg, "no")) >>

\* parse_delta_fields
DeltaChecks(msg) ==
  << FieldError(Field(msg, "market_ticker"), "string"),
     FieldError(Field(msg, "price"), "int"),
     FieldError(Field(msg, "delta"), "int"),
     FieldError(Field(msg, "side"), "string"),
     SideError(Field(msg, "side")),
     OutOfRange(Field(msg, "price"), 0, PriceMax),
     OutOfRange(Field(msg, "delta"), -(U32 \div 2), U32 \div 2 - 1) >>

\* parse_trade_fields
TradeChecks(msg) ==
  << FieldError(Field(msg, "market_ticker"), "string"),
     FieldError(Field(msg, "yes_price"), "int"),
     FieldError(Field(msg, "no_price"), "int"),
     FieldError(Field(msg, "count"), "int"),
     FieldError(Field(msg, "taker_side"), "string"),
     SideError(Field(msg, "taker_side")),
     OutOfRange(Field(msg, "yes_price"), 0, PriceMax),
     OutOfRange(Field(msg, "no_price"), 0, PriceMax),
     OutOfRange(Field(msg, "count"), 0, U32 - 1) >>

\* parse_orderbook_snapshot
ParseSnapshot(m) ==
  LET error == FirstOf(FirstError(<<SequenceError(m), MsgError(m)>>),
                       FirstError(SnapshotChecks(Val(m.msg))))
      msg == Val(m.msg)
  IN IF error # None THEN Failure(error)
     ELSE Success([market   |-> Val(msg["market_ticker"]),
                   sequence |-> Val(m.seq),
                   yes      |-> Levels(msg["yes"]),
                   no       |-> Levels(msg["no"])])

\* parse_orderbook_delta
ParseDelta(m) ==
  LET error == FirstOf(FirstError(<<SequenceError(m), MsgError(m)>>),
                       FirstError(DeltaChecks(Val(m.msg))))
      msg == Val(m.msg)
  IN IF error # None THEN Failure(error)
     ELSE Success([market   |-> Val(msg["market_ticker"]),
                   sequence |-> Val(m.seq),
                   price    |-> ToPrice(Val(msg["price"])),
                   delta    |-> ToDelta(Val(msg["delta"])),
                   side     |-> Val(msg["side"])])

\* parse_optional_timestamp: seconds to nanoseconds in 64 bits.  An overflow
\* is undefined behaviour: any value may come out.
Timestamps(m) ==
  LET ts == IF Kind(m.msg) = "object" THEN Field(Val(m.msg), "ts") ELSE Absent
  IN IF Kind(ts) # "int" THEN {0}
     ELSE LET ns == Val(ts) * NsPerSecond
          IN IF ns \in -Int64Max - 1 .. Int64Max
             THEN {ns} ELSE -Int64Max - 1 .. Int64Max

\* parse_trade_event, with ts the outcome of parse_optional_timestamp
ParseTrade(m, ts) ==
  LET error == FirstOf(MsgError(m), FirstError(TradeChecks(Val(m.msg))))
      msg == Val(m.msg)
  IN IF error # None THEN Failure(error)
     ELSE Success([market     |-> Val(msg["market_ticker"]),
                   yes_price  |-> ToPrice(Val(msg["yes_price"])),
                   no_price   |-> ToPrice(Val(msg["no_price"])),
                   count      |-> ToSize(Val(msg["count"])),
                   taker_side |-> Val(msg["taker_side"]),
                   ts         |-> ts])
=============================================================================
