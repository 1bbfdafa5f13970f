------------------------------ MODULE MarketFeed ------------------------------
(***************************************************************************)
(* What becomes of the messages of the exchange, across reconnects: the    *)
(* callbacks of FeedHandler with Dispatcher::on_message, as seen by those  *)
(* who read what they emit.  Which callback comes next is the network's    *)
(* choice here; FeedHandler has the connections behind it.                 *)
(*                                                                         *)
(* out is everything the callbacks emit, in the order in which they do:    *)
(* the lines of the raw message file (each flushed before anything else    *)
(* happens to the message), the calls of the sink and the calls of the     *)
(* logger.  An entry carries the number of the message it is about.  Every *)
(* callback runs on the one thread of the event loop and is one step.      *)
(***************************************************************************)
EXTENDS EventParser

CONSTANTS
  Messages(_),     \* what the exchange may send after a sequence of messages
  LogRawMessages,  \* options.log_raw_messages
  MaxMessages,     \* options.max_messages, 0 = unlimited
  MaxReceived,     \* bound on the messages received
  MaxErrors,       \* bound on the errors
  MaxControls      \* bound on the control frames

ASSUME MarketFeedAssumption ==
  /\ LogRawMessages \in BOOLEAN
  /\ MaxMessages \in Nat /\ MaxReceived \in Nat /\ MaxErrors \in Nat
  /\ MaxControls \in Nat

VARIABLES
  received,     \* the messages received, in order
  out,          \* everything emitted, in order
  remaining,    \* state.remaining
  reconnects,   \* options.auto_reconnect
  open,         \* the loop has not been stopped
  errors,       \* calls of on_error so far
  timers,       \* reconnect timers that have fired, each for an error
  connections,  \* connections opened so far
  sent          \* numbered messages the exchange has sent on this connection

troubles == <<errors, timers, connections>>
vars == <<received, out, remaining, reconnects, open, troubles, sent>>

Entry(to, what, n) == [to |-> to, what |-> what, n |-> n]
Raw(n)             == Entry("raw", "message", n)
LogLine(what, n)   == Entry("log", what, n)
SinkCall(what, n, event) ==
  [to |-> "sink", what |-> what, n |-> n, event |-> event]

\* Optional output
When(condition, entries) == IF condition THEN entries ELSE <<>>

\* run() up to the first connection
Init ==
  /\ received = <<>>
  /\ out = <<>>
  /\ remaining = MaxMessages
  /\ reconnects \in BOOLEAN
  /\ open = TRUE
  /\ errors = 0 /\ timers = 0 /\ connections = 0
  /\ sent = 0
-----------------------------------------------------------------------------
(* Dispatcher *)

\* The handler of the sink for a type, and the parser of its messages
Handlers == [orderbook_snapshot |-> "on_snapshot",
             orderbook_delta    |-> "on_delta",
             trade              |-> "on_trade"]

Parse(m, ts) ==
  CASE Val(m.type) = "orderbook_snapshot" -> ParseSnapshot(m)
    [] Val(m.type) = "orderbook_delta" -> ParseDelta(m)
    [] Val(m.type) = "trade" -> ParseTrade(m, ts)

\* Dispatcher::on_message: an error, or the sink is called
DispatchResult(m, ts) ==
  IF TypeError(m) # None THEN Failure(TypeError(m))
  ELSE IF Val(m.type) \notin DOMAIN Handlers THEN Failure("UnsupportedType")
  ELSE Parse(m, ts)

\* Mutant: an unsupported type is no error
DispatchSilent(m, n, ts) ==
  LET result == DispatchResult(m, ts) IN
  CASE result.error = None ->
         <<SinkCall(Handlers[Val(m.type)], n, result.event)>>
    [] result.error = "UnsupportedType" -> <<>>
    [] OTHER -> <<LogLine("parse_error", n)>>

\* Mutant: a message that cannot be parsed is dropped without a word
DispatchSwallowsErrors(m, n, ts) ==
  LET result == DispatchResult(m, ts) IN
  CASE result.error = None ->
         <<SinkCall(Handlers[Val(m.type)], n, result.event)>>
    [] result.error = "UnsupportedType" ->
         <<LogLine("unsupported_message_type", n)>>
    [] OTHER -> <<>>

\* dispatch_message and the line on_message logs for an unsupported type
Dispatch(m, n, ts) ==
  LET result == DispatchResult(m, ts) IN
  CASE result.error = None ->
         <<SinkCall(Handlers[Val(m.type)], n, result.event)>>
    [] result.error = "UnsupportedType" ->
         <<LogLine("unsupported_message_type", n)>>
    [] OTHER -> <<LogLine("parse_error", n)>>
-----------------------------------------------------------------------------
(* FeedHandler *)

\* state.seen
seen == Len(received)

\* Mutant: the file is written when the message has been dealt with
EmitLateCapture(m, n, ts) ==
     When(LogRawMessages, <<LogLine("ws_message", n)>>)
  \o When(seen = 0, <<LogLine("first_message_received", n)>>)
  \o Dispatch(m, n, ts)
  \o <<Raw(n)>>
  \o When(remaining = 1, <<LogLine("max_messages_reached", n)>>)

\* What on_message emits for message number n
Emit(m, n, ts) ==
     <<Raw(n)>>
  \o When(LogRawMessages, <<LogLine("ws_message", n)>>)
  \o When(seen = 0, <<LogLine("first_message_received", n)>>)
  \o Dispatch(m, n, ts)
  \o When(remaining = 1, <<LogLine("max_messages_reached", n)>>)

\* The exchange numbers its snapshots and deltas on a connection from 1 on
\* ("per market stream", types.hpp:12: a connection is taken for one stream);
\* a message that is broken when it gets here may have been one of them.
NextNumber == <<"next number">>
TakesNumber(m) == m.doc = "broken" \/ m.seq = NextNumber

Number(m) ==
  IF m.seq = NextNumber THEN [m EXCEPT !.seq = Int64(sent + 1)] ELSE m

\* Mutant: > 1 for > 0
CountDownLate(n) == IF n > 1 THEN n - 1 ELSE n

\* --remaining if there is a limit
CountDown(n) == IF n > 0 THEN n - 1 ELSE 0

\* on_message
Receive ==
  /\ \E template \in Messages(received) :
       LET m == Number(template)
       IN /\ received' = Append(received, m)
          /\ sent' = IF TakesNumber(template) THEN sent + 1 ELSE sent
          /\ \E ts \in Timestamps(m) : out' = out \o Emit(m, seen + 1, ts)
  /\ remaining' = CountDown(remaining)
  /\ UNCHANGED troubles

\* What on_error and schedule_reconnect log
ErrorLines ==
  <<LogLine("ws_error", 0)>> \o When(reconnects, <<LogLine("reconnect_scheduled", 0)>>)

\* on_error
ReportError ==
  /\ errors' = errors + 1
  /\ out' = out \o ErrorLines
  /\ UNCHANGED <<received, remaining, timers, connections, sent>>

\* The handler of the reconnect timer: refreshing the headers may fail, and an
\* url that is not usable makes connect() report an error before it returns.
FireTimer(refreshed, usable) ==
  /\ timers' = timers + 1
  /\ errors' = IF usable THEN errors ELSE errors + 1
  /\ out' = out
       \o When(~refreshed, <<LogLine("signing_failed", 0),
                             LogLine("refresh_headers_failed", 0)>>)
       \o When(~usable, ErrorLines)
  /\ UNCHANGED <<received, remaining, connections, sent>>

\* Mutant: the log has no line of a new connection
OpenSilent ==
  /\ connections' = connections + 1
  /\ sent' = 0
  /\ UNCHANGED <<received, out, remaining, errors, timers>>

\* on_open: the exchange begins with new numbers
Open ==
  /\ connections' = connections + 1
  /\ sent' = 0
  /\ out' = Append(out, LogLine("ws_open", 0))
  /\ UNCHANGED <<received, remaining, errors, timers>>

\* on_control, for a ping, a pong or a close
Control ==
  /\ out' = Append(out, LogLine("ws_control", 0))
  /\ UNCHANGED <<received, remaining, troubles, sent>>
-----------------------------------------------------------------------------
(* The network's choice *)

OnMessage ==
  /\ open /\ connections > 0
  /\ seen < MaxReceived
  /\ Receive
  /\ open' = (remaining # 1)
  /\ UNCHANGED reconnects

\* Mutant: the loop is stopped whether or not the options have auto_reconnect
OnErrorStops ==
  /\ open
  /\ errors < MaxErrors
  /\ ReportError
  /\ open' = FALSE
  /\ UNCHANGED reconnects

\* The connection it is about may still bring messages: a write that fails
\* does not end the reading.
OnError ==
  /\ open
  /\ errors < MaxErrors
  /\ ReportError
  /\ open' = reconnects
  /\ UNCHANGED reconnects

\* A timer fires for an error.
OnTimer(refreshed, usable) ==
  /\ open /\ reconnects
  /\ timers < errors
  /\ usable \/ errors < MaxErrors
  /\ FireTimer(refreshed, usable)
  /\ UNCHANGED <<reconnects, open>>

\* A client opens once, and there is one for the start and for each timer.
OnOpen ==
  /\ open
  /\ connections <= timers
  /\ Open
  /\ UNCHANGED <<reconnects, open>>

\* Control frames so far
Controls == Len(SelectSeq(out, LAMBDA e : e.what = "ws_control"))

OnControl ==
  /\ open /\ connections > 0
  /\ Controls < MaxControls
  /\ Control
  /\ UNCHANGED <<reconnects, open>>

\* The loop has been stopped, or the exchange has no more to send and the
\* bounds are used up.
Terminated ==
  /\ \/ ~open
     \/ /\ seen = MaxReceived \/ Messages(received) = {}
        /\ errors = MaxErrors
  /\ UNCHANGED vars

Next ==
  \/ OnOpen \/ OnMessage \/ OnError \/ OnControl
  \/ \E refreshed, usable \in BOOLEAN : OnTimer(refreshed, usable)
  \/ Terminated

Spec == Init /\ [][Next]_vars
-----------------------------------------------------------------------------
(* Properties *)

TypeOK ==
  /\ \A n \in DOMAIN received : received[n].doc \in {"empty", "broken", "json"}
  /\ \A i \in DOMAIN out : out[i].to \in {"raw", "log", "sink"}
  /\ seen \in 0..MaxReceived
  /\ remaining \in 0..MaxMessages
  /\ reconnects \in BOOLEAN
  /\ open = ((MaxMessages = 0 \/ remaining > 0) /\ (reconnects \/ errors = 0))
  /\ errors \in 0..MaxErrors /\ timers \in 0..errors
  /\ connections \in 0..timers+1
  /\ sent \in 0..MaxReceived

\* The values a well-formed message may have in each field: what its type in
\* types.hpp can hold, and for a price 0-100 (types.hpp:14, PRICE_MAX at :26).
\* The comment at types.hpp:15 says 1-99 cents; the parsers accept 0 and 100.
IsPrice(v) == Kind(v) = "int" /\ Val(v) \in 0..PriceMax
IsCount(v) == Kind(v) = "int" /\ Val(v) \in 0..U32-1
IsLevel(entry) ==
  /\ Kind(entry) = "array" /\ Len(Val(entry)) >= 2
  /\ IsPrice(Val(entry)[1]) /\ IsCount(Val(entry)[2])
IsBook(v) == Kind(v) = "array" /\ \A i \in DOMAIN Val(v) : IsLevel(Val(v)[i])
IsSide(v) == Kind(v) = "string" /\ Val(v) \in {"yes", "no"}
IsName(v) == Kind(v) = "string"
IsSequence(v) == Kind(v) = "int" /\ Val(v) >= 0
IsDelta(v) == Kind(v) = "int" /\ Val(v) >= -(U32 \div 2) /\ Val(v) < U32 \div 2

WellFormed(m) ==
  /\ m.doc = "json" /\ Kind(m.type) = "string" /\ Kind(m.msg) = "object"
  /\ IsName(Field(Val(m.msg), "market_ticker"))
  /\ \/ /\ Val(m.type) = "orderbook_snapshot" /\ IsSequence(m.seq)
        /\ IsBook(Field(Val(m.msg), "yes")) /\ IsBook(Field(Val(m.msg), "no"))
     \/ /\ Val(m.type) = "orderbook_delta" /\ IsSequence(m.seq)
        /\ IsPrice(Field(Val(m.msg), "price")) /\ IsDelta(Field(Val(m.msg), "delta"))
        /\ IsSide(Field(Val(m.msg), "side"))
     \/ /\ Val(m.type) = "trade"
        /\ IsPrice(Field(Val(m.msg), "yes_price")) /\ IsPrice(Field(Val(m.msg), "no_price"))
        /\ IsCount(Field(Val(m.msg), "count")) /\ IsSide(Field(Val(m.msg), "taker_side"))

\* The sink is called for a message if and only if it is well formed, so the
\* sequence of checks in event_parser.cpp and the dispatcher's chain of types
\* (dispatcher.hpp:29-71) refuse exactly what types.hpp cannot hold, and the
\* prices above PRICE_MAX.
SinkGetsTheWellFormed ==
  \A n \in DOMAIN received :
    WellFormed(received[n]) <=> \E i \in DOMAIN out : out[i].to = "sink" /\ out[i].n = n

\* A time in seconds whose nanoseconds a Timestamp can hold
HasTime(msg) ==
  /\ Kind(Field(msg, "ts")) = "int"
  /\ Val(Field(msg, "ts")) * NsPerSecond \in -Int64Max - 1 .. Int64Max

\* The numbers of a message but its time, by the field of the event that
\* carries them
Numbers(m) ==
  LET msg == Val(m.msg)
      book(v) == [i \in DOMAIN Val(v) |-> [price |-> Val(Val(Val(v)[i])[1]),
                                          size  |-> Val(Val(Val(v)[i])[2])]]
  IN CASE Val(m.type) = "orderbook_snapshot" ->
            [sequence |-> Val(m.seq), yes |-> book(msg["yes"]), no |-> book(msg["no"])]
       [] Val(m.type) = "orderbook_delta" ->
            [sequence |-> Val(m.seq), price |-> Val(msg["price"]), delta |-> Val(msg["delta"])]
       [] Val(m.type) = "trade" ->
            [yes_price |-> Val(msg["yes_price"]), no_price |-> Val(msg["no_price"]),
             count |-> Val(msg["count"])]

\* No static_cast of event_parser.cpp ever changes a number: what reaches the
\* sink is what the exchange has sent, with a time, if there is one that fits
\* 64 bits, in nanoseconds (types.hpp:22).
NothingTruncated ==
  \A i \in DOMAIN out : out[i].to = "sink" =>
    LET m == received[out[i].n]
    IN /\ \A f \in DOMAIN Numbers(m) : out[i].event[f] = Numbers(m)[f]
       /\ out[i].what = "on_trade" /\ HasTime(Val(m.msg)) =>
            out[i].event.ts = Val(Val(m.msg)["ts"]) * NsPerSecond

IsOutcome(e) ==
  e.to = "sink" \/ e.what \in {"parse_error", "unsupported_message_type"}

\* Every message has exactly one outcome, in the order in which they came:
\* a call of the sink, a parse_error or an unsupported_message_type.
OneOutcomePerMessage ==
  LET outcomes == {i \in DOMAIN out : IsOutcome(out[i])}
  IN /\ {out[i].n : i \in outcomes} = DOMAIN received
     /\ \A i, j \in outcomes : i < j => out[i].n < out[j].n

IsNumbered(e) == e.to = "sink" /\ e.what \in {"on_snapshot", "on_delta"}

\* When the exchange numbers its messages, a hole in the sequence numbers the
\* sink sees has its reason in the log between the two calls: a message that
\* could not be parsed, or a new connection.
HolesAreExplained ==
  \A i, j \in DOMAIN out :
    /\ i < j /\ IsNumbered(out[i]) /\ IsNumbered(out[j])
    /\ \A k \in i+1..j-1 : ~IsNumbered(out[k])
    => \/ out[j].event.sequence = out[i].event.sequence + 1
       \/ \E k \in i+1..j-1 : out[k].what \in {"parse_error", "ws_open"}
=============================================================================
