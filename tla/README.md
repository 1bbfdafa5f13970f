# kalshi-autotrader in TLA+

A TLA+ development of the market-data client in this repository: what is
modelled, what TLC checks on small instances, and what TLAPS proves for every
instance. Paths are relative to the repository; `md/feed_handler.hpp` stands for
`include/kalshi/md/feed_handler.hpp`, `config.cpp` for `src/kalshi/config.cpp`,
and so on.

## 1. The system

`main` loads `config.json`, makes a logger, credentials and a websocket feed, and
runs the feed. Two threads exist: the main thread, which also runs the
`io_context` event loop, and the logger's writer thread.

    main ── AppContext::build ── load_config
     │            ├── AsyncJsonLogger ──(thread)── run()
     │            ├── load_auth_from_env, build_ws_headers
     │            └── SubscriptionCommand
     └── FeedHandler::run ── io_context
                  ├── WsClient (one at a time) ── boost::beast
                  ├── reconnect timer (steady_timer)
                  ├── raw message file
                  └── Dispatcher ── event_parser ── MarketSink (LoggingSink)

### Inventory

| Component | State it keeps | Operations | Interacts with | Hard | Correct when |
|---|---|---|---|---|---|
| AsyncJsonLogger (`logging/async_json_logger.*`) | `queue_`, `stop_`, `dropped_count_`, the stream; the writer's local batch | constructor, `log`, `enqueue`, `run`, destructor | called by everything on the main thread; its own writer thread | two threads, a condition variable, two atomics outside the mutex, a bounded queue | what is written is in order, every drop is counted, nothing is left behind, the destructor returns |
| WsClient (`md/ws_client.cpp`) | the operations in flight, the stream's timeout, the buffer of a write | `connect`, `send_text`, `close`, a handler per operation | callbacks into FeedHandler | handlers with a bare `this`, a timeout that races success, a buffer that must outlive a write | one chain of operations; handlers run on a live object; the timeout limits what it is meant to limit |
| FeedHandler (`md/feed_handler.hpp`) | `RunState`: client, timer, backoff, limit, counters | `run`, `on_open`, `on_message`, `on_error`, `schedule_reconnect` | owns WsClient, calls Dispatcher and logger | several errors from one loss, expired timers that cannot be cancelled, clients destroyed from a handler | the loop never runs dry, reconnects come, the backoff and the limit behave |
| Dispatcher, parsers (`md/dispatcher.hpp`, `md/*_parser.cpp`) | none | `on_message`, three `parse_*` | FeedHandler, MarketSink | range checks and casts across widths, order of checks | the sink gets the well-formed messages, unchanged, and only those |
| Config (`config.cpp`) | none | `load_config` | AppContext | defaults, unsigned to signed casts, optional sections | an accepted file is usable and is obeyed |
| Subscription (`md/protocol.cpp`) | the request and its text | `build_request`, `build_json` | AppContext, WsClient | names put into JSON as they are | tickers are there when the channel needs them; the command says what the file says |
| Auth (`auth.cpp`) | none | `load_auth_from_env`, `build_ws_headers` | AppContext, each reconnect | key formats | the documented formats work |
| AppContext, main (`app/app_context.cpp`, `main.cpp`) | owns the above | `build`, `log_config`, `run` | everything | early returns that destroy a logger with events in it | the reason of a failure is on disk when the process ends |
| Sinks (`md/model/market_sink.hpp`, `app/logging_sink.*`) | none | `on_snapshot`, `on_delta`, `on_trade`, `on_status` | Dispatcher, logger | a burst of calls meets the bounded queue | the log can be read together with the raw message file |
| Log events and fields (`logging/logger.hpp`, `log_fields.hpp`) | the fields of an event | `log`, `log_raw`, `add_*`, `write_event` | every caller; the writer thread | text from outside in a line of JSON | each line is one JSON object that says what was logged |
| Types, policies | none | data | | | |

### Hazards

PROJECT.json lists each at its line. In short: the logger's threads (a lost
wake-up in the destructor, the swap against the push, the unlocked drop counter,
a crash between swap and flush, a full queue, sleeping with work owed); the event
loop (a destroyed client's handlers, expired waits that are not cancelled, the
armed connect timeout, the freed write buffer, two errors for one loss, a loop
without work, stale headers, backoff and limit across reconnects); the parsers
(widths, seconds to nanoseconds, a type nobody routes, capture before parse);
the configuration (casts before checks, a limit compared with the other's
default, errors taken for absence, duplicated lists, truncated durations, texts
put into JSON, the parts of the url); the whole program (a log that is ahead of
the capture, a hole without its explanation, a line that never arrives); and the
exit paths of `main`.

## 2. Modules

    LossyLog <──refines── AsyncJsonLogger <── MCLogger
                               ^
                               │ INSTANCE Logger
    JsonValue <── Config <── Startup <──EXTENDS, refines── Autotrader <── MCAutotrader
        ^  ^         ^                                         │
        │  │         └── ConfigTexts <── MCConfig              │ INSTANCE Market
        │  └── JsonText <──┘                                   │
        └── EventParser <── MarketFeed <───────────────────────┘
                                ^  \── MCMarket
                                │ INSTANCE Market, refines
                            MarketLoop <── MCMarketLoop
                                │ INSTANCE Loop
                                v
    WsClient <── FeedHandler <── MCFeed
                  └──refines── FeedSession

    Proofs (EXTENDS the module it is named after; ──> takes theorems from):

    AsyncJsonLoggerProofs <──┬── AutotraderProofs (of Startup and Autotrader)
    EventParserProofs <── MarketFeedProofs
    JsonTextProofs <── ConfigProofs (of Config and ConfigTexts)
    FeedHandlerProofs    MarketLoopProofs

The feed has two views. `FeedHandler` has the event loop and no messages,
`MarketFeed` the messages and no event loop; `MarketLoop` puts them together and
shows that the result is `MarketFeed`. `Autotrader`, the whole program, then
needs only `MarketFeed` beside the logger's thread, and shows that it starts, logs
and ends as `Startup` says.

The MC modules give the sets that cfg files cannot write and nothing else. In each
module, a definition under "Mutant:" is a plausible bug in the definition that
follows it; no behaviour of the model uses it.

### AsyncJsonLogger, LossyLog

One action per critical section or unlocked statement of the two threads, with a
program counter per thread. `Log` is `log()` with its three ways through `enqueue`
(`Push`, `PushOverOldest`, `DropNew`). `StoreStop`, `NotifyAll` and `Join` are the
statements of the destructor; the first two take no mutex in the code and none in
the model. `run()` is `CheckStop`, then `cv_.wait` in three steps (`FindNothing`
evaluates the predicate and keeps the mutex, `Park` blocks and releases it,
`WakeSpuriously`), `Break` or `TakeBatch`, `WriteEvent` per event, `Summarise`,
`Flush`, and the drain after the loop (`TakeRemaining`, `WriteEvent`, `Finish`).
`durable` is how much of `written` has been flushed: a crash loses the rest. An
event is the number of its `log()` call.

`LossyLog` is the promise without threads: events are kept in call order and
delivered in order; one may be dropped only if at least `QueueSize` are
undelivered, and drops are counted until reported.

### WsClient, FeedHandler, FeedSession

All of this runs on one thread, so a handler with the callbacks it makes is one
action, and the interleaving is which handler is next and with which error code.
`WsClient` says what a handler does to a client (`ops`, the operations whose
handler is still to come; `deadline`, the tcp_stream timeout; `unsent`, what the
write still has to read of the payload), and `FeedHandler` conjoins its callback:
`Opened` is `on_ws_handshake` with `on_open`, `Received` is `on_read` with
`on_message`, `Failed` any handler with an error, with `on_error`. `TimerExpires`
queues the handler of the reconnect timer and `OnTimer` runs it: between the two
`expires_after` cannot cancel it any more. `OnTimer` replaces the client, which
destroys it. A handler still to come for a destroyed client (`StrayHandler`) is
undefined behaviour; its outcomes here are that the process dies or that it runs
as an aborted operation, and so calls `on_error`.

`FeedSession` is a reconnecting session as seen from outside.

### JsonValue, EventParser, MarketFeed

`JsonValue` is the view simdjson's on-demand API gives: an absent field, a value
of a kind, or `Damaged`, a place where the lookup itself is a syntax error.
`EventParser` has the checks of `event_parser.cpp` and `message_parser.cpp` in
their order (the first failing one is the error) and the casts with their widths.
`MarketFeed` is the callbacks of `FeedHandler`, each a step: `Receive` is
`on_message` (capture in the raw file, log, dispatch, count), `ReportError` is
`on_error` with `schedule_reconnect`, `FireTimer` the handler of the reconnect
timer, `Open` is `on_open` and `Control` is `on_control`. `out` is everything they
emit, in order: lines of the raw file, calls of the sink, calls of the logger.
`OnMessage`, `OnError`, `OnTimer`, `OnOpen` and `OnControl` add what the network
may choose: an error without reconnect is the end, a timer fires for an error, a
connection opens for the start or for a timer. Sequence numbers are the exchange's
and start again on a new connection (`Number`, external). The constant
`Messages(past)` is what may come next after the messages `past`.

### MarketLoop

Each handler of `FeedHandler` that makes a callback is conjoined with the effect
of that callback in `MarketFeed`. All guards come from the event loop: that a
callback comes only when `MarketFeed`'s network may choose it is what
`ImplementsMarketFeed` checks, with stray handlers, double errors and a failed
write beside a healthy read. So the properties of `MarketFeed` hold for the
messages of the real loop.

### Config, JsonText, ConfigTexts

`Config` is `load_config` with each check, default and cast, plus the consumers
whose agreement with it matters (`BuildLoggerOptions`, `BuildRequest`).
`JsonText` is `append_json_string`, `append_field_value` and `write_event`: a text
is a sequence of symbols, where a word of the program is one symbol and a name or
message from outside may have any character that JSON treats specially. `Numerals`
says how a number is written (`std::to_string`). Beside it stands a reader of JSON
by its grammar, which is no code of the repository and what `LogLinesReadBack` and
`CommandReadsBack` compare with: `Reader` is what it has read so far,
`ReadSymbol` takes one more symbol, `After` a whole text. `ConfigTexts` has the
log calls that carry outside text, `build_json` and `parse_ws_url`.

### Startup, Autotrader

`Startup` is `main` from first line to last: the stages of
`AppContext::build` with their early returns, `log_config`, the run, and the
destruction of the logger, composed with `Config` (EXTENDS) and with
`AsyncJsonLogger` (INSTANCE), whose thread runs beside every stage. While the feed
runs, it may log anything and, without reconnect, return.

`Autotrader` has the feed in place of that. `Callback` is one callback of
`MarketFeed`; `Emit` then deals with the entries of `out` one by one: a line of
the raw file, or a call of the logger if the level lets it through (`Levels`, from
`feed_handler.hpp`, `app_context.cpp` and `logging_sink.cpp`). Between two `Emit`
the logger's thread may do any number of steps. `RunOptions` is as
`build_run_options` fills it: no message limit, reconnect as in the file, headers
refreshed with the key that has signed the first ones. `lines` has what each
accepted log call says; `BootLine` is for those of `Startup`, about which no property
asks. `LogFile` is the lines of the events the logger's thread has written.

## 3. What the runs check

Deadlock is checked in every run: `Terminated`, `Over` and `ConfigDone`
mark where the system may stop.

| Run | Question | Bounds |
|---|---|---|
| logger_drop_oldest | type, order, conservation, newest kept, nothing owed while asleep, crash loss, flushed at destruction; implements LossyLog; drops get reported | queue 2, 6 calls |
| logger_drop_newest | with the other policy, whose full queue wakes nobody: implements LossyLog, drops get reported | queue 2, 6 calls |
| feed_listens | no subscribe command, so one operation at a time: limit, no handler of a destroyed client, only dead clients replaced, implements FeedSession | 2 clients, delays 2..5, limit 2 |
| feed_subscribes | read and write outstanding, double errors and stray handlers: type, loop has work, backoff reset, every reconnect comes, opens again | 2 clients, 2 chunks, no limit |
| market_loop | the loop with its callbacks' effects, with and without reconnect: implements MarketFeed | 2 clients, 2 chunks, limit 2, 3 messages, 2 errors, 1 control frame |
| market | about 1340 forms of message and streams of broken, unsupported, out-of-range and good ones: the sink gets the well-formed ones with their numbers, one outcome each, sequence holes explained | prices 0..2, sizes 0..7, deltas -4..3; up to 3 messages by the limit (of 4), 1 error and so 2 connections, 1 control frame |
| config_loads | about 1070 files: accepted means usable, understood by the logger, obeyed; log lines and the command read back; the url is split right | 64 bits scaled to 20; 22 spellings of names, numerals 1 and 2 |
| program | the whole program at levels debug to fatal, with and without reconnect: the reason of a failure is on disk, no thread outlives main, the log is behind the capture, explains its holes, ends with the last error, gets every message; implements Startup | queue 3, DropOldest, 9 log calls, 3 messages, 1 error, 2 connections |

Why the bounds are enough. *Queue 2, 6 calls* fill the queue three times: one
batch being written, one queue full, further drops while both last; there is room
for a drop, its summary, and another drop. *Two clients*: there is one current
client, and a client with a pending handler is not reused; a third would only be
a second destroyed client. `MaxDue` names the bound on queued expired waits (2,
since asio runs queued handlers in order). *Delays 2..5*: 2, 4, then the cap that
is no power-of-two multiple. The theorems below remove these bounds for the
safety part, except that `MaxDue` is in the model itself. *Scaled widths* keep
every relation that matters: `PriceMax < 2^16`, sizes unsigned 32, deltas signed
32, seconds to nanoseconds in 64 bits; each boundary value and both its
neighbours are among the inputs. Widths of the parsers are 2, 3 and 4 bits; those
of the config 20, so that the program's own defaults fit. *Messages*: the rare
forms come alone, since the parsers keep nothing from one message to the next;
the seven of a stream come in every order. *Two connections* are one reconnect,
across which `MarketFeed` resets nothing but the exchange's numbering. *Two
errors* in market_loop are the double error of one lost connection, and so two
timers. *Queue 3, 9 log calls* in program: the two lines of `log_config`, opening,
the first message and two more with their outcomes, an error and its reconnect fit
into 9; a queue of 3 is overrun by a single callback and its neighbours while the
writer is at work, and so small that the error at the end meets a full queue. With
DropNewest `run_failed` can be the line that is dropped, and
`FailureIsOnDisk` says so: it promises it only for DropOldest, the default, or
when the reason is the first event. A control frame is one more log call at level
info and is left out of program (it is in market and market_loop).

Where a property gives way, it does so narrowly. `HolesInLogExplained` accepts a hole
without an explanation if lines between the two were dropped *and* the drop is
counted; without the first part any drop would excuse any hole.
`MessageReachesLog` stops promising when something was dropped or the 9 calls are
used up; most behaviours do neither.

### Where the code is not what it says

Four runs are expected to fail, each with one property; their sentence is quoted
in PROJECT.json "findings".

| Run | What TLC shows |
|---|---|
| logger_destructor | The destructor stores `stop_` and notifies without the mutex. Both can fall between the worker's false predicate and its blocking; `join()` then waits for ever. |
| feed_strays | With a subscribe command, one loss fails the read and the write: two errors, two timers of which the expired one is not cancelled. The second replaces a client that is connecting, whose handler comes later (13 states). |
| feed_timeout | `expires_after(CONNECT_TIMEOUT)` is never cleared and closes an open connection. |
| feed_payload | `send_text` starts an asynchronous write on its by-value parameter; a payload of more than one write buffer is read after it is destroyed. |

feed_strays has an action constraint, `LossIsReportedFirst`: a client is not replaced
before it has reported the loss for both its operations. Even so a handler strays.
Without the constraint TLC stops at a shorter case (10 states), where one error and
one timer replace a client whose other operation is still outstanding; the handler
of that one then comes too late.

feed_strays is also why the session refinement is checked only without a
subscribe command (feed_listens), and proved without reconnect as well
(`SessionSteps`): with both it does not hold, because a single loss counts as two.
What does hold then is in feed_subscribes and market_loop.

Seen while modelling, and visible in a single line, so without a run:

- `dispatcher.hpp:70`: `market_status` is not in the chain of types; `on_status`
  is never called and the message is reported as unsupported.
- `types.hpp:15`: the comment gives a price 1-99 cents, against the one above it
  (0-100) and `PRICE_MAX` at line 26. The parsers accept 0 and 100, and
  `SinkGetsTheWellFormed` takes them as well-formed.
- `event_parser.cpp:143`: seconds times 10^9 overflow for a time out of range.
- `config.cpp:381`: an error looking up an optional section counts as its absence.
- `feed_handler.hpp:198`: a `handshake_timeout_ms` below 1000 becomes 0 seconds.
- `protocol.cpp:20`: names in the subscribe command are not escaped; a ticker with
  a quotation mark or a backslash breaks the command. `CommandReadsBack` is about
  the others.
- `ws_client.cpp:40`: the port is what follows the first colon, so a host given as
  an address in brackets (`wss://[::1]/`) is split inside the address.
- `auth.cpp:191`: `KALSHI_PRIVATE_KEY` set to nothing hides
  `KALSHI_PRIVATE_KEY_PATH`.
- `auth.cpp:218`: an OpenSSH key is refused, where `auth.hpp:48` names the format.

## 4. Fairness

*Logger* (`FairSpec`): weak fairness of the writer thread (`Work`: it is
scheduled) and of a destructor that has begun (`Destroy`). No fairness for
`log()`, for starting the destructor, or for spurious wake-ups; so
`DropsGetReported` rests on the notifications alone.

*Feed* (`LoopFairness`): the timer expires, a queued handler is run, aborted
operations complete. That is what `io_context::run` does. No fairness for the
network. *Liveness on a network* (`NetworkFairness`, the premise of `OpensAgain`
and no part of the specification): a
phase of connecting ends one way or another (the timeouts see to that), a phase
tried again and again with fresh headers succeeds at some point, and so does
refreshing the headers. Without these last assumptions an unreachable exchange is
a counterexample to any such property. `PeerCloses` has none: `close()` is
synchronous and the peer need not answer.

*Program* (`ProgramFairness`): both threads get processor time. The logger's
thread and the destructors are weakly fair; `Emit` is strongly fair, because the
mutex it needs is taken again and again by a writer that is woken for nothing (no
fairness for that) and free again and again, and a thread that tries gets it in
the end. No fairness for the network or the start.

*LossyLog* and *FeedSession* are fair in what they promise: kept events are
delivered, pauses end.

## 5. What is proved

Eight modules of proofs, for every value of the constants. An invariant's proof
has a step for Init, one for each action, and a temporal step; facts used in
several places are lemmas. Every safety invariant and action property of the
passing runs is proved, and each refinement as far as it is safety.

### AsyncJsonLoggerProofs

For every queue size, both policies and any number of calls, from
`LoggerAssumption` alone (a positive queue size, a known policy, a natural
bound), which `config.cpp:245` and `parse_drop_policy` establish (see also
`Usable` and `LoggerAgrees` below):

| Theorem | Property |
|---|---|
| TypeCorrect | `TypeOK` |
| ControlCorrect | `ControlInv` (below) |
| IdleWorker | `IdleOwesNothing` |
| DestroyedIsFlushed | `FlushedAtDestruction` |
| BoundedLoss | `CrashLossBounded` |
| Ordered | `InOrder` |
| Conserved | `Conservation` |
| NewestSurvives | `NewestKept` |
| Refinement | `Spec => Lossy!SafetySpec`: each step of the logger is one of the lossy log, or leaves it as it is |

None of the invariants is inductive by itself. `ControlInv` ties the two program
counters to the data: where the worker can be given `stop` and the owner, that
the batch is empty except while writing or draining, that batch and queue have at
most `QueueSize` events, what is flushed and reported at each place, and what a
drop count implies about the queue. `IdleWorker`, `DestroyedIsFlushed` and
`BoundedLoss` follow from `ControlInv` in the state they are about. `OrderInv`
adds that the pipeline ascends and ends at or before `logged`: the bound is what
an append needs. `Conserved` and `NewestSurvives` are then one step per action.
The refinement proof needs that the queue is a suffix of the pipeline, so that
dropping its head is the abstract `Evict` of the element `QueueSize` from the end.

### FeedHandlerProofs

For any set of client objects, size of the subscribe command, delays and limit,
from `WsClientAssumption` and `FeedAssumption` (`NoClient` is no client; the
initial delay is at most the maximum, `config.cpp:201`):

| Theorem | Property | Holds |
|---|---|---|
| TypeCorrect | `TypeOK` | always |
| LimitKept | `MessageLimit` | always |
| NeverIdle | `LoopHasWork` | always |
| BackoffIsReset | `HealthyStartsAfresh` | always |
| HandlersOwned | `HandlersRunOnOwnedClient` | `OneErrorEach` |
| DeadReplaced | `ReplacesOnlyDeadClients` | `OneErrorEach` |
| SessionSteps | `Spec => Session!SafetySpec` | `OneErrorEach` |

`OneErrorEach` is: no subscribe command, or no reconnect. It is a premise and not
an assumption because the last three are false without it (feed_strays).
`AppContext` always sets a subscribe command, so for the program as `main` starts it
these three say something only with `auto_reconnect` false. The first
four hold through double errors and stray handlers alike.

`LoopHasWork` is not inductive: a write alone would satisfy it, and its handler
starts nothing. `WorkInv` asks for an operation other than a write. `OwnInv`
says why nothing can stray: only the current client has anything outstanding, a
wait (or an expired one, never both) only when it has nothing either, and, without
a subscribe command, one operation at most. `PhaseInv` adds that a client is
either connecting, with one operation, or reading and writing, which is what makes
`Phase` a function of the steps the session allows.

### JsonTextProofs

For every event, from `NumeralsAssumption` (a numeral is a string without
quotation marks, backslashes or control characters):

| Theorem | Says |
|---|---|
| AnyLineReadsBack | `write_event` makes one line, with no line feed but the last, that the reader takes for the level, component, message, fields and raw text of the event |

The event is any: fields and lists in any number, texts of any length and any
characters (level, component and message are a word, one symbol). What carries the
proof is that two texts that are read can be written one after the other.
`Spells(text, chars)` says that from wherever the reader is inside a string,
`text` adds `chars` to it; `Reads(text, tokens)` that from wherever it is between
strings, `text` gives `tokens`. `Escape` spells its
character, so `JsonString` reads as its text, by induction on its length
(`PartsSpell`); lists and fields follow in the same way (`PartsRead`), and a line
is a fixed number of such parts (`EventReads`).

The library's induction theorems cannot be used here (they take an operator), so
`UpTo` stands in for them: a set that has 0 and each successor has every number,
because otherwise the rest had a least one (`MinIsLeast`, from the
well-foundedness of <). `Flattening` shows that the function `FlattenSeq` chooses
exists and is the only one. `Words` lists the words the program writes itself,
since the provers do not know of a literal that it is in `STRING`.

The proof also found a fault in the reader as it was first written: two guards of
a CASE overlapped, so that what it did there was left to TLC's order of evaluation.

### ConfigProofs

These extend `ConfigTexts`. For every set of files and every even width, from
`ConfigAssumption`, `FilesAssumption` (a JSON array is a finite sequence),
`NumeralsAssumption` and `TextsAssumption` (a text is a finite sequence, and the
names of an accepted file have one):

| Theorem | Property |
|---|---|
| Usable | `AcceptedIsUsable` |
| LoggerAgrees | `LoggerUnderstandsConfig` |
| Obeyed | `FileIsObeyed` |
| UrlSplit | `UrlIsSplit` |
| LogLines | `LogLinesReadBack` |
| CommandReads | `CommandReadsBack` |

Since `load_config` runs once, the state is no more than its result (`LoadInv`, a
lemma), and the theorems are about `LoadConfig`. The lemmas say what it takes for
each section to be accepted; the case for 64 bits is `ToInt64`: a value that is not
negative after the cast is the one in the file.
`UrlSplit` is about urls of any length: `SplitsAt` says where the first colon and
the first slash are, `OneSplit` that no other place fits the form of a url, and
`ParserSplits` that `parse_ws_url` cuts there (or refuses an empty host or port).
`LogLines` shows that each of the program's events is one that
`AnyLineReadsBack` is about (`LoggedAreEvents`). `CommandReads` needs the parts
of `JsonTextProofs`, since `build_json` escapes nothing: `PlainSpells` says that a
name which needs no escape spells itself, `ArrayReads` that a list of such names
is read as these names (its commas come after each but the last, where the
logger's come before each but the first).

### EventParserProofs, MarketFeedProofs

For any widths and prices with `ParserAssumption`, any limits with
`MarketFeedAssumption`, and any `Messages`:

| Theorem | Property | Premise |
|---|---|---|
| SnapshotIsParsed, DeltaIsParsed, TradeIsParsed | the parser accepts a message exactly if its fields fit `types.hpp`, and the event has their values | `HasProperFields`, the same of one message |
| TypeCorrect | `TypeOK` | `MessagesAreMessages` |
| OneOutcome | `OneOutcomePerMessage` | `MessagesAreMessages` |
| SinkGetsWellFormed | `SinkGetsTheWellFormed` | `MessagesAreMessages` |
| NothingIsTruncated | `NothingTruncated` | `MessagesAreMessages` |
| HolesHaveReasons | `HolesAreExplained` | `MessagesAreMessages`, `ExchangeNumbers` |

The parser theorems have the weight: each check refuses what the cast after it
would change, for 16, 32 and 64 bits alike. `TypeInv` is `TypeOK` with what a
message and an entry of `out` may be. `OutcomeInv` says that each outcome in `out`
is what the dispatcher makes of *its* message, with some time, and that outcomes
ascend; `SinkGetsTheWellFormed` and `NothingTruncated` then follow in the state.
`CaptureInv` has the raw line before anything else about a message. `HoleInv` adds
to `HolesAreExplained` what a hole would start from: with no reason logged since
the last numbered call of the sink, that call had the exchange's last number.

The premises are about the constant `Messages(past)`, for every sequence `past`,
so TLC cannot evaluate them as assumptions. `MessagesAreMessages` says that a
message is a document, empty or broken or not, whose numbers are integers and whose
arrays have a length, as simdjson gives them; the messages of all runs are such.
`ExchangeNumbers` says that the exchange numbers its snapshots and deltas and
nothing else, which the streams of market and program do. It is an assumption about
the exchange and not about this code: that there is one numbering per connection.
`types.hpp:12` speaks of one "per market stream"; in the runs all messages are of
one market, where the two are the same, and for several markets with numbers of
their own the theorem says nothing. The rare forms of market, which have odd
sequence numbers on purpose, come alone and so leave no hole to explain.

### MarketLoopProofs

For any clients, chunks, delays, limits and messages, from no assumption:

| Theorem | Property |
|---|---|
| TurnsAreCounted | `LoopInv` (below) |
| LoopIsMarketFeed | `ImplementsMarketFeed` |
| LoopIsFeedHandler | the loop is `FeedHandler`'s, with `auto_reconnect` as in the options |

So every theorem about `MarketFeed` and every one about `FeedHandler` holds of the
two together. The steps of the loop are put into a few kinds (an error is
reported, a timer fires, a client opens, reads, goes on), each of which is shown
to keep `LoopInv` and to be a step of `MarketFeed`. `LoopInv` counts: the timers
that have fired and those still to fire are no more than the errors; connections
are at most one more than timers, and fewer while the current client has yet to
open. `MarketFeed` has these as guards; the loop has them only because each wait
is set in `on_error`, each client made by the start or a wait, and `on_open`
called once for each. Stray handlers and double errors are included: each is an
error of its own.

### AutotraderProofs: Startup

For any files, any logger and any number of events, from `StartupAssumption` and
the assumptions of the modules it composes:

| Theorem | Property |
|---|---|
| TypeCorrect | `TypeOK` |
| LoggerIsUsedWell | `Spec => Logger!Spec` (as `LP!Spec`): each step leaves the logger alone or is one of its own |
| LoggerEndsFirst | `NothingOutlivesMain` |
| FailureIsLogged | `FailureIsOnDisk` |

`LoggerIsUsedWell` gives the program every theorem of `AsyncJsonLoggerProofs`.
`StageInv` says what `main` has loaded at each of its stages; so a later stage means
that an earlier check has passed. `FatalInv` says who has the logger: it is alive
until the unwinding begins, and at the end its destructor has returned or there
never was one to run. And it follows the number of the event with the reason: that
is the last one logged, so with DropOldest never the one evicted
(`NewestSurvives`); a reason that is the first event is alone in the pipeline. When
the destructor has returned nothing is left in queue or batch (`DestroyedIsFlushed`),
so it is in the flushed file.

### AutotraderProofs: Autotrader

From `AutotraderAssumption` (and the same premises about messages):

| Theorem | Property | Premise |
|---|---|---|
| FeedIsMarketFeed | the feed's steps are `MarketFeed`'s, without a limit | |
| ProgramImplementsStartup | `ImplementsStartup` | |
| ProgramEndsLoggerFirst | `NothingOutlivesMain` | |
| ProgramLogsFailure | `FailureIsOnDisk` | |
| ProgramTypeCorrect | `ProgramTypeOK` | `MessagesAreMessages` |
| CaptureIsAhead | `LogBehindCapture` | `MessagesAreMessages` |
| LastWordIsOnDisk | `LastWordOnDisk` | `MessagesAreMessages` |
| HolesInLogHaveReasons | `HolesInLogExplained` | `MessagesAreMessages`, `ExchangeNumbers` |

The first two are step by step, and carry the theorems about `MarketFeed`,
`Startup` and the logger over to the program. What is new relates the two files.
`LineInv`: `lines` has a line per accepted call, and each line about the feed is
one of the entries of `out` that have been emitted; with `CaptureInv` and the
logger's `InOrder` the log is behind the capture. `LastInv` follows the error that
ends the feed to the end of `lines`. `LineHolesInv` is `HoleInv` for `lines`
instead of `out`, at level debug and below, where no reason is filtered out. A line
between two of the file that is not in the file was dropped, and is among the drops
that the logger has counted (`Conserved`).

### Only model-checked

Liveness everywhere (`DropsGetReported`, `ReconnectComes`, `OpensAgain`,
`MessageReachesLog`) and the fairness part of `ImplementsLossyLog` and
`ImplementsSession`, which are out of the prover's reach. So is that
`HandlersRunOnOwnedClient` does not hold without `OneErrorEach`, which is a
counterexample that TLC shows (feed_strays), and the other three findings.

## 6. Not modelled

- The fallback to stderr when the log file cannot be opened: it changes where the
  lines go. Log fields of type double, which no call adds. Characters above the
  control characters that are not well-formed UTF-8.
- TLS details; which address of a host is connected to.
- In `Autotrader`: control frames; that a stray handler may crash the process
  (MarketLoop has it as the end of the loop).
- The cryptography of `auth.cpp` (OpenSSL); running out of memory.
- `client_order_id`, a string handed through; FanoutSink's loop; `market.hpp`
  (unused).
- The rate of reconnects: the model has delays but no clock. An initial delay of
  0, which is accepted, reconnects without a pause.
- The raw message file's truncation at each start (one statement).
- Configured `env` never reaches `resolve_ws_url`: the endpoint is `ws_url`; no
  property of the models is about it.

## 7. Plan

Done in this order: logger and its proofs, event loop and its proofs, parsers and
message path, configuration and its proofs, startup; the compositions
(MarketLoop, Autotrader) and the texts (JsonText, ConfigTexts); then the proofs
about the message path, the startup, the program, the loop's refinement and the
texts.

What is left is liveness, which stays with TLC, and whatever new code needs.

## 8. Running it

    tlc -config LoggerDropOldest.cfg MCLogger.tla
    tlc -config FeedSubscribes.cfg MCFeed.tla
    tlc -config Market.cfg MCMarket.tla
    tlc -config ConfigLoads.cfg MCConfig.tla
    tlc -config MarketLoop.cfg MCMarketLoop.tla
    tlc -config Autotrader.cfg MCAutotrader.tla
    tlapm AsyncJsonLoggerProofs.tla
    tlapm FeedHandlerProofs.tla
    tlapm JsonTextProofs.tla
    tlapm ConfigProofs.tla
    tlapm EventParserProofs.tla
    tlapm MarketFeedProofs.tla
    tlapm MarketLoopProofs.tla
    tlapm AutotraderProofs.tla

PROJECT.json has every run with its module and cfg, the mutant each property
must catch, and for each definition the lines it models.
