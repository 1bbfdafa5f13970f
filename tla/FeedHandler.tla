----------------------------- MODULE FeedHandler -----------------------------
(***************************************************************************)
(* kalshi::md::FeedHandler::run(): the event loop that owns one WsClient   *)
(* at a time, takes its messages, and after an error makes a new client    *)
(* when the reconnect timer fires.                                         *)
(*                                                                         *)
(* One thread runs the loop, so a handler with all the callbacks it makes  *)
(* is one step; which handler runs next, and with which result, is up to   *)
(* the network.  The handlers hold a bare pointer to their WsClient        *)
(* (ws_client.cpp), and making a new client destroys the old one: a        *)
(* handler that is still to come for a destroyed client is undefined       *)
(* behaviour.  The model gives it the outcomes that matter: the process    *)
(* dies, or the memory still looks like the client and the handler runs    *)
(* as the abort of its operation.                                          *)
(***************************************************************************)
EXTENDS WsClient

CONSTANTS
  AutoReconnect,            \* options.auto_reconnect
  InitialDelay, MaxDelay,   \* options.reconnect_initial_delay, _max_delay
  MaxMessages               \* options.max_messages, 0 = unlimited

NoClient == "none"

\* parse_ws refuses initial > max (config.cpp:201).
ASSUME FeedAssumption ==
  /\ NoClient \notin Clients
  /\ AutoReconnect \in BOOLEAN
  /\ InitialDelay \in Nat /\ MaxDelay \in Nat /\ InitialDelay <= MaxDelay
  /\ MaxMessages \in Nat

VARIABLES
  loop,        \* where run() is
  urlOk,       \* does options.ws_url parse?
  client,      \* state.client
  armed,       \* the reconnect timer has a wait that has not expired
  due,         \* expired waits whose handler has not run yet
  current,     \* state.reconnect.current
  remaining,   \* state.remaining
  seen,        \* state.seen, up to SeenCap
  strayed      \* a handler of a destroyed client has run

feedVars == <<loop, urlOk, client, armed, due, current, remaining, seen, strayed>>
vars == <<wsVars, feedVars>>

Loop == {"start",     \* before connect_client
         "running",   \* in ioc.run()
         "closing",   \* in on_message's client->close(), waiting for the peer
         "stopped",   \* ioc.stop() has been called, run() returns
         "failed",    \* run() has returned OutputOpenFailed
         "crashed"}   \* the process died of a handler of a destroyed client

\* Bound: whether anything was seen, and how it compares to MaxMessages.
SeenCap == MaxMessages + 1

\* Bound: expired waits that can be queued.  asio runs queued handlers in the
\* order in which they were queued, so what can still be ahead of an expired
\* wait is the second error of the same client and the wait it causes.
MaxDue == 2

\* The state that init_state leaves, or run() before it.
Init ==
  /\ WsInit
  /\ loop = "start"
  /\ urlOk \in BOOLEAN
  /\ client = NoClient
  /\ armed = FALSE
  /\ due = 0
  /\ current = InitialDelay
  /\ remaining = MaxMessages
  /\ seen = 0
  /\ strayed = FALSE

-----------------------------------------------------------------------------
(* Callbacks and helpers *)

\* Mutants: no std::min, and no doubling
NextCurrentUncapped == 2 * current
NextCurrentStuck == current

\* ReconnectState::next_delay, the new value of current
NextCurrent ==
  IF current < MaxDelay
  THEN IF 2 * current <= MaxDelay THEN 2 * current ELSE MaxDelay
  ELSE current

\* schedule_reconnect.  expires_after cancels the wait that is there, but not
\* one that has expired already.  (A cancelled wait's handler returns at once
\* and is left out.)
ScheduleReconnect ==
  /\ loop' = "running"
  /\ armed' = TRUE
  /\ current' = NextCurrent

\* Mutant: options.auto_reconnect is not looked at
OnErrorAlways == ScheduleReconnect

\* on_error: schedule_reconnect, or stop the loop
OnError ==
  IF AutoReconnect THEN ScheduleReconnect
  ELSE loop' = "stopped" /\ UNCHANGED <<armed, current>>

\* connect_client with client object c; an unusable url makes connect() call
\* on_error before it returns.
ConnectClient(c, oldHeaders) ==
  /\ c # client
  /\ Connect(c, urlOk, oldHeaders)
  /\ client' = c
  /\ IF urlOk
     THEN loop' = "running" /\ UNCHANGED <<armed, current>>
     ELSE OnError
  /\ UNCHANGED <<urlOk, remaining, seen, strayed>>

\* Mutant: no reset of the backoff
OnOpenKeeps == UNCHANGED feedVars

\* on_open up to send_text, which OnWsHandshake covers
OnOpen ==
  /\ current' = InitialDelay
  /\ UNCHANGED <<loop, urlOk, client, armed, due, remaining, seen, strayed>>

\* Mutant: the limit is not looked at
OnMessageNoLimit ==
  /\ seen' = IF seen < SeenCap THEN seen + 1 ELSE seen
  /\ remaining' = IF remaining > 0 THEN remaining - 1 ELSE 0
  /\ UNCHANGED <<loop, urlOk, client, armed, due, current, strayed>>

\* on_message: count, and at the limit close the client and stop the loop.
\* close() is synchronous: it comes back when the peer has answered.
OnMessage ==
  /\ seen' = IF seen < SeenCap THEN seen + 1 ELSE seen
  /\ remaining' = IF remaining > 0 THEN remaining - 1 ELSE 0
  /\ loop' = IF remaining = 1 THEN "closing" ELSE loop
  /\ UNCHANGED <<urlOk, client, armed, due, current, strayed>>

-----------------------------------------------------------------------------
(* Steps *)

\* run(): init_state could not open the raw message file
OutputOpenFails ==
  /\ loop = "start"
  /\ loop' = "failed"
  /\ UNCHANGED <<wsVars, urlOk, client, armed, due, current, remaining, seen,
                 strayed>>

\* run(): connect_client, then ioc.run()
Start ==
  /\ loop = "start"
  /\ \E c \in Clients : ConnectClient(c, FALSE)
  /\ UNCHANGED due

Running(c) == loop = "running" /\ c = client

Resolved(c) ==
  Running(c) /\ OnResolve(c) /\ UNCHANGED feedVars

Connected(c) ==
  Running(c) /\ OnConnect(c) /\ UNCHANGED feedVars

Secured(c) ==
  Running(c) /\ OnSslHandshake(c) /\ UNCHANGED feedVars

\* The exchange may or may not accept headers signed for an earlier attempt.
Opened(c) ==
  Running(c) /\ OnWsHandshake(c) /\ OnOpen

Received(c) ==
  Running(c) /\ OnRead(c) /\ OnMessage

Written(c) ==
  Running(c) /\ OnWrite(c) /\ UNCHANGED feedVars

\* A handler called with an error, on_error included
Failed(c) ==
  /\ Running(c)
  /\ \E op \in Op : Fails(c, op)
  /\ OnError
  /\ UNCHANGED <<urlOk, client, due, remaining, seen, strayed>>

\* A handler of a client that connect_client has destroyed
StrayHandler ==
  /\ loop = "running"
  /\ \E c \in Clients \ {client}, op \in Op : Fails(c, op)
  /\ strayed' = TRUE
  /\ \/ OnError
     \/ loop' = "crashed" /\ UNCHANGED <<armed, current>>
  /\ UNCHANGED <<urlOk, client, due, remaining, seen>>

\* The library at work on the current client
WriteGoesOn(c) ==
  Running(c) /\ WriteChunk(c) /\ UNCHANGED feedVars

TimeoutHits(c) ==
  Running(c) /\ DeadlineExpires(c) /\ UNCHANGED feedVars

\* The wait's time is up and its handler is queued.
TimerExpires ==
  /\ loop = "running"
  /\ armed
  /\ due < MaxDue
  /\ armed' = FALSE
  /\ due' = due + 1
  /\ UNCHANGED <<wsVars, loop, urlOk, client, current, remaining, seen, strayed>>

\* Mutant: the refreshed headers are not stored
OnTimerStale(refreshed) ==
  /\ loop = "running"
  /\ due > 0
  /\ due' = due - 1
  /\ \E c \in Clients : ConnectClient(c, TRUE)

\* Mutant: without fresh headers the attempt is put off, not made
OnTimerInsists(refreshed) ==
  /\ loop = "running"
  /\ due > 0
  /\ due' = due - 1
  /\ IF refreshed
     THEN \E c \in Clients : ConnectClient(c, FALSE)
     ELSE OnError /\ UNCHANGED <<wsVars, urlOk, client, remaining, seen, strayed>>

\* Mutant: the handler waits once more on the timer, which has expired
OnTimerAgain(refreshed) ==
  /\ loop = "running"
  /\ due > 0
  /\ due' = due
  /\ \E c \in Clients : ConnectClient(c, ~refreshed)

\* The wait's handler: refresh_headers may fail, and then the old headers are
\* used; connect_client in any case.
OnTimer(refreshed) ==
  /\ loop = "running"
  /\ due > 0
  /\ due' = due - 1
  /\ \E c \in Clients : ConnectClient(c, ~refreshed)

\* The peer answers the close frame; then ioc.stop().
PeerCloses ==
  /\ loop = "closing"
  /\ loop' = "stopped"
  /\ UNCHANGED <<wsVars, urlOk, client, armed, due, current, remaining, seen,
                 strayed>>

Over == loop \in {"closing", "stopped", "failed", "crashed"}

Terminated == Over /\ UNCHANGED vars

Handler(c) ==
  \/ Resolved(c) \/ Connected(c) \/ Secured(c) \/ Opened(c)
  \/ Received(c) \/ Written(c) \/ Failed(c)

Library(c) == WriteGoesOn(c) \/ TimeoutHits(c)

Next ==
  \/ OutputOpenFails \/ Start
  \/ \E c \in Clients : Handler(c) \/ Library(c)
  \/ StrayHandler
  \/ TimerExpires
  \/ \E refreshed \in BOOLEAN : OnTimer(refreshed)
  \/ PeerCloses
  \/ Terminated

Spec == Init /\ [][Next]_vars

\* The loop starts and goes on: the timer of asio expires, a queued handler
\* gets its turn, and the operations of a destroyed client are aborted.
LoopFairness ==
  /\ WF_vars(Start \/ OutputOpenFails)
  /\ WF_vars(TimerExpires)
  /\ WF_vars(\E refreshed \in BOOLEAN : OnTimer(refreshed))
  /\ WF_vars(StrayHandler)

FairSpec == Spec /\ LoopFairness

\* One way or the other a phase of connecting ends: the resolver answers, and
\* the timeouts bound the rest.
ConnectingEnds == \E c \in Clients :
  /\ ops[c] \cap Connecting # {}
  /\ Resolved(c) \/ Connected(c) \/ Secured(c) \/ Opened(c) \/ Failed(c)

\* Nothing is broken for ever: each phase of connecting succeeds if it is
\* tried again and again, with freshly signed headers as far as the exchange
\* is concerned, and refreshing them succeeds as well.
NetworkFairness ==
  /\ WF_vars(ConnectingEnds)
  /\ SF_vars(\E c \in Clients : ~stale[c] /\ Resolved(c))
  /\ SF_vars(\E c \in Clients : ~stale[c] /\ Connected(c))
  /\ SF_vars(\E c \in Clients : ~stale[c] /\ Secured(c))
  /\ SF_vars(\E c \in Clients : ~stale[c] /\ Opened(c))
  /\ SF_vars(OnTimer(TRUE))

-----------------------------------------------------------------------------
(* Properties *)

TypeOK ==
  /\ WsTypeOK
  /\ loop \in Loop
  /\ urlOk \in BOOLEAN
  /\ client \in Clients \cup {NoClient}
  /\ armed \in BOOLEAN
  /\ due \in 0..MaxDue
  /\ current \in InitialDelay..MaxDelay
  /\ remaining \in 0..MaxMessages
  /\ seen \in 0..SeenCap
  /\ strayed \in BOOLEAN

\* "Start websocket loop and dispatch messages until stopped."
\* (feed_handler.hpp:75): ioc.run() returns when the loop has no work left, so
\* while nobody stops it the current client has an operation in progress or
\* the reconnect timer has a wait, expired or not.
LoopHasWork ==
  loop = "running" => armed \/ due > 0 \/ (client # NoClient /\ ops[client] # {})

\* An open connection that has had no error left the backoff behind: the next
\* pause is the shortest (reset in on_open, feed_handler.hpp:206).
HealthyStartsAfresh ==
  /\ loop = "running" /\ client # NoClient
  /\ "read" \in ops[client] /\ ~armed /\ due = 0
  => current = InitialDelay

\* A message limit holds across reconnects, and reaching it ends the loop.
MessageLimit ==
  MaxMessages > 0 =>
    /\ seen + remaining = MaxMessages
    /\ remaining = 0 => loop \in {"closing", "stopped"}

\* "Owns websocket connection" (feed_handler.hpp:32): no handler runs for a
\* client that the feed handler has already destroyed.
HandlersRunOnOwnedClient == ~strayed

\* The timer only ever replaces a client with nothing left to report.
ReplacesOnlyDeadClients ==
  [][client # NoClient /\ client' # client => ops[client] = {}]_vars

\* Every scheduled reconnect comes: another client is made, or the loop is over.
ReconnectComes ==
  \A c \in Clients : (client = c /\ (armed \/ due > 0)) ~> (client # c \/ Over)

\* On a network that is not broken for ever, with a usable url, the feed has
\* an open connection again and again, or it is over.
OpensAgain ==
  NetworkFairness /\ urlOk =>
    []<>(Over \/ (client # NoClient /\ "read" \in ops[client]))

\* What a state of the feed is in terms of a session
Phase == CASE loop = "start" -> "idle"
           [] loop # "start" /\ loop # "running" -> "over"
           [] loop = "running" /\ (armed \/ due > 0) -> "pause"
           [] OTHER -> IF "read" \in ops[client] THEN "open" ELSE "connecting"

Session == INSTANCE FeedSession
             WITH usable <- urlOk, phase <- Phase,
                  delay <- current, left <- remaining

\* The feed is a reconnecting session.
ImplementsSession == Session!Spec
=============================================================================
