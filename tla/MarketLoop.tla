------------------------------ MODULE MarketLoop ------------------------------
(***************************************************************************)
(* One thread, two views of it: FeedHandler has the event loop with its    *)
(* connections, timers and errors, MarketFeed has what the callbacks do    *)
(* with messages.  Here each handler of the loop that makes a callback     *)
(* does what the callback does.                                            *)
(*                                                                         *)
(* The loop alone says when a handler may run.  That a callback comes only *)
(* when MarketFeed's network may choose it is a property of the            *)
(* composition, and what MarketFeed's own properties rest on.              *)
(***************************************************************************)
EXTENDS Naturals, Sequences

CONSTANTS
  Clients, SubscribeChunks, InitialDelay, MaxDelay,   \* as in FeedHandler
  PriceMax, U16, U32, Int64Max, NsPerSecond,          \* as in EventParser
  Messages(_), LogRawMessages, MaxReceived,
  MaxErrors, MaxControls,                             \* as in MarketFeed
  MaxMessages                                         \* as in both

VARIABLES
  ops, deadline, unsent, garbled, stale, loop, urlOk, client, armed, due,
  current, seen, strayed,                             \* as in FeedHandler
  received, out, reconnects, errors, timers,
  connections, sent,                                  \* as in MarketFeed
  remaining                                           \* as in both

loopVars   == <<ops, deadline, unsent, garbled, stale, loop, urlOk, client,
                armed, due, current, seen, strayed>>
marketVars == <<received, out, errors, timers, connections, sent>>
vars       == <<loopVars, marketVars, reconnects, remaining>>

\* The loop of a feed with and without auto_reconnect
Loop(reconnect) == INSTANCE FeedHandler WITH AutoReconnect <- reconnect

\* ioc.stop() is called, or about to be, in the callback that closes the feed.
Market == INSTANCE MarketFeed WITH open <- loop \notin {"closing", "stopped"}

Init ==
  /\ reconnects \in BOOLEAN
  /\ Loop(TRUE)!Init
  /\ Market!Init
-----------------------------------------------------------------------------
(* Steps *)

\* on_error, as far as the bound goes
ReportError == errors < MaxErrors /\ Market!ReportError

\* The handlers that make a callback
Callback(reconnect) ==
  \/ (IF urlOk THEN UNCHANGED marketVars ELSE ReportError) /\ Loop(reconnect)!Start
  \/ Loop(reconnect)!StrayHandler /\ loop' # "crashed" /\ ReportError
  \/ \E refreshed \in BOOLEAN :
       /\ Loop(reconnect)!OnTimer(refreshed)
       /\ urlOk \/ errors < MaxErrors
       /\ Market!FireTimer(refreshed, urlOk)
  \/ \E c \in Clients :
       \/ Loop(reconnect)!Opened(c) /\ Market!Open
       \/ /\ Loop(reconnect)!Received(c)
          /\ Len(received) < MaxReceived
          /\ Market!Receive
       \/ Loop(reconnect)!Failed(c) /\ ReportError
       \/ \* the control callback runs inside the read
          /\ Loop(reconnect)!Running(c) /\ Loop(reconnect)!Succeeds(c, "read")
          /\ Market!Controls < MaxControls
          /\ Market!Control
          /\ UNCHANGED loopVars

\* The rest of what the loop does
Quiet(reconnect) ==
  \/ Loop(reconnect)!OutputOpenFails
  \/ \E c \in Clients :
       \/ Loop(reconnect)!Resolved(c) \/ Loop(reconnect)!Connected(c)
       \/ Loop(reconnect)!Secured(c) \/ Loop(reconnect)!Written(c)
       \/ Loop(reconnect)!Library(c)
  \/ Loop(reconnect)!TimerExpires
  \/ Loop(reconnect)!StrayHandler /\ loop' = "crashed"
  \/ Loop(reconnect)!PeerCloses

\* The loop is over, or the bound on errors keeps it from going on.
Terminated ==
  /\ \/ loop \notin {"start", "running"}
     \/ errors = MaxErrors
  /\ UNCHANGED vars

Next ==
  \/ /\ \E reconnect \in {reconnects} :
          Callback(reconnect) \/ (Quiet(reconnect) /\ UNCHANGED marketVars)
     /\ UNCHANGED reconnects
  \/ Terminated

Spec == Init /\ [][Next]_vars
-----------------------------------------------------------------------------
(* Properties *)

\* The callbacks of the connections come as MarketFeed has the network choose:
\* at most one ws_open for the start and each timer that has fired, a timer
\* only for an error, and nothing at all once the loop is to stop, although
\* handlers of the same or of a destroyed client are still queued then.
ImplementsMarketFeed == Market!Spec
=============================================================================
