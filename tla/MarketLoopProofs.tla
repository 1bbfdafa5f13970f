--------------------------- MODULE MarketLoopProofs ---------------------------
(***************************************************************************)
(* Proofs about MarketLoop: what the loop does is allowed to MarketFeed.   *)
(* The invariant counts what is still to come.  Each timer that fires, or  *)
(* is about to, was set for an error of its own; each connection that      *)
(* opens belongs to the start or to a timer of its own.                    *)
(***************************************************************************)
EXTENDS MarketLoop, TLAPS

OpNames == {"resolve", "connect", "tls", "handshake", "read", "write"}
ConnectNames == {"resolve", "connect", "tls", "handshake"}

Pending == IF armed THEN due + 1 ELSE due

CountsOK ==
  /\ reconnects \in BOOLEAN
  /\ armed \in BOOLEAN
  /\ due \in Nat /\ errors \in Nat /\ timers \in Nat /\ connections \in Nat
  /\ ops \in [Clients -> SUBSET OpNames]

\* Every wait is for an error that has had no timer yet.
WaitInv ==
  /\ armed \/ due > 0 => reconnects
  /\ timers + Pending <= errors

\* The client that may still open has a turn of its own, and the one that
\* reads has had it.
TurnInv ==
  /\ connections <= timers + 1
  /\ loop = "start" => connections = 0 /\ \A c \in Clients : ops[c] = {}
  /\ \A c \in Clients : c = client =>
       /\ "read" \in ops[c] => connections > 0
       /\ ops[c] \cap ConnectNames # {} => connections <= timers

LoopInv == CountsOK /\ WaitInv /\ TurnInv
-----------------------------------------------------------------------------
(* Initial states *)

LEMMA InitInv == Init => LoopInv
<1> SUFFICES ASSUME Init PROVE LoopInv
  OBVIOUS
<1>1. /\ reconnects \in BOOLEAN
      /\ ops = [c \in Clients |-> {}] /\ loop = "start"
      /\ armed = FALSE /\ due = 0
      /\ errors = 0 /\ timers = 0 /\ connections = 0
  BY DEF Init, Loop!Init, Loop!WsInit, Market!Init
<1>2. CountsOK
  BY <1>1 DEF CountsOK
<1>3. WaitInv
  BY <1>1 DEF WaitInv, Pending
<1>4. TurnInv
  BY <1>1 DEF TurnInv
<1> QED  BY <1>2, <1>3, <1>4 DEF LoopInv

LEMMA InitIsMarket == Init => Market!Init
  BY DEF Init

-----------------------------------------------------------------------------
(* The kinds of steps, by what they do to the state of LoopInv and Market *)

\* on_error has run: it has set the timer, or stopped the loop.
ErrorRuns ==
  /\ Market!ReportError
  /\ errors < MaxErrors
  /\ loop' = (IF reconnects THEN "running" ELSE "stopped")
  /\ armed' = (reconnects \/ armed)

\* No operation of any client is new.
OnlyEnds ==
  /\ ops' \in [Clients -> SUBSET OpNames]
  /\ \A c \in Clients : ops'[c] \subseteq ops[c]
  /\ UNCHANGED client

\* A new client takes the place of the old one.
Replaces ==
  \E c \in Clients :
    /\ client' = c
    /\ ops' = [ops EXCEPT ![c] = IF urlOk THEN {"resolve"} ELSE {}]

\* run() connects for the first time.
Starts ==
  /\ loop = "start"
  /\ Replaces
  /\ UNCHANGED <<due, reconnects, remaining>>
  /\ \/ urlOk /\ loop' = "running" /\ UNCHANGED <<marketVars, armed>>
     \/ ~urlOk /\ ErrorRuns

\* A handler has an error to report.
Errs ==
  /\ loop = "running"
  /\ OnlyEnds /\ ErrorRuns
  /\ UNCHANGED <<due, reconnects, remaining>>

\* The handler of the reconnect timer
Fires(refreshed) ==
  /\ loop = "running" /\ due > 0 /\ due' = due - 1
  /\ Replaces
  /\ Market!FireTimer(refreshed, urlOk)
  /\ UNCHANGED <<reconnects, remaining>>
  /\ \/ urlOk /\ loop' = "running" /\ UNCHANGED armed
     \/ ~urlOk /\ errors < MaxErrors /\ armed' = (reconnects \/ armed)
               /\ loop' = (IF reconnects THEN "running" ELSE "stopped")

\* The current client is open and begins to read.
Opens ==
  /\ loop = "running"
  /\ \E c \in Clients :
       /\ c = client /\ "handshake" \in ops[c]
       /\ \/ ops' = [ops EXCEPT ![c] = {"read"}]
          \/ ops' = [ops EXCEPT ![c] = {"read", "write"}]
  /\ Market!Open
  /\ UNCHANGED <<loop, client, armed, due, reconnects>>

\* The current client reads a message, or a control frame.
Reads ==
  /\ loop = "running"
  /\ \E c \in Clients : c = client /\ "read" \in ops[c]
  /\ UNCHANGED <<ops, client, armed, due, reconnects>>
  /\ \/ /\ Len(received) < MaxReceived
        /\ Market!Receive
        /\ loop' = IF remaining = 1 THEN "closing" ELSE loop
     \/ /\ Market!Controls < MaxControls
        /\ Market!Control
        /\ UNCHANGED loop

\* The current client goes on to the next phase of connecting.
Proceeds ==
  /\ \E c \in Clients, op, next \in ConnectNames :
       c = client /\ op \in ops[c] /\ ops' = [ops EXCEPT ![c] = {next}]
  /\ UNCHANGED <<client, armed, due>>

\* A step of the loop that no callback sees
Silent ==
  /\ Proceeds \/ (OnlyEnds /\ armed' \in BOOLEAN /\ due' \in Nat
                  /\ Pending' = Pending /\ (armed' \/ due' > 0 => armed \/ due > 0))
  /\ \/ UNCHANGED loop
     \/ loop = "start" /\ loop' = "failed"
     \/ loop = "running" /\ loop' = "crashed"
     \/ loop = "closing" /\ loop' = "stopped"
  /\ UNCHANGED <<marketVars, reconnects, remaining>>

Kinds ==
  \/ Starts \/ Errs \/ Opens \/ Reads \/ Silent
  \/ \E refreshed \in BOOLEAN : Fires(refreshed)

-----------------------------------------------------------------------------
(* Every kind of step keeps LoopInv. *)

LEMMA ErrorCounts ==
  ASSUME Market!ReportError
  PROVE  errors' = errors + 1 /\ UNCHANGED <<timers, connections>>
  BY DEF Market!ReportError

LEMMA FireCounts ==
  ASSUME NEW refreshed, Market!FireTimer(refreshed, urlOk)
  PROVE  /\ timers' = timers + 1
         /\ errors' = IF urlOk THEN errors ELSE errors + 1
         /\ UNCHANGED connections
  BY DEF Market!FireTimer

LEMMA StartsKeeps ==
  ASSUME LoopInv, Starts
  PROVE  LoopInv'
<1>1. /\ loop = "start" /\ connections = 0
      /\ due' = due /\ reconnects' = reconnects
      /\ UNCHANGED <<timers, connections>>
  BY ErrorCounts DEF Starts, LoopInv, TurnInv, marketVars, ErrorRuns
<1>2. \/ UNCHANGED <<errors, armed>>
      \/ errors' = errors + 1 /\ armed' = (reconnects \/ armed)
  BY ErrorCounts DEF Starts, marketVars, ErrorRuns
<1>3. loop' # "start"
  BY DEF Starts, ErrorRuns
<1>4. PICK c \in Clients :
        client' = c /\ ops' = [ops EXCEPT ![c] = IF urlOk THEN {"resolve"} ELSE {}]
  BY DEF Starts, Replaces
<1>5. CountsOK'
  BY <1>1, <1>2, <1>4 DEF LoopInv, CountsOK, OpNames
<1>6. WaitInv'
  BY <1>1, <1>2 DEF LoopInv, CountsOK, WaitInv, Pending
<1>7. TurnInv'
  <2>1. ops'[c] \subseteq {"resolve"}
    BY <1>4 DEF LoopInv, CountsOK
  <2>2. connections' <= timers'
    BY <1>1 DEF LoopInv, CountsOK
  <2> QED  BY <1>1, <1>3, <1>4, <2>1, <2>2 DEF TurnInv, LoopInv, CountsOK
<1> QED  BY <1>5, <1>6, <1>7 DEF LoopInv

LEMMA ErrsKeeps ==
  ASSUME LoopInv, Errs
  PROVE  LoopInv'
<1>1. /\ errors' = errors + 1 /\ armed' = (reconnects \/ armed) /\ loop' # "start"
      /\ UNCHANGED <<timers, connections, due, reconnects, client>>
      /\ ops' \in [Clients -> SUBSET OpNames]
      /\ \A c \in Clients : ops'[c] \subseteq ops[c]
  BY ErrorCounts DEF Errs, ErrorRuns, OnlyEnds
<1>2. CountsOK'
  BY <1>1 DEF LoopInv, CountsOK
<1>3. WaitInv'
  BY <1>1 DEF LoopInv, CountsOK, WaitInv, Pending
<1>4. TurnInv'
  BY <1>1 DEF LoopInv, CountsOK, TurnInv
<1> QED  BY <1>2, <1>3, <1>4 DEF LoopInv

LEMMA FiresKeeps ==
  ASSUME LoopInv, NEW refreshed, Fires(refreshed)
  PROVE  LoopInv'
<1>1. /\ due > 0 /\ due' = due - 1 /\ timers' = timers + 1
      /\ UNCHANGED <<connections, reconnects>>
  BY FireCounts DEF Fires
<1>2. \/ UNCHANGED <<errors, armed>>
      \/ errors' = errors + 1 /\ armed' = (reconnects \/ armed)
  BY FireCounts DEF Fires
<1>3. loop' # "start"
  BY DEF Fires
<1>4. PICK c \in Clients :
        client' = c /\ ops' = [ops EXCEPT ![c] = IF urlOk THEN {"resolve"} ELSE {}]
  BY DEF Fires, Replaces
<1>5. CountsOK'
  BY <1>1, <1>2, <1>4 DEF LoopInv, CountsOK, OpNames
<1>6. WaitInv'
  BY <1>1, <1>2 DEF LoopInv, CountsOK, WaitInv, Pending
<1>7. TurnInv'
  <2>1. ops'[c] \subseteq {"resolve"}
    BY <1>4 DEF LoopInv, CountsOK
  <2>2. connections' <= timers'
    BY <1>1 DEF LoopInv, CountsOK, TurnInv
  <2> QED  BY <1>1, <1>3, <1>4, <2>1, <2>2 DEF TurnInv, LoopInv, CountsOK
<1> QED  BY <1>5, <1>6, <1>7 DEF LoopInv

LEMMA OpensKeeps ==
  ASSUME LoopInv, Opens
  PROVE  LoopInv'
<1>1. /\ connections' = connections + 1 /\ loop = "running"
      /\ UNCHANGED <<errors, timers, loop, client, armed, due, reconnects>>
  BY DEF Opens, Market!Open
<1>2. PICK c \in Clients :
        /\ c = client /\ "handshake" \in ops[c]
        /\ \/ ops' = [ops EXCEPT ![c] = {"read"}]
           \/ ops' = [ops EXCEPT ![c] = {"read", "write"}]
  BY DEF Opens
<1>3. connections <= timers
  BY <1>2 DEF LoopInv, TurnInv, ConnectNames
<1>4. CountsOK'
  BY <1>1, <1>2 DEF LoopInv, CountsOK, OpNames
<1>5. WaitInv'
  BY <1>1 DEF LoopInv, CountsOK, WaitInv, Pending
<1>6. TurnInv'
  <2>1. ops'[c] \cap ConnectNames = {}
    BY <1>2 DEF LoopInv, CountsOK, ConnectNames
  <2>2. connections' <= timers' + 1 /\ connections' > 0
    BY <1>1, <1>3 DEF LoopInv, CountsOK
  <2> QED  BY <1>1, <1>2, <2>1, <2>2 DEF TurnInv
<1> QED  BY <1>4, <1>5, <1>6 DEF LoopInv

LEMMA ReadsKeeps ==
  ASSUME LoopInv, Reads
  PROVE  LoopInv'
<1>1. /\ loop = "running" /\ loop' # "start"
      /\ UNCHANGED <<errors, timers, connections, ops, client, armed, due, reconnects>>
  BY DEF Reads, Market!Receive, Market!Control, Market!troubles
<1> QED  BY <1>1 DEF LoopInv, CountsOK, WaitInv, TurnInv, Pending

LEMMA SilentKeeps ==
  ASSUME LoopInv, Silent
  PROVE  LoopInv'
<1>1. /\ UNCHANGED <<errors, timers, connections, client, reconnects>>
      /\ loop' = "start" => loop = "start"
  BY DEF Silent, Proceeds, OnlyEnds, marketVars
<1>2. /\ armed' \in BOOLEAN /\ due' \in Nat /\ Pending' = Pending
      /\ armed' \/ due' > 0 => armed \/ due > 0
  BY DEF Silent, Proceeds, LoopInv, CountsOK, Pending
<1>3. WaitInv'
  BY <1>1, <1>2 DEF LoopInv, WaitInv
<1>4. CASE OnlyEnds
  BY <1>1, <1>2, <1>3, <1>4 DEF OnlyEnds, LoopInv, CountsOK, TurnInv
<1>5. CASE Proceeds
  <2>1. PICK c \in Clients, op \in ConnectNames, next \in ConnectNames :
          c = client /\ op \in ops[c] /\ ops' = [ops EXCEPT ![c] = {next}]
    BY <1>5 DEF Proceeds
  <2>2. loop # "start"
    BY <2>1 DEF LoopInv, TurnInv
  <2>3. connections <= timers
    BY <2>1 DEF LoopInv, TurnInv
  <2>4. ops' \in [Clients -> SUBSET OpNames] /\ "read" \notin ops'[c]
    BY <2>1 DEF LoopInv, CountsOK, OpNames, ConnectNames
  <2>5. TurnInv'
    BY <1>1, <2>1, <2>2, <2>3, <2>4 DEF LoopInv, CountsOK, TurnInv
  <2> QED  BY <1>1, <1>2, <1>3, <2>4, <2>5 DEF LoopInv, CountsOK
<1> QED  BY <1>4, <1>5 DEF Silent

LEMMA KindsKeep == LoopInv /\ Kinds => LoopInv'
  BY StartsKeeps, ErrsKeeps, FiresKeeps, OpensKeeps, ReadsKeeps, SilentKeeps DEF Kinds

-----------------------------------------------------------------------------
(* Every kind of step is one of MarketFeed's. *)

IsOpen == loop \notin {"closing", "stopped"}

LEMMA ErrorIsMarket ==
  ASSUME reconnects \in BOOLEAN, ErrorRuns, IsOpen, UNCHANGED reconnects
  PROVE  Market!OnError
<1>1. IsOpen' = reconnects
  <2>1. CASE reconnects
    BY <2>1 DEF ErrorRuns, IsOpen
  <2>2. CASE ~reconnects
    BY <2>2 DEF ErrorRuns, IsOpen
  <2> QED  BY <2>1, <2>2
<1> QED  BY <1>1, Zenon DEF Market!OnError, ErrorRuns, IsOpen

LEMMA StartsIsMarket ==
  ASSUME LoopInv, Starts
  PROVE  Market!OnError \/ UNCHANGED Market!vars
<1>1. CASE ErrorRuns
  BY <1>1, ErrorIsMarket DEF Starts, IsOpen, LoopInv, CountsOK
<1>2. CASE loop' = "running" /\ UNCHANGED marketVars
  <2>1. UNCHANGED <<received, out, errors, timers, connections, sent,
                    reconnects, remaining>>
    BY <1>2 DEF Starts, marketVars
  <2>2. (loop \notin {"closing", "stopped"})' = (loop \notin {"closing", "stopped"})
    BY <1>2 DEF Starts
  <2> QED  BY <2>1, <2>2 DEF Market!vars, Market!troubles
<1> QED  BY <1>1, <1>2 DEF Starts

LEMMA ErrsIsMarket ==
  ASSUME LoopInv, Errs
  PROVE  Market!OnError
  BY ErrorIsMarket DEF Errs, IsOpen, LoopInv, CountsOK

LEMMA FiresIsMarket ==
  ASSUME LoopInv, NEW refreshed \in BOOLEAN, Fires(refreshed)
  PROVE  Market!OnTimer(refreshed, urlOk)
<1>1. reconnects /\ timers < errors
  <2>1. reconnects
    BY DEF Fires, LoopInv, WaitInv
  <2>2. due > 0
    BY DEF Fires
  <2> QED  BY <2>1, <2>2 DEF LoopInv, CountsOK, WaitInv, Pending
<1>2. loop = "running" /\ loop' = "running"
  BY <1>1 DEF Fires
<1>3. IsOpen /\ IsOpen'
  BY <1>2 DEF IsOpen
<1>4. (loop \notin {"closing", "stopped"})' = (loop \notin {"closing", "stopped"})
  BY <1>2
<1>5. urlOk \/ errors < MaxErrors
  BY DEF Fires
<1> QED  BY <1>1, <1>3, <1>4, <1>5, Zenon DEF Market!OnTimer, Fires, IsOpen

LEMMA OpensIsMarket ==
  ASSUME LoopInv, Opens
  PROVE  Market!OnOpen
<1>1. connections <= timers
  BY DEF Opens, LoopInv, TurnInv, ConnectNames
<1>2. IsOpen
  BY DEF Opens, IsOpen
<1>3. (loop \notin {"closing", "stopped"})' = (loop \notin {"closing", "stopped"})
  BY DEF Opens
<1> QED  BY <1>1, <1>2, <1>3, Zenon DEF Market!OnOpen, Opens, IsOpen

LEMMA ReadsIsMarket ==
  ASSUME LoopInv, Reads
  PROVE  Market!OnMessage \/ Market!OnControl
<1>1. connections > 0 /\ loop = "running" /\ UNCHANGED reconnects
  BY DEF Reads, LoopInv, TurnInv
<1>2. IsOpen
  BY <1>1 DEF IsOpen
<1>3. CASE /\ Len(received) < MaxReceived
           /\ Market!Receive
           /\ loop' = IF remaining = 1 THEN "closing" ELSE loop
  <2>1. IsOpen' = (remaining # 1)
    BY <1>1, <1>3 DEF IsOpen
  <2> QED  BY <1>1, <1>2, <1>3, <2>1, Zenon DEF Market!OnMessage, Market!seen, IsOpen
<1>4. CASE Market!Controls < MaxControls /\ Market!Control /\ UNCHANGED loop
  <2>1. (loop \notin {"closing", "stopped"})' = (loop \notin {"closing", "stopped"})
    BY <1>4
  <2> QED  BY <1>1, <1>2, <1>4, <2>1, Zenon DEF Market!OnControl, IsOpen
<1> QED  BY <1>3, <1>4 DEF Reads

LEMMA SilentIsMarket ==
  ASSUME Silent
  PROVE  UNCHANGED Market!vars
<1>1. UNCHANGED <<received, out, errors, timers, connections, sent,
                  reconnects, remaining>>
  BY DEF Silent, marketVars
<1>2. (loop \notin {"closing", "stopped"})' = (loop \notin {"closing", "stopped"})
  BY DEF Silent
<1> QED  BY <1>1, <1>2 DEF Market!vars, Market!troubles

LEMMA KindsAreMarket ==
  ASSUME LoopInv, urlOk \in BOOLEAN, Kinds
  PROVE  [Market!Next]_(Market!vars)
<1>1. CASE Starts
  BY <1>1, StartsIsMarket, Zenon DEF Market!Next
<1>2. CASE Errs
  BY <1>2, ErrsIsMarket, Zenon DEF Market!Next
<1>3. CASE Opens
  BY <1>3, OpensIsMarket, Zenon DEF Market!Next
<1>4. CASE Reads
  BY <1>4, ReadsIsMarket, Zenon DEF Market!Next
<1>5. CASE Silent
  BY <1>5, SilentIsMarket, Zenon
<1>6. ASSUME NEW refreshed \in BOOLEAN, Fires(refreshed)
      PROVE  Market!Next
  BY <1>6, FiresIsMarket, Zenon DEF Market!Next
<1> QED  BY <1>1, <1>2, <1>3, <1>4, <1>5, <1>6, Zenon DEF Kinds

-----------------------------------------------------------------------------
(* Every step of the loop is of one of the kinds. *)

LEMMA LoopError ==
  ASSUME LoopInv, NEW reconnect \in {reconnects},
         Loop(reconnect)!OnError
  PROVE  /\ loop' = (IF reconnects THEN "running" ELSE "stopped")
         /\ armed' = (reconnects \/ armed)
<1>1. reconnects \in BOOLEAN /\ armed \in BOOLEAN
  BY DEF LoopInv, CountsOK
<1>2. CASE reconnects
  <2>1. reconnect
    BY <1>2, Zenon
  <2>2. loop' = "running" /\ armed' = TRUE
    BY <2>1 DEF Loop!OnError, Loop!ScheduleReconnect
  <2>3. armed' = (reconnects \/ armed)
    BY <1>2, <2>2, Zenon
  <2> QED  BY <1>2, <2>2, <2>3
<1>3. CASE ~reconnects
  <2>1. reconnects = FALSE
    BY <1>1, <1>3
  <2>2. reconnect = FALSE
    BY <2>1, Zenon
  <2>3. loop' = "stopped" /\ armed' = armed
    BY <2>2 DEF Loop!OnError
  <2>4. armed' = (reconnects \/ armed)
    BY <1>1, <1>3, <2>3
  <2> QED  BY <1>3, <2>3, <2>4
<1> QED  BY <1>2, <1>3

LEMMA LoopConnects ==
  ASSUME LoopInv, NEW reconnect \in {reconnects},
         NEW c \in Clients, NEW old, Loop(reconnect)!ConnectClient(c, old)
  PROVE  /\ Replaces
         /\ \/ urlOk /\ loop' = "running" /\ UNCHANGED armed
            \/ /\ ~urlOk /\ armed' = (reconnects \/ armed)
               /\ loop' = (IF reconnects THEN "running" ELSE "stopped")
         /\ UNCHANGED <<urlOk, remaining>>
<1>1. Replaces
  BY DEF Loop!ConnectClient, Loop!Connect, Replaces
<1>2. CASE urlOk
  BY <1>1, <1>2 DEF Loop!ConnectClient
<1>3. CASE ~urlOk
  BY <1>1, <1>3, LoopError DEF Loop!ConnectClient
<1> QED  BY <1>2, <1>3

LEMMA LoopEnds ==
  ASSUME LoopInv, NEW reconnect \in {reconnects},
         NEW c \in Clients, NEW op, Loop(reconnect)!Fails(c, op),
         UNCHANGED client
  PROVE  OnlyEnds
<1>1. ops \in [Clients -> SUBSET OpNames]
  BY DEF LoopInv, CountsOK
<1>2. ops' = [ops EXCEPT ![c] = @ \ {op}]
  BY DEF Loop!Fails
<1> QED  BY <1>1, <1>2 DEF OnlyEnds

LEMMA StartIsKind ==
  ASSUME LoopInv, NEW reconnect \in {reconnects},
         Loop(reconnect)!Start, UNCHANGED reconnects,
         IF urlOk THEN UNCHANGED marketVars ELSE ReportError
  PROVE  Starts /\ UNCHANGED urlOk
<1>1. loop = "start" /\ UNCHANGED due
  BY DEF Loop!Start
<1>2. PICK c \in Clients : Loop(reconnect)!ConnectClient(c, FALSE)
  BY DEF Loop!Start
<1> QED  BY <1>1, <1>2, LoopConnects DEF Starts, ErrorRuns, ReportError

LEMMA StrayIsKind ==
  ASSUME LoopInv, NEW reconnect \in {reconnects},
         Loop(reconnect)!StrayHandler, UNCHANGED reconnects
  PROVE  /\ loop' # "crashed" /\ ReportError => Errs
         /\ loop' = "crashed" /\ UNCHANGED marketVars => Silent
         /\ UNCHANGED urlOk
<1>1. /\ loop = "running" /\ UNCHANGED <<client, due, remaining, urlOk>>
      /\ \/ Loop(reconnect)!OnError
         \/ loop' = "crashed" /\ UNCHANGED armed
  BY DEF Loop!StrayHandler
<1>2. OnlyEnds
  BY <1>1, LoopEnds DEF Loop!StrayHandler
<1>3. ASSUME loop' # "crashed", ReportError PROVE Errs
  BY <1>1, <1>2, <1>3, LoopError DEF Errs, ErrorRuns, ReportError
<1>4. ASSUME loop' = "crashed", UNCHANGED marketVars PROVE Silent
  <2>1. UNCHANGED armed
    BY <1>1, <1>4, LoopError
  <2> QED  BY <1>1, <1>2, <1>4, <2>1 DEF Silent, LoopInv, CountsOK, Pending
<1> QED  BY <1>1, <1>3, <1>4

LEMMA TimerIsKind ==
  ASSUME LoopInv, NEW reconnect \in {reconnects},
         NEW refreshed \in BOOLEAN, Loop(reconnect)!OnTimer(refreshed),
         urlOk \/ errors < MaxErrors, Market!FireTimer(refreshed, urlOk),
         UNCHANGED reconnects
  PROVE  Fires(refreshed) /\ UNCHANGED urlOk
<1>1. loop = "running" /\ due > 0 /\ due' = due - 1
  BY DEF Loop!OnTimer
<1>2. PICK c \in Clients : Loop(reconnect)!ConnectClient(c, ~refreshed)
  BY DEF Loop!OnTimer
<1> QED  BY <1>1, <1>2, LoopConnects DEF Fires

LEMMA OpenIsKind ==
  ASSUME LoopInv, NEW reconnect \in {reconnects},
         NEW c \in Clients, Loop(reconnect)!Opened(c), Market!Open,
         UNCHANGED reconnects
  PROVE  Opens /\ UNCHANGED urlOk
<1>1. /\ loop = "running" /\ c = client
      /\ UNCHANGED <<loop, client, armed, due, urlOk>>
  BY DEF Loop!Opened, Loop!Running, Loop!OnOpen
<1>2. /\ "handshake" \in ops[c]
      /\ \/ ops' = [ops EXCEPT ![c] = {"read"}]
         \/ ops' = [ops EXCEPT ![c] = {"read", "write"}]
  <2>1. /\ "handshake" \in ops[c]
        /\ ops' = [ops EXCEPT ![c] =
                     {"read"} \cup (IF SubscribeChunks > 0 THEN {"write"} ELSE {})]
    BY DEF Loop!Opened, Loop!OnWsHandshake, Loop!Succeeds
  <2>2. {"read"} \cup (IF SubscribeChunks > 0 THEN {"write"} ELSE {})
          \in {{"read"}, {"read", "write"}}
    OBVIOUS
  <2> QED  BY <2>1, <2>2
<1> QED  BY <1>1, <1>2 DEF Opens

LEMMA ReceiveIsKind ==
  ASSUME LoopInv, NEW reconnect \in {reconnects},
         NEW c \in Clients, Loop(reconnect)!Received(c),
         Len(received) < MaxReceived, Market!Receive, UNCHANGED reconnects
  PROVE  Reads /\ UNCHANGED urlOk
  BY DEF Reads, Loop!Received, Loop!Running, Loop!OnRead, Loop!Succeeds,
         Loop!OnMessage, Loop!wsVars

LEMMA FailedIsKind ==
  ASSUME LoopInv, NEW reconnect \in {reconnects},
         NEW c \in Clients, Loop(reconnect)!Failed(c), ReportError,
         UNCHANGED reconnects
  PROVE  Errs /\ UNCHANGED urlOk
<1>1. /\ loop = "running" /\ UNCHANGED <<client, due, remaining, urlOk>>
      /\ Loop(reconnect)!OnError
  BY DEF Loop!Failed, Loop!Running
<1>2. OnlyEnds
  BY <1>1, LoopEnds DEF Loop!Failed
<1> QED  BY <1>1, <1>2, LoopError DEF Errs, ErrorRuns, ReportError

LEMMA ControlIsKind ==
  ASSUME LoopInv, NEW reconnect \in {reconnects},
         NEW c \in Clients, Loop(reconnect)!Running(c),
         Loop(reconnect)!Succeeds(c, "read"), Market!Controls < MaxControls,
         Market!Control, UNCHANGED loopVars, UNCHANGED reconnects
  PROVE  Reads /\ UNCHANGED urlOk
  BY DEF Reads, Loop!Running, Loop!Succeeds, loopVars

LEMMA CallbackIsKind ==
  ASSUME LoopInv, NEW reconnect \in {reconnects},
         Callback(reconnect), UNCHANGED reconnects
  PROVE  Kinds /\ UNCHANGED urlOk
  BY StartIsKind, StrayIsKind, TimerIsKind, OpenIsKind, ReceiveIsKind, FailedIsKind,
     ControlIsKind, Zenon
     DEF Callback, Kinds

\* The current client goes on: it connects further, or it writes.
LEMMA ProgressIsSilent ==
  ASSUME LoopInv, NEW reconnect \in {reconnects},
         NEW c \in Clients, UNCHANGED <<reconnects, marketVars>>,
         \/ Loop(reconnect)!Resolved(c) \/ Loop(reconnect)!Connected(c)
         \/ Loop(reconnect)!Secured(c) \/ Loop(reconnect)!Written(c)
         \/ Loop(reconnect)!Library(c)
  PROVE  Silent /\ UNCHANGED urlOk
<1>1. c = client /\ UNCHANGED <<loop, client, armed, due, remaining, urlOk>>
  BY DEF Loop!Resolved, Loop!Connected, Loop!Secured, Loop!Written, Loop!Library,
         Loop!WriteGoesOn, Loop!TimeoutHits, Loop!Running, Loop!feedVars
<1>2. Proceeds \/ OnlyEnds
  <2>1. CASE Loop(reconnect)!Resolved(c)
    BY <1>1, <2>1
       DEF Loop!Resolved, Loop!OnResolve, Loop!Succeeds, Proceeds, ConnectNames
  <2>2. CASE Loop(reconnect)!Connected(c)
    BY <1>1, <2>2
       DEF Loop!Connected, Loop!OnConnect, Loop!Succeeds, Proceeds, ConnectNames
  <2>3. CASE Loop(reconnect)!Secured(c)
    BY <1>1, <2>3
       DEF Loop!Secured, Loop!OnSslHandshake, Loop!Succeeds, Proceeds, ConnectNames
  <2>4. CASE Loop(reconnect)!Written(c)
    BY <1>1, <2>4
       DEF Loop!Written, Loop!OnWrite, OnlyEnds, LoopInv, CountsOK
  <2>5. CASE Loop(reconnect)!Library(c)
    BY <1>1, <2>5
       DEF Loop!Library, Loop!WriteGoesOn, Loop!TimeoutHits, Loop!WriteChunk,
           Loop!DeadlineExpires, OnlyEnds, LoopInv, CountsOK
  <2> QED  BY <2>1, <2>2, <2>3, <2>4, <2>5
<1>3. /\ armed' \in BOOLEAN /\ due' \in Nat /\ Pending' = Pending
      /\ armed' \/ due' > 0 => armed \/ due > 0
  BY <1>1 DEF LoopInv, CountsOK, Pending
<1> QED  BY <1>1, <1>2, <1>3 DEF Silent

LEMMA QuietIsKind ==
  ASSUME LoopInv, NEW reconnect \in {reconnects},
         Quiet(reconnect), UNCHANGED <<reconnects, marketVars>>
  PROVE  Kinds /\ UNCHANGED urlOk
<1>1. CASE Loop(reconnect)!OutputOpenFails \/ Loop(reconnect)!PeerCloses
  <2>1. /\ UNCHANGED <<ops, client, armed, due, remaining, urlOk>>
        /\ \/ loop = "start" /\ loop' = "failed"
           \/ loop = "closing" /\ loop' = "stopped"
    BY <1>1 DEF Loop!OutputOpenFails, Loop!PeerCloses, Loop!wsVars
  <2>2. OnlyEnds /\ armed' \in BOOLEAN /\ due' \in Nat /\ Pending' = Pending
    BY <2>1 DEF OnlyEnds, LoopInv, CountsOK, Pending
  <2> QED  BY <2>1, <2>2 DEF Silent, Kinds
<1>2. CASE Loop(reconnect)!TimerExpires
  <2>1. /\ armed /\ armed' = FALSE /\ due' = due + 1
        /\ UNCHANGED <<ops, client, loop, remaining, urlOk>>
    BY <1>2 DEF Loop!TimerExpires, Loop!wsVars
  <2>2. OnlyEnds
    BY <2>1 DEF OnlyEnds, LoopInv, CountsOK
  <2>3. due' \in Nat
    BY <2>1 DEF LoopInv, CountsOK
  <2>4. Pending = due + 1 /\ Pending' = due'
    BY <2>1, Zenon DEF Pending
  <2>5. armed' \in BOOLEAN
    BY <2>1, Zenon
  <2> QED  BY <2>1, <2>2, <2>3, <2>4, <2>5 DEF Silent, Kinds
<1>3. CASE Loop(reconnect)!StrayHandler /\ loop' = "crashed"
  BY <1>3, StrayIsKind DEF Kinds
<1>4. ASSUME NEW c \in Clients,
             \/ Loop(reconnect)!Resolved(c) \/ Loop(reconnect)!Connected(c)
             \/ Loop(reconnect)!Secured(c) \/ Loop(reconnect)!Written(c)
             \/ Loop(reconnect)!Library(c)
      PROVE  Kinds /\ UNCHANGED urlOk
  BY <1>4, ProgressIsSilent DEF Kinds
<1> QED  BY <1>1, <1>2, <1>3, <1>4, Zenon DEF Quiet

LEMMA StepIsKind ==
  ASSUME LoopInv, [Next]_vars
  PROVE  (Kinds /\ UNCHANGED urlOk) \/ UNCHANGED vars
<1>1. ASSUME NEW reconnect \in {reconnects}, Callback(reconnect), UNCHANGED reconnects
      PROVE  Kinds /\ UNCHANGED urlOk
  BY <1>1, CallbackIsKind
<1>2. ASSUME NEW reconnect \in {reconnects}, Quiet(reconnect),
             UNCHANGED <<reconnects, marketVars>>
      PROVE  Kinds /\ UNCHANGED urlOk
  BY <1>2, QuietIsKind
<1>3. CASE UNCHANGED vars
  BY <1>3
<1>4. CASE \E reconnect \in {reconnects} :
             /\ Callback(reconnect) \/ (Quiet(reconnect) /\ UNCHANGED marketVars)
             /\ UNCHANGED reconnects
  BY <1>1, <1>2, <1>4
<1> QED  BY <1>3, <1>4 DEF Next, Terminated

-----------------------------------------------------------------------------
(* Theorems *)

\* The loop never has more waits for the reconnect timer, or connections, than
\* the errors and timers before account for (schedule_reconnect and on_open,
\* feed_handler.hpp:199-241).
THEOREM TurnsAreCounted == Spec => []LoopInv
<1>1. Init => LoopInv
  BY InitInv
<1>2. LoopInv /\ [Next]_vars => LoopInv'
  <2> SUFFICES ASSUME LoopInv, [Next]_vars PROVE LoopInv'
    OBVIOUS
  <2>1. CASE Kinds
    BY <2>1, KindsKeep
  <2>2. CASE UNCHANGED vars
    BY <2>2 DEF vars, loopVars, marketVars, LoopInv, CountsOK, WaitInv, TurnInv, Pending
  <2> QED  BY <2>1, <2>2, StepIsKind
<1> QED  BY <1>1, <1>2, PTL DEF Spec

\* Whatever handlers the loop runs, in whatever order and for whichever client,
\* a destroyed one included, the callbacks come as MarketFeed has the network
\* choose them (feed_handler.hpp:139-260).
THEOREM LoopIsMarketFeed == Spec => ImplementsMarketFeed
<1> DEFINE UrlInv == urlOk \in BOOLEAN
<1>1. Init => Market!Init /\ UrlInv
  BY InitIsMarket DEF Init, Loop!Init
<1>2. UrlInv /\ LoopInv /\ [Next]_vars => UrlInv'
  <2> SUFFICES ASSUME UrlInv, LoopInv, [Next]_vars PROVE UrlInv'
    OBVIOUS
  <2>1. UNCHANGED urlOk
    BY StepIsKind DEF vars, loopVars
  <2> QED  BY <2>1
<1>3. UrlInv /\ LoopInv /\ [Next]_vars => [Market!Next]_(Market!vars)
  <2> SUFFICES ASSUME UrlInv, LoopInv, [Next]_vars
               PROVE  [Market!Next]_(Market!vars)
    OBVIOUS
  <2>1. CASE Kinds
    BY <2>1, KindsAreMarket
  <2>2. CASE UNCHANGED vars
    BY <2>2 DEF vars, loopVars, marketVars, Market!vars, Market!troubles
  <2> QED  BY <2>1, <2>2, StepIsKind
<1> HIDE DEF UrlInv
<1> QED  BY <1>1, <1>2, <1>3, TurnsAreCounted, PTL DEF Spec, ImplementsMarketFeed, Market!Spec

LEMMA StepIsLoop ==
  ASSUME NEW reconnect \in BOOLEAN, reconnects = reconnect, [Next]_vars
  PROVE  [Loop(reconnect)!Next]_(Loop(reconnect)!vars)
<1>1. CASE Callback(reconnect)
  <2>1. CASE \E c \in Clients :
               \/ Loop(reconnect)!Opened(c) \/ Loop(reconnect)!Received(c)
               \/ Loop(reconnect)!Failed(c)
    BY <2>1, Zenon DEF Loop!Next, Loop!Handler
  <2>2. CASE UNCHANGED loopVars /\ Market!Control
    BY <2>2
       DEF loopVars, Market!Control, Loop!vars, Loop!wsVars, Loop!feedVars
  <2> QED  BY <1>1, <2>1, <2>2, Zenon DEF Callback, Loop!Next
<1>2. CASE Quiet(reconnect)
  BY <1>2, Zenon DEF Quiet, Loop!Next, Loop!Handler
<1>3. CASE UNCHANGED vars
  BY <1>3 DEF vars, loopVars, Loop!vars, Loop!wsVars, Loop!feedVars
<1> QED  BY <1>1, <1>2, <1>3, Zenon DEF Next, Terminated

LEMMA OptionStays == [Next]_vars => UNCHANGED reconnects
  BY DEF Next, Terminated, vars

\* The loop loses nothing of FeedHandler by making the callbacks: it is the
\* loop of FeedHandler with auto_reconnect as the options have it, so all that
\* is proved of FeedHandler holds of it (feed_handler.hpp:139-260).
THEOREM LoopIsFeedHandler ==
  Spec => (reconnects => Loop(TRUE)!Spec) /\ (~reconnects => Loop(FALSE)!Spec)
<1>1. Init => Loop(TRUE)!Init /\ Loop(FALSE)!Init
  BY DEF Init, Loop!Init, Loop!WsInit, Loop!NoClient
<1>2. Init => reconnects = TRUE \/ reconnects = FALSE
  BY DEF Init
<1>3. reconnects = TRUE /\ [Next]_vars =>
        (reconnects = TRUE)' /\ [Loop(TRUE)!Next]_(Loop(TRUE)!vars)
  BY StepIsLoop, OptionStays
<1>4. reconnects = FALSE /\ [Next]_vars =>
        (reconnects = FALSE)' /\ [Loop(FALSE)!Next]_(Loop(FALSE)!vars)
  BY StepIsLoop, OptionStays
<1>5. (reconnects = TRUE => reconnects) /\ (reconnects = FALSE => ~reconnects)
  OBVIOUS
<1> QED  BY <1>1, <1>2, <1>3, <1>4, <1>5, PTL DEF Spec, Loop!Spec
===============================================================================
