-------------------------- MODULE FeedHandlerProofs --------------------------
(***************************************************************************)
(* Proofs about FeedHandler, for every number of client objects, every     *)
(* size of the subscribe command, every pair of delays and every limit.    *)
(***************************************************************************)
EXTENDS FeedHandler, TLAPS

-----------------------------------------------------------------------------
(* Type correctness *)

LEMMA InitType == Init => TypeOK
<1> SUFFICES ASSUME Init PROVE TypeOK
  OBVIOUS
<1>1. WsTypeOK
  BY WsClientAssumption DEF WsClientAssumption, Init, WsInit, WsTypeOK, Op, Connecting
<1>2. loop \in Loop /\ client \in Clients \cup {NoClient}
  BY DEF Init, Loop
<1>3. armed \in BOOLEAN /\ urlOk \in BOOLEAN /\ strayed \in BOOLEAN
  BY DEF Init
<1>4. due \in 0..MaxDue /\ seen \in 0..SeenCap
  BY FeedAssumption DEF FeedAssumption, Init, MaxDue, SeenCap
<1>5. current \in InitialDelay..MaxDelay /\ remaining \in 0..MaxMessages
  BY FeedAssumption DEF FeedAssumption, Init
<1> QED
  BY <1>1, <1>2, <1>3, <1>4, <1>5 DEF TypeOK

\* The backoff stays between its bounds.
LEMMA NextCurrentInRange ==
  ASSUME current \in InitialDelay..MaxDelay
  PROVE  NextCurrent \in InitialDelay..MaxDelay
  BY FeedAssumption DEF FeedAssumption, NextCurrent

LEMMA OnErrorType ==
  ASSUME TypeOK, OnError
  PROVE  loop' \in Loop /\ armed' \in BOOLEAN /\ current' \in InitialDelay..MaxDelay
<1>1. CASE AutoReconnect
  BY <1>1, NextCurrentInRange DEF TypeOK, OnError, ScheduleReconnect, Loop
<1>2. CASE ~AutoReconnect
  BY <1>2 DEF TypeOK, OnError, Loop
<1> QED
  BY <1>1, <1>2

LEMMA ConnectType ==
  ASSUME TypeOK, NEW c \in Clients, NEW old \in BOOLEAN, ConnectClient(c, old)
  PROVE  /\ WsTypeOK'
         /\ loop' \in Loop /\ client' \in Clients \cup {NoClient}
         /\ armed' \in BOOLEAN /\ current' \in InitialDelay..MaxDelay
         /\ urlOk' \in BOOLEAN /\ remaining' \in 0..MaxMessages
         /\ seen' \in 0..SeenCap /\ strayed' \in BOOLEAN
<1>1. WsTypeOK'
  BY WsClientAssumption
  DEF WsClientAssumption, TypeOK, WsTypeOK, ConnectClient, Connect, Op, Connecting
<1>2. loop' \in Loop /\ armed' \in BOOLEAN /\ current' \in InitialDelay..MaxDelay
  <2>1. CASE urlOk
    BY <2>1 DEF ConnectClient, TypeOK, Loop
  <2>2. CASE ~urlOk
    BY <2>2, OnErrorType DEF ConnectClient
  <2> QED
    BY <2>1, <2>2
<1> QED
  BY <1>1, <1>2 DEF ConnectClient, TypeOK

\* The handlers of a client keep its part of the type.
LEMMA WsHandlersType ==
  ASSUME WsTypeOK, NEW c \in Clients,
         \/ OnResolve(c) \/ OnConnect(c) \/ OnSslHandshake(c) \/ OnWsHandshake(c)
         \/ OnRead(c) \/ OnWrite(c) \/ (\E op \in Op : Fails(c, op))
         \/ WriteChunk(c) \/ DeadlineExpires(c)
  PROVE  WsTypeOK'
<1> USE DEF WsTypeOK
<1>1. CASE OnResolve(c)
  BY <1>1 DEF OnResolve, Op, Connecting
<1>2. CASE OnConnect(c)
  BY <1>2 DEF OnConnect, Op, Connecting
<1>3. CASE OnSslHandshake(c)
  BY <1>3 DEF OnSslHandshake, Op, Connecting
<1>4. CASE OnWsHandshake(c)
  BY <1>4, WsClientAssumption DEF WsClientAssumption, OnWsHandshake, Op, Connecting
<1>5. CASE OnRead(c)
  BY <1>5 DEF OnRead, wsVars
<1>6. CASE OnWrite(c)
  BY <1>6 DEF OnWrite
<1>7. CASE \E op \in Op : Fails(c, op)
  BY <1>7 DEF Fails
<1>8. CASE WriteChunk(c)
  <2>1. PICK bad \in BOOLEAN : garbled' = [garbled EXCEPT ![c] = @ \/ bad]
    BY <1>8 DEF WriteChunk
  <2>2. garbled' \in [Clients -> BOOLEAN]
    <3>1. (garbled[c] \/ bad) \in BOOLEAN
      BY Zenon
    <3> QED
      BY <2>1, <3>1
  <2>3. unsent' \in [Clients -> 0..SubscribeChunks]
    BY <1>8, WsClientAssumption DEF WsClientAssumption, WriteChunk
  <2> QED
    BY <1>8, <2>2, <2>3 DEF WriteChunk
<1>9. CASE DeadlineExpires(c)
  BY <1>9 DEF DeadlineExpires
<1> QED
  BY <1>1, <1>2, <1>3, <1>4, <1>5, <1>6, <1>7, <1>8, <1>9

LEMMA NextType == TypeOK /\ [Next]_vars => TypeOK'
<1> SUFFICES ASSUME TypeOK, [Next]_vars PROVE TypeOK'
  OBVIOUS
<1>0. WsTypeOK
  BY DEF TypeOK
<1>1. CASE OutputOpenFails
  BY <1>1 DEF OutputOpenFails, TypeOK, WsTypeOK, wsVars, Loop
<1>2. CASE Start
  <2>1. PICK c \in Clients : ConnectClient(c, FALSE)
    BY <1>2 DEF Start
  <2> QED
    BY <1>2, <2>1, ConnectType DEF Start, TypeOK
<1>3. ASSUME NEW c \in Clients, Handler(c) PROVE TypeOK'
  <2>1. CASE Resolved(c) \/ Connected(c) \/ Secured(c) \/ Written(c)
    <3>1. WsTypeOK'
      BY <1>0, <2>1, WsHandlersType DEF Resolved, Connected, Secured, Written
    <3>2. UNCHANGED feedVars
      BY <2>1 DEF Resolved, Connected, Secured, Written
    <3> QED
      BY <3>1, <3>2 DEF TypeOK, feedVars
  <2>2. CASE Opened(c)
    BY <1>0, <2>2, WsHandlersType, FeedAssumption DEF FeedAssumption, Opened, OnOpen, TypeOK
  <2>3. CASE Received(c)
    <3>1. WsTypeOK'
      BY <1>0, <2>3, WsHandlersType DEF Received
    <3>2. seen' \in 0..SeenCap /\ remaining' \in 0..MaxMessages
      BY <2>3, FeedAssumption DEF FeedAssumption, Received, OnMessage, TypeOK, SeenCap
    <3>3. loop' \in Loop
      BY <2>3 DEF Received, OnMessage, TypeOK, Loop
    <3> QED
      BY <2>3, <3>1, <3>2, <3>3 DEF Received, OnMessage, TypeOK
  <2>4. CASE Failed(c)
    <3>1. WsTypeOK'
      BY <1>0, <2>4, WsHandlersType DEF Failed
    <3>2. loop' \in Loop /\ armed' \in BOOLEAN /\ current' \in InitialDelay..MaxDelay
      BY <2>4, OnErrorType DEF Failed
    <3> QED
      BY <2>4, <3>1, <3>2 DEF Failed, TypeOK
  <2> QED
    BY <1>3, <2>1, <2>2, <2>3, <2>4 DEF Handler
<1>4. ASSUME NEW c \in Clients, Library(c) PROVE TypeOK'
  <2>1. WsTypeOK'
    BY <1>0, <1>4, WsHandlersType DEF Library, WriteGoesOn, TimeoutHits
  <2>2. UNCHANGED feedVars
    BY <1>4 DEF Library, WriteGoesOn, TimeoutHits
  <2> QED
    BY <2>1, <2>2 DEF TypeOK, feedVars
<1>5. CASE StrayHandler
  <2>1. WsTypeOK'
    BY <1>0, <1>5, WsHandlersType DEF StrayHandler
  <2>2. loop' \in Loop /\ armed' \in BOOLEAN /\ current' \in InitialDelay..MaxDelay
    <3>1. CASE OnError
      BY <3>1, OnErrorType
    <3>2. CASE loop' = "crashed" /\ UNCHANGED <<armed, current>>
      BY <3>2 DEF TypeOK, Loop
    <3> QED
      BY <1>5, <3>1, <3>2 DEF StrayHandler
  <2> QED
    BY <1>5, <2>1, <2>2 DEF StrayHandler, TypeOK
<1>6. CASE TimerExpires
  <2>1. WsTypeOK'
    BY <1>0, <1>6 DEF TimerExpires, WsTypeOK, wsVars
  <2>2. due' \in 0..MaxDue
    BY <1>6 DEF TimerExpires, TypeOK, MaxDue
  <2>3. armed' \in BOOLEAN
    BY <1>6 DEF TimerExpires
  <2> QED
    BY <1>6, <2>1, <2>2, <2>3 DEF TimerExpires, TypeOK
<1>7. ASSUME NEW refreshed \in BOOLEAN, OnTimer(refreshed) PROVE TypeOK'
  <2>1. PICK c \in Clients : ConnectClient(c, ~refreshed)
    BY <1>7 DEF OnTimer
  <2>2. due' \in 0..MaxDue
    BY <1>7 DEF OnTimer, TypeOK, MaxDue
  <2>3. (~refreshed) \in BOOLEAN
    BY Zenon
  <2> QED
    BY <2>1, <2>2, <2>3, ConnectType DEF TypeOK
<1>8. CASE PeerCloses
  BY <1>8 DEF PeerCloses, TypeOK, WsTypeOK, wsVars, Loop
<1>9. CASE UNCHANGED vars
  BY <1>9 DEF TypeOK, WsTypeOK, vars, wsVars, feedVars
<1> QED
  BY <1>1, <1>2, <1>3, <1>4, <1>5, <1>6, <1>7, <1>8, <1>9 DEF Next, Terminated

\* Every variable keeps its type; in particular the backoff stays between its
\* bounds (feed_handler.hpp:116-124) and the limit is never overrun.
THEOREM TypeCorrect == Spec => []TypeOK
<1>1. Init => TypeOK
  BY InitType
<1>2. TypeOK /\ [Next]_vars => TypeOK'
  BY NextType
<1> QED
  BY <1>1, <1>2, PTL DEF Spec

-----------------------------------------------------------------------------
(* The limit on messages *)

LEMMA NextLimit ==
  TypeOK /\ MessageLimit /\ [Next]_vars => MessageLimit'
<1> SUFFICES ASSUME TypeOK, MessageLimit, [Next]_vars, MaxMessages > 0
             PROVE  /\ (seen + remaining = MaxMessages)'
                    /\ (remaining = 0 => loop \in {"closing", "stopped"})'
  BY DEF MessageLimit
<1>1. CASE UNCHANGED <<seen, remaining>> /\ (remaining > 0 \/ UNCHANGED loop)
  BY <1>1 DEF MessageLimit
<1>2. ASSUME NEW c \in Clients, Received(c)
      PROVE  /\ (seen + remaining = MaxMessages)'
             /\ (remaining = 0 => loop \in {"closing", "stopped"})'
  <2>1. remaining \in 1..MaxMessages /\ seen < SeenCap /\ seen \in Nat
    BY <1>2, FeedAssumption DEF FeedAssumption, MessageLimit, TypeOK, Received, Running,
                                SeenCap
  <2>2. seen' = seen + 1 /\ remaining' = remaining - 1
    BY <1>2, <2>1 DEF Received, OnMessage
  <2>3. remaining' = 0 => loop' = "closing"
    BY <1>2, <2>1, <2>2 DEF Received, OnMessage
  <2> QED
    BY <2>1, <2>2, <2>3, FeedAssumption DEF FeedAssumption, MessageLimit
<1>3. loop \in {"start", "running"} => remaining > 0
  BY FeedAssumption DEF FeedAssumption, MessageLimit, TypeOK
<1>4. CASE OutputOpenFails \/ Start \/ StrayHandler \/ TimerExpires \/ PeerCloses
           \/ \E refreshed \in BOOLEAN : OnTimer(refreshed)
  <2>1. UNCHANGED <<seen, remaining>>
    BY <1>4 DEF OutputOpenFails, Start, StrayHandler, TimerExpires, PeerCloses, OnTimer,
                ConnectClient
  <2>2. CASE ~PeerCloses
    <3>1. loop \in {"start", "running"}
      BY <1>4, <2>2 DEF OutputOpenFails, Start, StrayHandler, TimerExpires, OnTimer
    <3> QED
      BY <1>1, <1>3, <2>1, <3>1
  <2>3. CASE PeerCloses
    BY <2>1, <2>3 DEF PeerCloses, MessageLimit
  <2> QED
    BY <2>2, <2>3
<1>5. ASSUME NEW c \in Clients, Handler(c) \/ Library(c), ~Received(c)
      PROVE  UNCHANGED <<seen, remaining>> /\ loop = "running"
  BY <1>5 DEF Handler, Library, Resolved, Connected, Secured, Opened, Written, Failed,
              OnOpen, WriteGoesOn, TimeoutHits, feedVars, Running
<1>6. CASE UNCHANGED vars
  BY <1>1, <1>6 DEF vars, feedVars
<1> QED
  BY <1>1, <1>2, <1>3, <1>4, <1>5, <1>6 DEF Next, Terminated

\* options.max_messages counts over all connections, and the message that
\* reaches it ends the loop (feed_handler.hpp:241-249).
THEOREM LimitKept == Spec => []MessageLimit
<1>1. Init => MessageLimit
  BY FeedAssumption DEF FeedAssumption, Init, MessageLimit
<1>2. TypeOK /\ MessageLimit /\ [Next]_vars => MessageLimit'
  BY NextLimit
<1> QED
  BY <1>1, <1>2, TypeCorrect, PTL DEF Spec

-----------------------------------------------------------------------------
(* The loop has work *)

\* A write alone does not keep a connection going: when its handler has run,
\* nothing is started again.
WorkInv ==
  loop = "running" =>
    \/ armed \/ due > 0
    \/ client # NoClient /\ ops[client] \ {"write"} # {}

LEMMA OnErrorArms ==
  ASSUME OnError, loop' = "running"
  PROVE  armed'
  BY DEF OnError, ScheduleReconnect

LEMMA ConnectStartsWork ==
  ASSUME TypeOK, NEW c \in Clients, NEW old \in BOOLEAN, ConnectClient(c, old)
  PROVE  WorkInv'
<1>1. CASE urlOk
  <2>1. client' = c /\ c # NoClient
    BY FeedAssumption DEF FeedAssumption, ConnectClient
  <2>2. ops'[c] = {"resolve"}
    BY <1>1 DEF ConnectClient, Connect, TypeOK, WsTypeOK
  <2> QED
    BY <2>1, <2>2 DEF WorkInv
<1>2. CASE ~urlOk
  BY <1>2, OnErrorArms DEF ConnectClient, WorkInv
<1> QED
  BY <1>1, <1>2

LEMMA NextWork == TypeOK /\ WorkInv /\ [Next]_vars => WorkInv'
<1> SUFFICES ASSUME TypeOK, WorkInv, [Next]_vars PROVE WorkInv'
  OBVIOUS
<1>1. CASE OutputOpenFails
  BY <1>1 DEF OutputOpenFails, WorkInv
<1>2. CASE Start
  BY <1>2, ConnectStartsWork DEF Start
<1>3. ASSUME NEW c \in Clients, Handler(c) PROVE WorkInv'
  <2>0. c # NoClient
    BY FeedAssumption DEF FeedAssumption
  <2>1. CASE Resolved(c)
    <3>1. ops'[c] = {"connect"} /\ client' = c
      BY <2>1 DEF Resolved, Running, OnResolve, feedVars, TypeOK, WsTypeOK
    <3> QED
      BY <2>0, <3>1 DEF WorkInv
  <2>2. CASE Connected(c)
    <3>1. ops'[c] = {"tls"} /\ client' = c
      BY <2>2 DEF Connected, Running, OnConnect, feedVars, TypeOK, WsTypeOK
    <3> QED
      BY <2>0, <3>1 DEF WorkInv
  <2>3. CASE Secured(c)
    <3>1. ops'[c] = {"handshake"} /\ client' = c
      BY <2>3 DEF Secured, Running, OnSslHandshake, feedVars, TypeOK, WsTypeOK
    <3> QED
      BY <2>0, <3>1 DEF WorkInv
  <2>4. CASE Opened(c)
    <3>1. "read" \in ops'[c] /\ client' = c
      BY <2>4 DEF Opened, Running, OnWsHandshake, OnOpen, TypeOK, WsTypeOK
    <3> QED
      BY <2>0, <3>1 DEF WorkInv
  <2>5. CASE Received(c)
    BY <2>5 DEF Received, Running, OnRead, OnMessage, wsVars, WorkInv
  <2>6. CASE Written(c)
    <3>1. ops'[c] \ {"write"} = ops[c] \ {"write"} /\ client = c
      BY <2>6 DEF Written, Running, OnWrite, TypeOK, WsTypeOK
    <3> QED
      BY <2>6, <3>1 DEF Written, feedVars, Running, WorkInv
  <2>7. CASE Failed(c)
    BY <2>7, OnErrorArms DEF Failed, WorkInv
  <2> QED
    BY <1>3, <2>1, <2>2, <2>3, <2>4, <2>5, <2>6, <2>7 DEF Handler
<1>4. ASSUME NEW c \in Clients, Library(c) PROVE WorkInv'
  BY <1>4 DEF Library, WriteGoesOn, TimeoutHits, WriteChunk, DeadlineExpires, feedVars,
              WorkInv
<1>5. CASE StrayHandler
  BY <1>5, OnErrorArms DEF StrayHandler, WorkInv
<1>6. CASE TimerExpires
  BY <1>6 DEF TimerExpires, TypeOK, WorkInv
<1>7. ASSUME NEW refreshed \in BOOLEAN, OnTimer(refreshed) PROVE WorkInv'
  <2>1. (~refreshed) \in BOOLEAN
    BY Zenon
  <2> QED
    BY <1>7, <2>1, ConnectStartsWork DEF OnTimer
<1>8. CASE PeerCloses
  BY <1>8 DEF PeerCloses, WorkInv
<1>9. CASE UNCHANGED vars
  BY <1>9 DEF vars, wsVars, feedVars, WorkInv
<1> QED
  BY <1>1, <1>2, <1>3, <1>4, <1>5, <1>6, <1>7, <1>8, <1>9 DEF Next, Terminated

\* ioc.run() never returns because there is nothing to wait for, also when a
\* read and a write fail one after the other or a destroyed client's handler
\* runs (feed_handler.hpp:92-97, 253-319).
THEOREM NeverIdle == Spec => []LoopHasWork
<1>1. Init => WorkInv
  BY DEF Init, WorkInv
<1>2. TypeOK /\ WorkInv /\ [Next]_vars => WorkInv'
  BY NextWork
<1>3. WorkInv => LoopHasWork
  BY DEF WorkInv, LoopHasWork
<1> QED
  BY <1>1, <1>2, <1>3, TypeCorrect, PTL DEF Spec

-----------------------------------------------------------------------------
(* The backoff starts afresh *)

LEMMA NextAfresh ==
  TypeOK /\ HealthyStartsAfresh /\ [Next]_vars => HealthyStartsAfresh'
<1> SUFFICES ASSUME TypeOK, HealthyStartsAfresh, [Next]_vars
             PROVE  HealthyStartsAfresh'
  OBVIOUS
<1> USE DEF HealthyStartsAfresh
<1>1. CASE OutputOpenFails \/ PeerCloses
  BY <1>1 DEF OutputOpenFails, PeerCloses
<1>2. ASSUME NEW c \in Clients, NEW old \in BOOLEAN, ConnectClient(c, old)
      PROVE  HealthyStartsAfresh'
  <2>1. "read" \notin ops'[client']
    BY <1>2 DEF ConnectClient, Connect, TypeOK, WsTypeOK
  <2> QED
    BY <2>1
<1>3. ASSUME NEW c \in Clients, Handler(c) PROVE HealthyStartsAfresh'
  <2>1. CASE Resolved(c) \/ Connected(c) \/ Secured(c)
    <3>1. "read" \notin ops'[c] /\ client' = c
      BY <2>1 DEF Resolved, Connected, Secured, Running, OnResolve, OnConnect,
                  OnSslHandshake, feedVars, TypeOK, WsTypeOK
    <3> QED
      BY <3>1
  <2>2. CASE Opened(c)
    BY <2>2 DEF Opened, OnOpen
  <2>3. CASE Received(c)
    BY <2>3 DEF Received, Running, OnRead, OnMessage, wsVars
  <2>4. CASE Written(c)
    <3>1. "read" \in ops'[c] => "read" \in ops[c]
      BY <2>4 DEF Written, OnWrite, TypeOK, WsTypeOK
    <3> QED
      BY <2>4, <3>1 DEF Written, Running, feedVars
  <2>5. CASE Failed(c)
    BY <2>5, OnErrorArms DEF Failed
  <2> QED
    BY <1>3, <2>1, <2>2, <2>3, <2>4, <2>5 DEF Handler
<1>4. ASSUME NEW c \in Clients, Library(c) PROVE HealthyStartsAfresh'
  BY <1>4 DEF Library, WriteGoesOn, TimeoutHits, WriteChunk, DeadlineExpires, feedVars
<1>5. CASE StrayHandler
  BY <1>5, OnErrorArms DEF StrayHandler
<1>6. CASE TimerExpires
  BY <1>6 DEF TimerExpires, TypeOK
<1>7. CASE UNCHANGED vars
  BY <1>7 DEF vars, wsVars, feedVars
<1>8. ASSUME NEW refreshed \in BOOLEAN, OnTimer(refreshed) PROVE HealthyStartsAfresh'
  <2>1. (~refreshed) \in BOOLEAN
    BY Zenon
  <2> QED
    BY <1>2, <1>8, <2>1 DEF OnTimer
<1>9. CASE Start
  BY <1>2, <1>9 DEF Start
<1> QED
  BY <1>1, <1>3, <1>4, <1>5, <1>6, <1>7, <1>8, <1>9 DEF Next, Terminated

\* A connection that is open and has had no error is one whose next pause will
\* be the shortest, whatever happened before it (feed_handler.hpp:206).
THEOREM BackoffIsReset == Spec => []HealthyStartsAfresh
<1>1. Init => HealthyStartsAfresh
  BY DEF Init, HealthyStartsAfresh
<1>2. TypeOK /\ HealthyStartsAfresh /\ [Next]_vars => HealthyStartsAfresh'
  BY NextAfresh
<1> QED
  BY <1>1, <1>2, TypeCorrect, PTL DEF Spec

-----------------------------------------------------------------------------
(* Where one error is the end of a connection, handlers run on live clients *)

\* Either a connection never has two operations outstanding, or its first
\* error stops the loop.
OneErrorEach == SubscribeChunks = 0 \/ ~AutoReconnect

\* No destroyed client has anything outstanding; the timer runs only when the
\* current one has nothing outstanding either, and then once.
OwnInv ==
  /\ ~strayed
  /\ \A c \in Clients : c # client => ops[c] = {}
  /\ loop = "running" /\ (armed \/ due > 0) =>
       /\ AutoReconnect
       /\ client # NoClient => ops[client] = {}
  /\ armed => due = 0
  /\ due <= 1
  /\ loop = "start" => client = NoClient /\ ~armed /\ due = 0
  /\ SubscribeChunks = 0 =>
       \A c \in Clients : ops[c] = {} \/ \E op \in Op \ {"write"} : ops[c] = {op}

LEMMA OnErrorOwned ==
  ASSUME TypeOK, OnError
  PROVE  \/ AutoReconnect /\ armed' /\ loop' = "running"
         \/ ~AutoReconnect /\ armed' = armed /\ loop' = "stopped"
  BY DEF OnError, ScheduleReconnect

LEMMA ConnectOwned ==
  ASSUME TypeOK, OwnInv, NEW c \in Clients, NEW old \in BOOLEAN,
         ConnectClient(c, old), ~armed, due' = 0,
         client # NoClient => ops[client] = {}
  PROVE  OwnInv'
<1>1. \A d \in Clients : ops[d] = {}
  BY FeedAssumption DEF FeedAssumption, OwnInv
<1>2. \A d \in Clients : d # c => ops'[d] = {}
  BY <1>1 DEF ConnectClient, Connect, TypeOK, WsTypeOK
<1>3. ops'[c] = IF urlOk THEN {"resolve"} ELSE {}
  BY DEF ConnectClient, Connect, TypeOK, WsTypeOK
<1>4. client' = c /\ ~strayed'
  BY DEF ConnectClient, OwnInv
<1>5. CASE urlOk
  <2>1. loop' = "running" /\ ~armed'
    BY <1>5 DEF ConnectClient
  <2> QED
    BY <1>2, <1>3, <1>4, <2>1 DEF OwnInv, Op, Connecting
<1>6. CASE ~urlOk
  <2>1. OnError /\ ops'[c] = {}
    BY <1>3, <1>6 DEF ConnectClient
  <2> QED
    BY <1>2, <1>4, <2>1, OnErrorOwned DEF OwnInv
<1> QED
  BY <1>5, <1>6

LEMMA NextOwned ==
  ASSUME OneErrorEach, TypeOK, OwnInv, [Next]_vars
  PROVE  OwnInv'
<1>1. CASE OutputOpenFails \/ PeerCloses
  BY <1>1 DEF OutputOpenFails, PeerCloses, OwnInv, wsVars
<1>2. CASE Start
  <2>1. PICK c \in Clients : ConnectClient(c, FALSE)
    BY <1>2 DEF Start
  <2>2. ~armed /\ due' = 0 /\ client = NoClient
    BY <1>2 DEF Start, OwnInv
  <2> QED
    BY <2>1, <2>2, ConnectOwned
<1>3. ASSUME NEW c \in Clients, Handler(c) PROVE OwnInv'
  <2>0. c = client /\ c # NoClient /\ loop = "running"
    BY <1>3, FeedAssumption
    DEF FeedAssumption, Handler, Resolved, Connected, Secured, Opened, Received, Written,
        Failed, Running
  <2>1. CASE Resolved(c) \/ Connected(c) \/ Secured(c)
    <3>1. PICK op \in Op \ {"write"} : ops' = [ops EXCEPT ![c] = {op}]
      BY <2>1 DEF Resolved, Connected, Secured, OnResolve, OnConnect, OnSslHandshake, Op,
                  Connecting
    <3>2. UNCHANGED feedVars /\ ops[c] # {}
      BY <2>1 DEF Resolved, Connected, Secured, OnResolve, OnConnect, OnSslHandshake,
                  Succeeds
    <3>3. ops'[c] = {op} /\ \A d \in Clients : d # c => ops'[d] = ops[d]
      BY <3>1 DEF TypeOK, WsTypeOK
    <3> QED
      BY <2>0, <3>2, <3>3 DEF OwnInv, feedVars
  <2>2. CASE Opened(c)
    <3>1. /\ ops[c] # {}
          /\ SubscribeChunks = 0 => ops'[c] = {"read"}
          /\ \A d \in Clients : d # c => ops'[d] = ops[d]
      BY <2>2 DEF Opened, OnWsHandshake, Succeeds, TypeOK, WsTypeOK
    <3>2. UNCHANGED <<loop, client, armed, due, strayed>>
      BY <2>2 DEF Opened, OnOpen
    <3> QED
      BY <2>0, <3>1, <3>2 DEF OwnInv, Op
  <2>3. CASE Received(c)
    <3>1. UNCHANGED <<ops, client, armed, due, strayed>>
      BY <2>3 DEF Received, OnRead, OnMessage, wsVars
    <3>2. loop' = "closing" \/ UNCHANGED loop
      BY <2>3 DEF Received, OnMessage
    <3> QED
      BY <3>1, <3>2 DEF OwnInv
  <2>4. CASE Written(c)
    <3>1. /\ "write" \in ops[c]
          /\ \A d \in Clients : d # c => ops'[d] = ops[d]
      BY <2>4 DEF Written, OnWrite, Succeeds, TypeOK, WsTypeOK
    <3>2. SubscribeChunks # 0
      BY <3>1 DEF OwnInv
    <3>3. UNCHANGED feedVars
      BY <2>4 DEF Written
    <3> QED
      BY <2>0, <3>1, <3>2, <3>3 DEF OwnInv, feedVars
  <2>5. CASE Failed(c)
    <3>1. PICK op \in Op : Fails(c, op)
      BY <2>5 DEF Failed
    <3>2. /\ op \in ops[c]
          /\ ops'[c] = ops[c] \ {op}
          /\ \A d \in Clients : d # c => ops'[d] = ops[d]
      BY <3>1 DEF Fails, TypeOK, WsTypeOK
    <3>3. OnError /\ UNCHANGED <<client, due, strayed>>
      BY <2>5 DEF Failed
    <3>4. due = 0 /\ ~armed
      BY <2>0, <3>2 DEF OwnInv, TypeOK, MaxDue
    <3>5. SubscribeChunks = 0 => ops'[c] = {}
      BY <3>2 DEF OwnInv
    <3>6. CASE AutoReconnect
      <4>1. SubscribeChunks = 0 /\ ops'[c] = {}
        BY <3>5, <3>6 DEF OneErrorEach
      <4> QED
        BY <2>0, <3>2, <3>3, <3>4, <3>6, <4>1, OnErrorOwned DEF OwnInv
    <3>7. CASE ~AutoReconnect
      <4>1. loop' = "stopped" /\ ~armed'
        BY <3>3, <3>4, <3>7 DEF OnError
      <4> QED
        BY <2>0, <3>2, <3>3, <3>4, <3>5, <4>1 DEF OwnInv
    <3> QED
      BY <3>6, <3>7
  <2> QED
    BY <1>3, <2>1, <2>2, <2>3, <2>4, <2>5 DEF Handler
<1>4. ASSUME NEW c \in Clients, Library(c) PROVE OwnInv'
  BY <1>4 DEF Library, WriteGoesOn, TimeoutHits, WriteChunk, DeadlineExpires, feedVars,
              OwnInv
<1>5. CASE StrayHandler
  <2>1. PICK c \in Clients \ {client}, op \in Op : Fails(c, op)
    BY <1>5 DEF StrayHandler
  <2>2. op \in ops[c] /\ ops[c] = {}
    BY <2>1 DEF Fails, OwnInv
  <2> QED
    BY <2>2
<1>6. CASE TimerExpires
  BY <1>6 DEF TimerExpires, OwnInv, wsVars
<1>7. ASSUME NEW refreshed \in BOOLEAN, OnTimer(refreshed) PROVE OwnInv'
  <2>1. PICK c \in Clients : ConnectClient(c, ~refreshed)
    BY <1>7 DEF OnTimer
  <2>2. ~armed /\ due' = 0 /\ (client # NoClient => ops[client] = {})
    BY <1>7 DEF OnTimer, OwnInv, TypeOK, MaxDue
  <2>3. (~refreshed) \in BOOLEAN
    BY Zenon
  <2> QED
    BY <2>1, <2>2, <2>3, ConnectOwned
<1>8. CASE UNCHANGED vars
  BY <1>8 DEF vars, wsVars, feedVars, OwnInv
<1> QED
  BY <1>1, <1>2, <1>3, <1>4, <1>5, <1>6, <1>7, <1>8 DEF Next, Terminated

LEMMA Owned ==
  ASSUME OneErrorEach
  PROVE  Spec => [](TypeOK /\ OwnInv)
<1>1. Init => OwnInv
  BY DEF Init, WsInit, OwnInv
<1>2. TypeOK /\ OwnInv /\ [Next]_vars => OwnInv'
  BY NextOwned
<1> QED
  BY <1>1, <1>2, TypeCorrect, PTL DEF Spec

\* Without a subscribe command, or without reconnect, no handler ever runs for
\* a client that connect_client has destroyed (feed_handler.hpp:175-201).
THEOREM HandlersOwned ==
  OneErrorEach => (Spec => []HandlersRunOnOwnedClient)
<1> SUFFICES ASSUME OneErrorEach PROVE Spec => []HandlersRunOnOwnedClient
  OBVIOUS
<1>1. OwnInv => HandlersRunOnOwnedClient
  BY DEF OwnInv, HandlersRunOnOwnedClient
<1> QED
  BY <1>1, Owned, PTL

\* Nor is a client ever replaced that has something outstanding.
THEOREM DeadReplaced ==
  OneErrorEach => (Spec => ReplacesOnlyDeadClients)
<1> SUFFICES ASSUME OneErrorEach PROVE Spec => ReplacesOnlyDeadClients
  OBVIOUS
<1>1. TypeOK /\ OwnInv /\ [Next]_vars
        => [client # NoClient /\ client' # client => ops[client] = {}]_vars
  <2> SUFFICES ASSUME TypeOK, OwnInv, [Next]_vars, client # NoClient, client' # client
               PROVE  ops[client] = {}
    OBVIOUS
  <2>1. \/ Start
        \/ \E refreshed \in BOOLEAN : OnTimer(refreshed)
    BY DEF Next, Terminated, OutputOpenFails, StrayHandler, TimerExpires, PeerCloses,
           Handler, Resolved, Connected, Secured, Opened, Received, Written, Failed,
           OnOpen, OnMessage, Library, WriteGoesOn, TimeoutHits, feedVars, vars
  <2>2. CASE Start
    BY <2>2 DEF Start, OwnInv
  <2>3. CASE \E refreshed \in BOOLEAN : OnTimer(refreshed)
    BY <2>3 DEF OnTimer, OwnInv
  <2> QED
    BY <2>1, <2>2, <2>3
<1> QED
  BY <1>1, Owned, PTL DEF Spec, ReplacesOnlyDeadClients

-----------------------------------------------------------------------------
(* The feed is a reconnecting session *)

LEMMA PhaseIs ==
  /\ loop = "start" => Phase = "idle"
  /\ loop \in {"closing", "stopped", "failed", "crashed"} => Phase = "over"
  /\ loop = "running" /\ (armed \/ due > 0) => Phase = "pause"
  /\ loop = "running" /\ ~(armed \/ due > 0) =>
       Phase = IF "read" \in ops[client] THEN "open" ELSE "connecting"
  BY DEF Phase

\* Until a connection is open it has one operation, and that is not a read.
PhaseInv ==
  \A c \in Clients : \/ ops[c] \subseteq {"read", "write"}
                     \/ \E op \in Connecting : ops[c] = {op}

LEMMA NextPhaseInv == TypeOK /\ PhaseInv /\ [Next]_vars => PhaseInv'
<1> SUFFICES ASSUME TypeOK, PhaseInv, [Next]_vars PROVE PhaseInv'
  OBVIOUS
<1>1. CASE UNCHANGED ops
  BY <1>1 DEF PhaseInv
<1>2. ASSUME NEW c \in Clients, NEW old \in BOOLEAN, ConnectClient(c, old)
      PROVE  PhaseInv'
  BY <1>2 DEF ConnectClient, Connect, TypeOK, WsTypeOK, PhaseInv, Connecting
<1>3. ASSUME NEW c \in Clients,
             OnResolve(c) \/ OnConnect(c) \/ OnSslHandshake(c) \/ OnWsHandshake(c)
      PROVE  PhaseInv'
  BY <1>3 DEF OnResolve, OnConnect, OnSslHandshake, OnWsHandshake, TypeOK, WsTypeOK,
              PhaseInv, Connecting
<1>4. ASSUME NEW c \in Clients, NEW op \in Op, ops' = [ops EXCEPT ![c] = @ \ {op}]
      PROVE  PhaseInv'
  <2>1. \A d \in Clients : ops'[d] = ops[d] \/ ops'[d] = ops[d] \ {op}
    BY <1>4 DEF TypeOK, WsTypeOK
  <2> QED
    BY <2>1 DEF PhaseInv
<1>5. CASE OutputOpenFails \/ TimerExpires \/ PeerCloses \/ UNCHANGED vars
  BY <1>1, <1>5 DEF OutputOpenFails, TimerExpires, PeerCloses, vars, wsVars
<1>6. CASE Start
  BY <1>2, <1>6 DEF Start
<1>7. ASSUME NEW refreshed \in BOOLEAN, OnTimer(refreshed) PROVE PhaseInv'
  <2>1. (~refreshed) \in BOOLEAN
    BY Zenon
  <2> QED
    BY <1>2, <1>7, <2>1 DEF OnTimer
<1>8. CASE StrayHandler
  BY <1>4, <1>8 DEF StrayHandler, Fails
<1>9. ASSUME NEW c \in Clients, Handler(c) PROVE PhaseInv'
  <2>1. CASE Resolved(c) \/ Connected(c) \/ Secured(c) \/ Opened(c)
    BY <1>3, <2>1 DEF Resolved, Connected, Secured, Opened
  <2>2. CASE Received(c)
    BY <1>1, <2>2 DEF Received, OnRead, wsVars
  <2>3. CASE Written(c)
    BY <1>4, <2>3 DEF Written, OnWrite, Op
  <2>4. CASE Failed(c)
    BY <1>4, <2>4 DEF Failed, Fails
  <2> QED
    BY <1>9, <2>1, <2>2, <2>3, <2>4 DEF Handler
<1>10. ASSUME NEW c \in Clients, Library(c) PROVE PhaseInv'
  BY <1>1, <1>10 DEF Library, WriteGoesOn, TimeoutHits, WriteChunk, DeadlineExpires
<1> QED
  BY <1>5, <1>6, <1>7, <1>8, <1>9, <1>10 DEF Next, Terminated

LEMMA PhaseKept == Spec => []PhaseInv
<1>1. Init => PhaseInv
  BY DEF Init, WsInit, PhaseInv
<1> QED
  BY <1>1, NextPhaseInv, TypeCorrect, PTL DEF Spec

\* Both double the delay up to the maximum.
LEMMA SameDelay ==
  ASSUME TypeOK
  PROVE  NextCurrent = Session!Doubled
  BY FeedAssumption DEF FeedAssumption, TypeOK, NextCurrent, Session!Doubled

LEMMA OnErrorIsLost ==
  ASSUME TypeOK, OnError, due' = due, loop \in {"start", "running"}, ~armed
  PROVE  Session!Lost
<1>1. CASE AutoReconnect
  <2>1. Phase' = "pause" /\ current' = NextCurrent
    BY <1>1 DEF OnError, ScheduleReconnect, Phase
  <2> QED
    BY <1>1, <2>1, SameDelay DEF Session!Lost
<1>2. CASE ~AutoReconnect
  <2>1. Phase' = "over" /\ current' = current
    BY <1>2 DEF OnError, Phase
  <2> QED
    BY <1>2, <2>1 DEF Session!Lost
<1> QED
  BY <1>1, <1>2

LEMMA ConnectIsAttempt ==
  ASSUME TypeOK, NEW c \in Clients, NEW old \in BOOLEAN, ConnectClient(c, old),
         Phase \in {"idle", "pause"}, ~armed, due' = 0
  PROVE  Session!Attempt
<1>1. UNCHANGED <<urlOk, remaining>>
  BY DEF ConnectClient
<1>2. CASE urlOk
  <2>1. ops'[client'] = {"resolve"} /\ loop' = "running" /\ ~armed'
    BY <1>2 DEF ConnectClient, Connect, TypeOK, WsTypeOK
  <2>2. Phase' = "connecting" /\ current' = current
    BY <1>2, <2>1 DEF Phase, ConnectClient
  <2> QED
    BY <1>1, <1>2, <2>2 DEF Session!Attempt
<1>3. CASE ~urlOk
  <2>1. OnError
    BY <1>3 DEF ConnectClient
  <2>2. CASE AutoReconnect
    <3>1. Phase' = "pause" /\ current' = NextCurrent
      BY <2>1, <2>2 DEF OnError, ScheduleReconnect, Phase
    <3> QED
      BY <1>1, <1>3, <2>2, <3>1, SameDelay DEF Session!Attempt, Session!Lost
  <2>3. CASE ~AutoReconnect
    <3>1. Phase' = "over" /\ current' = current
      BY <2>1, <2>3 DEF OnError, Phase
    <3> QED
      BY <1>1, <1>3, <2>3, <3>1 DEF Session!Attempt, Session!Lost
  <2> QED
    BY <2>2, <2>3
<1> QED
  BY <1>2, <1>3

\* Where one error is the end of a connection, every step of the feed is a step
\* of the session or none.
LEMMA NextSession ==
  ASSUME OneErrorEach, TypeOK, OwnInv, PhaseInv, [Next]_vars
  PROVE  [Session!Next]_(Session!vars)
<1> DEFINE same == UNCHANGED <<urlOk, Phase, current, remaining>>
<1>0. same => [Session!Next]_(Session!vars)
  BY DEF Session!vars
<1> HIDE DEF same
<1>1. CASE OutputOpenFails
  <2>1. Phase = "idle" /\ Phase' = "over" /\ UNCHANGED <<urlOk, current, remaining>>
    BY <1>1 DEF OutputOpenFails, Phase
  <2> QED
    BY <2>1 DEF Session!Next, Session!GiveUp
<1>2. CASE Start
  <2>1. PICK c \in Clients : ConnectClient(c, FALSE)
    BY <1>2 DEF Start
  <2>2. Phase = "idle" /\ ~armed /\ due' = 0
    BY <1>2, PhaseIs DEF Start, OwnInv
  <2> QED
    BY <2>1, <2>2, ConnectIsAttempt DEF Session!Next
<1>3. ASSUME NEW c \in Clients, Handler(c) PROVE [Session!Next]_(Session!vars)
  <2>0. c = client /\ c # NoClient /\ loop = "running"
    BY <1>3, FeedAssumption
    DEF FeedAssumption, Handler, Resolved, Connected, Secured, Opened, Received, Written,
        Failed, Running
  <2>1. ops[c] # {} => /\ ~armed /\ due = 0
                       /\ Phase = IF "read" \in ops[c] THEN "open" ELSE "connecting"
    BY <2>0, PhaseIs DEF OwnInv, TypeOK, MaxDue
  <2>2. CASE Resolved(c) \/ Connected(c) \/ Secured(c)
    <3>1. \E op \in Connecting : op \in ops[c]
      BY <2>2 DEF Resolved, Connected, Secured, OnResolve, OnConnect, OnSslHandshake,
                  Succeeds, Connecting
    <3>2. "read" \notin ops[c]
      BY <3>1 DEF PhaseInv, Connecting
    <3>3. "read" \notin ops'[c] /\ UNCHANGED feedVars
      BY <2>2 DEF Resolved, Connected, Secured, OnResolve, OnConnect, OnSslHandshake,
                  TypeOK, WsTypeOK
    <3>4. Phase = "connecting" /\ Phase' = "connecting"
      BY <2>0, <2>1, <3>1, <3>2, <3>3 DEF Phase, feedVars
    <3> QED
      BY <1>0, <3>3, <3>4 DEF same, feedVars
  <2>3. CASE Opened(c)
    <3>1. "handshake" \in ops[c] /\ "read" \in ops'[c]
      BY <2>3 DEF Opened, OnWsHandshake, Succeeds, TypeOK, WsTypeOK
    <3>2. "read" \notin ops[c]
      BY <3>1 DEF PhaseInv, Connecting
    <3>3. current' = InitialDelay /\ UNCHANGED <<loop, urlOk, client, armed, due, remaining>>
      BY <2>3 DEF Opened, OnOpen
    <3>4. Phase = "connecting" /\ Phase' = "open"
      BY <2>0, <2>1, <3>1, <3>2, <3>3 DEF Phase
    <3> QED
      BY <3>3, <3>4 DEF Session!Next, Session!Open
  <2>4. CASE Received(c)
    <3>1. /\ "read" \in ops[c]
          /\ UNCHANGED <<ops, urlOk, client, armed, due, current>>
          /\ remaining' = IF remaining > 0 THEN remaining - 1 ELSE 0
          /\ loop' = IF remaining = 1 THEN "closing" ELSE loop
      BY <2>4 DEF Received, OnRead, OnMessage, wsVars, Succeeds
    <3>2. Phase = "open"
      BY <2>1, <3>1
    <3>3. Phase' = IF remaining = 1 THEN "over" ELSE "open"
      BY <2>0, <2>1, <3>1 DEF Phase
    <3>4. CASE remaining = 0
      BY <1>0, <3>1, <3>2, <3>3, <3>4 DEF same
    <3>5. CASE remaining > 0
      BY <3>1, <3>2, <3>3, <3>5 DEF Session!Next, Session!Take
    <3> QED
      BY <3>4, <3>5, FeedAssumption DEF FeedAssumption, TypeOK
  <2>5. CASE Written(c)
    <3>1. ("read" \in ops'[c]) = ("read" \in ops[c]) /\ UNCHANGED feedVars
      BY <2>5 DEF Written, OnWrite, TypeOK, WsTypeOK
    <3>2. Phase' = Phase
      BY <2>0, <3>1 DEF Phase, feedVars
    <3> QED
      BY <1>0, <3>1, <3>2 DEF same, feedVars
  <2>6. CASE Failed(c)
    <3>1. OnError /\ UNCHANGED <<urlOk, due, remaining>> /\ ops[c] # {}
      BY <2>6 DEF Failed, Fails
    <3>2. Session!Lost
      BY <2>0, <2>1, <3>1, OnErrorIsLost
    <3>3. Phase \in {"connecting", "open"}
      BY <2>1, <3>1
    <3> QED
      BY <3>1, <3>2, <3>3 DEF Session!Next, Session!Lose
  <2> QED
    BY <1>3, <2>2, <2>3, <2>4, <2>5, <2>6 DEF Handler
<1>4. ASSUME NEW c \in Clients, Library(c) PROVE [Session!Next]_(Session!vars)
  <2>1. UNCHANGED <<ops, feedVars>>
    BY <1>4 DEF Library, WriteGoesOn, TimeoutHits, WriteChunk, DeadlineExpires
  <2>2. Phase' = Phase
    BY <2>1 DEF Phase, feedVars
  <2> QED
    BY <1>0, <2>1, <2>2 DEF same, feedVars
<1>5. CASE StrayHandler
  <2>1. PICK c \in Clients \ {client}, op \in Op : Fails(c, op)
    BY <1>5 DEF StrayHandler
  <2>2. op \in ops[c] /\ ops[c] = {}
    BY <2>1 DEF Fails, OwnInv
  <2> QED
    BY <2>2
<1>6. CASE TimerExpires
  <2>1. Phase = "pause" /\ Phase' = "pause" /\ UNCHANGED <<urlOk, current, remaining>>
    BY <1>6 DEF TimerExpires, Phase, TypeOK
  <2> QED
    BY <1>0, <2>1 DEF same
<1>7. ASSUME NEW refreshed \in BOOLEAN, OnTimer(refreshed)
      PROVE  [Session!Next]_(Session!vars)
  <2>1. PICK c \in Clients : ConnectClient(c, ~refreshed)
    BY <1>7 DEF OnTimer
  <2>2. ~armed /\ due' = 0
    BY <1>7 DEF OnTimer, OwnInv, TypeOK, MaxDue
  <2>3. Phase = "pause"
    BY <1>7, PhaseIs DEF OnTimer
  <2>4. (~refreshed) \in BOOLEAN
    BY Zenon
  <2> QED
    BY <2>1, <2>2, <2>3, <2>4, ConnectIsAttempt DEF Session!Next
<1>8. CASE PeerCloses
  <2>1. Phase = "over" /\ Phase' = "over" /\ UNCHANGED <<urlOk, current, remaining>>
    BY <1>8 DEF PeerCloses, Phase
  <2> QED
    BY <1>0, <2>1 DEF same
<1>9. CASE UNCHANGED vars
  <2>1. UNCHANGED <<ops, feedVars>>
    BY <1>9 DEF vars, wsVars
  <2>2. Phase' = Phase
    BY <2>1 DEF Phase, feedVars
  <2> QED
    BY <1>0, <2>1, <2>2 DEF same, feedVars
<1> QED
  BY <1>1, <1>2, <1>3, <1>4, <1>5, <1>6, <1>7, <1>8, <1>9 DEF Next, Terminated

\* The safety part of ImplementsSession: one connection at a time, a pause after
\* every loss, doubling pauses that start afresh with every connection that
\* opens, and the limit (feed_handler.hpp:175-319).
THEOREM SessionSteps ==
  OneErrorEach => (Spec => Session!SafetySpec)
<1> SUFFICES ASSUME OneErrorEach PROVE Spec => Session!SafetySpec
  OBVIOUS
<1>1. Init => Session!Init
  BY PhaseIs DEF Init, Session!Init
<1>2. TypeOK /\ OwnInv /\ PhaseInv /\ [Next]_vars => [Session!Next]_(Session!vars)
  BY NextSession
<1> QED
  BY <1>1, <1>2, Owned, PhaseKept, PTL DEF Spec, Session!SafetySpec
=============================================================================
