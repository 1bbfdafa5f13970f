------------------------------ MODULE WsClient ------------------------------
(***************************************************************************)
(* kalshi::md::WsClient: one TLS websocket, driven by the completion       *)
(* handlers that boost::asio calls from ioc.run().                         *)
(*                                                                         *)
(* Each definition with a parameter c is a handler of client c up to the   *)
(* callback it makes: it says what becomes of the client, and the owner of *)
(* the clients (FeedHandler) conjoins what its callback does.  The handler *)
(* of an operation that failed is Fails: every handler then does nothing   *)
(* but call fail(), which runs on_error_.                                  *)
(*                                                                         *)
(* Clients is a pool of objects: a destroyed client whose operations have  *)
(* all completed is never heard of again, and its place is used anew.      *)
(***************************************************************************)
EXTENDS Naturals, FiniteSets

CONSTANTS
  Clients,          \* WsClient objects the model can tell apart
  SubscribeChunks   \* write-buffer loads (4096 bytes each) that the subscribe
                    \* command takes; 0 when there is no command to send

ASSUME WsClientAssumption ==
  /\ IsFiniteSet(Clients)
  /\ SubscribeChunks \in Nat

VARIABLES
  ops,        \* operations started on a client whose handler has not run yet
  deadline,   \* the tcp_stream timeout of a client: off, armed or expired
  unsent,     \* chunks of the subscribe command still to be read by the write
  garbled,    \* the peer was sent bytes that are not the subscribe command
  stale       \* the client's headers were signed for an earlier attempt

wsVars == <<ops, deadline, unsent, garbled, stale>>

Connecting == {"resolve", "connect", "tls", "handshake"}
Op == Connecting \cup {"read", "write"}

WsTypeOK ==
  /\ ops \in [Clients -> SUBSET Op]
  /\ deadline \in [Clients -> {"off", "armed", "expired"}]
  /\ unsent \in [Clients -> 0..SubscribeChunks]
  /\ garbled \in [Clients -> BOOLEAN]
  /\ stale \in [Clients -> BOOLEAN]

WsInit ==
  /\ ops = [c \in Clients |-> {}]
  /\ deadline = [c \in Clients |-> "off"]
  /\ unsent = [c \in Clients |-> 0]
  /\ garbled = [c \in Clients |-> FALSE]
  /\ stale = [c \in Clients |-> FALSE]

-----------------------------------------------------------------------------
(* Calls of the owner *)

\* A new WsClient and its connect(): with a url that parses, the resolver is
\* asked; with any other, connect() calls fail() itself and starts nothing.
\* The client it replaces is destroyed, with its timeout and its write; what
\* remains of it are the operations whose handlers have not run.
Connect(c, urlOk, oldHeaders) ==
  /\ ops[c] = {}
  /\ ops' = [ops EXCEPT ![c] = IF urlOk THEN {"resolve"} ELSE {}]
  /\ deadline' = [d \in Clients |-> "off"]
  /\ unsent' = [d \in Clients |-> 0]
  /\ garbled' = [d \in Clients |-> FALSE]
  /\ stale' = [d \in Clients |-> d = c /\ oldHeaders]

-----------------------------------------------------------------------------
(* Handlers *)

\* An operation whose socket the timeout has closed cannot succeed.
Succeeds(c, op) == op \in ops[c] /\ deadline[c] # "expired"

\* on_resolve: the stream's timeout is set, and nothing ever clears it
OnResolve(c) ==
  /\ Succeeds(c, "resolve")
  /\ deadline' = [deadline EXCEPT ![c] = "armed"]
  /\ ops' = [ops EXCEPT ![c] = {"connect"}]
  /\ UNCHANGED <<unsent, garbled, stale>>

OnConnect(c) ==
  /\ Succeeds(c, "connect")
  /\ ops' = [ops EXCEPT ![c] = {"tls"}]
  /\ UNCHANGED <<deadline, unsent, garbled, stale>>

OnSslHandshake(c) ==
  /\ Succeeds(c, "tls")
  /\ ops' = [ops EXCEPT ![c] = {"handshake"}]
  /\ UNCHANGED <<deadline, unsent, garbled, stale>>

\* on_ws_handshake: on_open_ may call send_text, then do_read.  The write
\* copies the first chunk of the command before send_text returns.
OnWsHandshake(c) ==
  /\ Succeeds(c, "handshake")
  /\ ops' = [ops EXCEPT ![c] =
               {"read"} \cup (IF SubscribeChunks > 0 THEN {"write"} ELSE {})]
  /\ unsent' = [unsent EXCEPT ![c] =
                  IF SubscribeChunks > 0 THEN SubscribeChunks - 1 ELSE 0]
  /\ UNCHANGED <<deadline, garbled, stale>>

\* Mutant: no do_read at the end
OnReadOnce(c) ==
  /\ Succeeds(c, "read")
  /\ ops' = [ops EXCEPT ![c] = @ \ {"read"}]
  /\ UNCHANGED <<deadline, unsent, garbled, stale>>

\* on_read: on_message_, then do_read again
OnRead(c) ==
  /\ Succeeds(c, "read")
  /\ UNCHANGED wsVars

OnWrite(c) ==
  /\ Succeeds(c, "write")
  /\ unsent[c] = 0
  /\ ops' = [ops EXCEPT ![c] = @ \ {"write"}]
  /\ UNCHANGED <<deadline, unsent, garbled, stale>>

\* Mutant: no return after fail(), the operation is started again
FailsAndGoesOn(c, op) ==
  /\ op \in ops[c]
  /\ UNCHANGED wsVars

\* Any handler called with an error: fail(), and nothing is started again.
Fails(c, op) ==
  /\ op \in ops[c]
  /\ ops' = [ops EXCEPT ![c] = @ \ {op}]
  /\ UNCHANGED <<deadline, unsent, garbled, stale>>

-----------------------------------------------------------------------------
(* What the library does between two handlers *)

\* The write goes on to the next chunk, out of a string that was send_text's
\* parameter and no longer exists.
WriteChunk(c) ==
  /\ "write" \in ops[c]
  /\ unsent[c] > 0
  /\ unsent' = [unsent EXCEPT ![c] = @ - 1]
  /\ \E bad \in BOOLEAN : garbled' = [garbled EXCEPT ![c] = @ \/ bad]
  /\ UNCHANGED <<ops, deadline, stale>>

\* The timeout closes the socket under whatever operation is in progress.
DeadlineExpires(c) ==
  /\ deadline[c] = "armed"
  /\ ops[c] # {}
  /\ deadline' = [deadline EXCEPT ![c] = "expired"]
  /\ UNCHANGED <<ops, unsent, garbled, stale>>

-----------------------------------------------------------------------------
(* Properties *)

\* "Default connect timeout." (ws_constants.hpp:13): CONNECT_TIMEOUT limits
\* the time to connect, it does not cut connections that are open.
ConnectTimeoutSparesOpen ==
  \A c \in Clients : "read" \in ops[c] => deadline[c] # "expired"

\* "Send a text message." (ws_client.hpp:112): what goes out is the payload.
PayloadIntact ==
  \A c \in Clients : ~garbled[c]
=============================================================================
