----------------------------- MODULE FeedSession -----------------------------
(***************************************************************************)
(* What a reconnecting feed looks like from outside: one connection at a   *)
(* time, a pause after every loss, pauses that double up to a maximum and  *)
(* start afresh with every connection that opens, and a limit on the       *)
(* messages taken over all connections together.                           *)
(***************************************************************************)
EXTENDS Naturals

CONSTANTS AutoReconnect,            \* try again after a loss?
          InitialDelay, MaxDelay,   \* shortest and longest pause
          MaxMessages               \* limit on the messages, 0 for none

VARIABLES usable,   \* is there somewhere to connect to?
          phase,    \* idle, connecting, open, pause or over
          delay,    \* the next pause
          left      \* messages still to be taken, if there is a limit

vars == <<usable, phase, delay, left>>

Init ==
  /\ usable \in BOOLEAN
  /\ phase = "idle"
  /\ delay = InitialDelay
  /\ left = MaxMessages

Doubled == IF 2 * delay <= MaxDelay THEN 2 * delay ELSE MaxDelay

\* The end of an attempt or of a connection
Lost ==
  IF AutoReconnect
  THEN phase' = "pause" /\ delay' = Doubled
  ELSE phase' = "over" /\ UNCHANGED delay

\* The output file may not open.
GiveUp ==
  /\ phase = "idle"
  /\ phase' = "over"
  /\ UNCHANGED <<usable, delay, left>>

\* An attempt follows at once, and after every pause.  Without anywhere to
\* connect to it is lost as soon as it is made.
Attempt ==
  /\ phase \in {"idle", "pause"}
  /\ \/ usable /\ phase' = "connecting" /\ UNCHANGED delay
     \/ ~usable /\ Lost
  /\ UNCHANGED <<usable, left>>

Open ==
  /\ phase = "connecting"
  /\ phase' = "open"
  /\ delay' = InitialDelay
  /\ UNCHANGED <<usable, left>>

Take ==
  /\ phase = "open"
  /\ left > 0
  /\ left' = left - 1
  /\ phase' = IF left = 1 THEN "over" ELSE "open"
  /\ UNCHANGED <<usable, delay>>

Lose ==
  /\ phase \in {"connecting", "open"}
  /\ Lost
  /\ UNCHANGED <<usable, left>>

Next == GiveUp \/ Attempt \/ Open \/ Take \/ Lose

SafetySpec == Init /\ [][Next]_vars

\* No pause lasts for ever.
Spec == SafetySpec /\ WF_vars(Attempt)
=============================================================================
