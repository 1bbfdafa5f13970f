--------------------------- MODULE MarketFeedProofs ---------------------------
(***************************************************************************)
(* Proofs about MarketFeed, for every stream of messages, every bound and  *)
(* every width of the integers.                                            *)
(***************************************************************************)
EXTENDS MarketFeed, EventParserProofs, SequenceTheorems

-----------------------------------------------------------------------------
(* Sequences of entries of any sort *)

Sequence(s) == \E S : s \in Seq(S)

LEMMA SequenceLength ==
  ASSUME NEW s, Sequence(s)
  PROVE  Len(s) \in Nat /\ DOMAIN s = 1..Len(s)
  BY LenProperties DEF Sequence

LEMMA ShortSequences ==
  /\ Sequence(<<>>) /\ Len(<<>>) = 0
  /\ \A x : Sequence(<<x>>) /\ Len(<<x>>) = 1 /\ <<x>>[1] = x
  /\ \A x, y : Sequence(<<x, y>>) /\ Len(<<x, y>>) = 2
               /\ <<x, y>>[1] = x /\ <<x, y>>[2] = y
<1>1. <<>> \in Seq({}) /\ Len(<<>>) = 0
  BY EmptySeq
<1>2. ASSUME NEW x PROVE <<x>> \in Seq({x}) /\ Len(<<x>>) = 1 /\ <<x>>[1] = x
  OBVIOUS
<1>3. ASSUME NEW x, NEW y
      PROVE  <<x, y>> \in Seq({x, y}) /\ Len(<<x, y>>) = 2
             /\ <<x, y>>[1] = x /\ <<x, y>>[2] = y
  OBVIOUS
<1> QED
  BY <1>1, <1>2, <1>3 DEF Sequence

\* What \o does to two sequences whose elements are of different sorts
LEMMA Concatenation ==
  ASSUME NEW s, NEW t, Sequence(s), Sequence(t)
  PROVE  /\ Sequence(s \o t)
         /\ Len(s \o t) = Len(s) + Len(t)
         /\ \A i \in 1..Len(s) : (s \o t)[i] = s[i]
         /\ \A i \in 1..Len(t) : (s \o t)[Len(s) + i] = t[i]
<1>1. PICK S : s \in Seq(S)
  BY DEF Sequence
<1>2. PICK T : t \in Seq(T)
  BY DEF Sequence
<1> DEFINE U == S \cup T
<1>3. s \in Seq(U) /\ t \in Seq(U)
  BY <1>1, <1>2, SeqMonotonic
<1> HIDE DEF U
<1>4. s \o t \in Seq(U) /\ Len(s \o t) = Len(s) + Len(t)
  BY <1>3, ConcatProperties
<1>5. Len(s) \in Nat /\ Len(t) \in Nat
  BY <1>3, LenProperties
<1>6. \A i \in 1..Len(s) : (s \o t)[i] = s[i]
  BY <1>3, <1>5, SMT
<1>7. \A i \in 1..Len(t) : (s \o t)[Len(s) + i] = t[i]
  BY <1>3, <1>5, SMT
<1> QED
  BY <1>4, <1>6, <1>7 DEF Sequence

LEMMA AppendIsSequence ==
  ASSUME NEW s, Sequence(s), NEW x
  PROVE  Append(s, x) = s \o <<x>>
<1>1. PICK S : s \in Seq(S)
  BY DEF Sequence
<1>2. s \in Seq(S \cup {x}) /\ x \in S \cup {x}
  BY <1>1, SeqMonotonic
<1> QED
  BY <1>2, AppendIsConcat

\* Optional output is nothing or what it says.
LEMMA WhenIsSequence ==
  ASSUME NEW s, Sequence(s), NEW c
  PROVE  Sequence(When(c, s)) /\ When(c, s) \in {<<>>, s}
  BY ShortSequences DEF When

-----------------------------------------------------------------------------
(* What a callback emits *)

\* A line of the raw message file, of the logger or a call of the sink
IsEntry(e) == e.to \in {"raw", "log", "sink"} /\ (e.to = "raw" => e.what = "message")

\* A line of on_message beside the capture and the outcome
IsRemark(e, n) ==
  \E what \in {"ws_message", "first_message_received", "max_messages_reached"} :
    e = LogLine(what, n)

\* s begins with the capture of message n, and all else in it is remarks,
\* except at p, if p is not 0, where it has the outcome e.
MessageEntries(s, n, p, e) ==
  /\ Sequence(s) /\ 1 <= Len(s) /\ s[1] = Raw(n)
  /\ p \in 0..Len(s) /\ p # 1
  /\ p # 0 => s[p] = e
  /\ \A i \in 2..Len(s) : i # p => IsRemark(s[i], n)

LEMMA AddRemark ==
  ASSUME NEW s, NEW n, NEW p, NEW e, MessageEntries(s, n, p, e),
         NEW c, NEW x, IsRemark(x, n)
  PROVE  MessageEntries(s \o When(c, <<x>>), n, p, e)
<1> DEFINE w == When(c, <<x>>)
           t == s \o w
<1>1. Sequence(<<x>>) /\ Len(<<x>>) = 1 /\ <<x>>[1] = x /\ Len(<<>>) = 0
  BY ShortSequences
<1>2. Sequence(w) /\ w \in {<<>>, <<x>>}
  BY <1>1, WhenIsSequence
<1>3. Sequence(s) /\ Len(s) \in Nat /\ Len(w) \in 0..1
  BY <1>1, <1>2, SequenceLength DEF MessageEntries
<1>4. /\ Sequence(t) /\ Len(t) = Len(s) + Len(w)
      /\ \A i \in 1..Len(s) : t[i] = s[i]
      /\ \A i \in 1..Len(w) : t[Len(s) + i] = w[i]
  BY <1>2, <1>3, Concatenation
<1>5. Len(w) = 1 => w[1] = x
  BY <1>1, <1>2
<1> HIDE DEF w, t
<1>6. Len(w) = 1 => t[Len(s) + 1] = x
  BY <1>3, <1>4, <1>5
<1>7. \A i \in 2..Len(t) : i \in 2..Len(s) \/ (Len(w) = 1 /\ i = Len(s) + 1)
  BY <1>3, <1>4
<1>8. \A i \in 2..Len(t) : i # p => IsRemark(t[i], n)
  BY <1>3, <1>4, <1>6, <1>7 DEF MessageEntries
<1>9. 1 <= Len(t) /\ t[1] = Raw(n) /\ p \in 0..Len(t) /\ p # 1 /\ (p # 0 => t[p] = e)
  BY <1>3, <1>4 DEF MessageEntries
<1> QED
  BY <1>4, <1>8, <1>9 DEF MessageEntries, t, w

LEMMA AddOutcome ==
  ASSUME NEW s, NEW n, NEW e, MessageEntries(s, n, 0, e)
  PROVE  MessageEntries(s \o <<e>>, n, Len(s) + 1, e)
<1> DEFINE t == s \o <<e>>
<1>1. Sequence(s) /\ Len(s) \in Nat /\ Sequence(<<e>>) /\ Len(<<e>>) = 1 /\ <<e>>[1] = e
  BY ShortSequences, SequenceLength DEF MessageEntries
<1>2. /\ Sequence(t) /\ Len(t) = Len(s) + 1
      /\ \A i \in 1..Len(s) : t[i] = s[i]
      /\ t[Len(s) + 1] = e
  BY <1>1, Concatenation
<1> HIDE DEF t
<1>3. \A i \in 2..Len(t) : i # Len(s) + 1 => i \in 2..Len(s) /\ i # 0
  BY <1>1, <1>2
<1>4. \A i \in 2..Len(t) : i # Len(s) + 1 => IsRemark(t[i], n)
  BY <1>1, <1>2, <1>3 DEF MessageEntries
<1> QED
  BY <1>1, <1>2, <1>4 DEF MessageEntries, t

\* dispatch_message has one outcome.
IsDispatched(e, m, n, ts) == Dispatch(m, n, ts) = <<e>>

LEMMA DispatchHasOutcome ==
  ASSUME NEW m, NEW n, NEW ts
  PROVE  \E e : IsDispatched(e, m, n, ts)
  BY DEF Dispatch, IsDispatched

\* on_message (feed_handler.hpp:213-239) captures the message, then brings its
\* outcome, and says nothing else that could be taken for either.
LEMMA EmitHasOneOutcome ==
  ASSUME NEW m, NEW n, NEW ts
  PROVE  \E e, p : /\ IsDispatched(e, m, n, ts) /\ p # 0
                   /\ MessageEntries(Emit(m, n, ts), n, p, e)
<1>1. PICK e : IsDispatched(e, m, n, ts)
  BY DispatchHasOutcome
<1> DEFINE a == <<Raw(n)>>
           b == a \o When(LogRawMessages, <<LogLine("ws_message", n)>>)
           c == b \o When(seen = 0, <<LogLine("first_message_received", n)>>)
           d == c \o <<e>>
           f == d \o When(remaining = 1, <<LogLine("max_messages_reached", n)>>)
<1>2. MessageEntries(a, n, 0, e)
  BY ShortSequences DEF MessageEntries
<1>3. \A what \in {"ws_message", "first_message_received", "max_messages_reached"} :
        IsRemark(LogLine(what, n), n)
  BY DEF IsRemark
<1> HIDE DEF a
<1>4. MessageEntries(b, n, 0, e)
  BY <1>2, <1>3, AddRemark
<1> HIDE DEF b
<1>5. MessageEntries(c, n, 0, e)
  BY <1>3, <1>4, AddRemark
<1>6. Len(c) + 1 # 0
  BY <1>5, SequenceLength DEF MessageEntries
<1> HIDE DEF c
<1>7. MessageEntries(d, n, Len(c) + 1, e)
  BY <1>5, AddOutcome
<1> HIDE DEF d
<1>8. MessageEntries(f, n, Len(c) + 1, e)
  BY <1>3, <1>7, AddRemark
<1>9. Emit(m, n, ts) = f
  BY <1>1 DEF Emit, IsDispatched, a, b, c, d
<1> QED
  BY <1>1, <1>6, <1>8, <1>9

-----------------------------------------------------------------------------
(* Messages *)

\* What simdjson makes of a message, with a place for its number
IsMessage(m) ==
  /\ m = [doc |-> m.doc, type |-> m.type, seq |-> m.seq, msg |-> m.msg]
  /\ m.doc \in {"empty", "broken", "json"}
  /\ m.seq = NextNumber \/ IsProper(m.seq)
  /\ Kind(m.msg) = "object" => \A f : IsProperField(Field(Val(m.msg), f))

\* The exchange sends messages.
MessagesAreMessages == \A past : \A m \in Messages(past) : IsMessage(m)

\* The exchange numbers its snapshots and deltas, and nothing else.
ExchangeNumbers ==
  \A past : \A m \in Messages(past) :
    m.doc = "json" =>
      (m.seq = NextNumber <=>
         Kind(m.type) = "string" /\ Val(m.type) \in {"orderbook_snapshot", "orderbook_delta"})

\* A message that has come may have its number.
LEMMA NumberedMessage ==
  ASSUME NEW m, IsMessage(m), sent \in Nat
  PROVE  /\ Number(m).doc = m.doc /\ Number(m).type = m.type /\ Number(m).msg = m.msg
         /\ Number(m).seq = IF m.seq = NextNumber THEN Int64(sent + 1) ELSE m.seq
         /\ IsProper(Number(m).seq)
<1>1. CASE m.seq = NextNumber
  <2>1. Number(m) = [m EXCEPT !.seq = Int64(sent + 1)]
    BY <1>1 DEF Number
  <2>2. Number(m) = [doc |-> m.doc, type |-> m.type, seq |-> Int64(sent + 1), msg |-> m.msg]
    BY <2>1 DEF IsMessage
  <2>3. IsProper(Int64(sent + 1))
    BY DEF IsProper, Int64, Val, Kind
  <2> QED
    BY <1>1, <2>2, <2>3
<1>2. CASE m.seq # NextNumber
  BY <1>2 DEF Number, IsMessage
<1> QED
  BY <1>1, <1>2

-----------------------------------------------------------------------------
(* What each step does to out *)

\* An entry about no message
IsNotice(e) ==
  \E what \in {"ws_error", "reconnect_scheduled", "signing_failed",
               "refresh_headers_failed", "ws_open", "ws_control"} : e = LogLine(what, 0)

Notices(s) == Sequence(s) /\ \A i \in 1..Len(s) : IsNotice(s[i])

LEMMA TwoNotices ==
  ASSUME NEW s, NEW t, Notices(s), Notices(t)
  PROVE  Notices(s \o t)
<1>1. /\ Sequence(s \o t) /\ Len(s \o t) = Len(s) + Len(t)
      /\ \A i \in 1..Len(s) : (s \o t)[i] = s[i]
      /\ \A i \in 1..Len(t) : (s \o t)[Len(s) + i] = t[i]
  BY Concatenation DEF Notices
<1>2. Len(s) \in Nat /\ Len(t) \in Nat
  BY SequenceLength DEF Notices
<1>3. ASSUME NEW i \in 1..Len(s \o t) PROVE IsNotice((s \o t)[i])
  <2>1. CASE i \in 1..Len(s)
    BY <1>1, <2>1 DEF Notices
  <2>2. CASE i \notin 1..Len(s)
    <3>1. i - Len(s) \in 1..Len(t) /\ i = Len(s) + (i - Len(s))
      BY <1>1, <1>2, <2>2
    <3> QED
      BY <1>1, <3>1 DEF Notices
  <2> QED
    BY <2>1, <2>2
<1> QED
  BY <1>1, <1>3 DEF Notices

LEMMA SomeNotices ==
  /\ \A what \in {"ws_error", "reconnect_scheduled", "signing_failed",
                  "refresh_headers_failed", "ws_open", "ws_control"} :
       Notices(<<LogLine(what, 0)>>)
  /\ Notices(<<LogLine("signing_failed", 0), LogLine("refresh_headers_failed", 0)>>)
  /\ \A c, s : Notices(s) => Notices(When(c, s))
<1>1. ASSUME NEW what \in {"ws_error", "reconnect_scheduled", "signing_failed",
                           "refresh_headers_failed", "ws_open", "ws_control"}
      PROVE  Notices(<<LogLine(what, 0)>>)
  BY ShortSequences DEF Notices, IsNotice
<1>2. Notices(<<LogLine("signing_failed", 0), LogLine("refresh_headers_failed", 0)>>)
  BY ShortSequences DEF Notices, IsNotice
<1>3. ASSUME NEW c, NEW s, Notices(s) PROVE Notices(When(c, s))
  BY <1>3, ShortSequences DEF Notices, When
<1> QED
  BY <1>1, <1>2, <1>3

LEMMA ErrorLinesAreNotices == Notices(ErrorLines)
  BY SomeNotices, TwoNotices DEF ErrorLines

\* A step other than on_message adds notices to out; one that begins a new
\* connection adds ws_open.
AddsNotices(s) ==
  /\ Notices(s) /\ out' = out \o s
  /\ UNCHANGED <<received, remaining, reconnects>>
  /\ sent' = sent \/ (sent' = 0 /\ s = <<LogLine("ws_open", 0)>>)

LEMMA NoticeSteps ==
  ASSUME Sequence(out),
         OnOpen \/ OnError \/ OnControl \/ \E r, u \in BOOLEAN : OnTimer(r, u)
  PROVE  \E s : AddsNotices(s)
<1>1. CASE OnOpen
  <2>1. AddsNotices(<<LogLine("ws_open", 0)>>)
    BY <1>1, SomeNotices, AppendIsSequence DEF OnOpen, Open, AddsNotices
  <2> QED
    BY <2>1
<1>2. CASE OnError
  <2>1. AddsNotices(ErrorLines)
    BY <1>2, ErrorLinesAreNotices DEF OnError, ReportError, AddsNotices
  <2> QED
    BY <2>1
<1>3. CASE OnControl
  <2>1. AddsNotices(<<LogLine("ws_control", 0)>>)
    BY <1>3, SomeNotices, AppendIsSequence DEF OnControl, Control, AddsNotices
  <2> QED
    BY <2>1
<1>4. ASSUME NEW r \in BOOLEAN, NEW u \in BOOLEAN, OnTimer(r, u)
      PROVE  \E s : AddsNotices(s)
  <2> DEFINE a == When(~r, <<LogLine("signing_failed", 0),
                             LogLine("refresh_headers_failed", 0)>>)
             b == When(~u, ErrorLines)
  <2>1. Notices(a) /\ Notices(b)
    BY SomeNotices, ErrorLinesAreNotices
  <2>2. out' = (out \o a) \o b
    BY <1>4 DEF OnTimer, FireTimer
  <2> HIDE DEF a, b
  <2>3. out' = out \o (a \o b)
    <3>1. PICK S : out \in Seq(S)
      BY DEF Sequence
    <3>2. PICK A : a \in Seq(A)
      BY <2>1 DEF Notices, Sequence
    <3>3. PICK B : b \in Seq(B)
      BY <2>1 DEF Notices, Sequence
    <3> DEFINE U == S \cup A \cup B
    <3>4. out \in Seq(U) /\ a \in Seq(U) /\ b \in Seq(U)
      BY <3>1, <3>2, <3>3, SeqMonotonic
    <3> QED
      BY <2>2, <3>4, ConcatAssociative
  <2>4. AddsNotices(a \o b)
    BY <1>4, <2>1, <2>3, TwoNotices DEF AddsNotices, OnTimer, FireTimer
  <2> QED
    BY <2>4
<1> QED
  BY <1>1, <1>2, <1>3, <1>4

\* on_message adds the entries of the message, whose outcome is e at p.
AddsMessage(template, ts, s, p, e) ==
  LET m == Number(template) IN
  /\ template \in Messages(received) /\ ts \in Timestamps(m)
  /\ received' = Append(received, m)
  /\ IsDispatched(e, m, seen + 1, ts)
  /\ MessageEntries(s, seen + 1, p, e) /\ p # 0
  /\ out' = out \o s
  /\ sent' = IF TakesNumber(template) THEN sent + 1 ELSE sent

LEMMA MessageStep ==
  ASSUME OnMessage
  PROVE  \E template, ts, s, p, e : AddsMessage(template, ts, s, p, e)
<1>1. PICK template \in Messages(received) :
        LET m == Number(template)
        IN /\ received' = Append(received, m)
           /\ sent' = IF TakesNumber(template) THEN sent + 1 ELSE sent
           /\ \E ts \in Timestamps(m) : out' = out \o Emit(m, seen + 1, ts)
  BY DEF OnMessage, Receive
<1> DEFINE m == Number(template)
<1>2. PICK ts \in Timestamps(m) : out' = out \o Emit(m, seen + 1, ts)
  BY <1>1
<1>3. PICK e, p : /\ IsDispatched(e, m, seen + 1, ts) /\ p # 0
                  /\ MessageEntries(Emit(m, seen + 1, ts), seen + 1, p, e)
  BY EmitHasOneOutcome
<1>4. AddsMessage(template, ts, Emit(m, seen + 1, ts), p, e)
  BY <1>1, <1>2, <1>3 DEF AddsMessage
<1> QED
  BY <1>4

-----------------------------------------------------------------------------
(* Types and counters *)

\* What is known of a message when it has been received
IsReceived(m) ==
  /\ m.doc \in {"empty", "broken", "json"}
  /\ HasProperFields(m)

CountInv ==
  /\ seen \in 0..MaxReceived
  /\ remaining \in 0..MaxMessages
  /\ reconnects \in BOOLEAN
  /\ open = ((MaxMessages = 0 \/ remaining > 0) /\ (reconnects \/ errors = 0))
  /\ errors \in 0..MaxErrors /\ timers \in 0..errors
  /\ connections \in 0..timers+1
  /\ sent \in 0..seen

EntryInv ==
  /\ Sequence(received) /\ Sequence(out)
  /\ \A n \in DOMAIN received : IsReceived(received[n])
  /\ \A i \in DOMAIN out : IsEntry(out[i])

TypeInv == CountInv /\ EntryInv

LEMMA InitTypes == Init => TypeInv
<1> SUFFICES ASSUME Init PROVE TypeInv
  OBVIOUS
<1>1. /\ Sequence(received) /\ Sequence(out) /\ seen = 0
      /\ DOMAIN received = {} /\ DOMAIN out = {}
  BY ShortSequences DEF Init, seen
<1>2. CountInv
  <2>1. MaxMessages = 0 \/ remaining > 0
    BY MarketFeedAssumption DEF Init, MarketFeedAssumption
  <2>2. open = ((MaxMessages = 0 \/ remaining > 0) /\ (reconnects \/ errors = 0))
    BY <2>1 DEF Init
  <2>3. /\ seen \in 0..MaxReceived /\ remaining \in 0..MaxMessages
        /\ errors \in 0..MaxErrors /\ timers \in 0..errors
        /\ connections \in 0..timers+1 /\ sent \in 0..seen
    BY <1>1, MarketFeedAssumption DEF Init, MarketFeedAssumption
  <2> QED
    BY <2>2, <2>3 DEF Init, CountInv
<1> QED
  BY <1>1, <1>2 DEF TypeInv, EntryInv

LEMMA ReceivedGrows ==
  ASSUME EntryInv, NEW m, received' = Append(received, m)
  PROVE  /\ Sequence(received') /\ seen' = seen + 1 /\ seen \in Nat
         /\ DOMAIN received = 1..seen /\ DOMAIN received' = 1..(seen + 1)
         /\ received'[seen + 1] = m
         /\ \A n \in 1..seen : received'[n] = received[n]
<1>1. Sequence(received) /\ Sequence(<<m>>) /\ Len(<<m>>) = 1 /\ <<m>>[1] = m
  BY ShortSequences DEF EntryInv
<1>2. received' = received \o <<m>>
  BY <1>1, AppendIsSequence
<1>3. Sequence(received') /\ Len(received') = seen + 1
  BY <1>1, <1>2, Concatenation DEF seen
<1>4. \A n \in 1..seen : received'[n] = received[n]
  BY <1>1, <1>2, Concatenation DEF seen
<1>5. received'[seen + 1] = m
  BY <1>1, <1>2, Concatenation DEF seen
<1> QED
  BY <1>1, <1>3, <1>4, <1>5, SequenceLength DEF seen

LEMMA CountStep == TypeInv /\ [Next]_vars => CountInv'
<1> SUFFICES ASSUME TypeInv, [Next]_vars PROVE CountInv'
  OBVIOUS
<1> USE DEF TypeInv, CountInv
<1>1. CASE OnMessage
  <2>1. PICK template \in Messages(received) :
          /\ received' = Append(received, Number(template))
          /\ sent' \in {sent, sent + 1}
    BY <1>1 DEF OnMessage, Receive
  <2>2. seen' = seen + 1 /\ seen \in Nat
    BY <2>1, ReceivedGrows
  <2>3. /\ open /\ seen < MaxReceived /\ remaining' = CountDown(remaining)
        /\ UNCHANGED <<errors, timers, connections, reconnects>>
        /\ open' = (remaining # 1)
    BY <1>1 DEF OnMessage, Receive, troubles
  <2>4. /\ remaining' \in 0..MaxMessages
        /\ (MaxMessages = 0 \/ remaining' > 0) = (remaining # 1)
    <3>1. remaining \in Nat /\ remaining <= MaxMessages /\ MaxMessages \in Nat
      BY MarketFeedAssumption DEF MarketFeedAssumption
    <3>2. MaxMessages = 0 \/ remaining > 0
      BY <2>3
    <3>3. remaining' = IF remaining > 0 THEN remaining - 1 ELSE 0
      BY <2>3 DEF CountDown
    <3>4. remaining' \in 0..MaxMessages
      BY <3>1, <3>3
    <3>5. (MaxMessages = 0 \/ remaining' > 0) <=> (remaining # 1)
      BY <3>1, <3>2, <3>3
    <3> QED
      BY <3>4, <3>5
  <2>5. seen' \in 0..MaxReceived /\ sent' \in 0..seen'
    BY <2>1, <2>2, <2>3, MarketFeedAssumption DEF MarketFeedAssumption
  <2>6. open' = ((MaxMessages = 0 \/ remaining' > 0) /\ (reconnects' \/ errors' = 0))
    BY <2>3, <2>4
  <2> QED
    BY <2>3, <2>4, <2>5, <2>6
<1>2. CASE OnError
  <2>1. /\ open /\ errors < MaxErrors /\ errors' = errors + 1 /\ open' = reconnects
        /\ UNCHANGED <<received, remaining, timers, connections, sent, reconnects>>
    BY <1>2 DEF OnError, ReportError
  <2>2. seen' = seen
    BY <2>1 DEF seen
  <2>3. errors' \in 0..MaxErrors /\ timers' \in 0..errors'
    BY <2>1, MarketFeedAssumption DEF MarketFeedAssumption
  <2>4. open' = ((MaxMessages = 0 \/ remaining' > 0) /\ (reconnects' \/ errors' = 0))
    <3>1. errors' # 0
      BY <2>1, MarketFeedAssumption DEF MarketFeedAssumption
    <3> QED
      BY <2>1, <3>1
  <2> QED
    BY <2>1, <2>2, <2>3, <2>4
<1>3. ASSUME NEW r \in BOOLEAN, NEW u \in BOOLEAN, OnTimer(r, u)
      PROVE  CountInv'
  <2>1. /\ open /\ reconnects /\ timers < errors /\ (u \/ errors < MaxErrors)
        /\ timers' = timers + 1
        /\ errors' = IF u THEN errors ELSE errors + 1
        /\ UNCHANGED <<received, remaining, connections, sent, reconnects, open>>
    BY <1>3 DEF OnTimer, FireTimer
  <2>2. seen' = seen
    BY <2>1 DEF seen
  <2>3. /\ errors' \in 0..MaxErrors /\ timers' \in 0..errors'
        /\ connections' \in 0..timers'+1
    BY <2>1, MarketFeedAssumption DEF MarketFeedAssumption
  <2>4. open' = ((MaxMessages = 0 \/ remaining' > 0) /\ (reconnects' \/ errors' = 0))
    BY <2>1
  <2> QED
    BY <2>1, <2>2, <2>3, <2>4
<1>4. CASE OnOpen
  <2>1. /\ connections <= timers /\ connections' = connections + 1 /\ sent' = 0
        /\ UNCHANGED <<received, remaining, errors, timers, reconnects, open>>
    BY <1>4 DEF OnOpen, Open
  <2>2. seen' = seen
    BY <2>1 DEF seen
  <2>3. connections' \in 0..timers'+1 /\ sent' \in 0..seen'
    BY <2>1, <2>2, MarketFeedAssumption DEF MarketFeedAssumption
  <2> QED
    BY <2>1, <2>2, <2>3
<1>5. CASE OnControl \/ Terminated \/ UNCHANGED vars
  <2>1. UNCHANGED <<received, remaining, reconnects, open, errors, timers,
                    connections, sent>>
    BY <1>5 DEF OnControl, Control, Terminated, vars, troubles
  <2> QED
    BY <2>1 DEF seen
<1> QED
  BY <1>1, <1>2, <1>3, <1>4, <1>5 DEF Next

\* What a callback adds to out it adds at the end.
LEMMA OutGrows ==
  ASSUME EntryInv, NEW s, Sequence(s), out' = out \o s
  PROVE  /\ Sequence(out') /\ Len(out) \in Nat /\ Len(s) \in Nat
         /\ Len(out') = Len(out) + Len(s)
         /\ DOMAIN out = 1..Len(out) /\ DOMAIN out' = 1..Len(out')
         /\ \A i \in 1..Len(out) : i \in DOMAIN out' /\ out'[i] = out[i]
         /\ \A i \in DOMAIN out' : i \notin 1..Len(out) =>
              i - Len(out) \in 1..Len(s) /\ out'[i] = s[i - Len(out)]
         /\ \A k \in 1..Len(s) : Len(out) + k \in DOMAIN out' /\ out'[Len(out) + k] = s[k]
<1>1. /\ Sequence(out') /\ Len(out') = Len(out) + Len(s)
      /\ \A i \in 1..Len(out) : out'[i] = out[i]
      /\ \A k \in 1..Len(s) : out'[Len(out) + k] = s[k]
  BY Concatenation DEF EntryInv
<1>2. Len(out) \in Nat /\ Len(s) \in Nat /\ DOMAIN out = 1..Len(out)
      /\ DOMAIN out' = 1..Len(out')
  BY <1>1, SequenceLength DEF EntryInv
<1>3. ASSUME NEW i \in DOMAIN out', i \notin 1..Len(out)
      PROVE  i - Len(out) \in 1..Len(s) /\ i = Len(out) + (i - Len(out))
  BY <1>1, <1>2, <1>3
<1> QED
  BY <1>1, <1>2, <1>3

LEMMA NextCases ==
  ASSUME EntryInv, [Next]_vars
  PROVE  \/ UNCHANGED vars
         \/ \E s : AddsNotices(s)
         \/ \E template, ts, s, p, e : AddsMessage(template, ts, s, p, e)
<1>1. Sequence(out)
  BY DEF EntryInv
<1>2. CASE OnMessage
  BY <1>2, MessageStep
<1>3. CASE OnOpen \/ OnError \/ OnControl \/ \E r, u \in BOOLEAN : OnTimer(r, u)
  BY <1>1, <1>3, NoticeSteps
<1>4. CASE Terminated \/ UNCHANGED vars
  BY <1>4 DEF Terminated
<1> QED
  BY <1>2, <1>3, <1>4 DEF Next

-----------------------------------------------------------------------------
(* Sorts of entries *)

LEMMA CaptureIsNoOutcome ==
  ASSUME NEW n
  PROVE  ~IsOutcome(Raw(n)) /\ Raw(n).to = "raw" /\ Raw(n).n = n /\ ~IsNumbered(Raw(n))
         /\ IsEntry(Raw(n))
  BY DEF Raw, Entry, IsOutcome, IsNumbered, IsEntry

LEMMA RemarkIsNoOutcome ==
  ASSUME NEW e, NEW n, IsRemark(e, n)
  PROVE  ~IsOutcome(e) /\ e.to = "log" /\ e.n = n /\ ~IsNumbered(e)
  BY DEF IsRemark, LogLine, Entry, IsOutcome, IsNumbered

LEMMA NoticeIsNoOutcome ==
  ASSUME NEW e, IsNotice(e)
  PROVE  ~IsOutcome(e) /\ e.to = "log" /\ e.n = 0 /\ ~IsNumbered(e)
  BY DEF IsNotice, LogLine, Entry, IsOutcome, IsNumbered

LEMMA DispatchedIsOutcome ==
  ASSUME NEW e, NEW m, NEW n, NEW ts, IsDispatched(e, m, n, ts)
  PROVE  /\ IsOutcome(e) /\ e.n = n /\ e.to \in {"log", "sink"}
         /\ e.to = "sink" <=> DispatchResult(m, ts).error = None
         /\ e.to = "sink" =>
              e = SinkCall(Handlers[Val(m.type)], n, DispatchResult(m, ts).event)
         /\ e.to = "log" => e.what \in {"parse_error", "unsupported_message_type"}
         /\ DispatchResult(m, ts).error \notin {None, "UnsupportedType"} =>
              e = LogLine("parse_error", n)
<1> DEFINE result == DispatchResult(m, ts)
<1>1. CASE result.error = None
  <2>1. e = SinkCall(Handlers[Val(m.type)], n, result.event)
    BY <1>1 DEF IsDispatched, Dispatch, None
  <2> QED
    BY <1>1, <2>1 DEF SinkCall, IsOutcome
<1>2. CASE result.error = "UnsupportedType"
  <2>1. e = LogLine("unsupported_message_type", n)
    BY <1>2 DEF IsDispatched, Dispatch, None
  <2> QED
    BY <1>2, <2>1 DEF LogLine, Entry, IsOutcome, None
<1>3. CASE result.error \notin {None, "UnsupportedType"}
  <2>1. e = LogLine("parse_error", n)
    BY <1>3 DEF IsDispatched, Dispatch
  <2> QED
    BY <1>3, <2>1 DEF LogLine, Entry, IsOutcome, None
<1> QED
  BY <1>1, <1>2, <1>3

\* Of the entries of a message one is an outcome, one is the capture.
LEMMA EntriesOfMessage ==
  ASSUME NEW s, NEW n, NEW p, NEW e, MessageEntries(s, n, p, e), p # 0,
         NEW m, NEW ts, IsDispatched(e, m, n, ts)
  PROVE  /\ Sequence(s) /\ 1 \in 1..Len(s) /\ p \in 1..Len(s) /\ 1 < p
         /\ s[1].to = "raw" /\ s[p] = e
         /\ \A k \in 1..Len(s) : /\ s[k].n = n /\ IsEntry(s[k])
                                 /\ IsOutcome(s[k]) <=> k = p
                                 /\ k # p => ~IsNumbered(s[k])
<1>1. Sequence(s) /\ Len(s) \in Nat /\ 1 <= Len(s) /\ p \in 1..Len(s) /\ 1 < p
  BY SequenceLength DEF MessageEntries
<1>2. s[1] = Raw(n) /\ s[p] = e
  BY DEF MessageEntries
<1>3. \A k \in 1..Len(s) : k = 1 \/ k = p \/ (k \in 2..Len(s) /\ k # p)
  BY <1>1
<1>4. \A k \in 1..Len(s) : k = 1 \/ k = p \/ IsRemark(s[k], n)
  BY <1>3 DEF MessageEntries
<1>5. IsOutcome(e) /\ e.n = n /\ IsEntry(e)
  BY DispatchedIsOutcome DEF IsEntry
<1>6. ~IsOutcome(s[1]) /\ s[1].to = "raw" /\ s[1].n = n /\ ~IsNumbered(s[1]) /\ IsEntry(s[1])
  BY <1>2, CaptureIsNoOutcome
<1>7. \A k \in 1..Len(s) : IsRemark(s[k], n) =>
        ~IsOutcome(s[k]) /\ IsEntry(s[k]) /\ s[k].n = n /\ ~IsNumbered(s[k])
  BY RemarkIsNoOutcome DEF IsEntry
<1>8. ASSUME NEW k \in 1..Len(s)
      PROVE  /\ s[k].n = n /\ IsEntry(s[k])
             /\ IsOutcome(s[k]) <=> k = p
             /\ k # p => ~IsNumbered(s[k])
  <2>1. CASE k = p
    BY <1>2, <1>5, <2>1
  <2>2. CASE k = 1
    BY <1>1, <1>6, <2>2
  <2>3. CASE k # p /\ IsRemark(s[k], n)
    BY <1>7, <2>3
  <2> QED
    BY <1>4, <2>1, <2>2, <2>3
<1> QED
  BY <1>1, <1>2, <1>6, <1>8

-----------------------------------------------------------------------------
(* What there is in out *)

LEMMA EntryStep ==
  ASSUME MessagesAreMessages, TypeInv, [Next]_vars
  PROVE  EntryInv'
<1> USE DEF TypeInv
<1>1. CASE UNCHANGED vars
  BY <1>1 DEF vars, EntryInv
<1>2. ASSUME NEW s, AddsNotices(s) PROVE EntryInv'
  <2>1. Sequence(s) /\ out' = out \o s /\ received' = received
    BY <1>2 DEF AddsNotices, Notices
  <2>2. ASSUME NEW i \in DOMAIN out' PROVE IsEntry(out'[i])
    <3>1. CASE i \in 1..Len(out)
      BY <2>1, <3>1, OutGrows DEF EntryInv
    <3>2. CASE i \notin 1..Len(out)
      <4>1. IsNotice(out'[i])
        BY <1>2, <2>1, <3>2, OutGrows DEF AddsNotices, Notices
      <4> QED
        BY <4>1, NoticeIsNoOutcome DEF IsEntry
    <3> QED
      BY <3>1, <3>2
  <2> QED
    BY <2>1, <2>2, OutGrows DEF EntryInv
<1>3. ASSUME NEW template, NEW ts, NEW s, NEW p, NEW e, AddsMessage(template, ts, s, p, e)
      PROVE  EntryInv'
  <2> DEFINE m == Number(template)
             n == seen + 1
  <2>1. /\ received' = Append(received, m) /\ out' = out \o s
        /\ IsDispatched(e, m, n, ts) /\ MessageEntries(s, n, p, e) /\ p # 0
    BY <1>3 DEF AddsMessage
  <2>2. Sequence(s) /\ \A k \in 1..Len(s) : IsEntry(s[k])
    BY <2>1, EntriesOfMessage
  <2>3. IsReceived(m)
    <3>1. IsMessage(template)
      BY <1>3 DEF AddsMessage, MessagesAreMessages
    <3>2. sent \in Nat
      BY MarketFeedAssumption DEF CountInv, MarketFeedAssumption
    <3> QED
      BY <3>1, <3>2, NumberedMessage DEF IsReceived, HasProperFields, IsMessage
  <2> HIDE DEF m
  <2>4. \A k \in DOMAIN received' : IsReceived(received'[k])
    <3>1. /\ DOMAIN received = 1..seen /\ DOMAIN received' = 1..(seen + 1)
          /\ received'[seen + 1] = m /\ seen \in Nat
          /\ \A k \in 1..seen : received'[k] = received[k]
      BY <2>1, ReceivedGrows
    <3>2. \A k \in 1..(seen + 1) : k \in 1..seen \/ k = seen + 1
      BY <3>1
    <3> QED
      BY <2>3, <3>1, <3>2 DEF EntryInv
  <2>5. ASSUME NEW i \in DOMAIN out' PROVE IsEntry(out'[i])
    <3>1. CASE i \in 1..Len(out)
      BY <2>1, <2>2, <3>1, OutGrows DEF EntryInv
    <3>2. CASE i \notin 1..Len(out)
      BY <2>1, <2>2, <3>2, OutGrows
    <3> QED
      BY <3>1, <3>2
  <2>6. Sequence(received') /\ Sequence(out')
    BY <2>1, <2>2, ReceivedGrows, OutGrows
  <2> QED
    BY <2>4, <2>5, <2>6 DEF EntryInv
<1> QED
  BY <1>1, <1>2, <1>3, NextCases

LEMMA TypeInvariant == MessagesAreMessages => (Spec => []TypeInv)
<1> SUFFICES ASSUME MessagesAreMessages PROVE Spec => []TypeInv
  OBVIOUS
<1>1. Init => TypeInv
  BY InitTypes
<1>2. TypeInv /\ [Next]_vars => TypeInv'
  BY CountStep, EntryStep DEF TypeInv
<1> QED
  BY <1>1, <1>2, PTL DEF Spec

\* Every variable of the feed keeps its type and its bounds, and the loop is
\* open exactly while there is a message to come and no error has ended it
\* (feed_handler.hpp:213-258).
THEOREM TypeCorrect == MessagesAreMessages => (Spec => []TypeOK)
<1>1. TypeInv => TypeOK
  <2> SUFFICES ASSUME TypeInv PROVE TypeOK
    OBVIOUS
  <2>1. sent \in 0..MaxReceived
    BY MarketFeedAssumption DEF TypeInv, CountInv, MarketFeedAssumption
  <2> QED
    BY <2>1 DEF TypeInv, CountInv, EntryInv, IsEntry, IsReceived, TypeOK
<1> QED
  BY <1>1, TypeInvariant, PTL

-----------------------------------------------------------------------------
(* Outcomes *)

\* Entry e is what Dispatcher::on_message makes of a message received.
IsOutcomeOf(e, messages) ==
  /\ e.n \in DOMAIN messages
  /\ \E ts \in Timestamps(messages[e.n]) : IsDispatched(e, messages[e.n], e.n, ts)

OutcomeInv ==
  /\ \A i \in DOMAIN out : IsOutcome(out[i]) => IsOutcomeOf(out[i], received)
  /\ \A n \in DOMAIN received : \E i \in DOMAIN out : IsOutcome(out[i]) /\ out[i].n = n
  /\ \A i, j \in DOMAIN out :
       IsOutcome(out[i]) /\ IsOutcome(out[j]) /\ i < j => out[i].n < out[j].n

\* What is about a message comes after its capture.
CaptureInv ==
  \A j \in DOMAIN out : out[j].n # 0 =>
    \E k \in 1..j : out[k].to = "raw" /\ out[k].n = out[j].n

LEMMA InitOutcomes == Init => OutcomeInv /\ CaptureInv
  BY DEF Init, OutcomeInv, CaptureInv

\* Notices change nothing of it.
LEMMA NoticesKeepOutcomes ==
  ASSUME EntryInv, OutcomeInv, CaptureInv, NEW s, AddsNotices(s)
  PROVE  OutcomeInv' /\ CaptureInv'
<1>1. Sequence(s) /\ out' = out \o s /\ received' = received
  BY DEF AddsNotices, Notices
<1>2. /\ DOMAIN out = 1..Len(out) /\ Len(out) \in Nat
      /\ \A i \in 1..Len(out) : i \in DOMAIN out' /\ out'[i] = out[i]
  BY <1>1, OutGrows
<1>3. ASSUME NEW i \in DOMAIN out', i \notin 1..Len(out)
      PROVE  ~IsOutcome(out'[i]) /\ out'[i].n = 0
  <2>1. IsNotice(out'[i])
    BY <1>1, <1>3, OutGrows DEF AddsNotices, Notices
  <2> QED
    BY <2>1, NoticeIsNoOutcome
<1>4. \A i \in DOMAIN out' : IsOutcome(out'[i]) => IsOutcomeOf(out'[i], received')
  BY <1>1, <1>2, <1>3 DEF OutcomeInv
<1>5. \A n \in DOMAIN received' : \E i \in DOMAIN out' : IsOutcome(out'[i]) /\ out'[i].n = n
  BY <1>1, <1>2 DEF OutcomeInv
<1>6. \A i, j \in DOMAIN out' :
        IsOutcome(out'[i]) /\ IsOutcome(out'[j]) /\ i < j => out'[i].n < out'[j].n
  BY <1>2, <1>3 DEF OutcomeInv
<1>7. ASSUME NEW j \in DOMAIN out', out'[j].n # 0
      PROVE  \E k \in 1..j : out'[k].to = "raw" /\ out'[k].n = out'[j].n
  <2>1. j \in 1..Len(out) /\ out'[j] = out[j]
    BY <1>2, <1>3, <1>7
  <2>2. PICK k \in 1..j : out[k].to = "raw" /\ out[k].n = out[j].n
    BY <1>2, <1>7, <2>1 DEF CaptureInv
  <2>3. k \in 1..Len(out)
    BY <1>2, <2>1
  <2> QED
    BY <1>2, <2>1, <2>2, <2>3
<1> QED
  BY <1>4, <1>5, <1>6, <1>7 DEF OutcomeInv, CaptureInv

\* A message brings its capture, and then its outcome.
LEMMA MessageKeepsOutcomes ==
  ASSUME EntryInv, OutcomeInv, CaptureInv,
         NEW template, NEW ts, NEW s, NEW p, NEW e, AddsMessage(template, ts, s, p, e)
  PROVE  OutcomeInv' /\ CaptureInv'
<1> DEFINE m == Number(template)
           n == seen + 1
           L == Len(out)
<1>1. /\ received' = Append(received, m) /\ out' = out \o s /\ ts \in Timestamps(m)
      /\ IsDispatched(e, m, n, ts) /\ MessageEntries(s, n, p, e) /\ p # 0
  BY DEF AddsMessage
<1>2. /\ Sequence(s) /\ 1 \in 1..Len(s) /\ p \in 1..Len(s)
      /\ s[1].to = "raw" /\ s[p] = e
      /\ \A k \in 1..Len(s) : s[k].n = n /\ (IsOutcome(s[k]) <=> k = p)
  BY <1>1, EntriesOfMessage
<1>3. /\ L \in Nat /\ Len(s) \in Nat /\ DOMAIN out = 1..L /\ DOMAIN out' = 1..(L + Len(s))
      /\ \A i \in 1..L : i \in DOMAIN out' /\ out'[i] = out[i]
      /\ \A i \in DOMAIN out' : i \notin 1..L => i - L \in 1..Len(s) /\ out'[i] = s[i - L]
      /\ \A k \in 1..Len(s) : L + k \in DOMAIN out' /\ out'[L + k] = s[k]
  BY <1>1, <1>2, OutGrows
<1>4. /\ seen \in Nat /\ DOMAIN received = 1..seen /\ DOMAIN received' = 1..(seen + 1)
      /\ received'[seen + 1] = m /\ \A k \in 1..seen : received'[k] = received[k]
  BY <1>1, ReceivedGrows
<1> HIDE DEF m, L
<1>5. \A i \in DOMAIN out' : i \in 1..L \/ (out'[i].n = n /\ (IsOutcome(out'[i]) <=> i = L + p))
  <2> TAKE i \in DOMAIN out'
  <2>1. CASE i \notin 1..L
    <3>1. i - L \in 1..Len(s) /\ out'[i] = s[i - L]
      BY <1>3, <2>1
    <3>2. (i - L = p) <=> (i = L + p)
      BY <1>2, <1>3, <3>1
    <3> QED
      BY <1>2, <3>1, <3>2
  <2> QED
    BY <2>1
<1>6. out'[L + p] = e /\ L + p \in DOMAIN out'
  BY <1>2, <1>3
<1>7. e.n = n /\ IsOutcome(e)
  BY <1>1, DispatchedIsOutcome
<1>8. ASSUME NEW i \in DOMAIN out', IsOutcome(out'[i])
      PROVE  IsOutcomeOf(out'[i], received')
  <2>1. CASE i \in 1..L
    <3>1. out'[i] = out[i] /\ IsOutcomeOf(out[i], received)
      BY <1>3, <1>8, <2>1 DEF OutcomeInv
    <3>2. out[i].n \in 1..seen /\ received'[out[i].n] = received[out[i].n]
          /\ out[i].n \in DOMAIN received'
      BY <1>4, <3>1 DEF IsOutcomeOf
    <3> QED
      BY <3>1, <3>2 DEF IsOutcomeOf
  <2>2. CASE i \notin 1..L
    <3>1. out'[i] = e
      BY <1>5, <1>6, <1>8, <2>2
    <3>2. e.n \in DOMAIN received' /\ received'[e.n] = m
      BY <1>4, <1>7
    <3> QED
      BY <1>1, <1>7, <3>1, <3>2 DEF IsOutcomeOf
  <2> QED
    BY <2>1, <2>2
<1>9. ASSUME NEW k \in DOMAIN received'
      PROVE  \E i \in DOMAIN out' : IsOutcome(out'[i]) /\ out'[i].n = k
  <2>1. CASE k \in 1..seen
    <3>1. PICK i \in DOMAIN out : IsOutcome(out[i]) /\ out[i].n = k
      BY <1>4, <2>1 DEF OutcomeInv
    <3> QED
      BY <1>3, <3>1
  <2>2. CASE k = seen + 1
    BY <1>6, <1>7, <2>2
  <2> QED
    BY <1>4, <2>1, <2>2
<1>10. ASSUME NEW i \in DOMAIN out', NEW j \in DOMAIN out',
              IsOutcome(out'[i]), IsOutcome(out'[j]), i < j
       PROVE  out'[i].n < out'[j].n
  <2>1. CASE j \in 1..L
    <3>1. i \in 1..L
      BY <1>3, <1>10, <2>1
    <3> QED
      BY <1>3, <1>10, <2>1, <3>1 DEF OutcomeInv
  <2>2. CASE j \notin 1..L /\ i \in 1..L
    <3>1. out'[j].n = seen + 1
      BY <1>5, <2>2
    <3>2. out'[i].n \in 1..seen
      BY <1>3, <1>4, <1>10, <2>2 DEF OutcomeInv, IsOutcomeOf
    <3> QED
      BY <1>4, <3>1, <3>2
  <2>3. CASE j \notin 1..L /\ i \notin 1..L
    <3>1. i = L + p /\ j = L + p
      BY <1>5, <1>10, <2>3
    <3> QED
      BY <1>2, <1>3, <1>10, <3>1
  <2> QED
    BY <2>1, <2>2, <2>3
<1>11. ASSUME NEW j \in DOMAIN out', out'[j].n # 0
       PROVE  \E k \in 1..j : out'[k].to = "raw" /\ out'[k].n = out'[j].n
  <2>1. CASE j \in 1..L
    <3>1. PICK k \in 1..j : out[k].to = "raw" /\ out[k].n = out[j].n
      BY <1>3, <1>11, <2>1 DEF CaptureInv
    <3>2. k \in 1..L
      BY <1>3, <2>1
    <3> QED
      BY <1>3, <2>1, <3>1, <3>2
  <2>2. CASE j \notin 1..L
    <3>1. out'[j].n = n /\ out'[L + 1] = s[1] /\ out'[L + 1].to = "raw" /\ out'[L + 1].n = n
      BY <1>2, <1>3, <1>5, <2>2
    <3>2. L + 1 \in 1..j
      BY <1>3, <2>2
    <3> QED
      BY <3>1, <3>2
  <2> QED
    BY <2>1, <2>2
<1> QED
  BY <1>8, <1>9, <1>10, <1>11 DEF OutcomeInv, CaptureInv

LEMMA OutcomeStep ==
  EntryInv /\ OutcomeInv /\ CaptureInv /\ [Next]_vars => OutcomeInv' /\ CaptureInv'
<1> SUFFICES ASSUME EntryInv, OutcomeInv, CaptureInv, [Next]_vars
             PROVE  OutcomeInv' /\ CaptureInv'
  OBVIOUS
<1>1. CASE UNCHANGED vars
  BY <1>1 DEF vars, OutcomeInv, CaptureInv
<1> QED
  BY <1>1, NoticesKeepOutcomes, MessageKeepsOutcomes, NextCases

LEMMA OutcomeInvariant ==
  MessagesAreMessages => (Spec => [](TypeInv /\ OutcomeInv /\ CaptureInv))
<1> SUFFICES ASSUME MessagesAreMessages
             PROVE  Spec => [](TypeInv /\ OutcomeInv /\ CaptureInv)
  OBVIOUS
<1>1. Init => OutcomeInv /\ CaptureInv
  BY InitOutcomes
<1>2. TypeInv /\ OutcomeInv /\ CaptureInv /\ [Next]_vars => OutcomeInv' /\ CaptureInv'
  BY OutcomeStep DEF TypeInv
<1> QED
  BY <1>1, <1>2, TypeInvariant, PTL DEF Spec

\* No message goes without its one outcome, and none overtakes another
\* (feed_handler.hpp:213-239, dispatcher.hpp:29-71).
THEOREM OneOutcome == MessagesAreMessages => (Spec => []OneOutcomePerMessage)
<1>1. OutcomeInv => OneOutcomePerMessage
  BY DEF OutcomeInv, IsOutcomeOf, OneOutcomePerMessage
<1> QED
  BY <1>1, OutcomeInvariant, PTL

-----------------------------------------------------------------------------
(* What the sink is called for *)

\* What the parsers let through, in the words of types.hpp
LEMMA KnownIsWellFormed ==
  ASSUME NEW m, IsReceived(m)
  PROVE  WellFormed(m) <=>
           /\ TypeError(m) = None /\ Kind(m.msg) = "object"
           /\ \/ /\ Val(m.type) = "orderbook_snapshot"
                 /\ IsKnownSequence(m.seq) /\ IsKnownSnapshot(Val(m.msg))
              \/ /\ Val(m.type) = "orderbook_delta"
                 /\ IsKnownSequence(m.seq) /\ IsKnownDelta(Val(m.msg))
              \/ /\ Val(m.type) = "trade" /\ IsKnownTrade(Val(m.msg))
<1> DEFINE msg == Val(m.msg)
<1>1. TypeError(m) = None <=> m.doc = "json" /\ Kind(m.type) = "string"
  <2>1. CASE m.doc = "json" /\ Kind(m.type) = "string"
    BY <2>1 DEF TypeError
  <2>2. CASE m.doc = "json" /\ Kind(m.type) # "string"
    BY <2>2 DEF TypeError, None
  <2>3. CASE m.doc \in {"empty", "broken"}
    <3>1. TypeError(m) \in {"EmptyMessage", "InvalidJson"}
      BY <2>3 DEF TypeError
    <3> QED
      BY <2>3, <3>1 DEF None
  <2> QED
    BY <2>1, <2>2, <2>3 DEF IsReceived
<1>2. \A v : IsPrice(v) <=> IsWithin(v, 0, PriceMax)
  BY DEF IsPrice, IsWithin
<1>3. \A v : IsCount(v) <=> IsWithin(v, 0, U32 - 1)
  BY DEF IsCount, IsWithin
<1>4. \A v : IsBook(v) <=> IsKnownBook(v)
  BY <1>2, <1>3 DEF IsBook, IsLevel, IsKnownBook, IsKnownLevel
<1>5. \A v : IsProper(v) => (IsDelta(v) <=> IsWithin(v, -(U32 \div 2), U32 \div 2 - 1))
  <2> TAKE v
  <2> HAVE IsProper(v)
  <2> DEFINE h == U32 \div 2
  <2>1. CASE Kind(v) = "int"
    <3>1. Val(v) \in Int /\ h \in Int /\ -h \in Int
      BY <2>1, ParserAssumption DEF IsProper, ParserAssumption
    <3> HIDE DEF h
    <3>2. Val(v) >= -h /\ Val(v) < h <=> Val(v) \in -h..(h - 1)
      BY <3>1
    <3> QED
      BY <3>2 DEF IsDelta, IsWithin, h
  <2>2. CASE Kind(v) # "int"
    BY <2>2 DEF IsDelta, IsWithin
  <2> QED
    BY <2>1, <2>2
<1>6. \A v : (IsSide(v) <=> IsKnownSide(v)) /\ (IsSequence(v) <=> IsKnownSequence(v))
             /\ (IsName(v) <=> Kind(v) = "string")
  BY DEF IsSide, IsKnownSide, IsSequence, IsKnownSequence, IsName
<1>7. Kind(m.msg) = "object" => IsProper(Field(msg, "delta"))
  BY DEF IsReceived, HasProperFields, IsProperField
<1>8. CASE ~(m.doc = "json" /\ Kind(m.type) = "string" /\ Kind(m.msg) = "object")
  BY <1>1, <1>8 DEF WellFormed
<1>9. CASE m.doc = "json" /\ Kind(m.type) = "string" /\ Kind(m.msg) = "object"
  <2>1. IsKnownSnapshot(msg) <=>
          /\ IsName(Field(msg, "market_ticker"))
          /\ IsBook(Field(msg, "yes")) /\ IsBook(Field(msg, "no"))
    BY <1>4, <1>6 DEF IsKnownSnapshot
  <2>2. IsKnownDelta(msg) <=>
          /\ IsName(Field(msg, "market_ticker"))
          /\ IsPrice(Field(msg, "price")) /\ IsDelta(Field(msg, "delta"))
          /\ IsSide(Field(msg, "side"))
    BY <1>2, <1>5, <1>6, <1>7, <1>9 DEF IsKnownDelta
  <2>3. IsKnownTrade(msg) <=>
          /\ IsName(Field(msg, "market_ticker"))
          /\ IsPrice(Field(msg, "yes_price")) /\ IsPrice(Field(msg, "no_price"))
          /\ IsCount(Field(msg, "count")) /\ IsSide(Field(msg, "taker_side"))
    BY <1>2, <1>3, <1>6 DEF IsKnownTrade
  <2> QED
    BY <1>1, <1>6, <1>9, <2>1, <2>2, <2>3 DEF WellFormed
<1> QED
  BY <1>8, <1>9

LEMMA HandlersOfTypes ==
  /\ DOMAIN Handlers = {"orderbook_snapshot", "orderbook_delta", "trade"}
  /\ Handlers["orderbook_snapshot"] = "on_snapshot"
  /\ Handlers["orderbook_delta"] = "on_delta"
  /\ Handlers["trade"] = "on_trade"
  BY SMT DEF Handlers

\* Dispatcher::on_message refuses what types.hpp cannot hold, and no more.
LEMMA DispatchRefuses ==
  ASSUME NEW m, IsReceived(m), NEW ts
  PROVE  /\ DispatchResult(m, ts).error = None <=> WellFormed(m)
         /\ DispatchResult(m, ts).error = None => DispatchResult(m, ts) = Parse(m, ts)
         /\ DispatchResult(m, ts).error = "UnsupportedType" =>
              m.doc = "json" /\ Val(m.type) \notin DOMAIN Handlers
<1> DEFINE result == DispatchResult(m, ts)
<1>1. CASE TypeError(m) # None
  <2>1. result.error = TypeError(m)
    BY <1>1 DEF DispatchResult, Failure
  <2>2. TypeError(m) \in {"EmptyMessage", "InvalidJson", "MissingType", None}
    BY DEF TypeError
  <2>3. result.error # "UnsupportedType"
    BY <1>1, <2>1, <2>2
  <2> QED
    BY <1>1, <2>1, <2>3, KnownIsWellFormed
<1>2. CASE TypeError(m) = None /\ Val(m.type) \notin DOMAIN Handlers
  <2>1. result.error = "UnsupportedType"
    BY <1>2 DEF DispatchResult, Failure
  <2>2. ~WellFormed(m)
    BY <1>2, KnownIsWellFormed, HandlersOfTypes
  <2>3. m.doc = "json"
    BY <1>2 DEF TypeError, None, IsReceived
  <2> QED
    BY <1>2, <2>1, <2>2, <2>3 DEF None
<1>3. CASE TypeError(m) = None /\ Val(m.type) \in DOMAIN Handlers
  <2>1. result = Parse(m, ts)
    BY <1>3 DEF DispatchResult
  <2>2. HasProperFields(m)
    BY DEF IsReceived
  <2>3. CASE Val(m.type) = "orderbook_snapshot"
    <3>1. Parse(m, ts) = ParseSnapshot(m)
      BY <2>3 DEF Parse
    <3> QED
      BY <1>3, <2>1, <2>2, <2>3, <3>1, SnapshotIsParsed, KnownIsWellFormed DEF FieldErrors, None
  <2>4. CASE Val(m.type) = "orderbook_delta"
    <3>1. Parse(m, ts) = ParseDelta(m)
      BY <2>4 DEF Parse
    <3> QED
      BY <1>3, <2>1, <2>2, <2>4, <3>1, DeltaIsParsed, KnownIsWellFormed DEF FieldErrors, None
  <2>5. CASE Val(m.type) = "trade"
    <3>1. Parse(m, ts) = ParseTrade(m, ts)
      BY <2>5 DEF Parse
    <3>2. /\ result.error = None <=> Kind(m.msg) = "object" /\ IsKnownTrade(Val(m.msg))
          /\ result.error \in FieldErrors \cup {None}
      <4>1. /\ ParseTrade(m, ts).error = None
                 <=> Kind(m.msg) = "object" /\ IsKnownTrade(Val(m.msg))
            /\ ParseTrade(m, ts).error \in FieldErrors \cup {None}
        BY <2>2, TradeIsParsed
      <4> QED
        BY <2>1, <3>1, <4>1
    <3>3. WellFormed(m) <=> Kind(m.msg) = "object" /\ IsKnownTrade(Val(m.msg))
      BY <1>3, <2>5, KnownIsWellFormed
    <3>4. result.error # "UnsupportedType"
      BY <3>2 DEF FieldErrors, None
    <3> QED
      BY <2>1, <3>2, <3>3, <3>4
  <2> QED
    BY <1>3, <2>3, <2>4, <2>5, HandlersOfTypes
<1> QED
  BY <1>1, <1>2, <1>3

\* A call of the sink is for the message it is about.
LEMMA SinkCallOf ==
  ASSUME EntryInv, OutcomeInv, NEW i \in DOMAIN out, out[i].to = "sink"
  PROVE  LET n == out[i].n
             m == received[n]
         IN /\ n \in DOMAIN received /\ IsReceived(m) /\ WellFormed(m)
            /\ \E ts \in Timestamps(m) :
                 /\ Parse(m, ts).error = None
                 /\ out[i] = SinkCall(Handlers[Val(m.type)], n, Parse(m, ts).event)
<1> DEFINE n == out[i].n
           m == received[n]
<1>1. IsOutcomeOf(out[i], received)
  BY DEF OutcomeInv, IsOutcome
<1>2. PICK ts \in Timestamps(m) : IsDispatched(out[i], m, n, ts)
  BY <1>1 DEF IsOutcomeOf
<1>3. n \in DOMAIN received /\ IsReceived(m)
  BY <1>1 DEF IsOutcomeOf, EntryInv
<1>4. /\ DispatchResult(m, ts).error = None
      /\ out[i] = SinkCall(Handlers[Val(m.type)], n, DispatchResult(m, ts).event)
  BY <1>2, DispatchedIsOutcome
<1>5. WellFormed(m) /\ DispatchResult(m, ts) = Parse(m, ts)
  BY <1>3, <1>4, DispatchRefuses
<1> QED
  BY <1>3, <1>4, <1>5

LEMMA WellFormedIsSunk ==
  ASSUME EntryInv, OutcomeInv
  PROVE  SinkGetsTheWellFormed
<1>1. ASSUME NEW n \in DOMAIN received, WellFormed(received[n])
      PROVE  \E i \in DOMAIN out : out[i].to = "sink" /\ out[i].n = n
  <2>1. PICK i \in DOMAIN out : IsOutcome(out[i]) /\ out[i].n = n
    BY DEF OutcomeInv
  <2>2. PICK ts \in Timestamps(received[n]) : IsDispatched(out[i], received[n], n, ts)
    BY <2>1 DEF OutcomeInv, IsOutcomeOf
  <2>3. DispatchResult(received[n], ts).error = None
    BY <1>1, DispatchRefuses DEF EntryInv
  <2> QED
    BY <2>1, <2>2, <2>3, DispatchedIsOutcome
<1>2. ASSUME NEW n \in DOMAIN received, NEW i \in DOMAIN out,
             out[i].to = "sink", out[i].n = n
      PROVE  WellFormed(received[n])
  BY <1>2, SinkCallOf
<1> QED
  BY <1>1, <1>2 DEF SinkGetsTheWellFormed

\* The parsers and the dispatcher's chain of types accept exactly what
\* types.hpp can hold (event_parser.cpp, dispatcher.hpp:29-71), for every
\* message, every price limit and every width.
THEOREM SinkGetsWellFormed == MessagesAreMessages => (Spec => []SinkGetsTheWellFormed)
<1>1. TypeInv /\ OutcomeInv => SinkGetsTheWellFormed
  BY WellFormedIsSunk DEF TypeInv
<1> QED
  BY <1>1, OutcomeInvariant, PTL

-----------------------------------------------------------------------------
(* What the sink is told *)

\* A time that fits becomes its nanoseconds.
LEMMA TimeIsKept ==
  ASSUME NEW m, Kind(m.msg) = "object", HasTime(Val(m.msg)), NEW ts \in Timestamps(m)
  PROVE  ts = Val(Val(m.msg)["ts"]) * NsPerSecond
<1>1. Kind(Field(Val(m.msg), "ts")) = "int"
  BY DEF HasTime
<1>2. Field(Val(m.msg), "ts") = Val(m.msg)["ts"]
  BY <1>1, FieldIsThere
<1>3. Timestamps(m) = {Val(Field(Val(m.msg), "ts")) * NsPerSecond}
  BY <1>1 DEF Timestamps, HasTime
<1> QED
  BY <1>2, <1>3

LEMMA NumbersAreKept ==
  ASSUME NEW m, IsReceived(m), WellFormed(m), NEW ts, Parse(m, ts).error = None
  PROVE  /\ \A f \in DOMAIN Numbers(m) : Parse(m, ts).event[f] = Numbers(m)[f]
         /\ Val(m.type) = "trade" => Parse(m, ts).event.ts = ts
<1> DEFINE msg   == Val(m.msg)
           event == Parse(m, ts).event
<1>1. HasProperFields(m)
  BY DEF IsReceived
<1>2. CASE Val(m.type) = "orderbook_snapshot"
  <2>1. Parse(m, ts) = ParseSnapshot(m)
    BY <1>2 DEF Parse
  <2>2. event = [market |-> Val(msg["market_ticker"]), sequence |-> Val(m.seq),
                 yes |-> Book(msg["yes"]), no |-> Book(msg["no"])]
    BY <1>1, <2>1, SnapshotIsParsed
  <2>3. Numbers(m) = [sequence |-> Val(m.seq), yes |-> Book(msg["yes"]), no |-> Book(msg["no"])]
    BY <1>2 DEF Numbers, Book
  <2> HIDE DEF event, msg
  <2> QED
    BY <1>2, <2>2, <2>3 DEF event
<1>3. CASE Val(m.type) = "orderbook_delta"
  <2>1. Parse(m, ts) = ParseDelta(m)
    BY <1>3 DEF Parse
  <2>2. event = [market |-> Val(msg["market_ticker"]), sequence |-> Val(m.seq),
                 price |-> Val(msg["price"]), delta |-> Val(msg["delta"]),
                 side |-> Val(msg["side"])]
    BY <1>1, <2>1, DeltaIsParsed
  <2>3. Numbers(m) = [sequence |-> Val(m.seq), price |-> Val(msg["price"]),
                      delta |-> Val(msg["delta"])]
    BY <1>3 DEF Numbers
  <2> HIDE DEF event, msg
  <2> QED
    BY <1>3, <2>2, <2>3 DEF event
<1>4. CASE Val(m.type) = "trade"
  <2>1. Parse(m, ts) = ParseTrade(m, ts)
    BY <1>4 DEF Parse
  <2>2. ParseTrade(m, ts).event =
          [market |-> Val(msg["market_ticker"]),
           yes_price |-> Val(msg["yes_price"]), no_price |-> Val(msg["no_price"]),
           count |-> Val(msg["count"]), taker_side |-> Val(msg["taker_side"]),
           ts |-> ts]
    BY <1>1, <2>1, TradeIsParsed
  <2>3. Numbers(m) = [yes_price |-> Val(msg["yes_price"]),
                      no_price |-> Val(msg["no_price"]), count |-> Val(msg["count"])]
    BY <1>4 DEF Numbers
  <2> HIDE DEF event, msg
  <2> QED
    BY <2>1, <2>2, <2>3
<1>5. Val(m.type) \in {"orderbook_snapshot", "orderbook_delta", "trade"}
  BY DEF WellFormed
<1> QED
  BY <1>2, <1>3, <1>4, <1>5

LEMMA SinkIsTold ==
  ASSUME EntryInv, OutcomeInv
  PROVE  NothingTruncated
<1> SUFFICES ASSUME NEW i \in DOMAIN out, out[i].to = "sink"
             PROVE  LET m == received[out[i].n]
                    IN /\ \A f \in DOMAIN Numbers(m) : out[i].event[f] = Numbers(m)[f]
                       /\ out[i].what = "on_trade" /\ HasTime(Val(m.msg)) =>
                            out[i].event.ts = Val(Val(m.msg)["ts"]) * NsPerSecond
  BY DEF NothingTruncated
<1> DEFINE n == out[i].n
           m == received[n]
<1>1. IsReceived(m) /\ WellFormed(m)
  BY SinkCallOf
<1>2. PICK ts \in Timestamps(m) :
        /\ Parse(m, ts).error = None
        /\ out[i] = SinkCall(Handlers[Val(m.type)], n, Parse(m, ts).event)
  BY SinkCallOf
<1> HIDE DEF m, n
<1>3. out[i].event = Parse(m, ts).event /\ out[i].what = Handlers[Val(m.type)]
  BY <1>2 DEF SinkCall
<1>4. \A f \in DOMAIN Numbers(m) : out[i].event[f] = Numbers(m)[f]
  BY <1>1, <1>2, <1>3, NumbersAreKept
<1>5. ASSUME out[i].what = "on_trade", HasTime(Val(m.msg))
      PROVE  out[i].event.ts = Val(Val(m.msg)["ts"]) * NsPerSecond
  <2>1. Val(m.type) = "trade"
    BY <1>1, <1>3, <1>5, HandlersOfTypes DEF WellFormed
  <2>2. Kind(m.msg) = "object"
    BY <1>1 DEF WellFormed
  <2>3. ts = Val(Val(m.msg)["ts"]) * NsPerSecond
    BY <1>5, <2>2, TimeIsKept
  <2> QED
    BY <1>1, <1>2, <1>3, <2>1, <2>3, NumbersAreKept
<1> QED
  BY <1>4, <1>5 DEF m, n

\* What the sink is told of a message is what the exchange has sent: no cast
\* of event_parser.cpp changes a number, whatever the widths are.
THEOREM NothingIsTruncated == MessagesAreMessages => (Spec => []NothingTruncated)
<1>1. TypeInv /\ OutcomeInv => NothingTruncated
  BY SinkIsTold DEF TypeInv
<1> QED
  BY <1>1, OutcomeInvariant, PTL

-----------------------------------------------------------------------------
(* Holes in the sequence numbers *)

\* A line that explains a hole
IsReason(e) == e.what \in {"parse_error", "ws_open"}

\* Unless there has been a reason for a hole since the last numbered call of
\* the sink, that call had the last number of the exchange.
HoleInv ==
  /\ HolesAreExplained
  /\ \A i \in DOMAIN out :
       /\ IsNumbered(out[i])
       /\ \A k \in i+1..Len(out) : ~IsNumbered(out[k]) /\ ~IsReason(out[k])
       => out[i].event.sequence = sent

LEMMA NumberedEvent ==
  ASSUME NEW m, IsReceived(m), WellFormed(m), NEW ts, Parse(m, ts).error = None,
         Val(m.type) \in {"orderbook_snapshot", "orderbook_delta"}
  PROVE  Parse(m, ts).event.sequence = Val(m.seq)
<1>1. HasProperFields(m)
  BY DEF IsReceived
<1>2. CASE Val(m.type) = "orderbook_snapshot"
  <2>1. Parse(m, ts) = ParseSnapshot(m)
    BY <1>2 DEF Parse
  <2>2. ParseSnapshot(m).event =
          [market |-> Val(Val(m.msg)["market_ticker"]), sequence |-> Val(m.seq),
           yes |-> Book(Val(m.msg)["yes"]), no |-> Book(Val(m.msg)["no"])]
    BY <1>1, <2>1, SnapshotIsParsed
  <2> QED
    BY <2>1, <2>2
<1>3. CASE Val(m.type) = "orderbook_delta"
  <2>1. Parse(m, ts) = ParseDelta(m)
    BY <1>3 DEF Parse
  <2>2. ParseDelta(m).event =
          [market |-> Val(Val(m.msg)["market_ticker"]), sequence |-> Val(m.seq),
           price |-> Val(Val(m.msg)["price"]), delta |-> Val(Val(m.msg)["delta"]),
           side |-> Val(Val(m.msg)["side"])]
    BY <1>1, <2>1, DeltaIsParsed
  <2> QED
    BY <2>1, <2>2
<1> QED
  BY <1>2, <1>3

\* A message takes the next number if the sink gets its number, and if it
\* takes one and the sink does not, then there is a parse_error.
LEMMA NumberOfMessage ==
  ASSUME MessagesAreMessages, ExchangeNumbers, TypeInv,
         NEW template, NEW ts, NEW s, NEW p, NEW e, AddsMessage(template, ts, s, p, e)
  PROVE  /\ IsNumbered(e) => sent' = sent + 1 /\ e.event.sequence = sent + 1
         /\ ~IsNumbered(e) => sent' = sent \/ IsReason(e)
<1> DEFINE m == Number(template)
           n == seen + 1
           result == DispatchResult(m, ts)
<1>1. /\ template \in Messages(received) /\ IsDispatched(e, m, n, ts)
      /\ sent' = IF TakesNumber(template) THEN sent + 1 ELSE sent
  BY DEF AddsMessage
<1>2. IsMessage(template) /\ sent \in Nat
  BY <1>1, MarketFeedAssumption
     DEF MessagesAreMessages, TypeInv, CountInv, MarketFeedAssumption
<1>3. /\ m.doc = template.doc /\ m.type = template.type /\ m.msg = template.msg
      /\ m.seq = IF template.seq = NextNumber THEN Int64(sent + 1) ELSE template.seq
      /\ IsProper(m.seq)
  BY <1>2, NumberedMessage
<1>4. template.doc = "json" =>
        (template.seq = NextNumber <=>
           /\ Kind(template.type) = "string"
           /\ Val(template.type) \in {"orderbook_snapshot", "orderbook_delta"})
  BY <1>1 DEF ExchangeNumbers
<1>5. IsReceived(m)
  BY <1>2, <1>3 DEF IsReceived, HasProperFields, IsMessage
<1> HIDE DEF m, n
<1>6. /\ result.error = None <=> WellFormed(m)
      /\ result.error = None => result = Parse(m, ts)
      /\ result.error = "UnsupportedType" => m.doc = "json" /\ Val(m.type) \notin DOMAIN Handlers
  BY <1>5, DispatchRefuses
<1>7. /\ e.to = "sink" <=> result.error = None
      /\ e.to = "sink" => e = SinkCall(Handlers[Val(m.type)], n, result.event)
      /\ result.error \notin {None, "UnsupportedType"} => e = LogLine("parse_error", n)
  BY <1>1, DispatchedIsOutcome
<1>8. WellFormed(m) =>
        /\ m.doc = "json" /\ Kind(m.type) = "string"
        /\ Val(m.type) \in {"orderbook_snapshot", "orderbook_delta", "trade"}
  BY DEF WellFormed
<1>9. ASSUME IsNumbered(e)
      PROVE  sent' = sent + 1 /\ e.event.sequence = sent + 1
  <2>1. /\ result.error = None /\ WellFormed(m)
        /\ e = SinkCall(Handlers[Val(m.type)], n, Parse(m, ts).event)
    BY <1>6, <1>7, <1>9 DEF IsNumbered
  <2>2. e.what = Handlers[Val(m.type)] /\ e.event = Parse(m, ts).event
    BY <2>1 DEF SinkCall
  <2>3. Val(m.type) \in {"orderbook_snapshot", "orderbook_delta"}
    BY <1>8, <1>9, <2>1, <2>2, HandlersOfTypes DEF IsNumbered
  <2>4. template.seq = NextNumber
    BY <1>3, <1>4, <1>8, <2>1, <2>3
  <2>5. m.seq = Int64(sent + 1) /\ TakesNumber(template)
    BY <1>3, <2>4 DEF TakesNumber
  <2>6. Parse(m, ts).event.sequence = Val(m.seq)
    BY <1>5, <1>6, <2>1, <2>3, NumberedEvent
  <2> QED
    BY <1>1, <2>2, <2>5, <2>6 DEF Int64, Val
<1>10. ASSUME ~IsNumbered(e), sent' # sent
       PROVE  IsReason(e)
  <2>1. template.doc = "broken" \/ template.seq = NextNumber
    BY <1>1, <1>10 DEF TakesNumber
  <2>2. m.doc = "json" => Val(m.type) \in {"orderbook_snapshot", "orderbook_delta"}
    BY <1>3, <1>4, <2>1
  <2>3. result.error # "UnsupportedType"
    BY <1>6, <2>2, HandlersOfTypes
  <2>4. result.error # None
    <3> SUFFICES ASSUME result.error = None PROVE FALSE
      OBVIOUS
    <3>1. Val(m.type) \in {"orderbook_snapshot", "orderbook_delta"}
      BY <1>6, <1>8, <2>2
    <3>2. e.to = "sink" /\ e.what = Handlers[Val(m.type)]
      BY <1>7 DEF SinkCall
    <3> QED
      BY <1>10, <3>1, <3>2, HandlersOfTypes DEF IsNumbered
  <2>5. e = LogLine("parse_error", n)
    BY <1>7, <2>3, <2>4
  <2> QED
    BY <2>5 DEF LogLine, Entry, IsReason
<1> QED
  BY <1>9, <1>10

LEMMA NoticesKeepHoles ==
  ASSUME EntryInv, HoleInv, NEW s, AddsNotices(s)
  PROVE  HoleInv'
<1> DEFINE L == Len(out)
<1>1. /\ Sequence(s) /\ out' = out \o s
      /\ sent' = sent \/ (sent' = 0 /\ s = <<LogLine("ws_open", 0)>>)
  BY DEF AddsNotices, Notices
<1>2. /\ L \in Nat /\ Len(s) \in Nat /\ Len(out') = L + Len(s)
      /\ DOMAIN out = 1..L /\ DOMAIN out' = 1..(L + Len(s))
      /\ \A i \in 1..L : i \in DOMAIN out' /\ out'[i] = out[i]
      /\ \A k \in 1..Len(s) : L + k \in DOMAIN out' /\ out'[L + k] = s[k]
  BY <1>1, OutGrows
<1> HIDE DEF L
<1>3. ASSUME NEW i \in DOMAIN out', i \notin 1..L PROVE ~IsNumbered(out'[i])
  <2>1. IsNotice(out'[i])
    BY <1>1, <1>3, OutGrows DEF AddsNotices, Notices, L
  <2> QED
    BY <2>1, NoticeIsNoOutcome
<1>4. ASSUME NEW i \in DOMAIN out', NEW j \in DOMAIN out', i < j,
             IsNumbered(out'[i]), IsNumbered(out'[j]),
             \A k \in i+1..j-1 : ~IsNumbered(out'[k])
      PROVE  \/ out'[j].event.sequence = out'[i].event.sequence + 1
             \/ \E k \in i+1..j-1 : out'[k].what \in {"parse_error", "ws_open"}
  <2>1. i \in 1..L /\ j \in 1..L
    BY <1>3, <1>4
  <2>2. \A k \in i+1..j-1 : k \in 1..L /\ out'[k] = out[k]
    BY <1>2, <2>1
  <2>3. /\ IsNumbered(out[i]) /\ IsNumbered(out[j])
        /\ \A k \in i+1..j-1 : ~IsNumbered(out[k])
    BY <1>2, <1>4, <2>1, <2>2
  <2>4. \/ out[j].event.sequence = out[i].event.sequence + 1
        \/ \E k \in i+1..j-1 : out[k].what \in {"parse_error", "ws_open"}
    BY <1>2, <1>4, <2>1, <2>3 DEF HoleInv, HolesAreExplained
  <2> QED
    BY <1>2, <2>1, <2>2, <2>4
<1>5. ASSUME NEW i \in DOMAIN out', IsNumbered(out'[i]),
             \A k \in i+1..Len(out') : ~IsNumbered(out'[k]) /\ ~IsReason(out'[k])
      PROVE  out'[i].event.sequence = sent'
  <2>1. i \in 1..L /\ out'[i] = out[i]
    BY <1>2, <1>3, <1>5
  <2>2. \A k \in i+1..L : k \in i+1..Len(out') /\ out'[k] = out[k]
    BY <1>2, <2>1
  <2>3. out[i].event.sequence = sent
    BY <1>2, <1>5, <2>1, <2>2 DEF HoleInv, L
  <2>4. sent' = sent
    <3> SUFFICES ASSUME s = <<LogLine("ws_open", 0)>> PROVE FALSE
      BY <1>1
    <3>1. Len(s) = 1 /\ s[1] = LogLine("ws_open", 0)
      BY ShortSequences
    <3>2. L + 1 \in i+1..Len(out') /\ out'[L + 1] = LogLine("ws_open", 0)
      BY <1>2, <2>1, <3>1
    <3>3. IsReason(out'[L + 1])
      BY <3>2 DEF LogLine, Entry, IsReason
    <3> QED
      BY <1>5, <3>2, <3>3
  <2> QED
    BY <2>1, <2>3, <2>4
<1> QED
  BY <1>4, <1>5 DEF HoleInv, HolesAreExplained

LEMMA MessageKeepsHoles ==
  ASSUME MessagesAreMessages, ExchangeNumbers, TypeInv, HoleInv,
         NEW template, NEW ts, NEW s, NEW p, NEW e, AddsMessage(template, ts, s, p, e)
  PROVE  HoleInv'
<1> DEFINE L == Len(out)
           n == seen + 1
<1>1. /\ out' = out \o s /\ IsDispatched(e, Number(template), n, ts)
      /\ MessageEntries(s, n, p, e) /\ p # 0
  BY DEF AddsMessage
<1>2. /\ Sequence(s) /\ p \in 1..Len(s) /\ s[p] = e
      /\ \A k \in 1..Len(s) : k # p => ~IsNumbered(s[k])
  BY <1>1, EntriesOfMessage
<1>3. /\ L \in Nat /\ Len(s) \in Nat /\ Len(out') = L + Len(s)
      /\ DOMAIN out = 1..L /\ DOMAIN out' = 1..(L + Len(s))
      /\ \A i \in 1..L : i \in DOMAIN out' /\ out'[i] = out[i]
      /\ \A i \in DOMAIN out' : i \notin 1..L => i - L \in 1..Len(s) /\ out'[i] = s[i - L]
      /\ \A k \in 1..Len(s) : L + k \in DOMAIN out' /\ out'[L + k] = s[k]
  BY <1>1, <1>2, OutGrows DEF TypeInv
<1>4. /\ IsNumbered(e) => sent' = sent + 1 /\ e.event.sequence = sent + 1
      /\ ~IsNumbered(e) => sent' = sent \/ IsReason(e)
  BY NumberOfMessage
<1> HIDE DEF L, n
<1>5. L + p \in DOMAIN out' /\ out'[L + p] = e /\ L < L + p
  BY <1>2, <1>3
<1>6. ASSUME NEW i \in DOMAIN out', i \notin 1..L, IsNumbered(out'[i])
      PROVE  i = L + p
  <2>1. i - L \in 1..Len(s) /\ out'[i] = s[i - L]
    BY <1>3, <1>6
  <2>2. i - L = p
    BY <1>2, <1>6, <2>1
  <2>3. i \in Int /\ p \in Int /\ L \in Int
    BY <1>2, <1>3
  <2> QED
    BY <2>2, <2>3
<1>7. ASSUME NEW i \in DOMAIN out', NEW j \in DOMAIN out', i < j,
             IsNumbered(out'[i]), IsNumbered(out'[j]),
             \A k \in i+1..j-1 : ~IsNumbered(out'[k])
      PROVE  \/ out'[j].event.sequence = out'[i].event.sequence + 1
             \/ \E k \in i+1..j-1 : out'[k].what \in {"parse_error", "ws_open"}
  <2>1. i \in 1..L /\ out'[i] = out[i]
    <3>1. CASE i \notin 1..L
      <4>1. i = L + p
        BY <1>6, <1>7, <3>1
      <4>2. j \notin 1..L
        BY <1>3, <1>7, <3>1
      <4>3. j = L + p
        BY <1>6, <1>7, <4>2
      <4> QED
        BY <1>7, <4>1, <4>3, <1>2, <1>3
    <3> QED
      BY <1>3, <3>1
  <2>2. CASE j \in 1..L
    <3>1. \A k \in i+1..j-1 : k \in 1..L /\ out'[k] = out[k]
      BY <1>3, <2>1, <2>2
    <3>2. /\ IsNumbered(out[i]) /\ IsNumbered(out[j]) /\ out'[j] = out[j]
          /\ \A k \in i+1..j-1 : ~IsNumbered(out[k])
      BY <1>3, <1>7, <2>1, <2>2, <3>1
    <3>3. \/ out[j].event.sequence = out[i].event.sequence + 1
          \/ \E k \in i+1..j-1 : out[k].what \in {"parse_error", "ws_open"}
      BY <1>3, <1>7, <2>1, <2>2, <3>2 DEF HoleInv, HolesAreExplained
    <3> QED
      BY <2>1, <3>1, <3>2, <3>3
  <2>3. CASE j \notin 1..L
    <3>1. j = L + p /\ out'[j] = e
      BY <1>5, <1>6, <1>7, <2>3
    <3>2. \A k \in i+1..L : k \in i+1..j-1 /\ out'[k] = out[k]
      BY <1>2, <1>3, <2>1, <3>1
    <3>3. CASE \E k \in i+1..L : IsReason(out[k])
      BY <3>2, <3>3 DEF IsReason
    <3>4. CASE \A k \in i+1..L : ~IsReason(out[k])
      <4>1. out[i].event.sequence = sent
        BY <1>3, <1>7, <2>1, <3>2, <3>4 DEF HoleInv, L
      <4>2. e.event.sequence = sent + 1
        BY <1>4, <1>7, <3>1
      <4> QED
        BY <2>1, <3>1, <4>1, <4>2
    <3> QED
      BY <3>3, <3>4
  <2> QED
    BY <2>2, <2>3
<1>8. ASSUME NEW i \in DOMAIN out', IsNumbered(out'[i]),
             \A k \in i+1..Len(out') : ~IsNumbered(out'[k]) /\ ~IsReason(out'[k])
      PROVE  out'[i].event.sequence = sent'
  <2>1. CASE i \in 1..L
    <3>1. L + p \in i+1..Len(out')
      BY <1>2, <1>3, <2>1
    <3>2. sent' = sent
      BY <1>4, <1>5, <1>8, <3>1
    <3>3. \A k \in i+1..L : k \in i+1..Len(out') /\ out'[k] = out[k]
      BY <1>3, <2>1
    <3>4. out'[i] = out[i]
      BY <1>3, <2>1
    <3>5. out[i].event.sequence = sent
      BY <1>3, <1>8, <2>1, <3>3, <3>4 DEF HoleInv, L
    <3> QED
      BY <3>2, <3>4, <3>5
  <2>2. CASE i \notin 1..L
    <3>1. out'[i] = e
      BY <1>5, <1>6, <1>8, <2>2
    <3> QED
      BY <1>4, <1>8, <3>1
  <2> QED
    BY <2>1, <2>2
<1> QED
  BY <1>7, <1>8 DEF HoleInv, HolesAreExplained

LEMMA HoleInvariant ==
  MessagesAreMessages /\ ExchangeNumbers => (Spec => [](TypeInv /\ HoleInv))
<1> SUFFICES ASSUME MessagesAreMessages, ExchangeNumbers
             PROVE  Spec => [](TypeInv /\ HoleInv)
  OBVIOUS
<1>1. Init => HoleInv
  BY DEF Init, HoleInv, HolesAreExplained
<1>2. TypeInv /\ HoleInv /\ [Next]_vars => HoleInv'
  <2> SUFFICES ASSUME TypeInv, HoleInv, [Next]_vars PROVE HoleInv'
    OBVIOUS
  <2>1. EntryInv
    BY DEF TypeInv
  <2>2. CASE UNCHANGED vars
    BY <2>2 DEF vars, HoleInv, HolesAreExplained
  <2> QED
    BY <2>1, <2>2, NoticesKeepHoles, MessageKeepsHoles, NextCases
<1> QED
  BY <1>1, <1>2, TypeInvariant, PTL DEF Spec

\* If the exchange numbers its messages, a hole in what the sink is told has
\* its reason in the log (feed_handler.hpp:213-239, 60-74).
THEOREM HolesHaveReasons ==
  MessagesAreMessages /\ ExchangeNumbers => (Spec => []HolesAreExplained)
<1>1. HoleInv => HolesAreExplained
  BY DEF HoleInv
<1> QED
  BY <1>1, HoleInvariant, PTL

-----------------------------------------------------------------------------
(* How the feed ends *)

\* What has been emitted stays.
LEMMA OutStays ==
  ASSUME EntryInv, [Next]_vars
  PROVE  /\ Len(out) \in Nat /\ Len(out') \in Nat /\ Len(out) <= Len(out')
         /\ \A i \in 1..Len(out) : out'[i] = out[i]
<1>1. CASE UNCHANGED vars
  <2>1. out' = out /\ Len(out) \in Nat
    BY <1>1, SequenceLength DEF vars, EntryInv
  <2> QED
    BY <2>1
<1>2. CASE \E s : Sequence(s) /\ out' = out \o s
  <2>1. PICK s : Sequence(s) /\ out' = out \o s
    BY <1>2
  <2>2. /\ Len(out) \in Nat /\ Len(s) \in Nat /\ Len(out') = Len(out) + Len(s)
        /\ \A i \in 1..Len(out) : out'[i] = out[i]
    BY <2>1, OutGrows
  <2> QED
    BY <2>2
<1>3. CASE \E s : AddsNotices(s)
  BY <1>2, <1>3 DEF AddsNotices, Notices
<1>4. CASE \E template, ts, s, p, e : AddsMessage(template, ts, s, p, e)
  BY <1>2, <1>4 DEF AddsMessage, MessageEntries
<1> QED
  BY <1>1, <1>3, <1>4, NextCases

\* Without a message limit it is an error that stops the loop, and nothing
\* happens after it.
LEMMA ClosingStep ==
  ASSUME TypeInv, [Next]_vars, MaxMessages = 0
  PROVE  /\ ~open => UNCHANGED vars
         /\ open /\ ~open' =>
              Len(out') > Len(out) /\ out'[Len(out')] = LogLine("ws_error", 0)
<1>1. CASE OnMessage
  <2>1. remaining = 0
    BY MarketFeedAssumption DEF TypeInv, CountInv, MarketFeedAssumption
  <2>2. remaining # 1
    BY <2>1
  <2>3. open /\ open'
    BY <1>1, <2>2, Zenon DEF OnMessage
  <2> QED
    BY <2>3
<1>2. CASE OnError
  <2>1. open /\ open' = reconnects /\ out' = out \o ErrorLines
    BY <1>2 DEF OnError, ReportError
  <2>2. CASE reconnects
    BY <2>1, <2>2
  <2>3. CASE ~reconnects
    <3> DEFINE s == <<LogLine("ws_error", 0)>>
    <3>1. Sequence(s) /\ Len(s) = 1 /\ s[1] = LogLine("ws_error", 0)
      BY ShortSequences
    <3>2. ErrorLines = s
      <4>1. ErrorLines = s \o <<>>
        BY <2>3 DEF ErrorLines, When
      <4>2. PICK S : s \in Seq(S)
        BY <3>1 DEF Sequence
      <4> QED
        BY <4>1, <4>2, ConcatEmptySeq
    <3> HIDE DEF s
    <3>3. 1 \in 1..Len(s)
      BY <3>1
    <3>4. /\ Len(out') = Len(out) + Len(s) /\ Len(out) \in Nat
          /\ out'[Len(out) + 1] = s[1]
      BY <2>1, <3>1, <3>2, <3>3, OutGrows DEF TypeInv
    <3> QED
      BY <2>1, <3>1, <3>4
  <2> QED
    BY <2>2, <2>3
<1>3. CASE OnOpen \/ OnControl \/ \E r, u \in BOOLEAN : OnTimer(r, u)
  BY <1>3 DEF OnOpen, OnControl, OnTimer
<1>4. CASE Terminated \/ UNCHANGED vars
  BY <1>4 DEF Terminated, vars
<1> QED
  BY <1>1, <1>2, <1>3, <1>4 DEF Next
=============================================================================
