---------------------------- MODULE JsonTextProofs ----------------------------
(***************************************************************************)
(* Proofs about JsonText: what the logger writes is read back as what was  *)
(* logged, for every event, every text in it and every length of its       *)
(* lists.  All of them are by induction on the length of a text or a list, *)
(* in the form of UpTo: there is no least length for which it fails.       *)
(***************************************************************************)
EXTENDS JsonText, SequenceTheorems, WellFoundedInduction, TLAPS

-----------------------------------------------------------------------------
(* Induction *)

\* Min of the community modules chooses the least number of a set, if it has any.
LEMMA MinIsLeast ==
  ASSUME NEW S \in SUBSET Nat, S # {}
  PROVE  Min(S) \in S /\ \A y \in S : Min(S) <= y
<1> DEFINE Less == OpToRel(<, Nat)
<1>1. IsWellFoundedOn(Less, Nat)
  BY NatLessThanWellFounded
<1>2. \A x, y \in Nat : <<y, x>> \in Less <=> y < x
  BY DEF OpToRel
<1> HIDE DEF Less
<1>3. PICK x \in S : \A y \in S : ~(<<y, x>> \in Less)
  BY <1>1, WFMin
<1>4. \A y \in S : ~(y < x)
  BY <1>2, <1>3
<1>5. \A y \in S : x <= y
  BY <1>4
<1> QED
  BY <1>5 DEF Min

\* What holds for 0, and for each number if for the one before it
LEMMA UpTo ==
  ASSUME NEW n \in Nat, NEW P, 0 \in P, \A i \in 1..n : i - 1 \in P => i \in P
  PROVE  \A i \in 0..n : i \in P
<1> DEFINE S == {i \in 0..n : i \notin P}
<1>1. SUFFICES ASSUME S # {} PROVE FALSE
  OBVIOUS
<1>2. S \in SUBSET Nat
  OBVIOUS
<1>3. Min(S) \in S /\ \A y \in S : Min(S) <= y
  BY <1>1, <1>2, MinIsLeast
<1> DEFINE m == Min(S)
<1> HIDE DEF m
<1>4. m \in 0..n /\ m \notin P /\ \A y \in 0..n : y \notin P => m <= y
  BY <1>3 DEF m
<1>5. m \in 1..n /\ m - 1 \in 0..n /\ ~(m <= m - 1)
  BY <1>4
<1>6. m - 1 \in P
  BY <1>4, <1>5
<1> QED
  BY <1>4, <1>5, <1>6

\* FlattenSeq of a sequence that is not empty is the last of the sequences
\* f[1] = seqs[1], f[2] = seqs[1] \o seqs[2] ...: the function that it chooses
\* exists, and there is only one.
LEMMA Flattening ==
  ASSUME NEW S, NEW seqs \in Seq(Seq(S)), seqs # <<>>
  PROVE  \E f \in [1..Len(seqs) -> Seq(S)] :
           /\ f[1] = seqs[1]
           /\ \A i \in 2..Len(seqs) : f[i] = f[i - 1] \o seqs[i]
           /\ FlattenSeq(seqs) = f[Len(seqs)]
<1> DEFINE n == Len(seqs)
           Flat(f, m) == /\ f \in [1..m -> Seq(S)]
                         /\ m >= 1 => f[1] = seqs[1]
                         /\ \A i \in 2..m : f[i] = f[i - 1] \o seqs[i]
           Is1(f) == f = [i \in 1..n |-> IF i = 1 THEN seqs[i] ELSE f[i - 1] \o seqs[i]]
           P == {m \in 0..n : \E f : Flat(f, m)}
           h == CHOOSE f : Is1(f)
<1>1. n \in Nat /\ n >= 1 /\ \A i \in 1..n : seqs[i] \in Seq(S)
  BY EmptySeq
<1>2. 0 \in P
  <2> DEFINE none == [i \in 1..0 |-> seqs[i]]
  <2>1. none \in [1..0 -> Seq(S)]
    OBVIOUS
  <2>2. Flat(none, 0)
    BY <2>1
  <2> HIDE DEF Flat, none
  <2>3. \E f : Flat(f, 0)
    BY <2>2
  <2> QED
    BY <1>1, <2>3
<1>3. ASSUME NEW m \in 1..n, m - 1 \in P PROVE m \in P
  <2>1. PICK f : Flat(f, m - 1)
    BY <1>3
  <2> DEFINE last == IF m = 1 THEN seqs[1] ELSE f[m - 1] \o seqs[m]
             g == [k \in 1..m |-> IF k = m THEN last ELSE f[k]]
  <2>2. last \in Seq(S)
    <3>1. CASE m = 1
      BY <1>1, <3>1
    <3>2. CASE m # 1
      <4>1. m - 1 \in 1..m-1 /\ m \in 1..n
        BY <1>1, <3>2
      <4>2. f[m - 1] \in Seq(S) /\ seqs[m] \in Seq(S)
        BY <1>1, <2>1, <4>1
      <4>3. f[m - 1] \o seqs[m] \in Seq(S)
        BY <4>2, ConcatProperties
      <4> QED
        BY <3>2, <4>3
    <3> QED
      BY <3>1, <3>2
  <2>3. g \in [1..m -> Seq(S)]
    <3>1. \A k \in 1..m : k # m => k \in 1..m-1
      BY <1>1
    <3> QED
      BY <2>1, <2>2, <3>1
  <2>4. g[1] = seqs[1]
    <3>1. CASE m = 1
      BY <3>1
    <3>2. CASE m # 1
      <4>1. 1 \in 1..m /\ 1 # m /\ m - 1 >= 1
        BY <1>1, <3>2
      <4> QED
        BY <2>1, <4>1
    <3> QED
      BY <3>1, <3>2
  <2>5. ASSUME NEW i \in 2..m PROVE g[i] = g[i - 1] \o seqs[i]
    <3>1. i \in 1..m /\ i - 1 \in 1..m /\ i - 1 # m
      BY <1>1
    <3>2. g[i - 1] = f[i - 1]
      BY <3>1
    <3>3. CASE i = m
      <4>1. g[i] = last /\ m # 1
        BY <1>1, <3>1, <3>3
      <4> QED
        BY <3>2, <3>3, <4>1
    <3>4. CASE i # m
      <4>1. i \in 2..m-1
        BY <1>1, <3>4
      <4> QED
        BY <2>1, <3>1, <3>2, <3>4, <4>1
    <3> QED
      BY <3>3, <3>4
  <2>6. Flat(g, m)
    BY <2>3, <2>4, <2>5
  <2> HIDE DEF Flat, g
  <2>7. \E x : Flat(x, m)
    BY <2>6
  <2> QED
    BY <1>1, <2>7
<1>4. n \in P
  <2> HIDE DEF P
  <2>1. \A i \in 0..n : i \in P
    BY <1>1, <1>2, <1>3, UpTo
  <2> QED
    BY <1>1, <2>1
<1>5. PICK f : Flat(f, n)
  BY <1>4
<1>6. Is1(f)
  <2>1. f \in [1..n -> Seq(S)]
    BY <1>5
  <2>2. ASSUME NEW i \in 1..n
        PROVE  f[i] = IF i = 1 THEN seqs[i] ELSE f[i - 1] \o seqs[i]
    <3>1. i # 1 => i \in 2..n
      BY <1>1
    <3> QED
      BY <1>1, <1>5, <3>1
  <2>3. f = [i \in 1..n |-> f[i]]
    BY <2>1
  <2> QED
    BY <2>2, <2>3
<1>7. Is1(h)
  <2> HIDE DEF Is1
  <2> QED
    BY <1>6
<1>8. h[n] = f[n]
  <2> DEFINE Q == {i \in 0..n : i >= 1 => h[i] = f[i]}
  <2> HIDE DEF h
  <2>1. 0 \in Q
    BY <1>1
  <2>2. ASSUME NEW i \in 1..n, i - 1 \in Q PROVE i \in Q
    <3>1. i # 1 => h[i - 1] = f[i - 1]
      BY <1>1, <2>2
    <3>2. h[i] = IF i = 1 THEN seqs[i] ELSE h[i - 1] \o seqs[i]
      BY <1>7
    <3>3. f[i] = IF i = 1 THEN seqs[i] ELSE f[i - 1] \o seqs[i]
      BY <1>6
    <3>4. h[i] = f[i]
      BY <3>1, <3>2, <3>3
    <3> QED
      BY <1>1, <3>4
  <2> HIDE DEF Q
  <2>3. \A i \in 0..n : i \in Q
    BY <1>1, <2>1, <2>2, UpTo
  <2>4. n \in Q
    BY <1>1, <2>3
  <2> QED
    BY <1>1, <2>4 DEF Q
<1>9. FlattenSeq(seqs) = h[n]
  BY <1>1 DEF FlattenSeq
<1> QED
  BY <1>1, <1>5, <1>8, <1>9

LEMMA NoParts == FlattenSeq(<<>>) = <<>>
  BY DEF FlattenSeq

LEMMA FlattenType ==
  ASSUME NEW S, NEW seqs \in Seq(Seq(S))
  PROVE  FlattenSeq(seqs) \in Seq(S)
<1>1. CASE seqs = <<>>
  <2>1. <<>> \in Seq(S)
    BY EmptySeq
  <2> QED
    BY <1>1, <2>1, NoParts
<1>2. CASE seqs # <<>>
  <2>1. PICK f \in [1..Len(seqs) -> Seq(S)] : FlattenSeq(seqs) = f[Len(seqs)]
    BY <1>2, Flattening
  <2>2. Len(seqs) \in 1..Len(seqs)
    BY <1>2, EmptySeq
  <2> QED
    BY <2>1, <2>2
<1> QED
  BY <1>1, <1>2

-----------------------------------------------------------------------------
(* Reading *)

\* Characters and whatever else the program writes as one symbol
Words == {Quote, Backslash, "{", "}", "[", "]", ",", ":", "true", "false", "1",
          "u", "b", "f", "n", "r", "t", "0000", "001B",
          "BS", "FF", "LF", "CR", "HT", "NUL", "ESC",
          "info", "warn", "core.config", "md.dispatcher", "logging", "md.ws_client",
          "ws_url", "subscription", "parse_error", "dropped_logs", "ws_open",
          "channels", "market_tickers", "dropped", "id", "cmd", "subscribe", "params",
          "ts_ms", "level", "component", "msg", "fields", "raw"}

Chars == STRING \cup Words

\* Reading a text leads from one state of the reader to another.
IsRun(f, r, text) ==
  f = [n \in 0..Len(text) |-> IF n = 0 THEN r ELSE ReadSymbol(f[n - 1], text[n])]

Leads(r, text, q) == \E f : IsRun(f, r, text) /\ f[Len(text)] = q

\* An empty text, a text of one symbol, one text after another
LEMMA LeadsNowhere == \A r : Leads(r, <<>>, r)
<1> SUFFICES ASSUME NEW r PROVE Leads(r, <<>>, r)
  OBVIOUS
<1> DEFINE f == [n \in 0..0 |-> r]
<1>1. IsRun(f, r, <<>>)
  <2>1. Len(<<>>) = 0
    OBVIOUS
  <2>2. \A n \in 0..0 : n = 0
    OBVIOUS
  <2>3. f = [n \in 0..0 |-> IF n = 0 THEN r ELSE ReadSymbol(f[n - 1], <<>>[n])]
    BY <2>2
  <2> HIDE DEF f
  <2> QED
    BY <2>1, <2>3 DEF IsRun
<1>2. f[Len(<<>>)] = r
  OBVIOUS
<1> HIDE DEF f
<1> QED
  BY <1>1, <1>2 DEF Leads

LEMMA LeadsOne ==
  ASSUME NEW r, NEW s
  PROVE  Leads(r, <<s>>, ReadSymbol(r, s))
<1> DEFINE q == ReadSymbol(r, s)
           f == [n \in 0..1 |-> IF n = 0 THEN r ELSE q]
<1>1. IsRun(f, r, <<s>>)
  <2>1. Len(<<s>>) = 1 /\ <<s>>[1] = s
    OBVIOUS
  <2>2. \A n \in 0..1 : n = 0 \/ n = 1
    OBVIOUS
  <2>3. f[0] = r /\ 1 - 1 = 0
    OBVIOUS
  <2>4. \A n \in 0..1 : f[n] = IF n = 0 THEN r ELSE ReadSymbol(f[n - 1], <<s>>[n])
    BY <2>1, <2>2, <2>3
  <2>5. f = [n \in 0..1 |-> f[n]]
    OBVIOUS
  <2> HIDE DEF f
  <2> QED
    BY <2>1, <2>4, <2>5 DEF IsRun
<1>2. f[Len(<<s>>)] = q
  OBVIOUS
<1> HIDE DEF f, q
<1>3. Leads(r, <<s>>, q)
  BY <1>1, <1>2 DEF Leads
<1> QED
  BY <1>3 DEF q

LEMMA LeadsOn ==
  ASSUME NEW a \in Seq(Chars), NEW b \in Seq(Chars), NEW r, NEW q, NEW p,
         Leads(r, a, q), Leads(q, b, p)
  PROVE  Leads(r, a \o b, p)
<1> DEFINE m == Len(a)
           k == Len(b)
           text == a \o b
<1>1. PICK f : IsRun(f, r, a) /\ f[m] = q
  BY DEF Leads
<1>2. PICK g : IsRun(g, q, b) /\ g[k] = p
  BY DEF Leads
<1>3. /\ m \in Nat /\ k \in Nat /\ Len(text) = m + k
      /\ \A i \in 1..m : text[i] = a[i]
      /\ \A i \in m+1..m+k : text[i] = b[i - m]
  BY ConcatProperties
<1>4. f[0] = r /\ \A n \in 1..m : f[n] = ReadSymbol(f[n - 1], a[n])
  <2>1. \A n \in 0..m : f[n] = IF n = 0 THEN r ELSE ReadSymbol(f[n - 1], a[n])
    BY <1>1 DEF IsRun
  <2>2. 0 \in 0..m /\ \A n \in 1..m : n \in 0..m /\ n # 0
    BY <1>3
  <2> QED
    BY <2>1, <2>2
<1>5. g[0] = q /\ \A n \in 1..k : g[n] = ReadSymbol(g[n - 1], b[n])
  <2>1. \A n \in 0..k : g[n] = IF n = 0 THEN q ELSE ReadSymbol(g[n - 1], b[n])
    BY <1>2 DEF IsRun
  <2>2. 0 \in 0..k /\ \A n \in 1..k : n \in 0..k /\ n # 0
    BY <1>3
  <2> QED
    BY <2>1, <2>2
<1> HIDE DEF m, k, text
<1> DEFINE h == [n \in 0..m+k |-> IF n <= m THEN f[n] ELSE g[n - m]]
<1>6. /\ \A n \in 0..m : h[n] = f[n]
      /\ \A n \in m..m+k : h[n] = g[n - m]
  <2>1. \A n \in 0..m : n \in 0..m+k /\ n <= m
    BY <1>3
  <2>2. \A n \in m..m+k : n \in 0..m+k /\ (n # m => ~(n <= m)) /\ m - m = 0
    BY <1>3
  <2>3. f[m] = g[0]
    BY <1>1, <1>5 DEF m
  <2>4. ASSUME NEW n \in m..m+k PROVE h[n] = g[n - m]
    <3>1. CASE n = m
      BY <1>3, <2>2, <2>3, <3>1
    <3>2. CASE n # m
      BY <2>2, <3>2
    <3> QED
      BY <3>1, <3>2
  <2> QED
    BY <2>1, <2>4
<1>7. ASSUME NEW n \in 0..m+k
      PROVE  h[n] = IF n = 0 THEN r ELSE ReadSymbol(h[n - 1], text[n])
  <2>1. CASE n = 0
    <3>1. 0 \in 0..m
      BY <1>3
    <3> QED
      BY <1>4, <1>6, <2>1, <3>1
  <2>2. CASE n \in 1..m
    <3>1. n \in 0..m /\ n - 1 \in 0..m /\ n # 0
      BY <1>3, <2>2
    <3> HIDE DEF h
    <3> QED
      BY <1>3, <1>4, <1>6, <2>2, <3>1
  <2>3. CASE n \in m+1..m+k
    <3>1. /\ n \in m..m+k /\ n - 1 \in m..m+k /\ n # 0
          /\ n - m \in 1..k /\ (n - 1) - m = (n - m) - 1
      BY <1>3, <2>3
    <3> HIDE DEF h
    <3>2. h[n] = g[n - m] /\ h[n - 1] = g[(n - m) - 1] /\ text[n] = b[n - m]
      BY <1>3, <1>6, <2>3, <3>1
    <3>3. g[n - m] = ReadSymbol(g[(n - m) - 1], b[n - m])
      BY <1>5, <3>1
    <3> QED
      BY <3>1, <3>2, <3>3
  <2> QED
    BY <1>3, <2>1, <2>2, <2>3
<1>8. h = [n \in 0..m+k |-> h[n]]
  OBVIOUS
<1>9. h[m + k] = p
  <2>1. m + k \in m..m+k /\ (m + k) - m = k
    BY <1>3
  <2> HIDE DEF h
  <2> QED
    BY <1>2, <1>6, <2>1 DEF k
<1> HIDE DEF h
<1>10. IsRun(h, r, text)
  BY <1>3, <1>7, <1>8 DEF IsRun
<1>11. h[Len(text)] = p
  BY <1>3, <1>9
<1>12. Leads(r, text, p)
  BY <1>10, <1>11 DEF Leads
<1> QED
  BY <1>12 DEF text

Unread == Reader("between", <<>>, <<>>)

\* Only one function satisfies the recursion of After, so After is where
\* the text leads.
LEMMA LeadsAfter ==
  ASSUME NEW text \in Seq(Chars), NEW q, Leads(Unread, text, q)
  PROVE  After(text) = q
<1> DEFINE m == Len(text)
           Is1(f) == f = [n \in 0..m |-> IF n = 0 THEN Unread
                                         ELSE ReadSymbol(f[n - 1], text[n])]
           h == CHOOSE f : Is1(f)
<1>1. m \in Nat
  OBVIOUS
<1>2. PICK f : Is1(f) /\ f[m] = q
  BY DEF Leads, IsRun
<1>3. Is1(h)
  <2> HIDE DEF Is1
  <2> QED
    BY <1>2
<1>4. After(text) = h[m]
  BY DEF After, Unread
<1> HIDE DEF h
<1>5. ASSUME NEW g, Is1(g)
      PROVE  \A n \in 0..m : g[n] = IF n = 0 THEN Unread ELSE ReadSymbol(g[n - 1], text[n])
  BY <1>5
<1> DEFINE Q == {n \in 0..m : h[n] = f[n]}
<1>6. 0 \in Q
  <2>1. 0 \in 0..m
    BY <1>1
  <2> QED
    BY <1>2, <1>3, <1>5, <2>1
<1>7. ASSUME NEW n \in 1..m, n - 1 \in Q PROVE n \in Q
  <2>1. n \in 0..m /\ n # 0
    BY <1>1
  <2>2. h[n] = ReadSymbol(h[n - 1], text[n]) /\ f[n] = ReadSymbol(f[n - 1], text[n])
    BY <1>2, <1>3, <1>5, <2>1
  <2>3. h[n - 1] = f[n - 1]
    BY <1>7
  <2> HIDE DEF Is1
  <2> QED
    BY <2>1, <2>2, <2>3
<1> HIDE DEF Q
<1>8. \A n \in 0..m : n \in Q
  BY <1>1, <1>6, <1>7, UpTo
<1>9. h[m] = f[m]
  <2>1. m \in Q
    BY <1>1, <1>8
  <2> QED
    BY <2>1 DEF Q
<1> QED
  BY <1>2, <1>4, <1>9

\* Symbols of a line of the log
Symbols == Chars \ {"LF"}
Tokens  == [is : {"mark", "string"}, text : Seq(Chars)]

Readers(mode) == [mode : {mode}, text : Seq(Chars), tokens : Seq(Tokens)]

\* Wherever it is read between two tokens, a text is read as these tokens.
Reads(text, tokens) ==
  /\ text \in Seq(Symbols) /\ tokens \in Seq(Tokens)
  /\ \A r \in Readers("between") : \E q \in Readers("between") :
       Leads(r, text, q) /\ q.tokens = r.tokens \o tokens

\* Wherever it is read in a string, a text is read as these characters.
Spells(text, chars) ==
  /\ text \in Seq(Symbols) /\ chars \in Seq(Chars)
  /\ \A r \in Readers("string") : \E q \in Readers("string") :
       Leads(r, text, q) /\ q.text = r.text \o chars /\ q.tokens = r.tokens

\* Sequences of a few items
LEMMA OneItem ==
  ASSUME NEW S, NEW s \in S
  PROVE  <<s>> \in Seq(S)
  OBVIOUS

LEMMA AddOne ==
  ASSUME NEW S, NEW s \in Seq(S), NEW x \in S
  PROVE  Append(s, x) \in Seq(S) /\ Append(s, x) = s \o <<x>>
  OBVIOUS

LEMMA TwoItems ==
  ASSUME NEW S, NEW s \in S, NEW t \in S
  PROVE  <<s>> \o <<t>> = <<s, t>>
<1> DEFINE a == <<s>>
           b == <<t>>
           v == <<s, t>>
<1>1. a \in Seq(S) /\ b \in Seq(S) /\ v \in Seq(S)
  OBVIOUS
<1>2. Len(a) = 1 /\ Len(b) = 1 /\ Len(v) = 2 /\ a[1] = s /\ b[1] = t /\ v[1] = s /\ v[2] = t
  OBVIOUS
<1> HIDE DEF a, b, v
<1>3. /\ a \o b \in Seq(S) /\ Len(a \o b) = 2
      /\ \A i \in 1..2 : (a \o b)[i] = IF i <= 1 THEN a[i] ELSE b[i - 1]
  BY <1>1, <1>2, ConcatProperties
<1>4. (a \o b)[1] = s
  BY <1>2, <1>3
<1>5. (a \o b)[2] = t
  BY <1>2, <1>3
<1>6. \A i \in 1..2 : (a \o b)[i] = v[i]
  <2>1. \A i \in 1..2 : i = 1 \/ i = 2
    OBVIOUS
  <2> QED
    BY <1>2, <1>4, <1>5, <2>1
<1>7. a \o b = v
  BY <1>1, <1>2, <1>3, <1>6, SeqEqual
<1> QED
  BY <1>7 DEF a, b, v

LEMMA ThreeItems ==
  ASSUME NEW S, NEW s \in S, NEW t \in S, NEW u \in S
  PROVE  <<s, t>> \o <<u>> = <<s, t, u>>
<1> DEFINE a == <<s, t>>
           b == <<u>>
           v == <<s, t, u>>
<1>1. a \in Seq(S) /\ b \in Seq(S) /\ v \in Seq(S)
  OBVIOUS
<1>2. /\ Len(a) = 2 /\ Len(b) = 1 /\ Len(v) = 3 /\ a[1] = s /\ a[2] = t
      /\ b[1] = u /\ v[1] = s /\ v[2] = t /\ v[3] = u
  OBVIOUS
<1> HIDE DEF a, b, v
<1>3. /\ a \o b \in Seq(S) /\ Len(a \o b) = 3
      /\ \A i \in 1..3 : (a \o b)[i] = IF i <= 2 THEN a[i] ELSE b[i - 2]
  <2>1. /\ a \o b \in Seq(S) /\ Len(a \o b) = Len(a) + Len(b)
        /\ \A i \in 1..Len(a) + Len(b) :
             (a \o b)[i] = IF i <= Len(a) THEN a[i] ELSE b[i - Len(a)]
    BY <1>1, ConcatProperties
  <2> QED
    BY <1>2, <2>1
<1>4. (a \o b)[1] = s /\ (a \o b)[2] = t /\ (a \o b)[3] = u
  BY <1>2, <1>3
<1>5. \A i \in 1..3 : (a \o b)[i] = v[i]
  <2>1. \A i \in 1..3 : i = 1 \/ i = 2 \/ i = 3
    OBVIOUS
  <2> QED
    BY <1>2, <1>4, <2>1
<1>6. a \o b = v
  BY <1>1, <1>2, <1>3, <1>5, SeqEqual
<1> QED
  BY <1>6 DEF a, b, v

LEMMA FourItems ==
  ASSUME NEW S, NEW s \in S, NEW t \in S, NEW u \in S, NEW w \in S
  PROVE  <<s, t, u>> \o <<w>> = <<s, t, u, w>>
<1> DEFINE a == <<s, t, u>>
           b == <<w>>
           v == <<s, t, u, w>>
<1>1. a \in Seq(S) /\ b \in Seq(S) /\ v \in Seq(S)
  OBVIOUS
<1>2. /\ Len(a) = 3 /\ Len(b) = 1 /\ Len(v) = 4 /\ a[1] = s /\ a[2] = t /\ a[3] = u
      /\ b[1] = w /\ v[1] = s /\ v[2] = t /\ v[3] = u /\ v[4] = w
  OBVIOUS
<1> HIDE DEF a, b, v
<1>3. /\ a \o b \in Seq(S) /\ Len(a \o b) = 4
      /\ \A i \in 1..4 : (a \o b)[i] = IF i <= 3 THEN a[i] ELSE b[i - 3]
  <2>1. /\ a \o b \in Seq(S) /\ Len(a \o b) = Len(a) + Len(b)
        /\ \A i \in 1..Len(a) + Len(b) :
             (a \o b)[i] = IF i <= Len(a) THEN a[i] ELSE b[i - Len(a)]
    BY <1>1, ConcatProperties
  <2> QED
    BY <1>2, <2>1
<1>4. /\ (a \o b)[1] = s /\ (a \o b)[2] = t
      /\ (a \o b)[3] = u /\ (a \o b)[4] = w
  BY <1>2, <1>3
<1>5. \A i \in 1..4 : (a \o b)[i] = v[i]
  <2>1. \A i \in 1..4 : i = 1 \/ i = 2 \/ i = 3 \/ i = 4
    OBVIOUS
  <2> QED
    BY <1>2, <1>4, <2>1
<1>6. a \o b = v
  BY <1>1, <1>2, <1>3, <1>5, SeqEqual
<1> QED
  BY <1>6 DEF a, b, v

LEMMA SymbolsAreChars ==
  ASSUME NEW text \in Seq(Symbols)
  PROVE  text \in Seq(Chars)
  BY SeqMonotonic DEF Symbols

\* What is read as tokens, or as characters of a string, can be put together.
LEMMA ReadsNothing == Reads(<<>>, <<>>)
<1>1. <<>> \in Seq(Symbols) /\ <<>> \in Seq(Tokens)
  BY EmptySeq
<1>2. ASSUME NEW r \in Readers("between")
      PROVE  Leads(r, <<>>, r) /\ r.tokens = r.tokens \o <<>>
  <2>1. r.tokens \in Seq(Tokens)
    BY DEF Readers
  <2> QED
    BY <2>1, LeadsNowhere, ConcatEmptySeq
<1> QED
  BY <1>1, <1>2 DEF Reads

LEMMA ReadsOn ==
  ASSUME NEW a, NEW b, NEW s, NEW t, Reads(a, s), Reads(b, t)
  PROVE  Reads(a \o b, s \o t)
<1>1. /\ a \in Seq(Symbols) /\ b \in Seq(Symbols)
      /\ s \in Seq(Tokens) /\ t \in Seq(Tokens)
  BY DEF Reads
<1>2. a \o b \in Seq(Symbols) /\ s \o t \in Seq(Tokens)
  BY <1>1, ConcatProperties
<1>3. ASSUME NEW r \in Readers("between")
      PROVE  \E q \in Readers("between") :
               Leads(r, a \o b, q) /\ q.tokens = r.tokens \o (s \o t)
  <2>1. PICK p \in Readers("between") : Leads(r, a, p) /\ p.tokens = r.tokens \o s
    BY DEF Reads
  <2>2. PICK q \in Readers("between") : Leads(p, b, q) /\ q.tokens = p.tokens \o t
    BY DEF Reads
  <2>3. a \in Seq(Chars) /\ b \in Seq(Chars)
    BY <1>1, SymbolsAreChars
  <2>4. Leads(r, a \o b, q)
    BY <2>1, <2>2, <2>3, LeadsOn
  <2> DEFINE u == r.tokens
  <2>6. u \in Seq(Tokens)
    BY DEF Readers
  <2> HIDE DEF u
  <2>7. (u \o s) \o t = u \o (s \o t)
    BY <1>1, <2>6, ConcatAssociative
  <2> QED
    BY <2>1, <2>2, <2>4, <2>7 DEF u
<1> QED
  BY <1>2, <1>3 DEF Reads

LEMMA SpellsNothing == Spells(<<>>, <<>>)
<1>1. <<>> \in Seq(Symbols) /\ <<>> \in Seq(Chars)
  BY EmptySeq
<1>2. ASSUME NEW r \in Readers("string")
      PROVE  Leads(r, <<>>, r) /\ r.text = r.text \o <<>>
  <2>1. r.text \in Seq(Chars)
    BY DEF Readers
  <2> QED
    BY <2>1, LeadsNowhere, ConcatEmptySeq
<1> QED
  BY <1>1, <1>2 DEF Spells

LEMMA SpellsOn ==
  ASSUME NEW a, NEW b, NEW s, NEW t, Spells(a, s), Spells(b, t)
  PROVE  Spells(a \o b, s \o t)
<1>1. /\ a \in Seq(Symbols) /\ b \in Seq(Symbols)
      /\ s \in Seq(Chars) /\ t \in Seq(Chars)
  BY DEF Spells
<1>2. a \o b \in Seq(Symbols) /\ s \o t \in Seq(Chars)
  BY <1>1, ConcatProperties
<1>3. ASSUME NEW r \in Readers("string")
      PROVE  \E q \in Readers("string") :
               /\ Leads(r, a \o b, q)
               /\ q.text = r.text \o (s \o t) /\ q.tokens = r.tokens
  <2>1. PICK p \in Readers("string") :
          Leads(r, a, p) /\ p.text = r.text \o s /\ p.tokens = r.tokens
    BY DEF Spells
  <2>2. PICK q \in Readers("string") :
          Leads(p, b, q) /\ q.text = p.text \o t /\ q.tokens = p.tokens
    BY DEF Spells
  <2>3. a \in Seq(Chars) /\ b \in Seq(Chars)
    BY <1>1, SymbolsAreChars
  <2>4. Leads(r, a \o b, q)
    BY <2>1, <2>2, <2>3, LeadsOn
  <2> DEFINE u == r.text
  <2>6. u \in Seq(Chars)
    BY DEF Readers
  <2> HIDE DEF u
  <2>7. (u \o s) \o t = u \o (s \o t)
    BY <1>1, <2>6, ConcatAssociative
  <2> QED
    BY <2>1, <2>2, <2>4, <2>7 DEF u
<1> QED
  BY <1>2, <1>3 DEF Spells

-----------------------------------------------------------------------------
(* Symbols *)

Special == {Quote, Backslash} \cup Controls

LEMMA ControlsAre == Controls = {"BS", "FF", "LF", "CR", "HT", "NUL", "ESC"}
  BY DEF Controls, Letters, Digits

\* A symbol that is no mark of a string is read as it is.
LEMMA ReadsMark ==
  ASSUME NEW s \in Chars \ Special
  PROVE  Reads(<<s>>, <<Mark(s)>>)
<1>1. s # Quote /\ s \notin Controls /\ s \in Symbols
  BY ControlsAre DEF Special, Symbols
<1>2. <<s>> \in Seq(Symbols) /\ <<Mark(s)>> \in Seq(Tokens)
  <2>1. Mark(s) \in Tokens
    BY DEF Mark, Tokens
  <2> QED
    BY <1>1, <2>1, OneItem
<1>3. ASSUME NEW r \in Readers("between")
      PROVE  \E q \in Readers("between") :
               Leads(r, <<s>>, q) /\ q.tokens = r.tokens \o <<Mark(s)>>
  <2> DEFINE q == Reader("between", <<>>, Append(r.tokens, Mark(s)))
  <2>1. r.mode = "between" /\ r.tokens \in Seq(Tokens)
    BY DEF Readers
  <2> HIDE DEF q
  <2>2. ReadSymbol(r, s) = q
    BY <1>1, <2>1 DEF ReadSymbol, q
  <2>3. Append(r.tokens, Mark(s)) = r.tokens \o <<Mark(s)>>
    BY <2>1
  <2>4. Mark(s) \in Tokens
    BY DEF Mark, Tokens
  <2>5. Append(r.tokens, Mark(s)) \in Seq(Tokens) /\ <<>> \in Seq(Chars)
    BY <2>1, <2>4, EmptySeq
  <2>6. q \in Readers("between") /\ q.tokens = r.tokens \o <<Mark(s)>>
    BY <2>3, <2>5 DEF q, Reader, Readers
  <2> QED
    BY <2>2, <2>6, LeadsOne
<1> QED
  BY <1>2, <1>3 DEF Reads

\* and so is a character of a string.
LEMMA SpellsItself ==
  ASSUME NEW s \in Chars \ Special
  PROVE  Spells(<<s>>, <<s>>)
<1>1. s # Quote /\ s # Backslash /\ s \notin Controls /\ s \in Symbols
  BY ControlsAre DEF Special, Symbols
<1>2. <<s>> \in Seq(Symbols) /\ <<s>> \in Seq(Chars)
  BY <1>1, OneItem
<1>3. ASSUME NEW r \in Readers("string")
      PROVE  \E q \in Readers("string") :
               Leads(r, <<s>>, q) /\ q.text = r.text \o <<s>> /\ q.tokens = r.tokens
  <2> DEFINE q == Reader("string", Append(r.text, s), r.tokens)
  <2>1. r.mode = "string" /\ r.text \in Seq(Chars)
    BY DEF Readers
  <2> HIDE DEF q
  <2>2. ReadSymbol(r, s) = q
    BY <1>1, <2>1 DEF ReadSymbol, q
  <2>3. Append(r.text, s) = r.text \o <<s>>
    BY <2>1
  <2>4. Append(r.text, s) \in Seq(Chars) /\ r.tokens \in Seq(Tokens)
    BY <2>1 DEF Readers
  <2>5. q \in Readers("string") /\ q.text = r.text \o <<s>> /\ q.tokens = r.tokens
    BY <2>3, <2>4 DEF q, Reader, Readers
  <2> QED
    BY <2>2, <2>5, LeadsOne
<1> QED
  BY <1>2, <1>3 DEF Spells

LEMMA LeadsTwo ==
  ASSUME NEW r, NEW s \in Chars, NEW t \in Chars
  PROVE  Leads(r, <<s, t>>, ReadSymbol(ReadSymbol(r, s), t))
<1>1. <<s>> \in Seq(Chars) /\ <<t>> \in Seq(Chars) /\ <<s>> \o <<t>> = <<s, t>>
  BY OneItem, TwoItems
<1> QED
  BY <1>1, LeadsOne, LeadsOn

LEMMA LeadsThree ==
  ASSUME NEW r, NEW s \in Chars, NEW t \in Chars, NEW u \in Chars
  PROVE  Leads(r, <<s, t, u>>, ReadSymbol(ReadSymbol(ReadSymbol(r, s), t), u))
<1>1. <<s, t>> \in Seq(Chars) /\ <<u>> \in Seq(Chars) /\ <<s, t>> \o <<u>> = <<s, t, u>>
  BY ThreeItems
<1>2. Leads(r, <<s, t>>, ReadSymbol(ReadSymbol(r, s), t))
  BY LeadsTwo
<1> QED
  BY <1>1, <1>2, LeadsOne, LeadsOn

\* The escapes are read back: no two characters have the same one.
LEMMA LettersAreRead ==
  ASSUME NEW c \in DOMAIN Letters
  PROVE  /\ Letters[c] \in Symbols /\ Letters[c] \notin {Quote, Backslash}
         /\ IsValueOf(Letters, Letters[c]) /\ Unescaped(Letters, Letters[c]) = c
<1>1. Letters[c] \in {"b", "f", "n", "r", "t"}
  BY DEF Letters
<1>2. Letters[c] \in Symbols /\ Letters[c] \notin {Quote, Backslash}
  BY <1>1 DEF Symbols, Chars, Words, Quote, Backslash
<1>3. \A d \in DOMAIN Letters : Letters[d] = Letters[c] => d = c
  BY DEF Letters
<1> QED
  BY <1>2, <1>3 DEF IsValueOf, Unescaped

LEMMA DigitsAreRead ==
  ASSUME NEW c \in DOMAIN Digits
  PROVE  /\ Digits[c] \in Symbols
         /\ IsValueOf(Digits, Digits[c]) /\ Unescaped(Digits, Digits[c]) = c
<1>1. Digits[c] \in {"0000", "001B"}
  BY DEF Digits
<1>2. Digits[c] \in Symbols
  BY <1>1 DEF Symbols, Chars, Words
<1>3. \A d \in DOMAIN Digits : Digits[d] = Digits[c] => d = c
  BY DEF Digits
<1> QED
  BY <1>2, <1>3 DEF IsValueOf, Unescaped

\* The marks of a string differ from each other and from everything escaped.
LEMMA MarksAre ==
  /\ Quote # Backslash /\ Quote \notin Controls /\ Backslash \notin Controls
  /\ Quote \in Symbols /\ Backslash \in Symbols
  /\ "u" \in Symbols /\ "u" \notin {Quote, Backslash} /\ ~IsValueOf(Letters, "u")
<1>1. /\ Quote # Backslash /\ Quote \notin Controls /\ Backslash \notin Controls
      /\ "u" \notin {Quote, Backslash}
  BY ControlsAre DEF Quote, Backslash
<1>2. Quote \in Symbols /\ Backslash \in Symbols /\ "u" \in Symbols
  BY <1>1, ControlsAre DEF Symbols, Chars, Words
<1>3. ~IsValueOf(Letters, "u")
  BY DEF IsValueOf, Letters
<1> QED
  BY <1>1, <1>2, <1>3

\* A text that adds one character to a string, whatever was read before it
LEMMA AddSpells ==
  ASSUME NEW text \in Seq(Symbols), NEW c \in Chars,
         \A r \in Readers("string") :
           Leads(r, text, Reader("string", Append(r.text, c), r.tokens))
  PROVE  Spells(text, <<c>>)
<1>1. <<c>> \in Seq(Chars)
  BY OneItem
<1>2. ASSUME NEW r \in Readers("string")
      PROVE  \E q \in Readers("string") :
               Leads(r, text, q) /\ q.text = r.text \o <<c>> /\ q.tokens = r.tokens
  <2> DEFINE q == Reader("string", Append(r.text, c), r.tokens)
  <2>1. r.text \in Seq(Chars) /\ r.tokens \in Seq(Tokens)
    BY DEF Readers
  <2>2. Append(r.text, c) \in Seq(Chars) /\ Append(r.text, c) = r.text \o <<c>>
    BY <2>1, AddOne
  <2>3. q \in Readers("string") /\ q.text = r.text \o <<c>> /\ q.tokens = r.tokens
    BY <2>1, <2>2 DEF Reader, Readers
  <2> QED
    BY <2>3
<1> QED
  BY <1>1, <1>2 DEF Spells

\* append_json_string writes what is read as the character it was.
LEMMA EscapeSpells ==
  ASSUME NEW c \in Chars
  PROVE  Spells(Escape(c), <<c>>)
<1>1. CASE c \in {Quote, Backslash}
  <2>1. Escape(c) = <<Backslash, c>>
    <3>1. c \notin DOMAIN Letters /\ c \notin DOMAIN Digits
      BY <1>1, MarksAre DEF Controls
    <3> QED
      BY <1>1, <3>1 DEF Escape
  <2>2. Escape(c) \in Seq(Symbols) /\ <<c>> \in Seq(Chars)
    BY <1>1, <2>1, MarksAre
  <2>3. ASSUME NEW r \in Readers("string")
        PROVE  LET q == Reader("string", Append(r.text, c), r.tokens) IN
               Leads(r, Escape(c), q)
    <3> DEFINE p == Reader("escape", r.text, r.tokens)
    <3>1. ReadSymbol(r, Backslash) = p
      <4>1. r.mode = "string"
        BY DEF Readers
      <4> QED
        BY <4>1, MarksAre DEF ReadSymbol
    <3>2. p.mode = "escape" /\ p.text = r.text /\ p.tokens = r.tokens
      BY DEF Reader
    <3> HIDE DEF p
    <3>3. ReadSymbol(p, c) = Reader("string", Append(r.text, c), r.tokens)
      BY <1>1, <3>2 DEF ReadSymbol
    <3>4. Backslash \in Chars
      BY MarksAre DEF Symbols
    <3> QED
      BY <2>1, <3>1, <3>3, <3>4, LeadsTwo
  <2> QED
    BY <2>2, <2>3, AddSpells
<1>2. CASE c \in DOMAIN Letters
  <2>1. Escape(c) = <<Backslash, Letters[c]>>
    <3>1. c \notin {Quote, Backslash} /\ c \notin DOMAIN Digits
      BY <1>2, MarksAre DEF Controls, Letters, Digits
    <3> QED
      BY <1>2, <3>1 DEF Escape
  <2>2. Escape(c) \in Seq(Symbols) /\ <<c>> \in Seq(Chars)
    BY <1>2, <2>1, MarksAre, LettersAreRead
  <2>3. ASSUME NEW r \in Readers("string")
        PROVE  LET q == Reader("string", Append(r.text, c), r.tokens) IN
               Leads(r, Escape(c), q)
    <3> DEFINE p == Reader("escape", r.text, r.tokens)
               s == Letters[c]
    <3>1. ReadSymbol(r, Backslash) = p
      <4>1. r.mode = "string"
        BY DEF Readers
      <4> QED
        BY <4>1, MarksAre DEF ReadSymbol
    <3>2. p.mode = "escape" /\ p.text = r.text /\ p.tokens = r.tokens
      BY DEF Reader
    <3>3. /\ s \notin {Quote, Backslash}
          /\ IsValueOf(Letters, s) /\ Unescaped(Letters, s) = c
      BY <1>2, LettersAreRead
    <3>4. Backslash \in Chars /\ s \in Chars
      BY <1>2, MarksAre, LettersAreRead DEF Symbols
    <3>5. Escape(c) = <<Backslash, s>>
      BY <2>1
    <3> HIDE DEF p, s
    <3>6. ReadSymbol(p, s) = Reader("string", Append(r.text, c), r.tokens)
      BY <3>2, <3>3 DEF ReadSymbol
    <3> QED
      BY <3>1, <3>4, <3>5, <3>6, LeadsTwo
  <2> QED
    BY <2>2, <2>3, AddSpells
<1>3. CASE c \in DOMAIN Digits
  <2>1. Escape(c) = <<Backslash, "u", Digits[c]>>
    <3>1. c \notin {Quote, Backslash}
      BY <1>3, MarksAre DEF Controls
    <3>2. c \notin DOMAIN Letters
      BY <1>3 DEF Letters, Digits
    <3> QED
      BY <1>3, <3>1, <3>2 DEF Escape
  <2>2. Escape(c) \in Seq(Symbols) /\ <<c>> \in Seq(Chars)
    BY <1>3, <2>1, MarksAre, DigitsAreRead
  <2>3. ASSUME NEW r \in Readers("string")
        PROVE  LET q == Reader("string", Append(r.text, c), r.tokens) IN
               Leads(r, Escape(c), q)
    <3> DEFINE p == Reader("escape", r.text, r.tokens)
               d == Reader("digits", r.text, r.tokens)
               s == Digits[c]
    <3>1. ReadSymbol(r, Backslash) = p
      <4>1. r.mode = "string"
        BY DEF Readers
      <4> QED
        BY <4>1, MarksAre DEF ReadSymbol
    <3>2. p.mode = "escape" /\ p.text = r.text /\ p.tokens = r.tokens
      BY DEF Reader
    <3>3. d.mode = "digits" /\ d.text = r.text /\ d.tokens = r.tokens
      BY DEF Reader
    <3>4. IsValueOf(Digits, s) /\ Unescaped(Digits, s) = c
      BY <1>3, DigitsAreRead
    <3>5. Backslash \in Chars /\ "u" \in Chars /\ s \in Chars
      BY <1>3, MarksAre, DigitsAreRead DEF Symbols
    <3>6. Escape(c) = <<Backslash, "u", s>>
      BY <2>1
    <3> HIDE DEF p, s
    <3>7. ReadSymbol(p, "u") = d
      BY <3>2, MarksAre DEF ReadSymbol
    <3> HIDE DEF d
    <3>8. ReadSymbol(d, s) = Reader("string", Append(r.text, c), r.tokens)
      BY <3>3, <3>4 DEF ReadSymbol
    <3> QED
      BY <3>1, <3>5, <3>6, <3>7, <3>8, LeadsThree
  <2> QED
    BY <2>2, <2>3, AddSpells
<1>4. CASE c \notin Special
  <2>1. Escape(c) = <<c>>
    BY <1>4 DEF Escape, Special, Controls
  <2> QED
    BY <1>4, <2>1, SpellsItself
<1> QED
  BY <1>1, <1>2, <1>3, <1>4 DEF Special, Controls

-----------------------------------------------------------------------------
(* Strings *)

\* By induction on the number of characters
LEMMA PartsSpell ==
  ASSUME NEW seqs \in Seq(Seq(Symbols)), NEW chars \in Seq(Chars),
         Len(seqs) = Len(chars),
         \A i \in 1..Len(chars) : Spells(seqs[i], <<chars[i]>>)
  PROVE  Spells(FlattenSeq(seqs), chars)
<1> DEFINE n == Len(chars)
<1>1. n \in Nat
  OBVIOUS
<1>2. CASE n = 0
  <2>1. seqs = <<>> /\ chars = <<>>
    BY <1>2, EmptySeq
  <2> QED
    BY <2>1, NoParts, SpellsNothing
<1>3. CASE n # 0
  <2>1. seqs # <<>>
    BY <1>3, EmptySeq
  <2>2. PICK f \in [1..Len(seqs) -> Seq(Symbols)] :
          /\ f[1] = seqs[1]
          /\ \A i \in 2..Len(seqs) : f[i] = f[i - 1] \o seqs[i]
          /\ FlattenSeq(seqs) = f[Len(seqs)]
    BY <2>1, Flattening
  <2> DEFINE Q == {k \in 0..n : k >= 1 => Spells(f[k], SubSeq(chars, 1, k))}
  <2>3. 0 \in Q
    BY <1>1
  <2>4. ASSUME NEW k \in 1..n, k - 1 \in Q PROVE k \in Q
    <3>1. SubSeq(chars, 1, k) = SubSeq(chars, 1, k - 1) \o <<chars[k]>>
      <4>1. 1 \in 1..Len(chars) /\ k \in 1..Len(chars)
        BY <1>1, <1>3
      <4> QED
        BY <4>1, SubSeqRecursiveSecond
    <3>2. CASE k = 1
      <4>1. SubSeq(chars, 1, 0) = <<>>
        BY SubSeqEmpty
      <4>2. <<chars[1]>> \in Seq(Chars)
        BY <1>1, <1>3
      <4>3. SubSeq(chars, 1, 1) = <<chars[1]>>
        <5>1. SubSeq(chars, 1, 1) = <<>> \o <<chars[1]>>
          <6>1. k - 1 = 0
            BY <3>2
          <6> QED
            BY <3>1, <3>2, <4>1, <6>1
        <5> QED
          BY <4>2, <5>1, ConcatEmptySeq
      <4>4. Spells(f[1], SubSeq(chars, 1, 1))
        BY <2>2, <3>2, <4>3
      <4> QED
        BY <1>1, <3>2, <4>4
    <3>3. CASE k # 1
      <4>1. k \in 2..n /\ k - 1 >= 1
        BY <1>1, <3>3
      <4>2. Spells(f[k - 1], SubSeq(chars, 1, k - 1))
        BY <2>4, <4>1
      <4>3. Spells(f[k - 1] \o seqs[k], SubSeq(chars, 1, k - 1) \o <<chars[k]>>)
        BY <4>2, SpellsOn
      <4>4. Spells(f[k], SubSeq(chars, 1, k))
        BY <2>2, <3>1, <4>1, <4>3
      <4> QED
        BY <1>1, <4>4
    <3> QED
      BY <3>2, <3>3
  <2> HIDE DEF Q
  <2>5. \A k \in 0..n : k \in Q
    BY <1>1, <2>3, <2>4, UpTo
  <2>6. n \in Q
    BY <1>1, <2>5
  <2>7. Spells(f[n], SubSeq(chars, 1, n))
    BY <1>1, <1>3, <2>6 DEF Q
  <2> QED
    BY <2>2, <2>7, SubSeqFull
<1> QED
  BY <1>2, <1>3

LEMMA TextSpells ==
  ASSUME NEW text \in Seq(Chars)
  PROVE  Spells(FlattenSeq([i \in DOMAIN text |-> Escape(text[i])]), text)
<1> DEFINE seqs == [i \in DOMAIN text |-> Escape(text[i])]
<1>1. DOMAIN text = 1..Len(text) /\ Len(text) \in Nat
  OBVIOUS
<1>2. ASSUME NEW i \in 1..Len(text) PROVE Spells(Escape(text[i]), <<text[i]>>)
  <2>1. text[i] \in Chars
    OBVIOUS
  <2> QED
    BY <2>1, EscapeSpells
<1>3. \A i \in 1..Len(text) : Escape(text[i]) \in Seq(Symbols)
  BY <1>2 DEF Spells
<1>4. seqs \in Seq(Seq(Symbols)) /\ Len(seqs) = Len(text)
  BY <1>1, <1>3
<1>5. \A i \in 1..Len(text) : Spells(seqs[i], <<text[i]>>)
  BY <1>1, <1>2
<1> HIDE DEF seqs
<1>6. Spells(FlattenSeq(seqs), text)
  BY <1>4, <1>5, PartsSpell
<1> QED
  BY <1>6 DEF seqs

\* Between quotation marks, what spells a text reads as that string.
LEMMA QuotedReads ==
  ASSUME NEW b, NEW chars, Spells(b, chars)
  PROVE  Reads(<<Quote>> \o b \o <<Quote>>, <<String(chars)>>)
<1> DEFINE text == <<Quote>> \o b \o <<Quote>>
<1>1. b \in Seq(Symbols) /\ chars \in Seq(Chars) /\ <<Quote>> \in Seq(Symbols)
  BY MarksAre, OneItem DEF Spells
<1>2. text \in Seq(Symbols)
  <2>1. <<Quote>> \o b \in Seq(Symbols)
    BY <1>1, ConcatProperties
  <2> QED
    BY <1>1, <2>1, ConcatProperties
<1>3. String(chars) \in Tokens
  BY <1>1 DEF String, Tokens
<1>4. <<String(chars)>> \in Seq(Tokens)
  BY <1>3, OneItem
<1>5. ASSUME NEW r \in Readers("between")
      PROVE  \E q \in Readers("between") :
               Leads(r, text, q) /\ q.tokens = r.tokens \o <<String(chars)>>
  <2> DEFINE p == Reader("string", <<>>, r.tokens)
  <2>1. r.mode = "between" /\ r.tokens \in Seq(Tokens) /\ <<>> \in Seq(Chars)
    BY EmptySeq DEF Readers
  <2>2. p \in Readers("string") /\ p.text = <<>> /\ p.tokens = r.tokens
    BY <2>1 DEF Reader, Readers
  <2>3. ReadSymbol(r, Quote) = p
    BY <2>1 DEF ReadSymbol
  <2> HIDE DEF p
  <2>4. PICK d \in Readers("string") :
          Leads(p, b, d) /\ d.text = p.text \o chars /\ d.tokens = p.tokens
    BY <2>2 DEF Spells
  <2>5. d.text = chars
    BY <1>1, <2>2, <2>4, ConcatEmptySeq
  <2> DEFINE q == Reader("between", <<>>, Append(r.tokens, String(chars)))
  <2>6. ReadSymbol(d, Quote) = q
    <3>1. d.mode = "string"
      BY DEF Readers
    <3> QED
      BY <2>2, <2>4, <2>5, <3>1 DEF ReadSymbol
  <2>7. Append(r.tokens, String(chars)) = r.tokens \o <<String(chars)>>
    BY <2>1
  <2>8. Append(r.tokens, String(chars)) \in Seq(Tokens)
    BY <1>3, <2>1
  <2>9. q \in Readers("between") /\ q.tokens = r.tokens \o <<String(chars)>>
    BY <2>1, <2>7, <2>8 DEF Reader, Readers
  <2> HIDE DEF q
  <2>10. <<Quote>> \in Seq(Chars) /\ b \in Seq(Chars) /\ <<Quote>> \o b \in Seq(Chars)
    BY <1>1, SymbolsAreChars, ConcatProperties
  <2>11. Leads(r, <<Quote>>, p) /\ Leads(d, <<Quote>>, q)
    BY <2>3, <2>6, LeadsOne
  <2>12. Leads(r, <<Quote>> \o b, d)
    BY <2>4, <2>10, <2>11, LeadsOn
  <2>13. Leads(r, text, q)
    BY <2>10, <2>11, <2>12, LeadsOn
  <2> QED
    BY <2>9, <2>13
<1> QED
  BY <1>2, <1>4, <1>5 DEF Reads

\* A text is read back from what append_json_string makes of it.
LEMMA StringReads ==
  ASSUME NEW text \in Seq(Chars)
  PROVE  Reads(JsonString(text), <<String(text)>>)
  BY TextSpells, QuotedReads DEF JsonString

LEMMA WordReads ==
  ASSUME NEW word \in Chars
  PROVE  Reads(JsonString(<<word>>), <<String(<<word>>)>>)
<1>1. <<word>> \in Seq(Chars)
  BY OneItem
<1> QED
  BY <1>1, StringReads

LEMMA LiteralReads ==
  ASSUME NEW key \in Chars \ Special
  PROVE  Reads(Literal(key), <<String(<<key>>), Mark(":")>>)
<1>1. Reads(<<Quote>> \o <<key>> \o <<Quote>>, <<String(<<key>>)>>)
  BY SpellsItself, QuotedReads
<1>2. ":" \in Chars \ Special
  BY ControlsAre DEF Special, Chars, Words, Quote, Backslash
<1>3. Reads(<<":">>, <<Mark(":")>>)
  BY <1>2, ReadsMark
<1>4. Reads((<<Quote>> \o <<key>> \o <<Quote>>) \o <<":">>, <<String(<<key>>)>> \o <<Mark(":")>>)
  BY <1>1, <1>3, ReadsOn
<1>5. (<<Quote>> \o <<key>> \o <<Quote>>) \o <<":">> = Literal(key)
  <2>1. Quote \in Chars /\ ":" \in Chars
    BY <1>2, MarksAre DEF Symbols
  <2>2. <<Quote>> \o <<key>> = <<Quote, key>>
    BY <2>1, TwoItems
  <2>3. <<Quote, key>> \o <<Quote>> = <<Quote, key, Quote>>
    BY <2>1, ThreeItems
  <2>4. <<Quote, key, Quote>> \o <<":">> = <<Quote, key, Quote, ":">>
    BY <2>1, FourItems
  <2> QED
    BY <2>2, <2>3, <2>4 DEF Literal
<1>6. <<String(<<key>>)>> \o <<Mark(":")>> = <<String(<<key>>), Mark(":")>>
  <2>1. String(<<key>>) \in Tokens /\ Mark(":") \in Tokens
    BY <1>2, OneItem DEF String, Mark, Tokens
  <2> QED
    BY <2>1, TwoItems
<1> QED
  BY <1>4, <1>5, <1>6

-----------------------------------------------------------------------------
(* Lists and members *)

LEMMA PunctuationReads ==
  ASSUME NEW s \in {"{", "}", "[", "]", ",", ":", "true", "false", "1"}
  PROVE  Reads(<<s>>, <<Mark(s)>>)
<1>1. s \in Chars \ Special
  BY ControlsAre DEF Special, Chars, Words, Quote, Backslash
<1> QED
  BY <1>1, ReadsMark

\* By induction on the number of parts
LEMMA PartsRead ==
  ASSUME NEW seqs \in Seq(Seq(Symbols)), NEW parts \in Seq(Seq(Tokens)),
         Len(seqs) = Len(parts),
         \A i \in 1..Len(parts) : Reads(seqs[i], parts[i])
  PROVE  Reads(FlattenSeq(seqs), FlattenSeq(parts))
<1> DEFINE n == Len(parts)
<1>1. n \in Nat
  OBVIOUS
<1>2. CASE n = 0
  <2>1. seqs = <<>> /\ parts = <<>>
    BY <1>2, EmptySeq
  <2> QED
    BY <2>1, NoParts, ReadsNothing
<1>3. CASE n # 0
  <2>1. seqs # <<>> /\ parts # <<>>
    BY <1>3, EmptySeq
  <2>2. PICK f \in [1..Len(seqs) -> Seq(Symbols)] :
          /\ f[1] = seqs[1]
          /\ \A i \in 2..Len(seqs) : f[i] = f[i - 1] \o seqs[i]
          /\ FlattenSeq(seqs) = f[Len(seqs)]
    BY <2>1, Flattening
  <2>3. PICK g \in [1..Len(parts) -> Seq(Tokens)] :
          /\ g[1] = parts[1]
          /\ \A i \in 2..Len(parts) : g[i] = g[i - 1] \o parts[i]
          /\ FlattenSeq(parts) = g[Len(parts)]
    BY <2>1, Flattening
  <2> DEFINE Q == {k \in 0..n : k >= 1 => Reads(f[k], g[k])}
  <2>4. 0 \in Q
    BY <1>1
  <2>5. ASSUME NEW k \in 1..n, k - 1 \in Q PROVE k \in Q
    <3>1. CASE k = 1
      <4>1. Reads(f[1], g[1])
        BY <1>1, <1>3, <2>2, <2>3
      <4> QED
        BY <1>1, <3>1, <4>1
    <3>2. CASE k # 1
      <4>1. k \in 2..n /\ k - 1 >= 1
        BY <1>1, <3>2
      <4>2. Reads(f[k - 1], g[k - 1])
        BY <2>5, <4>1
      <4>3. Reads(f[k - 1] \o seqs[k], g[k - 1] \o parts[k])
        BY <4>2, ReadsOn
      <4>4. Reads(f[k], g[k])
        BY <2>2, <2>3, <4>1, <4>3
      <4> QED
        BY <1>1, <4>4
    <3> QED
      BY <3>1, <3>2
  <2> HIDE DEF Q
  <2>6. \A k \in 0..n : k \in Q
    BY <1>1, <2>4, <2>5, UpTo
  <2>7. n \in Q
    BY <1>1, <2>6
  <2>8. Reads(f[n], g[n])
    BY <1>1, <1>3, <2>7 DEF Q
  <2> QED
    BY <2>2, <2>3, <2>8
<1> QED
  BY <1>2, <1>3

\* The tokens of a list, with commas between its parts
Commas(parts) ==
  [i \in DOMAIN parts |-> IF i > 1 THEN <<Mark(",")>> \o parts[i] ELSE parts[i]]

Joined(parts) == FlattenSeq(Commas(parts))

LEMMA CommaIsToken == Mark(",") \in Tokens /\ <<Mark(",")>> \in Seq(Tokens)
<1>1. "," \in Chars
  BY DEF Chars, Words
<1>2. Mark(",") \in Tokens
  BY <1>1, OneItem DEF Mark, Tokens
<1> QED
  BY <1>2, OneItem

LEMMA CommasType ==
  ASSUME NEW parts \in Seq(Seq(Tokens))
  PROVE  /\ Commas(parts) \in Seq(Seq(Tokens))
         /\ Len(Commas(parts)) = Len(parts) /\ Len(parts) \in Nat
         /\ \A i \in 1..Len(parts) :
              Commas(parts)[i] = IF i > 1 THEN <<Mark(",")>> \o parts[i] ELSE parts[i]
<1>1. DOMAIN parts = 1..Len(parts) /\ Len(parts) \in Nat
  OBVIOUS
<1>2. ASSUME NEW i \in 1..Len(parts)
      PROVE  /\ parts[i] \in Seq(Tokens)
             /\ <<Mark(",")>> \o parts[i] \in Seq(Tokens)
  <2>1. parts[i] \in Seq(Tokens)
    OBVIOUS
  <2> QED
    BY <2>1, CommaIsToken, ConcatProperties
<1>3. Commas(parts) \in [1..Len(parts) -> Seq(Tokens)]
  BY <1>1, <1>2 DEF Commas
<1>4. Commas(parts) \in Seq(Seq(Tokens)) /\ Len(Commas(parts)) = Len(parts)
  BY <1>1, <1>3
<1> QED
  BY <1>1, <1>4 DEF Commas

LEMMA ListedReads ==
  ASSUME NEW items \in Seq(Seq(Symbols)), NEW parts \in Seq(Seq(Tokens)),
         Len(items) = Len(parts),
         \A i \in 1..Len(parts) : Reads(items[i], parts[i])
  PROVE  Reads(Listed(items), Joined(parts))
<1> DEFINE seqs == [i \in DOMAIN items |-> IF i > 1 THEN <<",">> \o items[i] ELSE items[i]]
           toks == Commas(parts)
<1>1. DOMAIN items = 1..Len(parts) /\ Len(parts) \in Nat
  OBVIOUS
<1>2. /\ toks \in Seq(Seq(Tokens)) /\ Len(toks) = Len(parts)
      /\ \A i \in 1..Len(parts) :
           toks[i] = IF i > 1 THEN <<Mark(",")>> \o parts[i] ELSE parts[i]
  BY CommasType
<1> HIDE DEF toks
<1>3. ASSUME NEW i \in 1..Len(parts) PROVE Reads(seqs[i], toks[i])
  <2>1. Reads(<<",">> \o items[i], <<Mark(",")>> \o parts[i])
    BY PunctuationReads, ReadsOn
  <2>2. CASE i > 1
    BY <1>1, <1>2, <2>1, <2>2
  <2>3. CASE ~(i > 1)
    BY <1>1, <1>2, <2>3
  <2> QED
    BY <2>2, <2>3
<1>4. \A i \in 1..Len(parts) : seqs[i] \in Seq(Symbols)
  BY <1>3 DEF Reads
<1>5. seqs \in Seq(Seq(Symbols)) /\ Len(seqs) = Len(parts)
  <2>1. seqs = [i \in 1..Len(parts) |-> seqs[i]]
    BY <1>1
  <2> HIDE DEF seqs
  <2> QED
    BY <1>1, <1>4, <2>1
<1> HIDE DEF seqs
<1>6. Reads(FlattenSeq(seqs), FlattenSeq(toks))
  BY <1>2, <1>3, <1>5, PartsRead
<1> QED
  BY <1>6 DEF seqs, toks, Listed, Joined

\* One more part at the end of what is flattened, and of what is joined
LEMMA FlattenMore ==
  ASSUME NEW S, NEW seqs \in Seq(Seq(S)), NEW s \in Seq(S)
  PROVE  FlattenSeq(Append(seqs, s)) = FlattenSeq(seqs) \o s
<1> DEFINE n == Len(seqs)
           more == Append(seqs, s)
<1>1. /\ n \in Nat /\ more \in Seq(Seq(S)) /\ Len(more) = n + 1
      /\ more # <<>> /\ more[n + 1] = s /\ \A i \in 1..n : more[i] = seqs[i]
  <2>1. /\ n \in Nat /\ more \in Seq(Seq(S)) /\ Len(more) = n + 1
        /\ more[n + 1] = s /\ \A i \in 1..n : more[i] = seqs[i]
    OBVIOUS
  <2> HIDE DEF more, n
  <2>2. more # <<>>
    BY <2>1, EmptySeq
  <2> QED
    BY <2>1, <2>2
<1> HIDE DEF more
<1>2. PICK g \in [1..Len(more) -> Seq(S)] :
        /\ g[1] = more[1]
        /\ \A i \in 2..Len(more) : g[i] = g[i - 1] \o more[i]
        /\ FlattenSeq(more) = g[Len(more)]
  BY <1>1, Flattening
<1>3. CASE seqs = <<>>
  <2>1. n = 0
    BY <1>3
  <2>2. FlattenSeq(more) = s
    BY <1>1, <1>2, <2>1
  <2>3. FlattenSeq(seqs) \o s = s
    BY <1>3, NoParts, ConcatEmptySeq
  <2> QED
    BY <2>2, <2>3 DEF more
<1>4. CASE seqs # <<>>
  <2>1. n >= 1
    BY <1>4, EmptySeq
  <2>2. PICK f \in [1..Len(seqs) -> Seq(S)] :
          /\ f[1] = seqs[1]
          /\ \A i \in 2..Len(seqs) : f[i] = f[i - 1] \o seqs[i]
          /\ FlattenSeq(seqs) = f[Len(seqs)]
    BY <1>4, Flattening
  <2> HIDE DEF n
  <2> DEFINE Q == {k \in 0..n : k >= 1 => g[k] = f[k]}
  <2>3. 0 \in Q
    BY <1>1
  <2>4. ASSUME NEW k \in 1..n, k - 1 \in Q PROVE k \in Q
    <3>1. CASE k = 1
      <4>1. g[1] = f[1]
        BY <1>1, <1>2, <2>1, <2>2
      <4> QED
        BY <1>1, <3>1, <4>1
    <3>2. CASE k # 1
      <4>1. k \in 2..n /\ k \in 2..n+1 /\ k - 1 >= 1
        BY <1>1, <3>2
      <4>2. g[k - 1] = f[k - 1]
        BY <2>4, <4>1
      <4>3. g[k] = f[k]
        BY <1>1, <1>2, <2>2, <4>1, <4>2 DEF n
      <4> QED
        BY <1>1, <4>3
    <3> QED
      BY <3>1, <3>2
  <2> HIDE DEF Q
  <2>5. \A k \in 0..n : k \in Q
    BY <1>1, <2>3, <2>4, UpTo
  <2>6. n \in Q
    BY <1>1, <2>5
  <2>7. g[n] = f[n]
    BY <2>1, <2>6 DEF Q
  <2>8. g[n + 1] = g[n] \o s
    <3>1. n + 1 \in 2..Len(more) /\ (n + 1) - 1 = n
      BY <1>1, <2>1
    <3> QED
      BY <1>1, <1>2, <3>1
  <2> QED
    BY <1>1, <1>2, <2>2, <2>7, <2>8 DEF n, more
<1> QED
  BY <1>3, <1>4

LEMMA JoinedType ==
  ASSUME NEW parts \in Seq(Seq(Tokens))
  PROVE  Joined(parts) \in Seq(Tokens)
  BY CommasType, FlattenType DEF Joined

LEMMA JoinedOne ==
  ASSUME NEW p \in Seq(Tokens)
  PROVE  Joined(<<p>>) = p
<1> DEFINE parts == <<p>>
<1>1. parts \in Seq(Seq(Tokens)) /\ Len(parts) = 1 /\ parts[1] = p
  OBVIOUS
<1> HIDE DEF parts
<1>2. /\ Commas(parts) \in Seq(Seq(Tokens)) /\ Len(Commas(parts)) = 1
      /\ Commas(parts)[1] = p
  <2>1. /\ Commas(parts) \in Seq(Seq(Tokens)) /\ Len(Commas(parts)) = Len(parts)
        /\ \A i \in 1..Len(parts) :
             Commas(parts)[i] = IF i > 1 THEN <<Mark(",")>> \o parts[i] ELSE parts[i]
    BY <1>1, CommasType
  <2>2. 1 \in 1..Len(parts) /\ ~(1 > 1)
    BY <1>1
  <2> QED
    BY <1>1, <2>1, <2>2
<1>3. Commas(parts) # <<>>
  BY <1>2
<1>4. FlattenSeq(Commas(parts)) = p
  BY <1>2, <1>3, Flattening
<1> QED
  BY <1>4 DEF Joined, parts

LEMMA JoinedMore ==
  ASSUME NEW parts \in Seq(Seq(Tokens)), parts # <<>>, NEW p \in Seq(Tokens)
  PROVE  Joined(Append(parts, p)) = Joined(parts) \o (<<Mark(",")>> \o p)
<1> DEFINE n == Len(parts)
           more == Append(parts, p)
           last == <<Mark(",")>> \o p
<1>1. /\ n \in Nat /\ more \in Seq(Seq(Tokens)) /\ Len(more) = n + 1
      /\ more[n + 1] = p /\ \A i \in 1..n : more[i] = parts[i]
  OBVIOUS
<1>2. n >= 1
  BY EmptySeq
<1>3. last \in Seq(Tokens)
  BY CommaIsToken, ConcatProperties
<1> HIDE DEF more, last
<1>4. /\ Commas(parts) \in Seq(Seq(Tokens)) /\ Len(Commas(parts)) = n
      /\ \A i \in 1..n :
           Commas(parts)[i] = IF i > 1 THEN <<Mark(",")>> \o parts[i] ELSE parts[i]
  BY CommasType
<1>5. /\ Commas(more) \in Seq(Seq(Tokens)) /\ Len(Commas(more)) = n + 1
      /\ \A i \in 1..n+1 :
           Commas(more)[i] = IF i > 1 THEN <<Mark(",")>> \o more[i] ELSE more[i]
  BY <1>1, CommasType
<1> DEFINE c == Commas(parts)
           d == Commas(more)
<1> HIDE DEF c, d, n
<1>6. /\ Append(c, last) \in Seq(Seq(Tokens)) /\ Len(Append(c, last)) = n + 1
      /\ Append(c, last)[n + 1] = last
      /\ \A i \in 1..n : Append(c, last)[i] = c[i]
  <2>1. c \in Seq(Seq(Tokens)) /\ Len(c) = n
    BY <1>4 DEF c
  <2> QED
    BY <1>1, <1>3, <2>1
<1>7. ASSUME NEW i \in 1..n+1 PROVE d[i] = Append(c, last)[i]
  <2>1. CASE i = n + 1
    <3>1. n + 1 \in 1..n+1 /\ n + 1 > 1
      BY <1>1, <1>2
    <3>2. d[n + 1] = <<Mark(",")>> \o p
      BY <1>1, <1>5, <3>1 DEF d
    <3> QED
      BY <1>6, <2>1, <3>2 DEF last
  <2>2. CASE i # n + 1
    <3>1. i \in 1..n
      BY <1>1, <2>2
    <3>2. d[i] = c[i]
      BY <1>1, <1>4, <1>5, <3>1 DEF c, d
    <3> QED
      BY <1>6, <3>1, <3>2
  <2> QED
    BY <2>1, <2>2
<1>8. d = Append(c, last)
  <2>1. d \in Seq(Seq(Tokens)) /\ Len(d) = n + 1
    BY <1>5 DEF d
  <2> QED
    BY <1>6, <1>7, <2>1, SeqEqual
<1>9. FlattenSeq(Append(c, last)) = FlattenSeq(c) \o last
  <2>1. c \in Seq(Seq(Tokens))
    BY <1>4 DEF c
  <2> QED
    BY <1>3, <2>1, FlattenMore
<1> QED
  BY <1>8, <1>9 DEF Joined, c, d, more, last

-----------------------------------------------------------------------------
(* Values *)

\* The values that a field of a log event may have
LogValues == {Str(text) : text \in Seq(Chars)} \cup {Arr(texts) : texts \in Seq(Seq(Chars))}
             \cup {Int64(n) : n \in DOMAIN Numerals} \cup {Bool(b) : b \in BOOLEAN}

\* An array or an object is its parts between two marks.
LEMMA BetweenIs ==
  ASSUME NEW left, NEW parts, NEW right
  PROVE  Between(left, parts, right) = <<Mark(left)>> \o Joined(parts) \o <<Mark(right)>>
  BY DEF Between, Joined, Commas

\* The tokens of a list of strings
TextTokens(texts) == [i \in DOMAIN texts |-> <<String(texts[i])>>]

LEMMA TextTokensType ==
  ASSUME NEW texts \in Seq(Seq(Chars))
  PROVE  /\ TextTokens(texts) \in Seq(Seq(Tokens))
         /\ Len(TextTokens(texts)) = Len(texts) /\ Len(texts) \in Nat
         /\ DOMAIN texts = 1..Len(texts)
         /\ \A i \in 1..Len(texts) :
              /\ texts[i] \in Seq(Chars)
              /\ TextTokens(texts)[i] = <<String(texts[i])>>
<1>1. DOMAIN texts = 1..Len(texts) /\ Len(texts) \in Nat
  OBVIOUS
<1>2. ASSUME NEW i \in 1..Len(texts)
      PROVE  texts[i] \in Seq(Chars) /\ <<String(texts[i])>> \in Seq(Tokens)
  <2>1. texts[i] \in Seq(Chars)
    OBVIOUS
  <2>2. String(texts[i]) \in Tokens
    BY <2>1 DEF String, Tokens
  <2> QED
    BY <2>1, <2>2, OneItem
<1>3. TextTokens(texts) \in [1..Len(texts) -> Seq(Tokens)]
  BY <1>1, <1>2 DEF TextTokens
<1>4. TextTokens(texts) \in Seq(Seq(Tokens)) /\ Len(TextTokens(texts)) = Len(texts)
  BY <1>1, <1>3
<1> QED
  BY <1>1, <1>2, <1>4 DEF TextTokens

LEMMA StringListReads ==
  ASSUME NEW texts \in Seq(Seq(Chars))
  PROVE  Reads(<<"[">> \o Listed([i \in DOMAIN texts |-> JsonString(texts[i])]) \o <<"]">>,
               StringTokens(texts))
<1> DEFINE items == [i \in DOMAIN texts |-> JsonString(texts[i])]
           parts == TextTokens(texts)
<1>1. /\ parts \in Seq(Seq(Tokens)) /\ Len(parts) = Len(texts) /\ Len(texts) \in Nat
      /\ DOMAIN texts = 1..Len(texts)
      /\ \A i \in 1..Len(texts) :
           texts[i] \in Seq(Chars) /\ parts[i] = <<String(texts[i])>>
  BY TextTokensType
<1>2. \A i \in 1..Len(texts) : Reads(JsonString(texts[i]), parts[i])
  BY <1>1, StringReads
<1>3. \A i \in 1..Len(texts) : items[i] = JsonString(texts[i])
  BY <1>1
<1>4. \A i \in 1..Len(texts) : items[i] \in Seq(Symbols)
  BY <1>2, <1>3 DEF Reads
<1>5. items \in Seq(Seq(Symbols)) /\ Len(items) = Len(texts)
  <2>1. items = [i \in 1..Len(texts) |-> items[i]]
    BY <1>1
  <2> HIDE DEF items
  <2> QED
    BY <1>1, <1>4, <2>1
<1>6. StringTokens(texts) = <<Mark("[")>> \o Joined(parts) \o <<Mark("]")>>
  BY BetweenIs DEF StringTokens, TextTokens
<1> HIDE DEF items, parts
<1>7. Reads(Listed(items), Joined(parts))
  BY <1>1, <1>2, <1>3, <1>5, ListedReads
<1>8. Reads(<<"[">>, <<Mark("[")>>) /\ Reads(<<"]">>, <<Mark("]")>>)
  BY PunctuationReads
<1>9. Reads(<<"[">> \o Listed(items), <<Mark("[")>> \o Joined(parts))
  BY <1>7, <1>8, ReadsOn
<1>10. Reads(<<"[">> \o Listed(items) \o <<"]">>,
             <<Mark("[")>> \o Joined(parts) \o <<Mark("]")>>)
  BY <1>8, <1>9, ReadsOn
<1> QED
  BY <1>6, <1>10 DEF items

LEMMA NumeralReads ==
  ASSUME NEW n \in DOMAIN Numerals
  PROVE  Reads(<<Numerals[n]>>, <<Mark(Numerals[n])>>)
<1>1. Numerals[n] \in Chars \ Special
  BY NumeralsAssumption DEF NumeralsAssumption, Chars, Special
<1> QED
  BY <1>1, ReadsMark

\* append_field_value writes what is read as the value it was.
LEMMA ValueReads ==
  ASSUME NEW v \in LogValues
  PROVE  Reads(FieldValue(v), ValueTokens(v))
<1>1. ASSUME NEW text \in Seq(Chars), v = Str(text)
      PROVE  Reads(FieldValue(v), ValueTokens(v))
  <2>1. Kind(v) = "string" /\ Val(v) = text
    BY <1>1 DEF Kind, Val, Str
  <2>2. FieldValue(v) = JsonString(text) /\ ValueTokens(v) = <<String(text)>>
    BY <2>1 DEF FieldValue, ValueTokens
  <2> QED
    BY <2>2, StringReads
<1>2. ASSUME NEW texts \in Seq(Seq(Chars)), v = Arr(texts)
      PROVE  Reads(FieldValue(v), ValueTokens(v))
  <2>1. Kind(v) = "array" /\ Val(v) = texts
    BY <1>2 DEF Kind, Val, Arr
  <2>2. /\ FieldValue(v) = <<"[">> \o Listed([i \in DOMAIN texts |-> JsonString(texts[i])])
                           \o <<"]">>
        /\ ValueTokens(v) = StringTokens(texts)
    BY <2>1 DEF FieldValue, ValueTokens
  <2> QED
    BY <2>2, StringListReads
<1>3. ASSUME NEW n \in DOMAIN Numerals, v = Int64(n)
      PROVE  Reads(FieldValue(v), ValueTokens(v))
  <2>1. Kind(v) = "int" /\ Val(v) = n
    BY <1>3 DEF Kind, Val, Int64
  <2>2. FieldValue(v) = <<Numerals[n]>> /\ ValueTokens(v) = <<Mark(Numerals[n])>>
    BY <2>1 DEF FieldValue, ValueTokens
  <2> QED
    BY <2>2, NumeralReads
<1>4. ASSUME NEW b \in BOOLEAN, v = Bool(b)
      PROVE  Reads(FieldValue(v), ValueTokens(v))
  <2>1. Kind(v) = "bool" /\ Val(v) = b
    BY <1>4 DEF Kind, Val, Bool
  <2> DEFINE word == IF b THEN "true" ELSE "false"
  <2>2. FieldValue(v) = <<word>> /\ ValueTokens(v) = <<Mark(word)>>
    BY <2>1 DEF FieldValue, ValueTokens
  <2>3. Reads(<<word>>, <<Mark(word)>>)
    BY PunctuationReads
  <2> QED
    BY <2>2, <2>3
<1> QED
  BY <1>1, <1>2, <1>3, <1>4 DEF LogValues

-----------------------------------------------------------------------------
(* Members *)

\* Sequences in a row may be put together in either order.
LEMMA TokensJoin == \A s, t \in Seq(Tokens) : s \o t \in Seq(Tokens)
  BY ConcatProperties

LEMMA TokensRegroup ==
  ASSUME NEW s \in Seq(Tokens), NEW t \in Seq(Tokens), NEW u \in Seq(Tokens)
  PROVE  (s \o t) \o u = s \o (t \o u)
  BY ConcatAssociative

LEMMA SymbolsJoin == \A s, t \in Seq(Symbols) : s \o t \in Seq(Symbols)
  BY ConcatProperties

LEMMA SymbolsRegroup == \A s, t, u \in Seq(Symbols) : (s \o t) \o u = s \o (t \o u)
  BY ConcatAssociative

LEMMA MemberType ==
  ASSUME NEW key \in Chars, NEW tokens \in Seq(Tokens)
  PROVE  /\ Member(key, tokens) \in Seq(Tokens)
         /\ <<String(<<key>>), Mark(":")>> \in Seq(Tokens)
<1>1. ":" \in Chars
  BY DEF Chars, Words
<1>2. String(<<key>>) \in Tokens /\ Mark(":") \in Tokens
  BY <1>1, OneItem DEF String, Mark, Tokens
<1>3. <<String(<<key>>), Mark(":")>> \in Seq(Tokens)
  BY <1>2
<1> QED
  BY <1>3, ConcatProperties DEF Member

Opened(left, parts) == <<Mark(left)>> \o Joined(parts)

\* The first member of an object, and one more after others
LEMMA FirstMember ==
  ASSUME NEW key \in Chars \ Special, NEW v, NEW tokens, Reads(v, tokens)
  PROVE  Reads(<<"{">> \o Literal(key) \o v, Opened("{", <<Member(key, tokens)>>))
<1> DEFINE head == <<String(<<key>>), Mark(":")>>
           open == <<Mark("{")>>
<1>1. Reads(<<"{">>, open) /\ Reads(Literal(key), head)
  BY PunctuationReads, LiteralReads
<1>2. tokens \in Seq(Tokens) /\ open \in Seq(Tokens) /\ head \in Seq(Tokens)
  BY <1>1 DEF Reads
<1>3. Member(key, tokens) = head \o tokens /\ Member(key, tokens) \in Seq(Tokens)
  BY <1>2, MemberType DEF Member
<1> HIDE DEF head, open
<1>4. Reads(<<"{">> \o Literal(key) \o v, (open \o head) \o tokens)
  BY <1>1, ReadsOn
<1>5. (open \o head) \o tokens = open \o (head \o tokens)
  BY <1>2, TokensRegroup
<1>6. Opened("{", <<Member(key, tokens)>>) = open \o Member(key, tokens)
  BY <1>3, JoinedOne DEF Opened, open
<1> QED
  BY <1>3, <1>4, <1>5, <1>6

LEMMA AppendIsOne ==
  ASSUME NEW S, NEW seq \in Seq(S), NEW elt \in S
  PROVE  Append(seq, elt) \in Seq(S) /\ Append(seq, elt) # <<>>
<1>1. Append(seq, elt) \in Seq(S) /\ Len(Append(seq, elt)) = Len(seq) + 1
  OBVIOUS
<1>2. Len(Append(seq, elt)) # 0
  BY <1>1
<1> QED
  BY <1>1, <1>2, EmptySeq

LEMMA NextMember ==
  ASSUME NEW text, NEW parts \in Seq(Seq(Tokens)), parts # <<>>,
         Reads(text, Opened("{", parts)),
         NEW key \in Chars \ Special, NEW v, NEW tokens, Reads(v, tokens)
  PROVE  /\ Append(parts, Member(key, tokens)) \in Seq(Seq(Tokens))
         /\ Append(parts, Member(key, tokens)) # <<>>
         /\ Reads(text \o <<",">> \o Literal(key) \o v,
                  Opened("{", Append(parts, Member(key, tokens))))
<1> DEFINE head == <<String(<<key>>), Mark(":")>>
           comma == <<Mark(",")>>
           open == <<Mark("{")>>
           member == Member(key, tokens)
           all == Joined(parts)
           so == Opened("{", parts)
           more == so \o comma
<1>1. Reads(<<",">>, comma) /\ Reads(<<"{">>, open) /\ Reads(Literal(key), head)
  BY PunctuationReads, LiteralReads
<1>2. /\ tokens \in Seq(Tokens) /\ open \in Seq(Tokens) /\ head \in Seq(Tokens)
      /\ comma \in Seq(Tokens)
  BY <1>1 DEF Reads
<1>3. member = head \o tokens /\ member \in Seq(Tokens)
  BY <1>2, MemberType DEF Member
<1>4. all \in Seq(Tokens) /\ so = open \o all /\ so \in Seq(Tokens)
  BY JoinedType DEF Opened, Reads
<1> HIDE DEF head, comma, open, member, all, so
<1>5. more \in Seq(Tokens)
  BY <1>2, <1>4, TokensJoin
<1> HIDE DEF more
<1>6. Append(parts, member) \in Seq(Seq(Tokens)) /\ Append(parts, member) # <<>>
  BY <1>3, AppendIsOne
<1>7. Opened("{", Append(parts, member)) = open \o (all \o (comma \o member))
  BY <1>3, JoinedMore DEF Opened, all, comma, open
<1>8. Reads(text \o <<",">> \o Literal(key) \o v, (more \o head) \o tokens)
  <2>1. Reads(text, so)
    BY DEF so
  <2>2. Reads(text \o <<",">>, more)
    BY <1>1, <2>1, ReadsOn DEF more
  <2>3. Reads(text \o <<",">> \o Literal(key), more \o head)
    BY <1>1, <2>2, ReadsOn
  <2> QED
    BY <2>3, ReadsOn
<1>9. (more \o head) \o tokens = more \o member
  BY <1>2, <1>3, <1>5, TokensRegroup
<1> DEFINE last == comma \o member
<1>10. last \in Seq(Tokens)
  BY <1>2, <1>3, TokensJoin
<1>11. (so \o comma) \o member = so \o last
  <2>1. so \in Seq(Tokens) /\ comma \in Seq(Tokens) /\ member \in Seq(Tokens)
    BY <1>2, <1>3, <1>4
  <2> QED
    BY <2>1, TokensRegroup
<1> HIDE DEF last
<1>12. (open \o all) \o last = open \o (all \o last)
  <2>1. open \in Seq(Tokens) /\ all \in Seq(Tokens) /\ last \in Seq(Tokens)
    BY <1>2, <1>4, <1>10
  <2> QED
    BY <2>1, TokensRegroup
<1>13. (more \o head) \o tokens = Opened("{", Append(parts, member))
  BY <1>4, <1>7, <1>9, <1>11, <1>12 DEF more, last
<1> QED
  BY <1>6, <1>8, <1>13 DEF member

\* The same, with the new member in brackets
LEMMA MemberInBrackets ==
  ASSUME NEW text \in Seq(Symbols), NEW key \in Chars \ Special, NEW v \in Seq(Symbols)
  PROVE  text \o (<<",">> \o Literal(key) \o v) = text \o <<",">> \o Literal(key) \o v
<1> DEFINE comma == <<",">>
           head == Literal(key)
<1>1. comma \in Seq(Symbols) /\ head \in Seq(Symbols)
  BY PunctuationReads, LiteralReads DEF Reads
<1> HIDE DEF comma, head
<1> DEFINE both == comma \o head
<1>2. both \in Seq(Symbols)
  BY <1>1, SymbolsJoin
<1>3. (text \o comma) \o head = text \o both
  BY <1>1, SymbolsRegroup
<1> HIDE DEF both
<1>4. (text \o both) \o v = text \o (both \o v)
  BY <1>2, SymbolsRegroup
<1>5. text \o (both \o v) = ((text \o comma) \o head) \o v
  BY <1>3, <1>4
<1> QED
  BY <1>5 DEF both, comma, head

\* The object is closed.
LEMMA LastMember ==
  ASSUME NEW text, NEW parts \in Seq(Seq(Tokens)), Reads(text, Opened("{", parts))
  PROVE  Reads(text \o <<"}">>, Between("{", parts, "}"))
<1>1. Reads(<<"}">>, <<Mark("}")>>)
  BY PunctuationReads
<1>2. Reads(text \o <<"}">>, Opened("{", parts) \o <<Mark("}")>>)
  BY <1>1, ReadsOn
<1> QED
  BY <1>2, BetweenIs DEF Opened

-----------------------------------------------------------------------------
(* The line of an event *)

\* What may be logged: any fields, names and messages
LogFieldsOf == [key : Chars, value : LogValues]

LogEvents ==
  [level : Chars, component : Chars, message : Chars, fields : Seq(LogFieldsOf),
   include_raw : BOOLEAN, raw : Seq(Chars)]

\* A member that is left out if c
LEMMA OptionalMember ==
  ASSUME NEW text, NEW parts \in Seq(Seq(Tokens)), parts # <<>>,
         Reads(text, Opened("{", parts)),
         NEW key \in Chars \ Special, NEW v, NEW tokens, Reads(v, tokens), NEW c \in BOOLEAN
  PROVE  LET more == parts \o (IF c THEN <<>> ELSE <<Member(key, tokens)>>) IN
         /\ more \in Seq(Seq(Tokens)) /\ more # <<>>
         /\ Reads(text \o (IF c THEN <<>> ELSE <<",">> \o Literal(key) \o v),
                  Opened("{", more))
<1>1. text \in Seq(Symbols) /\ v \in Seq(Symbols) /\ tokens \in Seq(Tokens)
  BY DEF Reads
<1>2. CASE c
  <2>1. text \o <<>> = text /\ parts \o <<>> = parts
    BY <1>1, ConcatEmptySeq
  <2> QED
    BY <1>2, <2>1
<1>3. CASE ~c
  <2> DEFINE member == Member(key, tokens)
             all == Append(parts, member)
             whole == text \o <<",">> \o Literal(key) \o v
             added == <<",">> \o Literal(key) \o v
  <2>1. /\ all \in Seq(Seq(Tokens)) /\ all # <<>>
        /\ Reads(whole, Opened("{", all))
    BY NextMember
  <2>2. text \o added = whole
    BY <1>1, MemberInBrackets
  <2>3. member \in Seq(Tokens)
    BY <1>1, MemberType
  <2> HIDE DEF member
  <2>4. all = parts \o <<member>>
    BY <2>3, AddOne
  <2> HIDE DEF all, whole, added
  <2>5. /\ parts \o <<member>> \in Seq(Seq(Tokens)) /\ parts \o <<member>> # <<>>
        /\ Reads(text \o added, Opened("{", parts \o <<member>>))
    BY <2>1, <2>2, <2>4
  <2> QED
    BY <1>3, <2>5 DEF member, added
<1> QED
  BY <1>2, <1>3

\* The fields of an event
FieldText(field) == JsonString(<<field.key>>) \o <<":">> \o FieldValue(field.value)
FieldTokens(field) == Member(field.key, ValueTokens(field.value))

LEMMA FieldReads ==
  ASSUME NEW field \in LogFieldsOf
  PROVE  Reads(FieldText(field), FieldTokens(field))
<1> DEFINE key == field.key
           name == <<String(<<key>>)>>
           colon == <<Mark(":")>>
           value == ValueTokens(field.value)
<1>1. key \in Chars /\ field.value \in LogValues
  BY DEF LogFieldsOf
<1>2. Reads(JsonString(<<key>>), name)
  BY <1>1, WordReads
<1>3. Reads(<<":">>, colon) /\ Reads(FieldValue(field.value), value)
  BY <1>1, PunctuationReads, ValueReads
<1>4. name \o colon = <<String(<<key>>), Mark(":")>>
  <2>1. ":" \in Chars
    BY DEF Chars, Words
  <2>2. String(<<key>>) \in Tokens /\ Mark(":") \in Tokens
    BY <1>1, <2>1, OneItem DEF String, Mark, Tokens
  <2> QED
    BY <2>2, TwoItems
<1> HIDE DEF name, colon, value, key
<1>5. Reads(JsonString(<<key>>) \o <<":">>, name \o colon)
  BY <1>2, <1>3, ReadsOn
<1>6. Reads(JsonString(<<key>>) \o <<":">> \o FieldValue(field.value), (name \o colon) \o value)
  BY <1>3, <1>5, ReadsOn
<1> QED
  BY <1>4, <1>6 DEF FieldText, FieldTokens, Member, key, value

LEMMA FieldsRead ==
  ASSUME NEW fields \in Seq(LogFieldsOf)
  PROVE  LET parts == [i \in DOMAIN fields |-> FieldTokens(fields[i])] IN
         /\ Reads(<<"{">> \o Listed([i \in DOMAIN fields |-> FieldText(fields[i])]) \o <<"}">>,
                  Between("{", parts, "}"))
         /\ parts = <<>> <=> fields = <<>>
<1> DEFINE n == Len(fields)
           items == [i \in DOMAIN fields |-> FieldText(fields[i])]
           parts == [i \in DOMAIN fields |-> FieldTokens(fields[i])]
<1>1. n \in Nat /\ DOMAIN fields = 1..n /\ \A i \in 1..n : fields[i] \in LogFieldsOf
  OBVIOUS
<1>2. \A i \in 1..n : items[i] = FieldText(fields[i]) /\ parts[i] = FieldTokens(fields[i])
  BY <1>1
<1>3. ASSUME NEW i \in 1..n PROVE Reads(items[i], parts[i])
  BY <1>1, <1>2, FieldReads
<1>4. items = [i \in 1..n |-> items[i]] /\ parts = [i \in 1..n |-> parts[i]]
  BY <1>1
<1>5. \A i \in 1..n : items[i] \in Seq(Symbols) /\ parts[i] \in Seq(Tokens)
  BY <1>3 DEF Reads
<1> HIDE DEF items, parts
<1>6. items \in Seq(Seq(Symbols)) /\ Len(items) = n
  BY <1>1, <1>4, <1>5
<1>7. parts \in Seq(Seq(Tokens)) /\ Len(parts) = n
  BY <1>1, <1>4, <1>5
<1>8. Reads(Listed(items), Joined(parts))
  BY <1>3, <1>6, <1>7, ListedReads
<1>9. Reads(<<"{">>, <<Mark("{")>>)
  BY PunctuationReads
<1>10. Reads(<<"{">> \o Listed(items), Opened("{", parts))
  BY <1>8, <1>9, ReadsOn DEF Opened
<1>11. Reads(<<"{">> \o Listed(items) \o <<"}">>, Between("{", parts, "}"))
  BY <1>7, <1>10, LastMember
<1>12. parts = <<>> <=> fields = <<>>
  BY <1>7, EmptySeq
<1> QED
  BY <1>11, <1>12 DEF items, parts

\* The members that every line has
HeadText(event) ==
  <<"{">> \o Literal("ts_ms") \o <<"1">>
  \o <<",">> \o Literal("level") \o JsonString(<<event.level>>)
  \o <<",">> \o Literal("component") \o JsonString(<<event.component>>)
  \o <<",">> \o Literal("msg") \o JsonString(<<event.message>>)

HeadParts(event) ==
  <<Member("ts_ms", <<Mark("1")>>), Member("level", <<String(<<event.level>>)>>),
    Member("component", <<String(<<event.component>>)>>),
    Member("msg", <<String(<<event.message>>)>>)>>

LEMMA KeysAre ==
  {"ts_ms", "level", "component", "msg", "fields", "raw", "id", "cmd", "params",
   "channels", "market_tickers", "subscribe"} \subseteq Chars \ Special
  BY ControlsAre DEF Special, Chars, Words, Quote, Backslash

LEMMA HeadReads ==
  ASSUME NEW event \in LogEvents
  PROVE  /\ HeadParts(event) \in Seq(Seq(Tokens)) /\ HeadParts(event) # <<>>
         /\ Reads(HeadText(event), Opened("{", HeadParts(event)))
<1> DEFINE a == Member("ts_ms", <<Mark("1")>>)
           b == Member("level", <<String(<<event.level>>)>>)
           c == Member("component", <<String(<<event.component>>)>>)
           d == Member("msg", <<String(<<event.message>>)>>)
           first == <<"{">> \o Literal("ts_ms") \o <<"1">>
           second == first \o <<",">> \o Literal("level") \o JsonString(<<event.level>>)
           third == second \o <<",">> \o Literal("component") \o JsonString(<<event.component>>)
<1>1. event.level \in Chars /\ event.component \in Chars /\ event.message \in Chars
  BY DEF LogEvents
<1>2. Reads(<<"1">>, <<Mark("1")>>)
  BY PunctuationReads
<1>3. /\ Reads(JsonString(<<event.level>>), <<String(<<event.level>>)>>)
      /\ Reads(JsonString(<<event.component>>), <<String(<<event.component>>)>>)
      /\ Reads(JsonString(<<event.message>>), <<String(<<event.message>>)>>)
  BY <1>1, WordReads
<1>4. a \in Seq(Tokens) /\ b \in Seq(Tokens) /\ c \in Seq(Tokens) /\ d \in Seq(Tokens)
  BY <1>2, <1>3, KeysAre, MemberType DEF Reads
<1>5. Reads(first, Opened("{", <<a>>))
  BY <1>2, KeysAre, FirstMember
<1>6. <<a>> \in Seq(Seq(Tokens)) /\ <<a>> # <<>>
  BY <1>4
<1>7. "level" \in Chars \ Special /\ "component" \in Chars \ Special /\ "msg" \in Chars \ Special
  BY KeysAre
<1> HIDE DEF first
<1> DEFINE ab == Append(<<a>>, b)
           abc == Append(ab, c)
           abcd == Append(abc, d)
<1>8. ab \in Seq(Seq(Tokens)) /\ ab # <<>> /\ Reads(second, Opened("{", ab))
  BY <1>3, <1>5, <1>6, <1>7, NextMember
<1> HIDE DEF ab, second
<1>9. abc \in Seq(Seq(Tokens)) /\ abc # <<>> /\ Reads(third, Opened("{", abc))
  BY <1>3, <1>7, <1>8, NextMember
<1> HIDE DEF abc, third
<1>10. /\ abcd \in Seq(Seq(Tokens)) /\ abcd # <<>>
       /\ Reads(third \o <<",">> \o Literal("msg") \o JsonString(<<event.message>>),
                Opened("{", abcd))
  BY <1>3, <1>7, <1>9, NextMember
<1> HIDE DEF a, b, c, d
<1>11. abcd = <<a, b, c, d>>
  <2>1. ab = <<a, b>>
    BY <1>4, <1>6, AddOne, TwoItems DEF ab
  <2>2. abc = <<a, b, c>>
    BY <1>4, <1>8, <2>1, AddOne, ThreeItems DEF abc
  <2>3. abcd = abc \o <<d>>
    BY <1>4, <1>9, AddOne DEF abcd
  <2>4. <<a, b, c>> \o <<d>> = <<a, b, c, d>>
    BY <1>4, FourItems
  <2> QED
    BY <2>2, <2>3, <2>4
<1> HIDE DEF abcd
<1>12. HeadParts(event) = <<a, b, c, d>>
  BY DEF HeadParts, a, b, c, d
<1>13. HeadText(event) = third \o <<",">> \o Literal("msg") \o JsonString(<<event.message>>)
  BY DEF HeadText, first, second, third
<1> QED
  BY <1>10, <1>11, <1>12, <1>13

\* The whole line, but its end
EventText(event) ==
  HeadText(event)
  \o (IF event.fields = <<>> THEN <<>>
      ELSE <<",">> \o Literal("fields")
           \o (<<"{">> \o Listed([i \in DOMAIN event.fields |-> FieldText(event.fields[i])])
               \o <<"}">>))
  \o (IF event.include_raw
      THEN <<",">> \o Literal("raw") \o JsonString(event.raw) ELSE <<>>)
  \o <<"}">>

LEMMA EventReads ==
  ASSUME NEW event \in LogEvents
  PROVE  Reads(EventText(event), EventTokens(event))
<1> DEFINE fields == [i \in DOMAIN event.fields |-> FieldTokens(event.fields[i])]
           fieldsText == <<"{">> \o Listed([i \in DOMAIN event.fields |->
                                             FieldText(event.fields[i])]) \o <<"}">>
           fieldsTokens == Between("{", fields, "}")
           none == event.fields = <<>>
           plain == ~event.include_raw
           text == HeadText(event)
           parts == HeadParts(event)
           text1 == text \o (IF none THEN <<>>
                             ELSE <<",">> \o Literal("fields") \o fieldsText)
           parts1 == parts \o (IF none THEN <<>> ELSE <<Member("fields", fieldsTokens)>>)
           text2 == text1 \o (IF plain THEN <<>>
                              ELSE <<",">> \o Literal("raw") \o JsonString(event.raw))
           parts2 == parts1 \o (IF plain THEN <<>> ELSE <<Member("raw", <<String(event.raw)>>)>>)
<1>1. /\ event.fields \in Seq(LogFieldsOf) /\ event.include_raw \in BOOLEAN
      /\ event.raw \in Seq(Chars)
  BY DEF LogEvents
<1>2. Reads(fieldsText, fieldsTokens) /\ (fields = <<>> <=> none)
  BY <1>1, FieldsRead
<1>3. Reads(JsonString(event.raw), <<String(event.raw)>>)
  BY <1>1, StringReads
<1>4. parts \in Seq(Seq(Tokens)) /\ parts # <<>> /\ Reads(text, Opened("{", parts))
  BY HeadReads
<1>5. EventText(event) = text2 \o <<"}">>
  <2>1. (IF event.include_raw
         THEN <<",">> \o Literal("raw") \o JsonString(event.raw) ELSE <<>>)
        = (IF plain THEN <<>> ELSE <<",">> \o Literal("raw") \o JsonString(event.raw))
    BY <1>1
  <2> QED
    BY <2>1 DEF EventText
<1>6. EventTokens(event) = Between("{", parts2, "}")
  <2>1. (IF event.include_raw THEN <<Member("raw", <<String(event.raw)>>)>> ELSE <<>>)
        = (IF plain THEN <<>> ELSE <<Member("raw", <<String(event.raw)>>)>>)
    BY <1>1
  <2>2. (IF fields = <<>> THEN <<>> ELSE <<Member("fields", fieldsTokens)>>)
        = (IF none THEN <<>> ELSE <<Member("fields", fieldsTokens)>>)
    BY <1>2
  <2>3. EventTokens(event) =
          Between("{",
            HeadParts(event)
            \o (IF fields = <<>> THEN <<>> ELSE <<Member("fields", fieldsTokens)>>)
            \o (IF event.include_raw THEN <<Member("raw", <<String(event.raw)>>)>> ELSE <<>>),
            "}")
    BY DEF EventTokens, HeadParts, FieldTokens
  <2> QED
    BY <2>1, <2>2, <2>3
<1>7. "fields" \in Chars \ Special /\ "raw" \in Chars \ Special
  BY KeysAre
<1>8. none \in BOOLEAN /\ plain \in BOOLEAN
  BY <1>1
<1> HIDE DEF fields, fieldsText, fieldsTokens, none, plain, text, parts
<1>9. /\ parts1 \in Seq(Seq(Tokens)) /\ parts1 # <<>>
      /\ Reads(text1, Opened("{", parts1))
  BY <1>2, <1>4, <1>7, <1>8, OptionalMember
<1> HIDE DEF text1, parts1
<1>10. parts2 \in Seq(Seq(Tokens)) /\ Reads(text2, Opened("{", parts2))
  BY <1>3, <1>7, <1>8, <1>9, OptionalMember
<1> HIDE DEF text2, parts2
<1>11. Reads(text2 \o <<"}">>, Between("{", parts2, "}"))
  BY <1>10, LastMember
<1> QED
  BY <1>5, <1>6, <1>11

LEMMA EventTypes ==
  ASSUME NEW level \in Chars, NEW component \in Chars, NEW message \in Chars,
         NEW fields \in Seq(LogFieldsOf), NEW raw \in Seq(Chars)
  PROVE  /\ LogEvent(level, component, message, fields) \in LogEvents
         /\ LogEventRaw(level, component, message, fields, raw) \in LogEvents
<1>1. <<>> \in Seq(Chars)
  BY EmptySeq
<1> QED
  BY <1>1 DEF LogEvent, LogEventRaw, LogEvents

LEMMA FieldTypes ==
  ASSUME NEW key \in Chars
  PROVE  /\ \A text \in Seq(Chars) : LogField(key, Str(text)) \in LogFieldsOf
         /\ \A texts \in Seq(Seq(Chars)) : LogField(key, Arr(texts)) \in LogFieldsOf
         /\ \A n \in DOMAIN Numerals : LogField(key, Int64(n)) \in LogFieldsOf
  BY DEF LogField, LogFieldsOf, LogValues

-----------------------------------------------------------------------------
(* Lines and commands mean what was given *)

\* Reading starts between two tokens.
LEMMA UnreadIs ==
  Unread \in Readers("between") /\ \A tokens \in Seq(Tokens) : Unread.tokens \o tokens = tokens
<1>1. <<>> \in Seq(Chars) /\ <<>> \in Seq(Tokens)
  BY EmptySeq
<1>2. Unread \in Readers("between") /\ Unread.tokens = <<>>
  BY <1>1 DEF Unread, Reader, Readers
<1> QED
  BY <1>2, ConcatEmptySeq

LEMMA ReadIsMeant ==
  ASSUME NEW text, NEW tokens, Reads(text, tokens)
  PROVE  Means(text, tokens)
<1>1. text \in Seq(Chars) /\ tokens \in Seq(Tokens)
  BY SymbolsAreChars DEF Reads
<1>2. PICK q \in Readers("between") :
        Leads(Unread, text, q) /\ q.tokens = Unread.tokens \o tokens
  BY UnreadIs DEF Reads
<1>3. After(text) = q
  BY <1>1, <1>2, LeadsAfter
<1>4. q.mode = "between" /\ q.tokens = tokens
  BY <1>1, <1>2, UnreadIs DEF Readers
<1> QED
  BY <1>3, <1>4 DEF Means

\* Whatever the event is, its texts and its fields, write_event
\* (async_json_logger.cpp:238-285) makes one line of it, whose only line feed is
\* at its end, and the JSON on that line says what was logged: the level, the
\* component, the message, each field in its order and the raw text if any.
THEOREM AnyLineReadsBack ==
  ASSUME NEW event \in LogEvents
  PROVE  LET line == WriteEvent(event) IN
         /\ Means(line, EventTokens(event))
         /\ {i \in DOMAIN line : line[i] = "LF"} = {Len(line)}
<1> DEFINE text == EventText(event)
           end == <<"LF">>
           line == WriteEvent(event)
           tokens == EventTokens(event)
<1>1. line = text \o end
  BY DEF WriteEvent, EventText, HeadText, FieldText
<1>2. Reads(text, tokens)
  BY EventReads
<1>3. text \in Seq(Symbols) /\ text \in Seq(Chars) /\ tokens \in Seq(Tokens)
  BY <1>2, SymbolsAreChars DEF Reads
<1>4. end \in Seq(Chars) /\ Len(end) = 1 /\ end[1] = "LF"
  BY DEF Chars, Words
<1> HIDE DEF text, end, line, tokens
<1>5. Means(line, tokens)
  <2>1. PICK q \in Readers("between") :
          Leads(Unread, text, q) /\ q.tokens = Unread.tokens \o tokens
    BY <1>2, UnreadIs DEF Reads
  <2>2. ReadSymbol(q, "LF") = q
    <3>1. q.mode = "between"
      BY DEF Readers
    <3>2. "LF" # Quote /\ "LF" \in Controls
      BY ControlsAre DEF Quote
    <3> QED
      BY <3>1, <3>2 DEF ReadSymbol
  <2>3. Leads(q, end, q)
    BY <2>2, LeadsOne DEF end
  <2>4. Leads(Unread, text \o end, q)
    BY <1>3, <1>4, <2>1, <2>3, LeadsOn
  <2>5. line \in Seq(Chars)
    BY <1>1, <1>3, <1>4, ConcatProperties
  <2>6. After(line) = q
    BY <1>1, <2>4, <2>5, LeadsAfter
  <2>7. q.mode = "between" /\ q.tokens = tokens
    BY <1>3, <2>1, UnreadIs DEF Readers
  <2> QED
    BY <2>6, <2>7 DEF Means
<1>6. {i \in DOMAIN line : line[i] = "LF"} = {Len(line)}
  <2> DEFINE n == Len(text)
  <2>1. /\ n \in Nat /\ Len(line) = n + 1 /\ DOMAIN line = 1..n+1
        /\ \A i \in 1..n+1 : line[i] = IF i <= n THEN text[i] ELSE end[i - n]
    <3>1. /\ text \o end \in Seq(Chars) /\ Len(text \o end) = n + Len(end)
          /\ \A i \in 1..n + Len(end) :
               (text \o end)[i] = IF i <= n THEN text[i] ELSE end[i - n]
      BY <1>3, <1>4, ConcatProperties
    <3> QED
      BY <1>1, <1>3, <1>4, <3>1
  <2>2. \A i \in 1..n : text[i] # "LF"
    BY <1>3 DEF Symbols
  <2> HIDE DEF n
  <2>3. line[n + 1] = "LF"
    BY <1>4, <2>1
  <2>4. \A i \in 1..n : line[i] # "LF"
    BY <2>1, <2>2
  <2> QED
    BY <2>1, <2>3, <2>4
<1> QED
  BY <1>5, <1>6 DEF line, tokens
=============================================================================
