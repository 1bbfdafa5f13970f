--------------------------- MODULE EventParserProofs ---------------------------
(***************************************************************************)
(* Proofs about EventParser: what its checks let through, and that what    *)
(* they let through no cast changes.                                       *)
(***************************************************************************)
EXTENDS EventParser, WellFoundedInduction, TLAPS

-----------------------------------------------------------------------------
(* The first error *)

IsChecks(checks) == DOMAIN checks \in SUBSET Nat

LEMMA SomethingIsFirst ==
  ASSUME NEW S \in SUBSET Nat, S # {}
  PROVE  Min(S) \in S
<1> DEFINE Less == OpToRel(<, Nat)
<1>1. IsWellFoundedOn(Less, Nat)
  BY NatLessThanWellFounded
<1>2. \A x, y \in Nat : <<y, x>> \in Less <=> y < x
  BY DEF OpToRel
<1> HIDE DEF Less
<1>3. \E x \in S : \A y \in S : ~(<<y, x>> \in Less)
  BY <1>1, WFMin
<1>4. PICK x \in S : \A y \in S : ~(<<y, x>> \in Less)
  BY <1>3
<1>5. \A y \in S : ~(y < x)
  BY <1>2, <1>4
<1>6. \A y \in S : x <= y
  BY <1>5
<1> QED
  BY <1>6 DEF Min

\* The order of the checks decides which error it is, not whether there is one.
LEMMA NoErrorIsFirst ==
  ASSUME NEW checks, IsChecks(checks)
  PROVE  FirstError(checks) = None <=> \A i \in DOMAIN checks : checks[i] = None
<1> DEFINE failed == {i \in DOMAIN checks : checks[i] # None}
<1>1. CASE failed = {}
  BY <1>1 DEF FirstError
<1>2. CASE failed # {}
  <2>1. Min(failed) \in failed
    BY <1>2, SomethingIsFirst DEF IsChecks
  <2>2. FirstError(checks) = checks[Min(failed)]
    BY <1>2 DEF FirstError
  <2> QED
    BY <2>1, <2>2
<1> QED
  BY <1>1, <1>2

LEMMA FirstErrorIsOne ==
  ASSUME NEW checks, IsChecks(checks), NEW Errors,
         \A i \in DOMAIN checks : checks[i] \in Errors
  PROVE  FirstError(checks) \in Errors \cup {None}
<1> DEFINE failed == {i \in DOMAIN checks : checks[i] # None}
<1>1. CASE failed = {}
  BY <1>1 DEF FirstError
<1>2. CASE failed # {}
  <2>1. Min(failed) \in failed
    BY <1>2, SomethingIsFirst DEF IsChecks
  <2>2. FirstError(checks) = checks[Min(failed)]
    BY <1>2 DEF FirstError
  <2> QED
    BY <2>1, <2>2
<1> QED
  BY <1>1, <1>2

-----------------------------------------------------------------------------
(* Casts *)

LEMMA SmallModulo ==
  ASSUME NEW n \in Nat, NEW d \in Nat, n < d
  PROVE  n % d = n
  BY SMT

\* event_parser.cpp:91, 227, 274 and 275, within the range that has been checked
LEMMA PriceIsKept ==
  ASSUME NEW n \in 0..PriceMax
  PROVE  ToPrice(n) = n
  BY SmallModulo, ParserAssumption DEF ParserAssumption, ToPrice

LEMMA SizeIsKept ==
  ASSUME NEW n \in 0..(U32 - 1)
  PROVE  ToSize(n) = n
  BY SmallModulo, ParserAssumption DEF ParserAssumption, ToSize

LEMMA DeltaIsKept ==
  ASSUME NEW n \in -(U32 \div 2)..(U32 \div 2 - 1)
  PROVE  ToDelta(n) = n
<1> DEFINE h == U32 \div 2
<1>1. U32 \in Nat /\ h \in Nat /\ U32 = 2 * h
  BY ParserAssumption DEF ParserAssumption
<1> HIDE DEF h
<1>2. n + h \in Nat /\ n + h < U32 /\ n \in Int
  BY <1>1 DEF h
<1>3. (n + h) % U32 = n + h
  BY <1>1, <1>2, SmallModulo
<1> QED
  BY <1>1, <1>2, <1>3 DEF ToDelta, h

-----------------------------------------------------------------------------
(* JSON as simdjson gives it *)

\* A number is an integer.
IsProper(v) == Kind(v) = "int" => Val(v) \in Int

\* An array has a length, and its entries, if they are arrays, have one, too.
IsProperField(v) ==
  /\ IsProper(v)
  /\ Kind(v) = "array" =>
       \A i \in DOMAIN Val(v) :
         LET entry == Val(v)[i]
         IN Kind(entry) = "array" =>
              /\ Len(Val(entry)) \in Nat
              /\ Len(Val(entry)) >= 2 => IsProper(Val(entry)[1]) /\ IsProper(Val(entry)[2])

-----------------------------------------------------------------------------
(* What the checks let through *)

IsWithin(v, low, high) == Kind(v) = "int" /\ Val(v) \in low..high
IsKnownSide(v)        == Kind(v) = "string" /\ Val(v) \in {"yes", "no"}
IsKnownLevel(v) ==
  /\ Kind(v) = "array" /\ Len(Val(v)) >= 2
  /\ IsWithin(Val(v)[1], 0, PriceMax) /\ IsWithin(Val(v)[2], 0, U32 - 1)
IsKnownSequence(v)    == Kind(v) = "int" /\ Val(v) >= 0
IsKnownBook(v) == Kind(v) = "array" /\ \A i \in DOMAIN Val(v) : IsKnownLevel(Val(v)[i])

FieldErrors == {"MissingField", "InvalidField"}

LEMMA KindIsChecked ==
  ASSUME NEW v, NEW kind \in {"string", "int", "array"}
  PROVE  /\ FieldError(v, kind) = None <=> Kind(v) = kind
         /\ FieldError(v, kind) \in {None, "MissingField", "InvalidField"}
<1>1. CASE Kind(v) \in {"absent", "damaged"}
  <2>1. FieldError(v, kind) = "MissingField" /\ Kind(v) # kind
    BY <1>1 DEF FieldError
  <2> QED
    BY <2>1 DEF None
<1>2. CASE Kind(v) = kind
  <2>1. FieldError(v, kind) = None
    BY <1>2 DEF FieldError
  <2> QED
    BY <1>2, <2>1
<1>3. CASE Kind(v) \notin {"absent", "damaged", kind}
  <2>1. FieldError(v, kind) = "InvalidField"
    BY <1>3 DEF FieldError
  <2> QED
    BY <1>3, <2>1 DEF None
<1> QED
  BY <1>1, <1>2, <1>3

LEMMA RangeIsChecked ==
  ASSUME NEW v, IsProper(v), NEW low \in Int, NEW high \in Int
  PROVE  /\ Kind(v) = "int" /\ OutOfRange(v, low, high) = None <=> IsWithin(v, low, high)
         /\ OutOfRange(v, low, high) \in {None, "InvalidField"}
<1>1. CASE Kind(v) = "int"
  <2>1. Val(v) \in Int
    BY <1>1 DEF IsProper
  <2>2. Val(v) \in low..high <=> ~(Val(v) < low \/ Val(v) > high)
    BY <2>1
  <2>3. "InvalidField" # None
    BY DEF None
  <2> QED
    BY <1>1, <2>2, <2>3 DEF OutOfRange, IsWithin
<1>2. CASE Kind(v) # "int"
  BY <1>2 DEF OutOfRange, IsWithin
<1> QED
  BY <1>1, <1>2

LEMMA SideIsChecked ==
  ASSUME NEW v
  PROVE  /\ Kind(v) = "string" /\ SideError(v) = None <=> IsKnownSide(v)
         /\ SideError(v) \in {None, "InvalidField"}
  BY DEF SideError, IsKnownSide, None

LEMMA BoundsAreIntegers ==
  /\ PriceMax \in Int /\ U32 - 1 \in Int
  /\ -(U32 \div 2) \in Int /\ U32 \div 2 - 1 \in Int
  BY ParserAssumption DEF ParserAssumption

LEMMA LevelIsChecked ==
  ASSUME NEW v,
         Kind(v) = "array" =>
           /\ Len(Val(v)) \in Nat
           /\ Len(Val(v)) >= 2 => IsProper(Val(v)[1]) /\ IsProper(Val(v)[2])
  PROVE  ~BadLevel(v) <=> IsKnownLevel(v)
<1>1. CASE Kind(v) # "array"
  BY <1>1 DEF BadLevel, IsKnownLevel
<1>2. CASE Kind(v) = "array" /\ Len(Val(v)) < 2
  <2>1. ~(Len(Val(v)) >= 2)
    BY <1>2
  <2> QED
    BY <1>2, <2>1 DEF BadLevel, IsKnownLevel
<1>3. CASE Kind(v) = "array" /\ ~(Len(Val(v)) < 2)
  <2> DEFINE price == Val(v)[1]
             size == Val(v)[2]
  <2>1. IsProper(price) /\ IsProper(size) /\ Len(Val(v)) \in Nat
    BY <1>3
  <2>2. /\ Kind(price) = "int" /\ OutOfRange(price, 0, PriceMax) = None
             <=> IsWithin(price, 0, PriceMax)
        /\ Kind(size) = "int" /\ OutOfRange(size, 0, U32 - 1) = None
             <=> IsWithin(size, 0, U32 - 1)
    BY <2>1, RangeIsChecked, BoundsAreIntegers
  <2>3. Len(Val(v)) < 2 <=> ~(Len(Val(v)) >= 2)
    BY <2>1
  <2>4. (\E i \in 1..2 : Kind(Val(v)[i]) # "int")
          <=> (Kind(price) # "int" \/ Kind(size) # "int")
    <3>1. 1..2 = {1, 2}
      OBVIOUS
    <3> QED
      BY <3>1
  <2> HIDE DEF price, size
  <2>5. BadLevel(v) <=> \/ Len(Val(v)) < 2
                        \/ Kind(price) # "int" \/ Kind(size) # "int"
                        \/ OutOfRange(price, 0, PriceMax) # None
                        \/ OutOfRange(size, 0, U32 - 1) # None
    BY <1>3, <2>4 DEF BadLevel, price, size
  <2>6. IsKnownLevel(v) <=> /\ Len(Val(v)) >= 2
                            /\ IsWithin(price, 0, PriceMax)
                            /\ IsWithin(size, 0, U32 - 1)
    BY <1>3 DEF IsKnownLevel, price, size
  <2> QED
    BY <2>2, <2>3, <2>5, <2>6
<1> QED
  BY <1>1, <1>2, <1>3

LEMMA BookIsChecked ==
  ASSUME NEW v, IsProperField(v)
  PROVE  /\ LevelsError(v) = None <=> IsKnownBook(v)
         /\ LevelsError(v) \in {None, "MissingField", "InvalidField"}
<1>1. /\ FieldError(v, "array") = None <=> Kind(v) = "array"
      /\ FieldError(v, "array") \in {None, "MissingField", "InvalidField"}
  BY KindIsChecked
<1>2. CASE Kind(v) # "array"
  BY <1>1, <1>2 DEF LevelsError, IsKnownBook
<1>3. CASE Kind(v) = "array"
  <2>1. \A i \in DOMAIN Val(v) : ~BadLevel(Val(v)[i]) <=> IsKnownLevel(Val(v)[i])
    BY <1>3, LevelIsChecked DEF IsProperField
  <2>2. LevelsError(v) = IF \E i \in DOMAIN Val(v) : BadLevel(Val(v)[i])
                         THEN "InvalidField" ELSE None
    BY <1>1, <1>3 DEF LevelsError
  <2> QED
    BY <1>3, <2>1, <2>2 DEF IsKnownBook, None
<1> QED
  BY <1>2, <1>3

LEMMA SequenceIsChecked ==
  ASSUME NEW m, IsProper(m.seq)
  PROVE  /\ SequenceError(m) = None <=> IsKnownSequence(m.seq)
         /\ SequenceError(m) \in FieldErrors \cup {None}
<1>1. /\ FieldError(m.seq, "int") = None <=> Kind(m.seq) = "int"
      /\ FieldError(m.seq, "int") \in {None, "MissingField", "InvalidField"}
  BY KindIsChecked
<1>2. Kind(m.seq) = "int" => (Val(m.seq) < 0 <=> ~(Val(m.seq) >= 0))
  BY DEF IsProper
<1> QED
  BY <1>1, <1>2 DEF SequenceError, IsKnownSequence, FieldErrors, None

LEMMA MsgIsChecked ==
  ASSUME NEW m
  PROVE  /\ MsgError(m) = None <=> Kind(m.msg) = "object"
         /\ MsgError(m) \in FieldErrors \cup {None}
  BY DEF MsgError, FieldErrors, None

\* The envelope is checked before the fields.
LEMMA EnvelopeAndFields ==
  ASSUME NEW envelope, NEW fields
  PROVE  /\ FirstOf(envelope, fields) = None <=> envelope = None /\ fields = None
         /\ FirstOf(envelope, fields) \in {envelope, fields}
         /\ envelope # None => FirstOf(envelope, fields) = envelope
  BY DEF FirstOf

-----------------------------------------------------------------------------
(* The parsers: a sequence of checks is passed if and only if every one of *)
(* them is.                                                                *)

LEMMA TwoChecks ==
  ASSUME NEW a, NEW b
  PROVE  /\ FirstError(<<a, b>>) = None <=> a = None /\ b = None
         /\ a \in FieldErrors \cup {None} /\ b \in FieldErrors \cup {None} =>
              FirstError(<<a, b>>) \in FieldErrors \cup {None}
<1> DEFINE checks == <<a, b>>
<1>1. DOMAIN checks = {1, 2} /\ checks[1] = a /\ checks[2] = b
  BY SMT
<1> HIDE DEF checks
<1>2. IsChecks(checks)
  BY <1>1 DEF IsChecks
<1>3. FirstError(checks) = None <=> a = None /\ b = None
  BY <1>1, <1>2, NoErrorIsFirst
<1>4. ASSUME a \in FieldErrors \cup {None}, b \in FieldErrors \cup {None}
      PROVE  FirstError(checks) \in FieldErrors \cup {None}
  <2>1. \A i \in DOMAIN checks : checks[i] \in FieldErrors \cup {None}
    BY <1>1, <1>4
  <2> QED
    BY <1>2, <2>1, FirstErrorIsOne
<1> QED
  BY <1>3, <1>4 DEF checks

\* get_sequence and get_message_object, in this order
LEMMA EnvelopeIsChecked ==
  ASSUME NEW m, IsProper(m.seq)
  PROVE  LET error == FirstError(<<SequenceError(m), MsgError(m)>>)
         IN /\ error = None <=> IsKnownSequence(m.seq) /\ Kind(m.msg) = "object"
            /\ error \in FieldErrors \cup {None}
  BY SequenceIsChecked, MsgIsChecked, TwoChecks

\* The fields of msg that the parsers look at have what simdjson gives them.
HasProperFields(m) ==
  /\ IsProper(m.seq)
  /\ Kind(m.msg) = "object" => \A f : IsProperField(Field(Val(m.msg), f))

\* What each parser asks of the fields of msg
IsKnownSnapshot(msg) ==
  /\ Kind(Field(msg, "market_ticker")) = "string"
  /\ IsKnownBook(Field(msg, "yes")) /\ IsKnownBook(Field(msg, "no"))
IsKnownDelta(msg) ==
  /\ Kind(Field(msg, "market_ticker")) = "string"
  /\ IsWithin(Field(msg, "price"), 0, PriceMax)
  /\ IsWithin(Field(msg, "delta"), -(U32 \div 2), U32 \div 2 - 1)
  /\ IsKnownSide(Field(msg, "side"))
IsKnownTrade(msg) ==
  /\ Kind(Field(msg, "market_ticker")) = "string"
  /\ IsWithin(Field(msg, "yes_price"), 0, PriceMax)
  /\ IsWithin(Field(msg, "no_price"), 0, PriceMax)
  /\ IsWithin(Field(msg, "count"), 0, U32 - 1)
  /\ IsKnownSide(Field(msg, "taker_side"))

LEMMA SnapshotFieldsAreChecked ==
  ASSUME NEW msg, \A f : IsProperField(Field(msg, f))
  PROVE  /\ FirstError(SnapshotChecks(msg)) = None <=> IsKnownSnapshot(msg)
         /\ FirstError(SnapshotChecks(msg)) \in FieldErrors \cup {None}
<1> DEFINE checks == SnapshotChecks(msg)
<1>1. /\ DOMAIN checks = {1, 2, 3}
      /\ checks[1] = FieldError(Field(msg, "market_ticker"), "string")
      /\ checks[2] = LevelsError(Field(msg, "yes"))
      /\ checks[3] = LevelsError(Field(msg, "no"))
  BY SMT DEF SnapshotChecks
<1> HIDE DEF checks
<1>2. /\ checks[1] = None <=> Kind(Field(msg, "market_ticker")) = "string"
      /\ checks[1] \in FieldErrors \cup {None}
  BY <1>1, KindIsChecked DEF FieldErrors
<1>3. /\ checks[2] = None <=> IsKnownBook(Field(msg, "yes"))
      /\ checks[3] = None <=> IsKnownBook(Field(msg, "no"))
      /\ checks[2] \in FieldErrors \cup {None} /\ checks[3] \in FieldErrors \cup {None}
  BY <1>1, BookIsChecked DEF FieldErrors
<1>4. IsChecks(checks) /\ \A i \in DOMAIN checks : checks[i] \in FieldErrors \cup {None}
  BY <1>1, <1>2, <1>3 DEF IsChecks
<1>5. FirstError(checks) = None <=> checks[1] = None /\ checks[2] = None /\ checks[3] = None
  BY <1>1, <1>4, NoErrorIsFirst
<1>6. FirstError(checks) \in FieldErrors \cup {None}
  BY <1>4, FirstErrorIsOne
<1> QED
  BY <1>2, <1>3, <1>5, <1>6 DEF IsKnownSnapshot, checks

LEMMA DeltaFieldsAreChecked ==
  ASSUME NEW msg, \A f : IsProperField(Field(msg, f))
  PROVE  /\ FirstError(DeltaChecks(msg)) = None <=> IsKnownDelta(msg)
         /\ FirstError(DeltaChecks(msg)) \in FieldErrors \cup {None}
<1> DEFINE checks == DeltaChecks(msg)
           price  == Field(msg, "price")
           delta  == Field(msg, "delta")
           side   == Field(msg, "side")
<1>1. /\ DOMAIN checks = {1, 2, 3, 4, 5, 6, 7}
      /\ checks[1] = FieldError(Field(msg, "market_ticker"), "string")
      /\ checks[2] = FieldError(price, "int") /\ checks[3] = FieldError(delta, "int")
      /\ checks[4] = FieldError(side, "string") /\ checks[5] = SideError(side)
      /\ checks[6] = OutOfRange(price, 0, PriceMax)
      /\ checks[7] = OutOfRange(delta, -(U32 \div 2), U32 \div 2 - 1)
  BY SMT DEF DeltaChecks
<1>2. IsProper(price) /\ IsProper(delta)
  BY DEF IsProperField
<1> HIDE DEF checks, price, delta, side
<1>3. /\ checks[1] = None <=> Kind(Field(msg, "market_ticker")) = "string"
      /\ checks[2] = None <=> Kind(price) = "int"
      /\ checks[3] = None <=> Kind(delta) = "int"
      /\ checks[4] = None <=> Kind(side) = "string"
      /\ \A i \in 1..4 : checks[i] \in FieldErrors \cup {None}
  <2>1. \A i \in 1..4 : i \in {1, 2, 3, 4}
    OBVIOUS
  <2> QED
    BY <1>1, <2>1, KindIsChecked DEF FieldErrors
<1>4. /\ Kind(side) = "string" /\ checks[5] = None <=> IsKnownSide(side)
      /\ checks[5] \in FieldErrors \cup {None}
  BY <1>1, SideIsChecked DEF FieldErrors
<1>5. /\ Kind(price) = "int" /\ checks[6] = None <=> IsWithin(price, 0, PriceMax)
      /\ checks[6] \in FieldErrors \cup {None}
  BY <1>1, <1>2, BoundsAreIntegers, RangeIsChecked DEF FieldErrors
<1>6. /\ Kind(delta) = "int" /\ checks[7] = None
           <=> IsWithin(delta, -(U32 \div 2), U32 \div 2 - 1)
      /\ checks[7] \in FieldErrors \cup {None}
  BY <1>1, <1>2, BoundsAreIntegers, RangeIsChecked DEF FieldErrors
<1>7. IsChecks(checks) /\ \A i \in DOMAIN checks : checks[i] \in FieldErrors \cup {None}
  <2>1. IsChecks(checks)
    BY <1>1 DEF IsChecks
  <2>2. \A i \in DOMAIN checks : i \in 1..4 \/ i \in {5, 6, 7}
    BY <1>1
  <2> QED
    BY <1>3, <1>4, <1>5, <1>6, <2>1, <2>2
<1>8. FirstError(checks) = None <=> \A i \in {1, 2, 3, 4, 5, 6, 7} : checks[i] = None
  BY <1>1, <1>7, NoErrorIsFirst
<1>9. FirstError(checks) \in FieldErrors \cup {None}
  BY <1>7, FirstErrorIsOne
<1>10. IsKnownDelta(msg) <=> /\ Kind(Field(msg, "market_ticker")) = "string"
                        /\ IsWithin(price, 0, PriceMax)
                        /\ IsWithin(delta, -(U32 \div 2), U32 \div 2 - 1)
                        /\ IsKnownSide(side)
  BY DEF IsKnownDelta, price, delta, side
<1> QED
  BY <1>3, <1>4, <1>5, <1>6, <1>8, <1>9, <1>10 DEF checks

LEMMA TradeFieldsAreChecked ==
  ASSUME NEW msg, \A f : IsProperField(Field(msg, f))
  PROVE  /\ FirstError(TradeChecks(msg)) = None <=> IsKnownTrade(msg)
         /\ FirstError(TradeChecks(msg)) \in FieldErrors \cup {None}
<1> DEFINE checks == TradeChecks(msg)
           yes    == Field(msg, "yes_price")
           no     == Field(msg, "no_price")
           count  == Field(msg, "count")
           side   == Field(msg, "taker_side")
<1>1. /\ DOMAIN checks = {1, 2, 3, 4, 5, 6, 7, 8, 9}
      /\ checks[1] = FieldError(Field(msg, "market_ticker"), "string")
      /\ checks[2] = FieldError(yes, "int") /\ checks[3] = FieldError(no, "int")
      /\ checks[4] = FieldError(count, "int")
      /\ checks[5] = FieldError(side, "string") /\ checks[6] = SideError(side)
      /\ checks[7] = OutOfRange(yes, 0, PriceMax) /\ checks[8] = OutOfRange(no, 0, PriceMax)
      /\ checks[9] = OutOfRange(count, 0, U32 - 1)
  BY SMT DEF TradeChecks
<1>2. IsProper(yes) /\ IsProper(no) /\ IsProper(count)
  BY DEF IsProperField
<1> HIDE DEF checks, yes, no, count, side
<1>3. /\ checks[1] = None <=> Kind(Field(msg, "market_ticker")) = "string"
      /\ checks[2] = None <=> Kind(yes) = "int"
      /\ checks[3] = None <=> Kind(no) = "int"
      /\ checks[4] = None <=> Kind(count) = "int"
      /\ checks[5] = None <=> Kind(side) = "string"
      /\ \A i \in 1..5 : checks[i] \in FieldErrors \cup {None}
  <2>1. \A i \in 1..5 : i \in {1, 2, 3, 4, 5}
    OBVIOUS
  <2> QED
    BY <1>1, <2>1, KindIsChecked DEF FieldErrors
<1>4. /\ Kind(side) = "string" /\ checks[6] = None <=> IsKnownSide(side)
      /\ checks[6] \in FieldErrors \cup {None}
  BY <1>1, SideIsChecked DEF FieldErrors
<1>5. /\ Kind(yes) = "int" /\ checks[7] = None <=> IsWithin(yes, 0, PriceMax)
      /\ Kind(no) = "int" /\ checks[8] = None <=> IsWithin(no, 0, PriceMax)
      /\ checks[7] \in FieldErrors \cup {None} /\ checks[8] \in FieldErrors \cup {None}
  BY <1>1, <1>2, BoundsAreIntegers, RangeIsChecked DEF FieldErrors
<1>6. /\ Kind(count) = "int" /\ checks[9] = None <=> IsWithin(count, 0, U32 - 1)
      /\ checks[9] \in FieldErrors \cup {None}
  BY <1>1, <1>2, BoundsAreIntegers, RangeIsChecked DEF FieldErrors
<1>7. IsChecks(checks) /\ \A i \in DOMAIN checks : checks[i] \in FieldErrors \cup {None}
  <2>1. IsChecks(checks)
    BY <1>1 DEF IsChecks
  <2>2. \A i \in DOMAIN checks : i \in 1..5 \/ i \in {6, 7, 8, 9}
    BY <1>1
  <2> QED
    BY <1>3, <1>4, <1>5, <1>6, <2>1, <2>2
<1>8. FirstError(checks) = None <=> \A i \in {1, 2, 3, 4, 5, 6, 7, 8, 9} : checks[i] = None
  BY <1>1, <1>7, NoErrorIsFirst
<1>9. FirstError(checks) \in FieldErrors \cup {None}
  BY <1>7, FirstErrorIsOne
<1>10. IsKnownTrade(msg) <=> /\ Kind(Field(msg, "market_ticker")) = "string"
                        /\ IsWithin(yes, 0, PriceMax) /\ IsWithin(no, 0, PriceMax)
                        /\ IsWithin(count, 0, U32 - 1) /\ IsKnownSide(side)
  BY DEF IsKnownTrade, yes, no, count, side
<1> QED
  BY <1>3, <1>4, <1>5, <1>6, <1>8, <1>9, <1>10 DEF checks

-----------------------------------------------------------------------------
(* Events *)

LEMMA FieldIsThere ==
  ASSUME NEW msg, NEW f, Kind(Field(msg, f)) # "absent"
  PROVE  Field(msg, f) = msg[f]
  BY DEF Field, Absent, Kind

\* A book as the exchange has sent it
Book(v) == [i \in DOMAIN Val(v) |-> [price |-> Val(Val(Val(v)[i])[1]),
                                    size  |-> Val(Val(Val(v)[i])[2])]]

LEMMA BookIsKept ==
  ASSUME NEW v, IsKnownBook(v)
  PROVE  Levels(v) = Book(v)
<1>1. ASSUME NEW i \in DOMAIN Val(v)
      PROVE  /\ ToPrice(Val(Val(Val(v)[i])[1])) = Val(Val(Val(v)[i])[1])
             /\ ToSize(Val(Val(Val(v)[i])[2])) = Val(Val(Val(v)[i])[2])
  <2>1. /\ Val(Val(Val(v)[i])[1]) \in 0..PriceMax
        /\ Val(Val(Val(v)[i])[2]) \in 0..(U32 - 1)
    BY DEF IsKnownBook, IsKnownLevel, IsWithin
  <2> QED
    BY <2>1, PriceIsKept, SizeIsKept
<1> QED
  BY <1>1 DEF Levels, Book

\* A snapshot is accepted if and only if it fits types.hpp, and nothing of it
\* is changed (parse_orderbook_snapshot, event_parser.cpp).
THEOREM SnapshotIsParsed ==
  ASSUME NEW m, HasProperFields(m)
  PROVE  LET msg    == Val(m.msg)
             result == ParseSnapshot(m)
         IN /\ result.error = None <=>
                 IsKnownSequence(m.seq) /\ Kind(m.msg) = "object" /\ IsKnownSnapshot(msg)
            /\ result.error \in FieldErrors \cup {None}
            /\ result.error = None =>
                 result.event = [market   |-> Val(msg["market_ticker"]),
                                 sequence |-> Val(m.seq),
                                 yes      |-> Book(msg["yes"]),
                                 no       |-> Book(msg["no"])]
<1> DEFINE msg      == Val(m.msg)
           result   == ParseSnapshot(m)
           envelope == FirstError(<<SequenceError(m), MsgError(m)>>)
           fields   == FirstError(SnapshotChecks(msg))
           error    == FirstOf(envelope, fields)
           event    == [market   |-> Val(msg["market_ticker"]),
                        sequence |-> Val(m.seq),
                        yes      |-> Levels(msg["yes"]),
                        no       |-> Levels(msg["no"])]
<1>1. result = IF error # None THEN Failure(error) ELSE Success(event)
  BY DEF ParseSnapshot
<1>2. /\ envelope = None <=> IsKnownSequence(m.seq) /\ Kind(m.msg) = "object"
      /\ envelope \in FieldErrors \cup {None}
  BY EnvelopeIsChecked DEF HasProperFields
<1>3. ASSUME Kind(m.msg) = "object"
      PROVE  /\ fields = None <=> IsKnownSnapshot(msg)
             /\ fields \in FieldErrors \cup {None}
  BY <1>3, SnapshotFieldsAreChecked DEF HasProperFields
<1>4. /\ error = None <=> envelope = None /\ fields = None
      /\ error \in {envelope, fields}
      /\ envelope # None => error = envelope
  BY EnvelopeAndFields
<1> HIDE DEF envelope, fields, error, event, result
<1>5. result.error = error /\ (error = None => result = Success(event))
  BY <1>1 DEF Failure, Success
<1>6. /\ error = None <=>
           IsKnownSequence(m.seq) /\ Kind(m.msg) = "object" /\ IsKnownSnapshot(msg)
      /\ error \in FieldErrors \cup {None}
  BY <1>2, <1>3, <1>4
<1>7. ASSUME error = None
      PROVE  result.event = [market   |-> Val(msg["market_ticker"]),
                             sequence |-> Val(m.seq),
                             yes      |-> Book(msg["yes"]),
                             no       |-> Book(msg["no"])]
  <2>1. IsKnownBook(Field(msg, "yes")) /\ IsKnownBook(Field(msg, "no"))
    BY <1>6, <1>7 DEF IsKnownSnapshot
  <2>2. Field(msg, "yes") = msg["yes"] /\ Field(msg, "no") = msg["no"]
    BY <2>1, FieldIsThere DEF IsKnownBook
  <2>3. Levels(msg["yes"]) = Book(msg["yes"]) /\ Levels(msg["no"]) = Book(msg["no"])
    BY <2>1, <2>2, BookIsKept
  <2>4. result.event = event
    BY <1>5, <1>7 DEF Success
  <2> QED
    BY <2>3, <2>4 DEF event
<1> QED
  BY <1>5, <1>6, <1>7 DEF result

\* The same for a delta (parse_orderbook_delta)
THEOREM DeltaIsParsed ==
  ASSUME NEW m, HasProperFields(m)
  PROVE  LET msg    == Val(m.msg)
             result == ParseDelta(m)
         IN /\ result.error = None <=>
                 IsKnownSequence(m.seq) /\ Kind(m.msg) = "object" /\ IsKnownDelta(msg)
            /\ result.error \in FieldErrors \cup {None}
            /\ result.error = None =>
                 result.event = [market   |-> Val(msg["market_ticker"]),
                                 sequence |-> Val(m.seq),
                                 price    |-> Val(msg["price"]),
                                 delta    |-> Val(msg["delta"]),
                                 side     |-> Val(msg["side"])]
<1> DEFINE msg      == Val(m.msg)
           result   == ParseDelta(m)
           envelope == FirstError(<<SequenceError(m), MsgError(m)>>)
           fields   == FirstError(DeltaChecks(msg))
           error    == FirstOf(envelope, fields)
           event    == [market   |-> Val(msg["market_ticker"]),
                        sequence |-> Val(m.seq),
                        price    |-> ToPrice(Val(msg["price"])),
                        delta    |-> ToDelta(Val(msg["delta"])),
                        side     |-> Val(msg["side"])]
<1>1. result = IF error # None THEN Failure(error) ELSE Success(event)
  BY DEF ParseDelta
<1>2. /\ envelope = None <=> IsKnownSequence(m.seq) /\ Kind(m.msg) = "object"
      /\ envelope \in FieldErrors \cup {None}
  BY EnvelopeIsChecked DEF HasProperFields
<1>3. ASSUME Kind(m.msg) = "object"
      PROVE  /\ fields = None <=> IsKnownDelta(msg)
             /\ fields \in FieldErrors \cup {None}
  BY <1>3, DeltaFieldsAreChecked DEF HasProperFields
<1>4. /\ error = None <=> envelope = None /\ fields = None
      /\ error \in {envelope, fields}
      /\ envelope # None => error = envelope
  BY EnvelopeAndFields
<1> HIDE DEF envelope, fields, error, event, result
<1>5. result.error = error /\ (error = None => result = Success(event))
  BY <1>1 DEF Failure, Success
<1>6. /\ error = None <=>
           IsKnownSequence(m.seq) /\ Kind(m.msg) = "object" /\ IsKnownDelta(msg)
      /\ error \in FieldErrors \cup {None}
  BY <1>2, <1>3, <1>4
<1>7. ASSUME error = None
      PROVE  result.event = [market   |-> Val(msg["market_ticker"]),
                             sequence |-> Val(m.seq),
                             price    |-> Val(msg["price"]),
                             delta    |-> Val(msg["delta"]),
                             side     |-> Val(msg["side"])]
  <2>1. /\ Kind(Field(msg, "price")) = "int" /\ Val(Field(msg, "price")) \in 0..PriceMax
        /\ Kind(Field(msg, "delta")) = "int"
        /\ Val(Field(msg, "delta")) \in -(U32 \div 2)..(U32 \div 2 - 1)
    BY <1>6, <1>7 DEF IsKnownDelta, IsWithin
  <2>2. Field(msg, "price") = msg["price"] /\ Field(msg, "delta") = msg["delta"]
    BY <2>1, FieldIsThere
  <2>3. ToPrice(Val(msg["price"])) = Val(msg["price"])
    BY <2>1, <2>2, PriceIsKept
  <2>4. ToDelta(Val(msg["delta"])) = Val(msg["delta"])
    BY <2>1, <2>2, DeltaIsKept
  <2>5. result.event = event
    BY <1>5, <1>7 DEF Success
  <2> QED
    BY <2>3, <2>4, <2>5 DEF event
<1> QED
  BY <1>5, <1>6, <1>7 DEF result

\* The same for a trade (parse_trade_event), which needs no sequence number
THEOREM TradeIsParsed ==
  ASSUME NEW m, NEW ts, HasProperFields(m)
  PROVE  LET msg    == Val(m.msg)
             result == ParseTrade(m, ts)
         IN /\ result.error = None <=> Kind(m.msg) = "object" /\ IsKnownTrade(msg)
            /\ result.error \in FieldErrors \cup {None}
            /\ result.error = None =>
                 result.event = [market     |-> Val(msg["market_ticker"]),
                                 yes_price  |-> Val(msg["yes_price"]),
                                 no_price   |-> Val(msg["no_price"]),
                                 count      |-> Val(msg["count"]),
                                 taker_side |-> Val(msg["taker_side"]),
                                 ts         |-> ts]
<1> DEFINE msg      == Val(m.msg)
           result   == ParseTrade(m, ts)
           envelope == MsgError(m)
           fields   == FirstError(TradeChecks(msg))
           error    == FirstOf(envelope, fields)
           event    == [market     |-> Val(msg["market_ticker"]),
                        yes_price  |-> ToPrice(Val(msg["yes_price"])),
                        no_price   |-> ToPrice(Val(msg["no_price"])),
                        count      |-> ToSize(Val(msg["count"])),
                        taker_side |-> Val(msg["taker_side"]),
                        ts         |-> ts]
<1>1. result = IF error # None THEN Failure(error) ELSE Success(event)
  BY DEF ParseTrade
<1>2. /\ envelope = None <=> Kind(m.msg) = "object"
      /\ envelope \in FieldErrors \cup {None}
  BY MsgIsChecked
<1>3. ASSUME Kind(m.msg) = "object"
      PROVE  /\ fields = None <=> IsKnownTrade(msg)
             /\ fields \in FieldErrors \cup {None}
  BY <1>3, TradeFieldsAreChecked DEF HasProperFields
<1>4. /\ error = None <=> envelope = None /\ fields = None
      /\ error \in {envelope, fields}
      /\ envelope # None => error = envelope
  BY EnvelopeAndFields
<1> HIDE DEF envelope, fields, error, event, result
<1>5. result.error = error /\ (error = None => result = Success(event))
  BY <1>1 DEF Failure, Success
<1>6. /\ error = None <=> Kind(m.msg) = "object" /\ IsKnownTrade(msg)
      /\ error \in FieldErrors \cup {None}
  BY <1>2, <1>3, <1>4
<1>7. ASSUME error = None
      PROVE  result.event = [market     |-> Val(msg["market_ticker"]),
                             yes_price  |-> Val(msg["yes_price"]),
                             no_price   |-> Val(msg["no_price"]),
                             count      |-> Val(msg["count"]),
                             taker_side |-> Val(msg["taker_side"]),
                             ts         |-> ts]
  <2>1. /\ Kind(Field(msg, "yes_price")) = "int"
        /\ Val(Field(msg, "yes_price")) \in 0..PriceMax
        /\ Kind(Field(msg, "no_price")) = "int"
        /\ Val(Field(msg, "no_price")) \in 0..PriceMax
        /\ Kind(Field(msg, "count")) = "int" /\ Val(Field(msg, "count")) \in 0..(U32 - 1)
    BY <1>6, <1>7 DEF IsKnownTrade, IsWithin
  <2>2. /\ Field(msg, "yes_price") = msg["yes_price"]
        /\ Field(msg, "no_price") = msg["no_price"] /\ Field(msg, "count") = msg["count"]
    BY <2>1, FieldIsThere
  <2>3. /\ ToPrice(Val(msg["yes_price"])) = Val(msg["yes_price"])
        /\ ToPrice(Val(msg["no_price"])) = Val(msg["no_price"])
    BY <2>1, <2>2, PriceIsKept
  <2>4. ToSize(Val(msg["count"])) = Val(msg["count"])
    BY <2>1, <2>2, SizeIsKept
  <2>5. result.event = event
    BY <1>5, <1>7 DEF Success
  <2> QED
    BY <2>3, <2>4, <2>5 DEF event
<1> QED
  BY <1>5, <1>6, <1>7 DEF result
=============================================================================
