------------------------------- MODULE JsonText -------------------------------
(***************************************************************************)
(* The JSON this program writes: the lines of AsyncJsonLogger, character   *)
(* by character only where it matters, which is inside strings.            *)
(*                                                                         *)
(* A text is a sequence of symbols: a mark, a numeral, or a character; a   *)
(* word of the program itself, like a key, is one symbol.  Names and       *)
(* messages, which come from outside, may have any character in them.      *)
(***************************************************************************)
EXTENDS Naturals, SequencesExt, JsonValue

CONSTANT Numerals   \* how each number that a line or a command may have is written

Quote     == "\""
Backslash == "\\"

\* Control characters: those with an escape of their own, and two that stand
\* for the others, with the digits of theirs
Letters  == [BS |-> "b", FF |-> "f", LF |-> "n", CR |-> "r", HT |-> "t"]
Digits   == [NUL |-> "0000", ESC |-> "001B"]
Controls == DOMAIN Letters \cup DOMAIN Digits

\* A numeral is no mark of a string and has no control character in it.
ASSUME NumeralsAssumption ==
  \A n \in DOMAIN Numerals :
    Numerals[n] \in STRING \ ({Quote, Backslash} \cup Controls)
-----------------------------------------------------------------------------
(* append_json_string, append_field_value, write_event *)

\* Mutant: a backslash is taken for a character like any other
EscapeQuotesOnly(c) ==
  CASE c = Quote -> <<Backslash, c>>
    [] c \in DOMAIN Letters -> <<Backslash, Letters[c]>>
    [] c \in DOMAIN Digits -> <<Backslash, "u", Digits[c]>>
    [] OTHER -> <<c>>

Escape(c) ==
  CASE c \in {Quote, Backslash} -> <<Backslash, c>>
    [] c \in DOMAIN Letters -> <<Backslash, Letters[c]>>
    [] c \in DOMAIN Digits -> <<Backslash, "u", Digits[c]>>
    [] OTHER -> <<c>>

\* append_json_string between quotation marks
JsonString(text) ==
  <<Quote>> \o FlattenSeq([i \in DOMAIN text |-> Escape(text[i])]) \o <<Quote>>

\* A comma before each item but the first
Listed(items) ==
  FlattenSeq([i \in DOMAIN items |-> IF i > 1 THEN <<",">> \o items[i] ELSE items[i]])

\* append_field_value of a string, a list of strings, a number or a bool
FieldValue(v) ==
  CASE Kind(v) = "string" -> JsonString(Val(v))
    [] Kind(v) = "array" ->
         <<"[">> \o Listed([i \in DOMAIN Val(v) |-> JsonString(Val(v)[i])]) \o <<"]">>
    [] Kind(v) = "int" -> <<Numerals[Val(v)]>>
    [] Kind(v) = "bool" -> IF Val(v) THEN <<"true">> ELSE <<"false">>

\* A key that is a literal of the program
Literal(key) == <<Quote, key, Quote, ":">>

\* LogFields is a sequence of pairs.
LogField(key, v) == [key |-> key, value |-> v]

\* Logger::log, and log_raw, which attaches a text
LogEvent(level, component, message, fields) ==
  [level |-> level, component |-> component, message |-> message,
   fields |-> fields, include_raw |-> FALSE, raw |-> <<>>]
LogEventRaw(level, component, message, fields, raw) ==
  [LogEvent(level, component, message, fields) EXCEPT !.include_raw = TRUE, !.raw = raw]

\* write_event, some time stamp given
WriteEvent(event) ==
  <<"{">> \o Literal("ts_ms") \o <<"1">>
  \o <<",">> \o Literal("level") \o JsonString(<<event.level>>)
  \o <<",">> \o Literal("component") \o JsonString(<<event.component>>)
  \o <<",">> \o Literal("msg") \o JsonString(<<event.message>>)
  \o (IF event.fields = <<>> THEN <<>>
      ELSE <<",">> \o Literal("fields")
           \o (<<"{">> \o Listed([i \in DOMAIN event.fields |->
                                  JsonString(<<event.fields[i].key>>) \o <<":">>
                                  \o FieldValue(event.fields[i].value)]) \o <<"}">>))
  \o (IF event.include_raw
      THEN <<",">> \o Literal("raw") \o JsonString(event.raw) ELSE <<>>)
  \o <<"}">> \o <<"LF">>
-----------------------------------------------------------------------------
(* Reading JSON, by its grammar (RFC 8259): the tokens of a text.          *)

Mark(s)      == [is |-> "mark", text |-> <<s>>]
String(text) == [is |-> "string", text |-> text]

\* The character that an escape stands for
Unescaped(escapes, s) == CHOOSE c \in DOMAIN escapes : escapes[c] = s
IsValueOf(escapes, s) == \E c \in DOMAIN escapes : escapes[c] = s

\* One more symbol, in the middle of a string or between two tokens
Reader(mode, text, tokens) == [mode |-> mode, text |-> text, tokens |-> tokens]

ReadSymbol(r, s) ==
  LET Add(c) == Reader("string", Append(r.text, c), r.tokens)
      Go(to) == Reader(to, r.text, r.tokens)
      End(t) == Reader("between", <<>>, Append(r.tokens, t))
  IN CASE r.mode = "between" ->
            IF s = Quote THEN Reader("string", <<>>, r.tokens)
            ELSE IF s \in Controls THEN r ELSE End(Mark(s))
       [] r.mode = "string" ->
            IF s = Quote THEN End(String(r.text))
            ELSE IF s = Backslash THEN Go("escape")
            ELSE IF s \in Controls THEN Go("bad") ELSE Add(s)
       [] r.mode = "escape" ->
            IF s \in {Quote, Backslash} THEN Add(s)
            ELSE IF IsValueOf(Letters, s) THEN Add(Unescaped(Letters, s))
            ELSE IF s = "u" THEN Go("digits") ELSE Go("bad")
       [] r.mode = "digits" ->
            IF IsValueOf(Digits, s) THEN Add(Unescaped(Digits, s)) ELSE Go("bad")
       [] r.mode = "bad" -> r

\* What has been read when all of a text has
After(text) ==
  LET read[n \in 0..Len(text)] ==
        IF n = 0 THEN Reader("between", <<>>, <<>>)
        ELSE ReadSymbol(read[n - 1], text[n])
  IN read[Len(text)]

\* A text means a sequence of tokens if reading it ends outside a string.
Means(text, tokens) == After(text).mode = "between" /\ After(text).tokens = tokens

\* The tokens of an array and of an object, from those of its parts
Between(left, parts, right) ==
  <<Mark(left)>>
  \o FlattenSeq([i \in DOMAIN parts |->
                   IF i > 1 THEN <<Mark(",")>> \o parts[i] ELSE parts[i]])
  \o <<Mark(right)>>

Member(key, tokens) == <<String(<<key>>), Mark(":")>> \o tokens

StringTokens(texts) == Between("[", [i \in DOMAIN texts |-> <<String(texts[i])>>], "]")

ValueTokens(v) ==
  CASE Kind(v) = "string" -> <<String(Val(v))>>
    [] Kind(v) = "array" -> StringTokens(Val(v))
    [] Kind(v) = "int" -> <<Mark(Numerals[Val(v)])>>
    [] Kind(v) = "bool" -> <<Mark(IF Val(v) THEN "true" ELSE "false")>>

\* What the line of an event says
EventTokens(event) ==
  LET part(key, word) == Member(key, <<String(<<word>>)>>)
      fields == [i \in DOMAIN event.fields |->
                   Member(event.fields[i].key, ValueTokens(event.fields[i].value))]
  IN Between("{",
       <<Member("ts_ms", <<Mark("1")>>), part("level", event.level),
         part("component", event.component), part("msg", event.message)>>
       \o (IF fields = <<>> THEN <<>> ELSE <<Member("fields", Between("{", fields, "}"))>>)
       \o (IF event.include_raw THEN <<Member("raw", <<String(event.raw)>>)>> ELSE <<>>),
       "}")
=============================================================================
