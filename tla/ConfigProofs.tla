----------------------------- MODULE ConfigProofs -----------------------------
(***************************************************************************)
(* Proofs about Config, for every set of files and every width of the      *)
(* integers.                                                               *)
(***************************************************************************)
EXTENDS ConfigTexts, JsonTextProofs

-----------------------------------------------------------------------------
(* What it takes for a section to be accepted *)

LEMMA WsAccepted ==
  ASSUME NEW v, ParseWs(v).error = None
  PROVE  /\ Kind(v) = "object"
         /\ \A f \in DOMAIN WsKinds : IsOptional(Field(Val(v), f), WsKinds[f])
         /\ ParseWs(v).value = Merged(Val(v), DefaultWs)
         /\ ValidWs(ParseWs(v).value)
  BY DEF ParseWs, Failed, Parsed, None

LEMMA LoggingAccepted ==
  ASSUME NEW v, ParseLogging(v).error = None
  PROVE  /\ Kind(v) = "object"
         /\ \A f \in DOMAIN LoggingKinds :
              IsOptional(Field(Val(v), f), LoggingKinds[f])
         /\ ParseLogging(v).value = Merged(Val(v), DefaultLogging)
         /\ ValidLogging(ParseLogging(v).value)
  BY DEF ParseLogging, Failed, Parsed, None

LEMMA OutputAccepted ==
  ASSUME NEW v, ParseOutput(v).error = None
  PROVE  ParseOutput(v).value.raw_messages_path # ""
  BY DEF ParseOutput, Failed, Parsed, None

LEMMA SubscriptionAccepted ==
  ASSUME NEW v, ParseSubscription(v).error = None
  PROVE  LET channels == Field(Val(v), "channels") IN
         /\ Kind(v) = "object"
         /\ Kind(channels) = "array" /\ Val(channels) # <<>>
         /\ ParseSubscription(v).value.channels = Strings(channels)
  BY DEF ParseSubscription, Failed, Parsed, None, IsStringArray

LEMMA StringsOfSome ==
  ASSUME NEW v, IsSequence(Val(v)), Val(v) # <<>>
  PROVE  Strings(v) # <<>>
<1> DEFINE s == Val(v)
<1>1. Len(s) # 0
  <2>1. SUFFICES ASSUME Len(s) = 0 PROVE s = <<>>
    OBVIOUS
  <2>2. s = [i \in {} |-> s[i]]
    BY <2>1 DEF IsSequence
  <2> QED
    BY <2>2
<1>2. 1 \in DOMAIN s
  BY <1>1 DEF IsSequence
<1>3. 1 \in DOMAIN Strings(v)
  BY <1>2 DEF Strings
<1> QED
  BY <1>3

\* The defaults of config.cpp:301-324 pass the checks of config.cpp:196-278.
LEMMA DefaultsAreValid ==
  /\ ValidWs(DefaultWs)
  /\ ValidLogging(DefaultLogging)
  /\ DefaultOutput.raw_messages_path # ""
  BY DEF ValidWs, ValidLogging, DefaultWs, DefaultLogging, DefaultOutput,
         ConfigLevels, ConfigPolicies

-----------------------------------------------------------------------------
(* What it takes for a file to be accepted *)

\* config is what load_config makes of file f, section by section.
Sections(f, config) ==
  LET root == Val(f.json)
      of(name) == Field(root, name)
      skipped(name) == Kind(of(name)) \in {"absent", "damaged"}
  IN /\ Kind(f.json) = "object"
     /\ ParseSubscription(of("subscription")).error = None
     /\ config.subscription = ParseSubscription(of("subscription")).value
     /\ \/ skipped("ws") /\ config.ws = DefaultWs
        \/ ParseWs(of("ws")).error = None /\ config.ws = ParseWs(of("ws")).value
     /\ \/ skipped("logging") /\ config.logging = DefaultLogging
        \/ /\ ParseLogging(of("logging")).error = None
           /\ config.logging = ParseLogging(of("logging")).value
     /\ \/ skipped("output") /\ config.output = DefaultOutput
        \/ /\ ParseOutput(of("output")).error = None
           /\ config.output = ParseOutput(of("output")).value

LEMMA FileAccepted ==
  ASSUME NEW f, LoadConfig(f).error = None
  PROVE  Sections(f, LoadConfig(f).value)
<1> DEFINE root == Val(f.json)
           sub  == ParseSubscription(Field(root, "subscription"))
           ws   == Optional(Field(root, "ws"), ParseWs(Field(root, "ws")), DefaultWs)
           log  == Optional(Field(root, "logging"), ParseLogging(Field(root, "logging")),
                            DefaultLogging)
           out  == Optional(Field(root, "output"), ParseOutput(Field(root, "output")),
                            DefaultOutput)
<1> HIDE DEF sub, ws, log, out
<1>1. /\ Kind(f.json) = "object"
      /\ sub.error = None /\ ws.error = None /\ log.error = None /\ out.error = None
      /\ LoadConfig(f).value.subscription = sub.value
      /\ LoadConfig(f).value.ws = ws.value
      /\ LoadConfig(f).value.logging = log.value
      /\ LoadConfig(f).value.output = out.value
  BY DEF LoadConfig, Failed, Parsed, None, sub, ws, log, out
<1>2. \/ Kind(Field(root, "ws")) \in {"absent", "damaged"} /\ ws.value = DefaultWs
      \/ ws = ParseWs(Field(root, "ws"))
  BY DEF ws, Optional, Parsed
<1>3. \/ /\ Kind(Field(root, "logging")) \in {"absent", "damaged"}
         /\ log.value = DefaultLogging
      \/ log = ParseLogging(Field(root, "logging"))
  BY DEF log, Optional, Parsed
<1>4. \/ /\ Kind(Field(root, "output")) \in {"absent", "damaged"}
         /\ out.value = DefaultOutput
      \/ out = ParseOutput(Field(root, "output"))
  BY DEF out, Optional, Parsed
<1>5. sub = ParseSubscription(Field(root, "subscription"))
  BY DEF sub
<1> QED
  BY <1>1, <1>2, <1>3, <1>4, <1>5 DEF Sections

-----------------------------------------------------------------------------
(* The invariant *)

LoadInv ==
  /\ file \in Files
  /\ loaded = NotLoaded \/ loaded = LoadConfig(file)

\* load_config is called once, and what it returns is kept (app_context.cpp:12).
LEMMA LoadedFromFile == ConfigSpec => []LoadInv
<1>1. ConfigInit => LoadInv
  BY DEF ConfigInit, LoadInv
<1>2. LoadInv /\ [ConfigNext]_configVars => LoadInv'
  BY DEF LoadInv, ConfigNext, Load, ConfigDone, configVars
<1> QED
  BY <1>1, <1>2, PTL DEF ConfigSpec

LEMMA LoadedIsFile ==
  ASSUME LoadInv, Accepted
  PROVE  file \in Files /\ loaded = LoadConfig(file)
<1>1. NotLoaded.error # None
  BY DEF NotLoaded, Failed, None
<1>2. loaded # NotLoaded
  BY <1>1 DEF Accepted
<1> QED
  BY <1>2 DEF LoadInv

LEMMA AcceptedSections ==
  ASSUME LoadInv, Accepted
  PROVE  file \in Files /\ Sections(file, loaded.value)
<1>1. loaded = LoadConfig(file)
  BY LoadedIsFile
<1>2. LoadConfig(file).error = None
  BY <1>1 DEF Accepted
<1> QED
  BY <1>1, <1>2, FileAccepted DEF LoadInv

-----------------------------------------------------------------------------
(* An accepted file is usable *)

LEMMA WsIsValid ==
  ASSUME NEW f, NEW config, Sections(f, config)
  PROVE  ValidWs(config.ws)
  BY WsAccepted, DefaultsAreValid DEF Sections

LEMMA LoggingIsValid ==
  ASSUME NEW f, NEW config, Sections(f, config)
  PROVE  ValidLogging(config.logging)
  BY LoggingAccepted, DefaultsAreValid DEF Sections

LEMMA QueueSizeIsNatural ==
  ASSUME NEW f, NEW config, Sections(f, config)
  PROVE  config.logging.queue_size \in Nat
<1> DEFINE v == Field(Val(f.json), "logging")
           q == Field(Val(v), "queue_size")
<1>1. CASE config.logging = DefaultLogging
  BY <1>1 DEF DefaultLogging
<1>2. CASE ParseLogging(v).error = None /\ config.logging = ParseLogging(v).value
  <2>1. config.logging = Merged(Val(v), DefaultLogging)
    BY <1>2, LoggingAccepted
  <2>2. config.logging.queue_size = Given(Val(v), "queue_size", 10000)
    BY <2>1 DEF Merged, DefaultLogging
  <2>3. IsOptional(q, "int")
    <3>1. "queue_size" \in DOMAIN LoggingKinds /\ LoggingKinds["queue_size"] = "int"
      BY DEF LoggingKinds
    <3> QED
      BY <1>2, <3>1, LoggingAccepted
  <2>4. Kind(q) = "absent" \/ (Kind(q) = "int" /\ Val(q) \in 0..U64-1)
    BY <2>3 DEF IsOptional, Is
  <2>5. CASE Kind(q) = "absent"
    BY <2>2, <2>5 DEF Given
  <2>6. CASE Kind(q) = "int" /\ Val(q) \in 0..U64-1
    <3>1. Given(Val(v), "queue_size", 10000) = Val(q)
      BY <2>6 DEF Given
    <3> QED
      BY <2>2, <2>6, <3>1, ConfigAssumption DEF ConfigAssumption
  <2> QED
    BY <2>4, <2>5, <2>6
<1> QED
  BY <1>1, <1>2 DEF Sections

LEMMA ChannelsAreGiven ==
  ASSUME NEW f \in Files, NEW config, Sections(f, config)
  PROVE  config.subscription.channels # <<>>
<1> DEFINE sub == Field(Val(f.json), "subscription")
           channels == Field(Val(sub), "channels")
<1>1. /\ Kind(sub) = "object" /\ Kind(channels) = "array" /\ Val(channels) # <<>>
      /\ config.subscription.channels = Strings(channels)
  BY SubscriptionAccepted DEF Sections
<1>2. IsSequence(Val(channels))
  BY <1>1, FilesAssumption DEF FilesAssumption, ChannelsOf, Sections
<1> QED
  BY <1>1, <1>2, StringsOfSome

\* Whatever the file and the width of its integers, what load_config accepts is
\* fit for use: durations are not negative although unsigned 64-bit numbers are
\* cast to signed ones first (config.cpp:168-204), the delays are in order, the
\* queue has room and the paths and channels are there.
THEOREM Usable == ConfigSpec => []AcceptedIsUsable
<1>1. LoadInv => AcceptedIsUsable
  <2> SUFFICES ASSUME LoadInv, Accepted
               PROVE  LET config == loaded.value IN
                      /\ \A f \in DOMAIN WsKinds : WsKinds[f] = "int" => config.ws[f] >= 0
                      /\ config.ws.reconnect_initial_delay_ms
                           <= config.ws.reconnect_max_delay_ms
                      /\ config.logging.queue_size > 0
                      /\ config.logging.output_path # ""
                      /\ config.output.raw_messages_path # ""
                      /\ config.subscription.channels # <<>>
    BY DEF AcceptedIsUsable
  <2> DEFINE config == loaded.value
  <2>1. file \in Files /\ Sections(file, config)
    BY AcceptedSections
  <2> HIDE DEF config
  <2>2. \A f \in DOMAIN WsKinds : WsKinds[f] = "int" => config.ws[f] >= 0
    BY <2>1, WsIsValid DEF ValidWs, WsKinds
  <2>3. config.ws.reconnect_initial_delay_ms <= config.ws.reconnect_max_delay_ms
    BY <2>1, WsIsValid DEF ValidWs
  <2>4. config.logging.queue_size > 0 /\ config.logging.output_path # ""
    <3>1. config.logging.queue_size \in Nat
      BY <2>1, QueueSizeIsNatural
    <3>2. ValidLogging(config.logging)
      BY <2>1, LoggingIsValid
    <3>3. config.logging.queue_size # 0
      BY <3>2 DEF ValidLogging
    <3>4. config.logging.output_path # ""
      BY <3>2 DEF ValidLogging
    <3>5. \A n \in Nat : n # 0 => n > 0
      OBVIOUS
    <3>6. config.logging.queue_size > 0
      BY <3>1, <3>3, <3>5
    <3> QED
      BY <3>4, <3>6
  <2>5. config.output.raw_messages_path # ""
    BY <2>1, OutputAccepted, DefaultsAreValid DEF Sections
  <2>6. config.subscription.channels # <<>>
    BY <2>1, ChannelsAreGiven
  <2> QED
    BY <2>2, <2>3, <2>4, <2>5, <2>6 DEF config
<1> QED
  BY <1>1, LoadedFromFile, PTL

-----------------------------------------------------------------------------
(* The logger understands it *)

\* Every level and policy that config.cpp:234-257 lets through is known to
\* parse_log_level and parse_drop_policy.
THEOREM LoggerAgrees == ConfigSpec => []LoggerUnderstandsConfig
<1>1. LoadInv => LoggerUnderstandsConfig
  <2> SUFFICES ASSUME LoadInv, Accepted
               PROVE  BuildLoggerOptions(loaded.value).error = None
    BY DEF LoggerUnderstandsConfig
  <2>1. ValidLogging(loaded.value.logging)
    BY AcceptedSections, LoggingIsValid
  <2>2. \E i \in DOMAIN LogLevels : LogLevels[i] = loaded.value.logging.level
    <3>1. loaded.value.logging.level \in {"trace", "debug", "info", "warn", "error"}
      BY <2>1 DEF ValidLogging, ConfigLevels
    <3>2. \A level \in {"trace", "debug", "info", "warn", "error"} :
            \E i \in 1..5 : LogLevels[i] = level
      BY DEF LogLevels
    <3>3. DOMAIN LogLevels = 1..5
      BY DEF LogLevels
    <3> QED
      BY <3>1, <3>2, <3>3
  <2>3. loaded.value.logging.drop_policy \in DOMAIN DropPolicies
    BY <2>1 DEF ValidLogging, ConfigPolicies, DropPolicies
  <2> QED
    BY <2>2, <2>3 DEF BuildLoggerOptions, Parsed
<1> QED
  BY <1>1, LoadedFromFile, PTL

-----------------------------------------------------------------------------
(* The file is obeyed *)

\* The cast to a signed integer leaves alone what it leaves positive.
LEMMA CastKeepsPositive ==
  ASSUME NEW n \in 0..U64-1, ToInt64(n) >= 0
  PROVE  ToInt64(n) = n
  BY ConfigAssumption DEF ConfigAssumption, ToInt64

\* Fields of "ws": a given integer is the one used, since its cast is not
\* negative; anything else given goes through as it is.
LEMMA WsIsObeyed ==
  ASSUME NEW v, ParseWs(v).error = None, NEW f \in DOMAIN DefaultWs
  PROVE  ParseWs(v).value[f] = IF Kind(Field(Val(v), f)) # "absent"
                               THEN Val(Field(Val(v), f)) ELSE DefaultWs[f]
<1> DEFINE x == Field(Val(v), f)
<1>1. /\ IsOptional(x, WsKinds[f])
      /\ ParseWs(v).value[f] = Given(Val(v), f, DefaultWs[f])
      /\ ValidWs(ParseWs(v).value)
  <2>1. f \in DOMAIN WsKinds
    BY DEF WsKinds, DefaultWs
  <2> QED
    BY <2>1, WsAccepted DEF Merged
<1>2. f # "queue_size"
  BY DEF DefaultWs
<1>3. CASE Kind(x) = "absent"
  BY <1>1, <1>3 DEF Given
<1>4. CASE Kind(x) = "int"
  <2>1. Given(Val(v), f, DefaultWs[f]) = ToInt64(Val(x))
    BY <1>2, <1>4 DEF Given
  <2>2. WsKinds[f] = "int" /\ Val(x) \in 0..U64-1
    BY <1>1, <1>4 DEF IsOptional, Is
  <2>3. f \in {"handshake_timeout_ms", "idle_timeout_ms",
               "reconnect_initial_delay_ms", "reconnect_max_delay_ms"}
    BY <2>2 DEF WsKinds, DefaultWs
  <2>4. ParseWs(v).value[f] >= 0
    BY <1>1, <2>3 DEF ValidWs
  <2>5. ToInt64(Val(x)) = Val(x)
    BY <1>1, <2>1, <2>2, <2>4, CastKeepsPositive
  <2> QED
    BY <1>1, <1>4, <2>1, <2>5
<1>5. CASE Kind(x) # "absent" /\ Kind(x) # "int"
  BY <1>1, <1>5 DEF Given
<1> QED
  BY <1>3, <1>4, <1>5

\* Fields of "logging": the one integer is unsigned all the way.
LEMMA LoggingIsObeyed ==
  ASSUME NEW v, ParseLogging(v).error = None, NEW f \in DOMAIN DefaultLogging
  PROVE  ParseLogging(v).value[f] = IF Kind(Field(Val(v), f)) # "absent"
                                    THEN Val(Field(Val(v), f)) ELSE DefaultLogging[f]
<1> DEFINE x == Field(Val(v), f)
<1>1. /\ IsOptional(x, LoggingKinds[f])
      /\ ParseLogging(v).value[f] = Given(Val(v), f, DefaultLogging[f])
  <2>1. f \in DOMAIN LoggingKinds
    BY DEF LoggingKinds, DefaultLogging
  <2> QED
    BY <2>1, LoggingAccepted DEF Merged
<1>2. Kind(x) = "int" => f = "queue_size"
  <2>1. Kind(x) = "int" => LoggingKinds[f] = "int"
    BY <1>1 DEF IsOptional, Is
  <2> QED
    BY <2>1 DEF LoggingKinds, DefaultLogging
<1> QED
  BY <1>1, <1>2 DEF Given

\* Each value the file gives in "ws" or "logging" is used and each one it does
\* not give is the default (config.cpp:144-281), whatever the width: the casts
\* to signed integers change nothing that is then accepted.
THEOREM Obeyed == ConfigSpec => []FileIsObeyed
<1>1. LoadInv => FileIsObeyed
  <2> SUFFICES ASSUME LoadInv, Accepted
               PROVE  FileIsObeyed
    BY DEF FileIsObeyed
  <2> DEFINE config == loaded.value
             root == Val(file.json)
             ws == Field(root, "ws")
             log == Field(root, "logging")
  <2>1. Sections(file, config)
    BY AcceptedSections
  <2>2. \A f \in DOMAIN config.ws :
          IF Kind(ws) = "object" /\ Kind(Field(Val(ws), f)) # "absent"
          THEN config.ws[f] = Val(Field(Val(ws), f))
          ELSE config.ws[f] = DefaultWs[f]
    <3>1. CASE Kind(ws) \in {"absent", "damaged"} /\ config.ws = DefaultWs
      BY <3>1
    <3>2. CASE ParseWs(ws).error = None /\ config.ws = ParseWs(ws).value
      <4>1. Kind(ws) = "object" /\ DOMAIN config.ws = DOMAIN DefaultWs
        BY <3>2, WsAccepted DEF Merged
      <4> QED
        BY <3>2, <4>1, WsIsObeyed
    <3> QED
      BY <2>1, <3>1, <3>2 DEF Sections
  <2>3. \A f \in DOMAIN config.logging :
          IF Kind(log) = "object" /\ Kind(Field(Val(log), f)) # "absent"
          THEN config.logging[f] = Val(Field(Val(log), f))
          ELSE config.logging[f] = DefaultLogging[f]
    <3>1. CASE Kind(log) \in {"absent", "damaged"} /\ config.logging = DefaultLogging
      BY <3>1
    <3>2. CASE ParseLogging(log).error = None /\ config.logging = ParseLogging(log).value
      <4>1. Kind(log) = "object" /\ DOMAIN config.logging = DOMAIN DefaultLogging
        BY <3>2, LoggingAccepted DEF Merged
      <4> QED
        BY <3>2, <4>1, LoggingIsObeyed
    <3> QED
      BY <2>1, <3>1, <3>2 DEF Sections
  <2> QED
    BY <2>2, <2>3 DEF FileIsObeyed
<1> QED
  BY <1>1, LoadedFromFile, PTL

-----------------------------------------------------------------------------
(* The url is split where it can be *)

\* find stops at the first place of a symbol, or past the end.
LEMMA FindsFirst ==
  ASSUME NEW text \in Seq(STRING), NEW s
  PROVE  /\ Find(text, s) \in 1..Len(text) + 1
         /\ \A k \in 1..Find(text, s) - 1 : text[k] # s
         /\ Find(text, s) <= Len(text) => text[Find(text, s)] = s
<1> DEFINE places == {i \in DOMAIN text : text[i] = s} \cup {Len(text) + 1}
<1>1. Len(text) \in Nat /\ DOMAIN text = 1..Len(text)
  OBVIOUS
<1>2. places \in SUBSET Nat /\ places # {}
  BY <1>1
<1>3. Min(places) \in places /\ \A y \in places : Min(places) <= y
  BY <1>2, MinIsLeast
<1>4. Find(text, s) = Min(places)
  BY DEF Find
<1>5. Min(places) \in 1..Len(text) + 1
  BY <1>1, <1>3
<1>6. ASSUME NEW k \in 1..Min(places) - 1 PROVE text[k] # s
  <2>1. k \in 1..Len(text) /\ ~(Min(places) <= k)
    BY <1>1, <1>5
  <2>2. k \notin places
    BY <1>3, <2>1
  <2> QED
    BY <1>1, <2>1, <2>2
<1>7. Min(places) <= Len(text) => text[Min(places)] = s
  BY <1>1, <1>3
<1> QED
  BY <1>4, <1>5, <1>6, <1>7

\* A part of the beginning of what follows the first symbol
LEMMA PartOfPart ==
  ASSUME NEW url \in Seq(STRING), NEW part \in Seq(STRING), Len(part) <= Len(url) - 1,
         \A k \in 1..Len(part) : part[k] = url[k + 1],
         NEW a \in 1..Len(part) + 1, NEW b \in 0..Len(part)
  PROVE  SubSeq(part, a, b) = SubSeq(url, a + 1, b + 1)
<1>1. Len(part) \in Nat /\ Len(url) \in Nat
  OBVIOUS
<1>2. \A i \in a..b : part[i] \in STRING /\ part[i] = url[i + 1]
  BY <1>1
<1>3. \A i \in a+1..b+1 : url[i] \in STRING
  BY <1>1
<1>4. /\ SubSeq(part, a, b) \in Seq(STRING)
      /\ Len(SubSeq(part, a, b)) = IF a <= b THEN b - a + 1 ELSE 0
      /\ \A i \in 1..b-a+1 : SubSeq(part, a, b)[i] = part[a + i - 1]
  BY <1>2, SubSeqProperties
<1>5. /\ SubSeq(url, a + 1, b + 1) \in Seq(STRING)
      /\ Len(SubSeq(url, a + 1, b + 1)) =
           IF a + 1 <= b + 1 THEN (b + 1) - (a + 1) + 1 ELSE 0
      /\ \A i \in 1..(b+1)-(a+1)+1 :
           SubSeq(url, a + 1, b + 1)[i] = url[(a + 1) + i - 1]
  <2>1. a + 1 \in Int /\ b + 1 \in Int
    OBVIOUS
  <2> QED
    BY <1>3, <2>1, SubSeqProperties
<1>6. Len(SubSeq(part, a, b)) = Len(SubSeq(url, a + 1, b + 1))
  BY <1>4, <1>5
<1>7. ASSUME NEW i \in 1..Len(SubSeq(part, a, b))
      PROVE  SubSeq(part, a, b)[i] = SubSeq(url, a + 1, b + 1)[i]
  <2>1. i \in 1..b-a+1 /\ a + i - 1 \in a..b /\ a <= b
    BY <1>4
  <2>2. part[a + i - 1] = url[a + i]
    BY <1>2, <2>1
  <2> QED
    BY <1>4, <1>5, <2>1, <2>2
<1> QED
  BY <1>4, <1>5, <1>6, <1>7, SeqEqual

LEMMA PartOfTail ==
  ASSUME NEW url \in Seq(STRING), url # <<>>,
         NEW a \in 1..Len(url), NEW b \in 0..Len(url) - 1
  PROVE  SubSeq(Tail(url), a, b) = SubSeq(url, a + 1, b + 1)
<1> DEFINE t == Tail(url)
<1>1. /\ t \in Seq(STRING) /\ Len(t) = Len(url) - 1 /\ Len(url) \in Nat
      /\ \A i \in 1..Len(t) : t[i] = url[i + 1]
  BY HeadTailProperties
<1> HIDE DEF t
<1>2. SubSeq(t, a, b) = SubSeq(url, a + 1, b + 1)
  BY <1>1, PartOfPart
<1> QED
  BY <1>2 DEF t

LEMMA EmptyPart ==
  ASSUME NEW url \in Seq(STRING), NEW a \in 1..Len(url) + 1, NEW b \in 0..Len(url)
  PROVE  SubSeq(url, a, b) = <<>> <=> a > b
<1>1. \A i \in a..b : url[i] \in STRING
  OBVIOUS
<1>2. /\ SubSeq(url, a, b) \in Seq(STRING)
      /\ Len(SubSeq(url, a, b)) = IF a <= b THEN b - a + 1 ELSE 0
  BY <1>1, SubSeqProperties
<1>3. SubSeq(url, a, b) = <<>> <=> Len(SubSeq(url, a, b)) = 0
  BY <1>2
<1> QED
  BY <1>2, <1>3

\* The host ends at c, and the port, or the host again, at e.
SplitsAt(url, c, e) ==
  /\ c \in 1..Len(url) /\ e \in c..Len(url)
  /\ \A k \in 2..c : url[k] # ":"
  /\ \A k \in 2..e : url[k] # "/"
  /\ c < e => url[c + 1] = ":"
  /\ e < Len(url) => url[e + 1] = "/"

\* There is one place at most where a url can be split.
LEMMA OneSplit ==
  ASSUME NEW url \in Seq(STRING), NEW c, NEW e, SplitsAt(url, c, e)
  PROVE  Ends(url) = IF c = 1 \/ e = c + 1 THEN {} ELSE {<<c, e>>}
<1>1. Len(url) \in Nat /\ c \in Nat /\ e \in Nat /\ 1 <= c /\ c <= e /\ e <= Len(url)
  BY DEF SplitsAt
<1>2. ASSUME NEW p \in Ends(url)
      PROVE  p = <<c, e>> /\ c # 1 /\ e # c + 1
  <2>1. /\ p \in (2..Len(url)) \X (2..Len(url))
        /\ p[1] <= p[2]
        /\ \A k \in 2..p[1] : url[k] # ":" /\ url[k] # "/"
        /\ p[2] = p[1] \/ (url[p[1] + 1] = ":" /\ p[2] > p[1] + 1)
        /\ \A k \in p[1]+1..p[2] : url[k] # "/"
        /\ p[2] < Len(url) => url[p[2] + 1] = "/"
    BY DEF Ends
  <2>2. PICK i \in 2..Len(url), j \in 2..Len(url) : p = <<i, j>>
    BY <2>1
  <2>3. /\ i <= j
        /\ \A k \in 2..i : url[k] # ":"
        /\ \A k \in 2..j : url[k] # "/"
        /\ j = i \/ (url[i + 1] = ":" /\ j > i + 1)
        /\ j < Len(url) => url[j + 1] = "/"
    BY <2>1, <2>2
  <2>4. j = e
    <3>1. ~(j < e)
      <4>1. SUFFICES ASSUME j < e PROVE FALSE
        OBVIOUS
      <4>2. j + 1 \in 2..e /\ j < Len(url)
        BY <1>1, <4>1
      <4> QED
        BY <2>3, <4>2 DEF SplitsAt
    <3>2. ~(e < j)
      <4>1. SUFFICES ASSUME e < j PROVE FALSE
        OBVIOUS
      <4>2. e + 1 \in 2..j /\ e < Len(url)
        BY <1>1, <4>1
      <4> QED
        BY <2>3, <4>2 DEF SplitsAt
    <3> QED
      BY <1>1, <3>1, <3>2
  <2>5. i = c
    <3>1. ~(i < c)
      <4>1. SUFFICES ASSUME i < c PROVE FALSE
        OBVIOUS
      <4>2. i + 1 \in 2..c /\ j # i
        BY <1>1, <2>4, <4>1
      <4> QED
        BY <2>3, <4>2 DEF SplitsAt
    <3>2. ~(c < i)
      <4>1. SUFFICES ASSUME c < i PROVE FALSE
        OBVIOUS
      <4>2. c + 1 \in 2..i /\ c < e
        BY <1>1, <2>3, <2>4, <4>1
      <4> QED
        BY <2>3, <4>2 DEF SplitsAt
    <3> QED
      BY <1>1, <3>1, <3>2
  <2> QED
    BY <1>1, <2>2, <2>3, <2>4, <2>5
<1>3. ASSUME c # 1, e # c + 1
      PROVE  <<c, e>> \in Ends(url)
  <2>1. c \in 2..Len(url) /\ e \in 2..Len(url)
    BY <1>1, <1>3
  <2>2. /\ \A k \in 2..c : url[k] \notin {":", "/"}
        /\ \A k \in c+1..e : url[k] # "/"
    BY <1>1 DEF SplitsAt
  <2>3. e = c \/ (url[c + 1] = ":" /\ e > c + 1)
    BY <1>1, <1>3 DEF SplitsAt
  <2> QED
    BY <1>1, <2>1, <2>2, <2>3 DEF Ends, SplitsAt
<1> QED
  BY <1>2, <1>3

\* parse_ws_url finds it.
LEMMA ParserSplits ==
  ASSUME NEW url \in Seq(STRING), url # <<>>, url[1] = "wss://"
  PROVE  \E c, e :
           /\ SplitsAt(url, c, e)
           /\ ParseWsUrl(url) = IF c = 1 \/ e = c + 1 THEN Failed("InvalidUrl")
                                ELSE Parsed(SplitAt(url, c, e))
<1> DEFINE n == Len(url)
           rest == Tail(url)
           e == Find(rest, "/")
           hostPort == SubSeq(rest, 1, e - 1)
           c == Find(hostPort, ":")
           path == SubSeq(rest, e, Len(rest))
           host == SplitPort(rest)[1]
           port == SplitPort(rest)[2]
<1>1. /\ n \in Nat /\ n >= 1 /\ rest \in Seq(STRING) /\ Len(rest) = n - 1
      /\ \A k \in 1..n - 1 : rest[k] = url[k + 1]
  BY HeadTailProperties
<1> HIDE DEF rest
<1>2. /\ e \in 1..n
      /\ \A k \in 1..e - 1 : rest[k] # "/"
      /\ e < n => rest[e] = "/"
  <2>1. /\ e \in 1..Len(rest) + 1
        /\ \A k \in 1..e - 1 : rest[k] # "/"
        /\ e <= Len(rest) => rest[e] = "/"
    BY <1>1, FindsFirst
  <2> HIDE DEF e
  <2> QED
    BY <1>1, <2>1
<1> HIDE DEF e
<1>3. /\ hostPort = SubSeq(url, 2, e)
      /\ hostPort \in Seq(STRING) /\ Len(hostPort) = e - 1
      /\ \A k \in 1..e - 1 : hostPort[k] = url[k + 1]
  <2>1. \A i \in 1..e - 1 : rest[i] \in STRING
    BY <1>1, <1>2
  <2>2. /\ hostPort \in Seq(STRING)
        /\ Len(hostPort) = IF 1 <= e - 1 THEN (e - 1) - 1 + 1 ELSE 0
        /\ \A i \in 1..(e - 1) - 1 + 1 : hostPort[i] = rest[1 + i - 1]
    BY <1>2, <2>1, SubSeqProperties
  <2>3. Len(hostPort) = e - 1
    BY <1>2, <2>2
  <2>4. \A k \in 1..e - 1 : hostPort[k] = url[k + 1]
    BY <1>1, <1>2, <2>2
  <2>5. hostPort = SubSeq(url, 1 + 1, (e - 1) + 1)
    <3>1. 1 \in 1..Len(url) /\ e - 1 \in 0..Len(url) - 1
      BY <1>1, <1>2
    <3> QED
      BY <3>1, PartOfTail DEF rest
  <2>6. 1 + 1 = 2 /\ (e - 1) + 1 = e
    BY <1>2
  <2> QED
    BY <2>2, <2>3, <2>4, <2>5, <2>6
<1> HIDE DEF hostPort
<1>4. /\ c \in 1..e
      /\ \A k \in 1..c - 1 : hostPort[k] # ":"
      /\ c < e => hostPort[c] = ":"
  <2>1. /\ c \in 1..Len(hostPort) + 1
        /\ \A k \in 1..c - 1 : hostPort[k] # ":"
        /\ c <= Len(hostPort) => hostPort[c] = ":"
    BY <1>3, FindsFirst
  <2> HIDE DEF c
  <2> QED
    BY <1>2, <1>3, <2>1
<1> HIDE DEF c
<1>5. SplitsAt(url, c, e)
  <2>1. ASSUME NEW k \in 2..c PROVE url[k] # ":"
    <3>1. k - 1 \in 1..c - 1 /\ k - 1 \in 1..e - 1 /\ (k - 1) + 1 = k
      BY <1>2, <1>4
    <3> QED
      BY <1>3, <1>4, <3>1
  <2>2. ASSUME NEW k \in 2..e PROVE url[k] # "/"
    <3>1. k - 1 \in 1..e - 1 /\ k - 1 \in 1..n - 1 /\ (k - 1) + 1 = k
      BY <1>1, <1>2
    <3> QED
      BY <1>1, <1>2, <3>1
  <2>3. c < e => url[c + 1] = ":"
    BY <1>2, <1>3, <1>4
  <2>4. e < n => url[e + 1] = "/"
    BY <1>1, <1>2
  <2> QED
    BY <1>1, <1>2, <1>4, <2>1, <2>2, <2>3, <2>4 DEF SplitsAt
<1>6. /\ host = SubSeq(url, 2, c)
      /\ port = IF e = c THEN <<"443">> ELSE SubSeq(url, c + 2, e)
  <2>1. SplitPort(rest) = IF c > Len(hostPort) THEN <<hostPort, <<"443">> >>
                          ELSE <<SubSeq(hostPort, 1, c - 1),
                                 SubSeq(hostPort, c + 1, Len(hostPort))>>
    BY DEF SplitPort, c, hostPort, e
  <2>2. CASE c = e
    <3>1. SplitPort(rest) = <<hostPort, <<"443">> >>
      BY <1>2, <1>3, <2>1, <2>2
    <3> QED
      BY <1>3, <2>2, <3>1
  <2>3. CASE c # e
    <3>1. c \in 1..e - 1
      BY <1>2, <1>4, <2>3
    <3>2. SplitPort(rest) = <<SubSeq(hostPort, 1, c - 1), SubSeq(hostPort, c + 1, e - 1)>>
      BY <1>2, <1>3, <2>1, <3>1
    <3>3. SubSeq(hostPort, 1, c - 1) = SubSeq(url, 2, c)
      BY <1>1, <1>2, <1>3, <3>1, PartOfPart
    <3>4. SubSeq(hostPort, c + 1, e - 1) = SubSeq(url, c + 2, e)
      BY <1>1, <1>2, <1>3, <3>1, PartOfPart
    <3> DEFINE first  == SubSeq(hostPort, 1, c - 1)
               second == SubSeq(hostPort, c + 1, e - 1)
    <3>5. SplitPort(rest) = <<first, second>>
      BY <3>2
    <3> HIDE DEF first, second
    <3>6. host = first /\ port = second
      BY <3>5
    <3> HIDE DEF host, port
    <3> QED
      BY <2>3, <3>3, <3>4, <3>6 DEF first, second
  <2> QED
    BY <2>2, <2>3
<1>7. path = SubSeq(url, e + 1, n)
  <2>1. e \in 1..Len(url) /\ Len(rest) \in 0..Len(url) - 1 /\ Len(rest) + 1 = n
    BY <1>1, <1>2
  <2> QED
    BY <2>1, PartOfTail DEF rest
<1> HIDE DEF host, port, path
<1>8. path = <<>> <=> e = n
  <2>1. e + 1 \in 1..Len(url) + 1 /\ n \in 0..Len(url) /\ (e + 1 > n <=> e = n)
    BY <1>1, <1>2
  <2> QED
    BY <1>7, <2>1, EmptyPart
<1>9. (host = <<>> <=> c = 1) /\ (port = <<>> <=> e = c + 1)
  <2>1. 2 \in 1..Len(url) + 1 /\ c \in 0..Len(url) /\ (2 > c <=> c = 1)
    BY <1>1, <1>2, <1>4
  <2>2. host = <<>> <=> c = 1
    BY <1>6, <2>1, EmptyPart
  <2>3. CASE e = c
    <3>1. port = <<"443">> /\ e # c + 1
      BY <1>2, <1>4, <1>6, <2>3
    <3> QED
      BY <2>2, <3>1
  <2>4. CASE e # c
    <3>1. /\ c + 2 \in 1..Len(url) + 1 /\ e \in 0..Len(url)
          /\ c + 2 > e <=> e = c + 1
      BY <1>1, <1>2, <1>4, <2>4
    <3>2. port = SubSeq(url, c + 2, e)
      BY <1>6, <2>4
    <3> QED
      BY <2>2, <3>1, <3>2, EmptyPart
  <2> QED
    BY <2>3, <2>4
<1>10. ParseWsUrl(url) =
         IF host = <<>> \/ port = <<>> THEN Failed("InvalidUrl")
         ELSE Parsed(WsUrl(host, port, IF path = <<>> THEN <<"/">> ELSE path))
  BY DEF ParseWsUrl, e, host, port, path, rest
<1>11. WsUrl(host, port, IF path = <<>> THEN <<"/">> ELSE path) = SplitAt(url, c, e)
  BY <1>6, <1>7, <1>8 DEF SplitAt, WsUrl
<1> QED
  BY <1>5, <1>9, <1>10, <1>11

\* Whatever the url is, there is at most one way to take it for
\* wss://host[:port][/...], and parse_ws_url takes it that way (ws_client.cpp:21-64).
THEOREM UrlSplit == ConfigSpec => []UrlIsSplit
<1>1. LoadInv => UrlIsSplit
  <2> SUFFICES ASSUME LoadInv, Accepted PROVE UrlIsSplit
    BY DEF UrlIsSplit
  <2> DEFINE url == Spelling[loaded.value.ws_url]
             result == ParseWsUrl(url)
             splits == IF url # <<>> /\ url[1] = "wss://" THEN Splits(url) ELSE {}
  <2>1. url \in Seq(STRING)
    BY LoadedIsFile, TextsAssumption DEF Accepted
  <2> HIDE DEF url
  <2>2. CASE url = <<>> \/ url[1] # "wss://"
    <3>1. result = Failed("InvalidUrl") /\ splits = {}
      BY <2>2 DEF ParseWsUrl
    <3>2. result.error # None
      BY <3>1 DEF Failed, None
    <3> QED
      BY <3>1, <3>2 DEF UrlIsSplit, url
  <2>3. CASE url # <<>> /\ url[1] = "wss://"
    <3>1. PICK c, e :
            /\ SplitsAt(url, c, e)
            /\ result = IF c = 1 \/ e = c + 1 THEN Failed("InvalidUrl")
                        ELSE Parsed(SplitAt(url, c, e))
      BY <2>1, <2>3, ParserSplits
    <3>2. Ends(url) = IF c = 1 \/ e = c + 1 THEN {} ELSE {<<c, e>>}
      BY <2>1, <3>1, OneSplit
    <3>3. splits = Splits(url)
      BY <2>3
    <3>4. CASE c = 1 \/ e = c + 1
      <4>1. result.error # None
        BY <3>1, <3>4 DEF Failed, None
      <4>2. Splits(url) = {}
        BY <3>2, <3>4 DEF Splits
      <4> QED
        BY <3>3, <4>1, <4>2 DEF UrlIsSplit, url
    <3>5. CASE ~(c = 1 \/ e = c + 1)
      <4>1. result.error = None /\ result.value = SplitAt(url, c, e)
        BY <3>1, <3>5 DEF Parsed, None
      <4>2. Splits(url) = {SplitAt(url, c, e)}
        BY <3>2, <3>5 DEF Splits
      <4> QED
        BY <3>3, <4>1, <4>2 DEF UrlIsSplit, url
    <3> QED
      BY <3>4, <3>5
  <2> QED
    BY <2>2, <2>3
<1> QED
  BY <1>1, LoadedFromFile, PTL

-----------------------------------------------------------------------------
(* The lists of the subscribe command *)

\* The text of a name, if JSON need not escape any of its characters
LEMMA PlainSpells ==
  ASSUME NEW text \in Seq(Chars), IsPlain(text)
  PROVE  Spells(text, text)
<1> DEFINE n == Len(text)
           Q == {k \in 0..n : Spells(SubSeq(text, 1, k), SubSeq(text, 1, k))}
<1>1. n \in Nat /\ DOMAIN text = 1..n
  OBVIOUS
<1>2. 0 \in Q
  <2>1. SubSeq(text, 1, 0) = <<>>
    BY SubSeqEmpty
  <2>2. Spells(SubSeq(text, 1, 0), SubSeq(text, 1, 0))
    BY <2>1, SpellsNothing
  <2>3. 0 \in 0..n
    BY <1>1
  <2> QED
    BY <2>2, <2>3
<1>3. ASSUME NEW k \in 1..n, k - 1 \in Q PROVE k \in Q
  <2>1. SubSeq(text, 1, k) = SubSeq(text, 1, k - 1) \o <<text[k]>>
    <3>1. 1 \in 1..Len(text) /\ k \in 1..Len(text)
      BY <1>1
    <3> QED
      BY <3>1, SubSeqRecursiveSecond
  <2>2. text[k] \in Chars \ Special
    BY <1>1 DEF IsPlain, Special
  <2>3. Spells(<<text[k]>>, <<text[k]>>)
    BY <2>2, SpellsItself
  <2>4. Spells(SubSeq(text, 1, k - 1), SubSeq(text, 1, k - 1))
    BY <1>3
  <2>5. Spells(SubSeq(text, 1, k), SubSeq(text, 1, k))
    BY <2>1, <2>3, <2>4, SpellsOn
  <2> QED
    BY <1>1, <2>5
<1> HIDE DEF Q
<1>4. \A k \in 0..n : k \in Q
  BY <1>1, <1>2, <1>3, UpTo
<1>5. n \in Q
  BY <1>1, <1>4
<1>6. Spells(SubSeq(text, 1, n), SubSeq(text, 1, n))
  BY <1>5 DEF Q
<1> QED
  BY <1>6, SubSeqFull

\* A comma after each part but the last, and before each but the first, is the same.
Trailing(parts) ==
  [i \in DOMAIN parts |-> parts[i] \o (IF i < Len(parts) THEN <<Mark(",")>> ELSE <<>>)]

LEMMA TrailingType ==
  ASSUME NEW parts \in Seq(Seq(Tokens))
  PROVE  /\ Trailing(parts) \in Seq(Seq(Tokens)) /\ Len(Trailing(parts)) = Len(parts)
         /\ Len(parts) \in Nat
         /\ \A i \in 1..Len(parts) :
              Trailing(parts)[i] = parts[i] \o (IF i < Len(parts) THEN <<Mark(",")>> ELSE <<>>)
<1> DEFINE tail(i) == IF i < Len(parts) THEN <<Mark(",")>> ELSE <<>>
           seqs == [i \in DOMAIN parts |-> parts[i] \o tail(i)]
<1>1. DOMAIN parts = 1..Len(parts) /\ Len(parts) \in Nat
  OBVIOUS
<1>2. ASSUME NEW i \in 1..Len(parts) PROVE parts[i] \o tail(i) \in Seq(Tokens)
  <2>1. parts[i] \in Seq(Tokens)
    OBVIOUS
  <2>2. tail(i) \in Seq(Tokens)
    BY CommaIsToken, EmptySeq
  <2> HIDE DEF tail
  <2> QED
    BY <2>1, <2>2, TokensJoin
<1>3. \A i \in 1..Len(parts) : seqs[i] = parts[i] \o tail(i)
  BY <1>1
<1> HIDE DEF tail
<1>4. seqs \in Seq(Seq(Tokens)) /\ Len(seqs) = Len(parts)
  <2>1. seqs = [i \in 1..Len(parts) |-> seqs[i]]
    BY <1>1
  <2>2. \A i \in 1..Len(parts) : seqs[i] \in Seq(Tokens)
    BY <1>2, <1>3
  <2> HIDE DEF seqs
  <2> QED
    BY <1>1, <2>1, <2>2
<1> QED
  BY <1>1, <1>3, <1>4 DEF Trailing, tail

LEMMA TrailingIsJoined ==
  ASSUME NEW parts \in Seq(Seq(Tokens))
  PROVE  FlattenSeq(Trailing(parts)) = Joined(parts)
<1> DEFINE n == Len(parts)
           tail(i) == IF i < n THEN <<Mark(",")>> ELSE <<>>
<1>1. /\ Trailing(parts) \in Seq(Seq(Tokens)) /\ Len(Trailing(parts)) = n
      /\ n \in Nat
      /\ \A i \in 1..n : Trailing(parts)[i] = parts[i] \o tail(i)
  BY TrailingType
<1>2. /\ Commas(parts) \in Seq(Seq(Tokens)) /\ Len(Commas(parts)) = n
      /\ \A i \in 1..n :
           Commas(parts)[i] = IF i > 1 THEN <<Mark(",")>> \o parts[i] ELSE parts[i]
  BY CommasType
<1>3. \A i \in 1..n : parts[i] \in Seq(Tokens)
  OBVIOUS
<1>4. \A i : tail(i) \in Seq(Tokens)
  BY CommaIsToken, EmptySeq
<1>5. \A i \in 1..n : i < n => tail(i) = <<Mark(",")>>
  OBVIOUS
<1>6. tail(n) = <<>>
  <2>1. ~(n < n)
    <3>1. n \in Nat
      BY <1>1
    <3> HIDE DEF n
    <3> QED
      BY <3>1
  <2> QED
    BY <2>1
<1> HIDE DEF tail
<1>7. CASE n = 0
  <2>1. Trailing(parts) = <<>> /\ Commas(parts) = <<>>
    BY <1>1, <1>2, <1>7, EmptySeq
  <2> QED
    BY <2>1 DEF Joined
<1>8. CASE n # 0
  <2>1. Trailing(parts) # <<>> /\ Commas(parts) # <<>>
    BY <1>1, <1>2, <1>8
  <2>2. PICK f \in [1..Len(Trailing(parts)) -> Seq(Tokens)] :
          /\ f[1] = Trailing(parts)[1]
          /\ \A i \in 2..Len(Trailing(parts)) : f[i] = f[i - 1] \o Trailing(parts)[i]
          /\ FlattenSeq(Trailing(parts)) = f[Len(Trailing(parts))]
    BY <1>1, <2>1, Flattening
  <2>3. PICK g \in [1..Len(Commas(parts)) -> Seq(Tokens)] :
          /\ g[1] = Commas(parts)[1]
          /\ \A i \in 2..Len(Commas(parts)) : g[i] = g[i - 1] \o Commas(parts)[i]
          /\ FlattenSeq(Commas(parts)) = g[Len(Commas(parts))]
    BY <1>2, <2>1, Flattening
  <2> DEFINE Q == {k \in 0..n : k >= 1 => f[k] = g[k] \o tail(k)}
  <2>4. 0 \in Q
    BY <1>1
  <2>5. ASSUME NEW k \in 1..n, k - 1 \in Q PROVE k \in Q
    <3>1. CASE k = 1
      <4>1. 1 \in 1..n /\ ~(1 > 1)
        BY <1>1, <1>8
      <4>2. f[1] = parts[1] \o tail(1)
        BY <1>1, <2>2, <4>1
      <4>3. g[1] = parts[1]
        BY <1>2, <2>3, <4>1
      <4>4. f[k] = g[k] \o tail(k)
        BY <3>1, <4>2, <4>3
      <4> QED
        BY <1>1, <4>4
    <3>2. CASE k # 1
      <4> DEFINE c == <<Mark(",")>>
                 p == parts[k]
                 t == tail(k)
                 h == g[k - 1]
      <4>1. k \in 2..n /\ k - 1 >= 1 /\ k - 1 \in 1..n /\ k - 1 < n /\ k > 1
        <5>1. n \in Nat
          BY <1>1
        <5> HIDE DEF n
        <5> QED
          BY <3>2, <5>1
      <4>2. f[k - 1] = h \o c
        BY <1>5, <2>5, <4>1
      <4>3. f[k] = f[k - 1] \o (p \o t)
        BY <1>1, <2>2, <4>1
      <4>4. g[k] = h \o (c \o p)
        BY <1>2, <2>3, <4>1
      <4>5. c \in Seq(Tokens) /\ p \in Seq(Tokens) /\ t \in Seq(Tokens) /\ h \in Seq(Tokens)
        BY <1>2, <1>3, <1>4, <4>1, CommaIsToken
      <4> HIDE DEF c, p, t, h
      <4> DEFINE more == h \o c
                 mine == c \o p
      <4>6. more \in Seq(Tokens) /\ mine \in Seq(Tokens)
        BY <4>5, TokensJoin
      <4>7. more \o p = h \o mine
        BY <4>5, TokensRegroup
      <4> HIDE DEF more, mine
      <4>8. (more \o p) \o t = more \o (p \o t)
        <5>1. more \in Seq(Tokens) /\ p \in Seq(Tokens) /\ t \in Seq(Tokens)
          BY <4>5, <4>6
        <5> QED
          BY <5>1, TokensRegroup
      <4>9. f[k] = more \o (p \o t) /\ g[k] = h \o mine
        BY <4>2, <4>3, <4>4 DEF more, mine
      <4>10. f[k] = g[k] \o t
        BY <4>7, <4>8, <4>9
      <4> QED
        BY <1>1, <4>10 DEF t
    <3> QED
      BY <3>1, <3>2
  <2> HIDE DEF Q
  <2>6. \A k \in 0..n : k \in Q
    BY <1>1, <2>4, <2>5, UpTo
  <2>7. n \in Q
    BY <1>1, <2>6
  <2>8. f[n] = g[n] \o tail(n)
    BY <1>1, <1>8, <2>7 DEF Q
  <2>9. g[n] \in Seq(Tokens)
    <3>1. n \in 1..n
      <4>1. n \in Nat
        BY <1>1
      <4> HIDE DEF n
      <4> QED
        BY <1>8, <4>1
    <3>2. g \in [1..n -> Seq(Tokens)]
      BY <1>2
    <3> QED
      BY <3>1, <3>2
  <2>10. f[n] = g[n]
    BY <1>6, <2>8, <2>9, ConcatEmptySeq
  <2> QED
    BY <1>1, <1>2, <2>2, <2>3, <2>10 DEF Joined
<1> QED
  BY <1>7, <1>8

\* append_string_array writes what is read as the names it was given.
LEMMA ArrayReads ==
  ASSUME NEW items \in Seq(Seq(Chars)), \A i \in DOMAIN items : IsPlain(items[i])
  PROVE  Reads(ArrayText(items), StringTokens(items))
<1> DEFINE n == Len(items)
           end(i) == IF i < n THEN <<",">> ELSE <<>>
           tail(i) == IF i < n THEN <<Mark(",")>> ELSE <<>>
           seqs == [i \in DOMAIN items |-> <<Quote>> \o items[i] \o <<Quote>> \o end(i)]
           parts == TextTokens(items)
           trail == Trailing(parts)
<1>1. /\ parts \in Seq(Seq(Tokens)) /\ Len(parts) = n /\ n \in Nat
      /\ DOMAIN items = 1..n
      /\ \A i \in 1..n : items[i] \in Seq(Chars) /\ parts[i] = <<String(items[i])>>
  BY TextTokensType
<1>2. /\ trail \in Seq(Seq(Tokens)) /\ Len(trail) = n
      /\ \A i \in 1..n : trail[i] = parts[i] \o tail(i)
  BY <1>1, TrailingType
<1>3. ArrayText(items) = <<"[">> \o FlattenSeq(seqs) \o <<"]">>
  BY DEF ArrayText
<1>4. \A i \in 1..n : seqs[i] = <<Quote>> \o items[i] \o <<Quote>> \o end(i)
  BY <1>1
<1>5. ASSUME NEW i \in 1..n PROVE Reads(end(i), tail(i))
  BY PunctuationReads, ReadsNothing
<1> HIDE DEF trail, end, tail
<1>6. ASSUME NEW i \in 1..n PROVE Reads(seqs[i], trail[i])
  <2>1. Spells(items[i], items[i])
    BY <1>1, PlainSpells
  <2>2. Reads(<<Quote>> \o items[i] \o <<Quote>>, <<String(items[i])>>)
    BY <2>1, QuotedReads
  <2>3. Reads(<<Quote>> \o items[i] \o <<Quote>> \o end(i), <<String(items[i])>> \o tail(i))
    BY <1>5, <2>2, ReadsOn
  <2> QED
    BY <1>1, <1>2, <1>4, <2>3
<1>7. seqs \in Seq(Seq(Symbols)) /\ Len(seqs) = n
  <2>1. seqs = [i \in 1..n |-> seqs[i]]
    BY <1>1
  <2>2. \A i \in 1..n : seqs[i] \in Seq(Symbols)
    BY <1>6 DEF Reads
  <2> HIDE DEF seqs
  <2> QED
    BY <1>1, <2>1, <2>2
<1> HIDE DEF seqs, parts
<1>8. Reads(FlattenSeq(seqs), FlattenSeq(trail))
  BY <1>2, <1>6, <1>7, PartsRead
<1>9. FlattenSeq(trail) = Joined(parts)
  BY <1>1, TrailingIsJoined DEF trail
<1>10. Reads(<<"[">>, <<Mark("[")>>) /\ Reads(<<"]">>, <<Mark("]")>>)
  BY PunctuationReads
<1>11. Reads(<<"[">> \o FlattenSeq(seqs), <<Mark("[")>> \o Joined(parts))
  BY <1>8, <1>9, <1>10, ReadsOn
<1>12. Reads(<<"[">> \o FlattenSeq(seqs) \o <<"]">>,
             <<Mark("[")>> \o Joined(parts) \o <<Mark("]")>>)
  BY <1>10, <1>11, ReadsOn
<1>13. StringTokens(items) = <<Mark("[")>> \o Joined(parts) \o <<Mark("]")>>
  BY BetweenIs DEF StringTokens, TextTokens, parts
<1> QED
  BY <1>3, <1>12, <1>13

-----------------------------------------------------------------------------
(* Lines and commands say what the file says *)

\* The texts of the file and of the exchange may be logged.
LEMMA TextsAreChars ==
  /\ \A n \in DOMAIN Spelling : Spelling[n] \in Seq(Chars)
  /\ \A names \in Seq(DOMAIN Spelling) :
       Spelled(names) \in Seq(Seq(Chars)) /\ (Spelled(names) = <<>> <=> names = <<>>)
<1>1. ASSUME NEW n \in DOMAIN Spelling PROVE Spelling[n] \in Seq(Chars)
  <2>1. Spelling[n] \in Seq(STRING)
    BY TextsAssumption DEF TextsAssumption
  <2>2. STRING \subseteq Chars
    BY DEF Chars
  <2> QED
    BY <2>1, <2>2, SeqMonotonic
<1>2. ASSUME NEW names \in Seq(DOMAIN Spelling)
      PROVE  Spelled(names) \in Seq(Seq(Chars)) /\ (Spelled(names) = <<>> <=> names = <<>>)
  <2> DEFINE n == Len(names)
             texts == [i \in 1..n |-> Spelling[names[i]]]
  <2>1. n \in Nat /\ DOMAIN names = 1..n /\ \A i \in 1..n : names[i] \in DOMAIN Spelling
    OBVIOUS
  <2>2. \A i \in 1..n : texts[i] \in Seq(Chars)
    BY <1>1, <2>1
  <2>3. texts = [i \in 1..n |-> texts[i]]
    OBVIOUS
  <2>4. Spelled(names) = texts
    BY <2>1 DEF Spelled
  <2> HIDE DEF texts
  <2>5. texts \in Seq(Seq(Chars)) /\ Len(texts) = n
    BY <2>1, <2>2, <2>3
  <2> QED
    BY <2>4, <2>5, EmptySeq
<1> QED
  BY <1>1, <1>2

LEMMA NamesAreChars ==
  {"info", "warn", "core.config", "md.dispatcher", "logging", "md.ws_client",
   "ws_url", "subscription", "parse_error", "dropped_logs", "ws_open",
   "channels", "market_tickers", "dropped"} \subseteq Chars
  BY DEF Chars, Words

\* What the program logs are events.
LEMMA LoggedAreEvents ==
  ASSUME LoadInv, Accepted
  PROVE  /\ LogConfigEvents(loaded.value) \subseteq LogEvents
         /\ \A error \in DOMAIN Numerals, n \in DOMAIN Spelling :
              ParseErrorEvent(loaded.value, error, Spelling[n]) \in LogEvents
         /\ \A dropped \in DOMAIN Numerals : DroppedEvent(dropped) \in LogEvents
         /\ PlainEvent \in LogEvents
<1> DEFINE config == loaded.value
<1>1. /\ config.ws_url \in DOMAIN Spelling
      /\ config.subscription.channels \in Seq(DOMAIN Spelling)
      /\ config.subscription.market_tickers \in Seq(DOMAIN Spelling)
  BY LoadedIsFile, TextsAssumption DEF TextsAssumption, Accepted
<1> HIDE DEF config
<1>2. LogConfigEvents(config) \subseteq LogEvents
  <2> DEFINE url == LogField("ws_url", Str(Spelling[config.ws_url]))
             channels == LogField("channels", Arr(Spelled(config.subscription.channels)))
             tickers == LogField("market_tickers",
                                 Arr(Spelled(config.subscription.market_tickers)))
  <2>1. url \in LogFieldsOf /\ channels \in LogFieldsOf /\ tickers \in LogFieldsOf
    BY <1>1, NamesAreChars, TextsAreChars, FieldTypes
  <2> HIDE DEF url, channels, tickers
  <2>2. <<url>> \in Seq(LogFieldsOf) /\ <<channels, tickers>> \in Seq(LogFieldsOf)
    BY <2>1
  <2>3. /\ LogEvent("info", "core.config", "ws_url", <<url>>) \in LogEvents
        /\ LogEvent("info", "core.config", "subscription", <<channels, tickers>>) \in LogEvents
    BY <2>2, NamesAreChars, EventTypes, EmptySeq
  <2> QED
    BY <2>3 DEF LogConfigEvents, url, channels, tickers
<1>3. ASSUME NEW error \in DOMAIN Numerals, NEW n \in DOMAIN Spelling
      PROVE  ParseErrorEvent(config, error, Spelling[n]) \in LogEvents
  <2> DEFINE field == LogField("parse_error", Int64(error))
  <2>1. field \in LogFieldsOf /\ Spelling[n] \in Seq(Chars)
    BY NamesAreChars, TextsAreChars, FieldTypes
  <2> HIDE DEF field
  <2>2. <<field>> \in Seq(LogFieldsOf)
    BY <2>1
  <2>3. /\ LogEvent("warn", "md.dispatcher", "parse_error", <<field>>) \in LogEvents
        /\ LogEventRaw("warn", "md.dispatcher", "parse_error", <<field>>, Spelling[n])
             \in LogEvents
    BY <2>1, <2>2, NamesAreChars, EventTypes
  <2> QED
    BY <2>3 DEF ParseErrorEvent, field
<1>4. ASSUME NEW dropped \in DOMAIN Numerals PROVE DroppedEvent(dropped) \in LogEvents
  <2> DEFINE field == LogField("dropped", Int64(dropped))
  <2>1. field \in LogFieldsOf
    BY NamesAreChars, FieldTypes
  <2> HIDE DEF field
  <2>2. <<field>> \in Seq(LogFieldsOf) /\ <<>> \in Seq(Chars)
    BY <2>1, EmptySeq
  <2>3. LogEvent("warn", "logging", "dropped_logs", <<field>>) \in LogEvents
    BY <2>2, NamesAreChars, EventTypes
  <2> QED
    BY <2>3 DEF DroppedEvent, field
<1>5. PlainEvent \in LogEvents
  <2>1. <<>> \in Seq(LogFieldsOf) /\ <<>> \in Seq(Chars)
    BY EmptySeq
  <2> QED
    BY <2>1, NamesAreChars, EventTypes DEF PlainEvent
<1> QED
  BY <1>2, <1>3, <1>4, <1>5 DEF config

\* Every line that write_event (async_json_logger.cpp:238-285) puts in the log
\* is one JSON object on a line of its own that says what was logged, whatever
\* characters the texts of the file and of the exchange are made of.
THEOREM LogLines == ConfigSpec => []LogLinesReadBack
<1>1. LoadInv => LogLinesReadBack
  <2> SUFFICES ASSUME LoadInv, Accepted,
                      NEW event \in LogConfigEvents(loaded.value)
                 \cup {ParseErrorEvent(loaded.value, error, Spelling[n]) :
                          error \in DOMAIN Numerals, n \in DOMAIN Spelling}
                 \cup {DroppedEvent(dropped) : dropped \in DOMAIN Numerals}
                 \cup {PlainEvent}
               PROVE  LET line == WriteEvent(event) IN
                      /\ Means(line, EventTokens(event))
                      /\ {i \in DOMAIN line : line[i] = "LF"} = {Len(line)}
    BY DEF LogLinesReadBack
  <2>1. event \in LogEvents
    BY LoggedAreEvents
  <2> QED
    BY <2>1, AnyLineReadsBack
<1> QED
  BY <1>1, LoadedFromFile, PTL

\* The parameters of the command
LEMMA ParamsRead ==
  ASSUME NEW channels \in Seq(Seq(Chars)), \A i \in DOMAIN channels : IsPlain(channels[i]),
         NEW tickers \in Seq(Seq(Chars)), \A i \in DOMAIN tickers : IsPlain(tickers[i]),
         NEW c \in BOOLEAN
  PROVE  Reads(<<"{">> \o Literal("channels") \o ArrayText(channels)
               \o (IF c THEN <<>> ELSE <<",">> \o Literal("market_tickers") \o ArrayText(tickers))
               \o <<"}">>,
               Between("{", <<Member("channels", StringTokens(channels))>>
                            \o (IF c THEN <<>>
                                ELSE <<Member("market_tickers", StringTokens(tickers))>>), "}"))
<1> DEFINE first == Member("channels", StringTokens(channels))
           text == <<"{">> \o Literal("channels") \o ArrayText(channels)
           parts == <<first>> \o (IF c THEN <<>>
                                  ELSE <<Member("market_tickers", StringTokens(tickers))>>)
           more == text \o (IF c THEN <<>>
                            ELSE <<",">> \o Literal("market_tickers") \o ArrayText(tickers))
<1>1. /\ Reads(ArrayText(channels), StringTokens(channels))
      /\ Reads(ArrayText(tickers), StringTokens(tickers))
  BY ArrayReads
<1>2. "channels" \in Chars \ Special /\ "market_tickers" \in Chars \ Special
  BY KeysAre
<1>3. Reads(text, Opened("{", <<first>>))
  BY <1>1, <1>2, FirstMember
<1>4. first \in Seq(Tokens)
  BY <1>1, <1>2, MemberType DEF Reads
<1> HIDE DEF first, text
<1>5. <<first>> \in Seq(Seq(Tokens)) /\ <<first>> # <<>>
  BY <1>4
<1>6. parts \in Seq(Seq(Tokens)) /\ Reads(more, Opened("{", parts))
  BY <1>1, <1>2, <1>3, <1>5, OptionalMember
<1> HIDE DEF parts, more
<1>7. Reads(more \o <<"}">>, Between("{", parts, "}"))
  BY <1>6, LastMember
<1> QED
  BY <1>7 DEF parts, more, text, first

\* The whole command, around its parameters
LEMMA CommandAround ==
  ASSUME NEW v, NEW tokens, Reads(v, tokens)
  PROVE  Reads(<<"{">> \o Literal("id") \o <<"1">>
               \o <<",">> \o Literal("cmd") \o (<<Quote>> \o <<"subscribe">> \o <<Quote>>)
               \o <<",">> \o Literal("params") \o v
               \o <<"}">>,
               Between("{", <<Member("id", <<Mark("1")>>),
                              Member("cmd", <<String(<<"subscribe">>)>>),
                              Member("params", tokens)>>, "}"))
<1> DEFINE a == Member("id", <<Mark("1")>>)
           b == Member("cmd", <<String(<<"subscribe">>)>>)
           c == Member("params", tokens)
           ab == Append(<<a>>, b)
           abc == Append(ab, c)
           name == <<Quote>> \o <<"subscribe">> \o <<Quote>>
           first == <<"{">> \o Literal("id") \o <<"1">>
           second == first \o <<",">> \o Literal("cmd") \o name
           third == second \o <<",">> \o Literal("params") \o v
<1>1. /\ "id" \in Chars \ Special /\ "cmd" \in Chars \ Special
      /\ "params" \in Chars \ Special /\ "subscribe" \in Chars \ Special
  BY KeysAre
<1>2. Reads(<<"1">>, <<Mark("1")>>) /\ Reads(name, <<String(<<"subscribe">>)>>)
  BY <1>1, PunctuationReads, SpellsItself, QuotedReads
<1>3. a \in Seq(Tokens) /\ b \in Seq(Tokens) /\ c \in Seq(Tokens)
  BY <1>1, <1>2, MemberType DEF Reads
<1>4. Reads(first, Opened("{", <<a>>))
  BY <1>1, <1>2, FirstMember
<1>5. <<a>> \in Seq(Seq(Tokens)) /\ <<a>> # <<>>
  BY <1>3
<1> HIDE DEF first, name
<1>6. ab \in Seq(Seq(Tokens)) /\ ab # <<>> /\ Reads(second, Opened("{", ab))
  BY <1>1, <1>2, <1>4, <1>5, NextMember
<1> HIDE DEF ab, second
<1>7. abc \in Seq(Seq(Tokens)) /\ Reads(third, Opened("{", abc))
  BY <1>1, <1>6, NextMember
<1> HIDE DEF a, b, c
<1>8. abc = <<a, b, c>>
  <2>1. ab = <<a, b>>
    BY <1>3, <1>5, AddOne, TwoItems DEF ab
  <2> QED
    BY <1>3, <1>6, <2>1, AddOne, ThreeItems DEF abc
<1> HIDE DEF abc, third
<1>9. Reads(third \o <<"}">>, Between("{", <<a, b, c>>, "}"))
  BY <1>7, <1>8, LastMember
<1> QED
  BY <1>9 DEF third, second, first, name, a, b, c

\* SubscriptionCommand::build_json (subscribe.hpp:49) writes a command that asks
\* for the channels and tickers of the file, whatever their number, if no name
\* has a character that JSON would have escaped.
THEOREM CommandReads == ConfigSpec => []CommandReadsBack
<1>1. LoadInv => CommandReadsBack
  <2> DEFINE request == BuildRequest(loaded.value)
             names == [channels |-> Spelled(request.value.channels),
                       market_tickers |-> Spelled(request.value.market_tickers)]
             params == <<Member("channels", StringTokens(names.channels))>>
                       \o (IF names.market_tickers = <<>> THEN <<>>
                           ELSE <<Member("market_tickers", StringTokens(names.market_tickers))>>)
  <2> SUFFICES ASSUME LoadInv, Accepted, request.error = None,
                      \A f \in DOMAIN names : \A i \in DOMAIN names[f] : IsPlain(names[f][i])
               PROVE  Means(BuildJson(request.value),
                            Between("{", <<Member("id", <<Mark("1")>>),
                                           Member("cmd", <<String(<<"subscribe">>)>>),
                                           Member("params", Between("{", params, "}"))>>, "}"))
    BY DEF CommandReadsBack
  <2>1. request.value = loaded.value.subscription
    BY DEF BuildRequest, Parsed, Failed, None
  <2>2. /\ request.value.channels \in Seq(DOMAIN Spelling)
        /\ request.value.market_tickers \in Seq(DOMAIN Spelling)
    BY <2>1, LoadedIsFile, TextsAssumption DEF TextsAssumption, Accepted
  <2> DEFINE channels == Spelled(request.value.channels)
             tickers == Spelled(request.value.market_tickers)
             c == request.value.market_tickers = <<>>
  <2>3. /\ channels \in Seq(Seq(Chars)) /\ tickers \in Seq(Seq(Chars))
        /\ (tickers = <<>> <=> c)
    BY <2>2, TextsAreChars
  <2>4. /\ \A i \in DOMAIN channels : IsPlain(channels[i])
        /\ \A i \in DOMAIN tickers : IsPlain(tickers[i])
    <3>1. "channels" \in DOMAIN names /\ "market_tickers" \in DOMAIN names
      OBVIOUS
    <3> QED
      BY <3>1
  <2>5. c \in BOOLEAN
    OBVIOUS
  <2>6. params = <<Member("channels", StringTokens(channels))>>
                 \o (IF c THEN <<>> ELSE <<Member("market_tickers", StringTokens(tickers))>>)
    BY <2>3
  <2> DEFINE text == <<"{">> \o Literal("channels") \o ArrayText(channels)
                     \o (IF c THEN <<>>
                         ELSE <<",">> \o Literal("market_tickers") \o ArrayText(tickers))
                     \o <<"}">>
  <2>7. BuildJson(request.value) =
          <<"{">> \o Literal("id") \o <<"1">>
          \o <<",">> \o Literal("cmd") \o (<<Quote>> \o <<"subscribe">> \o <<Quote>>)
          \o <<",">> \o Literal("params") \o text
          \o <<"}">>
    BY DEF BuildJson
  <2> HIDE DEF params, channels, tickers, c, names, request
  <2>8. Reads(text, Between("{", params, "}"))
    BY <2>3, <2>4, <2>5, <2>6, ParamsRead
  <2> HIDE DEF text
  <2> QED
    BY <2>7, <2>8, CommandAround, ReadIsMeant
<1> QED
  BY <1>1, LoadedFromFile, PTL
=============================================================================
