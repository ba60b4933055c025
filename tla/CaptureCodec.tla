---------------------------- MODULE CaptureCodec ----------------------------
(***************************************************************************)
(* The events of a capture and the line of JSON each becomes               *)
(* (capture_events.rs and event_line, parse_event of                       *)
(* capture_format/jsonl.rs).  An event is <<type, fields>>; an optional    *)
(* field is <<>> or <<value>>, and a text a sequence of symbols.  Nested   *)
(* options of the code are flat here: a failed read without timing has no  *)
(* due_us, started_us and finished_us, a read without a definition none of *)
(* the five definition fields.  A number is counted in thousandths.        *)
(***************************************************************************)
EXTENDS JsonText, RuntimeReducer, FiniteSets

CONSTANTS
    MaxText,      \* the longest text a validated field may hold
    CommitLength, \* the digits of a Git commit
    MaxMode       \* MAX_DIAGNOSTIC_MODE

ASSUME CodecAssumption == {MaxText, CommitLength, MaxMode} \subseteq Nat \ {0}

Schema == <<"OBDENTIC-CAPTURE">>
Version == 1
StateVersion == 1

-----------------------------------------------------------------------------
(* The fields of each event: their names in the written order, their kind. *)

Definition == <<<<"knowledge_definition_id", "caption?">>, <<"knowledge_definition_version", "positive?">>,
                <<"knowledge_confidence", "caption?">>, <<"knowledge_hardware_validation", "caption?">>,
                <<"local_ecu_id", "caption?">>>>

Timing(kind) == <<<<"due_us", kind>>, <<"started_us", kind>>, <<"finished_us", kind>>>>

Evidence == <<<<"request_payload", "hex">>, <<"responder", "text?">>, <<"response_payload", "hex">>>>

\* The beginning of a capture.
OpeningEvents ==
  [capture_started |-> <<<<"wallclock_ms", "u64?">>, <<"profile", "text?">>>>,
   knowledge_context |->
     <<<<"core_version", "caption">>, <<"core_commit", "commit?">>, <<"knowledge_repository", "caption">>,
       <<"knowledge_revision", "commit">>, <<"knowledge_schema_version", "positive">>>>,
   session_initialized |-> <<>>,
   subscription_configured |->
     <<<<"semantic", "text">>, <<"requested_interval_us", "u64">>, <<"filter_outcome", "filter">>>>,
   support_discovery |-> Evidence,
   protocol_negotiation_observed |-> Evidence]

\* The responses to a read, and its success.
ResponseEvents ==
  [responses_observed |->
     <<<<"offset_us", "u64?">>, <<"semantic", "text">>, <<"request_payload", "hex">>,
       <<"responses", "responses">>, <<"selected_responder", "text?">>, <<"selection_error", "text?">>>>]

SuccessEvents ==
  [read_succeeded |->
     <<<<"semantic", "text">>, <<"requested_interval_us", "u64">>>> \o Timing("u64")
       \o <<<<"request_payload", "hex">>, <<"response_payload", "hex">>, <<"value", "value">>,
            <<"unit", "text">>, <<"source", "text">>, <<"profile", "text">>, <<"decoder", "text">>,
            <<"provenance", "text">>>> \o Definition]

\* What did not happen as it should.
FailureEvents ==
  [read_failed |->
     <<<<"semantic", "text">>, <<"requested_interval_us", "u64">>>> \o Timing("u64?")
       \o <<<<"request_payload", "hex?">>, <<"error", "text">>>>,
   slots_skipped |->
     <<<<"semantic", "text">>, <<"count", "u64">>, <<"first_due_us", "u64">>, <<"last_due_us", "u64">>>>,
   session_error |-> <<<<"error", "text">>>>]

\* The runtime's transitions and the end.
RuntimeEvents ==
  [runtime_state_changed |->
     <<<<"transition_sequence", "u64">>, <<"state_version", "u64">>, <<"from", "state">>,
       <<"to", "state">>, <<"event", "event">>>>,
   shutdown_requested |-> <<>>,
   session_stopped |-> <<<<"offset_us", "u64">>>>]

\* A diagnostic job and its evidence.
Job == <<<<"job_id", "short">>>>
Step == Job \o <<<<"step_sequence", "u64">>>>

JobEvents ==
  [diagnostic_job_started |-> Job \o <<<<"model_version", "u64">>, <<"step_count", "u64">>>>,
   diagnostic_job_step |->
     Step \o <<<<"mode", "mode">>, <<"source", "short?">>, <<"status", "step">>, <<"error", "short?">>>>,
   diagnostic_job_completed |-> Job \o <<<<"status", "done">>>>,
   diagnostic_job_failed |-> Job \o <<<<"error", "short">>>>,
   diagnostic_job_cancelled |-> Job]

DtcEvents ==
  [dtc_transport_observed |->
     Step \o <<<<"responder", "short?">>, <<"outcome", "outcome">>, <<"reason", "short?">>>>,
   dtc_observation |->
     Step \o <<<<"responder", "short?">>, <<"fact", "fact">>, <<"decoder", "short">>, <<"provenance", "short">>>>]

\* All of them.
FieldTable == OpeningEvents @@ ResponseEvents @@ SuccessEvents @@ FailureEvents @@ RuntimeEvents @@ JobEvents @@ DtcEvents

EventTypes == DOMAIN FieldTable
FieldsOf(type) == FieldTable[type]

Names(fields) == {fields[i][1] : i \in DOMAIN fields}

\* The fields an older recorder did not write yet: all of them are there, or
\* none is.
LaterFields(type) ==
    CASE type = "support_discovery"     -> {"responder"}
      [] type = "responses_observed"    -> {"offset_us"}
      [] type = "read_succeeded"        -> Names(Definition)
      [] type = "runtime_state_changed" -> {"transition_sequence"}
      [] OTHER -> {}

AbsentValue(name) == IF name = "transition_sequence" THEN 0 ELSE <<>>

\* The words a field may be.
Words ==
  [filter  |-> {"scheduled", "unsupported", "unknown"},
   step    |-> {"success", "recoverable", "fatal", "skipped"},
   done    |-> {"completed", "completed_with_errors"},
   outcome |-> {"response", "no_response", "malformed", "error"}]

Required ==
  [k \in {"text?", "u64?", "hex?", "caption?", "commit?", "positive?", "short?"} |->
     CASE k = "text?" -> "text" [] k = "u64?" -> "u64" [] k = "hex?" -> "hex" [] k = "caption?" -> "caption"
       [] k = "commit?" -> "commit" [] k = "positive?" -> "positive" [] k = "short?" -> "short"]

-----------------------------------------------------------------------------
(* The checks of capture_events.rs. *)

Blank == {" ", "\t", "\r", "\n"}

ValidText(t) ==
    /\ \E i \in DOMAIN t : t[i] \notin Blank
    /\ Len(t) <= MaxText
    /\ \A i \in DOMAIN t : ~IsControl(t[i])

HexDigits == {"0", "1", "2", "3", "4", "5", "6", "7", "8", "9", "A", "B", "C", "D", "E", "F"}

ValidCommit(t) ==
    ValidText(t) /\ Len(t) = CommitLength /\ \A i \in DOMAIN t : t[i] \in HexDigits \cup {"a", "b", "c", "d", "e", "f"}

ValidMode(mode) == mode \in 1..MaxMode

ValidDtcCode(t) ==
    /\ Len(t) = 5 /\ t[1] \in {"P", "C", "B", "U"}
    /\ \A i \in 2..5 : t[i] \in HexDigits

ValidFact(fact) ==
    CASE fact[1] = "dtc" -> ValidDtcCode(fact[2])
      [] fact[1] = "no_dtcs" -> TRUE
      [] fact[1] = "decode_error" -> ValidText(fact[2])

\* A definition has an id and a version, or there is none.
ValidDefinition(f) ==
    IF f.knowledge_definition_id = <<>>
    THEN \A name \in Names(Definition) : f[name] = <<>>
    ELSE f.knowledge_definition_version # <<>>

IsMonotonic(f) == f.due_us <= f.started_us /\ f.started_us <= f.finished_us

ValidTiming(f) ==
    \/ f.due_us = <<>> /\ f.started_us = <<>> /\ f.finished_us = <<>>
    \/ /\ f.due_us # <<>> /\ f.started_us # <<>> /\ f.finished_us # <<>>
       /\ f.due_us[1] <= f.started_us[1] /\ f.started_us[1] <= f.finished_us[1]

ValidNegotiation(f) ==
    /\ f.request_payload = <<1, 0>>
    /\ Len(f.response_payload) = 6 /\ f.response_payload[1] = 65 /\ f.response_payload[2] = 0
    /\ f.responder = <<>> \/ ValidText(f.responder[1])

ValidResponses(f) ==
    /\ f.request_payload # <<>> /\ f.responses # <<>>
    /\ \A i \in DOMAIN f.responses : f.responses[i].payload # <<>>

ValidOutcome(f) == (f.outcome = "error") <=> (f.reason # <<>>)

\* The checks an event's fields are subject to as a whole.
ValidFields(type, f) ==
    CASE type = "read_succeeded" -> IsMonotonic(f) /\ ValidDefinition(f)
      [] type = "read_failed" -> ValidTiming(f)
      [] type = "protocol_negotiation_observed" -> ValidNegotiation(f)
      [] type = "responses_observed" -> ValidResponses(f)
      [] type = "dtc_transport_observed" -> ValidOutcome(f)
      [] type = "runtime_state_changed" -> f.state_version = StateVersion
      [] OTHER -> TRUE

\* The checks of one field: those the writer makes too, and all of them.
ValidWhenWritten(kind, v) ==
    CASE kind = "short" -> ValidText(v)
      [] kind = "mode" -> ValidMode(v)
      [] kind = "done" -> v \in Words.done
      [] kind = "fact" -> ValidFact(v)
      [] kind = "value" -> v[1] # "nonfinite"
      [] OTHER -> TRUE

ValidWhenRead(kind, v) ==
    CASE kind = "caption" -> ValidText(v)
      [] kind = "commit" -> ValidCommit(v)
      [] kind = "positive" -> v > 0
      [] kind \in DOMAIN Words -> v \in Words[kind]
      [] OTHER -> ValidWhenWritten(kind, v)

Each(kind, v, Check(_, _)) ==
    IF kind \in DOMAIN Required THEN v = <<>> \/ Check(Required[kind], v[1]) ELSE Check(kind, v)

\* event_line refuses an event before it writes any of it.
Writable(e) ==
    \A i \in DOMAIN FieldsOf(e[1]) :
        LET field == FieldsOf(e[1])[i] IN Each(field[2], e[2][field[1]], ValidWhenWritten)

\* What the constructors let through, and what parse_event accepts.
Readable(e) ==
    /\ \A i \in DOMAIN FieldsOf(e[1]) :
        LET field == FieldsOf(e[1])[i] IN Each(field[2], e[2][field[1]], ValidWhenRead)
    /\ ValidFields(e[1], e[2])

-----------------------------------------------------------------------------
(* Conversions between values and texts; a parser returns <<>> or <<value>>. *)

\* What comes of a result, if there is one.
AndThen(result, K(_)) == IF result = <<>> THEN <<>> ELSE K(result[1])

HexDigit == <<"0", "1", "2", "3", "4", "5", "6", "7", "8", "9", "A", "B", "C", "D", "E", "F">>

SplitAt(text, separator) ==
    LET split[n \in 0 .. Len(text)] ==
            IF n = 0 THEN <<<<>>>>
            ELSE LET parts == split[n - 1]
                 IN  IF text[n] = separator THEN Append(parts, <<>>)
                     ELSE [parts EXCEPT ![Len(parts)] = Append(@, text[n])]
    IN  split[Len(text)]

\* The parts, with the separator between them.
Joined(parts, separator) ==
    FlattenSeq([i \in DOMAIN parts |-> (IF i = 1 THEN <<>> ELSE <<separator>>) \o parts[i]])

\* All the results, when every one of them is one.
AllOf(results) ==
    LET all == FlattenSeq(results) IN IF Len(all) < Len(results) THEN <<>> ELSE <<all>>

HexText(bytes) ==
    Joined([i \in DOMAIN bytes |-> <<HexDigit[(bytes[i] \div 16) + 1], HexDigit[(bytes[i] % 16) + 1]>>], " ")

ParseHex(text) ==
    LET value(d) == (CHOOSE i \in DOMAIN HexDigit : HexDigit[i] = d) - 1
        tokens == SplitAt(text, " ")
    IN  IF text = <<>> THEN <<<<>>>>
        ELSE AllOf([i \in DOMAIN tokens |->
                IF Len(tokens[i]) = 2 /\ Range(tokens[i]) \subseteq HexDigits
                THEN <<16 * value(tokens[i][1]) + value(tokens[i][2])>> ELSE <<>>])

ToNumber(text) ==
    LET number[n \in 0 .. Len(text)] ==
            IF n = 0 THEN 0 ELSE 10 * number[n - 1] + (CHOOSE i \in DOMAIN Digits : Digits[i] = text[n]) - 1
    IN  number[Len(text)]

\* A u64 field has only digits.
ParseNatural(text) == IF \A i \in DOMAIN text : IsDigit(text[i]) THEN <<ToNumber(text)>> ELSE <<>>

\* A number as the shortest text that has its value: thousandths without
\* trailing zeros.
NumberText(n) ==
    LET m == IF n < 0 THEN -n ELSE n
        f == m % 1000
        places == IF f % 100 = 0 THEN <<f \div 100>>
                  ELSE IF f % 10 = 0 THEN <<f \div 100, (f \div 10) % 10>>
                  ELSE <<f \div 100, (f \div 10) % 10, f % 10>>
    IN  (IF n < 0 THEN <<"-">> ELSE <<>>) \o Decimal[m \div 1000]
          \o (IF f = 0 THEN <<>> ELSE <<".">> \o [i \in DOMAIN places |-> Digits[places[i] + 1]])

NumberValue(text) ==
    LET negative == text # <<>> /\ text[1] = "-"
        parts == SplitAt(IF negative THEN Tail(text) ELSE text, ".")
        f == IF Len(parts) = 1 THEN <<>> ELSE parts[2]
        places == [i \in 1..3 |-> IF i <= Len(f) THEN f[i] ELSE "0"]
        m == 1000 * ToNumber(parts[1]) + ToNumber(places)
    IN  IF negative THEN -m ELSE m

\* RuntimeState::serialize and parse: nine fields in a fixed order, each of
\* them read back whatever the order.
StateNames == <<"phase", "activity", "transport", "vehicle", "topology", "recording", "source", "safety">>

StateField(s, name) ==
    CASE name = "phase" -> s.phase [] name = "activity" -> s.activity [] OTHER -> s.context[name]

StateDomain(name) ==
    CASE name = "phase" -> Phase [] name = "activity" -> Activity [] OTHER -> ContextDomain[name]

StateText(s) ==
    Joined(<<<<"state_version", "=">> \o Decimal[StateVersion]>>
             \o [i \in DOMAIN StateNames |->
                    <<StateNames[i], "=", StateNames[i], "/", StateField(s, StateNames[i])>>], ";")

ParseState(text) ==
    LET fields == SplitAt(text, ";")
        named(name) == {i \in DOMAIN fields : Len(fields[i]) > 2 /\ fields[i][1] = name /\ fields[i][2] = "="}
        rest(name) == SubSeq(fields[CHOOSE i \in named(name) : TRUE], 3, Len(fields[CHOOSE i \in named(name) : TRUE]))
        known(name) == Len(rest(name)) = 3 /\ rest(name)[1] = name /\ rest(name)[3] \in StateDomain(name)
    IN  IF /\ Len(fields) = Len(StateNames) + 1
           /\ \A name \in Range(StateNames) \cup {"state_version"} : Cardinality(named(name)) = 1
        THEN IF rest("state_version") = Decimal[StateVersion] /\ \A name \in Range(StateNames) : known(name)
             THEN <<[phase |-> rest("phase")[3], activity |-> rest("activity")[3],
                     context |-> [d \in Dimension |-> rest(d)[3]]]>>
             ELSE <<>>
        ELSE <<>>

\* The spellings of a context event: two general ones, and one of the
\* dimension's own.
OwnSpelling ==
    [transport |-> "TransportChanged", vehicle |-> "VehicleChanged", topology |-> "TopologyChanged",
     recording |-> "RecordingChanged", source |-> "SourceChanged", safety |-> "SafetyChanged"]

RuntimeEventName(e) ==
    IF e.kind \in LifecycleKind THEN <<e.kind>> ELSE <<e.kind, ":", e.dim, "/", e.value>>

ParseContextUpdate(text) ==
    IF Len(text) = 3 /\ text[1] \in Dimension /\ text[2] = "/"
    THEN IF text[3] \in ContextDomain[text[1]] THEN <<[dim |-> text[1], value |-> text[3]]>> ELSE <<>>
    ELSE <<>>

ParseRuntimeEvent(text) ==
    LET update == ParseContextUpdate(SubSeq(text, 3, Len(text)))
    IN  CASE Len(text) = 1 -> IF text[1] \in LifecycleKind THEN <<Lifecycle(text[1])>> ELSE <<>>
          [] Len(text) > 2 /\ update # <<>> ->
                IF text[2] = ":" /\ text[1] \in {"ContextUpdated", "ContextChanged", OwnSpelling[update[1].dim]}
                THEN <<[kind |-> text[1], dim |-> update[1].dim, value |-> update[1].value]>> ELSE <<>>
          [] OTHER -> <<>>

-----------------------------------------------------------------------------
(* Between a field and its JSON value. *)

Member(members, name) ==
    LET at == {i \in DOMAIN members : members[i][1] = name}
    IN  IF at = {} THEN <<>> ELSE <<members[CHOOSE i \in at : TRUE][2]>>

FieldsExact(members, names) == {members[i][1] : i \in DOMAIN members} = names

StringField(members, name) ==
    LET v == Member(members, name)
    IN  IF v = <<>> THEN <<>> ELSE IF v[1][1] = "string" THEN <<v[1][2]>> ELSE <<>>

PushValue(v) ==
    LET typed(name, json) == <<"object", <<<<"type", Str(<<v[1]>>)>>, <<name, json>>>>>>
    IN  CASE v[1] = "number" -> typed("value", <<"number", NumberText(v[2])>>)
          [] v[1] = "boolean" -> typed("value", Bool(v[2]))
          [] v[1] \in {"enum", "text"} -> typed("value", Str(v[2]))
          [] v[1] = "unavailable" -> typed("reason", Str(v[2]))

ParseTyped(json) ==
    LET members == json[2]
        type == StringField(members, "type")
        content(name) == Member(members, name)
        has(name) == FieldsExact(members, {"type", name})
    IN  CASE json[1] # "object" \/ type = <<>> -> <<>>
          [] type = <<<<"number">>>> /\ has("value") ->
                IF content("value")[1][1] = "number" THEN <<<<"number", NumberValue(content("value")[1][2])>>>> ELSE <<>>
          [] type = <<<<"boolean">>>> /\ has("value") ->
                IF content("value")[1][1] = "bool" THEN <<<<"boolean", content("value")[1][2]>>>> ELSE <<>>
          [] type \in {<<<<"enum">>>>, <<<<"text">>>>} /\ has("value") ->
                IF content("value")[1][1] = "string" THEN <<<<type[1][1], content("value")[1][2]>>>> ELSE <<>>
          [] type = <<<<"unavailable">>>> /\ has("reason") ->
                IF content("reason")[1][1] = "string" THEN <<<<"unavailable", content("reason")[1][2]>>>> ELSE <<>>
          [] OTHER -> <<>>

PushFact(fact) ==
    LET type == <<"type", Str(<<fact[1]>>)>>
    IN  <<"object", CASE fact[1] = "dtc" -> <<type, <<"code", Str(fact[2])>>>>
                      [] fact[1] = "no_dtcs" -> <<type>>
                      [] fact[1] = "decode_error" -> <<type, <<"error", Str(fact[2])>>>>>>

ParseFact(json) ==
    LET members == json[2]
        type == StringField(members, "type")
        body(name) == IF FieldsExact(members, {"type", name}) THEN StringField(members, name) ELSE <<>>
        read(name) == IF body(name) = <<>> THEN <<>> ELSE <<<<type[1][1], body(name)[1]>>>>
    IN  CASE json[1] # "object" \/ type = <<>> -> <<>>
          [] type = <<<<"dtc">>>> -> read("code")
          [] type = <<<<"no_dtcs">>>> -> IF FieldsExact(members, {"type"}) THEN <<<<"no_dtcs", <<>>>>>> ELSE <<>>
          [] type = <<<<"decode_error">>>> -> read("error")
          [] OTHER -> <<>>

OptionalString(opt) == IF opt = <<>> THEN Null ELSE Str(opt[1])

PushResponses(responses) ==
    <<"array", [i \in DOMAIN responses |->
        <<"object", <<<<"responder", OptionalString(responses[i].responder)>>,
                      <<"payload", Str(HexText(responses[i].payload))>>>>>>]>>

ParseResponderEvidence(json) ==
    LET members == json[2]
        responder == Member(members, "responder")
        payload == StringField(members, "payload")
    IN  IF json[1] # "object" \/ ~FieldsExact(members, {"responder", "payload"}) \/ payload = <<>> THEN <<>>
        ELSE IF ParseHex(payload[1]) = <<>> \/ responder[1][1] \notin {"null", "string"} THEN <<>>
        ELSE <<[responder |-> IF responder[1][1] = "null" THEN <<>> ELSE <<responder[1][2]>>,
                payload |-> ParseHex(payload[1])[1]]>>

\* A field of a kind as JSON, and back.
ToJson(kind, v) ==
    CASE kind \in {"u64", "positive", "mode"} -> Num(v)
      [] kind = "hex" -> Str(HexText(v))
      [] kind \in DOMAIN Words -> Str(<<v>>)
      [] kind = "value" -> PushValue(v)
      [] kind = "fact" -> PushFact(v)
      [] kind = "responses" -> PushResponses(v)
      [] kind = "state" -> Str(StateText(v))
      [] kind = "event" -> Str(RuntimeEventName(v))
      [] OTHER -> Str(v)

FromJson(kind, json) ==
    CASE kind \in {"u64", "positive", "mode"} ->
            IF json[1] = "number" THEN ParseNatural(json[2]) ELSE <<>>
      [] kind = "value" -> ParseTyped(json)
      [] kind = "fact" -> ParseFact(json)
      [] kind = "responses" ->
            IF json[1] = "array"
            THEN AllOf([i \in DOMAIN json[2] |-> ParseResponderEvidence(json[2][i])]) ELSE <<>>
      [] OTHER ->
            IF json[1] # "string" THEN <<>>
            ELSE CASE kind = "hex" -> ParseHex(json[2])
                   [] kind \in DOMAIN Words -> IF Len(json[2]) = 1 THEN <<json[2][1]>> ELSE <<>>
                   [] kind = "state" -> ParseState(json[2])
                   [] kind = "event" -> ParseRuntimeEvent(json[2])
                   [] OTHER -> <<json[2]>>

PushField(kind, v) ==
    IF kind \in DOMAIN Required THEN IF v = <<>> THEN Null ELSE ToJson(Required[kind], v[1])
    ELSE ToJson(kind, v)

ParseField(kind, json) ==
    IF kind \notin DOMAIN Required THEN FromJson(kind, json)
    ELSE IF json[1] = "null" THEN <<<<>>>>
    ELSE AndThen(FromJson(Required[kind], json), LAMBDA v : <<<<v>>>>)

-----------------------------------------------------------------------------
(* Lines. *)

Prefix(type) ==
    <<<<"schema", Str(Schema)>>, <<"version", Num(Version)>>, <<"type", Str(<<type>>)>>>>

Header == Push(<<"object", Prefix("header")>>)

EventLine(sequence, e) ==
    LET fields == FieldsOf(e[1])
    IN  Push(<<"object", Prefix(e[1]) \o <<<<"sequence", Num(sequence)>>>>
                \o [i \in DOMAIN fields |-> <<fields[i][1], PushField(fields[i][2], e[2][fields[i][1]])>>]>>)

\* expect_schema.
HasSchema(members) ==
    /\ StringField(members, "schema") = <<Schema>>
    /\ Member(members, "version") = <<Num(Version)>>

\* Whether a line has none of the fields an older recorder did not write.
IsOlder(members, type) ==
    LET later == LaterFields(type)
    IN  later # {} /\ (IF type = "read_succeeded" THEN Member(members, "knowledge_definition_id") = <<>>
                       ELSE \A name \in later : Member(members, name) = <<>>)

\* The event with these fields; those it does not have are absent.
EventWith(type, fields, values) ==
    <<type, [name \in Names(FieldsOf(type)) |->
                IF name \in Names(fields) THEN values[CHOOSE i \in DOMAIN fields : fields[i][1] = name]
                ELSE AbsentValue(name)]>>

Checked(e) == IF Readable(e) THEN <<e>> ELSE <<>>

ParseFields(members, type, fields) ==
    IF ~FieldsExact(members, {"schema", "version", "type", "sequence"} \cup Names(fields)) THEN <<>>
    ELSE AndThen(AllOf([i \in DOMAIN fields |-> ParseField(fields[i][2], Member(members, fields[i][1])[1])]),
             LAMBDA values : Checked(EventWith(type, fields, values)))

ParseEvent(members) ==
    LET type == StringField(members, "type")[1][1]
    IN  ParseFields(members, type,
                    IF IsOlder(members, type)
                    THEN SelectSeq(FieldsOf(type), LAMBDA f : f[1] \notin LaterFields(type)) ELSE FieldsOf(type))

\* One line of the file: its sequence number and its event.
ParseLine(text) ==
    AndThen(ParseObject(text), LAMBDA members :
        LET type == StringField(members, "type")
            sequence == Member(members, "sequence")
        IN  IF ~HasSchema(members) \/ type = <<>> \/ sequence = <<>> THEN <<>>
            ELSE IF Len(type[1]) # 1 \/ type[1][1] \notin EventTypes \/ sequence[1][1] # "number" THEN <<>>
            ELSE AndThen(ParseEvent(members), LAMBDA e :
                     <<[sequence |-> ToNumber(sequence[1][2]), event |-> e]>>))

=============================================================================
