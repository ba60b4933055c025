---------------------------- MODULE VehicleCodec ----------------------------
(***************************************************************************)
(* The text of a vehicle cache record: what the store writes for a record  *)
(* and what it accepts back, for every version of the format.  A text is a *)
(* sequence of symbols; a word of the format ("physical", "capability") is *)
(* one symbol.  Vectors the code keeps sorted are sets here, so that their *)
(* order is not part of a record; an optional value is <<>> or <<value>>.  *)
(***************************************************************************)
EXTENDS Integers, Sequences, FiniteSets, SequencesExt, TLC

CONSTANTS
    MaxBytes,       \* the longest payload a record may hold
    MaxReferences,  \* MAX_PROVIDER_EVIDENCE_REFERENCES and its like for entries
    MaxEntries,     \* MAX_PROVIDER_ENTRIES
    VinSymbols,     \* the characters a VIN may have,
    VinLength       \* and how many of them in a row make a raw VIN

ASSUME CodecAssumption == {MaxBytes, MaxReferences, MaxEntries, VinLength} \subseteq Nat

Tab == "\t"
Digits == <<"0", "1", "2", "3", "4", "5", "6", "7", "8", "9", "a", "b", "c", "d", "e", "f">>
Digit(n) == Digits[n + 1]

Decimal[n \in Nat] ==
    IF n < 10 THEN <<Digit(n)>> ELSE Append(Decimal[n \div 10], Digit(n % 10))

Hex(bytes) == FlattenSeq([i \in DOMAIN bytes |-> <<Digit(bytes[i] \div 16), Digit(bytes[i] % 16)>>])

Escape(text) ==
    FlattenSeq([i \in DOMAIN text |->
        CASE text[i] = "\\" -> <<"\\", "\\">> [] text[i] = Tab -> <<"\\", "t">>
          [] text[i] = "\r" -> <<"\\", "r">>  [] text[i] = "\n" -> <<"\\", "n">>
          [] OTHER -> <<text[i]>>])

EncodeFields(fields) ==
    FlattenSeq([i \in DOMAIN fields |-> (IF i = 1 THEN <<>> ELSE <<Tab>>) \o Escape(fields[i])])

-----------------------------------------------------------------------------
(* Encoding: a sequence of fields for each kind of value. *)

Flag(b) == <<IF b THEN "1" ELSE "0">>

\* An optional value: its flag, then its fields.
Maybe(opt, Encode(_)) == IF opt = <<>> THEN <<Flag(FALSE)>> ELSE <<Flag(TRUE)>> \o Encode(opt[1])

\* A vector: its length, then its items.
Counted(items, Encode(_)) ==
    <<Decimal[Len(items)]>> \o FlattenSeq([i \in DOMAIN items |-> Encode(items[i])])

One(text) == <<text>>
Word(w) == <<w>>

\* Protocol, AddressingContext and EcuRole: a word of the format or the
\* vendor's own.
EncodeEnum(e) == IF Len(e) = 1 THEN e ELSE <<"vendor:">> \o e[2]

EncodeContext(c) == <<EncodeEnum(c.protocol), EncodeEnum(c.addressing)>>

EncodeProvenance(p) == <<p.source, Word(p.confidence)>>

EncodeResponder(r) == EncodeContext(r.context) \o <<Word(r.kind), r.value>>

EncodeTarget(t) ==
    EncodeContext(t.context) \o Maybe(t.address, LAMBDA a : <<a.namespace, a.value>>)

EncodeRoleAssignment(r) == <<EncodeEnum(r.role)>> \o EncodeProvenance(r.provenance)

EncodeTopologyObservation(o) ==
    EncodeContext(o.context) \o EncodeResponder(o.responder)
      \o Maybe(o.payload, LAMBDA b : <<Hex(b)>>)
      \o Maybe(o.window, LAMBDA w : <<Decimal[w.first], Decimal[w.last]>>)
      \o EncodeProvenance(o.provenance)

EncodeCapabilityPage(p) ==
    <<Decimal[p.request[1]], Decimal[p.request[2]], Hex(p.payload)>> \o EncodeProvenance(p.provenance)

EncodeTargetMapping(m) ==
    Maybe(m.role, EncodeRoleAssignment) \o Maybe(m.responder, EncodeResponder)
      \o EncodeTarget(m.target) \o EncodeProvenance(m.provenance)

EncodeIdentification(o) ==
    EncodeTarget(o.target) \o EncodeResponder(o.expected)
      \o <<o.semantic, o.definition, Decimal[o.version], o.repository, o.revision,
           Hex(o.request), Word(o.status)>>
      \o Maybe(o.nrc, LAMBDA n : <<Decimal[n]>>)
      \o Maybe(o.value, LAMBDA b : <<Hex(b)>>)
      \o Counted(o.responses, LAMBDA r : Maybe(r.responder, EncodeResponder) \o <<Hex(r.payload)>>)
      \o Counted(o.errors, One)

EncodeInstalledEcu(e) ==
    EncodeContext(e.context)
      \o Maybe(e.identity, LAMBDA i : i) \o Maybe(e.logical, LAMBDA l : l)
      \o EncodeProvenance(e.provenance)
      \o Maybe(e.target, LAMBDA t : EncodeTarget(t.target) \o EncodeProvenance(t.provenance))
      \o Counted(SetToSeq(e.references), One)

EncodeProviderResult(r) ==
    <<r.name, Decimal[r.version]>>
      \o Maybe(r.scope.manufacturer, One) \o Maybe(r.scope.platform, One)
      \o EncodeProvenance(r.provenance) \o <<Word(r.status), Word(r.coverage)>>
      \o Counted(SetToSeq(r.references), One)
      \o Counted(SetToSeq(r.entries), EncodeInstalledEcu)

Line(tag, fields) == <<tag, Tab>> \o EncodeFields(fields)
Lines(tag, items, Encode(_)) == [i \in DOMAIN items |-> Line(tag, Encode(items[i]))]

\* The lines of a record in the current version.
EncodeRecord(c) ==
    LET s == c.snapshot
        capabilities == SetToSeq(s.capabilities)
        Capability(i) ==
            <<Line("capability", <<Decimal[i - 1]>> \o EncodeResponder(capabilities[i].responder))>>
              \o Lines("capability_page", SetToSeq(capabilities[i].pages),
                       LAMBDA p : <<Decimal[i - 1]>> \o EncodeCapabilityPage(p))
    IN  << <<"version 5">>, Line("local_key", <<c.key>>),
           Line("first_seen_ms", <<Decimal[c.first]>>), Line("last_seen_ms", <<Decimal[c.last]>>) >>
          \o Lines("topology", SetToSeq(s.topology), EncodeTopologyObservation)
          \o FlattenSeq([i \in DOMAIN capabilities |-> Capability(i)])
          \o Lines("target_mapping", SetToSeq(s.mappings), EncodeTargetMapping)
          \o Lines("ecu_identification", SetToSeq(s.identification), EncodeIdentification)
          \o Lines("topology_provider", SetToSeq(s.providers), EncodeProviderResult)
          \o Lines("history", SetToSeq(c.history), One)

-----------------------------------------------------------------------------
(* Parsing: a parser takes the fields and where it stands, and yields a    *)
(* value and where it stopped, or fails.                                   *)

Got(v, i) == [ok |-> TRUE, v |-> v, i |-> i]
Bad == [ok |-> FALSE, v |-> <<>>, i |-> 0]
Then(r, K(_, _)) == IF r.ok THEN K(r.v, r.i) ELSE Bad
Check(b, v, i) == IF b THEN Got(v, i) ELSE Bad

Split(line) ==
    FoldLeft(LAMBDA fields, c :
                IF c = Tab THEN Append(fields, <<>>)
                ELSE [fields EXCEPT ![Len(fields)] = Append(@, c)],
             << <<>> >>, line)

Unescape(text) ==
    LET Step(s, c) ==
            CASE ~s.open /\ c = "\\" -> [s EXCEPT !.open = TRUE]
              [] ~s.open -> [s EXCEPT !.v = Append(@, c)]
              [] c \in {"\\", "t", "r", "n"} ->
                    [s EXCEPT !.open = FALSE,
                              !.v = Append(@, CASE c = "t" -> Tab [] c = "r" -> "\r" [] c = "n" -> "\n" [] OTHER -> c)]
              [] OTHER -> [s EXCEPT !.ok = FALSE]
        end == FoldLeft(Step, [ok |-> TRUE, v |-> <<>>, open |-> FALSE], text)
    IN  Check(end.ok /\ ~end.open, end.v, 0)

Field(f, i) == IF i <= Len(f) THEN Got(f[i], i + 1) ELSE Bad
FinishFields(f, r) == IF r.ok /\ r.i = Len(f) + 1 THEN r ELSE Bad

DigitOf(c) == CHOOSE n \in 0..15 : Digit(n) = c
Numbers(base) == {Digit(n) : n \in 0..(base - 1)}

ParseNumber(f, i) ==
    Then(Field(f, i), LAMBDA t, j :
        IF t # <<>> /\ \A k \in DOMAIN t : t[k] \in Numbers(10)
        THEN Got(FoldLeft(LAMBDA n, c : 10 * n + DigitOf(c), 0, t), j)
        ELSE Bad)

ParseBytes(f, i) ==
    Then(Field(f, i), LAMBDA t, j :
        IF Len(t) % 2 = 0 /\ \A k \in DOMAIN t : t[k] \in Numbers(16)
        THEN Got([k \in 1..(Len(t) \div 2) |-> 16 * DigitOf(t[2 * k - 1]) + DigitOf(t[2 * k])], j)
        ELSE Bad)

ParseOneOf(f, i, words) ==
    Then(Field(f, i), LAMBDA t, j :
        IF Len(t) = 1 /\ t[1] \in words THEN Got(t[1], j) ELSE Bad)

ParseEnum(f, i, words) ==
    Then(Field(f, i), LAMBDA t, j :
        IF Len(t) = 1 /\ t[1] \in words THEN Got(t, j)
        ELSE IF t # <<>> /\ t[1] = "vendor:" THEN Got(<<"VendorSpecific", Tail(t)>>, j) ELSE Bad)

ParseMaybe(f, i, P(_, _)) ==
    Then(ParseOneOf(f, i, {"0", "1"}), LAMBDA flag, j :
        IF flag = "0" THEN Got(<<>>, j) ELSE Then(P(f, j), LAMBDA v, k : Got(<<v>>, k)))

ParseCounted(f, i, max, P(_, _)) ==
    Then(ParseNumber(f, i), LAMBDA n, j :
        IF n > max THEN Bad
        ELSE FoldLeft(LAMBDA r, k :
                        Then(r, LAMBDA items, at :
                            Then(P(f, at), LAMBDA v, next : Got(Append(items, v), next))),
                      Got(<<>>, j), [k \in 1..n |-> k]))

\* Two fields, as the namespace and the value of an address.
ParsePair(f, i) == Then(Field(f, i), LAMBDA a, j : Then(Field(f, j), LAMBDA b, k : Got(<<a, b>>, k)))

Protocols == {"obd2", "uds", "can", "doip", "unknown"}
Addressings == {"functional", "physical", "unknown"}
Roles == {"engine", "transmission", "gateway", "unknown"}
Confidences == {"unknown", "low", "medium", "high", "verified"}

ParseContext(f, i) ==
    Then(ParseEnum(f, i, Protocols), LAMBDA p, j :
        Then(ParseEnum(f, j, Addressings), LAMBDA a, k :
            Got([protocol |-> p, addressing |-> a], k)))

\* A source is never empty (Provenance::new).
ParseProvenance(f, i) ==
    Then(Field(f, i), LAMBDA s, j :
        Then(ParseOneOf(f, j, Confidences), LAMBDA c, k :
            Check(s # <<>>, [source |-> s, confidence |-> c], k)))

ParseResponder(f, i) ==
    Then(ParseContext(f, i), LAMBDA c, j :
        Then(ParseOneOf(f, j, {"address", "opaque", "unknown"}), LAMBDA kind, k :
            Then(Field(f, k), LAMBDA v, l :
                Check(kind = "unknown" => v = <<>>, [context |-> c, kind |-> kind, value |-> v], l))))

ParseTarget(f, i) ==
    Then(ParseContext(f, i), LAMBDA c, j :
        Then(ParseMaybe(f, j, ParsePair), LAMBDA a, k :
            Got([context |-> c,
                 address |-> [n \in DOMAIN a |-> [namespace |-> a[n][1], value |-> a[n][2]]]], k)))

ParseSourcedTarget(f, i) ==
    Then(ParseTarget(f, i), LAMBDA t, j :
        Then(ParseProvenance(f, j), LAMBDA p, k : Got([target |-> t, provenance |-> p], k)))

ParseRoleAssignment(f, i) ==
    Then(ParseEnum(f, i, Roles), LAMBDA r, j :
        Then(ParseProvenance(f, j), LAMBDA p, k : Got([role |-> r, provenance |-> p], k)))

\* A window never ends before it starts (ObservationWindow::new).
ParseWindow(f, i) ==
    Then(ParseNumber(f, i), LAMBDA a, j :
        Then(ParseNumber(f, j), LAMBDA b, k : Check(a <= b, [first |-> a, last |-> b], k)))

ParseTopologyObservation(f) ==
    FinishFields(f,
    Then(ParseContext(f, 1), LAMBDA c, i :
    Then(ParseResponder(f, i), LAMBDA r, j :
    Then(ParseMaybe(f, j, ParseBytes), LAMBDA b, k :
    Then(ParseMaybe(f, k, ParseWindow), LAMBDA w, l :
    Then(ParseProvenance(f, l), LAMBDA p, m :
        Got([context |-> c, responder |-> r, payload |-> b, window |-> w, provenance |-> p], m)))))))

\* A page of the capability whose number comes first.
ParseCapabilityPage(f) ==
    FinishFields(f,
    Then(ParseNumber(f, 1), LAMBDA n, i :
    Then(ParseNumber(f, i), LAMBDA mode, j :
    Then(ParseNumber(f, j), LAMBDA pid, k :
    Then(ParseBytes(f, k), LAMBDA b, l :
    Then(ParseProvenance(f, l), LAMBDA p, m :
        Check({mode, pid} \subseteq 0..255,
              [of |-> n, page |-> [request |-> <<mode, pid>>, payload |-> b, provenance |-> p]], m)))))))

ParseTargetMapping(f, hasRole) ==
    FinishFields(f,
    Then(IF hasRole THEN ParseMaybe(f, 1, ParseRoleAssignment) ELSE Got(<<>>, 1), LAMBDA role, i :
    Then(ParseMaybe(f, i, ParseResponder), LAMBDA r, j :
    Then(ParseSourcedTarget(f, j), LAMBDA t, k :
        Got([role |-> role, responder |-> r, target |-> t.target, provenance |-> t.provenance], k)))))

IdentificationStatus ==
    {"supported", "unsupported", "negative_response", "unavailable", "malformed", "timeout",
     "transport_error", "not_probed"}

\* IdentificationObservation::validate: what each status may carry.
ValidIdentification(o) ==
    /\ <<>> \notin {o.semantic, o.definition, o.repository, o.revision} /\ o.version # 0
    /\ Len(o.request) = 3 /\ o.request[1] = 34 /\ o.request # <<34, 241, 144>>
    /\ o.target.context = o.expected.context /\ o.target.address # <<>>
    /\ CASE o.status = "supported" -> o.value # <<>> /\ o.nrc = <<>>
         [] o.status \in {"unsupported", "negative_response"} -> o.nrc # <<>> /\ o.value = <<>>
         [] o.status = "unavailable" -> o.value = <<>> /\ (o.nrc # <<>> \/ o.errors # <<>>)
         [] o.status = "malformed" -> o.value = <<>>
         [] o.status \in {"timeout", "transport_error"} ->
                o.nrc = <<>> /\ o.value = <<>> /\ o.errors # <<>>
         [] o.status = "not_probed" -> o.nrc = <<>> /\ o.value = <<>> /\ o.responses = <<>>

ParseResponse(f, i) ==
    Then(ParseMaybe(f, i, ParseResponder), LAMBDA r, j :
    Then(ParseBytes(f, j), LAMBDA b, k : Got([responder |-> r, payload |-> b], k)))

\* Five fields: the definition the request came from.
ParseDefinition(f, i) ==
    Then(ParsePair(f, i), LAMBDA names, j :
    Then(ParseNumber(f, j), LAMBDA version, k :
    Then(ParsePair(f, k), LAMBDA pin, l :
        Got([semantic |-> names[1], definition |-> names[2], version |-> version,
             repository |-> pin[1], revision |-> pin[2]], l))))

ParseIdentification(f) ==
    FinishFields(f,
    Then(ParseTarget(f, 1), LAMBDA t, i1 :
    Then(ParseResponder(f, i1), LAMBDA e, i2 :
    Then(ParseDefinition(f, i2), LAMBDA d, i3 :
    Then(ParseBytes(f, i3), LAMBDA q, i4 :
    Then(ParseOneOf(f, i4, IdentificationStatus), LAMBDA s, i5 :
    Then(ParseMaybe(f, i5, ParseNumber), LAMBDA n, i6 :
    Then(ParseMaybe(f, i6, ParseBytes), LAMBDA v, i7 :
    Then(ParseCounted(f, i7, Len(f), ParseResponse), LAMBDA rs, i8 :
    Then(ParseCounted(f, i8, Len(f), Field), LAMBDA es, i9 :
        LET o == [target |-> t, expected |-> e, semantic |-> d.semantic,
                  definition |-> d.definition, version |-> d.version,
                  repository |-> d.repository, revision |-> d.revision, request |-> q,
                  status |-> s, nrc |-> n, value |-> v, responses |-> rs, errors |-> es]
        IN  Check(ValidIdentification(o), o, i9)))))))))))

ProviderStatus == {"completed", "unavailable", "blocked", "not_applicable", "failed"}
ProviderCoverage == {"unknown", "partial", "complete", "not_applicable"}

\* validate_status_coverage: how much a provider in each state may claim.
ValidStatusCoverage(status, coverage, entries) ==
    /\ status \in {"blocked", "unavailable", "not_applicable"} => entries = {}
    /\ CASE status = "completed" -> coverage \in {"partial", "complete"}
         [] status \in {"blocked", "unavailable"} -> coverage = "unknown"
         [] status = "not_applicable" -> coverage = "not_applicable"
         [] OTHER -> coverage = IF entries = {} THEN "unknown" ELSE "partial"

ParseInstalledEcu(f, i) ==
    Then(ParseContext(f, i), LAMBDA c, j :
    Then(ParseMaybe(f, j, ParsePair), LAMBDA id, k :
    Then(ParseMaybe(f, k, ParsePair), LAMBDA logical, l :
    Then(ParseProvenance(f, l), LAMBDA p, m :
    Then(ParseMaybe(f, m, ParseSourcedTarget), LAMBDA t, n :
    Then(ParseCounted(f, n, MaxReferences, Field), LAMBDA refs, o :
        Check((id # <<>> \/ logical # <<>>) /\ <<>> \notin Range(refs),
              [context |-> c, identity |-> id, logical |-> logical, provenance |-> p,
               target |-> t, references |-> Range(refs)], o)))))))

ParseProviderResult(f) ==
    FinishFields(f,
    Then(Field(f, 1), LAMBDA name, i :
    Then(ParseNumber(f, i), LAMBDA version, j :
    Then(ParseMaybe(f, j, Field), LAMBDA manufacturer, k :
    Then(ParseMaybe(f, k, Field), LAMBDA platform, l :
    Then(ParseProvenance(f, l), LAMBDA p, m :
    Then(ParseOneOf(f, m, ProviderStatus), LAMBDA status, n :
    Then(ParseOneOf(f, n, ProviderCoverage), LAMBDA coverage, o :
    Then(ParseCounted(f, o, MaxReferences, Field), LAMBDA refs, q :
    Then(ParseCounted(f, q, MaxEntries, ParseInstalledEcu), LAMBDA entries, r :
        Check(/\ name # <<>> /\ version # 0
              /\ platform # <<>> => manufacturer # <<>>
              /\ <<>> \notin Range(manufacturer) \cup Range(platform) \cup Range(refs)
              /\ ValidStatusCoverage(status, coverage, Range(entries)),
              [name |-> name, version |-> version,
               scope |-> [manufacturer |-> manufacturer, platform |-> platform], provenance |-> p,
               status |-> status, coverage |-> coverage,
               references |-> Range(refs), entries |-> Range(entries)], r)))))))))))

-----------------------------------------------------------------------------
(* What a record may hold, on its way to the disk and back. *)

RawVin(text) ==
    \E i \in 1..(Len(text) - VinLength + 1) :
        \A j \in i..(i + VinLength - 1) : text[j] \in VinSymbols

ValidText(text) == text # <<>> /\ ~RawVin(text)
ValidTexts(texts) == \A t \in texts : ValidText(t)

VendorTexts(e) == IF Len(e) = 1 THEN {} ELSE {e[2]}
ContextTexts(c) == VendorTexts(c.protocol) \cup VendorTexts(c.addressing)
ResponderTexts(r) == ContextTexts(r.context) \cup (IF r.kind = "unknown" THEN {} ELSE {r.value})
TargetTexts(t) == ContextTexts(t.context) \cup UNION {{a.namespace, a.value} : a \in Range(t.address)}

\* The texts of a provider result that must not name the vehicle.
ProviderTexts(r) ==
    {r.name, r.provenance.source} \cup r.references
      \cup Range(r.scope.manufacturer) \cup Range(r.scope.platform)
      \cup UNION {ContextTexts(e.context) \cup {e.provenance.source} \cup e.references
                    \cup UNION {Range(p) : p \in Range(e.identity) \cup Range(e.logical)}
                    \cup UNION {TargetTexts(t.target) \cup {t.provenance.source} : t \in Range(e.target)}
                  : e \in r.entries}

ValidProvider(r) ==
    /\ Cardinality(r.references) <= MaxReferences /\ Cardinality(r.entries) <= MaxEntries
    /\ \A e \in r.entries : Cardinality(e.references) <= MaxReferences
    /\ ValidTexts(ProviderTexts(r))

\* The texts of the other evidence: all of it but the opaque bytes.
SnapshotTexts(s) ==
    UNION {ContextTexts(o.context) \cup ResponderTexts(o.responder) \cup {o.provenance.source}
            : o \in s.topology}
      \cup UNION {ResponderTexts(c.responder) \cup {p.provenance.source : p \in c.pages}
            : c \in s.capabilities}
      \cup UNION {UNION {VendorTexts(r.role) \cup {r.provenance.source} : r \in Range(m.role)}
                    \cup UNION {ResponderTexts(r) : r \in Range(m.responder)}
                    \cup TargetTexts(m.target) \cup {m.provenance.source}
            : m \in s.mappings}
      \cup UNION {TargetTexts(o.target) \cup ResponderTexts(o.expected)
                    \cup {o.semantic, o.definition, o.repository} \cup Range(o.errors)
                    \cup UNION {UNION {ResponderTexts(r) : r \in Range(a.responder)} : a \in Range(o.responses)}
            : o \in s.identification}

SnapshotPayloads(s) ==
    UNION {Range(o.payload) : o \in s.topology}
      \cup UNION {{p.payload : p \in c.pages} : c \in s.capabilities}
      \cup UNION {Range(o.value) \cup {a.payload : a \in Range(o.responses)} : o \in s.identification}

\* validate_record, on every save and every load.
ValidRecord(c) ==
    /\ ValidText(c.key) /\ ValidTexts(c.history)
    /\ c.first <= c.last
    /\ ValidTexts(SnapshotTexts(c.snapshot))
    /\ \A b \in SnapshotPayloads(c.snapshot) : Len(b) <= MaxBytes
    /\ \A o \in c.snapshot.identification : ValidIdentification(o)
    /\ \A r \in c.snapshot.providers : ValidProvider(r)

-----------------------------------------------------------------------------
EmptySnapshot ==
    [topology |-> {}, capabilities |-> {}, mappings |-> {}, identification |-> {}, providers |-> {}]

Blank ==
    [ok |-> TRUE, key |-> <<>>, first |-> <<>>, last |-> <<>>, topology |-> {},
     capabilities |-> <<>>, mappings |-> {}, identification |-> {}, providers |-> {}, history |-> {}]

\* The fields of a line; version 1 has one field, tabs and all.
SplitOnce(line) ==
    LET at == CHOOSE i \in DOMAIN line : line[i] = Tab /\ \A j \in 1..(i - 1) : line[j] # Tab
    IN  <<SubSeq(line, 1, at - 1), SubSeq(line, at + 1, Len(line))>>

Tagged(tag, fields) ==
    Check(Len(tag) = 1 /\ \A i \in DOMAIN fields : fields[i].ok,
          [tag |-> tag[1], fields |-> [i \in DOMAIN fields |-> fields[i].v]], 0)

FieldsOf(line, version) ==
    LET raw == IF version > 1 THEN Split(line) ELSE SplitOnce(line)
    IN  Tagged(raw[1], [i \in 1..(Len(raw) - 1) |-> Unescape(raw[i + 1])])

Single(f) == FinishFields(f, Field(f, 1))
SingleNumber(f) == FinishFields(f, ParseNumber(f, 1))

\* A header field comes once.
Once(acc, name, r) == IF r.ok /\ acc[name] = <<>> THEN [acc EXCEPT ![name] = <<r.v>>]
                                                 ELSE [acc EXCEPT !.ok = FALSE]
\* Evidence is collected.
Collect(acc, name, r) == IF r.ok THEN [acc EXCEPT ![name] = @ \cup {r.v}]
                                 ELSE [acc EXCEPT !.ok = FALSE]

\* A capability has a number of its own; its pages follow it.
ParseCapability(f) ==
    FinishFields(f, Then(ParseNumber(f, 1), LAMBDA n, i :
                    Then(ParseResponder(f, i), LAMBDA r, j : Got([of |-> n, responder |-> r], j))))

AddCapability(acc, r) ==
    IF r.ok /\ r.v.of \notin DOMAIN acc.capabilities
    THEN [acc EXCEPT !.capabilities = @ @@ (r.v.of :> [responder |-> r.v.responder, pages |-> {}])]
    ELSE [acc EXCEPT !.ok = FALSE]

AddPage(acc, r) ==
    IF r.ok /\ r.v.of \in DOMAIN acc.capabilities
    THEN [acc EXCEPT !.capabilities[r.v.of].pages = @ \cup {r.v.page}]
    ELSE [acc EXCEPT !.ok = FALSE]

\* What a line adds to what was read before it.
AddLine(acc, l, version) ==
    LET f == l.v.fields
    IN  CASE ~acc.ok \/ ~l.ok -> [acc EXCEPT !.ok = FALSE]
          [] l.v.tag = "local_key" -> Once(acc, "key", Single(f))
          [] l.v.tag = "first_seen_ms" -> Once(acc, "first", SingleNumber(f))
          [] l.v.tag = "last_seen_ms" -> Once(acc, "last", SingleNumber(f))
          [] l.v.tag = "evidence" -> Collect(acc, "history", Single(f))
          [] version > 1 /\ l.v.tag = "history" -> Collect(acc, "history", Single(f))
          [] version > 1 /\ l.v.tag = "topology" -> Collect(acc, "topology", ParseTopologyObservation(f))
          [] version > 1 /\ l.v.tag = "capability" -> AddCapability(acc, ParseCapability(f))
          [] version > 1 /\ l.v.tag = "capability_page" -> AddPage(acc, ParseCapabilityPage(f))
          [] version > 1 /\ l.v.tag = "target_mapping" ->
                Collect(acc, "mappings", ParseTargetMapping(f, version > 2))
          [] version > 3 /\ l.v.tag = "ecu_identification" ->
                Collect(acc, "identification", ParseIdentification(f))
          [] version > 4 /\ l.v.tag = "topology_provider" ->
                Collect(acc, "providers", ParseProviderResult(f))
          [] OTHER -> [acc EXCEPT !.ok = FALSE]

ParseLine(acc, line, version) == AddLine(acc, FieldsOf(line, version), version)

Versions == << <<"version 1">>, <<"version 2">>, <<"version 3">>, <<"version 4">>, <<"version 5">> >>

\* The record that the lines add up to.
Collected(acc) ==
    [key |-> acc.key[1], first |-> acc.first[1], last |-> acc.last[1],
     snapshot |-> [topology |-> acc.topology, capabilities |-> Range(acc.capabilities),
                   mappings |-> acc.mappings, identification |-> acc.identification,
                   providers |-> acc.providers],
     history |-> acc.history]

CheckRecord(c, key) == Check(ValidRecord(c) /\ c.key = key, c, 0)

FinishRecord(acc, key) ==
    IF ~acc.ok \/ <<>> \in {acc.key, acc.first, acc.last} THEN Bad ELSE CheckRecord(Collected(acc), key)

\* The record in the lines of a file, for the key the file is named after.
ParseRecord(lines, key) ==
    IF lines = <<>> \/ lines[1] \notin Range(Versions) THEN Bad
    ELSE LET version == CHOOSE v \in DOMAIN Versions : Versions[v] = lines[1]
         IN  FinishRecord(FoldLeft(LAMBDA acc, l : ParseLine(acc, l, version), Blank, Tail(lines)), key)

=============================================================================
