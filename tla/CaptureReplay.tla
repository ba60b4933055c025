--------------------------- MODULE CaptureReplay ---------------------------
(***************************************************************************)
(* What becomes of a capture file: it is read back (read of                *)
(* capture_format/jsonl.rs), its reads are decoded again and replayed into *)
(* the telemetry (capture_replay.rs, telemetry.rs), and it is summed up in *)
(* a report (capture_report.rs).  The layout of the report is left out.    *)
(***************************************************************************)
EXTENDS CaptureCodec, SignalCatalogue, FiniteSetsExt

CONSTANT HistoryCapacity  \* the samples the telemetry keeps of a signal

ASSUME HistoryAssumption == HistoryCapacity \in Nat \ {0}

-----------------------------------------------------------------------------
(* Reading *)

Unreadable == [status |-> "unreadable", events |-> <<>>]

IsHeader(line) ==
    LET object == ParseObject(line)
    IN  /\ object # Error
        /\ HasSchema(object[1]) /\ StringField(object[1], "type") = <<<<"header">>>> /\ Len(object[1]) = 3

\* The order the events of a file must have: at most one knowledge context,
\* response offsets that do not decrease, and only runtime transitions after
\* the end of the session, of which there is at most one.
InOrder(events) ==
    LET type(i) == events[i][1]
        offset(i) == IF type(i) = "responses_observed" THEN events[i][2].offset_us ELSE <<>>
    IN  \A i, j \in DOMAIN events : i < j =>
          /\ ~(type(i) = "knowledge_context" /\ type(j) = "knowledge_context")
          /\ offset(i) # <<>> /\ offset(j) # <<>> => offset(i)[1] <= offset(j)[1]
          /\ type(i) = "session_stopped" => type(j) = "runtime_state_changed"

\* One line that cannot be read makes the file unreadable.  The lines after
\* the header are already parsed, each to <<>> or to what ParseLine returns.
Read(header, parsed) ==
    LET all == AllOf(parsed)
        events == [i \in DOMAIN all[1] |-> all[1][i].event]
    IN  IF ~IsHeader(header) \/ all = <<>> THEN Unreadable
        ELSE IF (\E i \in DOMAIN all[1] : all[1][i].sequence # i - 1) \/ ~InOrder(events) THEN Unreadable
        ELSE [events |-> events,
              status |-> IF \E i \in DOMAIN events : events[i][1] = "session_stopped"
                         THEN "complete" ELSE "partial"]

-----------------------------------------------------------------------------
(* Telemetry *)

NoTelemetry == [s \in {} |-> <<>>]

\* The samples are kept in the order of time, equal times in the order of
\* arrival; beyond the capacity the oldest of them goes, which may be the new
\* one.
IngestAt(telemetry, semantic, value, at) ==
    LET old == IF semantic \in DOMAIN telemetry THEN telemetry[semantic] ELSE <<>>
        later == {i \in DOMAIN old : old[i].at > at}
        position == IF later = {} THEN Len(old) + 1 ELSE Min(later)
        new == InsertAt(old, position, [at |-> at, value |-> value])
    IN  [s \in DOMAIN telemetry \cup {semantic} |->
            IF s # semantic THEN telemetry[s]
            ELSE IF Len(new) > HistoryCapacity THEN Tail(new) ELSE new]

Values(telemetry) ==
    [s \in DOMAIN telemetry |-> [i \in DOMAIN telemetry[s] |-> telemetry[s][i].value]]

-----------------------------------------------------------------------------
(* Replay *)

OfType(events, types) == SelectSeq(events, LAMBDA e : e[1] \in types)
Fields(events) == [i \in DOMAIN events |-> events[i][2]]

Decoded(issue, value) == [issue |-> issue, value |-> value]

\* A successful read decoded again: what went wrong, and the value.
RedecodeAs(f, signal, value) ==
    IF f.request_payload # RequestBytes(signal) THEN Decoded("RequestChanged", <<>>)
    ELSE IF value = <<>> THEN Decoded("DecodeFailed", <<>>)
    ELSE IF f.unit # <<signal.unit>> \/ f.value # <<"number", value[1]>> THEN Decoded("RecordedDecodeChanged", value)
    ELSE Decoded("none", value)

Redecode(f) ==
    LET signal == PrepareRead(f.semantic[1])
    IN  IF signal = <<>> THEN Decoded("UnsupportedSemantic", <<>>)
        ELSE RedecodeAs(f, signal[1], Value(signal[1], f.response_payload))

\* The times an event says the capture lasted to.
LastsTo(e) ==
    CASE e[1] = "read_succeeded" -> {e[2].finished_us}
      [] e[1] = "read_failed" -> Range(e[2].finished_us)
      [] e[1] = "responses_observed" -> Range(e[2].offset_us)
      [] e[1] = "slots_skipped" -> {e[2].last_due_us}
      [] e[1] = "session_stopped" -> {e[2].offset_us}
      [] OTHER -> {}

\* The reads are sorted by when they finished, equal times in the file's
\* order, and so are the issues.
FromCapture(events) ==
    LET reads == Fields(OfType(events, {"read_succeeded"}))
        decoded == SortSeq([i \in DOMAIN reads |->
                               [at |-> reads[i].finished_us, semantic |-> reads[i].semantic[1],
                                decode |-> Redecode(reads[i]), index |-> i]],
                           LAMBDA r, s : r.at < s.at \/ (r.at = s.at /\ r.index < s.index))
    IN  [duration |-> Max({0} \cup UNION {LastsTo(events[i]) : i \in DOMAIN events}),
         issues |-> SelectSeq(decoded, LAMBDA r : r.decode.issue # "none"),
         reads |-> SelectSeq(decoded, LAMBDA r : r.decode.value # <<>>)]

\* Mutant: the reads at the cursor itself are left out.
TelemetryBefore(replay, cursor) ==
    FoldLeft(LAMBDA t, r : IngestAt(t, r.semantic, r.decode.value[1], r.at), NoTelemetry,
             SelectSeq(replay.reads, LAMBDA r : r.at < cursor))

\* telemetry_at: what the screen showed at a time of the capture.
TelemetryAt(replay, cursor) ==
    FoldLeft(LAMBDA t, r : IngestAt(t, r.semantic, r.decode.value[1], r.at), NoTelemetry,
             SelectSeq(replay.reads, LAMBDA r : r.at <= cursor))

-----------------------------------------------------------------------------
(* Report *)

LifecycleTypes == {"capture_started", "knowledge_context", "session_initialized", "support_discovery",
    "protocol_negotiation_observed", "runtime_state_changed", "shutdown_requested", "session_stopped",
    "session_error", "diagnostic_job_started", "diagnostic_job_step", "diagnostic_job_completed",
    "diagnostic_job_failed", "diagnostic_job_cancelled"}

Count(events, type) == Len(OfType(events, {type}))
Total(seq) == FoldLeft(LAMBDA a, b : a + b, 0, seq)

\* <<due, started, finished>> of every read that has them.
AllReads(events) ==
    LET timed == SelectSeq(OfType(events, {"read_succeeded", "read_failed"}),
                           LAMBDA e : e[1] = "read_succeeded" \/ e[2].due_us # <<>>)
    IN  [i \in DOMAIN timed |->
            LET f == timed[i][2]
            IN  IF timed[i][1] = "read_succeeded" THEN <<f.due_us, f.started_us, f.finished_us>>
                ELSE <<f.due_us[1], f.started_us[1], f.finished_us[1]>>]

\* The offsets a report's first and last offset are taken over.
Offsets(events) ==
    LET reads == AllReads(events)
    IN  UNION {{reads[i][1], reads[i][3]} : i \in DOMAIN reads}
          \cup UNION {{f.first_due_us, f.last_due_us} : f \in Range(Fields(OfType(events, {"slots_skipped"})))}
          \cup {f.offset_us : f \in Range(Fields(OfType(events, {"session_stopped"})))}

Semantics(events) ==
    {f.semantic[1] : f \in Range(Fields(OfType(events,
        {"subscription_configured", "read_succeeded", "read_failed", "slots_skipped"})))}

SignalSummary(events, semantic) ==
    LET of(type) == SelectSeq(Fields(OfType(events, {type})), LAMBDA f : f.semantic[1] = semantic)
        read == of("read_succeeded")
    IN  [samples |-> Len(read), failures |-> Len(of("read_failed")),
         skipped |-> Total([i \in DOMAIN of("slots_skipped") |-> of("slots_skipped")[i].count]),
         finished |-> [i \in DOMAIN read |-> read[i].finished_us]]

Summary(events) ==
    [events |-> Len(events), lifecycle |-> Len(OfType(events, LifecycleTypes)),
     successes |-> Count(events, "read_succeeded"), failures |-> Count(events, "read_failed"),
     skippedEvents |-> Count(events, "slots_skipped"),
     skippedSlots |-> Total([i \in 1 .. Count(events, "slots_skipped") |->
                             Fields(OfType(events, {"slots_skipped"}))[i].count]),
     allReads |-> AllReads(events), offsets |-> Offsets(events),
     jobsStarted |-> Count(events, "diagnostic_job_started"),
     jobsEnded |-> Count(events, "diagnostic_job_completed") + Count(events, "diagnostic_job_failed")
                     + Count(events, "diagnostic_job_cancelled"),
     steps |-> Count(events, "diagnostic_job_step"),
     transport |-> Count(events, "dtc_transport_observed"), observations |-> Count(events, "dtc_observation"),
     signals |-> [s \in Semantics(events) |-> SignalSummary(events, s)]]

\* capture_duration: <<>> when no event has an offset.
Duration(events) ==
    LET stopped == Fields(OfType(events, {"session_stopped"}))
        offsets == Offsets(events)
    IN  IF stopped # <<>> THEN <<stopped[Len(stopped)].offset_us>>
        ELSE IF offsets = {} THEN <<>> ELSE <<Max(offsets) - Min(offsets)>>

\* The times between samples, the latencies and the latenesses of the
\* capability report, computed with unsigned subtractions.
Intervals(finished) == [i \in 1 .. Len(finished) - 1 |-> finished[i + 1] - finished[i]]
Latencies(reads) == [i \in DOMAIN reads |-> reads[i][3] - reads[i][2]]
Lateness(reads) == [i \in DOMAIN reads |-> reads[i][2] - reads[i][1]]

\* Nearest rank; <<>> without values.
Percentile(values, numerator) ==
    LET sorted == SortSeq(values, <)
        rank == (Len(values) * numerator + 99) \div 100
    IN  IF values = <<>> THEN <<>> ELSE <<sorted[Max({rank, 1})]>>

=============================================================================
