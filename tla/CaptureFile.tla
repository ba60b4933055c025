---------------------------- MODULE CaptureFile ----------------------------
(***************************************************************************)
(* A recording from end to end: a command that records (a capture:         *)
(* scheduler.rs and jobs/capture_session.rs; or a scan for trouble codes:  *)
(* main.rs) offers events with their contents to the recorder, whose       *)
(* writer turns them into lines of a file (capture_format), and the file   *)
(* is read back after the command has returned or the process was killed.  *)
(* CaptureSession models the same capture without the contents, with the   *)
(* concurrency of its job and its scheduler.                               *)
(*                                                                         *)
(* The straight-line code between two points at which a command branches   *)
(* is a script: a sequence of steps, taken one at a time, while the writer *)
(* runs concurrently.  A step that fails (the code's ?) leaves the script. *)
(***************************************************************************)
EXTENDS CaptureReplay, DtcDecoding

CONSTANTS Capacity,       \* CHANNEL_CAPACITY of the recorder
          AuditCapacity,  \* the entries the audit keeps
          Subscriptions,  \* the semantics of the plan, in its order
          Interval,       \* the interval of each of them
          Replies,        \* what the adapter may answer to a read
          ScanReplies,    \* what it may answer to a scan
          Negotiations,   \* what it may answer to the negotiation
          Millisecond,    \* microseconds in the telemetry's unit of time
          MaxReads,       \* bound: reads of a capture
          MaxTook         \* bound: the time a step may take

ASSUME FileAssumption == {Capacity, AuditCapacity, Interval, Millisecond} \subseteq Nat \ {0}

VARIABLES command,     \* "capture" or "scan"
          place,       \* where the command goes when its script is done
          script,      \* the steps before that
          failed,      \* its result is an error
          runtime,     \* the runtime's state
          transitions, \* the runtime's sequence number
          clock,       \* microseconds since the session began
          wall,        \* how far the wall clock was set back
          due,         \* when each subscription is due
          turn,        \* the subscription the round is at, and the round's time
          reads,       \* how many reads were made
          telemetry,   \* what the screen shows
          audit,       \* what the audit keeps
          channel,     \* the events on their way to the writer
          writer,      \* the recorder's writer
          file,        \* the lines that were written: what ParseLine makes of each
          torn,        \* the event whose line may be there in part, if any
          accepted,    \* history: every event the recorder accepted
          result       \* what reading the file returned

memory == <<script, failed, runtime, transitions, clock, wall, due, turn, reads, telemetry, audit>>
disk == <<writer, file, torn>>
vars == <<command, place, memory, channel, disk, accepted, result>>

Unread == [status |-> "unread", events |-> <<>>]

Booted == [DefaultState EXCEPT !.phase = "Ready"]

-----------------------------------------------------------------------------
(* Events *)

None == <<>>

CaptureStarted == <<"capture_started", [wallclock_ms |-> <<7>>, profile |-> <<<<command>>>>]>>

KnowledgeContext ==
    <<"knowledge_context",
      [core_version |-> <<"0", ".", "1">>, core_commit |-> None, knowledge_repository |-> <<"knowledge">>,
       knowledge_revision |-> [i \in 1 .. CommitLength |-> "a"], knowledge_schema_version |-> 1]>>

Bare(type) == <<type, [f \in {} |-> None]>>
SessionStopped(at) == <<"session_stopped", [offset_us |-> at]>>
SessionError(error) == <<"session_error", [error |-> error]>>

SubscriptionConfigured(semantic) ==
    <<"subscription_configured",
      [semantic |-> <<semantic>>, requested_interval_us |-> Interval, filter_outcome |-> "scheduled"]>>

SupportDiscovery ==
    <<"support_discovery", [request_payload |-> <<1, 0>>, responder |-> <<<<"7E8">>>>,
                            response_payload |-> <<65, 0, 24, 59, 160, 1>>]>>

\* runtime_transition: the sequence number is the accepted transition's own.
RuntimeTransition(e) ==
    <<"runtime_state_changed",
      [transition_sequence |-> transitions + 1, state_version |-> StateVersion, from |-> runtime,
       to |-> Reduce(runtime, e), event |-> e]>>

ResponsesObserved(semantic, request, responses, selected, error) ==
    <<"responses_observed",
      [offset_us |-> None, semantic |-> semantic, request_payload |-> request, responses |-> responses,
       selected_responder |-> selected, selection_error |-> error]>>

\* read_succeeded_from_transaction; a signal of the catalogue has no
\* knowledge definition.
ReadSucceeded(t, timing) ==
    <<"read_succeeded",
      [semantic |-> <<t.semantic>>, requested_interval_us |-> Interval,
       due_us |-> timing[1], started_us |-> timing[2], finished_us |-> timing[3],
       request_payload |-> t.request, response_payload |-> t.response, value |-> <<"number", t.value>>,
       unit |-> <<t.unit>>, source |-> <<t.source>>, profile |-> <<"obd2-v1">>,
       decoder |-> <<"decoder", " ", t.semantic>>, provenance |-> <<"provenance", " ", t.semantic>>,
       knowledge_definition_id |-> None, knowledge_definition_version |-> None,
       knowledge_confidence |-> None, knowledge_hardware_validation |-> None, local_ecu_id |-> None]>>

ReadFailed(s, timing, error) ==
    <<"read_failed",
      [semantic |-> <<s.semantic>>, requested_interval_us |-> Interval, due_us |-> <<timing[1]>>,
       started_us |-> <<timing[2]>>, finished_us |-> <<timing[3]>>,
       request_payload |-> <<RequestBytes(s)>>, error |-> error]>>

JobId == <<"dtc", ".", "scan">>

JobStarted == <<"diagnostic_job_started", [job_id |-> JobId, model_version |-> 1, step_count |-> 1]>>
JobStep(status, error) ==
    <<"diagnostic_job_step", [job_id |-> JobId, step_sequence |-> 0, mode |-> 3, source |-> None,
                              status |-> status, error |-> error]>>
JobCompleted(status) == <<"diagnostic_job_completed", [job_id |-> JobId, status |-> status]>>
JobFailed(error) == <<"diagnostic_job_failed", [job_id |-> JobId, error |-> error]>>
DtcTransport(responder, outcome, reason) ==
    <<"dtc_transport_observed", [job_id |-> JobId, step_sequence |-> 0, responder |-> responder,
                                 outcome |-> outcome, reason |-> reason]>>
DtcObservation(responder, fact) ==
    <<"dtc_observation", [job_id |-> JobId, step_sequence |-> 0, responder |-> responder, fact |-> fact,
                          decoder |-> <<"obdii", ".", "mode03">>, provenance |-> <<"J1979", " ", "03">>]>>
Negotiation(observation) ==
    <<"protocol_negotiation_observed",
      [request_payload |-> <<1, 0>>, responder |-> observation.responder, response_payload |-> observation.payload]>>

-----------------------------------------------------------------------------
(* Steps: send awaits room in the channel, try does not; apply and report   *)
(* make a transition of the runtime and try to record it, and report goes   *)
(* on when that fails; ingest and note change the telemetry and the audit.  *)

SendAll(events) == [i \in DOMAIN events |-> <<"send", events[i]>>]
TryAll(events) == [i \in DOMAIN events |-> <<"try", events[i]>>]
ApplyAll(events) == [i \in DOMAIN events |-> <<"apply", events[i]>>]
ReportAll(events) == [i \in DOMAIN events |-> <<"report", events[i]>>]

Accepts == writer = "writing" /\ Len(channel) < Capacity

Offer(e) ==
    IF Accepts THEN channel' = Append(channel, e) /\ accepted' = Append(accepted, e)
    ELSE UNCHANGED <<channel, accepted>>

\* Does the step succeed?  A text that a constructor refuses is an error of
\* the step that would have sent it.
Succeeds(step) ==
    CASE step[1] \in {"send", "try"} -> Readable(step[2]) /\ Accepts
      [] step[1] = "apply" -> Legal(runtime, step[2]) /\ Accepts
      [] OTHER -> TRUE

\* Where a failure of the script that leads to a place goes instead.
Otherwise(p) ==
    CASE p \in {"prepare", "read"} -> "inactive"
      [] p \in {"start", "recorded"} -> "close"
      [] p \in {"connect", "discover", "observing"} -> "startFailed"
      [] p \in {"reply", "advance", "turn"} -> "stop"
      [] OTHER -> p

AuditAdd(entry) == LET new == Append(audit, entry) IN IF Len(new) > AuditCapacity THEN Tail(new) ELSE new

Effect(step) ==
    CASE step[1] \in {"send", "try"} ->
            /\ IF Readable(step[2]) THEN Offer(step[2]) ELSE UNCHANGED <<channel, accepted>>
            /\ UNCHANGED <<runtime, transitions, telemetry, audit>>
      [] step[1] \in {"apply", "report"} ->
            /\ IF Legal(runtime, step[2])
               THEN /\ runtime' = Reduce(runtime, step[2])
                    /\ transitions' = transitions + 1
                    /\ Offer(RuntimeTransition(step[2]))
               ELSE UNCHANGED <<runtime, transitions, channel, accepted>>
            /\ UNCHANGED <<telemetry, audit>>
      [] step[1] = "ingest" ->
            /\ telemetry' = IngestAt(telemetry, step[2].semantic, step[2].value, step[2].timestamp)
            /\ audit' = AuditAdd([semantic |-> step[2].semantic, request |-> step[2].request,
                                  response |-> step[2].response])
            /\ UNCHANGED <<runtime, transitions, channel, accepted>>
      [] step[1] = "note" ->
            /\ audit' = AuditAdd([semantic |-> "scheduler.error", request |-> <<>>, response |-> <<>>])
            /\ UNCHANGED <<runtime, transitions, channel, accepted, telemetry>>

\* A bound of the model: once the command has failed, the writer keeps up.
KeepsUp(step) == step[1] \in {"try", "apply", "report"} /\ failed

TakeStep ==
    LET step == Head(script)
    IN  /\ script # <<>>
        /\ step[1] = "send" => ~Readable(step[2]) \/ Accepts \/ writer # "writing"
        /\ KeepsUp(step) => Accepts \/ writer # "writing"
        /\ Effect(step)
        /\ script' = IF Succeeds(step) THEN Tail(script) ELSE <<>>
        /\ place' = IF Succeeds(step) THEN place ELSE Otherwise(place)
        /\ failed' = (failed \/ ~Succeeds(step))
        /\ UNCHANGED <<command, clock, wall, due, turn, reads, disk, result>>

\* At a place, with nothing left to do before it: go on to another.
Go(at, steps, next) ==
    /\ place = at /\ script = <<>>
    /\ script' = steps /\ place' = next
    /\ UNCHANGED <<command, runtime, transitions, wall, telemetry, audit, channel, disk, accepted, result>>

Still == UNCHANGED <<clock, due, turn, reads>>

Transport(state) == ContextUpdated("transport", state)
Recording(state) == ContextUpdated("recording", state)
Lost == <<Transport("Unhealthy"), Lifecycle("FatalRuntimeError")>>

-----------------------------------------------------------------------------
(* The scan: run_diagnose_dtc_scan. *)

Opening ==
    SendAll(<<CaptureStarted, KnowledgeContext>>)
      \o ApplyAll(<<Recording("Active"), ContextUpdated("source", "Live"), Transport("Connecting")>>)

\* ble::prepare_diagnostic_session: a fatal error, another one, or a session
\* whose negotiation is recorded.
Prepare ==
    /\ \/ Go("prepare", ApplyAll(Lost), "inactive") /\ failed' = TRUE
       \/ Go("prepare", ApplyAll(<<Transport("Disconnected")>>), "inactive") /\ failed' = TRUE
       \/ \E n \in Negotiations :
            /\ Go("prepare", SendAll([i \in DOMAIN n |-> Negotiation(n[i])])
                     \o ApplyAll(<<Transport("Connected"), Lifecycle("DiagnosticJobStarted")>>)
                     \o SendAll(<<JobStarted>>), "read")
            /\ failed' = failed
    /\ Still

FinishDiagnostic == ApplyAll(<<Lifecycle("DiagnosticJobCompleted"), Transport("Disconnected")>>)

\* record_dtc_transport_evidence, and the responses as they came.
TransportEvidence(r) ==
    [i \in DOMAIN r.responses |-> DtcTransport(r.responses[i].responder, "response", None)]
      \o [i \in DOMAIN r.errors |-> DtcTransport(r.errors[i].responder, "error", <<r.errors[i].error>>)]
      \o IF r.responses = <<>> THEN <<>>
         ELSE <<ResponsesObserved(JobId, <<3>>, r.responses, None, None)>>

\* record_dtc_facts.
Facts(responses) ==
    LET decoded == DecodeMode03(responses)
    IN  FlattenSeq([i \in DOMAIN decoded |->
            [j \in DOMAIN decoded[i].facts |-> DtcObservation(decoded[i].responder, decoded[i].facts[j])]])

ValidEvidence(responses) ==
    \A i \in DOMAIN responses : responses[i].responder = None \/ ValidIdentity(responses[i].responder[1])

Recoverable(r) ==
    \/ r.errors # <<>>
    \/ \E i \in DOMAIN r.responses : FactsOf(r.responses[i].payload)[1][1] = "decode_error"

WithErrors(error) ==
    SendAll(<<JobStep("recoverable", <<<<error>>>>), JobCompleted("completed_with_errors")>>)

\* What the outcome of prepared.read_stored_dtcs() leads to.
ScanReport(r) ==
    CASE r.kind = "fatal" ->
            ApplyAll(Lost) \o SendAll(<<JobStep("fatal", <<<<"session_failed">>>>), JobFailed(<<"session_failed">>)>>)
      [] r.kind = "error" -> WithErrors("read_failed") \o FinishDiagnostic
      [] r.kind = "answers" ->
            SendAll(TransportEvidence(r))
              \o (IF ~ValidEvidence(r.responses) THEN WithErrors("malformed_evidence")
                  ELSE SendAll(Facts(r.responses))
                         \o IF Recoverable(r) THEN WithErrors("malformed_evidence")
                            ELSE SendAll(<<JobStep("success", None), JobCompleted("completed")>>))
              \o FinishDiagnostic

ReadStoredDtcs ==
    /\ \E r \in ScanReplies :
         /\ Go("read", ScanReport(r), "inactive")
         /\ failed' = (failed \/ r.kind # "answers" \/ ~ValidEvidence(r.responses))
    /\ Still

\* Mutant: the results of the last transitions are ignored.
FinishRuntimeUnchecked ==
    (IF runtime.activity = "Observe" THEN ReportAll(<<Lifecycle("ObservationStopped")>>) ELSE <<>>)
      \o IF runtime.phase = "Stopped" THEN <<>>
         ELSE ReportAll(<<Lifecycle("ShutdownRequested"), Lifecycle("ShutdownCompleted")>>)

\* finish_runtime and JobRuntime::finish.
FinishRuntime ==
    (IF runtime.activity = "Observe" THEN ApplyAll(<<Lifecycle("ObservationStopped")>>) ELSE <<>>)
      \o IF runtime.phase = "Stopped" THEN <<>>
         ELSE ApplyAll(<<Lifecycle("ShutdownRequested"), Lifecycle("ShutdownCompleted")>>)

\* The common end: each part is tried whatever became of the one before.
EndScan ==
    /\ \/ Go("inactive", ApplyAll(<<Recording("Inactive")>>), "shutdown")
       \/ Go("shutdown", FinishRuntime, "stopped")
       \/ Go("stopped", SendAll(<<SessionStopped(clock)>>), "close")
    /\ UNCHANGED failed /\ Still

-----------------------------------------------------------------------------
(* The capture: CaptureSession::start and start_with_runtime. *)

Announcement ==
    TryAll(<<CaptureStarted, KnowledgeContext, Bare("session_initialized")>>
             \o [i \in DOMAIN Subscriptions |-> SubscriptionConfigured(Subscriptions[i])]
             \o <<SupportDiscovery>>)
      \o ApplyAll(<<Lifecycle("ObservationStarted")>>)

StartCapture ==
    /\ \/ Go("start", ApplyAll(<<ContextUpdated("source", "Live"), Transport("Connecting")>>), "connect")
       \/ Go("connect", ApplyAll(<<Transport("Connected")>>), "discover")
       \/ Go("discover", Announcement, "observing")
       \/ Go("observing", <<>>, "waiting")
    /\ UNCHANGED failed /\ Still

\* The connection, the discovery or the preparation fails; the last is not
\* reported to the runtime.
StartFails ==
    /\ \/ Go("connect", ReportAll(Lost), "startFailed")
       \/ Go("discover", ReportAll(Lost), "startFailed")
       \/ Go("discover", <<>>, "startFailed")
    /\ failed' = TRUE /\ Still

\* record_capture_start_failure.
RecordStartFailure ==
    /\ Go("startFailed", SendAll(<<CaptureStarted, KnowledgeContext, SessionError(<<"start", Quote>>),
                                   SessionStopped(0)>>), "recorded")
    /\ UNCHANGED failed /\ Still

-----------------------------------------------------------------------------
(* The capture: the scheduler's loop. *)

\* The first subscription after a place in the plan that was due when the
\* round began.
DueAfter(at, now) == {i \in DOMAIN Subscriptions : i > at /\ due[Subscriptions[i]] <= now}

\* The earliest subscription becomes due.  The task wakes in time: the reads
\* before it are what makes a read late.
Wake ==
    /\ reads < MaxReads
    /\ Go("waiting", <<>>, "turn")
    /\ clock' = Max({clock, Min({due[s] : s \in DOMAIN due})})
    /\ turn' = [at |-> 0, now |-> clock']
    /\ UNCHANGED <<failed, due, reads>>

StartRead ==
    /\ DueAfter(turn.at, turn.now) # {} /\ reads < MaxReads
    /\ Go("turn", ApplyAll(<<Lifecycle("ObservationReadStarted")>>), "reply")
    /\ turn' = [turn EXCEPT !.at = Min(DueAfter(turn.at, turn.now))]
    /\ UNCHANGED <<failed, clock, due, reads>>

\* The session is asked for its capability, which may fail; the reshaping of
\* the intervals that follows is PollingSchedule's.
EndRound ==
    /\ DueAfter(turn.at, turn.now) = {} \/ reads >= MaxReads
    /\ \/ Go("turn", <<>>, "waiting") /\ failed' = failed
       \/ Go("turn", <<>>, "stop") /\ failed' = TRUE
    /\ Still

\* emit_response_observations, record_read_failure and
\* record_fatal_read_failure.
Observed(s, reply, selected, error) ==
    IF reply.payload = <<>> THEN <<>>
    ELSE TryAll(<<ResponsesObserved(<<s.semantic>>, RequestBytes(s),
                                    <<[responder |-> reply.responder, payload |-> reply.payload]>>, selected, error)>>)

FailedRead(s, timing, error) == TryAll(<<ReadFailed(s, timing, error)>>) \o <<<<"note", error>>>>

FatalRead(s, timing, error) == FailedRead(s, timing, error) \o TryAll(<<SessionError(error)>>)

\* What a read's outcome leads to: the evidence, then the value on the screen
\* and in the audit, then the read itself.
Outcome(s, reply, timing) ==
    LET done == Complete(s, "user", reply.payload, Millisecond * ((timing[3] - wall) \div Millisecond))
    IN  CASE reply.fatal -> FatalRead(s, timing, reply.error) \o ApplyAll(Lost)
          [] ~reply.fatal /\ done # <<>> ->
                Observed(s, reply, reply.responder, None) \o <<<<"ingest", done[1]>>>>
                  \o TryAll(<<ReadSucceeded(done[1], timing)>>)
                  \o ApplyAll(<<Lifecycle("ObservationReadCompleted")>>)
          [] OTHER ->
                Observed(s, reply, None, <<reply.error>>) \o FailedRead(s, timing, reply.error)
                  \o ApplyAll(<<Lifecycle("ObservationReadFailedRecoverable")>>)

Reply ==
    \E reply \in Replies, took \in {0, MaxTook} :
      LET s == PrepareRead(Subscriptions[turn.at])[1]
      IN  /\ Go("reply", Outcome(s, reply, <<due[s.semantic], clock, clock + took>>),
                IF reply.fatal THEN "stop" ELSE "advance")
          /\ clock' = clock + took
          /\ reads' = reads + 1
          /\ failed' = (failed \/ reply.fatal)
          /\ UNCHANGED <<due, turn>>

\* Mutant: one slot too few is recorded.
AdvanceOneShort ==
    /\ LET s == Subscriptions[turn.at]
           first == due[s] + Interval
           skipped == IF first > clock THEN 0 ELSE (clock - first) \div Interval
           last == first + (skipped - 1) * Interval
       IN  /\ Go("advance",
                 IF skipped = 0 THEN <<>>
                 ELSE TryAll(<<<<"slots_skipped", [semantic |-> <<s>>, count |-> skipped,
                                                    first_due_us |-> first, last_due_us |-> last]>>>>), "turn")
           /\ due' = [due EXCEPT ![s] = IF first > clock THEN first ELSE first + (skipped + 1) * Interval]
    /\ UNCHANGED <<failed, clock, turn, reads>>

\* advance_due: the slots that are over are skipped, and recorded as such.
Advance ==
    /\ LET s == Subscriptions[turn.at]
           first == due[s] + Interval
           skipped == IF first > clock THEN 0 ELSE (clock - first) \div Interval + 1
           last == first + (skipped - 1) * Interval
       IN  /\ Go("advance",
                 IF skipped = 0 THEN <<>>
                 ELSE TryAll(<<<<"slots_skipped", [semantic |-> <<s>>, count |-> skipped,
                                                    first_due_us |-> first, last_due_us |-> last]>>>>), "turn")
           /\ due' = [due EXCEPT ![s] = first + skipped * Interval]
    /\ UNCHANGED <<failed, clock, turn, reads>>

Cancel ==
    /\ Go("waiting", TryAll(<<Bare("shutdown_requested")>>) \o ApplyAll(<<Lifecycle("ObservationStopped")>>), "stop")
    /\ UNCHANGED failed /\ Still

EndSession ==
    /\ Go("stop", TryAll(<<SessionStopped(clock)>>), "settle")
    /\ UNCHANGED failed /\ Still

\* session.shutdown(), whose result joins the task's, and what the runtime and
\* the audit are told of it.
Settle ==
    \E down \in BOOLEAN :
      /\ failed' = (failed \/ ~down)
      /\ Go("settle",
            IF failed' THEN (IF runtime.phase # "Fault" THEN ReportAll(Lost) ELSE <<>>) \o <<<<"note", <<>>>>>>
            ELSE IF runtime.phase = "Ready" THEN ApplyAll(<<Transport("Disconnected")>>) ELSE <<>>,
            "deactivate")
      /\ Still

EndCapture ==
    /\ \/ \E at \in {"recorded", "deactivate"} : Go(at, ApplyAll(<<Recording("Inactive")>>), "finish")
       \/ Go("finish", FinishRuntime, "close")
    /\ UNCHANGED failed /\ Still

\* The wall clock, which the telemetry is ordered by, is set back.
SetBack ==
    /\ place = "reply" /\ wall = 0 /\ reads > 0
    /\ wall' = 2 * Millisecond
    /\ UNCHANGED <<command, place, script, failed, runtime, transitions, clock, due, turn, reads, telemetry,
                   audit, channel, disk, accepted, result>>

-----------------------------------------------------------------------------
(* The recorder, the end of the process and the reader. *)

\* The next line, which is parsed as it is written: a reader would make the
\* same of it later.
Line(e) == ParseLine(EventLine(Len(file), e))

\* write_events: an event that cannot be encoded ends the writer.
Write ==
    /\ writer = "writing" /\ channel # <<>>
    /\ LET e == Head(channel)
       IN  IF Writable(e) THEN file' = Append(file, Line(e)) /\ channel' = Tail(channel) /\ writer' = writer
           ELSE writer' = "failed" /\ channel' = <<>> /\ file' = file
    /\ UNCHANGED <<command, place, memory, torn, accepted, result>>

\* The file system refuses a line, or takes a part of it (see ReadFile).
WriteFails ==
    /\ writer = "writing" /\ channel # <<>>
    /\ writer' = "failed"
    /\ channel' = <<>>
    /\ torn' = <<Head(channel)>>
    /\ UNCHANGED <<command, place, memory, file, accepted, result>>

\* CaptureSink::close: the last sender is gone and the channel is drained.
WriterEnds ==
    /\ place = "close" /\ script = <<>> /\ writer = "writing" /\ channel = <<>>
    /\ writer' = "done"
    /\ UNCHANGED <<command, place, memory, channel, file, torn, accepted, result>>

Return ==
    /\ writer # "writing"
    /\ Go("close", <<>>, "returned")
    /\ failed' = (failed \/ writer = "failed")
    /\ Still

\* The process is killed: only the file is left, the line that was being
\* written in part.
Crash ==
    /\ place \notin {"returned", "crashed"}
    /\ place' = "crashed"
    /\ torn' = IF writer = "writing" /\ channel # <<>> THEN <<Head(channel)>> ELSE torn
    /\ writer' = "killed"
    /\ channel' = <<>>
    /\ accepted' = SubSeq(accepted, 1, Len(file) + Len(torn'))
    /\ script' = <<>> /\ failed' = FALSE /\ runtime' = Booted /\ transitions' = 1 /\ clock' = 0 /\ wall' = 0
    /\ due' = [d \in Range(Subscriptions) |-> 0] /\ turn' = [at |-> 0, now |-> 0] /\ reads' = 0
    /\ telemetry' = NoTelemetry /\ audit' = <<>>
    /\ UNCHANGED <<command, file, result>>

\* How much of a torn line there may be: nothing, a part, all but the newline.
Cuts(line) == {0, Len(line) \div 2, Len(line)}

ReadFile ==
    /\ place \in {"returned", "crashed"} /\ result = Unread
    /\ IF torn = <<>> THEN result' = Read(Header, file)
       ELSE LET line == EventLine(Len(file), torn[1])
            IN  \E cut \in Cuts(line) :
                  result' = Read(Header, IF cut = 0 THEN file
                                         ELSE Append(file, ParseLine(SubSeq(line, 1, cut))))
    /\ UNCHANGED <<command, place, memory, channel, disk, accepted>>

-----------------------------------------------------------------------------
Init ==
    /\ command \in {"capture", "scan"}
    /\ place = IF command = "scan" THEN "prepare" ELSE "start"
    /\ script = IF command = "scan" THEN Opening ELSE ApplyAll(<<Recording("Active")>>)
    /\ failed = FALSE
    /\ runtime = Booted /\ transitions = 1
    /\ clock = 0 /\ wall = 0
    /\ due = [d \in Range(Subscriptions) |-> 0]
    /\ turn = [at |-> 0, now |-> 0]
    /\ reads = 0
    /\ telemetry = NoTelemetry /\ audit = <<>>
    /\ channel = <<>> /\ writer = "writing" /\ file = <<>> /\ torn = <<>>
    /\ accepted = <<>>
    /\ result = Unread

Scanning == Prepare \/ ReadStoredDtcs \/ EndScan
Capturing == StartCapture \/ StartFails \/ RecordStartFailure \/ Wake \/ StartRead \/ EndRound \/ Reply
               \/ Advance \/ Cancel \/ EndSession \/ Settle \/ EndCapture

Next == TakeStep \/ Scanning \/ Capturing \/ SetBack \/ Write \/ WriteFails \/ WriterEnds \/ Return
          \/ Crash \/ ReadFile

Spec == Init /\ [][Next]_vars

-----------------------------------------------------------------------------
Places == {"prepare", "read", "inactive", "shutdown", "stopped", "start", "connect", "discover", "observing",
           "startFailed", "recorded", "waiting", "turn", "reply", "advance", "stop", "settle", "deactivate",
           "finish", "close", "returned", "crashed"}

\* The types, the bound of the recorder's channel, and that nothing is in
\* the channel of a writer that has ended.
TypeOK ==
    /\ command \in {"capture", "scan"} /\ place \in Places
    /\ runtime \in RuntimeState
    /\ Len(channel) <= Capacity /\ (writer # "writing" => channel = <<>>)
    /\ Len(audit) <= AuditCapacity
    /\ \A s \in DOMAIN telemetry : Len(telemetry[s]) <= HistoryCapacity
    /\ writer \in {"writing", "failed", "done", "killed"}
    /\ \A i \in DOMAIN accepted : accepted[i][1] \in EventTypes

Contexts == Count(accepted, "knowledge_context")
Seen == SubSeq(accepted, 1, Len(file))

\* A line written before a field was introduced is still read, with the
\* field's absent value: here the last line of a file, as every line is the
\* last one of the file that a crash leaves after it.
OlderLine(sequence, e) ==
    LET fields == SelectSeq(FieldsOf(e[1]), LAMBDA f : f[1] \notin LaterFields(e[1]))
    IN  Push(<<"object", Prefix(e[1]) \o <<<<"sequence", Num(sequence)>>>>
                \o [i \in DOMAIN fields |-> <<fields[i][1], PushField(fields[i][2], e[2][fields[i][1]])>>]>>)

OlderLineIsRead(events) ==
    LET n == Len(events)
        e == events[n]
        older == <<e[1], [f \in DOMAIN e[2] |-> IF f \in LaterFields(e[1]) THEN AbsentValue(f) ELSE e[2][f]]>>
    IN  n > 0 => (LaterFields(e[1]) # {} => ParseLine(OlderLine(n - 1, e)) = <<[sequence |-> n - 1, event |-> older]>>)

\* What was written is what is read, to the last character of every text and
\* the last digit of every number: a file reads back as the events the writer
\* took, in their order, wherever the process was killed or the disk was
\* full.  Only a line that was cut, or a start that was recorded twice, makes
\* it unreadable, and a file whose writer ended by itself holds every event
\* the recorder accepted.
FileReadsBack ==
    result # Unread =>
        /\ result = Unreadable => torn # <<>> \/ Contexts > 1
        /\ result # Unreadable =>
             /\ result.events = Seen \/ (torn # <<>> /\ result.events = Append(Seen, torn[1]))
             /\ result.status = "complete" <=> Count(result.events, "session_stopped") = 1
             /\ place = "crashed" => OlderLineIsRead(result.events)
        /\ writer = "done" => Seen = accepted

\* The same values, in the same order, the same ones forgotten, and no read
\* that the decoder of today sees differently; unless the wall clock was set
\* back while it was recorded.
TelemetryIsReplayed ==
    result.status = "complete" /\ place = "returned" =>
        LET replay == FromCapture(result.events)
        IN  /\ replay.issues = <<>>
            /\ wall = 0 /\ writer = "done" /\ Count(accepted, "session_error") = 0
                 /\ Count(accepted, "shutdown_requested") = 1 =>
                 Values(TelemetryAt(replay, replay.duration)) = Values(telemetry)

\* The audit ends with what the file ends with: the reads in their order, the
\* failures among them.
AuditIsRecorded ==
    place \in {"settle", "waiting"} /\ ~failed =>
        LET evidence == OfType(accepted, {"read_succeeded", "read_failed"})
            entry(e) == IF e[1] = "read_failed"
                        THEN [semantic |-> "scheduler.error", request |-> <<>>, response |-> <<>>]
                        ELSE [semantic |-> e[2].semantic[1], request |-> e[2].request_payload,
                              response |-> e[2].response_payload]
            from == IF Len(evidence) > AuditCapacity THEN Len(evidence) - AuditCapacity ELSE 0
        IN  audit = [i \in 1 .. Len(evidence) - from |-> entry(evidence[i + from])]

\* The file holds what the screen showed: replaying a complete capture gives
\* the telemetry of the live view, and the audit shown is the file's.
ReplayShowsTheScreen == TelemetryIsReplayed /\ AuditIsRecorded

\* The report of any file that can be read is well defined and adds up: none
\* of its unsigned subtractions underflows, every read that the runtime saw
\* begin is a success or a failure except the last one, the slots of a signal
\* up to the end of a capture are each read or recorded as skipped, a
\* complete scan ends the job it started with one step, and a responder that
\* answered has observations.
ReportAddsUp ==
    result.status \in {"complete", "partial"} =>
        LET r == Summary(result.events)
            begun == Len(SelectSeq(Fields(OfType(result.events, {"runtime_state_changed"})),
                                   LAMBDA f : f.event.kind = "ObservationReadStarted"))
            subtractions == <<Latencies(r.allReads), Lateness(r.allReads)>>
                              \o [i \in 1 .. Len(SetToSeq(DOMAIN r.signals)) |->
                                     Intervals(r.signals[SetToSeq(DOMAIN r.signals)[i]].finished)]
        IN  /\ \A i \in DOMAIN subtractions :
                 /\ \A j \in DOMAIN subtractions[i] : subtractions[i][j] >= 0
                 /\ subtractions[i] # <<>> =>
                      Percentile(subtractions[i], 50)[1] <= Percentile(subtractions[i], 95)[1]
            /\ begun - (r.successes + r.failures) \in {0, 1}
            /\ result.status = "complete" /\ ~failed /\ place = "returned" /\ command = "capture" =>
                 \A s \in DOMAIN r.signals :
                   due[s] = Interval * (r.signals[s].samples + r.signals[s].failures + r.signals[s].skipped)
            /\ r.jobsEnded <= r.jobsStarted /\ r.jobsEnded <= r.steps
            /\ result.status = "complete" /\ ~failed /\ place = "returned" /\ command = "scan" =>
                 /\ r.jobsStarted = 1 /\ r.jobsEnded = 1 /\ r.steps = 1
                 /\ \A f \in Range(Fields(OfType(result.events, {"dtc_transport_observed"}))) :
                      f.outcome = "response" =>
                        \E g \in Range(Fields(OfType(result.events, {"dtc_observation"}))) : g.responder = f.responder

\* A command that returns without an error leaves a stopped runtime that
\* neither records nor does anything else, and has said so in its file.
SuccessIsClean ==
    place = "returned" /\ ~failed =>
        /\ runtime.phase = "Stopped" /\ runtime.activity = "Idle" /\ runtime.context["recording"] = "Inactive"
        /\ Count(accepted, "session_stopped") = 1
        /\ accepted[Max({i \in DOMAIN accepted : accepted[i][1] = "runtime_state_changed"})][2].to = runtime
=============================================================================
