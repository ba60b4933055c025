--------------------------- MODULE CaptureSession ---------------------------
(***************************************************************************)
(* One recorded capture: the job that starts, waits for and tears down a   *)
(* capture (jobs/capture_session.rs, jobs/mod.rs), the telemetry scheduler *)
(* it starts (scheduler.rs), and the recorder that writes the events to a  *)
(* file (capture_format).  The job and the scheduler's task run            *)
(* concurrently with the writer; every event is offered with try_send, so  *)
(* it is refused when the channel is full or the writer has failed.        *)
(*                                                                         *)
(* The runtime is RuntimeReducer's, one step per send: RuntimeActor shows  *)
(* that its transitions form one history.  The BLE session is only open or *)
(* closed here: SessionActor shows that it disconnects when it is shut     *)
(* down or dropped.  Which signal is due, the telemetry and audit values   *)
(* and the contents of the events are left out.                            *)
(***************************************************************************)
EXTENDS RuntimeReducer

CONSTANT Capacity  \* CHANNEL_CAPACITY of the recorder

ASSUME CapacityAssumption == Capacity \in Nat \ {0}

VARIABLES runtime,   \* the state the runtime actor owns
          view,      \* what the job and the scheduler last saw of it
          job,       \* where the job is
          task,      \* where the scheduler's task is
          failed,    \* the task's result is an error
          lost,      \* a read found the BLE session unhealthy
          link,      \* the BLE session
          queued,    \* events in the recorder's channel
          writer,    \* the recorder's writer
          refused,   \* some event was not accepted
          sender,    \* the job still holds its clone of the sender
          sink,      \* the CaptureSink
          cancelled, \* stop() was called
          started,   \* start() succeeded
          pin        \* knowledge.lock can be read

vars == <<runtime, view, job, task, failed, lost, link, queued, writer, refused,
          sender, sink, cancelled, started, pin>>

Init ==
  /\ runtime = [DefaultState EXCEPT !.phase = "Ready"]
  /\ view = [p \in {"job", "task"} |-> runtime]
  /\ job = "begin"
  /\ task = "none"
  /\ failed = FALSE
  /\ lost = FALSE
  /\ link = "none"
  /\ queued = 0
  /\ writer = "writing"
  /\ refused = FALSE
  /\ sender = TRUE
  /\ sink = "open"
  /\ cancelled = FALSE
  /\ started = FALSE
  /\ pin \in BOOLEAN
-----------------------------------------------------------------------------
(***************************************************************************)
(* emit and apply_runtime_event.                                           *)
(***************************************************************************)
Accepts == writer = "writing" /\ queued < Capacity

Emit ==
  /\ queued' = IF Accepts THEN queued + 1 ELSE queued
  /\ refused' = (refused \/ ~Accepts)

\* Mutant: the view follows only when the evidence was recorded.
ApplyRecordFirst(p, e) ==
  IF Legal(runtime, e)
  THEN /\ runtime' = Reduce(runtime, e)
       /\ view' = IF Accepts THEN [view EXCEPT ![p] = Reduce(runtime, e)] ELSE view
       /\ Emit
  ELSE UNCHANGED <<runtime, view, queued, refused>>

\* The transition is made and seen before its evidence is offered: a refused
\* event makes the call fail although the transition was accepted.
Apply(p, e) ==
  IF Legal(runtime, e)
  THEN /\ runtime' = Reduce(runtime, e)
       /\ view' = [view EXCEPT ![p] = Reduce(runtime, e)]
       /\ Emit
  ELSE UNCHANGED <<runtime, view, queued, refused>>

Applied(e) == Legal(runtime, e) /\ Accepts

\* The session's client is dropped: its actor will disconnect by itself.
Dropped == IF link = "open" THEN "dropped" ELSE link
-----------------------------------------------------------------------------
(***************************************************************************)
(* CaptureSession::start and TelemetryScheduler::start_with_runtime.       *)
(***************************************************************************)
\* `rt.apply(recording Active)?`: its failure returns and drops the sink.
Begin ==
  LET e == ContextUpdated("recording", "Active")
  IN  /\ job = "begin"
      /\ Apply("job", e)
      /\ job' = IF Applied(e) THEN "pin" ELSE "returned"
      /\ sink' = IF Applied(e) THEN sink ELSE "dropped"
      /\ UNCHANGED <<task, failed, lost, link, writer, sender, cancelled, started, pin>>

\* A transition of the start sequence: its failure ends the sequence and
\* drops the session, if there is one already.
StartStep(at, e, next) ==
  /\ job = at
  /\ Apply("task", e)
  /\ job' = IF Applied(e) THEN next ELSE "failed"
  /\ link' = IF Applied(e) THEN link ELSE Dropped
  /\ UNCHANGED <<task, failed, lost, writer, sender, sink, cancelled, started, pin>>

\* A transition whose failure is ignored (`let _ =`).
ReportStep(at, e, next) ==
  /\ job = at
  /\ Apply("task", e)
  /\ job' = next
  /\ UNCHANGED <<task, failed, lost, link, writer, sender, sink, cancelled, started, pin>>

\* CaptureKnowledgeContext::current()?, and the snapshot of the runtime.
LoadPin ==
  /\ job = "pin"
  /\ job' = IF pin THEN "source" ELSE "failed"
  /\ view' = IF pin THEN [view EXCEPT !["task"] = runtime] ELSE view
  /\ UNCHANGED <<runtime, task, failed, lost, link, queued, writer, refused, sender, sink,
                 cancelled, started, pin>>

SetSource == StartStep("source", ContextUpdated("source", "Live"), "connecting")
SetConnecting == StartStep("connecting", ContextUpdated("transport", "Connecting"), "connect")
SetConnected == StartStep("connected", ContextUpdated("transport", "Connected"), "discover")
ReportUnhealthy == ReportStep("unhealthy", ContextUpdated("transport", "Unhealthy"), "fatal")
ReportFatal == ReportStep("fatal", Lifecycle("FatalRuntimeError"), "failed")

Connect ==
  /\ job = "connect"
  /\ \/ job' = "connected" /\ link' = "open"
     \/ job' = "unhealthy" /\ link' = link
  /\ UNCHANGED <<runtime, view, task, failed, lost, queued, writer, refused, sender, sink,
                 cancelled, started, pin>>

\* The support discovery, then the capability and the polling policy: all of
\* them shut the session down when they fail, only the first is reported.
Prepare ==
  /\ \/ job = "discover" /\ job' = "prepare" /\ link' = link
     \/ job = "discover" /\ job' = "unhealthy" /\ link' = "closed"
     \/ job = "prepare" /\ job' = "announce" /\ link' = link
     \/ job = "prepare" /\ job' = "failed" /\ link' = "closed"
  /\ UNCHANGED <<runtime, view, task, failed, lost, queued, writer, refused, sender, sink,
                 cancelled, started, pin>>

\* CaptureStarted, the subscriptions and the discovery evidence.
Announce ==
  /\ job = "announce"
  /\ Emit
  /\ job' = IF Accepts THEN "observe" ELSE "failed"
  /\ link' = IF Accepts THEN link ELSE "closed"
  /\ UNCHANGED <<runtime, view, task, failed, lost, writer, sender, sink, cancelled, started, pin>>

\* ObservationStarted, and the task is spawned.
Observe ==
  LET e == Lifecycle("ObservationStarted")
  IN  /\ job = "observe"
      /\ Apply("task", e)
      /\ job' = IF Applied(e) THEN "running" ELSE "failed"
      /\ task' = IF Applied(e) THEN "waiting" ELSE "none"
      /\ started' = Applied(e)
      /\ link' = IF Applied(e) THEN link ELSE Dropped
      /\ UNCHANGED <<failed, lost, writer, sender, sink, cancelled, pin>>

\* record_capture_start_failure(..)?: it needs the pin too, it waits for room,
\* and a closed recorder returns at once.
RecordStartFailure ==
  /\ job = "failed"
  /\ \/ pin /\ Accepts /\ job' = "deactivate" /\ sink' = sink /\ Emit
     \/ pin /\ writer = "failed" /\ job' = "returned" /\ sink' = "dropped" /\ Emit
     \/ ~pin /\ job' = "returned" /\ sink' = "dropped" /\ UNCHANGED <<queued, refused>>
  /\ UNCHANGED <<runtime, view, task, failed, lost, link, writer, sender, cancelled, started, pin>>
-----------------------------------------------------------------------------
(***************************************************************************)
(* The scheduler's task.                                                   *)
(***************************************************************************)
\* An event of the task that ends the loop when it is refused.
TaskEmit(at, next) ==
  /\ task = at
  /\ Emit
  /\ task' = IF Accepts THEN next ELSE "stop"
  /\ failed' = (failed \/ ~Accepts)
  /\ UNCHANGED <<runtime, view, job, lost, link, writer, sender, sink, cancelled, started, pin>>

\* record_read_failure: the audit lock may be poisoned as well.
TaskRecord(at, next) ==
  \E poisoned \in BOOLEAN :
    /\ task = at
    /\ Emit
    /\ task' = IF Accepts /\ ~poisoned THEN next ELSE "stop"
    /\ failed' = (failed \/ ~Accepts \/ poisoned)
    /\ UNCHANGED <<runtime, view, job, lost, link, writer, sender, sink, cancelled, started, pin>>

TaskApply(at, e, next) ==
  /\ task = at
  /\ Apply("task", e)
  /\ task' = IF Applied(e) THEN next ELSE "stop"
  /\ failed' = (failed \/ ~Applied(e))
  /\ UNCHANGED <<job, lost, link, writer, sender, sink, cancelled, started, pin>>

TaskReport(at, e, next) ==
  /\ task = at
  /\ Apply("task", e)
  /\ task' = next
  /\ UNCHANGED <<job, failed, lost, link, writer, sender, sink, cancelled, started, pin>>

Wake ==
  /\ task = "waiting"
  /\ task' \in IF cancelled THEN {"cancel", "due"} ELSE {"due"}
  /\ UNCHANGED <<runtime, view, job, failed, lost, link, queued, writer, refused, sender,
                 sink, cancelled, started, pin>>

CancelRequested == TaskEmit("cancel", "unobserve")
StopObserving == TaskApply("unobserve", Lifecycle("ObservationStopped"), "stop")
StartRead == TaskApply("due", Lifecycle("ObservationReadStarted"), "read")

\* The read comes back: a value, a recoverable failure or the end of the
\* session.  A value that cannot be stored leaves the task at once (`?` on a
\* poisoned lock): nothing is recorded and the session's client is dropped.
ReadReturns ==
  /\ task = "read"
  /\ \/ task' \in {"value", "miss"} /\ UNCHANGED <<failed, lost, link>>
     \/ task' = "lost" /\ lost' = TRUE /\ UNCHANGED <<failed, link>>
     \/ task' = "dead" /\ failed' = TRUE /\ link' = Dropped /\ UNCHANGED lost
  /\ UNCHANGED <<runtime, view, job, queued, writer, refused, sender, sink, cancelled, started, pin>>

RecordValue == TaskEmit("value", "completed")
RecordMiss == TaskRecord("miss", "recovered")
RecordLoss == TaskRecord("lost", "reportLoss")
CompleteRead == TaskApply("completed", Lifecycle("ObservationReadCompleted"), "advance")
RecoverRead == TaskApply("recovered", Lifecycle("ObservationReadFailedRecoverable"), "advance")
ReportLoss == TaskApply("reportLoss", ContextUpdated("transport", "Unhealthy"), "fault")

\* The runtime is told of the fatal error, and the loop ends with it.
ReportFault ==
  /\ task = "fault"
  /\ Apply("task", Lifecycle("FatalRuntimeError"))
  /\ task' = "stop"
  /\ failed' = TRUE
  /\ UNCHANGED <<job, lost, link, writer, sender, sink, cancelled, started, pin>>

\* advance_due, and the next subscription that is due, if there is one.
Advance ==
  /\ task = "advance"
  /\ task' \in {"due", "reshape"}
  /\ UNCHANGED <<runtime, view, job, failed, lost, link, queued, writer, refused, sender,
                 sink, cancelled, started, pin>>
SkipSlots == \E next \in {"due", "reshape"} : TaskEmit("advance", next)

\* The measured capability and the reshaped schedule.
Reshape ==
  /\ task = "reshape"
  /\ \/ task' = "waiting" /\ UNCHANGED failed
     \/ task' = "stop" /\ failed' = TRUE
  /\ UNCHANGED <<runtime, view, job, lost, link, queued, writer, refused, sender, sink,
                 cancelled, started, pin>>

EmitStopped ==
  /\ task = "stop"
  /\ Emit
  /\ task' = "shutdown"
  /\ failed' = (failed \/ ~Accepts)
  /\ UNCHANGED <<runtime, view, job, lost, link, writer, sender, sink, cancelled, started, pin>>

\* Mutant: the session's client is only dropped.
ShutdownSkipped ==
  /\ task = "shutdown"
  /\ task' = "settle"
  /\ link' = "dropped"
  /\ UNCHANGED <<runtime, view, job, failed, lost, queued, writer, refused, sender, sink,
                 cancelled, started, pin>>

\* session.shutdown(), whose result joins the task's.
ShutdownSession ==
  /\ task = "shutdown"
  /\ task' = "settle"
  /\ link' = "closed"
  /\ failed' \in {failed, TRUE}
  /\ UNCHANGED <<runtime, view, job, lost, queued, writer, refused, sender, sink, cancelled,
                 started, pin>>

\* Mutant: only a clean end is reported.
SettleCleanOnly ==
  /\ task = "settle"
  /\ task' = "done"
  /\ IF ~failed /\ view["task"].phase = "Ready"
     THEN Apply("task", ContextUpdated("transport", "Disconnected"))
     ELSE UNCHANGED <<runtime, view, queued, refused>>
  /\ UNCHANGED <<job, failed, lost, link, writer, sender, sink, cancelled, started, pin>>

\* A clean end is reported as Disconnected, any other as a fault, unless the
\* fault was reported already.
Settle ==
  /\ task = "settle"
  /\ LET e == ContextUpdated("transport", IF failed THEN "Unhealthy" ELSE "Disconnected")
     IN  IF failed /\ view["task"].phase # "Fault"
         THEN task' = "settleFault" /\ failed' = failed /\ Apply("task", e)
         ELSE IF ~failed /\ view["task"].phase = "Ready"
         THEN task' = "done" /\ failed' = ~Applied(e) /\ Apply("task", e)
         ELSE task' = "done" /\ UNCHANGED <<failed, runtime, view, queued, refused>>
  /\ UNCHANGED <<job, lost, link, writer, sender, sink, cancelled, started, pin>>

SettleFault == TaskReport("settleFault", Lifecycle("FatalRuntimeError"), "done")
-----------------------------------------------------------------------------
(***************************************************************************)
(* run_until and the common teardown.                                      *)
(***************************************************************************)
TaskEnded == task \in {"done", "dead"}

\* Ctrl-C, or the scheduler has ended by itself.
Stop ==
  /\ job = "running"
  /\ job' = "join"
  /\ cancelled' = TRUE
  /\ UNCHANGED <<runtime, view, task, failed, lost, link, queued, writer, refused, sender,
                 sink, started, pin>>
SchedulerEnded == TaskEnded /\ Stop

Join ==
  /\ job = "join"
  /\ TaskEnded
  /\ job' = "deactivate"
  /\ UNCHANGED <<runtime, view, task, failed, lost, link, queued, writer, refused, sender,
                 sink, cancelled, started, pin>>

JobApply(at, e, next, otherwise) ==
  /\ job = at
  /\ Apply("job", e)
  /\ job' = IF Applied(e) THEN next ELSE otherwise
  /\ UNCHANGED <<task, failed, lost, link, writer, sender, sink, cancelled, started, pin>>

Skip(at, next) ==
  /\ job = at
  /\ job' = next
  /\ UNCHANGED <<runtime, view, task, failed, lost, link, queued, writer, refused, sender,
                 sink, cancelled, started, pin>>

Deactivate == JobApply("deactivate", ContextUpdated("recording", "Inactive"), "finish", "finish")

\* Mutant: an observation that is still running is not stopped first.
FinishObservationNever == Skip("finish", "shut")

\* JobRuntime::finish: the first failure ends it.
FinishObservation ==
  IF view["job"].activity = "Observe"
  THEN JobApply("finish", Lifecycle("ObservationStopped"), "shut", "release")
  ELSE Skip("finish", "shut")
RequestShutdown ==
  IF view["job"].phase # "Stopped"
  THEN JobApply("shut", Lifecycle("ShutdownRequested"), "complete", "release")
  ELSE Skip("shut", "release")
CompleteShutdown == JobApply("complete", Lifecycle("ShutdownCompleted"), "release", "release")

\* Mutant: the job keeps its clone of the sender.
ReleaseNothing ==
  /\ job = "release"
  /\ job' = "closing"
  /\ sink' = "closing"
  /\ UNCHANGED <<runtime, view, task, failed, lost, link, queued, writer, refused, sender,
                 cancelled, started, pin>>

\* rt.release_capture(), and sink.close() drops the sink's own sender.
Release ==
  /\ job = "release"
  /\ job' = "closing"
  /\ sender' = FALSE
  /\ sink' = "closing"
  /\ UNCHANGED <<runtime, view, task, failed, lost, link, queued, writer, refused, cancelled,
                 started, pin>>

Close ==
  /\ job = "closing"
  /\ writer # "writing"
  /\ job' = "returned"
  /\ sink' = "closed"
  /\ UNCHANGED <<runtime, view, task, failed, lost, link, queued, writer, refused, sender,
                 cancelled, started, pin>>
-----------------------------------------------------------------------------
(***************************************************************************)
(* The writer.                                                             *)
(***************************************************************************)
WriterRest == UNCHANGED <<runtime, view, job, task, failed, lost, link, refused, sender, sink,
                          cancelled, started, pin>>

Write == writer = "writing" /\ queued > 0 /\ queued' = queued - 1 /\ UNCHANGED writer /\ WriterRest

\* An I/O error ends the writer and closes the channel.
WriteFails ==
  /\ writer = "writing"
  /\ queued > 0
  /\ writer' = "failed"
  /\ queued' = 0
  /\ WriterRest

\* The actor of a session whose client was dropped disconnects.
Disconnect ==
  /\ link = "dropped"
  /\ link' = "closed"
  /\ UNCHANGED <<runtime, view, job, task, failed, lost, queued, writer, refused, sender, sink,
                 cancelled, started, pin>>

\* Every sender is gone and the channel is drained.
WriterEnds ==
  /\ writer = "writing"
  /\ queued = 0
  /\ ~sender
  /\ sink = "closing"
  /\ (task = "none" \/ TaskEnded)
  /\ writer' = "done"
  /\ UNCHANGED queued
  /\ WriterRest

Starting == Begin \/ LoadPin \/ SetSource \/ SetConnecting \/ Connect \/ SetConnected \/ Prepare
              \/ Announce \/ Observe \/ ReportUnhealthy \/ ReportFatal \/ RecordStartFailure
Tasking == Wake \/ CancelRequested \/ StopObserving \/ StartRead \/ ReadReturns
             \/ RecordValue \/ RecordMiss \/ RecordLoss \/ CompleteRead \/ RecoverRead
             \/ ReportLoss \/ ReportFault \/ Advance \/ SkipSlots \/ Reshape \/ EmitStopped \/ ShutdownSession
             \/ Settle \/ SettleFault
Ending == Join \/ Deactivate \/ FinishObservation \/ RequestShutdown \/ CompleteShutdown
            \/ Release \/ Close
Writing == Write \/ WriterEnds

Next == Starting \/ Tasking \/ Stop \/ SchedulerEnded \/ Ending \/ Writing \/ WriteFails
          \/ Disconnect

Spec == Init /\ [][Next]_vars

\* The job, the task and the session's actor are polled when they can go on,
\* a round over the schedule is finite, select! picks at random, so that it
\* takes a cancellation that stays ready, and the writer's thread runs.
FairSpec ==
  /\ Spec
  /\ WF_vars(Starting) /\ WF_vars(Ending) /\ WF_vars(Writing)
  /\ WF_vars(Tasking) /\ SF_vars(Wake /\ task' = "cancel")
  /\ SF_vars((Advance \/ SkipSlots) /\ task' = "reshape")
  /\ WF_vars(SchedulerEnded) /\ WF_vars(Disconnect)
-----------------------------------------------------------------------------
JobPlace == {"begin", "pin", "source", "connecting", "connect", "connected", "discover", "prepare",
             "announce", "observe", "unhealthy", "fatal", "failed", "running", "join",
             "deactivate", "finish", "shut", "complete", "release", "closing", "returned"}
TaskPlace == {"none", "waiting", "cancel", "unobserve", "due", "read", "value", "miss", "lost",
              "completed", "recovered", "reportLoss", "fault", "advance", "reshape", "stop",
              "shutdown", "settle", "settleFault", "done", "dead"}

\* The types, and the bound of the recorder's channel.
TypeOK ==
  /\ runtime \in RuntimeState
  /\ view \in [{"job", "task"} -> RuntimeState]
  /\ job \in JobPlace /\ task \in TaskPlace
  /\ {failed, lost, refused, sender, cancelled, started, pin} \subseteq BOOLEAN
  /\ link \in {"none", "open", "dropped", "closed"}
  /\ queued \in 0 .. Capacity
  /\ writer \in {"writing", "failed", "done"}
  /\ sink \in {"open", "closing", "closed", "dropped"}

\* A decision is never taken on a stale view of the runtime: whenever the
\* teardown or the scheduler consults its copy, the copy is the runtime's
\* state, refused evidence and transitions of the other side included.
ViewIsCurrent ==
  /\ job \in {"finish", "shut"} => view["job"] = runtime
  /\ task # "none" /\ ~TaskEnded => view["task"] = runtime

\* If the recorder took every event and the knowledge pin was readable, a
\* capture that has returned leaves a stopped runtime that records nothing and
\* a closed file, wherever the start or the run failed, a scheduler that died
\* in the middle of its observation included.
ReturnsClean ==
  job = "returned" /\ ~refused /\ pin =>
    /\ runtime.phase = "Stopped"
    /\ runtime.context["recording"] = "Inactive"
    /\ sink = "closed"

\* The adapter is disconnected before the capture returns, after a failed
\* start or a lost session too; its session is only dropped, and disconnects
\* on its own, when the recorder refused an event or the task died.
LinkIsClosed == job = "returned" /\ ~refused /\ task # "dead" => link \in {"none", "closed"}

\* A session that was lost is visible in the runtime when the scheduler has
\* ended, even if the recorder refused the evidence of it.
LossIsVisible ==
  TaskEnded /\ lost =>
    /\ runtime.context["transport"] = "Unhealthy"
    /\ runtime.phase \in {"Fault", "Stopping", "Stopped"}

\* A capture that was stopped, or whose scheduler ended, returns: nobody waits
\* for a sender that is never dropped.
CaptureEnds == cancelled \/ TaskEnded ~> job = "returned"
=============================================================================
