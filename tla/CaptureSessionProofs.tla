------------------------ MODULE CaptureSessionProofs ------------------------
(***************************************************************************)
(* The invariants of CaptureSession, for every capacity of the recorder's  *)
(* channel, proved from one inductive invariant that says how far the job, *)
(* the scheduler's task, the runtime and the link have come together.      *)
(***************************************************************************)
EXTENDS CaptureSession, TLAPS

Unlinked == {"begin", "pin", "source", "connecting", "connect"}
Orderly == Unlinked \cup {"connected", "discover", "prepare", "announce", "observe",
                          "unhealthy", "fatal"}
Starts == Orderly \cup {"failed"}
Teardown == {"deactivate", "finish", "shut", "complete", "release", "closing", "returned"}

TaskActive == task # "none" /\ ~TaskEnded

\* The task exists once the start has succeeded, and the teardown begins when
\* it has ended: the two never move the runtime at the same time.
TakingTurns ==
  /\ job \in Starts => task = "none"
  /\ TaskActive => job \in {"running", "join"}

\* Where the runtime is, at each place of the job.
RuntimeFollows ==
  /\ runtime.activity \in {"Idle", "Observe"}
  /\ runtime.activity = "Observe" => runtime.phase = "Ready"
  /\ job \in Orderly => runtime.phase = "Ready" /\ runtime.activity = "Idle"
  /\ job \in Starts \cup {"running", "join", "deactivate", "finish", "shut"} =>
       runtime.phase \in {"Ready", "Fault"}
  /\ job = "shut" => runtime.activity = "Idle"
  /\ job = "complete" => At(runtime, "Stopping", "Idle")
  /\ job \in Teardown \ {"deactivate", "returned"} => runtime.context["recording"] = "Inactive"
  /\ job \in {"release", "closing"} /\ ~refused => runtime.phase = "Stopped"

\* Where the link is.
LinkFollows ==
  /\ job \in Unlinked => link = "none"
  /\ job \in {"unhealthy", "fatal"} => link \in {"none", "closed"}
  /\ job \in Teardown \cup {"failed"} => link \in {"none", "closed"} \/ refused \/ task = "dead"
  /\ task \in {"settle", "settleFault", "done"} => link = "closed"

\* How a lost session gets into the runtime: by the report of the loss, or by
\* the task's failure when that report was refused.
LossFollows ==
  /\ lost => task \in {"lost", "reportLoss", "fault", "stop", "shutdown", "settle",
                       "settleFault", "done"}
  /\ lost /\ task \in {"stop", "shutdown", "settle"} => failed
  /\ task \in {"fault", "settleFault"} => runtime.context["transport"] = "Unhealthy"
  /\ TaskActive /\ runtime.phase = "Fault" =>
       runtime.context["transport"] = "Unhealthy" /\ task \in {"stop", "shutdown", "settle"}
  /\ LossIsVisible

Inv == TypeOK /\ TakingTurns /\ RuntimeFollows /\ ViewIsCurrent /\ LinkFollows /\ LossFollows
         /\ ReturnsClean

-----------------------------------------------------------------------------
(***************************************************************************)
(* The reducer's transitions that a capture uses.                          *)
(***************************************************************************)
\* A context update is accepted unless the runtime has stopped, and changes
\* the one dimension it names.
LEMMA ContextEffect ==
  ASSUME NEW s \in RuntimeState, NEW d \in Dimension, NEW v \in ContextDomain[d]
  PROVE  LET e == ContextUpdated(d, v)
         IN  /\ Legal(s, e) <=> s.phase # "Stopped"
             /\ Reduce(s, e) \in RuntimeState
             /\ Reduce(s, e).phase = s.phase
             /\ Reduce(s, e).activity = s.activity
             /\ Reduce(s, e).context[d] = v
             /\ \A o \in Dimension : o # d => Reduce(s, e).context[o] = s.context[o]
<1> DEFINE e == ContextUpdated(d, v)
           c == [s.context EXCEPT ![d] = v]
<1>1. e.kind = "ContextUpdated" /\ e.dim = d /\ e.value = v
  BY DEF ContextUpdated
<1>2. s.context \in RuntimeContext /\ v \in ContextValue
  BY DEF RuntimeState, ContextValue
<1>3. /\ c \in RuntimeContext /\ c[d] = v
      /\ \A o \in Dimension : o # d => c[o] = s.context[o]
  BY <1>2 DEF RuntimeContext
<1>4. Legal(s, e) <=> s.phase # "Stopped"
  BY <1>1 DEF Legal
<1>5. Reduce(s, e) = [s EXCEPT !.context = c]
  BY <1>1 DEF Reduce, ApplyContext, RuntimeState
<1> HIDE DEF e, c
<1>6. /\ Reduce(s, e) \in RuntimeState
      /\ Reduce(s, e).phase = s.phase
      /\ Reduce(s, e).activity = s.activity
      /\ Reduce(s, e).context = c
  BY <1>3, <1>5 DEF RuntimeState
<1> QED
  BY <1>3, <1>4, <1>6 DEF e

CaptureKind == {"ObservationStarted", "ObservationStopped", "ObservationReadStarted",
                "ObservationReadCompleted", "ObservationReadFailedRecoverable",
                "ShutdownRequested", "ShutdownCompleted", "FatalRuntimeError"}

\* The lifecycle events of a capture: when they are accepted, and where they
\* take the runtime.
LEMMA LifecycleEffect ==
  ASSUME NEW s \in RuntimeState, NEW k \in CaptureKind
  PROVE  LET e == Lifecycle(k)
             t == Reduce(s, e)
         IN  /\ k = "ObservationStarted" =>
                  (Legal(s, e) <=> At(s, "Ready", "Idle")) /\ At(t, "Ready", "Observe")
             /\ k = "ObservationStopped" =>
                  (Legal(s, e) <=> At(s, "Ready", "Observe")) /\ At(t, "Ready", "Idle")
             /\ k \in {"ObservationReadStarted", "ObservationReadCompleted",
                       "ObservationReadFailedRecoverable"} =>
                  (Legal(s, e) <=> At(s, "Ready", "Observe")) /\ t = s
             /\ k = "ShutdownRequested" =>
                  (Legal(s, e) <=> ShutdownAllowed(s)) /\ At(t, "Stopping", "Idle")
             /\ k = "ShutdownCompleted" =>
                  (Legal(s, e) <=> At(s, "Stopping", "Idle")) /\ At(t, "Stopped", "Idle")
             /\ k = "FatalRuntimeError" =>
                  (Legal(s, e) <=> s.phase # "Stopped") /\ At(t, "Fault", "Idle")
             /\ t \in RuntimeState
             /\ t.context = s.context
<1> DEFINE e == Lifecycle(k)
<1>1. e.kind = k
  BY DEF Lifecycle
<1> HIDE DEF e
<1>2. \A p \in Phase, a \in Activity :
        /\ StateAt(s, p, a) \in RuntimeState
        /\ At(StateAt(s, p, a), p, a)
        /\ StateAt(s, p, a).context = s.context
  BY DEF StateAt, At, RuntimeState
<1> QED
  BY <1>1, <1>2 DEF Legal, Reduce, Faulted, FatalAllowed, CaptureKind, Phase, Activity, e

\* The evidence of an event is accepted or remembered as refused.
LEMMA EmitEffect ==
  ASSUME TypeOK, Emit
  PROVE  /\ queued' \in 0 .. Capacity
         /\ refused' \in BOOLEAN
         /\ refused => refused'
         /\ ~Accepts => refused'
<1>1. Capacity \in Nat /\ queued \in 0 .. Capacity /\ refused \in BOOLEAN
  BY CapacityAssumption DEF TypeOK
<1>2. queued' \in 0 .. Capacity
  BY <1>1 DEF Emit, Accepts
<1> QED
  BY <1>1, <1>2 DEF Emit

Views == {"job", "task"}

\* apply_runtime_event: the runtime and the view of the caller move together,
\* whatever becomes of the evidence.
LEMMA ApplyEffect ==
  ASSUME TypeOK, NEW p \in Views, NEW e, Reduce(runtime, e) \in RuntimeState, Apply(p, e)
  PROVE  /\ runtime' \in RuntimeState
         /\ view' \in [Views -> RuntimeState]
         /\ runtime' = IF Legal(runtime, e) THEN Reduce(runtime, e) ELSE runtime
         /\ Legal(runtime, e) => view'[p] = runtime'
         /\ ~Legal(runtime, e) => UNCHANGED view
         /\ \A o \in Views : o # p => view'[o] = view[o]
         /\ queued' \in 0 .. Capacity
         /\ refused' \in BOOLEAN
         /\ refused => refused'
         /\ Legal(runtime, e) /\ ~Applied(e) => refused'
<1>1. /\ runtime \in RuntimeState /\ view \in [Views -> RuntimeState]
      /\ queued \in 0 .. Capacity /\ refused \in BOOLEAN
  BY DEF TypeOK, Views
<1>2. CASE Legal(runtime, e)
  <2>1. /\ runtime' = Reduce(runtime, e)
        /\ view' = [view EXCEPT ![p] = Reduce(runtime, e)]
        /\ Emit
    BY <1>2 DEF Apply
  <2> QED
    BY <1>1, <1>2, <2>1, EmitEffect DEF Applied
<1>3. CASE ~Legal(runtime, e)
  <2>1. UNCHANGED <<runtime, view, queued, refused>>
    BY <1>3 DEF Apply
  <2> QED
    BY <1>1, <1>3, <2>1
<1> QED
  BY <1>2, <1>3

\* What the two sides see of a transition that p makes: the runtime and the
\* view of p move together, and evidence that is refused is accounted for.
Seen(p, e) ==
  /\ runtime' \in RuntimeState /\ view' \in [Views -> RuntimeState]
  /\ view'[p] = runtime' /\ \A o \in Views : o # p => view'[o] = view[o]
  /\ queued' \in 0 .. Capacity /\ refused' \in BOOLEAN
  /\ refused => refused'
  /\ Legal(runtime, e) /\ ~Applied(e) => refused'

ContextMoves(p, d, v) ==
  /\ Seen(p, ContextUpdated(d, v)) /\ Legal(runtime, ContextUpdated(d, v))
  /\ runtime'.phase = runtime.phase /\ runtime'.activity = runtime.activity
  /\ runtime'.context[d] = v
  /\ \A o \in Dimension : o # d => runtime'.context[o] = runtime.context[o]

LifecycleMoves(p, k) ==
  /\ Seen(p, Lifecycle(k))
  /\ runtime' = IF Legal(runtime, Lifecycle(k)) THEN Reduce(runtime, Lifecycle(k)) ELSE runtime
  /\ runtime'.context = runtime.context

\* A context update of a runtime that has not stopped always takes effect and
\* is always seen by the side that made it.
LEMMA ContextApply ==
  ASSUME TypeOK, runtime.phase # "Stopped", NEW p \in Views,
         NEW d \in Dimension, NEW v \in ContextDomain[d], Apply(p, ContextUpdated(d, v))
  PROVE  ContextMoves(p, d, v)
<1>1. runtime \in RuntimeState
  BY DEF TypeOK
<1> DEFINE e == ContextUpdated(d, v)
<1>2. /\ Legal(runtime, e)
      /\ Reduce(runtime, e) \in RuntimeState
      /\ Reduce(runtime, e).phase = runtime.phase
      /\ Reduce(runtime, e).activity = runtime.activity
      /\ Reduce(runtime, e).context[d] = v
      /\ \A o \in Dimension : o # d => Reduce(runtime, e).context[o] = runtime.context[o]
  BY <1>1, ContextEffect
<1> HIDE DEF e
<1> QED
  BY <1>2, ApplyEffect DEF e, ContextMoves, Seen

\* A lifecycle event is seen by a side whose view was current or that the
\* runtime listens to.
LEMMA LifecycleApply ==
  ASSUME TypeOK, NEW p \in Views, NEW k \in CaptureKind, Apply(p, Lifecycle(k)),
         Legal(runtime, Lifecycle(k)) \/ view[p] = runtime
  PROVE  LifecycleMoves(p, k)
<1>1. runtime \in RuntimeState
  BY DEF TypeOK
<1> DEFINE e == Lifecycle(k)
<1>2. Reduce(runtime, e) \in RuntimeState /\ Reduce(runtime, e).context = runtime.context
  BY <1>1, LifecycleEffect
<1> HIDE DEF e
<1> QED
  BY <1>1, <1>2, ApplyEffect DEF e, LifecycleMoves, Seen

-----------------------------------------------------------------------------
(***************************************************************************)
(* The invariant is inductive.                                             *)
(***************************************************************************)
\* The parts of the invariant are tables over the places of the job and of the
\* task; every leaf below looks them up.
USE DEF Views, Starts, Orderly, Unlinked, Teardown, TaskActive, TaskEnded, CaptureKind, At,
        TakingTurns, RuntimeFollows, ViewIsCurrent, LinkFollows, LossFollows, LossIsVisible,
        ReturnsClean

\* The runtime of a job is ready and idle, and both sides know it.
LEMMA InitInv == Init => Inv
<1> SUFFICES ASSUME Init PROVE Inv
  OBVIOUS
<1>1. DefaultState \in RuntimeState /\ DefaultState.activity = "Idle"
  BY DEF DefaultState, RuntimeState, DefaultContext, RuntimeContext, Dimension, ContextValue,
         ContextDomain, Phase, Activity
<1>2. /\ runtime \in RuntimeState
      /\ runtime.phase = "Ready" /\ runtime.activity = "Idle"
  BY <1>1 DEF Init, RuntimeState, Phase
<1>3. view \in [Views -> RuntimeState]
  BY <1>2 DEF Init
<1>4. {failed, lost, refused, sender, cancelled, started, pin} \subseteq BOOLEAN
  BY DEF Init
<1>5. TypeOK
  BY <1>2, <1>3, <1>4, CapacityAssumption DEF Init, TypeOK, JobPlace, TaskPlace
<1>6. TakingTurns /\ RuntimeFollows /\ ViewIsCurrent
  BY <1>2 DEF Init
<1>7. LinkFollows /\ LossFollows /\ ReturnsClean
  BY <1>2 DEF Init
<1> QED
  BY <1>5, <1>6, <1>7 DEF Inv

\* Every step of the start: a failure before the scheduler runs leads to
\* the report of the failure or straight back, with nothing left open unless
\* the recorder refused its evidence.
LEMMA StartingInv == Inv /\ Starting => Inv'
<1> SUFFICES ASSUME Inv, Starting PROVE Inv'
  OBVIOUS
<1>1. TypeOK
  BY DEF Inv
<1>2. CASE Begin
  <2>1. ContextMoves("job", "recording", "Active")
    BY <1>1, <1>2, ContextApply
       DEF Begin, Dimension, ContextDomain, Inv
  <2>2. TypeOK'
    BY <1>1, <1>2, <2>1 DEF TypeOK, JobPlace, TaskPlace, Begin, Seen, ContextMoves
  <2> QED
    BY <1>1, <1>2, <2>1, <2>2 DEF Inv, Dimension, Begin, Seen, ContextMoves
<1>3. CASE LoadPin
  <2>1. TypeOK'
    BY <1>1, <1>3 DEF TypeOK, JobPlace, TaskPlace, LoadPin
  <2> QED
    BY <1>1, <1>3, <2>1 DEF Inv, LoadPin
<1>4. CASE SetSource
  <2>1. ContextMoves("task", "source", "Live")
    BY <1>1, <1>4, ContextApply
       DEF SetSource, StartStep, Dropped, Dimension, ContextDomain, Inv
  <2>2. TypeOK'
    BY <1>1, <1>4, <2>1
       DEF TypeOK, JobPlace, TaskPlace, SetSource, StartStep, Dropped, Seen, ContextMoves
  <2> QED
    BY <1>1, <1>4, <2>1, <2>2 DEF Inv, Dimension, SetSource, StartStep, Dropped, Seen, ContextMoves
<1>5. CASE SetConnecting
  <2>1. ContextMoves("task", "transport", "Connecting")
    BY <1>1, <1>5, ContextApply
       DEF SetConnecting, StartStep, Dropped, Dimension, ContextDomain, Inv
  <2>2. TypeOK'
    BY <1>1, <1>5, <2>1
       DEF TypeOK, JobPlace, TaskPlace, SetConnecting, StartStep, Dropped, Seen, ContextMoves
  <2> QED
    BY <1>1, <1>5, <2>1, <2>2
       DEF Inv, Dimension, SetConnecting, StartStep, Dropped, Seen, ContextMoves
<1>6. CASE Connect
  <2>1. TypeOK'
    BY <1>1, <1>6 DEF TypeOK, JobPlace, TaskPlace, Connect
  <2> QED
    BY <1>1, <1>6, <2>1 DEF Inv, Connect
<1>7. CASE SetConnected
  <2>1. ContextMoves("task", "transport", "Connected")
    BY <1>1, <1>7, ContextApply
       DEF SetConnected, StartStep, Dropped, Dimension, ContextDomain, Inv
  <2>2. TypeOK'
    BY <1>1, <1>7, <2>1
       DEF TypeOK, JobPlace, TaskPlace, SetConnected, StartStep, Dropped, Seen, ContextMoves
  <2> QED
    BY <1>1, <1>7, <2>1, <2>2
       DEF Inv, Dimension, SetConnected, StartStep, Dropped, Seen, ContextMoves
<1>8. CASE Prepare
  <2>1. TypeOK'
    BY <1>1, <1>8 DEF TypeOK, JobPlace, TaskPlace, Prepare
  <2> QED
    BY <1>1, <1>8, <2>1 DEF Inv, Prepare
<1>9. CASE Announce
  <2>1. queued' \in 0 .. Capacity /\ refused' \in BOOLEAN /\ (refused => refused')
        /\ (~Accepts => refused')
    BY <1>1, <1>9, EmitEffect DEF Announce
  <2>2. TypeOK'
    BY <1>1, <1>9, <2>1 DEF TypeOK, JobPlace, TaskPlace, Announce
  <2> QED
    BY <1>1, <1>9, <2>1, <2>2 DEF Inv, Announce
<1>10. CASE Observe
  <2> DEFINE e == Lifecycle("ObservationStarted")
  <2>1. runtime \in RuntimeState
    BY <1>1 DEF TypeOK
  <2>2. (Legal(runtime, e) <=> At(runtime, "Ready", "Idle")) /\ At(Reduce(runtime, e), "Ready", "Observe")
    BY <2>1, LifecycleEffect
  <2>3. LifecycleMoves("task", "ObservationStarted")
    BY <1>1, <1>10, <2>2, LifecycleApply
       DEF Observe, Dropped, Inv, ShutdownAllowed
  <2>4. TypeOK'
    BY <1>1, <1>10, <2>3
       DEF TypeOK, JobPlace, TaskPlace, Applied, Observe, Dropped, Seen, LifecycleMoves
  <2> QED
    BY <1>1, <1>10, <2>2, <2>3, <2>4
       DEF Inv, ShutdownAllowed, Observe, Dropped, Seen, LifecycleMoves
<1>11. CASE ReportUnhealthy
  <2>1. ContextMoves("task", "transport", "Unhealthy")
    BY <1>1, <1>11, ContextApply
       DEF ReportUnhealthy, ReportStep, Dimension, ContextDomain, Inv
  <2>2. TypeOK'
    BY <1>1, <1>11, <2>1
       DEF TypeOK, JobPlace, TaskPlace, ReportUnhealthy, ReportStep, Seen, ContextMoves
  <2> QED
    BY <1>1, <1>11, <2>1, <2>2 DEF Inv, Dimension, ReportUnhealthy, ReportStep, Seen, ContextMoves
<1>12. CASE ReportFatal
  <2> DEFINE e == Lifecycle("FatalRuntimeError")
  <2>1. runtime \in RuntimeState
    BY <1>1 DEF TypeOK
  <2>2. (Legal(runtime, e) <=> runtime.phase # "Stopped") /\ At(Reduce(runtime, e), "Fault", "Idle")
    BY <2>1, LifecycleEffect
  <2>3. LifecycleMoves("task", "FatalRuntimeError")
    BY <1>1, <1>12, <2>2, LifecycleApply
       DEF ReportFatal, ReportStep, Inv, ShutdownAllowed
  <2>4. TypeOK'
    BY <1>1, <1>12, <2>3
       DEF TypeOK, JobPlace, TaskPlace, Applied, ReportFatal, ReportStep, Seen, LifecycleMoves
  <2> QED
    BY <1>1, <1>12, <2>2, <2>3, <2>4
       DEF Inv, ShutdownAllowed, ReportFatal, ReportStep, Seen, LifecycleMoves
<1>13. CASE RecordStartFailure
  <2>1. queued' \in 0 .. Capacity /\ refused' \in BOOLEAN /\ (refused => refused')
        /\ (pin /\ job' = "returned" => refused')
    BY <1>1, <1>13, EmitEffect DEF RecordStartFailure, Accepts, TypeOK
  <2>2. TypeOK'
    BY <1>1, <1>13, <2>1 DEF TypeOK, JobPlace, TaskPlace, RecordStartFailure
  <2> QED
    BY <1>1, <1>13, <2>1, <2>2 DEF Inv, RecordStartFailure
<1> QED
  BY <1>2, <1>3, <1>4, <1>5, <1>6, <1>7, <1>8, <1>9, <1>10, <1>11, <1>12, <1>13 DEF Starting

\* Every step of the scheduler's task.
LEMMA TaskingInv == Inv /\ Tasking => Inv'
<1> SUFFICES ASSUME Inv, Tasking PROVE Inv'
  OBVIOUS
<1>1. TypeOK
  BY DEF Inv
<1>2. CASE Wake
  <2>1. TypeOK'
    BY <1>1, <1>2 DEF TypeOK, JobPlace, TaskPlace, Wake
  <2> QED
    BY <1>1, <1>2, <2>1 DEF Inv, Wake
<1>3. CASE CancelRequested
  <2>1. queued' \in 0 .. Capacity /\ refused' \in BOOLEAN /\ (refused => refused')
        /\ (~Accepts => refused')
    BY <1>1, <1>3, EmitEffect DEF CancelRequested, TaskEmit
  <2>2. TypeOK'
    BY <1>1, <1>3, <2>1 DEF TypeOK, JobPlace, TaskPlace, CancelRequested, TaskEmit
  <2> QED
    BY <1>1, <1>3, <2>1, <2>2 DEF Inv, CancelRequested, TaskEmit
<1>4. CASE StopObserving
  <2> DEFINE e == Lifecycle("ObservationStopped")
  <2>1. runtime \in RuntimeState
    BY <1>1 DEF TypeOK
  <2>2. (Legal(runtime, e) <=> At(runtime, "Ready", "Observe")) /\ At(Reduce(runtime, e), "Ready", "Idle")
    BY <2>1, LifecycleEffect
  <2>3. LifecycleMoves("task", "ObservationStopped")
    BY <1>1, <1>4, <2>2, LifecycleApply
       DEF StopObserving, TaskApply, Inv, ShutdownAllowed
  <2>4. TypeOK'
    BY <1>1, <1>4, <2>3
       DEF TypeOK, JobPlace, TaskPlace, Applied, StopObserving, TaskApply, Seen, LifecycleMoves
  <2> QED
    BY <1>1, <1>4, <2>2, <2>3, <2>4
       DEF Inv, ShutdownAllowed, StopObserving, TaskApply, Seen, LifecycleMoves
<1>5. CASE StartRead
  <2> DEFINE e == Lifecycle("ObservationReadStarted")
  <2>1. runtime \in RuntimeState
    BY <1>1 DEF TypeOK
  <2>2. (Legal(runtime, e) <=> At(runtime, "Ready", "Observe")) /\ Reduce(runtime, e) = runtime
    BY <2>1, LifecycleEffect
  <2>3. LifecycleMoves("task", "ObservationReadStarted")
    BY <1>1, <1>5, <2>2, LifecycleApply
       DEF StartRead, TaskApply, Inv, ShutdownAllowed
  <2>4. TypeOK'
    BY <1>1, <1>5, <2>3
       DEF TypeOK, JobPlace, TaskPlace, Applied, StartRead, TaskApply, Seen, LifecycleMoves
  <2> QED
    BY <1>1, <1>5, <2>2, <2>3, <2>4
       DEF Inv, ShutdownAllowed, StartRead, TaskApply, Seen, LifecycleMoves
<1>6. CASE ReadReturns
  <2>1. TypeOK'
    BY <1>1, <1>6, ZenonT(60) DEF TypeOK, JobPlace, TaskPlace, ReadReturns, Dropped
  <2> QED
    BY <1>1, <1>6, <2>1 DEF Inv, ReadReturns, Dropped
<1>7. CASE RecordValue
  <2>1. queued' \in 0 .. Capacity /\ refused' \in BOOLEAN /\ (refused => refused')
        /\ (~Accepts => refused')
    BY <1>1, <1>7, EmitEffect DEF RecordValue, TaskEmit
  <2>2. TypeOK'
    BY <1>1, <1>7, <2>1 DEF TypeOK, JobPlace, TaskPlace, RecordValue, TaskEmit
  <2> QED
    BY <1>1, <1>7, <2>1, <2>2 DEF Inv, RecordValue, TaskEmit
<1>8. CASE RecordMiss
  <2>1. queued' \in 0 .. Capacity /\ refused' \in BOOLEAN /\ (refused => refused')
        /\ (~Accepts => refused')
    BY <1>1, <1>8, EmitEffect DEF RecordMiss, TaskRecord
  <2>2. TypeOK'
    BY <1>1, <1>8, <2>1 DEF TypeOK, JobPlace, TaskPlace, RecordMiss, TaskRecord
  <2> QED
    BY <1>1, <1>8, <2>1, <2>2 DEF Inv, RecordMiss, TaskRecord
<1>9. CASE RecordLoss
  <2>1. queued' \in 0 .. Capacity /\ refused' \in BOOLEAN /\ (refused => refused')
        /\ (~Accepts => refused')
    BY <1>1, <1>9, EmitEffect DEF RecordLoss, TaskRecord
  <2>2. TypeOK'
    BY <1>1, <1>9, <2>1 DEF TypeOK, JobPlace, TaskPlace, RecordLoss, TaskRecord
  <2> QED
    BY <1>1, <1>9, <2>1, <2>2 DEF Inv, RecordLoss, TaskRecord
<1>10. CASE CompleteRead
  <2> DEFINE e == Lifecycle("ObservationReadCompleted")
  <2>1. runtime \in RuntimeState
    BY <1>1 DEF TypeOK
  <2>2. (Legal(runtime, e) <=> At(runtime, "Ready", "Observe")) /\ Reduce(runtime, e) = runtime
    BY <2>1, LifecycleEffect
  <2>3. LifecycleMoves("task", "ObservationReadCompleted")
    BY <1>1, <1>10, <2>2, LifecycleApply
       DEF CompleteRead, TaskApply, Inv, ShutdownAllowed
  <2>4. TypeOK'
    BY <1>1, <1>10, <2>3
       DEF TypeOK, JobPlace, TaskPlace, Applied, CompleteRead, TaskApply, Seen, LifecycleMoves
  <2> QED
    BY <1>1, <1>10, <2>2, <2>3, <2>4
       DEF Inv, ShutdownAllowed, CompleteRead, TaskApply, Seen, LifecycleMoves
<1>11. CASE RecoverRead
  <2> DEFINE e == Lifecycle("ObservationReadFailedRecoverable")
  <2>1. runtime \in RuntimeState
    BY <1>1 DEF TypeOK
  <2>2. (Legal(runtime, e) <=> At(runtime, "Ready", "Observe")) /\ Reduce(runtime, e) = runtime
    BY <2>1, LifecycleEffect
  <2>3. LifecycleMoves("task", "ObservationReadFailedRecoverable")
    BY <1>1, <1>11, <2>2, LifecycleApply
       DEF RecoverRead, TaskApply, Inv, ShutdownAllowed
  <2>4. TypeOK'
    BY <1>1, <1>11, <2>3
       DEF TypeOK, JobPlace, TaskPlace, Applied, RecoverRead, TaskApply, Seen, LifecycleMoves
  <2> QED
    BY <1>1, <1>11, <2>2, <2>3, <2>4
       DEF Inv, ShutdownAllowed, RecoverRead, TaskApply, Seen, LifecycleMoves
<1>12. CASE ReportLoss
  <2>1. ContextMoves("task", "transport", "Unhealthy")
    BY <1>1, <1>12, ContextApply
       DEF ReportLoss, TaskApply, Dimension, ContextDomain, Inv
  <2>2. TypeOK'
    BY <1>1, <1>12, <2>1 DEF TypeOK, JobPlace, TaskPlace, ReportLoss, TaskApply, Seen, ContextMoves
  <2> QED
    BY <1>1, <1>12, <2>1, <2>2 DEF Inv, Dimension, ReportLoss, TaskApply, Seen, ContextMoves
<1>13. CASE ReportFault
  <2> DEFINE e == Lifecycle("FatalRuntimeError")
  <2>1. runtime \in RuntimeState
    BY <1>1 DEF TypeOK
  <2>2. (Legal(runtime, e) <=> runtime.phase # "Stopped") /\ At(Reduce(runtime, e), "Fault", "Idle")
    BY <2>1, LifecycleEffect
  <2>3. LifecycleMoves("task", "FatalRuntimeError")
    BY <1>1, <1>13, <2>2, LifecycleApply
       DEF ReportFault, Inv, ShutdownAllowed
  <2>4. TypeOK'
    BY <1>1, <1>13, <2>3 DEF TypeOK, JobPlace, TaskPlace, Applied, ReportFault, Seen, LifecycleMoves
  <2> QED
    BY <1>1, <1>13, <2>2, <2>3, <2>4 DEF Inv, ShutdownAllowed, ReportFault, Seen, LifecycleMoves
<1>14. CASE Advance
  <2>1. TypeOK'
    BY <1>1, <1>14 DEF TypeOK, JobPlace, TaskPlace, Advance
  <2> QED
    BY <1>1, <1>14, <2>1 DEF Inv, Advance
<1>15. CASE SkipSlots
  <2>1. queued' \in 0 .. Capacity /\ refused' \in BOOLEAN /\ (refused => refused')
        /\ (~Accepts => refused')
    BY <1>1, <1>15, EmitEffect DEF SkipSlots, TaskEmit
  <2>2. TypeOK'
    BY <1>1, <1>15, <2>1 DEF TypeOK, JobPlace, TaskPlace, SkipSlots, TaskEmit
  <2> QED
    BY <1>1, <1>15, <2>1, <2>2 DEF Inv, SkipSlots, TaskEmit
<1>16. CASE Reshape
  <2>1. failed' \in BOOLEAN
    BY <1>1, <1>16 DEF TypeOK, Reshape
  <2>2. TypeOK'
    BY <1>1, <1>16, <2>1 DEF TypeOK, JobPlace, TaskPlace, Reshape
  <2> QED
    BY <1>1, <1>16, <2>1, <2>2 DEF Inv, Reshape
<1>17. CASE EmitStopped
  <2>1. queued' \in 0 .. Capacity /\ refused' \in BOOLEAN /\ (refused => refused')
        /\ (~Accepts => refused')
    BY <1>1, <1>17, EmitEffect DEF EmitStopped
  <2>2. TypeOK'
    BY <1>1, <1>17, <2>1 DEF TypeOK, JobPlace, TaskPlace, EmitStopped
  <2> QED
    BY <1>1, <1>17, <2>1, <2>2 DEF Inv, EmitStopped
<1>18. CASE ShutdownSession
  <2>1. TypeOK'
    BY <1>1, <1>18 DEF TypeOK, JobPlace, TaskPlace, ShutdownSession
  <2> QED
    BY <1>1, <1>18, <2>1 DEF Inv, ShutdownSession
<1>19. CASE Settle
  <2>1. CASE failed /\ view["task"].phase # "Fault"
    <3>1. ContextMoves("task", "transport", "Unhealthy")
      BY <1>1, <1>19, <2>1, ContextApply
         DEF Settle, Dimension, ContextDomain, Inv
    <3>2. TypeOK'
      BY <1>1, <1>19, <2>1, <3>1 DEF TypeOK, JobPlace, TaskPlace, Settle, Seen, ContextMoves
    <3> QED
      BY <1>1, <1>19, <2>1, <3>1, <3>2 DEF Inv, Dimension, Settle, Seen, ContextMoves
  <2>2. CASE ~failed /\ view["task"].phase = "Ready"
    <3>1. ContextMoves("task", "transport", "Disconnected")
      BY <1>1, <1>19, <2>2, ContextApply
         DEF Settle, Applied, Dimension, ContextDomain, Inv
    <3>2. TypeOK'
      BY <1>1, <1>19, <2>2, <3>1
         DEF TypeOK, JobPlace, TaskPlace, Settle, Applied, Seen, ContextMoves
    <3> QED
      BY <1>1, <1>19, <2>2, <3>1, <3>2 DEF Inv, Dimension, Settle, Applied, Seen, ContextMoves
  <2>3. CASE ~(failed /\ view["task"].phase # "Fault") /\ ~(~failed /\ view["task"].phase = "Ready")
    <3>1. TypeOK'
      BY <1>1, <1>19, <2>3 DEF TypeOK, JobPlace, TaskPlace, Settle
    <3> QED
      BY <1>1, <1>19, <2>3, <3>1 DEF Inv, Settle
  <2> QED
    BY <2>1, <2>2, <2>3
<1>20. CASE SettleFault
  <2> DEFINE e == Lifecycle("FatalRuntimeError")
  <2>1. runtime \in RuntimeState
    BY <1>1 DEF TypeOK
  <2>2. (Legal(runtime, e) <=> runtime.phase # "Stopped") /\ At(Reduce(runtime, e), "Fault", "Idle")
    BY <2>1, LifecycleEffect
  <2>3. LifecycleMoves("task", "FatalRuntimeError")
    BY <1>1, <1>20, <2>2, LifecycleApply
       DEF SettleFault, TaskReport, Inv, ShutdownAllowed
  <2>4. TypeOK'
    BY <1>1, <1>20, <2>3
       DEF TypeOK, JobPlace, TaskPlace, Applied, SettleFault, TaskReport, Seen, LifecycleMoves
  <2> QED
    BY <1>1, <1>20, <2>2, <2>3, <2>4
       DEF Inv, ShutdownAllowed, SettleFault, TaskReport, Seen, LifecycleMoves
<1> QED
  BY <1>2, <1>3, <1>4, <1>5, <1>6, <1>7, <1>8, <1>9, <1>10, <1>11, <1>12, <1>13, <1>14, <1>15, <1>16, <1>17, <1>18, <1>19, <1>20
     DEF Tasking

\* Every step of the teardown: what the recorder refuses does not keep the
\* runtime from stopping its recording, and what it takes leads to Stopped.
LEMMA EndingInv == Inv /\ Ending => Inv'
<1> SUFFICES ASSUME Inv, Ending PROVE Inv'
  OBVIOUS
<1>1. TypeOK
  BY DEF Inv
<1>2. CASE Join
  <2>1. TypeOK'
    BY <1>1, <1>2 DEF TypeOK, JobPlace, TaskPlace, Join
  <2> QED
    BY <1>1, <1>2, <2>1 DEF Inv, Join
<1>3. CASE Deactivate
  <2>1. ContextMoves("job", "recording", "Inactive")
    BY <1>1, <1>3, ContextApply
       DEF Deactivate, JobApply, Dimension, ContextDomain, Inv
  <2>2. TypeOK'
    BY <1>1, <1>3, <2>1 DEF TypeOK, JobPlace, TaskPlace, Deactivate, JobApply, Seen, ContextMoves
  <2> QED
    BY <1>1, <1>3, <2>1, <2>2 DEF Inv, Dimension, Deactivate, JobApply, Seen, ContextMoves
<1>4. CASE FinishObservation
  <2>1. CASE view["job"].activity = "Observe"
    <3> DEFINE e == Lifecycle("ObservationStopped")
    <3>1. runtime \in RuntimeState
      BY <1>1 DEF TypeOK
    <3>2. (Legal(runtime, e) <=> At(runtime, "Ready", "Observe")) /\ At(Reduce(runtime, e), "Ready", "Idle")
      BY <3>1, LifecycleEffect
    <3>3. LifecycleMoves("job", "ObservationStopped")
      BY <1>1, <1>4, <2>1, <3>2, LifecycleApply
         DEF FinishObservation, JobApply, Inv, ShutdownAllowed
    <3>4. TypeOK'
      BY <1>1, <1>4, <2>1, <3>3
         DEF TypeOK, JobPlace, TaskPlace, Applied, FinishObservation, JobApply, Seen,
             LifecycleMoves
    <3> QED
      BY <1>1, <1>4, <2>1, <3>2, <3>3, <3>4
         DEF Inv, ShutdownAllowed, FinishObservation, JobApply, Seen, LifecycleMoves
  <2>2. CASE ~(view["job"].activity = "Observe")
    <3>1. TypeOK'
      BY <1>1, <1>4, <2>2 DEF TypeOK, JobPlace, TaskPlace, FinishObservation, Skip
    <3> QED
      BY <1>1, <1>4, <2>2, <3>1 DEF Inv, FinishObservation, Skip
  <2> QED
    BY <2>1, <2>2
<1>5. CASE RequestShutdown
  <2>1. CASE view["job"].phase # "Stopped"
    <3> DEFINE e == Lifecycle("ShutdownRequested")
    <3>1. runtime \in RuntimeState
      BY <1>1 DEF TypeOK
    <3>2. (Legal(runtime, e) <=> ShutdownAllowed(runtime)) /\ At(Reduce(runtime, e), "Stopping", "Idle")
      BY <3>1, LifecycleEffect
    <3>3. LifecycleMoves("job", "ShutdownRequested")
      BY <1>1, <1>5, <2>1, <3>2, LifecycleApply
         DEF RequestShutdown, JobApply, Inv, ShutdownAllowed
    <3>4. TypeOK'
      BY <1>1, <1>5, <2>1, <3>3
         DEF TypeOK, JobPlace, TaskPlace, Applied, RequestShutdown, JobApply, Seen,
             LifecycleMoves
    <3> QED
      BY <1>1, <1>5, <2>1, <3>2, <3>3, <3>4
         DEF Inv, ShutdownAllowed, RequestShutdown, JobApply, Seen, LifecycleMoves
  <2>2. CASE ~(view["job"].phase # "Stopped")
    <3>1. TypeOK'
      BY <1>1, <1>5, <2>2 DEF TypeOK, JobPlace, TaskPlace, RequestShutdown, Skip
    <3> QED
      BY <1>1, <1>5, <2>2, <3>1 DEF Inv, RequestShutdown, Skip
  <2> QED
    BY <2>1, <2>2
<1>6. CASE CompleteShutdown
  <2> DEFINE e == Lifecycle("ShutdownCompleted")
  <2>1. runtime \in RuntimeState
    BY <1>1 DEF TypeOK
  <2>2. (Legal(runtime, e) <=> At(runtime, "Stopping", "Idle")) /\ At(Reduce(runtime, e), "Stopped", "Idle")
    BY <2>1, LifecycleEffect
  <2>3. LifecycleMoves("job", "ShutdownCompleted")
    BY <1>1, <1>6, <2>2, LifecycleApply
       DEF CompleteShutdown, JobApply, Inv, ShutdownAllowed
  <2>4. TypeOK'
    BY <1>1, <1>6, <2>3
       DEF TypeOK, JobPlace, TaskPlace, Applied, CompleteShutdown, JobApply, Seen,
           LifecycleMoves
  <2> QED
    BY <1>1, <1>6, <2>2, <2>3, <2>4
       DEF Inv, ShutdownAllowed, CompleteShutdown, JobApply, Seen, LifecycleMoves
<1>7. CASE Release
  <2>1. TypeOK'
    BY <1>1, <1>7 DEF TypeOK, JobPlace, TaskPlace, Release
  <2> QED
    BY <1>1, <1>7, <2>1 DEF Inv, Release
<1>8. CASE Close
  <2>1. TypeOK'
    BY <1>1, <1>8 DEF TypeOK, JobPlace, TaskPlace, Close
  <2> QED
    BY <1>1, <1>8, <2>1 DEF Inv, Close
<1> QED
  BY <1>2, <1>3, <1>4, <1>5, <1>6, <1>7, <1>8 DEF Ending

\* Ctrl-C, the writer and the disconnecting session touch neither the
\* runtime nor anybody's view of it.
LEMMA WaitingInv == Inv /\ (Stop \/ SchedulerEnded \/ Writing \/ WriteFails \/ Disconnect) => Inv'
<1> SUFFICES ASSUME Inv, (Stop \/ SchedulerEnded \/ Writing \/ WriteFails \/ Disconnect) PROVE Inv'
  OBVIOUS
<1>1. TypeOK
  BY DEF Inv
<1>2. CASE Stop
  <2>1. TypeOK'
    BY <1>1, <1>2 DEF TypeOK, JobPlace, TaskPlace, Stop
  <2> QED
    BY <1>1, <1>2, <2>1 DEF Inv, Stop
<1>3. CASE Write
  <2>1. TypeOK'
    BY <1>1, <1>3, CapacityAssumption DEF TypeOK, JobPlace, TaskPlace, Write, WriterRest
  <2> QED
    BY <1>1, <1>3, <2>1 DEF Inv, Write, WriterRest
<1>4. CASE WriterEnds
  <2>1. TypeOK'
    BY <1>1, <1>4 DEF TypeOK, JobPlace, TaskPlace, WriterEnds, WriterRest
  <2> QED
    BY <1>1, <1>4, <2>1 DEF Inv, WriterEnds, WriterRest
<1>5. CASE WriteFails
  <2>1. TypeOK'
    BY <1>1, <1>5, CapacityAssumption DEF TypeOK, JobPlace, TaskPlace, WriteFails, WriterRest
  <2> QED
    BY <1>1, <1>5, <2>1 DEF Inv, WriteFails, WriterRest
<1>6. CASE Disconnect
  <2>1. TypeOK'
    BY <1>1, <1>6 DEF TypeOK, JobPlace, TaskPlace, Disconnect
  <2> QED
    BY <1>1, <1>6, <2>1 DEF Inv, Disconnect
<1> QED
  BY <1>2, <1>3, <1>4, <1>5, <1>6 DEF SchedulerEnded, Writing

\* Every step keeps the inductive invariant.
LEMMA NextInv == Inv /\ [Next]_vars => Inv'
<1> SUFFICES ASSUME Inv, [Next]_vars PROVE Inv'
  OBVIOUS
<1>1. CASE UNCHANGED vars
  BY <1>1 DEF vars, Inv, TypeOK
<1> QED
  BY <1>1, StartingInv, TaskingInv, EndingInv, WaitingInv DEF Next

\* The inductive invariant holds in every reachable state.
LEMMA AlwaysInv == Spec => []Inv
BY InitInv, NextInv, PTL DEF Spec

-----------------------------------------------------------------------------
(***************************************************************************)
(* The results.                                                            *)
(***************************************************************************)
\* The job, the task, the runtime and the recorder are well formed, and the
\* recorder's channel never holds more than its capacity.
THEOREM TypeCorrect == Spec => []TypeOK
<1>1. Inv => TypeOK
  BY DEF Inv
<1> QED
  BY <1>1, AlwaysInv, PTL

\* Neither the teardown (JobRuntime::finish) nor the scheduler decides on a
\* stale copy of the runtime's state.
THEOREM DecisionsAreCurrent == Spec => []ViewIsCurrent
<1>1. Inv => ViewIsCurrent
  BY DEF Inv
<1> QED
  BY <1>1, AlwaysInv, PTL

\* A capture whose evidence was taken returns with a stopped runtime that
\* records nothing and a closed file, wherever it failed.
THEOREM CaptureReturnsClean == Spec => []ReturnsClean
<1>1. Inv => ReturnsClean
  BY DEF Inv
<1> QED
  BY <1>1, AlwaysInv, PTL

\* A capture that returns has disconnected the adapter, unless the recorder
\* refused an event or the scheduler's task died.
THEOREM CaptureClosesLink == Spec => []LinkIsClosed
<1>1. Inv => LinkIsClosed
  BY DEF Inv, LinkIsClosed
<1> QED
  BY <1>1, AlwaysInv, PTL

\* The runtime shows a lost session once the scheduler has ended, even when
\* the recorder refused the evidence of the loss.
THEOREM LossReachesRuntime == Spec => []LossIsVisible
<1>1. Inv => LossIsVisible
  BY DEF Inv
<1> QED
  BY <1>1, AlwaysInv, PTL

\* The job and the scheduler never move the runtime in turns that overlap: a
\* task that is still running excludes the start and the teardown.
THEOREM OneOwnerAtATime == Spec => []TakingTurns
<1>1. Inv => TakingTurns
  BY DEF Inv
<1> QED
  BY <1>1, AlwaysInv, PTL
=============================================================================
