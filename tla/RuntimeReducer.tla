--------------------------- MODULE RuntimeReducer ---------------------------
(***************************************************************************)
(* The runtime state of obdentic and the pure reducer that decides which   *)
(* event may change it (runtime_state.rs, runtime_reducer.rs).             *)
(*                                                                         *)
(* A state is a record of a phase, an activity and a context; the context  *)
(* is a function from the six context dimensions to their values.  The     *)
(* constant state version and the textual encoding of a state are left     *)
(* out.  The eight spellings of a context event in the code all reach      *)
(* apply_context and are one kind here.                                    *)
(***************************************************************************)
EXTENDS Naturals

Phase == {"Init", "Discover", "Ready", "Stopping", "Stopped", "Fault"}
Activity == {"Idle", "Read", "Observe", "Diagnose", "Write"}

ContextDomain ==
  [transport |-> {"Disconnected", "Connecting", "Connected", "Unhealthy"},
   vehicle   |-> {"Unknown", "Identified"},
   topology  |-> {"Unknown", "Discovering", "Validated", "Stale"},
   recording |-> {"Inactive", "Active"},
   source    |-> {"Live", "Offline"},
   safety    |-> {"ReadOnly", "ExplicitMutation"}]

Dimension == {"transport", "vehicle", "topology", "recording", "source", "safety"}
ContextValue == UNION {ContextDomain[d] : d \in Dimension}
RuntimeContext ==
  {c \in [Dimension -> ContextValue] : \A d \in Dimension : c[d] \in ContextDomain[d]}

RuntimeState == [phase : Phase, activity : Activity, context : RuntimeContext]

DefaultContext ==
  [d \in Dimension |-> CASE d = "transport" -> "Disconnected"
                         [] d = "vehicle"   -> "Unknown"
                         [] d = "topology"  -> "Unknown"
                         [] d = "recording" -> "Inactive"
                         [] d = "source"    -> "Offline"
                         [] d = "safety"    -> "ReadOnly"]

DefaultState == [phase |-> "Init", activity |-> "Idle", context |-> DefaultContext]
-----------------------------------------------------------------------------
(***************************************************************************)
(* Events.  A lifecycle event is only its kind; a context event names the  *)
(* dimension and the value it sets.                                        *)
(***************************************************************************)
LifecycleKind ==
  {"InitializationCompleted", "InitializationFailed",
   "DiscoveryStarted", "DiscoveryCompleted", "DiscoveryFailed",
   "ReadStarted", "ReadCompleted", "ReadFailedRecoverable",
   "ObservationStarted", "ObservationStopped", "ObservationReadStarted",
   "ObservationReadCompleted", "ObservationReadFailedRecoverable",
   "DiagnosticJobStarted", "DiagnosticJobCompleted",
   "ShutdownRequested", "ShutdownCompleted", "FatalRuntimeError", "WriteStarted"}

Lifecycle(kind) == [kind |-> kind, dim |-> "none", value |-> "none"]
ContextUpdated(dim, value) == [kind |-> "ContextUpdated", dim |-> dim, value |-> value]

LifecycleEvent == {Lifecycle(k) : k \in LifecycleKind}
ContextEvent ==
  {e \in [kind : {"ContextUpdated"}, dim : Dimension, value : ContextValue] :
     e.value \in ContextDomain[e.dim]}
RuntimeEvent == LifecycleEvent \cup ContextEvent
-----------------------------------------------------------------------------
At(s, phase, activity) == s.phase = phase /\ s.activity = activity
StateAt(s, phase, activity) == [s EXCEPT !.phase = phase, !.activity = activity]
ApplyContext(s, e) == [s EXCEPT !.context = [@ EXCEPT ![e.dim] = e.value]]

\* Mutant: a shutdown that overtakes a running activity.
ShutdownAllowedWhileBusy(s) == s.phase \in {"Init", "Discover", "Ready", "Fault"}

\* The guards and effects of the shutdown request and of the fatal error.
ShutdownAllowed(s) == s.phase \in {"Init", "Discover", "Ready", "Fault"} /\ s.activity = "Idle"
FatalAllowed(s) == s.phase # "Stopped"
Faulted(s) == StateAt(s, "Fault", "Idle")

(***************************************************************************)
(* Does `transition` accept event e in state s?  FALSE stands for both     *)
(* InvalidOrder and WriteUnavailable: neither changes anything.            *)
(***************************************************************************)
Legal(s, e) ==
  CASE e.kind = "ContextUpdated" -> s.phase # "Stopped"
    [] e.kind \in {"InitializationCompleted", "InitializationFailed"} -> At(s, "Init", "Idle")
    [] e.kind \in {"DiscoveryStarted", "ReadStarted", "ObservationStarted",
                   "DiagnosticJobStarted"} -> At(s, "Ready", "Idle")
    [] e.kind \in {"DiscoveryCompleted", "DiscoveryFailed"} -> At(s, "Discover", "Idle")
    [] e.kind \in {"ReadCompleted", "ReadFailedRecoverable"} -> At(s, "Ready", "Read")
    [] e.kind \in {"ObservationStopped", "ObservationReadStarted",
                   "ObservationReadCompleted",
                   "ObservationReadFailedRecoverable"} -> At(s, "Ready", "Observe")
    [] e.kind = "DiagnosticJobCompleted" -> At(s, "Ready", "Diagnose")
    [] e.kind = "ShutdownRequested" -> ShutdownAllowed(s)
    [] e.kind = "ShutdownCompleted" -> At(s, "Stopping", "Idle")
    [] e.kind = "FatalRuntimeError" -> FatalAllowed(s)
    [] e.kind = "WriteStarted" -> FALSE

(***************************************************************************)
(* The state `transition` returns for an event it accepts.                 *)
(***************************************************************************)
Reduce(s, e) ==
  CASE e.kind = "ContextUpdated" -> ApplyContext(s, e)
    [] e.kind \in {"InitializationCompleted", "DiscoveryCompleted", "DiscoveryFailed",
                   "ReadCompleted", "ReadFailedRecoverable", "ObservationStopped",
                   "DiagnosticJobCompleted"} -> StateAt(s, "Ready", "Idle")
    [] e.kind \in {"InitializationFailed", "FatalRuntimeError"} -> Faulted(s)
    [] e.kind = "DiscoveryStarted" -> StateAt(s, "Discover", "Idle")
    [] e.kind = "ReadStarted" -> StateAt(s, "Ready", "Read")
    [] e.kind = "ObservationStarted" -> StateAt(s, "Ready", "Observe")
    [] e.kind = "DiagnosticJobStarted" -> StateAt(s, "Ready", "Diagnose")
    [] e.kind \in {"ObservationReadStarted", "ObservationReadCompleted",
                   "ObservationReadFailedRecoverable"} -> s
    [] e.kind = "ShutdownRequested" -> StateAt(s, "Stopping", "Idle")
    [] e.kind = "ShutdownCompleted" -> StateAt(s, "Stopped", "Idle")
    [] OTHER -> s
=============================================================================
