--------------------------- MODULE MCRuntimeActor ---------------------------
(***************************************************************************)
(* A small instance of RuntimeActor.  Submitted are events that lead into  *)
(* and out of every phase, one long activity with its end, and one context *)
(* dimension with two values; the proofs cover every event.                *)
(***************************************************************************)
EXTENDS RuntimeActor

MCEvents ==
  {Lifecycle(k) : k \in {"InitializationCompleted", "DiscoveryStarted",
                         "ObservationStarted", "ObservationStopped",
                         "FatalRuntimeError"}}
  \cup {ContextUpdated("transport", "Connected")}
=============================================================================
