-------------------------- MODULE RuntimeLifecycle --------------------------
(***************************************************************************)
(* What the runtime promises its consumers, without events, commands,      *)
(* context or sequence numbers: at most one activity at a time, started    *)
(* from and returning to an idle ready runtime, a fault that can come at   *)
(* any time before the stop and ends the activity, and a stop that is      *)
(* reached only from an idle runtime and never left.                       *)
(***************************************************************************)
VARIABLES phase, activity

vars == <<phase, activity>>

Init == phase = "Init" /\ activity = "Idle"

Initialize ==
  /\ phase = "Init"
  /\ phase' \in {"Ready", "Fault"}
  /\ UNCHANGED activity

Discover ==
  /\ activity = "Idle"
  /\ \/ phase = "Ready" /\ phase' = "Discover"
     \/ phase = "Discover" /\ phase' = "Ready"
  /\ UNCHANGED activity

StartActivity ==
  /\ phase = "Ready"
  /\ activity = "Idle"
  /\ activity' \in {"Read", "Observe", "Diagnose"}
  /\ UNCHANGED phase

EndActivity ==
  /\ phase = "Ready"
  /\ activity # "Idle"
  /\ activity' = "Idle"
  /\ UNCHANGED phase

Fail ==
  /\ phase # "Stopped"
  /\ phase' = "Fault"
  /\ activity' = "Idle"

Stop ==
  /\ phase # "Stopped"
  /\ activity = "Idle"
  /\ phase' \in {"Stopping", "Stopped"}
  /\ UNCHANGED activity

Next == Initialize \/ Discover \/ StartActivity \/ EndActivity \/ Fail \/ Stop

Spec == Init /\ [][Next]_vars
=============================================================================
