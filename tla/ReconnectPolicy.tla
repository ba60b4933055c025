-------------------------- MODULE ReconnectPolicy --------------------------
(***************************************************************************)
(* android/.../ReconnectPolicy.java: when a connection may be attempted    *)
(* without the user.  The policy is a value [enabled, state]; every method *)
(* is the policy it leaves behind and, where the method answers, whether   *)
(* it answers yes (a delay, or true).  The lengths of the pauses are left  *)
(* out: a pause is over at any time.                                       *)
(***************************************************************************)
PolicyStates == {"idle", "waiting", "connecting", "blocked", "stopped"}

Policies == [enabled : BOOLEAN, state : PolicyStates]

\* An automatic attempt is running, waiting for its pause or for Bluetooth.
IsPending(p) == p.state \in {"waiting", "connecting", "blocked"}

SetEnabled(p, on) ==
    [enabled |-> on,
     state   |-> IF ~on /\ p.state # "stopped" THEN "idle" ELSE p.state]

Startup(p) == IF p.enabled THEN [p EXCEPT !.state = "connecting"] ELSE p

\* A defect: a loss is retried although the user stopped the attempts.
RetriesAfterAnyLoss(p) == p.enabled

\* An established session was lost: a retry follows unless it was stopped.
RetriesAfterLoss(p) == p.enabled /\ p.state # "stopped"

Lost(p) == IF RetriesAfterLoss(p) THEN [p EXCEPT !.state = "waiting"] ELSE p

\* An automatic attempt failed or was postponed: only those are repeated.
RetriesAfterFailure(p) == p.enabled /\ p.state = "connecting"

Failed(p) == IF RetriesAfterFailure(p) THEN [p EXCEPT !.state = "waiting"] ELSE p

\* The pause is over, or the app came to the foreground.
AttemptDue(p) == p.enabled /\ p.state = "waiting"

Block(p) ==
    IF p.enabled /\ p.state \in {"waiting", "connecting"}
    THEN [p EXCEPT !.state = "blocked"] ELSE p

Unblocks(p) == p.enabled /\ p.state = "blocked"

Connecting(p) == [p EXCEPT !.state = "connecting"]

Stop(p) == [p EXCEPT !.state = "stopped"]

\* The user connects, or the connection stands, or there is nothing to attempt.
Settled(p) == [p EXCEPT !.state = "idle"]
=============================================================================
