----------------------------- MODULE UdsSession -----------------------------
(***************************************************************************)
(* The extended diagnostic session of the mobile core (mobile/uds.rs) as   *)
(* operators: entering it, keeping it alive, reading in it and leaving it, *)
(* each over the ELM session of ElmOperations.                             *)
(*                                                                         *)
(* A world is the part of the system an operation can change: the ELM      *)
(* session, the ECUs that are in their extended session, the core's belief *)
(* about it (uds) and the core's own fields.  The code only ever switches  *)
(* the validated engine ECU, so the target and the responder of a session  *)
(* are Engine and the candidates are the session-flagged definitions of    *)
(* that ECU; the branches of enable that refuse other ECUs or definitions  *)
(* cannot be taken from the core and are left out.  Time is counted in     *)
(* units: age since the activation, quiet since the last tester present.   *)
(***************************************************************************)
EXTENDS ElmOperations

CONSTANTS Engine,   \* the engine ECU, one of Targets
          Interval, \* TESTER_PRESENT_INTERVAL
          Limit     \* EXTENDED_SESSION_LIMIT

ASSUME UdsAssumption ==
  /\ Engine \in Targets
  /\ Interval \in Nat \ {0}
  /\ Limit \in Nat \ {0}

UdsState == [status : {"Inactive", "Active", "Indeterminate"}, authorized : BOOLEAN,
             age : 0 .. Limit, quiet : 0 .. Interval]

Result(w, reply) == [world |-> w, reply |-> reply]
Then(rs, F(_)) == {r \in rs : ~Ok(r)} \cup UNION {F(r.world) : r \in {q \in rs : Ok(q)}}

Active(w) == w.uds.status = "Active"
Belief(status, authorized) ==
  [status |-> status, authorized |-> authorized, age |-> 0, quiet |-> 0]

MarkInactive(w) == [w EXCEPT !.uds = Belief("Inactive", FALSE)]
MarkIndeterminate(w) == [w EXCEPT !.uds = Belief("Indeterminate", FALSE)]
-----------------------------------------------------------------------------
\* A session command to the engine ECU.  The ECUs that heard it switch.
Send(w, command) ==
  {LET heard == UNION {x.heard : x \in r.session.wire}
   IN  Result([w EXCEPT !.session = [r.session EXCEPT !.wire = @ \cup w.session.wire],
                        !.extended = CASE command = "enter" -> @ \cup heard
                                       [] command = "leave" -> @ \ heard
                                       [] OTHER -> @],
              r.reply)
   : r \in UdsSessionCommand([w.session EXCEPT !.wire = {}], command, Engine)}

\* Mutant: an unanswered 10 01 is taken for done.
LeaveHopefully(w) ==
  {Result(MarkInactive(r.world), r.reply) : r \in Send(w, "leave")}

\* leave: only the ECU's own 50 01 makes the session inactive.
Leave(w) ==
  IF ~w.uds.authorized THEN {Result(MarkIndeterminate(w), "failed")}
  ELSE {IF Ok(r) THEN Result(MarkInactive(r.world), "ok")
                 ELSE Result(MarkIndeterminate(r.world), "failed") : r \in Send(w, "leave")}

\* cleanup_after_error: the same, and the original error is reported.
CleanupAfterError(w) == {Result(r.world, "failed") : r \in Leave(w)}

\* Mutant: every failure of 10 03 is taken for a refusal.
EnableWithoutCleanup(w) ==
  CASE w.uds.status = "Indeterminate" -> {Result(w, "failed")}
    [] w.uds.status = "Active" -> {Result(w, "ok")}
    [] OTHER ->
         {IF Ok(r) THEN Result([r.world EXCEPT !.uds = Belief("Active", TRUE)], "ok")
                   ELSE Result(MarkInactive(r.world), "failed")
          : r \in Send([w EXCEPT !.uds.authorized = TRUE], "enter")}

Enable(w) ==
  CASE w.uds.status = "Indeterminate" -> {Result(w, "failed")}
    [] w.uds.status = "Active" -> {Result(w, "ok")}
    [] OTHER ->
         UNION {IF Ok(r) THEN {Result([r.world EXCEPT !.uds = Belief("Active", TRUE)], "ok")}
                ELSE IF r.reply = "refused" THEN {Result(MarkInactive(r.world), "failed")}
                ELSE CleanupAfterError(r.world)
                : r \in Send([w EXCEPT !.uds.authorized = TRUE], "enter")}

Disable(w) ==
  CASE w.uds.status = "Inactive" -> {Result(w, "ok")}
    [] w.uds.status = "Indeterminate" -> {Result(w, "failed")}
    [] OTHER -> Leave(w)

\* Mutant: the limit is looked at only when a tester present is due, after it.
TickWithoutLimit(w) ==
  IF ~Active(w) \/ w.uds.quiet < Interval THEN {Result(w, "ok")}
  ELSE UNION {IF Ok(r) THEN {Result([r.world EXCEPT !.uds.quiet = 0], "ok")}
              ELSE CleanupAfterError(r.world) : r \in Send(w, "present")}

Tick(w) ==
  CASE ~Active(w) -> {Result(w, "ok")}
    [] Active(w) /\ w.uds.age >= Limit -> Leave(w)
    [] Active(w) /\ w.uds.age < Limit /\ w.uds.quiet < Interval -> {Result(w, "ok")}
    [] OTHER ->
         IF ~w.uds.authorized THEN CleanupAfterError(w)
         ELSE UNION {IF Ok(r) THEN {Result([r.world EXCEPT !.uds.quiet = 0], "ok")}
                     ELSE CleanupAfterError(r.world) : r \in Send(w, "present")}

\* A read of a session-flagged definition.  An answer that does not validate
\* ends the session like an answer that does not come.
Read(w) ==
  CASE ~Active(w) -> {Result(w, "failed")}
    [] Active(w) /\ w.uds.age >= Limit -> {Result(r.world, "failed") : r \in Leave(w)}
    [] OTHER ->
         UNION {LET v == [w EXCEPT !.session = r.session]
                IN  CleanupAfterError(v) \cup (IF Ok(r) THEN {Result(v, "ok")} ELSE {})
                : r \in ReadOnce(w.session, Engine)}

OnDisconnect(w) == IF Active(w) THEN MarkIndeterminate(w) ELSE w
OnReconnect(w) == [w EXCEPT !.uds = Belief("Inactive", FALSE)]
=============================================================================
