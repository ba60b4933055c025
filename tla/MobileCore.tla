----------------------------- MODULE MobileCore -----------------------------
(***************************************************************************)
(* The mobile core (mobile.rs): one serialized diagnostic session whose    *)
(* actions the platform calls by name.  `execute` runs an action to its    *)
(* end, so an action of the core is one step; what can go wrong is in the  *)
(* exchanges it makes (ElmOperations), in the order in which the platform  *)
(* calls the actions, and in the vehicle, where an ECU may fall back to    *)
(* its default session at any time.                                        *)
(*                                                                         *)
(* Left out: the JSON results, the evidence, uds_error (a text that no     *)
(* action reads), and the actions that touch neither the core's state nor  *)
(* the adapter (catalog, vin.describe and the replay actions).             *)
(***************************************************************************)
EXTENDS UdsSession, FiniteSetsExt

\* The catalog names finitely many ECUs.
ASSUME CoreAssumption == IsFiniteSet(Targets)

VARIABLES session,  \* the ELM session and the adapter behind it
          extended, \* the ECUs that are in their extended session
          uds,      \* the core's belief about the engine ECU's session
          core      \* the other fields of MobileCore

vars == <<session, extended, uds, core>>

\* knowledge is None or the set of ECUs that the last discovery identified.
Core == [initialized : BOOLEAN, engine : BOOLEAN, manufacturer : BOOLEAN,
         knowledge : {None} \cup SUBSET Targets]
NewCore == [initialized |-> FALSE, engine |-> FALSE, manufacturer |-> FALSE, knowledge |-> None]

World == [session |-> [session EXCEPT !.wire = {}], extended |-> extended,
          uds |-> uds, core |-> core]

Init ==
  /\ session = NewSession
  /\ extended = {}
  /\ uds = Belief("Inactive", FALSE)
  /\ core = NewCore
-----------------------------------------------------------------------------
(***************************************************************************)
(* The core's helpers.                                                     *)
(***************************************************************************)
Lift(w, rs) == {Result([w EXCEPT !.session = r.session], r.reply) : r \in rs}
Fail(w) == {Result(w, "failed")}
RestoreAddressing(w) == Lift(w, RestoreFunctionalAddressing(w.session))

\* A session that was active and is inactive now gives the addressing back.
Restoring(w, rs) ==
  UNION {IF Active(w) /\ r.world.uds.status = "Inactive"
         THEN {Result(q.world, IF Ok(r) THEN q.reply ELSE "failed") : q \in RestoreAddressing(r.world)}
         ELSE {r} : r \in rs}

\* disable_uds and disable_uds_outcome: their reply is "ok" when no error is
\* reported, and an error is always reported for an indeterminate session.
DisableUds(w) == Restoring(w, Disable(w))
TickUds(w) == Restoring(w, Tick(w))

\* execute: a failed action ends an active extended session.
Execute(rs) ==
  UNION {IF ~Ok(r) /\ Active(r.world) THEN DisableUds(r.world) ELSE {r} : r \in rs}

\* One targeted default-session read.
ReadDid(w, t) == Lift(w, ReadOnce(w.session, t))

\* One targeted read after another, until one of them fails fatally.  A visit
\* is a world, the ECUs that have answered, and whether the job goes on.
ReadEach(w, targets, Op(_, _)) ==
  LET Step(t, visits) ==
        UNION {IF v.stopped THEN {v}
               ELSE UNION {{[world |-> r.world, present |-> IF Ok(r) THEN v.present \cup {t} ELSE v.present,
                             stopped |-> stop] : stop \in IF r.reply = "lost" THEN BOOLEAN ELSE {FALSE}}
                           : r \in Op(v.world, t)}
               : v \in visits}
  IN  FoldSet(Step, {[world |-> w, present |-> {}, stopped |-> FALSE]}, targets)
-----------------------------------------------------------------------------
(***************************************************************************)
(* The actions of dispatch, as outcomes.                                   *)
(***************************************************************************)
\* Mutant: an indeterminate session is forgotten by initializing again.
InitializeAnyway(w) ==
  LET v == MarkInactive([w EXCEPT !.core = NewCore])
  IN  {IF Ok(r) THEN Result([r.world EXCEPT !.core.initialized = TRUE], "ok") ELSE r :
         r \in Lift(v, Reinitialize(v.session))}

Initialize(w) ==
  Then(DisableUds(w), LAMBDA u :
    LET v == [u EXCEPT !.core = NewCore]
    IN  {IF Ok(r) THEN Result([r.world EXCEPT !.core.initialized = TRUE], "ok") ELSE r :
           r \in Lift(v, After(AtCommand(v.session, v.session), Reinitialize))})

\* A signal of the catalog: from the engine ECU once that is validated.
ReadCatalog(w, pid) ==
  Then(DisableUds(w), LAMBDA v :
    IF ~v.core.engine THEN Lift(v, ReadWithEvidence(v.session, pid))
    ELSE IF pid \in v.session.supported THEN Lift(v, ReadTargeted(v.session, Engine))
    ELSE Fail(v))

\* A default-session Knowledge definition of an identified ECU.  The session
\* of the same ECU stays; any other is left first.  A value that is not
\* available ends the session, and the action still succeeds.
ReadKnowledge(w, t) ==
  IF w.core.knowledge = None THEN Fail(w)
  ELSE IF t \notin w.core.knowledge THEN Fail(w)
  ELSE Then(IF Active(w) /\ t = Engine THEN TickUds(w) ELSE DisableUds(w), LAMBDA v :
         UNION {(IF Ok(r) THEN {r} ELSE {}) \cup
                {Result(q.world, "ok") :
                   q \in IF Active(r.world) THEN DisableUds(r.world) ELSE {r}}
                : r \in ReadDid(v, t)})

\* A session-flagged definition.  Time may pass between the tester present
\* and the read.
ReadExtended(w) ==
  IF w.core.knowledge = None \/ ~Active(w) THEN Fail(w)
  ELSE IF Engine \notin w.core.knowledge THEN Fail(w)
  ELSE Then(TickUds(w), LAMBDA u :
    IF ~Active(u) THEN Fail(u)
    ELSE UNION {UNION
           {IF Active(r.world) THEN {r} \cup DisableUds(r.world)
            ELSE IF r.world.uds.status = "Inactive"
            THEN {Result(q.world, "ok") : q \in RestoreAddressing(r.world)}
            ELSE {Result(r.world, "ok")}
            : r \in Read([u EXCEPT !.uds.age = age])}
         : age \in u.uds.age .. Limit})

\* Mutant: the functional request does not leave the session first.
ScanDtcsInSession(w) == Lift(w, FunctionalRead(w.session))

ScanDtcs(w) == Then(DisableUds(w), LAMBDA v : Lift(v, FunctionalRead(v.session)))

\* Every known target in turn; what answered replaces the earlier knowledge.
DiscoverEcus(w) ==
  Then(DisableUds(w), LAMBDA u :
    IF ~u.core.manufacturer THEN Fail(u)
    ELSE UNION {{Result([q.world EXCEPT !.core.knowledge = v.present], "ok") :
                   q \in RestoreAddressing(v.world)}
                : v \in ReadEach(u, Targets, ReadDid)})

\* One default-session read per session-flagged definition.
LearnKnowledge(w) ==
  Then(DisableUds(w), LAMBDA u :
    IF u.core.knowledge \in {None, {}} THEN Fail(u)
    ELSE UNION {{Result(q.world, "ok") : q \in RestoreAddressing(v.world)}
                : v \in ReadEach(u, u.core.knowledge, ReadDid)})

KnowledgeAvailability(w) ==
  Then(DisableUds(w), LAMBDA u :
    IF u.core.knowledge \in {None, {}} THEN Fail(u)
    ELSE UNION {{Result(q.world, "ok") : q \in RestoreAddressing(v.world)}
                : v \in ReadEach(u, u.core.knowledge, ReadKnowledge)})

\* Single and multi-PID reads of the engine ECU; the addressing stays.
AdapterThroughput(w) ==
  Then(DisableUds(w), LAMBDA u :
    IF ~u.core.engine \/ u.session.supported = {} THEN Fail(u)
    ELSE UNION {{Result(q.world, "ok") : q \in Lift(r.world, ReadOnce(r.world.session, Engine))}
                : r \in Lift(u, ReadTargeted(u.session, Engine))})

\* The VIN is read once more after a dropped frame ("malformed").  It decides
\* the manufacturer; without it the earlier one stays.  The engine ECU is
\* validated by a targeted read when it took part in the discovery.
Inventory(w) ==
  Then(DisableUds(w), LAMBDA u :
    LET v == [u EXCEPT !.core.engine = FALSE, !.core.knowledge = None]
        first == Identify(v.session)
        identified == {r \in first : r.reply # "malformed"} \cup
                      UNION {Identify(r.session) : r \in {q \in first : q.reply = "malformed"}}
        named == UNION {{[v EXCEPT !.session = r.session, !.core.manufacturer = known] :
                           known \in IF Ok(r) THEN BOOLEAN ELSE {w.core.manufacturer}}
                        : r \in identified}
    IN  {Result(x, "ok") : x \in named} \cup
        UNION {{Result([q.world EXCEPT !.core.engine = Ok(q)], "ok") :
                  q \in Lift(x, ReadTargeted(x.session, Engine))} : x \in named})

\* enable_uds reports every outcome of enable as a success.
EnableUds(w) ==
  IF w.core.knowledge = None \/ ~w.core.engine THEN Fail(w)
  ELSE IF Engine \notin w.core.knowledge THEN Fail(w)
  ELSE UNION {IF r.world.uds.status = "Inactive"
              THEN {Result(q.world, "ok") : q \in RestoreAddressing(r.world)}
              ELSE {Result(r.world, "ok")} : r \in Enable(w)}
-----------------------------------------------------------------------------
Run(outcomes) ==
  \E r \in Execute(outcomes) :
    /\ session' = r.world.session
    /\ extended' = r.world.extended
    /\ uds' = r.world.uds
    /\ core' = r.world.core

\* Every action but initialize needs an initialised adapter.
WhenReady(outcomes) == Run(IF core.initialized THEN outcomes ELSE Fail(World))

\* An action name or an argument that dispatch refuses.
DoRejected == Run(Fail(World))
DoInitialize == Run(Initialize(World))
DoRead == \/ \E pid \in Pids : WhenReady(ReadCatalog(World, pid))
          \/ \E t \in Targets : WhenReady(ReadKnowledge(World, t))
          \/ WhenReady(ReadExtended(World))
DoInventory == WhenReady(Inventory(World))
DoDtcScan == WhenReady(ScanDtcs(World))
DoThroughput == WhenReady(AdapterThroughput(World))
DoDiscover == WhenReady(DiscoverEcus(World))
DoLearn == WhenReady(LearnKnowledge(World))
DoAvailability == WhenReady(KnowledgeAvailability(World))
DoUdsEnable == WhenReady(EnableUds(World))
DoUdsDisable == WhenReady({Result(r.world, "ok") : r \in DisableUds(World)})
DoUdsTick == WhenReady({Result(r.world, "ok") : r \in TickUds(World)})

\* MobileCore::on_disconnect and on_reconnect.  A new physical connection may
\* or may not have power-cycled the adapter; the ELM session is the old one.
Disconnected ==
  /\ uds' = OnDisconnect(World).uds
  /\ core' = NewCore
  /\ session' = World.session
  /\ UNCHANGED extended

PoweredUp(s) == [s EXCEPT !.header = Functional, !.filter = None, !.fresh = TRUE, !.headers = FALSE]
Reconnected ==
  /\ uds' = OnReconnect(World).uds
  /\ core' = NewCore
  /\ session' \in {World.session, PoweredUp(World.session)}
  /\ UNCHANGED extended

\* Time passes while a session is active, and an ECU that hears nothing falls
\* back to its default session on its own.
Pass ==
  /\ uds.status = "Active"
  /\ uds.age < Limit
  /\ uds' = [uds EXCEPT !.age = @ + 1, !.quiet = IF @ < Interval THEN @ + 1 ELSE @]
  /\ session' = World.session
  /\ UNCHANGED <<extended, core>>

EcuTimeout(t) ==
  /\ t \in extended
  /\ extended' = extended \ {t}
  /\ session' = World.session
  /\ UNCHANGED <<uds, core>>

Next ==
  \/ DoRejected \/ DoInitialize \/ DoRead \/ DoInventory \/ DoDtcScan \/ DoThroughput
  \/ DoDiscover \/ DoLearn \/ DoAvailability
  \/ DoUdsEnable \/ DoUdsDisable \/ DoUdsTick
  \/ Disconnected \/ Reconnected
  \/ Pass
  \/ \E t \in Targets : EcuTimeout(t)

Spec == Init /\ [][Next]_vars

\* ObdService.poll calls uds.tick for as long as the session is active.
FairSpec == Spec /\ WF_vars(Pass) /\ WF_vars(DoUdsTick)
-----------------------------------------------------------------------------
\* The types of the core, its ELM session and its UDS session.
TypeOK ==
  /\ session \in Session
  /\ extended \subseteq Targets
  /\ uds \in UdsState
  /\ core \in Core

\* The core never loses track of the engine ECU: no step but a reconnection
\* leaves it in the extended session while the core takes it to be inactive,
\* whichever exchange of whichever action failed (REQ-027.3, REQ-027.5).
SessionIsAccountedFor ==
  [][uds'.status = "Inactive" /\ Engine \in extended' =>
       \/ uds.status = "Inactive" /\ Engine \in extended
       \/ Reconnected]_vars

\* "If its outcome is uncertain, operations stop until reconnection": nothing
\* is sent to the vehicle while the session is indeterminate, and only a
\* reconnection ends that.
IndeterminateStopsTraffic ==
  [][uds.status = "Indeterminate" =>
       session'.wire = {} /\ (uds'.status = "Indeterminate" \/ Reconnected)]_vars

\* "Before any functional operation": nothing is broadcast on purpose by an
\* action that leaves the extended session active or in doubt.
FunctionalNeedsDefaultSession ==
  (\E w \in session.wire : w.meant = Functional) => uds.status = "Inactive"

\* "Activation sends exactly 10 03 to that ECU's validated target" (ADR 0003):
\* another ECU is switched only by a command that went out on the functional
\* address because a reset had failed under a remembered target.
StrayOnlyAfterFailedReset ==
  [][extended' \subseteq extended \cup {Engine} \/
       (session.fresh /\ session.configured = Engine /\ session.dirty)]_vars

\* The session ends: by the limit if nothing else ends it.
SessionEnds == uds.status = "Active" ~> uds.status # "Active"
=============================================================================
