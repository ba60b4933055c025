----------------------------- MODULE ElmSession -----------------------------
(***************************************************************************)
(* One ELM session over its whole life, with a client that may call its    *)
(* operations in any order, as the mobile core, the diagnostic jobs and    *)
(* the session actor do.  The adapter has been initialised when the        *)
(* session is handed out (ble.rs, connect; mobile.rs, initialize).         *)
(***************************************************************************)
EXTENDS ElmOperations

VARIABLE session

Idle(s) == [s EXCEPT !.wire = {}]
Run(outcomes) == \E r \in outcomes : session' = r.session

Init ==
  \E pids \in SUBSET Pids :
    session = [NewSession EXCEPT !.headers = TRUE, !.supported = pids]

Restore == Run(RestoreFunctionalAddressing(Idle(session)))
ReadFunctionally == Run(FunctionalRead(Idle(session)))
IdentifyVehicle == Run(Identify(Idle(session)))
ReadPid(pid) == Run(ReadWithEvidence(Idle(session), pid))
ReadPidOf(t) == Run(ReadTargeted(Idle(session), t))
ReadDidOf(t) == Run(ReadOnce(Idle(session), t))
SwitchSession(command, t) == Run(UdsSessionCommand(Idle(session), command, t))
ReadIdentification(t) == Run(ReadAndRestore(Idle(session), t))

Next ==
  \/ Restore
  \/ ReadFunctionally
  \/ IdentifyVehicle
  \/ \E pid \in Pids : ReadPid(pid)
  \/ \E t \in Targets :
       \/ ReadPidOf(t)
       \/ ReadDidOf(t)
       \/ \E command \in {"enter", "leave", "present"} : SwitchSession(command, t)
       \/ ReadIdentification(t)

Spec == Init /\ [][Next]_session
-----------------------------------------------------------------------------
\* The types: in particular the filter is an ECU's or cleared, never functional.
TypeOK == session \in Session

AtAdapter(s, t) == s.header = t /\ s.filter = t
AfterReset(s) == s.header = Functional /\ s.filter = None /\ s.fresh

\* What the code keeps: the remembered target is what the adapter is set to,
\* or the adapter was reset since by a reinitialisation that did not complete.
ConfiguredOrReset ==
  session.configured # None =>
    \/ AtAdapter(session, session.configured)
    \/ AfterReset(session) /\ session.dirty

\* Every functional request goes out on the functional header without a
\* filter, with responder headers on, and with a full reset since the last
\* targeted operation (a bare restore is not enough on Carly, #215, #221).
FunctionalIsClean ==
  \A w \in session.wire : w.meant = Functional =>
    w.header = Functional /\ w.filter = None /\ w.clean

\* However setups, reads and restores failed before, a targeted request goes
\* out for its own ECU or, after a reset, for all of them; never on the header
\* or through the filter that was set up for another ECU.
NeverAnotherEcu ==
  \A w \in session.wire : w.meant \in Targets =>
    \/ w.header = w.meant /\ w.filter = w.meant
    \/ w.header = Functional /\ w.filter = None
=============================================================================
