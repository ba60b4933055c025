-------------------------- MODULE ElmSessionProofs --------------------------
(***************************************************************************)
(* The invariants of ElmSession, for every set of targets and of PIDs.     *)
(* None of them is inductive alone: that a functional request goes out on  *)
(* a clean adapter rests on what a session that is not dirty knows of its  *)
(* adapter, that a targeted one reaches its own ECU on what a remembered   *)
(* target says.  Sound (ElmOperationsProofs) is their conjunction with     *)
(* that knowledge, and every operation keeps it.                           *)
(***************************************************************************)
EXTENDS ElmSession, ElmOperationsProofs

\* The inductive invariant.
SessionSound == Sound(session)

\* A session that is handed out is sound: it is initialised and not dirty.
LEMMA InitSound == Init => SessionSound
<1> SUFFICES ASSUME Init PROVE Sound(session)
  BY DEF SessionSound
<1>1. PICK pids \in SUBSET Pids :
        session = [NewSession EXCEPT !.headers = TRUE, !.supported = pids]
  BY DEF Init
<1>2. session = [header |-> Functional, filter |-> None, fresh |-> TRUE, headers |-> TRUE,
                 configured |-> None, dirty |-> FALSE, supported |-> pids, wire |-> {}]
  BY <1>1 DEF NewSession
<1> QED
  BY <1>2 DEF Sound, Session, Remembers, Clean, Reset

\* What was sent belongs to the operation that sent it.
LEMMA IdleSound == ASSUME NEW s, Sound(s) PROVE Sound(Idle(s))
BY DEF Sound, Session, Remembers, Clean, Reset, AtTargetOf, Idle

\* Every operation keeps the session sound, whichever exchange fails.
LEMMA NextSound == SessionSound /\ [Next]_session => SessionSound'
<1> SUFFICES ASSUME Sound(session), [Next]_session PROVE Sound(session')
  BY DEF SessionSound
<1> DEFINE s == Idle(session)
<1>1. Sound(s)
  BY IdleSound
<1> HIDE DEF s
<1>2. CASE Restore
  BY <1>1, <1>2, RestoreAddressingSound DEF Restore, Run, s
<1>3. CASE ReadFunctionally
  BY <1>1, <1>3, FunctionalReadSound DEF ReadFunctionally, Run, s
<1>4. CASE IdentifyVehicle
  BY <1>1, <1>4, IdentifySound DEF IdentifyVehicle, Run, s
<1>5. ASSUME NEW pid \in Pids, ReadPid(pid) PROVE Sound(session')
  BY <1>1, <1>5, ReadWithEvidenceSound DEF ReadPid, Run, s
<1>6. ASSUME NEW t \in Targets, ReadPidOf(t) PROVE Sound(session')
  BY <1>1, <1>6, ReadTargetedSound DEF ReadPidOf, Run, s
<1>7. ASSUME NEW t \in Targets, ReadDidOf(t) PROVE Sound(session')
  BY <1>1, <1>7, ReadOnceSound DEF ReadDidOf, Run, s
<1>8. ASSUME NEW t \in Targets, NEW command \in {"enter", "leave", "present"},
             SwitchSession(command, t)
      PROVE  Sound(session')
  <2>1. command \in Request
    BY DEF Request
  <2> QED
    BY <1>1, <1>8, <2>1, UdsSessionCommandSound DEF SwitchSession, Run, s
<1>9. ASSUME NEW t \in Targets, ReadIdentification(t) PROVE Sound(session')
  BY <1>1, <1>9, ReadAndRestoreSound DEF ReadIdentification, Run, s
<1>10. CASE UNCHANGED session
  BY <1>10
<1> QED
  BY <1>2, <1>3, <1>4, <1>5, <1>6, <1>7, <1>8, <1>9, <1>10 DEF Next

\* The session is sound in every reachable state.
LEMMA AlwaysSound == Spec => []SessionSound
BY InitSound, NextSound, PTL DEF Spec

\* The session and every request on the wire are well formed, the filter is
\* an ECU's or cleared (ElmSession, the adapter's ATSH and ATCRA).
THEOREM TypeCorrect == Spec => []TypeOK
<1>1. SessionSound => TypeOK
  BY DEF SessionSound, Sound, TypeOK
<1> QED
  BY <1>1, AlwaysSound, PTL

\* configured_target never claims more than the adapter was set to: it names
\* the target of the last complete setup, or the adapter was reset since and
\* the session knows that it has to reinitialise.
THEOREM RememberedTarget == Spec => []ConfiguredOrReset
<1>1. SessionSound => ConfiguredOrReset
  BY DEF SessionSound, Sound, Remembers, ConfiguredOrReset, AtAdapter, AfterReset, AtTargetOf, Reset
<1> QED
  BY <1>1, AlwaysSound, PTL

\* However earlier setups, reads, restores and resets ended, a functional
\* request goes out on a fully reset adapter with responder headers on.
THEOREM FunctionalRequestsClean == Spec => []FunctionalIsClean
<1>1. SessionSound => FunctionalIsClean
  BY DEF SessionSound, Sound, GoodRequest, FunctionalIsClean
<1> QED
  BY <1>1, AlwaysSound, PTL

\* A targeted request never goes out on the header or through the filter of
\* another ECU.
THEOREM OwnEcuOnly == Spec => []NeverAnotherEcu
<1>1. SessionSound => NeverAnotherEcu
  BY DEF SessionSound, Sound, GoodRequest, NeverAnotherEcu
<1> QED
  BY <1>1, AlwaysSound, PTL
=============================================================================
