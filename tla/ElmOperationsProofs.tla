------------------------ MODULE ElmOperationsProofs ------------------------
(***************************************************************************)
(* What the operations of the ELM session do, for every set of targets and *)
(* of PIDs: the lemmas on which the invariants of the specifications that  *)
(* run these operations rest.                                              *)
(*                                                                         *)
(* A session is Sound when it is well formed, what the code remembers fits *)
(* the adapter, and every request it has sent went out as it was meant.    *)
(* Each operation keeps a session Sound in every outcome, whichever of its *)
(* exchanges failed, and what it has established when it succeeds is what  *)
(* the next one relies on.                                                 *)
(***************************************************************************)
EXTENDS ElmOperations, TLAPS

\* The adapter is as after ATZ: functional header, no filter.
Reset(s) == s.header = Functional /\ s.filter = None /\ s.fresh
\* ... and initialize_elm ran to its end.
Clean(s) == Reset(s) /\ s.headers
AtTargetOf(s, t) == s.header = t /\ s.filter = t

\* A functional request goes out on an initialised adapter, a targeted one
\* for its own ECU or after a reset.
GoodRequest(w) ==
  /\ w.meant = Functional => w.header = Functional /\ w.filter = None /\ w.clean
  /\ w.meant \in Targets => \/ w.header = w.meant /\ w.filter = w.meant
                            \/ w.header = Functional /\ w.filter = None

\* A target is remembered while the adapter is set to it or was reset since;
\* a session that is not dirty talks to an initialised adapter.
Remembers(s) ==
  /\ s.configured # None => \/ AtTargetOf(s, s.configured)
                            \/ Reset(s) /\ s.dirty
  /\ ~s.dirty => Clean(s) /\ s.configured = None

Sound(s) ==
  /\ s \in Session
  /\ Remembers(s)
  /\ \A w \in s.wire : GoodRequest(w)

\* Set up for t: what AtTarget has established when it succeeds.
SetUpFor(s, t) == s.dirty /\ s.configured = t /\ (AtTargetOf(s, t) \/ Reset(s))

-----------------------------------------------------------------------------
(***************************************************************************)
(* Exchanges.                                                              *)
(***************************************************************************)
\* A request adds one element to the wire, a good one if the adapter is set
\* up for it, and changes nothing else of the session.
LEMMA SentSound ==
  ASSUME NEW s, Sound(s), NEW request \in Request, NEW to \in Targets \cup {Functional},
         NEW heard \in SUBSET Targets,
         to = Functional => Clean(s),
         to \in Targets => AtTargetOf(s, to) \/ Reset(s)
  PROVE  /\ Sound(Sent(s, request, to, heard))
         /\ Sent(s, request, to, heard) = [s EXCEPT !.wire = Sent(s, request, to, heard).wire]
<1> DEFINE w == [request |-> request, meant |-> to, header |-> s.header, filter |-> s.filter,
                 clean |-> s.fresh /\ s.headers, heard |-> heard]
           u == Sent(s, request, to, heard)
<1>1. s \in Session
  BY DEF Sound
<1>2. w \in Wire /\ GoodRequest(w)
  BY <1>1, ElmAssumption DEF Session, Wire, GoodRequest, Clean, Reset, AtTargetOf
<1> HIDE DEF w
<1>3. u = [s EXCEPT !.wire = s.wire \cup {w}]
  BY <1>1 DEF Sent, w, Session
<1>4. u \in Session /\ u.wire = s.wire \cup {w}
  BY <1>1, <1>2, <1>3 DEF Session
<1>5. Remembers(u)
  BY <1>1, <1>3 DEF Sound, Remembers, Clean, Reset, AtTargetOf, Session
<1>6. \A x \in u.wire : GoodRequest(x)
  BY <1>2, <1>4 DEF Sound
<1> QED
  BY <1>1, <1>3, <1>4, <1>5, <1>6 DEF Sound

\* A diagnostic request (query_raw) leaves everything but the wire alone.
LEMMA AskSound ==
  ASSUME NEW s, Sound(s), NEW request \in Request, NEW to \in Targets \cup {Functional},
         to = Functional => Clean(s),
         to \in Targets => AtTargetOf(s, to) \/ Reset(s),
         NEW r \in Ask(s, request, to)
  PROVE  /\ Sound(r.session)
         /\ r.session = [s EXCEPT !.wire = r.session.wire]
         /\ r.reply \in Reply \ {"refused", "failed"}
<1>1. {} \in SUBSET Targets
  OBVIOUS
<1>2. /\ r.session = Sent(s, request, to, {})
      /\ r.reply \in {"rejected", "malformed", "lost", "ok"}
  BY DEF Ask, Outcome
<1> QED
  BY <1>1, <1>2, SentSound DEF Reply

\* So does a session command.
LEMMA CommandSound ==
  ASSUME NEW s, Sound(s), NEW request \in Request, NEW to \in Targets,
         AtTargetOf(s, to) \/ Reset(s),
         NEW r \in Command(s, request, to)
  PROVE  /\ Sound(r.session)
         /\ r.session = [s EXCEPT !.wire = r.session.wire]
         /\ r.reply \in Reply \ {"failed"}
<1>1. s \in Session /\ to # Functional
  BY ElmAssumption DEF Sound
<1>2. PICK heard \in SUBSET ListeningAt(s.header) :
        /\ r.session = Sent(s, request, to, heard)
        /\ r.reply \in {"rejected", "malformed", "lost", "ok", "refused"}
  BY DEF Command, Outcome
<1>3. heard \in SUBSET Targets
  BY <1>1 DEF ListeningAt, Session
<1> QED
  BY <1>1, <1>2, <1>3, SentSound DEF Reply

-----------------------------------------------------------------------------
(***************************************************************************)
(* Setting up the adapter.                                                 *)
(***************************************************************************)
\* What the setup operations leave alone in every outcome.
Keeps(s, u) ==
  /\ u.dirty = s.dirty
  /\ u.configured = s.configured
  /\ u.supported = s.supported
  /\ u.wire = s.wire

\* An AT command was carried out when it is acknowledged.
LEMMA AtCommandOutcome ==
  ASSUME NEW s, NEW done, NEW r \in AtCommand(s, done)
  PROVE  /\ r.session \in {s, done}
         /\ r.reply \in {"ok", "failed"}
         /\ Ok(r) => r.session = done
BY DEF AtCommand, Outcome, Ok

\* configure_target may change the header and the filter of an adapter about
\* which nothing is remembered; when it succeeds, both are the target's.
LEMMA ConfigureTargetSound ==
  ASSUME NEW s, Sound(s), s.dirty, s.configured = None, NEW t \in Targets,
         NEW r \in ConfigureTarget(s, t)
  PROVE  /\ Sound(r.session)
         /\ Keeps(s, r.session)
         /\ r.reply \in {"ok", "failed"}
         /\ Ok(r) => AtTargetOf(r.session, t)
<1> DEFINE u == [s EXCEPT !.header = t, !.fresh = FALSE]
           Filtered(x) == [x EXCEPT !.filter = t]
           v == Filtered(u)
<1>1. s \in Session
  BY DEF Sound
<1>2. Sound(u) /\ Keeps(s, u) /\ u.header = t
  BY <1>1 DEF Sound, Session, Remembers, Keeps
<1>3. Sound(v) /\ Keeps(s, v) /\ AtTargetOf(v, t)
  BY <1>1 DEF Sound, Session, Remembers, Keeps, AtTargetOf
<1>4. \/ r \in AtCommand(s, u) /\ ~Ok(r)
      \/ \E q \in AtCommand(s, u) : Ok(q) /\ r \in AtCommand(q.session, Filtered(q.session))
  BY DEF ConfigureTarget, After
<1> HIDE DEF u, Filtered
<1>5. \/ r \in AtCommand(s, u) /\ ~Ok(r)
      \/ r \in AtCommand(u, v)
  BY <1>4, AtCommandOutcome
<1>6. Keeps(s, s)
  BY DEF Keeps
<1> HIDE DEF v
<1> QED
  BY <1>2, <1>3, <1>5, <1>6, AtCommandOutcome

\* restore_functional likewise.
LEMMA RestoreFunctionalSound ==
  ASSUME NEW s, Sound(s), s.dirty, s.configured = None,
         NEW r \in RestoreFunctional(s)
  PROVE  /\ Sound(r.session)
         /\ Keeps(s, r.session)
         /\ r.reply \in {"ok", "failed"}
<1> DEFINE u == [s EXCEPT !.header = Functional]
           Filtered(x) == [x EXCEPT !.filter = None]
           v == Filtered(u)
<1>1. s \in Session
  BY DEF Sound
<1>2. Sound(u) /\ Keeps(s, u)
  BY <1>1 DEF Sound, Session, Remembers, Keeps
<1>3. Sound(v) /\ Keeps(s, v)
  BY <1>1 DEF Sound, Session, Remembers, Keeps
<1>4. \/ r \in AtCommand(s, u) /\ ~Ok(r)
      \/ \E q \in AtCommand(s, u) : Ok(q) /\ r \in AtCommand(q.session, Filtered(q.session))
  BY DEF RestoreFunctional, After
<1> HIDE DEF u, Filtered
<1>5. \/ r \in AtCommand(s, u) /\ ~Ok(r)
      \/ r \in AtCommand(u, v)
  BY <1>4, AtCommandOutcome
<1>6. Keeps(s, s)
  BY DEF Keeps
<1> HIDE DEF v
<1> QED
  BY <1>2, <1>3, <1>5, <1>6, AtCommandOutcome

\* initialize_elm: whatever is remembered of a dirty session, every failure
\* leaves it at the adapter it was set to or at a reset one, and success
\* leaves the adapter initialised.
LEMMA InitializeElmSound ==
  ASSUME NEW s, Sound(s), s.dirty,
         NEW r \in InitializeElm(s)
  PROVE  /\ Sound(r.session)
         /\ Keeps(s, r.session)
         /\ r.reply \in {"ok", "failed"}
         /\ r.session # s => Reset(r.session)
         /\ Ok(r) => Clean(r.session)
<1> DEFINE u == [s EXCEPT !.header = Functional, !.filter = None,
                          !.fresh = TRUE, !.headers = FALSE]
           Headed(x) == [x EXCEPT !.headers = TRUE]
           v == Headed(u)
           Last(x) == AtCommand(x, x)
           Heading(x) == After(AtCommand(x, Headed(x)), Last)
           Echo(x) == After(AtCommand(x, x), Heading)
<1>1. s \in Session
  BY DEF Sound
<1>2. Sound(u) /\ Keeps(s, u) /\ Reset(u)
  BY <1>1 DEF Sound, Session, Remembers, Keeps, Reset, Clean
<1>3. Sound(v) /\ Keeps(s, v) /\ Clean(v)
  BY <1>1 DEF Sound, Session, Remembers, Keeps, Reset, Clean
<1>4. InitializeElm(s) = After(AtCommand(s, u), Echo)
  BY DEF InitializeElm
<1> HIDE DEF u, Echo, Heading, Last, Headed
<1>5. \/ r \in AtCommand(s, u) /\ ~Ok(r)
      \/ \E q \in AtCommand(s, u) : Ok(q) /\ r \in Echo(q.session)
  BY <1>4 DEF After
<1>6. r \in Echo(u) =>
        \/ r \in AtCommand(u, u) /\ ~Ok(r)
        \/ \E q \in AtCommand(u, u) : Ok(q) /\ r \in Heading(q.session)
  BY DEF After, Echo
<1>7. r \in Heading(u) =>
        \/ r \in AtCommand(u, v) /\ ~Ok(r)
        \/ \E q \in AtCommand(u, v) : Ok(q) /\ r \in AtCommand(q.session, q.session)
  BY DEF After, Heading, Last
<1>8. \/ r \in AtCommand(s, u) /\ ~Ok(r)
      \/ r \in AtCommand(u, u) /\ ~Ok(r)
      \/ r \in AtCommand(u, v) /\ ~Ok(r)
      \/ r \in AtCommand(v, v)
  BY <1>5, <1>6, <1>7, AtCommandOutcome
<1>9. Keeps(s, s)
  BY DEF Keeps
<1>10. Reset(v)
  BY <1>3 DEF Clean
<1> HIDE DEF v
<1> QED
  BY <1>2, <1>3, <1>8, <1>9, <1>10, AtCommandOutcome

\* discover_support on an initialised adapter changes the wire and the
\* supported PIDs only.
LEMMA DiscoverSupportSound ==
  ASSUME NEW s, Sound(s), Clean(s),
         NEW r \in DiscoverSupport(s)
  PROVE  /\ Sound(r.session)
         /\ Clean(r.session)
         /\ r.session.dirty = s.dirty
         /\ r.session.configured = s.configured
         /\ r.reply \in Reply
<1> DEFINE sent == Sent(s, "discover", Functional, {})
<1>1. /\ s \in Session
      /\ Functional \notin Targets
      /\ "discover" \in Request
      /\ {} \in SUBSET Targets
  BY ElmAssumption DEF Sound, Request
<1>2. Sound(sent) /\ sent = [s EXCEPT !.wire = sent.wire]
  BY <1>1, SentSound
<1>3. CASE r \in Ask(s, "discover", Functional)
  <2>1. /\ Sound(r.session)
        /\ r.session = [s EXCEPT !.wire = r.session.wire]
        /\ r.reply \in Reply
    BY <1>1, <1>3, AskSound
  <2> QED
    BY <1>1, <2>1 DEF Session, Clean, Reset
<1>4. CASE \E pids \in SUBSET Pids : r = Outcome([sent EXCEPT !.supported = pids], "ok")
  <2> HIDE DEF sent
  <2>1. PICK pids \in SUBSET Pids : r = Outcome([sent EXCEPT !.supported = pids], "ok")
    BY <1>4
  <2>2. sent \in Session
    BY <1>2 DEF Sound
  <2>3. r.session = [sent EXCEPT !.supported = pids] /\ r.reply = "ok"
    BY <2>1 DEF Outcome
  <2>4. Sound(r.session)
    BY <1>2, <2>2, <2>3 DEF Sound, Session, Remembers, Clean, Reset, AtTargetOf
  <2>5. Clean(r.session) /\ r.session.dirty = s.dirty /\ r.session.configured = s.configured
    BY <1>1, <1>2, <2>2, <2>3 DEF Session, Clean, Reset
  <2> QED
    BY <2>3, <2>4, <2>5 DEF Reply
<1> QED
  BY <1>3, <1>4 DEF DiscoverSupport

\* reinitialize: the session is no longer dirty only when the whole reset and
\* the support discovery after it have succeeded.
LEMMA ReinitializeSound ==
  ASSUME NEW s, Sound(s), s.dirty,
         NEW r \in Reinitialize(s)
  PROVE  /\ Sound(r.session)
         /\ r.reply \in Reply
         /\ ~Ok(r) => r.session.dirty
         /\ Ok(r) => Clean(r.session)
<1> DEFINE Settled(u) == [u EXCEPT !.dirty = FALSE, !.configured = None]
           Settle(u) == {Outcome(Settled(u), "ok")}
           Discovered == After(InitializeElm(s), DiscoverSupport)
<1>1. Reinitialize(s) = After(Discovered, Settle)
  BY DEF Reinitialize
<1>2. \A q \in Discovered :
        /\ Sound(q.session)
        /\ q.session.dirty
        /\ q.reply \in Reply
        /\ Ok(q) => Clean(q.session)
  <2> SUFFICES ASSUME NEW q \in Discovered
               PROVE  /\ Sound(q.session)
                      /\ q.session.dirty
                      /\ q.reply \in Reply
                      /\ Ok(q) => Clean(q.session)
    OBVIOUS
  <2>1. \/ q \in InitializeElm(s) /\ ~Ok(q)
        \/ \E i \in InitializeElm(s) : Ok(i) /\ q \in DiscoverSupport(i.session)
    BY DEF After
  <2>2. CASE q \in InitializeElm(s) /\ ~Ok(q)
    BY <2>2, InitializeElmSound DEF Keeps, Reply
  <2>3. CASE \E i \in InitializeElm(s) : Ok(i) /\ q \in DiscoverSupport(i.session)
    <3>1. PICK i \in InitializeElm(s) : Ok(i) /\ q \in DiscoverSupport(i.session)
      BY <2>3
    <3>2. Sound(i.session) /\ Clean(i.session) /\ i.session.dirty
      BY <3>1, InitializeElmSound DEF Keeps
    <3> QED
      BY <3>1, <3>2, DiscoverSupportSound
  <2> QED
    BY <2>1, <2>2, <2>3
<1> HIDE DEF Settle, Discovered
<1>3. \/ r \in Discovered /\ ~Ok(r)
      \/ \E q \in Discovered : Ok(q) /\ r \in Settle(q.session)
  BY <1>1 DEF After
<1>4. ASSUME NEW q \in Discovered, Ok(q), r \in Settle(q.session)
      PROVE  /\ Sound(r.session)
             /\ r.reply = "ok"
             /\ Clean(r.session)
  <2>1. r.session = Settled(q.session) /\ r.reply = "ok"
    BY <1>4 DEF Settle, Outcome
  <2>2. q.session \in Session
    BY <1>2, <1>4 DEF Sound
  <2>3. Clean(r.session) /\ r.session \in Session
    BY <1>2, <1>4, <2>1, <2>2 DEF Clean, Reset, Session
  <2>4. r.session.configured = None /\ r.session.wire = q.session.wire
    BY <2>1, <2>2 DEF Session
  <2> QED
    BY <1>2, <1>4, <2>1, <2>3, <2>4 DEF Sound, Remembers
<1> QED
  BY <1>2, <1>3, <1>4 DEF Reply, Ok

\* ensure_functional: whatever came before, a functional read that goes on
\* talks to an initialised adapter.
LEMMA EnsureFunctionalSound ==
  ASSUME NEW s, Sound(s), NEW r \in EnsureFunctional(s)
  PROVE  /\ Sound(r.session)
         /\ r.reply \in Reply
         /\ Ok(r) => Clean(r.session)
<1>1. CASE s.dirty
  BY <1>1, ReinitializeSound DEF EnsureFunctional
<1>2. CASE ~s.dirty
  <2>1. r.session = s /\ r.reply = "ok"
    BY <1>2 DEF EnsureFunctional, Outcome
  <2> QED
    BY <1>2, <2>1 DEF Sound, Remembers, Reply
<1> QED
  BY <1>1, <1>2

\* Marking a session dirty keeps it sound.
LEMMA DirtySound ==
  ASSUME NEW s, Sound(s)
  PROVE  LET d == [s EXCEPT !.dirty = TRUE]
         IN  Sound(d) /\ d.dirty /\ d.configured = s.configured /\ d.wire = s.wire
BY DEF Sound, Session, Remembers, Clean, Reset, AtTargetOf

\* So does forgetting the target of a dirty session.
LEMMA ForgottenSound ==
  ASSUME NEW s, Sound(s), s.dirty
  PROVE  LET f == [s EXCEPT !.configured = None]
         IN  Sound(f) /\ f.dirty /\ f.configured = None /\ f.wire = s.wire
BY DEF Sound, Session, Remembers, Clean, Reset, AtTargetOf

\* The prologue of a targeted read: a target is remembered when the adapter
\* has accepted all of it, and is used again only while it is remembered.
LEMMA AtTargetSound ==
  ASSUME NEW s, Sound(s), NEW t \in Targets, NEW r \in AtTarget(s, t)
  PROVE  /\ Sound(r.session)
         /\ r.session.dirty
         /\ r.reply \in {"ok", "failed"}
         /\ Ok(r) => SetUpFor(r.session, t)
<1> DEFINE d == [s EXCEPT !.dirty = TRUE]
           f == [d EXCEPT !.configured = None]
           Remembered(u) == [u EXCEPT !.configured = t]
<1>1. Sound(d) /\ d.dirty /\ t # None
  BY DirtySound, ElmAssumption
<1>2. Sound(f) /\ f.dirty /\ f.configured = None
  <2> HIDE DEF d
  <2> QED
    BY <1>1, ForgottenSound
<1>3. \/ d.configured = t /\ r = Outcome(d, "ok")
      \/ \E q \in ConfigureTarget(f, t) :
           r = IF Ok(q) THEN Outcome(Remembered(q.session), "ok") ELSE q
  BY DEF AtTarget
<1> HIDE DEF d, f
<1>4. CASE d.configured = t /\ r = Outcome(d, "ok")
  <2>1. r.session = d /\ r.reply = "ok"
    BY <1>4 DEF Outcome
  <2> QED
    BY <1>1, <1>4, <2>1 DEF Sound, Remembers, SetUpFor
<1>5. ASSUME NEW q \in ConfigureTarget(f, t),
             r = IF Ok(q) THEN Outcome(Remembered(q.session), "ok") ELSE q
      PROVE  /\ Sound(r.session)
             /\ r.session.dirty
             /\ r.reply \in {"ok", "failed"}
             /\ Ok(r) => SetUpFor(r.session, t)
  <2>1. /\ Sound(q.session)
        /\ q.session.dirty
        /\ q.reply \in {"ok", "failed"}
        /\ Ok(q) => AtTargetOf(q.session, t)
    BY <1>2, ConfigureTargetSound DEF Keeps
  <2>2. CASE ~Ok(q)
    BY <1>5, <2>1, <2>2
  <2>3. CASE Ok(q)
    <3>1. r.session = Remembered(q.session) /\ r.reply = "ok"
      BY <1>5, <2>3 DEF Outcome
    <3>2. q.session \in Session
      BY <2>1 DEF Sound
    <3>3. Sound(r.session) /\ r.session.dirty /\ r.session.configured = t /\ AtTargetOf(r.session, t)
      BY <2>1, <2>3, <3>1, <3>2 DEF Sound, Session, Remembers, Clean, Reset, AtTargetOf
    <3> QED
      BY <3>1, <3>3 DEF SetUpFor
  <2> QED
    BY <2>2, <2>3
<1> QED
  BY <1>3, <1>4, <1>5

-----------------------------------------------------------------------------
(***************************************************************************)
(* The operations.                                                         *)
(***************************************************************************)
\* restore_functional_addressing.
LEMMA RestoreAddressingSound ==
  ASSUME NEW s, Sound(s), NEW r \in RestoreFunctionalAddressing(s)
  PROVE  Sound(r.session) /\ r.session.dirty
<1> DEFINE d == [s EXCEPT !.dirty = TRUE]
           f == [d EXCEPT !.configured = None]
<1>1. s \in Session
  BY DEF Sound
<1>2. [s EXCEPT !.configured = None, !.dirty = TRUE] = f
  BY <1>1 DEF Session
<1>3. Sound(d) /\ d.dirty
  BY DirtySound
<1> HIDE DEF d
<1>4. Sound(f) /\ f.dirty /\ f.configured = None
  BY <1>3, ForgottenSound
<1>5. r \in RestoreFunctional(f)
  BY <1>2 DEF RestoreFunctionalAddressing
<1> HIDE DEF f
<1> QED
  BY <1>4, <1>5, RestoreFunctionalSound DEF Keeps

\* A functional request after ensure_functional.
LEMMA FunctionalReadSound ==
  ASSUME NEW s, Sound(s), NEW r \in FunctionalRead(s)
  PROVE  Sound(r.session) /\ (Ok(r) => Clean(r.session))
<1> DEFINE ReadIt(u) == Ask(u, "read", Functional)
<1>1. FunctionalRead(s) = After(EnsureFunctional(s), ReadIt)
  BY DEF FunctionalRead
<1> HIDE DEF ReadIt
<1>2. \/ r \in EnsureFunctional(s) /\ ~Ok(r)
      \/ \E q \in EnsureFunctional(s) : Ok(q) /\ r \in ReadIt(q.session)
  BY <1>1 DEF After
<1>3. ASSUME NEW q \in EnsureFunctional(s), Ok(q), r \in ReadIt(q.session)
      PROVE  Sound(r.session) /\ Clean(r.session)
  <2>1. Sound(q.session) /\ Clean(q.session) /\ q.session \in Session
    BY <1>3, EnsureFunctionalSound DEF Sound
  <2>2. Functional \notin Targets /\ "read" \in Request
    BY ElmAssumption DEF Request
  <2>3. Sound(r.session) /\ r.session = [q.session EXCEPT !.wire = r.session.wire]
    BY <1>3, <2>1, <2>2, AskSound DEF ReadIt
  <2> QED
    BY <2>1, <2>3 DEF Clean, Reset, Session
<1> QED
  BY <1>2, <1>3, EnsureFunctionalSound

\* vehicle_identity: a second functional request after a first that succeeded.
LEMMA IdentifySound ==
  ASSUME NEW s, Sound(s), NEW r \in Identify(s)
  PROVE  Sound(r.session)
<1> DEFINE ReadIt(u) == Ask(u, "read", Functional)
<1>1. Identify(s) = After(FunctionalRead(s), ReadIt)
  BY DEF Identify
<1> HIDE DEF ReadIt
<1>2. \/ r \in FunctionalRead(s) /\ ~Ok(r)
      \/ \E q \in FunctionalRead(s) : Ok(q) /\ r \in ReadIt(q.session)
  BY <1>1 DEF After
<1>3. ASSUME NEW q \in FunctionalRead(s), Ok(q), r \in ReadIt(q.session)
      PROVE  Sound(r.session)
  <2>1. Functional \notin Targets /\ "read" \in Request
    BY ElmAssumption DEF Request
  <2> QED
    BY <1>3, <2>1, FunctionalReadSound, AskSound DEF ReadIt
<1> QED
  BY <1>2, <1>3, FunctionalReadSound

\* read_with_evidence: a PID that was not discovered is not asked for.
LEMMA ReadWithEvidenceSound ==
  ASSUME NEW s, Sound(s), NEW pid, NEW r \in ReadWithEvidence(s, pid)
  PROVE  Sound(r.session)
<1> DEFINE ReadIt(u) == IF pid \in u.supported THEN Ask(u, "read", Functional)
                                               ELSE {Outcome(u, "failed")}
<1>1. ReadWithEvidence(s, pid) = After(EnsureFunctional(s), ReadIt)
  BY DEF ReadWithEvidence
<1> HIDE DEF ReadIt
<1>2. \/ r \in EnsureFunctional(s) /\ ~Ok(r)
      \/ \E q \in EnsureFunctional(s) : Ok(q) /\ r \in ReadIt(q.session)
  BY <1>1 DEF After
<1>3. ASSUME NEW q \in EnsureFunctional(s), Ok(q), r \in ReadIt(q.session)
      PROVE  Sound(r.session)
  <2>1. Functional \notin Targets /\ "read" \in Request
    BY ElmAssumption DEF Request
  <2>2. Sound(q.session) /\ Clean(q.session)
    BY <1>3, EnsureFunctionalSound
  <2>3. r \in Ask(q.session, "read", Functional) \/ r.session = q.session
    BY <1>3 DEF ReadIt, Outcome
  <2> QED
    BY <2>1, <2>2, <2>3, AskSound
<1> QED
  BY <1>2, <1>3, EnsureFunctionalSound

\* Forgetting the target after an exchange that left the adapter unknown.
LEMMA ForgettingSound ==
  ASSUME NEW rs, NEW replies, NEW r \in Forgetting(replies, rs),
         \A q \in rs : Sound(q.session) /\ q.session.dirty
  PROVE  Sound(r.session) /\ r.session.dirty
<1> DEFINE Forgotten(u) == [u EXCEPT !.configured = None]
<1>1. PICK q \in rs : r = IF q.reply \in replies THEN Outcome(Forgotten(q.session), q.reply) ELSE q
  BY DEF Forgetting
<1>2. r.session = q.session \/ r.session = Forgotten(q.session)
  BY <1>1 DEF Outcome
<1> QED
  BY <1>2, ForgottenSound

\* Every request of a session that is set up for its target keeps it sound
\* and dirty: the next functional request resets the adapter first.
LEMMA SetUpAskSound ==
  ASSUME NEW s, Sound(s), NEW t \in Targets, SetUpFor(s, t), NEW r \in Ask(s, "read", t)
  PROVE  Sound(r.session) /\ r.session.dirty
<1>1. "read" \in Request /\ t # Functional /\ s \in Session
  BY ElmAssumption DEF Request, Sound
<1>2. Sound(r.session) /\ r.session = [s EXCEPT !.wire = r.session.wire]
  BY <1>1, AskSound DEF SetUpFor
<1> QED
  BY <1>1, <1>2 DEF SetUpFor, Session

\* read_targeted.
LEMMA ReadTargetedSound ==
  ASSUME NEW s, Sound(s), NEW t \in Targets, NEW r \in ReadTargeted(s, t)
  PROVE  Sound(r.session) /\ r.session.dirty
<1> DEFINE ReadIt(u) == Forgetting({"lost", "malformed"}, Ask(u, "read", t))
<1>1. ReadTargeted(s, t) = After(AtTarget(s, t), ReadIt)
  BY DEF ReadTargeted
<1> HIDE DEF ReadIt
<1>2. \/ r \in AtTarget(s, t) /\ ~Ok(r)
      \/ \E q \in AtTarget(s, t) : Ok(q) /\ r \in ReadIt(q.session)
  BY <1>1 DEF After
<1>3. ASSUME NEW q \in AtTarget(s, t), Ok(q), r \in ReadIt(q.session)
      PROVE  Sound(r.session) /\ r.session.dirty
  <2>1. Sound(q.session) /\ SetUpFor(q.session, t)
    BY <1>3, AtTargetSound
  <2>2. \A x \in Ask(q.session, "read", t) : Sound(x.session) /\ x.session.dirty
    BY <2>1, SetUpAskSound
  <2> QED
    BY <1>3, <2>2, ForgettingSound DEF ReadIt
<1> QED
  BY <1>2, <1>3, AtTargetSound

\* read_multi_targeted_with_evidence and read_did_once.
LEMMA ReadOnceSound ==
  ASSUME NEW s, Sound(s), NEW t \in Targets, NEW r \in ReadOnce(s, t)
  PROVE  Sound(r.session) /\ r.session.dirty
<1> DEFINE ReadIt(u) == Forgetting({"lost"}, Ask(u, "read", t))
<1>1. ReadOnce(s, t) = After(AtTarget(s, t), ReadIt)
  BY DEF ReadOnce
<1> HIDE DEF ReadIt
<1>2. \/ r \in AtTarget(s, t) /\ ~Ok(r)
      \/ \E q \in AtTarget(s, t) : Ok(q) /\ r \in ReadIt(q.session)
  BY <1>1 DEF After
<1>3. ASSUME NEW q \in AtTarget(s, t), Ok(q), r \in ReadIt(q.session)
      PROVE  Sound(r.session) /\ r.session.dirty
  <2>1. Sound(q.session) /\ SetUpFor(q.session, t)
    BY <1>3, AtTargetSound
  <2>2. \A x \in Ask(q.session, "read", t) : Sound(x.session) /\ x.session.dirty
    BY <2>1, SetUpAskSound
  <2> QED
    BY <1>3, <2>2, ForgettingSound DEF ReadIt
<1> QED
  BY <1>2, <1>3, AtTargetSound

\* uds_session_command.
LEMMA UdsSessionCommandSound ==
  ASSUME NEW s, Sound(s), NEW t \in Targets, NEW command \in Request,
         NEW r \in UdsSessionCommand(s, command, t)
  PROVE  Sound(r.session) /\ r.session.dirty
<1> DEFINE SendIt(u) == Forgetting({"lost"}, Command(u, command, t))
<1>1. UdsSessionCommand(s, command, t) = After(AtTarget(s, t), SendIt)
  BY DEF UdsSessionCommand
<1> HIDE DEF SendIt
<1>2. \/ r \in AtTarget(s, t) /\ ~Ok(r)
      \/ \E q \in AtTarget(s, t) : Ok(q) /\ r \in SendIt(q.session)
  BY <1>1 DEF After
<1>3. ASSUME NEW q \in AtTarget(s, t), Ok(q), r \in SendIt(q.session)
      PROVE  Sound(r.session) /\ r.session.dirty
  <2>1. Sound(q.session) /\ SetUpFor(q.session, t) /\ q.session \in Session
    BY <1>3, AtTargetSound DEF Sound
  <2>2. ASSUME NEW x \in Command(q.session, command, t)
        PROVE  Sound(x.session) /\ x.session.dirty
    <3>1. Sound(x.session) /\ x.session = [q.session EXCEPT !.wire = x.session.wire]
      BY <2>1, <2>2, CommandSound DEF SetUpFor
    <3> QED
      BY <2>1, <3>1 DEF SetUpFor, Session
  <2> QED
    BY <1>3, <2>2, ForgettingSound DEF SendIt
<1> QED
  BY <1>2, <1>3, AtTargetSound

\* read_mode09 and read_ecu_identification: nothing is remembered while the
\* adapter is set up, read and restored, however each of them ends.
LEMMA ReadAndRestoreSound ==
  ASSUME NEW s, Sound(s), NEW t \in Targets, NEW r \in ReadAndRestore(s, t)
  PROVE  Sound(r.session) /\ r.session.dirty
<1> DEFINE d == [s EXCEPT !.dirty = TRUE]
           f == [d EXCEPT !.configured = None]
           ReadIt(u) == Ask(u, "read", t)
           Answered == After(ConfigureTarget(f, t), ReadIt)
<1>1. s \in Session /\ t # Functional /\ "read" \in Request
  BY ElmAssumption DEF Sound, Request
<1>2. [s EXCEPT !.configured = None, !.dirty = TRUE] = f
  BY <1>1 DEF Session
<1>3. Sound(d) /\ d.dirty
  BY DirtySound
<1>4. ReadAndRestore(s, t) = UNION {Restored(x) : x \in Answered}
  <2>1. ReadAndRestore(s, t) =
          UNION {Restored(x) :
                   x \in After(ConfigureTarget([s EXCEPT !.configured = None, !.dirty = TRUE], t), ReadIt)}
    BY DEF ReadAndRestore
  <2> HIDE DEF f, ReadIt
  <2> QED
    BY <1>2, <2>1
<1> HIDE DEF d
<1>5. Sound(f) /\ f.dirty /\ f.configured = None
  BY <1>3, ForgottenSound
<1> HIDE DEF f
<1>6. ASSUME NEW x \in Answered
      PROVE  Sound(x.session) /\ x.session.dirty /\ x.session.configured = None
  <2> HIDE DEF ReadIt
  <2>1. \/ x \in ConfigureTarget(f, t) /\ ~Ok(x)
        \/ \E q \in ConfigureTarget(f, t) : Ok(q) /\ x \in ReadIt(q.session)
    BY <1>6 DEF After
  <2>2. ASSUME NEW q \in ConfigureTarget(f, t), Ok(q), x \in ReadIt(q.session)
        PROVE  Sound(x.session) /\ x.session.dirty /\ x.session.configured = None
    <3>1. /\ Sound(q.session) /\ AtTargetOf(q.session, t)
          /\ q.session.dirty /\ q.session.configured = None
          /\ q.session \in Session
      BY <1>5, <2>2, ConfigureTargetSound DEF Keeps, Sound
    <3>2. Sound(x.session) /\ x.session = [q.session EXCEPT !.wire = x.session.wire]
      BY <1>1, <2>2, <3>1, AskSound DEF ReadIt
    <3> QED
      BY <3>1, <3>2 DEF Session
  <2> QED
    BY <1>5, <2>1, <2>2, ConfigureTargetSound DEF Keeps
<1> HIDE DEF Answered
<1>7. PICK x \in Answered : r \in Restored(x)
  BY <1>4
<1>8. PICK q \in RestoreFunctional(x.session) : r.session = q.session
  BY <1>7 DEF Restored, Outcome
<1> QED
  BY <1>6, <1>8, RestoreFunctionalSound DEF Keeps
=============================================================================
