-------------------------- MODULE MobileCoreProofs --------------------------
(***************************************************************************)
(* Theorems about the mobile core for any set of ECUs, any catalog and any *)
(* limits of the extended session: a broadcast never meets an active       *)
(* session, the core does not lose track of the engine ECU, an             *)
(* indeterminate session stops all traffic, and another ECU is switched    *)
(* only in the one way the code leaves open.                               *)
(*                                                                         *)
(* The first section says what the operations of the ELM session put on    *)
(* the wire; the next three follow a world through the operations of the   *)
(* UDS session and the core's helpers.  An action is a chain of these: one *)
(* that enters no session Follows from the world it began in, and so does  *)
(* a read of one ECU after another, by induction over the sets of ECUs.    *)
(* Only initialize and uds.enable need a relation of their own.  The last  *)
(* sections put the actions together to steps of the specification.        *)
(***************************************************************************)
EXTENDS MobileCore, ElmOperationsProofs, FiniteSetTheorems

-----------------------------------------------------------------------------
(***************************************************************************)
(* What the operations of the ELM session put on the wire.                 *)
(***************************************************************************)
\* The targeted operations send nothing on purpose but to their target.
OnlyFor(t, s, u) == \A x \in u.wire : x \in s.wire \/ x.meant = t

\* A request adds itself to the wire.
LEMMA SentWire ==
  ASSUME NEW s \in Session, NEW request, NEW to, NEW heard
  PROVE  \E x : /\ Sent(s, request, to, heard).wire = s.wire \cup {x}
                /\ x.meant = to /\ x.heard = heard
<1> DEFINE x == [request |-> request, meant |-> to, header |-> s.header, filter |-> s.filter,
                 clean |-> s.fresh /\ s.headers, heard |-> heard]
<1>1. x.meant = to /\ x.heard = heard
  OBVIOUS
<1>2. Sent(s, request, to, heard) = [s EXCEPT !.wire = s.wire \cup {x}]
  BY DEF Sent, Session
<1> HIDE DEF x
<1>3. Sent(s, request, to, heard).wire = s.wire \cup {x}
  BY <1>2 DEF Session
<1> QED
  BY <1>1, <1>3

LEMMA AskWire ==
  ASSUME NEW s \in Session, NEW request, NEW to, NEW r \in Ask(s, request, to)
  PROVE  OnlyFor(to, s, r.session)
<1>1. r.session = Sent(s, request, to, {})
  BY DEF Ask, Outcome
<1> QED
  BY <1>1, SentWire DEF OnlyFor

\* Forgetting a target changes neither the wire nor the reply.
LEMMA ForgettingWire ==
  ASSUME NEW rs, NEW replies, NEW r \in Forgetting(replies, rs),
         \A q \in rs : q.session \in Session
  PROVE  \E q \in rs : r.session.wire = q.session.wire /\ r.reply = q.reply
<1> DEFINE Forgotten(u) == [u EXCEPT !.configured = None]
<1>1. PICK q \in rs : r = IF q.reply \in replies THEN Outcome(Forgotten(q.session), q.reply) ELSE q
  BY DEF Forgetting
<1>2. Forgotten(q.session).wire = q.session.wire
  BY DEF Session
<1> HIDE DEF Forgotten
<1> QED
  BY <1>1, <1>2 DEF Outcome

\* Setting up a target sends nothing.  A successful setup leaves the adapter
\* at the target's header, or at a reset that hit a remembered target.
LEMMA AtTargetWire ==
  ASSUME NEW s, Sound(s), NEW t \in Targets, NEW r \in AtTarget(s, t)
  PROVE  /\ r.session.wire = s.wire
         /\ Ok(r) => \/ r.session.header = t
                     \/ s.configured = t /\ s.fresh /\ s.dirty
<1> DEFINE d == [s EXCEPT !.dirty = TRUE]
           f == [d EXCEPT !.configured = None]
           Remembered(u) == [u EXCEPT !.configured = t]
<1>0. s \in Session /\ t # None
  BY ElmAssumption DEF Sound
<1>1. /\ Sound(d) /\ d.dirty /\ d.wire = s.wire
      /\ d.header = s.header /\ d.configured = s.configured
  BY <1>0, DirtySound DEF Session
<1>2. Sound(f) /\ f.dirty /\ f.configured = None /\ f.wire = s.wire
  <2> HIDE DEF d
  <2> QED
    BY <1>1, ForgottenSound
<1>3. \/ d.configured = t /\ r = Outcome(d, "ok")
      \/ \E q \in ConfigureTarget(f, t) :
           r = IF Ok(q) THEN Outcome(Remembered(q.session), "ok") ELSE q
  BY DEF AtTarget
<1> HIDE DEF d, f
<1>4. CASE d.configured = t /\ r = Outcome(d, "ok")
  <2>1. r.session = d
    BY <1>4 DEF Outcome
  <2>2. AtTargetOf(s, t) \/ (Reset(s) /\ s.dirty)
    BY <1>0, <1>1, <1>4 DEF Sound, Remembers
  <2> QED
    BY <1>1, <1>4, <2>1, <2>2 DEF AtTargetOf, Reset
<1>5. ASSUME NEW q \in ConfigureTarget(f, t),
             r = IF Ok(q) THEN Outcome(Remembered(q.session), "ok") ELSE q
      PROVE  r.session.wire = s.wire /\ (Ok(r) => r.session.header = t)
  <2>1. /\ q.session \in Session /\ q.session.wire = s.wire
        /\ Ok(q) => AtTargetOf(q.session, t)
    BY <1>2, ConfigureTargetSound DEF Keeps, Sound
  <2>2. CASE ~Ok(q)
    BY <1>5, <2>1, <2>2
  <2>3. CASE Ok(q)
    <3>1. r.session = Remembered(q.session)
      BY <1>5, <2>3 DEF Outcome
    <3> QED
      BY <2>1, <2>3, <3>1 DEF Session, AtTargetOf
  <2> QED
    BY <2>2, <2>3
<1> QED
  BY <1>3, <1>4, <1>5

\* read_targeted, read_multi_targeted_with_evidence, read_did_once.
LEMMA TargetedReadWire ==
  ASSUME NEW s, Sound(s), NEW t \in Targets, NEW replies, NEW r,
         \/ r \in AtTarget(s, t)
         \/ \E q \in AtTarget(s, t) :
               Ok(q) /\ r \in Forgetting(replies, Ask(q.session, "read", t))
  PROVE  OnlyFor(t, s, r.session)
<1>3. ASSUME NEW q \in AtTarget(s, t), Ok(q),
             r \in Forgetting(replies, Ask(q.session, "read", t))
      PROVE  OnlyFor(t, s, r.session)
  <2>1. /\ Sound(q.session) /\ SetUpFor(q.session, t) /\ q.session.wire = s.wire
        /\ q.session \in Session
    BY <1>3, AtTargetSound, AtTargetWire DEF Sound
  <2>2. \A x \in Ask(q.session, "read", t) : x.session \in Session
    BY <2>1, SetUpAskSound DEF Sound
  <2>3. PICK x \in Ask(q.session, "read", t) : r.session.wire = x.session.wire
    BY <1>3, <2>2, ForgettingWire
  <2> QED
    BY <2>1, <2>3, AskWire DEF OnlyFor
<1>4. r \in AtTarget(s, t) => OnlyFor(t, s, r.session)
  BY AtTargetWire DEF OnlyFor
<1> QED
  BY <1>3, <1>4

LEMMA ReadTargetedWire ==
  ASSUME NEW s, Sound(s), NEW t \in Targets, NEW r \in ReadTargeted(s, t)
  PROVE  OnlyFor(t, s, r.session)
<1>1. \/ r \in AtTarget(s, t)
      \/ \E q \in AtTarget(s, t) :
            Ok(q) /\ r \in Forgetting({"lost", "malformed"}, Ask(q.session, "read", t))
  BY DEF ReadTargeted, After
<1> QED
  BY <1>1, TargetedReadWire

LEMMA ReadOnceWire ==
  ASSUME NEW s, Sound(s), NEW t \in Targets, NEW r \in ReadOnce(s, t)
  PROVE  OnlyFor(t, s, r.session)
<1>1. \/ r \in AtTarget(s, t)
      \/ \E q \in AtTarget(s, t) :
            Ok(q) /\ r \in Forgetting({"lost"}, Ask(q.session, "read", t))
  BY DEF ReadOnce, After
<1> QED
  BY <1>1, TargetedReadWire

\* The ECUs that carried out a session command.
Heard(u) == UNION {x.heard : x \in u.wire}

\* uds_session_command: its answer says whether the target carried it out.
\* Another ECU may have done so only after a reset under a remembered target.
LEMMA CommandHeard ==
  ASSUME NEW s, Sound(s), s.wire = {}, NEW t \in Targets,
         NEW command \in {"enter", "leave", "present"},
         NEW r \in UdsSessionCommand(s, command, t)
  PROVE  /\ \A x \in r.session.wire : x.meant = t
         /\ Heard(r.session) \subseteq Targets
         /\ Heard(r.session) \subseteq {t} \/ (s.configured = t /\ s.fresh /\ s.dirty)
         /\ Ok(r) /\ command # "present" => t \in Heard(r.session)
         /\ r.reply = "refused" => \/ t \notin Heard(r.session)
                                   \/ (AnswersPending /\ command = "enter")
<1> DEFINE SendIt(u) == Forgetting({"lost"}, Command(u, command, t))
<1>1. r \in After(AtTarget(s, t), SendIt)
  BY DEF UdsSessionCommand
<1> HIDE DEF SendIt
<1>2. \/ r \in AtTarget(s, t) /\ ~Ok(r)
      \/ \E q \in AtTarget(s, t) : Ok(q) /\ r \in SendIt(q.session)
  BY <1>1 DEF After
<1>3. CASE r \in AtTarget(s, t) /\ ~Ok(r)
  <2>1. r.session.wire = {} /\ r.reply = "failed"
    BY <1>3, AtTargetWire, AtTargetSound DEF Ok
  <2> QED
    BY <1>3, <2>1 DEF Heard
<1>4. ASSUME NEW q \in AtTarget(s, t), Ok(q), r \in SendIt(q.session)
      PROVE  \E heard, x :
               /\ heard \subseteq Targets
               /\ r.session.wire = {x} /\ x.meant = t /\ x.heard = heard
               /\ heard \subseteq {t} \/ (s.configured = t /\ s.fresh /\ s.dirty)
               /\ Ok(r) /\ command # "present" => t \in heard
               /\ r.reply = "refused" => t \notin heard \/ (AnswersPending /\ command = "enter")
  <2> DEFINE u == q.session
  <2>1. /\ Sound(u) /\ SetUpFor(u, t) /\ u.wire = {} /\ u \in Session
        /\ u.header = t \/ (s.configured = t /\ s.fresh /\ s.dirty)
    BY <1>4, AtTargetSound, AtTargetWire DEF Sound
  <2> HIDE DEF u
  <2>2. command \in Request /\ t # Functional
    BY ElmAssumption DEF Request
  <2>3. \A c \in Command(u, command, t) : c.session \in Session
    BY <2>1, <2>2, CommandSound DEF SetUpFor, Sound
  <2>4. PICK c \in Command(u, command, t) :
          r.session.wire = c.session.wire /\ r.reply = c.reply
    BY <1>4, <2>3, ForgettingWire DEF SendIt, u
  <2>5. PICK heard \in SUBSET ListeningAt(u.header) :
          /\ c.session = Sent(u, command, t, heard)
          /\ c.reply \in {"rejected", "malformed", "lost", "ok", "refused"}
          /\ c.reply = "ok" => command = "present" \/ t \in heard
          /\ c.reply = "refused" => t \notin heard \/ (AnswersPending /\ command = "enter")
    BY DEF Command, Outcome
  <2>6. heard \subseteq Targets /\ (u.header = t => heard \subseteq {t})
    BY <2>1, <2>2 DEF ListeningAt, Session
  <2>7. PICK x : c.session.wire = {x} /\ x.meant = t /\ x.heard = heard
    BY <2>1, <2>5, SentWire
  <2>8. /\ r.session.wire = {x}
        /\ heard \subseteq {t} \/ (s.configured = t /\ s.fresh /\ s.dirty)
    BY <2>1, <2>4, <2>6, <2>7
  <2>9. /\ Ok(r) /\ command # "present" => t \in heard
        /\ r.reply = "refused" => t \notin heard \/ (AnswersPending /\ command = "enter")
    BY <2>4, <2>5 DEF Ok
  <2> QED
    BY <2>6, <2>7, <2>8, <2>9
<1>5. ASSUME NEW heard, NEW x, r.session.wire = {x}, x.heard = heard
      PROVE  Heard(r.session) = heard
  BY <1>5 DEF Heard
<1> QED
  BY <1>2, <1>3, <1>4, <1>5

-----------------------------------------------------------------------------
(***************************************************************************)
(* Worlds.                                                                 *)
(***************************************************************************)
Worlds == [session : Session, extended : SUBSET Targets, uds : UdsState, core : Core]

\* The action has sent a functional request.
Broadcasts(w) == \E x \in w.session.wire : x.meant = Functional

\* What holds between two operations of an action on an initialised core.
Good(w) ==
  /\ w \in Worlds
  /\ Sound(w.session)
  /\ Broadcasts(w) => w.uds.status = "Inactive"

\* Where an operation that enters no session may lead: no ECU is switched, a
\* session that was left leaves the engine ECU in its default session, and an
\* inactive one stays inactive.
Follows(w, v) ==
  /\ Good(v)
  /\ v.extended \subseteq w.extended
  /\ w.uds.status = "Inactive" => v.uds.status = "Inactive"
  /\ w.uds.status # "Inactive" /\ v.uds.status = "Inactive" => Engine \notin v.extended
  /\ v.core.initialized = w.core.initialized

LEMMA FollowsItself ==
  ASSUME NEW w, Good(w)
  PROVE  Follows(w, w)
BY DEF Follows

LEMMA FollowsOn ==
  ASSUME NEW w, NEW u, NEW v, Follows(w, u), Follows(u, v)
  PROVE  Follows(w, v)
BY DEF Follows

\* Another session in the same world.
LEMMA OtherSession ==
  ASSUME NEW w \in Worlds, NEW s \in Session
  PROVE  LET v == [w EXCEPT !.session = s]
         IN  /\ v \in Worlds /\ v.session = s
             /\ v.extended = w.extended /\ v.uds = w.uds /\ v.core = w.core
BY DEF Worlds

\* An operation of the ELM session that broadcasts only while the session is
\* inactive.
LEMMA SessionFollows ==
  ASSUME NEW w, Good(w), NEW s, Sound(s),
         \/ w.uds.status = "Inactive"
         \/ \E t \in Targets : OnlyFor(t, w.session, s)
  PROVE  Follows(w, [w EXCEPT !.session = s])
<1> DEFINE v == [w EXCEPT !.session = s]
<1>1. w \in Worlds /\ s \in Session
  BY DEF Good, Sound
<1>2. /\ v \in Worlds /\ v.session = s
      /\ v.extended = w.extended /\ v.uds = w.uds /\ v.core = w.core
  BY <1>1, OtherSession
<1>3. Broadcasts(v) => w.uds.status = "Inactive"
  BY <1>2, ElmAssumption DEF Good, Broadcasts, OnlyFor
<1> HIDE DEF v
<1>4. Follows(w, v)
  BY <1>2, <1>3 DEF Follows, Good
<1> QED
  BY <1>4 DEF v

LEMMA LiftFollows ==
  ASSUME NEW w, Good(w), NEW rs, NEW r \in Lift(w, rs),
         \A q \in rs : /\ Sound(q.session)
                       /\ \/ w.uds.status = "Inactive"
                          \/ \E t \in Targets : OnlyFor(t, w.session, q.session)
  PROVE  /\ Follows(w, r.world)
         /\ r.world.uds = w.uds /\ r.world.core = w.core
<1>1. PICK q \in rs : r.world = [w EXCEPT !.session = q.session]
  BY DEF Lift, Result
<1>2. w \in Worlds /\ q.session \in Session
  BY DEF Good, Sound
<1> QED
  BY <1>1, <1>2, SessionFollows, OtherSession

LEMMA BeliefType ==
  ASSUME NEW status \in {"Inactive", "Active", "Indeterminate"}, NEW authorized \in BOOLEAN
  PROVE  Belief(status, authorized) \in UdsState /\ Belief(status, authorized).status = status
<1>1. 0 \in 0 .. Limit /\ 0 \in 0 .. Interval
  BY UdsAssumption
<1> QED
  BY <1>1 DEF Belief, UdsState

LEMMA OtherBelief ==
  ASSUME NEW w \in Worlds, NEW b \in UdsState
  PROVE  LET v == [w EXCEPT !.uds = b]
         IN  /\ v \in Worlds /\ v.uds = b
             /\ v.extended = w.extended /\ v.session = w.session /\ v.core = w.core
BY DEF Worlds

LEMMA Marked ==
  ASSUME NEW w \in Worlds
  PROVE  /\ MarkInactive(w) \in Worlds /\ MarkInactive(w).uds.status = "Inactive"
         /\ MarkInactive(w).session = w.session /\ MarkInactive(w).core = w.core
         /\ MarkInactive(w).extended = w.extended
         /\ MarkIndeterminate(w) \in Worlds /\ MarkIndeterminate(w).uds.status = "Indeterminate"
         /\ MarkIndeterminate(w).session = w.session /\ MarkIndeterminate(w).core = w.core
         /\ MarkIndeterminate(w).extended = w.extended
<1>1. Belief("Inactive", FALSE) \in UdsState /\ Belief("Inactive", FALSE).status = "Inactive"
  BY BeliefType
<1>2. /\ Belief("Indeterminate", FALSE) \in UdsState
      /\ Belief("Indeterminate", FALSE).status = "Indeterminate"
  BY BeliefType
<1> QED
  BY <1>1, <1>2, OtherBelief DEF MarkInactive, MarkIndeterminate

-----------------------------------------------------------------------------
(***************************************************************************)
(* The extended session.                                                   *)
(***************************************************************************)
\* The engine ECU is remembered although the adapter was reset since.
Loose(w) == w.session.configured = Engine /\ w.session.fresh /\ w.session.dirty

\* A session command changes the wire and the ECUs that heard it.
LEMMA SendTells ==
  ASSUME NEW w \in Worlds, Sound(w.session), NEW command \in {"enter", "leave", "present"},
         NEW r \in Send(w, command)
  PROVE  /\ r.world \in Worlds /\ Sound(r.world.session)
         /\ r.world.uds = w.uds /\ r.world.core = w.core
         /\ ~Broadcasts(w) => ~Broadcasts(r.world)
         /\ \E heard \in SUBSET Targets :
              /\ r.world.extended = CASE command = "enter" -> w.extended \cup heard
                                      [] command = "leave" -> w.extended \ heard
                                      [] OTHER -> w.extended
              /\ heard \subseteq {Engine} \/ Loose(w)
              /\ Ok(r) /\ command # "present" => Engine \in heard
              /\ r.reply = "refused" => Engine \notin heard \/ (AnswersPending /\ command = "enter")
<1> DEFINE s == [w.session EXCEPT !.wire = {}]
           Merged(u) == [u EXCEPT !.wire = u.wire \cup w.session.wire]
           ext(heard) == CASE command = "enter" -> w.extended \cup heard
                           [] command = "leave" -> w.extended \ heard
                           [] OTHER -> w.extended
<1>1. w.session \in Session /\ Engine \in Targets /\ Engine # Functional
  BY ElmAssumption, UdsAssumption DEF Sound
<1>2. /\ Sound(s) /\ s.wire = {} /\ s.configured = w.session.configured
      /\ s.fresh = w.session.fresh /\ s.dirty = w.session.dirty
  BY <1>1 DEF Sound, Session, Remembers, Clean, Reset, AtTargetOf
<1> HIDE DEF s
<1>3. PICK q \in UdsSessionCommand(s, command, Engine) :
        /\ r.world = [w EXCEPT !.session = Merged(q.session), !.extended = ext(Heard(q.session))]
        /\ r.reply = q.reply
  <2> DEFINE Spoken(q) ==
        LET heard == UNION {x.heard : x \in q.session.wire}
        IN  Result([w EXCEPT !.session = [q.session EXCEPT !.wire = @ \cup w.session.wire],
                             !.extended = CASE command = "enter" -> @ \cup heard
                                            [] command = "leave" -> @ \ heard
                                            [] OTHER -> @],
                   q.reply)
  <2>1. Send(w, command) = {Spoken(q) : q \in UdsSessionCommand(s, command, Engine)}
    BY DEF Send, s
  <2>2. ASSUME NEW q
        PROVE  Spoken(q) = Result([w EXCEPT !.session = Merged(q.session),
                                            !.extended = ext(Heard(q.session))], q.reply)
    BY DEF Result, Heard, Worlds
  <2> HIDE DEF Spoken
  <2>3. PICK q \in UdsSessionCommand(s, command, Engine) : r = Spoken(q)
    BY <2>1
  <2> QED
    BY <2>2, <2>3 DEF Result
<1>4. /\ Sound(q.session)
      /\ \A x \in q.session.wire : x.meant = Engine
      /\ Heard(q.session) \subseteq Targets
      /\ Heard(q.session) \subseteq {Engine} \/ Loose(w)
      /\ Ok(q) /\ command # "present" => Engine \in Heard(q.session)
      /\ q.reply = "refused" => \/ Engine \notin Heard(q.session)
                                \/ (AnswersPending /\ command = "enter")
  <2>1. command \in Request
    BY DEF Request
  <2> QED
    BY <1>1, <1>2, <2>1, UdsSessionCommandSound, CommandHeard DEF Loose
<1> DEFINE m == Merged(q.session)
<1>5. Sound(m) /\ m.wire = q.session.wire \cup w.session.wire
  BY <1>1, <1>4 DEF Sound, Session, Remembers, Clean, Reset, AtTargetOf
<1>6. m \in Session
  BY <1>5 DEF Sound
<1>7. ext(Heard(q.session)) \in SUBSET Targets
  BY <1>4 DEF Worlds
<1> HIDE DEF m
<1>8. /\ r.world \in Worlds /\ r.world.session = m /\ r.world.uds = w.uds
      /\ r.world.core = w.core /\ r.world.extended = ext(Heard(q.session))
  <2> DEFINE e == ext(Heard(q.session))
  <2>1. r.world = [w EXCEPT !.session = m, !.extended = e]
    BY <1>3 DEF m
  <2> HIDE DEF e
  <2>2. e \in SUBSET Targets
    BY <1>7 DEF e
  <2>3. /\ r.world \in Worlds /\ r.world.session = m /\ r.world.uds = w.uds
        /\ r.world.core = w.core /\ r.world.extended = e
    BY <1>6, <2>1, <2>2 DEF Worlds
  <2> QED
    BY <2>3 DEF e
<1>9. ~Broadcasts(w) => ~Broadcasts(r.world)
  BY <1>1, <1>4, <1>5, <1>8 DEF Broadcasts
<1>10. Ok(r) <=> Ok(q)
  BY <1>3 DEF Ok
<1> QED
  BY <1>3, <1>4, <1>5, <1>8, <1>9, <1>10

\* Where leaving the session may lead: it is inactive only if the engine ECU
\* is in its default session.
Left(w, v) ==
  /\ v \in Worlds /\ Sound(v.session) /\ ~Broadcasts(v)
  /\ v.extended \subseteq w.extended /\ v.core = w.core
  /\ v.uds.status \in {"Inactive", "Indeterminate"}
  /\ v.uds.status = "Inactive" => Engine \notin v.extended

LEMMA LeftFollows ==
  ASSUME NEW w, NEW v, w.uds.status # "Inactive", Left(w, v)
  PROVE  Follows(w, v)
BY DEF Left, Follows, Good

LEMMA LeaveTells ==
  ASSUME NEW w \in Worlds, Sound(w.session), ~Broadcasts(w), NEW r \in Leave(w)
  PROVE  Left(w, r.world) /\ (Ok(r) => r.world.uds.status = "Inactive")
<1>1. CASE ~w.uds.authorized
  <2>1. r.world = MarkIndeterminate(w) /\ r.reply = "failed"
    BY <1>1 DEF Leave, Result
  <2> QED
    BY <2>1, Marked DEF Left, Broadcasts, Ok
<1>2. CASE w.uds.authorized
  <2>1. PICK q \in Send(w, "leave") :
          r = IF Ok(q) THEN Result(MarkInactive(q.world), "ok")
                       ELSE Result(MarkIndeterminate(q.world), "failed")
    BY <1>2 DEF Leave
  <2>2. /\ q.world \in Worlds /\ Sound(q.world.session) /\ q.world.core = w.core
        /\ ~Broadcasts(q.world)
        /\ q.world.extended \subseteq w.extended
        /\ Ok(q) => Engine \notin q.world.extended
    <3>1. PICK heard \in SUBSET Targets :
            /\ q.world.extended = w.extended \ heard
            /\ Ok(q) => Engine \in heard
      BY SendTells
    <3> QED
      BY <3>1, SendTells
  <2>3. CASE Ok(q)
    BY <2>1, <2>2, <2>3, Marked DEF Left, Broadcasts, Result, Ok
  <2>4. CASE ~Ok(q)
    BY <2>1, <2>2, <2>4, Marked DEF Left, Broadcasts, Result, Ok
  <2> QED
    BY <2>3, <2>4
<1> QED
  BY <1>1, <1>2

LEMMA CleanupTells ==
  ASSUME NEW w \in Worlds, Sound(w.session), ~Broadcasts(w), NEW r \in CleanupAfterError(w)
  PROVE  Left(w, r.world) /\ ~Ok(r)
<1>1. PICK q \in Leave(w) : r.world = q.world /\ r.reply = "failed"
  BY DEF CleanupAfterError, Result
<1> QED
  BY <1>1, LeaveTells DEF Ok

\* disable.
LEMMA DisableTells ==
  ASSUME NEW w, Good(w), NEW r \in Disable(w)
  PROVE  /\ Follows(w, r.world) /\ r.world.core = w.core
         /\ ~Active(r.world)
         /\ Ok(r) => r.world.uds.status = "Inactive"
         /\ ~Active(w) => r.world = w
         /\ w.uds.status = "Indeterminate" => ~Ok(r)
<1>1. w.uds.status \in {"Inactive", "Active", "Indeterminate"}
  BY DEF Good, Worlds, UdsState
<1>2. CASE w.uds.status = "Inactive"
  BY <1>2, FollowsItself DEF Disable, Result, Ok, Active
<1>3. CASE w.uds.status = "Indeterminate"
  BY <1>3, FollowsItself DEF Disable, Result, Ok, Active
<1>4. CASE w.uds.status = "Active"
  <2>1. r \in Leave(w) /\ ~Broadcasts(w) /\ w \in Worlds /\ Sound(w.session)
    BY <1>4 DEF Disable, Good
  <2>2. Left(w, r.world) /\ (Ok(r) => r.world.uds.status = "Inactive")
    BY <2>1, LeaveTells
  <2> QED
    BY <1>4, <2>2, LeftFollows DEF Left, Active
<1> QED
  BY <1>1, <1>2, <1>3, <1>4

\* A tester present was sent.
LEMMA Present ==
  ASSUME NEW w \in Worlds
  PROVE  LET v == [w EXCEPT !.uds.quiet = 0]
         IN  /\ v \in Worlds /\ v.uds.status = w.uds.status
             /\ v.extended = w.extended /\ v.session = w.session /\ v.core = w.core
<1>1. 0 \in 0 .. Interval
  BY UdsAssumption
<1> QED
  BY <1>1 DEF Worlds, UdsState

\* tick.
LEMMA TickTells ==
  ASSUME NEW w, Good(w), NEW r \in Tick(w)
  PROVE  /\ Follows(w, r.world) /\ r.world.core = w.core
         /\ ~Active(w) => r.world = w
<1>1. CASE ~Active(w)
  BY <1>1, FollowsItself DEF Tick, Result
<1>2. CASE Active(w)
  <2>1. /\ w \in Worlds /\ Sound(w.session) /\ ~Broadcasts(w)
        /\ w.uds.status = "Active" /\ w.uds.status # "Inactive"
    BY <1>2 DEF Good, Active
  <2>2. \/ r \in Leave(w)
        \/ r = Result(w, "ok")
        \/ r \in CleanupAfterError(w)
        \/ \E q \in Send(w, "present") : \/ r = Result([q.world EXCEPT !.uds.quiet = 0], "ok")
                                         \/ r \in CleanupAfterError(q.world)
    BY <1>2 DEF Tick
  <2>3. CASE r \in Leave(w)
    BY <2>1, <2>3, LeaveTells, LeftFollows, <1>2 DEF Left
  <2>4. CASE r = Result(w, "ok")
    BY <2>4, <1>2, FollowsItself DEF Result
  <2>5. CASE r \in CleanupAfterError(w)
    BY <2>1, <2>5, CleanupTells, LeftFollows, <1>2 DEF Left
  <2>6. ASSUME NEW q \in Send(w, "present"),
               \/ r = Result([q.world EXCEPT !.uds.quiet = 0], "ok")
               \/ r \in CleanupAfterError(q.world)
        PROVE  Follows(w, r.world) /\ r.world.core = w.core
    <3>1. /\ q.world \in Worlds /\ Sound(q.world.session) /\ q.world.core = w.core
          /\ q.world.uds = w.uds /\ ~Broadcasts(q.world)
          /\ q.world.extended = w.extended
      BY <2>1, SendTells
    <3>2. Follows(w, q.world)
      BY <2>1, <3>1 DEF Follows, Good
    <3>3. CASE r = Result([q.world EXCEPT !.uds.quiet = 0], "ok")
      <4> DEFINE v == [q.world EXCEPT !.uds.quiet = 0]
      <4>1. /\ v \in Worlds /\ v.uds.status = q.world.uds.status
            /\ v.extended = q.world.extended /\ v.session = q.world.session
            /\ v.core = q.world.core
        BY <3>1, Present
      <4>2. r.world = v
        BY <3>3 DEF Result
      <4> HIDE DEF v
      <4> QED
        BY <2>1, <3>1, <4>1, <4>2 DEF Follows, Good, Broadcasts
    <3>4. CASE r \in CleanupAfterError(q.world)
      <4>1. Left(q.world, r.world)
        BY <3>1, <3>4, CleanupTells
      <4>2. Follows(q.world, r.world)
        BY <2>1, <3>1, <4>1, LeftFollows
      <4> QED
        BY <3>1, <3>2, <4>1, <4>2, FollowsOn DEF Left
    <3> QED
      BY <2>6, <3>3, <3>4
  <2> QED
    BY <1>2, <2>2, <2>3, <2>4, <2>5, <2>6
<1> QED
  BY <1>1, <1>2


-----------------------------------------------------------------------------
(***************************************************************************)
(* The core's helpers.                                                     *)
(***************************************************************************)
\* restore_functional_addressing sends no request.
LEMMA RestoreAddressingWire ==
  ASSUME NEW s, Sound(s), NEW r \in RestoreFunctionalAddressing(s)
  PROVE  r.session.wire = s.wire
<1> DEFINE d == [s EXCEPT !.dirty = TRUE]
           f == [d EXCEPT !.configured = None]
<1>1. [s EXCEPT !.configured = None, !.dirty = TRUE] = f
  BY DEF Sound, Session
<1>2. Sound(d) /\ d.dirty /\ d.wire = s.wire
  BY DirtySound
<1> HIDE DEF d
<1>3. Sound(f) /\ f.dirty /\ f.configured = None /\ f.wire = s.wire
  BY <1>2, ForgottenSound
<1>4. r \in RestoreFunctional(f)
  BY <1>1 DEF RestoreFunctionalAddressing
<1> HIDE DEF f
<1> QED
  BY <1>3, <1>4, RestoreFunctionalSound DEF Keeps

LEMMA RestoreTells ==
  ASSUME NEW w, Good(w), NEW r \in RestoreAddressing(w)
  PROVE  /\ Follows(w, r.world)
         /\ r.world.uds = w.uds /\ r.world.core = w.core
<1> DEFINE rs == RestoreFunctionalAddressing(w.session)
<1>1. Sound(w.session) /\ Engine \in Targets
  BY UdsAssumption DEF Good
<1>2. \A q \in rs : Sound(q.session) /\ OnlyFor(Engine, w.session, q.session)
  BY <1>1, RestoreAddressingSound, RestoreAddressingWire DEF OnlyFor
<1>3. r \in Lift(w, rs)
  BY DEF RestoreAddressing
<1> HIDE DEF rs
<1> QED
  BY <1>1, <1>2, <1>3, LiftFollows

LEMMA RestoringTells ==
  ASSUME NEW w, NEW rs, NEW r \in Restoring(w, rs)
  PROVE  \E q \in rs :
           \/ r = q
           \/ /\ Active(w) /\ (Ok(r) => Ok(q))
              /\ \E x \in RestoreAddressing(q.world) : r.world = x.world
<1>1. PICK q \in rs :
        r \in IF Active(w) /\ q.world.uds.status = "Inactive"
              THEN {Result(x.world, IF Ok(q) THEN x.reply ELSE "failed") :
                      x \in RestoreAddressing(q.world)}
              ELSE {q}
  BY DEF Restoring
<1>2. CASE Active(w) /\ q.world.uds.status = "Inactive"
  <2>1. PICK x \in RestoreAddressing(q.world) :
          r = Result(x.world, IF Ok(q) THEN x.reply ELSE "failed")
    BY <1>1, <1>2
  <2> QED
    BY <1>2, <2>1 DEF Result, Ok
<1> QED
  BY <1>1, <1>2

\* disable_uds: the session is inactive after a success and never active.
LEMMA DisableUdsTells ==
  ASSUME NEW w, Good(w), NEW r \in DisableUds(w)
  PROVE  /\ Follows(w, r.world) /\ r.world.core = w.core
         /\ ~Active(r.world)
         /\ Ok(r) => r.world.uds.status = "Inactive"
         /\ ~Active(w) => r.world = w
         /\ w.uds.status = "Indeterminate" => ~Ok(r)
<1>1. PICK q \in Disable(w) :
        \/ r = q
        \/ /\ Active(w) /\ (Ok(r) => Ok(q))
           /\ \E x \in RestoreAddressing(q.world) : r.world = x.world
  BY RestoringTells DEF DisableUds
<1>2. /\ Follows(w, q.world) /\ q.world.core = w.core
      /\ ~Active(q.world)
      /\ Ok(q) => q.world.uds.status = "Inactive"
      /\ ~Active(w) => q.world = w
      /\ w.uds.status = "Indeterminate" => ~Ok(q)
  BY DisableTells
<1>3. ASSUME NEW x \in RestoreAddressing(q.world), r.world = x.world
      PROVE  /\ Follows(w, r.world) /\ r.world.core = w.core
             /\ r.world.uds = q.world.uds
  <2>1. /\ Follows(q.world, x.world)
        /\ x.world.uds = q.world.uds /\ x.world.core = q.world.core
    BY <1>2, RestoreTells DEF Follows
  <2> QED
    BY <1>2, <1>3, <2>1, FollowsOn
<1> QED
  BY <1>1, <1>2, <1>3 DEF Active

\* uds.tick.
LEMMA TickUdsTells ==
  ASSUME NEW w, Good(w), NEW r \in TickUds(w)
  PROVE  /\ Follows(w, r.world) /\ r.world.core = w.core
         /\ ~Active(w) => r.world = w
<1>1. PICK q \in Tick(w) :
        \/ r = q
        \/ /\ Active(w) /\ (Ok(r) => Ok(q))
           /\ \E x \in RestoreAddressing(q.world) : r.world = x.world
  BY RestoringTells DEF TickUds
<1>2. /\ Follows(w, q.world) /\ q.world.core = w.core
      /\ ~Active(w) => q.world = w
  BY TickTells
<1>3. ASSUME NEW x \in RestoreAddressing(q.world), r.world = x.world
      PROVE  Follows(w, r.world) /\ r.world.core = w.core
  <2>1. Follows(q.world, x.world) /\ x.world.core = q.world.core
    BY <1>2, RestoreTells DEF Follows
  <2> QED
    BY <1>2, <1>3, <2>1, FollowsOn
<1> QED
  BY <1>1, <1>2, <1>3

\* A functional request, once the session is inactive.
LEMMA FunctionalFollows ==
  ASSUME NEW w, Good(w), w.uds.status = "Inactive", NEW r,
         \/ r \in Lift(w, FunctionalRead(w.session))
         \/ r \in Lift(w, Identify(w.session))
         \/ \E pid \in Pids : r \in Lift(w, ReadWithEvidence(w.session, pid))
  PROVE  Follows(w, r.world) /\ r.world.uds = w.uds /\ r.world.core = w.core
<1>1. Sound(w.session)
  BY DEF Good
<1>2. CASE r \in Lift(w, FunctionalRead(w.session))
  BY <1>1, <1>2, FunctionalReadSound, LiftFollows
<1>3. CASE r \in Lift(w, Identify(w.session))
  BY <1>1, <1>3, IdentifySound, LiftFollows
<1>4. ASSUME NEW pid \in Pids, r \in Lift(w, ReadWithEvidence(w.session, pid))
      PROVE  Follows(w, r.world) /\ r.world.uds = w.uds /\ r.world.core = w.core
  BY <1>1, <1>4, ReadWithEvidenceSound, LiftFollows
<1> QED
  BY <1>2, <1>3, <1>4

\* A targeted read, whatever the session.
LEMMA TargetedFollows ==
  ASSUME NEW w, Good(w), NEW t \in Targets, NEW r,
         \/ r \in Lift(w, ReadTargeted(w.session, t))
         \/ r \in Lift(w, ReadOnce(w.session, t))
  PROVE  Follows(w, r.world) /\ r.world.uds = w.uds /\ r.world.core = w.core
<1>1. Sound(w.session)
  BY DEF Good
<1>2. CASE r \in Lift(w, ReadTargeted(w.session, t))
  <2>1. \A q \in ReadTargeted(w.session, t) :
          Sound(q.session) /\ OnlyFor(t, w.session, q.session)
    BY <1>1, ReadTargetedSound, ReadTargetedWire
  <2> QED
    BY <1>2, <2>1, LiftFollows
<1>3. CASE r \in Lift(w, ReadOnce(w.session, t))
  <2>1. \A q \in ReadOnce(w.session, t) :
          Sound(q.session) /\ OnlyFor(t, w.session, q.session)
    BY <1>1, ReadOnceSound, ReadOnceWire
  <2> QED
    BY <1>3, <2>1, LiftFollows
<1> QED
  BY <1>2, <1>3

LEMMA ReadDidTells ==
  ASSUME NEW w, Good(w), NEW t \in Targets, NEW r \in ReadDid(w, t)
  PROVE  Follows(w, r.world) /\ r.world.uds = w.uds /\ r.world.core = w.core
BY TargetedFollows DEF ReadDid

-----------------------------------------------------------------------------
(***************************************************************************)
(* The actions that neither initialise the adapter nor enter the extended  *)
(* session.                                                                *)
(***************************************************************************)
\* Nothing happens while the session is indeterminate.
Obeys(w, v) == Follows(w, v) /\ (w.uds.status = "Indeterminate" => v = w)

\* The actions that end the session first.
LEMMA AfterDisable ==
  ASSUME NEW w, Good(w), NEW q \in DisableUds(w), NEW v,
         v = q.world \/ (Ok(q) /\ Follows(q.world, v))
  PROVE  Obeys(w, v)
<1>1. /\ Follows(w, q.world)
      /\ w.uds.status = "Indeterminate" => q.world = w /\ ~Ok(q)
  BY DisableUdsTells DEF Active
<1> QED
  BY <1>1, FollowsOn DEF Obeys

LEMMA FailTells ==
  ASSUME NEW w, Good(w), NEW r \in Fail(w)
  PROVE  Obeys(w, r.world) /\ r.world = w /\ ~Ok(r)
BY FollowsItself DEF Fail, Result, Obeys, Ok

LEMMA ReadCatalogTells ==
  ASSUME NEW w, Good(w), NEW pid \in Pids, NEW r \in ReadCatalog(w, pid)
  PROVE  Obeys(w, r.world)
<1> DEFINE Body(v) == IF ~v.core.engine THEN Lift(v, ReadWithEvidence(v.session, pid))
                      ELSE IF pid \in v.session.supported
                      THEN Lift(v, ReadTargeted(v.session, Engine))
                      ELSE Fail(v)
<1>1. r \in Then(DisableUds(w), Body)
  BY DEF ReadCatalog
<1> HIDE DEF Body
<1>2. PICK q \in DisableUds(w) : r = q \/ (Ok(q) /\ r \in Body(q.world))
  BY <1>1 DEF Then
<1>3. CASE Ok(q) /\ r \in Body(q.world)
  <2>1. Good(q.world) /\ q.world.uds.status = "Inactive" /\ Engine \in Targets
    BY <1>3, DisableUdsTells, UdsAssumption DEF Follows
  <2>2. \/ r \in Lift(q.world, ReadWithEvidence(q.world.session, pid))
        \/ r \in Lift(q.world, ReadTargeted(q.world.session, Engine))
        \/ r \in Fail(q.world)
    BY <1>3 DEF Body
  <2>3. Follows(q.world, r.world)
    BY <2>1, <2>2, FunctionalFollows, TargetedFollows, FailTells DEF Obeys
  <2> QED
    BY <1>3, <2>3, AfterDisable
<1> QED
  BY <1>2, <1>3, AfterDisable

\* The rest of a Knowledge read: the session is left when the value is not
\* available.
LEMMA KnowledgeValueTells ==
  ASSUME NEW v, Good(v), NEW t \in Targets, NEW q \in ReadDid(v, t), NEW r,
         \/ r = q
         \/ r \in {Result(x.world, "ok") :
                     x \in IF Active(q.world) THEN DisableUds(q.world) ELSE {q}}
  PROVE  Follows(v, r.world)
<1>1. Follows(v, q.world) /\ Good(q.world)
  BY ReadDidTells DEF Follows
<1>2. CASE r \in {Result(x.world, "ok") :
                    x \in IF Active(q.world) THEN DisableUds(q.world) ELSE {q}}
  <2>1. PICK x \in IF Active(q.world) THEN DisableUds(q.world) ELSE {q} : r.world = x.world
    BY <1>2 DEF Result
  <2>2. x = q \/ x \in DisableUds(q.world)
    BY <2>1
  <2> QED
    BY <1>1, <2>1, <2>2, DisableUdsTells, FollowsOn
<1> QED
  BY <1>1, <1>2

LEMMA ReadKnowledgeTells ==
  ASSUME NEW w, Good(w), NEW t \in Targets, NEW r \in ReadKnowledge(w, t)
  PROVE  Obeys(w, r.world)
<1> DEFINE rs == IF Active(w) /\ t = Engine THEN TickUds(w) ELSE DisableUds(w)
           Body(v) ==
             UNION {(IF Ok(q) THEN {q} ELSE {}) \cup
                    {Result(x.world, "ok") :
                       x \in IF Active(q.world) THEN DisableUds(q.world) ELSE {q}}
                    : q \in ReadDid(v, t)}
<1>1. r \in Fail(w) \/ r \in Then(rs, Body)
  BY DEF ReadKnowledge
<1>2. ASSUME NEW v, Good(v), NEW x \in Body(v)
      PROVE  Follows(v, x.world)
  <2>1. PICK q \in ReadDid(v, t) :
          \/ x = q
          \/ x \in {Result(y.world, "ok") :
                      y \in IF Active(q.world) THEN DisableUds(q.world) ELSE {q}}
    BY <1>2
  <2> QED
    BY <1>2, <2>1, KnowledgeValueTells
<1>3. ASSUME NEW q \in rs
      PROVE  /\ Follows(w, q.world)
             /\ w.uds.status = "Indeterminate" => q.world = w /\ ~Ok(q)
  <2>1. CASE Active(w) /\ t = Engine
    BY <1>3, <2>1, TickUdsTells DEF Active
  <2>2. CASE ~(Active(w) /\ t = Engine)
    BY <1>3, <2>2, DisableUdsTells DEF Active
  <2> QED
    BY <2>1, <2>2
<1> HIDE DEF Body, rs
<1>4. CASE r \in Then(rs, Body)
  <2>1. PICK q \in rs : r = q \/ (Ok(q) /\ r \in Body(q.world))
    BY <1>4 DEF Then
  <2>2. Follows(w, q.world) /\ (w.uds.status = "Indeterminate" => q.world = w /\ ~Ok(q))
    BY <1>3
  <2>3. r \in Body(q.world) => Follows(q.world, r.world)
    BY <1>2, <2>2 DEF Follows
  <2> QED
    BY <2>1, <2>2, <2>3, FollowsOn DEF Obeys
<1> QED
  BY <1>1, <1>4, FailTells

\* The time that passes before a session-flagged read.
LEMMA Aged ==
  ASSUME NEW w, Good(w), NEW age \in w.uds.age .. Limit
  PROVE  LET v == [w EXCEPT !.uds.age = age]
         IN  Follows(w, v) /\ v.core = w.core
<1> DEFINE b == [w.uds EXCEPT !.age = age]
           v == [w EXCEPT !.uds = b]
<1>1. w \in Worlds /\ w.uds \in UdsState
  BY DEF Good, Worlds
<1>2. age \in 0 .. Limit
  BY <1>1, UdsAssumption DEF UdsState
<1>3. b \in UdsState /\ b.status = w.uds.status
  BY <1>1, <1>2 DEF UdsState
<1>4. [w EXCEPT !.uds.age = age] = v
  OBVIOUS
<1> HIDE DEF b
<1>5. /\ v \in Worlds /\ v.uds = b
      /\ v.extended = w.extended /\ v.session = w.session /\ v.core = w.core
  BY <1>1, <1>3, OtherBelief
<1> HIDE DEF v
<1>6. Follows(w, v) /\ v.core = w.core
  BY <1>3, <1>5 DEF Follows, Good, Broadcasts
<1> QED
  BY <1>4, <1>6

\* A read of a session-flagged definition in the session.
LEMMA ReadTells ==
  ASSUME NEW w, Good(w), NEW r \in Read(w)
  PROVE  Follows(w, r.world) /\ r.world.core = w.core
<1>1. CASE r.world = w
  BY <1>1, FollowsItself
<1>2. ASSUME Active(w), NEW q \in Leave(w), r.world = q.world
      PROVE  Follows(w, r.world) /\ r.world.core = w.core
  <2>1. Left(w, q.world) /\ w.uds.status # "Inactive"
    BY <1>2, LeaveTells DEF Good, Active
  <2> QED
    BY <1>2, <2>1, LeftFollows DEF Left
<1>3. ASSUME Active(w), NEW q \in ReadOnce(w.session, Engine),
             \/ r \in CleanupAfterError([w EXCEPT !.session = q.session])
             \/ r.world = [w EXCEPT !.session = q.session]
      PROVE  Follows(w, r.world) /\ r.world.core = w.core
  <2> DEFINE v == [w EXCEPT !.session = q.session]
  <2>1. Engine \in Targets /\ w \in Worlds /\ Sound(w.session)
    BY UdsAssumption DEF Good
  <2>2. Sound(q.session) /\ OnlyFor(Engine, w.session, q.session) /\ q.session \in Session
    BY <1>3, <2>1, ReadOnceSound, ReadOnceWire DEF Sound
  <2>3. Follows(w, v) /\ v.core = w.core /\ v.uds = w.uds
    BY <2>1, <2>2, SessionFollows, OtherSession
  <2>4. v \in Worlds /\ Sound(v.session) /\ ~Broadcasts(v) /\ v.uds.status # "Inactive"
    BY <1>3, <2>3 DEF Follows, Good, Active
  <2> HIDE DEF v
  <2>5. CASE r \in CleanupAfterError(v)
    <3>1. Left(v, r.world)
      BY <2>4, <2>5, CleanupTells
    <3> QED
      BY <2>3, <2>4, <3>1, LeftFollows, FollowsOn DEF Left
  <2> QED
    BY <1>3, <2>3, <2>5 DEF v
<1>4. \/ r.world = w
      \/ Active(w) /\ \E q \in Leave(w) : r.world = q.world
      \/ /\ Active(w)
         /\ \E q \in ReadOnce(w.session, Engine) :
              \/ r \in CleanupAfterError([w EXCEPT !.session = q.session])
              \/ r.world = [w EXCEPT !.session = q.session]
  <2>1. CASE ~Active(w)
    BY <2>1 DEF Read, Result
  <2>2. CASE Active(w) /\ w.uds.age >= Limit
    BY <2>2 DEF Read, Result
  <2>3. CASE Active(w) /\ ~(w.uds.age >= Limit)
    <3>1. PICK q \in ReadOnce(w.session, Engine) :
            LET v == [w EXCEPT !.session = q.session]
            IN  r \in CleanupAfterError(v) \cup (IF Ok(q) THEN {Result(v, "ok")} ELSE {})
      BY <2>3 DEF Read
    <3> QED
      BY <2>3, <3>1 DEF Result
  <2> QED
    BY <2>1, <2>2, <2>3
<1> QED
  BY <1>1, <1>2, <1>3, <1>4

LEMMA ReadExtendedTells ==
  ASSUME NEW w, Good(w), NEW r \in ReadExtended(w)
  PROVE  Obeys(w, r.world)
<1> DEFINE Old(u, age) == [u EXCEPT !.uds.age = age]
           Ends(q) == IF Active(q.world) THEN {q} \cup DisableUds(q.world)
                      ELSE IF q.world.uds.status = "Inactive"
                      THEN {Result(x.world, "ok") : x \in RestoreAddressing(q.world)}
                      ELSE {Result(q.world, "ok")}
           Body(u) == IF ~Active(u) THEN Fail(u)
                      ELSE UNION {UNION {Ends(q) : q \in Read(Old(u, age))}
                                  : age \in u.uds.age .. Limit}
<1>1. \/ r \in Fail(w)
      \/ Active(w) /\ r \in Then(TickUds(w), Body)
  BY DEF ReadExtended
<1>2. ASSUME NEW q, Good(q.world), NEW x \in Ends(q)
      PROVE  Follows(q.world, x.world)
  <2>1. CASE Active(q.world)
    BY <1>2, <2>1, DisableUdsTells, FollowsItself
  <2>2. CASE ~Active(q.world) /\ q.world.uds.status = "Inactive"
    <3>1. PICK y \in RestoreAddressing(q.world) : x.world = y.world
      BY <1>2, <2>2 DEF Result
    <3> QED
      BY <1>2, <3>1, RestoreTells
  <2>3. CASE ~Active(q.world) /\ q.world.uds.status # "Inactive"
    BY <1>2, <2>3, FollowsItself DEF Result
  <2> QED
    BY <2>1, <2>2, <2>3
<1>3. ASSUME NEW u, Good(u), NEW x \in Body(u)
      PROVE  Follows(u, x.world)
  <2> HIDE DEF Ends, Old
  <2>1. CASE ~Active(u)
    BY <1>3, <2>1, FailTells DEF Obeys
  <2>2. CASE Active(u)
    <3>0. PICK age \in u.uds.age .. Limit : x \in UNION {Ends(q) : q \in Read(Old(u, age))}
      BY <1>3, <2>2
    <3>1. PICK q \in Read(Old(u, age)) : x \in Ends(q)
      BY <3>0
    <3>2. Follows(u, Old(u, age))
      BY <1>3, Aged DEF Old
    <3>3. Follows(Old(u, age), q.world)
      BY <3>1, <3>2, ReadTells DEF Follows
    <3>4. Follows(q.world, x.world)
      BY <1>2, <3>1, <3>3 DEF Follows
    <3> QED
      BY <3>2, <3>3, <3>4, FollowsOn
  <2> QED
    BY <2>1, <2>2
<1> HIDE DEF Body
<1>4. CASE Active(w) /\ r \in Then(TickUds(w), Body)
  <2>1. PICK q \in TickUds(w) : r = q \/ r \in Body(q.world)
    BY <1>4 DEF Then
  <2>2. Follows(w, q.world)
    BY TickUdsTells
  <2>3. Follows(w, r.world)
    BY <1>3, <2>1, <2>2, FollowsOn DEF Follows
  <2> QED
    BY <1>4, <2>3 DEF Obeys, Active
<1> QED
  BY <1>1, <1>4, FailTells

LEMMA ScanDtcsTells ==
  ASSUME NEW w, Good(w), NEW r \in ScanDtcs(w)
  PROVE  Obeys(w, r.world)
<1> DEFINE Body(v) == Lift(v, FunctionalRead(v.session))
<1>1. r \in Then(DisableUds(w), Body)
  BY DEF ScanDtcs
<1> HIDE DEF Body
<1>2. PICK q \in DisableUds(w) : r = q \/ (Ok(q) /\ r \in Body(q.world))
  BY <1>1 DEF Then
<1>3. CASE Ok(q) /\ r \in Body(q.world)
  <2>1. Good(q.world) /\ q.world.uds.status = "Inactive"
    BY <1>3, DisableUdsTells DEF Follows
  <2>2. Follows(q.world, r.world)
    BY <1>3, <2>1, FunctionalFollows DEF Body
  <2> QED
    BY <1>3, <2>2, AfterDisable
<1> QED
  BY <1>2, <1>3, AfterDisable

LEMMA AdapterThroughputTells ==
  ASSUME NEW w, Good(w), NEW r \in AdapterThroughput(w)
  PROVE  Obeys(w, r.world)
<1> DEFINE Body(u) == IF ~u.core.engine \/ u.session.supported = {} THEN Fail(u)
                      ELSE UNION {{Result(x.world, "ok") :
                                     x \in Lift(p.world, ReadOnce(p.world.session, Engine))}
                                  : p \in Lift(u, ReadTargeted(u.session, Engine))}
<1>1. r \in Then(DisableUds(w), Body)
  BY DEF AdapterThroughput
<1>2. ASSUME NEW u, Good(u), r \in Body(u)
      PROVE  Follows(u, r.world)
  <2>0. Engine \in Targets
    BY UdsAssumption
  <2>1. CASE r \in Fail(u)
    BY <1>2, <2>1, FailTells DEF Obeys
  <2>2. ASSUME NEW p \in Lift(u, ReadTargeted(u.session, Engine)),
               NEW x \in Lift(p.world, ReadOnce(p.world.session, Engine)), r.world = x.world
        PROVE  Follows(u, r.world)
    <3>1. Follows(u, p.world) /\ Good(p.world)
      BY <1>2, <2>0, TargetedFollows DEF Follows
    <3>2. Follows(p.world, x.world)
      BY <2>0, <3>1, TargetedFollows
    <3> QED
      BY <2>2, <3>1, <3>2, FollowsOn
  <2> QED
    BY <1>2, <2>1, <2>2 DEF Result
<1> HIDE DEF Body
<1>3. PICK q \in DisableUds(w) : r = q \/ (Ok(q) /\ r \in Body(q.world))
  BY <1>1 DEF Then
<1>4. Good(q.world)
  BY DisableUdsTells DEF Follows
<1> QED
  BY <1>2, <1>3, <1>4, AfterDisable

\* Other fields of the core.
LEMMA OtherCore ==
  ASSUME NEW w \in Worlds, NEW c \in Core
  PROVE  LET v == [w EXCEPT !.core = c]
         IN  /\ v \in Worlds /\ v.core = c
             /\ v.extended = w.extended /\ v.session = w.session /\ v.uds = w.uds
BY DEF Worlds

LEMMA CoreFollows ==
  ASSUME NEW w, Good(w), NEW c \in Core, c.initialized = w.core.initialized
  PROVE  Follows(w, [w EXCEPT !.core = c])
<1> DEFINE v == [w EXCEPT !.core = c]
<1>1. /\ v \in Worlds /\ v.core = c
      /\ v.extended = w.extended /\ v.session = w.session /\ v.uds = w.uds
  BY OtherCore DEF Good
<1> HIDE DEF v
<1>2. Follows(w, v)
  BY <1>1 DEF Follows, Good, Broadcasts
<1> QED
  BY <1>2 DEF v

LEMMA InventoryTells ==
  ASSUME NEW w, Good(w), NEW r \in Inventory(w)
  PROVE  Obeys(w, r.world)
<1> DEFINE Fresh(u) == [u EXCEPT !.core.engine = FALSE, !.core.knowledge = None]
           Once(v) == Identify(v.session)
           Twice(v) == {q \in Once(v) : q.reply # "malformed"} \cup
                       UNION {Identify(q.session) : q \in {x \in Once(v) : x.reply = "malformed"}}
           Named(v) == UNION {{[v EXCEPT !.session = q.session, !.core.manufacturer = known] :
                                 known \in IF Ok(q) THEN BOOLEAN ELSE {w.core.manufacturer}}
                              : q \in Twice(v)}
           Validated(x) == {Result([q.world EXCEPT !.core.engine = Ok(q)], "ok") :
                              q \in Lift(x, ReadTargeted(x.session, Engine))}
           Body(u) == {Result(x, "ok") : x \in Named(Fresh(u))} \cup
                      UNION {Validated(x) : x \in Named(Fresh(u))}
<1>0. Engine \in Targets /\ w.core \in Core /\ w.core.manufacturer \in BOOLEAN
  BY UdsAssumption DEF Good, Worlds, Core
<1>1. r \in Then(DisableUds(w), Body)
  BY DEF Inventory
<1>2. ASSUME NEW u, Good(u)
      PROVE  Follows(u, Fresh(u)) /\ Fresh(u).uds = u.uds
  <2> DEFINE c == [u.core EXCEPT !.engine = FALSE]
             d == [c EXCEPT !.knowledge = None]
  <2>1. u \in Worlds /\ u.core \in Core
    BY <1>2 DEF Good, Worlds
  <2>2. d \in Core /\ d.initialized = u.core.initialized
    BY <2>1 DEF Core
  <2>3. Fresh(u) = [u EXCEPT !.core = d]
    BY <2>1 DEF Worlds, Core
  <2> HIDE DEF d, Fresh
  <2> QED
    BY <1>2, <2>1, <2>2, <2>3, CoreFollows, OtherCore
<1>3. ASSUME NEW v, Good(v), v.uds.status = "Inactive", NEW q \in Twice(v)
      PROVE  Sound(q.session)
  <2>1. \A x \in Identify(v.session) : Sound(x.session)
    BY <1>3, IdentifySound DEF Good
  <2> QED
    BY <1>3, <2>1, IdentifySound
<1>4. ASSUME NEW v, Good(v), v.uds.status = "Inactive", NEW x \in Named(v)
      PROVE  Follows(v, x)
  <2> HIDE DEF Twice
  <2>0. PICK q \in Twice(v) :
          x \in {[v EXCEPT !.session = q.session, !.core.manufacturer = known] :
                   known \in IF Ok(q) THEN BOOLEAN ELSE {w.core.manufacturer}}
    BY <1>4
  <2>1. PICK known \in BOOLEAN :
          x = [v EXCEPT !.session = q.session, !.core.manufacturer = known]
    BY <1>0, <2>0
  <2> DEFINE y == [v EXCEPT !.session = q.session]
             c == [v.core EXCEPT !.manufacturer = known]
  <2>2. v \in Worlds /\ v.core \in Core /\ Sound(q.session) /\ q.session \in Session
    BY <1>3, <1>4 DEF Good, Worlds, Sound
  <2>3. Follows(v, y) /\ y.core = v.core
    BY <1>4, <2>2, SessionFollows, OtherSession
  <2>4. c \in Core /\ c.initialized = v.core.initialized
    BY <2>2 DEF Core
  <2>5. x = [y EXCEPT !.core = c]
    BY <2>1, <2>2 DEF Worlds
  <2> HIDE DEF y, c
  <2>6. Good(y)
    BY <2>3 DEF Follows
  <2> QED
    BY <2>3, <2>4, <2>5, <2>6, CoreFollows, FollowsOn
<1>5. ASSUME NEW x, Good(x), NEW y \in Validated(x)
      PROVE  Follows(x, y.world)
  <2>0. PICK q \in Lift(x, ReadTargeted(x.session, Engine)) :
          y = Result([q.world EXCEPT !.core.engine = Ok(q)], "ok")
    BY <1>5
  <2>1. y.world = [q.world EXCEPT !.core.engine = Ok(q)]
    BY <2>0 DEF Result
  <2>2. Follows(x, q.world) /\ Good(q.world) /\ q.world.core \in Core
    BY <1>0, <1>5, TargetedFollows DEF Follows, Good, Worlds
  <2> DEFINE c == [q.world.core EXCEPT !.engine = Ok(q)]
  <2>3. c \in Core /\ c.initialized = q.world.core.initialized
    BY <2>2 DEF Core, Ok
  <2>4. y.world = [q.world EXCEPT !.core = c]
    BY <2>1
  <2> HIDE DEF c
  <2> QED
    BY <2>2, <2>3, <2>4, CoreFollows, FollowsOn
<1> HIDE DEF Named, Validated, Fresh
<1>6. ASSUME NEW u, Good(u), u.uds.status = "Inactive", r \in Body(u)
      PROVE  Follows(u, r.world)
  <2>1. PICK x \in Named(Fresh(u)) : r.world = x \/ r \in Validated(x)
    BY <1>6 DEF Result
  <2>2. Follows(u, Fresh(u)) /\ Good(Fresh(u)) /\ Fresh(u).uds.status = "Inactive"
    BY <1>2, <1>6 DEF Follows
  <2>3. Follows(Fresh(u), x) /\ Good(x)
    BY <1>4, <2>2 DEF Follows
  <2>4. Follows(u, x)
    BY <2>2, <2>3, FollowsOn
  <2> QED
    BY <1>5, <2>1, <2>3, <2>4, FollowsOn
<1> HIDE DEF Body
<1>7. PICK q \in DisableUds(w) : r = q \/ (Ok(q) /\ r \in Body(q.world))
  BY <1>1 DEF Then
<1>8. Good(q.world) /\ (Ok(q) => q.world.uds.status = "Inactive")
  BY DisableUdsTells DEF Follows
<1> QED
  BY <1>6, <1>7, <1>8, AfterDisable

-----------------------------------------------------------------------------
(***************************************************************************)
(* Folds over finite sets: the reads of one ECU after another.             *)
(***************************************************************************)
\* A set of subsets that holds every subset whose strict subsets it holds.
LEMMA SubsetInduction ==
  ASSUME NEW S, IsFiniteSet(S), NEW All \in SUBSET (SUBSET S),
         \A T \in SUBSET S : (\A U \in SUBSET S : U \subseteq T /\ U # T => U \in All) => T \in All
  PROVE  All = SUBSET S
<1> DEFINE Bad == (SUBSET S) \ All
<1> SUFFICES ASSUME Bad # {} PROVE FALSE
  OBVIOUS
<1>1. IsWellFoundedOn(StrictSubsetOrdering(S), SUBSET S)
  <2>1. IsWellFoundedOn(StrictSubsetOrdering(S), FiniteSubsetsOf(S))
    BY FS_StrictSubsetOrderingWellFounded
  <2>2. FiniteSubsetsOf(S) = SUBSET S
    BY FS_FiniteSubsetsOfFinite
  <2> QED
    BY <2>1, <2>2
<1>2. PICK T \in Bad : \A U \in Bad : ~(<<U, T>> \in StrictSubsetOrdering(S))
  <2>1. Bad \subseteq SUBSET S
    OBVIOUS
  <2> HIDE DEF Bad
  <2> QED
    BY <1>1, <2>1, WFMin
<1>3. ASSUME NEW U \in SUBSET S, U \subseteq T, U # T
      PROVE  U \in All
  BY <1>2, <1>3 DEF StrictSubsetOrdering
<1> QED
  BY <1>2, <1>3

Pick(s) == CHOOSE x \in s : TRUE

\* g folds op over every subset of S.
IsFold(g, S, base, op) ==
  g = [s \in SUBSET S |-> IF s = {} THEN base ELSE op[Pick(s)][g[s \ {Pick(s)}]]]

LEMMA PickIsIn ==
  ASSUME NEW S, NEW s \in SUBSET S, s # {}
  PROVE  /\ Pick(s) \in s /\ Pick(s) \in S /\ s \ {Pick(s)} \in SUBSET S
         /\ s \ {Pick(s)} \subseteq s /\ s \ {Pick(s)} # s
<1>1. Pick(s) \in s
  BY DEF Pick
<1> QED
  BY <1>1

\* The recursion of MapThenFoldSet has a solution on every finite set.  It is
\* built up by the size of the subsets.
LEMMA FoldExists ==
  ASSUME NEW S, IsFiniteSet(S), NEW X, NEW base \in X, NEW op \in [S -> [X -> X]]
  PROVE  \E g \in [SUBSET S -> X] : IsFold(g, S, base, op)
<1> DEFINE UpTo(n) == {s \in SUBSET S : Cardinality(s) <= n}
           Folded(g, n) == \A s \in UpTo(n) :
                            g[s] = IF s = {} THEN base ELSE op[Pick(s)][g[s \ {Pick(s)}]]
           All == {T \in SUBSET S : \E g \in [UpTo(Cardinality(T)) -> X] : Folded(g, Cardinality(T))}
<1>1. \A s \in SUBSET S : /\ IsFiniteSet(s) /\ Cardinality(s) \in Nat
                          /\ Cardinality(s) <= Cardinality(S)
                          /\ Cardinality(s) = 0 <=> s = {}
  BY FS_Subset, FS_CardinalityType, FS_EmptySet
<1>2. \A s \in SUBSET S : s # {} =>
         /\ Cardinality(s \ {Pick(s)}) = Cardinality(s) - 1
         /\ s \ {Pick(s)} \in SUBSET S /\ Pick(s) \in S
         /\ s \ {Pick(s)} \subseteq s /\ s \ {Pick(s)} # s
  BY <1>1, PickIsIn, FS_RemoveElement
<1>3. ASSUME NEW T \in SUBSET S, \A U \in SUBSET S : U \subseteq T /\ U # T => U \in All
      PROVE  T \in All
  <2>1. CASE T = {}
    <3> DEFINE g == [s \in UpTo(Cardinality(T)) |-> base]
    <3>1. ASSUME NEW s \in UpTo(Cardinality(T)) PROVE s = {}
      <4>1. Cardinality(T) = 0 /\ Cardinality(s) \in Nat /\ Cardinality(s) <= Cardinality(T)
        BY <1>1, <2>1
      <4>2. Cardinality(s) = 0
        BY <4>1
      <4> QED
        BY <1>1, <4>2
    <3>2. g \in [UpTo(Cardinality(T)) -> X] /\ Folded(g, Cardinality(T))
      BY <3>1
    <3> QED
      BY <3>2
  <2>2. CASE T # {}
    <3> DEFINE n == Cardinality(T)
    <3>1. PICK h \in [UpTo(n - 1) -> X] : Folded(h, n - 1)
      <4>1. T \ {Pick(T)} \in All /\ Cardinality(T \ {Pick(T)}) = n - 1
        BY <1>2, <1>3, <2>2
      <4> DEFINE k == Cardinality(T \ {Pick(T)})
      <4> HIDE DEF UpTo, Folded, n
      <4>2. \E h \in [UpTo(k) -> X] : Folded(h, k)
        BY <4>1
      <4>3. k = n - 1
        BY <4>1
      <4> HIDE DEF k, All
      <4> QED
        BY <4>2, <4>3
    <3>2. n \in Nat /\ n # 0
      BY <1>1, <2>2
    <3> DEFINE g == [s \in UpTo(n) |-> IF s \in UpTo(n - 1) THEN h[s]
                                       ELSE op[Pick(s)][h[s \ {Pick(s)}]]]
    <3>3. ASSUME NEW s \in UpTo(n), s # {}
          PROVE  s \ {Pick(s)} \in UpTo(n - 1) /\ s \ {Pick(s)} \in UpTo(n)
      <4> DEFINE u == s \ {Pick(s)}
      <4>1. /\ u \in SUBSET S /\ Cardinality(u) = Cardinality(s) - 1
            /\ Cardinality(s) \in Nat /\ Cardinality(s) <= n
        BY <1>1, <1>2, <3>3
      <4> HIDE DEF u, n
      <4>a. \A a, m \in Nat : a <= m => a - 1 <= m - 1 /\ a - 1 <= m
        OBVIOUS
      <4>2. Cardinality(u) <= n - 1 /\ Cardinality(u) <= n
        BY <3>2, <4>1, <4>a
      <4> QED
        BY <4>1, <4>2 DEF u
    <3>4. ASSUME NEW s \in UpTo(n), s \notin UpTo(n - 1) PROVE s # {}
      <4>1. ~(Cardinality(s) <= n - 1)
        BY <3>4
      <4> HIDE DEF n
      <4>2. Cardinality(s) # 0
        BY <3>2, <4>1
      <4> QED
        BY <1>1, <4>2
    <3>5. g \in [UpTo(n) -> X]
      <4>1. ASSUME NEW s \in UpTo(n) PROVE g[s] \in X
        <5>1. CASE s \in UpTo(n - 1)
          BY <5>1
        <5>2. CASE s \notin UpTo(n - 1)
          <6>1. Pick(s) \in S /\ h[s \ {Pick(s)}] \in X
            BY <1>2, <3>3, <3>4, <5>2
          <6>2. op[Pick(s)] \in [X -> X]
            BY <6>1
          <6>3. op[Pick(s)][h[s \ {Pick(s)}]] \in X
            BY <6>1, <6>2
          <6> QED
            BY <5>2, <6>3
        <5> QED
          BY <5>1, <5>2
      <4> QED
        BY <4>1
    <3>6. ASSUME NEW s \in UpTo(n)
          PROVE  g[s] = IF s = {} THEN base ELSE op[Pick(s)][g[s \ {Pick(s)}]]
      <4>1. s # {} => g[s \ {Pick(s)}] = h[s \ {Pick(s)}]
        BY <3>3
      <4>2. CASE s \in UpTo(n - 1)
        BY <3>1, <4>1, <4>2
      <4>3. CASE s \notin UpTo(n - 1)
        BY <3>4, <4>1, <4>3
      <4> QED
        BY <4>2, <4>3
    <3>7. Folded(g, n)
      BY <3>6
    <3> QED
      BY <3>5, <3>7
  <2> QED
    BY <2>1, <2>2
<1>4. S \in All
  <2>1. All \in SUBSET (SUBSET S)
    OBVIOUS
  <2> HIDE DEF All
  <2>2. All = SUBSET S
    BY <1>3, <2>1, SubsetInduction
  <2> QED
    BY <2>2
<1>5. PICK g \in [UpTo(Cardinality(S)) -> X] : Folded(g, Cardinality(S))
  BY <1>4
<1>6. UpTo(Cardinality(S)) = SUBSET S
  BY <1>1
<1>7. g \in [SUBSET S -> X] /\ IsFold(g, S, base, op)
  BY <1>5, <1>6 DEF IsFold
<1> QED
  BY <1>7

\* A visit of a sequence of reads that started in w.
Visits(w) == {v \in [world : Worlds, present : SUBSET Targets, stopped : BOOLEAN] :
                Follows(w, v.world)}

\* Any outcome of one more read is a visit again.
LEMMA VisitOn ==
  ASSUME NEW w, NEW v \in Visits(w), NEW t \in Targets, NEW r, Follows(v.world, r.world),
         NEW stop \in BOOLEAN
  PROVE  [world |-> r.world, present |-> IF Ok(r) THEN v.present \cup {t} ELSE v.present,
          stopped |-> stop] \in Visits(w)
<1> DEFINE present == IF Ok(r) THEN v.present \cup {t} ELSE v.present
<1>1. Follows(w, v.world) /\ v.present \subseteq Targets
  BY DEF Visits
<1>2. r.world \in Worlds /\ Follows(w, r.world)
  BY <1>1, FollowsOn DEF Follows, Good
<1>3. present \in SUBSET Targets
  BY <1>1
<1> HIDE DEF present
<1>4. [world |-> r.world, present |-> present, stopped |-> stop] \in Visits(w)
  BY <1>2, <1>3 DEF Visits
<1> QED
  BY <1>4 DEF present

\* One more read after every visit so far.
LEMMA RoundOn ==
  ASSUME NEW w, NEW v \in Visits(w), NEW t \in Targets, NEW outcomes,
         \A r \in outcomes : Follows(v.world, r.world),
         NEW x \in IF v.stopped THEN {v}
                  ELSE UNION {{[world |-> r.world, present |-> IF Ok(r) THEN v.present \cup {t} ELSE v.present,
                                stopped |-> stop] : stop \in IF r.reply = "lost" THEN BOOLEAN ELSE {FALSE}}
                              : r \in outcomes}
  PROVE  x \in Visits(w)
<1>1. CASE v.stopped
  BY <1>1
<1>2. CASE ~v.stopped
  <2>1. PICK r \in outcomes :
          x \in {[world |-> r.world, present |-> IF Ok(r) THEN v.present \cup {t} ELSE v.present,
                  stopped |-> stop] : stop \in IF r.reply = "lost" THEN BOOLEAN ELSE {FALSE}}
    BY <1>2
  <2>2. PICK stop \in BOOLEAN :
          x = [world |-> r.world, present |-> IF Ok(r) THEN v.present \cup {t} ELSE v.present,
               stopped |-> stop]
    BY <2>1
  <2> QED
    BY <2>2, VisitOn
<1> QED
  BY <1>1, <1>2

\* A set that holds the start of a fold and is closed under its steps.
LEMMA FoldType ==
  ASSUME NEW S, IsFiniteSet(S), NEW X, NEW it, it[{}] \in X,
         \A s \in SUBSET S : s # {} /\ it[s \ {Pick(s)}] \in X => it[s] \in X
  PROVE  it[S] \in X
<1> DEFINE All == {s \in SUBSET S : it[s] \in X}
<1>1. All \in SUBSET (SUBSET S)
  OBVIOUS
<1>2. ASSUME NEW T \in SUBSET S, \A U \in SUBSET S : U \subseteq T /\ U # T => U \in All
      PROVE  T \in All
  <2>1. T # {} => it[T \ {Pick(T)}] \in X
    BY <1>2, PickIsIn
  <2> QED
    BY <2>1
<1> HIDE DEF All
<1>3. All = SUBSET S
  BY <1>1, <1>2, SubsetInduction
<1> QED
  BY <1>3 DEF All

\* Single reads of every ECU of a set.
LEMMA ReadDidEach ==
  ASSUME NEW w, Good(w), NEW S \in SUBSET Targets,
         NEW v \in ReadEach(w, S, ReadDid)
  PROVE  v \in Visits(w)
<1> DEFINE X == SUBSET Visits(w)
           base == {[world |-> w, present |-> {}, stopped |-> FALSE]}
           Step(t, visits) ==
             UNION {IF u.stopped THEN {u}
                    ELSE UNION {{[world |-> r.world, present |-> IF Ok(r) THEN u.present \cup {t} ELSE u.present,
                                  stopped |-> stop] : stop \in IF r.reply = "lost" THEN BOOLEAN ELSE {FALSE}}
                                : r \in ReadDid(u.world, t)}
                    : u \in visits}
           op == [t \in S |-> [visits \in X |-> Step(t, visits)]]
           Terms(k) == [s \in SUBSET S |-> IF s = {} THEN base ELSE Step(Pick(s), k[s \ {Pick(s)}])]
           it == CHOOSE iter : iter = Terms(iter)
<1>1. ReadEach(w, S, ReadDid) = it[S]
  BY DEF ReadEach, FoldSet, MapThenFoldSet, Pick
<1>2. IsFiniteSet(S)
  BY CoreAssumption, FS_Subset
<1>3. base \in X
  <2>1. Follows(w, w) /\ w \in Worlds
    BY FollowsItself DEF Good
  <2>2. [world |-> w, present |-> {}, stopped |-> FALSE] \in Visits(w)
    BY <2>1 DEF Visits
  <2> QED
    BY <2>2
<1>4. ASSUME NEW t \in S, NEW visits \in X
      PROVE  Step(t, visits) \in X
  <2> SUFFICES ASSUME NEW x \in Step(t, visits)
               PROVE  x \in Visits(w)
    OBVIOUS
  <2>1. PICK u \in visits :
          x \in IF u.stopped THEN {u}
                ELSE UNION {{[world |-> r.world, present |-> IF Ok(r) THEN u.present \cup {t} ELSE u.present,
                              stopped |-> stop] : stop \in IF r.reply = "lost" THEN BOOLEAN ELSE {FALSE}}
                            : r \in ReadDid(u.world, t)}
    OBVIOUS
  <2>2. u \in Visits(w) /\ Good(u.world)
    BY DEF Visits, Follows
  <2>3. \A r \in ReadDid(u.world, t) : Follows(u.world, r.world)
    BY <2>2, ReadDidTells
  <2> HIDE DEF Step
  <2> QED
    BY <2>1, <2>2, <2>3, RoundOn
<1> HIDE DEF Step, base, X
<1>5. op \in [S -> [X -> X]]
  BY <1>4
<1>6. PICK g \in [SUBSET S -> X] : IsFold(g, S, base, op)
  <2> HIDE DEF op
  <2> QED
    BY <1>2, <1>3, <1>5, FoldExists
<1>7. g = Terms(g)
  <2>1. ASSUME NEW s \in SUBSET S, s # {}
        PROVE  op[Pick(s)][g[s \ {Pick(s)}]] = Step(Pick(s), g[s \ {Pick(s)}])
    BY <2>1, PickIsIn
  <2> HIDE DEF op
  <2> QED
    BY <1>6, <2>1 DEF IsFold
<1>8. it = Terms(it)
  BY <1>7
<1> HIDE DEF it
<1>9. it[{}] \in X
  <2>1. it[{}] = base
    BY <1>8
  <2> QED
    BY <1>3, <2>1
<1>10. ASSUME NEW s \in SUBSET S, s # {}, it[s \ {Pick(s)}] \in X
       PROVE  it[s] \in X
  <2>1. it[s] = Step(Pick(s), it[s \ {Pick(s)}])
    BY <1>8, <1>10
  <2>2. Pick(s) \in S
    BY <1>10, PickIsIn
  <2> QED
    BY <1>4, <1>10, <2>1, <2>2
<1>11. it[S] \in X
  BY <1>2, <1>9, <1>10, FoldType
<1> QED
  BY <1>1, <1>11 DEF X

\* Knowledge reads of every ECU of a set.
LEMMA ReadKnowledgeEach ==
  ASSUME NEW w, Good(w), NEW S \in SUBSET Targets,
         NEW v \in ReadEach(w, S, ReadKnowledge)
  PROVE  v \in Visits(w)
<1> DEFINE X == SUBSET Visits(w)
           base == {[world |-> w, present |-> {}, stopped |-> FALSE]}
           Step(t, visits) ==
             UNION {IF u.stopped THEN {u}
                    ELSE UNION {{[world |-> r.world, present |-> IF Ok(r) THEN u.present \cup {t} ELSE u.present,
                                  stopped |-> stop] : stop \in IF r.reply = "lost" THEN BOOLEAN ELSE {FALSE}}
                                : r \in ReadKnowledge(u.world, t)}
                    : u \in visits}
           op == [t \in S |-> [visits \in X |-> Step(t, visits)]]
           Terms(k) == [s \in SUBSET S |-> IF s = {} THEN base ELSE Step(Pick(s), k[s \ {Pick(s)}])]
           it == CHOOSE iter : iter = Terms(iter)
<1>1. ReadEach(w, S, ReadKnowledge) = it[S]
  BY DEF ReadEach, FoldSet, MapThenFoldSet, Pick
<1>2. IsFiniteSet(S)
  BY CoreAssumption, FS_Subset
<1>3. base \in X
  <2>1. Follows(w, w) /\ w \in Worlds
    BY FollowsItself DEF Good
  <2>2. [world |-> w, present |-> {}, stopped |-> FALSE] \in Visits(w)
    BY <2>1 DEF Visits
  <2> QED
    BY <2>2
<1>4. ASSUME NEW t \in S, NEW visits \in X
      PROVE  Step(t, visits) \in X
  <2> SUFFICES ASSUME NEW x \in Step(t, visits)
               PROVE  x \in Visits(w)
    OBVIOUS
  <2>1. PICK u \in visits :
          x \in IF u.stopped THEN {u}
                ELSE UNION {{[world |-> r.world, present |-> IF Ok(r) THEN u.present \cup {t} ELSE u.present,
                              stopped |-> stop] : stop \in IF r.reply = "lost" THEN BOOLEAN ELSE {FALSE}}
                            : r \in ReadKnowledge(u.world, t)}
    OBVIOUS
  <2>2. u \in Visits(w) /\ Good(u.world)
    BY DEF Visits, Follows
  <2>3. \A r \in ReadKnowledge(u.world, t) : Follows(u.world, r.world)
    BY <2>2, ReadKnowledgeTells DEF Obeys
  <2> HIDE DEF Step
  <2> QED
    BY <2>1, <2>2, <2>3, RoundOn
<1> HIDE DEF Step, base, X
<1>5. op \in [S -> [X -> X]]
  BY <1>4
<1>6. PICK g \in [SUBSET S -> X] : IsFold(g, S, base, op)
  <2> HIDE DEF op
  <2> QED
    BY <1>2, <1>3, <1>5, FoldExists
<1>7. g = Terms(g)
  <2>1. ASSUME NEW s \in SUBSET S, s # {}
        PROVE  op[Pick(s)][g[s \ {Pick(s)}]] = Step(Pick(s), g[s \ {Pick(s)}])
    BY <2>1, PickIsIn
  <2> HIDE DEF op
  <2> QED
    BY <1>6, <2>1 DEF IsFold
<1>8. it = Terms(it)
  BY <1>7
<1> HIDE DEF it
<1>9. it[{}] \in X
  <2>1. it[{}] = base
    BY <1>8
  <2> QED
    BY <1>3, <2>1
<1>10. ASSUME NEW s \in SUBSET S, s # {}, it[s \ {Pick(s)}] \in X
       PROVE  it[s] \in X
  <2>1. it[s] = Step(Pick(s), it[s \ {Pick(s)}])
    BY <1>8, <1>10
  <2>2. Pick(s) \in S
    BY <1>10, PickIsIn
  <2> QED
    BY <1>4, <1>10, <2>1, <2>2
<1>11. it[S] \in X
  BY <1>2, <1>9, <1>10, FoldType
<1> QED
  BY <1>1, <1>11 DEF X

-----------------------------------------------------------------------------
(***************************************************************************)
(* The actions that read every ECU.                                        *)
(***************************************************************************)
\* The addressing is given back after the reads, and what answered may
\* replace the earlier knowledge.
LEMMA VisitsEnd ==
  ASSUME NEW u, NEW v \in Visits(u), NEW q \in RestoreAddressing(v.world), NEW x,
         x = q.world \/ x = [q.world EXCEPT !.core.knowledge = v.present]
  PROVE  Follows(u, x)
<1>1. Follows(u, v.world) /\ v.present \in SUBSET Targets
  BY DEF Visits
<1>2. Follows(v.world, q.world) /\ Good(q.world)
  BY <1>1, RestoreTells DEF Follows
<1>3. CASE x = [q.world EXCEPT !.core.knowledge = v.present]
  <2> DEFINE c == [q.world.core EXCEPT !.knowledge = v.present]
  <2>1. q.world.core \in Core
    BY <1>2 DEF Good, Worlds
  <2>2. c \in Core /\ c.initialized = q.world.core.initialized
    BY <1>1, <2>1 DEF Core
  <2>3. x = [q.world EXCEPT !.core = c]
    BY <1>3
  <2> HIDE DEF c
  <2>4. Follows(q.world, x)
    BY <1>2, <2>2, <2>3, CoreFollows
  <2> QED
    BY <1>1, <1>2, <2>4, FollowsOn
<1> QED
  BY <1>1, <1>2, <1>3, FollowsOn

LEMMA DiscoverEcusTells ==
  ASSUME NEW w, Good(w), NEW r \in DiscoverEcus(w)
  PROVE  Obeys(w, r.world)
<1> DEFINE Body(u) ==
             IF ~u.core.manufacturer THEN Fail(u)
             ELSE UNION {{Result([q.world EXCEPT !.core.knowledge = v.present], "ok") :
                            q \in RestoreAddressing(v.world)}
                         : v \in ReadEach(u, Targets, ReadDid)}
<1>1. r \in Then(DisableUds(w), Body)
  BY DEF DiscoverEcus
<1>2. ASSUME NEW u, Good(u), r \in Body(u)
      PROVE  Follows(u, r.world)
  <2>1. CASE r \in Fail(u)
    BY <1>2, <2>1, FailTells DEF Obeys
  <2>2. CASE r \notin Fail(u)
    <3>1. PICK v \in ReadEach(u, Targets, ReadDid) :
            r \in {Result([q.world EXCEPT !.core.knowledge = v.present], "ok") :
                     q \in RestoreAddressing(v.world)}
      BY <1>2, <2>2
    <3>2. PICK q \in RestoreAddressing(v.world) :
            r = Result([q.world EXCEPT !.core.knowledge = v.present], "ok")
      BY <3>1
    <3>3. v \in Visits(u)
      BY <1>2, <3>1, ReadDidEach
    <3>4. r.world = [q.world EXCEPT !.core.knowledge = v.present]
      BY <3>2 DEF Result
    <3> QED
      BY <3>3, <3>4, VisitsEnd
  <2> QED
    BY <2>1, <2>2
<1> HIDE DEF Body
<1>3. PICK q \in DisableUds(w) : r = q \/ (Ok(q) /\ r \in Body(q.world))
  BY <1>1 DEF Then
<1>4. Good(q.world)
  BY DisableUdsTells DEF Follows
<1> QED
  BY <1>2, <1>3, <1>4, AfterDisable

\* What is known of the ECUs is a set of them.
LEMMA KnownEcus ==
  ASSUME NEW u, Good(u), u.core.knowledge \notin {None, {}}
  PROVE  u.core.knowledge \in SUBSET Targets
<1>1. u.core \in Core
  BY DEF Good, Worlds
<1> QED
  BY <1>1 DEF Core

LEMMA LearnKnowledgeTells ==
  ASSUME NEW w, Good(w), NEW r \in LearnKnowledge(w)
  PROVE  Obeys(w, r.world)
<1> DEFINE Body(u) ==
             IF u.core.knowledge \in {None, {}} THEN Fail(u)
             ELSE UNION {{Result(q.world, "ok") : q \in RestoreAddressing(v.world)}
                         : v \in ReadEach(u, u.core.knowledge, ReadDid)}
<1>1. r \in Then(DisableUds(w), Body)
  BY DEF LearnKnowledge
<1>2. ASSUME NEW u, Good(u), r \in Body(u)
      PROVE  Follows(u, r.world)
  <2>1. CASE u.core.knowledge \in {None, {}}
    BY <1>2, <2>1, FailTells DEF Obeys
  <2>2. CASE u.core.knowledge \notin {None, {}}
    <3>1. PICK v \in ReadEach(u, u.core.knowledge, ReadDid) :
            r \in {Result(q.world, "ok") : q \in RestoreAddressing(v.world)}
      BY <1>2, <2>2
    <3>2. PICK q \in RestoreAddressing(v.world) : r.world = q.world
      BY <3>1 DEF Result
    <3>3. v \in Visits(u)
      BY <1>2, <2>2, <3>1, KnownEcus, ReadDidEach
    <3> QED
      BY <3>2, <3>3, VisitsEnd
  <2> QED
    BY <2>1, <2>2
<1> HIDE DEF Body
<1>3. PICK q \in DisableUds(w) : r = q \/ (Ok(q) /\ r \in Body(q.world))
  BY <1>1 DEF Then
<1>4. Good(q.world)
  BY DisableUdsTells DEF Follows
<1> QED
  BY <1>2, <1>3, <1>4, AfterDisable

LEMMA KnowledgeAvailabilityTells ==
  ASSUME NEW w, Good(w), NEW r \in KnowledgeAvailability(w)
  PROVE  Obeys(w, r.world)
<1> DEFINE Body(u) ==
             IF u.core.knowledge \in {None, {}} THEN Fail(u)
             ELSE UNION {{Result(q.world, "ok") : q \in RestoreAddressing(v.world)}
                         : v \in ReadEach(u, u.core.knowledge, ReadKnowledge)}
<1>1. r \in Then(DisableUds(w), Body)
  BY DEF KnowledgeAvailability
<1>2. ASSUME NEW u, Good(u), r \in Body(u)
      PROVE  Follows(u, r.world)
  <2>1. CASE u.core.knowledge \in {None, {}}
    BY <1>2, <2>1, FailTells DEF Obeys
  <2>2. CASE u.core.knowledge \notin {None, {}}
    <3>1. PICK v \in ReadEach(u, u.core.knowledge, ReadKnowledge) :
            r \in {Result(q.world, "ok") : q \in RestoreAddressing(v.world)}
      BY <1>2, <2>2
    <3>2. PICK q \in RestoreAddressing(v.world) : r.world = q.world
      BY <3>1 DEF Result
    <3>3. v \in Visits(u)
      BY <1>2, <2>2, <3>1, KnownEcus, ReadKnowledgeEach
    <3> QED
      BY <3>2, <3>3, VisitsEnd
  <2> QED
    BY <2>1, <2>2
<1> HIDE DEF Body
<1>3. PICK q \in DisableUds(w) : r = q \/ (Ok(q) /\ r \in Body(q.world))
  BY <1>1 DEF Then
<1>4. Good(q.world)
  BY DisableUdsTells DEF Follows
<1> QED
  BY <1>2, <1>3, <1>4, AfterDisable

\* uds.disable and uds.tick as actions.
LEMMA EndOrTickTells ==
  ASSUME NEW w, Good(w), NEW q \in DisableUds(w) \cup TickUds(w)
  PROVE  Obeys(w, q.world)
BY DisableUdsTells, TickUdsTells DEF Obeys, Active

-----------------------------------------------------------------------------
(***************************************************************************)
(* Entering the extended session.                                          *)
(***************************************************************************)
\* Where any action on an initialised core may lead.
Steps(w, v) ==
  /\ Good(v)
  /\ v.core.initialized = w.core.initialized
  /\ v.extended \subseteq w.extended \cup {Engine} \/ Loose(w)
  /\ ~AnswersPending /\ v.uds.status = "Inactive" /\ Engine \in v.extended =>
       w.uds.status = "Inactive" /\ Engine \in w.extended
  /\ w.uds.status = "Indeterminate" => v = w

LEMMA ObeysSteps ==
  ASSUME NEW w, NEW v, Obeys(w, v)
  PROVE  Steps(w, v)
BY DEF Obeys, Follows, Steps

LEMMA StepsOn ==
  ASSUME NEW w, NEW u, NEW v, Steps(w, u), Follows(u, v),
         w.uds.status = "Indeterminate" => v = u
  PROVE  Steps(w, v)
BY DEF Steps, Follows

\* enable: a refusal and a successful cleanup leave the engine ECU in its
\* default session; any other failure leaves the session indeterminate.
LEMMA EnableTells ==
  ASSUME NEW w, Good(w), ~Broadcasts(w), NEW r \in Enable(w)
  PROVE  Steps(w, r.world)
<1> DEFINE v == [w EXCEPT !.uds.authorized = TRUE]
           b == [w.uds EXCEPT !.authorized = TRUE]
<1>1. w \in Worlds /\ w.uds \in UdsState
  BY DEF Good, Worlds
<1>2. b \in UdsState /\ v = [w EXCEPT !.uds = b]
  BY <1>1 DEF UdsState
<1>3. /\ v \in Worlds /\ v.session = w.session /\ v.core = w.core
      /\ v.extended = w.extended
  <2> HIDE DEF v, b
  <2> QED
    BY <1>1, <1>2, OtherBelief
<1>4. \/ r.world = w
      \/ /\ w.uds.status \notin {"Active", "Indeterminate"}
         /\ \E q \in Send(v, "enter") :
              r \in IF Ok(q) THEN {Result([q.world EXCEPT !.uds = Belief("Active", TRUE)], "ok")}
                    ELSE IF q.reply = "refused" THEN {Result(MarkInactive(q.world), "failed")}
                    ELSE CleanupAfterError(q.world)
  <2>1. CASE w.uds.status = "Indeterminate"
    BY <2>1 DEF Enable, Result
  <2>2. CASE w.uds.status = "Active"
    BY <2>2 DEF Enable, Result
  <2>3. CASE w.uds.status \notin {"Active", "Indeterminate"}
    <3> HIDE DEF v
    <3>1. r \in UNION {IF Ok(q) THEN {Result([q.world EXCEPT !.uds = Belief("Active", TRUE)], "ok")}
                       ELSE IF q.reply = "refused" THEN {Result(MarkInactive(q.world), "failed")}
                       ELSE CleanupAfterError(q.world) : q \in Send(v, "enter")}
      BY <2>3 DEF Enable, v
    <3> QED
      BY <2>3, <3>1
  <2> QED
    BY <2>1, <2>2, <2>3
<1> HIDE DEF v, b
<1>5. CASE r.world = w
  BY <1>5, FollowsItself, ObeysSteps DEF Obeys
<1>6. ASSUME w.uds.status \notin {"Active", "Indeterminate"}, NEW q \in Send(v, "enter"),
             r \in IF Ok(q) THEN {Result([q.world EXCEPT !.uds = Belief("Active", TRUE)], "ok")}
                   ELSE IF q.reply = "refused" THEN {Result(MarkInactive(q.world), "failed")}
                   ELSE CleanupAfterError(q.world)
      PROVE  Steps(w, r.world)
  <2>1. /\ w.uds.status = "Inactive" /\ Sound(v.session) /\ ~Broadcasts(v)
        /\ Loose(v) = Loose(w)
    BY <1>1, <1>3, <1>6 DEF Good, UdsState, Broadcasts, Loose
  <2>2. /\ q.world \in Worlds /\ Sound(q.world.session) /\ ~Broadcasts(q.world)
        /\ q.world.core = w.core
    BY <1>3, <2>1, SendTells
  <2>3. PICK heard \in SUBSET Targets :
          /\ q.world.extended = w.extended \cup heard
          /\ heard \subseteq {Engine} \/ Loose(w)
          /\ q.reply = "refused" => Engine \notin heard \/ AnswersPending
    <3> DEFINE Entered(heard) ==
          CASE "enter" = "enter" -> v.extended \cup heard
            [] "enter" = "leave" -> v.extended \ heard
            [] OTHER -> v.extended
    <3>1. \E heard \in SUBSET Targets :
            /\ q.world.extended = Entered(heard)
            /\ heard \subseteq {Engine} \/ Loose(v)
            /\ q.reply = "refused" =>
                 Engine \notin heard \/ (AnswersPending /\ "enter" = "enter")
      BY <1>3, <2>1, SendTells
    <3>2. \A heard : Entered(heard) = w.extended \cup heard
      BY <1>3
    <3> HIDE DEF Entered
    <3> QED
      BY <2>1, <3>1, <3>2
  <2>4. CASE Ok(q)
    <3>1. Belief("Active", TRUE) \in UdsState /\ Belief("Active", TRUE).status = "Active"
      BY BeliefType
    <3> DEFINE x == [q.world EXCEPT !.uds = Belief("Active", TRUE)]
    <3>2. /\ x \in Worlds /\ x.uds.status = "Active" /\ x.session = q.world.session
          /\ x.core = w.core /\ x.extended = q.world.extended
      BY <2>2, <3>1, OtherBelief
    <3>3. r = Result(x, "ok")
      BY <1>6, <2>4
    <3> HIDE DEF x
    <3>4. r.world = x
      BY <3>3 DEF Result
    <3> QED
      BY <2>1, <2>2, <2>3, <3>2, <3>4 DEF Steps, Good, Broadcasts
  <2>5. CASE ~Ok(q) /\ q.reply = "refused"
    <3>1. r.world = MarkInactive(q.world)
      BY <1>6, <2>5 DEF Result
    <3> QED
      BY <2>1, <2>2, <2>3, <2>5, <3>1, Marked DEF Steps, Good, Broadcasts
  <2>6. CASE ~Ok(q) /\ q.reply # "refused"
    <3>1. Left(q.world, r.world)
      BY <1>6, <2>2, <2>6, CleanupTells
    <3> QED
      BY <2>1, <2>2, <2>3, <3>1 DEF Left, Steps, Good
  <2> QED
    BY <2>4, <2>5, <2>6
<1> QED
  BY <1>4, <1>5, <1>6

LEMMA EnableUdsTells ==
  ASSUME NEW w, Good(w), ~Broadcasts(w), NEW r \in EnableUds(w)
  PROVE  Steps(w, r.world)
<1>1. CASE r \in Fail(w)
  BY <1>1, FailTells, ObeysSteps
<1>2. CASE r \notin Fail(w)
  <2>1. PICK q \in Enable(w) :
          r \in IF q.world.uds.status = "Inactive"
                THEN {Result(x.world, "ok") : x \in RestoreAddressing(q.world)}
                ELSE {Result(q.world, "ok")}
    BY <1>2 DEF EnableUds
  <2>2. Steps(w, q.world)
    BY EnableTells
  <2>3. CASE q.world.uds.status = "Inactive"
    <3>1. PICK x \in RestoreAddressing(q.world) : r.world = x.world
      BY <2>1, <2>3 DEF Result
    <3>2. Follows(q.world, x.world) /\ w.uds.status # "Indeterminate"
      BY <2>2, <2>3, RestoreTells DEF Steps
    <3> QED
      BY <2>2, <3>1, <3>2, StepsOn
  <2>4. CASE q.world.uds.status # "Inactive"
    BY <2>1, <2>2, <2>4 DEF Result
  <2> QED
    BY <2>3, <2>4
<1> QED
  BY <1>1, <1>2

-----------------------------------------------------------------------------
(***************************************************************************)
(* Initialising the adapter.                                               *)
(***************************************************************************)
\* What holds of the ELM session whether or not its adapter is initialised:
\* it is Sound but for what is believed of an adapter that was reset since.
Fits(s) ==
  /\ s \in Session
  /\ s.configured # None => AtTargetOf(s, s.configured) \/ Reset(s)
  /\ ~s.dirty => s.configured = None
  /\ \A x \in s.wire : GoodRequest(x)

LEMMA SoundFits ==
  ASSUME NEW s, Sound(s)
  PROVE  Fits(s)
BY DEF Sound, Remembers, Fits

LEMMA FitsSound ==
  ASSUME NEW s, Fits(s), Clean(s)
  PROVE  Sound(s)
BY DEF Sound, Remembers, Fits, Clean

\* initialize_elm on any session: success leaves the adapter initialised.
LEMMA InitializeElmFits ==
  ASSUME NEW s, Fits(s), NEW r \in InitializeElm(s)
  PROVE  Fits(r.session) /\ (Ok(r) => Clean(r.session))
<1> DEFINE u == [s EXCEPT !.header = Functional, !.filter = None,
                          !.fresh = TRUE, !.headers = FALSE]
           Headed(x) == [x EXCEPT !.headers = TRUE]
           v == Headed(u)
           Last(x) == AtCommand(x, x)
           Heading(x) == After(AtCommand(x, Headed(x)), Last)
           Echo(x) == After(AtCommand(x, x), Heading)
<1>1. s \in Session
  BY DEF Fits
<1>2. Fits(u)
  BY <1>1 DEF Fits, Session, Reset
<1>3. Fits(v) /\ Clean(v)
  BY <1>1 DEF Fits, Session, Reset, Clean
<1>4. InitializeElm(s) = After(AtCommand(s, u), Echo)
  BY DEF InitializeElm
<1> HIDE DEF u, Echo, Heading, Last, Headed
<1>5. \/ r \in AtCommand(s, u) /\ ~Ok(r)
      \/ \E q \in AtCommand(s, u) : Ok(q) /\ r \in Echo(q.session)
  BY <1>4 DEF After
<1>6. r \in Echo(u) =>
        \/ r \in AtCommand(u, u) /\ ~Ok(r)
        \/ \E q \in AtCommand(u, u) : Ok(q) /\ r \in Heading(q.session)
  BY DEF After, Echo
<1>7. r \in Heading(u) =>
        \/ r \in AtCommand(u, v) /\ ~Ok(r)
        \/ \E q \in AtCommand(u, v) : Ok(q) /\ r \in AtCommand(q.session, q.session)
  BY DEF After, Heading, Last
<1>8. \/ r \in AtCommand(s, u) /\ ~Ok(r)
      \/ r \in AtCommand(u, u) /\ ~Ok(r)
      \/ r \in AtCommand(u, v) /\ ~Ok(r)
      \/ r \in AtCommand(v, v)
  BY <1>5, <1>6, <1>7, AtCommandOutcome
<1> HIDE DEF v
<1> QED
  BY <1>2, <1>3, <1>8, AtCommandOutcome

\* reinitialize on any session.
LEMMA ReinitializeFits ==
  ASSUME NEW s, Fits(s), NEW r \in Reinitialize(s)
  PROVE  Fits(r.session) /\ (Ok(r) => Sound(r.session))
<1> DEFINE Settled(u) == [u EXCEPT !.dirty = FALSE, !.configured = None]
           Settle(u) == {Outcome(Settled(u), "ok")}
           Discovered == After(InitializeElm(s), DiscoverSupport)
<1>1. Reinitialize(s) = After(Discovered, Settle)
  BY DEF Reinitialize
<1>2. ASSUME NEW q \in Discovered
      PROVE  Fits(q.session) /\ (Ok(q) => Clean(q.session))
  <2>1. \/ q \in InitializeElm(s)
        \/ \E i \in InitializeElm(s) : Ok(i) /\ q \in DiscoverSupport(i.session)
    BY <1>2 DEF After
  <2>2. ASSUME NEW i \in InitializeElm(s), Ok(i), q \in DiscoverSupport(i.session)
        PROVE  Fits(q.session) /\ Clean(q.session)
    <3>1. Sound(i.session) /\ Clean(i.session)
      BY <2>2, InitializeElmFits, FitsSound
    <3> QED
      BY <2>2, <3>1, DiscoverSupportSound, SoundFits
  <2> QED
    BY <2>1, <2>2, InitializeElmFits
<1> HIDE DEF Settle, Discovered
<1>3. \/ r \in Discovered /\ ~Ok(r)
      \/ \E q \in Discovered : Ok(q) /\ r \in Settle(q.session)
  BY <1>1 DEF After
<1>4. ASSUME NEW q \in Discovered, Ok(q), r \in Settle(q.session)
      PROVE  Fits(r.session) /\ Sound(r.session)
  <2>1. r.session = Settled(q.session)
    BY <1>4 DEF Settle, Outcome
  <2>2. q.session \in Session /\ Clean(q.session) /\ Fits(q.session)
    BY <1>2, <1>4 DEF Fits
  <2>3. /\ r.session \in Session /\ r.session.header = q.session.header
        /\ r.session.filter = q.session.filter /\ r.session.fresh = q.session.fresh
        /\ r.session.headers = q.session.headers
        /\ r.session.configured = None /\ r.session.wire = q.session.wire
    BY <2>1, <2>2 DEF Session
  <2>4. Clean(r.session)
    BY <2>2, <2>3 DEF Clean, Reset
  <2>5. Fits(r.session)
    BY <2>2, <2>3 DEF Fits
  <2> QED
    BY <2>4, <2>5, FitsSound
<1> QED
  BY <1>2, <1>3, <1>4

-----------------------------------------------------------------------------
(***************************************************************************)
(* Steps of the core.                                                      *)
(***************************************************************************)
\* What holds between two actions.
Kept(w) ==
  /\ w \in Worlds
  /\ Fits(w.session)
  /\ w.core.initialized => Sound(w.session)
  /\ Active(w) => w.core.initialized
  /\ Broadcasts(w) => w.uds.status = "Inactive"

\* What every action but a reconnection respects.
Allowed(w, v) ==
  /\ Kept(v)
  /\ v.extended \subseteq w.extended \cup {Engine} \/ Loose(w)
  /\ ~AnswersPending /\ v.uds.status = "Inactive" /\ Engine \in v.extended =>
       w.uds.status = "Inactive" /\ Engine \in w.extended
  /\ w.uds.status = "Indeterminate" => v.uds.status = "Indeterminate" /\ v.session.wire = {}

LEMMA StepsAllowed ==
  ASSUME NEW w, w.core.initialized, w.session.wire = {}, NEW v, Steps(w, v)
  PROVE  Allowed(w, v)
BY SoundFits DEF Steps, Allowed, Good, Kept

\* An action that changes nothing.
LEMMA NothingAllowed ==
  ASSUME NEW w, Kept(w), w.session.wire = {}
  PROVE  Allowed(w, w)
BY DEF Allowed

LEMMA FailAllowed ==
  ASSUME NEW w, Kept(w), w.session.wire = {}, NEW q \in Fail(w)
  PROVE  Allowed(w, q.world)
BY NothingAllowed DEF Fail, Result

\* A failed action ends an active session.
LEMMA ExecuteAllowed ==
  ASSUME NEW w, NEW rs, \A q \in rs : Allowed(w, q.world), NEW r \in Execute(rs)
  PROVE  Allowed(w, r.world)
<1>1. PICK q \in rs : r \in IF ~Ok(q) /\ Active(q.world) THEN DisableUds(q.world) ELSE {q}
  BY DEF Execute
<1>2. CASE ~Ok(q) /\ Active(q.world)
  <2>1. Good(q.world) /\ q.world.uds.status = "Active"
    BY <1>2 DEF Allowed, Kept, Good, Active
  <2>2. Follows(q.world, r.world) /\ ~Active(r.world)
    BY <1>1, <1>2, <2>1, DisableUdsTells
  <2>3. Kept(r.world)
    BY <2>2, SoundFits DEF Follows, Good, Kept
  <2> QED
    BY <2>1, <2>2, <2>3 DEF Follows, Allowed
<1> QED
  BY <1>1, <1>2

\* initialize: an active session is left first, and an indeterminate one lets
\* nothing be sent.
LEMMA InitializeAllowed ==
  ASSUME NEW w, Kept(w), w.session.wire = {}, NEW r \in Initialize(w)
  PROVE  Allowed(w, r.world)
<1> DEFINE New(u) == [u EXCEPT !.core = NewCore]
           Renewed(s) == After(AtCommand(s, s), Reinitialize)
           Ready(q) == Result([q.world EXCEPT !.core.initialized = TRUE], "ok")
           Body(u) == {IF Ok(q) THEN Ready(q) ELSE q : q \in Lift(New(u), Renewed(New(u).session))}
<1>1. r \in Then(DisableUds(w), Body)
  BY DEF Initialize
<1>2. ASSUME NEW q \in DisableUds(w)
      PROVE  /\ Allowed(w, q.world) /\ Fits(q.world.session)
             /\ Ok(q) => q.world.uds.status = "Inactive"
  <2>1. CASE w.core.initialized
    <3>1. Good(w)
      BY <2>1 DEF Kept, Good
    <3>2. Steps(w, q.world)
      BY <3>1, EndOrTickTells, ObeysSteps
    <3> QED
      BY <2>1, <3>1, <3>2, DisableUdsTells, StepsAllowed DEF Allowed, Kept
  <2>2. CASE ~w.core.initialized
    <3>1. ~Active(w) /\ w.uds.status \in {"Inactive", "Indeterminate"}
      BY <2>2 DEF Kept, Active, Worlds, UdsState
    <3>2. PICK x \in Disable(w) : q = x
      BY <3>1, RestoringTells DEF DisableUds
    <3>3. q.world = w /\ (Ok(q) => w.uds.status = "Inactive")
      BY <3>1, <3>2 DEF Disable, Result, Ok
    <3> QED
      BY <3>3, NothingAllowed DEF Kept
  <2> QED
    BY <2>1, <2>2
<1>3. NewCore \in Core /\ ~NewCore.initialized
  BY DEF NewCore, Core
<1> HIDE DEF Body
<1>4. PICK q \in DisableUds(w) : r = q \/ (Ok(q) /\ r \in Body(q.world))
  BY <1>1 DEF Then
<1>5. ASSUME Ok(q), r \in Body(q.world)
      PROVE  Allowed(w, r.world)
  <2> DEFINE v == New(q.world)
  <2>1. /\ v \in Worlds /\ v.core = NewCore /\ v.extended = q.world.extended
        /\ v.session = q.world.session /\ v.uds.status = "Inactive" /\ Fits(v.session)
    BY <1>2, <1>3, <1>5, OtherCore DEF Allowed, Kept
  <2> HIDE DEF v, New, Ready
  <2>2. PICK o \in Lift(v, Renewed(v.session)) : r = IF Ok(o) THEN Ready(o) ELSE o
    BY <1>5 DEF Body, v
  <2> HIDE DEF Renewed
  <2>3. PICK p \in Renewed(v.session) : o = Result([v EXCEPT !.session = p.session], p.reply)
    BY <2>2 DEF Lift
  <2>4. \/ p \in AtCommand(v.session, v.session) /\ ~Ok(p)
        \/ \E i \in AtCommand(v.session, v.session) : Ok(i) /\ p \in Reinitialize(i.session)
    BY DEF After, Renewed
  <2>5. Fits(p.session) /\ (Ok(p) => Sound(p.session)) /\ p.session \in Session
    BY <2>1, <2>4, AtCommandOutcome, ReinitializeFits DEF Fits
  <2>6. /\ o.world \in Worlds /\ o.world.session = p.session
        /\ o.world.extended = v.extended /\ o.world.uds = v.uds /\ o.world.core = v.core
        /\ Ok(o) = Ok(p)
    <3> DEFINE x == [v EXCEPT !.session = p.session]
    <3>1. /\ x \in Worlds /\ x.session = p.session
          /\ x.extended = v.extended /\ x.uds = v.uds /\ x.core = v.core
      BY <2>1, <2>5, OtherSession
    <3> HIDE DEF x
    <3>2. o = Result(x, p.reply)
      BY <2>3 DEF x
    <3> QED
      BY <3>1, <3>2 DEF Result, Ok
  <2>7. /\ r.world \in Worlds /\ r.world.session = p.session
        /\ r.world.extended = v.extended /\ r.world.uds = v.uds
        /\ r.world.core.initialized => Sound(p.session)
    <3>1. CASE Ok(o)
      <4> DEFINE c == [o.world.core EXCEPT !.initialized = TRUE]
                 y == [o.world EXCEPT !.core = c]
      <4>1. c \in Core
        BY <1>3, <2>1, <2>6 DEF Core
      <4>2. r.world = y
        BY <2>2, <3>1 DEF Ready, Result
      <4> HIDE DEF c
      <4>3. /\ y \in Worlds /\ y.session = o.world.session
            /\ y.extended = o.world.extended /\ y.uds = o.world.uds
        BY <2>6, <4>1, OtherCore
      <4> QED
        BY <2>5, <2>6, <3>1, <4>2, <4>3
    <3>2. CASE ~Ok(o)
      BY <1>3, <2>1, <2>2, <2>6, <3>2
    <3> QED
      BY <3>1, <3>2
  <2>8. Kept(r.world)
    BY <2>1, <2>5, <2>7 DEF Kept, Active
  <2>9. /\ r.world.extended = q.world.extended
        /\ r.world.uds.status = "Inactive" /\ q.world.uds.status = "Inactive"
    BY <1>2, <1>5, <2>1, <2>7
  <2> QED
    BY <1>2, <2>8, <2>9 DEF Allowed
<1> QED
  BY <1>2, <1>4, <1>5

\* An action that needs an initialised adapter.
LEMMA ReadyAllowed ==
  ASSUME NEW w, Kept(w), w.session.wire = {}, NEW outcomes,
         \A q \in outcomes : Good(w) => Steps(w, q.world),
         NEW r \in Execute(IF w.core.initialized THEN outcomes ELSE Fail(w))
  PROVE  Allowed(w, r.world)
<1>1. CASE w.core.initialized
  <2>1. Good(w)
    BY <1>1 DEF Kept, Good
  <2> QED
    BY <1>1, <2>1, StepsAllowed, ExecuteAllowed
<1>2. CASE ~w.core.initialized
  BY <1>2, FailAllowed, ExecuteAllowed
<1> QED
  BY <1>1, <1>2

-----------------------------------------------------------------------------
(***************************************************************************)
(* The specification.                                                      *)
(***************************************************************************)
\* The inductive invariant.  What the session remembers fits the adapter at
\* all times, but only an initialised core relies on the adapter having been
\* reset: after a reconnection it may be another one.
CoreInv ==
  /\ TypeOK
  /\ Fits(session)
  /\ core.initialized => Sound(session)
  /\ uds.status = "Active" => core.initialized
  /\ FunctionalNeedsDefaultSession

\* What the three action properties say of one step.
Accounted ==
  ~AnswersPending /\ uds'.status = "Inactive" /\ Engine \in extended' =>
    \/ uds.status = "Inactive" /\ Engine \in extended
    \/ Reconnected
Stopped ==
  uds.status = "Indeterminate" =>
    session'.wire = {} /\ (uds'.status = "Indeterminate" \/ Reconnected)
NoStray ==
  \/ extended' \subseteq extended \cup {Engine}
  \/ session.fresh /\ session.configured = Engine /\ session.dirty
Safe == CoreInv' /\ Accounted /\ Stopped /\ NoStray

LEMMA InitCore == Init => CoreInv
<1> SUFFICES ASSUME Init PROVE CoreInv
  OBVIOUS
<1>1. session \in Session /\ session.wire = {} /\ session.configured = None
  BY DEF Init, NewSession, Session
<1>2. uds \in UdsState /\ uds.status = "Inactive"
  BY BeliefType DEF Init
<1>3. core \in Core /\ ~core.initialized /\ extended \subseteq Targets
  BY DEF Init, NewCore, Core
<1> QED
  BY <1>1, <1>2, <1>3 DEF CoreInv, TypeOK, Fits, FunctionalNeedsDefaultSession

\* The wire of the last action is not part of the world of the next one.
LEMMA UnwiredFits ==
  ASSUME NEW s, Fits(s)
  PROVE  LET u == [s EXCEPT !.wire = {}]
         IN  /\ Fits(u) /\ u.wire = {} /\ u.configured = s.configured
             /\ u.fresh = s.fresh /\ u.dirty = s.dirty
             /\ Sound(s) => Sound(u)
BY DEF Fits, Session, Reset, AtTargetOf, Sound, Remembers, Clean

LEMMA WorldKept ==
  ASSUME CoreInv
  PROVE  /\ Kept(World) /\ World.session.wire = {}
         /\ World.extended = extended /\ World.uds = uds /\ World.core = core
         /\ World.session.configured = session.configured
         /\ World.session.fresh = session.fresh /\ World.session.dirty = session.dirty
<1> DEFINE u == [session EXCEPT !.wire = {}]
<1>1. /\ Fits(u) /\ u.wire = {} /\ u.configured = session.configured
      /\ u.fresh = session.fresh /\ u.dirty = session.dirty
      /\ Sound(session) => Sound(u)
  BY UnwiredFits DEF CoreInv
<1>2. /\ World.session = u /\ World.extended = extended
      /\ World.uds = uds /\ World.core = core
  BY DEF World
<1>3. u \in Session /\ World = [session |-> u, extended |-> extended, uds |-> uds, core |-> core]
  BY <1>1 DEF Fits, World
<1> HIDE DEF u
<1>4. World \in Worlds
  BY <1>3 DEF Worlds, CoreInv, TypeOK
<1> QED
  BY <1>1, <1>2, <1>4 DEF Kept, CoreInv, Active, Broadcasts

\* The variables after a step.
Becomes(v) == /\ session' = v.session /\ extended' = v.extended
              /\ uds' = v.uds /\ core' = v.core

LEMMA KeptIsInvariant ==
  ASSUME NEW v, Kept(v), Becomes(v)
  PROVE  CoreInv'
<1>1. v.session \in Session /\ v.extended \subseteq Targets /\ v.uds \in UdsState /\ v.core \in Core
  BY DEF Kept, Worlds
<1>2. TypeOK'
  BY <1>1 DEF TypeOK, Becomes
<1>3. FunctionalNeedsDefaultSession'
  BY DEF FunctionalNeedsDefaultSession, Becomes, Kept, Broadcasts
<1> QED
  BY <1>2, <1>3 DEF CoreInv, Becomes, Kept, Active

LEMMA BecomesSafe ==
  ASSUME CoreInv, NEW v, Allowed(World, v), Becomes(v)
  PROVE  Safe
<1>1. CoreInv'
  BY KeptIsInvariant DEF Allowed
<1>2. Accounted /\ Stopped /\ NoStray
  BY WorldKept DEF Allowed, Becomes, Accounted, Stopped, NoStray, Loose
<1> QED
  BY <1>1, <1>2 DEF Safe

\* The physical connection.
LEMMA DisconnectedSafe == CoreInv /\ Disconnected => Safe
<1> SUFFICES ASSUME CoreInv, Disconnected PROVE Safe
  OBVIOUS
<1> DEFINE w == World
           u == OnDisconnect(w)
           v == [u EXCEPT !.core = NewCore]
<1>1. /\ Kept(w) /\ w.session.wire = {} /\ w \in Worlds /\ w.extended = extended
  BY WorldKept DEF Kept
<1>2. NewCore \in Core /\ ~NewCore.initialized
  BY DEF NewCore, Core
<1> HIDE DEF w
<1>3. /\ u \in Worlds /\ u.session = w.session /\ u.extended = w.extended
      /\ ~Active(u)
      /\ u.uds.status = "Inactive" => w.uds.status = "Inactive"
      /\ w.uds.status = "Indeterminate" => u.uds.status = "Indeterminate"
  BY <1>1, Marked DEF OnDisconnect, Active
<1> HIDE DEF u
<1>4. /\ v \in Worlds /\ v.core = NewCore
      /\ v.extended = u.extended /\ v.session = u.session /\ v.uds = u.uds
  BY <1>2, <1>3, OtherCore
<1> HIDE DEF v
<1>5. Allowed(w, v)
  BY <1>1, <1>2, <1>3, <1>4 DEF Allowed, Kept, Active, Broadcasts
<1>6. Becomes(v)
  BY <1>1, <1>3, <1>4 DEF Disconnected, Becomes, u, w
<1> QED
  BY <1>5, <1>6, BecomesSafe DEF w

LEMMA ReconnectedSafe == CoreInv /\ Reconnected => Safe
<1> SUFFICES ASSUME CoreInv, Reconnected PROVE Safe
  OBVIOUS
<1> DEFINE s == World.session
           Powered == PoweredUp(s)
           b == Belief("Inactive", FALSE)
<1>1. Fits(s) /\ s.wire = {} /\ World.extended = extended /\ extended \subseteq Targets
  BY WorldKept DEF Kept, CoreInv, TypeOK
<1>2. b \in UdsState /\ b.status = "Inactive"
  BY BeliefType
<1>3. NewCore \in Core /\ ~NewCore.initialized
  BY DEF NewCore, Core
<1>4. uds' = b /\ core' = NewCore /\ extended' = extended /\ session' \in {s, Powered}
  <2>1. uds' = OnReconnect(World).uds /\ core' = NewCore /\ extended' = extended
    BY DEF Reconnected
  <2>2. OnReconnect(World).uds = b
    <3>1. World \in Worlds
      BY WorldKept DEF Kept
    <3> HIDE DEF b
    <3> QED
      BY <3>1 DEF OnReconnect, Worlds, b
  <2> QED
    BY <2>1, <2>2 DEF Reconnected
<1> HIDE DEF s, b
<1>5. Fits(Powered) /\ Powered.wire = {}
  BY <1>1 DEF Fits, PoweredUp, Session, Reset
<1> HIDE DEF Powered
<1>6. Fits(session') /\ session'.wire = {}
  BY <1>1, <1>4, <1>5
<1>7. CoreInv'
  BY <1>1, <1>2, <1>3, <1>4, <1>6 DEF CoreInv, TypeOK, Fits, FunctionalNeedsDefaultSession
<1> QED
  BY <1>4, <1>6, <1>7 DEF Safe, Accounted, Stopped, NoStray

\* Time.
LEMMA PassSafe == CoreInv /\ Pass => Safe
<1> SUFFICES ASSUME CoreInv, Pass PROVE Safe
  OBVIOUS
<1> DEFINE s == World.session
           q == IF uds.quiet < Interval THEN uds.quiet + 1 ELSE uds.quiet
           b == [uds EXCEPT !.age = uds.age + 1, !.quiet = q]
<1>1. /\ Fits(s) /\ s.wire = {} /\ (core.initialized => Sound(s))
      /\ uds \in UdsState /\ uds.status = "Active" /\ core.initialized
  BY WorldKept DEF Kept, CoreInv, TypeOK, Pass
<1>2. /\ uds.age \in 0 .. Limit /\ uds.age < Limit /\ uds.quiet \in 0 .. Interval
      /\ Limit \in Nat /\ Interval \in Nat
  BY <1>1, UdsAssumption DEF UdsState, Pass
<1>3. uds.age + 1 \in 0 .. Limit /\ q \in 0 .. Interval
  BY <1>2
<1>4. uds' = b /\ session' = s /\ extended' = extended /\ core' = core
  BY DEF Pass
<1> HIDE DEF q
<1>5. b \in UdsState /\ b.status = "Active"
  BY <1>1, <1>3 DEF UdsState
<1> HIDE DEF b, s
<1>6. CoreInv'
  BY <1>1, <1>4, <1>5 DEF CoreInv, TypeOK, Fits, FunctionalNeedsDefaultSession
<1> QED
  BY <1>1, <1>4, <1>5, <1>6 DEF Safe, Accounted, Stopped, NoStray

LEMMA EcuTimeoutSafe ==
  ASSUME CoreInv, NEW t \in Targets, EcuTimeout(t)
  PROVE  Safe
<1> DEFINE s == World.session
<1>1. /\ Fits(s) /\ s.wire = {} /\ (core.initialized => Sound(s))
  BY WorldKept DEF Kept
<1>2. /\ uds' = uds /\ session' = s /\ core' = core /\ extended' \subseteq extended
  BY DEF EcuTimeout
<1> HIDE DEF s
<1>3. CoreInv'
  BY <1>1, <1>2 DEF CoreInv, TypeOK, Fits, FunctionalNeedsDefaultSession
<1> QED
  BY <1>1, <1>2, <1>3 DEF Safe, Accounted, Stopped, NoStray

\* One step per action.
LEMMA ActionSafe ==
  ASSUME CoreInv,
         \/ DoRejected \/ DoInitialize \/ DoRead \/ DoInventory \/ DoDtcScan \/ DoThroughput
         \/ DoDiscover \/ DoLearn \/ DoAvailability
         \/ DoUdsEnable \/ DoUdsDisable \/ DoUdsTick
  PROVE  Safe
<1> DEFINE w == World
<1>1. Kept(w) /\ w.session.wire = {} /\ w.core = core /\ ~Broadcasts(w)
  BY WorldKept DEF Broadcasts
<1> HIDE DEF w
<1>2. CASE DoRejected
  <2>1. PICK r \in Execute(Fail(w)) : Becomes(r.world)
    BY <1>2 DEF DoRejected, Run, Becomes, w
  <2>2. Allowed(w, r.world)
    BY <1>1, FailAllowed, ExecuteAllowed
  <2> QED
    BY <2>1, <2>2, BecomesSafe DEF w
<1>3. CASE DoInitialize
  <2>1. PICK r \in Execute(Initialize(w)) : Becomes(r.world)
    BY <1>3 DEF DoInitialize, Run, Becomes, w
  <2>2. Allowed(w, r.world)
    BY <1>1, InitializeAllowed, ExecuteAllowed
  <2> QED
    BY <2>1, <2>2, BecomesSafe DEF w
<1>4. ASSUME NEW outcomes, \A q \in outcomes : Good(w) => Steps(w, q.world),
             \E r \in Execute(IF core.initialized THEN outcomes ELSE Fail(w)) : Becomes(r.world)
      PROVE  Safe
  <2>1. PICK r \in Execute(IF w.core.initialized THEN outcomes ELSE Fail(w)) : Becomes(r.world)
    BY <1>1, <1>4
  <2>2. Allowed(w, r.world)
    BY <1>1, <1>4, ReadyAllowed
  <2> QED
    BY <2>1, <2>2, BecomesSafe DEF w
<1>5. CASE DoRead
  <2>1. ASSUME NEW pid \in Pids, WhenReady(ReadCatalog(World, pid))
        PROVE  Safe
    <3>1. \A q \in ReadCatalog(w, pid) : Good(w) => Steps(w, q.world)
      BY ReadCatalogTells, ObeysSteps
    <3>2. \E r \in Execute(IF core.initialized THEN ReadCatalog(w, pid) ELSE Fail(w)) : Becomes(r.world)
      BY <2>1 DEF WhenReady, Run, Becomes, w
    <3> QED
      BY <1>4, <3>1, <3>2
  <2>2. ASSUME NEW t \in Targets, WhenReady(ReadKnowledge(World, t))
        PROVE  Safe
    <3>1. \A q \in ReadKnowledge(w, t) : Good(w) => Steps(w, q.world)
      BY ReadKnowledgeTells, ObeysSteps
    <3>2. \E r \in Execute(IF core.initialized THEN ReadKnowledge(w, t) ELSE Fail(w)) : Becomes(r.world)
      BY <2>2 DEF WhenReady, Run, Becomes, w
    <3> QED
      BY <1>4, <3>1, <3>2
  <2>3. CASE WhenReady(ReadExtended(World))
    <3>1. \A q \in ReadExtended(w) : Good(w) => Steps(w, q.world)
      BY ReadExtendedTells, ObeysSteps
    <3>2. \E r \in Execute(IF core.initialized THEN ReadExtended(w) ELSE Fail(w)) : Becomes(r.world)
      BY <2>3 DEF WhenReady, Run, Becomes, w
    <3> QED
      BY <1>4, <3>1, <3>2
  <2> QED
    BY <1>5, <2>1, <2>2, <2>3 DEF DoRead
<1>6. CASE DoInventory
  <2>1. \A q \in Inventory(w) : Good(w) => Steps(w, q.world)
    BY InventoryTells, ObeysSteps
  <2>2. \E r \in Execute(IF core.initialized THEN Inventory(w) ELSE Fail(w)) : Becomes(r.world)
    BY <1>6 DEF DoInventory, WhenReady, Run, Becomes, w
  <2> QED
    BY <1>4, <2>1, <2>2
<1>7. CASE DoDtcScan
  <2>1. \A q \in ScanDtcs(w) : Good(w) => Steps(w, q.world)
    BY ScanDtcsTells, ObeysSteps
  <2>2. \E r \in Execute(IF core.initialized THEN ScanDtcs(w) ELSE Fail(w)) : Becomes(r.world)
    BY <1>7 DEF DoDtcScan, WhenReady, Run, Becomes, w
  <2> QED
    BY <1>4, <2>1, <2>2
<1>8. CASE DoThroughput
  <2>1. \A q \in AdapterThroughput(w) : Good(w) => Steps(w, q.world)
    BY AdapterThroughputTells, ObeysSteps
  <2>2. \E r \in Execute(IF core.initialized THEN AdapterThroughput(w) ELSE Fail(w)) : Becomes(r.world)
    BY <1>8 DEF DoThroughput, WhenReady, Run, Becomes, w
  <2> QED
    BY <1>4, <2>1, <2>2
<1>9. CASE DoDiscover
  <2>1. \A q \in DiscoverEcus(w) : Good(w) => Steps(w, q.world)
    BY DiscoverEcusTells, ObeysSteps
  <2>2. \E r \in Execute(IF core.initialized THEN DiscoverEcus(w) ELSE Fail(w)) : Becomes(r.world)
    BY <1>9 DEF DoDiscover, WhenReady, Run, Becomes, w
  <2> QED
    BY <1>4, <2>1, <2>2
<1>10. CASE DoLearn
  <2>1. \A q \in LearnKnowledge(w) : Good(w) => Steps(w, q.world)
    BY LearnKnowledgeTells, ObeysSteps
  <2>2. \E r \in Execute(IF core.initialized THEN LearnKnowledge(w) ELSE Fail(w)) : Becomes(r.world)
    BY <1>10 DEF DoLearn, WhenReady, Run, Becomes, w
  <2> QED
    BY <1>4, <2>1, <2>2
<1>11. CASE DoAvailability
  <2>1. \A q \in KnowledgeAvailability(w) : Good(w) => Steps(w, q.world)
    BY KnowledgeAvailabilityTells, ObeysSteps
  <2>2. \E r \in Execute(IF core.initialized THEN KnowledgeAvailability(w) ELSE Fail(w)) : Becomes(r.world)
    BY <1>11 DEF DoAvailability, WhenReady, Run, Becomes, w
  <2> QED
    BY <1>4, <2>1, <2>2
<1>12. CASE DoUdsEnable
  <2>1. \A q \in EnableUds(w) : Good(w) => Steps(w, q.world)
    BY <1>1, EnableUdsTells
  <2>2. \E r \in Execute(IF core.initialized THEN EnableUds(w) ELSE Fail(w)) : Becomes(r.world)
    BY <1>12 DEF DoUdsEnable, WhenReady, Run, Becomes, w
  <2> QED
    BY <1>4, <2>1, <2>2
<1>13. CASE DoUdsDisable
  <2> DEFINE outcomes == {Result(r.world, "ok") : r \in DisableUds(w)}
  <2>1. \A q \in outcomes : Good(w) => Steps(w, q.world)
    BY EndOrTickTells, ObeysSteps DEF Result
  <2>2. \E r \in Execute(IF core.initialized THEN outcomes ELSE Fail(w)) : Becomes(r.world)
    BY <1>13 DEF DoUdsDisable, WhenReady, Run, Becomes, w
  <2> HIDE DEF outcomes
  <2> QED
    BY <1>4, <2>1, <2>2
<1>14. CASE DoUdsTick
  <2> DEFINE outcomes == {Result(r.world, "ok") : r \in TickUds(w)}
  <2>1. \A q \in outcomes : Good(w) => Steps(w, q.world)
    BY EndOrTickTells, ObeysSteps DEF Result
  <2>2. \E r \in Execute(IF core.initialized THEN outcomes ELSE Fail(w)) : Becomes(r.world)
    BY <1>14 DEF DoUdsTick, WhenReady, Run, Becomes, w
  <2> HIDE DEF outcomes
  <2> QED
    BY <1>4, <2>1, <2>2
<1> QED
  BY <1>2, <1>3, <1>5, <1>6, <1>7, <1>8, <1>9, <1>10, <1>11, <1>12, <1>13, <1>14

LEMMA NextSafe == CoreInv /\ Next => Safe
BY ActionSafe, DisconnectedSafe, ReconnectedSafe, PassSafe, EcuTimeoutSafe DEF Next

LEMMA StutterKeeps == CoreInv /\ UNCHANGED vars => CoreInv'
BY DEF CoreInv, TypeOK, FunctionalNeedsDefaultSession, vars

LEMMA AlwaysCore == Spec => []CoreInv
<1>1. CoreInv /\ [Next]_vars => CoreInv'
  BY NextSafe, StutterKeeps DEF Safe
<1> QED
  BY <1>1, InitCore, PTL DEF Spec

-----------------------------------------------------------------------------
(***************************************************************************)
(* Theorems.                                                               *)
(***************************************************************************)
\* The types: whichever exchange fails, the core, its ELM session and its
\* UDS session stay well formed.
THEOREM TypeCorrect == Spec => []TypeOK
<1>1. CoreInv => TypeOK
  BY DEF CoreInv
<1> QED
  BY <1>1, AlwaysCore, PTL

\* Nothing is broadcast by an action that leaves the extended session active
\* or in doubt: every functional operation ends the session first.
THEOREM BroadcastsNeedDefaultSession == Spec => []FunctionalNeedsDefaultSession
<1>1. CoreInv => FunctionalNeedsDefaultSession
  BY DEF CoreInv
<1> QED
  BY <1>1, AlwaysCore, PTL

\* Every request of the core goes out as it was meant, across failed
\* initialisations, disconnections and power cycles: a functional one on an
\* initialised adapter, a targeted one for its own ECU or after a reset.
THEOREM RequestsAsMeant == Spec => [](\A x \in session.wire : GoodRequest(x))
<1>1. CoreInv => \A x \in session.wire : GoodRequest(x)
  BY DEF CoreInv, Fits
<1> QED
  BY <1>1, AlwaysCore, PTL

\* An active session belongs to an initialised core, whose ELM session knows
\* its adapter.
THEOREM ActiveIsInitialized == Spec => [](uds.status = "Active" => core.initialized /\ Sound(session))
<1>1. CoreInv => (uds.status = "Active" => core.initialized /\ Sound(session))
  BY DEF CoreInv
<1> QED
  BY <1>1, AlwaysCore, PTL

\* Unless an ECU may announce an answer and switch later, no step but a
\* reconnection leaves the engine ECU in its extended session while the core
\* takes it to be inactive.
THEOREM AccountedFor ==
  ASSUME AnswersPending = FALSE
  PROVE  Spec => SessionIsAccountedFor
<1>1. CoreInv /\ [Next]_vars =>
        [uds'.status = "Inactive" /\ Engine \in extended' =>
           \/ uds.status = "Inactive" /\ Engine \in extended
           \/ Reconnected]_vars
  BY NextSafe DEF Safe, Accounted
<1> QED
  BY <1>1, AlwaysCore, PTL DEF Spec, SessionIsAccountedFor

\* While the session is indeterminate no step sends anything to the vehicle,
\* and only a reconnection ends that.
THEOREM NoTrafficInDoubt == Spec => IndeterminateStopsTraffic
<1>1. CoreInv /\ [Next]_vars =>
        [uds.status = "Indeterminate" =>
           session'.wire = {} /\ (uds'.status = "Indeterminate" \/ Reconnected)]_vars
  BY NextSafe DEF Safe, Stopped
<1> QED
  BY <1>1, AlwaysCore, PTL DEF Spec, IndeterminateStopsTraffic

\* An ECU other than the engine ECU is switched only by a command that went
\* out after a reset had failed under the remembered engine ECU.
THEOREM StraysExplained == Spec => StrayOnlyAfterFailedReset
<1>1. CoreInv /\ [Next]_vars =>
        [extended' \subseteq extended \cup {Engine} \/
           (session.fresh /\ session.configured = Engine /\ session.dirty)]_vars
  BY NextSafe DEF Safe, NoStray
<1> QED
  BY <1>1, AlwaysCore, PTL DEF Spec, StrayOnlyAfterFailedReset
=============================================================================
