---------------------------- MODULE ElmOperations ----------------------------
(***************************************************************************)
(* The ELM327 session of obdentic (elm.rs, ElmSession) as operators: what  *)
(* each of its operations may do to the adapter, to what the session       *)
(* remembers about the adapter, and which diagnostic requests it sends.    *)
(*                                                                         *)
(* An operation owns the session until it returns, so an operation is one  *)
(* step; but it is several exchanges with the adapter, each of which may   *)
(* fail, with or without having been carried out.  An operation is         *)
(* therefore the SET of its outcomes: a session and a reply.  `After` is   *)
(* the code's `?`: the first failing exchange ends the operation there.    *)
(*                                                                         *)
(* The session is a record of                                              *)
(*   header, filter  the adapter's ATSH header and ATCRA filter (the       *)
(*                   adapter's own state: the code cannot read it back)    *)
(*   fresh           no target was set up since the adapter's last reset   *)
(*   headers         ATH1 is on: replies carry the responder's header      *)
(*   configured      configured_target, the target the code believes in    *)
(*   dirty           functional_dirty                                      *)
(*   supported       the PIDs of the last complete support discovery       *)
(*   wire            the diagnostic requests the operation has sent        *)
(* A target stands for its (ATSH header, ATCRA filter) key and for the ECU *)
(* that listens at it.  Message contents, echo, line feeds and timeouts'   *)
(* lengths are left out.                                                   *)
(***************************************************************************)
EXTENDS Naturals

CONSTANTS Targets,        \* the ECUs with a validated physical address
          Functional,     \* the functional (broadcast) address 7DF
          None,           \* no filter, no configured target
          Pids,           \* Mode 01 PIDs of the catalog
          AnswersPending  \* may an ECU answer 7F 10 78 and then switch?

ASSUME ElmAssumption ==
  /\ Functional \notin Targets
  /\ None \notin Targets
  /\ Functional # None
  /\ AnswersPending \in BOOLEAN

Request == {"discover", "read", "enter", "leave", "present"}

\* A diagnostic request on the wire: whom the code meant, how the adapter was
\* set up when it went out, and the ECUs that carried out a session command.
Wire == [request : Request, meant : Targets \cup {Functional},
         header : Targets \cup {Functional}, filter : Targets \cup {None},
         clean : BOOLEAN, heard : SUBSET Targets]

Session == [header : Targets \cup {Functional}, filter : Targets \cup {None},
            fresh : BOOLEAN, headers : BOOLEAN,
            configured : Targets \cup {None}, dirty : BOOLEAN,
            supported : SUBSET Pids, wire : SUBSET Wire]

\* "ok"        the expected answer
\* "refused"   a negative response from the expected ECU (7F 10 xx)
\* "rejected"  readable, but not from the expected ECU or not what was asked
\* "malformed" an answer that cannot be normalised
\* "lost"      the exchange itself failed
\* "failed"    the adapter was not set up, or the request was not made
Reply == {"ok", "refused", "rejected", "malformed", "lost", "failed"}

Outcome(s, reply) == [session |-> s, reply |-> reply]
Ok(r) == r.reply = "ok"
After(rs, F(_)) == {r \in rs : ~Ok(r)} \cup UNION {F(r.session) : r \in {q \in rs : Ok(q)}}

\* ElmSession::new on an adapter that has just been powered up.
NewSession ==
  [header |-> Functional, filter |-> None, fresh |-> TRUE, headers |-> FALSE,
   configured |-> None, dirty |-> FALSE, supported |-> {}, wire |-> {}]
-----------------------------------------------------------------------------
(***************************************************************************)
(* Exchanges.                                                              *)
(***************************************************************************)
\* An AT command: carried out and acknowledged; carried out but its OK was
\* lost or garbled; not carried out.
AtCommand(s, done) == {Outcome(done, "ok"), Outcome(done, "failed"), Outcome(s, "failed")}

ListeningAt(header) == IF header = Functional THEN Targets ELSE {header}
CanAnswer(s, to) ==
  to \in Targets => /\ s.headers
                    /\ s.header \in {to, Functional}
                    /\ s.filter \in {to, None}

Sent(s, request, to, heard) ==
  [s EXCEPT !.wire = @ \cup
     {[request |-> request, meant |-> to, header |-> s.header, filter |-> s.filter,
       clean |-> s.fresh /\ s.headers, heard |-> heard]}]

\* A diagnostic request that changes nothing in the vehicle.
Ask(s, request, to) ==
  LET sent == Sent(s, request, to, {})
  IN  {Outcome(sent, reply) :
         reply \in {"rejected", "malformed", "lost"} \cup
                   (IF CanAnswer(s, to) THEN {"ok"} ELSE {})}

\* A session command: it may be carried out whatever becomes of its answer.
\* A positive answer of the ECU says that it was, a negative one that it was
\* not, unless it is the "response pending" of an ECU that switches later.
\* 3E 80 suppresses its answer: NO DATA says nothing about the ECU.
Command(s, request, to) ==
  UNION {LET sent == Sent(s, request, to, heard)
         IN  {Outcome(sent, reply) : reply \in {"rejected", "malformed", "lost"}}
             \cup (IF request = "present" \/ (CanAnswer(s, to) /\ to \in heard)
                   THEN {Outcome(sent, "ok")} ELSE {})
             \cup (IF CanAnswer(s, to) /\ (to \notin heard \/ (AnswersPending /\ request = "enter"))
                   THEN {Outcome(sent, "refused")} ELSE {})
         : heard \in SUBSET ListeningAt(s.header)}
-----------------------------------------------------------------------------
(***************************************************************************)
(* Setting up the adapter.                                                 *)
(***************************************************************************)
ConfigureTarget(s, t) ==
  After(AtCommand(s, [s EXCEPT !.header = t, !.fresh = FALSE]),
        LAMBDA u : AtCommand(u, [u EXCEPT !.filter = t]))

RestoreFunctional(s) ==
  After(AtCommand(s, [s EXCEPT !.header = Functional]),
        LAMBDA u : AtCommand(u, [u EXCEPT !.filter = None]))

\* ATZ; then ATE0, ATL0, ATS1, which change nothing modelled; ATH1; ATSP0.
InitializeElm(s) ==
  After(AtCommand(s, [s EXCEPT !.header = Functional, !.filter = None,
                               !.fresh = TRUE, !.headers = FALSE]),
        LAMBDA u : After(AtCommand(u, u),
        LAMBDA v : After(AtCommand(v, [v EXCEPT !.headers = TRUE]),
        LAMBDA w : AtCommand(w, w))))

\* The support pages replace the known ones only when all were read.
DiscoverSupport(s) ==
  {r \in Ask(s, "discover", Functional) : ~Ok(r)} \cup
  {Outcome([Sent(s, "discover", Functional, {}) EXCEPT !.supported = pids], "ok") :
     pids \in SUBSET Pids}

\* Mutant: what is known about the adapter is forgotten before it is reset.
ReinitializeForgetful(s) ==
  After(InitializeElm([s EXCEPT !.dirty = FALSE, !.configured = None]), DiscoverSupport)

Reinitialize(s) ==
  After(After(InitializeElm(s), DiscoverSupport),
        LAMBDA u : {Outcome([u EXCEPT !.dirty = FALSE, !.configured = None], "ok")})

EnsureFunctional(s) == IF s.dirty THEN Reinitialize(s) ELSE {Outcome(s, "ok")}

\* Mutants: any remembered target will do; the target is remembered before
\* the adapter has accepted it.
AtAnyTarget(s, t) ==
  LET d == [s EXCEPT !.dirty = TRUE]
  IN  IF d.configured # None THEN {Outcome(d, "ok")}
      ELSE {IF Ok(r) THEN Outcome([r.session EXCEPT !.configured = t], "ok") ELSE r :
              r \in ConfigureTarget(d, t)}
AtTargetEarly(s, t) ==
  LET d == [s EXCEPT !.dirty = TRUE]
  IN  IF d.configured = t THEN {Outcome(d, "ok")}
      ELSE ConfigureTarget([d EXCEPT !.configured = t], t)

\* The prologue of every targeted read that leaves its target configured.
AtTarget(s, t) ==
  LET d == [s EXCEPT !.dirty = TRUE]
  IN  IF d.configured = t THEN {Outcome(d, "ok")}
      ELSE {IF Ok(r) THEN Outcome([r.session EXCEPT !.configured = t], "ok") ELSE r :
              r \in ConfigureTarget([d EXCEPT !.configured = None], t)}

\* The target is forgotten after a reply that leaves the adapter unknown.
Forgetting(replies, rs) ==
  {IF r.reply \in replies THEN Outcome([r.session EXCEPT !.configured = None], r.reply) ELSE r :
     r \in rs}
-----------------------------------------------------------------------------
(***************************************************************************)
(* The operations, as outcomes of a session whose wire is empty.           *)
(***************************************************************************)
RestoreFunctionalAddressing(s) ==
  RestoreFunctional([s EXCEPT !.configured = None, !.dirty = TRUE])

\* establish_protocol, validate_functional_support, read_stored_dtcs and
\* read_functional_ecu_serials: one functional request each.
FunctionalRead(s) == After(EnsureFunctional(s), LAMBDA u : Ask(u, "read", Functional))

\* 01 00 to settle the protocol, then 09 02.
Identify(s) == After(FunctionalRead(s), LAMBDA u : Ask(u, "read", Functional))

ReadWithEvidence(s, pid) ==
  After(EnsureFunctional(s),
        LAMBDA u : IF pid \in u.supported THEN Ask(u, "read", Functional)
                                          ELSE {Outcome(u, "failed")})

ReadTargeted(s, t) ==
  After(AtTarget(s, t), LAMBDA u : Forgetting({"lost", "malformed"}, Ask(u, "read", t)))

\* read_multi_targeted_with_evidence and read_did_once: an answer that cannot
\* be normalised does not make the adapter unknown.
ReadOnce(s, t) ==
  After(AtTarget(s, t), LAMBDA u : Forgetting({"lost"}, Ask(u, "read", t)))

UdsSessionCommand(s, command, t) ==
  After(AtTarget(s, t), LAMBDA u : Forgetting({"lost"}, Command(u, command, t)))

\* read_mode09 and read_ecu_identification restore functional addressing
\* themselves, however the setup and the read went.
Restored(r) ==
  {Outcome(q.session, IF Ok(q) THEN r.reply ELSE "failed") : q \in RestoreFunctional(r.session)}

ReadAndRestore(s, t) ==
  UNION {Restored(r) :
           r \in After(ConfigureTarget([s EXCEPT !.configured = None, !.dirty = TRUE], t),
                       LAMBDA u : Ask(u, "read", t))}
=============================================================================
