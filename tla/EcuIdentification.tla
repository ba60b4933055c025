------------------------- MODULE EcuIdentification --------------------------
(***************************************************************************)
(* The bounded identification of ECUs whose physical target is known: one  *)
(* ReadDataByIdentifier per candidate of the knowledge set, and the one    *)
(* observation that is kept of it, whatever the adapter and the ECUs       *)
(* answer.                                                                 *)
(***************************************************************************)
EXTENDS Integers, Sequences, FiniteSets, SequencesExt

CONSTANTS
    Repository, Revision    \* the pin of the knowledge the plan came from

VinDid == <<241, 144>>

\* from_catalog: every member resolves, and the VIN is never one of them.
PlanAccepted(set) == set # <<>> /\ \A i \in DOMAIN set : set[i].resolved /\ set[i].did # VinDid

\* validate_response of UDS 22: a value, a negative response or an error.
ValidateResponse(payload, did) ==
    LET negative == Len(payload) >= 2 /\ payload[1] = 127 /\ payload[2] = 34 IN
    CASE negative /\ Len(payload) = 3 -> [kind |-> "negative", nrc |-> payload[3]]
      [] ~negative /\ Len(payload) > 3 /\ payload[1] = 98 /\ SubSeq(payload, 2, 3) = did ->
            [kind |-> "value", value |-> SubSeq(payload, 4, Len(payload))]
      [] OTHER -> [kind |-> "malformed"]

StatusForNrc(nrc) ==
    CASE nrc \in {17, 49} -> "unsupported"
      [] nrc \in {34, 51, 126, 127} -> "unavailable"
      [] OTHER -> "negative_response"

\* Only well-founded targets with a responder of their own are asked.
Eligible(mapping) ==
    /\ mapping.provenance.confidence \in {"high", "verified"}
    /\ mapping.target.address # <<>>
    /\ mapping.responder # <<>> /\ mapping.responder[1].kind # "unknown"

EligibleMappings(mappings) == {m \in mappings : Eligible(m)}

Observation(candidate, mapping, status, responses, nrc, value, errors) ==
    [target |-> mapping.target, expected |-> mapping.responder[1],
     semantic |-> candidate.semantic, definition |-> candidate.definition,
     version |-> candidate.version, repository |-> Repository, revision |-> Revision,
     request |-> <<34>> \o candidate.did, status |-> status, responses |-> responses,
     nrc |-> nrc, value |-> value, errors |-> errors]

\* The verdict on what came back: `answers' is a sequence of payloads with
\* their responder, `failures' of errors with theirs (<<>>: the adapter's).
Verdict(candidate, expected, answers, failures) ==
    LET matching == SelectSeq(answers, LAMBDA a : a.responder = expected)
        broken == \E i \in DOMAIN failures : failures[i].responder = expected
        rejected == answers = <<>> /\ \E i \in DOMAIN failures :
                        failures[i].responder = <<>> /\ failures[i].error = <<"rejected">>
        read == IF matching = <<>> THEN [kind |-> "malformed"]
                ELSE ValidateResponse(matching[1].payload, candidate.did)
    IN  CASE matching = <<>> ->
                [status |-> IF ~rejected /\ (broken \/ answers # <<>>) THEN "malformed" ELSE "unavailable",
                 nrc |-> <<>>, value |-> <<>>, errors |-> << <<"no answer">> >>]
          [] matching # <<>> /\ (broken \/ \E i \in DOMAIN matching : matching[i].payload # matching[1].payload) ->
                [status |-> "malformed", nrc |-> <<>>, value |-> <<>>, errors |-> << <<"conflict">> >>]
          [] OTHER ->
                CASE read.kind = "value" ->
                        [status |-> "supported", nrc |-> <<>>, value |-> <<read.value>>, errors |-> <<>>]
                  [] read.kind = "negative" ->
                        [status |-> StatusForNrc(read.nrc), nrc |-> <<read.nrc>>, value |-> <<>>, errors |-> <<>>]
                  [] OTHER ->
                        [status |-> "malformed", nrc |-> <<>>, value |-> <<>>, errors |-> << <<"malformed">> >>]

\* An error's text names the responder it is about.
ErrorText(f) == (IF f.responder = <<>> THEN <<>> ELSE <<"responder ">> \o f.responder \o <<": ">>) \o f.error

Classified(candidate, mapping, answers, failures) ==
    LET expected == mapping.responder[1].value
        v == Verdict(candidate, expected, answers, failures)
        Evidence(a) == [responder |-> IF a.responder = <<>> THEN <<>>
                                      ELSE <<[context |-> mapping.target.context, kind |-> "address",
                                              value |-> a.responder]>>,
                        payload |-> a.payload]
    IN  Observation(candidate, mapping, v.status, [i \in DOMAIN answers |-> Evidence(answers[i])],
                    v.nrc, v.value, [i \in DOMAIN failures |-> ErrorText(failures[i])] \o v.errors)

TransportFailure(candidate, mapping, error) ==
    Observation(candidate, mapping, IF error = "timeout" THEN "timeout" ELSE "transport_error",
                <<>>, <<>>, <<>>, << <<error>> >>)

NotProbed(candidate, mapping) ==
    Observation(candidate, mapping, "not_probed", <<>>, <<>>, <<>>, << <<"session unavailable">> >>)

\* One reply of the session to one request: answers and failures, or an
\* error, which may be the end of the session.
Outcome(candidate, mapping, reply) ==
    IF reply.kind = "error" THEN TransportFailure(candidate, mapping, reply.error)
                            ELSE Classified(candidate, mapping, reply.answers, reply.failures)

\* discover_known_ecus: `replies' are the session's in the order of the
\* requests; after a fatal one nothing more is asked, and that is recorded.
DiscoverKnownEcus(plan, mappings, replies) ==
    LET targets == SetToSeq(EligibleMappings(mappings))
        Request(n) == [mapping |-> targets[((n - 1) \div Len(plan)) + 1],
                       candidate |-> plan[((n - 1) % Len(plan)) + 1]]
        Lost(n) == \E k \in 1..(n - 1) : replies[k].kind = "error" /\ replies[k].fatal
    IN  {LET r == Request(n) IN
         IF Lost(n) THEN NotProbed(r.candidate, r.mapping) ELSE Outcome(r.candidate, r.mapping, replies[n])
         : n \in 1..(Len(targets) * Len(plan))}

=============================================================================
