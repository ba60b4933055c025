-------------------------- MODULE MCCaptureFile --------------------------
EXTENDS CaptureFile

Plan == <<"engine.rpm", "engine.coolant_temperature">>

Bytes(responder, payload) ==
    [responder |-> responder, payload |-> payload, error |-> <<"invalid", Quote, "\n">>, fatal |-> FALSE]

\* An answer to the first signal's request, which does not fit the second's;
\* the adapter is silent; the session is lost.
MCReplies ==
    {Bytes(<<<<"7E8">>>>, <<65, 12, 0, 5>>),
     [responder |-> <<>>, payload |-> <<>>, error |-> <<"no data", "esc">>, fatal |-> FALSE],
     [responder |-> <<>>, payload |-> <<>>, error |-> <<"lost">>, fatal |-> TRUE]}

Answers(responses, errors) == [kind |-> "answers", responses |-> responses, errors |-> errors]
Answer(responder, payload) == [responder |-> responder, payload |-> payload]

\* Stored codes of two responders, one of them with padding; none; an answer
\* that is malformed; an error text that is too long to be recorded.
MCScanReplies ==
    {Answers(<<Answer(<<<<"7E9">>>>, <<67, 1, 35, 193, 0>>), Answer(<<<<"7E8">>>>, <<67, 1, 35, 1, 35, 0, 0>>)>>, <<>>),
     Answers(<<Answer(<<>>, <<67, 0>>)>>, <<>>),
     Answers(<<Answer(<<<<"7E8">>>>, <<67, 0, 0, 1, 35>>)>>, <<[responder |-> <<>>, error |-> <<"short">>]>>),
     Answers(<<>>, <<[responder |-> <<>>, error |-> [i \in 1 .. MaxText + 1 |-> "x"]]>>),
     [kind |-> "error", responses |-> <<>>, errors |-> <<>>],
     [kind |-> "fatal", responses |-> <<>>, errors |-> <<>>]}

MCNegotiations == {<<>>, <<Answer(<<<<"7E8">>>>, <<65, 0, 24, 59, 160, 1>>)>>}

MCResponderOrder == <<<<"7E8">>, <<"7E9">>>>
=============================================================================
