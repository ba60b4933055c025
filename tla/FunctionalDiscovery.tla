------------------------- MODULE FunctionalDiscovery -------------------------
(***************************************************************************)
(* What the support pages of Mode 01 say about the ECUs that answered      *)
(* them, and the physical targets that are tried because of it.  A page is *)
(* the observation of one responder's answer 41 <page> <4 bytes of bits>.  *)
(***************************************************************************)
EXTENDS Integers, Sequences, FiniteSets

CONSTANT CatalogPids    \* the PIDs of the signal catalogue

FunctionalContext == [protocol |-> <<"obd2">>, addressing |-> <<"functional">>]
PhysicalContext == [protocol |-> <<"obd2">>, addressing |-> <<"physical">>]

Opaque(value) == [context |-> FunctionalContext, kind |-> "opaque", value |-> value]
Unidentified == [context |-> FunctionalContext, kind |-> "unknown", value |-> <<>>]
Address(value) == [context |-> PhysicalContext, kind |-> "address", value |-> value]

Sourced(source, confidence) == [source |-> <<source>>, confidence |-> confidence]

\* The page a PID's catalogue entry falls on, and the page its bit is on.
PageOf(pid) == 32 * (pid \div 32)
BitPage(pid) == PageOf(pid - 1)

KnownPages == {0} \cup {PageOf(pid) : pid \in CatalogPids}
HighestPage == BitPage(CHOOSE p \in CatalogPids : \A q \in CatalogPids : q <= p)

Bit(payload, n) == (payload[3 + (n \div 8)] \div 2 ^ (7 - (n % 8))) % 2 = 1
AdvertisesContinuation(page) == Bit(page.payload, 31)

\* The pages the adapter session walks to: each as long as some responder
\* of the page before announces it.
WalkedPages(answers) ==
    {p \in {32 * n : n \in 0..7} :
        /\ p <= HighestPage
        /\ \A q \in {32 * n : n \in 0..7} : q < p =>
            \E a \in answers : a.request[2] = q /\ AdvertisesContinuation(a)}

\* from_support_discovery: a page that is not on the list fails everything.
Accepted(page) ==
    /\ page.request[1] = 1 /\ page.request[2] \in KnownPages
    /\ Len(page.payload) = 6 /\ SubSeq(page.payload, 1, 2) = <<65, page.request[2]>>

FromSupportDiscovery(answers) ==
    [ok |-> \A a \in answers : Accepted(a),
     pages |-> {[request |-> a.request, payload |-> a.payload,
                 responder |-> IF a.responder = <<>> THEN Unidentified ELSE Opaque(a.responder),
                 provenance |-> Sourced("support discovery", "high")] : a \in answers}]

Responders(pages) == {p.responder : p \in pages}

Capability(pages, responder) ==
    [responder |-> responder,
     pages |-> {[request |-> p.request, payload |-> p.payload, provenance |-> p.provenance]
                 : p \in {q \in pages : q.responder = responder}}]

Capabilities(pages) == {Capability(pages, r) : r \in Responders(pages)}

\* Several answers of one responder to one page must agree.
Agreed(bits, all, none) ==
    IF bits = {TRUE} THEN all ELSE IF bits = {FALSE} THEN none ELSE "Unknown"

\* pid_status: an unseen page is unsupported when the page before says so.
PidStatus(capability, pid) ==
    LET On(page) == {q \in capability.pages : q.request[2] = page}
        bits == {Bit(p.payload, (pid - 1) % 32) : p \in On(BitPage(pid))}
        more == {AdvertisesContinuation(p) : p \in On(BitPage(pid) - 32)}
    IN  IF bits # {} THEN Agreed(bits, "Supported", "Unsupported")
        ELSE IF more = {FALSE} THEN "Unsupported" ELSE "Unknown"

\* status: whether a responder's page was observed, and if not, why.
PageStatus(pages, responder, page) ==
    LET Of(n) == {p \in pages : p.request[2] = n /\ p.responder = responder}
        more == {AdvertisesContinuation(p) : p \in Of(page - 32)}
    IN  IF Of(page) # {} THEN "Observed"
        ELSE Agreed(more, "NotObserved", "Unsupported")

NextRequests(pages) ==
    {<<1, page>> : page \in {n \in KnownPages \ {0} :
                              \E r \in Responders(pages) : PageStatus(pages, r, n) = "NotObserved"}}

\* Every answer is an observation of its own; nothing gets a role.
Topology(pages) ==
    {[context |-> FunctionalContext, responder |-> p.responder, payload |-> <<p.payload>>,
      window |-> <<>>, provenance |-> p.provenance] : p \in pages}

-----------------------------------------------------------------------------
(* observed_inventory.rs *)

Physical(header) ==
    [context |-> PhysicalContext, address |-> <<[namespace |-> <<"elm-header">>, value |-> <<header>>]>>]

EngineTarget ==
    LET p == Sourced("targeted engine.rpm validation", "verified")
    IN  [role |-> <<[role |-> <<"engine">>, provenance |-> p]>>, responder |-> <<Address(<<"7E8">>)>>,
         target |-> Physical("7E0"), provenance |-> p]

SecondaryTarget ==
    [role |-> <<>>, responder |-> <<Address(<<"7E9">>)>>, target |-> Physical("7E1"),
     provenance |-> Sourced("targeted vehicle.speed validation", "verified")]

EngineResponderObserved(pages) == Opaque(<<"7E8">>) \in Responders(pages)

SecondaryTargetAllowed(pages) ==
    /\ Opaque(<<"7E9">>) \in Responders(pages)
    /\ PidStatus(Capability(pages, Opaque(<<"7E9">>)), 13) = "Supported"

\* What the two targeted reads, if they are made, leave behind; without the
\* engine's the whole discovery fails.
TargetMappings(pages, engineReads, secondaryReads) ==
    [ok |-> EngineResponderObserved(pages) => engineReads,
     mappings |-> IF ~EngineResponderObserved(pages) THEN {}
                  ELSE {EngineTarget} \cup
                       (IF SecondaryTargetAllowed(pages) /\ secondaryReads THEN {SecondaryTarget} ELSE {})]

=============================================================================
