--------------------------- MODULE MCVehicleCache ---------------------------
EXTENDS VehicleCache

MCCatalogPids == {12, 13, 33, 66, 97, 166}

Page(responder, page, bytes) ==
    [request |-> <<1, page>>, responder |-> responder, payload |-> <<65, page>> \o bytes]

Engine == <<"7E8">>
Gearbox == <<"7E9">>

\* The engine alone; with the gearbox, which reports the speed, and a second
\* page; the gearbox alone.  The second vehicle's adapter shows no headers.
FirstVehicle ==
    { {Page(Engine, 0, <<24, 24, 0, 16>>)},
      {Page(Engine, 0, <<24, 24, 0, 17>>), Page(Gearbox, 0, <<0, 8, 0, 0>>),
       Page(Engine, 32, <<128, 0, 0, 0>>)},
      {Page(Gearbox, 0, <<0, 8, 0, 0>>)} }

MCVehicles == ("v1" :> FirstVehicle) @@ ("v2" :> {{Page(<<>>, 0, <<24, 24, 0, 16>>)}})

MCSymmetry == Permutations(Processes)

MCPlan == << [semantic |-> <<"serial">>, definition |-> <<"d", "\t">>, version |-> 1, did |-> <<241, 140>>] >>

MCReplies ==
    { [kind |-> "answer", answers |-> <<[responder |-> <<>>, payload |-> <<127, 34, 51>>]>>,
       failures |-> <<[responder |-> Engine, error |-> <<"\\">>]>>] }

MCProviders ==
    {[name |-> <<"gateway">>, version |-> 1,
      scope |-> [manufacturer |-> << <<"vw">> >>, platform |-> << <<"pq35">> >>],
      provenance |-> Sourced("docs", "high"), status |-> "blocked", coverage |-> "unknown",
      references |-> {<<"issue">>}, entries |-> {}]}

\* The files of the older versions: history only, a mapping without a role,
\* one with a role.
OldHead(v) == << <<v>>, Line("local_key", <<KeyText(1)>>), Line("first_seen_ms", <<Decimal[0]>>),
                 Line("last_seen_ms", <<Decimal[1]>>), Line("evidence", << <<"a", "\\", "t">> >>) >>
OldPage == [request |-> <<1, 0>>, payload |-> <<65, 0, 24, 24, 0, 16>>,
            provenance |-> Sourced("support discovery", "high"), responder |-> Opaque(Engine)]
OldBody(fields) ==
    << Line("topology", EncodeTopologyObservation(CHOOSE o \in Topology({OldPage}) : TRUE)),
       Line("capability", <<Decimal[0]>> \o EncodeResponder(Opaque(Engine))),
       Line("capability_page", <<Decimal[0]>> \o EncodeCapabilityPage(OldPage)),
       Line("target_mapping", fields) >>

OldFile(lines, pages) ==
    [index |-> << <<[vin |-> "v1", key |-> 1]>> >>, record |-> <<lines>>, answers |-> pages, vin |-> "v1"]

MCFirstFiles ==
    { [index |-> <<>>, record |-> <<>>, answers |-> {}, vin |-> "v1"],
      OldFile(OldHead("version 1"), {}),
      OldFile(OldHead("version 2") \o OldBody(Tail(EncodeTargetMapping(SecondaryTarget))), {OldPage}),
      OldFile(OldHead("version 4") \o OldBody(EncodeTargetMapping(EngineTarget)), {OldPage}) }

MCVinSymbols == {"7E8", "7E9"}
MCRepository == <<"repo">>
MCRevision == <<"rev">>

=============================================================================
