---------------------------- MODULE VehicleCache ----------------------------
(***************************************************************************)
(* The vehicle cache on the disk and the commands that use it, as separate *)
(* processes: `vehicle discover', with and without --refresh, `vehicle     *)
(* show', and the routing of a read or a capture.  A file is written to a  *)
(* temporary name and renamed; a process may crash between any two steps.  *)
(***************************************************************************)
EXTENDS VehicleCodec, FunctionalDiscovery, EcuIdentification

CONSTANTS
    Processes,
    Vins,
    Keys,           \* the local keys, numbered in the order they are drawn
    Vehicles,       \* the answers each vehicle may give: sets of support pages
    Plan,           \* the candidates of the identification set
    Replies,        \* what the session may report of one identification read
    Providers,      \* reviewed_topology_provider_results
    Times,          \* what the wall clock may show
    FirstFiles,     \* record files of older versions that may be there
    MaxCommands     \* bound: how many commands are run

VARIABLES
    vehicle,    \* the answers of each vehicle
    disk,       \* index, indexTmp, record[k], recordTmp[k]: <<>> or <<content>>
    proc,       \* each process's command and what it knows
    drawn,      \* how many keys were drawn
    commands,   \* how many commands were started
    saved       \* history: every record saved under a key, with its vehicle's answers

vars == <<vehicle, disk, proc, drawn, commands, saved>>

Idle == [pc |-> "idle", cmd |-> "none", vin |-> "none", key |-> <<>>, existing |-> <<>>,
         pages |-> {}, mappings |-> {}, identification |-> {}, record |-> <<>>, entries |-> <<>>,
         listed |-> {}, result |-> "none"]

Put(p, fields) == proc' = [proc EXCEPT ![p] = fields @@ @]
End(p, result) == proc' = [proc EXCEPT ![p] = [Idle EXCEPT !.result = result]]

-----------------------------------------------------------------------------
(* The index: VINs and their keys, one line each. *)

ParseIndex(file) ==
    [ok |-> file = <<>> \/ \A i, j \in DOMAIN file[1] :
                i # j => file[1][i].vin # file[1][j].vin /\ file[1][i].key # file[1][j].key,
     entries |-> IF file = <<>> THEN <<>> ELSE file[1]]

KeyFor(entries, vin) ==
    LET found == SelectSeq(entries, LAMBDA e : e.vin = vin)
    IN  IF found = <<>> THEN <<>> ELSE <<found[1].key>>

\* Mutant: the new key is the next one after those in the index.
NextKey(entries) == Len(entries) + 1

RandomKey(entries) == drawn + 1

KeyText(k) == <<"key">> \o Decimal[k]

-----------------------------------------------------------------------------
(* Snapshots and their validation. *)

\* What the adapter hears when the support pages are walked.
Heard(answers) == {a \in answers : a.request[2] \in WalkedPages(answers)}
HeardFirst(answers) == {a \in answers : a.request[2] = 0}

FromDiscovery(pages) ==
    [EmptySnapshot EXCEPT !.topology = Topology(pages), !.capabilities = Capabilities(pages)]

\* Mutant: the signature is everything that was discovered.
SignatureOfAll(s) == [topology |-> s.topology, capabilities |-> s.capabilities]

\* Only what a single 01 00 can confirm is compared.
ValidationSignature(s) ==
    LET First(c) == [c EXCEPT !.pages = {p \in @ : p.request = <<1, 0>>}]
    IN  [topology |-> {o \in s.topology : o.payload # <<>> /\ SubSeq(o.payload[1], 1, 2) = <<65, 0>>},
         capabilities |-> {First(c) : c \in {d \in s.capabilities : First(d).pages # {}}}]

\* Mutant: an ECU that went missing is not noticed.
ValidateUnexpectedOnly(record, observed) ==
    IF ~observed.ok THEN "TransportError"
    ELSE LET expected == ValidationSignature(record.snapshot)
             seen == ValidationSignature(FromDiscovery(observed.pages))
         IN  IF seen.topology \subseteq expected.topology /\ seen.capabilities \subseteq expected.capabilities
             THEN "Validated" ELSE "Stale"

Validation(record, observed) ==
    IF ~observed.ok THEN "TransportError"
    ELSE IF ValidationSignature(record.snapshot) = ValidationSignature(FromDiscovery(observed.pages))
         THEN "Validated" ELSE "Stale"

\* The text that is kept of an observation.
EvidenceText(page) == <<"functional">> \o page.responder.value \o Hex(page.payload)

\* Mutant: only a validated record's history is carried on.
NewRecordAlone(p, key, now) ==
    [key |-> KeyText(key), first |-> now, last |-> now,
     snapshot |-> [FromDiscovery(proc[p].pages) EXCEPT
                    !.mappings = proc[p].mappings, !.identification = proc[p].identification,
                    !.providers = Providers],
     history |-> {EvidenceText(o) : o \in proc[p].pages}]

\* The record that replaces the one read at the start of the command.
NewRecord(p, key, now) ==
    LET old == proc[p].existing IN
    [key |-> KeyText(key), first |-> IF old = <<>> THEN now ELSE old[1].first, last |-> now,
     snapshot |-> [FromDiscovery(proc[p].pages) EXCEPT
                    !.mappings = proc[p].mappings, !.identification = proc[p].identification,
                    !.providers = Providers],
     history |-> UNION {r.history : r \in Range(old)} \cup {EvidenceText(o) : o \in proc[p].pages}]

\* CacheStore::load: no file, a record, or an error.
Load(k) == IF disk.record[k] = <<>> THEN Got(<<>>, 0)
           ELSE Then(ParseRecord(disk.record[k][1], KeyText(k)), LAMBDA r, i : Got(<<r>>, i))

-----------------------------------------------------------------------------
Init ==
    /\ vehicle \in {f \in [Vins -> UNION Range(Vehicles)] : \A v \in Vins : f[v] \in Vehicles[v]}
    /\ \E f \in FirstFiles :
        /\ disk = [index |-> f.index, indexTmp |-> <<>>,
                   record |-> [k \in Keys |-> IF k \in DOMAIN f.record THEN <<f.record[k]>> ELSE <<>>],
                   recordTmp |-> [k \in Keys |-> <<>>]]
        /\ drawn = Cardinality(DOMAIN f.record)
        /\ saved = [k \in Keys |->
                      IF k \in DOMAIN f.record
                      THEN {[record |-> ParseRecord(f.record[k], KeyText(k)).v,
                             answers |-> f.answers, vin |-> f.vin]}
                      ELSE {}]
    /\ proc = [p \in Processes |-> Idle]
    /\ commands = 0

Start(p) ==
    /\ proc[p].pc = "idle" /\ commands < MaxCommands
    /\ \E v \in Vins, cmd \in {"discover", "refresh", "route"} :
        Put(p, [pc |-> "identified", cmd |-> cmd, vin |-> v, result |-> "none"])
    /\ commands' = commands + 1
    /\ UNCHANGED <<vehicle, disk, drawn, saved>>

\* index.key_for, with the VIN the vehicle was just identified by.
LookUp(p) ==
    /\ proc[p].pc = "identified"
    /\ LET index == ParseIndex(disk.index)
           key == KeyFor(index.entries, proc[p].vin)
       IN  CASE ~index.ok -> End(p, "failed")
             [] index.ok /\ key # <<>> -> Put(p, [pc |-> "keyed", key |-> key])
             [] OTHER -> IF proc[p].cmd = "route" THEN End(p, "functional")
                                                 ELSE Put(p, [pc |-> "scanning"])
    /\ UNCHANGED <<vehicle, disk, drawn, commands, saved>>

LoadExisting(p) ==
    /\ proc[p].pc = "keyed"
    /\ \E loaded \in {Load(proc[p].key[1])} :
        CASE ~loaded.ok -> End(p, "failed")
          [] loaded.ok /\ loaded.v = <<>> /\ proc[p].cmd = "route" -> End(p, "functional")
          [] OTHER -> Put(p, [existing |-> loaded.v,
                              pc |-> IF loaded.v = <<>> \/ proc[p].cmd = "refresh"
                                     THEN "scanning" ELSE "loaded"])
    /\ UNCHANGED <<vehicle, disk, drawn, commands, saved>>

\* The engine's reads are routed to its target, everything else broadcast.
Routed(record) ==
    IF \E m \in record.snapshot.mappings :
          m.role # <<>> /\ m.responder # <<>> /\ m.role[1].role = <<"engine">>
    THEN "targeted" ELSE "functional"

\* One 01 00 is compared with the record; it may fail.
Validate(p) ==
    /\ proc[p].pc = "loaded"
    /\ \E up \in BOOLEAN :
        LET record == proc[p].existing[1]
            heard == FromSupportDiscovery(HeardFirst(vehicle[proc[p].vin]))
            verdict == Validation(record, [heard EXCEPT !.ok = up /\ @])
        IN  CASE proc[p].cmd = "route" ->
                    End(p, IF verdict = "Validated" THEN Routed(record) ELSE "functional")
              [] verdict = "Validated" /\ record.snapshot.mappings # {}
                                       /\ record.snapshot.identification # {} -> End(p, "reused")
              [] OTHER -> Put(p, [pc |-> "scanning"])
    /\ UNCHANGED <<vehicle, disk, drawn, commands, saved>>

\* The session: support pages, physical targets, identification.  Nothing of
\* it is kept unless all of it and the shutdown succeed.
Discover(p) ==
    /\ proc[p].pc = "scanning"
    /\ LET found == FromSupportDiscovery(Heard(vehicle[proc[p].vin])) IN
        \/ End(p, "failed")
        \/ /\ found.ok
           /\ \E speed \in BOOLEAN :
              LET mapped == TargetMappings(found.pages, TRUE, speed)
              IN  \E replies \in [1..(Cardinality(EligibleMappings(mapped.mappings)) * Len(Plan)) -> Replies] :
                    Put(p, [pc |-> "found", pages |-> found.pages, mappings |-> mapped.mappings,
                            identification |-> DiscoverKnownEcus(Plan, mapped.mappings, replies)])
    /\ UNCHANGED <<vehicle, disk, drawn, commands, saved>>

\* key_for_or_create reads the index once more.
CreateKey(p) ==
    /\ proc[p].pc = "found"
    /\ LET index == ParseIndex(disk.index)
           key == KeyFor(index.entries, proc[p].vin)
           new == RandomKey(index.entries)
       IN  CASE ~index.ok -> End(p, "failed") /\ UNCHANGED drawn
             [] index.ok /\ key # <<>> -> Put(p, [pc |-> "stored", key |-> key]) /\ UNCHANGED drawn
             [] OTHER -> /\ Put(p, [pc |-> "indexing", key |-> <<new>>,
                                    entries |-> Append(index.entries, [vin |-> proc[p].vin, key |-> new])])
                         /\ drawn' = drawn + 1
    /\ UNCHANGED <<vehicle, disk, commands, saved>>

\* A temporary file is only ever created, never opened again.
OpenIndex(p) ==
    /\ proc[p].pc = "indexing"
    /\ \/ disk.indexTmp # <<>> /\ End(p, "failed") /\ UNCHANGED disk
       \/ /\ disk.indexTmp = <<>>
          /\ disk' = [disk EXCEPT !.indexTmp = << <<>> >>]
          /\ Put(p, [pc |-> "index open"])
    /\ UNCHANGED <<vehicle, drawn, commands, saved>>

WriteIndex(p) ==
    /\ proc[p].pc = "index open"
    /\ \/ disk' = [disk EXCEPT !.indexTmp = <<proc[p].entries>>] /\ Put(p, [pc |-> "index written"])
       \/ disk' = [disk EXCEPT !.indexTmp = <<>>] /\ End(p, "failed")
    /\ UNCHANGED <<vehicle, drawn, commands, saved>>

RenameIndex(p) ==
    /\ proc[p].pc = "index written"
    /\ \/ disk' = [disk EXCEPT !.index = disk.indexTmp, !.indexTmp = <<>>] /\ Put(p, [pc |-> "stored"])
       \/ disk' = [disk EXCEPT !.indexTmp = <<>>] /\ End(p, "failed")
    /\ UNCHANGED <<vehicle, drawn, commands, saved>>

Prepare(p) ==
    /\ proc[p].pc = "stored"
    /\ \E now \in Times :
        LET record == NewRecord(p, proc[p].key[1], now)
        IN  IF ValidRecord(record) /\ disk.recordTmp[proc[p].key[1]] = <<>>
            THEN /\ Put(p, [pc |-> "open", record |-> <<record>>])
                 /\ disk' = [disk EXCEPT !.recordTmp[proc[p].key[1]] = << <<>> >>]
            ELSE End(p, "failed") /\ UNCHANGED disk
    /\ UNCHANGED <<vehicle, drawn, commands, saved>>

\* Mutant: the record is written where it is read.
WriteInPlace(p) ==
    /\ proc[p].pc = "open"
    /\ disk' = [disk EXCEPT !.record[proc[p].key[1]] = <<SubSeq(EncodeRecord(proc[p].record[1]), 1, 4)>>,
                            !.recordTmp[proc[p].key[1]] = <<EncodeRecord(proc[p].record[1])>>]
    /\ Put(p, [pc |-> "written"])
    /\ UNCHANGED <<vehicle, drawn, commands, saved>>

\* Written, flushed and synced, or removed.
Write(p) ==
    /\ proc[p].pc = "open"
    /\ \/ /\ disk' = [disk EXCEPT !.recordTmp[proc[p].key[1]] = <<EncodeRecord(proc[p].record[1])>>]
          /\ Put(p, [pc |-> "written"])
       \/ disk' = [disk EXCEPT !.recordTmp[proc[p].key[1]] = <<>>] /\ End(p, "failed")
    /\ UNCHANGED <<vehicle, drawn, commands, saved>>

Rename(p) ==
    /\ proc[p].pc = "written"
    /\ LET k == proc[p].key[1] IN
        \/ /\ disk' = [disk EXCEPT !.record[k] = disk.recordTmp[k], !.recordTmp[k] = <<>>]
           /\ saved' = [saved EXCEPT ![k] = @ \cup
                {[record |-> proc[p].record[1], answers |-> proc[p].pages, vin |-> proc[p].vin]}]
           /\ End(p, "saved")
        \/ disk' = [disk EXCEPT !.recordTmp[k] = <<>>] /\ End(p, "failed") /\ UNCHANGED saved
    /\ UNCHANGED <<vehicle, drawn, commands>>

\* `vehicle show' lists the record files, then loads them one by one.
List(p) ==
    /\ proc[p].pc = "idle" /\ commands < MaxCommands
    /\ Put(p, [pc |-> "listing", cmd |-> "show", result |-> "none",
               listed |-> {k \in Keys : disk.record[k] # <<>>}])
    /\ commands' = commands + 1
    /\ UNCHANGED <<vehicle, disk, drawn, saved>>

Show(p) ==
    /\ proc[p].pc = "listing"
    /\ IF proc[p].listed = {} THEN End(p, "shown")
       ELSE LET k == CHOOSE k \in proc[p].listed : \A l \in proc[p].listed : k <= l
            IN  \E loaded \in {Load(k)} :
                IF loaded.ok /\ loaded.v # <<>> THEN Put(p, [listed |-> proc[p].listed \ {k}]) ELSE End(p, "show failed")
    /\ UNCHANGED <<vehicle, disk, drawn, commands, saved>>

Crash(p) ==
    /\ proc[p].pc # "idle"
    /\ proc' = [proc EXCEPT ![p] = Idle]
    /\ UNCHANGED <<vehicle, disk, drawn, commands, saved>>

\* An ECU is replaced, added or removed.
Refit(v) ==
    /\ \E answers \in Vehicles[v] : vehicle' = [vehicle EXCEPT ![v] = answers]
    /\ \A p \in Processes : proc[p].vin # v
    /\ UNCHANGED <<disk, proc, drawn, commands, saved>>

Step(p) ==
    \/ LookUp(p) \/ LoadExisting(p) \/ Validate(p) \/ Discover(p) \/ CreateKey(p)
    \/ OpenIndex(p) \/ WriteIndex(p) \/ RenameIndex(p) \/ Prepare(p) \/ Write(p) \/ Rename(p)
    \/ Show(p)

Next ==
    \/ \E p \in Processes : Start(p) \/ List(p) \/ Step(p) \/ Crash(p)
    \/ \E v \in Vins : Refit(v)

Spec == Init /\ [][Next]_vars

-----------------------------------------------------------------------------
Files == {disk.index, disk.indexTmp} \cup Range(disk.record) \cup Range(disk.recordTmp)

\* The state is well-formed, and the index can always be read.
TypeOK ==
    /\ \A f \in Files : Len(f) <= 1
    /\ DOMAIN proc = Processes /\ commands <= MaxCommands /\ drawn <= Cardinality(Keys)
    /\ ParseIndex(disk.index).ok
    /\ \A p \in Processes : Range(proc[p].key) \subseteq Keys

FirstPages(pages) == {q \in pages : q.request = <<1, 0>>}

\* Whatever the others write, and wherever they crash, a process loads a
\* record exactly as some command once saved it: never a part of one, a
\* mixture, or one that the text format changed.  One bad file would fail the
\* whole of `vehicle show', so there never is one.
LoadedIsSaved ==
    \A p \in Processes :
        /\ \A r \in Range(proc[p].existing) : \E s \in saved[proc[p].key[1]] : s.record = r
        /\ proc[p].result # "show failed"

\* A key stands for one vehicle, although the index is read and written back
\* by several processes without a lock.
OneVehiclePerKey ==
    /\ \A k \in Keys : \A s, t \in saved[k] : s.vin = t.vin
    /\ \A e \in Range(ParseIndex(disk.index).entries) : \A s \in saved[e.key] : s.vin = e.vin

\* A record just loaded validates exactly when the vehicle still answers
\* 01 00 as it did when the record was made.
ValidMeansUnchanged ==
    \A p \in Processes : proc[p].pc = "loaded" =>
        LET heard == FromSupportDiscovery(HeardFirst(vehicle[proc[p].vin])) IN
        \E s \in saved[proc[p].key[1]] :
            /\ s.record = proc[p].existing[1]
            /\ (Validation(s.record, heard) = "Validated")
                 <=> (FirstPages(s.answers) = FirstPages(heard.pages))

\* Reads are only sent to the engine's own address when the engine answered
\* in this very command.
TargetedEcuIsThere ==
    [][\A p \in Processes : proc[p].pc = "loaded" /\ proc'[p].result = "targeted" =>
        \E a \in HeardFirst(vehicle[proc[p].vin]) : a.responder = <<"7E8">>]_vars

\* A record that replaces one keeps its history and its first sighting.
Keeps(old, new) == old # <<>> => old[1].history \subseteq new.history /\ old[1].first = new.first

\* A discovery carries the history and the first sighting of the record it
\* replaces on, unless another process saved one since it looked.
EvidenceIsKept ==
    [][\A p \in Processes : proc[p].pc = "written" /\ proc'[p].result = "saved" =>
        LET k == proc[p].key[1]
        IN  Load(k).v = proc[p].existing =>
                Keeps(proc[p].existing, ParseRecord(disk'.record[k][1], KeyText(k)).v)]_vars

=============================================================================
