# A TLA+ verification of obdentic

obdentic reads vehicle diagnostics through an ELM327-compatible Bluetooth
adapter: a Rust crate with a command line and a recorder on the desktop, and the
same core behind a JSON bridge in an Android app. This directory models the parts
of it that hold state across failures and across concurrent callers and the
formats that carry that state, checks them with TLC on small instances, and proves
the runtime's properties with TLAPS for every instance. `PROJECT.json` maps each
definition to the lines it models.

## 1. The system

### Components, their state and their operations

| Component (source) | State | Operations |
|---|---|---|
| Runtime state and reducer (`runtime_state.rs`, `runtime_reducer.rs`) | phase, activity, six context dimensions | `transition`: twenty-odd events, each legal in a few states |
| Runtime actor (`runtime_actor.rs`) | the one `RuntimeState`, `transition_sequence`, a bounded channel of commands with one-shot replies | `send`, `try_send`, `snapshot`, `shutdown`; drop of a future or a client |
| ELM session (`elm.rs`) | `configured_target`, `functional_dirty`, supported PIDs; behind it the adapter's header, filter and header mode, which cannot be read back | functional and targeted reads, session commands, reinitialisation |
| ELM answers (`elm.rs`) | the ISO-TP messages begun, the payloads and errors per responder | one line of an answer after the other |
| Desktop session actor (`ble.rs`) | the session, its transport-failure streak, a bounded channel | six reads, two queries, shutdown; drop of the last client |
| UDS extended session (`mobile/uds.rs`) | Inactive / Active / Indeterminate, authorisation, two instants | enable, disable, tick, read, disconnect, reconnect |
| Mobile core (`mobile.rs`) | ELM session, UDS session, initialised, engine mapping, manufacturer, Knowledge | the actions of `dispatch`, `on_disconnect`, `on_reconnect` |
| Capture session and scheduler (`jobs/`, `scheduler.rs`) | a copy of the runtime state on each side, the task, the cancellation, the due times | start, run until stopped, teardown |
| Subscription policy (`subscription_policy.rs`, `capability.rs`, `capture.rs`, `layout_observation.rs`) | requested and effective intervals, the slowest read seen | admission, stretching, repeated reshaping |
| Capture recorder and its format (`capture_format/`, `capture_events.rs`) | a channel to a writer, a JSONL file | emit, write, close, read |
| Replay and report (`capture_replay.rs`, `capture_report.rs`, `telemetry.rs`, `audit.rs`) | bounded histories | ingest, rebuild, sum up |
| Stored trouble codes (`dtc.rs`, `diagnostic_job.rs`, `main.rs`) | a diagnostic job of the runtime | scan, decode, record |
| Vehicle cache and discovery (`vehicle_cache.rs`, `cache_validation.rs`, `functional_discovery.rs`, `ecu_identification.rs`, `topology*.rs`) | an index of VINs and one record file per key | discover, refresh, show, route |
| Android service (`ObdService.java`, `BleTransport.java`, `ReconnectPolicy.java`) | phase, generation, worker queue, link, native core, reconnection policy | connect, disconnect, jobs, polls, reconnection |
| Knowledge, safety, Android storage and interfaces, terminal interfaces | tables, files, views | see section 6 |

### Interaction

The desktop side is made of tasks with channels between them. A capture job owns
a `RuntimeClient` and a recorder's sender; it starts the scheduler's task, which
owns another pair of those and a `SessionClient`. The session actor owns the ELM
session and through it the adapter. The recorder's writer ends when every clone of
its sender is gone, and the job waits for it. Several processes of the command line
share the directory of the vehicle cache without a lock.

On Android everything goes through one `MobileCore`, which runs one action at a
time. The service hands it every action on one worker thread; the user, the
reconnection timer and the Bluetooth callbacks run on other threads and share the
service's fields with the worker. A generation tells a worker task that its
connection has been given up.

### What is hard here

- The adapter cannot be asked for its state. The code remembers what it set up,
  and every exchange may fail after having taken effect.
- A command can be dropped by its caller and still be carried out.
- An answer to a command that was given up may arrive while the next one waits.
- An ECU that was switched to its extended session must be brought back whatever
  fails; where that is not known nothing more may be sent.
- The evidence of a transition can be refused after the transition was made.
- Teardown crosses three tasks and waits for the last holder of a sender.
- Health is judged over the reads of several clients.
- Intervals are reshaped from reshaped ones, with rounding.
- Frames of several ECUs interleave, and lines get lost.
- A process may be killed with half a line or half a cache update on the disk.
- The service's threads check a field and act on it later.

`PROJECT.json` lists these as hazards, each at its line, with the properties
that would catch them.

### What makes each component correct

- Runtime: one counted history along the lifecycle; every awaited call is answered;
  the task ends.
- ELM session: no request goes to or through another ECU's setup; nothing
  functional goes out on leftovers of a targeted read.
- ELM answers: an answer that is not marked is whole; damage to one ECU's lines does
  not touch another's answer.
- Session actor: given up exactly after consecutive transport failures; everyone
  is told; the adapter is released on every way out.
- UDS session and mobile core: the switched ECU is never lost track of; an
  uncertain session silences the core; nothing is broadcast in a session; a
  session ends.
- Capture: decisions on current views only; a clean end if the recorder took the
  evidence; a closed adapter; a lost session is visible; starts and stops end.
- Schedule: not more reads than the link does, not less than half; priorities stay; nothing
  starves.
- Recording: what is read back is what happened, the replay shows what the screen
  showed, the report's numbers add up, and success means that everything was torn down.
- Vehicle cache: no torn or foreign record is ever used, stale ones are noticed,
  evidence is carried on.
- Android service: answers belong to their commands, a user's stop holds, a session is
  left before its link is closed, lost links are closed.

## 2. Modules

| Module | Models | Composition |
|---|---|---|
| `RuntimeReducer` | the state and `transition`, as `Legal` and `Reduce` | used by the actor, `CaptureSession`, `CaptureCodec` and `CaptureFile` |
| `RuntimeLifecycle` | abstract: phase and activity only | refined by `RuntimeActor` |
| `RuntimeActor` | the actor, its channel, its clients | extends `RuntimeReducer` |
| `RuntimeActorProofs` | theorems | extends `RuntimeActor`, `TLAPS` |
| `ElmOperations` | each ELM operation as the set of its outcomes | no variables |
| `ElmSession` | a session whose operations are called in any order | extends `ElmOperations` |
| `ElmOperationsProofs`, `ElmSessionProofs` | lemmas on each operation; theorems | the second extends `ElmSession` and the first |
| `IsoTpAssembly` | the normalisers of Mode 03, Mode 09, UDS and multi-PID answers, and the ECUs and the wire in front of them | on its own; `ElmOperations` takes its verdict |
| `UdsSession` | the extended session's operations as sets of outcomes | extends `ElmOperations` |
| `MobileCore` | the whole core, the vehicle's ECUs and time | extends `UdsSession` |
| `MobileCoreProofs` | theorems, and lemmas on what each operation sends | extends `MobileCore` and `ElmOperationsProofs` |
| `SessionActor` | the desktop session actor and its clients | on its own; a read is its verdict |
| `SessionActorProofs` | theorems | extends `SessionActor`, `TLAPS` |
| `CaptureSession` | job, scheduler's task, recorder | extends `RuntimeReducer` |
| `CaptureSessionProofs` | theorems | extends `CaptureSession`, `TLAPS` |
| `PollingSchedule` | policy, estimator, schedule | on its own |
| `PollingScheduleProofs` | theorems, and lemmas on folds over finite sets | extends `PollingSchedule`, `TLAPS` |
| `JsonText`, `CaptureCodec` | the characters of a JSONL line, and the events as lines | `CaptureCodec` extends `JsonText` and `RuntimeReducer` |
| `SignalCatalogue`, `DtcDecoding` | the signals with their scaling; the decoding of Mode 03 | used by the next two |
| `CaptureReplay` | reader, replay, report | extends `CaptureCodec`, `SignalCatalogue` |
| `CaptureFile` | a capture or a scan with its recorder, from start to the file that is read back | extends `CaptureReplay`, `DtcDecoding` |
| `VehicleCodec`, `FunctionalDiscovery`, `EcuIdentification` | the record's text format; topology from support pages; identification reads | used by the next one |
| `VehicleCache` | the cache directory and the commands that use it | extends the three |
| `ReconnectPolicy`, `BleTransport` | their classes, as operators on one value | no variables |
| `AndroidService` | the service's three threads | extends the two |
| `AndroidServiceProofs` | theorems | extends `AndroidService`, `TLAPS` |
| `MC*` | the instances TLC checks | extend the module they name |

### How state and steps correspond to the code

**Runtime actor.** `state` and `sequence` are the fields of the task; `queue` is
the mpsc channel; `call[c]` is a future of a client: waiting for room
("sending"), for its one-shot reply ("waiting"), answered, or dropped. One turn of the
loop in `run` is one step, its reply included, since nothing else touches what the
task owns. `Cancel` drops a future at either await: a queued command stays and
is carried out for nobody. `try_send` fails when the slots are taken *or
promised to waiting senders*, as a tokio semaphore does. `transition_sequence`
is capped by `MaxSequence`, the model's `u64::MAX`, and overflows there as
`checked_add` does.

**ELM session.** An operation holds `&mut self`, so it is one step, but the failure
of each of its exchanges is a different outcome: `AtCommand` is carried out and
acknowledged, carried out and not acknowledged, or not carried out. `After` is the
code's `?`. `wire` holds the diagnostic requests of the last operation, each with
whom the code meant and how the adapter stood. A target is its (ATSH, ATCRA) key
and the ECU listening there. An answer is a verdict: usable, readable but not from the
expected ECU, not normalisable, lost.

**ELM answers.** One step is one line. Each ECU's answer is cut into ISO-TP frames as an
ECU does; `Deliver` hands the next one over, and the faults lose, repeat, swap, garble,
cut or mix in lines. The three normalisers differ in details that the model keeps: their
padding bytes, whether an unfinished payload is a match, what a repeated first frame does,
which responder a status line blames. Bytes are numbers; error texts are left out, only
the responder they name is kept.

**UDS session and mobile core.** A world (ELM session, ECUs in their extended
session, belief, core fields) goes through an action as through the code, failure by
failure; `Execute` adds what `execute` adds after a failed action. A session
command may be heard by any of the ECUs the adapter's header reaches, whatever
becomes of its answer. Time is `Pass`: `age` and `quiet` stand for the two
`Instant`s. `EcuTimeout` is an ECU's own S3 timeout.

**Session actor.** As the runtime actor, with a read's result as `ok`, `data` or
`transport`. `recent` is a history variable: how the last reads ended, in the
words of the requirement and not of the counter. The return of the task drops
the receiver, so that queued calls see the session closed (`Abandon`).

**Capture.** The job and the scheduler's task are program counters named after
what they do next; every `emit` offers an event to the recorder with `try_send`
and may be refused. `Apply` is `apply_runtime_event`: transition, copy, then
evidence. `pin` is whether `knowledge.lock` can be read, which both the start and the recording of its
failure need. A task that leaves by `?` drops its session client instead of
shutting it down ("dead", "dropped").

**Schedule.** Time is relative to now: `due[s]` is how long until signal *s* is due. A
start admits a dashboard's layout or a profile; `Wake`, `ReadOne` and `ReshapeSchedule` are
the scheduler's loop, with a timer that may be late and reads that take as long as they take.
The integer arithmetic (micro-rates, ceilings, factors) is the code's.

**Recording.** `CaptureFile` follows one command. Code without a branch is a script of
steps (offer with `try_send`, send and wait, apply an event, ingest a value, note an
error), taken one at a time, so that the writer and a kill fall between any two; a step that
fails leaves the script as `?` does. The writer appends the characters of a line; a
kill or a full disk leaves a prefix of it. `ReadFile` parses the characters again.
`CaptureCodec` has one table of fields per event type that writer and parser share
only for the names: what each type is written as and what the parser demands of it are
separate definitions.

**Vehicle cache.** Each process runs one command at a time; the reads and writes of the index and of
the records are steps of their own, `Write` is the temporary file and `Rename` the rename,
and `Crash` may fall between any two. The files hold text: a record is loaded through the
parser, older versions included. The vehicle's answers may change between two commands.

**Android service.** `task` is what the worker runs, with a place for every point at which it reads or writes
what another thread may change; `main`, `active` and `tapped` are the main thread's place in
`disconnect()` and `runJob()` and what it has in hand there. `runJob` is three steps on either thread, as in the
code: the checks (`Free`), `busy` and `udsJob` (`Claim`), the token and the worker's queue (`HandOver`); so either
thread's booking may fall into the other's. `posted` counts the runnables of `autoStart()` that wait in the main
thread's queue: `setAutoConnect` only posts one, `AutoStart` runs it, and what the user taps may
come in between (`Tap`). The `finally` looks at the generation and frees the worker in two steps. Bluetooth
and its permission come and go at any time: each look at `environmentBlocker()` may find either. A connection's guards and
its start are one step, and the foreground service starts. A core action is one exchange: `Ask` writes the
command, `Hear` is the callback, `GiveUp` the timeout. A link keeps the answers still on
their way (`air`), so that a late one can meet the next command.
`SessionAfter` is what an action leaves of the extended session in `MobileCore`.
`stopped`, `session` and `races` are history variables; `races` names what a thread had checked that was no longer
so when it acted on it.

Each module has, beside the operations, the mutants used to show that a property
can fail; a comment marks them and no specification uses them. Every module also
states a type invariant. No run checks it: its violation would show as an evaluation error or
as one of the properties. Section 4 proves all but that of `PollingSchedule`, `VehicleCache`, `CaptureFile` and `IsoTpAssembly`.

## 3. What is checked

| Run | Instance | States | Shows |
|---|---|---|---|
| `RuntimeActor` | 2 clients, channel of 1, sequence up to 3, events into and out of every phase, fair | 158,779 | replies to different clients form one history; a cancelled call's reply is never taken for another's; the lifecycle is implemented; awaited calls are answered; the task ends |
| `ElmSession` | 2 symmetric targets, 1 PID | 211 | the remembered target is the adapter's or the adapter was reset under it; functional requests are clean; targeted ones never go through another ECU's setup |
| `MobileCore` | engine and one other ECU, one PID, interval 1, limit 2, fair | 11,314 | safety of the extended session, of the remembered target and of broadcasts; a session ends |
| `MobileCorePending` | ECUs that answer 7F 10 78 and switch later | | *violation*, finding 1 |
| `SessionActor` | 2 clients, channel of 2, threshold 2 (the code's), fair | 15,919 | when a session is given up, who is told, when the adapter is released, every call is answered |
| `CaptureSession` | channel of 2, fair | 1,256 | current views, clean end, closed adapter, visible loss, start and stop end |
| `PollingSchedule` | 3 signals, 3 freshness demands, profiles, 2 service times, a timer late by up to 1, fair | 13,780 | the link is neither overbooked nor left more than half idle; relative rates stay; every signal is read again and again |
| `VehicleCache` | 2 processes, 2 vehicles, 2 commands each run in any overlap, crashes, older record files | 76,963 | what is loaded was saved; a key stands for one vehicle; validity means unchanged first pages; targeted reads only with the engine there; history kept |
| `CaptureFile` | channel of 2, 2 subscriptions, 3 reads, one kill or failed write, wall clock set back | 277,897 | the file reads back; the replay is what the screen showed; the report adds up; success is clean |
| `IsoTpAssembly` | any 2 of 3 ECUs answering, 4 services, 2 faults | 381,823 | answers without an error are whole; other ECUs' answers are untouched |
| `AndroidService` | 3 generations (connect, disconnect, reconnect), one start-up runnable at a time that a disconnect may overtake, survey on, extended session, fair | 1,368,620 | no answer of another exchange; stopped stays stopped; an extended session is left; lost links are closed; each up to the races it names |
| `AndroidServiceReady` | 2 generations | | *violation*, finding 2 |

### Why the bounds are enough

Two clients are needed for one to have its command overtaken, to find the room
promised to the other, and to compare two replies. With a channel of one both the full channel
and the sender that waits are reached at once; with two in `SessionActor` a
command can be behind a shutdown or behind the read that gives the session up, and the
orphans of cancelled calls fill the room. A sequence up to three lets one client's
transition overflow between another's; shutdown needs two numbers and finds two,
one or none. Two targets give "the one asked" and "another one"; a third could
only be another other. The interval of one and the limit of two let a tester present be due before,
at and after the limit. A recorder channel of two is full after two events the writer has
not reached; the capture has no point where it must have more than one event in flight.

In `PollingSchedule` three signals give factors that do not divide each other; a tenth of a second
is the unit, a default budget of four and service times of one and three units make the capability go
up from the default and down below the demand. In `VehicleCache` two processes are what a lost index
update and a foreign rename need, two vehicles what a mixed-up key needs, and two commands let one of them meet
what the other, or its crash, left. Line lengths, capacities and text lengths (`MaxText`, `MaxBytes`,
`MaxEntries`, `VinLength` ...) are the code's limits scaled down so that a value at, below and above each
fits; the alphabet has a plain character, the quote, the backslash and a control character.
In `CaptureFile` three reads of two subscriptions make one read late enough to skip a slot; a
history and an audit of one entry are full at once; a cut falls before, in the middle of or after a
line. The step that keeps a full channel waiting is taken once the writer can go on
(`KeepsUp`), the task wakes in time (a read makes the next one late), and the reshaping after a
round is `PollingSchedule`'s. In `IsoTpAssembly` one answer fits a
single frame, one needs a first and consecutive frames with padding, and one wraps the four-bit
sequence number; two faults are what a loss hidden by a repetition needs. A stale Mode 01 frame
never contains the byte 43 there (section 5 says what happens if it does). In
`AndroidService` three generations are a connection, its disconnection and another connection, or two reconnections: what a race between
two threads needs, even one that frees the worker under a later connection.
`MaxPosted` is one runnable of `autoStart()` at a time, at the start or after the switch, and only a
disconnection overtakes it (`Overtaking`), the tap it overrides. The user's job is `uds.enable`, the survey's is a Knowledge
job; others lock the worker in the same way. With two runnables, with every tap overtaking and with the user starting
Knowledge jobs too, the inductive invariant of section 4, and with it the safety properties, hold over 6,509,154 states; only the
liveness property keeps that out of the run. The lengths of the policy's pauses are left out: a pause ends at any time.

Symmetry is used over targets and processes only where nothing distinguishes them and no
liveness property is checked.

### Fairness, and why the code justifies it

- `Serving`, `Serve`, `Exit`, `Tasking`, `Starting`, `Ending` are weakly fair: a tokio
  task whose future can make progress is polled again, and every exchange with the
  adapter ends by its own timeout.
- `Enqueue` is strongly fair: tokio's mpsc gives room in the order it was asked
  for, so a sender that is passed over again and again does not exist. In
  the model room comes and goes, so weak fairness would not say it.
- `Wake` taking the cancellation is strongly fair: `select!` starts at a random
  branch, and a cancellation once ready stays ready.
- The end of a round over the due subscriptions is strongly fair: the schedule is finite.
- The writer runs on its own thread; its I/O errors are not fair, they may or may
  not happen.
- `Pass` and `DoUdsTick` are weakly fair: time passes, and the Android service's poll
  calls `uds.tick` while a session is active.
- `PollingSchedule`'s `Next` is weakly fair: one task, whose timer fires and whose reads end.
- `AndroidService`: the worker's own steps are weakly fair (`exchange` ends by its timeout,
  `BleTransport.await` too); `Take` is strongly fair, since the executor's queue is served in order although
  polls come in between; `PollLink` is strongly fair, since the 500 ms timer fires for as long as
  the service lives; the main thread finishes a `disconnect()` or a `runJob()` it began. The
  user, a posted runnable, the adapter and Bluetooth are not fair.

Clients are never fair: nobody has to call, cancel or drop.

`CHECK_DEADLOCK FALSE` is used where the system really stops: all clients gone
and the task over, the capture returned, the file read, the answer's text at its end,
the commands of a run used up.

## 4. What is proved

Every theorem holds for every value of the constants that the named assumptions of its module, and of those it
extends, allow; TLC evaluates these assumptions in the runs. One theorem, `AccountedFor`, has a hypothesis of its own. Each inductive invariant was checked by TLC on
the run's instance before it was proved.

| Module | Theorem | Statement |
|---|---|---|
| `RuntimeActorProofs` | `TypeCorrect` | `Spec => []TypeOK`, with the bounds of channel and counter |
| | `ActivitySafe` | `Spec => []ActivityOnlyWhenReady` |
| | `StoppedFinal` | `Spec => StoppedIsFinal` |
| | `Counted` | `Spec => ChangesAreCounted` |
| | `LifecycleImplemented` | `Spec => ImplementsLifecycle`, refinement of `RuntimeLifecycle` |
| | `OneHistory` | `Spec => []RepliesFormOneHistory` |
| | `OwnAnswers` | `Spec => []AnswerIsForOwnCommand` |
| `ElmSessionProofs` | `TypeCorrect` | `Spec => []TypeOK` |
| | `RememberedTarget` | `Spec => []ConfiguredOrReset` |
| | `FunctionalRequestsClean` | `Spec => []FunctionalIsClean` |
| | `OwnEcuOnly` | `Spec => []NeverAnotherEcu` |
| `MobileCoreProofs` | `TypeCorrect` | `Spec => []TypeOK` |
| | `BroadcastsNeedDefaultSession` | `Spec => []FunctionalNeedsDefaultSession` |
| | `RequestsAsMeant` | `Spec => [](\A x \in session.wire : GoodRequest(x))` |
| | `ActiveIsInitialized` | `Spec => [](uds.status = "Active" => core.initialized /\ Sound(session))` |
| | `AccountedFor` | `Spec => SessionIsAccountedFor`, if `AnswersPending = FALSE` |
| | `NoTrafficInDoubt` | `Spec => IndeterminateStopsTraffic` |
| | `StraysExplained` | `Spec => StrayOnlyAfterFailedReset` |
| `SessionActorProofs` | `TypeCorrect` | `Spec => []TypeOK` |
| | `GivenUpExactly` | `Spec => []UnhealthyAfterConsecutiveFailures` |
| | `GivenUpTold` | `Spec => GivenUpIsTold` |
| | `NoCallLost` | `Spec => []WaitingIsQueued` |
| | `AdapterLetGo` | `Spec => []ReleasedWhenOver` |
| `CaptureSessionProofs` | `TypeCorrect` | `Spec => []TypeOK` |
| | `DecisionsAreCurrent` | `Spec => []ViewIsCurrent` |
| | `CaptureReturnsClean` | `Spec => []ReturnsClean` |
| | `CaptureClosesLink` | `Spec => []LinkIsClosed` |
| | `LossReachesRuntime` | `Spec => []LossIsVisible` |
| | `OneOwnerAtATime` | `Spec => []TakingTurns` |
| `AndroidServiceProofs` | `TypeCorrect` | `Spec => []TypeOK` |
| | `AnswersAreOwn` | `Spec => []AnswerIsForOwnExchange` |
| | `StopIsKept` | `Spec => StoppedStaysStopped` |
| | `SessionIsLeft` | `Spec => ExtendedSessionIsLeft` |
| `PollingScheduleProofs` | `RelativeRatesKept` | `Spec => []PrioritiesKept` |
| | `BudgetAlwaysMet` | `Spec => []BudgetIsMet` |

**Runtime actor** (`ActorAssumption`: any clients, any capacity from one, any maximum of the
sequence, any events). The argument starts from what `Legal` and `Reduce` keep (`ReduceType` and the
lemmas after it): a legal event takes a state to a state, leaves no activity
outside Ready, and moves phase and activity by at most one step of the lifecycle. `Apply` and
`Shutdown` inherit that and never change a state without counting it.
`ActivityOnlyWhenReady` is inductive with the types. The two properties of
replies are not. A reply is given for the command at the head of the queue to
the client whose name is in the entry, and nothing in either property says that
this client is still waiting for *that* command. The strengthening says so: an entry
that names a client names one that is waiting, with this very command; no two
entries name the same client. `Forget` on cancellation is what keeps it. For the
history, every accepted transition that a client holds has a number of at most
`sequence`, and the state it ended in is the current one if its number is the current one.
A new transition therefore has a new number, starts in the state the last one
ended in, and can be compared with all earlier ones.

**ELM session** (`ElmAssumption`: any targets and PIDs, none of which is the functional address or
"none"). No property is inductive alone: that a functional request finds a clean adapter rests
on what a session that is not dirty knows of its adapter. `Sound` is that knowledge: a session that
is not dirty remembers nothing and its adapter is functional, unfiltered and freshly reset; one that remembers a target is at
that target, or was reset since and is dirty. `ElmOperationsProofs` shows for each operation that *every* outcome of a sound
session is sound, so that the position of the exchange that fails does not matter; it says nothing of
`ElmSession`, so the extended session's operations can use it too.

**Mobile core** (`ElmAssumption`, `UdsAssumption`: the engine is a target, interval and limit from one;
`CoreAssumption`: finitely many targets). The invariant `CoreInv` is the types, `Fits`, two facts on
initialisation and `FunctionalNeedsDefaultSession`. `Fits` is `Sound` without the belief that the adapter is
clean: after a reconnection it may be another adapter, or one that lost its settings, and the ELM
session does not know. Only an initialised core may rely on the full `Sound`, and an active session
needs an initialised core; that is why a disconnection has to clear both. The action properties
follow from what each action may do to the *world* (ELM session, ECUs, belief, core): one that enters no session
`Follows` from the world it began in, which includes what it put on the wire and whom that switched; one after
the guards of `execute` also `Obeys`, so it sends nothing while the session is indeterminate. Operations
compose, because `Follows` does, and the reads of `ReadEach` follow by induction over the subsets
of the targets, with the recursion equation of the fold (`FoldExists`) as its step: that
is what finiteness is needed for. Only `initialize` and `uds.enable` get lemmas of their own
(`InitializeAllowed`, `EnableTells`). Without the hypothesis of `AccountedFor` the property is false, and
`MobileCorePending` shows the counterexample (finding 1); no other theorem needs it. An exchange may fail before
or after the ECU heard it, in every operation.

**Desktop session actor** (`SessionAssumption`: any clients, capacity and threshold from one). The counter
is tied to the history of the reads: `streak` is the length of the run of transport failures at its
end, and the entry before that run is not one. Without the second half the counter might be
too small, without the first too large. The calls are tied to the queue as in the runtime actor. The adapter is let go of exactly when `done`.

**Capture session** (`CapacityAssumption`: any capacity from one). The invariant says how far job, task, runtime and
link have come together. `TakingTurns` (the job leaves the runtime to the task while there is one) is what makes the
views current; `RuntimeFollows` and `LinkFollows` give for each place of the job the phases and links it
may find, so that the transitions of the teardown are legal; `LossFollows` says by which of two ways a lost session gets into the
runtime, the report or, when the recorder refused it, the task's failure.

**Android service** (`ServiceAssumption`: any number of generations, of posted runnables, any taps and any of the jobs). `Inv` gives each kind of task its steps, lets
only the worker's own exchange wait, on the link of the core, and keeps the air empty on a link on which nobody
waits: an old answer has no link to arrive on. `StopInv` keeps the policy stopped for as long as the wish stands, until one of the two ways around it that the
property names is taken; a new stop begins anew. `ExtendedSessionIsLeft` needs `Accounted`, six parts that say who is
responsible for each open link: tokens and fresh links (`TokensInv`), the connection under way (`ConnectInv`), the
transport (`TransportInv`), the core (`CoreInv`), the jobs that may be under way (`JobInv`) and the session (`SessionInv`). Two of them carry the
split steps: while `runJob()` is between `busy` and the queue (`main = "book"`, or a survey at `"book"`) no other job may wait, run or be booked unless the
connection has ended (`Ended`), and a connection on its way to being displayed (`OnItsWay`) has no job behind it. It holds until
a job is booked over another one or for a connection of the past (`"booked"`), or the worker is freed under a later connection
(`"freed"`), and the theorem uses it only up to that point: both are what the property excepts. TLC has checked
`Inv` and this at the run's bounds and at the fuller ones of section 3.

**Polling schedule** (`ScheduleAssumption`: any finite set of signals, positive budgets and
freshness, any profiles). `BudgetIsMet` speaks of sums and products over all
signals. The provers cannot instantiate the library's induction theorems, but an induction over the subsets of a
finite set can be had from them: strict inclusion is well-founded (`FS_StrictSubsetOrderingWellFounded`), so a set of subsets that is not everything
would leave a smallest counterexample (`SubsetInduction`). With it `FoldExists` shows that the recursion
of `MapThenFoldSet` has a solution, so that `RateUnits` and `Reads` are sums and `Whole` is a
product; what rounding does to a sum follows term by term (`SumsCompare`, `Stretched`, `ScaledFacts`). The inductive
invariant keeps half of the tightest budget at *every* moment and not only asleep, since a reshaping starts from
intervals reshaped before.

Only model-checked:

- liveness of every component: the prover has no support for fairness and `ENABLED`;
- what the recursive operators of `JsonText` compute, and with it `CaptureFile`: the prover loses its backend in modules
  that reach a `RECURSIVE` operator;
- the properties of `VehicleCache` and `IsoTpAssembly`: nothing recursive keeps them from a proof, but each needs
  lemmas on its own codec or normaliser, which share nothing with the above;

## 5. Findings

Shown by a run:

1. `MobileCorePending`: a `7F 10 78` is matched as a refusal, the session is marked
   inactive and no `10 01` is sent, although "response pending" promises
   an answer and the ECU may switch.
2. `AndroidServiceReady`: `initialize()` looks at the generation for the last time before
   `readOdometer`'s exchange and then sets the phase to ready. A `disconnect()` in between
   is overwritten: the service says ready with no core and no link, refuses to connect and offers
   jobs.

Exceptions stated in a property, because without them it fails:

- `ConfiguredOrReset`, `StrayOnlyAfterFailedReset`: `reinitialize` forgets `configured_target`
  only after ATZ, the setup and the support discovery have succeeded (`elm.rs:857`, against the
  comment at `elm.rs:809`). After a `dtc.scan` whose reset failed, `uds.enable` finds its target
  remembered, skips the setup and sends `10 03` on the functional address
  (`elm.rs:1042`; ADR 0003, line 17, says it goes to exactly the validated target). There is no other way to get there.
- `ReturnsClean`: a failed start whose failure cannot be recorded returns by `?` without tearing the
  runtime down and without closing the sink (`jobs/capture_session.rs:134`, against the comment at line 102).
- `FileReadsBack`: the same failed start, when the scheduler's own announcement was recorded before it failed, leaves two
  `knowledge_context` events, and the reader refuses the file (`jsonl.rs:643`). A line cut by a kill makes
  the whole file unreadable, although `docs/mf4-capture.md:64` speaks of a truncated final line.
- `ReplayShowsTheScreen`: the live telemetry is ordered by the wall clock (`telemetry.rs:36`); when it is set back the
  screen keeps older values, the replay does not.
- `CleanAnswerIsWhole`: for UDS and multi-PID answers an unfinished message is a match beside its error, and
  `targeted_payload` does not look at errors (`elm.rs:1518`, `elm.rs:2947`), so that a targeted read can return half a payload as a success;
  `docs/observed-inventory-facts.md:38` says otherwise. A line cut between two bytes goes unnoticed where padding follows.
- `StoppedStaysStopped`, by two ways. `setAutoConnect(true)` and the app's start only post `autoStart()`'s runnable
  (`ObdService.java:226`); a `disconnect()` tapped before it runs removes the retry and not the runnable (line 374), and
  `ReconnectPolicy.startup` sets CONNECTING whatever the state is (`ReconnectPolicy.java:30`), so the service connects after the stop,
  against the comment at `ReconnectPolicy.java:42` ("nothing starts until userConnect or the next app start"). And `connected()`'s
  `policy.success()` (`ObdService.java:198`) may fall after `disconnect()`'s
  `policy.stop()` and before `++generation`. The policy is idle again, and a lost link that the poll then reports for the new generation
  schedules a retry after a manual disconnection (REQ-020.4). Only what happened since the last stop counts as an exception.
- `ExtendedSessionIsLeft`: `runJob` is called by the worker (the survey) and by the main thread; both may
  pass the check of `busy` (`ObdService.java:516`) before either sets it (524). When the survey claims the worker on top of
  `uds.enable` it clears `udsJob`; when `uds.enable` is booked on top of the survey, the survey's `finally` (565) clears `udsJob` and `busy` before
  `uds.enable` runs. Either way a `disconnect()` between the answer to `10 03` and its display closes the link without `10 01`
  (REQ-027.4). The third way is one `finally` that finds its generation current and sets `busy=false` (565, or 190) after a disconnect
  and a connect: the worker is free under the new connection, and a job booked then, or one whose token is read (524)
  after them, leads to the same.
- `LostLinkIsClosed`: under a worker freed in this way a second connection may begin over the first, which then forgets the first one's link.
- `BudgetIsMet` asks for half of the budget only: rounding the factor up stretches intervals by almost two where nothing is
  overloaded by more than a little.

Seen while modelling and not in a model: a `disconnect()` that falls between the look at the generation and `BleTransport.connect`
(`ObdService.java:182`, 184) closes a transport that opens its GATT client afterwards; the connection ends at once, but nobody closes that client.

Seen while modelling, in the code's behaviour the models keep: `fail()` may start the
foreground service again after `disconnect()` stopped it; a `.tmp` file left by a crash blocks every later save of that key;
two processes can lose one another's index entry (the vehicle then gets a second key, never another's);
a clock that went back makes `save` fail; page 0x80 is missing in `known_pages`
(`functional_discovery.rs:3`); a stale Mode 01 frame with the byte 43 in it is taken for a Mode 03 answer (`elm.rs:2051`); Mode 09
has no check for a repeated first frame; a scan that leaves by `?` after its job has started cannot be shut down, which its exit code reports.

## 6. What is not modelled

- Knowledge database: parsing and validation of pinned YAML; the pin shows as readable or not.
- MF4 export, rendering of reports, terminal interfaces, argument parsing.
- `normalize_mode09_segments`, the single-PID Mode 01 normaliser with its retry on stale
  frames, PID-support pages: a verdict in `ElmOperations`.
- BLE scanning and GATT set-up on the desktop; the transport appears as exchanges that fail.
- The diagnostic jobs other than the scan of stored codes, and the throughput test: the same control with other requests.
- Android: scanning, demo, replay, recordings, the vehicle store, export and views; which signal a poll
  reads (`PollSchedule`); the job chain behind the survey.
- Safety and authorisation tables: pure functions over closed types; the models use only the requests they allow.

## 7. Plan

Modelled and checked: sections 2 and 3; proved: section 4. What remains is proof, in this order:

1. `VehicleCache`: `OneVehiclePerKey`, which does not depend on the codec.
2. `IsoTpAssembly`: that other ECUs' messages are untouched.
