------------------------ MODULE AndroidServiceProofs ------------------------
(***************************************************************************)
(* Theorems about the service of the Android app for any number of         *)
(* connections and any jobs: an exchange never returns the answer to an    *)
(* earlier command, the automatic attempts stay stopped, and no link is    *)
(* closed on an extended session that nobody tried to leave.               *)
(*                                                                         *)
(* The first two follow from Inv, what a task and a link are like in every *)
(* state.  The third needs Accounted: who is responsible for a link that   *)
(* is open, and which jobs may be under way beside it.  It holds until one *)
(* of the races happens that the property excepts: a job is booked over    *)
(* another one or for a connection of its past, or the worker is freed     *)
(* under a later connection.                                               *)
(***************************************************************************)
EXTENDS AndroidService, TLAPS

\* TypeOK, variable by variable, and the bound on a disconnect() under way.
Typed ==
  /\ generation \in Generations
  /\ phase \in {"idle", "connecting", "ready", "error", "disconnected"}
  /\ policy \in Policies
  /\ busy \in BOOLEAN /\ established \in BOOLEAN /\ retry \in BOOLEAN
  /\ uds \in BOOLEAN /\ udsJob \in BOOLEAN /\ knowledgeJob \in BOOLEAN /\ stopped \in BOOLEAN
  /\ transport \in Generations /\ core \in Generations /\ session \in Generations
  /\ link \in [Links -> BleLinks]
  /\ active \in Generations
  /\ main \in {"free", "claim", "book", "release", "close", "end", "show"}
  /\ main = "release" => generation < MaxGeneration
  /\ tapped \in Jobs \cup {"none"}
  /\ main \in {"claim", "book"} => tapped \in Jobs
  /\ posted \in 0..MaxPosted
  /\ races \subseteq {"booked", "freed", "settled", "started"}

ConnectSteps == {"opened", "linking", "linked", "initialize", "inventory", "odometer", "ready",
                 "connected", "establish", "settle"}
FailSteps == {"fail", "failing", "error", "policy", "schedule", "finally"}
Steps == {"start", "claim", "book", "free", "disable", "job", "lost", "tick", "read"} \cup ConnectSteps \cup FailSteps
Kinds == {"idle", "connect", "survey", "job", "leave", "destroy", "poll"}
Actions == {"none", "initialize", "inventory", "read", "uds.tick", "uds.enable", "uds.disable",
            "dtc.scan", "knowledge"}

Tasks == [kind : Kinds, token : Generations, link : Generations, action : Actions, at : Steps,
          call : {"none", "waiting", "ok", "refused", "failed"},
          heard : {"none", "own", "old"}, was : BOOLEAN]

\* Which steps and actions a kind of task has.
Shape(t) ==
  /\ t.kind \in {"idle", "destroy"} => t.at = "start"
  /\ t.kind = "connect" => t.token # 0 /\ t.at \in {"start", "free"} \cup ConnectSteps \cup FailSteps
  /\ t.kind = "survey" => t.at \in {"start", "claim", "book"}
  /\ t.kind = "job" => t.at \in {"start", "disable", "job", "free"} \cup FailSteps
  /\ t.kind = "leave" => t.at \in {"start", "disable"} /\ t.action = "uds.disable"
  /\ t.kind = "poll" => t.at \in {"lost", "tick", "read"} \cup FailSteps
  /\ t.action = "uds.enable" => t.kind = "job"
  /\ t.kind = "job" /\ t.at = "disable" => t.action = "knowledge"
  /\ t.at = "start" => t.call = "none"

QueueOK ==
  /\ queue \in Seq(Tasks)
  /\ \A i \in 1..Len(queue) :
       Shape(queue[i]) /\ queue[i].at = "start" /\ queue[i].heard = "none"

TasksOK == task \in Tasks /\ Shape(task) /\ QueueOK

\* Only the worker's own exchange waits, on the link of the core, and nothing
\* is under way on a link on which no exchange waits.
ExchangeInv ==
  /\ task.call = "waiting" => Executing /\ core # 0
  /\ \A l \in Links :
       /\ link[l].waiting => task.call = "waiting" /\ l = core
       /\ "old" \notin link[l].air
       /\ link[l].air # {} => link[l].waiting
  /\ AnswerIsForOwnExchange

\* The policy is stopped for as long as the user's wish stands.
StopInv == stopped /\ races \cap {"settled", "started"} = {} => policy.state = "stopped"

Inv == Typed /\ TasksOK /\ ExchangeInv /\ StopInv
-----------------------------------------------------------------------------
(* Who is responsible for an open link.                                    *)

\* A connection that was begun and that nobody has closed.
Alive(l) == l # 0 /\ link[l].state \in {"connecting", "ready", "lost"}

OpenSession == session # 0 /\ IsOpen(link[session])

\* The tasks that take the core away when they start.
Replaces(t) == t.kind = "destroy" \/ (t.kind = "connect" /\ t.at = "start")

\* disconnect() has taken the connection away ...
Disconnecting == main \in {"close", "end", "show"}

\* ... or it is not displayed, and no job is being booked for it.
Ended == Disconnecting \/ (phase # "ready" /\ main \in {"free", "release"})

UdsAction(t) == t.action \in {"uds.enable", "uds.disable"}

Own(t) == t.token = generation

\* Nobody has or names the link yet.
Fresh(l) ==
  /\ link[l].state = "new" /\ l \notin {transport, active, core, task.link}
  /\ \A j \in 1..Len(queue) : queue[j].link # l

\* The generations count up, and a connection that was not begun has a link
\* of its own that nobody touched.
TokensInv ==
  /\ task.token <= generation
  /\ \A l \in Links : l > generation => Fresh(l)
  /\ task.kind = "connect" /\ task.at = "start" => Fresh(task.token)
  /\ task.kind = "connect" /\ task.at = "opened" /\ Current => link[task.token].state = "new"
  /\ \A i \in 1..Len(queue) :
       /\ queue[i].token <= generation
       /\ queue[i].kind = "connect" =>
            /\ Fresh(queue[i].token)
            /\ task.kind = "connect" => task.token # queue[i].token
            /\ \A j \in 1..Len(queue) :
                 queue[j].kind = "connect" /\ i # j => queue[i].token # queue[j].token

\* A connection that counts keeps the worker: behind it only a survey waits.
ConnectInv ==
  /\ task.kind = "connect" /\ Current =>
       /\ busy /\ main \in {"free", "release"}
       /\ \A j \in 1..Len(queue) : queue[j].kind \notin {"connect", "destroy", "job"}
       /\ task.at \in {"opened", "linking", "linked"} => transport = task.token
  /\ \A i \in 1..Len(queue) :
       queue[i].kind = "connect" /\ Own(queue[i]) =>
         /\ busy /\ main \in {"free", "release"}
         /\ ~((task.kind \in {"connect", "job"} \/ task.at = "book") /\ Current)
         /\ \A j \in 1..Len(queue) :
              /\ j # i => ~(queue[j].kind \in {"connect", "job"} /\ Own(queue[j]))
              /\ j > i => queue[j].kind \notin {"connect", "destroy", "job"}
  /\ task.kind = "connect" /\ task.at # "start" => transport \in {0, task.token}
  /\ task.at \in {"error", "policy", "schedule"} => transport = 0

\* The link in use is the one of the connection that counts, nothing is
\* waiting that takes its core away, and it is displayed as ready, or the task
\* that opened it is still at it.
TransportInv ==
  Alive(transport) =>
    /\ transport = generation /\ ~Disconnecting
    /\ ~Replaces(task) /\ \A j \in 1..Len(queue) : ~Replaces(queue[j])
    /\ \/ phase = "ready"
       \/ task.kind = "connect" /\ task.at \notin {"connected", "establish", "settle", "finally", "free"}

\* A core whose link is open is in use, or disconnect() has its link in hand,
\* or a task is waiting to leave it, ahead of all that takes the core away.
CoreInv ==
  /\ core # 0 /\ transport # 0 => core = transport
  /\ task.kind = "connect" /\ task.at # "start" => core \in {0, task.token}
  /\ task.kind = "connect" /\ task.at \in {"opened", "linking", "linked"} => core = 0
  /\ core # 0 => link[core].state \notin {"new", "connecting"}
  /\ task.kind = "connect" /\ task.at = "linked" => link[task.token].state \notin {"new", "connecting"}
  /\ core # 0 /\ IsOpen(link[core]) =>
       /\ ~Replaces(task)
       /\ \/ transport = core
          \/ /\ active = core /\ main = "close"
             /\ \A j \in 1..Len(queue) : ~Replaces(queue[j])
          \/ task.kind = "leave" /\ task.link = core
          \/ \E i \in 1..Len(queue) :
               /\ queue[i].kind = "leave" /\ queue[i].link = core
               /\ \A j \in 1..(i - 1) : ~Replaces(queue[j])

\* A connection on its way to being displayed.
OnItsWay == task.kind = "connect" /\ task.at \in {"linking", "linked", "initialize", "inventory", "odometer", "ready"}

\* One job at a time: none is booked while another one is being booked, waits
\* or runs, and the flag of the extended session is that of the one booked.
JobInv ==
  /\ task.kind = "job" \/ task.at = "book" \/ (\E i \in 1..Len(queue) : queue[i].kind = "job")
       => busy \/ Ended
  /\ \A i \in 1..Len(queue) : queue[i].kind = "job" =>
       /\ task.kind = "job" \/ task.at = "book" => Ended
       /\ \A j \in 1..Len(queue) : j # i /\ queue[j].kind = "job" => Ended
       /\ UdsAction(queue[i]) /\ Own(queue[i]) =>
            /\ busy /\ udsJob /\ main \in {"free", "release"}
            /\ task.kind # "job" /\ task.at # "book"
            /\ \A j \in 1..Len(queue) : j # i => queue[j].kind # "job"
  /\ main = "book" =>
       /\ busy /\ udsJob = (tapped \in {"uds.enable", "uds.disable"})
       /\ task.kind # "job" /\ task.at # "book" /\ ~OnItsWay
       /\ \A i \in 1..Len(queue) : queue[i].kind # "job"
  /\ task.kind = "job" /\ UdsAction(task) /\ (task.at = "job" \/ (task.at = "start" /\ Current))
       => udsJob
  /\ OnItsWay => (busy \/ Ended) /\ \A i \in 1..Len(queue) : queue[i].kind # "job"
  /\ knowledgeJob => task.kind = "job" /\ task.action = "knowledge" /\ task.at # "free"

\* An extended session that nobody tried to leave belongs to the core and is
\* displayed, or the job that opened it is about to display it.
SessionInv ==
  /\ session # 0 => link[session].state \notin {"new", "connecting"}
  /\ OpenSession => core = session
  /\ \/ task.kind = "connect" /\ task.at # "start"
     \/ task.at \in {"lost", "fail", "failing"}
     \/ knowledgeJob
     \/ Executing /\ Returned /\ task.action \notin {"uds.enable", "read", "uds.tick"}
     => ~OpenSession
  /\ OpenSession /\ (transport = session \/ (active = session /\ main = "close")) =>
       uds \/ (udsJob /\ task.kind = "job" /\ task.at = "job" /\ Returned)

Accounted == TokensInv /\ ConnectInv /\ TransportInv /\ CoreInv /\ JobInv /\ SessionInv

SessionLeft == races \cap {"booked", "freed"} = {} => Accounted
-----------------------------------------------------------------------------
(* What the operators of the policy, of a link and of a task return.       *)

LEMMA PolicyTypes ==
  ASSUME NEW p \in Policies
  PROVE  /\ Settled(p) \in Policies /\ Block(p) \in Policies /\ Failed(p) \in Policies
         /\ Connecting(p) \in Policies /\ Startup(p) \in Policies /\ Stop(p) \in Policies
         /\ Lost(p) \in Policies
         /\ \A on \in BOOLEAN : SetEnabled(p, on) \in Policies
  BY DEF Policies, PolicyStates, Settled, Block, Failed, Connecting, Startup, Stop, Lost, SetEnabled

LEMMA PolicyAnswers ==
  ASSUME NEW p \in Policies
  PROVE  RetriesAfterFailure(p) \in BOOLEAN /\ IsPending(p) \in BOOLEAN
  BY DEF Policies, RetriesAfterFailure, IsPending

LEMMA LinkTypes ==
  ASSUME NEW b \in BleLinks
  PROVE  /\ Closed(b) \in BleLinks /\ GivenUp(b) \in BleLinks /\ ConnectGatt(b) \in BleLinks
         /\ Subscribed(b) \in BleLinks /\ LinkLost(b) \in BleLinks /\ Written(b) \in BleLinks
         /\ Accepted(b) \in BleLinks /\ Dropped(b) \in BleLinks
         /\ Arriving(b) \in {"own", "old"}
  BY DEF BleLinks, LinkStates, Closed, GivenUp, ConnectGatt, Subscribed, LinkLost, Written,
         Accepted, Dropped, Arriving

LEMMA ShownIsBoolean ==
  ASSUME uds \in BOOLEAN
  PROVE  Shown \in BOOLEAN
  <1>1. CASE core = 0
      BY <1>1 DEF Shown
  <1>2. CASE core # 0
      BY <1>2, Zenon DEF Shown
  <1> QED
      BY <1>1, <1>2

LEMMA GenerationsAreLinks ==
  /\ 0 \in Generations /\ Links \subseteq Generations
  /\ \A g \in Generations : g # 0 => g \in Links
  /\ \A g \in Generations : g < MaxGeneration => g + 1 \in Links
  /\ \A g \in Generations : g \in Nat
  BY ServiceAssumption DEF Generations, Links

LEMMA LinkClosedTypes ==
  ASSUME link \in [Links -> BleLinks], NEW l \in Generations
  PROVE  LinkClosed(l) \in [Links -> BleLinks]
  BY LinkTypes, GenerationsAreLinks DEF LinkClosed

LEMMA StepKinds ==
  ASSUME NEW t \in Tasks, Shape(t)
  PROVE  /\ t.at \in ConnectSteps => t.kind = "connect"
         /\ t.at \in {"claim", "book"} => t.kind = "survey"
         /\ t.at = "free" => t.kind \in {"connect", "job"}
         /\ t.at = "job" => t.kind = "job"
         /\ t.at = "disable" => t.kind \in {"job", "leave"}
         /\ t.at \in {"lost", "tick", "read"} => t.kind = "poll"
         /\ t.at \in FailSteps => t.kind \in {"connect", "job", "poll"}
         /\ t.kind = "connect" => t.token \in Links
  BY GenerationsAreLinks DEF Tasks, Shape, Kinds, Steps, ConnectSteps, FailSteps

LEMMA TaskFields ==
  ASSUME NEW kind \in Kinds, NEW token \in Generations, NEW l \in Generations, NEW action \in Actions
  PROVE  LET t == Task(kind, token, l, action) IN
         /\ t \in Tasks /\ t.kind = kind /\ t.token = token /\ t.link = l /\ t.action = action
         /\ t.at = "start" /\ t.call = "none" /\ t.heard = "none"
  BY DEF Task, Tasks, Steps

LEMMA NewTask ==
  ASSUME NEW kind \in Kinds \ {"idle", "poll"}, NEW token \in Generations, NEW l \in Generations,
         NEW action \in Actions, kind = "connect" => token # 0,
         kind = "leave" => action = "uds.disable", action = "uds.enable" => kind = "job"
  PROVE  /\ Task(kind, token, l, action) \in Tasks /\ Shape(Task(kind, token, l, action))
         /\ Task(kind, token, l, action).at = "start"
         /\ Task(kind, token, l, action).heard = "none"
  <1> DEFINE t == Task(kind, token, l, action)
  <1>1. /\ t \in Tasks /\ t.kind = kind /\ t.token = token /\ t.link = l /\ t.action = action
        /\ t.at = "start" /\ t.call = "none" /\ t.heard = "none"
    BY TaskFields
  <1> HIDE DEF t
  <1>2. Shape(t)
    BY <1>1 DEF Shape, ConnectSteps, FailSteps
  <1> QED
    BY <1>1, <1>2 DEF t

LEMMA Queued ==
  ASSUME QueueOK, NEW t \in Tasks, Shape(t), t.at = "start", t.heard = "none",
         queue' = Append(queue, t)
  PROVE  QueueOK'
  BY DEF QueueOK

LEMMA AtFields ==
  ASSUME task \in Tasks, NEW step \in Steps
  PROVE  LET t == At(step) IN
         /\ t \in Tasks /\ t.kind = task.kind /\ t.token = task.token /\ t.link = task.link
         /\ t.action = task.action /\ t.at = step /\ t.call = task.call /\ t.heard = task.heard
  BY DEF At, Tasks

LEMMA CallFields ==
  ASSUME task \in Tasks, NEW step \in Steps, NEW action \in Actions
  PROVE  LET t == Call(step, action) IN
         /\ t \in Tasks /\ t.kind = task.kind /\ t.token = task.token /\ t.link = task.link
         /\ t.action = action /\ t.at = step /\ t.call = "none" /\ t.heard = task.heard
  BY DEF Call, Tasks

\* The current task, moved to a step with this action and this state of its call.
Moved(t, step, action, call) ==
  /\ t \in Tasks /\ t.kind = task.kind /\ t.token = task.token /\ t.link = task.link
  /\ t.action = action /\ t.at = step /\ t.call = call /\ t.heard = task.heard

LEMMA Moves ==
  ASSUME task \in Tasks
  PROVE  /\ Moved(Call("initialize", "initialize"), "initialize", "initialize", "none")
         /\ Moved(Call("inventory", "inventory"), "inventory", "inventory", "none")
         /\ Moved(Call("odometer", "read"), "odometer", "read", "none")
         /\ Moved(Call("read", "read"), "read", "read", "none")
         /\ Moved(At("finally"), "finally", task.action, task.call)
         /\ Moved(At("ready"), "ready", task.action, task.call)
         /\ Moved(Throw, "fail", task.action, task.call)
  <1>1. /\ {"initialize", "inventory", "odometer", "read", "finally", "ready", "fail"} \subseteq Steps
        /\ {"initialize", "inventory", "read"} \subseteq Actions
    BY DEF Steps, ConnectSteps, FailSteps, Actions
  <1>2. ASSUME NEW step \in Steps, NEW action \in Actions
        PROVE  Moved(Call(step, action), step, action, "none")
    BY CallFields DEF Moved
  <1>3. ASSUME NEW step \in Steps
        PROVE  Moved(At(step), step, task.action, task.call)
    BY AtFields DEF Moved
  <1> QED
    BY <1>1, <1>2, <1>3 DEF Throw

LEMMA IdleShape ==
  /\ Idle \in Tasks /\ Shape(Idle) /\ Idle.kind = "idle" /\ Idle.at = "start" /\ Idle.link = 0
  /\ Idle.call = "none" /\ Idle.heard = "none" /\ Idle.token = 0 /\ Idle.action = "none"
  BY GenerationsAreLinks DEF Idle, Task, Tasks, Kinds, Steps, Actions, Shape

LEMMA SameQueue ==
  ASSUME QueueOK, UNCHANGED queue
  PROVE  QueueOK'
  BY DEF QueueOK

-----------------------------------------------------------------------------
\* The values that count the posted runnables.
LEMMA PostedTypes ==
  ASSUME posted \in 0..MaxPosted
  PROVE  /\ posted > 0 => posted - 1 \in 0..MaxPosted
         /\ posted < MaxPosted => posted + 1 \in 0..MaxPosted
  BY ServiceAssumption

LEMMA AttemptTyped ==
  ASSUME Typed, main = "free", NEW p \in Policies, NEW tick \in BOOLEAN, Attempt(p, tick),
         posted' \in 0..MaxPosted, stopped' \in BOOLEAN,
         races' \subseteq {"booked", "freed", "settled", "started"}
  PROVE  Typed'
  <1>1. CASE ConnectNow /\ policy' = p /\ retry' = tick
    BY <1>1, GenerationsAreLinks DEF Typed, ConnectNow, linkVars
  <1>2. CASE NoConnection /\ policy' \in Policies /\ retry' \in BOOLEAN
    BY <1>2 DEF Typed, NoConnection, linkVars, jobVars
  <1>3. (tick \/ RetriesAfterFailure(p)) \in BOOLEAN
    BY PolicyAnswers
  <1> QED
    BY <1>1, <1>2, <1>3, PolicyTypes DEF Attempt

LEMMA TypedKept ==
  ASSUME Inv, [Next]_vars
  PROVE  Typed'
  <1> USE DEF Inv
  <1>1. CASE UserConnect
      BY <1>1, GenerationsAreLinks, PolicyTypes DEF Typed, UserConnect, Tap, ConnectNow,
          linkVars, stateVars, jobVars, otherVars
  <1>2. CASE AutoStart
    <2>1. CASE policy.enabled
      BY <1>2, <2>1, PolicyTypes, PostedTypes, AttemptTyped DEF Typed, AutoStart
    <2>2. CASE ~policy.enabled
      BY <1>2, <2>2, PostedTypes DEF Typed, AutoStart, NoConnection, linkVars, jobVars
    <2> QED
      BY <2>1, <2>2
  <1>3. CASE RetryTick
    <2>1. CASE AttemptDue(policy)
      BY <1>3, <2>1, PolicyTypes, AttemptTyped DEF Typed, RetryTick
    <2>2. CASE ~AttemptDue(policy)
      BY <1>3, <2>2 DEF Typed, RetryTick, NoConnection, linkVars, jobVars
    <2> QED
      BY <2>1, <2>2
  <1>4. CASE ResumeIfBlocked
      BY <1>4, PolicyTypes, AttemptTyped DEF Typed, ResumeIfBlocked
  <1>5. CASE AutoConnectOn
    <2>1. posted' \in 0..MaxPosted /\ stopped' \in BOOLEAN /\ policy' \in Policies
      <3>1. \/ posted < MaxPosted /\ posted' = posted + 1 /\ stopped' = FALSE
            \/ UNCHANGED <<posted, stopped>>
        BY <1>5 DEF AutoConnectOn
      <3>2. policy' \in Policies
        BY <1>5, PolicyTypes DEF AutoConnectOn, Typed
      <3> QED
        BY <3>1, <3>2, PostedTypes DEF Typed
    <2>2. UNCHANGED <<linkVars, generation, phase, established, retry, uds, jobVars, main, active,
                      tapped, races>>
      BY <1>5 DEF AutoConnectOn
    <2> QED
      BY <2>1, <2>2 DEF Typed, linkVars, jobVars
  <1>6. CASE AutoConnectOff
      BY <1>6, PolicyTypes, PolicyAnswers DEF Typed, AutoConnectOff, Stopped, linkVars, jobVars
  <1>7. CASE Disconnect
      BY <1>7, PolicyTypes DEF Typed, Disconnect, Stopped, linkVars, stateVars, jobVars, otherVars
  <1>8. CASE Release
      BY <1>8, GenerationsAreLinks DEF Typed, Release, linkVars, stateVars, jobVars,
          otherVars
  <1>9. CASE CloseOrLeave
      BY <1>9, LinkClosedTypes, GenerationsAreLinks DEF Typed, CloseOrLeave, linkVars,
          stateVars, jobVars, otherVars
  <1>10. CASE EndDisconnect
      BY <1>10 DEF Typed, EndDisconnect, linkVars, stateVars, jobVars, otherVars
  <1>11. ASSUME NEW action \in Jobs, RunJob(action)
       PROVE  Typed'
      BY <1>11 DEF Typed, RunJob, linkVars, stateVars, jobVars, otherVars
  <1>12. CASE Take
      BY <1>12 DEF Typed, Take, linkVars, stateVars, jobVars, otherVars
  <1>13. CASE Ask
      BY <1>13, LinkTypes, GenerationsAreLinks DEF Typed, Ask, linkVars, stateVars, jobVars,
          otherVars
  <1>14. CASE GiveUp
      BY <1>14, LinkTypes, GenerationsAreLinks DEF Typed, GiveUp, linkVars, stateVars,
          jobVars, otherVars, ExchangeInv
  <1>15. CASE OpenLink
      BY <1>15, GenerationsAreLinks, ZenonT(60) DEF Typed, OpenLink, linkVars, stateVars, jobVars,
          otherVars, TasksOK, Tasks
  <1>16. CASE CheckOpened
    <2>1. task.token \in Links
      BY <1>16, StepKinds DEF TasksOK, CheckOpened, ConnectSteps
    <2> QED
      BY <1>16, <2>1, LinkTypes DEF Typed, CheckOpened, linkVars, stateVars, jobVars, otherVars
  <1>17. CASE Linked
      BY <1>17 DEF Typed, Linked, linkVars, stateVars, jobVars, otherVars
  <1>18. CASE CreateCore
    <2>1. CASE Current
      BY <1>18, <2>1, ZenonT(60) DEF Typed, TasksOK, Tasks, CreateCore, linkVars, stateVars, jobVars, otherVars
    <2>2. CASE ~Current
      BY <1>18, <2>2 DEF Typed, CreateCore, linkVars, stateVars, jobVars, otherVars
    <2> QED
      BY <2>1, <2>2
  <1>19. CASE Initialized
      BY <1>19, ShownIsBoolean DEF Typed, Initialized, linkVars, stateVars, jobVars,
          otherVars
  <1>20. CASE Inventoried
      BY <1>20, ShownIsBoolean DEF Typed, Inventoried, linkVars, stateVars, jobVars,
          otherVars
  <1>21. CASE OdometerRead
      BY <1>21, ShownIsBoolean DEF Typed, OdometerRead, linkVars, stateVars, jobVars,
          otherVars
  <1>22. CASE SetReady
      BY <1>22 DEF Typed, SetReady, linkVars, stateVars, jobVars, otherVars
  <1>23. CASE CheckConnected
      BY <1>23 DEF Typed, CheckConnected, linkVars, stateVars, jobVars, otherVars
  <1>24. CASE Establish
      BY <1>24, PolicyTypes DEF Typed, Establish, linkVars, stateVars, jobVars, otherVars
  <1>25. CASE CheckSurvey
      BY <1>25 DEF Typed, CheckSurvey, linkVars, stateVars, jobVars, otherVars
  <1>26. CASE BookSurvey
      BY <1>26 DEF Typed, BookSurvey, HandOver, linkVars, stateVars, jobVars, otherVars
  <1>27. CASE StartJob
      BY <1>27 DEF Typed, StartJob, linkVars, stateVars, jobVars, otherVars
  <1>28. CASE StartKnowledge
      BY <1>28, ShownIsBoolean DEF Typed, StartKnowledge, linkVars, stateVars, jobVars,
          otherVars
  <1>29. CASE JobDone
      BY <1>29, ShownIsBoolean DEF Typed, JobDone, linkVars, stateVars, jobVars, otherVars
  <1>30. CASE PollLost
      BY <1>30 DEF Typed, PollLost, linkVars, stateVars, jobVars, otherVars
  <1>31. CASE Ticked
      BY <1>31, ShownIsBoolean DEF Typed, Ticked, linkVars, stateVars, jobVars, otherVars
  <1>32. CASE PollRead
      BY <1>32, ShownIsBoolean DEF Typed, PollRead, linkVars, stateVars, jobVars, otherVars
  <1>33. CASE Leave
      BY <1>33, ShownIsBoolean, LinkClosedTypes DEF Typed, Leave, linkVars, stateVars,
          jobVars, otherVars, TasksOK, Tasks, Shape
  <1>34. CASE DestroyCore
      BY <1>34, GenerationsAreLinks, ZenonT(60) DEF Typed, DestroyCore, linkVars, stateVars, jobVars,
          otherVars
  <1>35. CASE Fail
    <2>1. CASE Current
      BY <1>35, <2>1, ZenonT(60) DEF Typed, Fail, linkVars, stateVars, jobVars, otherVars
    <2>2. CASE ~Current
      BY <1>35, <2>2 DEF Typed, Fail, linkVars, stateVars, jobVars, otherVars
    <2> QED
      BY <2>1, <2>2
  <1>36. CASE FailLink
      BY <1>36, LinkClosedTypes, GenerationsAreLinks, ZenonT(60) DEF Typed, FailLink, linkVars,
          stateVars, jobVars, otherVars
  <1>37. CASE FailPhase
      BY <1>37 DEF Typed, FailPhase, linkVars, stateVars, jobVars, otherVars
  <1>38. CASE FailPolicy
      BY <1>38, PolicyTypes DEF Typed, FailPolicy, linkVars, stateVars, jobVars, otherVars
  <1>39. CASE FailSchedule
      BY <1>39, PolicyTypes, ZenonT(60) DEF Typed, FailSchedule, linkVars, stateVars, jobVars, otherVars
  <1>40. CASE Finally
      BY <1>40, ZenonT(60) DEF Typed, Finally, linkVars, stateVars, jobVars, otherVars
  <1>41. CASE PollLink
      BY <1>41 DEF Typed, PollLink, linkVars, stateVars, jobVars, otherVars
  <1>42. CASE PollSignals
      BY <1>42 DEF Typed, PollSignals, linkVars, stateVars, jobVars, otherVars
  <1>43. CASE ShowDisconnected
      BY <1>43 DEF Typed, ShowDisconnected, linkVars, stateVars, jobVars, otherVars
  <1>44. ASSUME NEW l \in Links, Hear(l)
       PROVE  Typed'
    <2>1. link' \in [Links -> BleLinks]
      <3>1. CASE link[l].waiting
        <4>1. link' = [link EXCEPT ![l] = Accepted(@)]
          BY <1>44, <3>1 DEF Hear
        <4> QED
          BY <4>1, LinkTypes DEF Typed
      <3>2. CASE ~link[l].waiting
        BY <1>44, <3>2, LinkTypes DEF Typed, Hear
      <3> QED
        BY <3>1, <3>2
    <2>2. session' \in Generations
      BY <1>44, GenerationsAreLinks DEF Typed, Hear, SessionAfter
    <2> QED
      BY <1>44, <2>1, <2>2, ZenonT(60) DEF Typed, Hear, stateVars, jobVars, otherVars
  <1>45. ASSUME NEW l \in Links, GattReady(l)
       PROVE  Typed'
      BY <1>45, LinkTypes DEF Typed, GattReady, linkVars, stateVars, jobVars, otherVars
  <1>46. ASSUME NEW l \in Links, GattLost(l)
       PROVE  Typed'
      BY <1>46, LinkTypes DEF Typed, GattLost, linkVars, stateVars, jobVars, otherVars
  <1>47. CASE UNCHANGED vars
      BY <1>47 DEF Typed, vars, linkVars, stateVars, jobVars, otherVars
  <1>48. CASE ClaimJob
      BY <1>48 DEF Typed, ClaimJob, Claim, linkVars, stateVars
  <1>49. CASE BookJob
      BY <1>49 DEF Typed, BookJob, HandOver, linkVars, stateVars, jobVars
  <1>50. CASE ClaimSurvey
      BY <1>50 DEF Typed, ClaimSurvey, Claim, linkVars, stateVars
  <1>51. CASE Settle
      BY <1>51, PolicyTypes DEF Typed, Settle, linkVars, jobVars
  <1>52. CASE FreeWorker
    <2>1. races' = races \/ races' = races \cup {"freed"}
      BY <1>52 DEF FreeWorker
    <2>2. races' \subseteq {"booked", "freed", "settled", "started"}
      BY <2>1 DEF Typed
    <2>3. /\ busy' \in BOOLEAN
          /\ UNCHANGED <<linkVars, stateVars, uds, udsJob, knowledgeJob, main, active, tapped, posted>>
      BY <1>52 DEF FreeWorker
    <2> QED
      BY <2>2, <2>3 DEF Typed, linkVars, stateVars
  <1> QED
      BY <1>1, <1>2, <1>3, <1>4, <1>5, <1>6, <1>7, <1>8, <1>9, <1>10, <1>11, <1>12, <1>13, <1>14,
         <1>15, <1>16, <1>17, <1>18, <1>19, <1>20, <1>21, <1>22, <1>23, <1>24, <1>25, <1>26,
            <1>27, <1>28, <1>29, <1>30, <1>31, <1>32, <1>33, <1>34, <1>35, <1>36, <1>37, <1>38,
               <1>39, <1>40, <1>41, <1>42, <1>43, <1>44, <1>45, <1>46, <1>47, <1>48,
                  <1>49, <1>50, <1>51, <1>52 DEF Next, Main, Goes, Work, Poll, Adapter

LEMMA ConnectQueued ==
  ASSUME Inv, ConnectNow
  PROVE  TasksOK'
  <1> DEFINE t == Task("connect", generation + 1, 0, "none")
  <1>1. t \in Tasks /\ Shape(t) /\ t.at = "start" /\ t.heard = "none"
    <2>1. "connect" \in Kinds \ {"idle", "poll"} /\ "none" \in Actions
      BY DEF Kinds, Actions
    <2>2. generation + 1 \in Links
      BY GenerationsAreLinks DEF Inv, Typed, ConnectNow
    <2>3. generation + 1 \in Generations /\ generation + 1 # 0
      BY <2>2 DEF Links, Generations
    <2> QED
      BY <2>1, <2>3, GenerationsAreLinks, NewTask
  <1> HIDE DEF t
  <1> QED
    BY <1>1, Queued DEF Inv, ConnectNow, TasksOK, t

LEMMA TasksKept ==
  ASSUME Inv, [Next]_vars
  PROVE  TasksOK'
  <1> USE DEF Inv
  <1>1. CASE UserConnect
      BY <1>1, ConnectQueued DEF UserConnect
  <1>2. CASE AutoStart
    <2>1. CASE ConnectNow
      BY <2>1, ConnectQueued
    <2>2. CASE ~ConnectNow
      BY <1>2, <2>2, SameQueue DEF AutoStart, Attempt, NoConnection, TasksOK
    <2> QED
      BY <2>1, <2>2
  <1>3. CASE RetryTick
    <2>1. CASE ConnectNow
      BY <2>1, ConnectQueued
    <2>2. CASE ~ConnectNow
      BY <1>3, <2>2, SameQueue DEF RetryTick, Attempt, NoConnection, TasksOK
    <2> QED
      BY <2>1, <2>2
  <1>4. CASE ResumeIfBlocked
    <2>1. CASE ConnectNow
      BY <2>1, ConnectQueued
    <2>2. CASE ~ConnectNow
      BY <1>4, <2>2, SameQueue DEF ResumeIfBlocked, Attempt, NoConnection, TasksOK
    <2> QED
      BY <2>1, <2>2
  <1>5. CASE AutoConnectOn
      BY <1>5, SameQueue DEF AutoConnectOn, TasksOK
  <1>6. CASE AutoConnectOff
      BY <1>6, SameQueue DEF AutoConnectOff, TasksOK, linkVars, stateVars, jobVars, otherVars
  <1>7. CASE Disconnect
      BY <1>7, SameQueue DEF Disconnect, TasksOK, linkVars, stateVars, jobVars, otherVars
  <1>8. CASE Release
      BY <1>8, SameQueue DEF Release, TasksOK, linkVars, stateVars, jobVars, otherVars
  <1>9. CASE CloseOrLeave
    <2> DEFINE t == Task("leave", 0, active, "uds.disable")
    <2>1. t \in Tasks /\ Shape(t) /\ t.at = "start" /\ t.heard = "none"
      <3>1. "leave" \in Kinds \ {"idle", "poll"} /\ "uds.disable" \in Actions
        BY DEF Kinds, Actions
      <3>2. 0 \in Generations /\ active \in Generations
        BY GenerationsAreLinks DEF Typed
      <3> QED
        BY <3>1, <3>2, NewTask
    <2> HIDE DEF t
    <2>2. CASE Leaving
      BY <1>9, <2>1, <2>2, Queued DEF CloseOrLeave, TasksOK, t
    <2>3. CASE ~Leaving
      BY <1>9, <2>3, SameQueue DEF CloseOrLeave, TasksOK
    <2> QED
      BY <2>2, <2>3
  <1>10. CASE EndDisconnect
      BY <1>10, SameQueue DEF EndDisconnect, TasksOK
  <1>11. ASSUME NEW action \in Jobs, RunJob(action)
       PROVE  TasksOK'
      BY <1>11, SameQueue DEF RunJob, TasksOK
  <1>12. CASE Take
    <2>1. queue \in Seq(Tasks) /\ queue # <<>>
      BY <1>12 DEF Take, TasksOK, QueueOK
    <2>2. task' = queue[1] /\ queue' \in Seq(Tasks) /\ Len(queue') = Len(queue) - 1 /\ Len(queue) >= 1
      BY <1>12, <2>1 DEF Take
    <2>3. \A i \in 1..Len(queue') : queue'[i] = queue[i + 1] /\ i + 1 \in 1..Len(queue)
      BY <1>12, <2>1, <2>2 DEF Take
    <2> QED
      BY <2>1, <2>2, <2>3, SMTT(30) DEF TasksOK, QueueOK
  <1>13. CASE Ask
    <2>1. task' \in Tasks /\ Shape(task')
      BY <1>13, StepKinds DEF Ask, TasksOK, Typed, Shape, ConnectSteps, FailSteps, Steps,
          Kinds, Actions, Tasks, Executing
    <2>2. QueueOK'
      BY <1>13, SameQueue DEF Ask, TasksOK, linkVars, stateVars, jobVars, otherVars
    <2> QED
      BY <2>1, <2>2 DEF TasksOK
  <1>14. CASE GiveUp
    <2>1. task' \in Tasks /\ Shape(task')
      BY <1>14, StepKinds DEF GiveUp, TasksOK, Typed, Shape, ConnectSteps, FailSteps, Steps,
          Kinds, Actions, Tasks, Executing
    <2>2. QueueOK'
      BY <1>14, SameQueue DEF GiveUp, TasksOK, linkVars, stateVars, jobVars, otherVars
    <2> QED
      BY <2>1, <2>2 DEF TasksOK
  <1>15. CASE OpenLink
    <2>1. task' \in Tasks /\ Shape(task')
      BY <1>15, StepKinds, AtFields DEF OpenLink, TasksOK, Typed, Shape, ConnectSteps,
          FailSteps, Steps, Kinds, Actions
    <2>2. QueueOK'
      BY <1>15, SameQueue DEF OpenLink, TasksOK, linkVars, stateVars, jobVars, otherVars
    <2> QED
      BY <2>1, <2>2 DEF TasksOK
  <1>16. CASE CheckOpened
    <2>1. task' \in Tasks /\ Shape(task')
      BY <1>16, StepKinds, AtFields DEF CheckOpened, TasksOK, Typed, Shape, ConnectSteps,
          FailSteps, Steps, Kinds, Actions
    <2>2. QueueOK'
      BY <1>16, SameQueue DEF CheckOpened, TasksOK, linkVars, stateVars, jobVars, otherVars
    <2> QED
      BY <2>1, <2>2 DEF TasksOK
  <1>17. CASE Linked
    <2>1. task' \in Tasks /\ Shape(task')
      BY <1>17, StepKinds, AtFields DEF Linked, TasksOK, Typed, Shape, ConnectSteps,
          FailSteps, Steps, Kinds, Actions, Throw
    <2>2. QueueOK'
      BY <1>17, SameQueue DEF Linked, TasksOK, linkVars, stateVars, jobVars, otherVars
    <2> QED
      BY <2>1, <2>2 DEF TasksOK
  <1>18. CASE CreateCore
    <2>1. task' \in Tasks /\ Shape(task')
      BY <1>18, Moves, StepKinds DEF Moved, CreateCore, TasksOK, Typed, Shape, ConnectSteps,
          FailSteps
    <2>2. QueueOK'
      BY <1>18, SameQueue DEF CreateCore, TasksOK, linkVars, stateVars, jobVars, otherVars
    <2> QED
      BY <2>1, <2>2 DEF TasksOK
  <1>19. CASE Initialized
    <2>1. task' \in Tasks /\ Shape(task')
      BY <1>19, Moves, StepKinds DEF Moved, Initialized, TasksOK, Typed, Shape, ConnectSteps,
          FailSteps, Continue
    <2>2. QueueOK'
      BY <1>19, SameQueue DEF Initialized, TasksOK, linkVars, stateVars, jobVars, otherVars
    <2> QED
      BY <2>1, <2>2 DEF TasksOK
  <1>20. CASE Inventoried
    <2>1. task' \in Tasks /\ Shape(task')
      BY <1>20, Moves, StepKinds DEF Moved, Inventoried, TasksOK, Typed, Shape, ConnectSteps,
          FailSteps, Continue
    <2> DEFINE t == Task("survey", 0, 0, "knowledge")
    <2>2. t \in Tasks /\ Shape(t) /\ t.at = "start" /\ t.heard = "none"
      BY TaskFields, GenerationsAreLinks DEF Kinds, Actions, Shape
    <2> HIDE DEF t
    <2>3. queue' = queue \/ queue' = Append(queue, t)
      BY <1>20 DEF Inventoried, t
    <2>4. QueueOK'
      BY <2>2, <2>3, Queued, SameQueue DEF TasksOK
    <2> QED
      BY <2>1, <2>4 DEF TasksOK
  <1>21. CASE OdometerRead
    <2>1. task' \in Tasks /\ Shape(task')
      BY <1>21, StepKinds, AtFields DEF OdometerRead, TasksOK, Typed, Shape, ConnectSteps,
          FailSteps, Steps, Kinds, Actions, Continue, Throw
    <2>2. QueueOK'
      BY <1>21, SameQueue DEF OdometerRead, TasksOK, linkVars, stateVars, jobVars, otherVars
    <2> QED
      BY <2>1, <2>2 DEF TasksOK
  <1>22. CASE SetReady
    <2>1. task' \in Tasks /\ Shape(task')
      BY <1>22, StepKinds, AtFields DEF SetReady, TasksOK, Typed, Shape, ConnectSteps,
          FailSteps, Steps, Kinds, Actions
    <2>2. QueueOK'
      BY <1>22, SameQueue DEF SetReady, TasksOK, linkVars, stateVars, jobVars, otherVars
    <2> QED
      BY <2>1, <2>2 DEF TasksOK
  <1>23. CASE CheckConnected
    <2>1. task' \in Tasks /\ Shape(task')
      BY <1>23, StepKinds, AtFields DEF CheckConnected, TasksOK, Typed, Shape, ConnectSteps,
          FailSteps, Steps, Kinds, Actions
    <2>2. QueueOK'
      BY <1>23, SameQueue DEF CheckConnected, TasksOK, linkVars, stateVars, jobVars, otherVars
    <2> QED
      BY <2>1, <2>2 DEF TasksOK
  <1>24. CASE Establish
    <2>1. task' \in Tasks /\ Shape(task')
      BY <1>24, StepKinds, AtFields DEF Establish, TasksOK, Typed, Shape, ConnectSteps,
          FailSteps, Steps, Kinds, Actions
    <2>2. QueueOK'
      BY <1>24, SameQueue DEF Establish, TasksOK, linkVars, stateVars, jobVars, otherVars
    <2> QED
      BY <2>1, <2>2 DEF TasksOK
  <1>25. CASE CheckSurvey
    <2>1. task' \in Tasks /\ Shape(task')
      BY <1>25, StepKinds, IdleShape, AtFields DEF CheckSurvey, TasksOK, Typed, Shape,
          ConnectSteps, FailSteps, Steps, Kinds, Actions
    <2>2. QueueOK'
      BY <1>25, SameQueue DEF CheckSurvey, TasksOK, linkVars, stateVars, jobVars, otherVars
    <2> QED
      BY <2>1, <2>2 DEF TasksOK
  <1>26. CASE BookSurvey
    <2> DEFINE t == Task("job", generation, 0, "knowledge")
    <2>1. t \in Tasks /\ Shape(t) /\ t.at = "start" /\ t.heard = "none"
      <3>1. "job" \in Kinds \ {"idle", "poll"} /\ "knowledge" \in Actions
        BY ServiceAssumption DEF Kinds, Actions
      <3>2. generation \in Generations /\ 0 \in Generations
        BY GenerationsAreLinks DEF Typed
      <3> QED
        BY <3>1, <3>2, NewTask
    <2> HIDE DEF t
    <2> QED
      BY <1>26, <2>1, Queued, IdleShape DEF BookSurvey, HandOver, TasksOK, t
  <1>27. CASE StartJob
    <2>1. task' \in Tasks /\ Shape(task')
      BY <1>27, StepKinds, AtFields DEF StartJob, TasksOK, Typed, Shape, ConnectSteps,
          FailSteps, Steps, Kinds, Actions, Tasks
    <2>2. QueueOK'
      BY <1>27, SameQueue DEF StartJob, TasksOK, linkVars, stateVars, jobVars, otherVars
    <2> QED
      BY <2>1, <2>2 DEF TasksOK
  <1>28. CASE StartKnowledge
    <2>1. task' \in Tasks /\ Shape(task')
      BY <1>28, StepKinds, AtFields, ZenonT(60) DEF StartKnowledge, TasksOK, Typed, Shape, ConnectSteps,
          FailSteps, Steps, Kinds, Actions, Continue, Throw, Tasks
    <2>2. QueueOK'
      BY <1>28, SameQueue DEF StartKnowledge, TasksOK, linkVars, stateVars, jobVars, otherVars
    <2> QED
      BY <2>1, <2>2 DEF TasksOK
  <1>29. CASE JobDone
    <2>1. task' \in Tasks /\ Shape(task')
      BY <1>29, StepKinds, AtFields DEF JobDone, TasksOK, Typed, Shape, ConnectSteps,
          FailSteps, Steps, Kinds, Actions, Continue, Throw
    <2>2. QueueOK'
      BY <1>29, SameQueue DEF JobDone, TasksOK, linkVars, stateVars, jobVars, otherVars
    <2> QED
      BY <2>1, <2>2 DEF TasksOK
  <1>30. CASE PollLost
    <2>1. task' \in Tasks /\ Shape(task')
      BY <1>30, StepKinds DEF PollLost, TasksOK, Typed, Shape, ConnectSteps, FailSteps, Steps,
          Kinds, Actions, Tasks
    <2>2. QueueOK'
      BY <1>30, SameQueue DEF PollLost, TasksOK, linkVars, stateVars, jobVars, otherVars
    <2> QED
      BY <2>1, <2>2 DEF TasksOK
  <1>31. CASE Ticked
    <2>1. task' \in Tasks /\ Shape(task')
      BY <1>31, Moves, StepKinds DEF Moved, Ticked, TasksOK, Typed, Shape, ConnectSteps,
          FailSteps, Continue
    <2>2. QueueOK'
      BY <1>31, SameQueue DEF Ticked, TasksOK, linkVars, stateVars, jobVars, otherVars
    <2> QED
      BY <2>1, <2>2 DEF TasksOK
  <1>32. CASE PollRead
    <2>1. task' \in Tasks /\ Shape(task')
      BY <1>32, StepKinds, AtFields DEF PollRead, TasksOK, Typed, Shape, ConnectSteps,
          FailSteps, Steps, Kinds, Actions, Continue, Throw
    <2>2. QueueOK'
      BY <1>32, SameQueue DEF PollRead, TasksOK, linkVars, stateVars, jobVars, otherVars
    <2> QED
      BY <2>1, <2>2 DEF TasksOK
  <1>33. CASE Leave
    <2>1. task' \in Tasks /\ Shape(task')
      BY <1>33, StepKinds, IdleShape DEF Leave, TasksOK, Typed, Shape, ConnectSteps,
          FailSteps, Steps, Kinds, Actions, Tasks
    <2>2. QueueOK'
      BY <1>33, SameQueue DEF Leave, TasksOK, linkVars, stateVars, jobVars, otherVars
    <2> QED
      BY <2>1, <2>2 DEF TasksOK
  <1>34. CASE DestroyCore
    <2>1. task' \in Tasks /\ Shape(task')
      BY <1>34, StepKinds, IdleShape DEF DestroyCore, TasksOK, Typed, Shape, ConnectSteps,
          FailSteps, Steps, Kinds, Actions
    <2>2. QueueOK'
      BY <1>34, SameQueue DEF DestroyCore, TasksOK, linkVars, stateVars, jobVars, otherVars
    <2> QED
      BY <2>1, <2>2 DEF TasksOK
  <1>35. CASE Fail
    <2>1. task' \in Tasks /\ Shape(task')
      <3>1. CASE Current
        <4>1. task' = [task EXCEPT !.at = "failing", !.was = established]
          BY <1>35, <3>1 DEF Fail
        <4> QED
          BY <1>35, <4>1, StepKinds DEF Fail, Tasks, TasksOK, Typed, Shape, Steps, ConnectSteps,
             FailSteps
      <3>2. CASE ~Current
        BY <1>35, <3>2, StepKinds, AtFields DEF Fail, TasksOK, Shape, Steps, ConnectSteps, FailSteps
      <3> QED
        BY <3>1, <3>2
    <2>2. QueueOK'
      BY <1>35, SameQueue DEF Fail, TasksOK, otherVars
    <2> QED
      BY <2>1, <2>2 DEF TasksOK
  <1>36. CASE FailLink
    <2>1. task' \in Tasks /\ Shape(task')
      BY <1>36, StepKinds, AtFields DEF FailLink, TasksOK, Typed, Shape, ConnectSteps,
          FailSteps, Steps, Kinds, Actions
    <2>2. QueueOK'
      BY <1>36, SameQueue DEF FailLink, TasksOK, linkVars, stateVars, jobVars, otherVars
    <2> QED
      BY <2>1, <2>2 DEF TasksOK
  <1>37. CASE FailPhase
    <2>1. task' \in Tasks /\ Shape(task')
      BY <1>37, StepKinds, AtFields DEF FailPhase, TasksOK, Typed, Shape, ConnectSteps,
          FailSteps, Steps, Kinds, Actions
    <2>2. QueueOK'
      BY <1>37, SameQueue DEF FailPhase, TasksOK, linkVars, stateVars, jobVars, otherVars
    <2> QED
      BY <2>1, <2>2 DEF TasksOK
  <1>38. CASE FailPolicy
    <2>1. task' \in Tasks /\ Shape(task')
      BY <1>38, StepKinds, ZenonT(60) DEF FailPolicy, TasksOK, Typed, Shape, ConnectSteps, FailSteps,
          Steps, Kinds, Actions, Tasks
    <2>2. QueueOK'
      BY <1>38, SameQueue DEF FailPolicy, TasksOK, linkVars, stateVars, jobVars, otherVars
    <2> QED
      BY <2>1, <2>2 DEF TasksOK
  <1>39. CASE FailSchedule
    <2>1. task' \in Tasks /\ Shape(task')
      BY <1>39, StepKinds, AtFields DEF FailSchedule, TasksOK, Typed, Shape, ConnectSteps,
          FailSteps, Steps, Kinds, Actions
    <2>2. QueueOK'
      BY <1>39, SameQueue DEF FailSchedule, TasksOK, linkVars, stateVars, jobVars, otherVars
    <2> QED
      BY <2>1, <2>2 DEF TasksOK
  <1>40. CASE Finally
    <2>1. task' \in Tasks /\ Shape(task')
      BY <1>40, StepKinds, IdleShape, AtFields DEF Finally, TasksOK, Typed, Shape, ConnectSteps,
          FailSteps, Steps, Kinds, Actions
    <2>2. QueueOK'
      BY <1>40, SameQueue DEF Finally, TasksOK, linkVars, stateVars, jobVars, otherVars
    <2> QED
      BY <2>1, <2>2 DEF TasksOK
  <1>41. CASE PollLink
    <2>1. task' \in Tasks /\ Shape(task')
      BY <1>41, StepKinds, GenerationsAreLinks DEF PollLink, TasksOK, Typed, Shape,
          ConnectSteps, FailSteps, Steps, Kinds, Actions, Task, Tasks
    <2>2. QueueOK'
      BY <1>41, SameQueue DEF PollLink, TasksOK, linkVars, stateVars, jobVars, otherVars
    <2> QED
      BY <2>1, <2>2 DEF TasksOK
  <1>42. CASE PollSignals
    <2>1. task' \in Tasks /\ Shape(task')
      <3>1. ASSUME NEW action \in {"uds.tick", "read"}, NEW step \in {"tick", "read"},
                   task' = [Task("poll", generation, 0, action) EXCEPT !.at = step]
            PROVE  /\ task' \in Tasks /\ task'.kind = "poll" /\ task'.at = step
                   /\ task'.action = action
        BY <3>1, GenerationsAreLinks DEF Typed, Steps, Kinds, Actions, Task, Tasks
      <3>2. PICK action \in {"uds.tick", "read"}, step \in {"tick", "read"} :
              task' = [Task("poll", generation, 0, action) EXCEPT !.at = step]
        BY <1>42 DEF PollSignals
      <3> QED
        BY <3>1, <3>2 DEF Shape
    <2>2. QueueOK'
      BY <1>42, SameQueue DEF PollSignals, TasksOK, linkVars, stateVars, jobVars, otherVars
    <2> QED
      BY <2>1, <2>2 DEF TasksOK
  <1>43. CASE ShowDisconnected
    <2> DEFINE t == Task("destroy", 0, 0, "none")
    <2>1. t \in Tasks /\ Shape(t) /\ t.at = "start" /\ t.heard = "none"
      <3>1. "destroy" \in Kinds \ {"idle", "poll"} /\ "none" \in Actions
        BY DEF Kinds, Actions
      <3>2. 0 \in Generations /\ 0 \in Generations
        BY GenerationsAreLinks DEF Typed
      <3> QED
        BY <3>1, <3>2, NewTask
    <2> HIDE DEF t
    <2> QED
      BY <1>43, <2>1, Queued DEF ShowDisconnected, TasksOK, t
  <1>44. ASSUME NEW l \in Links, Hear(l)
       PROVE  TasksOK'
    <2>1. task' \in Tasks /\ Shape(task')
      <3>1. CASE link[l].waiting
        <4>1. PICK ok \in BOOLEAN :
                task' = [task EXCEPT !.call = IF ok THEN "ok" ELSE "refused", !.heard = Arriving(link[l])]
          BY <1>44, <3>1 DEF Hear
        <4>2. Arriving(link[l]) \in {"own", "old"} /\ task.at # "start"
          BY <3>1, LinkTypes DEF Typed, ExchangeInv, Executing
        <4> QED
          BY <4>1, <4>2, ZenonT(60) DEF TasksOK, Tasks, Shape
      <3>2. CASE ~link[l].waiting
        BY <1>44, <3>2 DEF Hear, TasksOK
      <3> QED
        BY <3>1, <3>2
    <2>2. QueueOK'
      BY <1>44, SameQueue DEF Hear, TasksOK, otherVars
    <2> QED
      BY <2>1, <2>2 DEF TasksOK
  <1>45. ASSUME NEW l \in Links, GattReady(l)
       PROVE  TasksOK'
      BY <1>45, SameQueue DEF GattReady, TasksOK, linkVars, stateVars, jobVars, otherVars
  <1>46. ASSUME NEW l \in Links, GattLost(l)
       PROVE  TasksOK'
      BY <1>46, SameQueue DEF GattLost, TasksOK, linkVars, stateVars, jobVars, otherVars
  <1>47. CASE UNCHANGED vars
      BY <1>47, SameQueue DEF TasksOK, vars, otherVars
  <1>48. CASE ClaimJob
      BY <1>48, SameQueue DEF ClaimJob, Claim, TasksOK
  <1>49. CASE BookJob
    <2> DEFINE t == Task("job", generation, 0, tapped)
    <2>1. t \in Tasks /\ Shape(t) /\ t.at = "start" /\ t.heard = "none"
      <3>1. "job" \in Kinds \ {"idle", "poll"} /\ tapped \in Actions
        BY <1>49, ServiceAssumption DEF BookJob, Typed, Kinds, Actions
      <3>2. generation \in Generations /\ 0 \in Generations
        BY GenerationsAreLinks DEF Typed
      <3> QED
        BY <3>1, <3>2, NewTask
    <2> HIDE DEF t
    <2> QED
      BY <1>49, <2>1, Queued DEF BookJob, HandOver, TasksOK, t
  <1>50. CASE ClaimSurvey
    <2>1. task' \in Tasks /\ Shape(task')
      BY <1>50, StepKinds DEF ClaimSurvey, TasksOK, Typed, Shape, Steps, Tasks, ConnectSteps, FailSteps
    <2>2. QueueOK'
      BY <1>50, SameQueue DEF ClaimSurvey, Claim, TasksOK
    <2> QED
      BY <2>1, <2>2 DEF TasksOK
  <1>51. CASE Settle
    <2>1. task' \in Tasks /\ Shape(task')
      BY <1>51, StepKinds, AtFields DEF Settle, TasksOK, Shape, ConnectSteps, FailSteps, Steps
    <2>2. QueueOK'
      BY <1>51, SameQueue DEF Settle, TasksOK
    <2> QED
      BY <2>1, <2>2 DEF TasksOK
  <1>52. CASE FreeWorker
    <2>1. task' \in Tasks /\ Shape(task')
      BY <1>52, IdleShape DEF FreeWorker
    <2>2. QueueOK'
      BY <1>52, SameQueue DEF FreeWorker, TasksOK
    <2> QED
      BY <2>1, <2>2 DEF TasksOK
  <1> QED
      BY <1>1, <1>2, <1>3, <1>4, <1>5, <1>6, <1>7, <1>8, <1>9, <1>10, <1>11, <1>12, <1>13, <1>14,
         <1>15, <1>16, <1>17, <1>18, <1>19, <1>20, <1>21, <1>22, <1>23, <1>24, <1>25, <1>26,
            <1>27, <1>28, <1>29, <1>30, <1>31, <1>32, <1>33, <1>34, <1>35, <1>36, <1>37, <1>38,
               <1>39, <1>40, <1>41, <1>42, <1>43, <1>44, <1>45, <1>46, <1>47, <1>48,
                  <1>49, <1>50, <1>51, <1>52 DEF Next, Main, Goes, Work, Poll, Adapter

\* A link is as it was for the exchanges, or what was under way is dropped.
Calmer(b, c) == c.waiting = b.waiting /\ c.air \subseteq b.air

LEMMA CalmerLinks ==
  ASSUME NEW b \in BleLinks
  PROVE  Calmer(b, b) /\ Calmer(b, Closed(b)) /\ Calmer(b, ConnectGatt(b))
         /\ Calmer(b, Subscribed(b)) /\ Calmer(b, LinkLost(b))
  BY DEF BleLinks, Calmer, Closed, ConnectGatt, Subscribed, LinkLost

LEMMA LinkClosedCalmer ==
  ASSUME Typed, NEW k \in Generations, NEW l \in Links
  PROVE  Calmer(link[l], LinkClosed(k)[l])
  BY CalmerLinks, GenerationsAreLinks DEF Typed, LinkClosed

\* The worker does not wait, before and after.
LEMMA NoExchange ==
  ASSUME ExchangeInv, task.call # "waiting", task'.call # "waiting", task'.heard # "old",
         \A l \in Links : Calmer(link[l], link'[l])
  PROVE  ExchangeInv'
  BY DEF ExchangeInv, Calmer, AnswerIsForOwnExchange

\* The worker and its core stay where they are.
LEMMA SameExchange ==
  ASSUME ExchangeInv, UNCHANGED <<task, core>>, \A l \in Links : Calmer(link[l], link'[l])
  PROVE  ExchangeInv'
  BY DEF ExchangeInv, Calmer, AnswerIsForOwnExchange, Executing

LEMMA NotExecuting ==
  ASSUME Inv, ~Executing \/ Returned
  PROVE  task.call # "waiting" /\ task.heard # "old"
  BY DEF Inv, ExchangeInv, Returned, AnswerIsForOwnExchange

LEMMA HeadIsQuiet ==
  ASSUME QueueOK, queue # <<>>
  PROVE  Head(queue).call = "none" /\ Head(queue).heard = "none"
  <1>1. Head(queue) = queue[1] /\ 1 \in 1..Len(queue)
    BY DEF QueueOK
  <1> QED
    BY <1>1 DEF QueueOK, Shape


LEMMA ExchangeKept ==
  ASSUME Inv, [Next]_vars
  PROVE  ExchangeInv'
  <1> USE DEF Inv
  <1>1. CASE UserConnect
    <2>1. UNCHANGED <<task, core, link>>
      BY <1>1 DEF UserConnect, ConnectNow, linkVars
    <2> QED
      BY <2>1, CalmerLinks, SameExchange DEF Typed
  <1>2. CASE AutoStart
    <2>1. UNCHANGED <<task, core, link>>
      BY <1>2 DEF AutoStart, Attempt, NoConnection, ConnectNow, linkVars
    <2> QED
      BY <2>1, CalmerLinks, SameExchange DEF Typed
  <1>3. CASE RetryTick
    <2>1. UNCHANGED <<task, core, link>>
      BY <1>3 DEF RetryTick, Attempt, NoConnection, ConnectNow, linkVars
    <2> QED
      BY <2>1, CalmerLinks, SameExchange DEF Typed
  <1>4. CASE ResumeIfBlocked
    <2>1. UNCHANGED <<task, core, link>>
      BY <1>4 DEF ResumeIfBlocked, Attempt, NoConnection, ConnectNow, linkVars
    <2> QED
      BY <2>1, CalmerLinks, SameExchange DEF Typed
  <1>5. CASE AutoConnectOn
    <2>1. UNCHANGED <<task, core, link>>
      BY <1>5 DEF AutoConnectOn, linkVars
    <2> QED
      BY <2>1, CalmerLinks, SameExchange DEF Typed
  <1>6. CASE AutoConnectOff
    <2>1. UNCHANGED <<task, core, link>>
      BY <1>6 DEF AutoConnectOff, linkVars
    <2> QED
      BY <2>1, CalmerLinks, SameExchange DEF Typed
  <1>7. CASE Disconnect
    <2>1. UNCHANGED <<task, core, link>>
      BY <1>7 DEF Disconnect, linkVars
    <2> QED
      BY <2>1, CalmerLinks, SameExchange DEF Typed
  <1>8. CASE Release
    <2>1. UNCHANGED <<task, core, link>>
      BY <1>8 DEF Release, linkVars
    <2> QED
      BY <2>1, CalmerLinks, SameExchange DEF Typed
  <1>9. CASE CloseOrLeave
    <2>1. \A l \in Links : Calmer(link[l], link'[l])
      BY <1>9, CalmerLinks, LinkClosedCalmer DEF CloseOrLeave, Typed
    <2> QED
      BY <1>9, <2>1, SameExchange DEF CloseOrLeave
  <1>10. CASE EndDisconnect
    <2>1. UNCHANGED <<task, core, link>>
      BY <1>10 DEF EndDisconnect, linkVars
    <2> QED
      BY <2>1, CalmerLinks, SameExchange DEF Typed
  <1>11. ASSUME NEW action \in Jobs, RunJob(action)
       PROVE  ExchangeInv'
    <2>1. UNCHANGED <<task, core, link>>
      BY <1>11 DEF RunJob, linkVars
    <2> QED
      BY <2>1, CalmerLinks, SameExchange DEF Typed
  <1>12. CASE Take
    <2>1. task.call # "waiting" /\ task.heard # "old"
      BY <1>12, NotExecuting DEF Take, Executing, Shape, TasksOK
    <2>2. task'.call # "waiting" /\ task'.heard # "old"
      BY <1>12, <2>1, HeadIsQuiet DEF Take, TasksOK
    <2>3. \A l \in Links : Calmer(link[l], link'[l])
      BY <1>12, CalmerLinks DEF Take, Typed, linkVars, stateVars, jobVars, otherVars
    <2> QED
      BY <2>1, <2>2, <2>3, NoExchange
  <1>13. CASE Ask
    <2>1. \A l \in Links : ~link[l].waiting /\ link[l].air = {}
      BY <1>13 DEF Ask, ExchangeInv
    <2>2. CASE core # 0 /\ IsOpen(link[core])
      <3>1. core \in Links
        BY <2>2, GenerationsAreLinks DEF Typed
      <3>2. link' = [link EXCEPT ![core] = Written(@)] /\ task' = [task EXCEPT !.call = "waiting"]
            /\ core' = core
        BY <1>13, <2>2 DEF Ask
      <3>3. /\ task'.call = "waiting" /\ task'.at = task.at /\ task'.heard = task.heard
            /\ link'[core].waiting /\ link'[core].air = {"own"}
            /\ \A l \in Links : l # core => link'[l] = link[l]
        BY <2>1, <3>1, <3>2 DEF TasksOK, Tasks, Typed, BleLinks, Written
      <3> QED
        BY <1>13, <2>1, <2>2, <3>2, <3>3 DEF Ask, ExchangeInv, Executing, AnswerIsForOwnExchange
    <2>3. CASE ~(core # 0 /\ IsOpen(link[core]))
      <3>1. task' = [task EXCEPT !.call = "failed"] /\ link' = link
        BY <1>13, <2>3 DEF Ask
      <3>2. task'.call = "failed" /\ task'.heard = task.heard
        BY <3>1 DEF TasksOK, Tasks
      <3> QED
        BY <2>1, <3>1, <3>2 DEF ExchangeInv, AnswerIsForOwnExchange
    <2> QED
      BY <2>2, <2>3
  <1>14. CASE GiveUp
    <2>1. core \in Links
      BY <1>14, GenerationsAreLinks DEF GiveUp, Typed, ExchangeInv
    <2>2. /\ task'.call = "failed" /\ task'.heard = task.heard
          /\ ~link'[core].waiting /\ link'[core].air = {}
          /\ \A l \in Links : l # core => link'[l] = link[l]
      BY <1>14, <2>1 DEF GiveUp, TasksOK, Tasks, Typed, BleLinks, GivenUp, Closed
    <2> QED
      BY <1>14, <2>1, <2>2 DEF ExchangeInv, AnswerIsForOwnExchange, GiveUp
  <1>15. CASE OpenLink
    <2>1. task.call # "waiting" /\ task.heard # "old"
      BY <1>15, NotExecuting DEF OpenLink, Executing
    <2>2. task'.call # "waiting" /\ task'.heard # "old"
      BY <1>15, <2>1, AtFields DEF OpenLink, TasksOK, Steps, ConnectSteps, FailSteps
    <2>3. \A l \in Links : Calmer(link[l], link'[l])
      BY <1>15, CalmerLinks DEF OpenLink, Typed, linkVars, stateVars, jobVars, otherVars
    <2> QED
      BY <2>1, <2>2, <2>3, NoExchange
  <1>16. CASE CheckOpened
    <2>1. task.call # "waiting" /\ task.heard # "old"
      BY <1>16, NotExecuting DEF CheckOpened, Executing
    <2>2. task'.call # "waiting" /\ task'.heard # "old"
      BY <1>16, <2>1, AtFields DEF CheckOpened, TasksOK, Steps, ConnectSteps, FailSteps
    <2>3. \A l \in Links : Calmer(link[l], link'[l])
      <3>1. \/ link' = [link EXCEPT ![task.token] = ConnectGatt(@)]
            \/ link' = [link EXCEPT ![task.token] = Closed(@)]
        BY <1>16 DEF CheckOpened
      <3> QED
        BY <3>1, CalmerLinks DEF Typed
    <2> QED
      BY <2>1, <2>2, <2>3, NoExchange
  <1>17. CASE Linked
    <2>1. task.call # "waiting" /\ task.heard # "old"
      BY <1>17, NotExecuting DEF Linked, Executing
    <2>2. task'.call # "waiting" /\ task'.heard # "old"
      BY <1>17, <2>1, AtFields DEF Linked, TasksOK, Steps, ConnectSteps, FailSteps, Throw
    <2>3. \A l \in Links : Calmer(link[l], link'[l])
      BY <1>17, CalmerLinks DEF Linked, Typed, linkVars, stateVars, jobVars, otherVars
    <2> QED
      BY <2>1, <2>2, <2>3, NoExchange
  <1>18. CASE CreateCore
    <2>1. task.call # "waiting" /\ task.heard # "old"
      BY <1>18, NotExecuting DEF CreateCore, Executing
    <2>2. task'.call # "waiting" /\ task'.heard # "old"
      BY <1>18, <2>1, Moves DEF Moved, CreateCore, TasksOK
    <2>3. \A l \in Links : Calmer(link[l], link'[l])
      BY <1>18, CalmerLinks DEF CreateCore, Typed, linkVars, stateVars, jobVars, otherVars
    <2> QED
      BY <2>1, <2>2, <2>3, NoExchange
  <1>19. CASE Initialized
    <2>1. task.call # "waiting" /\ task.heard # "old"
      BY <1>19, NotExecuting DEF Initialized, Returned
    <2>2. task'.call # "waiting" /\ task'.heard # "old"
      BY <1>19, <2>1, Moves DEF Moved, Initialized, TasksOK, Continue
    <2>3. \A l \in Links : Calmer(link[l], link'[l])
      BY <1>19, CalmerLinks DEF Initialized, Typed, linkVars, stateVars, jobVars, otherVars
    <2> QED
      BY <2>1, <2>2, <2>3, NoExchange
  <1>20. CASE Inventoried
    <2>1. task.call # "waiting" /\ task.heard # "old"
      BY <1>20, NotExecuting DEF Inventoried, Returned
    <2>2. task'.call # "waiting" /\ task'.heard # "old"
      BY <1>20, <2>1, Moves DEF Moved, Inventoried, TasksOK, Continue
    <2>3. \A l \in Links : Calmer(link[l], link'[l])
      BY <1>20, CalmerLinks DEF Inventoried, Typed, linkVars, stateVars, jobVars, otherVars
    <2> QED
      BY <2>1, <2>2, <2>3, NoExchange
  <1>21. CASE OdometerRead
    <2>1. task.call # "waiting" /\ task.heard # "old"
      BY <1>21, NotExecuting DEF OdometerRead, Returned
    <2>2. task'.call # "waiting" /\ task'.heard # "old"
      BY <1>21, <2>1, AtFields DEF OdometerRead, TasksOK, Steps, ConnectSteps, FailSteps,
          Continue, Throw
    <2>3. \A l \in Links : Calmer(link[l], link'[l])
      BY <1>21, CalmerLinks DEF OdometerRead, Typed, linkVars, stateVars, jobVars, otherVars
    <2> QED
      BY <2>1, <2>2, <2>3, NoExchange
  <1>22. CASE SetReady
    <2>1. task.call # "waiting" /\ task.heard # "old"
      BY <1>22, NotExecuting DEF SetReady, Executing
    <2>2. task'.call # "waiting" /\ task'.heard # "old"
      BY <1>22, <2>1, AtFields DEF SetReady, TasksOK, Steps, ConnectSteps, FailSteps
    <2>3. \A l \in Links : Calmer(link[l], link'[l])
      BY <1>22, CalmerLinks DEF SetReady, Typed, linkVars, stateVars, jobVars, otherVars
    <2> QED
      BY <2>1, <2>2, <2>3, NoExchange
  <1>23. CASE CheckConnected
    <2>1. task.call # "waiting" /\ task.heard # "old"
      BY <1>23, NotExecuting DEF CheckConnected, Executing
    <2>2. task'.call # "waiting" /\ task'.heard # "old"
      BY <1>23, <2>1, AtFields DEF CheckConnected, TasksOK, Steps, ConnectSteps, FailSteps
    <2>3. \A l \in Links : Calmer(link[l], link'[l])
      BY <1>23, CalmerLinks DEF CheckConnected, Typed, linkVars, stateVars, jobVars, otherVars
    <2> QED
      BY <2>1, <2>2, <2>3, NoExchange
  <1>24. CASE Establish
    <2>1. task.call # "waiting" /\ task.heard # "old"
      BY <1>24, NotExecuting DEF Establish, Executing
    <2>2. task'.call # "waiting" /\ task'.heard # "old"
      BY <1>24, <2>1, AtFields DEF Establish, TasksOK, Steps, ConnectSteps, FailSteps
    <2>3. \A l \in Links : Calmer(link[l], link'[l])
      BY <1>24, CalmerLinks DEF Establish, Typed, linkVars, stateVars, jobVars, otherVars
    <2> QED
      BY <2>1, <2>2, <2>3, NoExchange
  <1>25. CASE CheckSurvey
    <2>1. task.call # "waiting" /\ task.heard # "old"
      BY <1>25, NotExecuting DEF CheckSurvey, Executing
    <2>2. task'.call # "waiting" /\ task'.heard # "old"
      BY <1>25, <2>1, AtFields, IdleShape DEF CheckSurvey, TasksOK, Steps, ConnectSteps,
          FailSteps
    <2>3. \A l \in Links : Calmer(link[l], link'[l])
      BY <1>25, CalmerLinks DEF CheckSurvey, Typed, linkVars, stateVars, jobVars, otherVars
    <2> QED
      BY <2>1, <2>2, <2>3, NoExchange
  <1>26. CASE BookSurvey
    <2>1. task.call # "waiting" /\ task.heard # "old"
      BY <1>26, NotExecuting DEF BookSurvey, Executing
    <2>2. task'.call # "waiting" /\ task'.heard # "old"
      BY <1>26, <2>1, IdleShape DEF BookSurvey, TasksOK
    <2>3. \A l \in Links : Calmer(link[l], link'[l])
      BY <1>26, CalmerLinks DEF BookSurvey, HandOver, Typed, linkVars
    <2> QED
      BY <2>1, <2>2, <2>3, NoExchange
  <1>27. CASE StartJob
    <2>1. task.call # "waiting" /\ task.heard # "old"
      BY <1>27, NotExecuting DEF StartJob, Executing
    <2>2. task'.call # "waiting" /\ task'.heard # "old"
      BY <1>27, <2>1, AtFields DEF StartJob, TasksOK, Steps, ConnectSteps, FailSteps, Tasks
    <2>3. \A l \in Links : Calmer(link[l], link'[l])
      BY <1>27, CalmerLinks DEF StartJob, Typed, linkVars, stateVars, jobVars, otherVars
    <2> QED
      BY <2>1, <2>2, <2>3, NoExchange
  <1>28. CASE StartKnowledge
    <2>1. task.call # "waiting" /\ task.heard # "old"
      BY <1>28, NotExecuting DEF StartKnowledge, Returned
    <2>2. task'.call # "waiting" /\ task'.heard # "old"
      BY <1>28, <2>1, AtFields DEF StartKnowledge, TasksOK, Steps, ConnectSteps, FailSteps,
          Continue, Throw, Tasks
    <2>3. \A l \in Links : Calmer(link[l], link'[l])
      BY <1>28, CalmerLinks DEF StartKnowledge, Typed, linkVars, stateVars, jobVars, otherVars
    <2> QED
      BY <2>1, <2>2, <2>3, NoExchange
  <1>29. CASE JobDone
    <2>1. task.call # "waiting" /\ task.heard # "old"
      BY <1>29, NotExecuting DEF JobDone, Returned
    <2>2. task'.call # "waiting" /\ task'.heard # "old"
      BY <1>29, <2>1, AtFields DEF JobDone, TasksOK, Steps, ConnectSteps, FailSteps, Continue,
          Throw
    <2>3. \A l \in Links : Calmer(link[l], link'[l])
      BY <1>29, CalmerLinks DEF JobDone, Typed, linkVars, stateVars, jobVars, otherVars
    <2> QED
      BY <2>1, <2>2, <2>3, NoExchange
  <1>30. CASE PollLost
    <2>1. task.call # "waiting" /\ task.heard # "old"
      BY <1>30, NotExecuting DEF PollLost, Executing
    <2>2. task'.call # "waiting" /\ task'.heard # "old"
      BY <1>30, <2>1 DEF PollLost, TasksOK, Tasks
    <2>3. \A l \in Links : Calmer(link[l], link'[l])
      BY <1>30, CalmerLinks DEF PollLost, Typed, linkVars, stateVars, jobVars, otherVars
    <2> QED
      BY <2>1, <2>2, <2>3, NoExchange
  <1>31. CASE Ticked
    <2>1. task.call # "waiting" /\ task.heard # "old"
      BY <1>31, NotExecuting DEF Ticked, Returned
    <2>2. task'.call # "waiting" /\ task'.heard # "old"
      BY <1>31, <2>1, Moves DEF Moved, Ticked, TasksOK, Continue
    <2>3. \A l \in Links : Calmer(link[l], link'[l])
      BY <1>31, CalmerLinks DEF Ticked, Typed, linkVars, stateVars, jobVars, otherVars
    <2> QED
      BY <2>1, <2>2, <2>3, NoExchange
  <1>32. CASE PollRead
    <2>1. task.call # "waiting" /\ task.heard # "old"
      BY <1>32, NotExecuting DEF PollRead, Returned
    <2>2. task'.call # "waiting" /\ task'.heard # "old"
      BY <1>32, <2>1, AtFields DEF PollRead, TasksOK, Steps, ConnectSteps, FailSteps,
          Continue, Throw
    <2>3. \A l \in Links : Calmer(link[l], link'[l])
      BY <1>32, CalmerLinks DEF PollRead, Typed, linkVars, stateVars, jobVars, otherVars
    <2> QED
      BY <2>1, <2>2, <2>3, NoExchange
  <1>33. CASE Leave
    <2>1. task.call # "waiting" /\ task.heard # "old"
      BY <1>33, NotExecuting DEF Leave, Executing, Returned
    <2>2. task'.call # "waiting" /\ task'.heard # "old"
      BY <1>33, <2>1, IdleShape DEF Leave, TasksOK, Tasks
    <2>3. \A l \in Links : Calmer(link[l], link'[l])
      BY <1>33, CalmerLinks, LinkClosedCalmer DEF Leave, Typed, TasksOK, Tasks
    <2> QED
      BY <2>1, <2>2, <2>3, NoExchange
  <1>34. CASE DestroyCore
    <2>1. task.call # "waiting" /\ task.heard # "old"
      BY <1>34, NotExecuting DEF DestroyCore, Executing, Shape, TasksOK
    <2>2. task'.call # "waiting" /\ task'.heard # "old"
      BY <1>34, <2>1, IdleShape DEF DestroyCore, TasksOK
    <2>3. \A l \in Links : Calmer(link[l], link'[l])
      BY <1>34, CalmerLinks DEF DestroyCore, Typed, linkVars, stateVars, jobVars, otherVars
    <2> QED
      BY <2>1, <2>2, <2>3, NoExchange
  <1>35. CASE Fail
    <2>1. task.call # "waiting" /\ task.heard # "old"
      BY <1>35, NotExecuting DEF Fail, Executing
    <2>2. task'.call # "waiting" /\ task'.heard # "old"
      BY <1>35, <2>1, AtFields, ZenonT(60) DEF Fail, TasksOK, Steps, ConnectSteps, FailSteps, Tasks
    <2>3. \A l \in Links : Calmer(link[l], link'[l])
      BY <1>35, CalmerLinks DEF Fail, Typed, linkVars, stateVars, jobVars, otherVars
    <2> QED
      BY <2>1, <2>2, <2>3, NoExchange
  <1>36. CASE FailLink
    <2>1. task.call # "waiting" /\ task.heard # "old"
      BY <1>36, NotExecuting DEF FailLink, Executing
    <2>2. task'.call # "waiting" /\ task'.heard # "old"
      BY <1>36, <2>1, AtFields DEF FailLink, TasksOK, Steps, ConnectSteps, FailSteps
    <2>3. \A l \in Links : Calmer(link[l], link'[l])
      BY <1>36, LinkClosedCalmer DEF FailLink, Typed
    <2> QED
      BY <2>1, <2>2, <2>3, NoExchange
  <1>37. CASE FailPhase
    <2>1. task.call # "waiting" /\ task.heard # "old"
      BY <1>37, NotExecuting DEF FailPhase, Executing
    <2>2. task'.call # "waiting" /\ task'.heard # "old"
      BY <1>37, <2>1, AtFields DEF FailPhase, TasksOK, Steps, ConnectSteps, FailSteps
    <2>3. \A l \in Links : Calmer(link[l], link'[l])
      BY <1>37, CalmerLinks DEF FailPhase, Typed, linkVars, stateVars, jobVars, otherVars
    <2> QED
      BY <2>1, <2>2, <2>3, NoExchange
  <1>38. CASE FailPolicy
    <2>1. task.call # "waiting" /\ task.heard # "old"
      BY <1>38, NotExecuting DEF FailPolicy, Executing
    <2>2. task'.call # "waiting" /\ task'.heard # "old"
      BY <1>38, <2>1 DEF FailPolicy, TasksOK, Tasks
    <2>3. \A l \in Links : Calmer(link[l], link'[l])
      BY <1>38, CalmerLinks DEF FailPolicy, Typed, linkVars, stateVars, jobVars, otherVars
    <2> QED
      BY <2>1, <2>2, <2>3, NoExchange
  <1>39. CASE FailSchedule
    <2>1. task.call # "waiting" /\ task.heard # "old"
      BY <1>39, NotExecuting DEF FailSchedule, Executing
    <2>2. task'.call # "waiting" /\ task'.heard # "old"
      BY <1>39, <2>1, AtFields DEF FailSchedule, TasksOK, Steps, ConnectSteps, FailSteps
    <2>3. \A l \in Links : Calmer(link[l], link'[l])
      BY <1>39, CalmerLinks DEF FailSchedule, Typed, linkVars, stateVars, jobVars, otherVars
    <2> QED
      BY <2>1, <2>2, <2>3, NoExchange
  <1>40. CASE Finally
    <2>1. task.call # "waiting" /\ task.heard # "old"
      BY <1>40, NotExecuting DEF Finally, Executing
    <2>2. task'.call # "waiting" /\ task'.heard # "old"
      BY <1>40, <2>1, IdleShape, AtFields DEF Finally, TasksOK, Steps
    <2>3. \A l \in Links : Calmer(link[l], link'[l])
      BY <1>40, CalmerLinks DEF Finally, Typed, linkVars, stateVars, jobVars, otherVars
    <2> QED
      BY <2>1, <2>2, <2>3, NoExchange
  <1>41. CASE PollLink
    <2>1. task.call # "waiting" /\ task.heard # "old"
      BY <1>41, NotExecuting DEF PollLink, Executing, Shape, TasksOK
    <2>2. task'.call # "waiting" /\ task'.heard # "old"
      BY <1>41, <2>1 DEF PollLink, TasksOK, Task
    <2>3. \A l \in Links : Calmer(link[l], link'[l])
      BY <1>41, CalmerLinks DEF PollLink, Typed, linkVars, stateVars, jobVars, otherVars
    <2> QED
      BY <2>1, <2>2, <2>3, NoExchange
  <1>42. CASE PollSignals
    <2>1. task.call # "waiting" /\ task.heard # "old"
      BY <1>42, NotExecuting DEF PollSignals, Executing, Shape, TasksOK
    <2>2. task'.call # "waiting" /\ task'.heard # "old"
      BY <1>42, <2>1 DEF PollSignals, TasksOK, Task
    <2>3. \A l \in Links : Calmer(link[l], link'[l])
      BY <1>42, CalmerLinks DEF PollSignals, Typed, linkVars, stateVars, jobVars, otherVars
    <2> QED
      BY <2>1, <2>2, <2>3, NoExchange
  <1>43. CASE ShowDisconnected
    <2>1. UNCHANGED <<task, core, link>>
      BY <1>43 DEF ShowDisconnected, linkVars
    <2> QED
      BY <2>1, CalmerLinks, SameExchange DEF Typed
  <1>44. ASSUME NEW l \in Links, Hear(l)
       PROVE  ExchangeInv'
    <2>1. link[l].waiting /\ l = core /\ link[l].air = {"own"} /\ task.call = "waiting"
      <3>1. link[l].waiting /\ l = core /\ task.call = "waiting"
        BY <1>44 DEF Hear, ExchangeInv
      <3>2. link[l].air \in SUBSET {"own", "old"}
        BY DEF Typed, BleLinks
      <3>3. link[l].air # {} /\ "old" \notin link[l].air
        BY <1>44 DEF Hear, ExchangeInv
      <3>4. link[l].air = {"own"}
        BY <3>2, <3>3
      <3> QED
        BY <3>1, <3>4
    <2>2. PICK ok \in BOOLEAN :
            /\ link' = [link EXCEPT ![l] = Accepted(@)]
            /\ task' = [task EXCEPT !.call = IF ok THEN "ok" ELSE "refused", !.heard = Arriving(link[l])]
      BY <1>44, <2>1 DEF Hear
    <2>3. Arriving(link[l]) = "own"
      BY <2>1 DEF Arriving
    <2>4. ~link'[l].waiting /\ link'[l].air = {} /\ \A k \in Links : k # l => link'[k] = link[k]
      BY <2>1, <2>2, <2>3 DEF Accepted, Typed, BleLinks
    <2>5. task'.call # "waiting" /\ task'.heard = "own"
      BY <2>2, <2>3 DEF TasksOK, Tasks
    <2> QED
      BY <2>1, <2>4, <2>5 DEF ExchangeInv, AnswerIsForOwnExchange
  <1>45. ASSUME NEW l \in Links, GattReady(l)
       PROVE  ExchangeInv'
    <2>1. \A k \in Links : Calmer(link[k], link'[k])
      BY <1>45, CalmerLinks DEF GattReady, Typed
    <2> QED
      BY <1>45, <2>1, SameExchange DEF GattReady
  <1>46. ASSUME NEW l \in Links, GattLost(l)
       PROVE  ExchangeInv'
    <2>1. \A k \in Links : Calmer(link[k], link'[k])
      BY <1>46, CalmerLinks DEF GattLost, Typed
    <2> QED
      BY <1>46, <2>1, SameExchange DEF GattLost
  <1>47. CASE UNCHANGED vars
      BY <1>47, CalmerLinks, SameExchange DEF vars, linkVars, Typed
  <1>48. CASE ClaimJob
    <2>1. UNCHANGED <<task, core, link>>
      BY <1>48 DEF ClaimJob, Claim, linkVars
    <2> QED
      BY <2>1, CalmerLinks, SameExchange DEF Typed
  <1>49. CASE BookJob
    <2>1. UNCHANGED <<task, core, link>>
      BY <1>49 DEF BookJob, HandOver, linkVars
    <2> QED
      BY <2>1, CalmerLinks, SameExchange DEF Typed
  <1>50. CASE ClaimSurvey
    <2>1. task.call # "waiting" /\ task.heard # "old"
      BY <1>50, NotExecuting DEF ClaimSurvey, Executing
    <2>2. task'.call # "waiting" /\ task'.heard # "old"
      BY <1>50, <2>1 DEF ClaimSurvey, TasksOK, Tasks
    <2>3. \A l \in Links : Calmer(link[l], link'[l])
      BY <1>50, CalmerLinks DEF ClaimSurvey, Typed, Claim, linkVars
    <2> QED
      BY <2>1, <2>2, <2>3, NoExchange
  <1>51. CASE Settle
    <2>1. task.call # "waiting" /\ task.heard # "old"
      BY <1>51, NotExecuting DEF Settle, Executing
    <2>2. task'.call # "waiting" /\ task'.heard # "old"
      BY <1>51, <2>1, AtFields DEF Settle, TasksOK, Steps, FailSteps
    <2>3. \A l \in Links : Calmer(link[l], link'[l])
      BY <1>51, CalmerLinks DEF Settle, Typed, linkVars
    <2> QED
      BY <2>1, <2>2, <2>3, NoExchange
  <1>52. CASE FreeWorker
    <2>1. task.call # "waiting" /\ task.heard # "old"
      BY <1>52, NotExecuting DEF FreeWorker, Executing
    <2>2. task'.call # "waiting" /\ task'.heard # "old"
      BY <1>52, <2>1, IdleShape DEF FreeWorker, TasksOK
    <2>3. \A l \in Links : Calmer(link[l], link'[l])
      BY <1>52, CalmerLinks DEF FreeWorker, Typed, linkVars
    <2> QED
      BY <2>1, <2>2, <2>3, NoExchange
  <1> QED
      BY <1>1, <1>2, <1>3, <1>4, <1>5, <1>6, <1>7, <1>8, <1>9, <1>10, <1>11, <1>12, <1>13, <1>14,
         <1>15, <1>16, <1>17, <1>18, <1>19, <1>20, <1>21, <1>22, <1>23, <1>24, <1>25, <1>26,
            <1>27, <1>28, <1>29, <1>30, <1>31, <1>32, <1>33, <1>34, <1>35, <1>36, <1>37, <1>38,
               <1>39, <1>40, <1>41, <1>42, <1>43, <1>44, <1>45, <1>46, <1>47, <1>48,
                  <1>49, <1>50, <1>51, <1>52 DEF Next, Main, Goes, Work, Poll, Adapter

\* Stopping and what follows a failure leave a stopped policy stopped.
LEMMA StoppedPolicy ==
  ASSUME NEW p \in Policies
  PROVE  /\ Stop(p).state = "stopped"
         /\ p.state = "stopped" =>
              /\ Lost(p) = p /\ Failed(p) = p /\ Block(p) = p
              /\ \A on \in BOOLEAN : SetEnabled(p, on).state = "stopped"
              /\ ~AttemptDue(p) /\ ~Unblocks(p)
  BY DEF Policies, PolicyStates, Stop, Lost, Failed, Block, SetEnabled, AttemptDue, Unblocks,
         RetriesAfterLoss, RetriesAfterFailure

LEMMA StopKept ==
  ASSUME Inv, [Next]_vars
  PROVE  StopInv'
  <1> USE DEF Inv
  <1>1. CASE UNCHANGED <<policy, stopped>> /\ races \subseteq races'
      BY <1>1 DEF StopInv
  <1>2. CASE UserConnect
      BY <1>2 DEF UserConnect, StopInv
  <1>3. CASE AutoStart
    <2>1. CASE policy.enabled
      BY <1>3, <2>1 DEF AutoStart, StopInv
    <2>2. CASE ~policy.enabled
      BY <1>3, <2>2 DEF AutoStart, StopInv
    <2> QED
      BY <2>1, <2>2
  <1>4. CASE RetryTick
    <2>1. CASE AttemptDue(policy)
      BY <1>4, <2>1, StoppedPolicy DEF RetryTick, StopInv, Typed
    <2>2. CASE ~AttemptDue(policy)
      BY <1>1, <1>4, <2>2 DEF RetryTick
    <2> QED
      BY <2>1, <2>2
  <1>5. CASE ResumeIfBlocked
      BY <1>5, StoppedPolicy DEF ResumeIfBlocked, StopInv, Typed
  <1>6. CASE AutoConnectOn
      BY <1>6, StoppedPolicy DEF AutoConnectOn, StopInv, Typed
  <1>7. CASE AutoConnectOff
    <2>1. SetEnabled(policy, FALSE) \in Policies
      BY PolicyTypes DEF Typed
    <2>2. CASE IsPending(policy)
      BY <1>7, <2>1, <2>2, StoppedPolicy DEF AutoConnectOff, Stopped, StopInv
    <2>3. CASE ~IsPending(policy)
      BY <1>7, <2>3, StoppedPolicy DEF AutoConnectOff, StopInv, Typed
    <2> QED
      BY <2>2, <2>3
  <1>8. CASE Disconnect
      BY <1>8, StoppedPolicy DEF Disconnect, Stopped, StopInv, Typed
  <1>9. CASE Settle
      BY <1>9 DEF Settle, StopInv
  <1>10. CASE FailPolicy
      BY <1>10, StoppedPolicy DEF FailPolicy, StopInv, Typed, otherVars
  <1>11. CASE FailSchedule
      BY <1>11, StoppedPolicy DEF FailSchedule, StopInv, Typed, otherVars
  <1>12. CASE Goes \/ (\E action \in Jobs : RunJob(action)) \/ Take
      BY <1>1, <1>12 DEF Goes, Release, CloseOrLeave, EndDisconnect, ShowDisconnected, ClaimJob, BookJob,
         Claim, HandOver, RunJob, Take, stateVars
  <1>13. CASE Ask \/ GiveUp \/ OpenLink \/ CheckOpened \/ Linked \/ CreateCore
      BY <1>1, <1>13 DEF Ask, GiveUp, OpenLink, CheckOpened, Linked, CreateCore, stateVars,
         otherVars
  <1>14. CASE Initialized \/ Inventoried \/ OdometerRead \/ SetReady \/ CheckConnected
             \/ Establish
      BY <1>1, <1>14 DEF Initialized, Inventoried, OdometerRead, SetReady, CheckConnected,
         Establish, stateVars, otherVars
  <1>15. CASE CheckSurvey \/ ClaimSurvey \/ BookSurvey \/ StartJob \/ StartKnowledge \/ JobDone
      BY <1>1, <1>15 DEF CheckSurvey, ClaimSurvey, BookSurvey, Claim, HandOver, StartJob, StartKnowledge, JobDone, stateVars,
         otherVars
  <1>16. CASE PollLost \/ Ticked \/ PollRead \/ Leave \/ DestroyCore
      BY <1>1, <1>16 DEF PollLost, Ticked, PollRead, Leave, DestroyCore, stateVars, otherVars
  <1>17. CASE Fail \/ FailLink \/ FailPhase \/ Finally \/ FreeWorker
      BY <1>1, <1>17 DEF Fail, FailLink, FailPhase, Finally, FreeWorker, stateVars, otherVars
  <1>18. CASE Poll \/ Adapter
      BY <1>1, <1>18 DEF Poll, Adapter, PollLink, PollSignals, Hear, GattReady, GattLost,
         stateVars, otherVars
  <1>19. CASE UNCHANGED vars
      BY <1>1, <1>19 DEF vars, stateVars, otherVars
  <1> QED
      BY <1>2, <1>3, <1>4, <1>5, <1>6, <1>7, <1>8, <1>9, <1>10, <1>11, <1>12, <1>13, <1>14, <1>15,
         <1>16, <1>17, <1>18, <1>19 DEF Next, Main, Work

LEMMA InvKept == Inv /\ [Next]_vars => Inv'
  BY TypedKept, TasksKept, ExchangeKept, StopKept DEF Inv

LEMMA InitInv == Init => Inv
  <1> SUFFICES ASSUME Init PROVE Inv
    OBVIOUS
  <1>1. Typed
    <2>1. link \in [Links -> BleLinks]
      BY DEF Init, NewLink, BleLinks, LinkStates
    <2>2. policy \in Policies
      BY DEF Init, Policies, PolicyStates
    <2>3. 1 \in 0..MaxPosted
      BY ServiceAssumption
    <2> QED
      BY <2>1, <2>2, <2>3, GenerationsAreLinks DEF Init, Typed
  <1>2. TasksOK
    BY IdleShape DEF Init, TasksOK, QueueOK
  <1>3. ExchangeInv
    BY IdleShape DEF Init, ExchangeInv, AnswerIsForOwnExchange, NewLink
  <1>4. StopInv
    BY DEF Init, StopInv
  <1> QED
    BY <1>1, <1>2, <1>3, <1>4 DEF Inv

LEMMA AlwaysInv == Spec => []Inv
  BY InitInv, InvKept, PTL DEF Spec
-----------------------------------------------------------------------------
\* In every state of the service, for any number of connections and whatever
\* the two threads and the GATT callbacks do, the variables have their types.
THEOREM TypeCorrect == Spec => []TypeOK
  <1>1. Inv => TypeOK
    BY DEF Inv, Typed, TypeOK
  <1> QED
    BY <1>1, AlwaysInv, PTL

\* BleTransport.exchange never hands the core the answer to a command that an
\* earlier exchange gave up: every exchange that fails closes its link.
THEOREM AnswersAreOwn == Spec => []AnswerIsForOwnExchange
  <1>1. Inv => AnswerIsForOwnExchange
    BY DEF Inv, ExchangeInv
  <1> QED
    BY <1>1, AlwaysInv, PTL

\* After disconnect() no connection begins, however late the worker reports a
\* failure or the timer fires, until the user wants one again, unless since
\* then a connection was completed or a posted app start has run.
THEOREM StopIsKept == Spec => StoppedStaysStopped
  <1>1. Inv /\ [Next]_vars =>
          [stopped /\ phase # "connecting" /\ phase' = "connecting"
             => ~stopped' \/ races' \cap {"settled", "started"} # {}]_vars
    <2> SUFFICES ASSUME Inv, Next, stopped, phase # "connecting", phase' = "connecting", stopped',
                        races' \cap {"settled", "started"} = {}
                 PROVE  FALSE
      BY DEF vars
    <2> USE DEF Inv
    <2>1. ~UserConnect /\ ~AutoConnectOn /\ ~AutoConnectOff /\ ~Disconnect
          /\ ~\E action \in Jobs : RunJob(action)
      BY DEF UserConnect, AutoConnectOn, AutoConnectOff, Disconnect, RunJob, stateVars
    <2>2. ~AutoStart
      BY DEF AutoStart, NoConnection
    <2>3. ~RetryTick /\ ~ResumeIfBlocked
      <3>1. ASSUME RetryTick \/ ResumeIfBlocked
            PROVE  policy.state = "stopped" /\ ~AttemptDue(policy) /\ ~Unblocks(policy)
        BY <3>1, StoppedPolicy DEF RetryTick, ResumeIfBlocked, StopInv, Typed
      <3> QED
        BY <3>1 DEF RetryTick, ResumeIfBlocked, NoConnection
    <2>4. ~Goes
      BY DEF Goes, Release, CloseOrLeave, EndDisconnect, ShowDisconnected, ClaimJob, BookJob,
         Claim, HandOver, stateVars
    <2>5. ~Take /\ ~Poll /\ ~Adapter
      BY DEF Take, Poll, PollLink, PollSignals, Adapter, Hear, GattReady, GattLost, stateVars
    <2>6. ~Work
      BY DEF Work, Ask, GiveUp, OpenLink, CheckOpened, Linked, CreateCore, Initialized, Inventoried,
         OdometerRead, SetReady, CheckConnected, Establish, Settle, CheckSurvey, ClaimSurvey, BookSurvey,
         Claim, HandOver, StartJob, StartKnowledge, JobDone, PollLost, Ticked, PollRead, Leave,
         DestroyCore, Fail, FailLink, FailPhase, FailPolicy, FailSchedule, Finally, FreeWorker,
         stateVars
    <2> QED
      BY <2>1, <2>2, <2>3, <2>4, <2>5, <2>6 DEF Next, Main
  <1> QED
    BY <1>1, AlwaysInv, PTL DEF Spec, StoppedStaysStopped
-----------------------------------------------------------------------------
(* How the steps keep Accounted: what each one changes of it, then part by *)
(* part.                                                                   *)

LEMMA QueueFacts ==
  ASSUME Inv
  PROVE  /\ Len(queue) \in Nat
         /\ \A i \in 1..Len(queue) :
              /\ queue[i].at = "start" /\ queue[i].token \in Nat
              /\ queue[i].kind = "connect" => queue[i].token \in Links
  <1>1. queue \in Seq(Tasks)
    BY DEF Inv, TasksOK, QueueOK
  <1>2. \A i \in 1..Len(queue) : queue[i] \in Tasks
    BY <1>1
  <1>3. \A i \in 1..Len(queue) :
              /\ queue[i].at = "start" /\ queue[i].token \in Nat
              /\ queue[i].kind = "connect" => queue[i].token \in Links
    BY <1>2, StepKinds, GenerationsAreLinks DEF Inv, TasksOK, QueueOK, Tasks
  <1> QED
    BY <1>1, <1>3

LEMMA TaskFacts ==
  ASSUME Inv
  PROVE  /\ task.kind = "connect" => task.token \in Links
         /\ task.token \in Nat /\ generation \in Nat
  BY StepKinds, GenerationsAreLinks DEF Inv, Typed, TasksOK, Tasks

LEMMA LinkFacts ==
  ASSUME Inv
  PROVE  /\ transport # 0 => transport \in Links
         /\ core # 0 => core \in Links
         /\ active # 0 => active \in Links
         /\ session # 0 => session \in Links
  BY GenerationsAreLinks DEF Inv, Typed

LEMMA LinksAreNumbers == \A l \in Links : l \in Nat /\ l # 0
  BY ServiceAssumption DEF Links

LEMMA LinkClosedStates ==
  ASSUME link \in [Links -> BleLinks], NEW k \in Generations
  PROVE  \A l \in Links : LinkClosed(k)[l].state = IF l = k THEN "closed" ELSE link[l].state
  <1>1. CASE k = 0
    BY <1>1, LinksAreNumbers DEF LinkClosed
  <1>2. CASE k # 0
    BY <1>2, GenerationsAreLinks DEF LinkClosed, Closed, BleLinks
  <1> QED
    BY <1>1, <1>2

Unaffected == UNCHANGED <<generation, phase, busy, transport, link, core, uds, udsJob, knowledgeJob, queue,
                          main, tapped, active, session, task>>

Connects == main = "free" /\ ~busy /\ phase # "ready" /\ ConnectNow

Begins == /\ main = "free" /\ main' \in {"free", "release"}
          /\ UNCHANGED <<generation, phase, busy, transport, link, core, uds, udsJob, knowledgeJob, queue,
                         tapped, active, session, task>>

\* A step of the connection in hand that neither opens a link nor makes a core.
ConnectStep ==
  /\ task.kind = "connect" /\ task'.kind = "connect" /\ task'.token = task.token
  /\ task'.link = task.link
  /\ task.at \in {"linking", "initialize", "inventory", "odometer", "ready", "connected", "establish",
                 "settle"}
  /\ task'.at \in {"linked", "inventory", "odometer", "ready", "connected", "establish", "settle", "fail",
                   "finally"}
  /\ task'.at = "linked" => task.at = "linking" /\ IsOpen(link[task.token])
  /\ task'.at \in {"inventory", "odometer", "ready"} => task.at \in {"initialize", "inventory", "odometer"}
  /\ task'.at = "connected" => phase' = "ready"
  /\ task'.at \in {"establish", "settle"} => task.at \in {"connected", "establish"}
  /\ task'.at = "finally" => ~Current \/ task.at \in {"connected", "settle"}
  /\ phase' = phase \/ (phase' = "ready" /\ task.at = "ready")
  /\ UNCHANGED <<generation, busy, transport, link, core, udsJob, knowledgeJob, main, tapped, active,
                 session>>
  /\ \A i \in 1..Len(queue) : i \in 1..Len(queue') /\ queue'[i] = queue[i]
  /\ \A i \in 1..Len(queue') :
       i \in 1..Len(queue) \/ (queue'[i].kind = "survey" /\ queue'[i].token = 0 /\ queue'[i].link = 0)

\* A core action of a job or of a poll returned and is displayed.
Returns ==
  /\ task'.kind = task.kind /\ task'.token = task.token /\ task'.link = task.link
  /\ task.kind \in {"job", "poll"} /\ task.at \in {"job", "tick", "read"} /\ Returned
  /\ uds' = Shown
  /\ task'.at \in {"fail", "finally"} \/ (task'.at = "read" /\ task.kind = "poll" /\ task'.call = "none")
  /\ task'.at = "fail" => Broken
  /\ task'.at # "read" => task'.action = task.action
  /\ UNCHANGED <<generation, phase, busy, transport, link, core, udsJob, knowledgeJob, queue,
                 main, tapped, active, session>>

\* fail() after the link is gone.
FailStep ==
  /\ task'.kind = task.kind /\ task'.token = task.token /\ task'.link = task.link
  /\ task.at \in {"error", "policy", "schedule"} /\ task'.at \in {"policy", "schedule", "finally"}
  /\ task'.action = task.action /\ phase' \in {phase, "error"}
  /\ UNCHANGED <<generation, busy, transport, link, core, uds, udsJob, knowledgeJob, queue, main, tapped,
                 active, session>>

\* Nothing that Accounted speaks of changes.
LEMMA UnaffectedAccounted ==
  ASSUME Inv, Inv', Accounted, Unaffected
  PROVE  Accounted'
  <1> USE DEF Accounted
  <1>1. /\ UNCHANGED <<generation, phase, busy, transport, link, core, uds, udsJob, knowledgeJob,
                       queue, main, tapped, active, session, task>>
    BY DEF Unaffected
  <1>2. TokensInv'
    BY <1>1, QueueFacts, TaskFacts, LinksAreNumbers DEF TokensInv, Fresh, Current
  <1>3. ConnectInv'
    BY <1>1, QueueFacts, TaskFacts, SMTT(30) DEF ConnectInv, Own, Current
  <1>4. TransportInv'
    BY <1>1, QueueFacts, TaskFacts, LinkFacts DEF TransportInv, Disconnecting, Alive, Replaces
  <1>5. CoreInv'
    BY <1>1, QueueFacts, TaskFacts, LinkFacts DEF CoreInv, Replaces, IsOpen
  <1>6. JobInv'
    BY <1>1, QueueFacts, TaskFacts DEF JobInv, OnItsWay, Ended, Disconnecting, UdsAction, Own, Current
  <1>7. SessionInv'
    BY <1>1, LinkFacts, TaskFacts DEF SessionInv, OpenSession, IsOpen, Executing, Returned
  <1> QED
    BY <1>2, <1>3, <1>4, <1>5, <1>6, <1>7

LEMMA ConnectsAccounted ==
  ASSUME Inv, Inv', Accounted, Connects
  PROVE  Accounted'
  <1> USE DEF Accounted
  <1>1. /\ generation \in Nat /\ generation' = generation + 1 /\ generation' \in Links
        /\ ~busy /\ busy' = TRUE /\ uds' = FALSE /\ phase # "ready" /\ phase' = "connecting"
        /\ main = "free"
        /\ UNCHANGED <<transport, link, core, udsJob, knowledgeJob, main, tapped, active, session, task>>
        /\ Len(queue') = Len(queue) + 1 /\ \A i \in 1..Len(queue) : queue'[i] = queue[i]
        /\ \A i \in 1..Len(queue') : i \in 1..Len(queue) \/ i = Len(queue) + 1
        /\ queue'[Len(queue) + 1].kind = "connect" /\ queue'[Len(queue) + 1].token = generation'
        /\ queue'[Len(queue) + 1].link = 0 /\ queue'[Len(queue) + 1].at = "start"
    <2>1. queue \in Seq(Tasks) /\ generation' \in Links /\ generation \in Nat
      BY GenerationsAreLinks DEF Inv, Typed, TasksOK, QueueOK, Connects, ConnectNow
    <2> QED
      BY <2>1 DEF Connects, ConnectNow, Task, linkVars
  <1>a. \A l \in Links : Fresh(l) => Fresh(l)'
    BY <1>1, QueueFacts, LinksAreNumbers DEF Fresh
  <1>b. ~Alive(transport)
    BY <1>1, TaskFacts DEF TransportInv, Disconnecting, ConnectInv, Current, Alive, Replaces
  <1>c. /\ task.token # generation'
        /\ \A i \in 1..Len(queue) : queue[i].token # generation'
    BY <1>1, QueueFacts, TaskFacts DEF TokensInv
  <1>2. TokensInv'
    BY <1>1, <1>a, QueueFacts, TaskFacts, LinksAreNumbers, SMTT(30) DEF TokensInv, Current
  <1>3. ConnectInv'
    BY <1>1, QueueFacts, TaskFacts, <1>c DEF ConnectInv, Own, Current
  <1>4. TransportInv'
    BY <1>1, <1>b DEF TransportInv, Disconnecting, Alive
  <1>5. CoreInv'
    BY <1>1, QueueFacts, TaskFacts, LinkFacts, SMTT(30) DEF CoreInv, Replaces, IsOpen
  <1>6. JobInv'
    BY <1>1, QueueFacts, TaskFacts, <1>c DEF JobInv, OnItsWay, Ended, Disconnecting, UdsAction, Own, Current
  <1>7. SessionInv'
    BY <1>1, LinkFacts, TaskFacts, <1>b DEF SessionInv, OpenSession, IsOpen, Executing,
        Returned, Alive
  <1> QED
    BY <1>2, <1>3, <1>4, <1>5, <1>6, <1>7

LEMMA BeginsAccounted ==
  ASSUME Inv, Inv', Accounted, Begins
  PROVE  Accounted'
  <1> USE DEF Accounted
  <1>1. /\ UNCHANGED <<generation, phase, busy, transport, link, core, uds, udsJob, knowledgeJob,
                       queue, tapped, active, session, task>>
        /\ main = "free" /\ main' \in {"free", "release"}
    BY DEF Begins
  <1>2. TokensInv'
    BY <1>1, QueueFacts, TaskFacts, LinksAreNumbers DEF TokensInv, Fresh, Current
  <1>3. ConnectInv'
    BY <1>1, QueueFacts, TaskFacts DEF ConnectInv, Own, Current
  <1>4. TransportInv'
    BY <1>1, QueueFacts, TaskFacts, LinkFacts DEF TransportInv, Disconnecting, Alive, Replaces
  <1>5. CoreInv'
    BY <1>1, QueueFacts, TaskFacts, LinkFacts DEF CoreInv, Replaces, IsOpen
  <1>6. JobInv'
    BY <1>1, QueueFacts, TaskFacts DEF JobInv, OnItsWay, Ended, Disconnecting, UdsAction, Own, Current
  <1>7. SessionInv'
    BY <1>1, LinkFacts, TaskFacts DEF SessionInv, OpenSession, IsOpen, Executing, Returned
  <1> QED
    BY <1>2, <1>3, <1>4, <1>5, <1>6, <1>7

LEMMA ReleaseAccounted ==
  ASSUME Inv, Inv', Accounted, Release
  PROVE  Accounted'
  <1> USE DEF Accounted
  <1>1. /\ generation \in Nat /\ generation' = generation + 1
        /\ transport' = 0 /\ active' = transport /\ main = "release" /\ main' = "close"
        /\ UNCHANGED <<phase, busy, link, core, uds, udsJob, knowledgeJob, queue, tapped, session, task>>
    BY GenerationsAreLinks DEF Release, Inv, Typed, linkVars, stateVars, jobVars, otherVars
  <1>c. /\ task.token # generation'
        /\ \A i \in 1..Len(queue) : queue[i].token # generation'
    BY <1>1, QueueFacts, TaskFacts DEF TokensInv
  <1>2. TokensInv'
    BY <1>1, QueueFacts, TaskFacts, LinksAreNumbers DEF TokensInv, Fresh, Current
  <1>3. ConnectInv'
    BY <1>1, QueueFacts, TaskFacts, <1>c DEF ConnectInv, Own, Current
  <1>4. TransportInv'
    BY <1>1, QueueFacts, TaskFacts, LinkFacts DEF TransportInv, Disconnecting, Alive, Replaces
  <1>5. CoreInv'
    BY <1>1, QueueFacts, TaskFacts, LinkFacts DEF CoreInv, Replaces, IsOpen, TransportInv,
        Alive
  <1>6. JobInv'
    BY <1>1, QueueFacts, TaskFacts, <1>c DEF JobInv, OnItsWay, Ended, Disconnecting, UdsAction, Own, Current
  <1>7. SessionInv'
    BY <1>1, LinkFacts, TaskFacts DEF SessionInv, OpenSession, IsOpen, Executing, Returned
  <1> QED
    BY <1>2, <1>3, <1>4, <1>5, <1>6, <1>7

LEMMA CloseOrLeaveAccounted ==
  ASSUME Inv, Inv', Accounted, CloseOrLeave
  PROVE  Accounted'
  <1> USE DEF Accounted
  <1>1. /\ UNCHANGED <<generation, phase, busy, transport, core, uds, udsJob, knowledgeJob,
                       tapped, session, task>>
        /\ main = "close" /\ active' = 0 /\ main' = "end"
        /\ \/ /\ ~Leaving /\ UNCHANGED queue
              /\ \A l \in Links : link'[l].state = IF l = active THEN "closed" ELSE link[l].state
           \/ /\ UNCHANGED link
              /\ Len(queue') = Len(queue) + 1 /\ \A i \in 1..Len(queue) : queue'[i] = queue[i]
              /\ \A i \in 1..Len(queue') : i \in 1..Len(queue) \/ i = Len(queue) + 1
              /\ queue'[Len(queue) + 1].kind = "leave" /\ queue'[Len(queue) + 1].token = 0
              /\ queue'[Len(queue) + 1].link = active /\ queue'[Len(queue) + 1].at = "start"
    <2>1. queue \in Seq(Tasks)
      BY DEF Inv, TasksOK, QueueOK
    <2>2. \A l \in Links : LinkClosed(active)[l].state = IF l = active THEN "closed" ELSE link[l].state
      BY LinkClosedStates DEF Inv, Typed
    <2>3. CASE Leaving
      BY <2>1, <2>3 DEF CloseOrLeave, Task, stateVars, jobVars
    <2>4. CASE ~Leaving
      BY <2>2, <2>4 DEF CloseOrLeave, stateVars, jobVars
    <2> QED
      BY <2>3, <2>4
  <1>a. \A l \in Links : Fresh(l) => Fresh(l)'
    BY <1>1, QueueFacts, LinksAreNumbers DEF Fresh
  <1>2. TokensInv'
    BY <1>1, <1>a, QueueFacts, TaskFacts, LinksAreNumbers, SMTT(30) DEF ConnectInv, TokensInv, Current
  <1>3. ConnectInv'
    BY <1>1, QueueFacts, TaskFacts DEF ConnectInv, Own, Current
  <1>4. TransportInv'
    BY <1>1, QueueFacts, TaskFacts, LinkFacts DEF TransportInv, Disconnecting, Alive, Replaces
  <1>5. CoreInv'
    <2>1. CASE ~Leaving /\ UNCHANGED queue
      BY <1>1, <2>1, QueueFacts, TaskFacts, LinkFacts DEF CoreInv, TransportInv, Alive, Replaces,
         IsOpen
    <2>2. CASE ~(~Leaving /\ UNCHANGED queue)
      <3>1. ASSUME core # 0, IsOpen(link[core]), ~(task.kind = "leave" /\ task.link = core)
            PROVE  \E i \in 1..Len(queue') :
                         /\ queue'[i].kind = "leave" /\ queue'[i].link = core
                         /\ \A j \in 1..(i - 1) : ~Replaces(queue[j])'
        <4>1. transport # core
          BY <1>1, <3>1 DEF TransportInv, Disconnecting, Alive, IsOpen
        <4>2. CASE active = core /\ \A j \in 1..Len(queue) : ~Replaces(queue[j])
          <5>1. \A j \in 1..((Len(queue) + 1) - 1) : j \in 1..Len(queue)
            BY QueueFacts
          <5>2. \A j \in 1..((Len(queue) + 1) - 1) : ~Replaces(queue[j])'
            BY <1>1, <2>2, <4>2, <5>1 DEF Replaces
          <5>3. Len(queue) + 1 \in 1..Len(queue')
            BY <1>1, <2>2, QueueFacts
          <5> QED
            BY <1>1, <2>2, <4>2, <5>2, <5>3
        <4>3. ASSUME NEW i \in 1..Len(queue), queue[i].kind = "leave", queue[i].link = core,
                     \A j \in 1..(i - 1) : ~Replaces(queue[j])
              PROVE  i \in 1..Len(queue') /\ queue'[i].kind = "leave" /\ queue'[i].link = core
                     /\ \A j \in 1..(i - 1) : ~Replaces(queue[j])'
          <5>1. \A j \in 1..(i - 1) : j \in 1..Len(queue)
            BY QueueFacts
          <5> QED
            BY <1>1, <2>2, <4>3, <5>1, QueueFacts DEF Replaces
        <4> QED
          BY <3>1, <4>1, <4>2, <4>3 DEF CoreInv
      <3>2. core # 0 /\ IsOpen(link[core]) => ~Replaces(task)
        BY DEF CoreInv
      <3> QED
        BY <1>1, <2>2, <3>1, <3>2 DEF CoreInv, IsOpen, Replaces
    <2> QED
      BY <2>1, <2>2
  <1>6. JobInv'
    BY <1>1, QueueFacts, TaskFacts DEF JobInv, OnItsWay, Ended, Disconnecting, UdsAction, Own, Current
  <1>7. SessionInv'
    BY <1>1, LinkFacts, TaskFacts DEF SessionInv, OpenSession, IsOpen, Executing, Returned
  <1> QED
    BY <1>2, <1>3, <1>4, <1>5, <1>6, <1>7

LEMMA EndDisconnectAccounted ==
  ASSUME Inv, Inv', Accounted, EndDisconnect
  PROVE  Accounted'
  <1> USE DEF Accounted
  <1>1. /\ UNCHANGED <<generation, phase, transport, link, core, uds, udsJob, knowledgeJob, queue,
                       tapped, active, session, task>>
        /\ main = "end" /\ busy' = FALSE /\ main' = "show"
    BY DEF EndDisconnect, linkVars, stateVars
  <1>2. TokensInv'
    BY <1>1, QueueFacts, TaskFacts, LinksAreNumbers DEF TokensInv, Fresh, Current
  <1>3. ConnectInv'
    BY <1>1, QueueFacts, TaskFacts DEF ConnectInv, Own, Current
  <1>4. TransportInv'
    BY <1>1, QueueFacts, TaskFacts, LinkFacts DEF TransportInv, Disconnecting, Alive, Replaces
  <1>5. CoreInv'
    BY <1>1, QueueFacts, TaskFacts, LinkFacts DEF CoreInv, Replaces, IsOpen
  <1>6. JobInv'
    BY <1>1, QueueFacts, TaskFacts DEF JobInv, OnItsWay, Ended, Disconnecting, UdsAction, Own, Current
  <1>7. SessionInv'
    BY <1>1, LinkFacts, TaskFacts DEF SessionInv, OpenSession, IsOpen, Executing, Returned
  <1> QED
    BY <1>2, <1>3, <1>4, <1>5, <1>6, <1>7

LEMMA ShowDisconnectedAccounted ==
  ASSUME Inv, Inv', Accounted, ShowDisconnected
  PROVE  Accounted'
  <1> USE DEF Accounted
  <1>1. /\ UNCHANGED <<generation, busy, transport, link, core, uds, udsJob, knowledgeJob, tapped,
                       active, session, task>>
        /\ main = "show" /\ phase' = "disconnected" /\ main' = "free"
        /\ Len(queue') = Len(queue) + 1 /\ \A i \in 1..Len(queue) : queue'[i] = queue[i]
        /\ \A i \in 1..Len(queue') : i \in 1..Len(queue) \/ i = Len(queue) + 1
        /\ queue'[Len(queue) + 1].kind = "destroy" /\ queue'[Len(queue) + 1].token = 0
        /\ queue'[Len(queue) + 1].link = 0 /\ queue'[Len(queue) + 1].at = "start"
    <2>1. queue \in Seq(Tasks)
      BY DEF Inv, TasksOK, QueueOK
    <2> QED
      BY <2>1 DEF ShowDisconnected, Task, linkVars, jobVars
  <1>a. \A l \in Links : Fresh(l) => Fresh(l)'
    BY <1>1, QueueFacts, LinksAreNumbers DEF Fresh
  <1>2. TokensInv'
    BY <1>1, <1>a, QueueFacts, TaskFacts, LinksAreNumbers, SMTT(30) DEF TokensInv, Current
  <1>3. ConnectInv'
    BY <1>1, QueueFacts, TaskFacts DEF ConnectInv, Own, Current
  <1>4. TransportInv'
    BY <1>1, QueueFacts, TaskFacts, LinkFacts DEF TransportInv, Disconnecting, Alive, Replaces
  <1>5. CoreInv'
    BY <1>1, QueueFacts, TaskFacts, LinkFacts DEF CoreInv, Replaces, IsOpen
  <1>6. JobInv'
    BY <1>1, QueueFacts, TaskFacts DEF JobInv, OnItsWay, Ended, Disconnecting, UdsAction, Own, Current
  <1>7. SessionInv'
    BY <1>1, LinkFacts, TaskFacts DEF SessionInv, OpenSession, IsOpen, Executing, Returned
  <1> QED
    BY <1>2, <1>3, <1>4, <1>5, <1>6, <1>7

LEMMA RunJobAccounted ==
  ASSUME Inv, Inv', Accounted, NEW action \in Jobs, RunJob(action)
  PROVE  Accounted'
  <1> USE DEF Accounted
  <1>1. /\ UNCHANGED <<generation, phase, busy, transport, link, core, uds, udsJob, knowledgeJob, queue,
                       active, session, task>>
        /\ main = "free" /\ ~busy /\ phase = "ready" /\ main' = "claim"
    BY DEF RunJob, Tap, Free, linkVars, stateVars, jobVars
  <1>2. TokensInv'
    BY <1>1, QueueFacts, TaskFacts, LinksAreNumbers DEF TokensInv, Fresh, Current
  <1>3. ConnectInv'
    BY <1>1, QueueFacts, TaskFacts DEF ConnectInv, Own, Current
  <1>4. TransportInv'
    BY <1>1, QueueFacts, TaskFacts, LinkFacts DEF TransportInv, Disconnecting, Alive, Replaces
  <1>5. CoreInv'
    BY <1>1, QueueFacts, TaskFacts, LinkFacts DEF CoreInv, Replaces, IsOpen
  <1>6. JobInv'
    BY <1>1, QueueFacts, TaskFacts DEF JobInv, OnItsWay, Ended, Disconnecting, UdsAction, Own, Current
  <1>7. SessionInv'
    BY <1>1, LinkFacts, TaskFacts DEF SessionInv, OpenSession, IsOpen, Executing, Returned
  <1> QED
    BY <1>2, <1>3, <1>4, <1>5, <1>6, <1>7

LEMMA ClaimJobAccounted ==
  ASSUME Inv, Inv', Accounted, ClaimJob, "booked" \notin races'
  PROVE  Accounted'
  <1> USE DEF Accounted
  <1>1. /\ UNCHANGED <<generation, phase, transport, link, core, uds, knowledgeJob, queue, tapped,
                       active, session, task>>
        /\ main = "claim" /\ main' = "book" /\ ~busy /\ busy' = TRUE
        /\ udsJob' = (tapped \in {"uds.enable", "uds.disable"})
    BY DEF ClaimJob, Claim, linkVars, stateVars
  <1>2. TokensInv'
    BY <1>1, QueueFacts, TaskFacts, LinksAreNumbers DEF TokensInv, Fresh, Current
  <1>3. ConnectInv'
    BY <1>1, QueueFacts, TaskFacts DEF ConnectInv, Own, Current
  <1>4. TransportInv'
    BY <1>1, QueueFacts, TaskFacts, LinkFacts DEF TransportInv, Disconnecting, Alive, Replaces
  <1>5. CoreInv'
    BY <1>1, QueueFacts, TaskFacts, LinkFacts DEF CoreInv, Replaces, IsOpen
  <1>6. JobInv'
    BY <1>1, QueueFacts, TaskFacts DEF JobInv, OnItsWay, Ended, Disconnecting, UdsAction, Own, Current
  <1>7. SessionInv'
    BY <1>1, LinkFacts, TaskFacts DEF SessionInv, OpenSession, IsOpen, Executing, Returned,
        JobInv, Ended, Disconnecting
  <1> QED
    BY <1>2, <1>3, <1>4, <1>5, <1>6, <1>7

LEMMA BookJobAccounted ==
  ASSUME Inv, Inv', Accounted, BookJob
  PROVE  Accounted'
  <1> USE DEF Accounted
  <1>1. /\ UNCHANGED <<generation, phase, busy, transport, link, core, uds, udsJob, knowledgeJob,
                       active, session, task>>
        /\ main = "book" /\ main' = "free"
        /\ Len(queue') = Len(queue) + 1 /\ \A i \in 1..Len(queue) : queue'[i] = queue[i]
        /\ \A i \in 1..Len(queue') : i \in 1..Len(queue) \/ i = Len(queue) + 1
        /\ queue'[Len(queue) + 1].kind = "job" /\ queue'[Len(queue) + 1].token = generation
        /\ queue'[Len(queue) + 1].link = 0 /\ queue'[Len(queue) + 1].at = "start"
        /\ queue'[Len(queue) + 1].action = tapped
    <2>1. queue \in Seq(Tasks)
      BY DEF Inv, TasksOK, QueueOK
    <2> QED
      BY <2>1 DEF BookJob, HandOver, Task, linkVars, stateVars, jobVars
  <1>a. \A l \in Links : Fresh(l) => Fresh(l)'
    BY <1>1, QueueFacts, LinksAreNumbers DEF Fresh
  <1>2. TokensInv'
    BY <1>1, <1>a, QueueFacts, TaskFacts, LinksAreNumbers, SMTT(30) DEF TokensInv, Current
  <1>3. ConnectInv'
    BY <1>1, QueueFacts, TaskFacts DEF ConnectInv, Own, Current
  <1>4. TransportInv'
    BY <1>1, QueueFacts, TaskFacts, LinkFacts DEF TransportInv, Disconnecting, Alive, Replaces
  <1>5. CoreInv'
    BY <1>1, QueueFacts, TaskFacts, LinkFacts DEF CoreInv, Replaces, IsOpen
  <1>6. JobInv'
    BY <1>1, QueueFacts, TaskFacts DEF JobInv, OnItsWay, Ended, Disconnecting, UdsAction, Own, Current
  <1>7. SessionInv'
    BY <1>1, LinkFacts, TaskFacts DEF SessionInv, OpenSession, IsOpen, Executing, Returned
  <1> QED
    BY <1>2, <1>3, <1>4, <1>5, <1>6, <1>7

LEMMA TakeAccounted ==
  ASSUME Inv, Inv', Accounted, Take
  PROVE  Accounted'
  <1> USE DEF Accounted
  <1>1. /\ UNCHANGED <<generation, phase, busy, transport, link, core, uds, udsJob, knowledgeJob,
                       main, tapped, active, session>>
        /\ task.kind = "idle" /\ Len(queue) \in Nat /\ Len(queue) >= 1 /\ task' = queue[1]
        /\ Len(queue') = Len(queue) - 1
        /\ \A i \in 1..Len(queue') : queue'[i] = queue[i + 1] /\ i + 1 \in 1..Len(queue)
    <2>1. queue \in Seq(Tasks) /\ queue # <<>>
      BY DEF Take, Inv, TasksOK, QueueOK
    <2> QED
      BY <2>1 DEF Take, linkVars, stateVars, jobVars
  <1>a. \A l \in Links : Fresh(l) => Fresh(l)'
    BY <1>1, QueueFacts, LinksAreNumbers DEF Fresh
  <1>2. TokensInv'
    <2>1. task'.token <= generation' /\ task'.at = "start"
      BY <1>1, QueueFacts DEF TokensInv
    <2>2. task'.kind = "connect" => Fresh(task.token)'
      BY <1>1, <1>a, QueueFacts DEF TokensInv
    <2>3. \A i \in 1..Len(queue') :
            /\ queue'[i].token <= generation
            /\ queue'[i].kind = "connect" =>
                 /\ Fresh(queue[i].token)'
                 /\ task'.kind = "connect" => task'.token # queue'[i].token
                 /\ \A j \in 1..Len(queue') :
                      queue'[j].kind = "connect" /\ i # j => queue'[i].token # queue'[j].token
      <3> TAKE i \in 1..Len(queue')
      <3>1. queue'[i] = queue[i + 1] /\ i + 1 \in 1..Len(queue) /\ i + 1 # 1 /\ 1 \in 1..Len(queue)
        BY <1>1
      <3>2. ASSUME NEW j \in 1..Len(queue'), queue'[i].kind = "connect", queue'[j].kind = "connect", i # j
            PROVE  queue'[i].token # queue'[j].token
        <4>1. queue'[j] = queue[j + 1] /\ j + 1 \in 1..Len(queue) /\ j + 1 # i + 1
          BY <1>1, <3>2
        <4> QED
          BY <3>1, <3>2, <4>1 DEF TokensInv
      <3> QED
        BY <1>1, <1>a, <3>1, <3>2, QueueFacts DEF TokensInv
    <2> QED
      BY <1>1, <1>a, <2>1, <2>2, <2>3 DEF TokensInv
  <1>3. ConnectInv'
    <2>1. task'.at = "start" /\ 1 \in 1..Len(queue)
      BY <1>1, QueueFacts
    <2>2. task'.kind = "connect" /\ Own(task)' =>
            /\ busy' /\ main' \in {"free", "release"}
            /\ \A j \in 1..Len(queue') : queue'[j].kind \notin {"connect", "destroy", "job"}
      <3> HAVE task'.kind = "connect" /\ Own(task)'
      <3>1. \A j \in 1..Len(queue) : j > 1 => queue[j].kind \notin {"connect", "destroy", "job"}
        BY <1>1, <2>1 DEF ConnectInv, Own
      <3>2. ASSUME NEW j \in 1..Len(queue')
            PROVE  queue'[j].kind \notin {"connect", "destroy", "job"}
        <4>1. queue'[j] = queue[j + 1] /\ j + 1 \in 1..Len(queue) /\ j + 1 > 1
          BY <1>1
        <4> QED
          BY <3>1, <4>1
      <3> QED
        BY <1>1, <2>1, <3>2 DEF ConnectInv, Own
    <2>3. ASSUME NEW i \in 1..Len(queue'), queue'[i].kind = "connect", Own(queue[i])'
          PROVE  /\ busy' /\ main' \in {"free", "release"}
                 /\ ~(task'.kind \in {"connect", "job"} /\ Current')
                 /\ \A j \in 1..Len(queue') :
                      /\ j # i => ~(queue'[j].kind \in {"connect", "job"} /\ Own(queue[j])')
                      /\ j > i => queue'[j].kind \notin {"connect", "destroy", "job"}
      <3>1. queue'[i] = queue[i + 1] /\ i + 1 \in 1..Len(queue) /\ i + 1 # 1
        BY <1>1
      <3>2. /\ busy /\ main \in {"free", "release"}
            /\ \A j \in 1..Len(queue) :
                 /\ j # i + 1 => ~(queue[j].kind \in {"connect", "job"} /\ Own(queue[j]))
                 /\ j > i + 1 => queue[j].kind \notin {"connect", "destroy", "job"}
        BY <1>1, <2>3, <3>1 DEF ConnectInv, Own
      <3>3. ASSUME NEW j \in 1..Len(queue')
            PROVE  /\ j # i => ~(queue'[j].kind \in {"connect", "job"} /\ Own(queue[j])')
                   /\ j > i => queue'[j].kind \notin {"connect", "destroy", "job"}
        <4>1. queue'[j] = queue[j + 1] /\ j + 1 \in 1..Len(queue) /\ (j # i => j + 1 # i + 1)
              /\ (j > i => j + 1 > i + 1)
          BY <1>1
        <4> QED
          BY <1>1, <3>2, <4>1 DEF Own
      <3> QED
        BY <1>1, <2>1, <3>1, <3>2, <3>3 DEF Own, Current
    <2> QED
      BY <1>1, <2>1, <2>2, <2>3 DEF ConnectInv, Own, Current
  <1>4. TransportInv'
    BY <1>1, QueueFacts, TaskFacts, LinkFacts DEF TransportInv, Disconnecting, Alive, Replaces
  <1>5. CoreInv'
    <2>1. task'.at = "start" /\ 1 \in 1..Len(queue)
      BY <1>1, QueueFacts
    <2>2. ASSUME core # 0, IsOpen(link[core])
          PROVE  /\ ~Replaces(task)'
                 /\ \/ transport' = core'
                    \/ /\ active' = core' /\ main' = "close"
                       /\ \A j \in 1..Len(queue') : ~Replaces(queue[j])'
                    \/ task'.kind = "leave" /\ task'.link = core'
                    \/ \E i \in 1..Len(queue') :
                         /\ queue'[i].kind = "leave" /\ queue'[i].link = core'
                         /\ \A j \in 1..(i - 1) : ~Replaces(queue[j])'
      <3>1. CASE transport = core
        BY <1>1, <2>1, <2>2, <3>1 DEF TransportInv, Disconnecting, Alive, IsOpen, Replaces
      <3>2. CASE active = core /\ main = "close" /\ \A j \in 1..Len(queue) : ~Replaces(queue[j])
        BY <1>1, <2>1, <3>2 DEF Replaces
      <3>3. ASSUME NEW i \in 1..Len(queue), queue[i].kind = "leave", queue[i].link = core,
                   \A j \in 1..(i - 1) : ~Replaces(queue[j])
            PROVE  /\ ~Replaces(task)'
                   /\ \/ task'.kind = "leave" /\ task'.link = core'
                      \/ \E k \in 1..Len(queue') :
                           /\ queue'[k].kind = "leave" /\ queue'[k].link = core'
                           /\ \A j \in 1..(k - 1) : ~Replaces(queue[j])'
        <4>1. CASE i = 1
          BY <1>1, <3>3, <4>1 DEF Replaces
        <4>2. CASE i # 1
          <5>1. i - 1 \in 1..Len(queue') /\ queue'[i - 1] = queue[i] /\ 1 \in 1..(i - 1)
            BY <1>1, <4>2
          <5>2. \A j \in 1..((i - 1) - 1) : queue'[j] = queue[j + 1] /\ j + 1 \in 1..(i - 1)
            BY <1>1, <4>2
          <5>3. \A j \in 1..((i - 1) - 1) : ~Replaces(queue[j])'
            BY <3>3, <5>2 DEF Replaces
          <5> QED
            BY <1>1, <3>3, <5>1, <5>3 DEF Replaces
        <4> QED
          BY <4>1, <4>2
      <3> QED
        BY <1>1, <2>2, <3>1, <3>2, <3>3 DEF CoreInv
    <2> QED
      BY <1>1, <2>1, <2>2 DEF CoreInv, IsOpen
  <1>6. JobInv'
    <2>1. task'.at = "start" /\ 1 \in 1..Len(queue) /\ ~knowledgeJob
      BY <1>1, QueueFacts DEF JobInv
    <2>2. ASSUME NEW i \in 1..Len(queue'), queue'[i].kind = "job"
          PROVE  /\ busy' \/ Ended'
                 /\ task'.kind = "job" => Ended'
                 /\ \A j \in 1..Len(queue') : j # i /\ queue'[j].kind = "job" => Ended'
                 /\ UdsAction(queue[i])' /\ Own(queue[i])' =>
                      /\ busy' /\ udsJob' /\ main' \in {"free", "release"}
                      /\ task'.kind # "job" /\ task'.at # "book"
                      /\ \A j \in 1..Len(queue') : j # i => queue'[j].kind # "job"
      <3>1. queue'[i] = queue[i + 1] /\ i + 1 \in 1..Len(queue) /\ i + 1 # 1
        BY <1>1
      <3>2. /\ busy \/ Ended
            /\ \A j \in 1..Len(queue) : j # i + 1 /\ queue[j].kind = "job" => Ended
            /\ UdsAction(queue[i + 1]) /\ Own(queue[i + 1]) =>
                 /\ busy /\ udsJob /\ main \in {"free", "release"}
                 /\ \A j \in 1..Len(queue) : j # i + 1 => queue[j].kind # "job"
        BY <2>2, <3>1 DEF JobInv
      <3>3. \A j \in 1..Len(queue') : queue'[j] = queue[j + 1] /\ j + 1 \in 1..Len(queue)
                                       /\ (j # i => j + 1 # i + 1)
        BY <1>1
      <3> QED
        BY <1>1, <2>1, <3>1, <3>2, <3>3 DEF Ended, Disconnecting, UdsAction, Own
    <2>3. task'.kind = "job" => busy \/ Ended
      BY <1>1, <2>1 DEF JobInv
    <2>4. task'.kind = "job" /\ UdsAction(task)' /\ Own(task)' => udsJob
      BY <1>1, <2>1 DEF JobInv, UdsAction, Own
    <2> QED
      BY <1>1, <2>1, <2>2, <2>3, <2>4 DEF JobInv, OnItsWay, Ended, Disconnecting, UdsAction, Own, Current
  <1>7. SessionInv'
    BY <1>1, LinkFacts, TaskFacts, QueueFacts DEF SessionInv, OpenSession, IsOpen,
        Executing, Returned, JobInv
  <1> QED
    BY <1>2, <1>3, <1>4, <1>5, <1>6, <1>7

LEMMA AskAccounted ==
  ASSUME Inv, Inv', Accounted, Ask
  PROVE  Accounted'
  <1> USE DEF Accounted
  <1>1. /\ task'.kind = task.kind /\ task'.token = task.token /\ task'.link = task.link
        /\ task'.at = task.at /\ task'.action = task.action
        /\ Executing /\ task.call = "none"
        /\ UNCHANGED <<generation, phase, busy, transport, core, uds, udsJob, knowledgeJob, queue,
                       main, tapped, active>>
        /\ \A l \in Links : link'[l].state = link[l].state
        /\ \/ task'.call = "waiting" /\ UNCHANGED session
           \/ task'.call = "failed" /\ session' = IF session = core THEN 0 ELSE session
    <2>1. CASE core # 0 /\ IsOpen(link[core])
      <3>1. link' = [link EXCEPT ![core] = Written(@)] /\ task' = [task EXCEPT !.call = "waiting"]
        BY <2>1 DEF Ask
      <3>2. \A l \in Links : link'[l].state = link[l].state
        BY <3>1, ZenonT(60) DEF Inv, Typed, BleLinks, Written
      <3> QED
        BY <2>1, <3>1, <3>2 DEF Ask, Inv, TasksOK, Tasks, stateVars, jobVars, otherVars
    <2>2. CASE ~(core # 0 /\ IsOpen(link[core]))
      BY <2>2 DEF Ask, Inv, TasksOK, Tasks, stateVars, jobVars, otherVars
    <2> QED
      BY <2>1, <2>2
  <1>2. TokensInv'
    BY <1>1, QueueFacts, TaskFacts, LinksAreNumbers DEF TokensInv, Fresh, Current
  <1>3. ConnectInv'
    BY <1>1, QueueFacts, TaskFacts DEF ConnectInv, Own, Current
  <1>4. TransportInv'
    BY <1>1, QueueFacts, TaskFacts, LinkFacts DEF TransportInv, Disconnecting, Alive, Replaces
  <1>5. CoreInv'
    BY <1>1, QueueFacts, TaskFacts, LinkFacts DEF CoreInv, Replaces, IsOpen
  <1>6. JobInv'
    BY <1>1, QueueFacts, TaskFacts DEF JobInv, OnItsWay, Ended, Disconnecting, UdsAction, Own, Current
  <1>7. SessionInv'
    BY <1>1, LinkFacts, TaskFacts DEF SessionInv, OpenSession, IsOpen, Executing, Returned
  <1> QED
    BY <1>2, <1>3, <1>4, <1>5, <1>6, <1>7

LEMMA GiveUpAccounted ==
  ASSUME Inv, Inv', Accounted, GiveUp
  PROVE  Accounted'
  <1> USE DEF Accounted
  <1>1. /\ task'.kind = task.kind /\ task'.token = task.token /\ task'.link = task.link
        /\ task'.at = task.at /\ task'.action = task.action
        /\ Executing /\ core \in Links /\ task'.call = "failed"
        /\ UNCHANGED <<generation, phase, busy, transport, core, uds, udsJob, knowledgeJob, queue,
                       main, tapped, active>>
        /\ \A l \in Links : link'[l].state = IF l = core THEN "closed" ELSE link[l].state
        /\ session' = IF session = core THEN 0 ELSE session
    <2>1. core \in Links
      BY GenerationsAreLinks DEF GiveUp, Inv, Typed, ExchangeInv
    <2> QED
      BY <2>1 DEF GiveUp, Inv, Typed, TasksOK, Tasks, BleLinks, GivenUp, Closed, stateVars,
         jobVars, otherVars
  <1>a. \A l \in Links : Fresh(l) => Fresh(l)'
    BY <1>1, QueueFacts, LinksAreNumbers DEF Fresh
  <1>2. TokensInv'
    BY <1>1, <1>a, QueueFacts, TaskFacts, LinksAreNumbers DEF TokensInv, CoreInv, Current
  <1>3. ConnectInv'
    BY <1>1, QueueFacts, TaskFacts DEF ConnectInv, Own, Current
  <1>4. TransportInv'
    BY <1>1, QueueFacts, TaskFacts, LinkFacts DEF TransportInv, Disconnecting, Alive, Replaces
  <1>5. CoreInv'
    BY <1>1, QueueFacts, TaskFacts, LinkFacts DEF CoreInv, Replaces, IsOpen
  <1>6. JobInv'
    BY <1>1, QueueFacts, TaskFacts DEF JobInv, OnItsWay, Ended, Disconnecting, UdsAction, Own, Current
  <1>7. SessionInv'
    BY <1>1, LinkFacts, TaskFacts DEF SessionInv, OpenSession, IsOpen, Executing, Returned
  <1> QED
    BY <1>2, <1>3, <1>4, <1>5, <1>6, <1>7

LEMMA HearAccounted ==
  ASSUME Inv, Inv', Accounted, NEW l \in Links, Hear(l)
  PROVE  Accounted'
  <1> USE DEF Accounted
  <1>1. /\ task'.kind = task.kind /\ task'.token = task.token /\ task'.link = task.link
        /\ task'.at = task.at /\ task'.action = task.action
        /\ Executing /\ core = l /\ link[core].state = "ready" /\ task.call = "waiting"
        /\ UNCHANGED <<generation, phase, busy, transport, core, uds, udsJob, knowledgeJob, queue,
                       main, tapped, active>>
        /\ \A k \in Links : link'[k].state = link[k].state
        /\ task'.call \in {"ok", "refused"}
        /\ \/ task.action = "uds.enable" /\ session' \in {core, 0}
           \/ task.action \in {"read", "uds.tick"} /\ session' \in {session, 0}
           \/ task.action \notin {"uds.enable", "read", "uds.tick"} /\ session' = 0
    <2>1. link[l].waiting /\ l = core /\ Executing /\ task.call = "waiting" /\ link[l].state = "ready"
      BY DEF Hear, Inv, ExchangeInv
    <2>2. PICK ok \in BOOLEAN :
            /\ link' = [link EXCEPT ![l] = Accepted(@)]
            /\ task' = [task EXCEPT !.call = IF ok THEN "ok" ELSE "refused", !.heard = Arriving(link[l])]
            /\ session' \in SessionAfter(task.action, ok)
      BY <2>1 DEF Hear
    <2>3. \A k \in Links : link'[k].state = link[k].state
      BY <2>2 DEF Accepted, Inv, Typed, BleLinks
    <2>4. /\ task'.kind = task.kind /\ task'.token = task.token /\ task'.link = task.link
          /\ task'.at = task.at /\ task'.action = task.action /\ task'.call \in {"ok", "refused"}
      BY <2>2 DEF Inv, TasksOK, Tasks
    <2>5. \/ task.action = "uds.enable" /\ session' \in {core, 0}
          \/ task.action \in {"read", "uds.tick"} /\ session' \in {session, 0}
          \/ task.action \notin {"uds.enable", "read", "uds.tick"} /\ session' = 0
      BY <2>2 DEF SessionAfter
    <2> QED
      BY <2>1, <2>3, <2>4, <2>5 DEF Hear, stateVars, jobVars, otherVars
  <1>a. task.action = "uds.enable" => task.kind = "job" /\ task.at = "job" /\ udsJob /\ ~knowledgeJob
    BY <1>1 DEF Inv, TasksOK, Shape, Executing, JobInv, UdsAction, FailSteps
  <1>2. TokensInv'
    BY <1>1, QueueFacts, TaskFacts, LinksAreNumbers DEF TokensInv, Fresh, Current
  <1>3. ConnectInv'
    BY <1>1, QueueFacts, TaskFacts DEF ConnectInv, Own, Current
  <1>4. TransportInv'
    BY <1>1, QueueFacts, TaskFacts, LinkFacts DEF TransportInv, Disconnecting, Alive, Replaces
  <1>5. CoreInv'
    BY <1>1, QueueFacts, TaskFacts, LinkFacts DEF CoreInv, Replaces, IsOpen
  <1>6. JobInv'
    BY <1>1, QueueFacts, TaskFacts DEF JobInv, OnItsWay, Ended, Disconnecting, UdsAction, Own, Current
  <1>7. SessionInv'
    BY <1>1, LinkFacts, TaskFacts, <1>a DEF SessionInv, OpenSession, IsOpen, Executing,
        Returned
  <1> QED
    BY <1>2, <1>3, <1>4, <1>5, <1>6, <1>7

LEMMA OpenLinkAccounted ==
  ASSUME Inv, Inv', Accounted, OpenLink
  PROVE  Accounted'
  <1> USE DEF Accounted
  <1>1. /\ task'.kind = task.kind /\ task'.token = task.token /\ task'.link = task.link
        /\ task.kind = "connect" /\ task.at = "start" /\ task'.at = "opened" /\ task'.call = "none"
        /\ core' = 0 /\ transport' = task.token /\ uds' = FALSE
        /\ UNCHANGED <<generation, phase, busy, link, udsJob, knowledgeJob, queue, main, tapped, active,
                       session>>
    BY AtFields DEF OpenLink, Inv, TasksOK, Shape, Steps, ConnectSteps, linkVars, stateVars,
        jobVars, otherVars
  <1>a. link[task.token].state = "new" /\ ~OpenSession
    BY <1>1, LinkFacts DEF TokensInv, Fresh, SessionInv, CoreInv, OpenSession, Replaces, IsOpen
  <1>2. TokensInv'
    BY <1>1, QueueFacts, TaskFacts, LinksAreNumbers DEF TokensInv, Fresh, Current
  <1>3. ConnectInv'
    BY <1>1, QueueFacts, TaskFacts DEF ConnectInv, Own, Current
  <1>4. TransportInv'
    BY <1>1, QueueFacts, TaskFacts, LinkFacts, <1>a DEF TransportInv, Disconnecting, Alive, Replaces
  <1>5. CoreInv'
    BY <1>1, QueueFacts, TaskFacts, LinkFacts DEF CoreInv, Replaces, IsOpen
  <1>6. JobInv'
    BY <1>1, QueueFacts, TaskFacts DEF JobInv, OnItsWay, Ended, Disconnecting, UdsAction, Own, Current
  <1>7. SessionInv'
    BY <1>1, LinkFacts, TaskFacts, <1>a DEF SessionInv, OpenSession, IsOpen, Executing,
        Returned
  <1> QED
    BY <1>2, <1>3, <1>4, <1>5, <1>6, <1>7

LEMMA CheckOpenedAccounted ==
  ASSUME Inv, Inv', Accounted, CheckOpened
  PROVE  Accounted'
  <1> USE DEF Accounted
  <1>1. /\ task'.kind = task.kind /\ task'.token = task.token /\ task'.link = task.link
        /\ task.kind = "connect" /\ task.at = "opened" /\ task.token \in Links
        /\ UNCHANGED <<generation, phase, busy, transport, core, uds, udsJob, knowledgeJob, queue,
                       main, tapped, active, session>>
        /\ \/ Current /\ task'.at = "linking"
              /\ \A l \in Links : link'[l].state = IF l = task.token THEN "connecting" ELSE link[l].state
           \/ ~Current /\ task'.at = "finally"
              /\ \A l \in Links : link'[l].state = IF l = task.token THEN "closed" ELSE link[l].state
    <2>1. task.kind = "connect" /\ task.token \in Links
      BY StepKinds DEF CheckOpened, Inv, TasksOK, ConnectSteps
    <2>2. CASE Current
      BY <2>1, <2>2, AtFields DEF CheckOpened, Inv, Typed, TasksOK, BleLinks, ConnectGatt, Steps,
         ConnectSteps,
         stateVars, jobVars, otherVars
    <2>3. CASE ~Current
      BY <2>1, <2>3, AtFields DEF CheckOpened, Inv, Typed, TasksOK, BleLinks, Closed, Steps,
         FailSteps,
         stateVars, jobVars, otherVars
    <2> QED
      BY <2>2, <2>3
  <1>2. TokensInv'
    BY <1>1, QueueFacts, TaskFacts, LinksAreNumbers DEF TokensInv, Fresh, Current
  <1>3. ConnectInv'
    BY <1>1, QueueFacts, TaskFacts DEF ConnectInv, Own, Current
  <1>4. TransportInv'
    BY <1>1, QueueFacts, TaskFacts, LinkFacts DEF TransportInv, Disconnecting, Alive, Replaces, ConnectInv,
        TokensInv, Current
  <1>5. CoreInv'
    BY <1>1, QueueFacts, TaskFacts, LinkFacts DEF CoreInv, Replaces, IsOpen
  <1>6. JobInv'
    BY <1>1, QueueFacts, TaskFacts DEF JobInv, OnItsWay, Ended, Disconnecting, UdsAction, Own, Current, ConnectInv
  <1>7. SessionInv'
    BY <1>1, LinkFacts, TaskFacts DEF SessionInv, OpenSession, IsOpen, Executing, Returned,
        TokensInv
  <1> QED
    BY <1>2, <1>3, <1>4, <1>5, <1>6, <1>7

LEMMA CreateCoreAccounted ==
  ASSUME Inv, Inv', Accounted, CreateCore
  PROVE  Accounted'
  <1> USE DEF Accounted
  <1>1. /\ task'.kind = task.kind /\ task'.token = task.token /\ task'.link = task.link
        /\ task.kind = "connect" /\ task.at = "linked" /\ task.token \in Links
        /\ UNCHANGED <<generation, phase, busy, transport, link, udsJob, knowledgeJob, queue,
                       main, tapped, active, session>>
        /\ \/ Current /\ core' = task.token /\ task'.at = "initialize" /\ task'.action = "initialize" /\ task'.call = "none"
           \/ ~Current /\ core' = core /\ task'.at = "finally" /\ task'.action = task.action
    <2>1. task.kind = "connect" /\ task.token \in Links
      BY StepKinds DEF CreateCore, Inv, TasksOK, ConnectSteps
    <2> QED
      BY <2>1, Moves DEF Moved, CreateCore, Inv, TasksOK, stateVars, jobVars, otherVars
  <1>2. TokensInv'
    BY <1>1, QueueFacts, TaskFacts, LinksAreNumbers DEF TokensInv, Fresh, Current
  <1>3. ConnectInv'
    BY <1>1, QueueFacts, TaskFacts DEF ConnectInv, Own, Current
  <1>4. TransportInv'
    BY <1>1, QueueFacts, TaskFacts, LinkFacts DEF TransportInv, Disconnecting, Alive, Replaces, ConnectInv,
        Current
  <1>5. CoreInv'
    BY <1>1, QueueFacts, TaskFacts, LinkFacts DEF CoreInv, Replaces, IsOpen, ConnectInv,
        TransportInv, Alive, Current
  <1>6. JobInv'
    BY <1>1, QueueFacts, TaskFacts DEF JobInv, OnItsWay, Ended, Disconnecting, UdsAction, Own, Current
  <1>7. SessionInv'
    BY <1>1, LinkFacts, TaskFacts DEF SessionInv, OpenSession, IsOpen, Executing, Returned
  <1> QED
    BY <1>2, <1>3, <1>4, <1>5, <1>6, <1>7
LEMMA ConnectStepAccounted ==
  ASSUME Inv, Inv', Accounted, ConnectStep
  PROVE  Accounted'
  <1> USE DEF Accounted
  <1>1. /\ task.kind = "connect" /\ task'.kind = "connect" /\ task'.token = task.token
        /\ task'.link = task.link
        /\ task.at \in {"linking", "initialize", "inventory", "odometer", "ready", "connected", "establish",
                       "settle"}
        /\ task'.at \in {"linked", "inventory", "odometer", "ready", "connected", "establish", "settle", "fail",
                   "finally"}
        /\ task'.at = "linked" => task.at = "linking" /\ IsOpen(link[task.token])
        /\ task'.at \in {"inventory", "odometer", "ready"} => task.at \in {"initialize", "inventory", "odometer"}
        /\ task'.at = "connected" => phase' = "ready"
        /\ task'.at \in {"establish", "settle"} => task.at \in {"connected", "establish"}
        /\ task'.at = "finally" => ~Current \/ task.at \in {"connected", "settle"}
        /\ phase' = phase \/ (phase' = "ready" /\ task.at = "ready")
        /\ UNCHANGED <<generation, busy, transport, link, core, udsJob, knowledgeJob, main, tapped,
                       active, session>>
        /\ \A i \in 1..Len(queue) : i \in 1..Len(queue') /\ queue'[i] = queue[i]
        /\ \A i \in 1..Len(queue') : i \in 1..Len(queue) \/ (queue'[i].kind = "survey" /\ queue'[i].token = 0 /\ queue'[i].link = 0)
    BY DEF ConnectStep
  <1>a. \A l \in Links : Fresh(l) => Fresh(l)'
    BY <1>1, QueueFacts, LinksAreNumbers DEF Fresh
  <1>2. TokensInv'
    BY <1>1, <1>a, QueueFacts, TaskFacts, LinksAreNumbers, SMTT(30) DEF TokensInv, Current
  <1>3. ConnectInv'
    BY <1>1, QueueFacts, TaskFacts, SMTT(30) DEF ConnectInv, Own, Current
  <1>4. TransportInv'
    BY <1>1, QueueFacts, TaskFacts, LinkFacts DEF TransportInv, Disconnecting, Alive, Replaces, ConnectInv,
        Current
  <1>5. CoreInv'
    BY <1>1, QueueFacts, TaskFacts, LinkFacts, SMTT(30) DEF CoreInv, Replaces, IsOpen
  <1>6. JobInv'
    BY <1>1, QueueFacts, TaskFacts, SMTT(30) DEF JobInv, OnItsWay, Ended, Disconnecting, UdsAction, Own, Current
  <1>7. SessionInv'
    BY <1>1, LinkFacts, TaskFacts DEF SessionInv, OpenSession, IsOpen, Executing, Returned
  <1> QED
    BY <1>2, <1>3, <1>4, <1>5, <1>6, <1>7

LEMMA CheckSurveyAccounted ==
  ASSUME Inv, Inv', Accounted, CheckSurvey
  PROVE  Accounted'
  <1> USE DEF Accounted
  <1>1. /\ task.kind = "survey" /\ task.at = "start"
        /\ UNCHANGED <<generation, phase, busy, transport, link, core, uds, udsJob, knowledgeJob,
                       queue, main, tapped, active, session>>
        /\ \/ task'.kind = "survey" /\ task'.token = task.token /\ task'.link = task.link /\ task'.at = "claim"
           \/ task'.kind = "idle" /\ task'.token = 0 /\ task'.link = 0 /\ task'.at = "start"
    BY AtFields, IdleShape DEF CheckSurvey, Inv, TasksOK, Steps, linkVars, stateVars,
        jobVars, otherVars
  <1>2. TokensInv'
    BY <1>1, QueueFacts, TaskFacts, LinksAreNumbers DEF TokensInv, Fresh, Current
  <1>3. ConnectInv'
    BY <1>1, QueueFacts, TaskFacts DEF ConnectInv, Own, Current
  <1>4. TransportInv'
    BY <1>1, QueueFacts, TaskFacts, LinkFacts DEF TransportInv, Disconnecting, Alive, Replaces
  <1>5. CoreInv'
    BY <1>1, QueueFacts, TaskFacts, LinkFacts DEF CoreInv, Replaces, IsOpen
  <1>6. JobInv'
    BY <1>1, QueueFacts, TaskFacts DEF JobInv, OnItsWay, Ended, Disconnecting, UdsAction, Own, Current
  <1>7. SessionInv'
    BY <1>1, LinkFacts, TaskFacts DEF SessionInv, OpenSession, IsOpen, Executing, Returned
  <1> QED
    BY <1>2, <1>3, <1>4, <1>5, <1>6, <1>7

LEMMA ClaimSurveyAccounted ==
  ASSUME Inv, Inv', Accounted, ClaimSurvey, "booked" \notin races'
  PROVE  Accounted'
  <1> USE DEF Accounted
  <1>1. /\ task.kind = "survey" /\ task.at = "claim" /\ ~busy /\ busy' = TRUE /\ udsJob' = FALSE
        /\ task'.kind = "survey" /\ task'.token = generation /\ task'.link = task.link
        /\ task'.at = "book"
        /\ UNCHANGED <<generation, phase, transport, link, core, uds, knowledgeJob, queue, main,
                       tapped, active, session>>
    <2>1. task \in Tasks /\ task.kind = "survey" /\ task.at = "claim"
      BY StepKinds DEF ClaimSurvey, Inv, TasksOK
    <2>2. task' = [task EXCEPT !.at = "book", !.token = generation] /\ ~busy
      BY DEF ClaimSurvey
    <2>3. ("knowledge" \in {"uds.enable", "uds.disable"}) = FALSE
      OBVIOUS
    <2>4. busy' = TRUE /\ udsJob' = FALSE
      BY <2>3 DEF ClaimSurvey, Claim
    <2>5. /\ task'.kind = "survey" /\ task'.token = generation /\ task'.link = task.link
          /\ task'.at = "book"
      BY <2>1, <2>2 DEF Tasks
    <2> QED
      BY <2>1, <2>2, <2>4, <2>5 DEF ClaimSurvey, Claim, linkVars, stateVars
  <1>2. TokensInv'
    BY <1>1, QueueFacts, TaskFacts, LinksAreNumbers DEF TokensInv, Fresh, Current
  <1>3. ConnectInv'
    BY <1>1, QueueFacts, TaskFacts DEF ConnectInv, Own, Current
  <1>4. TransportInv'
    BY <1>1, QueueFacts, TaskFacts, LinkFacts DEF TransportInv, Disconnecting, Alive, Replaces
  <1>5. CoreInv'
    BY <1>1, QueueFacts, TaskFacts, LinkFacts DEF CoreInv, Replaces, IsOpen
  <1>6. JobInv'
    BY <1>1, QueueFacts, TaskFacts DEF JobInv, OnItsWay, Ended, Disconnecting, UdsAction, Own, Current
  <1>7. SessionInv'
    BY <1>1, LinkFacts, TaskFacts DEF SessionInv, OpenSession, IsOpen, Executing, Returned
  <1> QED
    BY <1>2, <1>3, <1>4, <1>5, <1>6, <1>7

LEMMA BookSurveyAccounted ==
  ASSUME Inv, Inv', Accounted, BookSurvey, "booked" \notin races'
  PROVE  Accounted'
  <1> USE DEF Accounted
  <1>1. /\ task.kind = "survey" /\ task.at = "book" /\ Current
        /\ task'.kind = "idle" /\ task'.token = 0 /\ task'.link = 0 /\ task'.at = "start"
        /\ UNCHANGED <<generation, phase, busy, transport, link, core, uds, udsJob, knowledgeJob,
                       main, tapped, active, session>>
        /\ Len(queue') = Len(queue) + 1 /\ \A i \in 1..Len(queue) : queue'[i] = queue[i]
        /\ \A i \in 1..Len(queue') : i \in 1..Len(queue) \/ i = Len(queue) + 1
        /\ queue'[Len(queue) + 1].kind = "job" /\ queue'[Len(queue) + 1].token = generation
        /\ queue'[Len(queue) + 1].link = 0 /\ queue'[Len(queue) + 1].at = "start"
        /\ queue'[Len(queue) + 1].action = "knowledge"
    <2>1. queue \in Seq(Tasks) /\ task.kind = "survey" /\ task.at = "book"
      BY StepKinds DEF BookSurvey, Inv, TasksOK, QueueOK
    <2>2. Current
      BY DEF BookSurvey
    <2> QED
      BY <2>1, <2>2, IdleShape DEF BookSurvey, HandOver, Task, linkVars, stateVars, jobVars
  <1>a. \A l \in Links : Fresh(l) => Fresh(l)'
    BY <1>1, QueueFacts, LinksAreNumbers DEF Fresh
  <1>2. TokensInv'
    BY <1>1, <1>a, QueueFacts, TaskFacts, LinksAreNumbers, SMTT(30) DEF TokensInv, Current
  <1>3. ConnectInv'
    BY <1>1, QueueFacts, TaskFacts DEF ConnectInv, Own, Current
  <1>4. TransportInv'
    BY <1>1, QueueFacts, TaskFacts, LinkFacts DEF TransportInv, Disconnecting, Alive, Replaces
  <1>5. CoreInv'
    BY <1>1, QueueFacts, TaskFacts, LinkFacts DEF CoreInv, Replaces, IsOpen
  <1>6. JobInv'
    BY <1>1, QueueFacts, TaskFacts DEF JobInv, OnItsWay, Ended, Disconnecting, UdsAction, Own, Current
  <1>7. SessionInv'
    BY <1>1, LinkFacts, TaskFacts DEF SessionInv, OpenSession, IsOpen, Executing, Returned
  <1> QED
    BY <1>2, <1>3, <1>4, <1>5, <1>6, <1>7

LEMMA StartJobAccounted ==
  ASSUME Inv, Inv', Accounted, StartJob
  PROVE  Accounted'
  <1> USE DEF Accounted
  <1>1. /\ task'.kind = task.kind /\ task'.token = task.token /\ task'.link = task.link
        /\ task.kind = "job" /\ task.at = "start" /\ task.call = "none" /\ task'.call = "none"
        /\ task'.action = task.action
        /\ UNCHANGED <<generation, phase, busy, transport, link, core, uds, udsJob, knowledgeJob,
                       queue, main, tapped, active, session>>
        /\ \/ ~Current /\ task'.at = "finally"
           \/ Current /\ task'.at = "disable" /\ task.action = "knowledge"
           \/ Current /\ task'.at = "job"
    BY AtFields DEF StartJob, Inv, TasksOK, Tasks, Shape, Steps, FailSteps, linkVars,
        stateVars, jobVars, otherVars
  <1>2. TokensInv'
    BY <1>1, QueueFacts, TaskFacts, LinksAreNumbers DEF TokensInv, Fresh, Current
  <1>3. ConnectInv'
    BY <1>1, QueueFacts, TaskFacts DEF ConnectInv, Own, Current
  <1>4. TransportInv'
    BY <1>1, QueueFacts, TaskFacts, LinkFacts DEF TransportInv, Disconnecting, Alive, Replaces
  <1>5. CoreInv'
    BY <1>1, QueueFacts, TaskFacts, LinkFacts DEF CoreInv, Replaces, IsOpen
  <1>6. JobInv'
    BY <1>1, QueueFacts, TaskFacts DEF JobInv, OnItsWay, Ended, Disconnecting, UdsAction, Own, Current
  <1>7. SessionInv'
    BY <1>1, LinkFacts, TaskFacts DEF SessionInv, OpenSession, IsOpen, Executing, Returned
  <1> QED
    BY <1>2, <1>3, <1>4, <1>5, <1>6, <1>7

LEMMA StartKnowledgeAccounted ==
  ASSUME Inv, Inv', Accounted, StartKnowledge
  PROVE  Accounted'
  <1> USE DEF Accounted
  <1>1. /\ task'.kind = task.kind /\ task'.token = task.token /\ task'.link = task.link
        /\ task.kind = "job" /\ task.at = "disable" /\ Returned /\ task.action = "knowledge"
        /\ task'.action = task.action
        /\ UNCHANGED <<generation, phase, busy, transport, link, core, udsJob, queue, main, tapped,
                       active, session>>
        /\ task'.at = "fail" \/ (task'.at = "job" /\ task'.call = "none")
    BY AtFields DEF StartKnowledge, Continue, Throw, Inv, TasksOK, Tasks, Shape, Steps,
        FailSteps, linkVars, stateVars, jobVars, otherVars
  <1>a. ~OpenSession
    BY <1>1 DEF SessionInv, Executing
  <1>2. TokensInv'
    BY <1>1, QueueFacts, TaskFacts, LinksAreNumbers DEF TokensInv, Fresh, Current
  <1>3. ConnectInv'
    BY <1>1, QueueFacts, TaskFacts DEF ConnectInv, Own, Current
  <1>4. TransportInv'
    BY <1>1, QueueFacts, TaskFacts, LinkFacts DEF TransportInv, Disconnecting, Alive, Replaces
  <1>5. CoreInv'
    BY <1>1, QueueFacts, TaskFacts, LinkFacts DEF CoreInv, Replaces, IsOpen
  <1>6. JobInv'
    BY <1>1, QueueFacts, TaskFacts DEF JobInv, OnItsWay, Ended, Disconnecting, UdsAction, Own, Current
  <1>7. SessionInv'
    BY <1>1, LinkFacts, TaskFacts, <1>a DEF SessionInv, OpenSession, IsOpen, Executing,
        Returned
  <1> QED
    BY <1>2, <1>3, <1>4, <1>5, <1>6, <1>7

LEMMA ReturnsAccounted ==
  ASSUME Inv, Inv', Accounted, Returns
  PROVE  Accounted'
  <1> USE DEF Accounted
  <1>1. /\ task'.kind = task.kind /\ task'.token = task.token /\ task'.link = task.link
        /\ task.kind \in {"job", "poll"} /\ task.at \in {"job", "tick", "read"} /\ Returned
        /\ UNCHANGED <<generation, phase, busy, transport, link, core, udsJob, knowledgeJob,
                       queue, main, tapped, active, session>>
        /\ uds' = Shown
        /\ task'.at \in {"fail", "finally"} \/ (task'.at = "read" /\ task.kind = "poll" /\ task'.call = "none")
        /\ task'.at = "fail" => Broken
        /\ task'.at # "read" => task'.action = task.action
    BY DEF Returns
  <1>a. OpenSession => uds' /\ ~Broken
    BY <1>1, LinkFacts DEF SessionInv, CoreInv, OpenSession, Shown, Broken
  <1>2. TokensInv'
    BY <1>1, QueueFacts, TaskFacts, LinksAreNumbers DEF TokensInv, Fresh, Current
  <1>3. ConnectInv'
    BY <1>1, QueueFacts, TaskFacts DEF ConnectInv, Own, Current
  <1>4. TransportInv'
    BY <1>1, QueueFacts, TaskFacts, LinkFacts DEF TransportInv, Disconnecting, Alive, Replaces
  <1>5. CoreInv'
    BY <1>1, QueueFacts, TaskFacts, LinkFacts DEF CoreInv, Replaces, IsOpen
  <1>6. JobInv'
    BY <1>1, QueueFacts, TaskFacts DEF JobInv, OnItsWay, Ended, Disconnecting, UdsAction, Own, Current
  <1>7. SessionInv'
    BY <1>1, LinkFacts, TaskFacts, <1>a DEF SessionInv, OpenSession, IsOpen, Executing,
        Returned, JobInv
  <1> QED
    BY <1>2, <1>3, <1>4, <1>5, <1>6, <1>7

LEMMA PollLostAccounted ==
  ASSUME Inv, Inv', Accounted, PollLost
  PROVE  Accounted'
  <1> USE DEF Accounted
  <1>1. /\ task.kind = "poll" /\ task'.kind = "poll" /\ task'.link = task.link
        /\ task.at = "lost" /\ task'.at = "fail"
        /\ task'.token = generation
        /\ UNCHANGED <<generation, phase, busy, transport, link, core, uds, udsJob, knowledgeJob,
                       queue, main, tapped, active, session>>
    BY StepKinds DEF PollLost, Inv, TasksOK, Tasks, linkVars, stateVars, jobVars, otherVars
  <1>2. TokensInv'
    BY <1>1, QueueFacts, TaskFacts, LinksAreNumbers DEF TokensInv, Fresh, Current
  <1>3. ConnectInv'
    BY <1>1, QueueFacts, TaskFacts DEF ConnectInv, Own, Current
  <1>4. TransportInv'
    BY <1>1, QueueFacts, TaskFacts, LinkFacts DEF TransportInv, Disconnecting, Alive, Replaces
  <1>5. CoreInv'
    BY <1>1, QueueFacts, TaskFacts, LinkFacts DEF CoreInv, Replaces, IsOpen
  <1>6. JobInv'
    BY <1>1, QueueFacts, TaskFacts DEF JobInv, OnItsWay, Ended, Disconnecting, UdsAction, Own, Current
  <1>7. SessionInv'
    BY <1>1, LinkFacts, TaskFacts DEF SessionInv, OpenSession, IsOpen, Executing, Returned
  <1> QED
    BY <1>2, <1>3, <1>4, <1>5, <1>6, <1>7

LEMMA PollLinkAccounted ==
  ASSUME Inv, Inv', Accounted, PollLink
  PROVE  Accounted'
  <1> USE DEF Accounted
  <1>1. /\ task.kind = "idle" /\ core # 0 /\ Broken
        /\ UNCHANGED <<generation, phase, busy, transport, link, core, uds, udsJob, knowledgeJob,
                       queue, main, tapped, active, session>>
        /\ task'.kind = "poll" /\ task'.token = 0 /\ task'.link = 0 /\ task'.at = "lost"
        /\ task'.call = "none"
    BY DEF PollLink, Task, linkVars, stateVars, jobVars, otherVars
  <1>a. ~OpenSession
    BY <1>1, LinkFacts DEF SessionInv, CoreInv, OpenSession, Broken
  <1>2. TokensInv'
    BY <1>1, QueueFacts, TaskFacts, LinksAreNumbers DEF TokensInv, Fresh, Current
  <1>3. ConnectInv'
    BY <1>1, QueueFacts, TaskFacts DEF ConnectInv, Own, Current
  <1>4. TransportInv'
    BY <1>1, QueueFacts, TaskFacts, LinkFacts DEF TransportInv, Disconnecting, Alive, Replaces
  <1>5. CoreInv'
    BY <1>1, QueueFacts, TaskFacts, LinkFacts DEF CoreInv, Replaces, IsOpen
  <1>6. JobInv'
    BY <1>1, QueueFacts, TaskFacts DEF JobInv, OnItsWay, Ended, Disconnecting, UdsAction, Own, Current
  <1>7. SessionInv'
    BY <1>1, LinkFacts, TaskFacts, <1>a DEF SessionInv, OpenSession, IsOpen, Executing,
        Returned
  <1> QED
    BY <1>2, <1>3, <1>4, <1>5, <1>6, <1>7

LEMMA PollSignalsAccounted ==
  ASSUME Inv, Inv', Accounted, PollSignals
  PROVE  Accounted'
  <1> USE DEF Accounted
  <1>1. /\ task.kind = "idle" /\ core # 0
        /\ UNCHANGED <<generation, phase, busy, transport, link, core, uds, udsJob, knowledgeJob,
                       queue, main, tapped, active, session>>
        /\ task'.kind = "poll" /\ task'.token = generation /\ task'.link = 0
        /\ task'.at \in {"tick", "read"} /\ task'.call = "none"
    BY DEF PollSignals, Task, linkVars, stateVars, jobVars, otherVars
  <1>2. TokensInv'
    BY <1>1, QueueFacts, TaskFacts, LinksAreNumbers DEF TokensInv, Fresh, Current
  <1>3. ConnectInv'
    BY <1>1, QueueFacts, TaskFacts DEF ConnectInv, Own, Current
  <1>4. TransportInv'
    BY <1>1, QueueFacts, TaskFacts, LinkFacts DEF TransportInv, Disconnecting, Alive, Replaces
  <1>5. CoreInv'
    BY <1>1, QueueFacts, TaskFacts, LinkFacts DEF CoreInv, Replaces, IsOpen
  <1>6. JobInv'
    BY <1>1, QueueFacts, TaskFacts DEF JobInv, OnItsWay, Ended, Disconnecting, UdsAction, Own, Current
  <1>7. SessionInv'
    BY <1>1, LinkFacts, TaskFacts DEF SessionInv, OpenSession, IsOpen, Executing, Returned,
        JobInv
  <1> QED
    BY <1>2, <1>3, <1>4, <1>5, <1>6, <1>7

LEMMA LeaveAccounted ==
  ASSUME Inv, Inv', Accounted, Leave
  PROVE  Accounted'
  <1> USE DEF Accounted
  <1>1. /\ task.kind = "leave" /\ task.action = "uds.disable"
        /\ UNCHANGED <<generation, phase, busy, transport, core, udsJob, knowledgeJob, queue,
                       main, tapped, active, session>>
        /\ \/ /\ task.at = "start" /\ task'.kind = "leave" /\ task'.token = task.token /\ task'.link = task.link
              /\ task'.at = "disable" /\ task'.call = "none" /\ UNCHANGED <<link, uds>>
           \/ /\ (task.at = "start" /\ core = 0) \/ (task.at = "disable" /\ Returned)
              /\ \A l \in Links : link'[l].state = IF l = task.link THEN "closed" ELSE link[l].state
              /\ task'.kind = "idle" /\ task'.token = 0 /\ task'.link = 0 /\ task'.at = "start"
    <2>1. task.kind = "leave" /\ task.action = "uds.disable"
      BY DEF Leave, Inv, TasksOK, Shape
    <2>2. CASE task.at = "start" /\ core # 0 /\ task' = [task EXCEPT !.at = "disable"] /\ UNCHANGED <<link, uds>>
      BY <2>1, <2>2 DEF Leave, Inv, TasksOK, Tasks, Shape, stateVars, jobVars, otherVars
    <2>3. CASE /\ (task.at = "start" /\ core = 0) \/ (task.at = "disable" /\ Returned)
               /\ link' = LinkClosed(task.link) /\ task' = Idle
      <3>1. \A l \in Links : LinkClosed(task.link)[l].state = IF l = task.link THEN "closed" ELSE link[l].state
        BY LinkClosedStates DEF Inv, Typed, TasksOK, Tasks
      <3> QED
        BY <2>1, <2>3, <3>1, IdleShape DEF Leave, stateVars, jobVars, otherVars
    <2> QED
      BY <2>2, <2>3 DEF Leave
  <1>a. task'.kind = "idle" => ~OpenSession
    BY <1>1 DEF SessionInv, Executing, OpenSession
  <1>2. TokensInv'
    BY <1>1, QueueFacts, TaskFacts, LinksAreNumbers DEF TokensInv, Fresh, Current
  <1>3. ConnectInv'
    BY <1>1, QueueFacts, TaskFacts DEF ConnectInv, Own, Current
  <1>4. TransportInv'
    BY <1>1, QueueFacts, TaskFacts, LinkFacts DEF TransportInv, Disconnecting, Alive, Replaces
  <1>5. CoreInv'
    BY <1>1, QueueFacts, TaskFacts, LinkFacts DEF CoreInv, Replaces, IsOpen
  <1>6. JobInv'
    BY <1>1, QueueFacts, TaskFacts DEF JobInv, OnItsWay, Ended, Disconnecting, UdsAction, Own, Current
  <1>7. SessionInv'
    BY <1>1, LinkFacts, TaskFacts, <1>a DEF SessionInv, OpenSession, IsOpen, Executing,
        Returned, JobInv
  <1> QED
    BY <1>2, <1>3, <1>4, <1>5, <1>6, <1>7

LEMMA DestroyCoreAccounted ==
  ASSUME Inv, Inv', Accounted, DestroyCore
  PROVE  Accounted'
  <1> USE DEF Accounted
  <1>1. /\ task.kind = "destroy" /\ core' = 0 /\ uds' = FALSE
        /\ task'.kind = "idle" /\ task'.token = 0 /\ task'.link = 0 /\ task'.at = "start"
        /\ UNCHANGED <<generation, phase, busy, transport, link, udsJob, knowledgeJob, queue,
                       main, tapped, active, session>>
    BY IdleShape DEF DestroyCore, linkVars, stateVars, jobVars, otherVars
  <1>a. ~OpenSession
    BY <1>1 DEF SessionInv, CoreInv, OpenSession, Replaces
  <1>2. TokensInv'
    BY <1>1, QueueFacts, TaskFacts, LinksAreNumbers DEF TokensInv, Fresh, Current
  <1>3. ConnectInv'
    BY <1>1, QueueFacts, TaskFacts DEF ConnectInv, Own, Current
  <1>4. TransportInv'
    BY <1>1, QueueFacts, TaskFacts, LinkFacts DEF TransportInv, Disconnecting, Alive, Replaces
  <1>5. CoreInv'
    BY <1>1, QueueFacts, TaskFacts, LinkFacts DEF CoreInv, Replaces, IsOpen
  <1>6. JobInv'
    BY <1>1, QueueFacts, TaskFacts DEF JobInv, OnItsWay, Ended, Disconnecting, UdsAction, Own, Current
  <1>7. SessionInv'
    BY <1>1, LinkFacts, TaskFacts, <1>a DEF SessionInv, OpenSession, IsOpen, Executing,
        Returned, JobInv
  <1> QED
    BY <1>2, <1>3, <1>4, <1>5, <1>6, <1>7

LEMMA FailAccounted ==
  ASSUME Inv, Inv', Accounted, Fail
  PROVE  Accounted'
  <1> USE DEF Accounted
  <1>1. /\ task'.kind = task.kind /\ task'.token = task.token /\ task'.link = task.link
        /\ task.at = "fail" /\ task'.at \in {"failing", "finally"} /\ (task'.at = "finally" => ~Current)
        /\ task'.action = task.action
        /\ UNCHANGED <<generation, phase, busy, transport, link, core, uds, udsJob, knowledgeJob,
                       queue, main, tapped, active, session>>
    <2>1. CASE Current
      <3>1. task' = [task EXCEPT !.at = "failing", !.was = established]
        BY <2>1 DEF Fail
      <3> QED
        BY <2>1, <3>1 DEF Fail, Inv, TasksOK, Tasks, linkVars, jobVars, otherVars
    <2>2. CASE ~Current
      BY <2>2, AtFields DEF Fail, Inv, TasksOK, Steps, FailSteps, linkVars, jobVars, otherVars
    <2> QED
      BY <2>1, <2>2
  <1>2. TokensInv'
    BY <1>1, QueueFacts, TaskFacts, LinksAreNumbers DEF TokensInv, Fresh, Current
  <1>3. ConnectInv'
    BY <1>1, QueueFacts, TaskFacts DEF ConnectInv, Own, Current
  <1>4. TransportInv'
    BY <1>1, QueueFacts, TaskFacts, LinkFacts DEF TransportInv, Disconnecting, Alive, Replaces, ConnectInv,
        Current
  <1>5. CoreInv'
    BY <1>1, QueueFacts, TaskFacts, LinkFacts DEF CoreInv, Replaces, IsOpen
  <1>6. JobInv'
    BY <1>1, QueueFacts, TaskFacts DEF JobInv, OnItsWay, Ended, Disconnecting, UdsAction, Own, Current
  <1>7. SessionInv'
    BY <1>1, LinkFacts, TaskFacts DEF SessionInv, OpenSession, IsOpen, Executing, Returned
  <1> QED
    BY <1>2, <1>3, <1>4, <1>5, <1>6, <1>7

LEMMA FailLinkAccounted ==
  ASSUME Inv, Inv', Accounted, FailLink
  PROVE  Accounted'
  <1> USE DEF Accounted
  <1>1. /\ task'.kind = task.kind /\ task'.token = task.token /\ task'.link = task.link
        /\ task.at = "failing" /\ task'.at = "error" /\ task'.action = task.action
        /\ transport' = 0 /\ core' = 0 /\ uds' = FALSE
        /\ UNCHANGED <<generation, phase, busy, udsJob, knowledgeJob, queue, main, tapped, active, session>>
        /\ \A l \in Links : link'[l].state = IF l = transport THEN "closed" ELSE link[l].state
    BY AtFields, LinkClosedStates DEF FailLink, Inv, Typed, TasksOK, Steps, FailSteps,
        linkVars, stateVars, jobVars, otherVars
  <1>2. TokensInv'
    BY <1>1, QueueFacts, TaskFacts, LinksAreNumbers DEF TokensInv, Fresh, Current
  <1>3. ConnectInv'
    BY <1>1, QueueFacts, TaskFacts DEF ConnectInv, Own, Current
  <1>4. TransportInv'
    BY <1>1, QueueFacts, TaskFacts, LinkFacts DEF TransportInv, Disconnecting, Alive, Replaces
  <1>5. CoreInv'
    BY <1>1, QueueFacts, TaskFacts, LinkFacts DEF CoreInv, Replaces, IsOpen
  <1>6. JobInv'
    BY <1>1, QueueFacts, TaskFacts DEF JobInv, OnItsWay, Ended, Disconnecting, UdsAction, Own, Current
  <1>7. SessionInv'
    BY <1>1, LinkFacts, TaskFacts DEF SessionInv, OpenSession, IsOpen, Executing, Returned
  <1> QED
    BY <1>2, <1>3, <1>4, <1>5, <1>6, <1>7

LEMMA FailStepAccounted ==
  ASSUME Inv, Inv', Accounted, FailStep
  PROVE  Accounted'
  <1> USE DEF Accounted
  <1>1. /\ task'.kind = task.kind /\ task'.token = task.token /\ task'.link = task.link
        /\ task.at \in {"error", "policy", "schedule"}
        /\ task'.at \in {"policy", "schedule", "finally"}
        /\ task'.action = task.action
        /\ phase' \in {phase, "error"}
        /\ UNCHANGED <<generation, busy, transport, link, core, uds, udsJob, knowledgeJob, queue,
                       main, tapped, active, session>>
    BY DEF FailStep
  <1>2. TokensInv'
    BY <1>1, QueueFacts, TaskFacts, LinksAreNumbers DEF TokensInv, Fresh, Current
  <1>3. ConnectInv'
    BY <1>1, QueueFacts, TaskFacts DEF ConnectInv, Own, Current
  <1>4. TransportInv'
    BY <1>1, QueueFacts, TaskFacts, LinkFacts DEF TransportInv, Disconnecting, Alive, Replaces, ConnectInv
  <1>5. CoreInv'
    BY <1>1, QueueFacts, TaskFacts, LinkFacts DEF CoreInv, Replaces, IsOpen
  <1>6. JobInv'
    BY <1>1, QueueFacts, TaskFacts DEF JobInv, OnItsWay, Ended, Disconnecting, UdsAction, Own, Current
  <1>7. SessionInv'
    BY <1>1, LinkFacts, TaskFacts DEF SessionInv, OpenSession, IsOpen, Executing, Returned
  <1> QED
    BY <1>2, <1>3, <1>4, <1>5, <1>6, <1>7

LEMMA FinallyAccounted ==
  ASSUME Inv, Inv', Accounted, Finally
  PROVE  Accounted'
  <1> USE DEF Accounted
  <1>1. /\ task.at = "finally" /\ task.kind \in {"connect", "job", "poll"}
        /\ UNCHANGED <<generation, phase, busy, transport, link, core, uds, queue, main, tapped,
                       active, session>>
        /\ task.kind = "job" => udsJob' = FALSE /\ knowledgeJob' = FALSE
        /\ task.kind # "job" => UNCHANGED <<udsJob, knowledgeJob>>
        /\ \/ /\ Current /\ task.kind \in {"connect", "job"} /\ task'.at = "free"
              /\ task'.kind = task.kind /\ task'.token = task.token /\ task'.link = task.link
           \/ task'.kind = "idle" /\ task'.token = 0 /\ task'.link = 0 /\ task'.at = "start"
    <2>1. task \in Tasks /\ task.at = "finally" /\ task.kind \in {"connect", "job", "poll"}
      BY StepKinds DEF Finally, Inv, TasksOK, FailSteps
    <2>2. \/ Current /\ task.kind \in {"connect", "job"} /\ task' = At("free")
          \/ task' = Idle
      BY DEF Finally
    <2>3. \/ /\ Current /\ task.kind \in {"connect", "job"} /\ task'.at = "free"
             /\ task'.kind = task.kind /\ task'.token = task.token /\ task'.link = task.link
          \/ task'.kind = "idle" /\ task'.token = 0 /\ task'.link = 0 /\ task'.at = "start"
      BY <2>1, <2>2, AtFields, IdleShape DEF Steps
    <2> QED
      BY <2>1, <2>3 DEF Finally, linkVars, stateVars, otherVars
  <1>2. TokensInv'
    BY <1>1, QueueFacts, TaskFacts, LinksAreNumbers DEF TokensInv, Fresh, Current
  <1>3. ConnectInv'
    BY <1>1, QueueFacts, TaskFacts DEF ConnectInv, Own, Current
  <1>4. TransportInv'
    BY <1>1, QueueFacts, TaskFacts, LinkFacts DEF TransportInv, Disconnecting, Alive, Replaces
  <1>5. CoreInv'
    BY <1>1, QueueFacts, TaskFacts, LinkFacts DEF CoreInv, Replaces, IsOpen
  <1>6. JobInv'
    BY <1>1, QueueFacts, TaskFacts DEF JobInv, OnItsWay, Ended, Disconnecting, UdsAction, Own, Current
  <1>7. SessionInv'
    BY <1>1, LinkFacts, TaskFacts DEF SessionInv, OpenSession, IsOpen, Executing, Returned,
        JobInv
  <1> QED
    BY <1>2, <1>3, <1>4, <1>5, <1>6, <1>7

LEMMA FreeWorkerAccounted ==
  ASSUME Inv, Inv', Accounted, FreeWorker, "freed" \notin races'
  PROVE  Accounted'
  <1> USE DEF Accounted
  <1>1. /\ task.kind \in {"connect", "job"} /\ task.at = "free" /\ busy' = FALSE /\ (busy => Current)
        /\ task'.kind = "idle" /\ task'.token = 0 /\ task'.link = 0 /\ task'.at = "start"
        /\ UNCHANGED <<generation, phase, transport, link, core, uds, udsJob, knowledgeJob, queue,
                       main, tapped, active, session>>
    <2>1. task.kind \in {"connect", "job"} /\ task.at = "free"
      BY StepKinds DEF FreeWorker, Inv, TasksOK
    <2>2. busy => Current
      BY DEF FreeWorker
    <2> QED
      BY <2>1, <2>2, IdleShape DEF FreeWorker, linkVars, stateVars
  <1>2. TokensInv'
    BY <1>1, QueueFacts, TaskFacts, LinksAreNumbers DEF TokensInv, Fresh, Current
  <1>3. ConnectInv'
    BY <1>1, QueueFacts, TaskFacts DEF ConnectInv, Own, Current
  <1>4. TransportInv'
    BY <1>1, QueueFacts, TaskFacts, LinkFacts DEF TransportInv, Disconnecting, Alive, Replaces
  <1>5. CoreInv'
    BY <1>1, QueueFacts, TaskFacts, LinkFacts DEF CoreInv, Replaces, IsOpen
  <1>6. JobInv'
    BY <1>1, QueueFacts, TaskFacts DEF JobInv, OnItsWay, Ended, Disconnecting, UdsAction, Own, Current,
        ConnectInv
  <1>7. SessionInv'
    BY <1>1, LinkFacts, TaskFacts DEF SessionInv, OpenSession, IsOpen, Executing, Returned
  <1> QED
    BY <1>2, <1>3, <1>4, <1>5, <1>6, <1>7

LEMMA GattReadyAccounted ==
  ASSUME Inv, Inv', Accounted, NEW l \in Links, GattReady(l)
  PROVE  Accounted'
  <1> USE DEF Accounted
  <1>1. /\ UNCHANGED <<generation, phase, busy, transport, core, uds, udsJob, knowledgeJob, queue,
                       main, tapped, active, session, task>>
        /\ link[l].state = "connecting"
        /\ \A k \in Links : link'[k].state = IF k = l THEN "ready" ELSE link[k].state
    BY DEF GattReady, Inv, Typed, BleLinks, Subscribed, linkVars, stateVars, jobVars,
        otherVars
  <1>a. \A k \in Links : Fresh(k) => Fresh(k)'
    BY <1>1 DEF Fresh
  <1>2. TokensInv'
    BY <1>1, <1>a, QueueFacts, TaskFacts, LinksAreNumbers DEF TokensInv, Current
  <1>3. ConnectInv'
    BY <1>1, QueueFacts, TaskFacts DEF ConnectInv, Own, Current
  <1>4. TransportInv'
    BY <1>1, QueueFacts, TaskFacts, LinkFacts DEF TransportInv, Disconnecting, Alive, Replaces
  <1>5. CoreInv'
    BY <1>1, QueueFacts, TaskFacts, LinkFacts DEF CoreInv, Replaces, IsOpen
  <1>6. JobInv'
    BY <1>1, QueueFacts, TaskFacts DEF JobInv, OnItsWay, Ended, Disconnecting, UdsAction, Own, Current
  <1>7. SessionInv'
    BY <1>1, LinkFacts, TaskFacts DEF SessionInv, OpenSession, IsOpen, Executing, Returned
  <1> QED
    BY <1>2, <1>3, <1>4, <1>5, <1>6, <1>7

LEMMA GattLostAccounted ==
  ASSUME Inv, Inv', Accounted, NEW l \in Links, GattLost(l)
  PROVE  Accounted'
  <1> USE DEF Accounted
  <1>1. /\ UNCHANGED <<generation, phase, busy, transport, core, uds, udsJob, knowledgeJob, queue,
                       main, tapped, active, session, task>>
        /\ link[l].state \in {"connecting", "ready"}
        /\ \A k \in Links : link'[k].state = IF k = l THEN "lost" ELSE link[k].state
    BY DEF GattLost, Inv, Typed, BleLinks, LinkLost, linkVars, stateVars, jobVars, otherVars
  <1>a. \A k \in Links : Fresh(k) => Fresh(k)'
    BY <1>1 DEF Fresh
  <1>2. TokensInv'
    BY <1>1, <1>a, QueueFacts, TaskFacts, LinksAreNumbers DEF TokensInv, Current
  <1>3. ConnectInv'
    BY <1>1, QueueFacts, TaskFacts DEF ConnectInv, Own, Current
  <1>4. TransportInv'
    BY <1>1, QueueFacts, TaskFacts, LinkFacts DEF TransportInv, Disconnecting, Alive, Replaces
  <1>5. CoreInv'
    BY <1>1, QueueFacts, TaskFacts, LinkFacts DEF CoreInv, Replaces, IsOpen
  <1>6. JobInv'
    BY <1>1, QueueFacts, TaskFacts DEF JobInv, OnItsWay, Ended, Disconnecting, UdsAction, Own, Current
  <1>7. SessionInv'
    BY <1>1, LinkFacts, TaskFacts DEF SessionInv, OpenSession, IsOpen, Executing, Returned
  <1> QED
    BY <1>2, <1>3, <1>4, <1>5, <1>6, <1>7

\* The attempts of the main thread either begin a connection or leave alone all
\* that the links depend on.
LEMMA AttemptAccounted ==
  ASSUME Inv, Inv', Accounted, main = "free", NEW p, NEW tick, Attempt(p, tick)
  PROVE  Accounted'
  <1>1. Connects \/ Unaffected
    BY DEF Attempt, NoConnection, Connects, Unaffected, linkVars, jobVars
  <1> QED
    BY <1>1, ConnectsAccounted, UnaffectedAccounted

LEMMA NoConnectionAccounted ==
  ASSUME Inv, Inv', Accounted, NoConnection
  PROVE  Accounted'
  BY UnaffectedAccounted DEF NoConnection, Unaffected, linkVars, jobVars

LEMMA MainAccounted ==
  ASSUME Inv, Inv', Accounted, Main, "booked" \notin races'
  PROVE  Accounted'
  <1>1. CASE UserConnect
    BY <1>1, ConnectsAccounted DEF UserConnect, Connects, Tap
  <1>2. CASE AutoStart
    BY <1>2, AttemptAccounted, NoConnectionAccounted DEF AutoStart
  <1>3. CASE RetryTick
    BY <1>3, AttemptAccounted, NoConnectionAccounted DEF RetryTick
  <1>4. CASE ResumeIfBlocked
    BY <1>4, AttemptAccounted DEF ResumeIfBlocked
  <1>5. CASE AutoConnectOn
    <2>1. Unaffected
      BY <1>5 DEF AutoConnectOn, Unaffected, linkVars, jobVars
    <2> QED
      BY <2>1, UnaffectedAccounted
  <1>6. CASE AutoConnectOff \/ Disconnect
    <2>1. Begins
      BY <1>6 DEF AutoConnectOff, Disconnect, Begins, Tap, linkVars, jobVars
    <2> QED
      BY <2>1, BeginsAccounted
  <1>7. CASE \E action \in Jobs : RunJob(action)
    BY <1>7, RunJobAccounted
  <1>8. CASE Goes
    BY <1>8, ReleaseAccounted, CloseOrLeaveAccounted, EndDisconnectAccounted,
       ShowDisconnectedAccounted, ClaimJobAccounted, BookJobAccounted DEF Goes
  <1> QED
    BY <1>1, <1>2, <1>3, <1>4, <1>5, <1>6, <1>7, <1>8 DEF Main

\* The steps that take a connection on.
LEMMA ConnectionAccounted ==
  ASSUME Inv, Inv', Accounted,
         \/ Linked \/ Initialized \/ Inventoried \/ OdometerRead \/ SetReady
         \/ CheckConnected \/ Establish \/ Settle
  PROVE  Accounted'
  <1> USE DEF linkVars, stateVars, jobVars, otherVars
  <1>k. task \in Tasks /\ (task.at \in ConnectSteps => task.kind = "connect")
    BY StepKinds DEF Inv, TasksOK
  <1>f. \A step \in {"linked", "inventory", "odometer", "ready", "connected", "establish", "settle", "fail",
                     "finally"} :
          /\ At(step).kind = task.kind /\ At(step).token = task.token /\ At(step).link = task.link
          /\ At(step).at = step
    BY <1>k, AtFields DEF Steps, ConnectSteps, FailSteps
  <1>c. \A step \in {"inventory", "odometer"}, action \in {"inventory", "read"} :
          LET t == Call(step, action) IN
          t.kind = task.kind /\ t.token = task.token /\ t.link = task.link /\ t.at = step
    BY <1>k, CallFields DEF Steps, ConnectSteps, Actions
  <1>1. CASE Linked
    <2>1. task' = At("fail") \/ (task' = At("linked") /\ IsOpen(link[task.token]))
      BY <1>1 DEF Linked, Throw
    <2>2. task.at = "linking" /\ task.kind = "connect"
      BY <1>1, <1>k DEF Linked, ConnectSteps
    <2>3. ConnectStep
      BY <1>1, <1>f, <2>1, <2>2 DEF Linked, ConnectStep
    <2> QED
      BY <2>3, ConnectStepAccounted
  <1>2. CASE Initialized
    <2>1. \/ task' = At("fail") \/ task' = Call("inventory", "inventory")
          \/ task' = At("finally") /\ ~Current
      <3>1. CASE Broken
        BY <1>2, <3>1 DEF Initialized, Continue, Throw
      <3>2. CASE ~Broken
        BY <1>2, <3>2 DEF Initialized, Continue, Throw
      <3> QED
        BY <3>1, <3>2
    <2>2. task.at = "initialize" /\ task.kind = "connect"
      BY <1>2, <1>k DEF Initialized, ConnectSteps
    <2>3. ConnectStep
      BY <1>2, <1>f, <1>c, <2>1, <2>2 DEF Initialized, ConnectStep
    <2> QED
      BY <2>3, ConnectStepAccounted
  <1>3. CASE Inventoried
    <2>1. \/ task' = At("fail") \/ task' = Call("odometer", "read") \/ task' = At("ready")
          \/ task' = At("finally") /\ ~Current
      <3>1. PICK odometer \in BOOLEAN :
              Continue(IF ~Current THEN At("finally")
                       ELSE IF odometer THEN Call("odometer", "read") ELSE At("ready"))
        BY <1>3 DEF Inventoried
      <3>2. CASE Broken
        BY <3>1, <3>2 DEF Continue, Throw
      <3>3. CASE ~Broken
        BY <3>1, <3>3 DEF Continue
      <3> QED
        BY <3>2, <3>3
    <2>2. queue' = queue \/ queue' = Append(queue, Task("survey", 0, 0, "knowledge"))
      BY <1>3 DEF Inventoried
    <2>3. /\ \A i \in 1..Len(queue) : i \in 1..Len(queue') /\ queue'[i] = queue[i]
          /\ \A i \in 1..Len(queue') :
               \/ i \in 1..Len(queue)
               \/ queue'[i].kind = "survey" /\ queue'[i].token = 0 /\ queue'[i].link = 0
      <3>1. queue \in Seq(Tasks)
        BY DEF Inv, TasksOK, QueueOK
      <3> DEFINE t == Task("survey", 0, 0, "knowledge")
      <3>2. t \in Tasks /\ t.kind = "survey" /\ t.token = 0 /\ t.link = 0
        BY TaskFields, GenerationsAreLinks DEF Kinds, Actions
      <3> HIDE DEF t
      <3>3. queue' = queue \/ queue' = Append(queue, t)
        BY <2>2 DEF t
      <3> QED
        BY <3>1, <3>2, <3>3
    <2>4. task.at = "inventory" /\ task.kind = "connect"
      BY <1>3, <1>k DEF Inventoried, ConnectSteps
    <2>5. ConnectStep
      BY <1>3, <1>f, <1>c, <2>1, <2>3, <2>4 DEF Inventoried, ConnectStep
    <2> QED
      BY <2>5, ConnectStepAccounted
  <1>4. CASE OdometerRead
    <2>1. task' = At("fail") \/ task' = At("ready")
      BY <1>4 DEF OdometerRead, Continue, Throw
    <2>2. task.at = "odometer" /\ task.kind = "connect"
      BY <1>4, <1>k DEF OdometerRead, ConnectSteps
    <2>3. ConnectStep
      BY <1>4, <1>f, <2>1, <2>2 DEF OdometerRead, ConnectStep
    <2> QED
      BY <2>3, ConnectStepAccounted
  <1>5. CASE SetReady
    <2>1. task.at = "ready" /\ task.kind = "connect"
      BY <1>5, <1>k DEF SetReady, ConnectSteps
    <2>2. ConnectStep
      BY <1>5, <1>f, <2>1 DEF SetReady, ConnectStep
    <2> QED
      BY <2>2, ConnectStepAccounted
  <1>6. CASE CheckConnected
    <2>1. task' = At("establish") \/ task' = At("finally")
      BY <1>6 DEF CheckConnected
    <2>2. task.at = "connected" /\ task.kind = "connect"
      BY <1>6, <1>k DEF CheckConnected, ConnectSteps
    <2>3. ConnectStep
      BY <1>6, <1>f, <2>1, <2>2 DEF CheckConnected, ConnectStep
    <2> QED
      BY <2>3, ConnectStepAccounted
  <1>7. CASE Establish
    <2>1. task.at = "establish" /\ task.kind = "connect"
      BY <1>7, <1>k DEF Establish, ConnectSteps
    <2>2. ConnectStep
      BY <1>7, <1>f, <2>1 DEF Establish, ConnectStep
    <2> QED
      BY <2>2, ConnectStepAccounted
  <1>8. CASE Settle
    <2>1. task.at = "settle" /\ task.kind = "connect"
      BY <1>8, <1>k DEF Settle, ConnectSteps
    <2>2. ConnectStep
      BY <1>8, <1>f, <2>1 DEF Settle, ConnectStep
    <2> QED
      BY <2>2, ConnectStepAccounted
  <1> QED
    BY <1>1, <1>2, <1>3, <1>4, <1>5, <1>6, <1>7, <1>8

\* A job or a poll returns, and fail() goes on after the link is gone.
LEMMA ReportAccounted ==
  ASSUME Inv, Inv', Accounted,
         JobDone \/ Ticked \/ PollRead \/ FailPhase \/ FailPolicy \/ FailSchedule
  PROVE  Accounted'
  <1> USE DEF Inv, TasksOK, Steps, Throw, Continue, FailSteps,
              linkVars, stateVars, jobVars, otherVars
  <1>k. task \in Tasks /\ (task.at = "job" => task.kind = "job")
        /\ (task.at \in {"tick", "read"} => task.kind = "poll")
    BY StepKinds
  <1>1. CASE JobDone
    <2>1. Returns
      BY <1>1, <1>k, AtFields DEF JobDone, Returns
    <2> QED
      BY <2>1, ReturnsAccounted
  <1>2. CASE Ticked
    <2>1. \/ task' = At("fail") /\ Broken
          \/ task' = Call("read", "read") \/ task' = At("finally")
      BY <1>2 DEF Ticked
    <2>2. /\ task'.kind = task.kind /\ task'.token = task.token /\ task'.link = task.link
          /\ \/ task'.at = "fail" /\ Broken /\ task'.action = task.action
             \/ task'.at = "finally" /\ task'.action = task.action
             \/ task'.at = "read" /\ task'.call = "none"
      BY <1>k, <2>1, AtFields, CallFields DEF Actions
    <2>3. Returns
      BY <1>2, <1>k, <2>2 DEF Ticked, Returns
    <2> QED
      BY <2>3, ReturnsAccounted
  <1>3. CASE PollRead
    <2>1. Returns
      BY <1>3, <1>k, AtFields DEF PollRead, Returns
    <2> QED
      BY <2>1, ReturnsAccounted
  <1>4. CASE FailPhase
    <2>1. FailStep
      BY <1>4, AtFields DEF FailPhase, FailStep
    <2> QED
      BY <2>1, FailStepAccounted
  <1>5. CASE FailPolicy
    <2>1. \/ task' = [task EXCEPT !.was = FALSE, !.at = "schedule"]
          \/ task' = [task EXCEPT !.was = FALSE, !.at = "finally"]
      BY <1>5 DEF FailPolicy
    <2>2. /\ task'.kind = task.kind /\ task'.token = task.token /\ task'.link = task.link
          /\ task'.at \in {"schedule", "finally"} /\ task'.action = task.action
      BY <2>1, <1>k DEF Tasks
    <2>3. FailStep
      BY <1>5, <2>2 DEF FailPolicy, FailStep
    <2> QED
      BY <2>3, FailStepAccounted
  <1>6. CASE FailSchedule
    <2>1. FailStep
      BY <1>6, AtFields DEF FailSchedule, FailStep
    <2> QED
      BY <2>1, FailStepAccounted
  <1> QED
    BY <1>1, <1>2, <1>3, <1>4, <1>5, <1>6

\* A stop forgets what happened to an earlier one, but not these.
LEMMA RacesGrow == [Next]_vars => races \cap {"booked", "freed"} \subseteq races'
  <1> SUFFICES ASSUME [Next]_vars PROVE races \cap {"booked", "freed"} \subseteq races'
    OBVIOUS
  <1> USE DEF linkVars, stateVars, jobVars, otherVars
  <1>1. CASE Main
    BY <1>1 DEF Main, Goes, UserConnect, AutoStart, RetryTick, ResumeIfBlocked, AutoConnectOn,
       AutoConnectOff, Disconnect, Stopped, Release, CloseOrLeave, EndDisconnect,
       ShowDisconnected, RunJob, ClaimJob, BookJob
  <1>2. CASE Take \/ Poll \/ Adapter \/ UNCHANGED vars
    BY <1>2 DEF Take, Poll, PollLink, PollSignals, Adapter, Hear, GattReady, GattLost, vars
  <1>3. CASE Work
    BY <1>3 DEF Work, Ask, GiveUp, OpenLink, CheckOpened, Linked, CreateCore, Initialized,
       Inventoried, OdometerRead, SetReady, CheckConnected, Establish, Settle, CheckSurvey,
       ClaimSurvey, BookSurvey, StartJob, StartKnowledge, JobDone, PollLost, Ticked, PollRead,
       Leave, DestroyCore, Fail, FailLink, FailPhase, FailPolicy, FailSchedule, Finally,
       FreeWorker
  <1> QED
    BY <1>1, <1>2, <1>3 DEF Next

LEMMA SessionLeftKept == Inv /\ Inv' /\ SessionLeft /\ [Next]_vars => SessionLeft'
  <1> SUFFICES ASSUME Inv, Inv', SessionLeft, [Next]_vars, races' \cap {"booked", "freed"} = {}
               PROVE  Accounted'
    BY DEF SessionLeft
  <1>a. Accounted /\ "booked" \notin races' /\ "freed" \notin races'
    BY RacesGrow DEF SessionLeft
  <1>1. CASE Main
    BY <1>a, <1>1, MainAccounted
  <1>2. CASE Take \/ Poll
    BY <1>a, <1>2, TakeAccounted, PollLinkAccounted, PollSignalsAccounted DEF Poll
  <1>3. CASE UNCHANGED vars
    <2>1. Unaffected
      BY <1>3 DEF vars, Unaffected, linkVars, stateVars, jobVars, otherVars
    <2> QED
      BY <1>a, <2>1, UnaffectedAccounted
  <1>4. CASE Adapter
    BY <1>a, <1>4, HearAccounted, GattReadyAccounted, GattLostAccounted DEF Adapter
  <1>5. CASE Linked \/ Initialized \/ Inventoried \/ OdometerRead \/ SetReady
             \/ CheckConnected \/ Establish \/ Settle
    BY <1>a, <1>5, ConnectionAccounted
  <1>6. CASE JobDone \/ Ticked \/ PollRead \/ FailPhase \/ FailPolicy \/ FailSchedule
    BY <1>a, <1>6, ReportAccounted
  <1>7. CASE Ask \/ GiveUp \/ OpenLink \/ CheckOpened \/ CreateCore
    BY <1>a, <1>7, AskAccounted, GiveUpAccounted, OpenLinkAccounted, CheckOpenedAccounted,
       CreateCoreAccounted
  <1>8. CASE CheckSurvey \/ ClaimSurvey \/ BookSurvey \/ StartJob \/ StartKnowledge \/ PollLost
    BY <1>a, <1>8, CheckSurveyAccounted, ClaimSurveyAccounted, BookSurveyAccounted,
       StartJobAccounted, StartKnowledgeAccounted, PollLostAccounted
  <1>9. CASE Leave \/ DestroyCore \/ Fail \/ FailLink \/ Finally \/ FreeWorker
    BY <1>a, <1>9, LeaveAccounted, DestroyCoreAccounted, FailAccounted, FailLinkAccounted,
       FinallyAccounted, FreeWorkerAccounted
  <1> QED
    BY <1>1, <1>2, <1>3, <1>4, <1>5, <1>6, <1>7, <1>8, <1>9 DEF Next, Work

LEMMA InitAccounted == Init => Accounted
  <1> SUFFICES ASSUME Init PROVE Accounted
    OBVIOUS
  <1> USE IdleShape, LinksAreNumbers DEF Init
  <1>1. Len(queue) = 0
    OBVIOUS
  <1>2. \A l \in Links : link[l].state = "new"
    BY DEF NewLink
  <1>3. TokensInv
    BY <1>1, <1>2 DEF TokensInv, Fresh
  <1>4. ConnectInv /\ JobInv
    BY <1>1 DEF ConnectInv, JobInv, OnItsWay
  <1>5. TransportInv /\ CoreInv
    BY <1>1 DEF TransportInv, Disconnecting, CoreInv, Alive
  <1>6. SessionInv
    BY DEF SessionInv, OpenSession
  <1> QED
    BY <1>3, <1>4, <1>5, <1>6 DEF Accounted

LEMMA AlwaysSessionLeft == Spec => []SessionLeft
  <1>1. Init => SessionLeft
    BY InitAccounted DEF SessionLeft
  <1> QED
    BY <1>1, AlwaysInv, SessionLeftKept, PTL DEF Spec
-----------------------------------------------------------------------------
\* The steps that close a link, one by one: where the extended session is open
\* on it, the step is not possible or has tried to leave it.
LEMMA SessionStaysLinked ==
  ASSUME Inv, Accounted, Next, NEW l \in Links,
         IsOpen(link[l]), link'[l].state = "closed", session = l, session' = l
  PROVE  FALSE
  <1> USE DEF Accounted
  <1>s. OpenSession /\ core = l /\ l # 0
    BY LinksAreNumbers DEF OpenSession, SessionInv
  <1>o. link[l].state = "ready" /\ link \in [Links -> BleLinks]
    BY DEF IsOpen, Inv, Typed
  <1>u. link' # link
    BY <1>o
  <1>1. ASSUME CloseOrLeave PROVE FALSE
    <2>1. ~Leaving /\ link' = LinkClosed(active) /\ main = "close"
      BY <1>1, <1>u DEF CloseOrLeave
    <2>2. active = l
      BY <1>o, <2>1, LinkClosedStates DEF Inv, Typed
    <2>3. uds \/ udsJob
      BY <1>s, <2>1, <2>2 DEF SessionInv
    <2>4. ~knowledgeJob
      BY <1>s DEF SessionInv
    <2> QED
      BY <2>1, <2>3, <2>4 DEF Leaving
  <1>2. ASSUME GiveUp PROVE FALSE
    BY <1>2, <1>s DEF GiveUp
  <1>3. ASSUME Leave PROVE FALSE
    <2>1. \/ core = 0
          \/ task.at = "disable" /\ Returned /\ task.kind = "leave"
      BY <1>3, <1>u DEF Leave
    <2>2. task.action = "uds.disable"
      BY <1>3 DEF Leave, Inv, TasksOK, Shape
    <2> QED
      BY <1>s, <2>1, <2>2 DEF SessionInv, Executing
  <1>4. ASSUME CheckOpened PROVE FALSE
    <2>1. task.at = "opened" /\ task.kind = "connect"
      BY <1>4, StepKinds DEF CheckOpened, Inv, TasksOK, ConnectSteps
    <2> QED
      BY <1>s, <2>1 DEF SessionInv
  <1>5. ASSUME FailLink PROVE FALSE
    BY <1>5, <1>s DEF FailLink, SessionInv
  <1>6. ASSUME Ask PROVE FALSE
    BY <1>6, <1>s, <1>o, ZenonT(60) DEF Ask, Written, BleLinks
  <1>7. ASSUME NEW k \in Links, Hear(k) \/ GattReady(k) \/ GattLost(k) PROVE FALSE
    <2>1. CASE Hear(k)
      <3>1. link' = [link EXCEPT ![k] = Accepted(@)] \/ link' = [link EXCEPT ![k] = Dropped(@)]
        BY <2>1 DEF Hear
      <3>2. \A b \in BleLinks : Accepted(b).state = b.state /\ Dropped(b).state = b.state
        BY DEF Accepted, Dropped, BleLinks
      <3>3. link'[l].state = link[l].state
        BY <1>o, <3>1, <3>2
      <3> QED
        BY <1>o, <3>3
    <2>2. CASE GattReady(k)
      BY <2>2, <1>o DEF GattReady, Subscribed, BleLinks
    <2>3. CASE GattLost(k)
      BY <2>3, <1>o DEF GattLost, LinkLost, BleLinks
    <2> QED
      BY <1>7, <2>1, <2>2, <2>3
  <1>8. ~Main
    BY <1>1, <1>u DEF Main, Goes, UserConnect, AutoStart, RetryTick, ResumeIfBlocked,
       AutoConnectOn, Attempt, NoConnection, ConnectNow, AutoConnectOff, Disconnect, Release,
       EndDisconnect, ShowDisconnected, RunJob, ClaimJob, BookJob, Claim, HandOver, linkVars
  <1>9. ~Take /\ ~Poll
    BY <1>u DEF Take, Poll, PollLink, PollSignals, linkVars
  <1>10. ~Work
    BY <1>2, <1>3, <1>4, <1>5, <1>6, <1>u
       DEF Work, OpenLink, Linked, CreateCore, Initialized, Inventoried, OdometerRead, SetReady,
           CheckConnected, Establish, Settle, CheckSurvey, ClaimSurvey, BookSurvey, Claim,
           HandOver, StartJob, StartKnowledge, JobDone, PollLost, Ticked, PollRead, DestroyCore,
           Fail, FailPhase, FailPolicy, FailSchedule, Finally, FreeWorker, linkVars
  <1> QED
    BY <1>7, <1>8, <1>9, <1>10 DEF Next, Adapter

\* REQ-027.4, for any number of connections: no disconnect(), failure or
\* opening of another link closes a link that works while an extended session
\* is open on it and 10 01 was not tried, unless the two threads booked jobs
\* one over the other before, or the worker was freed or booked for a
\* connection that no longer counted.
THEOREM SessionIsLeft == Spec => ExtendedSessionIsLeft
  <1>1. Inv /\ SessionLeft /\ [Next]_vars =>
          [\A l \in Links :
             IsOpen(link[l]) /\ link'[l].state = "closed" /\ session = l
               => session' # l \/ races \cap {"booked", "freed"} # {}]_vars
    <2> SUFFICES ASSUME Inv, SessionLeft, Next, races \cap {"booked", "freed"} = {},
                        NEW l \in Links, IsOpen(link[l]), link'[l].state = "closed",
                        session = l, session' = l
                 PROVE  FALSE
      BY DEF vars
    <2> QED
      BY SessionStaysLinked DEF SessionLeft
  <1> QED
    BY <1>1, AlwaysInv, AlwaysSessionLeft, PTL DEF Spec, ExtendedSessionIsLeft
=============================================================================
