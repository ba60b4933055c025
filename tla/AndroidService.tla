--------------------------- MODULE AndroidService ---------------------------
(***************************************************************************)
(* android/.../ObdService.java: the service that owns the connection on a  *)
(* phone.  The main thread takes what the user does and the reconnection   *)
(* timer, one worker thread runs every connection, job and poll in the     *)
(* order they were handed over, and the GATT callbacks run on a third.     *)
(* A generation tells a worker task that the connection it belongs to has  *)
(* been given up meanwhile.                                                *)
(*                                                                         *)
(* A task is cut where the other thread's state is read or written, the    *)
(* main thread's disconnect too.  A core action (NativeCore.execute) is    *)
(* one exchange with the adapter that is answered, refused or fails; what  *)
(* it does inside the core is MobileCore's.  Only the live mode is         *)
(* modelled, with an adapter known from an earlier run: the demo and the   *)
(* replay begin with a disconnect and then leave the adapter alone.        *)
(* Scanning, recording, the vehicle store and the display are left out.    *)
(* Bluetooth and its permission come and go at any time, so each look at   *)
(* environmentBlocker() may find either.                                   *)
(***************************************************************************)
EXTENDS Naturals, Sequences, BleTransport, ReconnectPolicy

CONSTANTS MaxGeneration,  \* bound: connections and disconnections of a run
          MaxPosted,      \* bound: start-up runnables posted at a time
          Overtaking,     \* bound: the taps that may overtake a posted runnable
          Jobs,           \* the jobs the user starts
          AutoSurvey      \* ObdService.autoSurvey

ASSUME ServiceAssumption ==
  /\ MaxGeneration \in Nat \ {0}
  /\ MaxPosted \in Nat \ {0}
  /\ Overtaking \subseteq {"connect", "disconnect", "switch", "job"}
  /\ Jobs \subseteq {"uds.enable", "uds.disable", "dtc.scan", "knowledge"}
  /\ AutoSurvey \in BOOLEAN

VARIABLES generation,   \* the connection or disconnection that counts
          phase,        \* state.phase
          busy,         \* a connection or a job owns the worker
          policy,       \* of the reconnection
          established,  \* sessionAddress is set
          retry,        \* retryTick is posted
          transport,    \* the link in use, 0 for null
          link,         \* every link that was opened, by its generation
          core,         \* the link of the native core, 0 for no core
          uds,          \* state.uds.active
          udsJob, knowledgeJob,
          queue,        \* tasks handed to the worker
          task,         \* the task it runs
          main,         \* how far the main thread is in disconnect() or runJob()
          active,       \* a local of disconnect(): the link it took away, 0 for null
          tapped,       \* the argument of runJob()
          posted,       \* autoStart()'s runnables that have not run yet
          session,      \* history: the link over which an extended session was
                        \* opened that nobody has tried to leave yet
          stopped,      \* history: the user ended the automatic attempts
          races         \* history: what was checked and had changed before the
                        \* code acted on it: "booked" a job over another or
                        \* for another connection, "freed" a worker that
                        \* another connection may own; since the last stop:
                        \* "settled" or "started" the stopped policy

linkVars   == <<transport, link, core, session>>
stateVars  == <<generation, phase, established, policy, retry, stopped>>
jobVars    == <<busy, udsJob, knowledgeJob>>
otherVars  == <<queue, main, active, tapped, posted, races>>
vars       == <<linkVars, stateVars, uds, jobVars, task, otherVars>>

Generations == 0..MaxGeneration
Links == 1..MaxGeneration

\* A task as it is handed over.  `link` is the one a leaving task closes.
Task(kind, token, l, action) ==
    [kind |-> kind, token |-> token, link |-> l, action |-> action,
     at |-> "start", call |-> "none", heard |-> "none", was |-> FALSE]

Idle == Task("idle", 0, 0, "none")

At(step) == [task EXCEPT !.at = step]

\* At an execute(): the call begins when the worker gets there.
Call(step, action) == [task EXCEPT !.at = step, !.action = action, !.call = "none"]

Throw == At("fail")

LinkClosed(l) == IF l = 0 THEN link ELSE [link EXCEPT ![l] = Closed(@)]

Current == task.token = generation
-----------------------------------------------------------------------------
Init ==
  /\ generation = 0 /\ phase = "idle" /\ busy = FALSE
  /\ policy \in {[enabled |-> on, state |-> "idle"] : on \in BOOLEAN}
  /\ established = FALSE /\ retry = FALSE
  /\ transport = 0 /\ link = [l \in Links |-> NewLink] /\ core = 0
  /\ uds = FALSE /\ udsJob = FALSE /\ knowledgeJob = FALSE
  /\ queue = <<>> /\ task = Idle
  /\ main = "free" /\ active = 0 /\ tapped = "none" /\ posted = 1
  /\ session = 0 /\ stopped = FALSE /\ races = {}
-----------------------------------------------------------------------------
(* The main thread.                                                        *)

\* The user is served between two runnables.
Tap(kind) == main = "free" /\ (posted > 0 => kind \in Overtaking)

\* connectNow: the values of the old session go, the generation counts up and
\* the connection is handed to the worker.  The foreground service starts.
ConnectNow ==
  /\ generation < MaxGeneration
  /\ generation' = generation + 1
  /\ busy' = TRUE /\ uds' = FALSE /\ phase' = "connecting" /\ established' = FALSE
  /\ queue' = Append(queue, Task("connect", generation', 0, "none"))
  /\ UNCHANGED <<linkVars, udsJob, knowledgeJob, task, main, active, tapped>>

\* connect(address), behind connectBlocker.
UserConnect ==
  /\ Tap("connect") /\ ~busy /\ phase # "ready"
  /\ policy' = Settled(policy) /\ retry' = FALSE /\ stopped' = FALSE
  /\ ConnectNow
  /\ UNCHANGED <<posted, races>>

NoConnection ==
  UNCHANGED <<linkVars, generation, phase, established, uds, jobVars, task,
              queue, main, active, tapped>>

\* attempt(): the policy says it is connecting; `tick` is what is left of the
\* retryTick that was posted.
Attempt(p, tick) ==
  \/ /\ policy' = Block(p) /\ retry' = tick
     /\ NoConnection
  \/ /\ phase = "ready"
     /\ policy' = Settled(p) /\ retry' = tick
     /\ NoConnection
  \/ /\ phase # "ready" /\ (busy \/ phase = "connecting")
     /\ policy' = Failed(p) /\ retry' = (tick \/ RetriesAfterFailure(p))
     /\ NoConnection
  \/ /\ phase \notin {"ready", "connecting"} /\ ~busy
     /\ policy' = p /\ retry' = tick
     /\ ConnectNow

\* The runnable that onCreate and setAutoConnect post.  It looks at the switch
\* and not at what the user did since: a stop is overridden.
AutoStart ==
  /\ main = "free" /\ posted > 0
  /\ posted' = posted - 1
  /\ IF policy.enabled
     THEN /\ Attempt(Startup(policy), FALSE)
          /\ races' = IF stopped THEN races \cup {"started"} ELSE races
     ELSE retry' = FALSE /\ NoConnection /\ UNCHANGED <<policy, races>>
  /\ UNCHANGED stopped

\* retryTick, once the pause is over; it is posted behind the other runnable.
RetryTick ==
  /\ main = "free" /\ retry /\ posted = 0
  /\ IF AttemptDue(policy) THEN Attempt(Connecting(policy), FALSE)
     ELSE retry' = FALSE /\ NoConnection /\ UNCHANGED policy
  /\ UNCHANGED <<stopped, posted, races>>

\* resumeIfBlocked: Bluetooth came back, or the app came to the foreground.
ResumeIfBlocked ==
  /\ main = "free"
  /\ \/ Unblocks(policy) /\ Attempt(Connecting(policy), retry)
     \/ AttemptDue(policy) /\ Attempt(Connecting(policy), FALSE)
  /\ UNCHANGED <<stopped, posted, races>>

\* setAutoConnect(true); an adapter is known, so the app starts once more.
AutoConnectOn ==
  /\ Tap("switch") /\ ~policy.enabled
  /\ policy' = SetEnabled(policy, TRUE)
  /\ IF ~IsPending(policy) /\ ~busy /\ phase \in {"idle", "error", "disconnected"}
     THEN posted < MaxPosted /\ posted' = posted + 1 /\ stopped' = FALSE
     ELSE UNCHANGED <<posted, stopped>>
  /\ UNCHANGED <<linkVars, generation, phase, established, retry, uds, jobVars, task,
                 queue, main, active, tapped, races>>

\* History: the policy is stopped, whatever became of an earlier stop.
Stopped == stopped' = TRUE /\ races' = races \ {"settled", "started"}

\* setAutoConnect(false), which disconnects when an attempt is pending.
AutoConnectOff ==
  /\ Tap("switch") /\ policy.enabled /\ generation < MaxGeneration
  /\ policy' = IF IsPending(policy) THEN Stop(SetEnabled(policy, FALSE))
                                    ELSE SetEnabled(policy, FALSE)
  /\ retry' = (retry /\ ~IsPending(policy))
  /\ established' = (established /\ ~IsPending(policy))
  /\ main' = IF IsPending(policy) THEN "release" ELSE "free"
  /\ IF IsPending(policy) THEN Stopped ELSE UNCHANGED <<stopped, races>>
  /\ UNCHANGED <<linkVars, generation, phase, uds, jobVars, task,
                 queue, active, tapped, posted>>

\* disconnect(), also as stopAutoConnect, setDemo and openRecording.
Disconnect ==
  /\ Tap("disconnect") /\ generation < MaxGeneration
  /\ policy' = Stop(policy) /\ retry' = FALSE /\ established' = FALSE
  /\ main' = "release" /\ Stopped
  /\ UNCHANGED <<linkVars, generation, phase, uds, jobVars, task,
                 queue, active, tapped, posted>>

\* A defect: only the session that is already displayed is left.
LeavingShown == ~knowledgeJob /\ uds

\* An extended session is open or being opened: the link stays for its end.
Leaving == ~knowledgeJob /\ (udsJob \/ uds)

\* disconnect() takes the link away from the worker ...
Release ==
  /\ main = "release"
  /\ generation' = generation + 1
  /\ transport' = 0 /\ active' = transport
  /\ main' = "close"
  /\ UNCHANGED <<link, core, session, phase, established, policy, retry, stopped, uds, jobVars,
                 task, queue, tapped, posted, races>>

\* ... and closes it, or hands it back to be closed after uds.disable.
CloseOrLeave ==
  /\ main = "close"
  /\ IF Leaving THEN /\ queue' = Append(queue, Task("leave", 0, active, "uds.disable"))
                     /\ UNCHANGED link
                ELSE link' = LinkClosed(active) /\ UNCHANGED queue
  /\ active' = 0 /\ main' = "end"
  /\ UNCHANGED <<transport, core, session, stateVars, uds, jobVars, task, tapped, posted, races>>

EndDisconnect ==
  /\ main = "end"
  /\ busy' = FALSE /\ main' = "show"
  /\ UNCHANGED <<linkVars, stateVars, uds, udsJob, knowledgeJob, task, queue, active, tapped, posted, races>>

ShowDisconnected ==
  /\ main = "show"
  /\ phase' = "disconnected"
  /\ queue' = Append(queue, Task("destroy", 0, 0, "none"))
  /\ main' = "free"
  /\ UNCHANGED <<linkVars, generation, established, policy, retry, stopped,
                 uds, jobVars, task, active, tapped, posted, races>>

\* runJob, which both threads call: after its checks it claims the worker ...
Free == ~busy /\ phase = "ready"

Claim(action) ==
  /\ busy' = TRUE /\ udsJob' = (action \in {"uds.enable", "uds.disable"})
  /\ UNCHANGED <<linkVars, stateVars, uds, knowledgeJob, queue, active, tapped, posted>>

\* ... and hands the job over, for the generation that counts by then.
HandOver(action) ==
  /\ queue' = Append(queue, Task("job", generation, 0, action))
  /\ UNCHANGED <<linkVars, stateVars, uds, jobVars, active, posted>>

\* As the user calls it.
RunJob(action) ==
  /\ Tap("job") /\ Free
  /\ main' = "claim" /\ tapped' = action
  /\ UNCHANGED <<linkVars, stateVars, uds, jobVars, task, queue, active, posted, races>>

ClaimJob ==
  /\ main = "claim"
  /\ Claim(tapped)
  /\ races' = IF busy THEN races \cup {"booked"} ELSE races
  /\ main' = "book"
  /\ UNCHANGED task

BookJob ==
  /\ main = "book"
  /\ HandOver(tapped)
  /\ main' = "free" /\ tapped' = "none"
  /\ UNCHANGED <<task, races>>
-----------------------------------------------------------------------------
(* execute(): one core action of the running task.                         *)

Executing == task.at \in {"initialize", "inventory", "odometer", "job", "disable", "tick", "read"}

\* What an action that was answered leaves of the extended session: 10 03
\* opens it, a read keeps it or finds its time over, and everything else, like
\* every error, returns to the default session.
SessionAfter(action, ok) ==
    CASE action = "uds.enable" /\ ok -> {core}
      [] action \in {"read", "uds.tick"} -> {session, 0}
      [] OTHER -> {0}

\* The core asks, unless it was destroyed or its link cannot be used.
Ask ==
  /\ Executing /\ task.call = "none"
  /\ IF core # 0 /\ IsOpen(link[core])
     THEN /\ link' = [link EXCEPT ![core] = Written(@)]
          /\ task' = [task EXCEPT !.call = "waiting"]
          /\ UNCHANGED session
     ELSE /\ task' = [task EXCEPT !.call = "failed"]
          /\ session' = IF session = core THEN 0 ELSE session
          /\ UNCHANGED link
  /\ UNCHANGED <<transport, core, stateVars, uds, jobVars, otherVars>>

\* The adapter's text reaches the callback thread.
Hear(l) ==
  /\ link[l].air # {} /\ link[l].state = "ready"
  /\ IF link[l].waiting
     THEN \E ok \in BOOLEAN :
            /\ link' = [link EXCEPT ![l] = Accepted(@)]
            /\ task' = [task EXCEPT !.call = IF ok THEN "ok" ELSE "refused", !.heard = Arriving(link[l])]
            /\ session' \in SessionAfter(task.action, ok)
     ELSE link' = [link EXCEPT ![l] = Dropped(@)] /\ UNCHANGED <<session, task>>
  /\ UNCHANGED <<transport, core, stateVars, uds, jobVars, otherVars>>

\* Time is up, a write failed, the link was lost or closed by disconnect().
GiveUp ==
  /\ Executing /\ task.call = "waiting"
  /\ link' = [link EXCEPT ![core] = GivenUp(@)]
  /\ task' = [task EXCEPT !.call = "failed"]
  /\ session' = IF session = core THEN 0 ELSE session
  /\ UNCHANGED <<transport, core, stateVars, uds, jobVars, otherVars>>

\* executeNow after the core returned: its session is shown, and a link that
\* is no longer open ends the task.
Returned == task.call \in {"ok", "refused", "failed"}

Shown == IF core = 0 THEN uds ELSE session = core

Broken == transport # 0 /\ ~IsOpen(link[transport])

\* Which step follows an action that returned; `failed` counts as refused.
Continue(next) == task' = IF Broken THEN Throw ELSE next
-----------------------------------------------------------------------------
(* The worker thread: connecting.                                          *)

Take ==
  /\ task.kind = "idle" /\ queue # <<>>
  /\ task' = Head(queue) /\ queue' = Tail(queue)
  /\ UNCHANGED <<linkVars, stateVars, uds, jobVars, main, active, tapped, posted, races>>

\* The transport is published before the generation is looked at, and
\* disconnect() does it the other way round: one of the two sees the other.
OpenLink ==
  /\ task.kind = "connect" /\ task.at = "start"
  /\ core' = 0 /\ uds' = FALSE
  /\ transport' = task.token
  /\ task' = At("opened")
  /\ UNCHANGED <<link, session, stateVars, jobVars, otherVars>>

CheckOpened ==
  /\ task.at = "opened"
  /\ link' = [link EXCEPT ![task.token] = IF Current THEN ConnectGatt(@) ELSE Closed(@)]
  /\ task' = IF Current THEN At("linking") ELSE At("finally")
  /\ UNCHANGED <<transport, core, session, stateVars, uds, jobVars, otherVars>>

\* BleTransport.connect returns, or throws: lost, closed or out of time.
Linked ==
  /\ task.at = "linking"
  /\ \/ IsOpen(link[task.token]) /\ task' = At("linked")
     \/ ~IsOpen(link[task.token]) /\ task' = Throw
  /\ UNCHANGED <<linkVars, stateVars, uds, jobVars, otherVars>>

CreateCore ==
  /\ task.at = "linked"
  /\ IF Current THEN core' = task.token /\ uds' = FALSE /\ task' = Call("initialize", "initialize")
                ELSE UNCHANGED <<core, uds>> /\ task' = At("finally")
  /\ UNCHANGED <<transport, link, session, stateVars, jobVars, otherVars>>

Initialized ==
  /\ task.at = "initialize" /\ Returned
  /\ uds' = Shown
  /\ Continue(IF ~Current THEN At("finally")
              ELSE IF task.call = "ok" THEN Call("inventory", "inventory") ELSE Throw)
  /\ UNCHANGED <<linkVars, stateVars, jobVars, otherVars>>

\* The ECU survey is handed over behind this task; the availability check
\* follows it for a new vehicle.  An odometer is read where there is one.
Inventoried ==
  /\ task.at = "inventory" /\ Returned
  /\ uds' = Shown
  /\ \E odometer \in BOOLEAN, survey \in {FALSE, AutoSurvey} :
       /\ Continue(IF ~Current THEN At("finally")
                   ELSE IF odometer THEN Call("odometer", "read") ELSE At("ready"))
       /\ IF Current /\ ~Broken /\ survey /\ task.call = "ok"
          THEN queue' = Append(queue, Task("survey", 0, 0, "knowledge"))
          ELSE UNCHANGED queue
  /\ UNCHANGED <<linkVars, stateVars, jobVars, main, active, tapped, posted, races>>

OdometerRead ==
  /\ task.at = "odometer" /\ Returned
  /\ uds' = Shown
  /\ Continue(At("ready"))
  /\ UNCHANGED <<linkVars, stateVars, jobVars, otherVars>>

\* The end of initialize(): the generation is not looked at again.
SetReady ==
  /\ task.at = "ready"
  /\ phase' = "ready" /\ task' = At("connected")
  /\ UNCHANGED <<linkVars, generation, established, policy, retry, stopped, uds, jobVars, otherVars>>

CheckConnected ==
  /\ task.at = "connected"
  /\ task' = IF Current /\ phase = "ready" THEN At("establish") ELSE At("finally")
  /\ UNCHANGED <<linkVars, stateVars, uds, jobVars, otherVars>>

\* connected(address).
Establish ==
  /\ task.at = "establish"
  /\ established' = TRUE
  /\ task' = At("settle")
  /\ UNCHANGED <<linkVars, generation, phase, policy, retry, stopped, uds, jobVars, otherVars>>

Settle ==
  /\ task.at = "settle"
  /\ policy' = Settled(policy)
  /\ races' = IF stopped THEN races \cup {"settled"} ELSE races
  /\ task' = At("finally")
  /\ UNCHANGED <<linkVars, generation, phase, established, retry, stopped, uds, jobVars,
                 queue, main, active, tapped, posted>>
-----------------------------------------------------------------------------
(* The worker thread: jobs, polls and what disconnect() hands back.        *)

\* runJob as the survey calls it on the worker.  What the main thread does
\* between these steps may be its own runJob, or a disconnect and a connect.
CheckSurvey ==
  /\ task.kind = "survey" /\ task.at = "start"
  /\ task' = IF Free THEN At("claim") ELSE Idle
  /\ UNCHANGED <<linkVars, stateVars, uds, jobVars, otherVars>>

ClaimSurvey ==
  /\ task.at = "claim"
  /\ Claim("knowledge")
  /\ races' = IF busy THEN races \cup {"booked"} ELSE races
  /\ task' = [task EXCEPT !.at = "book", !.token = generation]
  /\ UNCHANGED main

BookSurvey ==
  /\ task.at = "book"
  /\ HandOver("knowledge")
  /\ races' = IF Current THEN races ELSE races \cup {"booked"}
  /\ task' = Idle
  /\ UNCHANGED <<main, tapped>>

StartJob ==
  /\ task.kind = "job" /\ task.at = "start"
  /\ task' = IF ~Current THEN At("finally")
             ELSE IF task.action = "knowledge" THEN [task EXCEPT !.at = "disable"]
             ELSE [task EXCEPT !.at = "job"]
  /\ UNCHANGED <<linkVars, stateVars, uds, jobVars, otherVars>>

\* A Knowledge job leaves the extended session before it starts; from here on
\* disconnect() cuts the link to stop it.
StartKnowledge ==
  /\ task.kind = "job" /\ task.at = "disable" /\ Returned
  /\ uds' = Shown
  /\ Continue([task EXCEPT !.at = "job", !.call = "none"])
  /\ knowledgeJob' = ~Broken
  /\ UNCHANGED <<linkVars, stateVars, busy, udsJob, otherVars>>

JobDone ==
  /\ task.at = "job" /\ Returned
  /\ uds' = Shown
  /\ Continue(At("finally"))
  /\ UNCHANGED <<linkVars, stateVars, jobVars, otherVars>>

\* poll(), which a timer and its own chain keep calling between the tasks.
PollLink ==
  /\ task.kind = "idle" /\ ~busy /\ phase = "ready" /\ core # 0 /\ Broken
  /\ task' = [Task("poll", 0, 0, "none") EXCEPT !.at = "lost"]
  /\ UNCHANGED <<linkVars, stateVars, uds, jobVars, otherVars>>

\* fail(generation, ...): for the generation that counts by then.
PollLost ==
  /\ task.at = "lost"
  /\ task' = [task EXCEPT !.token = generation, !.at = "fail"]
  /\ UNCHANGED <<linkVars, stateVars, uds, jobVars, otherVars>>

PollSignals ==
  /\ task.kind = "idle" /\ ~busy /\ phase = "ready" /\ core # 0 /\ ~Broken
  /\ task' = [Task("poll", generation, 0, IF uds THEN "uds.tick" ELSE "read")
                EXCEPT !.at = IF uds THEN "tick" ELSE "read"]
  /\ UNCHANGED <<linkVars, stateVars, uds, jobVars, otherVars>>

Ticked ==
  /\ task.at = "tick" /\ Returned
  /\ uds' = Shown
  /\ \/ Continue(Call("read", "read"))
     \/ Continue(At("finally"))
  /\ UNCHANGED <<linkVars, stateVars, jobVars, otherVars>>

PollRead ==
  /\ task.at = "read" /\ Returned
  /\ uds' = Shown
  /\ Continue(At("finally"))
  /\ UNCHANGED <<linkVars, stateVars, jobVars, otherVars>>

\* disconnect()'s task with an extended session: uds.disable where a core is
\* left, then the link is closed whatever came of it.
Leave ==
  /\ task.kind = "leave"
  /\ \/ /\ task.at = "start" /\ core # 0
        /\ task' = [task EXCEPT !.at = "disable"]
        /\ UNCHANGED <<link, uds>>
     \/ /\ (task.at = "start" /\ core = 0) \/ (task.at = "disable" /\ Returned)
        /\ uds' = IF task.at = "disable" THEN Shown ELSE uds
        /\ link' = LinkClosed(task.link)
        /\ task' = Idle
  /\ UNCHANGED <<transport, core, session, stateVars, jobVars, otherVars>>

\* destroyCore.
DestroyCore ==
  /\ task.kind = "destroy"
  /\ core' = 0 /\ uds' = FALSE
  /\ task' = Idle
  /\ UNCHANGED <<transport, link, session, stateVars, jobVars, otherVars>>
-----------------------------------------------------------------------------
(* The worker thread: fail(token, ...) and the finally blocks.             *)

Fail ==
  /\ task.at = "fail"
  /\ IF Current THEN /\ task' = [task EXCEPT !.at = "failing", !.was = established]
                     /\ established' = FALSE
                ELSE task' = At("finally") /\ UNCHANGED established
  /\ UNCHANGED <<linkVars, generation, phase, policy, retry, stopped, uds, jobVars, otherVars>>

FailLink ==
  /\ task.at = "failing"
  /\ link' = LinkClosed(transport) /\ transport' = 0
  /\ core' = 0 /\ uds' = FALSE
  /\ task' = At("error")
  /\ UNCHANGED <<session, stateVars, jobVars, otherVars>>

FailPhase ==
  /\ task.at = "error"
  /\ phase' = "error" /\ task' = At("policy")
  /\ UNCHANGED <<linkVars, generation, established, policy, retry, stopped, uds, jobVars, otherVars>>

FailPolicy ==
  /\ task.at = "policy"
  /\ policy' = IF task.was THEN Lost(policy) ELSE Failed(policy)
  /\ task' = [task EXCEPT !.was = FALSE,
                !.at = IF IF task.was THEN RetriesAfterLoss(policy) ELSE RetriesAfterFailure(policy)
                       THEN "schedule" ELSE "finally"]
  /\ UNCHANGED <<linkVars, generation, phase, established, retry, stopped, uds, jobVars, otherVars>>

FailSchedule ==
  /\ task.at = "schedule"
  /\ \/ retry' = TRUE /\ UNCHANGED policy
     \/ policy' = Block(policy) /\ UNCHANGED retry
  /\ task' = At("finally")
  /\ UNCHANGED <<linkVars, generation, phase, established, stopped, uds, jobVars, otherVars>>

\* A defect: only a job that succeeded frees the worker.
FinallyOnSuccess ==
  /\ task.at = "finally"
  /\ IF task.kind = "job"
     THEN udsJob' = FALSE /\ knowledgeJob' = FALSE
     ELSE UNCHANGED <<udsJob, knowledgeJob>>
  /\ task' = IF Current /\ task.kind \in {"connect", "job"} /\ task.call = "ok"
             THEN At("free") ELSE Idle
  /\ UNCHANGED <<linkVars, stateVars, uds, busy, otherVars>>

\* A connection or a job looks whether it still counts ...
Finally ==
  /\ task.at = "finally"
  /\ IF task.kind = "job"
     THEN udsJob' = FALSE /\ knowledgeJob' = FALSE
     ELSE UNCHANGED <<udsJob, knowledgeJob>>
  /\ task' = IF Current /\ task.kind \in {"connect", "job"} THEN At("free") ELSE Idle
  /\ UNCHANGED <<linkVars, stateVars, uds, busy, otherVars>>

\* ... and then frees the worker.
FreeWorker ==
  /\ task.at = "free"
  /\ busy' = FALSE
  /\ races' = IF busy /\ ~Current THEN races \cup {"freed"} ELSE races
  /\ task' = Idle
  /\ UNCHANGED <<linkVars, stateVars, uds, udsJob, knowledgeJob,
                 queue, main, active, tapped, posted>>
-----------------------------------------------------------------------------
(* The adapter.                                                            *)

GattReady(l) ==
  /\ link[l].state = "connecting"
  /\ link' = [link EXCEPT ![l] = Subscribed(@)]
  /\ UNCHANGED <<transport, core, session, stateVars, uds, jobVars, task, otherVars>>

GattLost(l) ==
  /\ link[l].state \in {"connecting", "ready"}
  /\ link' = [link EXCEPT ![l] = LinkLost(@)]
  /\ UNCHANGED <<transport, core, session, stateVars, uds, jobVars, task, otherVars>>

\* What the main thread does to finish a disconnect() or a runJob().
Goes == Release \/ CloseOrLeave \/ EndDisconnect \/ ShowDisconnected \/ ClaimJob \/ BookJob

Main ==
  \/ UserConnect \/ AutoStart \/ RetryTick \/ ResumeIfBlocked
  \/ AutoConnectOn \/ AutoConnectOff
  \/ Disconnect \/ (\E action \in Jobs : RunJob(action)) \/ Goes

\* What the worker does without waiting for anybody.
Work ==
  \/ Ask \/ GiveUp \/ OpenLink \/ CheckOpened \/ Linked \/ CreateCore
  \/ Initialized \/ Inventoried \/ OdometerRead \/ SetReady \/ CheckConnected \/ Establish \/ Settle
  \/ CheckSurvey \/ ClaimSurvey \/ BookSurvey \/ StartJob \/ StartKnowledge \/ JobDone
  \/ PollLost \/ Ticked \/ PollRead \/ Leave \/ DestroyCore
  \/ Fail \/ FailLink \/ FailPhase \/ FailPolicy \/ FailSchedule
  \/ Finally \/ FreeWorker

Poll == PollLink \/ PollSignals

Adapter == \E l \in Links : Hear(l) \/ GattReady(l) \/ GattLost(l)

Next == Main \/ Take \/ Work \/ Poll \/ Adapter

Spec == Init /\ [][Next]_vars

\* The worker goes on with its task (every exchange ends by its timeout), its
\* queue is served in order although polls come in between, the poll's timer
\* fires for ever, and the main thread finishes what it began.
FairSpec ==
  /\ Spec
  /\ WF_vars(Work) /\ SF_vars(Take) /\ SF_vars(PollLink)
  /\ WF_vars(Goes)
-----------------------------------------------------------------------------
TypeOK ==
  /\ generation \in Generations
  /\ phase \in {"idle", "connecting", "ready", "error", "disconnected"}
  /\ policy \in Policies
  /\ {busy, established, retry, uds, udsJob, knowledgeJob, stopped} \subseteq BOOLEAN
  /\ transport \in Generations /\ core \in Generations /\ session \in Generations
  /\ link \in [Links -> BleLinks]
  /\ active \in Generations
  /\ main \in {"free", "claim", "book", "release", "close", "end", "show"}
  /\ tapped \in Jobs \cup {"none"} /\ posted \in 0..MaxPosted
  /\ races \subseteq {"booked", "freed", "settled", "started"}

\* What exchange() returns is the adapter's answer to the command it sent,
\* although a command that timed out may still be answered: BleTransport
\* closes the link instead of letting the next command have it.
AnswerIsForOwnExchange == task.heard # "old"

\* REQ-020.4: once the user disconnected, no connection is begun until the
\* user connects or switches the automatic connection on again.  A failure
\* the worker is in the middle of reporting does not begin one either.  There
\* are two ways around it: a connection that is completed after the stop
\* revives the policy, and so does the runnable of an app start or of the
\* switch that was posted before the stop and runs after it.
StoppedStaysStopped ==
  [][stopped /\ phase # "connecting" /\ phase' = "connecting"
       => ~stopped' \/ races' \cap {"settled", "started"} # {}]_vars

\* REQ-027.4: disconnect() and fail() never close a working link on which an
\* extended session is open before 10 01 was tried, wherever the tap falls
\* between the job's answer and its display, unless two threads have booked
\* jobs one over the other (in either order), or the worker was freed or
\* booked on behalf of a connection that had been given up meanwhile.
ExtendedSessionIsLeft ==
  [][\A l \in Links :
        IsOpen(link[l]) /\ link'[l].state = "closed" /\ session = l
          => session' # l \/ races \cap {"booked", "freed"} # {}]_vars

\* A link the adapter dropped is closed in the end: whichever task finds it,
\* the worker is free again, and the poll notices what no task did.  Only a
\* worker freed under a connection lets a second one begin over the first,
\* which then forgets the first one's link.
LostLinkIsClosed ==
  (\E l \in Links : link[l].state = "lost") ~>
    ((\A l \in Links : link[l].state # "lost") \/ "freed" \in races)

\* REQ-022.1: without a session no job can be started.  When both threads
\* have come to rest and the display says ready, a core is there for the job.
ReadyHasASession ==
  task.kind = "idle" /\ queue = <<>> /\ main = "free" /\ phase = "ready" => core # 0
=============================================================================
