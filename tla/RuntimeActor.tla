---------------------------- MODULE RuntimeActor ----------------------------
(***************************************************************************)
(* The single owner of the runtime state (runtime_actor.rs): one task that *)
(* drains a bounded command channel, and any number of cloned clients that *)
(* put commands into it and await a one-shot reply.                        *)
(*                                                                         *)
(* A member of Clients is one call in progress at a time; concurrent calls *)
(* through clones of one client are different members.  `send().await`     *)
(* first waits for room ("sending"), then for the reply ("waiting").       *)
(* Dropping the future at either point is Cancel: a command that is        *)
(* already queued stays queued and only its reply is lost.                 *)
(***************************************************************************)
EXTENDS RuntimeReducer, Sequences, FiniteSets

CONSTANTS Clients,    \* the calls that may be in progress at the same time
          Nobody,     \* stands for a reply receiver that has been dropped
          Capacity,   \* CHANNEL_CAPACITY, 32 in the code
          MaxSequence,\* u64::MAX in the code
          Events      \* the runtime events the clients submit

ASSUME ActorAssumption ==
  /\ Nobody \notin Clients
  /\ Capacity \in Nat \ {0}
  /\ MaxSequence \in Nat
  /\ Events \subseteq RuntimeEvent

VARIABLES state,    \* the RuntimeState the task owns
          sequence, \* transition_sequence
          queue,    \* commands in the channel, oldest first
          call,     \* what each client is doing
          running   \* FALSE once `run` has returned

vars == <<state, sequence, queue, call, running>>
-----------------------------------------------------------------------------
NoEvent == Lifecycle("none")
Command == [op : {"Event"}, event : Events] \cup [op : {"Snapshot", "Shutdown"}, event : {NoEvent}]
Entry == [command : Command, client : Clients \cup {Nobody}]

NoCommand == [op |-> "none", event |-> NoEvent]
Error == {"Transition", "Stopped", "SequenceOverflow", "QueueFull", "Closed"}

\* A reply is a RuntimeTransition or a RuntimeSnapshot (ok), the unit result
\* of a shutdown (ok, with the state it left), or an error.
OkReply(seq, from, to) ==
  [ok |-> TRUE, error |-> "none", sequence |-> seq, from |-> from, to |-> to]
ErrReply(error) ==
  [ok |-> FALSE, error |-> error, sequence |-> 0, from |-> DefaultState, to |-> DefaultState]
NoReply == ErrReply("none")
Reply == [ok : BOOLEAN, error : Error \cup {"none"}, sequence : Nat,
          from : RuntimeState, to : RuntimeState]

CallStatus == {"idle", "sending", "waiting", "answered", "dropped"}
CallType ==
  [status : CallStatus, command : Command, reply : Reply] \cup
  [status : CallStatus \ {"sending"}, command : {NoCommand}, reply : Reply]
Call(status, command, reply) == [status |-> status, command |-> command, reply |-> reply]
IdleCall == Call("idle", NoCommand, NoReply)
-----------------------------------------------------------------------------
Init ==
  /\ state = DefaultState
  /\ sequence = 0
  /\ queue = <<>>
  /\ call = [c \in Clients |-> IdleCall]
  /\ running = TRUE

(***************************************************************************)
(* The task's own functions.  An outcome is the state and sequence they    *)
(* leave and the error, "none" for success.                                *)
(***************************************************************************)
Outcome(s, n, error) == [state |-> s, sequence |-> n, error |-> error]

ApplyWrapping(s, n, e) ==
  IF ~Legal(s, e) THEN Outcome(s, n, "Transition")
  ELSE Outcome(Reduce(s, e), (n + 1) % (MaxSequence + 1), "none")
Apply(s, n, e) ==
  IF s.phase = "Stopped" THEN Outcome(s, n, "Stopped")
  ELSE IF ~Legal(s, e) THEN Outcome(s, n, "Transition")
  ELSE IF n = MaxSequence THEN Outcome(s, n, "SequenceOverflow")
  ELSE Outcome(Reduce(s, e), n + 1, "none")

Shutdown(s, n) ==
  LET requested == IF s.phase \in {"Stopping", "Stopped"}
                   THEN Outcome(s, n, "none")
                   ELSE Apply(s, n, Lifecycle("ShutdownRequested"))
  IN  IF requested.error # "none" THEN requested
      ELSE Apply(requested.state, requested.sequence, Lifecycle("ShutdownCompleted"))
-----------------------------------------------------------------------------
(***************************************************************************)
(* Clients.                                                                *)
(***************************************************************************)
\* RuntimeClient::send, snapshot and shutdown: the future is first polled.
Begin(c, command) ==
  /\ call[c].status \in {"idle", "answered"}
  /\ call' = [call EXCEPT ![c] = Call("sending", command, NoReply)]
  /\ UNCHANGED <<state, sequence, queue, running>>

\* There is room: the command enters the channel and the reply is awaited.
Enqueue(c) ==
  /\ call[c].status = "sending"
  /\ Len(queue) < Capacity
  /\ queue' = Append(queue, [command |-> call[c].command, client |-> c])
  /\ call' = [call EXCEPT ![c].status = "waiting"]
  /\ UNCHANGED <<state, sequence, running>>

\* RuntimeClient::try_send with room in the channel.
TrySend(c, e) ==
  /\ call[c].status \in {"idle", "answered"}
  /\ Len(queue) < Capacity
  /\ LET command == [op |-> "Event", event |-> e]
     IN  /\ queue' = Append(queue, [command |-> command, client |-> c])
         /\ call' = [call EXCEPT ![c] = Call("waiting", command, NoReply)]
  /\ UNCHANGED <<state, sequence, running>>

\* try_send when every slot is taken or promised to a waiting sender.
TrySendFull(c, e) ==
  /\ call[c].status \in {"idle", "answered"}
  /\ Len(queue) + Cardinality({d \in Clients : call[d].status = "sending"}) >= Capacity
  /\ call' = [call EXCEPT ![c] = Call("answered", [op |-> "Event", event |-> e],
                                      ErrReply("QueueFull"))]
  /\ UNCHANGED <<state, sequence, queue, running>>

\* The future, or the receiver try_send returned, is dropped.  The receiver
\* half of a queued command goes with it; the command does not.  The mutant
\* leaves a receiver that a later call of the client would pick up.
ForgetNothing(q, c) == q
Forget(q, c) ==
  [i \in 1 .. Len(q) |-> IF q[i].client = c THEN [q[i] EXCEPT !.client = Nobody] ELSE q[i]]

Cancel(c) ==
  /\ call[c].status \in {"sending", "waiting"}
  /\ queue' = Forget(queue, c)
  /\ call' = [call EXCEPT ![c] = IdleCall]
  /\ UNCHANGED <<state, sequence, running>>

\* The client itself, one of the channel's senders, is dropped.
DropClient(c) ==
  /\ call[c].status \in {"idle", "answered"}
  /\ call' = [call EXCEPT ![c] = Call("dropped", NoCommand, NoReply)]
  /\ UNCHANGED <<state, sequence, queue, running>>
-----------------------------------------------------------------------------
(***************************************************************************)
(* The task: one command per turn of the loop, its reply included.         *)
(***************************************************************************)
\* `let _ = reply.send(..)`: lost when nobody holds the receiver any more.
Answer(c, reply) ==
  call' = IF c \in Clients
          THEN [call EXCEPT ![c] = [@ EXCEPT !.status = "answered", !.reply = reply]]
          ELSE call

Turn(op) ==
  /\ running
  /\ queue # <<>>
  /\ Head(queue).command.op = op
  /\ queue' = Tail(queue)
  /\ UNCHANGED running

Serve(outcome) ==
  /\ state' = outcome.state
  /\ sequence' = outcome.sequence
  /\ Answer(Head(queue).client,
            IF outcome.error = "none" THEN OkReply(outcome.sequence, state, outcome.state)
                                      ELSE ErrReply(outcome.error))

ServeEvent ==
  Turn("Event") /\ Serve(Apply(state, sequence, Head(queue).command.event))

\* Mutant: a snapshot that is never answered.
ServeSnapshotSilently == Turn("Snapshot") /\ UNCHANGED <<state, sequence, call>>

ServeSnapshot ==
  /\ Turn("Snapshot")
  /\ Answer(Head(queue).client, OkReply(sequence, state, state))
  /\ UNCHANGED <<state, sequence>>

ServeShutdown ==
  Turn("Shutdown") /\ Serve(Shutdown(state, sequence))

\* Mutant: the task outlives its clients unless it was shut down.
ExitOnlyWhenStopped ==
  /\ running
  /\ queue = <<>>
  /\ state.phase = "Stopped"
  /\ running' = FALSE
  /\ UNCHANGED <<state, sequence, queue, call>>

\* recv() returns None: every sender is gone and the channel is drained.
Exit ==
  /\ running
  /\ queue = <<>>
  /\ \A c \in Clients : call[c].status = "dropped"
  /\ running' = FALSE
  /\ UNCHANGED <<state, sequence, queue, call>>

Serving == ServeEvent \/ ServeSnapshot \/ ServeShutdown

Next ==
  \/ \E c \in Clients :
       \/ \E command \in Command : Begin(c, command)
       \/ Enqueue(c)
       \/ \E e \in Events : TrySend(c, e) \/ TrySendFull(c, e)
       \/ Cancel(c)
       \/ DropClient(c)
  \/ Serving
  \/ Exit

Spec == Init /\ [][Next]_vars

\* The task is polled whenever a command is ready, and the channel hands out
\* room to waiting senders in the order they asked for it.
Fairness == WF_vars(Serving) /\ WF_vars(Exit) /\ \A c \in Clients : SF_vars(Enqueue(c))
FairSpec == Spec /\ Fairness
-----------------------------------------------------------------------------
\* The types, and the bounds of the channel and of the sequence counter.
TypeOK ==
  /\ state \in RuntimeState
  /\ sequence \in 0 .. MaxSequence
  /\ queue \in Seq(Entry)
  /\ Len(queue) <= Capacity
  /\ call \in [Clients -> CallType]
  /\ running \in BOOLEAN

\* An operation is in progress only in a ready runtime, and no sequence of
\* events makes the activity Write (transition never returns it): a fatal
\* error, a shutdown or a discovery can never leave an activity running.
ActivityOnlyWhenReady ==
  /\ state.activity # "Idle" => state.phase = "Ready"
  /\ state.activity # "Write"

\* The transition clients c holds as an answer, if it is one.
Transitioned(c) ==
  /\ call[c].status = "answered"
  /\ call[c].command.op = "Event"
  /\ call[c].reply.ok

\* The evidence the actor hands out forms one history ("consumers never infer
\* a prior state from local shadow state"): no two callers get the same
\* sequence number, a transition starts where the one numbered before it
\* ended, and the newest one ends in the state the actor is in.
RepliesFormOneHistory ==
  \A c, d \in Clients : Transitioned(c) /\ Transitioned(d) =>
    /\ call[c].reply.sequence = call[d].reply.sequence => c = d
    /\ call[d].reply.sequence = call[c].reply.sequence + 1 =>
         call[d].reply.from = call[c].reply.to
    /\ call[c].reply.sequence = sequence => call[c].reply.to = state

\* A caller's answer is about the command it submitted, never about one it
\* cancelled before: the transition it got is the reducer's step for its event.
AnswerIsForOwnCommand ==
  \A c \in Clients : Transitioned(c) =>
    /\ Legal(call[c].reply.from, call[c].command.event)
    /\ call[c].reply.to = Reduce(call[c].reply.from, call[c].command.event)

\* phase/stopped is final: nothing a client still has queued changes the
\* state or is counted once the runtime has stopped.
StoppedIsFinal ==
  [][state.phase = "Stopped" => state' = state /\ sequence' = sequence]_vars

\* Every change of the state is counted, so a consumer that sees the same
\* sequence number twice has seen the same state; a refused command, an
\* overflowing one included, changes nothing.
ChangesAreCounted ==
  [][sequence' = sequence => state' = state]_vars

Promised == INSTANCE RuntimeLifecycle WITH phase <- state.phase, activity <- state.activity

\* The actor implements the lifecycle: whatever the clients submit, in
\* whatever order the channel delivers it, the phase and the activity move
\* only along it.
ImplementsLifecycle == Promised!Spec

\* Every call that is awaited and not dropped is answered.
CallsAreAnswered ==
  \A c \in Clients : call[c].status \in {"sending", "waiting"}
                       ~> call[c].status \notin {"sending", "waiting"}

\* The task ends once its clients are gone.
TaskEnds == (\A c \in Clients : call[c].status = "dropped") ~> ~running
=============================================================================
