------------------------- MODULE RuntimeActorProofs -------------------------
(***************************************************************************)
(* Theorems about RuntimeActor for every set of clients, every channel     *)
(* capacity, every sequence limit and every set of submitted events.       *)
(***************************************************************************)
EXTENDS RuntimeActor, SequenceTheorems, TLAPS

-----------------------------------------------------------------------------
(***************************************************************************)
(* The reducer.                                                            *)
(***************************************************************************)
\* The default state of the runtime is a state.
LEMMA DefaultStateType == DefaultState \in RuntimeState
BY DEF DefaultState, RuntimeState, DefaultContext, RuntimeContext, Dimension, ContextValue,
       ContextDomain, Phase, Activity

\* A context update (apply_context) keeps the context well formed.
LEMMA ApplyContextType ==
  ASSUME NEW s \in RuntimeState, NEW e \in ContextEvent
  PROVE  ApplyContext(s, e) \in RuntimeState
<1>1. /\ e.dim \in Dimension
      /\ e.value \in ContextDomain[e.dim]
      /\ e.value \in ContextValue
  BY DEF ContextEvent
<1>2. [s.context EXCEPT ![e.dim] = e.value] \in RuntimeContext
  BY <1>1 DEF RuntimeState, RuntimeContext
<1> QED
  BY <1>2 DEF ApplyContext, RuntimeState

\* Every event of a lifecycle kind has that kind and no payload.
LEMMA LifecycleEventKind ==
  ASSUME NEW e \in LifecycleEvent
  PROVE  e.kind \in LifecycleKind
BY DEF LifecycleEvent, Lifecycle

\* `transition` returns a state for every event it accepts.
LEMMA ReduceType ==
  ASSUME NEW s \in RuntimeState, NEW e \in RuntimeEvent
  PROVE  Reduce(s, e) \in RuntimeState
<1>1. CASE e \in ContextEvent
  <2>1. e.kind = "ContextUpdated"
    BY <1>1 DEF ContextEvent
  <2> QED
    BY <2>1, <1>1, ApplyContextType DEF Reduce
<1>2. CASE e \in LifecycleEvent
  <2>1. e.kind \in LifecycleKind
    BY <1>2, LifecycleEventKind
  <2>2. \A p \in Phase, a \in Activity : StateAt(s, p, a) \in RuntimeState
    BY DEF StateAt, RuntimeState
  <2> QED
    BY <2>1, <2>2 DEF Reduce, LifecycleKind, Faulted, Phase, Activity
<1> QED
  BY <1>1, <1>2 DEF RuntimeEvent

\* The part of the lifecycle a single state shows.
Orderly(s) ==
  /\ s.activity # "Idle" => s.phase = "Ready"
  /\ s.activity # "Write"

\* An accepted event keeps activities inside a ready runtime.
LEMMA ReduceOrderly ==
  ASSUME NEW s \in RuntimeState, NEW e \in RuntimeEvent, Orderly(s)
  PROVE  Orderly(Reduce(s, e))
<1>1. CASE e \in ContextEvent
  <2>1. e.kind = "ContextUpdated"
    BY <1>1 DEF ContextEvent
  <2> QED
    BY <2>1 DEF Reduce, ApplyContext, Orderly, RuntimeState
<1>2. CASE e \in LifecycleEvent
  <2>1. e.kind \in LifecycleKind
    BY <1>2, LifecycleEventKind
  <2> QED
    BY <2>1 DEF Reduce, LifecycleKind, Faulted, StateAt, Orderly, RuntimeState
<1> QED
  BY <1>1, <1>2 DEF RuntimeEvent

-----------------------------------------------------------------------------
(***************************************************************************)
(* The task's functions.                                                   *)
(***************************************************************************)
\* An outcome of the expected shape.
OutcomeType == [state : RuntimeState, sequence : 0 .. MaxSequence, error : Error \cup {"none"}]

\* apply: either the event is accepted, counted and reduced, or nothing changes.
LEMMA ApplyOutcome ==
  ASSUME NEW s \in RuntimeState, NEW n \in 0 .. MaxSequence, NEW e \in RuntimeEvent
  PROVE  /\ Apply(s, n, e) \in OutcomeType
         /\ Apply(s, n, e).error # "none" => Apply(s, n, e).state = s /\ Apply(s, n, e).sequence = n
         /\ Apply(s, n, e).error = "none" =>
              /\ s.phase # "Stopped"
              /\ Legal(s, e)
              /\ Apply(s, n, e).state = Reduce(s, e)
              /\ Apply(s, n, e).sequence = n + 1
BY ActorAssumption, ReduceType DEF Apply, Outcome, OutcomeType, Error

\* The two events a shutdown is made of are events of the reducer.
LEMMA ShutdownEvents ==
  /\ Lifecycle("ShutdownRequested") \in RuntimeEvent
  /\ Lifecycle("ShutdownCompleted") \in RuntimeEvent
BY DEF RuntimeEvent, LifecycleEvent, LifecycleKind

\* shutdown: the state changes only with the sequence, never once stopped, and a
\* successful one ends in phase/stopped.
LEMMA ShutdownOutcome ==
  ASSUME NEW s \in RuntimeState, NEW n \in 0 .. MaxSequence
  PROVE  /\ Shutdown(s, n) \in OutcomeType
         /\ Shutdown(s, n).sequence >= n
         /\ Shutdown(s, n).sequence = n => Shutdown(s, n).state = s
         /\ s.phase = "Stopped" => Shutdown(s, n).error = "Stopped" /\ Shutdown(s, n).sequence = n
<1> DEFINE req == Lifecycle("ShutdownRequested")
           fin == Lifecycle("ShutdownCompleted")
           first == IF s.phase \in {"Stopping", "Stopped"} THEN Outcome(s, n, "none")
                                                          ELSE Apply(s, n, req)
<1>1. req \in RuntimeEvent /\ fin \in RuntimeEvent
  BY ShutdownEvents
<1>2. /\ first \in OutcomeType
      /\ first.sequence >= n
      /\ first.sequence = n => first.state = s
      /\ s.phase = "Stopped" => first.error = "none" /\ first.state = s /\ first.sequence = n
  <2> HIDE DEF req
  <2>1. CASE s.phase \in {"Stopping", "Stopped"}
    BY <2>1, ActorAssumption DEF Outcome, OutcomeType
  <2>2. CASE s.phase \notin {"Stopping", "Stopped"}
    <3>1. first = Apply(s, n, req)
      BY <2>2
    <3>2. Apply(s, n, req).sequence \in {n, n + 1}
      BY <1>1, ApplyOutcome DEF OutcomeType
    <3>3. /\ Apply(s, n, req) \in OutcomeType
          /\ Apply(s, n, req).sequence = n => Apply(s, n, req).state = s
      BY <1>1, ApplyOutcome, ActorAssumption
    <3>4. Apply(s, n, req).sequence >= n
      BY <3>2
    <3> QED
      BY <2>2, <3>1, <3>3, <3>4
  <2> QED
    BY <2>1, <2>2
<1>3. Shutdown(s, n) = IF first.error # "none" THEN first
                       ELSE Apply(first.state, first.sequence, fin)
  BY DEF Shutdown
<1> HIDE DEF first, fin
<1>4. first.error = "none" =>
        LET last == Apply(first.state, first.sequence, fin)
        IN  /\ last \in OutcomeType
            /\ last.sequence \in {first.sequence, first.sequence + 1}
            /\ last.error # "none" => last.state = first.state /\ last.sequence = first.sequence
            /\ last.error = "none" => last.sequence = first.sequence + 1
            /\ first.state.phase = "Stopped" => last.error = "Stopped"
  <2> SUFFICES ASSUME first.error = "none"
               PROVE  LET last == Apply(first.state, first.sequence, fin)
                      IN  /\ last \in OutcomeType
                          /\ last.sequence \in {first.sequence, first.sequence + 1}
                          /\ last.error # "none" => /\ last.state = first.state
                                                    /\ last.sequence = first.sequence
                          /\ last.error = "none" => last.sequence = first.sequence + 1
                          /\ first.state.phase = "Stopped" => last.error = "Stopped"
    OBVIOUS
  <2>1. first.state \in RuntimeState /\ first.sequence \in 0 .. MaxSequence
    BY <1>2 DEF OutcomeType
  <2>2. first.state.phase = "Stopped" =>
          Apply(first.state, first.sequence, fin).error = "Stopped"
    BY DEF Apply, Outcome
  <2> QED
    BY <1>1, <2>1, <2>2, ApplyOutcome
<1> QED
  BY <1>2, <1>3, <1>4, ActorAssumption DEF OutcomeType

\* shutdown moves an idle runtime to phase/stopping or phase/stopped, or nothing.
LEMMA ShutdownMove ==
  ASSUME NEW s \in RuntimeState, NEW n \in 0 .. MaxSequence
  PROVE  \/ Shutdown(s, n).state = s
         \/ /\ s.phase # "Stopped"
            /\ s.activity = "Idle"
            /\ Shutdown(s, n).state.phase \in {"Stopping", "Stopped"}
            /\ Shutdown(s, n).state.activity = "Idle"
<1> DEFINE req == Lifecycle("ShutdownRequested")
           fin == Lifecycle("ShutdownCompleted")
<1>1. ASSUME NEW u \in RuntimeState, NEW m \in 0 .. MaxSequence
      PROVE  \/ Apply(u, m, fin).state = u
             \/ /\ At(u, "Stopping", "Idle")
                /\ Apply(u, m, fin).state = StateAt(u, "Stopped", "Idle")
  BY <1>1 DEF Apply, Outcome, Legal, Reduce, Lifecycle
<1>2. ASSUME NEW u \in RuntimeState, NEW m \in 0 .. MaxSequence
      PROVE  \/ Apply(u, m, req).state = u
             \/ /\ ShutdownAllowed(u)
                /\ Apply(u, m, req).state = StateAt(u, "Stopping", "Idle")
  BY <1>2 DEF Apply, Outcome, Legal, Reduce, Lifecycle
<1>3. \A u \in RuntimeState, p \in Phase, a \in Activity :
        /\ StateAt(u, p, a) \in RuntimeState
        /\ StateAt(u, p, a).phase = p
        /\ StateAt(u, p, a).activity = a
  BY DEF StateAt, RuntimeState
<1>4. \A u \in RuntimeState, m \in 0 .. MaxSequence :
        Apply(u, m, req).state \in RuntimeState /\ Apply(u, m, req).sequence \in 0 .. MaxSequence
  BY ShutdownEvents, ApplyOutcome DEF OutcomeType
<1>5. CASE s.phase \in {"Stopping", "Stopped"}
  <2>1. Shutdown(s, n) = Apply(s, n, fin)
    BY <1>5 DEF Shutdown, Outcome
  <2> QED
    BY <1>1, <1>3, <2>1 DEF At, Phase, Activity
<1>6. CASE s.phase \notin {"Stopping", "Stopped"}
  <2> DEFINE r == Apply(s, n, req)
  <2>1. Shutdown(s, n) = IF r.error # "none" THEN r ELSE Apply(r.state, r.sequence, fin)
    BY <1>6 DEF Shutdown
  <2>2. /\ r.state \in RuntimeState
        /\ r.sequence \in 0 .. MaxSequence
        /\ r.state = s \/ (ShutdownAllowed(s) /\ r.state = StateAt(s, "Stopping", "Idle"))
    BY <1>2, <1>4
  <2> HIDE DEF r, fin
  <2>3. \/ Apply(r.state, r.sequence, fin).state = r.state
        \/ /\ At(r.state, "Stopping", "Idle")
           /\ Apply(r.state, r.sequence, fin).state = StateAt(r.state, "Stopped", "Idle")
    BY <1>1, <2>2 DEF fin
  <2> QED
    BY <1>3, <1>6, <2>1, <2>2, <2>3 DEF At, Phase, Activity, ShutdownAllowed
<1> QED
  BY <1>5, <1>6

-----------------------------------------------------------------------------
(***************************************************************************)
(* Type correctness.                                                       *)
(***************************************************************************)
\* Every answer the task can give is a reply.
LEMMA ReplyTypes ==
  /\ \A n \in 0 .. MaxSequence, s, t \in RuntimeState : OkReply(n, s, t) \in Reply
  /\ \A error \in Error \cup {"none"} : ErrReply(error) \in Reply
BY DefaultStateType, ActorAssumption DEF OkReply, ErrReply, Reply

\* Delivering a reply keeps the calls well formed.
LEMMA AnswerType ==
  ASSUME TypeOK, NEW c, NEW reply \in Reply, Answer(c, reply)
  PROVE  call' \in [Clients -> CallType]
<1>1. call \in [Clients -> CallType]
  BY DEF TypeOK
<1>2. CASE c \in Clients
  <2>1. [call[c] EXCEPT !.status = "answered", !.reply = reply] \in CallType
    BY <1>1, <1>2 DEF CallType, CallStatus
  <2> QED
    BY <1>1, <1>2, <2>1 DEF Answer
<1>3. CASE c \notin Clients
  BY <1>1, <1>3 DEF Answer
<1> QED
  BY <1>2, <1>3

\* The command at the head of the channel.
LEMMA HeadCommand ==
  ASSUME TypeOK, NEW op, Turn(op)
  PROVE  /\ Head(queue).command \in Command
         /\ Head(queue).command.op = "Event" => Head(queue).command.event \in RuntimeEvent
         /\ queue' \in Seq(Entry)
         /\ Len(queue') = Len(queue) - 1
         /\ Len(queue') <= Capacity
<1>1. Head(queue) \in Entry
  BY DEF TypeOK, Turn
<1>2. Head(queue).command \in Command
  BY <1>1 DEF Entry
<1>3. Head(queue).command.op = "Event" => Head(queue).command.event \in RuntimeEvent
  BY <1>2, ActorAssumption DEF Command
<1> QED
  BY <1>2, <1>3, ActorAssumption DEF TypeOK, Turn

\* Dropping a receiver keeps the channel's commands and their order.
LEMMA ForgetType ==
  ASSUME NEW q \in Seq(Entry), NEW c
  PROVE  /\ Forget(q, c) \in Seq(Entry)
         /\ Len(Forget(q, c)) = Len(q)
         /\ \A i \in 1 .. Len(q) :
              Forget(q, c)[i] = IF q[i].client = c THEN [q[i] EXCEPT !.client = Nobody] ELSE q[i]
<1>1. Len(q) \in Nat /\ \A i \in 1 .. Len(q) : q[i] \in Entry
  BY ElementOfSeq, LenProperties
<1>2. \A i \in 1 .. Len(q) : [q[i] EXCEPT !.client = Nobody] \in Entry
  BY <1>1 DEF Entry
<1>3. \A i \in 1 .. Len(q) :
        (IF q[i].client = c THEN [q[i] EXCEPT !.client = Nobody] ELSE q[i]) \in Entry
  BY <1>1, <1>2
<1>4. Forget(q, c) \in [1 .. Len(q) -> Entry]
  BY <1>3 DEF Forget
<1>5. Forget(q, c) \in Seq(Entry)
  BY <1>1, <1>4, SeqDef
<1>6. DOMAIN Forget(q, c) = 1 .. Len(q)
  BY DEF Forget
<1>7. Len(Forget(q, c)) = Len(q)
  BY <1>1, <1>5, <1>6, LenProperties
<1> QED
  BY <1>5, <1>7 DEF Forget

\* What a served outcome does to the variables.
LEMMA ServeType ==
  ASSUME TypeOK, NEW o \in OutcomeType, Serve(o)
  PROVE  /\ state' \in RuntimeState
         /\ sequence' \in 0 .. MaxSequence
         /\ call' \in [Clients -> CallType]
<1>1. o.state \in RuntimeState /\ o.sequence \in 0 .. MaxSequence /\ o.error \in Error \cup {"none"}
  BY DEF OutcomeType
<1>2. (IF o.error = "none" THEN OkReply(o.sequence, state, o.state) ELSE ErrReply(o.error)) \in Reply
  BY <1>1, ReplyTypes DEF TypeOK
<1> QED
  BY <1>1, <1>2, AnswerType DEF Serve

\* The types are inductive.
LEMMA TypeOKStep == TypeOK /\ [Next]_vars => TypeOK'
<1> SUFFICES ASSUME TypeOK, [Next]_vars PROVE TypeOK'
  OBVIOUS
<1>c. call \in [Clients -> CallType]
  BY DEF TypeOK
<1>n. NoReply \in Reply /\ ErrReply("QueueFull") \in Reply
  BY ReplyTypes DEF NoReply, Error
<1>1. ASSUME NEW c \in Clients, NEW command \in Command, Begin(c, command) PROVE TypeOK'
  <2>1. Call("sending", command, NoReply) \in CallType
    BY <1>n DEF Call, CallType, CallStatus
  <2> QED
    BY <1>1, <1>c, <2>1 DEF Begin, TypeOK
<1>2. ASSUME NEW c \in Clients, Enqueue(c) PROVE TypeOK'
  <2>1. [call[c] EXCEPT !.status = "waiting"] \in CallType
    BY <1>c DEF CallType, CallStatus
  <2>2. call' \in [Clients -> CallType]
    BY <1>2, <1>c, <2>1 DEF Enqueue
  <2>3. [command |-> call[c].command, client |-> c] \in Entry
    BY <1>2, <1>c DEF Enqueue, CallType, Entry
  <2>4. queue' \in Seq(Entry) /\ Len(queue') <= Capacity
    BY <1>2, <2>3, ActorAssumption DEF Enqueue, TypeOK
  <2> QED
    BY <1>2, <1>c, <2>2, <2>4 DEF Enqueue, TypeOK
<1>3. ASSUME NEW c \in Clients, NEW e \in Events, TrySend(c, e) PROVE TypeOK'
  <2>1. [op |-> "Event", event |-> e] \in Command
    BY DEF Command
  <2>2. Call("waiting", [op |-> "Event", event |-> e], NoReply) \in CallType
    BY <1>n, <2>1 DEF Call, CallType, CallStatus
  <2> QED
    BY <1>3, <1>c, <2>1, <2>2, ActorAssumption DEF TrySend, TypeOK, Entry
<1>4. ASSUME NEW c \in Clients, NEW e \in Events, TrySendFull(c, e) PROVE TypeOK'
  <2>1. Call("answered", [op |-> "Event", event |-> e], ErrReply("QueueFull")) \in CallType
    BY <1>n DEF Call, CallType, CallStatus, Command
  <2> QED
    BY <1>4, <1>c, <2>1 DEF TrySendFull, TypeOK
<1>5. ASSUME NEW c \in Clients, Cancel(c) PROVE TypeOK'
  <2>1. IdleCall \in CallType
    BY <1>n DEF IdleCall, Call, CallType, CallStatus
  <2>2. queue' \in Seq(Entry) /\ Len(queue') = Len(queue)
    BY <1>5, ForgetType DEF Cancel, TypeOK
  <2> QED
    BY <1>5, <1>c, <2>1, <2>2 DEF Cancel, TypeOK
<1>6. ASSUME NEW c \in Clients, DropClient(c) PROVE TypeOK'
  <2>1. Call("dropped", NoCommand, NoReply) \in CallType
    BY <1>n DEF Call, CallType, CallStatus
  <2> QED
    BY <1>6, <1>c, <2>1 DEF DropClient, TypeOK
<1>7. CASE ServeEvent
  <2>1. Turn("Event") /\ Head(queue).command.event \in RuntimeEvent
    BY <1>7, HeadCommand DEF ServeEvent, Turn
  <2>2. Apply(state, sequence, Head(queue).command.event) \in OutcomeType
    BY <2>1, ApplyOutcome DEF TypeOK
  <2> QED
    BY <1>7, <2>1, <2>2, HeadCommand, ServeType DEF ServeEvent, TypeOK, Turn
<1>8. CASE ServeSnapshot
  <2>1. OkReply(sequence, state, state) \in Reply
    BY ReplyTypes DEF TypeOK
  <2> QED
    BY <1>8, <2>1, HeadCommand, AnswerType DEF ServeSnapshot, TypeOK, Turn
<1>9. CASE ServeShutdown
  <2>1. Shutdown(state, sequence) \in OutcomeType
    BY ShutdownOutcome DEF TypeOK
  <2> QED
    BY <1>9, <2>1, HeadCommand, ServeType DEF ServeShutdown, TypeOK, Turn
<1>10. CASE Exit
  BY <1>10 DEF Exit, TypeOK
<1>11. CASE UNCHANGED vars
  BY <1>11 DEF vars, TypeOK
<1> QED
  BY <1>1, <1>2, <1>3, <1>4, <1>5, <1>6, <1>7, <1>8, <1>9, <1>10, <1>11 DEF Next, Serving

\* The initial state is well typed.
LEMMA TypeOKInit == Init => TypeOK
<1>1. IdleCall \in CallType
  BY ReplyTypes DEF IdleCall, Call, CallType, CallStatus, NoReply
<1> QED
  BY <1>1, DefaultStateType, ActorAssumption DEF Init, TypeOK

\* Every state of the actor is well typed; in particular the channel never
\* holds more than Capacity commands and the sequence never exceeds its width.
THEOREM TypeCorrect == Spec => []TypeOK
BY TypeOKInit, TypeOKStep, PTL DEF Spec

-----------------------------------------------------------------------------
(***************************************************************************)
(* How a step changes the state the task owns.                             *)
(***************************************************************************)
\* An event was accepted: reduced and counted.
Accepted(e) ==
  /\ state.phase # "Stopped"
  /\ Legal(state, e)
  /\ state' = Reduce(state, e)
  /\ sequence' = sequence + 1

\* Only the task changes the state: by one accepted event or by a shutdown.
LEMMA StateStep ==
  ASSUME TypeOK, [Next]_vars
  PROVE  \/ state' = state /\ sequence' = sequence
         \/ \E e \in RuntimeEvent : Accepted(e)
         \/ /\ state' = Shutdown(state, sequence).state
            /\ sequence' = Shutdown(state, sequence).sequence
<1>1. CASE ServeEvent
  <2>1. Turn("Event") /\ Head(queue).command.event \in RuntimeEvent
    BY <1>1, HeadCommand DEF ServeEvent, Turn
  <2> DEFINE e == Head(queue).command.event
             o == Apply(state, sequence, e)
  <2>2. /\ o.error # "none" => o.state = state /\ o.sequence = sequence
        /\ o.error = "none" => /\ state.phase # "Stopped"
                               /\ Legal(state, e)
                               /\ o.state = Reduce(state, e)
                               /\ o.sequence = sequence + 1
    BY <2>1, ApplyOutcome DEF TypeOK
  <2>3. state' = o.state /\ sequence' = o.sequence
    BY <1>1 DEF ServeEvent, Serve
  <2> QED
    BY <2>1, <2>2, <2>3 DEF Accepted
<1>2. CASE ServeShutdown
  BY <1>2 DEF ServeShutdown, Serve
<1>3. CASE ~ServeEvent /\ ~ServeShutdown
  BY <1>3 DEF Next, Serving, vars, Begin, Enqueue, TrySend, TrySendFull, Cancel, DropClient,
              ServeSnapshot, Exit
<1> QED
  BY <1>1, <1>2, <1>3

\* No order of events leaves an activity running outside a ready runtime, and
\* none reaches the write activity.
THEOREM ActivitySafe == Spec => []ActivityOnlyWhenReady
<1>1. Init => ActivityOnlyWhenReady
  BY DEF Init, ActivityOnlyWhenReady, DefaultState
<1>2. TypeOK /\ ActivityOnlyWhenReady /\ [Next]_vars => ActivityOnlyWhenReady'
  <2> SUFFICES ASSUME TypeOK, ActivityOnlyWhenReady, [Next]_vars PROVE ActivityOnlyWhenReady'
    OBVIOUS
  <2>1. CASE state' = state /\ sequence' = sequence
    BY <2>1 DEF ActivityOnlyWhenReady
  <2>2. ASSUME NEW e \in RuntimeEvent, Accepted(e) PROVE ActivityOnlyWhenReady'
    BY <2>2, ReduceOrderly DEF Accepted, Orderly, ActivityOnlyWhenReady, TypeOK
  <2>3. CASE state' = Shutdown(state, sequence).state
    BY <2>3, ShutdownMove DEF ActivityOnlyWhenReady, TypeOK
  <2> QED
    BY <2>1, <2>2, <2>3, StateStep
<1> QED
  BY <1>1, <1>2, TypeCorrect, PTL DEF Spec

\* phase/stopped is final for the state and for the sequence.
THEOREM StoppedFinal == Spec => StoppedIsFinal
<1>1. TypeOK /\ [Next]_vars => [state.phase = "Stopped" => state' = state /\ sequence' = sequence]_vars
  <2> SUFFICES ASSUME TypeOK, [Next]_vars, state.phase = "Stopped"
               PROVE  state' = state /\ sequence' = sequence
    BY DEF vars
  <2>1. /\ Shutdown(state, sequence).sequence = sequence
        /\ Shutdown(state, sequence).state = state
    BY ShutdownOutcome DEF TypeOK
  <2> QED
    BY <2>1, StateStep DEF Accepted
<1> QED
  BY <1>1, TypeCorrect, PTL DEF Spec, StoppedIsFinal

\* The state changes only together with the sequence number.
THEOREM Counted == Spec => ChangesAreCounted
<1>1. TypeOK /\ [Next]_vars => [sequence' = sequence => state' = state]_vars
  <2> SUFFICES ASSUME TypeOK, [Next]_vars, sequence' = sequence
               PROVE  state' = state
    BY DEF vars
  <2>1. Shutdown(state, sequence).sequence = sequence => Shutdown(state, sequence).state = state
    BY ShutdownOutcome DEF TypeOK
  <2>2. sequence + 1 # sequence
    BY ActorAssumption DEF TypeOK
  <2> QED
    BY <2>1, <2>2, StateStep DEF Accepted
<1> QED
  BY <1>1, TypeCorrect, PTL DEF Spec, ChangesAreCounted

-----------------------------------------------------------------------------
(***************************************************************************)
(* The lifecycle.                                                          *)
(***************************************************************************)
\* One accepted event is one step of the lifecycle, or none.
LEMMA AcceptedIsLifecycleStep ==
  ASSUME TypeOK, ActivityOnlyWhenReady, NEW e \in RuntimeEvent, Accepted(e)
  PROVE  [Promised!Next]_(Promised!vars)
<1>1. CASE e \in ContextEvent
  <2>1. e.kind = "ContextUpdated"
    BY <1>1 DEF ContextEvent
  <2>2. state'.phase = state.phase /\ state'.activity = state.activity
    BY <2>1 DEF Accepted, Reduce, ApplyContext, TypeOK, RuntimeState
  <2> QED
    BY <2>2 DEF Promised!vars
<1>2. CASE e \in LifecycleEvent
  <2>1. e.kind \in LifecycleKind
    BY <1>2, LifecycleEventKind
  <2>2. \A p \in Phase, a \in Activity : /\ StateAt(state, p, a).phase = p
                                         /\ StateAt(state, p, a).activity = a
    BY DEF StateAt, TypeOK, RuntimeState
  <2>3. CASE e.kind \in {"InitializationCompleted", "InitializationFailed"}
    <3>2. At(state, "Init", "Idle")
      BY <2>3 DEF Accepted, Legal
    <3>3. \E p \in {"Ready", "Fault"} : state' = StateAt(state, p, "Idle")
      BY <2>3 DEF Accepted, Reduce, Faulted
    <3>1. Promised!Initialize
      BY <2>2, <3>2, <3>3 DEF At, Phase, Activity, Promised!Initialize
    <3> QED
      BY <3>1 DEF Promised!Next
  <2>4. CASE e.kind \in {"DiscoveryStarted", "DiscoveryCompleted", "DiscoveryFailed"}
    <3>2. \/ At(state, "Ready", "Idle") /\ state' = StateAt(state, "Discover", "Idle")
          \/ At(state, "Discover", "Idle") /\ state' = StateAt(state, "Ready", "Idle")
      BY <2>4 DEF Accepted, Legal, Reduce
    <3>1. Promised!Discover
      BY <2>2, <3>2 DEF At, Phase, Activity, Promised!Discover
    <3> QED
      BY <3>1 DEF Promised!Next
  <2>5. CASE e.kind \in {"ReadStarted", "ObservationStarted", "DiagnosticJobStarted"}
    <3>2. At(state, "Ready", "Idle")
      BY <2>5 DEF Accepted, Legal
    <3>3. \E a \in {"Read", "Observe", "Diagnose"} : state' = StateAt(state, "Ready", a)
      BY <2>5 DEF Accepted, Reduce
    <3>1. Promised!StartActivity
      BY <2>2, <3>2, <3>3 DEF At, Phase, Activity, Promised!StartActivity
    <3> QED
      BY <3>1 DEF Promised!Next
  <2>6. CASE e.kind \in {"ReadCompleted", "ReadFailedRecoverable", "ObservationStopped",
                         "DiagnosticJobCompleted"}
    <3>2. state.phase = "Ready" /\ state.activity # "Idle"
      BY <2>6 DEF Accepted, Legal, At
    <3>3. state' = StateAt(state, "Ready", "Idle")
      BY <2>6 DEF Accepted, Reduce
    <3>1. Promised!EndActivity
      BY <2>2, <3>2, <3>3 DEF Phase, Activity, Promised!EndActivity
    <3> QED
      BY <3>1 DEF Promised!Next
  <2>7. CASE e.kind = "FatalRuntimeError"
    <3>3. state' = StateAt(state, "Fault", "Idle")
      BY <2>7 DEF Accepted, Reduce, Faulted
    <3>1. Promised!Fail
      BY <2>2, <3>3 DEF Accepted, Phase, Activity, Promised!Fail
    <3> QED
      BY <3>1 DEF Promised!Next
  <2>8. CASE e.kind \in {"ShutdownRequested", "ShutdownCompleted"}
    <3>2. state.activity = "Idle"
      BY <2>8 DEF Accepted, Legal, ShutdownAllowed, At
    <3>3. \E p \in {"Stopping", "Stopped"} : state' = StateAt(state, p, "Idle")
      BY <2>8 DEF Accepted, Reduce
    <3>1. Promised!Stop
      BY <2>2, <3>2, <3>3 DEF Accepted, Phase, Activity, Promised!Stop
    <3> QED
      BY <3>1 DEF Promised!Next
  <2>9. CASE e.kind \in {"ObservationReadStarted", "ObservationReadCompleted",
                         "ObservationReadFailedRecoverable", "WriteStarted"}
    BY <2>9 DEF Accepted, Reduce, Promised!vars
  <2> QED
    BY <2>1, <2>3, <2>4, <2>5, <2>6, <2>7, <2>8, <2>9 DEF LifecycleKind
<1> QED
  BY <1>1, <1>2 DEF RuntimeEvent

\* The actor, its channel and its clients implement the abstract lifecycle.
THEOREM LifecycleImplemented == Spec => ImplementsLifecycle
<1>1. Init => Promised!Init
  BY DEF Init, DefaultState, Promised!Init
<1>2. TypeOK /\ ActivityOnlyWhenReady /\ [Next]_vars => [Promised!Next]_(Promised!vars)
  <2> SUFFICES ASSUME TypeOK, ActivityOnlyWhenReady, [Next]_vars
               PROVE  [Promised!Next]_(Promised!vars)
    OBVIOUS
  <2>1. CASE state' = state
    BY <2>1 DEF Promised!vars
  <2>2. CASE \E e \in RuntimeEvent : Accepted(e)
    BY <2>2, AcceptedIsLifecycleStep
  <2>3. CASE state' = Shutdown(state, sequence).state /\ state' # state
    <3>1. Promised!Stop
      BY <2>3, ShutdownMove DEF TypeOK, Promised!Stop
    <3> QED
      BY <3>1 DEF Promised!Next
  <2> QED
    BY <2>1, <2>2, <2>3, StateStep
<1> QED
  BY <1>1, <1>2, TypeCorrect, ActivitySafe, PTL DEF Spec, ImplementsLifecycle, Promised!Spec

-----------------------------------------------------------------------------
(***************************************************************************)
(* A queued command and the call that awaits its reply belong together.    *)
(***************************************************************************)
Pairing ==
  /\ \A i \in 1 .. Len(queue) : queue[i].client \in Clients =>
       /\ call[queue[i].client].status = "waiting"
       /\ call[queue[i].client].command = queue[i].command
  /\ \A i, j \in 1 .. Len(queue) :
       queue[i].client = queue[j].client /\ queue[i].client \in Clients => i = j

\* Serving the oldest command keeps the others paired with their calls.
LEMMA PairingServe ==
  ASSUME TypeOK, Pairing, NEW op, Turn(op), NEW reply, Answer(Head(queue).client, reply)
  PROVE  Pairing'
<1> DEFINE h == Head(queue).client
<1>1. /\ call \in [Clients -> CallType]
      /\ Len(queue) \in Nat
      /\ queue # <<>>
      /\ queue' = Tail(queue)
  BY DEF TypeOK, Turn
<1>2. /\ Len(queue') = Len(queue) - 1
      /\ \A i \in 1 .. Len(queue') : queue'[i] = queue[i + 1] /\ i + 1 \in 1 .. Len(queue)
      /\ 1 \in 1 .. Len(queue)
      /\ h = queue[1].client
  BY <1>1 DEF TypeOK
<1>3. \A i \in 1 .. Len(queue') : queue'[i].client \in Clients => queue'[i].client # h
  BY <1>1, <1>2 DEF Pairing
<1>4. \A c \in Clients : c # h => call'[c] = call[c]
  BY <1>1 DEF Answer
<1> QED
  BY <1>1, <1>2, <1>3, <1>4 DEF Pairing

\* Appending the command of a call keeps the pairing.
LEMMA PairingAppend ==
  ASSUME TypeOK, Pairing, NEW c \in Clients, NEW command,
         call[c].status # "waiting",
         queue' = Append(queue, [command |-> command, client |-> c]),
         \A d \in Clients : d # c => call'[d] = call[d],
         call'[c].status = "waiting",
         call'[c].command = command
  PROVE  Pairing'
<1>1. Len(queue) \in Nat /\ queue \in Seq(Entry)
  BY DEF TypeOK
<1>2. /\ Len(queue') = Len(queue) + 1
      /\ \A i \in 1 .. Len(queue) : queue'[i] = queue[i]
      /\ queue'[Len(queue) + 1] = [command |-> command, client |-> c]
  BY <1>1
<1>3. \A i \in 1 .. Len(queue) : queue[i].client # c
  BY DEF Pairing
<1>4. \A i \in 1 .. Len(queue') : i \in 1 .. Len(queue) \/ i = Len(queue) + 1
  BY <1>1, <1>2
<1> QED
  BY <1>1, <1>2, <1>3, <1>4 DEF Pairing

\* The pairing is inductive.
LEMMA PairingStep == TypeOK /\ Pairing /\ [Next]_vars => Pairing'
<1> SUFFICES ASSUME TypeOK, Pairing, [Next]_vars PROVE Pairing'
  OBVIOUS
<1>c. call \in [Clients -> CallType]
  BY DEF TypeOK
<1>1. ASSUME NEW c \in Clients, NEW command \in Command, Begin(c, command) PROVE Pairing'
  BY <1>1, <1>c DEF Begin, Call, Pairing
<1>2. ASSUME NEW c \in Clients, Enqueue(c) PROVE Pairing'
  <2>1. call[c].status # "waiting"
    BY <1>2 DEF Enqueue
  <2>2. /\ \A d \in Clients : d # c => call'[d] = call[d]
        /\ call'[c].status = "waiting"
        /\ call'[c].command = call[c].command
    BY <1>2, <1>c DEF Enqueue, CallType
  <2> QED
    BY <1>2, <2>1, <2>2, PairingAppend DEF Enqueue
<1>3. ASSUME NEW c \in Clients, NEW e \in Events, TrySend(c, e) PROVE Pairing'
  <2>1. call[c].status # "waiting"
    BY <1>3 DEF TrySend
  <2>2. /\ \A d \in Clients : d # c => call'[d] = call[d]
        /\ call'[c].status = "waiting"
        /\ call'[c].command = [op |-> "Event", event |-> e]
    BY <1>3, <1>c DEF TrySend, Call
  <2> QED
    BY <1>3, <2>1, <2>2, PairingAppend DEF TrySend
<1>4. ASSUME NEW c \in Clients, NEW e \in Events, TrySendFull(c, e) PROVE Pairing'
  BY <1>4, <1>c DEF TrySendFull, Call, Pairing
<1>5. ASSUME NEW c \in Clients, Cancel(c) PROVE Pairing'
  <2>1. /\ Len(queue') = Len(queue)
        /\ \A i \in 1 .. Len(queue) :
             queue'[i] = IF queue[i].client = c THEN [queue[i] EXCEPT !.client = Nobody]
                                                ELSE queue[i]
    BY <1>5, ForgetType DEF Cancel, TypeOK
  <2>2. \A i \in 1 .. Len(queue) : queue[i] \in Entry
    BY ElementOfSeq DEF TypeOK
  <2>3. \A i \in 1 .. Len(queue') : queue'[i].client \in Clients =>
          queue'[i] = queue[i] /\ queue[i].client # c
    BY <2>1, <2>2, ActorAssumption DEF Entry
  <2>4. \A d \in Clients : d # c => call'[d] = call[d]
    BY <1>5, <1>c DEF Cancel
  <2> QED
    BY <2>1, <2>3, <2>4 DEF Pairing
<1>6. ASSUME NEW c \in Clients, DropClient(c) PROVE Pairing'
  BY <1>6, <1>c DEF DropClient, Call, Pairing
<1>7. CASE ServeEvent
  BY <1>7, PairingServe DEF ServeEvent, Serve
<1>8. CASE ServeSnapshot
  BY <1>8, PairingServe DEF ServeSnapshot
<1>9. CASE ServeShutdown
  BY <1>9, PairingServe DEF ServeShutdown, Serve
<1>10. CASE Exit \/ UNCHANGED vars
  BY <1>10 DEF Exit, vars, Pairing
<1> QED
  BY <1>1, <1>2, <1>3, <1>4, <1>5, <1>6, <1>7, <1>8, <1>9, <1>10 DEF Next, Serving

-----------------------------------------------------------------------------
(***************************************************************************)
(* The transitions handed to the clients form one history.  The invariant  *)
(* is inductive once it says that no client holds a number the actor has   *)
(* not reached yet.                                                        *)
(***************************************************************************)
HistoryInv ==
  /\ RepliesFormOneHistory
  /\ \A c \in Clients : Transitioned(c) => call[c].reply.sequence \in 0 .. sequence

\* Which transitions the clients hold after a step: the ones they held, and
\* at most one new one, for the event its client submitted.
NewTransition(d, e) ==
  /\ ~Transitioned(d)
  /\ call[d].command.event = e
  /\ call'[d].command = call[d].command
  /\ call'[d].reply = OkReply(sequence', state, state')
  /\ Accepted(e)

LEMMA HeldTransitions ==
  ASSUME TypeOK, Pairing, [Next]_vars
  PROVE  \A c \in Clients : Transitioned(c)' =>
           \/ Transitioned(c) /\ call'[c] = call[c]
           \/ /\ \E e \in RuntimeEvent : NewTransition(c, e)
              /\ \A d \in Clients : d # c => call'[d] = call[d]
<1> DEFINE Held == \A c \in Clients : Transitioned(c)' => Transitioned(c) /\ call'[c] = call[c]
<1>c. call \in [Clients -> CallType]
  BY DEF TypeOK
<1>1. ASSUME NEW c \in Clients, NEW command \in Command, Begin(c, command) PROVE Held
  BY <1>1, <1>c DEF Begin, Call, Transitioned
<1>2. ASSUME NEW c \in Clients, Enqueue(c) PROVE Held
  BY <1>2, <1>c DEF Enqueue, Transitioned, CallType
<1>3. ASSUME NEW c \in Clients, NEW e \in Events, TrySend(c, e) PROVE Held
  BY <1>3, <1>c DEF TrySend, Call, Transitioned
<1>4. ASSUME NEW c \in Clients, NEW e \in Events, TrySendFull(c, e) PROVE Held
  BY <1>4, <1>c DEF TrySendFull, Call, Transitioned, ErrReply
<1>5. ASSUME NEW c \in Clients, Cancel(c) PROVE Held
  BY <1>5, <1>c DEF Cancel, IdleCall, Call, Transitioned
<1>6. ASSUME NEW c \in Clients, DropClient(c) PROVE Held
  BY <1>6, <1>c DEF DropClient, Call, Transitioned
<1>7. CASE Exit \/ UNCHANGED vars
  BY <1>7 DEF Exit, vars, Transitioned
<1> DEFINE h == Head(queue).client
<1>8. ASSUME NEW op, Turn(op)
      PROVE  h \in Clients => /\ call[h].status = "waiting"
                              /\ call[h].command = Head(queue).command
                              /\ call[h].command.op = op
  <2>1. 1 \in 1 .. Len(queue) /\ Head(queue) = queue[1]
    BY <1>8 DEF Turn, TypeOK
  <2> QED
    BY <1>8, <2>1 DEF Pairing, Turn
<1>9. ASSUME NEW op, Turn(op), NEW reply, Answer(h, reply)
      PROVE  /\ \A c \in Clients : c # h => call'[c] = call[c]
             /\ h \in Clients => /\ call'[h].command = call[h].command
                                 /\ call'[h].reply = reply
                                 /\ ~Transitioned(h)
             /\ op # "Event" => Held
             /\ ~reply.ok => Held
  <2>1. \A c \in Clients : c # h => call'[c] = call[c]
    BY <1>9, <1>c DEF Answer
  <2>2. h \in Clients => /\ call'[h].command = call[h].command
                         /\ call'[h].reply = reply
    BY <1>9, <1>c DEF Answer, CallType
  <2> QED
    BY <1>8, <1>9, <2>1, <2>2 DEF Transitioned
<1>10. CASE ServeSnapshot
  BY <1>9, <1>10 DEF ServeSnapshot
<1>11. CASE ServeShutdown
  BY <1>9, <1>11 DEF ServeShutdown, Serve
<1>12. ASSUME ServeEvent
       PROVE  \/ Held
              \/ /\ h \in Clients
                 /\ \E e \in RuntimeEvent : NewTransition(h, e)
                 /\ \A d \in Clients : d # h => call'[d] = call[d]
  <2> DEFINE e == Head(queue).command.event
             o == Apply(state, sequence, e)
             reply == IF o.error = "none" THEN OkReply(o.sequence, state, o.state)
                                          ELSE ErrReply(o.error)
  <2>1. Turn("Event") /\ e \in RuntimeEvent
    BY <1>12, HeadCommand DEF ServeEvent, Turn
  <2>2. state' = o.state /\ sequence' = o.sequence /\ Answer(h, reply)
    BY <1>12 DEF ServeEvent, Serve
  <2>3. CASE o.error # "none"
    <3>1. ~reply.ok
      BY <2>3 DEF ErrReply
    <3> QED
      BY <1>9, <2>1, <2>2, <3>1
  <2>4. CASE o.error = "none"
    <3>1. Accepted(e)
      BY <2>1, <2>2, <2>4, ApplyOutcome DEF Accepted, TypeOK
    <3>2. reply = OkReply(sequence', state, state')
      BY <2>2, <2>4
    <3> HIDE DEF reply, o
    <3>3. CASE h \in Clients
      BY <1>8, <1>9, <2>1, <2>2, <3>1, <3>2, <3>3 DEF NewTransition
    <3>4. CASE h \notin Clients
      BY <1>c, <2>2, <3>4 DEF Answer, Transitioned
    <3> QED
      BY <3>3, <3>4
  <2> QED
    BY <2>3, <2>4
<1>13. ASSUME ServeEvent, NEW c \in Clients, Transitioned(c)'
       PROVE  \/ Transitioned(c) /\ call'[c] = call[c]
              \/ /\ \E e \in RuntimeEvent : NewTransition(c, e)
                 /\ \A d \in Clients : d # c => call'[d] = call[d]
  <2>1. CASE c = h
    BY <1>12, <1>13, <2>1
  <2>2. CASE c # h
    BY <1>9, <1>12, <1>13, <2>2 DEF Transitioned
  <2> QED
    BY <2>1, <2>2
<1> QED
  BY <1>1, <1>2, <1>3, <1>4, <1>5, <1>6, <1>7, <1>10, <1>11, <1>13 DEF Next, Serving

\* The pairing and the history are inductive.
LEMMA HistoryStep == TypeOK /\ Pairing /\ HistoryInv /\ [Next]_vars => HistoryInv'
<1> SUFFICES ASSUME TypeOK, Pairing, HistoryInv, [Next]_vars PROVE HistoryInv'
  OBVIOUS
<1> DEFINE n(c) == call[c].reply.sequence
           Old(c) == Transitioned(c) /\ call'[c] = call[c]
           New(c) == /\ call'[c].reply.sequence = sequence + 1
                     /\ call'[c].reply.from = state
                     /\ call'[c].reply.to = state'
                     /\ sequence' = sequence + 1
                     /\ \A d \in Clients : d # c => call'[d] = call[d]
<1>1. \A c \in Clients : Transitioned(c)' => Old(c) \/ New(c)
  BY HeldTransitions DEF NewTransition, Accepted, OkReply
<1>2. /\ sequence \in Nat
      /\ sequence' \in Nat
      /\ sequence' >= sequence
      /\ sequence' = sequence => state' = state
  <2>1. /\ Shutdown(state, sequence).sequence \in Nat
        /\ Shutdown(state, sequence).sequence >= sequence
        /\ Shutdown(state, sequence).sequence = sequence => Shutdown(state, sequence).state = state
    BY ShutdownOutcome DEF TypeOK, OutcomeType
  <2>2. sequence \in Nat
    BY DEF TypeOK
  <2> QED
    BY <2>1, <2>2, StateStep DEF Accepted
<1>3. \A c \in Clients : Transitioned(c) => n(c) \in 0 .. sequence
  BY DEF HistoryInv
<1>4. \A c \in Clients : Transitioned(c)' => call'[c].reply.sequence \in 0 .. sequence'
  BY <1>1, <1>2, <1>3
<1>5. \A c \in Clients : Transitioned(c)' /\ call'[c].reply.sequence = sequence' =>
        call'[c].reply.to = state'
  <2> SUFFICES ASSUME NEW c \in Clients, Transitioned(c)', call'[c].reply.sequence = sequence'
               PROVE  call'[c].reply.to = state'
    OBVIOUS
  <2>1. CASE New(c)
    BY <2>1
  <2>2. CASE Old(c)
    <3>1. sequence' = sequence
      BY <1>2, <1>3, <2>2
    <3> QED
      BY <1>2, <2>2, <3>1 DEF HistoryInv, RepliesFormOneHistory
  <2> QED
    BY <1>1, <2>1, <2>2
<1>6. \A c, d \in Clients : Transitioned(c)' /\ Transitioned(d)' =>
        /\ call'[c].reply.sequence = call'[d].reply.sequence => c = d
        /\ call'[d].reply.sequence = call'[c].reply.sequence + 1 =>
             call'[d].reply.from = call'[c].reply.to
  <2> SUFFICES ASSUME NEW c \in Clients, NEW d \in Clients, Transitioned(c)', Transitioned(d)'
               PROVE  /\ call'[c].reply.sequence = call'[d].reply.sequence => c = d
                      /\ call'[d].reply.sequence = call'[c].reply.sequence + 1 =>
                           call'[d].reply.from = call'[c].reply.to
    OBVIOUS
  <2>1. CASE Old(c) /\ Old(d)
    BY <2>1 DEF HistoryInv, RepliesFormOneHistory
  <2>2. CASE Old(c) /\ New(d)
    <3>1. n(c) # sequence + 1
      BY <1>2, <1>3, <2>2
    <3>2. n(c) = sequence => call[c].reply.to = state
      BY <2>2 DEF HistoryInv, RepliesFormOneHistory
    <3>3. sequence + 1 = n(c) + 1 => n(c) = sequence
      BY <1>2, <1>3, <2>2
    <3> QED
      BY <2>2, <3>1, <3>2, <3>3
  <2>3. CASE New(c) /\ Old(d)
    <3>1. n(d) # sequence + 1 /\ n(d) # sequence + 2
      BY <1>2, <1>3, <2>3
    <3> QED
      BY <1>2, <2>3, <3>1
  <2>4. CASE New(c) /\ New(d) /\ c = d
    BY <1>2, <2>4
  <2>5. CASE New(c) /\ New(d) /\ c # d
    <3>1. call'[c] = call[c] /\ call'[d] = call[d]
      BY <2>5
    <3>2. Transitioned(c)
      BY <3>1 DEF Transitioned
    <3>3. n(c) = sequence + 1 /\ n(c) \in 0 .. sequence
      BY <1>3, <2>5, <3>1, <3>2
    <3> QED
      BY <1>2, <3>3
  <2> QED
    BY <1>1, <2>1, <2>2, <2>3, <2>4, <2>5
<1> QED
  BY <1>4, <1>5, <1>6 DEF HistoryInv, RepliesFormOneHistory, Transitioned

\* Initially nothing is queued and nobody holds a transition.
LEMMA HistoryInit == Init => Pairing /\ HistoryInv
BY DEF Init, Pairing, HistoryInv, RepliesFormOneHistory, Transitioned, IdleCall, Call

\* Whatever the interleaving of clients, cancellations and commands, the
\* transitions they hold are pieces of one history.
THEOREM OneHistory == Spec => []RepliesFormOneHistory
<1>1. HistoryInv => RepliesFormOneHistory
  BY DEF HistoryInv
<1> QED
  BY <1>1, HistoryInit, PairingStep, HistoryStep, TypeCorrect, PTL DEF Spec

\* A reply never reaches a call other than the one that asked: each transition
\* held is the reducer's step for the event its holder submitted.
THEOREM OwnAnswers == Spec => []AnswerIsForOwnCommand
<1>1. Init => AnswerIsForOwnCommand
  BY DEF Init, AnswerIsForOwnCommand, Transitioned, IdleCall, Call
<1>2. TypeOK /\ Pairing /\ AnswerIsForOwnCommand /\ [Next]_vars => AnswerIsForOwnCommand'
  <2> SUFFICES ASSUME TypeOK, Pairing, AnswerIsForOwnCommand, [Next]_vars,
                      NEW c \in Clients, Transitioned(c)'
               PROVE  /\ Legal(call'[c].reply.from, call'[c].command.event)
                      /\ call'[c].reply.to = Reduce(call'[c].reply.from, call'[c].command.event)
    BY DEF AnswerIsForOwnCommand
  <2>1. CASE Transitioned(c) /\ call'[c] = call[c]
    BY <2>1 DEF AnswerIsForOwnCommand
  <2>2. ASSUME NEW e \in RuntimeEvent, NewTransition(c, e)
        PROVE  /\ Legal(call'[c].reply.from, call'[c].command.event)
               /\ call'[c].reply.to = Reduce(call'[c].reply.from, call'[c].command.event)
    <3>1. /\ call'[c].reply.from = state
          /\ call'[c].reply.to = state'
          /\ call'[c].command.event = e
          /\ Legal(state, e)
          /\ state' = Reduce(state, e)
      BY <2>2 DEF NewTransition, Accepted, OkReply
    <3> QED
      BY <3>1
  <2> QED
    BY <2>1, <2>2, HeldTransitions
<1> QED
  BY <1>1, <1>2, HistoryInit, PairingStep, TypeCorrect, PTL DEF Spec
=============================================================================
