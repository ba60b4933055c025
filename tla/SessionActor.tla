---------------------------- MODULE SessionActor ----------------------------
(***************************************************************************)
(* The single owner of the adapter on the desktop (ble.rs, session_actor): *)
(* one task that drains a bounded command channel, runs each read to its   *)
(* end, watches the health of the transport, and disconnects the adapter   *)
(* when it gives up, when it is shut down or when every client is gone.    *)
(*                                                                         *)
(* A member of Clients is one clone of SessionClient with at most one call *)
(* in progress.  Dropping a call is Cancel: its command stays queued.  A   *)
(* command is one step of the task, which owns everything it touches until *)
(* it has replied.  What a read does with the adapter is ElmOperations';   *)
(* here it succeeds ("ok"), fails with an unusable answer ("data") or with *)
(* an exchange that failed at the byte transport ("transport").            *)
(* HealthTap keeps a transport failure until a failed read takes it; every *)
(* exchange that fails makes its read fail, so it is never an older read's *)
(* and needs no variable.                                                  *)
(***************************************************************************)
EXTENDS Naturals, Sequences

CONSTANTS Clients,   \* the clones of the client
          Nobody,    \* stands for a reply receiver that has been dropped
          Capacity,  \* of the command channel, 16 in the code
          Threshold  \* TRANSPORT_FAILURE_THRESHOLD, 2 in the code

ASSUME SessionAssumption ==
  /\ Nobody \notin Clients
  /\ Capacity \in Nat \ {0}
  /\ Threshold \in Nat \ {0}

VARIABLES call,      \* what each client is doing
          queue,     \* commands in the channel, oldest first
          running,   \* FALSE once session_actor has returned
          adapter,   \* the adapter is connected: DiagnosticSession.elm is Some
          done,      \* disconnect_done
          streak,    \* consecutive_transport_failures
          unhealthy, \* SessionHealth.unhealthy is Some
          recent     \* history: how the last Threshold reads ended

vars == <<call, queue, running, adapter, done, streak, unhealthy, recent>>
-----------------------------------------------------------------------------
\* The six read commands are handled alike; SupportDiscovery and Capability
\* are queries.
Op == {"read", "query", "shutdown"}
Ending == {"ok", "data", "transport"}
Answer == {"none", "ok", "error", "unhealthy", "closed"}
Status == {"idle", "sending", "waiting", "gone"}

Call(status, op, answer) == [status |-> status, op |-> op, answer |-> answer]
CallType == [status : Status, op : Op, answer : Answer]

Init ==
  /\ call = [c \in Clients |-> Call("idle", "query", "none")]
  /\ queue = <<>>
  /\ running = TRUE
  /\ adapter = TRUE
  /\ done = FALSE
  /\ streak = 0
  /\ unhealthy = FALSE
  /\ recent = <<>>

actorVars == <<running, adapter, done, streak, unhealthy, recent>>
-----------------------------------------------------------------------------
(***************************************************************************)
(* Clients.                                                                *)
(***************************************************************************)
Begin(c, op) ==
  /\ call[c].status = "idle"
  /\ call' = [call EXCEPT ![c] = Call("sending", op, "none")]
  /\ UNCHANGED <<queue, actorVars>>

Enqueue(c) ==
  /\ call[c].status = "sending"
  /\ running
  /\ Len(queue) < Capacity
  /\ queue' = Append(queue, [client |-> c, op |-> call[c].op])
  /\ call' = [call EXCEPT ![c].status = "waiting"]
  /\ UNCHANGED actorVars

\* shutdown(self) consumes its client.
Returned(k, answer) == Call(IF k.op = "shutdown" THEN "gone" ELSE "idle", k.op, answer)

\* The receiver is gone: `send` fails at once.
SendClosed(c) ==
  /\ call[c].status = "sending"
  /\ ~running
  /\ call' = [call EXCEPT ![c] = Returned(call[c], "closed")]
  /\ UNCHANGED <<queue, actorVars>>

Forget(c) ==
  [i \in 1 .. Len(queue) |->
     IF queue[i].client = c THEN [queue[i] EXCEPT !.client = Nobody] ELSE queue[i]]

Cancel(c) ==
  /\ call[c].status \in {"sending", "waiting"}
  /\ queue' = Forget(c)
  /\ call' = [call EXCEPT ![c] = Returned(call[c], "none")]
  /\ UNCHANGED actorVars

DropClient(c) ==
  /\ call[c].status = "idle"
  /\ call' = [call EXCEPT ![c] = Call("gone", call[c].op, "none")]
  /\ UNCHANGED <<queue, actorVars>>
-----------------------------------------------------------------------------
(***************************************************************************)
(* The task.                                                               *)
(***************************************************************************)
ReplyTo(c, answer) ==
  IF c \in Clients THEN [call EXCEPT ![c] = Returned(call[c], answer)] ELSE call

Latest(rs, r) == IF Len(rs) < Threshold THEN Append(rs, r) ELSE Append(Tail(rs), r)

\* Mutant: an unusable answer does not reset the streak.
StreakWithoutReset(ending) ==
  IF ending = "transport" THEN streak + 1 ELSE IF ending = "ok" THEN 0 ELSE streak
\* SessionHealth::success and observe.
Streak(ending) == IF ending = "transport" THEN streak + 1 ELSE 0

\* disconnect_best_effort, and the note that it was done (which nobody reads
\* once the task has returned).
Disconnect == done' = TRUE /\ adapter' = FALSE

\* A read of a healthy session.
ServeRead(ending) ==
  /\ running /\ queue # <<>>
  /\ Head(queue).op = "read"
  /\ ~unhealthy
  /\ queue' = Tail(queue)
  /\ recent' = Latest(recent, ending)
  /\ streak' = Streak(ending)
  /\ IF streak' < Threshold
     THEN /\ call' = ReplyTo(Head(queue).client, IF ending = "ok" THEN "ok" ELSE "error")
          /\ UNCHANGED <<adapter, done, unhealthy>>
     ELSE /\ call' = ReplyTo(Head(queue).client, "unhealthy")
          /\ unhealthy' = TRUE
          /\ Disconnect
  /\ UNCHANGED running

\* Mutant: the read goes on to the session, which is closed by now.
RefuseReadLate ==
  /\ running /\ queue # <<>>
  /\ Head(queue).op = "read"
  /\ unhealthy
  /\ queue' = Tail(queue)
  /\ call' = ReplyTo(Head(queue).client, "error")
  /\ UNCHANGED actorVars

RefuseRead ==
  /\ running /\ queue # <<>>
  /\ Head(queue).op = "read"
  /\ unhealthy
  /\ queue' = Tail(queue)
  /\ call' = ReplyTo(Head(queue).client, "unhealthy")
  /\ UNCHANGED actorVars

ServeQuery ==
  /\ running /\ queue # <<>>
  /\ Head(queue).op = "query"
  /\ queue' = Tail(queue)
  /\ call' = ReplyTo(Head(queue).client, "ok")
  /\ UNCHANGED actorVars

\* Mutant: the caller of a queued command is left waiting.
AbandonNobody(cs) == cs

\* The task returns: the receiver is dropped with every command in it, and
\* with a command its reply sender, so its caller sees the session stop.
Abandon(cs) ==
  [c \in Clients |->
     IF \E i \in 2 .. Len(queue) : queue[i].client = c
     THEN Returned(cs[c], "closed") ELSE cs[c]]

ServeShutdown ==
  /\ running /\ queue # <<>>
  /\ Head(queue).op = "shutdown"
  /\ IF done THEN UNCHANGED <<adapter, done>> ELSE Disconnect
  /\ running' = FALSE
  /\ call' = Abandon(ReplyTo(Head(queue).client, "ok"))
  /\ queue' = <<>>
  /\ UNCHANGED <<streak, unhealthy, recent>>

\* Mutant: the adapter is released by an explicit shutdown only.
ExitConnected ==
  /\ running /\ queue = <<>>
  /\ \A c \in Clients : call[c].status = "gone"
  /\ running' = FALSE
  /\ UNCHANGED <<call, queue, adapter, done, streak, unhealthy, recent>>

\* recv returns None: every sender is gone and the channel is drained.
Exit ==
  /\ running /\ queue = <<>>
  /\ \A c \in Clients : call[c].status = "gone"
  /\ IF done THEN UNCHANGED <<adapter, done>> ELSE Disconnect
  /\ running' = FALSE
  /\ UNCHANGED <<call, queue, streak, unhealthy, recent>>

Serve == \/ \E ending \in Ending : ServeRead(ending)
         \/ RefuseRead \/ ServeQuery \/ ServeShutdown \/ Exit

Next ==
  \/ \E c \in Clients : \/ \E op \in Op : Begin(c, op)
                        \/ Enqueue(c) \/ SendClosed(c) \/ Cancel(c) \/ DropClient(c)
  \/ Serve

Spec == Init /\ [][Next]_vars

\* The task is polled when it can go on, an exchange ends by its timeout, and
\* the channel hands out room in the order it was asked for.
FairSpec ==
  /\ Spec
  /\ WF_vars(Serve)
  /\ \A c \in Clients : SF_vars(Enqueue(c)) /\ WF_vars(SendClosed(c))
-----------------------------------------------------------------------------
\* The types, and the bounds of the channel and of the failure count.
TypeOK ==
  /\ call \in [Clients -> CallType]
  /\ queue \in Seq([client : Clients \cup {Nobody}, op : Op]) /\ Len(queue) <= Capacity
  /\ {running, adapter, done, unhealthy} \subseteq BOOLEAN
  /\ streak \in 0 .. Threshold
  /\ recent \in Seq(Ending) /\ Len(recent) <= Threshold

\* "Two consecutive transport failures stop a live session; data failures
\* reset the count": the session is given up exactly when the last Threshold
\* reads all failed at the transport, whoever asked for them and whether or
\* not anyone waited for the answer.
UnhealthyAfterConsecutiveFailures ==
  unhealthy <=> Len(recent) = Threshold /\ \A i \in 1 .. Threshold : recent[i] = "transport"

\* Every read that is answered after the session was given up says so, the
\* ones that were queued before included: its caller must not go on.
GivenUpIsTold ==
  [][\A c \in Clients :
       call[c].status = "waiting" /\ call[c].op = "read" /\ unhealthy' =>
         call'[c].answer \in {"none", "unhealthy", "closed"}]_vars

\* A call is answered or told that the session is closed.
CallsAreAnswered ==
  \A c \in Clients : call[c].status \in {"sending", "waiting"} ~> call[c].status \in {"idle", "gone"}

\* A session that everybody has dropped releases the adapter, although it
\* first works off the cancelled calls in its queue.
AdapterIsReleased ==
  (\A c \in Clients : call[c].status = "gone") ~> ~adapter
=============================================================================
