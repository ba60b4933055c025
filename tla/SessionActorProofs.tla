------------------------- MODULE SessionActorProofs -------------------------
(***************************************************************************)
(* Theorems about SessionActor for every set of clients, every capacity of *)
(* the command channel and every failure threshold.                        *)
(***************************************************************************)
EXTENDS SessionActor, SequenceTheorems, TLAPS

Entry == [client : Clients \cup {Nobody}, op : Op]

\* The failure count is the length of the run of transport failures at the
\* end of the reads that were served, and reaching the threshold gives up.
HealthInv ==
  /\ unhealthy <=> streak = Threshold
  /\ streak <= Len(recent)
  /\ \A i \in 1 .. Len(recent) : i > Len(recent) - streak => recent[i] = "transport"
  /\ streak < Len(recent) => recent[Len(recent) - streak] # "transport"

\* A queued command belongs to nobody or to the one call that waits for it.
QueueInv ==
  /\ \A i \in 1 .. Len(queue) : queue[i].client \in Clients =>
       /\ call[queue[i].client].status = "waiting"
       /\ call[queue[i].client].op = queue[i].op
  /\ \A i, j \in 1 .. Len(queue) :
       queue[i].client = queue[j].client /\ queue[i].client \in Clients => i = j

\* A call that waits has its command in the channel, and has no answer yet.
CallInv ==
  \A c \in Clients :
    /\ call[c].status = "waiting" => \E i \in 1 .. Len(queue) : queue[i].client = c
    /\ call[c].status \in {"sending", "waiting"} => call[c].answer = "none"

\* The adapter is let go of once, and never kept by a task that has given up
\* or returned.
AdapterInv ==
  /\ done <=> ~adapter
  /\ unhealthy => done
  /\ ~running => done /\ queue = <<>>

Inv == TypeOK /\ HealthInv /\ QueueInv /\ CallInv /\ AdapterInv

-----------------------------------------------------------------------------
(***************************************************************************)
(* Helpers of the model.                                                   *)
(***************************************************************************)
\* A call that returns is well formed and has the given answer.
LEMMA ReturnedType ==
  ASSUME NEW k \in CallType, NEW answer \in Answer
  PROVE  /\ Returned(k, answer) \in CallType
         /\ Returned(k, answer).status \in {"idle", "gone"}
         /\ Returned(k, answer).op = k.op
         /\ Returned(k, answer).answer = answer
BY DEF Returned, Call, CallType, Status, Op, Answer

\* A reply changes the call of the client it is for, if there still is one.
LEMMA ReplyToEffect ==
  ASSUME call \in [Clients -> CallType], NEW c, NEW answer \in Answer
  PROVE  /\ ReplyTo(c, answer) \in [Clients -> CallType]
         /\ \A d \in Clients : d # c => ReplyTo(c, answer)[d] = call[d]
         /\ c \in Clients => ReplyTo(c, answer)[c] = Returned(call[c], answer)
BY ReturnedType DEF ReplyTo

\* Dropping a reply receiver keeps the commands and their order.
LEMMA ForgetEffect ==
  ASSUME TypeOK, NEW c \in Clients
  PROVE  /\ Forget(c) \in Seq(Entry)
         /\ Len(Forget(c)) = Len(queue)
         /\ \A i \in 1 .. Len(queue) :
              /\ Forget(c)[i].op = queue[i].op
              /\ Forget(c)[i].client = IF queue[i].client = c THEN Nobody ELSE queue[i].client
<1>1. queue \in Seq(Entry) /\ Len(queue) \in Nat
  BY DEF TypeOK, Entry
<1>2. \A i \in 1 .. Len(queue) : queue[i] \in Entry
  BY <1>1
<1>3. Forget(c) \in [1 .. Len(queue) -> Entry]
  BY <1>2 DEF Forget, Entry
<1>4. Forget(c) \in Seq(Entry) /\ Len(Forget(c)) = Len(queue)
  BY <1>1, <1>3
<1>5. ASSUME NEW i \in 1 .. Len(queue)
      PROVE  /\ Forget(c)[i].op = queue[i].op
             /\ Forget(c)[i].client = IF queue[i].client = c THEN Nobody ELSE queue[i].client
  BY <1>2 DEF Forget, Entry
<1> QED
  BY <1>4, <1>5

\* The history after one more read: its last entry is the new one, and the
\* others have moved by one if it was full.
LEMMA LatestEffect ==
  ASSUME NEW rs \in Seq(Ending), Len(rs) <= Threshold, NEW r \in Ending
  PROVE  LET shift == IF Len(rs) < Threshold THEN 0 ELSE 1
         IN  /\ Latest(rs, r) \in Seq(Ending)
             /\ Len(Latest(rs, r)) = Len(rs) + 1 - shift
             /\ Latest(rs, r)[Len(rs) + 1 - shift] = r
             /\ \A i \in 1 .. Len(rs) - shift : Latest(rs, r)[i] = rs[i + shift]
<1>1. Threshold \in Nat \ {0} /\ Len(rs) \in Nat
  BY SessionAssumption
<1>2. CASE Len(rs) < Threshold
  BY <1>1, <1>2 DEF Latest
<1>3. CASE ~(Len(rs) < Threshold)
  <2>1. rs # <<>> /\ Len(rs) = Threshold
    BY <1>1, <1>3
  <2>2. /\ Tail(rs) \in Seq(Ending)
        /\ Len(Tail(rs)) = Len(rs) - 1
        /\ \A i \in 1 .. Len(rs) - 1 : Tail(rs)[i] = rs[i + 1]
    BY <1>1, <2>1
  <2>3. Latest(rs, r) = Append(Tail(rs), r)
    BY <1>3 DEF Latest
  <2> HIDE DEF Latest
  <2>4. /\ Append(Tail(rs), r) \in Seq(Ending)
        /\ Len(Append(Tail(rs), r)) = Len(rs)
        /\ Append(Tail(rs), r)[Len(rs)] = r
        /\ \A i \in 1 .. Len(rs) - 1 : Append(Tail(rs), r)[i] = Tail(rs)[i]
    BY <1>1, <2>1, <2>2
  <2> QED
    BY <1>1, <1>3, <2>2, <2>3, <2>4
<1> QED
  BY <1>2, <1>3

-----------------------------------------------------------------------------
(***************************************************************************)
(* The inductive invariant.                                                *)
(***************************************************************************)
\* A session that has just been handed out.
LEMMA InitInv == Init => Inv
<1> SUFFICES ASSUME Init PROVE Inv
  OBVIOUS
<1>1. TypeOK
  <2>1. Call("idle", "query", "none") \in CallType
    BY DEF Call, CallType, Status, Op, Answer
  <2>2. call \in [Clients -> CallType]
    BY <2>1 DEF Init
  <2>3. {running, adapter, done, unhealthy} \subseteq BOOLEAN
    BY DEF Init
  <2> QED
    BY <2>2, <2>3, SessionAssumption DEF Init, TypeOK
<1>2. HealthInv
  BY SessionAssumption DEF Init, HealthInv
<1>3. QueueInv /\ CallInv /\ AdapterInv
  BY DEF Init, QueueInv, CallInv, AdapterInv, Call
<1> QED
  BY <1>1, <1>2, <1>3 DEF Inv

\* What every step of a client leaves alone.
LEMMA ActorUnchanged ==
  ASSUME Inv, UNCHANGED actorVars
  PROVE  /\ HealthInv'
         /\ {running', adapter', done', unhealthy'} \subseteq BOOLEAN
         /\ streak' \in 0 .. Threshold
         /\ recent' \in Seq(Ending) /\ Len(recent') <= Threshold
BY DEF Inv, HealthInv, TypeOK, actorVars

\* Begin, SendClosed and DropClient touch a call that has nothing queued.
LEMMA UnqueuedCallInv ==
  ASSUME Inv, NEW c \in Clients, call[c].status # "waiting",
         NEW k \in CallType, k.status # "waiting",
         k.status = "sending" => k.answer = "none",
         call' = [call EXCEPT ![c] = k],
         UNCHANGED <<queue, actorVars>>
  PROVE  Inv'
<1>1. TypeOK /\ call \in [Clients -> CallType]
  BY DEF Inv, TypeOK
<1>2. call'[c] = k /\ \A d \in Clients : d # c => call'[d] = call[d]
  BY <1>1
<1>3. TypeOK'
  BY <1>1, ActorUnchanged DEF TypeOK
<1>4. QueueInv'
  BY <1>2 DEF Inv, QueueInv
<1>5. CallInv'
  BY <1>2 DEF Inv, CallInv
<1>6. AdapterInv'
  BY DEF Inv, AdapterInv, actorVars
<1> QED
  BY <1>3, <1>4, <1>5, <1>6, ActorUnchanged DEF Inv

\* A command goes to the end of the channel, and its caller waits for it.
LEMMA EnqueueInv ==
  ASSUME Inv, NEW c \in Clients, Enqueue(c)
  PROVE  Inv'
<1>1. TypeOK /\ call \in [Clients -> CallType] /\ queue \in Seq(Entry) /\ Len(queue) \in Nat
  BY DEF Inv, TypeOK, Entry
<1>2. /\ call[c].status = "sending" /\ running /\ Len(queue) < Capacity
      /\ queue' = Append(queue, [client |-> c, op |-> call[c].op])
      /\ call' = [call EXCEPT ![c].status = "waiting"]
      /\ UNCHANGED actorVars
  BY DEF Enqueue
<1>3. /\ call' \in [Clients -> CallType]
      /\ call'[c].status = "waiting" /\ call'[c].op = call[c].op
      /\ call'[c].answer = call[c].answer
      /\ \A d \in Clients : d # c => call'[d] = call[d]
  BY <1>1, <1>2 DEF CallType, Status
<1>4. [client |-> c, op |-> call[c].op] \in Entry
  BY <1>1 DEF Entry, CallType
<1>5. /\ queue' \in Seq(Entry) /\ Len(queue') = Len(queue) + 1
      /\ queue'[Len(queue) + 1] = [client |-> c, op |-> call[c].op]
      /\ \A i \in 1 .. Len(queue) : queue'[i] = queue[i]
  BY <1>1, <1>2, <1>4
<1>6. TypeOK'
  BY <1>1, <1>2, <1>3, <1>5, SessionAssumption, ActorUnchanged DEF TypeOK, Entry
<1>7. \A i \in 1 .. Len(queue) : queue[i].client # c
  BY <1>2 DEF Inv, QueueInv
<1>8. QueueInv'
  <2>1. ASSUME NEW i \in 1 .. Len(queue'), queue'[i].client \in Clients
        PROVE  /\ call'[queue'[i].client].status = "waiting"
               /\ call'[queue'[i].client].op = queue'[i].op
    <3>1. CASE i = Len(queue) + 1
      BY <1>3, <1>5, <3>1
    <3>2. CASE i \in 1 .. Len(queue)
      BY <1>3, <1>5, <1>7, <2>1, <3>2 DEF Inv, QueueInv
    <3> QED
      BY <1>1, <1>5, <3>1, <3>2
  <2>2. ASSUME NEW i \in 1 .. Len(queue'), NEW j \in 1 .. Len(queue'),
               queue'[i].client = queue'[j].client, queue'[i].client \in Clients
        PROVE  i = j
    BY <1>1, <1>5, <1>7, <2>2 DEF Inv, QueueInv
  <2> QED
    BY <2>1, <2>2 DEF QueueInv
<1>9. CallInv'
  <2>1. ASSUME NEW d \in Clients, call'[d].status = "waiting"
        PROVE  \E i \in 1 .. Len(queue') : queue'[i].client = d
    <3>1. CASE d = c
      BY <1>1, <1>5, <3>1
    <3>2. CASE d # c
      <4>1. PICK i \in 1 .. Len(queue) : queue[i].client = d
        BY <1>3, <2>1, <3>2 DEF Inv, CallInv
      <4> QED
        BY <1>1, <1>5, <4>1
    <3> QED
      BY <3>1, <3>2
  <2>2. ASSUME NEW d \in Clients, call'[d].status \in {"sending", "waiting"}
        PROVE  call'[d].answer = "none"
    BY <1>2, <1>3, <2>2 DEF Inv, CallInv
  <2> QED
    BY <2>1, <2>2 DEF CallInv
<1>10. AdapterInv'
  BY <1>2 DEF Inv, AdapterInv, actorVars
<1> QED
  BY <1>2, <1>6, <1>8, <1>9, <1>10, ActorUnchanged DEF Inv

\* A cancelled call leaves its command in the channel, owned by nobody.
LEMMA CancelInv ==
  ASSUME Inv, NEW c \in Clients, Cancel(c)
  PROVE  Inv'
<1>1. TypeOK /\ call \in [Clients -> CallType] /\ Len(queue) \in Nat
  BY DEF Inv, TypeOK
<1>2. /\ queue' = Forget(c)
      /\ call' = [call EXCEPT ![c] = Returned(call[c], "none")]
      /\ UNCHANGED actorVars
  BY DEF Cancel
<1>3. /\ call' \in [Clients -> CallType]
      /\ call'[c].status \in {"idle", "gone"}
      /\ \A d \in Clients : d # c => call'[d] = call[d]
  BY <1>1, <1>2, ReturnedType DEF Answer
<1>4. /\ queue' \in Seq(Entry) /\ Len(queue') = Len(queue)
      /\ \A i \in 1 .. Len(queue) :
           /\ queue'[i].op = queue[i].op
           /\ queue'[i].client = IF queue[i].client = c THEN Nobody ELSE queue[i].client
  BY <1>1, <1>2, ForgetEffect
<1>5. TypeOK'
  BY <1>1, <1>2, <1>3, <1>4, ActorUnchanged DEF TypeOK, Entry
<1>6. QueueInv'
  BY <1>3, <1>4, SessionAssumption DEF Inv, QueueInv
<1>7. CallInv'
  BY <1>3, <1>4 DEF Inv, CallInv
<1>8. AdapterInv'
  <2>1. queue = <<>> => queue' = <<>>
    BY <1>4
  <2> QED
    BY <1>2, <2>1 DEF Inv, AdapterInv, actorVars
<1> QED
  BY <1>2, <1>5, <1>6, <1>7, <1>8, ActorUnchanged DEF Inv

\* A command is taken from the channel and its caller, if it still waits, is
\* answered: the commands and calls of all the others are untouched.
LEMMA ServedInv ==
  ASSUME Inv, queue # <<>>, queue' = Tail(queue),
         NEW answer \in Answer, call' = ReplyTo(Head(queue).client, answer)
  PROVE  /\ call' \in [Clients -> CallType]
         /\ queue' \in Seq(Entry) /\ Len(queue') <= Capacity
         /\ QueueInv' /\ CallInv'
<1> DEFINE h == Head(queue).client
<1>1. /\ TypeOK /\ call \in [Clients -> CallType] /\ queue \in Seq(Entry)
      /\ Len(queue) \in Nat /\ Len(queue) <= Capacity
  BY DEF Inv, TypeOK, Entry
<1>2. /\ queue' \in Seq(Entry) /\ Len(queue') = Len(queue) - 1
      /\ Len(queue) > 0 /\ h = queue[1].client
      /\ \A i \in 1 .. Len(queue) - 1 : queue'[i] = queue[i + 1]
  BY <1>1
<1> HIDE DEF h
<1>3. /\ call' \in [Clients -> CallType]
      /\ \A d \in Clients : d # h => call'[d] = call[d]
      /\ h \in Clients => call'[h].status \in {"idle", "gone"}
  BY <1>1, ReplyToEffect, ReturnedType DEF h
<1>4. \A i \in 2 .. Len(queue) : queue[i].client \in Clients => queue[i].client # h
  BY <1>1, <1>2 DEF Inv, QueueInv
<1>5. QueueInv'
  <2>1. ASSUME NEW i \in 1 .. Len(queue'), queue'[i].client \in Clients
        PROVE  /\ call'[queue'[i].client].status = "waiting"
               /\ call'[queue'[i].client].op = queue'[i].op
    <3>1. i + 1 \in 2 .. Len(queue) /\ i + 1 \in 1 .. Len(queue) /\ queue'[i] = queue[i + 1]
      BY <1>1, <1>2
    <3> QED
      BY <1>3, <1>4, <2>1, <3>1 DEF Inv, QueueInv
  <2>2. ASSUME NEW i \in 1 .. Len(queue'), NEW j \in 1 .. Len(queue'),
               queue'[i].client = queue'[j].client, queue'[i].client \in Clients
        PROVE  i = j
    <3>1. i + 1 \in 1 .. Len(queue) /\ queue'[i] = queue[i + 1]
      BY <1>1, <1>2
    <3>2. j + 1 \in 1 .. Len(queue) /\ queue'[j] = queue[j + 1]
      BY <1>1, <1>2
    <3>3. i + 1 = j + 1
      BY <2>2, <3>1, <3>2 DEF Inv, QueueInv
    <3> QED
      BY <1>1, <1>2, <3>3
  <2> QED
    BY <2>1, <2>2 DEF QueueInv
<1>6. CallInv'
  <2>1. ASSUME NEW d \in Clients, call'[d].status = "waiting"
        PROVE  \E i \in 1 .. Len(queue') : queue'[i].client = d
    <3>1. d # h
      BY <1>3, <2>1
    <3>2. PICK i \in 1 .. Len(queue) : queue[i].client = d
      BY <1>3, <2>1, <3>1 DEF Inv, CallInv
    <3>3. i # 1 /\ i - 1 \in 1 .. Len(queue) - 1 /\ (i - 1) + 1 = i
      BY <1>1, <1>2, <3>1, <3>2
    <3>4. queue'[i - 1] = queue[i]
      BY <1>2, <3>3
    <3> QED
      BY <1>2, <3>2, <3>3, <3>4
  <2>2. ASSUME NEW d \in Clients, call'[d].status \in {"sending", "waiting"}
        PROVE  call'[d].answer = "none"
    BY <1>3, <2>2 DEF Inv, CallInv
  <2> QED
    BY <2>1, <2>2 DEF CallInv
<1> QED
  BY <1>1, <1>2, <1>3, <1>5, <1>6, SessionAssumption

\* RefuseRead and ServeQuery answer without touching the adapter.
LEMMA AnsweredInv ==
  ASSUME Inv, queue # <<>>, queue' = Tail(queue), running,
         NEW answer \in Answer, call' = ReplyTo(Head(queue).client, answer),
         UNCHANGED actorVars
  PROVE  Inv'
<1>1. TypeOK'
  BY ServedInv, ActorUnchanged DEF TypeOK, Entry
<1>2. AdapterInv'
  BY DEF Inv, AdapterInv, actorVars
<1> QED
  BY <1>1, <1>2, ServedInv, ActorUnchanged DEF Inv

\* A read counts: the failure count stays the run of transport failures at
\* the end of the history.
LEMMA ServeReadHealth ==
  ASSUME Inv, NEW ending \in Ending, ServeRead(ending)
  PROVE  /\ streak' \in 0 .. Threshold
         /\ recent' \in Seq(Ending) /\ Len(recent') <= Threshold
         /\ HealthInv'
<1> DEFINE n == Len(recent)
           shift == IF n < Threshold THEN 0 ELSE 1
<1>1. /\ recent \in Seq(Ending) /\ n \in Nat /\ n <= Threshold
      /\ streak \in 0 .. Threshold /\ Threshold \in Nat \ {0}
  BY SessionAssumption DEF Inv, TypeOK
<1>2. /\ ~unhealthy
      /\ recent' = Latest(recent, ending)
      /\ streak' = Streak(ending)
      /\ IF streak' < Threshold THEN UNCHANGED unhealthy ELSE unhealthy' = TRUE
  BY DEF ServeRead
<1>3. /\ streak < Threshold /\ streak <= n
      /\ \A i \in 1 .. n : i > n - streak => recent[i] = "transport"
      /\ streak < n => recent[n - streak] # "transport"
  BY <1>1, <1>2 DEF Inv, HealthInv
<1>4. /\ recent' \in Seq(Ending)
      /\ Len(recent') = n + 1 - shift
      /\ recent'[n + 1 - shift] = ending
      /\ \A i \in 1 .. n - shift : recent'[i] = recent[i + shift]
  BY <1>1, <1>2, LatestEffect
<1>5. n + 1 - shift <= Threshold
  BY <1>1
<1>6. CASE ending = "transport"
  <2>1. streak' = streak + 1
    BY <1>2, <1>6 DEF Streak
  <2>2. /\ \A i \in 1 .. Len(recent') : i > Len(recent') - streak' => recent'[i] = "transport"
        /\ streak' < Len(recent') => recent'[Len(recent') - streak'] # "transport"
        /\ streak' <= Len(recent')
    <3>1. ASSUME NEW i \in 1 .. Len(recent'), i > Len(recent') - streak'
          PROVE  recent'[i] = "transport"
      <4>1. CASE i = n + 1 - shift
        BY <1>4, <1>6, <4>1
      <4>2. CASE i # n + 1 - shift
        <5>1. i \in 1 .. n - shift /\ i + shift \in 1 .. n /\ i + shift > n - streak
          BY <1>1, <1>4, <2>1, <3>1, <4>2
        <5> QED
          BY <1>3, <1>4, <5>1
      <4> QED
        BY <4>1, <4>2
    <3>2. ASSUME streak' < Len(recent')
          PROVE  recent'[Len(recent') - streak'] # "transport"
      <4>1. /\ Len(recent') - streak' = n - shift - streak
            /\ n - shift - streak \in 1 .. n - shift
            /\ (n - shift - streak) + shift = n - streak
            /\ streak < n
        BY <1>1, <1>4, <2>1, <3>2
      <4> QED
        BY <1>3, <1>4, <4>1
    <3>3. streak' <= Len(recent')
      BY <1>1, <1>3, <1>4, <2>1
    <3> QED
      BY <3>1, <3>2, <3>3
  <2>3. unhealthy' <=> streak' = Threshold
    BY <1>1, <1>2, <1>3, <2>1
  <2> QED
    BY <1>1, <1>3, <1>4, <1>5, <2>1, <2>2, <2>3 DEF HealthInv
<1>7. CASE ending # "transport"
  <2>1. streak' = 0
    BY <1>2, <1>7 DEF Streak
  <2>2. Len(recent') - streak' = n + 1 - shift /\ Len(recent') > 0
    BY <1>1, <1>4, <2>1
  <2>3. unhealthy' <=> streak' = Threshold
    BY <1>1, <1>2, <2>1
  <2> QED
    BY <1>1, <1>4, <1>5, <1>7, <2>1, <2>2, <2>3 DEF HealthInv
<1> QED
  BY <1>6, <1>7

\* A read that is served keeps the invariant, giving up included.
LEMMA ServeReadInv ==
  ASSUME Inv, NEW ending \in Ending, ServeRead(ending)
  PROVE  Inv'
<1>1. /\ running /\ queue # <<>> /\ queue' = Tail(queue) /\ UNCHANGED running
      /\ \E answer \in Answer : call' = ReplyTo(Head(queue).client, answer)
  BY DEF ServeRead, Answer
<1>2. /\ call' \in [Clients -> CallType]
      /\ queue' \in Seq(Entry) /\ Len(queue') <= Capacity
      /\ QueueInv' /\ CallInv'
  BY <1>1, ServedInv
<1>3. \/ UNCHANGED <<adapter, done, unhealthy>>
      \/ done' = TRUE /\ adapter' = FALSE /\ unhealthy' = TRUE
  BY DEF ServeRead, Disconnect
<1>4. /\ {running', adapter', done', unhealthy'} \subseteq BOOLEAN
  BY <1>1, <1>3 DEF Inv, TypeOK
<1>5. TypeOK'
  BY <1>2, <1>4, ServeReadHealth DEF TypeOK, Entry
<1>6. AdapterInv'
  BY <1>1, <1>3 DEF Inv, AdapterInv
<1> QED
  BY <1>2, <1>5, <1>6, ServeReadHealth DEF Inv

\* The task that returns empties the channel: no call is left waiting.
LEMMA ServeShutdownInv ==
  ASSUME Inv, ServeShutdown
  PROVE  Inv'
<1> DEFINE h == Head(queue).client
           cs == ReplyTo(h, "ok")
<1>1. /\ TypeOK /\ call \in [Clients -> CallType] /\ queue \in Seq(Entry)
      /\ Len(queue) \in Nat /\ queue # <<>> /\ h = queue[1].client
  BY DEF Inv, TypeOK, Entry, ServeShutdown
<1>2. /\ queue' = <<>> /\ call' = Abandon(cs) /\ running' = FALSE
      /\ UNCHANGED <<streak, unhealthy, recent>>
      /\ \/ done /\ UNCHANGED <<adapter, done>>
         \/ done' = TRUE /\ adapter' = FALSE
  BY DEF ServeShutdown, Disconnect
<1>3. /\ cs \in [Clients -> CallType]
      /\ \A d \in Clients : d # h => cs[d] = call[d]
      /\ h \in Clients => cs[h] = Returned(call[h], "ok")
  BY <1>1, ReplyToEffect DEF Answer
<1> HIDE DEF h, cs
<1>4. ASSUME NEW d \in Clients
      PROVE  /\ call'[d] \in CallType
             /\ call'[d].status # "waiting"
             /\ call'[d].status = "sending" => call'[d].answer = "none"
  <2>1. CASE \E i \in 2 .. Len(queue) : queue[i].client = d
    <3>1. call'[d] = Returned(cs[d], "closed")
      BY <1>2, <2>1 DEF Abandon
    <3>2. cs[d] \in CallType
      BY <1>3
    <3> QED
      BY <3>1, <3>2, ReturnedType DEF Answer
  <2>2. CASE ~\E i \in 2 .. Len(queue) : queue[i].client = d
    <3>1. call'[d] = cs[d]
      BY <1>2, <2>2 DEF Abandon
    <3>2. CASE d = h
      <4>1. call[h] \in CallType
        BY <1>1, <3>2
      <4> QED
        BY <1>3, <3>1, <3>2, <4>1, ReturnedType DEF Answer
    <3>3. CASE d # h
      <4>1. call'[d] = call[d]
        BY <1>3, <3>1, <3>3
      <4>2. call[d].status # "waiting"
        <5> SUFFICES ASSUME call[d].status = "waiting" PROVE FALSE
          OBVIOUS
        <5>1. PICK i \in 1 .. Len(queue) : queue[i].client = d
          BY DEF Inv, CallInv
        <5>2. i # 1 /\ i \in 2 .. Len(queue)
          BY <1>1, <3>3, <5>1
        <5> QED
          BY <2>2, <5>1, <5>2
      <4> QED
        BY <1>1, <4>1, <4>2 DEF Inv, CallInv
    <3> QED
      BY <3>2, <3>3
  <2> QED
    BY <2>1, <2>2
<1>5. call' \in [Clients -> CallType]
  <2>1. call' = [d \in Clients |-> call'[d]]
    BY <1>2 DEF Abandon
  <2> QED
    BY <1>4, <2>1
<1>6. TypeOK'
  <2>1. {running', adapter', done', unhealthy'} \subseteq BOOLEAN
    BY <1>1, <1>2 DEF TypeOK
  <2>2. queue' \in Seq([client : Clients \cup {Nobody}, op : Op]) /\ Len(queue') <= Capacity
    BY <1>2, SessionAssumption
  <2> QED
    BY <1>1, <1>2, <1>5, <2>1, <2>2 DEF TypeOK
<1>7. HealthInv'
  BY <1>2 DEF Inv, HealthInv
<1>8. QueueInv'
  BY <1>2 DEF QueueInv
<1>9. CallInv'
  BY <1>4 DEF CallInv
<1>10. AdapterInv'
  BY <1>2 DEF Inv, AdapterInv
<1> QED
  BY <1>6, <1>7, <1>8, <1>9, <1>10 DEF Inv

\* The task that returns because every client is gone.
LEMMA ExitInv ==
  ASSUME Inv, Exit
  PROVE  Inv'
<1>1. /\ queue = <<>> /\ running' = FALSE
      /\ UNCHANGED <<call, queue, streak, unhealthy, recent>>
      /\ \/ done /\ UNCHANGED <<adapter, done>>
         \/ done' = TRUE /\ adapter' = FALSE
  BY DEF Exit, Disconnect
<1>2. {running', adapter', done', unhealthy'} \subseteq BOOLEAN
  BY <1>1 DEF Inv, TypeOK
<1>3. TypeOK'
  BY <1>1, <1>2 DEF Inv, TypeOK
<1>4. HealthInv' /\ QueueInv' /\ CallInv'
  BY <1>1 DEF Inv, HealthInv, QueueInv, CallInv
<1>5. AdapterInv'
  BY <1>1 DEF Inv, AdapterInv
<1> QED
  BY <1>3, <1>4, <1>5 DEF Inv

\* Every step keeps the inductive invariant.
LEMMA NextInv == Inv /\ [Next]_vars => Inv'
<1> SUFFICES ASSUME Inv, [Next]_vars PROVE Inv'
  OBVIOUS
<1>1. call \in [Clients -> CallType]
  BY DEF Inv, TypeOK
<1>2. ASSUME NEW c \in Clients, NEW op \in Op, Begin(c, op) PROVE Inv'
  BY <1>2, UnqueuedCallInv DEF Begin, Call, CallType, Status, Answer
<1>3. ASSUME NEW c \in Clients, Enqueue(c) PROVE Inv'
  BY <1>3, EnqueueInv
<1>4. ASSUME NEW c \in Clients, SendClosed(c) PROVE Inv'
  <2>1. "closed" \in Answer /\ call[c] \in CallType
    BY <1>1 DEF Answer
  <2> QED
    BY <1>4, <2>1, ReturnedType, UnqueuedCallInv DEF SendClosed
<1>5. ASSUME NEW c \in Clients, Cancel(c) PROVE Inv'
  BY <1>5, CancelInv
<1>6. ASSUME NEW c \in Clients, DropClient(c) PROVE Inv'
  <2>1. Call("gone", call[c].op, "none") \in CallType
    BY <1>1 DEF Call, CallType, Status, Answer
  <2>2. Call("gone", call[c].op, "none").status = "gone"
    BY DEF Call
  <2> QED
    BY <1>6, <2>1, <2>2, UnqueuedCallInv DEF DropClient
<1>7. ASSUME NEW ending \in Ending, ServeRead(ending) PROVE Inv'
  BY <1>7, ServeReadInv
<1>8. CASE RefuseRead
  BY <1>8, AnsweredInv DEF RefuseRead, Answer
<1>9. CASE ServeQuery
  BY <1>9, AnsweredInv DEF ServeQuery, Answer
<1>10. CASE ServeShutdown
  BY <1>10, ServeShutdownInv
<1>11. CASE Exit
  BY <1>11, ExitInv
<1>12. CASE UNCHANGED vars
  BY <1>12 DEF vars, Inv, TypeOK, HealthInv, QueueInv, CallInv, AdapterInv
<1> QED
  BY <1>2, <1>3, <1>4, <1>5, <1>6, <1>7, <1>8, <1>9, <1>10, <1>11, <1>12 DEF Next, Serve

\* The inductive invariant holds in every reachable state.
LEMMA AlwaysInv == Spec => []Inv
BY InitInv, NextInv, PTL DEF Spec

-----------------------------------------------------------------------------
(***************************************************************************)
(* The results.                                                            *)
(***************************************************************************)
\* The channel never holds more than its capacity, the failure count never
\* passes the threshold, and every call and command is well formed.
THEOREM TypeCorrect == Spec => []TypeOK
<1>1. Inv => TypeOK
  BY DEF Inv
<1> QED
  BY <1>1, AlwaysInv, PTL

\* SessionHealth gives the session up exactly when the last Threshold reads
\* failed at the transport, whoever asked for them.
THEOREM GivenUpExactly == Spec => []UnhealthyAfterConsecutiveFailures
<1>1. Inv => UnhealthyAfterConsecutiveFailures
  <2> SUFFICES ASSUME Inv
               PROVE  unhealthy <=> /\ Len(recent) = Threshold
                                    /\ \A i \in 1 .. Threshold : recent[i] = "transport"
    BY DEF UnhealthyAfterConsecutiveFailures
  <2>1. /\ Threshold \in Nat \ {0} /\ streak \in 0 .. Threshold
        /\ Len(recent) \in Nat /\ Len(recent) <= Threshold
    BY SessionAssumption DEF Inv, TypeOK
  <2>2. CASE unhealthy
    BY <2>1, <2>2 DEF Inv, HealthInv
  <2>3. CASE ~unhealthy
    <3>1. streak < Threshold
      BY <2>1, <2>3 DEF Inv, HealthInv
    <3>2. Len(recent) = Threshold =>
            Threshold - streak \in 1 .. Threshold /\ recent[Threshold - streak] # "transport"
      BY <2>1, <3>1 DEF Inv, HealthInv
    <3> QED
      BY <2>3, <3>2
  <2> QED
    BY <2>2, <2>3
<1> QED
  BY <1>1, AlwaysInv, PTL

\* A call that waits has exactly one command in the channel, its own, so the
\* loop of session_actor comes to it or drops it with its reply sender: no
\* interleaving of cancellations, replies and shutdown loses a call.
WaitingIsQueued ==
  \A c \in Clients : call[c].status = "waiting" =>
    \E i \in 1 .. Len(queue) :
      /\ queue[i] = [client |-> c, op |-> call[c].op]
      /\ \A j \in 1 .. Len(queue) : queue[j].client = c => j = i

\* No call of a client is lost while it waits.
THEOREM NoCallLost == Spec => []WaitingIsQueued
<1>1. Inv => WaitingIsQueued
  <2> SUFFICES ASSUME Inv, NEW c \in Clients, call[c].status = "waiting"
               PROVE  \E i \in 1 .. Len(queue) :
                        /\ queue[i] = [client |-> c, op |-> call[c].op]
                        /\ \A j \in 1 .. Len(queue) : queue[j].client = c => j = i
    BY DEF WaitingIsQueued
  <2>1. PICK i \in 1 .. Len(queue) : queue[i].client = c
    BY DEF Inv, CallInv
  <2>2. queue[i] \in Entry
    <3>1. queue \in Seq(Entry)
      BY DEF Inv, TypeOK, Entry
    <3> QED
      BY <3>1
  <2>3. queue[i] = [client |-> c, op |-> call[c].op]
    BY <2>1, <2>2 DEF Inv, QueueInv, Entry
  <2> QED
    BY <2>1, <2>3 DEF Inv, QueueInv
<1> QED
  BY <1>1, AlwaysInv, PTL

\* A session that was given up, and a task that has returned, have let go of
\* the adapter, and nobody waits for a task that has returned.
ReleasedWhenOver ==
  /\ unhealthy \/ ~running => ~adapter
  /\ ~running => \A c \in Clients : call[c].status # "waiting"

\* disconnect_best_effort runs on every way out of session_actor.
THEOREM AdapterLetGo == Spec => []ReleasedWhenOver
<1>1. Inv => ReleasedWhenOver
  <2> SUFFICES ASSUME Inv PROVE ReleasedWhenOver
    OBVIOUS
  <2>1. unhealthy \/ ~running => ~adapter
    BY DEF Inv, AdapterInv
  <2>2. ~running => Len(queue) = 0
    BY DEF Inv, AdapterInv
  <2>3. ASSUME ~running, NEW c \in Clients PROVE call[c].status # "waiting"
    BY <2>2, <2>3 DEF Inv, CallInv
  <2> QED
    BY <2>1, <2>3 DEF ReleasedWhenOver
<1> QED
  BY <1>1, AlwaysInv, PTL

\* A reply is for the call its command came from: a call that waits is
\* touched only by its own command's reply, its cancellation or the end of
\* the task.
LEMMA WaitingCallStep ==
  ASSUME Inv, Next, NEW c \in Clients, call[c].status = "waiting", call[c].op = "read", unhealthy'
  PROVE  call'[c].answer \in {"none", "unhealthy", "closed"}
<1>1. /\ call \in [Clients -> CallType] /\ call[c].answer = "none"
      /\ queue \in Seq(Entry)
  BY DEF Inv, TypeOK, CallInv, Entry
<1>2. queue # <<>> /\ Head(queue).op # "read" => Head(queue).client # c
  <2> SUFFICES ASSUME queue # <<>>, Head(queue).client = c PROVE Head(queue).op = "read"
    OBVIOUS
  <2>1. 1 \in 1 .. Len(queue) /\ queue[1].client = c /\ Head(queue) = queue[1]
    BY <1>1
  <2> QED
    BY <2>1 DEF Inv, QueueInv
<1>3. ASSUME NEW d \in Clients, NEW k, call' = [call EXCEPT ![d] = k], d = c => k.answer \in {"none", "closed"}
      PROVE  call'[c].answer \in {"none", "unhealthy", "closed"}
  BY <1>1, <1>3
<1>4. ASSUME NEW d \in Clients, NEW op \in Op, Begin(d, op)
      PROVE  call'[c].answer \in {"none", "unhealthy", "closed"}
  BY <1>3, <1>4 DEF Begin
<1>5. ASSUME NEW d \in Clients, Enqueue(d)
      PROVE  call'[c].answer \in {"none", "unhealthy", "closed"}
  BY <1>1, <1>5 DEF Enqueue
<1>6. ASSUME NEW d \in Clients, SendClosed(d)
      PROVE  call'[c].answer \in {"none", "unhealthy", "closed"}
  BY <1>3, <1>6 DEF SendClosed
<1>7. ASSUME NEW d \in Clients, Cancel(d)
      PROVE  call'[c].answer \in {"none", "unhealthy", "closed"}
  BY <1>1, <1>3, <1>7, ReturnedType DEF Cancel, Answer
<1>8. ASSUME NEW d \in Clients, DropClient(d)
      PROVE  call'[c].answer \in {"none", "unhealthy", "closed"}
  BY <1>3, <1>8 DEF DropClient
<1>9. ASSUME NEW answer \in Answer, call' = ReplyTo(Head(queue).client, answer),
             Head(queue).client = c => answer = "unhealthy"
      PROVE  call'[c].answer \in {"none", "unhealthy", "closed"}
  BY <1>1, <1>9, ReplyToEffect, ReturnedType
<1>10. ASSUME NEW ending \in Ending, ServeRead(ending)
       PROVE  call'[c].answer \in {"none", "unhealthy", "closed"}
  <2>1. ~unhealthy
    BY <1>10 DEF ServeRead
  <2>2. ~(streak' < Threshold)
    BY <1>10, <2>1 DEF ServeRead
  <2>3. call' = ReplyTo(Head(queue).client, "unhealthy")
    BY <1>10, <2>2 DEF ServeRead
  <2> QED
    BY <1>9, <2>3 DEF Answer
<1>11. CASE RefuseRead
  BY <1>9, <1>11 DEF RefuseRead, Answer
<1>12. CASE ServeQuery
  BY <1>2, <1>9, <1>12 DEF ServeQuery, Answer
<1>13. CASE ServeShutdown
  <2> DEFINE cs == ReplyTo(Head(queue).client, "ok")
  <2>1. Head(queue).client # c /\ call' = Abandon(cs)
    BY <1>2, <1>13 DEF ServeShutdown
  <2>2. cs[c] = call[c] /\ cs[c] \in CallType
    BY <1>1, <2>1, ReplyToEffect DEF Answer
  <2> HIDE DEF cs
  <2>3. call'[c] = cs[c] \/ call'[c] = Returned(cs[c], "closed")
    BY <2>1 DEF Abandon
  <2> QED
    BY <1>1, <2>2, <2>3, ReturnedType DEF Answer
<1>14. CASE Exit
  BY <1>1, <1>14 DEF Exit
<1> QED
  BY <1>4, <1>5, <1>6, <1>7, <1>8, <1>10, <1>11, <1>12, <1>13, <1>14 DEF Next, Serve

\* Every read that is answered once the session was given up is told so, the
\* ones queued before included.
THEOREM GivenUpTold == Spec => GivenUpIsTold
<1>1. Inv /\ [Next]_vars =>
        [\A c \in Clients :
           call[c].status = "waiting" /\ call[c].op = "read" /\ unhealthy' =>
             call'[c].answer \in {"none", "unhealthy", "closed"}]_vars
  BY WaitingCallStep
<1> QED
  BY <1>1, AlwaysInv, PTL DEF Spec, GivenUpIsTold
=============================================================================
