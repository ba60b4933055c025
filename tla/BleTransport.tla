---------------------------- MODULE BleTransport ----------------------------
(***************************************************************************)
(* android/.../BleTransport.java: one GATT connection and the exchange of  *)
(* one command for the text up to the prompt.  A link is a value           *)
(*   state    "new", "connecting", "ready", "lost" or "closed"             *)
(*   waiting  an exchange is waiting for the prompt                        *)
(*   air      the answers under way: to the exchange that is waiting       *)
(*            ("own") or to one that was given up ("old")                  *)
(* and the operators are the methods and callbacks, each one a block under *)
(* the transport's lock.  "lost" is `failure` set by a callback: the link  *)
(* is unusable but nobody has closed it yet.  The adapter answers a        *)
(* command once, in order, and at any time.  The parts of a write and the  *)
(* 8 KiB limit are among the ways an exchange fails.                       *)
(***************************************************************************)
LinkStates == {"new", "connecting", "ready", "lost", "closed"}

BleLinks == [state : LinkStates, waiting : BOOLEAN, air : SUBSET {"own", "old"}]

NewLink == [state |-> "new", waiting |-> FALSE, air |-> {}]

\* Nothing that arrives later is looked at: every callback returns at once.
Closed(b) == [b EXCEPT !.state = "closed", !.air = {}]

IsOpen(b) == b.state = "ready"

\* connectGatt, and the callbacks that end with notifications switched on.
ConnectGatt(b) == [b EXCEPT !.state = "connecting"]

Subscribed(b) == [b EXCEPT !.state = "ready"]

\* onConnectionStateChange and every other callback that sets `failure`.
LinkLost(b) == [b EXCEPT !.state = "lost"]

\* exchange: what was received so far is dropped and the command is written.
Written(b) ==
    [b EXCEPT !.waiting = TRUE,
              !.air = IF @ = {} THEN {"own"} ELSE {"own", "old"}]

\* The adapter's answers arrive in the order of their commands.
Arriving(b) == IF "old" \in b.air THEN "old" ELSE "own"

\* accept, and the waiting exchange returning with the text up to the prompt.
Accepted(b) == [b EXCEPT !.waiting = FALSE, !.air = @ \ {Arriving(b)}]

\* accept when no exchange is waiting: the text is dropped.
Dropped(b) == [b EXCEPT !.air = @ \ {Arriving(b)}]

\* A defect: the exchange that gave up leaves the link open.
GivenUpOpen(b) == [b EXCEPT !.waiting = FALSE]

\* An exchange that fails closes the link: a late prompt cannot be told from
\* the answer to the next command.
GivenUp(b) == [Closed(b) EXCEPT !.waiting = FALSE]
=============================================================================
