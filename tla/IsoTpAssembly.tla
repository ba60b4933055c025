---------------------------- MODULE IsoTpAssembly ----------------------------
(***************************************************************************)
(* The normalisers of elm.rs that turn the text of one adapter answer into *)
(* application payloads per responder: normalize_mode03_responses,         *)
(* normalize_isotp_responses (UDS reads and sessions, and multi-PID        *)
(* Mode 01 reads) and normalize_mode09_responses, and targeted_payload,    *)
(* which picks the payload of a targeted read.                             *)
(*                                                                         *)
(* The text arrives line by line.  The ECUs answer in ISO-TP frames that   *)
(* interleave on the bus; on the way through the adapter a line may be     *)
(* lost, repeated, overtaken by the next one of its ECU, garbled or cut,   *)
(* and lines that are no part of the answer are mixed in.                  *)
(*                                                                         *)
(* A line is its header and its bytes, or one of the adapter's own texts.  *)
(* Of an error only the responder it names is kept.                        *)
(***************************************************************************)
EXTENDS Integers, Sequences, SequencesExt, FiniteSets

CONSTANTS
  Ecus,          \* the ECUs that answer, by their header
  NoHeader,      \* a line without a header
  BadHeader,     \* a first token of three characters that is not hexadecimal
  Body,          \* what each ECU answers after the service's own prefix
  Answering,     \* the sets of ECUs of which one answers the request
  Services,      \* which of the normalisers are exercised
  MaxFaults      \* lines damaged or mixed in

ASSUME EcusAreNotOtherHeaders == /\ IsFiniteSet(Ecus)
                                 /\ NoHeader \notin Ecus /\ BadHeader \notin Ecus
ASSUME AnsweringAreEcus == Answering \subseteq SUBSET Ecus
ASSUME MaxFaultsIsNat == MaxFaults \in Nat

VARIABLES
  service,       \* the normaliser that reads the answer
  assemblies,    \* the ISO-TP messages begun and not complete
  matches,       \* the payloads accepted, in order
  errors,        \* the responders named by an error
  done,          \* the text has ended
  wire,          \* the frames of each ECU's answer that are still to come
  faults,        \* how many lines were damaged or mixed in
  sent,          \* history: the messages each ECU has sent
  heard,         \* history: ECUs of whose answer some byte arrived
  touched,       \* history: ECUs one of whose lines was damaged or mixed in
  cut            \* history: ECUs one of whose lines lost bytes at its end

normaliser == <<service, assemblies, matches, errors, done>>
world == <<wire, faults, sent, heard, touched, cut>>
vars == <<normaliser, world>>

-----------------------------------------------------------------------------
(* What an ECU puts on the bus. *)

Prefix(s) == CASE s = "mode03" -> <<67>>
               [] s = "uds"    -> <<98, 241, 135>>
               [] s = "multi"  -> <<65, 12>>
               [] s = "mode09" -> <<73, 2>>
Answer(s, e) == Prefix(s) \o Body[e]

\* A frame is filled up to eight bytes.
Padded(frame) == frame \o [i \in 1..(8 - Len(frame)) |-> 170]

Frames(payload) ==
  LET n == Len(payload)
      Upto(k) == IF k < n THEN k ELSE n
  IN IF n < 8
     THEN << Padded(<<n>> \o payload) >>
     ELSE << <<16 + n \div 256, n % 256>> \o SubSeq(payload, 1, 6) >>
          \o [i \in 1..(n \div 7) |->
                Padded(<<32 + (i % 16)>> \o SubSeq(payload, 7 * i, Upto(7 * i + 6)))]

\* A negative answer that asks for patience, and the answer to an earlier
\* Mode 01 request that the adapter still holds.
Pending(s) == <<127, IF s = "mode03" THEN 3 ELSE IF s = "mode09" THEN 9 ELSE 34, 120>>
StaleMode01 == <<65, 4, 190, 63>>

-----------------------------------------------------------------------------
(* What a normaliser keeps while it reads: open, matches, errors. *)

So == [open |-> assemblies, matches |-> matches, errors |-> errors]

Fail(a, r) == [a EXCEPT !.errors = @ \cup {r}]
Match(a, r, payload) ==
  [a EXCEPT !.matches = Append(@, [responder |-> r, payload |-> payload])]

IsOpen(a, r) == \E i \in DOMAIN a.open : a.open[i].responder = r
\* Mutant: the message begun last, whoever sent it.
OpenedLast(a, r) == Len(a.open)
Opened(a, r) == SelectInSeq(a.open, LAMBDA x : x.responder = r)
Drop(a, r) == IF IsOpen(a, r) THEN [a EXCEPT !.open = RemoveAt(@, Opened(a, r))] ELSE a

Padding(s) == IF s = "mode03" THEN {0, 170} ELSE {0, 85, 170}
OnlyPadding(s, bytes) == \A i \in DOMAIN bytes : bytes[i] \in Padding(s)

Begins(bytes, prefix) == IsPrefix(prefix, bytes)
From(bytes, byte) == SubSeq(bytes, SelectInSeq(bytes, LAMBDA b : b = byte), Len(bytes))
First(bytes, n) == SubSeq(bytes, 1, IF n < Len(bytes) THEN n ELSE Len(bytes))

\* A Mode 03 payload is 43 00, or 43 and pairs of bytes.  Outside a completed
\* multi-frame message 43 is looked for anywhere, and what is wrong is kept
\* beside the error.
PushMode03(a, r, bytes, strict) ==
  LET found   == IF strict THEN Begins(bytes, <<67>>) ELSE Contains(bytes, 67)
      payload == From(bytes, 67)
      wellFormed == payload = <<67, 0>> \/ (Len(payload) >= 3 /\ Len(payload) % 2 = 1)
  IN IF ~found
     THEN Fail(IF strict \/ bytes = <<>> THEN a ELSE Match(a, r, bytes), r)
     ELSE IF wellFormed THEN Match(a, r, payload)
     ELSE IF strict THEN Fail(a, r) ELSE Match(Fail(a, r), r, payload)

PushUds(a, r, payload) == IF payload = <<>> THEN a ELSE Match(a, r, payload)

PushMode09(a, r, payload) ==
  IF Begins(payload, Prefix("mode09")) THEN Match(a, r, payload) ELSE Fail(a, r)

Push(s, a, r, payload, strict) ==
  CASE s = "mode03" -> PushMode03(a, r, payload, strict)
    [] s = "mode09" -> PushMode09(a, r, payload)
    [] OTHER        -> PushUds(a, r, payload)

\* What a single frame that is too short still yields.
PushShort(s, a, r, payload) ==
  CASE s = "mode03" -> IF Contains(payload, 67) THEN Match(a, r, From(payload, 67)) ELSE a
    [] s = "mode09" -> a
    [] OTHER        -> PushUds(a, r, payload)

SingleFrame(s, a, r, bytes) ==
  LET declared == bytes[1] % 16
      payload  == Tail(bytes)
      rest     == SubSeq(payload, declared + 1, Len(payload))
  IN IF declared = 0 THEN Fail(a, r)
     ELSE IF Len(payload) < declared THEN Fail(PushShort(s, a, r, payload), r)
     ELSE IF OnlyPadding(s, rest) THEN Push(s, a, r, First(payload, declared), FALSE)
     ELSE Fail(IF s \in {"uds", "multi"} THEN PushUds(a, r, First(payload, declared)) ELSE a, r)

\* A second first frame of a responder drops the message begun, except in
\* Mode 09, where it begins another one beside it.
FirstFrame(s, a, r, bytes) ==
  LET declared == (bytes[1] % 16) * 256 + bytes[2]
      payload  == SubSeq(bytes, 3, Len(bytes))
      begun    == [responder |-> r, declared |-> declared, payload |-> payload, next |-> 1]
  IN IF Len(bytes) < 3 \/ declared < 3 \/ Len(payload) >= declared THEN Fail(a, r)
     ELSE IF s # "mode09" /\ IsOpen(a, r) THEN Fail(Drop(a, r), r)
     ELSE [a EXCEPT !.open = Append(@, begun)]

\* Mutant: the sequence number of a frame is not compared.
ConsecutiveFrameUnnumbered(s, a, r, bytes) ==
  LET i    == Opened(a, r)
      x    == a.open[i]
      data == Tail(bytes)
      left == x.declared - Len(x.payload)
      payload == x.payload \o First(data, left)
  IN IF ~IsOpen(a, r) THEN Fail(a, r)
     ELSE IF Len(bytes) < 2 THEN Fail(Drop(a, r), r)
     ELSE IF Len(data) > left /\ ~OnlyPadding(s, SubSeq(data, left + 1, Len(data)))
          THEN Fail(Drop(a, r), r)
     ELSE IF Len(payload) = x.declared THEN Push(s, Drop(a, r), r, payload, TRUE)
     ELSE [a EXCEPT !.open[i] = [x EXCEPT !.payload = payload, !.next = (x.next + 1) % 16]]

ConsecutiveFrame(s, a, r, bytes) ==
  LET i    == Opened(a, r)
      x    == a.open[i]
      data == Tail(bytes)
      left == x.declared - Len(x.payload)
      payload == x.payload \o First(data, left)
  IN IF ~IsOpen(a, r) THEN Fail(a, r)
     ELSE IF Len(bytes) < 2 THEN Fail(IF s = "mode09" THEN a ELSE Drop(a, r), r)
     ELSE IF \/ bytes[1] % 16 # x.next
             \/ left <= 0
             \/ Len(data) > left /\ ~OnlyPadding(s, SubSeq(data, left + 1, Len(data)))
          THEN Fail(Drop(a, r), r)
     ELSE IF Len(payload) = x.declared THEN Push(s, Drop(a, r), r, payload, TRUE)
     ELSE [a EXCEPT !.open[i] = [x EXCEPT !.payload = payload, !.next = (x.next + 1) % 16]]

FlowControl(s, a, r) == Fail(IF s = "mode03" THEN Drop(a, r) ELSE a, r)

Unframed(s, a, r, bytes) ==
  IF s = "mode03" /\ IsOpen(a, r) THEN Fail(Drop(a, r), r)
  ELSE Push(s, a, r, bytes, FALSE)

\* An answer to a Mode 01 request is not for the UDS and Mode 09 reads: it
\* is an error that names nobody.
IsMode01(bytes) == \/ Begins(bytes, <<65>>)
                   \/ Len(bytes) > 1 /\ bytes[1] \div 16 = 0 /\ bytes[2] = 65

Frame(s, a, r, bytes) ==
  LET kind == IF bytes = <<>> THEN -1 ELSE bytes[1] \div 16
  IN CASE s \in {"uds", "mode09"} /\ IsMode01(bytes) -> Fail(a, NoHeader)
       [] kind = 0 -> SingleFrame(s, a, r, bytes)
       [] kind = 1 -> FirstFrame(s, a, r, bytes)
       [] kind = 2 -> ConsecutiveFrame(s, a, r, bytes)
       [] kind = 3 -> FlowControl(s, a, r)
       [] OTHER    -> Unframed(s, a, r, bytes)

\* A line with something else than pairs of hexadecimal digits, after bytes.
Malformed(s, a, r, bytes) ==
  LET kind == IF bytes = <<>> THEN -1 ELSE bytes[1] \div 16
      kept == IF kind = 0 THEN First(From(Tail(bytes), 67), bytes[1] % 16) ELSE From(bytes, 67)
  IN CASE s # "mode03"     -> Fail(a, r)
       [] kind \in {1, 2}  -> Fail(Drop(a, r), r)
       [] OTHER            -> Fail(IF Contains(IF kind = 0 THEN Tail(bytes) ELSE bytes, 67)
                                   THEN Match(a, r, kept) ELSE a, r)

\* NO DATA, STOPPED, ? and the like.
Status(s, a, r) == Fail(a, IF s \in {"mode03", "mode09"} THEN r ELSE NoHeader)

NotHexHeader(s, a) == Fail(a, IF s = "mode03" THEN BadHeader ELSE NoHeader)

\* The text has ended: what is still open is an error, and for UDS a match.
Closed(s, a) ==
  LET partial == [i \in DOMAIN a.open |->
                    [responder |-> a.open[i].responder, payload |-> a.open[i].payload]]
      b == [open    |-> <<>>,
            matches |-> a.matches \o (IF s \in {"uds", "multi"} THEN partial ELSE <<>>),
            errors  |-> a.errors \cup {a.open[i].responder : i \in DOMAIN a.open}]
  IN IF b.matches = <<>> /\ b.errors = {} THEN Fail(b, NoHeader) ELSE b

\* The payload a targeted read returns: the one payload of its responder.
\* The errors are not looked at.
Refused == <<>>
TargetedPayload(ms, expected) ==
  LET own == SelectSeq(ms, LAMBDA m : m.responder = expected)
  IN IF own = <<>> \/ \E i \in DOMAIN own : own[i].payload # own[1].payload
     THEN Refused ELSE own[1].payload

-----------------------------------------------------------------------------
Init ==
  /\ service \in Services
  /\ assemblies = <<>> /\ matches = <<>> /\ errors = {} /\ done = FALSE
  /\ \E answering \in Answering :
       /\ wire = [e \in Ecus |-> IF e \in answering THEN Frames(Answer(service, e)) ELSE <<>>]
       /\ sent = [e \in Ecus |-> IF e \in answering THEN {Answer(service, e)} ELSE {}]
  /\ faults = 0
  /\ heard = {} /\ touched = {} /\ cut = {}

\* One turn of the loop over the lines.
Becomes(a) ==
  /\ ~done
  /\ assemblies' = a.open /\ matches' = a.matches /\ errors' = a.errors
  /\ UNCHANGED <<service, done>>

NextLine(e) == wire[e][1]
Advance(e) == wire' = [wire EXCEPT ![e] = Tail(@)]
Fault(e) == /\ faults < MaxFaults
            /\ faults' = faults + 1
            /\ touched' = touched \cup {e}
Hear(e, bytes) == heard' = IF bytes = <<>> THEN heard ELSE heard \cup {e}

\* The next line of an ECU arrives as it was sent.
Deliver(e) ==
  /\ wire[e] # <<>>
  /\ Becomes(Frame(service, So, e, NextLine(e)))
  /\ Advance(e)
  /\ Hear(e, NextLine(e))
  /\ UNCHANGED <<faults, sent, touched, cut>>

Repeat(e) ==
  /\ wire[e] # <<>>
  /\ Becomes(Frame(service, So, e, NextLine(e)))
  /\ Fault(e)
  /\ Hear(e, NextLine(e))
  /\ UNCHANGED <<wire, sent, cut>>

Lose(e) ==
  /\ ~done /\ wire[e] # <<>>
  /\ Advance(e)
  /\ Fault(e)
  /\ UNCHANGED <<normaliser, sent, heard, cut>>

Overtake(e) ==
  /\ ~done /\ Len(wire[e]) > 1
  /\ wire' = [wire EXCEPT ![e] = <<@[2], @[1]>> \o SubSeq(@, 3, Len(@))]
  /\ Fault(e)
  /\ UNCHANGED <<normaliser, sent, heard, cut>>

\* The line ends after n bytes, or within the byte after them.
Cut(e) ==
  \E n \in {0, 1, Len(NextLine(e)) - 1} :
    /\ Becomes(Frame(service, So, e, First(NextLine(e), n)))
    /\ Hear(e, First(NextLine(e), n))
    /\ cut' = cut \cup {e}
Garble(e) ==
  \E n \in {0, 1, Len(NextLine(e)) - 1} :
    /\ Becomes(Malformed(service, So, e, First(NextLine(e), n)))
    /\ heard' = heard \cup {e}
    /\ UNCHANGED cut
Damage(e) ==
  /\ wire[e] # <<>>
  /\ Cut(e) \/ Garble(e)
  /\ Advance(e)
  /\ Fault(e)
  /\ UNCHANGED sent

\* A whole message of the ECU that is not the answer.
Insert(e) ==
  \E message \in {Pending(service), StaleMode01} :
    /\ Becomes(Frame(service, So, e, Padded(<<Len(message)>> \o message)))
    /\ Fault(e)
    /\ sent' = [sent EXCEPT ![e] = @ \cup {message}]
    /\ UNCHANGED <<wire, heard, cut>>

InsertFlowControl(e) ==
  /\ Becomes(Frame(service, So, e, Padded(<<48, 0, 0>>)))
  /\ Fault(e)
  /\ UNCHANGED <<wire, sent, heard, cut>>

\* A text of the adapter: an echo or SEARCHING, which is passed over, a
\* status, with the header of an ECU or without one, or a broken header.
StatusOf(e) ==
  /\ Becomes(Status(service, So, e))
  /\ Fault(e)
  /\ UNCHANGED <<wire, sent, heard, cut>>
AdapterText ==
  /\ faults < MaxFaults /\ faults' = faults + 1
  /\ \/ Becomes(So)
     \/ Becomes(Status(service, So, NoHeader))
     \/ Becomes(NotHexHeader(service, So))
  /\ UNCHANGED <<wire, sent, heard, touched, cut>>

End ==
  /\ ~done
  /\ \A e \in Ecus : wire[e] = <<>>
  /\ LET a == Closed(service, So)
     IN assemblies' = a.open /\ matches' = a.matches /\ errors' = a.errors
  /\ done' = TRUE
  /\ UNCHANGED <<service, world>>

Next ==
  \/ \E e \in Ecus : \/ Deliver(e) \/ Repeat(e) \/ Lose(e) \/ Overtake(e)
                     \/ Damage(e) \/ Insert(e) \/ InsertFlowControl(e) \/ StatusOf(e)
  \/ AdapterText
  \/ End

Spec == Init /\ [][Next]_vars

-----------------------------------------------------------------------------
OwnMatches(e) == {matches[i].payload : i \in {j \in DOMAIN matches : matches[j].responder = e}}

\* The state is well typed, and a responder has one message begun at a time,
\* except in Mode 09, where a repeated first frame begins a second one.
TypeOK ==
  /\ service \in Services /\ done \in BOOLEAN /\ faults \in 0..MaxFaults
  /\ errors \subseteq Ecus \cup {NoHeader, BadHeader}
  /\ \A i \in DOMAIN assemblies :
       /\ assemblies[i].responder \in Ecus
       /\ assemblies[i].next \in 0..15
       /\ Len(assemblies[i].payload) < assemblies[i].declared
  /\ service # "mode09" =>
       \A i, j \in DOMAIN assemblies :
         assemblies[i].responder = assemblies[j].responder => i = j

\* Whatever was lost, repeated, overtaken, garbled or mixed in: a payload of
\* a responder that no error names is a message this ECU sent, and if any
\* byte of its answer arrived the whole answer is among them.  A line cut
\* between two bytes is not noticed when the padding of the last frame makes
\* up for the bytes missing: then only the length is right.  Beside an error
\* a targeted read may still be given half a UDS message, the one service
\* that keeps an unfinished payload; never half of another.
CleanAnswerIsWhole ==
  done =>
    /\ \A e \in Ecus \ errors :
         /\ \A p \in OwnMatches(e) :
              \/ p \in sent[e]
              \/ e \in cut /\ Len(p) = Len(Answer(service, e))
         /\ e \in heard \ cut => Answer(service, e) \in OwnMatches(e)
    /\ \A e \in Ecus \ cut :
         \/ TargetedPayload(matches, e) \in {Refused} \cup sent[e]
         \/ service \in {"uds", "multi"} /\ e \in errors

\* However the lines of the ECUs interleave, and whatever happens to those
\* of another: an ECU whose own lines arrived as sent has its answer, once,
\* and no error, and one that was silent has none ("malformed/truncated payload for one responder does not
\* erase another responder's valid result").
OthersAreUntouched ==
  done => \A e \in Ecus \ touched :
            /\ e \notin errors
            /\ SelectSeq(matches, LAMBDA m : m.responder = e)
                 = IF e \in heard THEN << [responder |-> e, payload |-> Answer(service, e)] >> ELSE <<>>
=============================================================================
