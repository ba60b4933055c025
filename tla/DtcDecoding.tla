---------------------------- MODULE DtcDecoding ----------------------------
(***************************************************************************)
(* The decoding of stored trouble codes (dtc.rs): the answers to Mode 03,  *)
(* each of them a payload of a responder, and the facts of each.  A        *)
(* responder is <<>> or <<its text>>; ResponderOrder gives the texts in    *)
(* their lexical order, in which the results are sorted.                   *)
(***************************************************************************)
EXTENDS CaptureCodec

CONSTANT ResponderOrder

\* ResponderIdentity::new: outer blanks are dropped, control characters refused.
TrimText(text) ==
    LET kept == {i \in DOMAIN text : text[i] \notin Blank}
    IN  IF kept = {} THEN <<>>
        ELSE SubSeq(text, CHOOSE i \in kept : \A j \in kept : i <= j, CHOOSE i \in kept : \A j \in kept : i >= j)

ValidIdentity(text) ==
    TrimText(text) # <<>> /\ \A i \in DOMAIN TrimText(text) : ~IsControl(TrimText(text)[i])

\* Two bytes as a code: the two highest bits are the system.
CodeText(pair) ==
    <<<<"P", "C", "B", "U">>[(pair \div 16384) + 1],
      HexDigit[((pair % 16384) \div 4096) + 1], HexDigit[((pair % 4096) \div 256) + 1],
      HexDigit[((pair % 256) \div 16) + 1], HexDigit[(pair % 16) + 1]>>

Malformed == <<<<"decode_error", <<"malformed", " ", "response">>>>>>
Unknown == <<<<"decode_error", <<"unknown", " ", "response">>>>>>

\* decode_mode03_payload: a code for every pair of bytes up to the padding,
\* sorted and without repetitions; nothing may follow the padding.
FactsOf(payload) ==
    IF payload = <<>> THEN Malformed
    ELSE IF payload[1] # 67 THEN Unknown
    ELSE IF payload = <<67, 0>> THEN <<<<"no_dtcs", <<>>>>>>
    ELSE LET bytes == Tail(payload)
             pairs == [i \in 1 .. Len(bytes) \div 2 |-> 256 * bytes[2 * i - 1] + bytes[2 * i]]
             padding == {i \in DOMAIN pairs : pairs[i] = 0}
             codes == SetToSortSeq(Range(pairs) \ {0}, <)
         IN  IF bytes = <<>> \/ Len(bytes) % 2 = 1
                  \/ \E i \in padding : \E j \in DOMAIN pairs : j > i /\ j \notin padding
             THEN Malformed
             ELSE IF codes = <<>> THEN <<<<"no_dtcs", <<>>>>>>
             ELSE [i \in DOMAIN codes |-> <<"dtc", CodeText(codes[i])>>]

Rank(responder) ==
    IF responder = <<>> THEN 0 ELSE CHOOSE i \in DOMAIN ResponderOrder : ResponderOrder[i] = responder[1]

\* decode_mode03: one result for each answer, ordered by responder.
DecodeMode03(responses) ==
    SortSeq([i \in DOMAIN responses |->
                [responder |-> IF responses[i].responder = <<>> THEN <<>>
                               ELSE <<TrimText(responses[i].responder[1])>>,
                 facts |-> FactsOf(responses[i].payload)]],
            LAMBDA a, b : Rank(a.responder) < Rank(b.responder))

=============================================================================
