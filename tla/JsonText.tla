------------------------------ MODULE JsonText ------------------------------
(***************************************************************************)
(* The JSON the recorder writes and the parser that reads it back          *)
(* (capture_format/jsonl.rs).  A text is a sequence of symbols: a          *)
(* character that JSON treats specially is a symbol of its own, and so is  *)
(* a word of plain characters.  A value is <<tag, content>>; an object is  *)
(* the sequence of its <<name, value>> members; a number keeps its text.   *)
(* A parser returns <<>> for an error, or <<what was read, where to go on  *)
(* from>>.                                                                 *)
(***************************************************************************)
EXTENDS Integers, Sequences, SequencesExt

Quote == "\""
Backslash == "\\"
Digits == <<"0", "1", "2", "3", "4", "5", "6", "7", "8", "9">>
DigitSet == Range(Digits)
IsDigit(c) == c \in DigitSet

\* The characters with an escape of one letter, and the control characters
\* without one, written with their four hexadecimal digits.
Escapes == [c \in {Quote, Backslash, "\n", "\r", "\t", "\f", "bs"} |->
    CASE c = "\n" -> "n" [] c = "\r" -> "r" [] c = "\t" -> "t" [] c = "\f" -> "f"
      [] c = "bs" -> "b" [] OTHER -> c]
Controls == [c \in {"esc", "del"} |-> IF c = "esc" THEN <<"0", "0", "1", "B">> ELSE <<"0", "0", "7", "F">>]
ControlSet == (DOMAIN Escapes \ {Quote, Backslash}) \cup DOMAIN Controls
IsControl(c) == c \in ControlSet

-----------------------------------------------------------------------------
(* Writing *)

Decimal[n \in Nat] ==
    IF n < 10 THEN <<Digits[n + 1]>> ELSE Append(Decimal[n \div 10], Digits[(n % 10) + 1])

\* Mutant: only the quote is escaped.
EscapeQuoteOnly(c) == IF c = Quote THEN <<Backslash, Quote>> ELSE <<c>>

EscapeChar(c) ==
    IF c \in DOMAIN Escapes THEN <<Backslash, Escapes[c]>>
    ELSE IF c \in DOMAIN Controls THEN <<Backslash, "u">> \o Controls[c]
    ELSE <<c>>

PushString(text) ==
    <<Quote>> \o FlattenSeq([i \in DOMAIN text |-> EscapeChar(text[i])]) \o <<Quote>>

Null == <<"null", <<>>>>
Str(text) == <<"string", text>>
Num(n) == <<"number", Decimal[n]>>
Bool(b) == <<"bool", b>>

RECURSIVE Push(_)
Push(v) ==
    LET Separated(items) ==
            FlattenSeq([i \in DOMAIN items |-> IF i = 1 THEN items[i] ELSE <<",">> \o items[i]])
        Member(m) == PushString(<<m[1]>>) \o <<":">> \o Push(m[2])
    IN  CASE v[1] = "null"   -> <<"null">>
          [] v[1] = "bool"   -> <<IF v[2] THEN "true" ELSE "false">>
          [] v[1] = "number" -> v[2]
          [] v[1] = "string" -> PushString(v[2])
          [] v[1] = "array"  -> <<"[">> \o Separated([i \in DOMAIN v[2] |-> Push(v[2][i])]) \o <<"]">>
          [] v[1] = "object" -> <<"{">> \o Separated([i \in DOMAIN v[2] |-> Member(v[2][i])]) \o <<"}">>

-----------------------------------------------------------------------------
(* Reading *)

Error == <<>>
Then(r, K(_, _)) == IF r = Error THEN Error ELSE K(r[1], r[2])
Peek(text, i) == IF i \in DOMAIN text THEN text[i] ELSE "end"

RECURSIVE Whitespace(_, _)
Whitespace(text, i) == IF Peek(text, i) \in {" ", "\t", "\r"} THEN Whitespace(text, i + 1) ELSE i

\* Four hexadecimal digits: here, those of a control character.
UnicodeEscape(text, i) ==
    LET named == {c \in DOMAIN Controls : Controls[c] = SubSeq(text, i, i + 3)}
    IN  IF i + 3 > Len(text) \/ named = {} THEN Error ELSE <<CHOOSE c \in named : TRUE, i + 4>>

\* What follows a backslash.
EscapeAt(text, i) ==
    LET c == Peek(text, i)
        named == {k \in DOMAIN Escapes : Escapes[k] = c}
    IN  CASE c = "u" -> UnicodeEscape(text, i + 1)
          [] c = "/" -> <<"/", i + 1>>
          [] c # "u" /\ c # "/" /\ named # {} -> <<CHOOSE k \in named : TRUE, i + 1>>
          [] OTHER -> Error

RECURSIVE StringRest(_, _, _)
StringRest(text, i, read) ==
    LET c == Peek(text, i)
    IN  CASE c = "end" -> Error
          [] c = Quote -> <<read, i + 1>>
          [] c = Backslash ->
                Then(EscapeAt(text, i + 1), LAMBDA e, j : StringRest(text, j, Append(read, e)))
          [] IsControl(c) /\ c # "del" -> Error
          [] OTHER -> StringRest(text, i + 1, Append(read, c))

ParseString(text, i) == IF Peek(text, i) = Quote THEN StringRest(text, i + 1, <<>>) ELSE Error

RECURSIVE SkipDigits(_, _)
SkipDigits(text, i) == IF IsDigit(Peek(text, i)) THEN SkipDigits(text, i + 1) ELSE i

\* At least one digit, or 0 for an error.
SomeDigits(text, i) == IF IsDigit(Peek(text, i)) THEN SkipDigits(text, i) ELSE 0

\* The parts of a number: each goes on from where the one before it ended.
SkipSign(text, i, signs) == IF Peek(text, i) \in signs THEN i + 1 ELSE i
Whole(text, i) == IF Peek(text, i) = "0" THEN i + 1 ELSE SomeDigits(text, i)
Fraction(text, i) == IF i > 0 /\ Peek(text, i) = "." THEN SomeDigits(text, i + 1) ELSE i
Exponent(text, i) ==
    IF i > 0 /\ Peek(text, i) \in {"e", "E"} THEN SomeDigits(text, SkipSign(text, i + 1, {"+", "-"})) ELSE i
NumberBetween(text, i, end) == IF end = 0 THEN Error ELSE <<<<"number", SubSeq(text, i, end - 1)>>, end>>

ParseNumber(text, i) ==
    NumberBetween(text, i, Exponent(text, Fraction(text, Whole(text, SkipSign(text, i, {"-"})))))

RECURSIVE ParseValue(_, _), ValueAt(_, _, _), Members(_, _, _), Elements(_, _, _)
ParseValue(text, from) == LET i == Whitespace(text, from) IN ValueAt(text, i, Whitespace(text, i + 1))

\* The value that begins at i; next is where what is inside it begins.
ValueAt(text, i, next) ==
    LET c == Peek(text, i)
    IN  CASE c = "null" -> <<Null, i + 1>>
          [] c \in {"true", "false"} -> <<Bool(c = "true"), i + 1>>
          [] c = Quote -> Then(ParseString(text, i), LAMBDA s, j : <<Str(s), j>>)
          [] c = "{" -> IF Peek(text, next) = "}" THEN <<<<"object", <<>>>>, next + 1>>
                        ELSE Members(text, next, <<>>)
          [] c = "[" -> IF Peek(text, next) = "]" THEN <<<<"array", <<>>>>, next + 1>>
                        ELSE Elements(text, next, <<>>)
          [] c = "-" \/ IsDigit(c) -> ParseNumber(text, i)
          [] OTHER -> Error

\* After one item of an object or an array: the end of it, or the next item.
AfterItem(text, i, close, whole, More(_)) ==
    CASE Peek(text, i) = close -> <<whole, i + 1>>
      [] Peek(text, i) = "," -> More(i + 1)
      [] OTHER -> Error

MemberValue(text, i) == IF Peek(text, i) = ":" THEN ParseValue(text, i + 1) ELSE Error

\* A name is one plain word; a name may not occur twice.
Members(text, from, read) ==
    Then(ParseString(text, Whitespace(text, from)), LAMBDA name, i :
    Then(MemberValue(text, Whitespace(text, i)), LAMBDA value, j :
        LET all == Append(read, <<name[1], value>>)
        IN  IF Len(name) # 1 \/ \E k \in DOMAIN read : read[k][1] = name[1] THEN Error
            ELSE AfterItem(text, Whitespace(text, j), "}", <<"object", all>>, LAMBDA k : Members(text, k, all))))

Elements(text, from, read) ==
    Then(ParseValue(text, from), LAMBDA value, i :
        LET all == Append(read, value)
        IN  AfterItem(text, Whitespace(text, i), "]", <<"array", all>>, LAMBDA k : Elements(text, k, all)))

\* parse_object: one object and nothing after it; returns its members.
ParseObject(text) ==
    Then(ParseValue(text, 1), LAMBDA v, i :
        IF Whitespace(text, i) <= Len(text) \/ v[1] # "object" THEN Error ELSE <<v[2]>>)

=============================================================================
