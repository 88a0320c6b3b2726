----------------------------- MODULE Intrinsics -----------------------------
(***************************************************************************)
(* What the leaf parsers of include/noam/util/intrinsic_types.hpp compute: *)
(* each operator maps the characters text and the state st a parser is     *)
(* applied to, to its outcome                                              *)
(*   ok    whether the parser takes its success return,                    *)
(*   rest  the _begin of the state it returns (_end never changes),        *)
(*   from, to  the characters [from, to) its value is made of.             *)
(* The loops of the code are stated by what they stop at, not re-run.      *)
(***************************************************************************)
EXTENDS NoamState

Quote  == "\""
Escape == "\\"
NewLine == "\n"
Return_ == "\r"

\* The letters string_parser accepts after a backslash.
EscapeCodes == {"b", "f", "n", "r", "t", Escape, Quote}

Digits == {"0", "1", "2", "3", "4", "5", "6", "7", "8", "9"}
DigitValue(c) == CHOOSE d \in 0 .. 9 : c = <<"0", "1", "2", "3", "4", "5",
                                              "6", "7", "8", "9">>[d + 1]

Matched(rest, from, to) == [ok |-> TRUE, rest |-> rest, from |-> from, to |-> to]
NoMatch == [ok |-> FALSE, rest |-> NULLPTR, from |-> NULLPTR, to |-> NULLPTR]

\* The first address of S, a non-empty set of addresses.
First(S) == CHOOSE a \in S : \A b \in S : a <= b

(***************************************************************************)
(* literal, literal_makes, literal_constant: the fold                      *)
(* (Literals.check_and_update(st) || ...) takes the first literal that is  *)
(* a prefix of the state; one that is not leaves the state alone.          *)
(***************************************************************************)
LiteralParse(text, st, lits) ==
    LET hits == {k \in 1 .. Len(lits) : StartsWith(text, st, lits[k])}
        end  == st.begin + Len(lits[First(hits)])
    IN  IF hits = {} THEN NoMatch ELSE Matched(end, st.begin, end)

\* Where a loop over the characters in chars stops.
SpanEnd(text, from, end, chars) ==
    IF from >= end
    THEN from
    ELSE First({a \in from .. end : a = end \/ text[a] \notin chars})

\* zero_or_more_chars and count_chars: always a match, possibly an empty one.
CharsParse(text, st, chars) ==
    LET end == SpanEnd(text, st.begin, st.end, chars)
    IN  Matched(end, st.begin, end)

(***************************************************************************)
(* charconv<T>, on std::from_chars for an integer type whose values are    *)
(* -(max+1)..max when it is signed and 0..max when it is not: the longest  *)
(* run of digits after an optional minus sign (signed types only, no plus  *)
(* sign, no whitespace).  A number outside the range is an error.          *)
(***************************************************************************)
DecimalValue(text, from, to) ==
    LET value[a \in (from - 1) .. (to - 1)] ==
            IF a < from THEN 0 ELSE 10 * value[a - 1] + DigitValue(text[a])
    IN  value[to - 1]

InRange(value, negative, max) ==
    value <= IF negative THEN max + 1 ELSE max

\* Mutant: no digits make the number zero.
CharconvParseEmpty(text, st, type) ==
    LET negative == type.signed /\ StartsWith(text, st, <<"-">>)
        digits   == IF negative THEN st.begin + 1 ELSE st.begin
        end      == SpanEnd(text, digits, st.end, Digits)
    IN  IF InRange(DecimalValue(text, digits, end), negative, type.max)
        THEN Matched(end, st.begin, end)
        ELSE NoMatch

CharconvParse(text, st, type) ==
    LET negative == type.signed /\ StartsWith(text, st, <<"-">>)
        digits   == IF negative THEN st.begin + 1 ELSE st.begin
        end      == SpanEnd(text, digits, st.end, Digits)
    IN  IF /\ end > digits
           /\ InRange(DecimalValue(text, digits, end), negative, type.max)
        THEN Matched(end, st.begin, end)
        ELSE NoMatch

(***************************************************************************)
(* string_parser: from an opening quote to the first quote that is not     *)
(* escaped.  A character is the second half of an escape sequence when the *)
(* run of backslashes in front of it is odd.  The scan stops at that       *)
(* quote, or else at the last character of the state, which it then tests; *)
(* an escape sequence that ends the state carries it one further, past the *)
(* end.                                                                    *)
(***************************************************************************)
SecondOfEscape(text, st, a) ==
    \E r \in 1 .. (a - st.begin - 1) :
        /\ r % 2 = 1
        /\ \A k \in 1 .. r : text[a - k] = Escape
        /\ a - r - 1 = st.begin \/ text[a - r - 1] # Escape

StringStops(text, st) ==
    {a \in (st.begin + 1) .. st.end :
        /\ ~ SecondOfEscape(text, st, a)
        /\ a >= st.end - 1 \/ text[a] = Quote}

StringParse(text, st) ==
    LET stop == First(StringStops(text, st))
    IN  IF /\ Size(st) >= 2
           /\ text[st.begin] = Quote
           /\ StringStops(text, st) # {}
           /\ \A a \in (st.begin + 1) .. (stop - 1) :
                SecondOfEscape(text, st, a) => text[a] \in EscapeCodes
           /\ text[stop] = Quote
        THEN Matched(stop + 1, st.begin + 1, stop)
        ELSE NoMatch

(***************************************************************************)
(* view_parser<'"', '"', '\\'>: from an opening quote to the first quote   *)
(* with no backslash directly in front of it.  A backslash takes the quote *)
(* behind it along; it never takes a second backslash along.               *)
(***************************************************************************)
ViewStops(text, st) ==
    {a \in (st.begin + 1) .. (st.end - 1) :
        text[a] = Quote /\ text[a - 1] # Escape}

ViewParse(text, st) ==
    LET stop == First(ViewStops(text, st))
    IN  IF StartsWith(text, st, <<Quote>>) /\ ViewStops(text, st) # {}
        THEN Matched(stop + 1, st.begin + 1, stop)
        ELSE NoMatch

(***************************************************************************)
(* line_parser: up to the first newline, less one carriage return directly *)
(* in front of it; the whole state when there is no newline.               *)
(***************************************************************************)
LineParse(text, st) ==
    LET breaks == {a \in st.begin .. (st.end - 1) : text[a] = NewLine}
        break  == First(breaks)
        crlf   == break > st.begin /\ text[break - 1] = Return_
    IN  IF breaks = {}
        THEN Matched(st.end, st.begin, st.end)
        ELSE Matched(break + 1, st.begin, IF crlf THEN break - 1 ELSE break)

=============================================================================
