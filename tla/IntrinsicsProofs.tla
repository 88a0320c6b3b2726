-------------------------- MODULE IntrinsicsProofs --------------------------
(***************************************************************************)
(* What every leaf parser guarantees to the combinator that calls it: the  *)
(* state it hands back, when it succeeds, is a rest of the one it got.     *)
(***************************************************************************)
EXTENDS Intrinsics, TLAPS, WellFoundedInduction

\* An outcome of the right type.
IsOutcome(o) ==
    /\ o.ok \in BOOLEAN
    /\ o.rest \in Int
    /\ o.from \in Int
    /\ o.to \in Int

\* A success ends inside the view.
EndsIn(o, st) == o.ok => st.begin <= o.rest /\ o.rest <= st.end

\* First picks the least element of a set of addresses that are bounded below.
LEMMA FirstIsLeast ==
    ASSUME NEW S \in SUBSET Int, S # {},
           NEW low \in Int, \A a \in S : low <= a
    PROVE  First(S) \in S /\ \A b \in S : First(S) <= b
<1> DEFINE T == {n \in Nat : low + n \in S}
           R == OpToRel(<, Nat)
<1>1. T \subseteq Nat
    OBVIOUS
<1>2. T # {}
    <2>1. PICK a \in S : TRUE
        OBVIOUS
    <2>2. a \in Int /\ low <= a
        BY <2>1
    <2>3. a - low \in Nat /\ low + (a - low) = a
        BY <2>2
    <2> QED BY <2>1, <2>3
<1>3. IsWellFoundedOn(R, Nat)
    BY NatLessThanWellFounded
<1> HIDE DEF R
<1>4. PICK n \in T : \A m \in T : ~ (<<m, n>> \in R)
    BY <1>1, <1>2, <1>3, WFMin
<1>5. ASSUME NEW b \in S PROVE low + n <= b
    <2>1. b \in Int /\ low <= b
        BY <1>5
    <2>2. b - low \in Nat /\ low + (b - low) = b
        BY <2>1
    <2>3. b - low \in T
        BY <1>5, <2>2
    <2>4. ~ (<<b - low, n>> \in R)
        BY <1>4, <2>3
    <2>5. ~ (b - low < n)
        BY <2>4, <2>2, <1>1 DEF R, OpToRel
    <2> QED BY <2>5, <2>1, <1>1
<1>6. low + n \in S
    BY <1>4
<1> QED BY <1>5, <1>6 DEF First

LEMMA LiteralContract ==
    ASSUME NEW mem, NEW st \in State, NEW lits,
           Len(lits) \in Nat,
           \A k \in 1 .. Len(lits) : Len(lits[k]) \in Nat
    PROVE  /\ IsOutcome(LiteralParse(mem, st, lits))
           /\ EndsIn(LiteralParse(mem, st, lits), st)
<1> DEFINE hits == {k \in 1 .. Len(lits) : StartsWith(mem, st, lits[k])}
           end  == st.begin + Len(lits[First(hits)])
<1>1. CASE hits = {}
    BY <1>1 DEF LiteralParse, NoMatch, IsOutcome, EndsIn, NULLPTR
<1>2. CASE hits # {}
    <2>1. First(hits) \in hits
        <3>1. hits \in SUBSET Int /\ \A a \in hits : 1 <= a
            OBVIOUS
        <3> HIDE DEF hits
        <3> QED BY <1>2, <3>1, FirstIsLeast
    <2>2. /\ Len(lits[First(hits)]) \in Nat
          /\ Size(st) >= Len(lits[First(hits)])
        BY <2>1 DEF StartsWith
    <2>3. LiteralParse(mem, st, lits) = Matched(end, st.begin, end)
        BY <1>2 DEF LiteralParse
    <2>4. end \in Int /\ st.begin <= end /\ end <= st.end
        <3> HIDE DEF hits
        <3> QED BY <2>2 DEF State, Size
    <2> HIDE DEF end
    <2> QED BY <2>3, <2>4 DEF Matched, IsOutcome, EndsIn, State
<1> QED BY <1>1, <1>2

\* Where a span stops is between where it began and the end of the view.
LEMMA SpanEndBounds ==
    ASSUME NEW mem, NEW from \in Int, NEW end \in Int, NEW chars
    PROVE  /\ SpanEnd(mem, from, end, chars) \in Int
           /\ from <= SpanEnd(mem, from, end, chars)
           /\ from <= end => SpanEnd(mem, from, end, chars) <= end
<1> DEFINE stops == {a \in from .. end : a = end \/ mem[a] \notin chars}
<1>1. CASE from >= end
    BY <1>1 DEF SpanEnd
<1>2. CASE ~ (from >= end)
    <2>1. stops \in SUBSET Int /\ end \in stops /\ \A a \in stops : from <= a
        BY <1>2
    <2>2. \A a \in stops : a <= end
        OBVIOUS
    <2>3. SpanEnd(mem, from, end, chars) = First(stops)
        BY <1>2 DEF SpanEnd
    <2> HIDE DEF stops
    <2>4. First(stops) \in stops
        BY <2>1, FirstIsLeast
    <2> QED BY <2>1, <2>2, <2>3, <2>4
<1> QED BY <1>1, <1>2

LEMMA CharsContract ==
    ASSUME NEW mem, NEW st \in State, NEW chars
    PROVE  /\ IsOutcome(CharsParse(mem, st, chars))
           /\ CharsParse(mem, st, chars).ok
           /\ st.begin <= st.end => EndsIn(CharsParse(mem, st, chars), st)
<1>1. st.begin \in Int /\ st.end \in Int
    BY DEF State
<1> QED BY <1>1, SpanEndBounds DEF CharsParse, Matched, IsOutcome, EndsIn

LEMMA CharconvContract ==
    ASSUME NEW mem, NEW st \in State, NEW type
    PROVE  /\ IsOutcome(CharconvParse(mem, st, type))
           /\ st.begin <= st.end => EndsIn(CharconvParse(mem, st, type), st)
<1> DEFINE negative == type.signed /\ StartsWith(mem, st, <<"-">>)
           digits   == IF negative THEN st.begin + 1 ELSE st.begin
           end      == SpanEnd(mem, digits, st.end, Digits)
           reads    == /\ end > digits
                       /\ InRange(DecimalValue(mem, digits, end),
                                  negative, type.max)
<1>1. st.begin \in Int /\ st.end \in Int
    BY DEF State
<1>2. negative => st.begin + 1 <= st.end
    BY <1>1 DEF StartsWith, Size
<1>3. digits \in Int /\ st.begin <= digits
    BY <1>1
<1>4. st.begin <= st.end => digits <= st.end
    BY <1>1, <1>2
<1>5. CharconvParse(mem, st, type)
        = IF reads THEN Matched(end, st.begin, end) ELSE NoMatch
    BY DEF CharconvParse
<1> HIDE DEF digits, negative
<1>6. end \in Int /\ digits <= end /\ (digits <= st.end => end <= st.end)
    BY <1>1, <1>3, SpanEndBounds
<1> HIDE DEF reads, end
<1> QED BY <1>1, <1>3, <1>4, <1>5, <1>6
        DEF Matched, NoMatch, NULLPTR, IsOutcome, EndsIn

\* parse_string ends inside the view unless a quote follows the view, which
\* an escape sequence cut off by the end of the view reaches.
LEMMA StringContract ==
    ASSUME NEW mem, NEW st \in State
    PROVE  /\ IsOutcome(StringParse(mem, st))
           /\ mem[st.end] # Quote => EndsIn(StringParse(mem, st), st)
<1> DEFINE stops == StringStops(mem, st)
           stop  == First(stops)
           reads == /\ Size(st) >= 2
                    /\ mem[st.begin] = Quote
                    /\ stops # {}
                    /\ \A a \in (st.begin + 1) .. (stop - 1) :
                         SecondOfEscape(mem, st, a) => mem[a] \in EscapeCodes
                    /\ mem[stop] = Quote
<1>1. st.begin \in Int /\ st.end \in Int
    BY DEF State
<1>2. StringParse(mem, st)
        = IF reads THEN Matched(stop + 1, st.begin + 1, stop) ELSE NoMatch
    BY DEF StringParse
<1>3. reads => mem[stop] = Quote /\ stops # {}
    OBVIOUS
<1>4. /\ stops \in SUBSET Int
      /\ \A a \in stops : st.begin + 1 <= a /\ a <= st.end
    BY <1>1 DEF StringStops
<1> HIDE DEF stops, reads
<1>5. stops # {} => stop \in stops
    <2>1. st.begin + 1 \in Int
        BY <1>1
    <2> QED BY <2>1, <1>4, FirstIsLeast
<1>6. CASE reads
    <2>1. /\ stop \in Int /\ st.begin + 1 <= stop /\ stop <= st.end
          /\ mem[stop] = Quote
        BY <1>1, <1>3, <1>4, <1>5, <1>6
    <2> HIDE DEF stop
    <2>2. mem[st.end] # Quote => stop # st.end
        BY <2>1
    <2> QED BY <1>1, <1>2, <1>6, <2>1, <2>2 DEF Matched, IsOutcome, EndsIn
<1>7. CASE ~ reads
    BY <1>2, <1>7 DEF NoMatch, NULLPTR, IsOutcome, EndsIn
<1> QED BY <1>6, <1>7

LEMMA ViewContract ==
    ASSUME NEW mem, NEW st \in State
    PROVE  /\ IsOutcome(ViewParse(mem, st))
           /\ EndsIn(ViewParse(mem, st), st)
<1> DEFINE stops == ViewStops(mem, st)
           stop  == First(stops)
           reads == StartsWith(mem, st, <<Quote>>) /\ stops # {}
<1>1. st.begin \in Int /\ st.end \in Int
    BY DEF State
<1>2. ViewParse(mem, st)
        = IF reads THEN Matched(stop + 1, st.begin + 1, stop) ELSE NoMatch
    BY DEF ViewParse
<1>3. reads => stops # {}
    OBVIOUS
<1>4. /\ stops \in SUBSET Int
      /\ \A a \in stops : st.begin + 1 <= a /\ a <= st.end - 1
    BY <1>1 DEF ViewStops
<1> HIDE DEF stops, reads
<1>5. stops # {} => stop \in stops
    <2>1. st.begin + 1 \in Int
        BY <1>1
    <2> QED BY <2>1, <1>4, FirstIsLeast
<1>6. CASE reads
    <2>1. stop \in Int /\ st.begin + 1 <= stop /\ stop <= st.end - 1
        BY <1>1, <1>3, <1>4, <1>5, <1>6
    <2> HIDE DEF stop
    <2> QED BY <1>1, <1>2, <1>6, <2>1 DEF Matched, IsOutcome, EndsIn
<1>7. CASE ~ reads
    BY <1>2, <1>7 DEF NoMatch, NULLPTR, IsOutcome, EndsIn
<1> QED BY <1>6, <1>7

LEMMA LineContract ==
    ASSUME NEW mem, NEW st \in State
    PROVE  /\ IsOutcome(LineParse(mem, st))
           /\ LineParse(mem, st).ok
           /\ st.begin <= st.end => EndsIn(LineParse(mem, st), st)
<1> DEFINE breaks == {a \in st.begin .. (st.end - 1) : mem[a] = NewLine}
           break  == First(breaks)
           crlf   == break > st.begin /\ mem[break - 1] = Return_
<1>1. st.begin \in Int /\ st.end \in Int
    BY DEF State
<1>2. LineParse(mem, st)
        = IF breaks = {}
          THEN Matched(st.end, st.begin, st.end)
          ELSE Matched(break + 1, st.begin, IF crlf THEN break - 1 ELSE break)
    BY DEF LineParse
<1>3. /\ breaks \in SUBSET Int
      /\ \A a \in breaks : st.begin <= a /\ a <= st.end - 1
    BY <1>1
<1> HIDE DEF breaks
<1>4. breaks # {} => break \in breaks
    BY <1>1, <1>3, FirstIsLeast
<1>5. CASE breaks = {}
    BY <1>1, <1>2, <1>5 DEF Matched, IsOutcome, EndsIn
<1>6. CASE breaks # {}
    <2>1. break \in Int /\ st.begin <= break /\ break <= st.end - 1
        BY <1>1, <1>3, <1>4, <1>6
    <2> HIDE DEF break, crlf
    <2>2. (IF crlf THEN break - 1 ELSE break) \in Int
        BY <2>1
    <2> QED BY <1>1, <1>2, <1>6, <2>1, <2>2 DEF Matched, IsOutcome, EndsIn
<1> QED BY <1>5, <1>6

----------------------------------------------------------------------------
(***************************************************************************)
(* Escape sequences, one character at a time: the definition of            *)
(* SecondOfEscape by the parity of a run of backslashes is the one of a    *)
(* scan that takes characters in pairs.                                    *)
(***************************************************************************)

\* The run of backslashes in front of a, in the text behind the opening quote.
RunOf(mem, st, r, a) ==
    /\ r \in 0 .. (a - st.begin - 1)
    /\ \A k \in 1 .. r : mem[a - k] = Escape
    /\ a - r - 1 = st.begin \/ mem[a - r - 1] # Escape

LEMMA RunUnique ==
    ASSUME NEW mem, NEW st \in State, NEW a \in Int,
           NEW r, NEW q, RunOf(mem, st, r, a), RunOf(mem, st, q, a)
    PROVE  r = q
<1>1. st.begin \in Int
    BY DEF State
<1>2. ASSUME NEW x, NEW y, RunOf(mem, st, x, a), RunOf(mem, st, y, a), x < y
      PROVE  FALSE
    <2>1. /\ x \in 0 .. (a - st.begin - 1) /\ y \in 0 .. (a - st.begin - 1)
          /\ x \in Int /\ y \in Int
        BY <1>1, <1>2 DEF RunOf
    <2>2. x + 1 \in 1 .. y /\ a - x - 1 # st.begin
        BY <1>1, <1>2, <2>1
    <2>3. mem[a - (x + 1)] = Escape
        BY <1>2, <2>2 DEF RunOf
    <2>4. mem[a - x - 1] # Escape
        BY <1>2, <2>2 DEF RunOf
    <2>5. a - (x + 1) = a - x - 1
        BY <2>1
    <2> QED BY <2>3, <2>4, <2>5
<1>3. r \in Int /\ q \in Int
    BY <1>1 DEF RunOf
<1>4. ~ (r < q) /\ ~ (q < r)
    BY <1>2
<1> QED BY <1>3, <1>4

LEMMA RunExists ==
    ASSUME NEW mem, NEW st \in State, NEW a \in Int, st.begin < a
    PROVE  \E r \in Nat : RunOf(mem, st, r, a)
<1> DEFINE last == a - st.begin - 1
           S == {k \in 0 .. last : a - k - 1 = st.begin \/ mem[a - k - 1] # Escape}
<1>1. st.begin \in Int
    BY DEF State
<1>2. last \in Nat /\ a - last - 1 = st.begin
    BY <1>1
<1>3. S \in SUBSET Int /\ last \in S /\ \A k \in S : 0 <= k
    BY <1>2
<1>4. First(S) \in S /\ \A k \in S : First(S) <= k
    <2> HIDE DEF S
    <2> QED BY <1>3, FirstIsLeast
<1>5. First(S) \in 0 .. last
    BY <1>4
<1>6. ASSUME NEW k \in 1 .. First(S) PROVE mem[a - k] = Escape
    <2> HIDE DEF last
    <2>1. k - 1 \in 0 .. last /\ ~ (First(S) <= k - 1)
        BY <1>2, <1>5
    <2>2. k - 1 \notin S
        BY <1>4, <2>1
    <2>3. a - (k - 1) - 1 = a - k
        BY <1>5
    <2> QED BY <2>1, <2>2, <2>3
<1>7. RunOf(mem, st, First(S), a)
    BY <1>4, <1>5, <1>6 DEF RunOf
<1> QED BY <1>5, <1>7

LEMMA SecondByRun ==
    ASSUME NEW mem, NEW st \in State, NEW a \in Int,
           NEW r \in Nat, RunOf(mem, st, r, a)
    PROVE  SecondOfEscape(mem, st, a) <=> r % 2 = 1
<1>1. SecondOfEscape(mem, st, a)
        => \E q \in Int : RunOf(mem, st, q, a) /\ q % 2 = 1
    <2> SUFFICES ASSUME SecondOfEscape(mem, st, a)
                 PROVE  \E q \in Int : RunOf(mem, st, q, a) /\ q % 2 = 1
        OBVIOUS
    <2>1. PICK q \in 1 .. (a - st.begin - 1) :
            /\ q % 2 = 1
            /\ \A k \in 1 .. q : mem[a - k] = Escape
            /\ a - q - 1 = st.begin \/ mem[a - q - 1] # Escape
        BY DEF SecondOfEscape
    <2>2. q \in 0 .. (a - st.begin - 1) /\ q \in Int
        BY <2>1 DEF State
    <2> QED BY <2>1, <2>2 DEF RunOf
<1>2. r % 2 = 1 => SecondOfEscape(mem, st, a)
    <2> SUFFICES ASSUME r % 2 = 1 PROVE SecondOfEscape(mem, st, a)
        OBVIOUS
    <2>1. r # 0
        OBVIOUS
    <2>2. r \in 1 .. (a - st.begin - 1)
        BY <2>1 DEF RunOf, State
    <2> QED BY <2>2 DEF RunOf, SecondOfEscape
<1> QED BY <1>1, <1>2, RunUnique

\* The character behind the opening quote begins an escape sequence or none.
LEMMA FirstNotSecond ==
    ASSUME NEW mem, NEW st \in State
    PROVE  ~ SecondOfEscape(mem, st, st.begin + 1)
<1>1. st.begin \in Int
    BY DEF State
<1>2. 1 .. ((st.begin + 1) - st.begin - 1) = {}
    BY <1>1
<1> QED BY <1>2 DEF SecondOfEscape

\* A character is the second half of an escape sequence when the one in front
\* of it is a backslash that is not.
LEMMA EscapesAlternate ==
    ASSUME NEW mem, NEW st \in State, NEW a \in Int, st.begin < a
    PROVE  SecondOfEscape(mem, st, a + 1)
                <=> mem[a] = Escape /\ ~ SecondOfEscape(mem, st, a)
<1>0. st.begin \in Int
    BY DEF State
<1>1. PICK r \in Nat : RunOf(mem, st, r, a)
    BY RunExists
<1>2. SecondOfEscape(mem, st, a) <=> r % 2 = 1
    BY <1>1, SecondByRun
<1>3. CASE mem[a] = Escape
    <2>1. RunOf(mem, st, r + 1, a + 1)
        <3>1. r + 1 \in 0 .. ((a + 1) - st.begin - 1)
            BY <1>0, <1>1 DEF RunOf
        <3>2. ASSUME NEW k \in 1 .. (r + 1) PROVE mem[(a + 1) - k] = Escape
            <4>1. CASE k = 1
                <5>1. (a + 1) - k = a
                    BY <4>1
                <5> QED BY <1>3, <5>1
            <4>2. CASE k # 1
                <5>1. k - 1 \in 1 .. r /\ (a + 1) - k = a - (k - 1)
                    BY <4>2
                <5> QED BY <1>1, <5>1 DEF RunOf
            <4> QED BY <4>1, <4>2
        <3>3. (a + 1) - (r + 1) - 1 = a - r - 1
            OBVIOUS
        <3> QED BY <1>1, <3>1, <3>2, <3>3 DEF RunOf
    <2>2. SecondOfEscape(mem, st, a + 1) <=> (r + 1) % 2 = 1
        BY <2>1, SecondByRun
    <2>3. (r + 1) % 2 = 1 <=> ~ (r % 2 = 1)
        OBVIOUS
    <2> QED BY <1>2, <1>3, <2>2, <2>3
<1>4. CASE mem[a] # Escape
    <2>1. RunOf(mem, st, 0, a + 1)
        <3>1. 0 \in 0 .. ((a + 1) - st.begin - 1) /\ (a + 1) - 0 - 1 = a
            BY <1>0
        <3> QED BY <1>4, <3>1 DEF RunOf
    <2>2. ~ (0 % 2 = 1)
        OBVIOUS
    <2> QED BY <1>4, <2>1, <2>2, SecondByRun
<1> QED BY <1>3, <1>4

----------------------------------------------------------------------------
(***************************************************************************)
(* The leaves that never match the empty text.                             *)
(***************************************************************************)
\* A success takes at least one character.
Takes(o, st) == o.ok => st.begin < o.rest

LEMMA LiteralTakes ==
    ASSUME NEW text, NEW st \in State, NEW lits,
           Len(lits) \in Nat,
           \A k \in 1 .. Len(lits) : Len(lits[k]) \in Nat /\ Len(lits[k]) > 0
    PROVE  Takes(LiteralParse(text, st, lits), st)
<1> DEFINE hits == {k \in 1 .. Len(lits) : StartsWith(text, st, lits[k])}
           end  == st.begin + Len(lits[First(hits)])
<1>1. CASE hits = {}
    BY <1>1 DEF LiteralParse, NoMatch, Takes
<1>2. CASE hits # {}
    <2>1. First(hits) \in hits
        <3>1. hits \in SUBSET Int /\ \A a \in hits : 1 <= a
            OBVIOUS
        <3> HIDE DEF hits
        <3> QED BY <1>2, <3>1, FirstIsLeast
    <2>2. Len(lits[First(hits)]) \in Nat /\ Len(lits[First(hits)]) > 0
        BY <2>1
    <2>3. LiteralParse(text, st, lits) = Matched(end, st.begin, end)
        BY <1>2 DEF LiteralParse
    <2>4. st.begin < end
        <3> HIDE DEF hits
        <3> QED BY <2>2 DEF State
    <2> HIDE DEF end
    <2> QED BY <2>3, <2>4 DEF Matched, Takes
<1> QED BY <1>1, <1>2

\* A number has a digit, and ends where its value does.
LEMMA CharconvTakes ==
    ASSUME NEW text, NEW st \in State, NEW type
    PROVE  /\ Takes(CharconvParse(text, st, type), st)
           /\ CharconvParse(text, st, type).to
                = CharconvParse(text, st, type).rest
<1> DEFINE negative == type.signed /\ StartsWith(text, st, <<"-">>)
           digits   == IF negative THEN st.begin + 1 ELSE st.begin
           end      == SpanEnd(text, digits, st.end, Digits)
           reads    == /\ end > digits
                       /\ InRange(DecimalValue(text, digits, end),
                                  negative, type.max)
<1>1. st.begin \in Int /\ st.end \in Int
    BY DEF State
<1>2. digits \in Int /\ st.begin <= digits
    BY <1>1
<1>3. CharconvParse(text, st, type)
        = IF reads THEN Matched(end, st.begin, end) ELSE NoMatch
    BY DEF CharconvParse
<1> HIDE DEF digits, negative
<1>4. end \in Int /\ (reads => st.begin < end)
    BY <1>1, <1>2, SpanEndBounds
<1> HIDE DEF reads, end
<1> QED BY <1>3, <1>4 DEF Matched, NoMatch, Takes

\* A string has its opening quote, however it ends.
LEMMA StringTakes ==
    ASSUME NEW text, NEW st \in State
    PROVE  Takes(StringParse(text, st), st)
<1> DEFINE stops == StringStops(text, st)
           stop  == First(stops)
           o     == StringParse(text, st)
<1>1. st.begin \in Int /\ st.end \in Int
    BY DEF State
<1>2. o.ok => stops # {} /\ o.rest = stop + 1
    BY DEF StringParse, Matched, NoMatch
<1>3. /\ stops \in SUBSET Int
      /\ \A a \in stops : st.begin + 1 <= a
    BY <1>1 DEF StringStops
<1> HIDE DEF stops, o
<1>4. stops # {} => stop \in Int /\ st.begin + 1 <= stop
    <2>1. st.begin + 1 \in Int
        BY <1>1
    <2> QED BY <2>1, <1>3, FirstIsLeast
<1> HIDE DEF stop
<1> QED BY <1>1, <1>2, <1>4 DEF Takes, o

LEMMA ViewTakes ==
    ASSUME NEW text, NEW st \in State
    PROVE  Takes(ViewParse(text, st), st)
<1> DEFINE stops == ViewStops(text, st)
           stop  == First(stops)
           o     == ViewParse(text, st)
<1>1. st.begin \in Int /\ st.end \in Int
    BY DEF State
<1>2. o.ok => stops # {} /\ o.rest = stop + 1
    BY DEF ViewParse, Matched, NoMatch
<1>3. /\ stops \in SUBSET Int
      /\ \A a \in stops : st.begin + 1 <= a
    BY <1>1 DEF ViewStops
<1> HIDE DEF stops, o
<1>4. stops # {} => stop \in Int /\ st.begin + 1 <= stop
    <2>1. st.begin + 1 \in Int
        BY <1>1
    <2> QED BY <2>1, <1>3, FirstIsLeast
<1> HIDE DEF stop
<1> QED BY <1>1, <1>2, <1>4 DEF Takes, o

----------------------------------------------------------------------------
(***************************************************************************)
(* Numbers: the digits of one have a value, and what one integer type      *)
(* holds a larger one holds too.                                           *)
(***************************************************************************)
LEMMA DigitIsInt ==
    ASSUME NEW c \in Digits
    PROVE  DigitValue(c) \in Int
<1> DEFINE names == <<"0", "1", "2", "3", "4", "5", "6", "7", "8", "9">>
<1>1. \E d \in 0 .. 9 : c = names[d + 1]
    <2>1. /\ names[0 + 1] = "0" /\ names[1 + 1] = "1" /\ names[2 + 1] = "2"
          /\ names[3 + 1] = "3" /\ names[4 + 1] = "4" /\ names[5 + 1] = "5"
          /\ names[6 + 1] = "6" /\ names[7 + 1] = "7" /\ names[8 + 1] = "8"
          /\ names[9 + 1] = "9"
        OBVIOUS
    <2>2. {0, 1, 2, 3, 4, 5, 6, 7, 8, 9} \subseteq 0 .. 9
        OBVIOUS
    <2> HIDE DEF names
    <2> QED BY <2>1, <2>2, Zenon DEF Digits
<1>2. DigitValue(c) = CHOOSE d \in 0 .. 9 : c = names[d + 1]
    BY DEF DigitValue
<1> HIDE DEF names
<1>3. DigitValue(c) \in 0 .. 9
    BY <1>1, <1>2
<1> QED BY <1>3

\* The equation of the function in DecimalValue, up to n.
IsValue(g, text, from, n) ==
    g = [a \in (from - 1) .. n |->
            IF a < from THEN 0 ELSE 10 * g[a - 1] + DigitValue(text[a])]

LEMMA ValueUnfolds ==
    ASSUME NEW text, NEW from, NEW to
    PROVE  DecimalValue(text, from, to)
             = (CHOOSE g : IsValue(g, text, from, to - 1))[to - 1]
BY Zenon DEF DecimalValue, IsValue

\* Such a function exists: it is built up, one character at a time.
LEMMA ValueExists ==
    ASSUME NEW text, NEW from \in Int, NEW to \in Int, from <= to
    PROVE  \E g : IsValue(g, text, from, to - 1)
<1> DEFINE Ends == (from - 1) .. (to - 1)
           bad == {n \in Ends : ~ \E g : IsValue(g, text, from, n)}
           m == First(bad)
<1>1. SUFFICES ASSUME bad # {} PROVE FALSE
    <2>1. to - 1 \in Ends
        OBVIOUS
    <2> QED BY <2>1
<1>2. m \in bad /\ \A n \in bad : m <= n
    <2>1. bad \in SUBSET Int /\ \A n \in bad : from - 1 <= n
        OBVIOUS
    <2>2. from - 1 \in Int
        OBVIOUS
    <2> HIDE DEF bad
    <2> QED BY <1>1, <2>1, <2>2, FirstIsLeast
<1> HIDE DEF m
<1>3. m \in Ends /\ ~ \E g : IsValue(g, text, from, m)
    BY <1>2
<1>4. CASE m = from - 1
    <2> DEFINE h == [a \in (from - 1) .. m |-> 0]
    <2>1. h = [a \in (from - 1) .. m |->
                IF a < from THEN 0 ELSE 10 * h[a - 1] + DigitValue(text[a])]
        <3>1. \A a \in (from - 1) .. m : a < from
            BY <1>4
        <3> HIDE DEF h
        <3>2. h = [a \in (from - 1) .. m |-> 0]
            BY DEF h
        <3> QED BY <3>1, <3>2
    <2> QED BY <1>3, <2>1 DEF IsValue
<1>5. CASE m # from - 1
    <2>1. m - 1 \in Ends /\ ~ (m <= m - 1)
        BY <1>3, <1>5
    <2>2. PICK g : IsValue(g, text, from, m - 1)
        BY <1>2, <2>1
    <2> DEFINE h == [a \in (from - 1) .. m |->
                        IF a = m THEN 10 * g[m - 1] + DigitValue(text[m])
                                 ELSE g[a]]
               e(f, a) == IF a < from THEN 0 ELSE 10 * f[a - 1] + DigitValue(text[a])
    <2>3. ASSUME NEW a \in (from - 1) .. m PROVE h[a] = e(h, a)
        <3>0. a \in Int /\ m \in Int /\ from - 1 < m
            BY <1>3, <1>5
        <3>1. CASE a = m
            <4>1. h[a] = 10 * g[m - 1] + DigitValue(text[m])
                BY <3>1
            <4>2. m - 1 \in (from - 1) .. m /\ m - 1 # m /\ ~ (m < from)
                BY <3>0
            <4>3. h[m - 1] = g[m - 1]
                BY <4>2
            <4> HIDE DEF h
            <4> QED BY <3>1, <4>1, <4>2, <4>3
        <3>2. CASE a # m
            <4>1. a \in (from - 1) .. (m - 1)
                BY <3>0, <3>2
            <4>2. g[a] = e(g, a)
                BY <2>2, <4>1 DEF IsValue
            <4>3. h[a] = g[a]
                BY <3>2
            <4>4. ~ (a < from) => a - 1 \in (from - 1) .. m /\ a - 1 # m
                BY <3>0, <4>1
            <4>5. ~ (a < from) => h[a - 1] = g[a - 1]
                BY <4>4
            <4> HIDE DEF h
            <4> QED BY <4>2, <4>3, <4>5
        <3> QED BY <3>1, <3>2
    <2>4. h = [a \in (from - 1) .. m |-> h[a]]
        OBVIOUS
    <2> HIDE DEF h
    <2>5. IsValue(h, text, from, m)
        BY <2>3, <2>4 DEF IsValue
    <2> QED BY <1>3, <2>5
<1> QED BY <1>4, <1>5

\* The value of digits is a number.
LEMMA DecimalValueIsInt ==
    ASSUME NEW text, NEW from \in Int, NEW to \in Int, from <= to,
           \A a \in from .. (to - 1) : text[a] \in Digits
    PROVE  DecimalValue(text, from, to) \in Int
<1> DEFINE g == CHOOSE h : IsValue(h, text, from, to - 1)
           Ends == (from - 1) .. (to - 1)
           bad == {n \in Ends : g[n] \notin Int}
           m == First(bad)
<1>1. IsValue(g, text, from, to - 1)
    BY ValueExists
<1>2. DecimalValue(text, from, to) = g[to - 1]
    BY ValueUnfolds
<1> HIDE DEF g
<1>3. ASSUME NEW a \in Ends
      PROVE  g[a] = IF a < from THEN 0 ELSE 10 * g[a - 1] + DigitValue(text[a])
    BY <1>1 DEF IsValue
<1>4. ASSUME bad # {} PROVE FALSE
    <2>1. m \in bad /\ \A n \in bad : m <= n
        <3>1. bad \in SUBSET Int /\ \A n \in bad : from - 1 <= n
            OBVIOUS
        <3>2. from - 1 \in Int
            OBVIOUS
        <3> HIDE DEF bad
        <3> QED BY <1>4, <3>1, <3>2, FirstIsLeast
    <2> HIDE DEF m
    <2>2. m \in Ends /\ g[m] \notin Int /\ m \in Int
        BY <2>1
    <2>3. ~ (m < from)
        BY <1>3, <2>2
    <2>4. m - 1 \in Ends /\ ~ (m <= m - 1) /\ m \in from .. (to - 1)
        BY <2>2, <2>3
    <2>5. g[m - 1] \in Int
        BY <2>1, <2>4
    <2>6. DigitValue(text[m]) \in Int
        BY <2>4, DigitIsInt
    <2> QED BY <1>3, <2>2, <2>3, <2>5, <2>6
<1>5. to - 1 \in Ends
    OBVIOUS
<1> QED BY <1>2, <1>4, <1>5

\* The characters a span has passed.
LEMMA SpanPassed ==
    ASSUME NEW text, NEW from \in Int, NEW end \in Int, NEW chars,
           NEW a \in from .. (SpanEnd(text, from, end, chars) - 1)
    PROVE  text[a] \in chars
<1> DEFINE stops == {b \in from .. end : b = end \/ text[b] \notin chars}
           last == SpanEnd(text, from, end, chars)
<1>1. last \in Int /\ from <= last /\ (from <= end => last <= end)
    BY SpanEndBounds
<1>2. ~ (from >= end)
    BY <1>1 DEF SpanEnd
<1>3. last = First(stops)
    BY <1>2 DEF SpanEnd
<1>4. stops \in SUBSET Int /\ end \in stops /\ \A b \in stops : from <= b
    BY <1>2
<1> HIDE DEF stops
<1>5. \A b \in stops : last <= b
    BY <1>3, <1>4, FirstIsLeast
<1>6. a \in from .. (last - 1)
    OBVIOUS
<1> HIDE DEF last
<1>7. a \in Int /\ from <= a /\ a < last /\ last <= end /\ last \in Int
    BY ONLY <1>1, <1>2, <1>6, from \in Int, end \in Int
<1>8. a \notin stops /\ a # end
    BY ONLY <1>5, <1>7
<1>9. a \in from .. end
    BY ONLY <1>7, from \in Int, end \in Int
<1> QED BY <1>8, <1>9 DEF stops

\* A number that one type holds is the same number for a type that holds more.
LEMMA LargerTypeReads ==
    ASSUME NEW text, NEW st \in State, NEW small, NEW large,
           small.signed = large.signed,
           small.max \in Int, large.max \in Int, small.max <= large.max,
           CharconvParse(text, st, small).ok
    PROVE  CharconvParse(text, st, large) = CharconvParse(text, st, small)
<1> DEFINE negative == small.signed /\ StartsWith(text, st, <<"-">>)
           digits   == IF negative THEN st.begin + 1 ELSE st.begin
           end      == SpanEnd(text, digits, st.end, Digits)
           value    == DecimalValue(text, digits, end)
           Reads(max) == end > digits /\ InRange(value, negative, max)
<1>1. /\ CharconvParse(text, st, small)
            = IF Reads(small.max) THEN Matched(end, st.begin, end) ELSE NoMatch
      /\ CharconvParse(text, st, large)
            = IF Reads(large.max) THEN Matched(end, st.begin, end) ELSE NoMatch
    BY DEF CharconvParse
<1>2. Reads(small.max)
    BY <1>1 DEF NoMatch
<1>3. digits \in Int /\ st.end \in Int
    BY DEF State
<1> HIDE DEF digits, negative
<1>4. end \in Int /\ digits <= end
    BY <1>3, SpanEndBounds
<1>5. \A a \in digits .. (end - 1) : text[a] \in Digits
    BY <1>3, SpanPassed
<1> HIDE DEF end
<1>6. value \in Int
    BY <1>3, <1>4, <1>5, DecimalValueIsInt
<1> HIDE DEF value
<1>7. Reads(large.max)
    BY <1>2, <1>6 DEF InRange
<1> QED BY <1>1, <1>2, <1>7

\* A number begins with a digit, or a minus sign.
LEMMA NumberBegins ==
    ASSUME NEW text, NEW st \in State, NEW type, CharconvParse(text, st, type).ok
    PROVE  text[st.begin] \in Digits \union {"-"}
<1> DEFINE negative == type.signed /\ StartsWith(text, st, <<"-">>)
           digits   == IF negative THEN st.begin + 1 ELSE st.begin
           end      == SpanEnd(text, digits, st.end, Digits)
<1>1. end > digits
    BY DEF CharconvParse, NoMatch
<1>2. st.begin \in Int /\ st.end \in Int
    BY DEF State
<1>3. CASE negative
    <2> DEFINE minus == <<"-">>
    <2>1. Len(minus) = 1 /\ minus[1] = "-" /\ 1 \in 1 .. 1
        OBVIOUS
    <2>2. StartsWith(text, st, minus)
        BY <1>3
    <2> HIDE DEF minus
    <2>3. text[st.begin + 1 - 1] = "-"
        BY <2>1, <2>2 DEF StartsWith
    <2>4. st.begin + 1 - 1 = st.begin
        BY <1>2
    <2> QED BY <2>3, <2>4
<1>4. CASE ~ negative
    <2>1. digits = st.begin
        BY <1>4
    <2>2. end \in Int /\ st.begin \in st.begin .. (end - 1)
        BY <1>1, <1>2, <2>1, SpanEndBounds
    <2> QED BY <1>2, <2>1, <2>2, SpanPassed
<1> QED BY <1>3, <1>4

=============================================================================
