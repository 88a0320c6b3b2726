--------------------------- MODULE ScannersProofs ---------------------------
(***************************************************************************)
(* What holds of the leaf parsers' loops for every text: which characters  *)
(* they look at, what they have gone past, and that each stops at the      *)
(* character Intrinsics says it stops at.                                  *)
(***************************************************************************)
EXTENDS Scanners, IntrinsicsProofs

----------------------------------------------------------------------------
(***************************************************************************)
(* Facts of a state in which a parser runs.                                *)
(***************************************************************************)

\* A number of characters is itself as a size_t.
LEMMA SizeTSmall ==
    ASSUME NEW n \in Nat, n < SizeValues
    PROVE  SizeT(n) = n
BY SizeAssumption DEF SizeT

LEMMA ViewFacts ==
    ASSUME IInv
    PROVE  /\ cur.begin \in Int /\ cur.end \in Int
           /\ cur = [begin |-> cur.begin, end |-> cur.end]
           /\ cur.begin <= cur.end
           /\ Size(cur) \in Nat /\ Size(cur) < SizeValues
           /\ Size(cur) = cur.end - cur.begin
           /\ st.begin \in Int /\ st.end \in Int
           /\ st = [begin |-> st.begin, end |-> st.end]
           /\ i \in Nat /\ size \in Nat /\ lit \in Nat \ {0}
           /\ SizeValues \in Nat
<1>1. PICK s \in Sources : /\ mem = s.mem /\ cur.end = s.view.end
                           /\ s.view.begin <= cur.begin
    BY DEF IInv, TypeOK
<1>2. s.view \in State /\ Size(s.view) < SizeValues
    BY SizeAssumption
<1>3. /\ cur \in State /\ st \in State /\ cur.begin <= cur.end
      /\ i \in Nat /\ size \in Nat /\ lit \in Nat \ {0}
    BY DEF IInv, TypeOK, ViewSound
<1>4. /\ cur.begin \in Int /\ cur.end \in Int
      /\ st.begin \in Int /\ st.end \in Int
      /\ s.view.begin \in Int /\ s.view.end \in Int
    BY <1>2, <1>3 DEF State
<1>5. SizeValues \in Nat
    BY SizeAssumption
<1>6. Size(cur) \in Nat /\ Size(cur) < SizeValues
    BY <1>1, <1>2, <1>3, <1>4, <1>5 DEF Size
<1> QED BY <1>3, <1>4, <1>5, <1>6 DEF State, Size

LEMMA RunFacts ==
    ASSUME IInv, NEW op, NEW where, Running(op, where)
    PROVE  /\ reading # <<>> /\ reading = <<reading[1]>>
           /\ reading[1] \in Scanner
           /\ Op(reading[1]) = op /\ at = where
           /\ st.end = cur.end
           /\ cur.begin <= st.begin /\ st.begin <= st.end
<1>1. reading # <<>> /\ Op(reading[1]) = op /\ at = where
    BY DEF Running
<1>2. PICK r \in Scanner : reading = <<r>>
    BY <1>1 DEF IInv, TypeOK
<1>3. reading[1] = r
    BY <1>2
<1> QED BY <1>1, <1>2, <1>3 DEF IInv, IndexInView

\* Only string_parser has a condition on the byte behind the view.
LEMMA BehindFacts ==
    ASSUME IInv, NoQuoteBehind, NEW where, Running("string", where)
    PROVE  mem[cur.end] # Quote
<1>1. PICK s \in Sources : mem = s.mem /\ cur.end = s.view.end
    BY DEF IInv, TypeOK
<1>2. reading[1] \in Scanner /\ Op(reading[1]) = "string"
    BY RunFacts
<1> QED BY <1>1, <1>2 DEF NoQuoteBehind

----------------------------------------------------------------------------
(***************************************************************************)
(* The three ways a step ends: the parser returns, or its loop goes on     *)
(* with another index or another state.                                    *)
(***************************************************************************)

\* A parser that returns a state in its view.
LEMMA DoneKeeps ==
    ASSUME IInv, NEW b \in Int, cur.begin <= b, b <= cur.end, NEW result,
           Done([begin |-> b, end |-> cur.end], result), looked' \in Int
    PROVE  IInv'
<1> DEFINE c == [begin |-> b, end |-> cur.end]
<1>1. /\ cur.begin \in Int /\ cur.end \in Int
    BY ViewFacts
<1>2. /\ cur' = c /\ st' = c /\ mem' = mem
      /\ reading' = <<>> /\ at' = "open"
      /\ i' = 0 /\ size' = 0 /\ lit' = 1
    BY DEF Done
<1>3. c \in State /\ c.begin = b /\ c.end = cur.end
    BY <1>1 DEF State
<1>4. PICK s \in Sources : /\ mem = s.mem /\ cur.end = s.view.end
                           /\ s.view.begin <= cur.begin
    BY DEF IInv, TypeOK
<1>5. s.view.begin \in Int
    BY SizeAssumption DEF State
<1>6. s.view.begin <= b
    BY <1>1, <1>4, <1>5
<1>7. TypeOK'
    BY <1>2, <1>3, <1>4, <1>6 DEF TypeOK
<1>8. ViewSound'
    BY <1>2, <1>3 DEF ViewSound
<1> QED BY <1>2, <1>7, <1>8
        DEF IInv, IndexInView, LookedInView, PassedRight

LEMMA FailKeeps ==
    ASSUME IInv, Fail, looked' \in Int
    PROVE  IInv'
<1>1. /\ cur.begin \in Int /\ cur.begin <= cur.end
      /\ cur = [begin |-> cur.begin, end |-> cur.end]
    BY ViewFacts
<1>2. Done([begin |-> cur.begin, end |-> cur.end], Nothing)
    BY <1>1 DEF Fail
<1> QED BY <1>1, <1>2, DoneKeeps

LEMMA SucceedKeeps ==
    ASSUME IInv, NEW rest \in Int, cur.begin <= rest, rest <= cur.end,
           NEW from, NEW to, Succeed(rest, from, to), looked' \in Int
    PROVE  IInv'
BY DoneKeeps DEF Succeed

\* A loop that goes on looks at a character of its view; what is left to show
\* is where it is and what it has gone past.
LEMMA GoesOn ==
    ASSUME IInv, UNCHANGED <<mem, cur, reading>>,
           st' \in State, at' = "loop", i' \in Nat, size' \in Nat,
           lit' \in Nat \ {0},
           \/ looked' = looked
           \/ looked' \in Int /\ cur.begin <= looked' /\ looked' < cur.end
           \/ /\ looked' \in Int /\ cur.begin <= looked' /\ looked' = cur.end
              /\ Op(reading[1]) = "string"
    PROVE  TypeOK' /\ LookedInView' /\ ViewSound'
<1>1. looked' \in Int
    BY DEF IInv, TypeOK
<1>2. TypeOK'
    BY <1>1 DEF IInv, TypeOK
<1>3. LookedInView'
    BY DEF IInv, LookedInView
<1>4. ViewSound'
    BY DEF IInv, ViewSound
<1> QED BY <1>2, <1>3, <1>4

----------------------------------------------------------------------------
\* zero_or_more_chars.
LEMMA CharsHolds ==
    ASSUME IInv, CharsNext
    PROVE  IInv'
<1>1. /\ reading # <<>> /\ Op(reading[1]) = "chars"
      /\ st.end = cur.end /\ cur.begin <= st.begin
    BY RunFacts DEF CharsNext
<1>2. /\ cur.begin \in Int /\ st.begin \in Int /\ st.end \in Int
      /\ i \in Nat /\ size \in Nat /\ lit \in Nat \ {0}
      /\ st = [begin |-> st.begin, end |-> st.end]
    BY ViewFacts
<1>3. /\ st' = [begin |-> st.begin + 1, end |-> st.end]
      /\ UNCHANGED <<mem, cur, reading, i, size, lit>> /\ at' = "loop"
      /\ st.begin < st.end /\ mem[st.begin] \in Arg1 /\ looked' = st.begin
    BY <1>2 DEF CharsNext, Advance, RemovePrefix, LooksAt
<1>4. st' \in State /\ st'.begin = st.begin + 1 /\ st'.end = st.end
    BY <1>2, <1>3 DEF State
<1>5. TypeOK' /\ LookedInView' /\ ViewSound'
    BY <1>1, <1>2, <1>3, <1>4, GoesOn
<1>6. i = 0
    BY <1>1 DEF IInv, IndexInView
<1>7. IndexInView'
    BY <1>1, <1>2, <1>3, <1>4, <1>6 DEF IndexInView
<1>8. \A a \in cur.begin .. (st.begin - 1) : mem[a] \in Arg1
    BY <1>1, <1>2, <1>6 DEF IInv, PassedRight
<1>9. \A a \in cur.begin .. st.begin : mem[a] \in Arg1
    BY <1>2, <1>3, <1>8
<1>10. PassedRight'
    <2>1. Arg1' = Arg1
        BY <1>3 DEF Arg1
    <2>2. st'.begin + i' - 1 = st.begin
        BY <1>2, <1>3, <1>4, <1>6
    <2> QED BY <1>1, <1>3, <1>9, <2>1, <2>2 DEF PassedRight
<1> QED BY <1>5, <1>7, <1>10 DEF IInv

\* count_chars and line_parser: the index goes on in the size of the view.
LEMMA CountingFacts ==
    ASSUME IInv, NEW op \in {"count", "line"}, Running(op, "loop"), InSize,
           Turn(i + 1), LooksAt(st.begin + i)
    PROVE  /\ TypeOK' /\ IndexInView' /\ LookedInView' /\ ViewSound'
           /\ UNCHANGED <<mem, cur, reading, st>> /\ st = cur
           /\ i' = i + 1 /\ i \in Nat /\ cur.begin \in Int
           /\ Arg1' = Arg1
           /\ reading # <<>> /\ Op(reading[1]) = op
<1>1. /\ reading # <<>> /\ Op(reading[1]) = op /\ at = "loop"
    BY RunFacts
<1>2. /\ cur.begin \in Int /\ cur.end \in Int
      /\ i \in Nat /\ size \in Nat /\ lit \in Nat \ {0}
      /\ Size(cur) < SizeValues /\ SizeValues \in Nat
      /\ Size(cur) = cur.end - cur.begin
    BY ViewFacts
<1>3. st = cur /\ size = Size(cur) /\ i < size
    BY <1>1 DEF IInv, IndexInView, InSize
<1>4. i + 1 \in Nat /\ i + 1 <= size /\ i + 1 < SizeValues
    BY <1>2, <1>3
<1>5. /\ i' = i + 1
      /\ UNCHANGED <<mem, cur, reading, at, st, size, lit>>
      /\ looked' = cur.begin + i
    BY <1>3, <1>4, SizeTSmall DEF Turn, LooksAt
<1>6. TypeOK' /\ LookedInView' /\ ViewSound'
    <2>1. st' \in State
        BY <1>5 DEF IInv, TypeOK
    <2>2. cur.begin <= cur.begin + i /\ cur.begin + i < cur.end
        BY <1>2, <1>3
    <2> QED BY <1>1, <1>2, <1>4, <1>5, <2>1, <2>2, GoesOn
<1>7. IndexInView'
    BY <1>1, <1>2, <1>3, <1>4, <1>5 DEF IInv, IndexInView
<1> QED BY <1>1, <1>2, <1>3, <1>5, <1>6, <1>7 DEF Arg1

LEMMA CountHolds ==
    ASSUME IInv, CountNext
    PROVE  IInv'
<1>1. /\ TypeOK' /\ IndexInView' /\ LookedInView' /\ ViewSound'
      /\ UNCHANGED <<mem, cur, reading, st>> /\ st = cur
      /\ i' = i + 1 /\ i \in Nat /\ cur.begin \in Int
      /\ Arg1' = Arg1
      /\ reading # <<>> /\ Op(reading[1]) = "count"
    BY CountingFacts DEF CountNext
<1>2. \A a \in cur.begin .. (cur.begin + i - 1) : mem[a] \in Arg1
    BY <1>1 DEF IInv, PassedRight
<1>3. mem[cur.begin + i] \in Arg1
    BY <1>1 DEF CountNext, Here
<1>4. \A a \in cur.begin .. (cur.begin + (i + 1) - 1) : mem[a] \in Arg1
    BY <1>1, <1>2, <1>3
<1>5. PassedRight'
    BY <1>1, <1>4 DEF PassedRight
<1> QED BY <1>1, <1>5 DEF IInv

LEMMA LineHolds ==
    ASSUME IInv, LineNext
    PROVE  IInv'
<1>1. /\ TypeOK' /\ IndexInView' /\ LookedInView' /\ ViewSound'
      /\ UNCHANGED <<mem, cur, reading, st>> /\ st = cur
      /\ i' = i + 1 /\ i \in Nat /\ cur.begin \in Int
      /\ Arg1' = Arg1
      /\ reading # <<>> /\ Op(reading[1]) = "line"
    BY CountingFacts DEF LineNext
<1>2. \A a \in cur.begin .. (cur.begin + i - 1) : mem[a] # NewLine
    BY <1>1 DEF IInv, PassedRight
<1>3. mem[cur.begin + i] # NewLine
    BY <1>1 DEF LineNext, Here
<1>4. \A a \in cur.begin .. (cur.begin + (i + 1) - 1) : mem[a] # NewLine
    BY <1>1, <1>2, <1>3
<1>5. PassedRight'
    BY <1>1, <1>4 DEF PassedRight
<1> QED BY <1>1, <1>5 DEF IInv

----------------------------------------------------------------------------
\* string_parser: the opening quote, and the places its loop does not stop at.
LEMMA StringOpenHolds ==
    ASSUME IInv, StringOpen
    PROVE  IInv'
<1>1. /\ reading # <<>> /\ Op(reading[1]) = "string" /\ at = "open"
    BY RunFacts DEF StringOpen
<1>2. /\ cur.begin \in Int /\ cur.end \in Int /\ cur.begin <= cur.end
      /\ Size(cur) \in Nat /\ Size(cur) < SizeValues /\ SizeValues \in Nat
      /\ Size(cur) = cur.end - cur.begin
      /\ lit \in Nat \ {0} /\ looked \in Int
    BY ViewFacts DEF IInv, TypeOK
<1>3. st = cur
    BY <1>1 DEF IInv, IndexInView
<1>4. CASE Fail
    <2>1. looked' \in Int
        BY <1>2, <1>3, <1>4 DEF StringOpen, LooksNowhere, LooksAt
    <2> QED BY <1>4, <2>1, FailKeeps
<1>5. CASE /\ Size(st) >= 2 /\ mem[st.begin] = Quote
           /\ LooksAt(st.begin)
           /\ at' = "loop" /\ i' = 1 /\ size' = SizeT(Size(st) - 1)
           /\ UNCHANGED <<mem, cur, reading, st, lit, got>>
    <2>1. size' = Size(cur) - 1 /\ Size(cur) - 1 \in Nat /\ Size(cur) >= 2
        <3>1. Size(cur) - 1 \in Nat /\ Size(cur) - 1 < SizeValues
            BY <1>2, <1>3, <1>5
        <3> QED BY <1>3, <1>5, <3>1, SizeTSmall
    <2>2. cur.begin < cur.end /\ looked' = cur.begin
        BY <1>2, <1>3, <1>5 DEF LooksAt
    <2>3. TypeOK' /\ LookedInView' /\ ViewSound'
        <3>1. st' \in State
            BY <1>5 DEF IInv, TypeOK
        <3> QED BY <1>1, <1>2, <1>5, <2>1, <2>2, <3>1, GoesOn
    <2>4. IndexInView'
        BY <1>1, <1>2, <1>3, <1>5, <2>1 DEF IndexInView
    <2>5. PassedRight'
        <3>1. ~ SecondOfEscape(mem, cur, cur.begin + 1)
            BY FirstNotSecond DEF IInv, TypeOK
        <3>2. (cur.begin + 1) .. (cur.begin + 1 - 1) = {}
            BY <1>2
        <3> QED BY <1>1, <1>3, <1>5, <3>1, <3>2 DEF PassedRight
    <2> QED BY <2>3, <2>4, <2>5 DEF IInv
<1> QED BY <1>4, <1>5 DEF StringOpen

\* Where string_parser's loop is, and what it looks at there.
LEMMA StringFacts ==
    ASSUME IInv, Running("string", "loop")
    PROVE  /\ reading # <<>> /\ Op(reading[1]) = "string" /\ at = "loop"
           /\ st = cur /\ size = Size(cur) - 1
           /\ cur \in State /\ cur.begin \in Int /\ cur.end \in Int
           /\ i \in Nat /\ 1 <= i /\ i <= size + 1 /\ size \in Nat
           /\ Size(cur) = cur.end - cur.begin
           /\ Size(cur) < SizeValues /\ SizeValues \in Nat
           /\ Here = mem[cur.begin + i]
           /\ mem[cur.begin] = Quote
           /\ ~ SecondOfEscape(mem, cur, cur.begin + i)
           /\ \A a \in (cur.begin + 1) .. (cur.begin + i - 1) :
                /\ a \notin StringStops(mem, cur)
                /\ SecondOfEscape(mem, cur, a) => mem[a] \in EscapeCodes
<1>1. reading # <<>> /\ Op(reading[1]) = "string" /\ at = "loop"
    BY RunFacts
<1>2. /\ st = cur /\ size = Size(cur) - 1 /\ 1 <= i /\ i <= size + 1
    BY <1>1 DEF IInv, IndexInView
<1>3. cur \in State
    BY DEF IInv, TypeOK
<1> QED BY <1>1, <1>2, <1>3, ViewFacts DEF IInv, PassedRight, Here

\* In front of the last character, only a quote that is not escaped stops it.
LEMMA NotAStop ==
    ASSUME NEW text, NEW v \in State, NEW a \in Int, a < v.end - 1,
           text[a] # Quote \/ SecondOfEscape(text, v, a)
    PROVE  a \notin StringStops(text, v)
<1>1. v.end \in Int
    BY DEF State
<1> QED BY <1>1 DEF StringStops

LEMMA StringGoesOn ==
    ASSUME IInv, Running("string", "loop"), InSize, NEW n \in {1, 2},
           Turn(i + n), LooksAt(st.begin + i) \/ LooksAt(st.begin + i + 1),
           ~ SecondOfEscape(mem, cur, cur.begin + i + n),
           \A a \in (cur.begin + i) .. (cur.begin + i + n - 1) :
                /\ a \notin StringStops(mem, cur)
                /\ SecondOfEscape(mem, cur, a) => mem[a] \in EscapeCodes
    PROVE  IInv'
<1>1. /\ reading # <<>> /\ Op(reading[1]) = "string" /\ at = "loop"
      /\ st = cur /\ size = Size(cur) - 1
      /\ cur.begin \in Int /\ cur.end \in Int
      /\ i \in Nat /\ 1 <= i /\ size \in Nat
      /\ Size(cur) = cur.end - cur.begin
      /\ Size(cur) < SizeValues /\ SizeValues \in Nat
      /\ mem[cur.begin] = Quote
      /\ \A a \in (cur.begin + 1) .. (cur.begin + i - 1) :
            /\ a \notin StringStops(mem, cur)
            /\ SecondOfEscape(mem, cur, a) => mem[a] \in EscapeCodes
    BY StringFacts
<1>2. i < size
    BY DEF InSize
<1>3. i + n \in Nat /\ i + n <= size + 1 /\ i + n < SizeValues /\ 1 <= i + n
    BY <1>1, <1>2
<1>4. /\ i' = i + n
      /\ UNCHANGED <<mem, cur, reading, at, st, size, lit>>
    BY <1>3, SizeTSmall DEF Turn
<1>5. looked' \in Int /\ cur.begin <= looked' /\ looked' < cur.end
    <2>1. i < cur.end - cur.begin - 1
        BY <1>1, <1>2
    <2>2. looked' = cur.begin + i \/ looked' = cur.begin + i + 1
        BY <1>1 DEF LooksAt
    <2>3. cur.begin \in Int /\ cur.end \in Int /\ i \in Nat
        BY <1>1
    <2> QED BY <2>1, <2>2, <2>3
<1>6. TypeOK' /\ LookedInView' /\ ViewSound'
    <2>1. st' \in State /\ lit \in Nat \ {0}
        BY <1>4 DEF IInv, TypeOK
    <2> QED BY <1>1, <1>3, <1>4, <1>5, <2>1, GoesOn
<1>7. IndexInView'
    BY <1>1, <1>3, <1>4 DEF IInv, IndexInView
<1>8. \A a \in (cur.begin + 1) .. (cur.begin + (i + n) - 1) :
        /\ a \notin StringStops(mem, cur)
        /\ SecondOfEscape(mem, cur, a) => mem[a] \in EscapeCodes
    <2> SUFFICES ASSUME NEW a \in (cur.begin + 1) .. (cur.begin + (i + n) - 1)
                 PROVE  /\ a \notin StringStops(mem, cur)
                        /\ SecondOfEscape(mem, cur, a) => mem[a] \in EscapeCodes
        OBVIOUS
    <2>1. \/ a \in (cur.begin + 1) .. (cur.begin + i - 1)
          \/ a \in (cur.begin + i) .. (cur.begin + i + n - 1)
        <3>1. cur.begin \in Int /\ i \in Nat /\ n \in Int
            BY <1>1
        <3> QED BY <3>1
    <2> QED BY <1>1, <2>1
<1>9. cur.begin + (i + n) = cur.begin + i + n
    BY <1>1
<1>10. PassedRight'
    BY <1>1, <1>4, <1>8, <1>9 DEF PassedRight
<1> QED BY <1>6, <1>7, <1>10 DEF IInv

LEMMA StringNextHolds ==
    ASSUME IInv, StringNext
    PROVE  IInv'
<1>1. /\ cur \in State /\ cur.begin \in Int /\ cur.end \in Int
      /\ i \in Nat /\ 1 <= i /\ size = cur.end - cur.begin - 1
      /\ Here = mem[cur.begin + i]
      /\ ~ SecondOfEscape(mem, cur, cur.begin + i)
    BY StringFacts DEF StringNext
<1>2. i < size /\ mem[cur.begin + i] \notin {Escape, Quote}
    BY <1>1 DEF StringNext, InSize
<1> DEFINE a == cur.begin + i
<1>3. a \in Int /\ cur.begin < a /\ a < cur.end - 1
    BY <1>1, <1>2
<1>4. ~ SecondOfEscape(mem, cur, a + 1)
    <2> HIDE DEF a
    <2>1. mem[a] # Escape
        BY <1>2 DEF a
    <2> QED BY <1>1, <1>3, <2>1, EscapesAlternate
<1>5. a \notin StringStops(mem, cur)
    <2> HIDE DEF a
    <2>1. mem[a] # Quote
        BY <1>2 DEF a
    <2> QED BY <1>1, <1>3, <2>1, NotAStop
<1>6. \A b \in a .. (a + 1 - 1) :
        /\ b \notin StringStops(mem, cur)
        /\ SecondOfEscape(mem, cur, b) => mem[b] \in EscapeCodes
    BY <1>1, <1>3, <1>5
<1> QED BY <1>4, <1>6, StringGoesOn DEF StringNext

LEMMA StringEscapeHolds ==
    ASSUME IInv, StringEscape
    PROVE  IInv'
<1>1. /\ cur \in State /\ cur.begin \in Int /\ cur.end \in Int
      /\ st = cur
      /\ i \in Nat /\ 1 <= i /\ size = cur.end - cur.begin - 1
      /\ Here = mem[cur.begin + i]
      /\ ~ SecondOfEscape(mem, cur, cur.begin + i)
    BY StringFacts DEF StringEscape
<1>2. i < size /\ mem[cur.begin + i] = Escape
    BY <1>1 DEF StringEscape, InSize
<1> DEFINE a == cur.begin + i
<1>3. a \in Int /\ cur.begin < a /\ a < cur.end - 1
    BY <1>1, <1>2
<1>4. SecondOfEscape(mem, cur, a + 1) /\ mem[a] # Quote
    <2> HIDE DEF a
    <2>1. mem[a] = Escape /\ ~ SecondOfEscape(mem, cur, a)
        BY <1>1, <1>2 DEF a
    <2> QED BY <1>1, <1>3, <2>1, EscapesAlternate DEF Escape, Quote
<1>5. CASE mem[a + 1] \in EscapeCodes /\ Turn(i + EscapeLength)
    <2>1. ~ SecondOfEscape(mem, cur, a + 2)
        <3> HIDE DEF a
        <3>1. a + 1 \in Int /\ cur.begin < a + 1 /\ (a + 1) + 1 = a + 2
            BY <1>1, <1>3
        <3> QED BY <1>1, <1>4, <3>1, EscapesAlternate
    <2>2. a \notin StringStops(mem, cur)
        <3> HIDE DEF a
        <3> QED BY <1>1, <1>3, <1>4, NotAStop
    <2>3. a + 1 \notin StringStops(mem, cur)
        <3> HIDE DEF a
        <3> QED BY <1>4 DEF StringStops
    <2>4. \A b \in a .. (a + 2 - 1) :
            /\ b \notin StringStops(mem, cur)
            /\ SecondOfEscape(mem, cur, b) => mem[b] \in EscapeCodes
        <3> HIDE DEF a
        <3>1. ~ SecondOfEscape(mem, cur, a)
            BY <1>1 DEF a
        <3>2. \A b \in a .. (a + 2 - 1) : b = a \/ b = a + 1
            BY <1>3
        <3> QED BY <1>5, <2>2, <2>3, <3>1, <3>2
    <2> QED BY <1>5, <2>1, <2>4, StringGoesOn DEF StringEscape, EscapeLength
<1>6. CASE Fail
    <2>1. looked' \in Int
        BY <1>1 DEF StringEscape, LooksAt
    <2> QED BY <1>6, <2>1, FailKeeps
<1> QED BY <1>1, <1>5, <1>6 DEF StringEscape

LEMMA StringEndHolds ==
    ASSUME IInv, NoQuoteBehind, StringEnd
    PROVE  IInv'
<1>1. /\ cur.begin \in Int /\ cur.end \in Int
      /\ st = cur
      /\ i \in Nat /\ 1 <= i /\ i <= size + 1 /\ size = cur.end - cur.begin - 1
      /\ Here = mem[cur.begin + i]
    BY StringFacts DEF StringEnd
<1>2. looked' \in Int
    BY <1>1 DEF StringEnd, LooksAt
<1>3. CASE Here # Quote
    BY <1>2, <1>3, FailKeeps DEF StringEnd
<1>4. CASE Here = Quote
    <2>1. mem[cur.end] # Quote
        BY BehindFacts DEF StringEnd
    <2>2. cur.begin + i # cur.end
        BY <1>1, <1>4, <2>1
    <2>3. /\ st.begin + i + 1 \in Int
          /\ cur.begin <= st.begin + i + 1 /\ st.begin + i + 1 <= cur.end
        BY <1>1, <2>2
    <2>4. Succeed(st.begin + i + 1, st.begin + 1, st.begin + i)
        BY <1>4 DEF StringEnd
    <2> QED BY <1>2, <2>3, <2>4, SucceedKeeps
<1> QED BY <1>3, <1>4

----------------------------------------------------------------------------
\* view_parser: the steps that take n characters off its state.
LEMMA ViewGoesOn ==
    ASSUME IInv, NEW where, Running("view", where), NEW n \in {1, 2},
           Advance(RemovePrefix(n)), st.begin + n <= st.end,
           looked' \in Int /\ cur.begin <= looked' /\ looked' < cur.end,
           mem[cur.begin] = Quote,
           st.begin + n < st.end /\ mem[st.begin + n] = Quote
                => mem[st.begin + n - 1] # Escape,
           \A a \in (cur.begin + 1) .. (st.begin + n - 1) :
                a \notin ViewStops(mem, cur)
    PROVE  IInv'
<1>1. /\ reading # <<>> /\ Op(reading[1]) = "view"
      /\ st.end = cur.end /\ cur.begin <= st.begin
    BY RunFacts
<1>2. /\ cur.begin \in Int /\ st.begin \in Int /\ st.end \in Int
      /\ i \in Nat /\ size \in Nat /\ lit \in Nat \ {0}
      /\ st = [begin |-> st.begin, end |-> st.end]
    BY ViewFacts
<1>3. /\ st' = [begin |-> st.begin + n, end |-> st.end]
      /\ UNCHANGED <<mem, cur, reading, i, size, lit>> /\ at' = "loop"
    BY <1>2 DEF Advance, RemovePrefix
<1>4. st' \in State /\ st'.begin = st.begin + n /\ st'.end = st.end
    BY <1>2, <1>3 DEF State
<1>5. TypeOK' /\ LookedInView' /\ ViewSound'
    BY <1>1, <1>2, <1>3, <1>4, GoesOn
<1>6. i = 0
    BY <1>1 DEF IInv, IndexInView
<1>7. IndexInView'
    <2>1. cur.begin <= st'.begin /\ st'.begin <= st'.end
        BY <1>1, <1>2, <1>4
    <2> QED BY <1>1, <1>3, <1>4, <1>6, <2>1 DEF IndexInView
<1>8. PassedRight'
    <2>1. st'.begin + i' - 1 = st.begin + n - 1 /\ cur.begin < st.begin + n
        BY <1>1, <1>2, <1>3, <1>4, <1>6
    <2>2. st'.begin < st'.end /\ mem[st'.begin] = Quote
            => mem[st'.begin - 1] # Escape
        <3>1. st'.begin - 1 = st.begin + n - 1
            BY <1>2, <1>4
        <3> QED BY <1>4, <3>1
    <2>3. \A a \in (cur.begin + 1) .. (st'.begin + i' - 1) :
            a \notin ViewStops(mem, cur)
        BY <2>1
    <2>4. cur.begin < st'.begin
        BY <1>4, <2>1
    <2> QED BY <1>1, <1>3, <2>2, <2>3, <2>4 DEF PassedRight
<1> QED BY <1>5, <1>7, <1>8 DEF IInv

LEMMA ViewOpenHolds ==
    ASSUME IInv, ViewOpen
    PROVE  IInv'
<1>1. /\ reading # <<>> /\ Op(reading[1]) = "view" /\ at = "open"
      /\ Running("view", "open")
    BY RunFacts DEF ViewOpen
<1>2. /\ cur.begin \in Int /\ cur.end \in Int /\ looked \in Int
      /\ Size(cur) = cur.end - cur.begin
    BY ViewFacts DEF IInv, TypeOK
<1>3. st = cur
    BY <1>1 DEF IInv, IndexInView
<1>4. looked' \in Int
    BY <1>2, <1>3 DEF ViewOpen, LooksAt, LooksNowhere
<1>5. CASE Check(st, Quote)
    <2>1. cur.begin < cur.end /\ mem[cur.begin] = Quote
        BY <1>3, <1>5 DEF Check
    <2>2. looked' = cur.begin
        BY <1>2, <1>3, <2>1 DEF ViewOpen, LooksAt
    <2>3. cur.begin + 1 - 1 = cur.begin /\ cur.begin + 1 <= cur.end
        BY <1>2, <2>1
    <2>4. (cur.begin + 1) .. cur.begin = {}
        BY <1>2
    <2>5. mem[cur.begin] # Escape
        BY <2>1 DEF Quote, Escape
    <2>6. Advance(RemovePrefix(1))
        BY <1>5 DEF ViewOpen
    <2> QED BY <1>1, <1>2, <1>3, <2>1, <2>2, <2>3, <2>4, <2>5, <2>6, ViewGoesOn
<1>6. CASE ~ Check(st, Quote)
    BY <1>4, <1>6, FailKeeps DEF ViewOpen
<1> QED BY <1>5, <1>6

\* Where view_parser's loop is.
LEMMA ViewLoopFacts ==
    ASSUME IInv, Running("view", "loop")
    PROVE  /\ cur.begin \in Int /\ cur.end \in Int /\ st.begin \in Int
           /\ st.end = cur.end /\ cur.begin < st.begin /\ st.begin <= cur.end
           /\ st = [begin |-> st.begin, end |-> st.end]
           /\ looked \in Int /\ i = 0
           /\ mem[cur.begin] = Quote
           /\ st.begin < st.end /\ mem[st.begin] = Quote
                => mem[st.begin - 1] # Escape
           /\ \A a \in (cur.begin + 1) .. (st.begin - 1) :
                a \notin ViewStops(mem, cur)
<1>1. /\ reading # <<>> /\ Op(reading[1]) = "view" /\ at = "loop"
      /\ st.end = cur.end /\ st.begin <= st.end
    BY RunFacts
<1>2. /\ cur.begin \in Int /\ cur.end \in Int /\ st.begin \in Int
      /\ st = [begin |-> st.begin, end |-> st.end]
    BY ViewFacts
<1>3. i = 0 /\ looked \in Int
    BY <1>1 DEF IInv, IndexInView, TypeOK
<1>4. st.begin + i - 1 = st.begin - 1
    BY <1>2, <1>3
<1> QED BY <1>1, <1>2, <1>3, <1>4 DEF IInv, PassedRight

LEMMA ViewNextHolds ==
    ASSUME IInv, ViewNext
    PROVE  IInv'
<1>1. /\ cur.begin \in Int /\ cur.end \in Int /\ st.begin \in Int
      /\ st.end = cur.end /\ cur.begin < st.begin
      /\ mem[cur.begin] = Quote
      /\ \A a \in (cur.begin + 1) .. (st.begin - 1) :
            a \notin ViewStops(mem, cur)
    BY ViewLoopFacts DEF ViewNext
<1>2. /\ st.begin < st.end /\ mem[st.begin] # Quote /\ mem[st.begin] # Escape
      /\ looked' = st.begin /\ Advance(RemovePrefix(1))
    BY <1>1 DEF ViewNext, Size, LooksAt
<1>3. st.begin \notin ViewStops(mem, cur)
    BY <1>2 DEF ViewStops
<1>4. \A a \in (cur.begin + 1) .. (st.begin + 1 - 1) :
        a \notin ViewStops(mem, cur)
    <2>1. \A a \in (cur.begin + 1) .. (st.begin + 1 - 1) :
            a \in (cur.begin + 1) .. (st.begin - 1) \/ a = st.begin
        <3>1. cur.begin \in Int /\ st.begin \in Int
            BY <1>1
        <3> QED BY <3>1
    <2> QED BY <1>1, <1>3, <2>1
<1>5. st.begin + 1 - 1 = st.begin /\ st.begin + 1 <= st.end
    BY <1>1, <1>2
<1> QED BY <1>1, <1>2, <1>4, <1>5, ViewGoesOn DEF ViewNext

LEMMA ViewEscapeHolds ==
    ASSUME IInv, ViewEscape
    PROVE  IInv'
<1> DEFINE b == st.begin
<1>1. /\ cur.begin \in Int /\ cur.end \in Int /\ b \in Int
      /\ st.end = cur.end /\ cur.begin < b
      /\ st = [begin |-> b, end |-> st.end]
      /\ mem[cur.begin] = Quote
      /\ \A a \in (cur.begin + 1) .. (b - 1) : a \notin ViewStops(mem, cur)
    BY ViewLoopFacts DEF ViewEscape
<1>2. b < st.end /\ mem[b] = Escape
    BY <1>1 DEF ViewEscape, Size
<1>3. /\ RemovePrefix(1) = [begin |-> b + 1, end |-> st.end]
      /\ RemovePrefix(1).begin = b + 1 /\ RemovePrefix(1).end = st.end
    BY <1>1 DEF RemovePrefix
<1>4. looked' \in Int /\ cur.begin <= looked' /\ looked' < cur.end
    <2>1. Size(RemovePrefix(1)) = st.end - (b + 1)
        BY <1>3 DEF Size
    <2>2. \/ st.end - (b + 1) > 0 /\ looked' = b + 1
          \/ looked' = b
        BY <1>3, <2>1 DEF ViewEscape, LooksAt
    <2> QED BY <1>1, <1>2, <2>2
<1>5. b \notin ViewStops(mem, cur)
    BY <1>2 DEF ViewStops, Quote, Escape
<1>6. CASE Check(RemovePrefix(1), Quote)
    <2>1. b + 1 < st.end /\ mem[b + 1] = Quote
        BY <1>3, <1>6 DEF Check
    <2>2. Advance(RemovePrefix(2))
        BY <1>6 DEF ViewEscape
    <2>3. b + 1 \notin ViewStops(mem, cur)
        <3>1. (b + 1) - 1 = b
            BY <1>1
        <3>2. mem[(b + 1) - 1] = Escape
            BY <1>2, <3>1
        <3> HIDE DEF b
        <3> QED BY <3>2 DEF ViewStops
    <2>4. \A a \in (cur.begin + 1) .. (b + 2 - 1) : a \notin ViewStops(mem, cur)
        <3>1. \A a \in (cur.begin + 1) .. (b + 2 - 1) :
                \/ a \in (cur.begin + 1) .. (b - 1)
                \/ a = b \/ a = b + 1
            <4>1. cur.begin \in Int /\ b \in Int
                BY <1>1
            <4> QED BY <4>1
        <3> QED BY <1>1, <1>5, <2>3, <3>1
    <2>5. mem[b + 2 - 1] # Escape /\ b + 2 <= st.end
        <3>1. b + 2 - 1 = b + 1 /\ b + 2 <= st.end
            BY <1>1, <2>1
        <3> QED BY <2>1, <3>1 DEF Quote, Escape
    <2> QED BY <1>1, <1>4, <2>2, <2>4, <2>5, ViewGoesOn DEF ViewEscape
<1>7. CASE ~ Check(RemovePrefix(1), Quote)
    <2>1. ~ (b + 1 < st.end /\ mem[b + 1] = Quote)
        BY <1>3, <1>7 DEF Check
    <2>2. Advance(RemovePrefix(1))
        BY <1>7 DEF ViewEscape
    <2>3. \A a \in (cur.begin + 1) .. (b + 1 - 1) : a \notin ViewStops(mem, cur)
        <3>1. \A a \in (cur.begin + 1) .. (b + 1 - 1) :
                a \in (cur.begin + 1) .. (b - 1) \/ a = b
            <4>1. cur.begin \in Int /\ b \in Int
                BY <1>1
            <4> QED BY <4>1
        <3> QED BY <1>1, <1>5, <3>1
    <2>4. b + 1 <= st.end
        BY <1>1, <1>2
    <2> QED BY <1>1, <1>4, <2>1, <2>2, <2>3, <2>4, ViewGoesOn DEF ViewEscape
<1> QED BY <1>6, <1>7

LEMMA ViewEndHolds ==
    ASSUME IInv, ViewEnd
    PROVE  IInv'
<1>1. /\ cur.begin \in Int /\ cur.end \in Int /\ st.begin \in Int
      /\ st.end = cur.end /\ cur.begin < st.begin /\ looked \in Int
    BY ViewLoopFacts DEF ViewEnd
<1>2. CASE Size(st) <= 0
    BY <1>1, <1>2, FailKeeps DEF ViewEnd, LooksNowhere, Size
<1>3. CASE ~ (Size(st) <= 0)
    <2>1. /\ looked' = st.begin /\ st.begin < cur.end
          /\ Succeed(st.begin + 1, cur.begin + 1, st.begin)
        BY <1>1, <1>3 DEF ViewEnd, LooksAt, Size
    <2>2. /\ st.begin + 1 \in Int /\ cur.begin <= st.begin + 1
          /\ st.begin + 1 <= cur.end
        BY <1>1, <2>1
    <2> QED BY <1>1, <2>1, <2>2, SucceedKeeps
<1> QED BY <1>2, <1>3

----------------------------------------------------------------------------
\* The fold over the literals: where it is, and which literal it is at.
LEMMA LiteralFacts ==
    ASSUME IInv, Running("literal", "loop")
    PROVE  /\ reading # <<>> /\ Op(reading[1]) = "literal" /\ at = "loop"
           /\ st = cur /\ cur \in State
           /\ cur.begin \in Int /\ cur.end \in Int /\ looked \in Int
           /\ Size(cur) = cur.end - cur.begin
           /\ Size(cur) < SizeValues /\ SizeValues \in Nat
           /\ i \in Nat /\ size \in Nat /\ lit \in Nat \ {0}
           /\ Len(Arg1) \in Nat
           /\ \A k \in 1 .. Len(Arg1) : Len(Arg1[k]) \in Nat
           /\ lit <= Len(Arg1) + 1
           /\ \A k \in 1 .. (lit - 1) : ~ StartsWith(mem, cur, Arg1[k])
           /\ lit <= Len(Arg1) =>
                /\ i <= Len(Arg1[lit])
                /\ \A k \in 1 .. i : mem[cur.begin + k - 1] = Arg1[lit][k]
<1>1. /\ reading # <<>> /\ Op(reading[1]) = "literal" /\ at = "loop"
      /\ reading[1] \in Scanner
    BY RunFacts
<1>2. st = cur /\ (lit <= Len(Arg1) => i <= Len(Arg1[lit]))
    BY <1>1 DEF IInv, IndexInView
<1>3. /\ Len(Arg1) \in Nat
      /\ \A k \in 1 .. Len(Arg1) : Len(Arg1[k]) \in Nat
    BY <1>1, ScannerAssumption DEF Arg1
<1>4. cur \in State /\ looked \in Int
    BY DEF IInv, TypeOK
<1>5. /\ lit <= Len(Arg1) + 1
      /\ \A k \in 1 .. (lit - 1) : ~ StartsWith(mem, cur, Arg1[k])
      /\ lit <= Len(Arg1) =>
            \A k \in 1 .. i : mem[cur.begin + k - 1] = Arg1[lit][k]
    BY <1>1 DEF IInv, PassedRight
<1> QED BY <1>1, <1>2, <1>3, <1>4, <1>5, ViewFacts

\* A literal that is not a prefix of the state is given up for the next one.
LEMMA NextLiteralHolds ==
    ASSUME IInv, Running("literal", "loop"), lit <= Len(Arg1), NextLiteral,
           ~ StartsWith(mem, cur, Arg1[lit]),
           \/ looked' = looked
           \/ looked' \in Int /\ cur.begin <= looked' /\ looked' < cur.end
    PROVE  IInv'
<1>1. /\ reading # <<>> /\ Op(reading[1]) = "literal" /\ at = "loop"
      /\ st = cur /\ cur \in State
      /\ size \in Nat /\ lit \in Nat \ {0} /\ Len(Arg1) \in Nat
      /\ \A k \in 1 .. Len(Arg1) : Len(Arg1[k]) \in Nat
      /\ \A k \in 1 .. (lit - 1) : ~ StartsWith(mem, cur, Arg1[k])
    BY LiteralFacts
<1>2. /\ lit' = lit + 1 /\ i' = 0 /\ Arg1' = Arg1
      /\ UNCHANGED <<mem, cur, reading, at, st, size>>
    BY DEF NextLiteral, Arg1
<1>3. lit + 1 \in Nat \ {0} /\ lit + 1 <= Len(Arg1) + 1 /\ 0 \in Nat
    BY <1>1
<1>4. TypeOK' /\ LookedInView' /\ ViewSound'
    <2>1. st' \in State
        BY <1>1, <1>2
    <2> QED BY <1>1, <1>2, <1>3, <2>1, GoesOn
<1>5. IndexInView'
    <2>1. lit + 1 <= Len(Arg1) => 0 <= Len(Arg1[lit + 1])
        BY <1>1
    <2> QED BY <1>1, <1>2, <2>1 DEF IInv, IndexInView
<1>6. PassedRight'
    <2>1. \A k \in 1 .. ((lit + 1) - 1) : ~ StartsWith(mem, cur, Arg1[k])
        <3>1. \A k \in 1 .. ((lit + 1) - 1) : k \in 1 .. (lit - 1) \/ k = lit
            BY <1>1
        <3> QED BY <1>1, <3>1
    <2>2. 1 .. 0 = {}
        OBVIOUS
    <2> QED BY <1>1, <1>2, <1>3, <2>1, <2>2 DEF PassedRight
<1> QED BY <1>4, <1>5, <1>6 DEF IInv

LEMMA LiteralNextHolds ==
    ASSUME IInv, LiteralNext
    PROVE  IInv'
<1> DEFINE l == Arg1[lit]
<1>0. Running("literal", "loop") /\ lit <= Len(Arg1)
    BY DEF LiteralNext
<1>1. /\ reading # <<>> /\ Op(reading[1]) = "literal" /\ at = "loop"
      /\ st = cur /\ cur \in State
      /\ cur.begin \in Int /\ cur.end \in Int
      /\ Size(cur) = cur.end - cur.begin
      /\ Size(cur) < SizeValues /\ SizeValues \in Nat
      /\ i \in Nat /\ size \in Nat /\ lit \in Nat \ {0}
      /\ Len(l) \in Nat
      /\ lit <= Len(Arg1) + 1
      /\ \A k \in 1 .. (lit - 1) : ~ StartsWith(mem, cur, Arg1[k])
      /\ \A k \in 1 .. i : mem[cur.begin + k - 1] = l[k]
    BY <1>0, LiteralFacts
<1>2. CASE ~ Fits(l) /\ LooksNowhere /\ NextLiteral
    <2>1. ~ StartsWith(mem, cur, l) /\ looked' = looked
        BY <1>1, <1>2 DEF Fits, StartsWith, LooksNowhere
    <2> QED BY <1>0, <1>2, <2>1, NextLiteralHolds
<1>3. CASE /\ Fits(l) /\ i < Len(l)
           /\ LooksAt(st.begin + i)
           /\ IF Here = l[i + 1] THEN Turn(i + 1) ELSE NextLiteral
    <2>1. i + 1 \in Nat /\ i + 1 <= Len(l) /\ i + 1 <= Size(cur)
        BY <1>1, <1>3 DEF Fits
    <2>2. looked' \in Int /\ cur.begin <= looked' /\ looked' < cur.end
        <3>1. looked' = cur.begin + i
            BY <1>1, <1>3 DEF LooksAt
        <3> HIDE DEF l
        <3> QED BY <1>1, <2>1, <3>1
    <2>3. cur.begin + (i + 1) - 1 = cur.begin + i
        BY <1>1
    <2>4. CASE Here = l[i + 1]
        <3>1. SizeT(i + 1) = i + 1
            <4> HIDE DEF l
            <4>1. i + 1 < SizeValues
                BY <1>1, <2>1
            <4> QED BY <2>1, <4>1, SizeTSmall
        <3>2. /\ i' = i + 1 /\ Arg1' = Arg1
              /\ UNCHANGED <<mem, cur, reading, at, st, size, lit>>
            BY <1>3, <2>4, <3>1 DEF Turn, Arg1
        <3>3. TypeOK' /\ LookedInView' /\ ViewSound'
            <4>1. st' \in State
                BY <1>1, <3>2
            <4> QED BY <1>1, <2>1, <2>2, <3>2, <4>1, GoesOn
        <3>4. IndexInView'
            <4>1. Fits(Arg1[lit])'
                BY <1>3, <3>2 DEF Fits
            <4> QED BY <1>1, <2>1, <3>2, <4>1 DEF IInv, IndexInView
        <3>5. PassedRight'
            <4>1. mem[cur.begin + (i + 1) - 1] = l[i + 1]
                BY <1>1, <2>3, <2>4 DEF Here
            <4>2. \A k \in 1 .. (i + 1) : k \in 1 .. i \/ k = i + 1
                BY <1>1
            <4>3. \A k \in 1 .. (i + 1) : mem[cur.begin + k - 1] = l[k]
                BY <1>1, <4>1, <4>2
            <4> QED BY <1>1, <3>2, <4>3 DEF PassedRight
        <3> QED BY <3>3, <3>4, <3>5 DEF IInv
    <2>5. CASE Here # l[i + 1]
        <3>1. mem[cur.begin + (i + 1) - 1] # l[i + 1]
            BY <1>1, <2>3, <2>5 DEF Here
        <3>2. i + 1 \in 1 .. Len(l)
            BY <1>1, <2>1
        <3>3. ~ StartsWith(mem, cur, l)
            BY <3>1, <3>2 DEF StartsWith
        <3> QED BY <1>0, <1>3, <2>2, <2>5, <3>3, NextLiteralHolds
    <2> QED BY <2>4, <2>5
<1> QED BY <1>2, <1>3 DEF LiteralNext

LEMMA LiteralEndHolds ==
    ASSUME IInv, LiteralEnd
    PROVE  IInv'
<1>0. Running("literal", "loop") /\ looked' = looked
    BY DEF LiteralEnd, LooksNowhere
<1>1. /\ st = cur /\ cur.begin \in Int /\ cur.end \in Int /\ looked \in Int
      /\ Size(cur) = cur.end - cur.begin /\ i \in Nat
      /\ Len(Arg1) \in Nat /\ lit \in Nat \ {0}
      /\ \A k \in 1 .. Len(Arg1) : Len(Arg1[k]) \in Nat
    BY <1>0, LiteralFacts
<1>2. CASE Fail
    BY <1>0, <1>1, <1>2, FailKeeps
<1>3. CASE /\ lit <= Len(Arg1) /\ Fits(Arg1[lit]) /\ i = Len(Arg1[lit])
           /\ Succeed(st.begin + i, st.begin, st.begin + i)
    <2>1. i <= cur.end - cur.begin
        BY <1>1, <1>3 DEF Fits
    <2>2. /\ st.begin + i \in Int /\ cur.begin <= st.begin + i
          /\ st.begin + i <= cur.end
        BY <1>1, <2>1
    <2> QED BY <1>0, <1>1, <1>3, <2>2, SucceedKeeps
<1> QED BY <1>2, <1>3 DEF LiteralEnd

----------------------------------------------------------------------------
\* The ends of zero_or_more_chars, count_chars and line_parser.
LEMMA CharsEndHolds ==
    ASSUME IInv, CharsEnd
    PROVE  IInv'
<1>1. st.end = cur.end /\ cur.begin <= st.begin /\ st.begin <= st.end
    BY RunFacts DEF CharsEnd
<1>2. st.begin \in Int /\ looked \in Int
    BY ViewFacts DEF IInv, TypeOK
<1>3. looked' \in Int
    BY <1>2 DEF CharsEnd, LooksAt, LooksNowhere
<1> QED BY <1>1, <1>2, <1>3, SucceedKeeps DEF CharsEnd

\* Where count_chars and line_parser are.
LEMMA CountFacts ==
    ASSUME IInv, NEW op \in {"count", "line"}, Running(op, "loop")
    PROVE  /\ st = cur /\ cur.begin \in Int /\ cur.end \in Int
           /\ i \in Nat /\ size = cur.end - cur.begin /\ i <= size
           /\ size \in Nat /\ size < SizeValues /\ looked \in Int
           /\ reading # <<>> /\ Op(reading[1]) = op /\ at = "loop"
<1>1. reading # <<>> /\ Op(reading[1]) = op /\ at = "loop"
    BY RunFacts
<1>2. st = cur /\ size = Size(cur) /\ i <= size
    BY <1>1 DEF IInv, IndexInView
<1>3. looked \in Int
    BY DEF IInv, TypeOK
<1> QED BY <1>1, <1>2, <1>3, ViewFacts

LEMMA CountEndHolds ==
    ASSUME IInv, CountEnd
    PROVE  IInv'
<1>1. /\ st = cur /\ cur.begin \in Int /\ cur.end \in Int
      /\ i \in Nat /\ size = cur.end - cur.begin /\ i <= size /\ looked \in Int
    BY CountFacts DEF CountEnd
<1>2. looked' \in Int
    BY <1>1 DEF CountEnd, LooksAt, LooksNowhere
<1>3. st.begin + i \in Int /\ cur.begin <= st.begin + i /\ st.begin + i <= cur.end
    BY <1>1
<1> QED BY <1>2, <1>3, SucceedKeeps DEF CountEnd

LEMMA LineBreakHolds ==
    ASSUME IInv, LineBreak
    PROVE  IInv'
<1>1. /\ st = cur /\ cur.begin \in Int /\ cur.end \in Int
      /\ i \in Nat /\ size = cur.end - cur.begin /\ i < size
    BY CountFacts DEF LineBreak, InSize
<1>2. looked' \in Int
    BY <1>1 DEF LineBreak, LooksAt
<1>3. /\ st.begin + i + 1 \in Int /\ cur.begin <= st.begin + i + 1
      /\ st.begin + i + 1 <= cur.end
    BY <1>1
<1> QED BY <1>2, <1>3, SucceedKeeps DEF LineBreak

LEMMA LineEndHolds ==
    ASSUME IInv, LineEnd
    PROVE  IInv'
<1>1. /\ st = cur /\ cur.begin \in Int /\ cur.end \in Int
      /\ size = cur.end - cur.begin /\ size \in Nat /\ looked \in Int
    BY CountFacts DEF LineEnd
<1>2. looked' \in Int
    BY <1>1 DEF LineEnd, LooksNowhere
<1>3. /\ st.begin + size \in Int /\ cur.begin <= st.begin + size
      /\ st.begin + size <= cur.end
    BY <1>1
<1> QED BY <1>2, <1>3, SucceedKeeps DEF LineEnd

----------------------------------------------------------------------------
\* read gives the parser the client's view.
LEMMA StartHolds ==
    ASSUME IInv, NEW r \in Scanner, Start(r)
    PROVE  IInv'
<1>1. /\ cur.begin \in Int /\ cur.end \in Int /\ cur.begin <= cur.end
      /\ Size(cur) \in Nat /\ Size(cur) < SizeValues
      /\ Size(cur) = cur.end - cur.begin /\ cur \in State
    BY ViewFacts DEF IInv, TypeOK
<1>2. /\ reading' = <<r>> /\ reading'[1] = r
      /\ st' = cur /\ i' = 0 /\ size' = Size(cur) /\ lit' = 1 /\ looked' = 0
      /\ mem' = mem /\ cur' = cur
      /\ at' = IF Op(r) \in {"string", "view"} THEN "open" ELSE "loop"
    BY <1>1, SizeTSmall DEF Start, NULLPTR
<1>3. TypeOK'
    BY <1>1, <1>2 DEF IInv, TypeOK
<1>4. Op(r) = "literal" =>
        Len(Arg(r)) \in Nat /\ \A k \in 1 .. Len(Arg(r)) : Len(Arg(r)[k]) \in Nat
    BY ScannerAssumption
<1>5. Arg1' = Arg(r)
    BY <1>2 DEF Arg1
<1>6. IndexInView'
    <2>1. Op(r) = "literal" /\ 1 <= Len(Arg(r)) => 0 <= Len(Arg(r)[1])
        BY <1>4
    <2> QED BY <1>1, <1>2, <1>5, <2>1 DEF IndexInView
<1>7. PassedRight'
    <2>1. cur.begin .. (cur.begin + 0 - 1) = {} /\ 1 .. 0 = {} /\ 1 .. (1 - 1) = {}
        BY <1>1
    <2>2. Op(r) = "literal" => 1 <= Len(Arg(r)) + 1
        BY <1>4
    <2> QED BY <1>1, <1>2, <1>5, <2>1, <2>2 DEF PassedRight
<1>8. LookedInView' /\ ViewSound'
    BY <1>1, <1>2 DEF LookedInView, NULLPTR, ViewSound
<1> QED BY <1>3, <1>6, <1>7, <1>8 DEF IInv

\* Every step of the client and of its parser keeps the invariant.
LEMMA NextHolds ==
    ASSUME NoQuoteBehind, IInv, [Next]_vars
    PROVE  IInv'
<1>1. CASE \E r \in Scanner : Start(r)
    BY <1>1, StartHolds
<1>2. CASE CharsNext \/ CharsEnd
    BY <1>2, CharsHolds, CharsEndHolds
<1>3. CASE CountNext \/ CountEnd
    BY <1>3, CountHolds, CountEndHolds
<1>4. CASE LineNext \/ LineBreak \/ LineEnd
    BY <1>4, LineHolds, LineBreakHolds, LineEndHolds
<1>5. CASE StringOpen \/ StringNext \/ StringEscape \/ StringEnd
    BY <1>5, StringOpenHolds, StringNextHolds, StringEscapeHolds, StringEndHolds
<1>6. CASE ViewOpen \/ ViewNext \/ ViewEscape \/ ViewEnd
    BY <1>6, ViewOpenHolds, ViewNextHolds, ViewEscapeHolds, ViewEndHolds
<1>7. CASE LiteralNext \/ LiteralEnd
    BY <1>7, LiteralNextHolds, LiteralEndHolds
<1>8. CASE UNCHANGED vars
    <2>1. UNCHANGED <<mem, cur, reading, at, st, i, size, lit, looked, got>>
        BY <1>8 DEF vars, locals
    <2> QED BY <2>1 DEF IInv, TypeOK, IndexInView, LookedInView, PassedRight,
                        ViewSound, Arg1, Fits
<1> QED BY <1>1, <1>2, <1>3, <1>4, <1>5, <1>6, <1>7, <1>8 DEF Next, Work

LEMMA InitHolds ==
    ASSUME Init
    PROVE  IInv
<1>1. PICK s \in Sources : mem = s.mem /\ cur = s.view
    BY DEF Init
<1>2. /\ cur \in State /\ cur.begin <= cur.end
      /\ cur.begin \in Int /\ cur.end \in Int
    BY <1>1, SizeAssumption DEF State
<1>3. /\ reading = <<>> /\ at = "open" /\ st = cur /\ i = 0 /\ size = 0
      /\ lit = 1 /\ looked = 0
    BY DEF Init, NULLPTR
<1>4. TypeOK
    BY <1>1, <1>2, <1>3 DEF TypeOK
<1> QED BY <1>2, <1>3, <1>4
        DEF IInv, IndexInView, LookedInView, PassedRight, ViewSound

\* While a client reads with the leaf parsers, each loop is where its index
\* may be, has looked at no character that is not its own, and has gone past
\* what Intrinsics says it goes past and past no place to stop - as long as no
\* view that string_parser is given has a quote in the byte behind it.
THEOREM ScannersInvariant ==
    ASSUME NoQuoteBehind
    PROVE  Spec => []IInv
<1>1. Init => IInv
    BY InitHolds
<1>2. IInv /\ [Next]_vars => IInv'
    BY NextHolds
<1> QED BY <1>1, <1>2, PTL DEF Spec

\* A step looks at a character of the client's view, at the one behind it in
\* string_parser's case, or at no new one.
LEMMA LooksInView ==
    ASSUME IInv, Work, looked' # NULLPTR
    PROVE  /\ cur.begin <= looked'
           /\ \/ looked' < cur.end
              \/ looked' = cur.end /\ Op(reading[1]) = "string"
<1>1. /\ cur.begin \in Int /\ cur.end \in Int
      /\ st.begin \in Int /\ i \in Nat
      /\ Size(cur) = cur.end - cur.begin
    BY ViewFacts
<1>2. CASE LooksNowhere
    <2>1. reading # <<>>
        BY DEF Work, Running, CharsNext, CharsEnd, CountNext, CountEnd, LineNext,
               LineBreak, LineEnd, StringOpen, StringNext, StringEscape,
               StringEnd, ViewOpen, ViewNext, ViewEscape, ViewEnd, LiteralNext,
               LiteralEnd
    <2>2. looked' = looked
        BY <1>2 DEF LooksNowhere
    <2> QED BY <2>1, <2>2 DEF IInv, LookedInView
<1>3. CASE (CharsNext \/ CharsEnd) /\ ~ LooksNowhere
    <2>1. Running("chars", "loop") /\ looked' = st.begin /\ st.begin < st.end
        BY <1>3 DEF CharsNext, CharsEnd, LooksAt
    <2>2. st.end = cur.end /\ cur.begin <= st.begin
        BY <2>1, RunFacts
    <2> QED BY <1>1, <2>1, <2>2
<1>4. CASE (CountNext \/ CountEnd) /\ ~ LooksNowhere
    <2>1. Running("count", "loop") /\ looked' = st.begin + i /\ i < size
        BY <1>4 DEF CountNext, CountEnd, LooksAt, InSize
    <2>2. st = cur /\ size = cur.end - cur.begin
        BY <2>1, CountFacts
    <2> QED BY <1>1, <2>1, <2>2
<1>5. CASE (LineNext \/ LineBreak \/ LineEnd) /\ ~ LooksNowhere
    <2>1. Running("line", "loop") /\ looked' = st.begin + i /\ i < size
        BY <1>5 DEF LineNext, LineBreak, LineEnd, LooksAt, InSize
    <2>2. st = cur /\ size = cur.end - cur.begin
        BY <2>1, CountFacts
    <2> QED BY <1>1, <2>1, <2>2
<1>6. CASE StringOpen /\ ~ LooksNowhere
    <2>1. Running("string", "open") /\ looked' = st.begin /\ Size(st) >= 2
        BY <1>6 DEF StringOpen, LooksAt
    <2>2. st = cur
        BY <2>1, RunFacts DEF IInv, IndexInView
    <2> QED BY <1>1, <2>1, <2>2
<1>7. CASE (StringNext \/ StringEscape \/ StringEnd) /\ ~ LooksNowhere
    <2>1. /\ Running("string", "loop")
          /\ \/ looked' = st.begin + i
             \/ looked' = st.begin + i + 1 /\ i < size
        BY <1>7 DEF StringNext, StringEscape, StringEnd, LooksAt, InSize
    <2>2. /\ st = cur /\ size = cur.end - cur.begin - 1
          /\ 1 <= i /\ i <= size + 1 /\ Op(reading[1]) = "string"
        BY <2>1, StringFacts
    <2> QED BY <1>1, <2>1, <2>2
<1>8. CASE ViewOpen /\ ~ LooksNowhere
    <2>1. Running("view", "open") /\ looked' = st.begin /\ Size(st) > 0
        BY <1>8 DEF ViewOpen, LooksAt
    <2>2. st = cur
        BY <2>1, RunFacts DEF IInv, IndexInView
    <2> QED BY <1>1, <2>1, <2>2
<1>9. CASE (ViewNext \/ ViewEscape \/ ViewEnd) /\ ~ LooksNowhere
    <2>0. st = [begin |-> st.begin, end |-> st.end] /\ st.end \in Int
        BY ViewFacts
    <2>1. Running("view", "loop") /\ Size(st) > 0
        BY <1>9 DEF ViewNext, ViewEscape, ViewEnd
    <2>2. /\ RemovePrefix(1).begin = st.begin + 1
          /\ Size(RemovePrefix(1)) = st.end - (st.begin + 1)
        BY <2>0 DEF RemovePrefix, Size
    <2>3. \/ looked' = st.begin
          \/ looked' = st.begin + 1 /\ st.end - (st.begin + 1) > 0
        BY <1>9, <2>2 DEF ViewNext, ViewEscape, ViewEnd, LooksAt
    <2>4. st.end = cur.end /\ cur.begin <= st.begin /\ st.begin < st.end
        BY <1>1, <2>0, <2>1, RunFacts DEF Size
    <2> QED BY <1>1, <2>3, <2>4
<1>10. CASE (LiteralNext \/ LiteralEnd) /\ ~ LooksNowhere
    <2>1. /\ Running("literal", "loop") /\ looked' = st.begin + i
          /\ lit <= Len(Arg1) /\ Fits(Arg1[lit]) /\ i < Len(Arg1[lit])
        BY <1>10 DEF LiteralNext, LiteralEnd, LooksAt
    <2>2. st = cur /\ Len(Arg1[lit]) \in Nat
        BY <2>1, LiteralFacts
    <2> QED BY <1>1, <2>1, <2>2 DEF Fits
<1> QED BY <1>2, <1>3, <1>4, <1>5, <1>6, <1>7, <1>8, <1>9, <1>10 DEF Work

\* No loop looks in front of the view its parser was given or past its end,
\* string_parser excepted, which may look at the one character behind it.
THEOREM ScannersReadInView ==
    ASSUME NoQuoteBehind
    PROVE  Spec => ReadsInView
<1>1. IInv /\ [Next]_vars
        => [ Work /\ looked' # NULLPTR
             => /\ cur.begin <= looked'
                /\ \/ looked' < cur.end
                   \/ looked' = cur.end /\ Op(reading[1]) = "string" ]_vars
    BY LooksInView
<1> QED BY <1>1, ScannersInvariant, PTL DEF Spec, ReadsInView

----------------------------------------------------------------------------
(***************************************************************************)
(* The loops compute the outcomes of Intrinsics.  PassedRight says at the  *)
(* end of a loop that nothing in front of where it stopped was a place to  *)
(* stop, so where it stopped is the first one.                             *)
(***************************************************************************)

\* The first address of a set, once it is known which one it is.
LEMMA FirstIs ==
    ASSUME NEW S \in SUBSET Int, NEW a \in S, \A b \in S : a <= b
    PROVE  First(S) = a
<1>1. First(S) \in S /\ \A b \in S : First(S) <= b
    BY DEF First
<1>2. First(S) <= a /\ a <= First(S)
    BY <1>1
<1>3. First(S) \in Int /\ a \in Int
    BY <1>1
<1> QED BY <1>2, <1>3

LEMMA SpanEndIs ==
    ASSUME NEW text, NEW from \in Int, NEW end \in Int, NEW chars,
           NEW a \in Int, from <= a, a <= end,
           \A b \in from .. (a - 1) : text[b] \in chars,
           a = end \/ text[a] \notin chars
    PROVE  SpanEnd(text, from, end, chars) = a
<1> DEFINE stops == {b \in from .. end : b = end \/ text[b] \notin chars}
<1>1. CASE from >= end
    BY <1>1 DEF SpanEnd
<1>2. CASE ~ (from >= end)
    <2>1. a \in stops /\ stops \in SUBSET Int
        OBVIOUS
    <2>2. \A b \in stops : a <= b
        <3> SUFFICES ASSUME NEW b \in stops, b < a PROVE FALSE
            OBVIOUS
        <3>1. b \in from .. (a - 1) /\ b # end
            OBVIOUS
        <3> QED BY <3>1
    <2> HIDE DEF stops
    <2>3. First(stops) = a
        BY <2>1, <2>2, FirstIs
    <2> QED BY <1>2, <2>3 DEF SpanEnd, stops
<1> QED BY <1>1, <1>2

\* A loop that returns what Intrinsics says takes the step of ParserSpec.
LEMMA SucceedMeans ==
    ASSUME NEW r, reading = <<r>>, NEW rest, NEW from, NEW to,
           Succeed(rest, from, to),
           Outcome(mem, r, cur) = Matched(rest, from, to)
    PROVE  ScanRead!End(r)
<1>1. OutcomeMeaning(mem, r, cur)
        = [ok  |-> TRUE, st |-> [begin |-> rest, end |-> cur.end],
           val |-> <<[leaf |-> r, from |-> from, to |-> to]>>]
    BY DEF OutcomeMeaning, Matched
<1>2. reading[1] = r
    OBVIOUS
<1> QED BY <1>1, <1>2 DEF ScanRead!End, Succeed, Done

LEMMA FailMeans ==
    ASSUME NEW r, reading = <<r>>, Fail, Outcome(mem, r, cur) = NoMatch
    PROVE  ScanRead!End(r)
<1>1. ~ OutcomeMeaning(mem, r, cur).ok
    BY DEF OutcomeMeaning, NoMatch
<1> QED BY <1>1 DEF ScanRead!End, ScanRead!Nothing, Fail, Done, Nothing

LEMMA CharsEndMeans ==
    ASSUME IInv, CharsEnd
    PROVE  ScanRead!End(reading[1])
<1> DEFINE r == reading[1]
<1>1. /\ reading # <<>> /\ reading = <<r>> /\ Op(r) = "chars"
      /\ st.end = cur.end /\ cur.begin <= st.begin /\ st.begin <= st.end
    BY RunFacts DEF CharsEnd
<1>2. cur.begin \in Int /\ cur.end \in Int /\ st.begin \in Int
    BY ViewFacts
<1>3. i = 0
    BY <1>1 DEF IInv, IndexInView
<1>4. \A a \in cur.begin .. (st.begin - 1) : mem[a] \in Arg(r)
    <2>1. st.begin + i - 1 = st.begin - 1
        BY <1>2, <1>3
    <2> QED BY <1>1, <2>1 DEF IInv, PassedRight, Arg1
<1>5. st.begin = cur.end \/ mem[st.begin] \notin Arg(r)
    BY <1>1, <1>2 DEF CharsEnd, Arg1
<1>6. SpanEnd(mem, cur.begin, cur.end, Arg(r)) = st.begin
    <2>1. st.begin <= cur.end
        BY <1>1
    <2> HIDE DEF r
    <2> QED BY <1>1, <1>2, <1>4, <1>5, <2>1, SpanEndIs
<1>7. Outcome(mem, r, cur) = Matched(st.begin, cur.begin, st.begin)
    BY <1>1, <1>6 DEF Outcome, CharsParse
<1>8. Succeed(st.begin, cur.begin, st.begin)
    BY DEF CharsEnd
<1> QED BY <1>1, <1>7, <1>8, SucceedMeans

LEMMA CountEndMeans ==
    ASSUME IInv, CountEnd
    PROVE  ScanRead!End(reading[1])
<1> DEFINE r == reading[1]
           a == cur.begin + i
<1>1. reading # <<>> /\ reading = <<r>> /\ Op(r) = "count"
    BY RunFacts DEF CountEnd
<1>2. /\ st = cur /\ cur.begin \in Int /\ cur.end \in Int
      /\ i \in Nat /\ size = cur.end - cur.begin /\ i <= size
    BY CountFacts DEF CountEnd
<1>3. a \in Int /\ cur.begin <= a /\ a <= cur.end
    BY <1>2
<1>4. \A b \in cur.begin .. (a - 1) : mem[b] \in Arg(r)
    BY <1>1, <1>2 DEF IInv, PassedRight, Arg1
<1>5. a = cur.end \/ mem[a] \notin Arg(r)
    <2>1. CASE ~ InSize
        BY <1>2, <2>1 DEF InSize
    <2>2. CASE InSize
        BY <1>2, <2>2 DEF CountEnd, Here, Arg1
    <2> QED BY <2>1, <2>2
<1>6. SpanEnd(mem, cur.begin, cur.end, Arg(r)) = a
    <2> HIDE DEF r, a
    <2> QED BY <1>2, <1>3, <1>4, <1>5, SpanEndIs
<1>7. Outcome(mem, r, cur) = Matched(a, cur.begin, a)
    <2> HIDE DEF a
    <2> QED BY <1>1, <1>6 DEF Outcome, CharsParse
<1>8. Succeed(a, cur.begin, a)
    BY <1>2 DEF CountEnd
<1> HIDE DEF a
<1> QED BY <1>1, <1>7, <1>8, SucceedMeans

\* The line in front of the break, cut by substr to no less.
LEMMA LineBreakMeans ==
    ASSUME IInv, LineBreak
    PROVE  ScanRead!End(reading[1])
<1> DEFINE r == reading[1]
           a == cur.begin + i
           breaks == {b \in cur.begin .. (cur.end - 1) : mem[b] = NewLine}
           crlf == a > cur.begin /\ mem[a - 1] = Return_
           to == IF crlf THEN a - 1 ELSE a
<1>1. reading # <<>> /\ reading = <<r>> /\ Op(r) = "line"
    BY RunFacts DEF LineBreak
<1>2. /\ st = cur /\ cur.begin \in Int /\ cur.end \in Int
      /\ i \in Nat /\ size = cur.end - cur.begin /\ i < size
      /\ size \in Nat /\ size < SizeValues
    BY CountFacts DEF LineBreak, InSize
<1>3. a \in breaks /\ breaks \in SUBSET Int
    BY <1>2 DEF LineBreak, Here
<1>4. \A b \in breaks : a <= b
    <2>1. \A b \in cur.begin .. (a - 1) : mem[b] # NewLine
        BY <1>1, <1>2 DEF IInv, PassedRight
    <2> SUFFICES ASSUME NEW b \in breaks, b < a PROVE FALSE
        BY <1>2
    <2>2. b \in cur.begin .. (a - 1)
        BY <1>2
    <2> QED BY <2>1, <2>2
<1>5. First(breaks) = a
    <2> HIDE DEF breaks, a
    <2> QED BY <1>3, <1>4, FirstIs
<1>6. Outcome(mem, r, cur) = Matched(a + 1, cur.begin, to)
    <2>1. LineParse(mem, cur) = Matched(a + 1, cur.begin, to)
        <3>1. breaks # {}
            BY <1>3
        <3> HIDE DEF a
        <3> QED BY <1>5, <3>1 DEF LineParse
    <2> QED BY <1>1, <2>1 DEF Outcome
<1>7. SubstrEnd(st, 0, LineSize) = to
    <2>1. SizeT(Size(st) - 0) = size
        BY <1>2, SizeTSmall DEF Size
    <2>2. (i > 0) = (a > cur.begin) /\ cur.begin + i - 1 = a - 1
        BY <1>2
    <2>3. LineSize = IF crlf THEN i - 1 ELSE i
        BY <1>2, <2>2 DEF LineSize
    <2>4. LineSize \in Int /\ LineSize <= size /\ cur.begin + LineSize = to
        <3>1. CASE crlf
            BY <1>2, <2>3, <3>1
        <3>2. CASE ~ crlf
            BY <1>2, <2>3, <3>2
        <3> QED BY <3>1, <3>2
    <2>5. SubstrEnd(st, 0, LineSize)
            = cur.begin + 0 + IF size < LineSize THEN size ELSE LineSize
        BY <1>2, <2>1 DEF SubstrEnd
    <2> HIDE DEF to
    <2> QED BY <1>2, <2>4, <2>5
<1>8. Succeed(a + 1, cur.begin, to)
    BY <1>2, <1>7 DEF LineBreak
<1> HIDE DEF a, to
<1> QED BY <1>1, <1>6, <1>8, SucceedMeans

LEMMA LineEndMeans ==
    ASSUME IInv, LineEnd
    PROVE  ScanRead!End(reading[1])
<1> DEFINE r == reading[1]
           breaks == {b \in cur.begin .. (cur.end - 1) : mem[b] = NewLine}
<1>1. reading # <<>> /\ reading = <<r>> /\ Op(r) = "line"
    BY RunFacts DEF LineEnd
<1>2. /\ st = cur /\ cur.begin \in Int /\ cur.end \in Int
      /\ i \in Nat /\ size = cur.end - cur.begin /\ i <= size
    BY CountFacts DEF LineEnd
<1>3. i = size
    BY <1>2 DEF LineEnd, InSize
<1>4. cur.begin + i - 1 = cur.end - 1 /\ st.begin + size = cur.end
    BY <1>2, <1>3
<1>5. breaks = {}
    BY <1>1, <1>2, <1>4 DEF IInv, PassedRight
<1>6. Outcome(mem, r, cur) = Matched(cur.end, cur.begin, cur.end)
    BY <1>1, <1>5 DEF Outcome, LineParse
<1>7. Succeed(cur.end, cur.begin, cur.end)
    BY <1>2, <1>4 DEF LineEnd
<1> QED BY <1>1, <1>6, <1>7, SucceedMeans

----------------------------------------------------------------------------
LEMMA StringOpenMeans ==
    ASSUME IInv, StringOpen, Fail
    PROVE  ScanRead!End(reading[1])
<1>1. /\ reading # <<>> /\ reading = <<reading[1]>>
      /\ Op(reading[1]) = "string" /\ at = "open"
    BY RunFacts DEF StringOpen
<1>2. st = cur
    BY <1>1 DEF IInv, IndexInView
<1>3. cur.begin \in Int /\ cur.end \in Int /\ Size(cur) = cur.end - cur.begin
    BY ViewFacts
<1>4. ~ (Size(cur) >= 2 /\ mem[cur.begin] = Quote)
    <2>1. reading' = <<>>
        BY DEF Fail, Done
    <2> QED BY <1>1, <1>2, <1>3, <2>1 DEF StringOpen
<1>5. Outcome(mem, reading[1], cur) = NoMatch
    BY <1>1, <1>4 DEF Outcome, StringParse
<1> QED BY <1>1, <1>5, FailMeans

\* A letter that may not follow a backslash: the stop is behind it, if there
\* is one.
LEMMA StringEscapeMeans ==
    ASSUME IInv, StringEscape, Fail
    PROVE  ScanRead!End(reading[1])
<1> DEFINE a == cur.begin + i
           stops == StringStops(mem, cur)
<1>1. /\ reading = <<reading[1]>> /\ Op(reading[1]) = "string"
    BY RunFacts DEF StringEscape
<1>2. /\ reading # <<>> /\ st = cur
      /\ cur \in State /\ cur.begin \in Int /\ cur.end \in Int
      /\ i \in Nat /\ 1 <= i
      /\ Here = mem[a] /\ ~ SecondOfEscape(mem, cur, a)
      /\ \A b \in (cur.begin + 1) .. (a - 1) : b \notin stops
      /\ size = cur.end - cur.begin - 1
    BY StringFacts DEF StringEscape
<1>3. mem[a] = Escape /\ i < size
    BY <1>2 DEF StringEscape, InSize
<1>4. a \in Int /\ cur.begin < a /\ a < cur.end - 1
    BY <1>2, <1>3
<1>5. mem[a + 1] \notin EscapeCodes
    <2>1. reading' = <<>>
        BY DEF Fail, Done
    <2>2. ~ Turn(i + EscapeLength)
        BY <1>2, <2>1 DEF Turn
    <2> QED BY <1>2, <2>2 DEF StringEscape
<1>6. SecondOfEscape(mem, cur, a + 1)
    <2> HIDE DEF a
    <2> QED BY <1>2, <1>3, <1>4, EscapesAlternate
<1>7. a \notin stops /\ a + 1 \notin stops
    <2> HIDE DEF a
    <2> QED BY <1>2, <1>3, <1>4, <1>6, NotAStop DEF StringStops, Escape, Quote
<1>8. Outcome(mem, reading[1], cur) = NoMatch
    <2>1. CASE stops = {}
        BY <1>1, <2>1 DEF Outcome, StringParse
    <2>2. CASE stops # {}
        <3>1. stops \in SUBSET Int /\ \A b \in stops : cur.begin + 1 <= b
            BY <1>2 DEF StringStops
        <3>2. First(stops) \in stops
            <4> HIDE DEF stops
            <4>1. cur.begin + 1 \in Int
                BY <1>2
            <4> QED BY <2>2, <3>1, <4>1, FirstIsLeast
        <3>3. a + 1 \in (cur.begin + 1) .. (First(stops) - 1)
            <4> DEFINE stop == First(stops)
            <4>1. stop \in Int /\ cur.begin + 1 <= stop
                BY <3>1, <3>2
            <4>2. stop # a /\ stop # a + 1
                BY <1>7, <3>2
            <4>3. ~ (stop \in (cur.begin + 1) .. (a - 1))
                BY <1>2, <3>2
            <4> HIDE DEF stop, stops, a
            <4> QED BY <1>2, <1>4, <4>1, <4>2, <4>3 DEF stop
        <3>4. StringParse(mem, cur) = NoMatch
            <4> HIDE DEF a
            <4> QED BY <1>5, <1>6, <3>3 DEF StringParse
        <3> QED BY <1>1, <3>4 DEF Outcome
    <2> QED BY <2>1, <2>2
<1> QED BY <1>1, <1>8, FailMeans

LEMMA StringEndMeans ==
    ASSUME IInv, NoQuoteBehind, StringEnd
    PROVE  ScanRead!End(reading[1])
<1> DEFINE a == cur.begin + i
           stops == StringStops(mem, cur)
<1>1. /\ reading = <<reading[1]>> /\ Op(reading[1]) = "string"
    BY RunFacts DEF StringEnd
<1>2. /\ reading # <<>> /\ st = cur
      /\ cur \in State /\ cur.begin \in Int /\ cur.end \in Int
      /\ i \in Nat /\ 1 <= i /\ i <= size + 1
      /\ Here = mem[a] /\ ~ SecondOfEscape(mem, cur, a)
      /\ mem[cur.begin] = Quote
      /\ \A b \in (cur.begin + 1) .. (a - 1) :
            /\ b \notin stops
            /\ SecondOfEscape(mem, cur, b) => mem[b] \in EscapeCodes
      /\ Size(cur) = cur.end - cur.begin /\ size = Size(cur) - 1
    BY StringFacts DEF StringEnd
<1>3. a \in Int /\ cur.begin + 1 <= a /\ a <= cur.end
    BY <1>2
<1>4. a \in stops
    <2>1. a >= cur.end - 1 \/ mem[a] = Quote
        <3>1. CASE ~ InSize
            BY <1>2, <3>1 DEF InSize
        <3>2. CASE InSize
            BY <1>2, <3>2 DEF StringEnd
        <3> QED BY <3>1, <3>2
    <2> HIDE DEF a
    <2> QED BY <1>2, <1>3, <2>1 DEF StringStops
<1>5. First(stops) = a
    <2>1. stops \in SUBSET Int /\ \A b \in stops : cur.begin + 1 <= b
        BY <1>2 DEF StringStops
    <2>2. \A b \in stops : a <= b
        <3> HIDE DEF a, stops
        <3> SUFFICES ASSUME NEW b \in stops, b < a PROVE FALSE
            BY <1>3, <2>1
        <3>1. b \in (cur.begin + 1) .. (a - 1)
            BY <1>2, <1>3, <2>1
        <3> QED BY <1>2, <3>1
    <2> HIDE DEF a, stops
    <2> QED BY <1>4, <2>1, <2>2, FirstIs
<1>6. CASE Here = Quote
    <2>1. mem[cur.end] # Quote
        BY BehindFacts DEF StringEnd
    <2>2. Size(cur) >= 2
        <3>1. a # cur.end
            BY <1>2, <1>6, <2>1
        <3> QED BY <1>2, <1>3, <3>1
    <2>3. StringParse(mem, cur) = Matched(a + 1, cur.begin + 1, a)
        <3> HIDE DEF a
        <3> QED BY <1>2, <1>4, <1>5, <1>6, <2>2 DEF StringParse
    <2>4. Outcome(mem, reading[1], cur) = Matched(a + 1, cur.begin + 1, a)
        <3> HIDE DEF a
        <3> QED BY <1>1, <2>3 DEF Outcome
    <2>5. Succeed(a + 1, cur.begin + 1, a)
        BY <1>2, <1>6 DEF StringEnd
    <2> HIDE DEF a
    <2> QED BY <1>1, <2>4, <2>5, SucceedMeans
<1>7. CASE Here # Quote
    <2>1. StringParse(mem, cur) = NoMatch
        <3> HIDE DEF a
        <3> QED BY <1>2, <1>5, <1>7 DEF StringParse
    <2>2. Outcome(mem, reading[1], cur) = NoMatch
        BY <1>1, <2>1 DEF Outcome
    <2>3. Fail
        BY <1>7 DEF StringEnd
    <2> QED BY <1>1, <2>2, <2>3, FailMeans
<1> QED BY <1>6, <1>7

----------------------------------------------------------------------------
LEMMA ViewOpenMeans ==
    ASSUME IInv, ViewOpen, ~ Check(st, Quote)
    PROVE  ScanRead!End(reading[1])
<1>1. /\ reading # <<>> /\ reading = <<reading[1]>>
      /\ Op(reading[1]) = "view" /\ at = "open"
    BY RunFacts DEF ViewOpen
<1>2. st = cur
    BY <1>1 DEF IInv, IndexInView
<1>3. cur.begin \in Int /\ cur.end \in Int /\ Size(cur) = cur.end - cur.begin
    BY ViewFacts
<1>4. ~ StartsWith(mem, cur, <<Quote>>)
    <2>1. ~ (cur.begin < cur.end /\ mem[cur.begin] = Quote)
        BY <1>2 DEF Check
    <2>2. Len(<<Quote>>) = 1 /\ <<Quote>>[1] = Quote /\ cur.begin + 1 - 1 = cur.begin
        BY <1>3
    <2>3. StartsWith(mem, cur, <<Quote>>)
            => Size(cur) >= 1 /\ mem[cur.begin + 1 - 1] = Quote
        BY <2>2 DEF StartsWith
    <2> QED BY <1>3, <2>1, <2>2, <2>3
<1>5. Outcome(mem, reading[1], cur) = NoMatch
    BY <1>1, <1>4 DEF Outcome, ViewParse
<1>6. Fail
    BY DEF ViewOpen
<1> QED BY <1>1, <1>5, <1>6, FailMeans

LEMMA ViewEndMeans ==
    ASSUME IInv, ViewEnd
    PROVE  ScanRead!End(reading[1])
<1> DEFINE a == st.begin
           stops == ViewStops(mem, cur)
<1>1. /\ reading = <<reading[1]>> /\ Op(reading[1]) = "view"
    BY RunFacts DEF ViewEnd
<1>2. /\ cur.begin \in Int /\ cur.end \in Int /\ a \in Int
      /\ st.end = cur.end /\ cur.begin < a /\ a <= cur.end
      /\ mem[cur.begin] = Quote
      /\ a < cur.end /\ mem[a] = Quote => mem[a - 1] # Escape
      /\ \A b \in (cur.begin + 1) .. (a - 1) : b \notin stops
    BY ViewLoopFacts DEF ViewEnd
<1>3. /\ stops \in SUBSET Int
      /\ \A b \in stops : cur.begin + 1 <= b /\ b <= cur.end - 1
    BY <1>2 DEF ViewStops
<1>4. CASE Size(st) <= 0
    <2>1. a = cur.end
        BY <1>2, <1>4 DEF Size
    <2>2. stops = {}
        <3> HIDE DEF stops
        <3> SUFFICES ASSUME NEW b \in stops PROVE FALSE
            OBVIOUS
        <3>1. b \in (cur.begin + 1) .. (a - 1)
            BY <1>2, <1>3, <2>1
        <3> QED BY <1>2, <3>1
    <2>3. Outcome(mem, reading[1], cur) = NoMatch
        BY <1>1, <2>2 DEF Outcome, ViewParse
    <2>4. Fail
        <3>1. ~ (Size(st) > 0)
            BY <1>2, <2>1 DEF Size
        <3> QED BY <3>1 DEF ViewEnd
    <2> QED BY <1>1, <2>3, <2>4, FailMeans
<1>5. CASE ~ (Size(st) <= 0)
    <2>1. mem[a] = Quote /\ a < cur.end /\ Succeed(a + 1, cur.begin + 1, a)
        BY <1>2, <1>5 DEF ViewEnd, Size
    <2>2. a \in stops
        <3> HIDE DEF a
        <3> QED BY <1>2, <2>1 DEF ViewStops
    <2>3. \A b \in stops : a <= b
        <3> HIDE DEF a, stops
        <3> SUFFICES ASSUME NEW b \in stops, b < a PROVE FALSE
            BY <1>2, <1>3
        <3>1. b \in (cur.begin + 1) .. (a - 1)
            BY <1>2, <1>3
        <3> QED BY <1>2, <3>1
    <2>4. First(stops) = a
        <3> HIDE DEF a, stops
        <3> QED BY <1>3, <2>2, <2>3, FirstIs
    <2>5. StartsWith(mem, cur, <<Quote>>)
        <3>1. /\ Len(<<Quote>>) = 1 /\ <<Quote>>[1] = Quote
              /\ cur.begin + 1 - 1 = cur.begin /\ Size(cur) >= 1
            BY <1>2, <2>1 DEF Size
        <3>2. \A k \in 1 .. 1 : k = 1
            OBVIOUS
        <3>3. \A k \in 1 .. Len(<<Quote>>) : mem[cur.begin + k - 1] = <<Quote>>[k]
            BY <1>2, <3>1, <3>2
        <3> QED BY <3>1, <3>3 DEF StartsWith
    <2>6. ViewParse(mem, cur) = Matched(a + 1, cur.begin + 1, a)
        <3> HIDE DEF a
        <3> QED BY <2>2, <2>4, <2>5 DEF ViewParse
    <2>7. Outcome(mem, reading[1], cur) = Matched(a + 1, cur.begin + 1, a)
        <3> HIDE DEF a
        <3> QED BY <1>1, <2>6 DEF Outcome
    <2> HIDE DEF a
    <2> QED BY <1>1, <2>1, <2>7, SucceedMeans
<1> QED BY <1>4, <1>5

\* The literal the fold ends at is the first that is a prefix.
LEMMA LiteralEndMeans ==
    ASSUME IInv, LiteralEnd
    PROVE  ScanRead!End(reading[1])
<1> DEFINE r == reading[1]
           hits == {k \in 1 .. Len(Arg(r)) : StartsWith(mem, cur, Arg(r)[k])}
<1>1. reading = <<r>> /\ Op(r) = "literal" /\ Arg1 = Arg(r)
    BY RunFacts DEF LiteralEnd, Arg1
<1>2. /\ st = cur /\ cur.begin \in Int
      /\ i \in Nat /\ lit \in Nat \ {0} /\ Len(Arg1) \in Nat
      /\ lit <= Len(Arg1) + 1
      /\ \A k \in 1 .. (lit - 1) : ~ StartsWith(mem, cur, Arg1[k])
      /\ lit <= Len(Arg1) =>
            \A k \in 1 .. i : mem[cur.begin + k - 1] = Arg1[lit][k]
    BY LiteralFacts DEF LiteralEnd
<1>3. hits \in SUBSET Int /\ \A k \in hits : lit <= k
    <2>1. \A k \in hits : k \in Int /\ ~ (k \in 1 .. (lit - 1)) /\ 1 <= k
        BY <1>1, <1>2
    <2> HIDE DEF hits
    <2> QED BY <1>2, <2>1
<1>4. CASE /\ lit <= Len(Arg1) /\ Fits(Arg1[lit]) /\ i = Len(Arg1[lit])
           /\ Succeed(st.begin + i, st.begin, st.begin + i)
    <2>1. StartsWith(mem, cur, Arg1[lit])
        BY <1>2, <1>4 DEF StartsWith, Fits
    <2>2. lit \in hits
        BY <1>1, <1>2, <1>4, <2>1
    <2>3. First(hits) = lit
        <3> HIDE DEF hits
        <3> QED BY <1>3, <2>2, FirstIs
    <2>4. Outcome(mem, r, cur) = Matched(cur.begin + i, cur.begin, cur.begin + i)
        <3>1. hits # {}
            BY <2>2
        <3>2. cur.begin + Len(Arg(r)[First(hits)]) = cur.begin + i
            BY <1>1, <1>4, <2>3
        <3>3. LiteralParse(mem, cur, Arg(r))
                = Matched(cur.begin + i, cur.begin, cur.begin + i)
            BY <3>1, <3>2 DEF LiteralParse
        <3> QED BY <1>1, <3>3 DEF Outcome
    <2> QED BY <1>1, <1>2, <1>4, <2>4, SucceedMeans
<1>5. CASE lit > Len(Arg1) /\ Fail
    <2>1. hits = {}
        <3> SUFFICES ASSUME NEW k \in hits PROVE FALSE
            OBVIOUS
        <3>1. k <= Len(Arg1) /\ k \in Int /\ lit <= k
            BY <1>1, <1>2, <1>3
        <3> QED BY <1>2, <1>5, <3>1
    <2>2. Outcome(mem, r, cur) = NoMatch
        BY <1>1, <2>1 DEF Outcome, LiteralParse
    <2> QED BY <1>1, <1>5, <2>2, FailMeans
<1> QED BY <1>4, <1>5 DEF LiteralEnd

----------------------------------------------------------------------------
\* A step on which the loop goes on is one the client does not see.
LEMMA GoingOnIsUnseen ==
    ASSUME \/ CharsNext \/ CountNext \/ LineNext
           \/ StringNext \/ ViewNext \/ ViewEscape \/ LiteralNext
           \/ StringOpen /\ ~ Fail
           \/ StringEscape /\ ~ Fail
           \/ ViewOpen /\ Check(st, Quote)
    PROVE  UNCHANGED <<mem, cur, reading, got>>
BY DEF CharsNext, CountNext, LineNext, StringNext, ViewNext, ViewEscape,
       LiteralNext, StringOpen, StringEscape, ViewOpen, Turn, Advance,
       NextLiteral

\* Every step is one of ParserSpec, or none.
LEMMA StepsMean ==
    ASSUME NoQuoteBehind, IInv, [Next]_vars
    PROVE  [ScanRead!Next]_(ScanRead!vars)
<1>1. CASE \E r \in Scanner : Start(r)
    <2>1. PICK r \in Scanner : Start(r)
        BY <1>1
    <2>2. ScanRead!Begin(r)
        BY <2>1 DEF Start, Nothing, ScanRead!Begin, ScanRead!Nothing
    <2> QED BY <2>2 DEF ScanRead!Next
<1>2. ASSUME Work
      PROVE  reading[1] \in Scanner
    <2>1. reading # <<>>
        BY <1>2 DEF Work, Running, CharsNext, CharsEnd, CountNext, CountEnd,
               LineNext, LineBreak, LineEnd, StringOpen, StringNext,
               StringEscape, StringEnd, ViewOpen, ViewNext, ViewEscape,
               ViewEnd, LiteralNext, LiteralEnd
    <2>2. PICK r \in Scanner : reading = <<r>>
        BY <2>1 DEF IInv, TypeOK
    <2> QED BY <2>2
<1> DEFINE Ends == \/ CharsEnd \/ CountEnd \/ LineBreak \/ LineEnd
                   \/ StringOpen /\ Fail
                   \/ StringEscape /\ Fail
                   \/ ViewOpen /\ ~ Check(st, Quote)
                   \/ StringEnd \/ ViewEnd \/ LiteralEnd
           Loops == \/ CharsNext \/ CountNext \/ LineNext
                    \/ StringNext \/ ViewNext \/ ViewEscape \/ LiteralNext
                    \/ StringOpen /\ ~ Fail
                    \/ StringEscape /\ ~ Fail
                    \/ ViewOpen /\ Check(st, Quote)
<1>3. CASE Work /\ Ends
    <2>1. ScanRead!End(reading[1])
        BY <1>3, CharsEndMeans, CountEndMeans, LineBreakMeans, LineEndMeans,
           StringOpenMeans, StringEscapeMeans, StringEndMeans, ViewOpenMeans,
           ViewEndMeans, LiteralEndMeans
    <2> QED BY <1>2, <1>3, <2>1 DEF ScanRead!Next
<1>4. CASE Loops
    BY <1>4, GoingOnIsUnseen DEF ScanRead!vars
<1>5. CASE UNCHANGED vars
    BY <1>5 DEF vars, ScanRead!vars
<1>6. Work => Ends \/ Loops
    BY DEF Work
<1> HIDE DEF Ends, Loops
<1> QED BY <1>1, <1>3, <1>4, <1>5, <1>6 DEF Next

\* The loops of the leaf parsers implement their outcomes: whatever the text,
\* and however a read is cut into steps, each returns what Intrinsics says it
\* returns - string_parser the string up to the first quote that is not
\* escaped, view_parser up to the first with no backslash in front, literal
\* the first literal that is a prefix, line_parser the line less its break -
\* and changes nothing else the client sees.
THEOREM ScansImplementTheirOutcomes ==
    ASSUME NoQuoteBehind
    PROVE  Spec => ScansImplementOutcomes
<1>1. Init => ScanRead!Init
    BY DEF Init, ScanRead!Init, Nothing, ScanRead!Nothing
<1>2. IInv /\ [Next]_vars => [ScanRead!Next]_(ScanRead!vars)
    BY StepsMean
<1> QED BY <1>1, <1>2, ScannersInvariant, PTL
        DEF Spec, ScansImplementOutcomes, ScanRead!Spec

=============================================================================
