--------------------------- MODULE BaselineProofs ---------------------------
(***************************************************************************)
(* What holds of the loop over raw pointers for every input: its pointers  *)
(* stay in the view, what it gives back is never more than a separator,    *)
(* and it adds and leaves what add_w_fold does, or ends early at what it   *)
(* does not know.                                                          *)
(***************************************************************************)
EXTENDS BaselineFold, IntrinsicsProofs, SequenceTheorems

\* The view from_chars is called with, in the loop.
LEMMA FromCharsBounds ==
    ASSUME TypeOK, PointersOrdered, pc # "idle"
    PROVE  /\ IsOutcome(FromChars)
           /\ FromChars.ok => /\ begin <= FromChars.rest
                              /\ FromChars.rest <= cur.end
<1> DEFINE v == [begin |-> begin, end |-> cur.end]
<1>1. v \in State /\ v.begin <= v.end
    BY DEF TypeOK, PointersOrdered, State
<1>2. FromChars = CharconvParse(mem, v, Int32)
    BY DEF FromChars
<1>3. IsOutcome(CharconvParse(mem, v, Int32))
        /\ EndsIn(CharconvParse(mem, v, Int32), v)
    BY <1>1, CharconvContract
<1> QED BY <1>2, <1>3 DEF EndsIn

LEMMA Bounds ==
    ASSUME TypeOK, PointersOrdered
    PROVE  /\ cur.begin \in Int /\ cur.end \in Int
           /\ begin \in Int /\ start \in Int
           /\ pc # "idle" => /\ cur.begin <= start /\ start <= begin
                            /\ begin <= cur.end
BY DEF TypeOK, PointersOrdered, State

\* A number that has been read leaves nothing skipped.
LEMMA TakeKeeps ==
    ASSUME IInv, pc # "idle", FromChars.ok, Take(FromChars),
           UNCHANGED <<mem, cur>>
    PROVE  IInv'
<1>1. /\ FromChars.rest \in Int
      /\ begin <= FromChars.rest /\ FromChars.rest <= cur.end
    BY FromCharsBounds DEF IInv, IsOutcome
<1>2. begin' = FromChars.rest /\ start' = FromChars.rest /\ pc' = "before"
    BY DEF Take
<1>3. TypeOK'
    BY <1>1, <1>2 DEF IInv, TypeOK, Places
<1>4. ViewSound'
    BY DEF IInv, ViewSound
<1>5. PointersOrdered'
    <2>1. cur.begin <= begin
        BY DEF IInv, TypeOK, PointersOrdered, State
    <2> QED BY <1>1, <1>2, <2>1 DEF IInv, TypeOK, PointersOrdered, State
<1>6. SkippedIsSeparator'
    <2>1. Skipped' = {}
        BY <1>1, <1>2 DEF Skipped
    <2> QED BY <1>2, <2>1 DEF SkippedIsSeparator
<1> QED BY <1>3, <1>4, <1>5, <1>6 DEF IInv

LEMMA InitHolds == Init => IInv
<1> SUFFICES ASSUME Init PROVE IInv
    OBVIOUS
<1>1. PICK s \in Sources : mem = s.mem /\ cur = s.view
    BY DEF Init
<1>2. cur \in State /\ cur.begin <= cur.end
    BY <1>1, SourcesAssumption DEF NullState, NULLPTR, State
<1>3. TypeOK
    BY <1>2 DEF Init, TypeOK, Places, NULLPTR
<1>4. ViewSound
    BY <1>1, <1>2 DEF ViewSound, State
<1> QED BY <1>3, <1>4 DEF Init, IInv, PointersOrdered, SkippedIsSeparator

LEMMA ReadHolds == IInv /\ Read => IInv'
<1> SUFFICES ASSUME IInv, Read PROVE IInv'
    OBVIOUS
<1>1. cur.begin \in Int /\ cur.end \in Int /\ cur.begin <= cur.end
    BY DEF IInv, TypeOK, ViewSound, State
<1>2. TypeOK' /\ ViewSound' /\ PointersOrdered'
    BY <1>1 DEF Read, IInv, TypeOK, Places, ViewSound, PointersOrdered
<1>3. Skipped' = {}
    BY <1>1 DEF Read, Skipped
<1> QED BY <1>2, <1>3 DEF Read, IInv, SkippedIsSeparator

LEMMA FirstValueHolds == IInv /\ FirstValue => IInv'
<1> SUFFICES ASSUME IInv, FirstValue PROVE IInv'
    OBVIOUS
<1>1. CASE FromChars.ok /\ Take(FromChars)
    BY <1>1, TakeKeeps DEF FirstValue
<1>2. CASE pc' = "idle" /\ UNCHANGED <<begin, start, sum>>
    BY <1>2 DEF FirstValue, IInv, TypeOK, Places, ViewSound,
                PointersOrdered, SkippedIsSeparator
<1> QED BY <1>1, <1>2 DEF FirstValue

LEMMA NextValueHolds == IInv /\ NextValue => IInv'
<1> SUFFICES ASSUME IInv, NextValue PROVE IInv'
    OBVIOUS
<1>1. CASE FromChars.ok /\ Take(FromChars)
    BY <1>1, TakeKeeps DEF NextValue
<1>2. CASE pc' = "done" /\ UNCHANGED <<begin, start, sum>>
    BY <1>2 DEF NextValue, IInv, TypeOK, Places, ViewSound,
                PointersOrdered, SkippedIsSeparator, Skipped
<1> QED BY <1>1, <1>2 DEF NextValue

\* One more character skipped.
LEMMA PastSkips ==
    ASSUME TypeOK, PointersOrdered, pc # "idle",
           begin' = Past, start' = start
    PROVE  Skipped' = Skipped \union {begin} /\ begin \notin Skipped
<1>1. begin \in Int /\ start \in Int /\ start <= begin
    BY DEF TypeOK, PointersOrdered
<1> QED BY <1>1 DEF Past, Skipped

LEMMA SpaceHolds == IInv /\ Space => IInv'
<1> SUFFICES ASSUME IInv, Space PROVE IInv'
    OBVIOUS
<1>1. begin < cur.end /\ mem[begin] = " " /\ pc \in {"before", "behind"}
    BY DEF Space, AtSpace
<1>2. TypeOK' /\ ViewSound' /\ PointersOrdered'
    <2>1. begin' = begin + 1 /\ UNCHANGED <<mem, cur, start, pc>>
        BY DEF Space, Past
    <2>2. pc # "idle"
        BY <1>1
    <2>3. begin + 1 \in Int /\ start <= begin + 1 /\ begin + 1 <= cur.end
        <3>1. begin < cur.end
            BY <1>1
        <3> QED BY <2>2, <3>1, Bounds DEF IInv
    <2> QED BY <2>1, <2>3 DEF IInv, TypeOK, ViewSound, PointersOrdered
<1>3. Skipped' = Skipped \union {begin}
    BY <1>1, PastSkips DEF Space, IInv
<1>4. SkippedIsSeparator'
    BY <1>1, <1>3 DEF Space, IInv, SkippedIsSeparator
<1> QED BY <1>2, <1>4 DEF IInv

LEMMA SpaceEndHolds == IInv /\ SpaceEnd => IInv'
<1> SUFFICES ASSUME IInv, SpaceEnd PROVE IInv'
    OBVIOUS
<1>1. TypeOK' /\ ViewSound' /\ PointersOrdered'
    BY DEF SpaceEnd, IInv, TypeOK, Places, ViewSound, PointersOrdered
<1>2. Skipped' = Skipped
    BY DEF SpaceEnd, Skipped
<1>3. SkippedIsSeparator'
    BY <1>2 DEF SpaceEnd, IInv, SkippedIsSeparator
<1> QED BY <1>1, <1>3 DEF IInv

LEMMA CommaHolds == IInv /\ Comma => IInv'
<1> SUFFICES ASSUME IInv, Comma PROVE IInv'
    OBVIOUS
<1>1. pc = "comma" /\ \A a \in Skipped : mem[a] = " "
    BY DEF Comma, IInv, SkippedIsSeparator
<1>2. CASE AtComma
    <2>1. mem[begin] = "," /\ begin' = Past /\ pc' = "behind"
        BY <1>2 DEF AtComma, Comma
    <2>2. begin + 1 \in Int /\ start <= begin + 1 /\ begin + 1 <= cur.end
        <3>1. begin # cur.end /\ pc # "idle"
            BY <1>1, <1>2 DEF AtComma
        <3> QED BY <3>1, Bounds DEF IInv
    <2>3. TypeOK' /\ ViewSound' /\ PointersOrdered'
        <3>1. UNCHANGED <<mem, cur, start>> /\ pc # "idle"
            BY <1>1 DEF Comma
        <3> QED BY <2>1, <2>2, <3>1
                DEF Past, IInv, TypeOK, Places, ViewSound, PointersOrdered
    <2>4. Skipped' = Skipped \union {begin}
        BY <1>1, <2>1, PastSkips DEF Comma, IInv
    <2>5. SkippedIsSeparator'
        BY <1>1, <2>1, <2>4 DEF Comma, SkippedIsSeparator
    <2> QED BY <2>3, <2>5 DEF IInv
<1>3. CASE ~ AtComma
    <2>1. TypeOK' /\ ViewSound' /\ PointersOrdered'
        BY <1>1, <1>3 DEF Comma, IInv, TypeOK, Places, ViewSound,
                          PointersOrdered
    <2>2. Skipped' = Skipped /\ pc' = "done"
        BY <1>3 DEF Comma, Skipped
    <2>3. SkippedIsSeparator'
        BY <1>1, <2>2 DEF Comma, IInv, SkippedIsSeparator
    <2> QED BY <2>1, <2>3 DEF IInv
<1> QED BY <1>2, <1>3

\* The rest begins at start, which is between the two ends of the view.
LEMMA ReturnHolds == IInv /\ Return => IInv'
<1> SUFFICES ASSUME IInv, Return PROVE IInv'
    OBVIOUS
<1>1. pc = "done" /\ pc' = "idle"
    BY DEF Return
<1>2. /\ cur'.begin \in Int /\ cur' \in State
      /\ cur.begin <= cur'.begin /\ cur'.begin <= cur'.end
      /\ cur'.end = cur.end
    BY <1>1 DEF Return, Rest, IInv, TypeOK, PointersOrdered, ViewSound, State
<1>3. TypeOK'
    BY <1>2 DEF Return, IInv, TypeOK, Places
<1>4. ViewSound'
    <2>1. PICK s \in Sources : /\ mem = s.mem
                               /\ s.view.begin <= cur.begin
                               /\ cur.begin <= cur.end
                               /\ cur.end = s.view.end
        BY DEF IInv, ViewSound
    <2>2. s.view.begin \in Int
        BY SourcesAssumption DEF State
    <2>3. s.view.begin <= cur'.begin
        BY <1>2, <2>1, <2>2 DEF IInv, TypeOK, State
    <2> QED BY <1>2, <2>1, <2>3 DEF Return, ViewSound
<1> QED BY <1>1, <1>3, <1>4 DEF IInv, PointersOrdered, SkippedIsSeparator

LEMMA NextHolds == IInv /\ [Next]_vars => IInv'
<1> SUFFICES ASSUME IInv, [Next]_vars PROVE IInv'
    OBVIOUS
<1>1. CASE UNCHANGED vars
    BY <1>1 DEF vars, IInv, TypeOK, ViewSound, PointersOrdered,
                SkippedIsSeparator, Skipped
<1>2. CASE Read
    BY <1>2, ReadHolds
<1>3. CASE FirstValue
    BY <1>3, FirstValueHolds
<1>4. CASE Space
    BY <1>4, SpaceHolds
<1>5. CASE SpaceEnd
    BY <1>5, SpaceEndHolds
<1>6. CASE Comma
    BY <1>6, CommaHolds
<1>7. CASE NextValue
    BY <1>7, NextValueHolds
<1>8. CASE Return
    BY <1>8, ReturnHolds
<1> QED BY <1>1, <1>2, <1>3, <1>4, <1>5, <1>6, <1>7, <1>8 DEF Next, Work

\* For every input: the loop's pointers are ordered and stay in the view, the
\* client's state stays a rest of its view, and what the loop has run ahead
\* over is at most spaces and one comma.
THEOREM LoopStaysInView == Spec => []IInv
BY InitHolds, NextHolds, PTL DEF Spec

----------------------------------------------------------------------------
(***************************************************************************)
(* The fold, its rules applied: what each of its parsers makes of a view.  *)
(***************************************************************************)
LEMMA FoldGrammarIs ==
    /\ DOMAIN FoldGrammar = {"long", "int", "ws", "comma", "comma_separator",
                             "next", "add_w_fold"}
    /\ P!Op("long") = "charconv" /\ FoldGrammar["long"].arg = Int64
    /\ ~ P!AlwaysGood("long")
    /\ P!Op("int") = "charconv" /\ FoldGrammar["int"].arg = Int32
    /\ ~ P!AlwaysGood("int")
    /\ P!Op("ws") = "chars" /\ FoldGrammar["ws"].arg = Whitespace
    /\ P!Op("comma") = "literal" /\ FoldGrammar["comma"].arg = << <<",">> >>
    /\ ~ P!AlwaysGood("comma")
    /\ P!Op("comma_separator") = "match"
    /\ P!Kids("comma_separator") = <<"ws", "comma", "ws">>
    /\ P!Op("next") = "then"
    /\ P!Kids("next") = <<"comma_separator", "int">>
    /\ P!Op("add_w_fold") = "fold_left"
    /\ P!Kids("add_w_fold") = <<"long", "next">>
BY DEF FoldGrammar, Leaf, Lit, Fallible, GoodLeaves, P!Op, P!Kids, P!AlwaysGood

LEMMA RestOf ==
    ASSUME NEW v \in State, NEW b \in Int, v.begin <= b, b <= v.end
    PROVE  [begin |-> b, end |-> v.end] \in P!Rests(v)
BY DEF P!Rests, State

LEMMA RestIs ==
    ASSUME NEW v \in State, NEW r \in P!Rests(v)
    PROVE  /\ r \in State /\ r.end = v.end
           /\ v.begin <= r.begin /\ r.begin <= v.end
           /\ r = [begin |-> r.begin, end |-> v.end]
           /\ P!Rests(r) \subseteq P!Rests(v)
BY DEF P!Rests, State

LEMMA Solved ==
    ASSUME IInv, P!IsMeaning(Sources),
           NEW n \in DOMAIN FoldGrammar, NEW v \in P!Rests(cur)
    PROVE  /\ Meaning(mem, n, v) \in P!Outcomes(v)
           /\ Meaning(mem, n, v) = P!MeaningRule(mem, n, v)
           /\ \A k \in P!Onward(n) :
                /\ MeaningFrom(mem, n, k, v, {}) \in P!Outcomes(v)
                /\ MeaningFrom(mem, n, k, v, {})
                     = P!MeaningFromRule(mem, n, k, v, {})
<1>1. PICK s \in Sources : /\ mem = s.mem
                           /\ s.view.begin <= cur.begin
                           /\ cur.begin <= cur.end
                           /\ cur.end = s.view.end
    BY DEF IInv, ViewSound
<1>2. cur \in State /\ s.view \in State
    BY SourcesAssumption DEF IInv, TypeOK
<1>3. v \in P!Rests(s.view)
    BY <1>1, <1>2 DEF P!Rests, State
<1>4. {} \in P!KeysIn(mem, n, s.view)
    BY DEF P!KeysIn
<1>5. P!Solves(mem, n, s.view)
    BY <1>1 DEF P!IsMeaning
<1> QED BY <1>3, <1>4, <1>5 DEF P!Solves


LEMMA OutcomeIs ==
    ASSUME NEW v, NEW m \in P!Outcomes(v)
    PROVE  /\ m.ok \in BOOLEAN
           /\ m.ok => /\ m = P!Yes(m.st, m.val)
                      /\ m.st \in P!Rests(v) /\ m.val \in Seq(P!Token)
           /\ ~ m.ok => m = P!No
<1>1. CASE m \in [ok : {TRUE}, st : P!Rests(v), val : Seq(P!Token)]
    BY <1>1 DEF P!Yes
<1>2. CASE m = P!No
    BY <1>2 DEF P!No
<1> QED BY <1>1, <1>2 DEF P!Outcomes

LEMMA BeforeIs ==
    ASSUME NEW v, NEW m \in P!Outcomes(v), NEW val \in Seq(P!Token)
    PROVE  /\ P!Before(val, m).ok = m.ok
           /\ m.ok => P!Before(val, m) = P!Yes(m.st, val \o m.val)
           /\ ~ m.ok => P!Before(val, m) = P!No
BY OutcomeIs DEF P!Before, P!Yes, P!No

(***************************************************************************)
(* The leaves of the grammar are those of Intrinsics.                      *)
(***************************************************************************)
LEMMA SameSpanEnd ==
    ASSUME NEW text, NEW from, NEW end, NEW chars
    PROVE  P!SpanEnd(text, from, end, chars) = SpanEnd(text, from, end, chars)
BY Zenon DEF P!SpanEnd, P!First, SpanEnd, First

LEMMA SameStartsWith ==
    ASSUME NEW text, NEW v, NEW prefix
    PROVE  P!StartsWith(text, v, prefix) <=> StartsWith(text, v, prefix)
BY Zenon DEF P!StartsWith, P!Size, StartsWith, Size

LEMMA SameDecimalValue ==
    ASSUME NEW text, NEW from, NEW to
    PROVE  P!DecimalValue(text, from, to) = DecimalValue(text, from, to)
BY Zenon DEF P!DecimalValue, P!DigitValue, DecimalValue, DigitValue

LEMMA SameCharconv ==
    ASSUME NEW text, NEW v, NEW type
    PROVE  P!CharconvParse(text, v, type) = CharconvParse(text, v, type)
BY SameSpanEnd, SameStartsWith, SameDecimalValue, Zenon
   DEF P!CharconvParse, P!InRange, P!Digits, P!Matched, P!NoMatch, P!NULLPTR,
       CharconvParse, InRange, Digits, Matched, NoMatch, NULLPTR

LEMMA SameChars ==
    ASSUME NEW text, NEW v, NEW chars
    PROVE  P!CharsParse(text, v, chars) = CharsParse(text, v, chars)
BY SameSpanEnd, Zenon DEF P!CharsParse, P!Matched, CharsParse, Matched

LEMMA SameLiteral ==
    ASSUME NEW text, NEW v, NEW lits
    PROVE  P!LiteralParse(text, v, lits) = LiteralParse(text, v, lits)
BY Zenon DEF P!LiteralParse, P!StartsWith, P!Size, P!First, P!Matched, P!NoMatch,
       P!NULLPTR, LiteralParse, StartsWith, Size, First, Matched, NoMatch,
       NULLPTR

\* What a leaf that matched, and what one that did not, means.
LEMMA LeafMeans ==
    ASSUME IInv, P!IsMeaning(Sources), NEW v \in P!Rests(cur),
           NEW n \in {"long", "int", "ws", "comma"}, NEW o,
           o = P!LeafOutcome(mem, n, v), o.ok \in BOOLEAN
    PROVE  /\ o.ok => Meaning(mem, n, v)
                        = P!Yes([begin |-> o.rest, end |-> cur.end],
                                <<[leaf |-> n, from |-> o.from, to |-> o.to]>>)
           /\ ~ o.ok /\ ~ P!AlwaysGood(n) => Meaning(mem, n, v) = P!No
<1>1. v.end = cur.end
    BY RestIs DEF IInv, TypeOK
<1>2. P!Op(n) \in P!LeafOps /\ P!Op(n) # "bool" /\ n \in DOMAIN FoldGrammar
    BY FoldGrammarIs DEF P!LeafOps
<1>3. Meaning(mem, n, v) = P!MeaningRule(mem, n, v)
    BY <1>2, Solved
<1>4. P!MeaningRule(mem, n, v) = P!LeafMeaning(mem, n, v)
    <2>1. P!Op(n) \in {"charconv", "chars", "literal"}
        BY FoldGrammarIs
    <2>2. /\ P!Op(n) \notin P!ThreadOps \union P!DelimitedOps
          /\ P!Op(n) \notin {"either", "fold_left", "sequence"}
        BY <2>1 DEF P!ThreadOps, P!DelimitedOps
    <2> QED BY <1>2, <2>2 DEF P!MeaningRule
<1>5. CASE o.ok
    <2>1. P!LeafResult(mem, n, v)
            = P!Make(n, [begin |-> o.rest, end |-> v.end],
                     P!LeafValue(mem, n, v, o))
        BY <1>5 DEF P!LeafResult
    <2>2. P!LeafValue(mem, n, v, o)
            = <<[leaf |-> n, from |-> o.from, to |-> o.to]>>
        BY <1>2 DEF P!LeafValue
    <2> DEFINE l == P!LeafResult(mem, n, v)
    <2>3. /\ l.set = TRUE /\ l.st = [begin |-> o.rest, end |-> v.end]
          /\ l.val = <<[leaf |-> n, from |-> o.from, to |-> o.to]>>
        BY <2>1, <2>2 DEF P!Make
    <2>4. P!LeafMeaning(mem, n, v) = P!Yes(l.st, l.val)
        BY <2>3 DEF P!LeafMeaning
    <2> QED BY <1>1, <1>3, <1>4, <1>5, <2>3, <2>4
<1>6. CASE ~ o.ok /\ ~ P!AlwaysGood(n)
    <2>1. P!LeafResult(mem, n, v) = P!Failed(n)
        BY <1>6 DEF P!LeafResult
    <2>2. P!LeafMeaning(mem, n, v) = P!No
        BY <2>1 DEF P!LeafMeaning, P!Failed
    <2> QED BY <1>3, <1>4, <1>6, <2>2
<1> QED BY <1>5, <1>6

LongToken(o) == [leaf |-> "long", from |-> o.from, to |-> o.to]
IntToken(o) == [leaf |-> "int", from |-> o.from, to |-> o.to]

LEMMA LongMeans ==
    ASSUME IInv, P!IsMeaning(Sources), NEW v \in P!Rests(cur), NEW o,
           o = CharconvParse(mem, v, Int64)
    PROVE  /\ o.ok => Meaning(mem, "long", v)
                        = P!Yes([begin |-> o.rest, end |-> cur.end],
                                <<LongToken(o)>>)
           /\ ~ o.ok => Meaning(mem, "long", v) = P!No
<1>1. v \in State
    BY RestIs DEF IInv, TypeOK
<1>2. o.ok \in BOOLEAN
    BY <1>1, CharconvContract DEF IsOutcome
<1>3. o = P!LeafOutcome(mem, "long", v)
    BY FoldGrammarIs, SameCharconv DEF P!LeafOutcome
<1> QED BY <1>2, <1>3, LeafMeans, FoldGrammarIs DEF LongToken

LEMMA IntMeans ==
    ASSUME IInv, P!IsMeaning(Sources), NEW v \in P!Rests(cur), NEW o,
           o = CharconvParse(mem, v, Int32)
    PROVE  /\ o.ok => Meaning(mem, "int", v)
                        = P!Yes([begin |-> o.rest, end |-> cur.end],
                                <<IntToken(o)>>)
           /\ ~ o.ok => Meaning(mem, "int", v) = P!No
<1>1. v \in State
    BY RestIs DEF IInv, TypeOK
<1>2. o.ok \in BOOLEAN
    BY <1>1, CharconvContract DEF IsOutcome
<1>3. o = P!LeafOutcome(mem, "int", v)
    BY FoldGrammarIs, SameCharconv DEF P!LeafOutcome
<1> QED BY <1>2, <1>3, LeafMeans, FoldGrammarIs DEF IntToken

SpacesEnd(v) == SpanEnd(mem, v.begin, v.end, Whitespace)

LEMMA SpacesMean ==
    ASSUME IInv, P!IsMeaning(Sources), NEW v \in P!Rests(cur)
    PROVE  /\ Meaning(mem, "ws", v).ok
           /\ Meaning(mem, "ws", v).st
                = [begin |-> SpacesEnd(v), end |-> cur.end]
<1> DEFINE o == Matched(SpacesEnd(v), v.begin, SpacesEnd(v))
<1>1. o = P!LeafOutcome(mem, "ws", v)
    BY FoldGrammarIs, SameChars DEF P!LeafOutcome, CharsParse, SpacesEnd
<1>2. o.ok = TRUE /\ o.rest = SpacesEnd(v)
    BY DEF Matched
<1> HIDE DEF o
<1>3. Meaning(mem, "ws", v)
        = P!Yes([begin |-> o.rest, end |-> cur.end],
                <<[leaf |-> "ws", from |-> o.from, to |-> o.to]>>)
    BY <1>1, <1>2, LeafMeans
<1> QED BY <1>2, <1>3 DEF P!Yes

CommaAt(v) == v.begin # v.end /\ mem[v.begin] = ","

LEMMA CommaMeans ==
    ASSUME IInv, P!IsMeaning(Sources), NEW v \in P!Rests(cur)
    PROVE  /\ Meaning(mem, "comma", v).ok <=> CommaAt(v)
           /\ CommaAt(v) => Meaning(mem, "comma", v).st
                              = [begin |-> v.begin + 1, end |-> cur.end]
<1>1. v \in State /\ v.begin <= v.end
    BY RestIs DEF IInv, TypeOK
<1> DEFINE lits == << <<",">> >>
           o == LiteralParse(mem, v, lits)
           hits == {k \in 1 .. Len(lits) : StartsWith(mem, v, lits[k])}
<1>2. o = P!LeafOutcome(mem, "comma", v)
    BY FoldGrammarIs, SameLiteral DEF P!LeafOutcome
<1>3. StartsWith(mem, v, lits[1]) <=> CommaAt(v)
    <2>1. Len(lits[1]) = 1 /\ lits[1][1] = ","
        OBVIOUS
    <2>2. v.begin \in Int /\ v.end \in Int
        BY <1>1 DEF State
    <2>3. StartsWith(mem, v, lits[1])
            <=> v.end - v.begin >= 1 /\ mem[v.begin] = ","
        <3>1. v.begin + 1 - 1 = v.begin
            BY <2>2
        <3>2. StartsWith(mem, v, lits[1])
                <=> /\ v.end - v.begin >= 1
                    /\ \A i \in 1 .. 1 : mem[v.begin + i - 1] = lits[1][i]
            BY <2>1, Zenon DEF StartsWith, Size
        <3>3. 1 .. 1 = {1}
            OBVIOUS
        <3> HIDE DEF lits
        <3> QED BY <2>1, <3>1, <3>2, <3>3
    <2>4. v.end - v.begin >= 1 <=> v.begin # v.end
        BY <1>1, <2>2
    <2> QED BY <2>3, <2>4, Zenon DEF CommaAt
<1>4. Len(lits) = 1
    OBVIOUS
<1>5. CASE CommaAt(v)
    <2>1. hits = {1}
        <3> HIDE DEF lits
        <3> QED BY <1>3, <1>4, <1>5
    <2>2. First({1}) = 1
        <3>1. {1} \in SUBSET Int /\ {1} # {} /\ \A a \in {1} : 1 <= a
            OBVIOUS
        <3> QED BY <3>1, FirstIsLeast
    <2>3. o = Matched(v.begin + Len(lits[1]), v.begin, v.begin + Len(lits[1]))
        BY <2>1, <2>2 DEF LiteralParse
    <2>4. Len(lits[1]) = 1
        OBVIOUS
    <2> HIDE DEF lits, o
    <2>5. o.ok = TRUE /\ o.rest = v.begin + 1
        BY <2>3, <2>4 DEF Matched
    <2>6. Meaning(mem, "comma", v)
            = P!Yes([begin |-> o.rest, end |-> cur.end],
                    <<[leaf |-> "comma", from |-> o.from, to |-> o.to]>>)
        BY <1>2, <2>5, LeafMeans
    <2> QED BY <1>5, <2>5, <2>6 DEF P!Yes
<1>6. CASE ~ CommaAt(v)
    <2>1. hits = {}
        <3> HIDE DEF lits
        <3> QED BY <1>3, <1>4, <1>6
    <2>2. o = NoMatch
        BY <2>1 DEF LiteralParse
    <2> HIDE DEF lits, o
    <2>3. o.ok = FALSE
        BY <2>2 DEF NoMatch
    <2>4. Meaning(mem, "comma", v) = P!No
        BY <1>2, <2>3, LeafMeans, FoldGrammarIs
    <2> QED BY <1>6, <2>4 DEF P!No
<1> QED BY <1>5, <1>6

(***************************************************************************)
(* The separator, and a number behind it: parsers in turn.                 *)
(***************************************************************************)
InTurnOps == {"comma_separator", "next"}

LEMMA TurnsAre ==
    ASSUME IInv, P!IsMeaning(Sources), NEW n \in InTurnOps,
           NEW v \in P!Rests(cur)
    PROVE  /\ Meaning(mem, n, v) = P!InTurn(mem, n, 1, v)
           /\ \A k \in 1 .. (Len(P!Kids(n)) + 1) :
                /\ MeaningFrom(mem, n, k, v, {}) = P!InTurn(mem, n, k, v)
                /\ P!InTurn(mem, n, k, v) \in P!Outcomes(v)
<1>1. n \in DOMAIN FoldGrammar /\ P!Op(n) \in {"match", "then"}
    BY FoldGrammarIs DEF InTurnOps
<1>2. P!Op(n) \in P!ThreadOps /\ P!Op(n) \notin P!LeafOps
    BY <1>1 DEF P!ThreadOps, P!LeafOps
<1>3. P!Onward(n) = 1 .. (Len(P!Kids(n)) + 1)
    BY <1>1, <1>2 DEF P!Onward, P!DelimitedOps
<1>4. P!MeaningRule(mem, n, v) = P!InTurn(mem, n, 1, v)
    BY <1>1, <1>2 DEF P!MeaningRule, P!DelimitedOps
<1>5. ASSUME NEW k
      PROVE  P!MeaningFromRule(mem, n, k, v, {}) = P!InTurn(mem, n, k, v)
    BY <1>1, <1>2 DEF P!MeaningFromRule
<1> QED BY <1>1, <1>3, <1>4, <1>5, Solved

LEMMA KidsAre ==
    LET k == P!Kids("comma_separator")
        l == P!Kids("next")
    IN  /\ Len(k) = 3 /\ k[1] = "ws" /\ k[2] = "comma" /\ k[3] = "ws"
        /\ Len(l) = 2 /\ l[1] = "comma_separator" /\ l[2] = "int"
<1> DEFINE k == P!Kids("comma_separator")
           l == P!Kids("next")
<1>1. k = <<"ws", "comma", "ws">> /\ l = <<"comma_separator", "int">>
    BY FoldGrammarIs
<1> HIDE DEF k, l
<1>2. Len(k) = 3 /\ k[1] = "ws" /\ k[2] = "comma" /\ k[3] = "ws"
    BY <1>1
<1>3. Len(l) = 2 /\ l[1] = "comma_separator" /\ l[2] = "int"
    BY <1>1
<1> QED BY <1>2, <1>3 DEF k, l

\* No turn is left.
LEMMA TurnsOver ==
    ASSUME NEW n, NEW v, NEW k \in Nat, Len(P!Kids(n)) \in Nat,
           k > Len(P!Kids(n))
    PROVE  P!InTurn(mem, n, k, v) = P!Yes(v, <<>>)
<1>1. (k > Len(P!Kids(n))) = TRUE /\ (k <= Len(P!Kids(n))) = FALSE
    OBVIOUS
<1> QED BY <1>1, Zenon DEF P!InTurn

\* One turn.
LEMMA TurnIs ==
    ASSUME NEW n, NEW v, NEW k \in Nat, NEW a, Len(P!Kids(n)) \in Nat,
           a = Meaning(mem, P!Kids(n)[k], v), a.ok \in BOOLEAN
    PROVE  /\ k <= Len(P!Kids(n)) /\ a.ok =>
                P!InTurn(mem, n, k, v)
                  = P!Before(IF k \in P!Valued(n) THEN a.val ELSE <<>>,
                             MeaningFrom(mem, n, k + 1, a.st, {}))
           /\ k <= Len(P!Kids(n)) /\ ~ a.ok =>
                P!InTurn(mem, n, k, v) = P!No
<1>1. k > Len(P!Kids(n)) <=> ~ (k <= Len(P!Kids(n)))
    OBVIOUS
<1>3. CASE k <= Len(P!Kids(n)) /\ a.ok
    BY <1>1, <1>3, Zenon DEF P!InTurn
<1>4. CASE k <= Len(P!Kids(n)) /\ ~ a.ok
    BY <1>1, <1>4, Zenon DEF P!InTurn
<1> QED BY <1>3, <1>4

\* Whether a turn matches, and where it ends.
LEMMA TurnMatches ==
    ASSUME IInv, P!IsMeaning(Sources), NEW n \in InTurnOps,
           NEW v \in P!Rests(cur), NEW k \in 1 .. Len(P!Kids(n)), NEW a,
           a = Meaning(mem, P!Kids(n)[k], v),
           P!Kids(n)[k] \in DOMAIN FoldGrammar
    PROVE  /\ a.ok \in BOOLEAN
           /\ ~ a.ok => P!InTurn(mem, n, k, v) = P!No
           /\ a.ok => LET b == P!InTurn(mem, n, k + 1, a.st)
                      IN  /\ P!InTurn(mem, n, k, v).ok = b.ok
                          /\ P!InTurn(mem, n, k, v).st = b.st
<1>1. Len(P!Kids(n)) \in Nat /\ k \in Nat
    BY KidsAre DEF InTurnOps
<1>2. a \in P!Outcomes(v)
    BY Solved
<1>3. a.ok \in BOOLEAN /\ (a.ok => a.st \in P!Rests(cur))
    BY <1>2, OutcomeIs, RestIs DEF IInv, TypeOK
<1>4. CASE a.ok
    <2> DEFINE b == P!InTurn(mem, n, k + 1, a.st)
    <2>1. MeaningFrom(mem, n, k + 1, a.st, {}) = b
        BY <1>1, <1>3, <1>4, TurnsAre
    <2> DEFINE val == IF k \in P!Valued(n) THEN a.val ELSE <<>>
    <2>2. P!InTurn(mem, n, k, v) = P!Before(val, b)
        <3>1. k <= Len(P!Kids(n))
            BY <1>1
        <3>2. P!InTurn(mem, n, k, v)
                = P!Before(val, MeaningFrom(mem, n, k + 1, a.st, {}))
            BY <1>1, <1>3, <1>4, <3>1, TurnIs, Zenon
        <3> QED BY <2>1, <3>2, Zenon
    <2>3. b \in P!Outcomes(a.st)
        BY <1>1, <1>3, <1>4, TurnsAre
    <2>4. b.ok \in BOOLEAN /\ (~ b.ok => b = P!No)
        BY <2>3, OutcomeIs
    <2> HIDE DEF b, val
    <2>5. /\ P!InTurn(mem, n, k, v).ok = b.ok
          /\ P!InTurn(mem, n, k, v).st = b.st
        <3>1. CASE b.ok
            <4>1. P!Before(val, b) = P!Yes(b.st, val \o b.val) /\ b.ok = TRUE
                BY <2>4, <3>1 DEF P!Before
            <4>2. /\ P!Yes(b.st, val \o b.val).ok = TRUE
                  /\ P!Yes(b.st, val \o b.val).st = b.st
                BY DEF P!Yes
            <4> QED BY <2>2, <4>1, <4>2, Zenon
        <3>2. CASE ~ b.ok
            <4>1. P!Before(val, b) = P!No
                BY <3>2 DEF P!Before
            <4> QED BY <2>2, <2>4, <3>2, <4>1
        <3> QED BY <2>4, <3>1, <3>2
    <2> QED BY <1>3, <1>4, <2>5 DEF b
<1>5. CASE ~ a.ok
    BY <1>1, <1>3, <1>5, TurnIs
<1> QED BY <1>3, <1>4, <1>5

\* Whitespace, a comma, whitespace.
LEMMA SeparatorMeans ==
    ASSUME IInv, P!IsMeaning(Sources), NEW v \in P!Rests(cur),
           NEW u, u = [begin |-> SpacesEnd(v), end |-> cur.end],
           NEW w, w = [begin |-> u.begin + 1, end |-> cur.end],
           NEW m, m = Meaning(mem, "comma_separator", v)
    PROVE  /\ u \in P!Rests(cur)
           /\ m.ok <=> CommaAt(u)
           /\ m.ok => /\ w \in P!Rests(cur)
                      /\ m.st = [begin |-> SpacesEnd(w), end |-> cur.end]
                      /\ m.st \in P!Rests(cur)
<1> DEFINE n == "comma_separator"
           T(k, x) == P!InTurn(mem, n, k, x)
<1>1. n \in InTurnOps /\ Len(P!Kids(n)) = 3 /\ n \in DOMAIN FoldGrammar
    BY FoldGrammarIs, KidsAre DEF InTurnOps
<1>2. /\ P!Kids(n)[1] = "ws" /\ P!Kids(n)[2] = "comma"
      /\ P!Kids(n)[3] = "ws"
      /\ {"ws", "comma"} \subseteq DOMAIN FoldGrammar
    BY FoldGrammarIs, KidsAre
<1>3. m = T(1, v)
    BY <1>1, TurnsAre
<1>4. ASSUME NEW x \in P!Rests(cur)
      PROVE  [begin |-> SpacesEnd(x), end |-> cur.end] \in P!Rests(cur)
    <2>1. /\ cur \in State /\ x.begin \in Int /\ x.end = cur.end
          /\ x.end \in Int /\ cur.begin <= x.begin /\ x.begin <= x.end
        BY RestIs DEF IInv, TypeOK, State
    <2>2. /\ SpacesEnd(x) \in Int /\ x.begin <= SpacesEnd(x)
          /\ SpacesEnd(x) <= x.end
        BY <2>1, SpanEndBounds DEF SpacesEnd
    <2>3. cur.begin \in Int /\ cur.begin <= SpacesEnd(x)
        BY <2>1, <2>2 DEF State
    <2> QED BY <2>1, <2>2, <2>3, RestOf
<1>5. u \in P!Rests(cur)
    BY <1>4
<1>6. T(1, v).ok = T(2, u).ok /\ T(1, v).st = T(2, u).st
    BY <1>1, <1>2, SpacesMean, TurnMatches
<1>7. Meaning(mem, "comma", u).ok <=> CommaAt(u)
    BY <1>5, CommaMeans
<1>8. CASE ~ CommaAt(u)
    <2>1. T(2, u) = P!No
        BY <1>1, <1>2, <1>5, <1>7, <1>8, TurnMatches
    <2> QED BY <1>3, <1>5, <1>6, <1>8, <2>1 DEF P!No
<1>9. CASE CommaAt(u)
    <2>1. w \in P!Rests(cur)
        <3>1. /\ cur \in State /\ u.begin \in Int /\ u.end = cur.end
              /\ cur.begin <= u.begin /\ u.begin <= cur.end
              /\ u.begin # cur.end
            BY <1>5, <1>9, RestIs DEF IInv, TypeOK, State, CommaAt
        <3>2. /\ u.begin + 1 \in Int /\ cur.begin <= u.begin + 1
              /\ u.begin + 1 <= cur.end
            BY <3>1 DEF State
        <3> QED BY <3>1, <3>2, RestOf
    <2>2. T(2, u).ok = T(3, w).ok /\ T(2, u).st = T(3, w).st
        BY <1>1, <1>2, <1>5, <1>7, <1>9, CommaMeans, TurnMatches
    <2> DEFINE e == [begin |-> SpacesEnd(w), end |-> cur.end]
    <2>3. e \in P!Rests(cur)
        BY <1>4, <2>1
    <2>4. T(3, w).ok = T(4, e).ok /\ T(3, w).st = T(4, e).st
        BY <1>1, <1>2, <2>1, SpacesMean, TurnMatches
    <2>5. T(4, e) = P!Yes(e, <<>>)
        <3> HIDE DEF e, n
        <3>1. Len(P!Kids(n)) = 3
            BY <1>1
        <3>2. 3 \in Nat /\ 4 \in Nat /\ 4 > 3
            OBVIOUS
        <3> QED BY <3>1, <3>2, TurnsOver
    <2> QED BY <1>3, <1>5, <1>6, <1>9, <2>1, <2>2, <2>3, <2>4, <2>5 DEF P!Yes
<1> QED BY <1>8, <1>9

\* A separator and a number.
LEMMA NextMeans ==
    ASSUME IInv, P!IsMeaning(Sources), NEW v \in P!Rests(cur),
           NEW s, s = Meaning(mem, "comma_separator", v),
           NEW o, o = CharconvParse(mem, s.st, Int32),
           NEW m, m = Meaning(mem, "next", v)
    PROVE  /\ ~ s.ok => ~ m.ok
           /\ s.ok /\ ~ o.ok => ~ m.ok
           /\ s.ok /\ o.ok =>
                m = P!Yes([begin |-> o.rest, end |-> cur.end], <<IntToken(o)>>)
<1> DEFINE n == "next"
           T(k, x) == P!InTurn(mem, n, k, x)
<1>1. /\ n \in InTurnOps /\ Len(P!Kids(n)) = 2
      /\ P!Kids(n)[1] = "comma_separator" /\ P!Kids(n)[2] = "int"
      /\ {"comma_separator", "int"} \subseteq DOMAIN FoldGrammar
    BY FoldGrammarIs, KidsAre DEF InTurnOps
<1>2. P!Valued(n) = {2}
    BY <1>1, FoldGrammarIs DEF P!Valued
<1>7. 2 \in 1 .. (2 + 1) /\ 3 \in 1 .. (2 + 1) /\ 3 > 2 /\ 3 \in Nat
    OBVIOUS
<1> HIDE DEF n
<1>3. m = T(1, v)
    BY <1>1, TurnsAre DEF n
<1>4. /\ s.ok \in BOOLEAN
      /\ ~ s.ok => T(1, v) = P!No
      /\ s.ok => T(1, v).ok = T(2, s.st).ok
    BY <1>1, TurnMatches
<1>5. CASE ~ s.ok
    BY <1>3, <1>4, <1>5 DEF P!No
<1>6. CASE s.ok
    <2>1. s.st \in P!Rests(cur)
        <3>1. s \in P!Outcomes(v)
            BY <1>1, Solved
        <3> QED BY <1>6, <3>1, OutcomeIs, RestIs DEF IInv, TypeOK
    <2> DEFINE i == Meaning(mem, "int", s.st)
               r == [begin |-> o.rest, end |-> cur.end]
    <2>2. /\ i.ok \in BOOLEAN
          /\ ~ i.ok => T(2, s.st) = P!No
        BY <1>1, <2>1, TurnMatches
    <2>3. CASE ~ o.ok
        <3>1. i = P!No
            BY <2>1, <2>3, IntMeans
        <3>2. T(2, s.st) = P!No
            BY <2>2, <3>1 DEF P!No
        <3> QED BY <1>3, <1>4, <1>6, <2>3, <3>2 DEF P!No
    <2>4. CASE o.ok
        <3>1. i = P!Yes(r, <<IntToken(o)>>)
            BY <2>1, <2>4, IntMeans
        <3>2. i.ok = TRUE /\ i.st = r /\ i.val = <<IntToken(o)>>
            BY <3>1 DEF P!Yes
        <3>3. r \in P!Rests(cur)
            <4>1. i \in P!Outcomes(s.st)
                BY <1>1, <2>1, Solved
            <4> QED BY <2>1, <3>2, <4>1, OutcomeIs, RestIs DEF IInv, TypeOK
        <3>4. MeaningFrom(mem, n, 3, r, {}) = P!Yes(r, <<>>)
            <4> HIDE DEF r
            <4>1. MeaningFrom(mem, n, 3, r, {}) = T(3, r)
                BY <1>1, <1>7, <3>3, TurnsAre
            <4>2. T(3, r) = P!Yes(r, <<>>)
                <5>1. Len(P!Kids(n)) \in Nat /\ 3 > Len(P!Kids(n))
                    BY <1>1
                <5> QED BY <1>7, <5>1, TurnsOver
            <4> QED BY <4>1, <4>2
        <3>5. T(2, s.st) = P!Before(<<IntToken(o)>>, P!Yes(r, <<>>))
            <4>1. 2 <= Len(P!Kids(n)) /\ 2 \in Nat /\ Len(P!Kids(n)) \in Nat
                BY <1>1
            <4>2. T(2, s.st) = P!Before(IF 2 \in P!Valued(n) THEN i.val
                                                             ELSE <<>>,
                                        MeaningFrom(mem, n, 2 + 1, i.st, {}))
                BY <1>1, <2>2, <3>2, <4>1, TurnIs
            <4> HIDE DEF r
            <4> QED BY <1>2, <3>2, <3>4, <4>2
        <3> DEFINE tok == <<IntToken(o)>>
        <3>6. /\ P!Before(tok, P!Yes(r, <<>>)) = P!Yes(r, tok)
              /\ P!Before(<<>>, P!Yes(r, tok)) = P!Yes(r, tok)
            <4> HIDE DEF r
            <4> DEFINE S == {IntToken(o)}
            <4>1. tok \in Seq(S) /\ <<>> \in Seq(S)
                OBVIOUS
            <4> HIDE DEF tok, S
            <4>2. tok \o <<>> = tok /\ <<>> \o tok = tok
                BY <4>1, ConcatEmptySeq
            <4>3. /\ P!Before(tok, P!Yes(r, <<>>)) = P!Yes(r, tok \o <<>>)
                  /\ P!Before(<<>>, P!Yes(r, tok)) = P!Yes(r, <<>> \o tok)
                BY DEF P!Before, P!Yes
            <4> QED BY <4>2, <4>3
        <3>7. T(2, s.st) = P!Yes(r, tok)
            BY <3>5, <3>6, Zenon
        <3>8. MeaningFrom(mem, n, 2, s.st, {}) = T(2, s.st)
            BY <1>1, <1>7, <2>1, TurnsAre
        <3>9. T(1, v) = P!Before(<<>>, T(2, s.st))
            <4>1. 1 <= Len(P!Kids(n)) /\ 1 \in Nat /\ Len(P!Kids(n)) \in Nat
                BY <1>1
            <4>2. T(1, v) = P!Before(IF 1 \in P!Valued(n) THEN s.val
                                                          ELSE <<>>,
                                     MeaningFrom(mem, n, 1 + 1, s.st, {}))
                BY <1>1, <1>4, <1>6, <4>1, TurnIs
            <4> QED BY <1>2, <3>8, <4>2
        <3>10. T(1, v) = P!Yes(r, tok)
            BY <3>6, <3>7, <3>9, Zenon
        <3> QED BY <1>3, <1>6, <2>4, <3>10
    <2> QED BY <2>3, <2>4, <2>1, CharconvContract, RestIs
            DEF IsOutcome, IInv, TypeOK
<1> QED BY <1>4, <1>5, <1>6

LEMMA FoldMeans ==
    ASSUME IInv, P!IsMeaning(Sources), NEW v \in P!Rests(cur),
           NEW i, i = Meaning(mem, "long", v),
           NEW m, m = Meaning(mem, "next", v)
    PROVE  /\ MeaningFrom(mem, "add_w_fold", 2, v, {}) \in P!Outcomes(v)
           /\ m.ok => MeaningFrom(mem, "add_w_fold", 2, v, {})
                        = P!Before(m.val,
                            MeaningFrom(mem, "add_w_fold", 2, m.st, {}))
           /\ ~ m.ok => MeaningFrom(mem, "add_w_fold", 2, v, {}) = P!Yes(v, <<>>)
           /\ i.ok => Meaning(mem, "add_w_fold", v)
                        = P!Before(i.val,
                            MeaningFrom(mem, "add_w_fold", 2, i.st, {}))
           /\ ~ i.ok => Meaning(mem, "add_w_fold", v) = P!No
<1> DEFINE n == "add_w_fold"
<1>1. P!Kids(n)[1] = "long" /\ P!Kids(n)[2] = "next" /\ P!Op(n) = "fold_left"
    <2>1. P!Kids(n) = <<"long", "next">>
        BY FoldGrammarIs
    <2> HIDE DEF n
    <2>2. P!Kids(n)[1] = "long" /\ P!Kids(n)[2] = "next"
        BY <2>1
    <2> QED BY <2>2, FoldGrammarIs DEF n
<1>2. n \in DOMAIN FoldGrammar /\ "long" \in DOMAIN FoldGrammar
    BY FoldGrammarIs
<1>3. /\ P!Op(n) \notin P!LeafOps /\ P!Op(n) \notin P!ThreadOps
      /\ P!Op(n) \notin P!DelimitedOps
    BY <1>1 DEF P!LeafOps, P!ThreadOps, P!DelimitedOps
<1>4. 2 \in P!Onward(n)
    BY <1>1, <1>3 DEF P!Onward
<1>5. ASSUME NEW x \in P!Rests(cur)
      PROVE  /\ MeaningFrom(mem, n, 2, x, {}) \in P!Outcomes(x)
             /\ MeaningFrom(mem, n, 2, x, {}) = P!Repeated(mem, n, x)
             /\ Meaning(mem, n, x) = P!Fold(mem, n, x)
    <2>1. P!MeaningFromRule(mem, n, 2, x, {}) = P!Repeated(mem, n, x)
        BY <1>1, <1>3 DEF P!MeaningFromRule
    <2>2. P!MeaningRule(mem, n, x) = P!Fold(mem, n, x)
        BY <1>1, <1>3 DEF P!MeaningRule
    <2> QED BY <1>2, <1>4, <1>5, <2>1, <2>2, Solved
<1>6. /\ m.ok => P!Repeated(mem, n, v)
                   = P!Before(m.val, MeaningFrom(mem, n, 2, m.st, {}))
      /\ ~ m.ok => P!Repeated(mem, n, v) = P!Yes(v, <<>>)
    BY <1>1 DEF P!Repeated
<1>7. i.ok => i.st \in P!Rests(cur)
    <2>1. i \in P!Outcomes(v)
        BY <1>2, Solved
    <2> QED BY <2>1, OutcomeIs, RestIs DEF IInv, TypeOK
<1>8. /\ i.ok => P!Fold(mem, n, v)
                   = P!Before(i.val, P!Repeated(mem, n, i.st))
      /\ ~ i.ok => P!Fold(mem, n, v) = P!No
    BY <1>1 DEF P!Fold
<1> QED BY <1>5, <1>6, <1>7, <1>8

(***************************************************************************)
(* The loop: where its pointers are, and what the fold makes of that.      *)
(***************************************************************************)
LEMMA SpanIs ==
    ASSUME NEW chars, NEW from \in Int, NEW at \in Int, NEW end \in Int,
           from <= at, at <= end,
           \A a \in from .. (at - 1) : mem[a] \in chars,
           ~ (at < end /\ mem[at] \in chars)
    PROVE  SpanEnd(mem, from, end, chars) = at
<1> DEFINE stops == {a \in from .. end : a = end \/ mem[a] \notin chars}
<1>1. CASE from >= end
    BY <1>1 DEF SpanEnd
<1>2. CASE ~ (from >= end)
    <2>1. at \in stops /\ stops \in SUBSET Int /\ \A a \in stops : from <= a
        OBVIOUS
    <2>2. \A a \in stops : at <= a
        <3> SUFFICES ASSUME NEW a \in stops, a < at PROVE FALSE
            OBVIOUS
        <3>1. a \in from .. (at - 1) /\ a # end
            OBVIOUS
        <3> QED BY <3>1
    <2>3. SpanEnd(mem, from, end, chars) = First(stops)
        BY <1>2 DEF SpanEnd
    <2> HIDE DEF stops
    <2>4. First(stops) \in stops /\ \A b \in stops : First(stops) <= b
        BY <2>1, FirstIsLeast
    <2> DEFINE f == First(stops)
    <2>5. f \in Int /\ at <= f /\ f <= at
        BY <2>1, <2>2, <2>4
    <2> HIDE DEF f
    <2>6. f = at
        BY <2>5
    <2> QED BY <2>3, <2>6 DEF f
<1> QED BY <1>1, <1>2

\* The whitespace the fold skips ends at at, if what ends there are spaces.
LEMMA SpacesEndAt ==
    ASSUME NEW v \in State, NEW at \in Int, v.begin <= at, at <= v.end,
           Spaces(v.begin, at), ~ (at < v.end /\ mem[at] \in Whitespace)
    PROVE  SpacesEnd(v) = at
<1>1. \A a \in v.begin .. (at - 1) : mem[a] \in Whitespace
    BY Zenon DEF Spaces, Whitespace
<1>2. v.begin \in Int /\ v.end \in Int
    BY DEF State
<1>3. SpanEnd(mem, v.begin, v.end, Whitespace) = at
    BY <1>1, <1>2, SpanIs
<1> QED BY <1>3, Zenon DEF SpacesEnd

\* Whether the loop is at whitespace that it does not know.
AtOtherSpace == begin < cur.end /\ mem[begin] \in Whitespace \ {" "}

\* Neither a comma nor what a number begins with is whitespace.
LEMMA NoWhitespace ==
    /\ "," \notin Whitespace
    /\ \A c \in Digits \union {"-"} : c \notin Whitespace
BY DEF Whitespace, Digits

\* During a read all three pointers are in the view.
LEMMA PointersInView ==
    ASSUME IInv, pc # "idle"
    PROVE  /\ cur \in State /\ cur \in P!Rests(cur) /\ Rest \in P!Rests(cur)
           /\ cur = [begin |-> cur.begin, end |-> cur.end]
           /\ [begin |-> begin, end |-> cur.end] \in P!Rests(cur)
           /\ cur.begin \in Int /\ cur.end \in Int
           /\ start \in Int /\ begin \in Int
           /\ cur.begin <= start /\ start <= begin /\ begin <= cur.end
<1>1. /\ cur \in State /\ cur.begin \in Int /\ cur.end \in Int
      /\ start \in Int /\ begin \in Int
      /\ cur.begin <= start /\ start <= begin /\ begin <= cur.end
    BY DEF IInv, TypeOK, PointersOrdered, State
<1>2. cur.begin <= cur.end /\ cur.begin <= begin /\ start <= cur.end
    BY <1>1
<1>3. cur = [begin |-> cur.begin, end |-> cur.end]
    BY <1>1 DEF State
<1> QED BY <1>1, <1>2, <1>3, RestOf DEF Rest

\* What the loop would give back is a part of a separator.
LEMMA OtherSpaceIsBehind ==
    ASSUME IInv, pc # "idle", AtOtherSpace
    PROVE  OtherSpaceBehind(mem, Rest)
<1>1. /\ Rest.begin = start /\ Rest.end = cur.end
      /\ start \in Int /\ begin \in Int /\ cur.end \in Int
      /\ start <= begin
    BY PointersInView DEF Rest
<1>2. begin \in Rest.begin .. (Rest.end - 1)
    <2>1. begin < cur.end
        BY DEF AtOtherSpace
    <2> QED BY ONLY <1>1, <2>1
<1>3. Skipped = Rest.begin .. (begin - 1)
    BY <1>1 DEF Skipped
<1>4. /\ \A b \in Skipped : mem[b] \in {" ", ","}
      /\ \A b, c \in Skipped : mem[b] = "," /\ mem[c] = "," => b = c
    BY DEF IInv, SkippedIsSeparator
<1> QED BY <1>2, <1>3, <1>4, Zenon DEF OtherSpaceBehind, AtOtherSpace

\* No comma behind the spaces: the fold ends at start.
LEMMA EndsWithoutComma ==
    ASSUME IInv, P!IsMeaning(Sources), pc # "idle",
           Spaces(start, begin), ~ AtSpace, ~ AtOtherSpace, ~ AtComma
    PROVE  Behind = P!Yes(Rest, <<>>)
<1> DEFINE u == [begin |-> begin, end |-> cur.end]
           m == Meaning(mem, "comma_separator", Rest)
<1>1. /\ Rest \in P!Rests(cur) /\ Rest.begin = start /\ Rest.end = cur.end
      /\ start \in Int /\ begin \in Int /\ cur.end \in Int
      /\ start <= begin /\ begin <= cur.end
    BY PointersInView DEF Rest
<1>2. SpacesEnd(Rest) = begin
    <2>1. ~ (begin < Rest.end /\ mem[begin] \in Whitespace)
        BY <1>1, Zenon DEF AtSpace, AtOtherSpace
    <2> QED BY <1>1, <2>1, SpacesEndAt, RestIs, PointersInView, Zenon
<1>3. ~ CommaAt(u)
    BY DEF CommaAt, AtComma
<1>4. ~ m.ok
    BY <1>1, <1>2, <1>3, SeparatorMeans
<1>5. ~ Meaning(mem, "next", Rest).ok
    BY <1>1, <1>4, NextMeans
<1> QED BY <1>1, <1>5, FoldMeans DEF Behind

\* A comma behind the spaces: what the fold makes of the number at begin.
LEMMA GoesOnBehindComma ==
    ASSUME IInv, P!IsMeaning(Sources), pc # "idle",
           CommaSkipped, ~ AtSpace, ~ AtOtherSpace
    PROVE  LET next == [begin |-> FromChars.rest, end |-> cur.end]
           IN  /\ FromChars.ok =>
                    Behind = P!Before(<<IntToken(FromChars)>>,
                                MeaningFrom(mem, "add_w_fold", 2, next, {}))
               /\ ~ FromChars.ok => Behind = P!Yes(Rest, <<>>)
<1>1. /\ Rest \in P!Rests(cur) /\ Rest.begin = start /\ Rest.end = cur.end
      /\ start \in Int /\ begin \in Int /\ cur.end \in Int
      /\ start <= begin /\ begin <= cur.end
    BY PointersInView DEF Rest
<1>2. PICK c \in start .. (begin - 1) :
        /\ Spaces(start, c) /\ mem[c] = "," /\ Spaces(c + 1, begin)
    BY DEF CommaSkipped
<1> DEFINE u == [begin |-> c, end |-> cur.end]
           w == [begin |-> c + 1, end |-> cur.end]
           s == Meaning(mem, "comma_separator", Rest)
           v == [begin |-> begin, end |-> cur.end]
           next == [begin |-> FromChars.rest, end |-> cur.end]
           m == Meaning(mem, "next", Rest)
<1>3. c \in Int /\ start <= c /\ c + 1 \in Int /\ c + 1 <= begin /\ c < cur.end
    BY ONLY <1>1, c \in start .. (begin - 1)
<1>4. SpacesEnd(Rest) = c
    <2>1. ~ (c < cur.end /\ mem[c] \in Whitespace)
        BY <1>2, NoWhitespace, Zenon
    <2>2. Rest \in State /\ c <= Rest.end /\ Spaces(Rest.begin, c)
        <3>1. Rest \in State
            BY <1>1, RestIs, PointersInView, Zenon
        <3>2. c <= Rest.end
            BY <1>1, <1>3
        <3>3. Spaces(Rest.begin, c)
            BY <1>1, <1>2, Zenon
        <3> QED BY <3>1, <3>2, <3>3
    <2> QED BY <1>1, <1>3, <2>1, <2>2, SpacesEndAt, Zenon
<1>5. CommaAt(u)
    <2>1. c # cur.end
        BY <1>1, <1>3
    <2> QED BY <1>2, <2>1, Zenon DEF CommaAt
<1>6. SpacesEnd(w) = begin
    <2>1. /\ w \in State /\ w.begin = c + 1 /\ w.end = cur.end
          /\ w.begin <= begin
        BY <1>1, <1>3 DEF State
    <2>2. ~ (begin < w.end /\ mem[begin] \in Whitespace)
        BY <2>1, Zenon DEF AtSpace, AtOtherSpace
    <2> QED BY <1>1, <1>2, <2>1, <2>2, SpacesEndAt, Zenon
<1>7. s.ok /\ s.st = v
    BY <1>1, <1>4, <1>5, <1>6, SeparatorMeans
<1>8. FromChars = CharconvParse(mem, s.st, Int32)
    BY <1>7 DEF FromChars
<1> HIDE DEF s
<1>9. /\ FromChars.ok => m = P!Yes(next, <<IntToken(FromChars)>>)
      /\ ~ FromChars.ok => ~ m.ok
    BY <1>1, <1>7, <1>8, NextMeans DEF s
<1>10. /\ m.ok => Behind = P!Before(m.val,
                                MeaningFrom(mem, "add_w_fold", 2, m.st, {}))
       /\ ~ m.ok => Behind = P!Yes(Rest, <<>>)
    BY <1>1, FoldMeans DEF Behind
<1>11. P!Yes(next, <<IntToken(FromChars)>>).ok
       /\ P!Yes(next, <<IntToken(FromChars)>>).st = next
       /\ P!Yes(next, <<IntToken(FromChars)>>).val = <<IntToken(FromChars)>>
    BY DEF P!Yes
<1> HIDE DEF m, next
<1> QED BY <1>9, <1>10, <1>11 DEF next

(***************************************************************************)
(* The numbers added, as the fold's value has them.                        *)
(***************************************************************************)
Number == [from : Int, to : Int]

LEMMA TokensTyped ==
    ASSUME NEW numbers \in Seq(Number)
    PROVE  /\ Tokens(numbers) \in Seq(P!Token)
           /\ Len(Tokens(numbers)) = Len(numbers)
           /\ Numbers(Tokens(numbers)) = numbers
<1> DEFINE T == Tokens(numbers)
<1>1. DOMAIN numbers = 1 .. Len(numbers) /\ Len(numbers) \in Nat
    OBVIOUS
<1>2. ASSUME NEW i \in 1 .. Len(numbers)
      PROVE  T[i] \in P!Token /\ T[i].from = numbers[i].from
                /\ T[i].to = numbers[i].to
    <2>1. numbers[i] \in Number
        OBVIOUS
    <2> QED BY <1>1, <2>1, FoldGrammarIs DEF Tokens, Number, P!Token
<1>3. DOMAIN T = 1 .. Len(numbers)
    BY <1>1 DEF Tokens
<1>4. T = [i \in 1 .. Len(numbers) |-> T[i]]
    BY <1>1 DEF Tokens
<1>5. T \in [1 .. Len(numbers) -> P!Token]
    <2> HIDE DEF T
    <2> QED BY <1>2, <1>4
<1>6. T \in Seq(P!Token) /\ Len(T) = Len(numbers)
    <2> HIDE DEF T
    <2> QED BY <1>1, <1>3, <1>5, SeqDef, LenProperties
<1>7. Numbers(T) = [i \in 1 .. Len(numbers) |->
                        [from |-> numbers[i].from, to |-> numbers[i].to]]
    <2> HIDE DEF T
    <2> QED BY <1>2, <1>3 DEF Numbers
<1>8. \A i \in 1 .. Len(numbers) :
        [from |-> numbers[i].from, to |-> numbers[i].to] = numbers[i]
    <2> SUFFICES ASSUME NEW i \in 1 .. Len(numbers)
                 PROVE  [from |-> numbers[i].from, to |-> numbers[i].to]
                          = numbers[i]
        OBVIOUS
    <2>1. numbers[i] \in Number
        OBVIOUS
    <2> QED BY <2>1 DEF Number
<1>9. numbers = [i \in 1 .. Len(numbers) |-> numbers[i]]
    BY <1>1
<1> QED BY <1>6, <1>7, <1>8, <1>9

LEMMA ConcatOne ==
    ASSUME NEW S, NEW s \in Seq(S), NEW x \in S
    PROVE  /\ s \o <<x>> \in Seq(S)
           /\ Len(s \o <<x>>) = Len(s) + 1
           /\ \A i \in 1 .. Len(s) : (s \o <<x>>)[i] = s[i]
           /\ (s \o <<x>>)[Len(s) + 1] = x
OBVIOUS

\* The number that comes behind those, as the fold has it.
NextToken(numbers, o) == IF numbers = <<>> THEN LongToken(o) ELSE IntToken(o)

LEMMA TokensAppend ==
    ASSUME NEW numbers \in Seq(Number), NEW o, IsOutcome(o),
           NEW one, one = [from |-> o.from, to |-> o.to],
           NEW added, added = NextToken(numbers, o)
    PROVE  /\ Append(numbers, one) \in Seq(Number)
           /\ <<added>> \in Seq(P!Token)
           /\ Tokens(Append(numbers, one)) = Tokens(numbers) \o <<added>>
<1> DEFINE more == Append(numbers, one)
           tok  == <<added>>
           both == Tokens(numbers) \o tok
<1>1. one \in Number /\ one.from = o.from /\ one.to = o.to
    BY DEF IsOutcome, Number
<1>2. /\ more \in Seq(Number) /\ Len(more) = Len(numbers) + 1
      /\ Len(numbers) \in Nat
      /\ \A i \in 1 .. Len(numbers) : more[i] = numbers[i]
      /\ more[Len(numbers) + 1] = one
    BY <1>1
<1>3. added \in P!Token
    BY FoldGrammarIs DEF IsOutcome, NextToken, LongToken, IntToken, P!Token
<1>4. tok \in Seq(P!Token) /\ Len(tok) = 1 /\ tok[1] = added
    BY <1>3
<1>5. /\ Tokens(numbers) \in Seq(P!Token)
      /\ Len(Tokens(numbers)) = Len(numbers)
      /\ Tokens(more) \in Seq(P!Token) /\ Len(Tokens(more)) = Len(more)
    BY <1>2, TokensTyped
<1> HIDE DEF tok, more
<1>6. /\ both \in Seq(P!Token) /\ Len(both) = Len(numbers) + 1
      /\ \A i \in 1 .. Len(numbers) : both[i] = Tokens(numbers)[i]
      /\ both[Len(numbers) + 1] = tok[1]
    <2>1. /\ both \in Seq(P!Token)
          /\ Len(both) = Len(Tokens(numbers)) + 1
          /\ \A i \in 1 .. Len(Tokens(numbers)) : both[i] = Tokens(numbers)[i]
          /\ both[Len(Tokens(numbers)) + 1] = added
        BY <1>3, <1>5, ConcatOne DEF tok
    <2> QED BY <1>4, <1>5, <2>1, Zenon
<1>7. ASSUME NEW i \in 1 .. Len(more) PROVE Tokens(more)[i] = both[i]
    <2>1. Tokens(more)[i]
            = [leaf |-> IF i = 1 THEN "long" ELSE "int",
               from |-> more[i].from, to |-> more[i].to]
        BY <1>2 DEF Tokens
    <2>2. CASE i \in 1 .. Len(numbers)
        <3>1. Tokens(numbers)[i]
                = [leaf |-> IF i = 1 THEN "long" ELSE "int",
                   from |-> numbers[i].from, to |-> numbers[i].to]
            BY <2>2 DEF Tokens
        <3>2. more[i] = numbers[i] /\ both[i] = Tokens(numbers)[i]
            BY <1>2, <1>6, <2>2
        <3> QED BY <2>1, <3>1, <3>2, Zenon
    <2>3. CASE i = Len(numbers) + 1
        <3>1. more[i] = one /\ both[i] = added
            BY <1>2, <1>4, <1>6, <2>3, Zenon
        <3>2. numbers = <<>> <=> i = 1
            BY <1>2, <2>3
        <3>3. added = [leaf |-> IF i = 1 THEN "long" ELSE "int",
                       from |-> o.from, to |-> o.to]
            BY <3>2, Zenon DEF NextToken, LongToken, IntToken
        <3> QED BY <1>1, <2>1, <3>1, <3>3, Zenon
    <2>4. i \in 1 .. Len(numbers) \/ i = Len(numbers) + 1
        BY ONLY <1>2, i \in 1 .. Len(more)
    <2> QED BY <2>2, <2>3, <2>4
<1> HIDE DEF both
<1>8. Tokens(more) = both
    BY <1>2, <1>5, <1>6, <1>7, SeqEqual
<1> QED BY <1>2, <1>4, <1>8 DEF more, both, tok

LEMMA BeforeBefore ==
    ASSUME NEW v, NEW m \in P!Outcomes(v),
           NEW a \in Seq(P!Token), NEW b \in Seq(P!Token)
    PROVE  P!Before(a, P!Before(b, m)) = P!Before(a \o b, m)
<1>1. CASE m.ok
    <2> DEFINE c == m.val
    <2>1. c \in Seq(P!Token)
        BY <1>1, OutcomeIs
    <2> HIDE DEF c
    <2>2. a \o (b \o c) = (a \o b) \o c
        BY <2>1, ConcatAssociative
    <2>3. P!Before(b, m) = P!Yes(m.st, b \o c)
        BY <1>1 DEF P!Before, c
    <2>4. P!Before(a, P!Yes(m.st, b \o c)) = P!Yes(m.st, a \o (b \o c))
        BY DEF P!Before, P!Yes
    <2>5. P!Before(a \o b, m) = P!Yes(m.st, (a \o b) \o c)
        BY <1>1 DEF P!Before, c
    <2> QED BY <2>2, <2>3, <2>4, <2>5
<1>2. CASE ~ m.ok
    <2>1. P!Before(b, m) = P!No /\ P!Before(a \o b, m) = P!No
        BY <1>2 DEF P!Before
    <2> QED BY <2>1 DEF P!Before, P!No
<1> QED BY <1>1, <1>2, OutcomeIs

(***************************************************************************)
(* The invariant, action by action.                                        *)
(***************************************************************************)
\* from_chars: what a number is, and where it ends.
LEMMA NumberRead ==
    ASSUME IInv, pc # "idle"
    PROVE  /\ IsOutcome(FromChars)
           /\ FromChars.ok => begin < FromChars.rest /\ ~ AtOtherSpace
<1> DEFINE v == [begin |-> begin, end |-> cur.end]
<1>1. v \in State /\ v.begin = begin
    BY PointersInView DEF State
<1>2. FromChars = CharconvParse(mem, v, Int32)
    BY DEF FromChars
<1> HIDE DEF v
<1>3. FromChars.ok => ~ AtOtherSpace
    BY <1>1, <1>2, NumberBegins, NoWhitespace DEF AtOtherSpace
<1> QED BY <1>1, <1>2, <1>3, CharconvTakes, CharconvContract DEF Takes

\* A number is added.
LEMMA TakeAdds ==
    ASSUME IInv, AddedSoFar, pc # "idle", FromChars.ok, Take(FromChars),
           UNCHANGED <<mem, cur, got>>,
           NEW added,
           added = Tokens(sum) \o <<NextToken(sum, FromChars)>>,
           Meaning(mem, "add_w_fold", cur) = P!Before(added, Behind')
    PROVE  AddedSoFar'
<1>1. sum \in Seq(Number) /\ got = Nothing
    BY DEF AddedSoFar, Number
<1>2. IsOutcome(FromChars) /\ begin < FromChars.rest
    BY NumberRead
<1>3. /\ begin' = FromChars.rest /\ start' = FromChars.rest /\ pc' = "before"
      /\ sum' = Append(sum, [from |-> FromChars.from, to |-> FromChars.to])
    BY DEF Take
<1>4. sum' \in Seq(Number) /\ Tokens(sum') = added
    BY <1>1, <1>2, <1>3, TokensAppend
<1>5. sum' # <<>>
    BY <1>1, <1>3
<1>6. cur.begin < start'
    <2>1. FromChars.rest \in Int /\ begin \in Int /\ cur.begin \in Int
          /\ cur.begin <= begin
        BY <1>2, PointersInView DEF IsOutcome
    <2> QED BY <1>2, <1>3, <2>1
<1>7. Meaning(mem', "add_w_fold", cur') = P!Before(Tokens(sum'), Behind')
    BY <1>4
<1>8. Spaces(start, begin)'
    <2>1. start' .. (begin' - 1) = {}
        BY <1>2, <1>3 DEF IsOutcome
    <2> QED BY <2>1 DEF Spaces
<1> QED BY <1>1, <1>3, <1>4, <1>6, <1>7, <1>8, <1>5 DEF AddedSoFar, Number

LEMMA FirstAdds ==
    ASSUME IInv, AddedSoFar, P!IsMeaning(Sources), FirstValue
    PROVE  /\ AddedSoFar'
           /\ ~ FromChars.ok /\ ~ OnlyLong(mem, cur) =>
                Meaning(mem, "add_w_fold", cur) = P!No
<1>1. /\ pc = "first" /\ start = cur.begin /\ begin = start /\ sum = <<>>
      /\ got = Nothing
    BY DEF AddedSoFar, FirstValue
<1>2. FromChars = CharconvParse(mem, cur, Int32) /\ cur \in P!Rests(cur)
    BY <1>1, PointersInView DEF FromChars
<1> DEFINE next == [begin |-> FromChars.rest, end |-> cur.end]
           tok == <<LongToken(FromChars)>>
           i == Meaning(mem, "long", cur)
           l == CharconvParse(mem, cur, Int64)
<1>3. FromChars.ok => l = FromChars
    <2>1. cur \in State
        BY DEF IInv, TypeOK
    <2> QED BY <1>2, <2>1, TypesAssumption, LargerTypeReads
<1>4. /\ l.ok => i = P!Yes([begin |-> l.rest, end |-> cur.end], <<LongToken(l)>>)
      /\ ~ l.ok => i = P!No
    BY <1>2, LongMeans
<1>5. /\ FromChars.ok => i = P!Yes(next, tok)
      /\ ~ FromChars.ok /\ ~ OnlyLong(mem, cur) => i = P!No
    <2> HIDE DEF i
    <2>1. CASE FromChars.ok
        BY <1>3, <1>4, <2>1
    <2>2. CASE ~ FromChars.ok /\ ~ OnlyLong(mem, cur)
        BY <1>2, <1>4, <2>2 DEF OnlyLong
    <2> QED BY <2>1, <2>2
<1> HIDE DEF l
<1>6. /\ i.ok => Meaning(mem, "add_w_fold", cur)
                   = P!Before(i.val, MeaningFrom(mem, "add_w_fold", 2, i.st, {}))
      /\ ~ i.ok => Meaning(mem, "add_w_fold", cur) = P!No
    BY <1>2, FoldMeans
<1>7. CASE FromChars.ok /\ Take(FromChars)
    <2>1. Rest' = next
        BY <1>7 DEF FirstValue, Take, Rest
    <2>2. i.ok = TRUE /\ i.st = next /\ i.val = tok
        BY <1>5, <1>7 DEF P!Yes
    <2> HIDE DEF i
    <2>3. Behind' = MeaningFrom(mem, "add_w_fold", 2, next, {})
        BY <2>1 DEF Behind, FirstValue
    <2>4. Meaning(mem, "add_w_fold", cur)
            = P!Before(tok, Behind')
        BY <1>6, <2>2, <2>3, Zenon
    <2>5. Tokens(sum) \o <<NextToken(sum, FromChars)>> = tok
        <3>1. Tokens(<<>>) = <<>>
            BY DEF Tokens
        <3>2. tok \in Seq({LongToken(FromChars)})
            OBVIOUS
        <3>3. <<NextToken(sum, FromChars)>> = tok
            BY <1>1 DEF NextToken
        <3> QED BY <1>1, <3>1, <3>2, <3>3, ConcatEmptySeq
    <2>6. AddedSoFar'
        BY <1>1, <1>7, <2>4, <2>5, TakeAdds DEF FirstValue
    <2> QED BY <1>7, <2>6
<1>8. CASE ~ FromChars.ok /\ pc' = "idle" /\ UNCHANGED <<begin, start, sum>>
    <2>1. ~ OnlyLong(mem, cur) => i.ok = FALSE
        BY <1>5, <1>8 DEF P!No
    <2>2. AddedSoFar'
        BY <1>8 DEF AddedSoFar
    <2> QED BY <1>6, <2>1, <2>2
<1> QED BY <1>7, <1>8 DEF FirstValue

LEMMA NextAdds ==
    ASSUME IInv, AddedSoFar, P!IsMeaning(Sources), NextValue
    PROVE  AddedSoFar'
<1>1. /\ pc = "value" /\ CommaSkipped /\ ~ AtSpace
      /\ sum \in Seq(Number) /\ sum # <<>> /\ cur.begin < start
      /\ Meaning(mem, "add_w_fold", cur) = P!Before(Tokens(sum), Behind)
    BY DEF AddedSoFar, NextValue, Number
<1> DEFINE next == [begin |-> FromChars.rest, end |-> cur.end]
           tok  == <<NextToken(sum, FromChars)>>
<1>2. tok = <<IntToken(FromChars)>>
    BY <1>1 DEF NextToken
<1>3. ~ AtOtherSpace =>
      /\ FromChars.ok =>
            Behind = P!Before(tok, MeaningFrom(mem, "add_w_fold", 2, next, {}))
      /\ ~ FromChars.ok => Behind = P!Yes(Rest, <<>>)
    BY <1>1, <1>2, GoesOnBehindComma
<1>4. CASE FromChars.ok /\ Take(FromChars)
    <2>1. Behind' = MeaningFrom(mem, "add_w_fold", 2, next, {})
        <3>1. Rest' = next /\ mem' = mem
            BY <1>4 DEF NextValue, Take, Rest
        <3> QED BY <3>1 DEF Behind
    <2>2. Behind' \in P!Outcomes(next)
        <3>1. next \in P!Rests(cur)
            <4>1. /\ FromChars.rest \in Int /\ begin <= FromChars.rest
                  /\ FromChars.rest <= cur.end
                BY <1>1, <1>4, FromCharsBounds DEF IInv, IsOutcome
            <4>2. cur.begin <= FromChars.rest
                BY <1>1, <4>1, PointersInView
            <4> QED BY <1>1, <4>1, <4>2, PointersInView, RestOf
        <3> QED BY <2>1, <3>1, FoldMeans
    <2>3. tok \in Seq(P!Token) /\ Tokens(sum) \in Seq(P!Token)
        BY <1>1, NumberRead, TokensAppend, TokensTyped
    <2> HIDE DEF tok
    <2>4. ~ AtOtherSpace
        BY <1>1, <1>4, NumberRead
    <2>5. Meaning(mem, "add_w_fold", cur)
            = P!Before(Tokens(sum) \o tok, Behind')
        BY <1>1, <1>3, <1>4, <2>1, <2>2, <2>3, <2>4, BeforeBefore
    <2> QED BY <1>1, <1>4, <2>5, TakeAdds DEF NextValue, tok
<1>5. CASE ~ FromChars.ok /\ pc' = "done" /\ UNCHANGED <<begin, start, sum>>
    <2>1. /\ UNCHANGED <<mem, cur, got>> /\ Rest' = Rest /\ Behind' = Behind
        BY <1>5 DEF NextValue, Rest, Behind
    <2>2. Behind = P!Yes(Rest, <<>>) \/ OtherSpaceBehind(mem, Rest)
        BY <1>1, <1>3, <1>5, OtherSpaceIsBehind
    <2> QED BY <1>1, <1>5, <2>1, <2>2 DEF AddedSoFar, Number
<1> QED BY <1>4, <1>5 DEF NextValue

\* begin moves on, over one more character; start and what is added stay.
LEMMA SameRest ==
    ASSUME UNCHANGED <<mem, cur, start>>
    PROVE  Rest' = Rest /\ Behind' = Behind
BY DEF Rest, Behind

LEMMA SpaceSkips ==
    ASSUME IInv, AddedSoFar, Space
    PROVE  AddedSoFar'
<1>1. /\ UNCHANGED <<mem, cur, start, sum, pc, got>>
      /\ pc \in {"before", "behind"} /\ begin' = begin + 1
      /\ mem[begin] = " " /\ Rest' = Rest /\ Behind' = Behind
    BY SameRest, Zenon DEF Space, AtSpace, Past
<1>2. /\ start \in Int /\ begin \in Int /\ start <= begin
      /\ begin' - 1 = begin /\ start' = start
    <2>1. pc # "idle"
        BY <1>1, Zenon
    <2>2. start \in Int /\ begin \in Int /\ start <= begin
        BY <2>1, PointersInView
    <2>3. begin' = begin + 1 /\ start' = start
        BY <1>1, Zenon
    <2> QED BY <2>2, <2>3
<1>3. ASSUME NEW from \in Int, from <= begin, Spaces(from, begin)
      PROVE  Spaces(from, begin')
    <2>1. from .. (begin' - 1) = (from .. (begin - 1)) \union {begin}
        BY <1>2, <1>3
    <2> QED BY <1>1, <1>3, <2>1, Zenon DEF Spaces
<1>5. pc = "before" => Spaces(start, begin)'
    <2> SUFFICES ASSUME pc = "before" PROVE Spaces(start, begin)'
        OBVIOUS
    <2>1. Spaces(start, begin)
        BY DEF AddedSoFar
    <2>2. Spaces(start, begin')
        BY <1>2, <1>3, <2>1
    <2> QED BY <1>1, <2>2, Zenon DEF Spaces
<1>6. pc = "behind" => CommaSkipped'
    <2> SUFFICES ASSUME pc = "behind" PROVE CommaSkipped'
        OBVIOUS
    <2>1. PICK c \in start .. (begin - 1) :
            /\ Spaces(start, c) /\ mem[c] = "," /\ Spaces(c + 1, begin)
        BY DEF AddedSoFar, CommaSkipped
    <2>2. c \in start .. (begin' - 1) /\ c + 1 \in Int /\ c + 1 <= begin
        BY ONLY <1>2, c \in start .. (begin - 1)
    <2>3. Spaces(c + 1, begin')
        BY <1>3, <2>1, <2>2
    <2>4. /\ c \in start' .. (begin' - 1) /\ mem'[c] = ","
          /\ \A a \in start' .. (c - 1) : mem'[a] = " "
          /\ \A a \in (c + 1) .. (begin' - 1) : mem'[a] = " "
        BY <1>1, <2>1, <2>2, <2>3, Zenon DEF Spaces
    <2> QED BY <2>4, Zenon DEF CommaSkipped, Spaces
<1> QED BY <1>1, <1>5, <1>6, Zenon DEF AddedSoFar

LEMMA SpaceEndStays ==
    ASSUME IInv, AddedSoFar, SpaceEnd
    PROVE  AddedSoFar'
<1>1. /\ UNCHANGED <<mem, cur, begin, start, sum, got>>
      /\ Rest' = Rest /\ Behind' = Behind
      /\ \/ pc = "before" /\ pc' = "comma"
         \/ pc = "behind" /\ pc' = "value"
    BY SameRest DEF SpaceEnd
<1>2. ~ AtSpace'
    BY <1>1, Zenon DEF SpaceEnd, AtSpace
<1>3. Spaces(start, begin)' = Spaces(start, begin)
    BY <1>1, Zenon DEF Spaces
<1>4. CommaSkipped' = CommaSkipped
    BY <1>1, Zenon DEF CommaSkipped, Spaces
<1> QED BY <1>1, <1>2, <1>3, <1>4 DEF AddedSoFar

LEMMA CommaPasses ==
    ASSUME IInv, AddedSoFar, P!IsMeaning(Sources), Comma
    PROVE  AddedSoFar'
<1>1. /\ UNCHANGED <<mem, cur, start, sum, got>> /\ pc = "comma"
      /\ Rest' = Rest /\ Behind' = Behind
      /\ Spaces(start, begin) /\ ~ AtSpace
    BY SameRest DEF Comma, AddedSoFar
<1>2. start \in Int /\ begin \in Int /\ start <= begin
    BY <1>1, PointersInView
<1>3. CASE AtComma
    <2>1. begin' = begin + 1 /\ pc' = "behind" /\ mem[begin] = ","
        BY <1>3 DEF Comma, Past, AtComma
    <2>2. /\ begin \in start .. (begin' - 1)
          /\ (begin + 1) .. (begin' - 1) = {}
        <3>1. begin' = begin + 1
            BY <2>1
        <3> QED BY ONLY <1>2, <3>1
    <2>3. CommaSkipped'
        <3>1. /\ begin \in start' .. (begin' - 1) /\ mem'[begin] = ","
              /\ \A a \in start' .. (begin - 1) : mem'[a] = " "
              /\ \A a \in (begin + 1) .. (begin' - 1) : mem'[a] = " "
            BY <1>1, <2>1, <2>2, Zenon DEF Spaces
        <3> QED BY <3>1, Zenon DEF CommaSkipped, Spaces
    <2> QED BY <1>1, <2>1, <2>3 DEF AddedSoFar
<1>4. CASE ~ AtComma
    <2>1. pc' = "done"
        BY <1>4 DEF Comma
    <2>2. Behind = P!Yes(Rest, <<>>) \/ OtherSpaceBehind(mem, Rest)
        BY <1>1, <1>4, EndsWithoutComma, OtherSpaceIsBehind
    <2> QED BY <1>1, <2>1, <2>2 DEF AddedSoFar
<1> QED BY <1>3, <1>4

LEMMA StepAdds ==
    ASSUME IInv, AddedSoFar, P!IsMeaning(Sources), [Next]_vars
    PROVE  AddedSoFar'
<1>1. CASE Read
    <2>1. /\ start' = cur'.begin /\ begin' = start' /\ sum' = <<>>
          /\ pc' = "first" /\ got' = Nothing
        BY <1>1 DEF Read
    <2> QED BY <2>1 DEF AddedSoFar
<1>2. CASE FirstValue
    BY <1>2, FirstAdds
<1>3. CASE Space
    BY <1>3, SpaceSkips
<1>4. CASE SpaceEnd
    BY <1>4, SpaceEndStays
<1>5. CASE Comma
    BY <1>5, CommaPasses
<1>6. CASE NextValue
    BY <1>6, NextAdds
<1>7. CASE Return
    BY <1>7 DEF Return, AddedSoFar
<1>8. CASE UNCHANGED vars
    <2>1. /\ UNCHANGED <<mem, cur, begin, start, sum, pc, got>>
          /\ Rest' = Rest /\ Behind' = Behind
        BY <1>8, SameRest DEF vars
    <2>2. /\ Spaces(start, begin)' = Spaces(start, begin)
          /\ CommaSkipped' = CommaSkipped /\ AtSpace' = AtSpace
        BY <2>1, Zenon DEF Spaces, CommaSkipped, AtSpace
    <2> QED BY <2>1, <2>2, Zenon DEF AddedSoFar
<1> QED BY <1>1, <1>2, <1>3, <1>4, <1>5, <1>6, <1>7, <1>8 DEF Next, Work

\* A step of the loop is one of the fold's, or none, or ends early.
LEMMA NextIsFold ==
    ASSUME IInv, AddedSoFar, P!IsMeaning(Sources), [Next]_vars
    PROVE  [FoldRead!Next \/ EndsEarly]_(FoldRead!vars)
<1> DEFINE p == "add_w_baseline"
           r == IF pc = "idle" THEN <<>> ELSE <<p>>
           m == FoldMeaning(mem, p, cur)
<1>1. CASE Read
    <2>1. FoldRead!Begin(p)
        BY <1>1 DEF Read, FoldRead!Begin, Nothing, FoldRead!Nothing
    <2> QED BY <2>1 DEF FoldRead!Next
<1>2. CASE FirstValue /\ ~ FromChars.ok
    <2>1. /\ pc = "first" /\ pc' = "idle" /\ UNCHANGED <<mem, cur, got>>
          /\ got = Nothing
        BY <1>2 DEF FirstValue, AddedSoFar
    <2>2. CASE OnlyLong(mem, cur)
        BY <2>1, <2>2 DEF EndsEarly, FailsAtLong
    <2>3. CASE ~ OnlyLong(mem, cur)
        <3>1. m.ok = FALSE
            BY <1>2, <2>3, FirstAdds DEF FoldMeaning, P!No
        <3>2. FoldRead!End(p)
            BY <2>1, <3>1 DEF FoldRead!End, Nothing, FoldRead!Nothing
        <3> QED BY <3>2 DEF FoldRead!Next
    <2> QED BY <2>2, <2>3
<1>3. CASE Return
    <2>1. /\ pc = "done" /\ pc' = "idle" /\ mem' = mem
          /\ cur' = (IF StateGood(Rest) THEN Rest ELSE cur)
          /\ got' = [set |-> StateGood(Rest), val |-> sum]
        BY <1>3 DEF Return
    <2>2. /\ cur.begin < start /\ sum \in Seq(Number)
          /\ Meaning(mem, "add_w_fold", cur) = P!Before(Tokens(sum), Behind)
          /\ Behind = P!Yes(Rest, <<>>) \/ OtherSpaceBehind(mem, Rest)
        BY <2>1 DEF AddedSoFar, Number
    <2>3. StateGood(Rest)
        <3>1. PICK s \in Sources : s.view.begin <= cur.begin
            BY DEF IInv, ViewSound
        <3>2. s.view.begin \in Int /\ 0 <= s.view.begin
            BY SourcesAssumption DEF State, NullState, NULLPTR
        <3>3. start # 0
            BY <2>1, <2>2, <3>1, <3>2, PointersInView
        <3> QED BY <3>3 DEF StateGood, Rest, NULLPTR
    <2>4. /\ Tokens(sum) \in Seq(P!Token) /\ Numbers(Tokens(sum)) = sum
        BY <2>2, TokensTyped
    <2>5. cur' = Rest /\ got' = [set |-> TRUE, val |-> sum]
        BY <2>1, <2>3
    <2>6. CASE Behind = P!Yes(Rest, <<>>)
        <3>1. P!Before(Tokens(sum), P!Yes(Rest, <<>>))
                = P!Yes(Rest, Tokens(sum) \o <<>>)
            BY DEF P!Before, P!Yes
        <3>2. Tokens(sum) \o <<>> = Tokens(sum)
            BY <2>4, ConcatEmptySeq
        <3>3. Meaning(mem, "add_w_fold", cur) = P!Yes(Rest, Tokens(sum))
            BY <2>2, <2>6, <3>1, <3>2
        <3>4. m.ok = TRUE /\ m.st = Rest /\ m.val = sum
            BY <2>4, <3>3 DEF FoldMeaning, P!Yes
        <3>5. FoldRead!End(p)
            <4> HIDE DEF m
            <4> QED BY <2>1, <2>5, <3>4 DEF FoldRead!End, m
        <3> QED BY <3>5 DEF FoldRead!Next
    <2>7. CASE OtherSpaceBehind(mem, Rest)
        <3>1. Rest \in P!Rests(cur)
            BY <2>1, PointersInView
        <3>2. Meaning(mem, "add_w_fold", cur)
                = P!Before(Tokens(got'.val),
                           MeaningFrom(mem, "add_w_fold", 2, cur', {}))
            BY <2>2, <2>5 DEF Behind
        <3>3. StopsAtOtherSpace
            BY <2>5, <2>7, <3>1, <3>2 DEF StopsAtOtherSpace
        <3> QED BY <2>1, <3>3 DEF EndsEarly
    <2> QED BY <2>2, <2>6, <2>7
<1>4. CASE \/ Space \/ SpaceEnd \/ Comma \/ NextValue \/ UNCHANGED vars
           \/ FirstValue /\ FromChars.ok
    <2>1. UNCHANGED <<mem, cur, got>> /\ (pc = "idle" <=> pc' = "idle")
        BY <1>4 DEF Space, SpaceEnd, Comma, NextValue, FirstValue, Take, vars
    <2> QED BY <2>1 DEF FoldRead!vars
<1> QED BY <1>1, <1>2, <1>3, <1>4 DEF Next, Work

\* Whatever the text, the view and the ranges of int and long: what the loop has
\* added is a beginning of what add_w_fold of bench.cpp adds, and the rest of
\* that is what the fold makes of the characters behind.
THEOREM SumsSoFar ==
    ASSUME P!IsMeaning(Sources)
    PROVE  Spec => []AddedSoFar
<1>1. Init => AddedSoFar
    BY DEF Init, AddedSoFar, Number
<1>2. IInv /\ AddedSoFar /\ [Next]_vars => AddedSoFar'
    BY StepAdds
<1> QED BY <1>1, <1>2, LoopStaysInView, PTL DEF Spec

\* The hand-written loop of bench.cpp reads what add_w_fold reads, the same sum
\* and the same rest, whatever the text, the view and the ranges of int and
\* long: but it fails at a first number that only a long holds, and at
\* whitespace other than a space it stops where the fold may go on.
THEOREM LoopAddsTheFold ==
    ASSUME P!IsMeaning(Sources)
    PROVE  Spec => BaselineImplementsFold
<1>1. Init => FoldRead!Init
    BY DEF Init, FoldRead!Init, FoldRead!Nothing, Nothing
<1>2. IInv /\ AddedSoFar /\ [Next]_vars
        => [FoldRead!Next \/ EndsEarly]_(FoldRead!vars)
    BY NextIsFold
<1> QED BY <1>1, <1>2, SumsSoFar, LoopStaysInView, PTL
        DEF Spec, BaselineImplementsFold

=============================================================================
