--------------------------- MODULE ViewOpsProofs ---------------------------
(***************************************************************************)
(* Where a client's state objects can point to, for every array, every     *)
(* count and every number of objects, as long as their states do not come  *)
(* from a substr(start, count) past an end.                                *)
(***************************************************************************)
EXTENDS ViewOps, IntrinsicsProofs, SequenceTheorems

\* A state that is null, or begins in the array and ends in front of its 0.
Points(t, v) == v = NullState \/ (1 <= v.begin /\ v.end <= Len(t))

LEMMA ArrayFacts ==
    ASSUME NEW t \in Arrays
    PROVE  /\ t \in Seq(Int) /\ Len(t) \in Nat
           /\ 1 <= Len(t) /\ Len(t) < SizeValues
           /\ t[Len(t)] = 0
BY ViewOpsAssumption

\* A number less than SizeValues is itself as a size_t.
LEMMA SizeTSmall ==
    ASSUME NEW n \in Nat, n < SizeValues
    PROVE  SizeT(n) = n
<1>1. SizeValues \in Nat /\ SizeValues > 0
    BY ViewOpsAssumption
<1> QED BY <1>1 DEF SizeT

LEMMA FromArrayPoints ==
    ASSUME NEW t \in Arrays
    PROVE  FromArray(t) \in State /\ Points(t, FromArray(t))
BY ArrayFacts DEF FromArray, State, Points

LEMMA FromCStringPoints ==
    ASSUME NEW t \in Arrays
    PROVE  FromCString(t) \in State /\ Points(t, FromCString(t))
<1> DEFINE zeros == {a \in 1 .. Len(t) : t[a] = 0}
           first(a) == t[a] = 0 /\ \A b \in 1 .. (a - 1) : t[b] # 0
<1>1. Len(t) \in zeros /\ zeros \in SUBSET Int /\ \A a \in zeros : 1 <= a
    BY ArrayFacts
<1>2. First(zeros) \in zeros /\ \A b \in zeros : First(zeros) <= b
    <2> HIDE DEF zeros
    <2> QED BY <1>1, FirstIsLeast
<1>3. \E a \in 1 .. Len(t) : first(a)
    <2>1. First(zeros) \in 1 .. Len(t) /\ t[First(zeros)] = 0
        BY <1>2
    <2>2. ASSUME NEW b \in 1 .. (First(zeros) - 1) PROVE t[b] # 0
        <3>1. b \in 1 .. Len(t) /\ ~ (First(zeros) <= b)
            BY <2>1, ArrayFacts
        <3> QED BY <1>2, <3>1
    <2> QED BY <2>1, <2>2
<1>4. FromCString(t).end \in 1 .. Len(t) /\ FromCString(t).begin = 1
    BY <1>3 DEF FromCString
<1>5. FromCString(t) \in State
    BY <1>4, ArrayFacts DEF FromCString, State
<1> QED BY <1>4, <1>5, ArrayFacts DEF Points

LEMMA MovesPoint ==
    ASSUME NEW t \in Arrays, NEW v \in State, Points(t, v), StateGood(v),
           NEW n \in Nat
    PROVE  /\ SubstrFrom(v, n) \in State /\ Points(t, SubstrFrom(v, n))
           /\ RemovePrefix(v, n) \in State /\ Points(t, RemovePrefix(v, n))
           /\ RemoveSuffix(v, n) \in State /\ Points(t, RemoveSuffix(v, n))
<1>1. /\ v.begin \in Int /\ v.end \in Int
      /\ 1 <= v.begin /\ v.end <= Len(t) /\ Len(t) \in Nat
    BY ArrayFacts DEF Points, StateGood, NullState, State
<1>2. /\ SubstrFrom(v, n) = [begin |-> v.begin + n, end |-> v.end]
      /\ RemovePrefix(v, n) = [begin |-> v.begin + n, end |-> v.end]
      /\ RemoveSuffix(v, n) = [begin |-> v.begin, end |-> v.end - n]
    BY DEF SubstrFrom, RemovePrefix, RemoveSuffix, State
<1> QED BY <1>1, <1>2 DEF State, Points

LEMMA SubstrPoints ==
    ASSUME NEW t \in Arrays, NEW v \in State, Points(t, v), StateGood(v),
           NEW start \in Nat, NEW count \in Nat, ~ Wraps(v, start)
    PROVE  Substr(v, start, count) \in State
           /\ Points(t, Substr(v, start, count))
<1> DEFINE left == Size(v) - start
<1>1. /\ v.begin \in Int /\ v.end \in Int
      /\ 1 <= v.begin /\ v.end <= Len(t) /\ Len(t) \in Nat
    BY ArrayFacts DEF Points, StateGood, NullState, State
<1>2. left \in Nat /\ left < SizeValues
    BY <1>1, ArrayFacts, ViewOpsAssumption DEF Size, Wraps
<1>3. SizeT(left) = left
    <2> HIDE DEF left
    <2> QED BY <1>2, SizeTSmall
<1>4. Smaller(left, count) \in Nat /\ Smaller(left, count) <= left
    <2> HIDE DEF left
    <2> QED BY <1>2 DEF Smaller
<1>5. Substr(v, start, count)
        = [begin |-> v.begin + start,
           end |-> v.begin + start + Smaller(left, count)]
    BY <1>3 DEF Substr
<1>6. v.begin + start + Smaller(left, count) <= v.end
    <2>1. v.begin + start + left = v.end
        BY <1>1 DEF Size
    <2> HIDE DEF left
    <2> QED BY <1>1, <1>2, <1>4, <2>1
<1> QED BY <1>1, <1>4, <1>5, <1>6 DEF State, Points

\* What a wrapped substr computes is a state too, wherever it points.
LEMMA SubstrIsState ==
    ASSUME NEW v \in State, NEW start \in Nat, NEW count \in Nat
    PROVE  Substr(v, start, count) \in State
<1> DEFINE max == SizeT(Size(v) - start)
<1>1. v.begin \in Int /\ v.end \in Int
    BY DEF State
<1>2. max \in Int
    <2>1. SizeValues \in Nat /\ SizeValues > 0 /\ Size(v) - start \in Int
        BY <1>1, ViewOpsAssumption DEF Size
    <2> QED BY <2>1 DEF SizeT
<1>3. Smaller(max, count) \in Int
    <2> HIDE DEF max
    <2> QED BY <1>2 DEF Smaller
<1>4. Substr(v, start, count)
        = [begin |-> v.begin + start,
           end |-> v.begin + start + Smaller(max, count)]
    BY DEF Substr
<1> HIDE DEF max
<1> QED BY <1>1, <1>3, <1>4 DEF State

LEMMA MovesAreStates ==
    ASSUME NEW v \in State, NEW n \in Nat
    PROVE  /\ SubstrFrom(v, n) \in State
           /\ RemovePrefix(v, n) \in State
           /\ RemoveSuffix(v, n) \in State
BY DEF SubstrFrom, RemovePrefix, RemoveSuffix, State

\* An object that gets a state keeps the invariant, if the state points into
\* the array or the object counts as wrapped from now on.
LEMMA BecomesHolds ==
    ASSUME IInv, NEW o \in Object, NEW v \in State, NEW wraps \in BOOLEAN,
           ~ wraps => Points(mem, v), Becomes(o, v, wraps)
    PROVE  IInv'
<1>1. /\ mem' = mem /\ view' = [view EXCEPT ![o] = v]
      /\ wrapped' = IF wraps THEN wrapped \union {o} ELSE wrapped \ {o}
    BY DEF Becomes
<1>2. TypeOK'
    BY <1>1 DEF IInv, TypeOK
<1>3. \A p \in Object : view'[p] = IF p = o THEN v ELSE view[p]
    BY <1>1 DEF IInv, TypeOK
<1>4. ASSUME NEW p \in Object, p \notin wrapped'
      PROVE  Points(mem, view'[p])
    <2>1. CASE p = o
        BY <1>1, <1>3, <1>4, <2>1
    <2>2. CASE p # o
        <3>1. p \in Sound
            BY <1>1, <1>4, <2>2 DEF Sound
        <3> QED BY <1>3, <2>2, <3>1 DEF IInv, PointsInArray, Points
    <2> QED BY <2>1, <2>2
<1>5. PointsInArray'
    BY <1>1, <1>4 DEF PointsInArray, Points, Sound
<1> QED BY <1>2, <1>5 DEF IInv

LEMMA InitHolds == Init => IInv
<1> SUFFICES ASSUME Init PROVE IInv
    OBVIOUS
<1>1. NullState \in State
    BY DEF NullState, State, NULLPTR
<1> QED BY <1>1 DEF Init, IInv, TypeOK, PointsInArray, Sound

LEMMA NextHolds == IInv /\ [Next]_vars => IInv'
<1> SUFFICES ASSUME IInv, [Next]_vars PROVE IInv'
    OBVIOUS
<1>0. /\ mem \in Arrays /\ wrapped \subseteq Object
      /\ \A o \in Object : view[o] \in State
      /\ \A o \in Object : o \notin wrapped => Points(mem, view[o])
    BY DEF IInv, TypeOK, PointsInArray, Points, Sound
<1>1. CASE UNCHANGED vars
    BY <1>1 DEF vars, IInv, TypeOK, PointsInArray, Sound
<1>2. ASSUME NEW o \in Object, NEW p \in Object,
             NEW n \in 0 .. MaxCount, NEW m \in 0 .. MaxCount
      PROVE  /\ Construct(o) => IInv'
             /\ CutFrom(o, p, n) => IInv'
             /\ Cut(o, p, n, m) => IInv'
             /\ DropPrefix(o, n) => IInv'
             /\ DropSuffix(o, n) => IInv'
             /\ Clear(o) => IInv'
             /\ Swap(o, p) => IInv'
    <2>0. n \in Nat /\ m \in Nat
        BY ViewOpsAssumption
    <2>1. Construct(o) => IInv'
        BY <1>0, FromArrayPoints, FromCStringPoints, BecomesHolds DEF Construct
    <2>2. CutFrom(o, p, n) => IInv'
        <3> SUFFICES ASSUME CutFrom(o, p, n) PROVE IInv'
            OBVIOUS
        <3> DEFINE v == SubstrFrom(view[p], n)
                   wraps == p \in wrapped
        <3>1. Becomes(o, v, wraps) /\ StateGood(view[p])
            BY DEF CutFrom
        <3>2. v \in State /\ (~ wraps => Points(mem, v)) /\ wraps \in BOOLEAN
            BY <1>0, <2>0, <3>1, MovesPoint, MovesAreStates
        <3> HIDE DEF v, wraps
        <3> QED BY <3>1, <3>2, BecomesHolds
    <2>3. Cut(o, p, n, m) => IInv'
        <3> SUFFICES ASSUME Cut(o, p, n, m) PROVE IInv'
            OBVIOUS
        <3> DEFINE v == Substr(view[p], n, m)
                   wraps == p \in wrapped \/ Wraps(view[p], n)
        <3>1. Becomes(o, v, wraps) /\ StateGood(view[p])
            BY DEF Cut
        <3>2. v \in State
            BY <1>0, <2>0, SubstrIsState
        <3>3. ~ wraps => Points(mem, v)
            BY <1>0, <2>0, <3>1, SubstrPoints
        <3>4. wraps \in BOOLEAN
            OBVIOUS
        <3> HIDE DEF v, wraps
        <3> QED BY <3>1, <3>2, <3>3, <3>4, BecomesHolds
    <2>4. DropPrefix(o, n) => IInv'
        <3> SUFFICES ASSUME DropPrefix(o, n) PROVE IInv'
            OBVIOUS
        <3> DEFINE v == RemovePrefix(view[o], n)
                   wraps == o \in wrapped
        <3>1. Becomes(o, v, wraps) /\ StateGood(view[o])
            BY DEF DropPrefix
        <3>2. v \in State /\ (~ wraps => Points(mem, v)) /\ wraps \in BOOLEAN
            BY <1>0, <2>0, <3>1, MovesPoint, MovesAreStates
        <3> HIDE DEF v, wraps
        <3> QED BY <3>1, <3>2, BecomesHolds
    <2>5. DropSuffix(o, n) => IInv'
        <3> SUFFICES ASSUME DropSuffix(o, n) PROVE IInv'
            OBVIOUS
        <3> DEFINE v == RemoveSuffix(view[o], n)
                   wraps == o \in wrapped
        <3>1. Becomes(o, v, wraps) /\ StateGood(view[o])
            BY DEF DropSuffix
        <3>2. v \in State /\ (~ wraps => Points(mem, v)) /\ wraps \in BOOLEAN
            BY <1>0, <2>0, <3>1, MovesPoint, MovesAreStates
        <3> HIDE DEF v, wraps
        <3> QED BY <3>1, <3>2, BecomesHolds
    <2>6. Clear(o) => IInv'
        <3>1. NullState \in State /\ Points(mem, NullState)
            BY DEF NullState, State, NULLPTR, Points
        <3> QED BY <3>1, BecomesHolds DEF Clear
    <2>7. Swap(o, p) => IInv'
        <3> SUFFICES ASSUME Swap(o, p) PROVE IInv'
            OBVIOUS
        <3>1. /\ mem' = mem
              /\ view' = [q \in Object |-> view[Exchanged(o, p, q)]]
              /\ wrapped' = {q \in Object : Exchanged(o, p, q) \in wrapped}
            BY DEF Swap
        <3>2. \A q \in Object : Exchanged(o, p, q) \in Object
            BY DEF Exchanged
        <3>3. TypeOK'
            BY <1>0, <3>1, <3>2 DEF TypeOK
        <3>4. \A q \in Object : q \notin wrapped' => Points(mem, view'[q])
            BY <1>0, <3>1, <3>2
        <3>5. PointsInArray'
            BY <3>1, <3>4 DEF PointsInArray, Points, Sound
        <3> QED BY <3>3, <3>5 DEF IInv
    <2> QED BY <2>1, <2>2, <2>3, <2>4, <2>5, <2>6, <2>7
<1>3. ASSUME NEW o \in Object, Construct(o) \/ Clear(o)
      PROVE  IInv'
    <2>1. 0 \in 0 .. MaxCount
        BY ViewOpsAssumption
    <2> QED BY <1>2, <1>3, <2>1
<1>4. ASSUME NEW o \in Object, NEW p \in Object, Swap(o, p)
      PROVE  IInv'
    <2>1. 0 \in 0 .. MaxCount
        BY ViewOpsAssumption
    <2> QED BY <1>2, <1>4, <2>1
<1>5. ASSUME NEW o \in Object, NEW n \in 0 .. MaxCount,
             DropPrefix(o, n) \/ DropSuffix(o, n)
      PROVE  IInv'
    BY <1>2, <1>5
<1>6. ASSUME NEW o \in Object, NEW p \in Object, NEW n \in 0 .. MaxCount,
             CutFrom(o, p, n) \/ \E m \in 0 .. MaxCount : Cut(o, p, n, m)
      PROVE  IInv'
    BY <1>2, <1>6
<1> QED BY <1>1, <1>3, <1>4, <1>5, <1>6 DEF Next

\* For every array and every sequence of operations: no state object begins in
\* front of the array or ends behind its last character, unless its state comes
\* from a substr(start, count) past the end of another.
THEOREM StatesPointInArray == Spec => []IInv
BY InitHolds, NextHolds, PTL DEF Spec

\* A positive size() can be trusted however far the state was moved, by every
\* operation but a substr(start, count) that starts past an end.
THEOREM PositiveSizesAreInside == Spec => []PositiveSizeIsInside
<1>1. IInv => PositiveSizeIsInside
    <2> SUFFICES ASSUME IInv, NEW o \in Sound, Size(view[o]) > 0
                 PROVE  1 <= view[o].begin /\ view[o].end <= Len(mem)
        BY DEF PositiveSizeIsInside
    <2>1. view[o] # NullState
        <3>1. Size(NullState) = 0
            BY DEF NullState, Size, NULLPTR
        <3> QED BY <3>1
    <2> QED BY <2>1 DEF IInv, PointsInArray
<1> QED BY <1>1, StatesPointInArray, PTL

----------------------------------------------------------------------------
(***************************************************************************)
(* The texts the states refer to, and how they compare.                    *)
(***************************************************************************)

\* A state's text has as many characters as the state, none if it overshot.
LEMMA TextFacts ==
    ASSUME IInv, NEW o \in Sound
    PROVE  /\ view[o].begin \in Int /\ view[o].end \in Int
           /\ Size(view[o]) \in Int /\ Len(mem) \in Nat
           /\ Text(view[o]) \in Seq(Int)
           /\ Len(Text(view[o])) = Larger(Size(view[o]), 0)
           /\ \A k \in 1 .. Larger(Size(view[o]), 0) :
                Text(view[o])[k] = mem[view[o].begin + k - 1]
<1> DEFINE v == view[o]
<1>1. v \in State /\ mem \in Seq(Int) /\ Len(mem) \in Nat
    BY ArrayFacts DEF IInv, TypeOK, Sound
<1>2. v.begin \in Int /\ v.end \in Int /\ Size(v) = v.end - v.begin
    BY <1>1 DEF State, Size
<1>3. \A k \in v.begin .. (v.end - 1) : mem[k] \in Int
    <2> SUFFICES ASSUME NEW k \in v.begin .. (v.end - 1)
                 PROVE  mem[k] \in Int
        OBVIOUS
    <2>1. v # NullState
        BY <1>2 DEF NullState, NULLPTR
    <2>2. 1 <= v.begin /\ v.end <= Len(mem)
        BY <2>1 DEF IInv, PointsInArray
    <2>3. k \in 1 .. Len(mem)
        <3> HIDE DEF v
        <3> QED BY <1>1, <1>2, <2>2
    <2> QED BY <1>1, <2>3
<1>4. /\ Text(v) \in Seq(Int)
      /\ Len(Text(v)) = IF v.begin <= v.end - 1 THEN v.end - 1 - v.begin + 1 ELSE 0
      /\ \A k \in 1 .. (v.end - 1 - v.begin + 1) : Text(v)[k] = mem[v.begin + k - 1]
    <2> HIDE DEF v
    <2> QED BY <1>2, <1>3, SubSeqProperties DEF Text
<1>5. Larger(Size(v), 0) = IF v.begin <= v.end - 1
                           THEN v.end - 1 - v.begin + 1 ELSE 0
    <2> HIDE DEF v
    <2> QED BY <1>2 DEF Larger
<1>6. \A k \in 1 .. Larger(Size(v), 0) : k \in 1 .. (v.end - 1 - v.begin + 1)
    <2> HIDE DEF v
    <2> QED BY <1>2, <1>5
<1> HIDE DEF v
<1>7. /\ Len(Text(v)) = Larger(Size(v), 0)
      /\ \A k \in 1 .. Larger(Size(v), 0) : Text(v)[k] = mem[v.begin + k - 1]
    BY <1>4, <1>5, <1>6
<1> QED BY <1>1, <1>2, <1>4, <1>7 DEF v

\* Of two texts of which none has a difference in the other, the shorter one
\* comes first.
LEMMA PrecedesByLength ==
    ASSUME NEW x \in Seq(Int), NEW y \in Seq(Int),
           \A j \in 1 .. Smaller(Len(x), Len(y)) : x[j] = y[j]
    PROVE  Precedes(x, y) <=> Len(x) < Len(y)
<1>1. Len(x) \in Nat /\ Len(y) \in Nat
    OBVIOUS
<1>2. ASSUME Len(x) < Len(y) PROVE Precedes(x, y)
    <2>1. Smaller(Len(x), Len(y)) = Len(x)
        BY <1>2 DEF Smaller
    <2>2. Len(x) \in 0 .. Len(x) /\ Len(x) <= Len(y)
        BY <1>1, <1>2
    <2> QED BY <1>2, <2>1, <2>2 DEF Precedes
<1>3. ASSUME Precedes(x, y) PROVE Len(x) < Len(y)
    <2>1. PICK k \in 0 .. Len(x) :
            /\ k <= Len(y)
            /\ \/ k = Len(x) /\ k < Len(y)
               \/ k < Len(x) /\ k < Len(y) /\ x[k + 1] < y[k + 1]
        BY <1>3 DEF Precedes
    <2>2. CASE k < Len(x) /\ k < Len(y) /\ x[k + 1] < y[k + 1]
        <3>1. k + 1 \in 1 .. Smaller(Len(x), Len(y))
            BY <1>1, <2>2 DEF Smaller
        <3>2. x[k + 1] = y[k + 1] /\ x[k + 1] \in Int
            BY <1>1, <2>2, <3>1
        <3> QED BY <2>2, <3>2
    <2> QED BY <2>1, <2>2
<1> QED BY <1>2, <1>3

\* Of two texts that differ, the first difference decides.
LEMMA PrecedesByDifference ==
    ASSUME NEW x \in Seq(Int), NEW y \in Seq(Int), NEW f \in Nat,
           f < Len(x), f < Len(y), x[f + 1] # y[f + 1],
           \A j \in 1 .. f : x[j] = y[j]
    PROVE  Precedes(x, y) <=> x[f + 1] < y[f + 1]
<1>1. Len(x) \in Nat /\ Len(y) \in Nat
    OBVIOUS
<1>2. ASSUME x[f + 1] < y[f + 1] PROVE Precedes(x, y)
    <2>1. f \in 0 .. Len(x) /\ f <= Len(y)
        BY <1>1
    <2> QED BY <1>2, <2>1 DEF Precedes
<1>3. ASSUME Precedes(x, y) PROVE x[f + 1] < y[f + 1]
    <2>1. PICK k \in 0 .. Len(x) :
            /\ k <= Len(y) /\ \A j \in 1 .. k : x[j] = y[j]
            /\ \/ k = Len(x) /\ k < Len(y)
               \/ k < Len(x) /\ k < Len(y) /\ x[k + 1] < y[k + 1]
        BY <1>3 DEF Precedes
    <2>2. ~ (f < k)
        <3> SUFFICES ASSUME f < k PROVE FALSE
            OBVIOUS
        <3>1. f + 1 \in 1 .. k
            BY <2>1
        <3> QED BY <2>1, <3>1
    <2>3. ~ (k < f)
        <3> SUFFICES ASSUME k < f PROVE FALSE
            OBVIOUS
        <3>1. k + 1 \in 1 .. f /\ k # Len(x)
            BY <1>1, <2>1
        <3>2. x[k + 1] = y[k + 1] /\ x[k + 1] < y[k + 1]
            BY <2>1, <3>1
        <3>3. x[k + 1] \in Int
            BY <1>1, <3>1
        <3> QED BY <3>2, <3>3
    <2>4. k = f
        BY <2>1, <2>2, <2>3
    <2> QED BY <2>1, <2>4
<1> QED BY <1>2, <1>3

\* What operator<=> computes, in terms of the texts: either they do not differ
\* where both have characters, or k is where they first do.
LEMMA CompareCases ==
    ASSUME IInv, NEW o \in Sound, NEW p \in Sound
    PROVE  LET v == view[o]
               w == view[p]
               x == Text(v)
               y == Text(w)
           IN  \/ /\ Differences(mem, v, w, Smaller(Len(x), Len(y))) = {}
                  /\ \A j \in 1 .. Smaller(Len(x), Len(y)) : x[j] = y[j]
                  /\ Compare(mem, v, w) = Sign(Len(x), Len(y))
               \/ /\ Differences(mem, v, w, Smaller(Len(x), Len(y))) # {}
                  /\ \E k \in Nat :
                        /\ k < Len(x) /\ k < Len(y) /\ x[k + 1] # y[k + 1]
                        /\ \A j \in 1 .. k : x[j] = y[j]
                        /\ Compare(mem, v, w) = Sign(x[k + 1], y[k + 1])
<1> DEFINE v == view[o]
           w == view[p]
           x == Text(v)
           y == Text(w)
           s1 == Larger(Size(v), 0)
           s2 == Larger(Size(w), 0)
           n == Smaller(s1, s2)
           d == Differences(mem, v, w, n)
<1>1. /\ v.begin \in Int /\ w.begin \in Int
      /\ x \in Seq(Int) /\ y \in Seq(Int)
      /\ Len(x) = s1 /\ Len(y) = s2
      /\ \A k \in 1 .. s1 : x[k] = mem[v.begin + k - 1]
      /\ \A k \in 1 .. s2 : y[k] = mem[w.begin + k - 1]
    BY TextFacts
<1>2. s1 \in Nat /\ s2 \in Nat /\ n \in Nat /\ n <= s1 /\ n <= s2
    <2>1. Size(v) \in Int /\ Size(w) \in Int
        BY TextFacts
    <2>2. s1 \in Nat /\ s2 \in Nat
        <3> HIDE DEF v, w
        <3> QED BY <2>1 DEF Larger
    <2> HIDE DEF s1, s2
    <2> QED BY <2>2 DEF Smaller
<1> HIDE DEF s1, s2, x, y, v, w
<1>3. \A k \in 0 .. (n - 1) :
        /\ k + 1 \in 1 .. n
        /\ x[k + 1] = mem[v.begin + k] /\ y[k + 1] = mem[w.begin + k]
    <2> HIDE DEF n
    <2> SUFFICES ASSUME NEW k \in 0 .. (n - 1)
                 PROVE  /\ k + 1 \in 1 .. n
                        /\ x[k + 1] = mem[v.begin + k]
                        /\ y[k + 1] = mem[w.begin + k]
        OBVIOUS
    <2>1. k + 1 \in 1 .. n /\ k + 1 \in 1 .. s1 /\ k + 1 \in 1 .. s2
        BY <1>2
    <2>2. v.begin + (k + 1) - 1 = v.begin + k /\ w.begin + (k + 1) - 1 = w.begin + k
        <3>1. k \in Int /\ v.begin \in Int /\ w.begin \in Int
            BY <1>1, <1>2
        <3> QED BY ONLY <3>1
    <2> QED BY <1>1, <2>1, <2>2
<1>4. d = {k \in 0 .. (n - 1) : x[k + 1] # y[k + 1]}
    <2> HIDE DEF n
    <2> QED BY <1>3 DEF Differences
<1>5. CASE d = {}
    <2>1. Compare(mem, v, w) = Sign(s1, s2)
        BY <1>5 DEF Compare, s1, s2
    <2>2. \A j \in 1 .. n : x[j] = y[j]
        <3> HIDE DEF n, d
        <3> SUFFICES ASSUME NEW j \in 1 .. n PROVE x[j] = y[j]
            OBVIOUS
        <3>1. j - 1 \in 0 .. (n - 1) /\ (j - 1) + 1 = j
            BY <1>2
        <3> QED BY <1>4, <1>5, <3>1
    <2> QED BY <1>1, <1>5, <2>1, <2>2 DEF x, y, v, w
<1>6. CASE d # {}
    <2>1. First(d) \in d /\ \A j \in d : First(d) <= j
        <3>1. d \in SUBSET Int /\ \A j \in d : 0 <= j
            <4> HIDE DEF n
            <4> QED BY <1>2, <1>4
        <3>2. 0 \in Int /\ d # {}
            BY <1>6
        <3> HIDE DEF d
        <3> QED BY ONLY <3>1, <3>2, FirstIsLeast
    <2> DEFINE k == First(d)
    <2>2. k \in 0 .. (n - 1) /\ x[k + 1] # y[k + 1]
        <3> HIDE DEF d, n
        <3> QED BY <1>4, <2>1
    <2>3. Compare(mem, v, w) = Sign(x[k + 1], y[k + 1])
        <3>1. Compare(mem, v, w) = Sign(mem[v.begin + k], mem[w.begin + k])
            BY <1>6 DEF Compare, First, s1, s2
        <3>2. x[k + 1] = mem[v.begin + k] /\ y[k + 1] = mem[w.begin + k]
            <4> HIDE DEF k, n
            <4> QED BY <1>3, <2>2
        <3> QED BY <3>1, <3>2
    <2>4. \A j \in 1 .. k : x[j] = y[j]
        <3> SUFFICES ASSUME NEW j \in 1 .. k PROVE x[j] = y[j]
            OBVIOUS
        <3> HIDE DEF k, d, n
        <3>1. j - 1 \in 0 .. (n - 1) /\ (j - 1) + 1 = j /\ ~ (k <= j - 1)
            BY <1>2, <2>2
        <3>2. j - 1 \notin d
            BY <2>1, <3>1 DEF k
        <3> QED BY <1>4, <3>1, <3>2
    <2>5. k \in Nat /\ k < Len(x) /\ k < Len(y)
        <3> HIDE DEF k, n
        <3> QED BY <1>1, <1>2, <2>2
    <2> HIDE DEF k, d
    <2>6. \E j \in Nat :
            /\ j < Len(x) /\ j < Len(y) /\ x[j + 1] # y[j + 1]
            /\ \A h \in 1 .. j : x[h] = y[h]
            /\ Compare(mem, v, w) = Sign(x[j + 1], y[j + 1])
        BY <2>2, <2>3, <2>4, <2>5
    <2> QED BY <1>1, <1>6, <2>6 DEF x, y, v, w, d, n
<1> QED BY <1>5, <1>6

----------------------------------------------------------------------------
\* For the states of any array: == and <=> tell the same ones equal, although
\* each compares the characters in a loop of its own, except that states that
\* have overshot by different distances are only equivalent.
THEOREM EqualAndCompareAgree == Spec => []EqualIffEquivalent
<1>1. IInv => EqualIffEquivalent
    <2> SUFFICES ASSUME IInv, NEW o \in Sound, NEW p \in Sound
                 PROVE  Equal(mem, view[o], view[p])
                            <=> /\ Compare(mem, view[o], view[p]) = "equivalent"
                                /\ Size(view[o]) < 0 \/ Size(view[p]) < 0 =>
                                        Size(view[o]) = Size(view[p])
        BY DEF EqualIffEquivalent
    <2> DEFINE v == view[o]
               w == view[p]
               x == Text(v)
               y == Text(w)
               d == Differences(mem, v, w, Smaller(Len(x), Len(y)))
               same == Size(v) < 0 \/ Size(w) < 0 => Size(v) = Size(w)
    <2>1. /\ Size(v) \in Int /\ Size(w) \in Int
          /\ Len(x) = Larger(Size(v), 0) /\ Len(y) = Larger(Size(w), 0)
        BY TextFacts
    <2>2. Len(x) \in Nat /\ Len(y) \in Nat
        <3> HIDE DEF v, w, x, y
        <3> QED BY <2>1 DEF Larger
    <2>3. Len(x) = Len(y) /\ same <=> Size(v) = Size(w)
        <3> HIDE DEF v, w, x, y
        <3> QED BY <2>1 DEF Larger
    <2>4. Size(v) = Size(w) => Differences(mem, v, w, Size(v)) = d
        <3> SUFFICES ASSUME Size(v) = Size(w)
                     PROVE  Differences(mem, v, w, Size(v)) = d
            OBVIOUS
        <3>1. CASE Size(v) >= 0
            <4>1. Smaller(Len(x), Len(y)) = Size(v)
                <5> HIDE DEF v, w, x, y
                <5> QED BY <2>1, <3>1 DEF Smaller, Larger
            <4> QED BY <4>1
        <3>2. CASE Size(v) < 0
            <4>1. Smaller(Len(x), Len(y)) = 0
                <5> HIDE DEF v, w, x, y
                <5> QED BY <2>1, <3>2 DEF Smaller, Larger
            <4>2. 0 .. (Size(v) - 1) = {} /\ 0 .. (0 - 1) = {}
                <5> HIDE DEF v
                <5> QED BY <2>1, <3>2
            <4>3. Differences(mem, v, w, Size(v)) = {}
                  /\ Differences(mem, v, w, 0) = {}
                <5> HIDE DEF v, w
                <5> QED BY <4>2 DEF Differences
            <4> QED BY <4>1, <4>3
        <3> HIDE DEF v, d
        <3> QED BY <2>1, <3>1, <3>2
    <2>5. Equal(mem, v, w) <=> Size(v) = Size(w) /\ d = {}
        <3> HIDE DEF v, w, x, y, d
        <3> QED BY <2>4 DEF Equal
    <2>6. CASE d = {} /\ Compare(mem, v, w) = Sign(Len(x), Len(y))
        <3> HIDE DEF v, w, x, y, d, same
        <3>1. Compare(mem, v, w) = "equivalent" <=> Len(x) = Len(y)
            BY <2>2, <2>6 DEF Sign
        <3>2. Equal(mem, v, w) <=> Compare(mem, v, w) = "equivalent" /\ same
            BY <2>3, <2>5, <2>6, <3>1
        <3> QED BY <3>2 DEF v, w, same
    <2>7. CASE /\ d # {}
               /\ \E k \in Nat : /\ x[k + 1] # y[k + 1]
                                 /\ Compare(mem, v, w) = Sign(x[k + 1], y[k + 1])
        <3> HIDE DEF v, w, x, y, d
        <3>0. PICK k \in Nat : /\ x[k + 1] # y[k + 1]
                              /\ Compare(mem, v, w) = Sign(x[k + 1], y[k + 1])
            BY <2>7
        <3>1. Compare(mem, v, w) # "equivalent"
            BY ONLY <3>0 DEF Sign
        <3> QED BY <2>5, <2>7, <3>1 DEF v, w
    <2> QED BY <2>6, <2>7, CompareCases
<1> QED BY <1>1, StatesPointInArray, PTL

\* For all states that a client's operations can produce without a substr past
\* an end, <=> is the lexical order of their texts, where a state that has
\* overshot has none.
THEOREM CompareIsTheLexicalOrder == Spec => []CompareIsLexical
<1>1. IInv => CompareIsLexical
    <2> SUFFICES ASSUME IInv, NEW o \in Sound, NEW p \in Sound
                 PROVE  /\ Compare(mem, view[o], view[p]) = "less"
                                <=> Precedes(Text(view[o]), Text(view[p]))
                        /\ Compare(mem, view[o], view[p]) = "greater"
                                <=> Precedes(Text(view[p]), Text(view[o]))
        BY DEF CompareIsLexical
    <2> DEFINE x == Text(view[o])
               y == Text(view[p])
               c == Compare(mem, view[o], view[p])
    <2>1. x \in Seq(Int) /\ y \in Seq(Int) /\ Len(x) \in Nat /\ Len(y) \in Nat
        BY TextFacts
    <2>2. CASE /\ \A j \in 1 .. Smaller(Len(x), Len(y)) : x[j] = y[j]
               /\ c = Sign(Len(x), Len(y))
        <3> HIDE DEF x, y, c
        <3>1. Precedes(x, y) <=> Len(x) < Len(y)
            BY <2>1, <2>2, PrecedesByLength
        <3>2. \A j \in 1 .. Smaller(Len(y), Len(x)) : y[j] = x[j]
            BY <2>1, <2>2 DEF Smaller
        <3>3. Precedes(y, x) <=> Len(y) < Len(x)
            BY <2>1, <3>2, PrecedesByLength
        <3>4. /\ c = "less" <=> Len(x) < Len(y)
              /\ c = "greater" <=> Len(y) < Len(x)
            BY <2>1, <2>2 DEF Sign
        <3> QED BY <3>1, <3>3, <3>4 DEF x, y, c
    <2>3. CASE \E k \in Nat :
                /\ k < Len(x) /\ k < Len(y) /\ x[k + 1] # y[k + 1]
                /\ \A j \in 1 .. k : x[j] = y[j]
                /\ c = Sign(x[k + 1], y[k + 1])
        <3> HIDE DEF x, y, c
        <3>1. PICK k \in Nat :
                /\ k < Len(x) /\ k < Len(y) /\ x[k + 1] # y[k + 1]
                /\ \A j \in 1 .. k : x[j] = y[j]
                /\ c = Sign(x[k + 1], y[k + 1])
            BY <2>3
        <3>2. Precedes(x, y) <=> x[k + 1] < y[k + 1]
            BY <2>1, <3>1, PrecedesByDifference
        <3>3. Precedes(y, x) <=> y[k + 1] < x[k + 1]
            BY <2>1, <3>1, PrecedesByDifference
        <3>4. x[k + 1] \in Int /\ y[k + 1] \in Int
            <4>1. k + 1 \in 1 .. Len(x) /\ k + 1 \in 1 .. Len(y)
                BY <2>1, <3>1
            <4> QED BY <2>1, <4>1
        <3>5. /\ c = "less" <=> x[k + 1] < y[k + 1]
              /\ c = "greater" <=> y[k + 1] < x[k + 1]
            BY <3>1, <3>4 DEF Sign
        <3> QED BY <3>2, <3>3, <3>5 DEF x, y, c
    <2> QED BY <2>2, <2>3, CompareCases
<1> QED BY <1>1, StatesPointInArray, PTL

\* A slice of a slice, of whatever array.
LEMMA SliceOfSlice ==
    ASSUME NEW s, NEW b \in Int, NEW e \in Int, NEW n \in Nat, NEW len \in Nat,
           n + len <= e - b, \A a \in b .. (e - 1) : s[a] \in Int
    PROVE  SubSeq(s, b + n, b + n + len - 1)
                = SubSeq(SubSeq(s, b, e - 1), n + 1, n + len)
<1> DEFINE from == b + n
           to == b + n + len - 1
           x == SubSeq(s, b, e - 1)
           left == SubSeq(s, from, to)
           right == SubSeq(x, n + 1, n + len)
<1>1. \A k \in 1 .. len : n + k \in 1 .. (e - b) /\ b + (n + k) - 1 = from + k - 1
    OBVIOUS
<1>2. \A k \in 1 .. (e - b) : x[k] = s[b + k - 1] /\ x[k] \in Int
    <2>1. \A k \in 1 .. (e - 1 - b + 1) : x[k] = s[b + k - 1]
        BY SubSeqProperties
    <2>2. \A k \in 1 .. (e - b) : k \in 1 .. (e - 1 - b + 1) /\ b + k - 1 \in b .. (e - 1)
        OBVIOUS
    <2> HIDE DEF x
    <2> QED BY <2>1, <2>2
<1>3. /\ left \in Seq(Int) /\ Len(left) = len
      /\ \A k \in 1 .. len : left[k] = s[from + k - 1]
    <2>1. /\ from \in Int /\ to \in Int
          /\ len = IF from <= to THEN to - from + 1 ELSE 0
          /\ \A k \in 1 .. len : k \in 1 .. (to - from + 1)
          /\ \A a \in from .. to : a \in b .. (e - 1)
        OBVIOUS
    <2>2. \A a \in from .. to : s[a] \in Int
        BY <2>1
    <2> HIDE DEF from, to
    <2> QED BY <2>1, <2>2, SubSeqProperties
<1>4. /\ right \in Seq(Int) /\ Len(right) = len
      /\ \A k \in 1 .. len : right[k] = x[n + k]
    <2> HIDE DEF x
    <2> DEFINE lo == n + 1
               hi == n + len
    <2>1. /\ lo \in Int /\ hi \in Int
          /\ len = IF lo <= hi THEN hi - lo + 1 ELSE 0
          /\ \A k \in 1 .. len : k \in 1 .. (hi - lo + 1) /\ lo + k - 1 = n + k
          /\ \A a \in lo .. hi : a \in 1 .. (e - b)
        OBVIOUS
    <2>2. \A a \in lo .. hi : x[a] \in Int
        BY <1>2, <2>1
    <2>3. right = SubSeq(x, lo, hi)
        OBVIOUS
    <2> HIDE DEF lo, hi, right
    <2>4. /\ right \in Seq(Int)
          /\ Len(right) = IF lo <= hi THEN hi - lo + 1 ELSE 0
          /\ \A k \in 1 .. (hi - lo + 1) : right[k] = x[lo + k - 1]
        BY <2>1, <2>2, <2>3, SubSeqProperties
    <2>5. \A k \in 1 .. len : right[k] = x[n + k]
        <3> SUFFICES ASSUME NEW k \in 1 .. len PROVE right[k] = x[n + k]
            OBVIOUS
        <3>1. k \in 1 .. (hi - lo + 1) /\ lo + k - 1 = n + k
            BY <2>1
        <3> QED BY <2>4, <3>1
    <2> QED BY <2>1, <2>4, <2>5
<1> HIDE DEF left, right, x, from
<1>5. \A k \in 1 .. len : left[k] = right[k]
    BY <1>1, <1>2, <1>3, <1>4
<1>6. left = right
    BY <1>3, <1>4, <1>5, SeqEqual
<1> QED BY <1>6 DEF left, right, x, from

\* substr never hands out a character that is not in the state it was called
\* for, for every start inside it and every count.
THEOREM SubstrIsTheSlice == Spec => []SubstrIsSlice
<1>1. IInv => SubstrIsSlice
    <2> SUFFICES ASSUME IInv, NEW o \in Sound,
                        NEW n \in 0 .. MaxCount, NEW m \in 0 .. MaxCount,
                        StateGood(view[o]), ~ Wraps(view[o], n)
                 PROVE  Text(Substr(view[o], n, m))
                    = SubSeq(Text(view[o]), n + 1, Smaller(n + m, Size(view[o])))
        BY DEF SubstrIsSlice
    <2> DEFINE v == view[o]
               b == v.begin
               e == v.end
               len == Smaller(Size(v) - n, m)
    <2>0. n \in Nat /\ m \in Nat
        BY ViewOpsAssumption
    <2>1. b \in Int /\ e \in Int /\ Size(v) = e - b
        BY TextFacts DEF Size
    <2>2. /\ 1 <= b /\ e <= Len(mem)
          /\ mem \in Seq(Int) /\ Len(mem) \in Nat /\ Len(mem) < SizeValues
          /\ SizeValues \in Nat
        <3>1. v # NullState
            BY DEF StateGood, NullState
        <3>2. 1 <= b /\ e <= Len(mem)
            BY <3>1 DEF IInv, PointsInArray
        <3> QED BY <3>2, ArrayFacts, ViewOpsAssumption DEF IInv, TypeOK
    <2>3. n <= e - b
        BY <2>0, <2>1 DEF Wraps
    <2>4. Size(v) - n \in Nat /\ Size(v) - n < SizeValues
        <3> HIDE DEF b, e
        <3>1. (e - b) - n \in Nat /\ (e - b) - n < SizeValues
            BY <2>0, <2>1, <2>2, <2>3
        <3> QED BY <2>1, <3>1
    <2>5. Substr(v, n, m) = [begin |-> b + n, end |-> b + n + len]
        <3>1. SizeT(Size(v) - n) = Size(v) - n
            <4> HIDE DEF v
            <4> QED BY <2>4, SizeTSmall
        <3> QED BY <3>1 DEF Substr
    <2>6. /\ len \in Nat /\ n + len <= e - b
          /\ Smaller(n + m, Size(v)) = n + len
        <3> HIDE DEF b, e, v
        <3>1. len = IF (e - b) - n < m THEN (e - b) - n ELSE m
            BY <2>1 DEF Smaller
        <3>2. Smaller(n + m, Size(v)) = IF n + m < e - b THEN n + m ELSE e - b
            BY <2>1 DEF Smaller
        <3> HIDE DEF len
        <3> QED BY <2>0, <2>1, <2>3, <3>1, <3>2
    <2>7. \A a \in b .. (e - 1) : mem[a] \in Int
        <3> HIDE DEF b, e
        <3>1. \A a \in b .. (e - 1) : a \in 1 .. Len(mem)
            BY <2>1, <2>2
        <3> QED BY <2>2, <3>1
    <2>8. Text(Substr(v, n, m)) = SubSeq(mem, b + n, b + n + len - 1)
        <3> DEFINE u == Substr(v, n, m)
        <3> HIDE DEF len, b, v
        <3>1. u.begin = b + n /\ u.end = b + n + len
            BY <2>5
        <3>2. Text(u) = SubSeq(mem, u.begin, u.end - 1)
            BY DEF Text
        <3> HIDE DEF u
        <3>3. u.end - 1 = b + n + len - 1
            BY <2>0, <2>1, <2>6, <3>1
        <3>4. Text(u) = SubSeq(mem, b + n, b + n + len - 1)
            BY <3>1, <3>2, <3>3, Zenon
        <3> QED BY <3>4 DEF u
    <2>9. SubSeq(mem, b + n, b + n + len - 1)
            = SubSeq(SubSeq(mem, b, e - 1), n + 1, n + len)
        <3> HIDE DEF len, b, e
        <3> QED BY <2>0, <2>1, <2>6, <2>7, SliceOfSlice
    <2> QED BY <2>6, <2>8, <2>9 DEF Text
<1> QED BY <1>1, StatesPointInArray, PTL

=============================================================================
