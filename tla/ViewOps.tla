------------------------------ MODULE ViewOps ------------------------------
(***************************************************************************)
(* The operations of noam::state (include/noam/state.hpp) that a client    *)
(* calls on state objects of its own: the constructors from strings, the   *)
(* two forms of substr, remove_prefix, remove_suffix, clear and swap,      *)
(* which move pointers without looking where, and operator== and           *)
(* operator<=>, which compare what they point to.  A client may ask for a  *)
(* substr that starts past the end; wrapped remembers which objects have a *)
(* state that comes from one, and the properties are about the others.     *)
(*                                                                         *)
(* The objects all refer to one array of char, which ends in a 0.          *)
(* Characters are the integers a char holds; a char is signed, so some are *)
(* negative.  size_t counts modulo SizeValues.                             *)
(***************************************************************************)
EXTENDS NoamState

CONSTANTS
    Object,        \* the client's state objects
    Arrays,        \* the arrays of char: sequences that end in 0
    MaxCount,      \* the largest count a client passes
    MaxOvershoot,  \* how far a client lets begin and end pass each other
    MaxBehind,     \* how far behind the array a client lets an end be
    SizeValues     \* the number of values of size_t

ASSUME ViewOpsAssumption ==
    /\ MaxCount \in Nat /\ MaxOvershoot \in Nat /\ MaxBehind \in Nat
    \* no count is near the largest size_t
    /\ SizeValues \in Nat /\ MaxOvershoot + 2 * MaxCount < SizeValues
    /\ \A t \in Arrays : /\ t \in Seq(Int)
                         /\ Len(t) \in 1 .. (SizeValues - 1)
                         /\ t[Len(t)] = 0

SizeT(n) == n % SizeValues
Smaller(m, n) == IF m < n THEN m ELSE n
Larger(m, n) == IF m < n THEN n ELSE m

----------------------------------------------------------------------------
(***************************************************************************)
(* What the member functions compute.                                      *)
(***************************************************************************)

\* Mutant: the 0 of a string literal is a character of it.
FromArrayWhole(t) == [begin |-> 1, end |-> 1 + Len(t)]

\* state(char const (&array)[N]): less the 0 of a string literal.
FromArray(t) ==
    [begin |-> 1,
     end |-> 1 + Len(t) - IF t[Len(t)] = 0 THEN 1 ELSE 0]

\* state(char const*): up to the first 0.
FromCString(t) ==
    [begin |-> 1,
     end |-> CHOOSE a \in 1 .. Len(t) :
                t[a] = 0 /\ \A b \in 1 .. (a - 1) : t[b] # 0]

\* substr(start): one addition.
SubstrFrom(v, start) == [begin |-> v.begin + start, end |-> v.end]

\* Mutant: the count is not cut to what there is.
SubstrUncut(v, start, count) ==
    [begin |-> v.begin + start, end |-> v.begin + start + count]

\* substr(start, count): max is a size_t, and wraps around when start is past
\* the end.  It is then larger than any count.
Wraps(v, start) == Size(v) - start < 0

Substr(v, start, count) ==
    LET max == SizeT(Size(v) - start)
    IN  [begin |-> v.begin + start,
         end   |-> v.begin + start + Smaller(max, count)]

\* Mutant: the end moves the wrong way.
RemoveSuffixGrows(v, n) == [v EXCEPT !.end = v.end + n]

RemovePrefix(v, n) == [v EXCEPT !.begin = v.begin + n]
RemoveSuffix(v, n) == [v EXCEPT !.end = v.end - n]

\* Where two states first differ, among their first n characters.
Differences(t, v, w, n) ==
    {k \in 0 .. (n - 1) : t[v.begin + k] # t[w.begin + k]}

\* Mutant: the lengths are not compared.
EqualPrefix(t, v, w) == Differences(t, v, w, Smaller(Size(v), Size(w))) = {}

\* operator==: the sizes, which may be negative, and then the characters.
Equal(t, v, w) ==
    /\ Size(v) = Size(w)
    /\ Differences(t, v, w, Size(v)) = {}

Sign(m, n) == IF m < n THEN "less" ELSE IF m = n THEN "equivalent" ELSE "greater"

\* Mutant: a state and a prefix of it are equivalent.
ComparePrefix(t, v, w) ==
    LET d == Differences(t, v, w, Smaller(Size(v), Size(w)))
        k == CHOOSE k \in d : \A j \in d : k <= j
    IN  IF d = {} THEN "equivalent" ELSE Sign(t[v.begin + k], t[w.begin + k])

\* operator<=>: negative sizes count as 0; the first difference decides, and
\* then the sizes.
Compare(t, v, w) ==
    LET s1 == Larger(Size(v), 0)
        s2 == Larger(Size(w), 0)
        d  == Differences(t, v, w, Smaller(s1, s2))
        k  == CHOOSE k \in d : \A j \in d : k <= j
    IN  IF d = {} THEN Sign(s1, s2) ELSE Sign(t[v.begin + k], t[w.begin + k])

----------------------------------------------------------------------------
VARIABLES
    mem,     \* the array
    view,    \* the state objects
    wrapped  \* history: the objects whose state comes, through any number of
             \* copies and moves, from a substr(start, count) past the end

vars == <<mem, view, wrapped>>

Init ==
    /\ mem \in Arrays
    /\ view = [o \in Object |-> NullState]
    /\ wrapped = {}

\* The bound of the model: objects that have not moved too far.
Bounded(v) ==
    /\ Size(v) >= 0 - MaxOvershoot
    /\ v.end <= Len(mem) + MaxBehind

\* o gets the state v, which comes from a wrapped size or does not.
Becomes(o, v, wraps) ==
    /\ Bounded(v)
    /\ view' = [view EXCEPT ![o] = v]
    /\ wrapped' = IF wraps THEN wrapped \union {o} ELSE wrapped \ {o}
    /\ UNCHANGED mem

Construct(o) ==
    \/ Becomes(o, FromArray(mem), FALSE)
    \/ Becomes(o, FromCString(mem), FALSE)

\* Only states that point somewhere are moved.
CutFrom(o, p, start) ==
    /\ StateGood(view[p])
    /\ Becomes(o, SubstrFrom(view[p], start), p \in wrapped)

Cut(o, p, start, count) ==
    /\ StateGood(view[p])
    /\ Becomes(o, Substr(view[p], start, count),
               p \in wrapped \/ Wraps(view[p], start))

DropPrefix(o, n) ==
    /\ StateGood(view[o])
    /\ Becomes(o, RemovePrefix(view[o], n), o \in wrapped)
DropSuffix(o, n) ==
    /\ StateGood(view[o])
    /\ Becomes(o, RemoveSuffix(view[o], n), o \in wrapped)

Clear(o) == Becomes(o, NullState, FALSE)

\* Where the state of q is when those of o and p have changed places.
Exchanged(o, p, q) == IF q = p THEN o ELSE IF q = o THEN p ELSE q

Swap(o, p) ==
    /\ view' = [q \in Object |-> view[Exchanged(o, p, q)]]
    /\ wrapped' = {q \in Object : Exchanged(o, p, q) \in wrapped}
    /\ UNCHANGED mem

Next ==
    \E o \in Object :
        \/ Construct(o)
        \/ Clear(o)
        \/ \E n \in 0 .. MaxCount : DropPrefix(o, n) \/ DropSuffix(o, n)
        \/ \E p \in Object :
            \/ Swap(o, p)
            \/ \E n \in 0 .. MaxCount :
                \/ CutFrom(o, p, n)
                \/ \E m \in 0 .. MaxCount : Cut(o, p, n, m)

Spec == Init /\ [][Next]_vars

----------------------------------------------------------------------------
(***************************************************************************)
(* Properties.  They are about the objects that are not wrapped: what a    *)
(* substr past the end hands out need not be in the array at all, though   *)
(* its size is positive.                                                   *)
(***************************************************************************)

\* The objects whose client never started a substr(start, count) past an end.
Sound == Object \ wrapped

\* The characters a state refers to.
Text(v) == SubSeq(mem, v.begin, v.end - 1)

TypeOK ==
    /\ mem \in Arrays
    /\ view \in [Object -> State]
    /\ wrapped \subseteq Object

\* Without a substr past the end a begin only moves up and an end only down,
\* whichever objects they wander through: no state reaches in front of the
\* array or past its last character.
PointsInArray ==
    \A o \in Sound :
        \/ view[o] = NullState
        \/ 1 <= view[o].begin /\ view[o].end <= Len(mem)

IInv == TypeOK /\ PointsInArray

\* size() > 0 is a reliable check for every state that does not come from a
\* substr(start, count) past an end: if it says that there are characters they
\* are characters of the string, and not the 0 behind it or what follows,
\* however far the state was moved past its end and by which of the others.
PositiveSizeIsInside ==
    \A o \in Sound :
        Size(view[o]) > 0 => 1 <= view[o].begin /\ view[o].end <= Len(mem)

\* == tells two states equal when <=> tells them equivalent, and of states that
\* <=> takes for empty because they have overshot, those that have overshot by
\* the same number of characters.
EqualIffEquivalent ==
    \A o, p \in Sound :
        Equal(mem, view[o], view[p])
            <=> /\ Compare(mem, view[o], view[p]) = "equivalent"
                /\ Size(view[o]) < 0 \/ Size(view[p]) < 0 =>
                        Size(view[o]) = Size(view[p])

\* The lexical order, by its definition.
Precedes(x, y) ==
    \E k \in 0 .. Len(x) :
        /\ k <= Len(y) /\ \A j \in 1 .. k : x[j] = y[j]
        /\ \/ k = Len(x) /\ k < Len(y)
           \/ k < Len(x) /\ k < Len(y) /\ x[k + 1] < y[k + 1]

\* <=> is the lexical ordering of the texts, an overshot state counting as
\* empty, and an empty state is always less than a non-empty one.
CompareIsLexical ==
    \A o, p \in Sound :
        /\ Compare(mem, view[o], view[p]) = "less"
                <=> Precedes(Text(view[o]), Text(view[p]))
        /\ Compare(mem, view[o], view[p]) = "greater"
                <=> Precedes(Text(view[p]), Text(view[o]))

\* substr(start, count) with start inside the state is the slice of its text
\* that begins there, count characters of it or what there are.
SubstrIsSlice ==
    \A o \in Sound, n, m \in 0 .. MaxCount :
        StateGood(view[o]) /\ ~ Wraps(view[o], n) =>
            Text(Substr(view[o], n, m))
                = SubSeq(Text(view[o]), n + 1, Smaller(n + m, Size(view[o])))

=============================================================================
