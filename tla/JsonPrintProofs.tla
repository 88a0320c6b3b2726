--------------------------- MODULE JsonPrintProofs ---------------------------
(***************************************************************************)
(* The shared indentation and the loops of the JSON printer, for values of *)
(* any depth and width.                                                    *)
(***************************************************************************)
EXTENDS JsonPrint, SequenceTheorems, FiniteSetTheorems, TLAPS

\* The loops over containers of V.
LoopsOver(V) == [items : {v \in V : v.is \in Containers}, index : Nat]

TypedIn(V) ==
    /\ todo = <<>> \/ \E v \in V : todo = <<v>>
    /\ stack \in Seq(LoopsOver(V))
    /\ depth \in Nat

IInv(V) == TypedIn(V) /\ LoopsInside /\ DepthIsNesting

----------------------------------------------------------------------------
\* The members of a container, and how many there are.
LEMMA ItemFacts ==
    ASSUME NEW V, NEW K, Composed(V, K), NEW v \in V, v.is \in Containers
    PROVE  /\ Len(Items(v)) \in Nat
           /\ Items(v) # <<>> => 1 <= Len(Items(v))
           /\ v.is = "array" => /\ Items(v) = v.elems
                                /\ \A k \in 1 .. Len(Items(v)) : v.elems[k] \in V
           /\ v.is = "object" => /\ Items(v) = v.members
                                 /\ \A k \in 1 .. Len(Items(v)) :
                                        v.members[k].val \in V
<1>1. v.is \notin Scalars
    BY DEF Scalars, Containers
<1>2. CASE v.is = "array"
    <2>1. v.elems \in Seq(V) /\ Items(v) = v.elems
        BY <1>1, <1>2 DEF Composed, Items
    <2>2. /\ Len(v.elems) \in Nat
          /\ \A k \in 1 .. Len(v.elems) : v.elems[k] \in V
          /\ v.elems # <<>> => 1 <= Len(v.elems)
        BY <2>1, EmptySeq
    <2> QED BY <1>2, <2>1, <2>2
<1>3. CASE v.is = "object"
    <2>1. v.members \in Seq([key : K, val : V]) /\ Items(v) = v.members
        BY <1>1, <1>3 DEF Composed, Items
    <2>2. /\ Len(v.members) \in Nat
          /\ \A k \in 1 .. Len(v.members) : v.members[k].val \in V
          /\ v.members # <<>> => 1 <= Len(v.members)
        <3> DEFINE member == [key : K, val : V]
        <3>1. /\ Len(v.members) \in Nat
              /\ \A k \in 1 .. Len(v.members) : v.members[k] \in member
              /\ v.members # <<>> => 1 <= Len(v.members)
            <4>1. v.members \in Seq(member)
                BY <2>1
            <4> HIDE DEF member
            <4> QED BY <4>1, EmptySeq
        <3>2. \A m \in member : m.val \in V
            OBVIOUS
        <3> HIDE DEF member
        <3> QED BY <3>1, <3>2
    <2> QED BY <1>3, <2>1, <2>2
<1> QED BY <1>2, <1>3 DEF Containers

\* There are finitely many loops over objects.
LEMMA ObjectLoopsFinite ==
    ASSUME NEW V, TypedIn(V)
    PROVE  /\ Len(stack) \in Nat /\ DOMAIN stack = 1 .. Len(stack)
           /\ IsFiniteSet(ObjectLoops) /\ Cardinality(ObjectLoops) \in Nat
<1>1. Len(stack) \in Nat /\ DOMAIN stack = 1 .. Len(stack)
    BY DEF TypedIn
<1>2. ObjectLoops \in SUBSET (1 .. Len(stack))
    BY <1>1 DEF ObjectLoops
<1>3. IsFiniteSet(1 .. Len(stack))
    <2>1. 1 \in Int /\ Len(stack) \in Int
        BY <1>1
    <2> QED BY ONLY <2>1, FS_Interval
<1>4. IsFiniteSet(ObjectLoops)
    BY ONLY <1>2, <1>3, FS_Subset
<1>5. Cardinality(ObjectLoops) \in Nat
    BY ONLY <1>4, FS_CardinalityType
<1> QED BY <1>1, <1>4, <1>5

----------------------------------------------------------------------------
(***************************************************************************)
(* What happens to the stack: a loop begins, goes on, or ends.             *)
(***************************************************************************)
LEMMA BeginKeeps ==
    ASSUME NEW V, NEW K, Composed(V, K), IInv(V),
           NEW v \in V, v.is \in Containers, Items(v) # <<>>,
           stack' = Append(stack, Loop(v)),
           \E w \in V : todo' = <<w>>,
           depth' = IF v.is = "object" THEN depth + Tab ELSE depth
    PROVE  IInv(V)'
<1> DEFINE n == Len(stack)
<1>1. /\ n \in Nat /\ DOMAIN stack = 1 .. n
      /\ IsFiniteSet(ObjectLoops) /\ Cardinality(ObjectLoops) \in Nat
    BY ObjectLoopsFinite DEF IInv
<1>2. stack \in Seq(LoopsOver(V)) /\ depth \in Nat
    BY DEF IInv, TypedIn
<1>3. Loop(v) \in LoopsOver(V) /\ Loop(v).items = v /\ Loop(v).index = 1
    BY DEF Loop, LoopsOver
<1>4. /\ stack' \in Seq(LoopsOver(V)) /\ DOMAIN stack' = 1 .. (n + 1)
      /\ \A k \in 1 .. n : stack'[k] = stack[k]
      /\ stack'[n + 1] = Loop(v)
    BY <1>2, <1>3
<1>5. TypedIn(V)'
    <2>1. depth' \in Nat
        BY <1>2 DEF Tab
    <2> QED BY <1>4, <2>1 DEF TypedIn
<1>6. LoopsInside'
    <2>1. 1 \in 1 .. Len(Items(v))
        BY ItemFacts
    <2>2. ASSUME NEW k \in 1 .. (n + 1)
          PROVE  /\ stack'[k].items.is \in Containers
                 /\ stack'[k].index \in 1 .. Len(Items(stack'[k].items))
        <3>1. CASE k \in 1 .. n
            BY <1>1, <1>4, <3>1 DEF IInv, LoopsInside
        <3>2. CASE k = n + 1
            BY <1>3, <1>4, <2>1, <3>2
        <3> QED BY <1>1, <3>1, <3>2
    <2> QED BY <1>4, <2>2 DEF LoopsInside, Items
<1>7. DepthIsNesting'
    <2>1. CASE v.is = "object"
        <3>1. ObjectLoops' = ObjectLoops \cup {n + 1}
            BY <1>1, <1>3, <1>4, <2>1 DEF ObjectLoops
        <3>2. n + 1 \notin ObjectLoops
            BY <1>1 DEF ObjectLoops
        <3>3. Cardinality(ObjectLoops') = Cardinality(ObjectLoops) + 1
            BY <1>1, <3>1, <3>2, FS_AddElement
        <3> QED BY <1>1, <1>2, <2>1, <3>3 DEF IInv, DepthIsNesting, Tab
    <2>2. CASE v.is # "object"
        <3>1. ObjectLoops' = ObjectLoops
            BY <1>1, <1>3, <1>4, <2>2 DEF ObjectLoops
        <3> QED BY <2>2, <3>1 DEF IInv, DepthIsNesting
    <2> QED BY <2>1, <2>2
<1> QED BY <1>5, <1>6, <1>7 DEF IInv

\* The loop on top, which is in its container.
LEMMA TopFacts ==
    ASSUME NEW V, NEW K, Composed(V, K), IInv(V), stack # <<>>
    PROVE  /\ Len(stack) \in Nat /\ 1 <= Len(stack)
           /\ DOMAIN stack = 1 .. Len(stack)
           /\ Top \in LoopsOver(V) /\ Top.items \in V
           /\ Top = [items |-> Top.items, index |-> Top.index]
           /\ Top.items.is \in Containers
           /\ Top.index \in Nat /\ 1 <= Top.index
           /\ Top.index <= Len(Items(Top.items))
           /\ Len(Items(Top.items)) \in Nat
<1>1. stack \in Seq(LoopsOver(V))
    BY DEF IInv, TypedIn
<1>2. Len(stack) \in Nat /\ 1 <= Len(stack) /\ DOMAIN stack = 1 .. Len(stack)
    BY <1>1
<1>3. Top \in LoopsOver(V)
    BY <1>1, <1>2 DEF Top
<1>4. Top.index \in 1 .. Len(Items(Top.items))
    BY <1>2 DEF IInv, LoopsInside, Top
<1>5. /\ Top.items \in V /\ Top.items.is \in Containers /\ Top.index \in Nat
      /\ Top = [items |-> Top.items, index |-> Top.index]
    BY <1>3 DEF LoopsOver
<1> QED BY <1>2, <1>3, <1>4, <1>5, ItemFacts

LEMMA AdvanceKeeps ==
    ASSUME NEW V, NEW K, Composed(V, K), IInv(V), stack # <<>>, ~ AtEnd,
           stack' = Advance, depth' = depth, \E w \in V : todo' = <<w>>
    PROVE  IInv(V)'
<1> DEFINE n == Len(stack)
           next == [items |-> Top.items, index |-> Top.index + 1]
<1>1. /\ n \in Nat /\ 1 <= n /\ DOMAIN stack = 1 .. n
      /\ Top \in LoopsOver(V)
      /\ Top = [items |-> Top.items, index |-> Top.index]
      /\ Top.items \in V /\ Top.items.is \in Containers
      /\ Top.index \in Nat /\ 1 <= Top.index
      /\ Top.index <= Len(Items(Top.items)) /\ Len(Items(Top.items)) \in Nat
    BY TopFacts
<1>2. stack \in Seq(LoopsOver(V)) /\ depth \in Nat
    BY DEF IInv, TypedIn
<1>3. next \in LoopsOver(V)
    BY <1>1 DEF LoopsOver
<1>4. stack' = [stack EXCEPT ![n] = next]
    <2>1. [Top EXCEPT !.index = @ + 1] = next
        BY <1>1
    <2>2. stack' = [stack EXCEPT ![n] = [Top EXCEPT !.index = @ + 1]]
        BY DEF Advance, Top
    <2> HIDE DEF next
    <2> QED BY <2>1, <2>2
<1>5. /\ stack' \in Seq(LoopsOver(V)) /\ DOMAIN stack' = 1 .. n
      /\ \A k \in 1 .. n : stack'[k] = IF k = n THEN next ELSE stack[k]
    <2> HIDE DEF next
    <2> QED BY <1>1, <1>2, <1>3, <1>4
<1>6. TypedIn(V)'
    BY <1>2, <1>5 DEF TypedIn
<1>7. LoopsInside'
    <2>1. Top.index + 1 \in 1 .. Len(Items(Top.items))
        BY <1>1 DEF AtEnd
    <2>2. ASSUME NEW k \in 1 .. n
          PROVE  /\ stack'[k].items.is \in Containers
                 /\ stack'[k].index \in 1 .. Len(Items(stack'[k].items))
        <3>1. CASE k = n
            BY <1>1, <1>5, <2>1, <3>1
        <3>2. CASE k # n
            BY <1>1, <1>5, <3>2 DEF IInv, LoopsInside
        <3> QED BY <3>1, <3>2
    <2> QED BY <1>5, <2>2 DEF LoopsInside, Items
<1>8. DepthIsNesting'
    <2>1. \A k \in 1 .. n : stack'[k].items = stack[k].items
        BY <1>5 DEF Top
    <2>2. ObjectLoops' = ObjectLoops
        BY <1>1, <1>5, <2>1 DEF ObjectLoops
    <2> QED BY <2>2 DEF IInv, DepthIsNesting
<1> QED BY <1>6, <1>7, <1>8 DEF IInv

LEMMA LeaveKeeps ==
    ASSUME NEW V, NEW K, Composed(V, K), IInv(V), stack # <<>>,
           stack' = Leave, todo' = todo,
           depth' = IF Top.items.is = "object" THEN CutBack(depth) ELSE depth
    PROVE  IInv(V)'
<1> DEFINE n == Len(stack)
<1>1. n \in Nat /\ 1 <= n /\ DOMAIN stack = 1 .. n
    BY TopFacts
<1>2. /\ stack \in Seq(LoopsOver(V)) /\ depth \in Nat
      /\ IsFiniteSet(ObjectLoops) /\ Cardinality(ObjectLoops) \in Nat
    BY ObjectLoopsFinite DEF IInv, TypedIn
<1>3. /\ stack' \in Seq(LoopsOver(V)) /\ DOMAIN stack' = 1 .. (n - 1)
      /\ \A k \in 1 .. (n - 1) : stack'[k] = stack[k]
    BY <1>1, <1>2, SubSeqProperties DEF Leave
<1>4. LoopsInside'
    <2>1. ASSUME NEW k \in 1 .. (n - 1)
          PROVE  /\ stack'[k].items.is \in Containers
                 /\ stack'[k].index \in 1 .. Len(Items(stack'[k].items))
        <3>1. k \in 1 .. n /\ stack'[k] = stack[k]
            BY <1>1, <1>3
        <3>2. /\ stack[k].items.is \in Containers
              /\ stack[k].index \in 1 .. Len(Items(stack[k].items))
            BY <1>1, <3>1 DEF IInv, LoopsInside
        <3> QED BY <3>1, <3>2
    <2> QED BY <1>3, <2>1 DEF LoopsInside, Items
<1>5. DepthIsNesting' /\ depth' \in Nat
    <2>1. CASE Top.items.is = "object"
        <3>1. n \in ObjectLoops /\ ObjectLoops' = ObjectLoops \ {n}
            BY <1>1, <1>3, <2>1 DEF ObjectLoops, Top
        <3>2. Cardinality(ObjectLoops') = Cardinality(ObjectLoops) - 1
            BY <1>2, <3>1, FS_RemoveElement
        <3>3. Cardinality(ObjectLoops) # 0
            BY <1>2, <3>1, FS_EmptySet
        <3>4. depth = Tab * Cardinality(ObjectLoops) /\ depth >= Tab
            BY <1>2, <3>3 DEF IInv, DepthIsNesting, Tab
        <3> QED BY <1>2, <2>1, <3>2, <3>3, <3>4 DEF DepthIsNesting, CutBack, Tab
    <2>2. CASE Top.items.is # "object"
        <3>1. ObjectLoops' = ObjectLoops
            BY <1>1, <1>3, <2>2 DEF ObjectLoops, Top
        <3> QED BY <1>2, <2>2, <3>1 DEF IInv, DepthIsNesting
    <2> QED BY <2>1, <2>2
<1>6. TypedIn(V)'
    BY <1>3, <1>5 DEF IInv, TypedIn
<1> QED BY <1>4, <1>5, <1>6 DEF IInv

----------------------------------------------------------------------------
LEMMA InitHolds ==
    ASSUME NEW V, JsonValues \subseteq V, Init
    PROVE  IInv(V)
<1>1. todo = <<value>> /\ value \in V /\ stack = <<>> /\ depth = 0
    BY DEF Init
<1>2. TypedIn(V)
    BY <1>1 DEF TypedIn
<1>3. ObjectLoops = {} /\ LoopsInside
    BY <1>1 DEF ObjectLoops, LoopsInside
<1>4. DepthIsNesting
    BY <1>1, <1>3, FS_EmptySet DEF DepthIsNesting, Tab
<1> QED BY <1>2, <1>3, <1>4 DEF IInv

LEMMA NextHolds ==
    ASSUME NEW V, NEW K, Composed(V, K), IInv(V), [Next]_vars
    PROVE  IInv(V)'
<1>1. ASSUME NEW kind, Calling(kind)
      PROVE  todo[1] \in V /\ todo[1].is = kind
    BY <1>1 DEF Calling, IInv, TypedIn
<1>2. ASSUME UNCHANGED <<stack, depth>>, todo' = <<>> \/ todo' = todo
      PROVE  IInv(V)'
    BY <1>2 DEF IInv, TypedIn, LoopsInside, DepthIsNesting, ObjectLoops, Items
<1>3. CASE Scalar \/ Empty
    BY <1>2, <1>3 DEF Scalar, Empty
<1>4. CASE ArrayBegin
    <2> DEFINE v == todo[1]
    <2>1. v \in V /\ v.is = "array" /\ v.elems # <<>>
        BY <1>1, <1>4 DEF ArrayBegin
    <2>2. v.is \in Containers /\ Items(v) # <<>>
        BY <2>1 DEF Containers, Items
    <2>3. v.elems[1] \in V
        BY <2>1, <2>2, ItemFacts
    <2>4. stack' = Append(stack, Loop(v)) /\ todo' = <<v.elems[1]>> /\ depth' = depth
        BY <1>4 DEF ArrayBegin
    <2> HIDE DEF v
    <2> QED BY <2>1, <2>2, <2>3, <2>4, BeginKeeps
<1>5. CASE ObjectBegin
    <2> DEFINE v == todo[1]
    <2>1. v \in V /\ v.is = "object" /\ v.members # <<>>
        BY <1>1, <1>5 DEF ObjectBegin
    <2>2. v.is \in Containers /\ Items(v) # <<>>
        BY <2>1 DEF Containers, Items
    <2>3. v.members[1].val \in V
        BY <2>1, <2>2, ItemFacts
    <2>4. /\ stack' = Append(stack, Loop(v)) /\ todo' = <<v.members[1].val>>
          /\ depth' = depth + Tab
        BY <1>5 DEF ObjectBegin
    <2> HIDE DEF v
    <2> QED BY <2>1, <2>2, <2>3, <2>4, BeginKeeps
<1>6. CASE ArrayNext \/ ObjectNext
    <2>1. stack # <<>> /\ ~ AtEnd /\ stack' = Advance /\ depth' = depth
        BY <1>6 DEF ArrayNext, ObjectNext, Looping
    <2>2. \E w \in V : todo' = <<w>>
        <3>1. Top.items \in V /\ Top.items.is \in Containers
              /\ Top.index + 1 \in 1 .. Len(Items(Top.items))
            BY <2>1, TopFacts DEF AtEnd
        <3>2. CASE ArrayNext
            BY <3>1, <3>2, ItemFacts DEF ArrayNext, Looping
        <3>3. CASE ObjectNext
            BY <3>1, <3>3, ItemFacts DEF ObjectNext, Looping
        <3> QED BY <1>6, <3>2, <3>3
    <2> QED BY <2>1, <2>2, AdvanceKeeps
<1>7. CASE ArrayEnd
    BY <1>7, LeaveKeeps DEF ArrayEnd, Looping
<1>8. CASE ObjectEnd
    BY <1>8, LeaveKeeps DEF ObjectEnd, Looping
<1>9. CASE UNCHANGED vars
    BY <1>2, <1>9 DEF vars
<1> QED BY <1>3, <1>4, <1>5, <1>6, <1>7, <1>8, <1>9 DEF Next

\* The invariant, for any set V of values that holds what they are made of.
LEMMA PrinterInvariant ==
    ASSUME NEW V, NEW K, Composed(V, K), JsonValues \subseteq V
    PROVE  Spec => []IInv(V)
<1>1. Init => IInv(V)
    BY InitHolds
<1>2. IInv(V) /\ [Next]_vars => IInv(V)'
    BY NextHolds
<1> QED BY <1>1, <1>2, PTL DEF Spec

\* However deep the value that is printed: the indentation, which all calls of
\* format share, is that of the objects they are in, so that depth.resize never
\* asks for less than nothing and no call leaves it changed.
THEOREM IndentationIsNesting ==
    ASSUME NEW V, NEW K, Composed(V, K), JsonValues \subseteq V
    PROVE  Spec => []DepthIsNesting
<1>1. IInv(V) => DepthIsNesting
    BY DEF IInv
<1> QED BY <1>1, PrinterInvariant, PTL

\* However wide the value is: no iterator is dereferenced at the end of its
\* container or moved past it.
THEOREM IteratorsStayInside ==
    ASSUME NEW V, NEW K, Composed(V, K), JsonValues \subseteq V
    PROVE  Spec => []LoopsInside
<1>1. IInv(V) => LoopsInside
    BY DEF IInv
<1> QED BY <1>1, PrinterInvariant, PTL

=============================================================================
