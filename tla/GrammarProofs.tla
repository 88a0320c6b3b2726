--------------------------- MODULE GrammarProofs ---------------------------
(***************************************************************************)
(* What a program gets from its grammar.                                   *)
(*                                                                         *)
(* First what it relies on when it writes a loop or a recursive parser:    *)
(* that each turn, and each call of a recurse inside itself, is further on *)
(* in the text, and that a list of numbers ends right behind its last one. *)
(* None of it holds of every grammar.  The hypotheses are about how its    *)
(* parsers are built from each other (Consuming, LoopsConsume,             *)
(* NoLeftRecursion, FoldsEndWithValues), which can be read off the source  *)
(* of a program before anything is parsed.                                 *)
(*                                                                         *)
(* Then what every grammar has that means something: a read does what its  *)
(* parser means (PegRules), whatever solution of the equations Meaning is. *)
(***************************************************************************)
EXTENDS CombinatorsProofs, PegRules, SequenceTheorems

----------------------------------------------------------------------------
(***************************************************************************)
(* The leaves that never match the empty text.                             *)
(***************************************************************************)
LEMMA LeafTakes ==
    ASSUME NEW text, NEW n \in Node, NEW st \in State, NEW C,
           Op(n) \in LeafOps, MustConsume(C, n)
    PROVE  Takes(LeafOutcome(text, n, st), st)
<1> DEFINE arg == Grammar[n].arg
           o == LeafOutcome(text, n, st)
<1>0. Descriptor(Grammar[n])
    BY GrammarAssumption
<1>1. CASE Op(n) = "literal"
    <2>1. Len(arg) \in Nat /\ \A k \in 1 .. Len(arg) : Len(arg[k]) \in Nat
        BY <1>0, <1>1 DEF Descriptor, Op
    <2>2. \A k \in 1 .. Len(arg) : Len(arg[k]) > 0
        BY <1>1 DEF MustConsume, ThreadOps, DelimitedOps
    <2>3. o = LiteralParse(text, st, arg)
        BY <1>1 DEF LeafOutcome
    <2> QED BY <2>1, <2>2, <2>3, LiteralTakes
<1>2. CASE Op(n) = "charconv"
    <2>1. o = CharconvParse(text, st, arg)
        BY <1>2 DEF LeafOutcome
    <2> QED BY <2>1, CharconvTakes
<1>3. CASE Op(n) = "bool"
    <2>1. o = LiteralParse(text, st, BoolLiterals)
        BY <1>3 DEF LeafOutcome
    <2>2. /\ Len(BoolLiterals) = 2
          /\ Len(BoolLiterals[1]) \in Nat /\ Len(BoolLiterals[1]) > 0
          /\ Len(BoolLiterals[2]) \in Nat /\ Len(BoolLiterals[2]) > 0
        BY DEF BoolLiterals
    <2>3. /\ Len(BoolLiterals) \in Nat
          /\ \A k \in 1 .. Len(BoolLiterals) :
                Len(BoolLiterals[k]) \in Nat /\ Len(BoolLiterals[k]) > 0
        <3>1. \A k \in {1, 2} :
                Len(BoolLiterals[k]) \in Nat /\ Len(BoolLiterals[k]) > 0
            BY <2>2, Zenon
        <3>2. Len(BoolLiterals) \in Nat /\ 1 .. Len(BoolLiterals) = {1, 2}
            BY <2>2
        <3> QED BY ONLY <3>1, <3>2
    <2> QED BY <2>1, <2>3, LiteralTakes
<1>4. CASE Op(n) = "string"
    <2>1. o = StringParse(text, st)
        BY <1>4 DEF LeafOutcome
    <2> QED BY <2>1, StringTakes
<1>5. CASE Op(n) = "view"
    <2>1. o = ViewParse(text, st)
        BY <1>5 DEF LeafOutcome
    <2> QED BY <2>1, ViewTakes
<1>6. CASE Op(n) = "require_prefix"
    <2>1. o = LiteralParse(text, st, <<arg>>)
        BY <1>6 DEF LeafOutcome
    <2>2. Len(arg) \in Nat /\ Len(arg) > 0
        BY <1>0, <1>6 DEF Descriptor, Op, MustConsume, ThreadOps, DelimitedOps
    <2>3. /\ Len(<<arg>>) \in Nat
          /\ \A k \in 1 .. Len(<<arg>>) :
                Len(<<arg>>[k]) \in Nat /\ Len(<<arg>>[k]) > 0
        BY <2>2
    <2> QED BY <2>1, <2>3, LiteralTakes
<1>7. CASE Op(n) = "fail"
    <2>1. o = NoMatch
        BY <1>7 DEF LeafOutcome
    <2> QED BY <2>1 DEF NoMatch, Takes
<1> QED BY <1>1, <1>2, <1>3, <1>4, <1>5, <1>6, <1>7
        DEF MustConsume, LeafOps, ThreadOps, DelimitedOps

----------------------------------------------------------------------------
(***************************************************************************)
(* The invariant: a frame that is past a parser in C has consumed, and so  *)
(* has a parser in C that has just succeeded.                              *)
(***************************************************************************)
Shifted(C) ==
    \A i \in DOMAIN stack :
        \/ AtStart(C, stack[i].node, stack[i].pc)
        \/ stack[i].in.begin < stack[i].st.begin

GoodConsumed(C) ==
    ret # NoResult /\ Good(ret) /\ Returner \in C
        => Top.arg.begin < ret.st.begin

Consumed(C) == Shifted(C) /\ GoodConsumed(C)

\* A step that pushes no frame leaves every frame its parser and its input.
Kept ==
    \A i \in DOMAIN stack' :
        /\ i \in DOMAIN stack
        /\ stack'[i].node = stack[i].node
        /\ stack'[i].in = stack[i].in

\* A result goes to the frame that applied the parser it is from.
LEMMA ReturnTo ==
    ASSUME IInv, stack # <<>>, Op(Top.node) # "read",
           NEW r, Return(r)
    PROVE  /\ \A i \in DOMAIN stack' :
                i \in DOMAIN stack /\ stack'[i] = stack[i]
           /\ Returner' = Top.node
           /\ Top'.arg = Top.in
           /\ ret' = r
           /\ Good(ret)' = Good(r)
           /\ Kept
<1> DEFINE caller == stack[Len(stack) - 1]
<1>1. stack \in Seq(Frame) /\ Len(stack) >= 2 /\ Len(stack) \in Nat
    BY ReturnsToCaller, TopFacts DEF IInv, TypeOK
<1>2. /\ stack' \in Seq(Frame)
      /\ Len(stack') = Len(stack) - 1
      /\ \A i \in 1 .. (Len(stack) - 1) : stack'[i] = stack[i]
      /\ ret' = r
    BY <1>1, Returned
<1>3. \A i \in DOMAIN stack' : i \in DOMAIN stack /\ stack'[i] = stack[i]
    BY <1>1, <1>2
<1>4. Top' = caller
    <2>1. Top' = stack'[Len(stack')]
        BY DEF Top
    <2>2. Len(stack) - 1 \in 1 .. (Len(stack) - 1)
        BY <1>1
    <2> QED BY <2>1, <2>2, <1>2
<1>5. Top.node = Kids(caller.node)[caller.pc] /\ Top.in = caller.arg
    <2>1. Len(stack) \in DOMAIN stack /\ Len(stack) > 1
        BY <1>1
    <2> QED BY <2>1 DEF IInv, Rooted, Top
<1>6. Returner' = Top.node
    BY <1>4, <1>5 DEF Returner
<1>7. Good(ret)' = Good(r)
    BY <1>2 DEF Good
<1>8. Kept
    BY <1>3 DEF Kept
<1> QED BY <1>2, <1>3, <1>4, <1>5, <1>6, <1>7, <1>8

LEMMA ContinueTo ==
    ASSUME IInv, stack # <<>>,
           NEW pc \in Nat, NEW st \in State, NEW arg \in State,
           NEW acc \in Seq(Token), NEW keys \in SUBSET Seq(Token),
           Continue(At(Top, pc, st, arg, acc, keys))
    PROVE  /\ \A i \in DOMAIN stack' :
                /\ i \in DOMAIN stack
                /\ \/ stack'[i] = stack[i]
                   \/ stack'[i] = At(Top, pc, st, arg, acc, keys)
           /\ stack'[Len(stack)] = At(Top, pc, st, arg, acc, keys)
           /\ Len(stack') = Len(stack)
           /\ ret' = NoResult
           /\ Kept
<1> DEFINE f == At(Top, pc, st, arg, acc, keys)
<1>1. f \in Frame /\ stack \in Seq(Frame)
    BY TopFacts, AtTyped DEF IInv, TypeOK
<1>2. f.node = Top.node /\ f.in = Top.in
    BY AtKeeps
<1> HIDE DEF f
<1>3. /\ stack' \in Seq(Frame)
      /\ Len(stack') = Len(stack)
      /\ \A i \in 1 .. (Len(stack) - 1) : stack'[i] = stack[i]
      /\ stack'[Len(stack)] = f
      /\ ret' = NoResult
    BY <1>1, Continued DEF f
<1>4. \A i \in DOMAIN stack' :
        /\ i \in DOMAIN stack
        /\ stack'[i] = stack[i] \/ (i = Len(stack) /\ stack'[i] = f)
    BY <1>1, <1>3
<1>5. Kept
    BY <1>2, <1>4 DEF Kept, Top
<1> QED BY <1>3, <1>4, <1>5 DEF f

LEMMA PushTo ==
    ASSUME IInv, stack # <<>>, Op(Top.node) \notin LeafOps,
           Push(Enter(Kids(Top.node)[Top.pc], Top.arg))
    PROVE  /\ stack' \in Seq(Frame)
           /\ Len(stack') = Len(stack) + 1
           /\ \A i \in 1 .. Len(stack) : stack'[i] = stack[i]
           /\ stack'[Len(stack) + 1] = Enter(Kids(Top.node)[Top.pc], Top.arg)
           /\ Kids(Top.node)[Top.pc] \in Node
           /\ ret' = NoResult
<1> DEFINE k == Kids(Top.node)[Top.pc]
           f == Enter(k, Top.arg)
<1>1. k \in Node /\ f \in Frame /\ stack \in Seq(Frame)
    BY TopFacts, NodeFacts, EnterTyped DEF IInv, TypeOK
<1> HIDE DEF f
<1>2. /\ stack' \in Seq(Frame)
      /\ Len(stack') = Len(stack) + 1
      /\ \A i \in 1 .. Len(stack) : stack'[i] = stack[i]
      /\ stack'[Len(stack')] = f
      /\ ret' = NoResult
    BY <1>1, Pushed DEF f
<1> QED BY <1>1, <1>2 DEF f

----------------------------------------------------------------------------
(***************************************************************************)
(* What the three stack operations, and then the actions, keep of it.      *)
(***************************************************************************)
LEMMA ReturnConsumes ==
    ASSUME IInv, NEW C, Consumed(C), stack # <<>>, Op(Top.node) # "read",
           NEW r, Return(r),
           Top.node \in C /\ Good(r) => Top.in.begin < r.st.begin
    PROVE  Consumed(C)' /\ Kept
<1>1. /\ \A i \in DOMAIN stack' : i \in DOMAIN stack /\ stack'[i] = stack[i]
      /\ Returner' = Top.node
      /\ Top'.arg = Top.in
      /\ ret' = r
      /\ Good(ret)' = Good(r)
      /\ Kept
    BY ReturnTo
<1>2. Shifted(C)'
    BY <1>1 DEF Consumed, Shifted
<1>3. GoodConsumed(C)'
    BY <1>1 DEF GoodConsumed
<1> QED BY <1>1, <1>2, <1>3 DEF Consumed

LEMMA ContinueConsumes ==
    ASSUME IInv, NEW C, Consumed(C), stack # <<>>,
           NEW pc \in Nat, NEW st \in State, NEW arg \in State,
           NEW acc \in Seq(Token), NEW keys \in SUBSET Seq(Token),
           AtStart(C, Top.node, pc) \/ Top.in.begin < st.begin,
           Continue(At(Top, pc, st, arg, acc, keys))
    PROVE  Consumed(C)' /\ Kept
<1> DEFINE f == At(Top, pc, st, arg, acc, keys)
<1>1. /\ \A i \in DOMAIN stack' :
            /\ i \in DOMAIN stack
            /\ stack'[i] = stack[i] \/ stack'[i] = f
      /\ ret' = NoResult
      /\ Kept
    BY ContinueTo
<1>2. AtStart(C, f.node, f.pc) \/ f.in.begin < f.st.begin
    BY AtKeeps
<1> HIDE DEF f
<1>3. Shifted(C)'
    BY <1>1, <1>2 DEF Consumed, Shifted
<1>4. GoodConsumed(C)'
    BY <1>1 DEF GoodConsumed
<1> QED BY <1>1, <1>3, <1>4 DEF Consumed

\* A parser that is never always good does not count when it fails.
LEMMA FailConsumes ==
    ASSUME IInv, NEW C, Consuming(C), Consumed(C), stack # <<>>,
           Op(Top.node) # "read", Return(Failed(Top.node))
    PROVE  Consumed(C)' /\ Kept
<1>1. Top.node \in Node
    BY TopFacts DEF IInv
<1>2. Top.node \in C => ~ Good(Failed(Top.node))
    BY <1>1, FailedFits DEF Consuming
<1> QED BY <1>2, ReturnConsumes

\* How far the frame that resumes has come.
LEMMA ResumedConsumed ==
    ASSUME IInv, NEW C, Consumed(C),
           NEW ops \in SUBSET (Ops \ LeafOps), Resumed(ops)
    PROVE  /\ \/ AtStart(C, Top.node, Top.pc)
              \/ Top.in.begin < Top.st.begin
           /\ /\ Good(ret)
              /\ Kids(Top.node)[Top.pc] \in C
              => Top.arg.begin < ret.st.begin
           /\ Good(ret) => Top.arg.begin <= ret.st.begin
           /\ Top.in.begin <= Top.st.begin
           /\ Top.st.begin <= Top.arg.begin
           /\ Top.in.begin \in Int /\ Top.st.begin \in Int
           /\ Top.arg.begin \in Int /\ ret.st.begin \in Int
<1>1. stack # <<>> /\ ret # NoResult /\ ret.st \in State
    BY ResumedFacts DEF IInv
<1>2. Len(stack) \in DOMAIN stack /\ Top = stack[Len(stack)]
    BY <1>1, TopFacts DEF IInv, TypeOK
<1>3. /\ Top.in \in State /\ Top.st \in State /\ Top.arg \in State
      /\ Within(Top.st, Top.in) /\ Within(Top.arg, Top.st)
    BY <1>1, TopNested
<1>4. Good(ret) => Within(ret.st, Top.arg)
    BY ResumedSound
<1>5. AtStart(C, Top.node, Top.pc) \/ Top.in.begin < Top.st.begin
    BY <1>2 DEF Consumed, Shifted
<1>6. Good(ret) /\ Kids(Top.node)[Top.pc] \in C
        => Top.arg.begin < ret.st.begin
    BY <1>1 DEF Consumed, GoodConsumed, Returner
<1> QED BY <1>1, <1>3, <1>4, <1>5, <1>6 DEF Within, State

LEMMA ThreadConsumes ==
    ASSUME IInv, NEW C, Consuming(C), Consumed(C), ResumeThread
    PROVE  Consumed(C)' /\ Kept
<1> DEFINE n == Top.node
<1>0. ThreadOps \subseteq Ops \ LeafOps
    BY DEF ThreadOps, Ops, LeafOps
<1>1. Resumed(ThreadOps) /\ ThreadStep(Top)
    BY DEF ResumeThread
<1>2. /\ stack # <<>> /\ n \in Node /\ Op(n) \in ThreadOps
      /\ Top.acc \in Seq(Token) /\ ret.val \in Seq(Token) /\ ret.st \in State
      /\ Top.pc \in 1 .. Len(Kids(n)) /\ Len(Kids(n)) \in Nat
    BY <1>0, <1>1, ResumedFacts DEF IInv
<1>3. Op(n) # "read"
    BY <1>2 DEF ThreadOps
<1>4. Gathered(Top) \in Seq(Token)
    BY <1>2, EmptyTyped DEF Gathered
<1>5. /\ AtStart(C, n, Top.pc) \/ Top.in.begin < Top.st.begin
      /\ Good(ret) /\ Kids(n)[Top.pc] \in C => Top.arg.begin < ret.st.begin
      /\ Good(ret) => Top.arg.begin <= ret.st.begin
      /\ Top.in.begin <= Top.st.begin /\ Top.st.begin <= Top.arg.begin
      /\ Top.in.begin \in Int /\ Top.st.begin \in Int
      /\ Top.arg.begin \in Int /\ ret.st.begin \in Int
    BY <1>0, <1>1, ResumedConsumed
<1>6. AtStart(C, n, Top.pc) <=> \A j \in 1 .. (Top.pc - 1) : Kids(n)[j] \notin C
    BY <1>2 DEF AtStart, ThreadOps, DelimitedOps
\* What has been consumed when the parser at pc has succeeded.
<1>7. Good(ret) => \/ \A j \in 1 .. Top.pc : Kids(n)[j] \notin C
                   \/ Top.in.begin < ret.st.begin
    <2>1. CASE Top.in.begin < Top.st.begin
        BY <1>5, <2>1
    <2>2. CASE Kids(n)[Top.pc] \in C
        BY <1>5, <2>2
    <2>3. CASE AtStart(C, n, Top.pc) /\ Kids(n)[Top.pc] \notin C
        <3>1. \A j \in 1 .. Top.pc : j \in 1 .. (Top.pc - 1) \/ j = Top.pc
            BY <1>2
        <3> QED BY <1>6, <2>3, <3>1
    <2> QED BY <1>5, <2>1, <2>2, <2>3
<1>8. CASE ~ Good(ret)
    <2>1. Return(Failed(n))
        BY <1>1, <1>8 DEF ThreadStep
    <2> QED BY <2>1, <1>2, <1>3, FailConsumes
<1>9. CASE Good(ret) /\ Top.pc < Len(Kids(n))
    <2>1. PICK pc \in Nat : pc = Top.pc + 1
        BY <1>2
    <2>2. Continue(At(Top, pc, ret.st, ret.st, Gathered(Top), {}))
        BY <1>1, <1>9, <2>1 DEF ThreadStep
    <2>3. pc - 1 = Top.pc
        BY <1>2, <2>1
    <2>4. AtStart(C, n, pc) \/ Top.in.begin < ret.st.begin
        BY <1>2, <1>7, <1>9, <2>3 DEF AtStart, ThreadOps, DelimitedOps
    <2> QED BY <2>2, <2>4, <1>2, <1>4, EmptyTyped, ContinueConsumes
<1>10. CASE Good(ret) /\ ~ (Top.pc < Len(Kids(n)))
    <2>1. Return(Make(n, ret.st, Gathered(Top)))
        BY <1>1, <1>10 DEF ThreadStep
    <2>2. Top.pc = Len(Kids(n))
        BY <1>2, <1>10
    <2>3. n \in C => \E i \in 1 .. Len(Kids(n)) : Kids(n)[i] \in C
        BY <1>2 DEF Consuming, MustConsume, ThreadOps, DelimitedOps
    <2>4. n \in C => Top.in.begin < ret.st.begin
        BY <1>7, <1>10, <2>2, <2>3
    <2>5. Make(n, ret.st, Gathered(Top)).st = ret.st
        BY DEF Make
    <2> QED BY <2>1, <2>4, <2>5, <1>2, <1>3, ReturnConsumes
<1> QED BY <1>8, <1>9, <1>10

LEMMA EitherConsumes ==
    ASSUME IInv, NEW C, Consuming(C), Consumed(C), ResumeEither
    PROVE  Consumed(C)' /\ Kept
<1> DEFINE n == Top.node
<1>0. {"either"} \subseteq Ops \ LeafOps
    BY DEF Ops, LeafOps
<1>1. Resumed({"either"}) /\ EitherStep(Top)
    BY DEF ResumeEither
<1>2. /\ stack # <<>> /\ n \in Node /\ Op(n) = "either"
      /\ Top.st \in State
      /\ Top.pc \in 1 .. Len(Kids(n)) /\ Len(Kids(n)) \in Nat
    BY <1>0, <1>1, ResumedFacts DEF IInv
<1>3. CASE Good(ret)
    <2>1. Return(Make(n, ret.st, ret.val))
        BY <1>1, <1>3 DEF EitherStep
    <2>2. n \in C => Kids(n)[Top.pc] \in C
        BY <1>2 DEF Consuming, MustConsume, ThreadOps, DelimitedOps
    <2>3. /\ Kids(n)[Top.pc] \in C => Top.arg.begin < ret.st.begin
          /\ Top.in.begin <= Top.st.begin /\ Top.st.begin <= Top.arg.begin
          /\ Top.in.begin \in Int /\ Top.st.begin \in Int
          /\ Top.arg.begin \in Int /\ ret.st.begin \in Int
        BY <1>0, <1>1, <1>3, ResumedConsumed
    <2>4. n \in C => Top.in.begin < ret.st.begin
        BY <2>2, <2>3
    <2>5. Make(n, ret.st, ret.val).st = ret.st
        BY DEF Make
    <2> QED BY <2>1, <2>4, <2>5, <1>2, ReturnConsumes
<1>4. CASE ~ Good(ret) /\ Top.pc < Len(Kids(n))
    <2>1. PICK pc \in Nat : pc = Top.pc + 1
        BY <1>2
    <2>2. Continue(At(Top, pc, Top.st, Top.st, <<>>, {}))
        BY <1>1, <1>4, <2>1 DEF EitherStep
    <2>3. AtStart(C, n, pc)
        BY <1>2 DEF AtStart, ThreadOps, DelimitedOps
    <2> QED BY <2>2, <2>3, <1>2, EmptyTyped, ContinueConsumes
<1>5. CASE ~ Good(ret) /\ ~ (Top.pc < Len(Kids(n)))
    <2>1. Return(Failed(n))
        BY <1>1, <1>5 DEF EitherStep
    <2> QED BY <2>1, <1>2, FailConsumes
<1> QED BY <1>3, <1>4, <1>5

LEMMA FoldConsumes ==
    ASSUME IInv, NEW C, Consuming(C), Consumed(C), ResumeFold
    PROVE  Consumed(C)' /\ Kept
<1> DEFINE n == Top.node
<1>0. {"fold_left"} \subseteq Ops \ LeafOps
    BY DEF Ops, LeafOps
<1>1. Resumed({"fold_left"}) /\ FoldStep(Top)
    BY DEF ResumeFold
<1>2. /\ stack # <<>> /\ n \in Node /\ Op(n) = "fold_left"
      /\ Top.st \in State /\ Top.acc \in Seq(Token) /\ ret.st \in State
      /\ ret.val \in Seq(Token) /\ Top.acc \o ret.val \in Seq(Token)
      /\ Top.pc \in 1 .. Len(Kids(n)) /\ Len(Kids(n)) \in Arity(Op(n))
    BY <1>0, <1>1, ResumedFacts DEF IInv
<1>3. Len(Kids(n)) = 2
    BY <1>2 DEF Arity, LeafOps, ProbeOps, TryOps, DelimitedOps
<1>4. /\ AtStart(C, n, Top.pc) \/ Top.in.begin < Top.st.begin
      /\ Good(ret) /\ Kids(n)[Top.pc] \in C => Top.arg.begin < ret.st.begin
      /\ Good(ret) => Top.arg.begin <= ret.st.begin
      /\ Top.in.begin <= Top.st.begin /\ Top.st.begin <= Top.arg.begin
      /\ Top.in.begin \in Int /\ Top.st.begin \in Int
      /\ Top.arg.begin \in Int /\ ret.st.begin \in Int
    BY <1>0, <1>1, ResumedConsumed
<1>5. \A pc : AtStart(C, n, pc) <=> (pc = 1 \/ Kids(n)[1] \notin C)
    BY <1>2 DEF AtStart, ThreadOps, DelimitedOps
<1>6. CASE Good(ret)
    <2>1. Continue(At(Top, 2, ret.st, ret.st, Top.acc \o ret.val, {}))
        BY <1>1, <1>6 DEF FoldStep
    <2>2. Kids(n)[1] \notin C \/ Top.in.begin < ret.st.begin
        <3>1. CASE Top.pc = 1
            BY <3>1, <1>4, <1>6
        <3>2. CASE Top.pc # 1
            BY <3>2, <1>4, <1>5, <1>6
        <3> QED BY <3>1, <3>2
    <2>3. AtStart(C, n, 2) \/ Top.in.begin < ret.st.begin
        BY <2>2, <1>5
    <2> QED BY <2>1, <2>3, <1>2, EmptyTyped, ContinueConsumes
<1>7. CASE ~ Good(ret) /\ Top.pc = 1
    <2>1. Return(Failed(n))
        BY <1>1, <1>7 DEF FoldStep
    <2> QED BY <2>1, <1>2, FailConsumes
<1>8. CASE ~ Good(ret) /\ Top.pc # 1
    <2>1. Return(Make(n, Top.st, Top.acc))
        BY <1>1, <1>8 DEF FoldStep
    <2>2. n \in C => Kids(n)[1] \in C
        BY <1>2 DEF Consuming, MustConsume, ThreadOps, DelimitedOps
    <2>3. n \in C => Top.in.begin < Top.st.begin
        BY <2>2, <1>4, <1>5, <1>8
    <2>4. Make(n, Top.st, Top.acc).st = Top.st
        BY DEF Make
    <2> QED BY <2>1, <2>3, <2>4, <1>2, ReturnConsumes
<1> QED BY <1>6, <1>7, <1>8

LEMMA SequenceConsumes ==
    ASSUME IInv, NEW C, Consuming(C), Consumed(C), ResumeSequence
    PROVE  Consumed(C)' /\ Kept
<1> DEFINE n == Top.node
<1>0. {"sequence"} \subseteq Ops \ LeafOps
    BY DEF Ops, LeafOps
<1>1. Resumed({"sequence"}) /\ SequenceStep(Top)
    BY DEF ResumeSequence
<1>2. /\ stack # <<>> /\ n \in Node /\ Op(n) = "sequence"
      /\ Top.st \in State /\ Top.acc \in Seq(Token)
      /\ Top.keys \in SUBSET Seq(Token) /\ ret.st \in State
      /\ ret.val \in Seq(Token) /\ Top.acc \o ret.val \in Seq(Token)
    BY <1>0, <1>1, ResumedFacts DEF IInv
<1>3. /\ Good(ret) /\ Kids(n)[Top.pc] \in C => Top.arg.begin < ret.st.begin
      /\ Top.in.begin <= Top.st.begin /\ Top.st.begin <= Top.arg.begin
      /\ Top.in.begin \in Int /\ Top.st.begin \in Int
      /\ Top.arg.begin \in Int /\ ret.st.begin \in Int
    BY <1>0, <1>1, ResumedConsumed
<1>4. \A pc : AtStart(C, n, pc) <=> (pc = 1 \/ Kids(n)[1] \notin C)
    BY <1>2 DEF AtStart, ThreadOps, DelimitedOps
<1>5. n \notin C
    BY <1>2 DEF Consuming, MustConsume, ThreadOps, DelimitedOps
<1>6. CASE ~ Good(ret)
    <2>1. Return(Make(n, Top.st, Top.acc))
        BY <1>1, <1>6 DEF SequenceStep
    <2> QED BY <2>1, <1>2, <1>5, ReturnConsumes
<1>7. CASE Good(ret) /\ Top.pc = 1
    <2>1. Continue(At(Top, 2, ret.st, ret.st, Top.acc \o ret.val, {}))
        BY <1>1, <1>7 DEF SequenceStep, AfterElem
    <2>2. AtStart(C, n, 2) \/ Top.in.begin < ret.st.begin
        BY <1>3, <1>4, <1>7
    <2> QED BY <2>1, <2>2, <1>2, EmptyTyped, ContinueConsumes
<1>8. CASE Good(ret) /\ Top.pc # 1
    <2>1. Continue(At(Top, 1, Top.st, ret.st, Top.acc, Top.keys))
        BY <1>1, <1>8 DEF SequenceStep, AfterSep
    <2>2. AtStart(C, n, 1)
        BY <1>4
    <2> QED BY <2>1, <2>2, <1>2, ContinueConsumes
<1> QED BY <1>6, <1>7, <1>8

LEMMA DelimitedConsumes ==
    ASSUME IInv, NEW C, Consuming(C), Consumed(C), ResumeDelimited
    PROVE  Consumed(C)' /\ Kept
<1> DEFINE n == Top.node
           opened(st) == Kids(n)[1] \notin C \/ Top.in.begin < st.begin
<1>0. DelimitedOps \subseteq Ops \ LeafOps
    BY DEF DelimitedOps, Ops, LeafOps
<1>1. Resumed(DelimitedOps) /\ DelimitedStep(Top)
    BY DEF ResumeDelimited
<1>2. /\ stack # <<>> /\ n \in Node /\ Op(n) \in DelimitedOps
      /\ Top.st \in State /\ Top.acc \in Seq(Token)
      /\ Top.keys \in SUBSET Seq(Token)
      /\ ret.val \in Seq(Token) /\ ret.st \in State
    BY <1>0, <1>1, ResumedFacts DEF IInv
<1>3. Op(n) # "read"
    BY <1>2 DEF DelimitedOps
<1>4. /\ AtStart(C, n, Top.pc) \/ Top.in.begin < Top.st.begin
      /\ Good(ret) /\ Kids(n)[Top.pc] \in C => Top.arg.begin < ret.st.begin
      /\ Good(ret) => Top.arg.begin <= ret.st.begin
      /\ Top.in.begin <= Top.st.begin /\ Top.st.begin <= Top.arg.begin
      /\ Top.in.begin \in Int /\ Top.st.begin \in Int
      /\ Top.arg.begin \in Int /\ ret.st.begin \in Int
    BY <1>0, <1>1, ResumedConsumed
<1>5. \A pc : AtStart(C, n, pc) <=> (pc = 1 \/ Kids(n)[1] \notin C)
    BY <1>2 DEF AtStart, ThreadOps, DelimitedOps
<1>6. Top.pc # 1 => opened(Top.st)
    BY <1>4, <1>5
<1>7. Good(ret) => opened(ret.st)
    <2>1. CASE Top.pc = 1
        BY <2>1, <1>4
    <2>2. CASE Top.pc # 1
        BY <2>2, <1>4, <1>6
    <2> QED BY <2>1, <2>2
<1>8. \A pc, st : opened(st) => AtStart(C, n, pc) \/ Top.in.begin < st.begin
    BY <1>5
<1> HIDE DEF opened
<1>9. CASE Good(ret) /\ Top.pc = 1
    <2>1. Continue(At(Top, 2, ret.st, ret.st, <<>>, {}))
        BY <1>1, <1>9 DEF DelimitedStep
    <2>2. PICK acc \in Seq(Token), keys \in SUBSET Seq(Token) :
            acc = <<>> /\ keys = {}
        BY EmptyTyped
    <2>3. Continue(At(Top, 2, ret.st, ret.st, acc, keys))
        BY <2>1, <2>2
    <2>4. AtStart(C, n, 2) \/ Top.in.begin < ret.st.begin
        BY <1>7, <1>8, <1>9
    <2> QED BY <2>3, <2>4, <1>2, ContinueConsumes
<1>10. CASE Good(ret) /\ Top.pc = 2
    <2>1. Continue(Stored(Top))
        BY <1>1, <1>10 DEF DelimitedStep
    <2>2. PICK a \in Seq(Token), ks \in SUBSET Seq(Token) :
            Stored(Top) = At(Top, 3, ret.st, ret.st, a, ks)
        BY <1>2, StoredShape
    <2>3. Continue(At(Top, 3, ret.st, ret.st, a, ks))
        BY <2>1, <2>2
    <2>4. AtStart(C, n, 3) \/ Top.in.begin < ret.st.begin
        BY <1>7, <1>8, <1>10
    <2> QED BY <2>3, <2>4, <1>2, ContinueConsumes
<1>11. CASE Good(ret) /\ Top.pc = 3
    <2>1. Continue(At(Top, 2, Top.st, ret.st, Top.acc, Top.keys))
        BY <1>1, <1>11 DEF DelimitedStep, AfterSep
    <2>2. AtStart(C, n, 2) \/ Top.in.begin < Top.st.begin
        BY <1>6, <1>8, <1>11
    <2> QED BY <2>1, <2>2, <1>2, ContinueConsumes
<1>12. CASE Good(ret) /\ Top.pc = 4
    <2>1. Return(Make(n, ret.st, Top.acc))
        BY <1>1, <1>12 DEF DelimitedStep
    <2>2. n \in C => Kids(n)[1] \in C \/ Kids(n)[4] \in C
        BY <1>2 DEF Consuming, MustConsume, ThreadOps, DelimitedOps
    <2>3. Kids(n)[1] \in C => Top.in.begin < ret.st.begin
        BY <1>7, <1>12 DEF opened
    <2>4. Kids(n)[4] \in C => Top.in.begin < ret.st.begin
        BY <1>4, <1>12
    <2>5. Make(n, ret.st, Top.acc).st = ret.st
        BY DEF Make
    <2> QED BY <2>1, <2>2, <2>3, <2>4, <2>5, <1>2, <1>3, ReturnConsumes
<1>13. CASE ~ Good(ret) /\ Top.pc \in {2, 3}
    <2>1. Continue(At(Top, 4, Top.st, Top.st, Top.acc, Top.keys))
        BY <1>1, <1>13 DEF DelimitedStep
    <2>2. AtStart(C, n, 4) \/ Top.in.begin < Top.st.begin
        BY <1>6, <1>8, <1>13
    <2> QED BY <2>1, <2>2, <1>2, ContinueConsumes
<1>14. CASE /\ ~ (Good(ret) /\ Top.pc \in {1, 2, 3, 4})
            /\ ~ (~ Good(ret) /\ Top.pc \in {2, 3})
    <2>1. Return(Failed(n))
        BY <1>1, <1>14 DEF DelimitedStep
    <2> QED BY <2>1, <1>2, <1>3, FailConsumes
<1> QED BY <1>9, <1>10, <1>11, <1>12, <1>13, <1>14

\* Of the combinators of one parser, only recurse takes what its parser took.
LEMMA UnaryConsumes ==
    ASSUME IInv, NEW C, Consuming(C), Consumed(C),
           \/ ResumeProbe \/ ResumeTestThen \/ ResumeTry
           \/ ResumeLookahead \/ ResumeRecurse
    PROVE  Consumed(C)' /\ Kept
<1> DEFINE n == Top.node
<1>1. CASE ResumeRecurse
    <2>0. {"recurse"} \subseteq Ops \ LeafOps
        BY DEF Ops, LeafOps
    <2>1. Resumed({"recurse"}) /\ Return(Converted(n))
        BY <1>1 DEF ResumeRecurse
    <2>2. /\ stack # <<>> /\ n \in Node /\ Op(n) = "recurse"
          /\ Top.pc \in 1 .. Len(Kids(n)) /\ Len(Kids(n)) \in Arity(Op(n))
        BY <2>0, <2>1, ResumedFacts DEF IInv
    <2>3. Len(Kids(n)) = 1
        BY <2>2 DEF Arity, LeafOps, ProbeOps, TryOps, DelimitedOps
    <2>4. Top.pc = 1
        BY <2>2, <2>3
    <2>5. CASE Good(ret)
        <3>1. n \in C => Kids(n)[Top.pc] \in C
            BY <2>2, <2>4 DEF Consuming, MustConsume, ThreadOps, DelimitedOps
        <3>2. /\ Kids(n)[Top.pc] \in C => Top.arg.begin < ret.st.begin
              /\ Top.in.begin <= Top.st.begin /\ Top.st.begin <= Top.arg.begin
              /\ Top.in.begin \in Int /\ Top.st.begin \in Int
              /\ Top.arg.begin \in Int /\ ret.st.begin \in Int
            BY <2>0, <2>1, <2>5, ResumedConsumed
        <3>3. n \in C => Top.in.begin < ret.st.begin
            BY <3>1, <3>2
        <3>4. Converted(n).st = ret.st
            BY <2>5 DEF Converted, Make
        <3> QED BY <2>1, <2>2, <3>3, <3>4, ReturnConsumes
    <2>6. CASE ~ Good(ret)
        <3>1. Return(Failed(n))
            BY <2>1, <2>6 DEF Converted
        <3> QED BY <2>2, <3>1, FailConsumes
    <2> QED BY <2>5, <2>6
<1>2. CASE ResumeProbe \/ ResumeTestThen \/ ResumeTry \/ ResumeLookahead
    <2>1. PICK r : Return(r)
        BY <1>2 DEF ResumeProbe, ResumeTestThen, ResumeTry, ResumeLookahead
    <2>2. /\ stack # <<>>
          /\ Op(n) \in ProbeOps \union TryOps \union {"test_then", "lookahead"}
        BY <1>2 DEF Resumed, ResumeProbe, ResumeTestThen, ResumeTry,
                    ResumeLookahead
    <2>3. n \notin C
        BY <2>2 DEF Consuming, MustConsume, ProbeOps, TryOps, ThreadOps,
                    DelimitedOps
    <2>4. Op(n) # "read"
        BY <2>2 DEF ProbeOps, TryOps
    <2> QED BY <2>1, <2>2, <2>3, <2>4, ReturnConsumes
<1> QED BY <1>1, <1>2

LEMMA LeafConsumes ==
    ASSUME IInv, NEW C, Consuming(C), Consumed(C), ParseLeaf
    PROVE  Consumed(C)' /\ Kept
<1> DEFINE n == Top.node
           o == LeafOutcome(mem, n, Top.in)
           r == LeafResult(mem, n, Top.in)
<1>1. stack # <<>> /\ Op(n) \in LeafOps /\ Return(r)
    BY DEF ParseLeaf, InCall
<1>2. Op(n) # "read"
    BY <1>1 DEF LeafOps
<1>3. n \in Node /\ Top.in \in State
    BY <1>1, TopFacts DEF IInv
<1>4. ASSUME n \in C, Good(r)
      PROVE  Top.in.begin < r.st.begin
    <2>1. ~ AlwaysGood(n) /\ MustConsume(C, n)
        BY <1>4 DEF Consuming
    <2>2. o.ok \in BOOLEAN
        BY <1>3, LeafOutcomeContract DEF IsOutcome
    <2>3. ~ o.ok => r = Failed(n)
        BY <2>1, <2>2 DEF LeafResult
    <2>4. o.ok
        BY <1>3, <1>4, <2>1, <2>3, FailedFits
    <2>5. r.st.begin = o.rest
        BY <2>4 DEF LeafResult, Make
    <2>6. Takes(o, Top.in)
        BY <1>1, <1>3, <2>1, LeafTakes
    <2> QED BY <2>4, <2>5, <2>6 DEF Takes
<1> HIDE DEF r
<1> QED BY <1>1, <1>2, <1>4, ReturnConsumes

LEMMA FirstAtStart ==
    ASSUME NEW C, NEW n
    PROVE  AtStart(C, n, 1)
BY DEF AtStart, ThreadOps, DelimitedOps

LEMMA CallConsumes ==
    ASSUME IInv, NEW C, Consumed(C), Call
    PROVE  Consumed(C)'
<1> DEFINE f == Enter(Kids(Top.node)[Top.pc], Top.arg)
<1>1. /\ stack # <<>> /\ Op(Top.node) \notin LeafOps
      /\ Push(f) /\ stack \in Seq(Frame)
    BY DEF Call, InCall, IInv, TypeOK
<1>2. /\ stack' \in Seq(Frame)
      /\ Len(stack') = Len(stack) + 1
      /\ \A i \in 1 .. Len(stack) : stack'[i] = stack[i]
      /\ stack'[Len(stack) + 1] = f
      /\ ret' = NoResult
    BY <1>1, PushTo
<1>3. AtStart(C, f.node, f.pc)
    BY FirstAtStart DEF Enter
<1> HIDE DEF f
<1>4. \A i \in DOMAIN stack' :
        \/ i \in DOMAIN stack /\ stack'[i] = stack[i]
        \/ stack'[i] = f
    BY <1>1, <1>2
<1>5. Shifted(C)'
    BY <1>3, <1>4 DEF Consumed, Shifted
<1>6. GoodConsumed(C)'
    BY <1>2 DEF GoodConsumed
<1> QED BY <1>5, <1>6 DEF Consumed

LEMMA ReadConsumes ==
    ASSUME IInv, NEW C, NEW r \in Roots, Read(r)
    PROVE  Consumed(C)' /\ stack = <<>> /\ Len(stack') = 1
<1> DEFINE f == Enter(r, cur)
<1>1. stack = <<>> /\ stack' = <<f>> /\ ret' = NoResult
    BY DEF Read, IInv, TypeOK
<1>2. AtStart(C, f.node, f.pc)
    BY FirstAtStart DEF Enter
<1> HIDE DEF f
<1>3. DOMAIN stack' = {1} /\ stack'[1] = f /\ Len(stack') = 1
    BY <1>1
<1> QED BY <1>1, <1>2, <1>3 DEF Consumed, Shifted, GoodConsumed

\* Every step keeps it, and only Call and Read push a frame.
LEMMA NextConsumes ==
    ASSUME IInv, NEW C, Consuming(C), Consumed(C), [Next]_vars
    PROVE  /\ Consumed(C)'
           /\ Kept \/ Call \/ (stack = <<>> /\ Len(stack') = 1)
<1>1. CASE ParseLeaf
    BY <1>1, LeafConsumes
<1>2. CASE Call
    BY <1>2, CallConsumes
<1>3. CASE ResumeThread
    BY <1>3, ThreadConsumes
<1>4. CASE ResumeEither
    BY <1>4, EitherConsumes
<1>5. CASE ResumeFold
    BY <1>5, FoldConsumes
<1>6. CASE ResumeSequence
    BY <1>6, SequenceConsumes
<1>7. CASE ResumeDelimited
    BY <1>7, DelimitedConsumes
<1>8. CASE \/ ResumeProbe \/ ResumeTestThen \/ ResumeTry
           \/ ResumeLookahead \/ ResumeRecurse
    BY <1>8, UnaryConsumes
<1>9. CASE FinishRead
    <2>1. DOMAIN stack' = {} /\ ret' = NoResult
        BY <1>9 DEF FinishRead
    <2> QED BY <2>1 DEF Consumed, Shifted, GoodConsumed, Kept
<1>10. CASE \E r \in Roots : Read(r)
    BY <1>10, ReadConsumes
<1>11. CASE UNCHANGED vars
    BY <1>11 DEF vars, Consumed, Shifted, GoodConsumed, Kept, Returner, Top,
                 Good
<1> QED
    BY <1>1, <1>2, <1>3, <1>4, <1>5, <1>6, <1>7, <1>8, <1>9, <1>10, <1>11
    DEF Next, Work

LEMMA InitConsumes ==
    ASSUME Init, NEW C
    PROVE  Consumed(C)
<1>1. DOMAIN stack = {} /\ ret = NoResult
    BY DEF Init
<1> QED BY <1>1 DEF Consumed, Shifted, GoodConsumed

----------------------------------------------------------------------------
(***************************************************************************)
(* Loops.                                                                  *)
(***************************************************************************)
\* Only fold_left and sequence resume a frame that runs one of them.
LEMMA LoopResumes ==
    ASSUME Next, Resumed({"fold_left", "sequence"})
    PROVE  ResumeFold \/ ResumeSequence
<1>1. /\ stack # <<>> /\ ret # NoResult
      /\ Op(Top.node) \in {"fold_left", "sequence"}
    BY DEF Resumed
<1>2. ~ ParseLeaf /\ ~ Call
    BY <1>1 DEF ParseLeaf, Call, InCall
<1>3. ~ ResumeThread /\ ~ ResumeEither /\ ~ ResumeDelimited
    BY <1>1 DEF ResumeThread, ResumeEither, ResumeDelimited, Resumed,
                ThreadOps, DelimitedOps
<1>4. /\ ~ ResumeProbe /\ ~ ResumeTestThen /\ ~ ResumeTry
      /\ ~ ResumeLookahead /\ ~ ResumeRecurse /\ ~ FinishRead
    BY <1>1 DEF ResumeProbe, ResumeTestThen, ResumeTry, ResumeLookahead,
                ResumeRecurse, FinishRead, Resumed, ProbeOps, TryOps
<1>5. ~ \E r \in Roots : Read(r)
    BY <1>1 DEF Read
<1> QED BY <1>2, <1>3, <1>4, <1>5 DEF Next, Work

LEMMA LoopAdvances ==
    ASSUME IInv, NEW C, Consuming(C), LoopsConsume(C), Consumed(C), Next,
           Resumed({"fold_left", "sequence"}), Len(stack') = Len(stack)
    PROVE  stack'[Len(stack)].arg.begin > Top.arg.begin
<1> DEFINE n == Top.node
<1>0. {"fold_left", "sequence"} \subseteq Ops \ LeafOps
    BY DEF Ops, LeafOps
<1>1. /\ stack # <<>> /\ n \in Node /\ Op(n) \in {"fold_left", "sequence"}
      /\ Top.st \in State /\ Top.acc \in Seq(Token)
      /\ Top.keys \in SUBSET Seq(Token) /\ ret.st \in State
      /\ ret.val \in Seq(Token) /\ Top.acc \o ret.val \in Seq(Token)
      /\ Top.pc \in 1 .. Len(Kids(n)) /\ Len(Kids(n)) \in Arity(Op(n))
    BY <1>0, ResumedFacts DEF IInv
<1>2. Len(Kids(n)) = 2
    BY <1>1 DEF Arity, LeafOps, ProbeOps, TryOps, DelimitedOps
<1>3. Kids(n)[Top.pc] \in C
    <2>1. Top.pc = 1 \/ Top.pc = 2
        BY <1>1, <1>2
    <2> QED BY <2>1, <1>1 DEF LoopsConsume
<1>4. Good(ret) => ret.st.begin > Top.arg.begin
    <2>1. /\ Good(ret) /\ Kids(n)[Top.pc] \in C
             => Top.arg.begin < ret.st.begin
          /\ Top.arg.begin \in Int /\ ret.st.begin \in Int
        BY <1>0, ResumedConsumed
    <2> QED BY <1>3, <2>1
\* A step that returns leaves fewer frames.
<1>5. ASSUME NEW r, Return(r) PROVE FALSE
    <2>1. Op(n) # "read" /\ stack \in Seq(Frame)
        BY <1>1 DEF IInv, TypeOK
    <2>2. Len(stack) >= 2 /\ Len(stack) \in Nat
        BY <1>1, <2>1, ReturnsToCaller, TopFacts DEF IInv
    <2>3. Len(stack') = Len(stack) - 1
        BY <1>5, <2>1, <2>2, Returned
    <2> QED BY <2>2, <2>3
<1>6. ASSUME NEW pc \in Nat, NEW st \in State,
             NEW acc \in Seq(Token), NEW keys \in SUBSET Seq(Token),
             Good(ret), Continue(At(Top, pc, st, ret.st, acc, keys))
      PROVE  stack'[Len(stack)].arg.begin > Top.arg.begin
    <2>1. stack'[Len(stack)] = At(Top, pc, st, ret.st, acc, keys)
        BY <1>1, <1>6, ContinueTo
    <2>2. stack'[Len(stack)].arg = ret.st
        BY <2>1, AtKeeps
    <2> QED BY <1>4, <1>6, <2>2
<1>7. CASE ResumeFold
    <2>1. FoldStep(Top)
        BY <1>7 DEF ResumeFold
    <2>2. Good(ret)
        BY <1>5, <2>1 DEF FoldStep
    <2>3. Continue(At(Top, 2, ret.st, ret.st, Top.acc \o ret.val, {}))
        BY <2>1, <2>2 DEF FoldStep
    <2> QED BY <1>1, <1>6, <2>2, <2>3, EmptyTyped
<1>8. CASE ResumeSequence
    <2>1. SequenceStep(Top)
        BY <1>8 DEF ResumeSequence
    <2>2. Good(ret)
        BY <1>5, <2>1 DEF SequenceStep
    <2>3. CASE Top.pc = 1
        <3>1. Continue(At(Top, 2, ret.st, ret.st, Top.acc \o ret.val, {}))
            BY <2>1, <2>2, <2>3 DEF SequenceStep, AfterElem
        <3> QED BY <1>1, <1>6, <2>2, <3>1, EmptyTyped
    <2>4. CASE Top.pc # 1
        <3>1. Continue(At(Top, 1, Top.st, ret.st, Top.acc, Top.keys))
            BY <2>1, <2>2, <2>4 DEF SequenceStep, AfterSep
        <3> QED BY <1>1, <1>6, <2>2, <3>1
    <2> QED BY <2>3, <2>4
<1> QED BY <1>7, <1>8, LoopResumes

\* No loop of a program turns without consuming, where C is a set of parsers
\* that consume and every loop is over parsers in C.
THEOREM LoopsGoForward ==
    ASSUME NEW C, Consuming(C), LoopsConsume(C), NoQuoteBehind
    PROVE  Spec => LoopsAdvance
<1>1. Init => Consumed(C)
    BY InitConsumes
<1>2. IInv /\ Consumed(C) /\ [Next]_vars => Consumed(C)'
    BY NextConsumes
<1>3. IInv /\ Consumed(C) /\ [Next]_vars
        => [ /\ Resumed({"fold_left", "sequence"})
             /\ Len(stack') = Len(stack)
             => stack'[Len(stack)].arg.begin > Top.arg.begin ]_vars
    BY LoopAdvances
<1> QED BY <1>1, <1>2, <1>3, Inductive, PTL DEF Spec, LoopsAdvance

----------------------------------------------------------------------------
(***************************************************************************)
(* Recursion.                                                              *)
(***************************************************************************)
\* A call inside another is further on, or of a parser that the outer one
\* reaches without consuming.
Descends(Left) ==
    \A i, j \in DOMAIN stack :
        i < j => /\ stack[i].in.begin <= stack[j].in.begin
                 /\ \/ stack[i].in.begin < stack[j].in.begin
                    \/ stack[j].node \in Left[stack[i].node]

LEMMA CallDescends ==
    ASSUME IInv, NEW C, NEW Left, NoLeftRecursion(C, Left), Consumed(C),
           Descends(Left), Call
    PROVE  Descends(Left)'
<1> DEFINE n == Top.node
           k == Kids(n)[Top.pc]
           f == Enter(k, Top.arg)
<1>1. /\ stack # <<>> /\ Op(n) \notin LeafOps
      /\ Push(f) /\ stack \in Seq(Frame)
    BY DEF Call, InCall, IInv, TypeOK
<1>2. /\ stack' \in Seq(Frame)
      /\ Len(stack') = Len(stack) + 1
      /\ \A i \in 1 .. Len(stack) : stack'[i] = stack[i]
      /\ stack'[Len(stack) + 1] = f
    BY <1>1, PushTo
<1>3. /\ Len(stack) \in Nat /\ Len(stack) >= 1 /\ Top = stack[Len(stack)]
      /\ n \in Node /\ Top.pc \in 1 .. Len(Kids(n))
    BY <1>1, TopFacts DEF IInv
<1>4. /\ Top.in.begin <= Top.st.begin /\ Top.st.begin <= Top.arg.begin
      /\ Top.in.begin \in Int /\ Top.st.begin \in Int
      /\ Top.arg.begin \in Int
    BY <1>1, TopNested DEF Within, State
<1>5. Top.in.begin < Top.arg.begin \/ k \in LeftCalls(C, n)
    <2>1. AtStart(C, n, Top.pc) \/ Top.in.begin < Top.st.begin
        BY <1>3 DEF Consumed, Shifted
    <2>2. AtStart(C, n, Top.pc) => k \in LeftCalls(C, n)
        BY <1>3 DEF LeftCalls
    <2> QED BY <1>4, <2>1, <2>2
<1>6. f.node = k /\ f.in = Top.arg
    BY DEF Enter
<1> HIDE DEF f
<1>7. ASSUME NEW i \in 1 .. Len(stack)
      PROVE  /\ stack[i].in.begin <= Top.arg.begin
             /\ stack[i].in.begin < Top.arg.begin \/ k \in Left[stack[i].node]
    <2>1. stack[i].in.begin \in Int /\ stack[i].node \in Node
        <3>1. stack[i] \in Frame
            BY <1>1
        <3> QED BY <3>1 DEF Frame, State
    <2>2. CASE i = Len(stack)
        <3>1. stack[i] = Top
            BY <1>3, <2>2
        <3> QED BY <3>1, <1>3, <1>4, <1>5 DEF NoLeftRecursion
    <2>3. CASE i # Len(stack)
        <3>1. i < Len(stack) /\ i \in DOMAIN stack /\ Len(stack) \in DOMAIN stack
            BY <1>1, <1>3, <2>3
        <3>2. /\ stack[i].in.begin <= Top.in.begin
              /\ \/ stack[i].in.begin < Top.in.begin
                 \/ n \in Left[stack[i].node]
            BY <1>3, <3>1 DEF Descends
        <3>3. n \in Left[stack[i].node]
                => LeftCalls(C, n) \subseteq Left[stack[i].node]
            BY <2>1 DEF NoLeftRecursion
        <3> QED BY <2>1, <3>2, <3>3, <1>4, <1>5
    <2> QED BY <2>2, <2>3
<1>8. SUFFICES ASSUME NEW i \in DOMAIN stack', NEW j \in DOMAIN stack', i < j
               PROVE  /\ stack'[i].in.begin <= stack'[j].in.begin
                      /\ \/ stack'[i].in.begin < stack'[j].in.begin
                         \/ stack'[j].node \in Left[stack'[i].node]
    BY DEF Descends
<1>9. i \in 1 .. Len(stack) /\ stack'[i] = stack[i]
    BY <1>2, <1>3, <1>8
<1>10. CASE j = Len(stack) + 1
    BY <1>2, <1>6, <1>7, <1>9, <1>10
<1>11. CASE j # Len(stack) + 1
    <2>1. j \in 1 .. Len(stack) /\ stack'[j] = stack[j]
        BY <1>2, <1>3, <1>11
    <2> QED BY <2>1, <1>1, <1>8, <1>9 DEF Descends
<1> QED BY <1>10, <1>11

LEMMA NextDescends ==
    ASSUME IInv, NEW C, Consuming(C), NEW Left, NoLeftRecursion(C, Left),
           Consumed(C), Descends(Left), [Next]_vars
    PROVE  Descends(Left)'
<1>1. CASE Call
    BY <1>1, CallDescends
<1>2. CASE Kept
    BY <1>2 DEF Kept, Descends
<1>3. CASE Len(stack') = 1
    <2>1. stack' \in Seq(Frame)
        BY NextTyped DEF IInv, TypeOK
    <2>2. DOMAIN stack' = {1}
        BY <1>3, <2>1
    <2> QED BY <2>2 DEF Descends
<1> QED BY <1>1, <1>2, <1>3, NextConsumes

\* A recursive parser of a program that is not left-recursive goes no deeper
\* than its text is long: a recurse that is applied while it is running is
\* applied further on.
THEOREM RecursionGoesForward ==
    ASSUME NEW C, Consuming(C), NEW Left, NoLeftRecursion(C, Left),
           NoQuoteBehind
    PROVE  Spec => []RecursionConsumes
<1>1. Init => Consumed(C) /\ Descends(Left)
    <2>1. ASSUME Init PROVE DOMAIN stack = {}
        BY <2>1 DEF Init
    <2> QED BY <2>1, InitConsumes DEF Descends
<1>2. IInv /\ Consumed(C) /\ Descends(Left) /\ [Next]_vars
        => Consumed(C)' /\ Descends(Left)'
    BY NextConsumes, NextDescends
<1>3. IInv /\ Descends(Left) => RecursionConsumes
    <2> SUFFICES ASSUME IInv, Descends(Left),
                        NEW i \in DOMAIN stack, NEW j \in DOMAIN stack, i < j,
                        stack[i].node = stack[j].node,
                        Op(stack[i].node) = "recurse"
                 PROVE  stack[i].in.begin < stack[j].in.begin
        BY DEF RecursionConsumes
    <2>1. stack[i].node \in Node
        <3>1. stack \in Seq(Frame)
            BY DEF IInv, TypeOK
        <3>2. stack[i] \in Frame
            BY <3>1
        <3> QED BY <3>2 DEF Frame
    <2>2. stack[j].node \notin Left[stack[i].node]
        BY <2>1 DEF NoLeftRecursion
    <2> QED BY <2>2 DEF Descends
<1> QED BY <1>1, <1>2, <1>3, Inductive, PTL DEF Spec

----------------------------------------------------------------------------
(***************************************************************************)
(* Separators.  The state a list or a fold of numbers keeps is the one     *)
(* right behind the last number it has, whatever it tried after that.      *)
(***************************************************************************)
EndsAt(val, st) == val # <<>> /\ st.begin = val[Len(val)].to

OfNumbers(n) ==
    Op(n) \in {"sequence", "fold_left"} /\ Op(Kids(n)[1]) = "charconv"

FramesEnd ==
    \A i \in DOMAIN stack :
        OfNumbers(stack[i].node) /\ stack[i].acc # <<>>
            => EndsAt(stack[i].acc, stack[i].st)

ResultEnds(E) ==
    ret # NoResult =>
        /\ Returner \in E /\ Good(ret) => EndsAt(ret.val, ret.st)
        /\ OfNumbers(Returner) /\ ret.val # <<>> => EndsAt(ret.val, ret.st)

Ended(E) == FramesEnd /\ ResultEnds(E)

LEMMA ConcatEnds ==
    ASSUME NEW a \in Seq(Token), NEW b \in Seq(Token), NEW st, EndsAt(b, st)
    PROVE  EndsAt(a \o b, st)
<1>1. b # <<>> /\ Len(a) \in Nat /\ Len(b) \in Nat /\ Len(b) >= 1
    BY DEF EndsAt
<1>2. Len(a \o b) = Len(a) + Len(b) /\ a \o b # <<>>
    BY <1>1
<1>3. (a \o b)[Len(a) + Len(b)] = b[Len(b)]
    BY <1>1
<1> QED BY <1>2, <1>3 DEF EndsAt

LEMMA ReturnEnds ==
    ASSUME IInv, NEW E, Ended(E), stack # <<>>, Op(Top.node) # "read",
           NEW r, Return(r),
           Top.node \in E /\ Good(r) => EndsAt(r.val, r.st),
           OfNumbers(Top.node) /\ r.val # <<>> => EndsAt(r.val, r.st)
    PROVE  Ended(E)'
<1>1. /\ \A i \in DOMAIN stack' : i \in DOMAIN stack /\ stack'[i] = stack[i]
      /\ Returner' = Top.node
      /\ ret' = r
      /\ Good(ret)' = Good(r)
    BY ReturnTo
<1>2. FramesEnd'
    BY <1>1 DEF Ended, FramesEnd
<1>3. ResultEnds(E)'
    BY <1>1 DEF ResultEnds
<1> QED BY <1>2, <1>3 DEF Ended

LEMMA ContinueEnds ==
    ASSUME IInv, NEW E, Ended(E), stack # <<>>,
           NEW pc \in Nat, NEW st \in State, NEW arg \in State,
           NEW acc \in Seq(Token), NEW keys \in SUBSET Seq(Token),
           OfNumbers(Top.node) /\ acc # <<>> => EndsAt(acc, st),
           Continue(At(Top, pc, st, arg, acc, keys))
    PROVE  Ended(E)'
<1> DEFINE f == At(Top, pc, st, arg, acc, keys)
<1>1. /\ \A i \in DOMAIN stack' :
            /\ i \in DOMAIN stack
            /\ stack'[i] = stack[i] \/ stack'[i] = f
      /\ ret' = NoResult
    BY ContinueTo
<1>2. f.node = Top.node /\ f.st = st /\ f.acc = acc
    BY DEF At
<1> HIDE DEF f
<1>3. FramesEnd'
    BY <1>1, <1>2 DEF Ended, FramesEnd
<1>4. ResultEnds(E)'
    BY <1>1 DEF ResultEnds
<1> QED BY <1>3, <1>4 DEF Ended

LEMMA FailEnds ==
    ASSUME IInv, NEW E, FoldsEndWithValues(E), Ended(E), stack # <<>>,
           Op(Top.node) # "read", Return(Failed(Top.node))
    PROVE  Ended(E)'
<1>1. Top.node \in Node
    BY TopFacts DEF IInv
<1>2. Top.node \in E => ~ Good(Failed(Top.node))
    BY <1>1, FailedFits DEF FoldsEndWithValues
<1>3. Failed(Top.node).val = <<>>
    BY DEF Failed
<1> QED BY <1>2, <1>3, ReturnEnds

\* What is known of values when a frame resumes.
LEMMA ResumedEnded ==
    ASSUME IInv, NEW E, Ended(E),
           NEW ops \in SUBSET (Ops \ LeafOps), Resumed(ops)
    PROVE  /\ Kids(Top.node)[Top.pc] \in E /\ Good(ret)
                => EndsAt(ret.val, ret.st)
           /\ OfNumbers(Top.node) /\ Top.acc # <<>>
                => EndsAt(Top.acc, Top.st)
<1>1. stack # <<>> /\ ret # NoResult
    BY ResumedFacts DEF IInv
<1>2. Len(stack) \in DOMAIN stack /\ Top = stack[Len(stack)]
    BY <1>1, TopFacts DEF IInv, TypeOK
<1> QED BY <1>1, <1>2 DEF Ended, FramesEnd, ResultEnds, Returner

LEMMA ThreadEnds ==
    ASSUME IInv, NEW E, FoldsEndWithValues(E), Ended(E), ResumeThread
    PROVE  Ended(E)'
<1> DEFINE n == Top.node
<1>0. ThreadOps \subseteq Ops \ LeafOps
    BY DEF ThreadOps, Ops, LeafOps
<1>1. Resumed(ThreadOps) /\ ThreadStep(Top)
    BY DEF ResumeThread
<1>2. /\ stack # <<>> /\ n \in Node /\ Op(n) \in ThreadOps
      /\ Top.acc \in Seq(Token) /\ ret.val \in Seq(Token) /\ ret.st \in State
      /\ Top.pc \in 1 .. Len(Kids(n)) /\ Len(Kids(n)) \in Nat
    BY <1>0, <1>1, ResumedFacts DEF IInv
<1>3. Op(n) # "read" /\ ~ OfNumbers(n)
    BY <1>2 DEF ThreadOps, OfNumbers
<1>4. Gathered(Top) \in Seq(Token)
    BY <1>2, EmptyTyped DEF Gathered
<1>5. CASE ~ Good(ret)
    <2>1. Return(Failed(n))
        BY <1>1, <1>5 DEF ThreadStep
    <2> QED BY <2>1, <1>2, <1>3, FailEnds
<1>6. CASE Good(ret) /\ Top.pc < Len(Kids(n))
    <2>1. PICK pc \in Nat : pc = Top.pc + 1
        BY <1>2
    <2>2. Continue(At(Top, pc, ret.st, ret.st, Gathered(Top), {}))
        BY <1>1, <1>6, <2>1 DEF ThreadStep
    <2> QED BY <2>2, <1>2, <1>3, <1>4, EmptyTyped, ContinueEnds
<1>7. CASE Good(ret) /\ ~ (Top.pc < Len(Kids(n)))
    <2>1. Return(Make(n, ret.st, Gathered(Top)))
        BY <1>1, <1>7 DEF ThreadStep
    <2>2. Top.pc = Len(Kids(n))
        BY <1>2, <1>7
    <2>3. n \in E => /\ Op(n) \in {"map", "make", "join", "then"}
                     /\ Kids(n)[Top.pc] \in E
        BY <1>2, <2>2 DEF FoldsEndWithValues, EndsWithValue, ThreadOps
    <2>4. n \in E => EndsAt(Gathered(Top), ret.st)
        <3> SUFFICES ASSUME n \in E PROVE EndsAt(Gathered(Top), ret.st)
            OBVIOUS
        <3>1. EndsAt(ret.val, ret.st)
            BY <1>0, <1>1, <1>7, <2>3, ResumedEnded
        <3>2. Keeps(n, Top.pc)
            BY <2>2, <2>3 DEF Keeps
        <3>3. Gathered(Top) = Top.acc \o ret.val
            BY <3>2 DEF Gathered
        <3> QED BY <3>1, <3>3, <1>2, ConcatEnds
    <2>5. /\ Make(n, ret.st, Gathered(Top)).st = ret.st
          /\ Make(n, ret.st, Gathered(Top)).val = Gathered(Top)
        BY DEF Make
    <2> QED BY <2>1, <2>4, <2>5, <1>2, <1>3, ReturnEnds
<1> QED BY <1>5, <1>6, <1>7

LEMMA EitherEnds ==
    ASSUME IInv, NEW E, FoldsEndWithValues(E), Ended(E), ResumeEither
    PROVE  Ended(E)'
<1> DEFINE n == Top.node
<1>0. {"either"} \subseteq Ops \ LeafOps
    BY DEF Ops, LeafOps
<1>1. Resumed({"either"}) /\ EitherStep(Top)
    BY DEF ResumeEither
<1>2. /\ stack # <<>> /\ n \in Node /\ Op(n) = "either"
      /\ Top.st \in State
      /\ Top.pc \in 1 .. Len(Kids(n)) /\ Len(Kids(n)) \in Nat
    BY <1>0, <1>1, ResumedFacts DEF IInv
<1>3. ~ OfNumbers(n)
    BY <1>2 DEF OfNumbers
<1>4. CASE Good(ret)
    <2>1. Return(Make(n, ret.st, ret.val))
        BY <1>1, <1>4 DEF EitherStep
    <2>2. n \in E => Kids(n)[Top.pc] \in E
        BY <1>2 DEF FoldsEndWithValues, EndsWithValue
    <2>3. n \in E => EndsAt(ret.val, ret.st)
        BY <1>0, <1>1, <1>4, <2>2, ResumedEnded
    <2>4. /\ Make(n, ret.st, ret.val).st = ret.st
          /\ Make(n, ret.st, ret.val).val = ret.val
        BY DEF Make
    <2> QED BY <2>1, <2>3, <2>4, <1>2, <1>3, ReturnEnds
<1>5. CASE ~ Good(ret) /\ Top.pc < Len(Kids(n))
    <2>1. PICK pc \in Nat : pc = Top.pc + 1
        BY <1>2
    <2>2. Continue(At(Top, pc, Top.st, Top.st, <<>>, {}))
        BY <1>1, <1>5, <2>1 DEF EitherStep
    <2> QED BY <2>2, <1>2, EmptyTyped, ContinueEnds
<1>6. CASE ~ Good(ret) /\ ~ (Top.pc < Len(Kids(n)))
    <2>1. Return(Failed(n))
        BY <1>1, <1>6 DEF EitherStep
    <2> QED BY <2>1, <1>2, FailEnds
<1> QED BY <1>4, <1>5, <1>6

LEMMA FoldEnds ==
    ASSUME IInv, NEW E, FoldsEndWithValues(E), Ended(E), ResumeFold
    PROVE  Ended(E)'
<1> DEFINE n == Top.node
<1>0. {"fold_left"} \subseteq Ops \ LeafOps
    BY DEF Ops, LeafOps
<1>1. Resumed({"fold_left"}) /\ FoldStep(Top)
    BY DEF ResumeFold
<1>2. /\ stack # <<>> /\ n \in Node /\ Op(n) = "fold_left"
      /\ Top.st \in State /\ Top.acc \in Seq(Token) /\ ret.st \in State
      /\ ret.val \in Seq(Token) /\ Top.acc \o ret.val \in Seq(Token)
      /\ Top.pc \in 1 .. Len(Kids(n)) /\ Len(Kids(n)) \in Arity(Op(n))
    BY <1>0, <1>1, ResumedFacts DEF IInv
<1>3. Len(Kids(n)) = 2
    BY <1>2 DEF Arity, LeafOps, ProbeOps, TryOps, DelimitedOps
<1>4. n \notin E
    BY <1>2 DEF FoldsEndWithValues, EndsWithValue
<1>5. OfNumbers(n) => Kids(n)[Top.pc] \in E
    <2>1. Top.pc = 1 \/ Top.pc = 2
        BY <1>2, <1>3
    <2>2. Kids(n)[1] \in Node
        BY <1>2, <1>3, NodeFacts
    <2> QED BY <2>1, <2>2, <1>2 DEF OfNumbers, FoldsEndWithValues
<1>6. /\ Kids(n)[Top.pc] \in E /\ Good(ret) => EndsAt(ret.val, ret.st)
      /\ OfNumbers(n) /\ Top.acc # <<>> => EndsAt(Top.acc, Top.st)
    BY <1>0, <1>1, ResumedEnded
<1>7. CASE Good(ret)
    <2>1. Continue(At(Top, 2, ret.st, ret.st, Top.acc \o ret.val, {}))
        BY <1>1, <1>7 DEF FoldStep
    <2>2. OfNumbers(n) => EndsAt(Top.acc \o ret.val, ret.st)
        BY <1>2, <1>5, <1>6, <1>7, ConcatEnds
    <2> QED BY <2>1, <2>2, <1>2, EmptyTyped, ContinueEnds
<1>8. CASE ~ Good(ret) /\ Top.pc = 1
    <2>1. Return(Failed(n))
        BY <1>1, <1>8 DEF FoldStep
    <2> QED BY <2>1, <1>2, FailEnds
<1>9. CASE ~ Good(ret) /\ Top.pc # 1
    <2>1. Return(Make(n, Top.st, Top.acc))
        BY <1>1, <1>9 DEF FoldStep
    <2>2. /\ Make(n, Top.st, Top.acc).st = Top.st
          /\ Make(n, Top.st, Top.acc).val = Top.acc
        BY DEF Make
    <2> QED BY <2>1, <2>2, <1>2, <1>4, <1>6, ReturnEnds
<1> QED BY <1>7, <1>8, <1>9

LEMMA SequenceEnds ==
    ASSUME IInv, NEW E, FoldsEndWithValues(E), Ended(E), ResumeSequence
    PROVE  Ended(E)'
<1> DEFINE n == Top.node
<1>0. {"sequence"} \subseteq Ops \ LeafOps
    BY DEF Ops, LeafOps
<1>1. Resumed({"sequence"}) /\ SequenceStep(Top)
    BY DEF ResumeSequence
<1>2. /\ stack # <<>> /\ n \in Node /\ Op(n) = "sequence"
      /\ Top.st \in State /\ Top.acc \in Seq(Token)
      /\ Top.keys \in SUBSET Seq(Token) /\ ret.st \in State
      /\ ret.val \in Seq(Token) /\ Top.acc \o ret.val \in Seq(Token)
      /\ Len(Kids(n)) \in Arity(Op(n))
    BY <1>0, <1>1, ResumedFacts DEF IInv
<1>3. Len(Kids(n)) = 2
    BY <1>2 DEF Arity, LeafOps, ProbeOps, TryOps, DelimitedOps
<1>4. n \notin E
    BY <1>2 DEF FoldsEndWithValues, EndsWithValue
<1>5. OfNumbers(n) => Kids(n)[1] \in E
    <2>1. Kids(n)[1] \in Node
        BY <1>2, <1>3, NodeFacts
    <2> QED BY <2>1 DEF OfNumbers, FoldsEndWithValues
<1>6. /\ Kids(n)[Top.pc] \in E /\ Good(ret) => EndsAt(ret.val, ret.st)
      /\ OfNumbers(n) /\ Top.acc # <<>> => EndsAt(Top.acc, Top.st)
    BY <1>0, <1>1, ResumedEnded
<1>7. CASE ~ Good(ret)
    <2>1. Return(Make(n, Top.st, Top.acc))
        BY <1>1, <1>7 DEF SequenceStep
    <2>2. /\ Make(n, Top.st, Top.acc).st = Top.st
          /\ Make(n, Top.st, Top.acc).val = Top.acc
        BY DEF Make
    <2> QED BY <2>1, <2>2, <1>2, <1>4, <1>6, ReturnEnds
<1>8. CASE Good(ret) /\ Top.pc = 1
    <2>1. Continue(At(Top, 2, ret.st, ret.st, Top.acc \o ret.val, {}))
        BY <1>1, <1>8 DEF SequenceStep, AfterElem
    <2>2. OfNumbers(n) => EndsAt(Top.acc \o ret.val, ret.st)
        BY <1>2, <1>5, <1>6, <1>8, ConcatEnds
    <2> QED BY <2>1, <2>2, <1>2, EmptyTyped, ContinueEnds
<1>9. CASE Good(ret) /\ Top.pc # 1
    <2>1. Continue(At(Top, 1, Top.st, ret.st, Top.acc, Top.keys))
        BY <1>1, <1>9 DEF SequenceStep, AfterSep
    <2> QED BY <2>1, <1>2, <1>6, ContinueEnds
<1> QED BY <1>7, <1>8, <1>9

\* Neither delimited container is a list of numbers, nor ends with one.
LEMMA DelimitedEnds ==
    ASSUME IInv, NEW E, FoldsEndWithValues(E), Ended(E), ResumeDelimited
    PROVE  Ended(E)'
<1> DEFINE n == Top.node
<1>0. DelimitedOps \subseteq Ops \ LeafOps
    BY DEF DelimitedOps, Ops, LeafOps
<1>1. Resumed(DelimitedOps) /\ DelimitedStep(Top)
    BY DEF ResumeDelimited
<1>2. /\ stack # <<>> /\ n \in Node /\ Op(n) \in DelimitedOps
      /\ Top.st \in State /\ Top.acc \in Seq(Token)
      /\ Top.keys \in SUBSET Seq(Token)
      /\ ret.val \in Seq(Token) /\ ret.st \in State
    BY <1>0, <1>1, ResumedFacts DEF IInv
<1>3. Op(n) # "read" /\ ~ OfNumbers(n)
    BY <1>2 DEF DelimitedOps, OfNumbers
<1>4. n \notin E
    BY <1>2 DEF DelimitedOps, FoldsEndWithValues, EndsWithValue
<1>5. CASE Good(ret) /\ Top.pc = 1
    <2>1. Continue(At(Top, 2, ret.st, ret.st, <<>>, {}))
        BY <1>1, <1>5 DEF DelimitedStep
    <2> QED BY <2>1, <1>2, <1>3, EmptyTyped, ContinueEnds
<1>6. CASE Good(ret) /\ Top.pc = 2
    <2>1. Continue(Stored(Top))
        BY <1>1, <1>6 DEF DelimitedStep
    <2>2. PICK a \in Seq(Token), ks \in SUBSET Seq(Token) :
            Stored(Top) = At(Top, 3, ret.st, ret.st, a, ks)
        BY <1>2, StoredShape
    <2> QED BY <2>1, <2>2, <1>2, <1>3, ContinueEnds
<1>7. CASE Good(ret) /\ Top.pc = 3
    <2>1. Continue(At(Top, 2, Top.st, ret.st, Top.acc, Top.keys))
        BY <1>1, <1>7 DEF DelimitedStep, AfterSep
    <2> QED BY <2>1, <1>2, <1>3, ContinueEnds
<1>8. CASE Good(ret) /\ Top.pc = 4
    <2>1. Return(Make(n, ret.st, Top.acc))
        BY <1>1, <1>8 DEF DelimitedStep
    <2> QED BY <2>1, <1>2, <1>3, <1>4, ReturnEnds
<1>9. CASE ~ Good(ret) /\ Top.pc \in {2, 3}
    <2>1. Continue(At(Top, 4, Top.st, Top.st, Top.acc, Top.keys))
        BY <1>1, <1>9 DEF DelimitedStep
    <2> QED BY <2>1, <1>2, <1>3, ContinueEnds
<1>10. CASE /\ ~ (Good(ret) /\ Top.pc \in {1, 2, 3, 4})
            /\ ~ (~ Good(ret) /\ Top.pc \in {2, 3})
    <2>1. Return(Failed(n))
        BY <1>1, <1>10 DEF DelimitedStep
    <2> QED BY <2>1, <1>2, <1>3, FailEnds
<1> QED BY <1>5, <1>6, <1>7, <1>8, <1>9, <1>10

LEMMA UnaryEnds ==
    ASSUME IInv, NEW E, FoldsEndWithValues(E), Ended(E),
           \/ ResumeProbe \/ ResumeTestThen \/ ResumeTry
           \/ ResumeLookahead \/ ResumeRecurse
    PROVE  Ended(E)'
<1> DEFINE n == Top.node
<1>1. CASE ResumeRecurse
    <2>0. {"recurse"} \subseteq Ops \ LeafOps
        BY DEF Ops, LeafOps
    <2>1. Resumed({"recurse"}) /\ Return(Converted(n))
        BY <1>1 DEF ResumeRecurse
    <2>2. /\ stack # <<>> /\ n \in Node /\ Op(n) = "recurse"
          /\ Top.pc \in 1 .. Len(Kids(n)) /\ Len(Kids(n)) \in Arity(Op(n))
        BY <2>0, <2>1, ResumedFacts DEF IInv
    <2>3. Len(Kids(n)) = 1
        BY <2>2 DEF Arity, LeafOps, ProbeOps, TryOps, DelimitedOps
    <2>4. Top.pc = 1
        BY <2>2, <2>3
    <2>5. ~ OfNumbers(n)
        BY <2>2 DEF OfNumbers
    <2>6. CASE Good(ret)
        <3>1. n \in E => Kids(n)[Top.pc] \in E
            BY <2>2, <2>4 DEF FoldsEndWithValues, EndsWithValue
        <3>2. n \in E => EndsAt(ret.val, ret.st)
            BY <2>0, <2>1, <2>6, <3>1, ResumedEnded
        <3>3. Converted(n).st = ret.st /\ Converted(n).val = ret.val
            BY <2>6 DEF Converted, Make
        <3> QED BY <2>1, <2>2, <2>5, <3>2, <3>3, ReturnEnds
    <2>7. CASE ~ Good(ret)
        <3>1. Return(Failed(n))
            BY <2>1, <2>7 DEF Converted
        <3> QED BY <2>2, <3>1, FailEnds
    <2> QED BY <2>6, <2>7
<1>2. CASE ResumeProbe \/ ResumeTestThen \/ ResumeTry \/ ResumeLookahead
    <2>1. PICK r : Return(r)
        BY <1>2 DEF ResumeProbe, ResumeTestThen, ResumeTry, ResumeLookahead
    <2>2. /\ stack # <<>>
          /\ Op(n) \in ProbeOps \union TryOps \union {"test_then", "lookahead"}
        BY <1>2 DEF Resumed, ResumeProbe, ResumeTestThen, ResumeTry,
                    ResumeLookahead
    <2>3. n \notin E /\ ~ OfNumbers(n) /\ Op(n) # "read"
        BY <2>2 DEF FoldsEndWithValues, EndsWithValue, OfNumbers, ProbeOps,
                    TryOps
    <2> QED BY <2>1, <2>2, <2>3, ReturnEnds
<1> QED BY <1>1, <1>2

LEMMA LeafEnds ==
    ASSUME IInv, NEW E, FoldsEndWithValues(E), Ended(E), ParseLeaf
    PROVE  Ended(E)'
<1> DEFINE n == Top.node
           o == LeafOutcome(mem, n, Top.in)
           r == LeafResult(mem, n, Top.in)
           token == [leaf |-> n, from |-> o.from, to |-> o.to]
<1>1. stack # <<>> /\ Op(n) \in LeafOps /\ Return(r)
    BY DEF ParseLeaf, InCall
<1>2. Op(n) # "read" /\ ~ OfNumbers(n)
    BY <1>1 DEF LeafOps, OfNumbers
<1>3. n \in Node /\ Top.in \in State
    BY <1>1, TopFacts DEF IInv
<1>4. ASSUME n \in E, Good(r)
      PROVE  EndsAt(r.val, r.st)
    <2>1. ~ AlwaysGood(n) /\ Op(n) = "charconv"
        BY <1>1, <1>4 DEF FoldsEndWithValues, EndsWithValue, LeafOps
    <2>2. o = CharconvParse(mem, Top.in, Grammar[n].arg)
        BY <2>1 DEF LeafOutcome
    <2>3. o.to = o.rest
        BY <1>3, <2>2, CharconvTakes
    <2>4. o.ok \in BOOLEAN
        BY <1>3, LeafOutcomeContract DEF IsOutcome
    <2>5. ~ o.ok => r = Failed(n)
        BY <2>1, <2>4 DEF LeafResult
    <2>6. o.ok
        BY <1>3, <1>4, <2>1, <2>5, FailedFits
    <2>7. LeafValue(mem, n, Top.in, o) = <<token>>
        BY <2>1 DEF LeafValue
    <2> HIDE DEF o
    <2>8. r.st.begin = o.rest /\ r.val = <<token>>
        BY <2>6, <2>7 DEF LeafResult, Make, o
    <2> HIDE DEF r
    <2>9. r.val # <<>> /\ Len(r.val) = 1 /\ r.val[1] = token
        BY <2>8
    <2>10. token.to = o.to
        OBVIOUS
    <2> QED BY <2>3, <2>8, <2>9, <2>10 DEF EndsAt
<1> HIDE DEF r
<1> QED BY <1>1, <1>2, <1>4, ReturnEnds

LEMMA CallEnds ==
    ASSUME IInv, NEW E, Ended(E), Call
    PROVE  Ended(E)'
<1> DEFINE f == Enter(Kids(Top.node)[Top.pc], Top.arg)
<1>1. /\ stack # <<>> /\ Op(Top.node) \notin LeafOps
      /\ Push(f) /\ stack \in Seq(Frame)
    BY DEF Call, InCall, IInv, TypeOK
<1>2. /\ stack' \in Seq(Frame)
      /\ Len(stack') = Len(stack) + 1
      /\ \A i \in 1 .. Len(stack) : stack'[i] = stack[i]
      /\ stack'[Len(stack) + 1] = f
      /\ ret' = NoResult
    BY <1>1, PushTo
<1>3. f.acc = <<>>
    BY DEF Enter
<1> HIDE DEF f
<1>4. \A i \in DOMAIN stack' :
        \/ i \in DOMAIN stack /\ stack'[i] = stack[i]
        \/ stack'[i] = f
    BY <1>1, <1>2
<1>5. FramesEnd'
    BY <1>3, <1>4 DEF Ended, FramesEnd
<1>6. ResultEnds(E)'
    BY <1>2 DEF ResultEnds
<1> QED BY <1>5, <1>6 DEF Ended

LEMMA NextEnds ==
    ASSUME IInv, NEW E, FoldsEndWithValues(E), Ended(E), [Next]_vars
    PROVE  Ended(E)'
<1>1. CASE ParseLeaf
    BY <1>1, LeafEnds
<1>2. CASE Call
    BY <1>2, CallEnds
<1>3. CASE ResumeThread
    BY <1>3, ThreadEnds
<1>4. CASE ResumeEither
    BY <1>4, EitherEnds
<1>5. CASE ResumeFold
    BY <1>5, FoldEnds
<1>6. CASE ResumeSequence
    BY <1>6, SequenceEnds
<1>7. CASE ResumeDelimited
    BY <1>7, DelimitedEnds
<1>8. CASE \/ ResumeProbe \/ ResumeTestThen \/ ResumeTry
           \/ ResumeLookahead \/ ResumeRecurse
    BY <1>8, UnaryEnds
<1>9. CASE FinishRead
    <2>1. DOMAIN stack' = {} /\ ret' = NoResult
        BY <1>9 DEF FinishRead
    <2> QED BY <2>1 DEF Ended, FramesEnd, ResultEnds
<1>10. ASSUME NEW r \in Roots, Read(r) PROVE Ended(E)'
    <2> DEFINE f == Enter(r, cur)
    <2>1. stack' = <<f>> /\ ret' = NoResult
        BY <1>10 DEF Read, IInv, TypeOK
    <2>2. f.acc = <<>>
        BY DEF Enter
    <2> HIDE DEF f
    <2>3. DOMAIN stack' = {1} /\ stack'[1] = f
        BY <2>1
    <2> QED BY <2>1, <2>2, <2>3 DEF Ended, FramesEnd, ResultEnds
<1>11. CASE UNCHANGED vars
    BY <1>11 DEF vars, Ended, FramesEnd, ResultEnds, Returner, Top, Good
<1> QED
    BY <1>1, <1>2, <1>3, <1>4, <1>5, <1>6, <1>7, <1>8, <1>9, <1>10, <1>11
    DEF Next, Work

\* A separator with no number behind it stays in the input, whatever the
\* separators are, where each turn of a fold over numbers ends with what it
\* adds.
THEOREM SeparatorsStay ==
    ASSUME NEW E, FoldsEndWithValues(E), NoQuoteBehind
    PROVE  Spec => []TrailingSeparatorKept
<1>1. Init => Ended(E)
    <2>1. ASSUME Init PROVE DOMAIN stack = {} /\ ret = NoResult
        BY <2>1 DEF Init
    <2> QED BY <2>1 DEF Ended, FramesEnd, ResultEnds
<1>2. IInv /\ Ended(E) /\ [Next]_vars => Ended(E)'
    BY NextEnds
<1>3. Ended(E) => TrailingSeparatorKept
    BY DEF Ended, ResultEnds, OfNumbers, EndsAt, TrailingSeparatorKept
<1> QED BY <1>1, <1>2, <1>3, Inductive, PTL DEF Spec

----------------------------------------------------------------------------
(***************************************************************************)
(* Views and outcomes.                                                     *)
(***************************************************************************)
LEMMA WithinIsRest ==
    ASSUME NEW v \in State, NEW view \in State
    PROVE  Within(v, view) <=> v \in Rests(view)
<1>1. v = [begin |-> v.begin, end |-> v.end]
    BY DEF State
<1>2. v.begin \in Int /\ v.end \in Int /\ view.begin \in Int /\ view.end \in Int
    BY DEF State
<1> QED BY <1>1, <1>2 DEF Rests, Within

LEMMA RestsTyped ==
    ASSUME NEW view \in State, NEW v \in Rests(view)
    PROVE  /\ v \in State
           /\ Within(v, view)
           /\ Rests(v) \subseteq Rests(view)
<1>1. PICK b \in view.begin .. view.end : v = [begin |-> b, end |-> view.end]
    BY DEF Rests
<1>2. view.begin \in Int /\ view.end \in Int
    BY DEF State
<1>3. v \in State /\ v.begin = b /\ v.end = view.end
    BY <1>1, <1>2 DEF State
<1> QED BY <1>2, <1>3 DEF Rests, Within

LEMMA OutcomeIs ==
    ASSUME NEW view, NEW m \in Outcomes(view)
    PROVE  /\ m.ok \in BOOLEAN
           /\ m.ok => /\ m.st \in Rests(view) /\ m.val \in Seq(Token)
                      /\ m = Yes(m.st, m.val)
           /\ ~ m.ok => m = No
<1>1. CASE m \in [ok : {TRUE}, st : Rests(view), val : Seq(Token)]
    <2>1. m = [ok |-> m.ok, st |-> m.st, val |-> m.val] /\ m.ok = TRUE
        BY <1>1
    <2> QED BY <1>1, <2>1 DEF Yes
<1>2. CASE m = No
    BY <1>2 DEF No
<1> QED BY <1>1, <1>2 DEF Outcomes

LEMMA YesIs ==
    ASSUME NEW view, NEW st \in Rests(view), NEW val \in Seq(Token)
    PROVE  Yes(st, val) \in Outcomes(view)
BY DEF Outcomes, Yes

LEMMA NoIs ==
    ASSUME NEW view
    PROVE  No \in Outcomes(view) /\ No.ok = FALSE
BY DEF Outcomes, No

LEMMA OutcomeWidens ==
    ASSUME NEW view \in State, NEW v \in Rests(view), NEW m \in Outcomes(v)
    PROVE  m \in Outcomes(view)
<1>1. Rests(v) \subseteq Rests(view)
    BY RestsTyped
<1> QED BY <1>1 DEF Outcomes

LEMMA BeforeNothing ==
    ASSUME NEW view, NEW m \in Outcomes(view)
    PROVE  Before(<<>>, m) = m
<1>1. CASE m.ok
    <2>1. m.val \in Seq(Token) /\ m = Yes(m.st, m.val)
        BY <1>1, OutcomeIs
    <2>2. <<>> \o m.val = m.val
        BY <2>1, ConcatEmptySeq
    <2> QED BY <1>1, <2>1, <2>2 DEF Before
<1>2. CASE ~ m.ok
    BY <1>2, OutcomeIs DEF Before
<1> QED BY <1>1, <1>2

LEMMA BeforeIs ==
    ASSUME NEW view, NEW m \in Outcomes(view), NEW val \in Seq(Token)
    PROVE  Before(val, m) \in Outcomes(view)
<1>1. CASE m.ok
    <2>1. m.st \in Rests(view) /\ m.val \in Seq(Token)
        BY <1>1, OutcomeIs
    <2>2. val \o m.val \in Seq(Token)
        BY <2>1, ConcatProperties
    <2> QED BY <1>1, <2>1, <2>2, YesIs DEF Before
<1>2. CASE ~ m.ok
    BY <1>2, NoIs DEF Before
<1> QED BY <1>1, <1>2, OutcomeIs

LEMMA TokensAssociate ==
    ASSUME NEW a \in Seq(Token), NEW b \in Seq(Token), NEW c \in Seq(Token)
    PROVE  a \o (b \o c) = (a \o b) \o c
<1> DEFINE l == a \o (b \o c)
           r == (a \o b) \o c
<1>1. /\ b \o c \in Seq(Token) /\ a \o b \in Seq(Token)
      /\ Len(b \o c) = Len(b) + Len(c) /\ Len(a \o b) = Len(a) + Len(b)
    OBVIOUS
<1>2. Len(a) \in Nat /\ Len(b) \in Nat /\ Len(c) \in Nat
    OBVIOUS
<1>3. /\ l \in Seq(Token) /\ r \in Seq(Token)
      /\ Len(l) = Len(a) + Len(b) + Len(c)
      /\ Len(r) = Len(a) + Len(b) + Len(c)
    BY <1>1, <1>2
<1>4. \A i \in 1 .. Len(l) : l[i] = r[i]
    BY <1>1, <1>2
<1> HIDE DEF l, r
<1> QED BY <1>3, <1>4

LEMMA BeforeBefore ==
    ASSUME NEW view, NEW m \in Outcomes(view),
           NEW a \in Seq(Token), NEW b \in Seq(Token)
    PROVE  Before(a, Before(b, m)) = Before(a \o b, m)
<1>1. CASE m.ok
    <2>1. m.val \in Seq(Token)
        BY <1>1, OutcomeIs
    <2>2. a \o (b \o m.val) = (a \o b) \o m.val
        BY <2>1, TokensAssociate, Zenon
    <2>3. Before(b, m) = Yes(m.st, b \o m.val)
        BY <1>1 DEF Before
    <2>4. Before(a, Yes(m.st, b \o m.val)) = Yes(m.st, a \o (b \o m.val))
        BY DEF Before, Yes
    <2>5. Before(a \o b, m) = Yes(m.st, (a \o b) \o m.val)
        BY <1>1 DEF Before
    <2> QED BY <2>2, <2>3, <2>4, <2>5
<1>2. CASE ~ m.ok
    <2>1. Before(b, m) = No /\ Before(a \o b, m) = No
        BY <1>2 DEF Before
    <2> QED BY <2>1 DEF Before, No
<1> QED BY <1>1, <1>2, OutcomeIs

LEMMA BeforeYes ==
    ASSUME NEW st, NEW a \in Seq(Token)
    PROVE  Before(a, Yes(st, <<>>)) = Yes(st, a)
<1>1. a \o <<>> = a
    BY ConcatEmptySeq
<1> QED BY <1>1 DEF Before, Yes

LEMMA BeforeNo ==
    ASSUME NEW a
    PROVE  Before(a, No) = No
BY DEF Before, No

----------------------------------------------------------------------------
(***************************************************************************)
(* The equations, at the views a read can come to.                         *)
(***************************************************************************)
LEMMA NoKeysYet ==
    ASSUME NEW text, NEW n, NEW view
    PROVE  {} \in KeysIn(text, n, view)
BY DEF KeysIn

LEMMA Solved ==
    ASSUME IInv, IsMeaning(Sources), NEW n \in Node, NEW v \in Rests(cur)
    PROVE  /\ Meaning(mem, n, v) \in Outcomes(v)
           /\ Meaning(mem, n, v) = MeaningRule(mem, n, v)
           /\ \A k \in Onward(n), keys \in KeysIn(mem, n, cur) :
                /\ MeaningFrom(mem, n, k, v, keys) \in Outcomes(v)
                /\ MeaningFrom(mem, n, k, v, keys)
                     = MeaningFromRule(mem, n, k, v, keys)
<1>1. PICK s \in Sources : mem = s.mem /\ Within(cur, s.view)
    BY DEF IInv, ViewSound
<1>2. cur \in State /\ s.view \in State
    BY SourcesAssumption DEF IInv, TypeOK
<1>3. Rests(cur) \subseteq Rests(s.view)
    BY <1>1, <1>2, WithinIsRest, RestsTyped
<1>4. KeysIn(mem, n, cur) \subseteq KeysIn(mem, n, s.view)
    BY <1>3 DEF KeysIn
<1>5. Solves(mem, n, s.view)
    BY <1>1 DEF IsMeaning
<1> QED BY <1>3, <1>4, <1>5 DEF Solves

LEMMA RuleIs ==
    ASSUME NEW text, NEW n, NEW st
    PROVE  /\ Op(n) \in LeafOps
                => MeaningRule(text, n, st) = LeafMeaning(text, n, st)
           /\ Op(n) \in ThreadOps
                => MeaningRule(text, n, st) = InTurn(text, n, 1, st)
           /\ Op(n) = "either"
                => MeaningRule(text, n, st) = FirstGood(text, n, 1, st)
           /\ Op(n) = "fold_left"
                => MeaningRule(text, n, st) = Fold(text, n, st)
           /\ Op(n) = "sequence"
                => MeaningRule(text, n, st) = List(text, n, st)
           /\ Op(n) \in DelimitedOps
                => MeaningRule(text, n, st) = Enclosed(text, n, st)
           /\ Op(n) \notin LeafOps \union ThreadOps \union DelimitedOps
                              \union {"either", "fold_left", "sequence"}
                => MeaningRule(text, n, st)
                     = Unary(n, st, Meaning(text, Kids(n)[1], st))
<1>1. /\ LeafOps \intersect ThreadOps = {}
      /\ LeafOps \intersect DelimitedOps = {}
      /\ ThreadOps \intersect DelimitedOps = {}
      /\ {"either", "fold_left", "sequence"} \intersect
            (LeafOps \union ThreadOps \union DelimitedOps) = {}
    BY DEF LeafOps, ThreadOps, DelimitedOps
<1> QED BY <1>1 DEF MeaningRule

LEMMA FromRuleIs ==
    ASSUME NEW text, NEW n, NEW k, NEW st, NEW keys
    PROVE  /\ Op(n) \in ThreadOps
                => MeaningFromRule(text, n, k, st, keys) = InTurn(text, n, k, st)
           /\ Op(n) = "either"
                => MeaningFromRule(text, n, k, st, keys)
                     = FirstGood(text, n, k, st)
           /\ Op(n) = "fold_left"
                => MeaningFromRule(text, n, k, st, keys) = Repeated(text, n, st)
           /\ Op(n) \in DelimitedOps \union {"sequence"}
                => MeaningFromRule(text, n, k, st, keys)
                     = Elements(text, n, st, keys)
BY DEF MeaningFromRule, ThreadOps, DelimitedOps

LEMMA OnwardIs ==
    ASSUME NEW n
    PROVE  /\ Op(n) \in ThreadOps \union {"either"}
                => Onward(n) = 1 .. (Len(Kids(n)) + 1)
           /\ Op(n) = "fold_left" => Onward(n) = {2}
           /\ Op(n) = "sequence" => Onward(n) = {2}
           /\ Op(n) \in DelimitedOps => Onward(n) = {3}
BY DEF Onward, ThreadOps, DelimitedOps, Sep, Elem

\* The parsers of n in turn are done, or alternatives left to try.
LEMMA NoneLeft ==
    ASSUME NEW text, NEW n, NEW k \in Nat, NEW st,
           Len(Kids(n)) \in Nat, k > Len(Kids(n))
    PROVE  /\ InTurn(text, n, k, st) = Yes(st, <<>>)
           /\ FirstGood(text, n, k, st) = No
<1>1. (k > Len(Kids(n))) = TRUE /\ (k <= Len(Kids(n))) = FALSE
    OBVIOUS
<1> QED BY <1>1, Zenon DEF InTurn, FirstGood

LEMMA ToDoIs ==
    ASSUME NEW text, NEW f
    PROVE  /\ Op(f.node) \in LeafOps
                => ToDo(text, f) = LeafMeaning(text, f.node, f.in)
           /\ Op(f.node) \in ThreadOps
                => ToDo(text, f)
                     = Before(f.acc, InTurn(text, f.node, f.pc, f.arg))
           /\ Op(f.node) = "either"
                => ToDo(text, f) = FirstGood(text, f.node, f.pc, f.in)
           /\ Op(f.node) = "fold_left"
                => ToDo(text, f)
                     = Before(f.acc, IF f.pc = 1
                                     THEN Fold(text, f.node, f.arg)
                                     ELSE Repeated(text, f.node, f.arg))
           /\ Op(f.node) = "sequence"
                => ToDo(text, f)
                     = Before(f.acc,
                              IF f.pc = 1
                              THEN ElementAt(text, f.node, f.st, f.arg, {})
                              ELSE Elements(text, f.node, f.arg, {}))
           /\ Op(f.node) \in DelimitedOps /\ f.pc = 1
                => ToDo(text, f) = Enclosed(text, f.node, f.in)
           /\ Op(f.node) \in DelimitedOps /\ f.pc = 2
                => ToDo(text, f)
                     = Closed(text, f.node, Before(f.acc,
                            ElementAt(text, f.node, f.st, f.arg, f.keys)))
           /\ Op(f.node) \in DelimitedOps /\ f.pc = 3
                => ToDo(text, f)
                     = Closed(text, f.node, Before(f.acc,
                            Elements(text, f.node, f.arg, f.keys)))
           /\ Op(f.node) \in DelimitedOps /\ f.pc = 4
                => ToDo(text, f) = Closed(text, f.node, Yes(f.arg, f.acc))
           /\ Op(f.node) \notin LeafOps \union ThreadOps \union DelimitedOps
                              \union {"either", "fold_left", "sequence"}
                => ToDo(text, f)
                     = Unary(f.node, f.in,
                             Meaning(text, Kids(f.node)[1], f.arg))
<1>1. /\ LeafOps \intersect ThreadOps = {}
      /\ LeafOps \intersect DelimitedOps = {}
      /\ ThreadOps \intersect DelimitedOps = {}
      /\ {"either", "fold_left", "sequence"} \intersect
            (LeafOps \union ThreadOps \union DelimitedOps) = {}
    BY DEF LeafOps, ThreadOps, DelimitedOps
<1> QED BY <1>1 DEF ToDo

----------------------------------------------------------------------------
(***************************************************************************)
(* What the three stack operations keep of OnTheWay.                       *)
(***************************************************************************)
LEMMA AtFields ==
    ASSUME NEW f, NEW pc, NEW st, NEW arg, NEW acc, NEW keys
    PROVE  /\ At(f, pc, st, arg, acc, keys).acc = acc
           /\ At(f, pc, st, arg, acc, keys).keys = keys
BY DEF At

LEMMA ReturnMeant ==
    ASSUME IInv, OnTheWay, stack # <<>>, Op(Top.node) # "read",
           UNCHANGED <<mem, cur>>,
           NEW r, Return(r), Agrees(r, Meaning(mem, Top.node, Top.in))
    PROVE  OnTheWay'
<1>1. /\ \A i \in DOMAIN stack' : i \in DOMAIN stack /\ stack'[i] = stack[i]
      /\ Returner' = Top.node
      /\ Top'.arg = Top.in
      /\ ret' = r
    BY ReturnTo
<1>2. \A i \in DOMAIN stack' :
        /\ Meaning(mem', stack'[i].node, stack'[i].in) = ToDo(mem', stack'[i])
        /\ Settled(mem', cur', stack'[i])
    BY <1>1 DEF OnTheWay
<1>3. Agrees(ret', Meaning(mem', Returner', Top'.arg))
    BY <1>1
<1> QED BY <1>2, <1>3 DEF OnTheWay

LEMMA ContinueMeant ==
    ASSUME IInv, OnTheWay, stack # <<>>, UNCHANGED <<mem, cur>>,
           NEW pc \in Nat, NEW st \in State, NEW arg \in State,
           NEW acc \in Seq(Token), NEW keys \in SUBSET Seq(Token),
           Continue(At(Top, pc, st, arg, acc, keys)),
           Settled(mem, cur, At(Top, pc, st, arg, acc, keys)),
           Meaning(mem, Top.node, Top.in)
             = ToDo(mem, At(Top, pc, st, arg, acc, keys))
    PROVE  OnTheWay'
<1> DEFINE f == At(Top, pc, st, arg, acc, keys)
<1>1. /\ \A i \in DOMAIN stack' :
            /\ i \in DOMAIN stack
            /\ stack'[i] = stack[i] \/ stack'[i] = f
      /\ ret' = NoResult
    BY ContinueTo
<1>2. f.node = Top.node /\ f.in = Top.in
    BY AtKeeps
<1>3. Meaning(mem, f.node, f.in) = ToDo(mem, f) /\ Settled(mem, cur, f)
    BY <1>2
<1> HIDE DEF f
<1>4. \A i \in DOMAIN stack' :
        /\ Meaning(mem', stack'[i].node, stack'[i].in) = ToDo(mem', stack'[i])
        /\ Settled(mem', cur', stack'[i])
    BY <1>1, <1>3 DEF OnTheWay
<1> QED BY <1>1, <1>4 DEF OnTheWay

\* Nothing has been done of a call that begins.
LEMMA EnterMeant ==
    ASSUME IInv, IsMeaning(Sources), NEW n \in Node, NEW v \in Rests(cur)
    PROVE  /\ Meaning(mem, n, v) = ToDo(mem, Enter(n, v))
           /\ Settled(mem, cur, Enter(n, v))
<1> DEFINE f == Enter(n, v)
<1>1. /\ f.node = n /\ f.in = v /\ f.st = v /\ f.arg = v
      /\ f.pc = 1 /\ f.acc = <<>> /\ f.keys = {}
    BY DEF Enter
<1> HIDE DEF f
<1>2. Settled(mem, cur, f)
    BY <1>1, NoKeysYet DEF Settled
<1>3. /\ Meaning(mem, n, v) \in Outcomes(v)
      /\ Meaning(mem, n, v) = MeaningRule(mem, n, v)
    BY Solved
<1>4. Before(<<>>, Meaning(mem, n, v)) = Meaning(mem, n, v)
    BY <1>3, BeforeNothing
<1>5. Meaning(mem, n, v) = ToDo(mem, f)
    <2>1. CASE Op(n) \in LeafOps
        BY <2>1, <1>1, <1>3, RuleIs, ToDoIs
    <2>2. CASE Op(n) \in ThreadOps
        <3>1. Meaning(mem, n, v) = InTurn(mem, n, 1, v)
            BY <2>2, <1>3, RuleIs
        <3>2. ToDo(mem, f) = Before(<<>>, InTurn(mem, n, 1, v))
            BY <2>2, <1>1, ToDoIs
        <3> QED BY <3>1, <3>2, <1>4
    <2>3. CASE Op(n) = "either"
        BY <2>3, <1>1, <1>3, RuleIs, ToDoIs
    <2>4. CASE Op(n) = "fold_left"
        <3>1. Meaning(mem, n, v) = Fold(mem, n, v)
            BY <2>4, <1>3, RuleIs
        <3>2. ToDo(mem, f) = Before(<<>>, Fold(mem, n, v))
            BY <2>4, <1>1, ToDoIs
        <3> QED BY <3>1, <3>2, <1>4
    <2>5. CASE Op(n) = "sequence"
        <3>1. Meaning(mem, n, v) = ElementAt(mem, n, v, v, {})
            BY <2>5, <1>3, RuleIs DEF List
        <3>2. ToDo(mem, f) = Before(<<>>, ElementAt(mem, n, v, v, {}))
            BY <2>5, <1>1, ToDoIs
        <3> QED BY <3>1, <3>2, <1>4
    <2>6. CASE Op(n) \in DelimitedOps
        BY <2>6, <1>1, <1>3, RuleIs, ToDoIs
    <2>7. CASE Op(n) \notin LeafOps \union ThreadOps \union DelimitedOps
                              \union {"either", "fold_left", "sequence"}
        <3>1. Meaning(mem, n, v) = Unary(n, v, Meaning(mem, Kids(n)[1], v))
            BY <2>7, <1>3, RuleIs
        <3>2. ToDo(mem, f) = Unary(n, v, Meaning(mem, Kids(n)[1], v))
            BY <2>7, <1>1, ToDoIs
        <3> QED BY <3>1, <3>2
    <2> QED BY <2>1, <2>2, <2>3, <2>4, <2>5, <2>6, <2>7
<1> QED BY <1>2, <1>5 DEF f

\* What is known of the frame that resumes, and of the result it gets.
LEMMA ResumedMeant ==
    ASSUME IInv, GoodIffParsed, IsMeaning(Sources), OnTheWay,
           NEW ops \in SUBSET (Ops \ LeafOps), Resumed(ops)
    PROVE  LET n == Top.node
               k == Kids(n)[Top.pc]
               m == Meaning(mem, k, Top.arg)
           IN  /\ k \in Node
               /\ m \in Outcomes(Top.arg)
               /\ m.ok = Good(ret) /\ m.ok = ret.set
               /\ Good(ret) => ret.st = m.st /\ ret.val = m.val
               /\ ~ Good(ret) => ret.val = <<>> /\ m = No
               /\ Good(ret) => ret.st \in Rests(cur)
               /\ Meaning(mem, n, Top.in) = ToDo(mem, Top)
               /\ Settled(mem, cur, Top)
               /\ {Top.in, Top.st, Top.arg} \subseteq Rests(cur)
               /\ cur \in State
<1> DEFINE n == Top.node
           k == Kids(n)[Top.pc]
           m == Meaning(mem, k, Top.arg)
<1>1. /\ stack # <<>> /\ ret # NoResult /\ n \in Node
      /\ Top.pc \in 1 .. Len(Kids(n)) /\ ret.st \in State
      /\ Good(ret) \in BOOLEAN /\ ret.set \in BOOLEAN
    BY ResumedFacts DEF IInv
<1>2. k \in Node
    BY <1>1, NodeFacts
<1>3. /\ Top.in \in State /\ Top.st \in State /\ Top.arg \in State
      /\ cur \in State
      /\ Within(Top.in, cur) /\ Within(Top.st, Top.in)
      /\ Within(Top.arg, Top.in)
    BY <1>1, TopNested
<1>4. {Top.in, Top.st, Top.arg} \subseteq Rests(cur)
    BY <1>3, WithinTrans, WithinIsRest
<1>5. m \in Outcomes(Top.arg)
    BY <1>2, <1>4, Solved
<1>6. Agrees(ret, m)
    BY <1>1 DEF OnTheWay, Returner
<1>7. Good(ret) <=> ret.set
    BY <1>1 DEF GoodIffParsed
<1>8. Good(ret) => Within(ret.st, Top.in)
    BY ResumedSound
<1>9. Good(ret) => ret.st \in Rests(cur)
    BY <1>1, <1>3, <1>8, WithinTrans, WithinIsRest
<1>10. m.ok = ret.set /\ m.ok = Good(ret)
    BY <1>1, <1>6, <1>7 DEF Agrees
<1>11. ~ m.ok => m = No
    BY <1>5, OutcomeIs
<1>12. Len(stack) \in DOMAIN stack /\ Top = stack[Len(stack)]
    BY <1>1, TopFacts DEF IInv, TypeOK
<1>13. Meaning(mem, n, Top.in) = ToDo(mem, Top) /\ Settled(mem, cur, Top)
    BY <1>12 DEF OnTheWay
<1>14. /\ Good(ret) => ret.st = m.st /\ ret.val = m.val
       /\ ~ Good(ret) => ret.val = <<>>
    BY <1>6, <1>10 DEF Agrees
<1> HIDE DEF m, k, n
<1> QED
    BY <1>2, <1>3, <1>4, <1>5, <1>9, <1>10, <1>11, <1>13, <1>14 DEF m, k, n

LEMMA CallMeant ==
    ASSUME IInv, IsMeaning(Sources), OnTheWay, Call
    PROVE  OnTheWay'
<1> DEFINE k == Kids(Top.node)[Top.pc]
           f == Enter(k, Top.arg)
<1>1. /\ stack # <<>> /\ Op(Top.node) \notin LeafOps
      /\ Push(f) /\ stack \in Seq(Frame) /\ UNCHANGED <<mem, cur>>
    BY DEF Call, InCall, IInv, TypeOK
<1>2. /\ stack' \in Seq(Frame)
      /\ Len(stack') = Len(stack) + 1
      /\ \A i \in 1 .. Len(stack) : stack'[i] = stack[i]
      /\ stack'[Len(stack) + 1] = f
      /\ k \in Node
      /\ ret' = NoResult
    BY <1>1, PushTo
<1>3. Top.arg \in Rests(cur)
    BY <1>1, TopNested, WithinTrans, WithinIsRest
<1>4. Meaning(mem, k, Top.arg) = ToDo(mem, f) /\ Settled(mem, cur, f)
    BY <1>2, <1>3, EnterMeant
<1>5. f.node = k /\ f.in = Top.arg
    BY DEF Enter
<1> HIDE DEF f
<1>6. \A i \in DOMAIN stack' :
        \/ i \in DOMAIN stack /\ stack'[i] = stack[i]
        \/ stack'[i] = f
    BY <1>1, <1>2
<1>7. \A i \in DOMAIN stack' :
        /\ Meaning(mem', stack'[i].node, stack'[i].in) = ToDo(mem', stack'[i])
        /\ Settled(mem', cur', stack'[i])
    BY <1>1, <1>4, <1>5, <1>6 DEF OnTheWay
<1> QED BY <1>2, <1>7 DEF OnTheWay

----------------------------------------------------------------------------
(***************************************************************************)
(* The actions.                                                            *)
(***************************************************************************)
LEMMA FailMeant ==
    ASSUME IInv, OnTheWay, stack # <<>>, Op(Top.node) # "read",
           UNCHANGED <<mem, cur>>, Return(Failed(Top.node)),
           Meaning(mem, Top.node, Top.in) = No
    PROVE  OnTheWay'
<1>1. Agrees(Failed(Top.node), Meaning(mem, Top.node, Top.in))
    BY DEF Agrees, Failed, No
<1> QED BY <1>1, ReturnMeant

LEMMA MakeMeant ==
    ASSUME IInv, OnTheWay, stack # <<>>, Op(Top.node) # "read",
           UNCHANGED <<mem, cur>>, NEW st, NEW val,
           Return(Make(Top.node, st, val)),
           Meaning(mem, Top.node, Top.in) = Yes(st, val)
    PROVE  OnTheWay'
<1>1. Agrees(Make(Top.node, st, val), Meaning(mem, Top.node, Top.in))
    BY DEF Agrees, Make, Yes
<1> QED BY <1>1, ReturnMeant

LEMMA LeafMeant ==
    ASSUME IInv, OnTheWay, ParseLeaf
    PROVE  OnTheWay'
<1> DEFINE n == Top.node
           r == LeafResult(mem, n, Top.in)
<1>1. /\ stack # <<>> /\ Op(n) \in LeafOps /\ Return(r)
      /\ UNCHANGED <<mem, cur>>
    BY DEF ParseLeaf, InCall
<1>2. Op(n) # "read"
    BY <1>1 DEF LeafOps
<1>3. Len(stack) \in DOMAIN stack /\ Top = stack[Len(stack)]
    BY <1>1, TopFacts DEF IInv, TypeOK
<1>4. Meaning(mem, n, Top.in) = LeafMeaning(mem, n, Top.in)
    BY <1>1, <1>3, ToDoIs DEF OnTheWay
<1>5. /\ r.set = TRUE \/ (r.set = FALSE /\ r.val = <<>>)
    BY DEF LeafResult, Make, Failed
<1>6. LeafMeaning(mem, n, Top.in) = IF r.set THEN Yes(r.st, r.val) ELSE No
    BY DEF LeafMeaning
<1> HIDE DEF r
<1>7. Agrees(r, Meaning(mem, n, Top.in))
    <2>1. CASE r.set = TRUE
        <3>1. Meaning(mem, n, Top.in) = Yes(r.st, r.val)
            BY <2>1, <1>4, <1>6
        <3>2. /\ Yes(r.st, r.val).ok = TRUE
              /\ Yes(r.st, r.val).st = r.st /\ Yes(r.st, r.val).val = r.val
            BY DEF Yes
        <3> QED BY <2>1, <3>1, <3>2, Zenon DEF Agrees
    <2>2. CASE r.set = FALSE /\ r.val = <<>>
        <3>1. Meaning(mem, n, Top.in) = No /\ No.ok = FALSE
            BY <2>2, <1>4, <1>6 DEF No
        <3> QED BY <2>2, <3>1, Zenon DEF Agrees
    <2> QED BY <2>1, <2>2, <1>5
<1> QED BY <1>1, <1>2, <1>7, ReturnMeant

LEMMA ThreadMeant ==
    ASSUME IInv, GoodIffParsed, IsMeaning(Sources), OnTheWay, ResumeThread
    PROVE  OnTheWay'
<1> DEFINE n == Top.node
           m == Meaning(mem, Kids(n)[Top.pc], Top.arg)
           kept == IF Top.pc \in Valued(n) THEN m.val ELSE <<>>
           after == MeaningFrom(mem, n, Top.pc + 1, m.st, {})
<1>0. ThreadOps \subseteq Ops \ LeafOps
    BY DEF ThreadOps, Ops, LeafOps
<1>1. Resumed(ThreadOps) /\ ThreadStep(Top) /\ UNCHANGED <<mem, cur>>
    BY DEF ResumeThread
<1>2. /\ stack # <<>> /\ n \in Node /\ Op(n) \in ThreadOps
      /\ Top.acc \in Seq(Token) /\ ret.val \in Seq(Token) /\ ret.st \in State
      /\ Top.pc \in 1 .. Len(Kids(n)) /\ Len(Kids(n)) \in Nat
      /\ Good(ret) \in BOOLEAN
    BY <1>0, <1>1, ResumedFacts DEF IInv
<1>3. Op(n) # "read"
    BY <1>2 DEF ThreadOps
<1>4. /\ m \in Outcomes(Top.arg) /\ m.ok = Good(ret)
      /\ Good(ret) => ret.st = m.st /\ ret.val = m.val
      /\ Good(ret) => ret.st \in Rests(cur)
      /\ Meaning(mem, n, Top.in) = ToDo(mem, Top)
      /\ Settled(mem, cur, Top)
    BY <1>0, <1>1, ResumedMeant
<1>5. Meaning(mem, n, Top.in) = Before(Top.acc, InTurn(mem, n, Top.pc, Top.arg))
    BY <1>2, <1>4, ToDoIs
<1>6. InTurn(mem, n, Top.pc, Top.arg)
        = IF Good(ret) THEN Before(kept, after) ELSE No
    <2>1. ~ (Top.pc > Len(Kids(n))) /\ Top.pc <= Len(Kids(n))
        BY <1>2
    <2> QED BY <2>1, <1>4 DEF InTurn
<1>7. Good(ret) => kept \in Seq(Token) /\ Gathered(Top) = Top.acc \o kept
    <2>1. DOMAIN Kids(n) = 1 .. Len(Kids(n))
        BY <1>2, NodeFacts
    <2>2. Keeps(n, Top.pc) <=> Top.pc \in Valued(n)
        BY <1>2, <2>1 DEF Keeps, Valued
    <2> QED BY <1>2, <1>4, <2>2, EmptyTyped DEF Gathered
<1>8. Good(ret) => /\ after \in Outcomes(ret.st)
                   /\ after = InTurn(mem, n, Top.pc + 1, ret.st)
    <2>1. Top.pc + 1 \in Onward(n)
        BY <1>2, OnwardIs
    <2>2. {} \in KeysIn(mem, n, cur)
        BY NoKeysYet
    <2>3. ASSUME Good(ret)
          PROVE  /\ after \in Outcomes(ret.st)
                 /\ after = MeaningFromRule(mem, n, Top.pc + 1, ret.st, {})
        BY <2>1, <2>2, <2>3, <1>2, <1>4, Solved
    <2> QED BY <2>3, <1>2, FromRuleIs
<1>9. Good(ret) => /\ Gathered(Top) \in Seq(Token)
                   /\ Meaning(mem, n, Top.in) = Before(Gathered(Top), after)
    <2>1. ASSUME Good(ret)
          PROVE  Before(Top.acc, Before(kept, after))
                   = Before(Top.acc \o kept, after)
        BY <2>1, <1>2, <1>7, <1>8, BeforeBefore
    <2>2. ASSUME Good(ret) PROVE Top.acc \o kept \in Seq(Token)
        BY <2>2, <1>2, <1>7, ConcatProperties
    <2> QED BY <2>1, <2>2, <1>5, <1>6, <1>7
<1> HIDE DEF m, kept, after
<1>10. CASE ~ Good(ret)
    <2>1. Return(Failed(n))
        BY <1>1, <1>10 DEF ThreadStep
    <2>2. Meaning(mem, n, Top.in) = No
        BY <1>5, <1>6, <1>10, BeforeNo
    <2> QED BY <2>1, <2>2, <1>1, <1>2, <1>3, FailMeant
<1>11. CASE Good(ret) /\ Top.pc < Len(Kids(n))
    <2>1. PICK pc \in Nat : pc = Top.pc + 1
        BY <1>2
    <2>2. Continue(At(Top, pc, ret.st, ret.st, Gathered(Top), {}))
        BY <1>1, <1>11, <2>1 DEF ThreadStep
    <2> DEFINE f == At(Top, pc, ret.st, ret.st, Gathered(Top), {})
    <2>3. /\ f.node = n /\ f.st = ret.st /\ f.arg = ret.st /\ f.pc = pc
          /\ f.acc = Gathered(Top) /\ f.keys = {}
        BY AtKeeps, AtFields
    <2> HIDE DEF f
    <2>4. ToDo(mem, f) = Before(Gathered(Top), InTurn(mem, n, pc, ret.st))
        BY <2>3, <1>2, ToDoIs
    <2>5. Settled(mem, cur, f)
        BY <2>3, <1>2, NoKeysYet DEF Settled, ThreadOps, DelimitedOps
    <2>6. Meaning(mem, n, Top.in) = ToDo(mem, f)
        BY <2>1, <2>4, <1>8, <1>9, <1>11
    <2> QED BY <2>2, <2>5, <2>6, <1>1, <1>2, <1>9, <1>11, EmptyTyped,
               ContinueMeant DEF f
<1>12. CASE Good(ret) /\ ~ (Top.pc < Len(Kids(n)))
    <2>1. Return(Make(n, ret.st, Gathered(Top)))
        BY <1>1, <1>12 DEF ThreadStep
    <2>2. Top.pc + 1 > Len(Kids(n))
        BY <1>2, <1>12
    <2>3. after = Yes(ret.st, <<>>)
        BY <2>2, <1>2, <1>8, <1>12, NoneLeft
    <2>4. Meaning(mem, n, Top.in) = Yes(ret.st, Gathered(Top))
        BY <2>3, <1>9, <1>12, BeforeYes
    <2> QED BY <2>1, <2>4, <1>1, <1>2, <1>3, MakeMeant
<1> QED BY <1>10, <1>11, <1>12

LEMMA EitherMeant ==
    ASSUME IInv, GoodIffParsed, IsMeaning(Sources), OnTheWay, ResumeEither
    PROVE  OnTheWay'
<1> DEFINE n == Top.node
           m == Meaning(mem, Kids(n)[Top.pc], Top.in)
           after == MeaningFrom(mem, n, Top.pc + 1, Top.in, {})
<1>0. {"either"} \subseteq Ops \ LeafOps
    BY DEF Ops, LeafOps
<1>1. Resumed({"either"}) /\ EitherStep(Top) /\ UNCHANGED <<mem, cur>>
    BY DEF ResumeEither
<1>2. /\ stack # <<>> /\ n \in Node /\ Op(n) = "either"
      /\ Top.in \in State /\ Top.pc \in 1 .. Len(Kids(n))
      /\ Len(Kids(n)) \in Nat /\ Good(ret) \in BOOLEAN
    BY <1>0, <1>1, ResumedFacts DEF IInv
<1>3. Settled(mem, cur, Top)
    BY <1>0, <1>1, ResumedMeant
<1>4. Top.st = Top.in /\ Top.arg = Top.in
    BY <1>2, <1>3 DEF Settled, ThreadOps, DelimitedOps
<1>5. /\ m \in Outcomes(Top.in) /\ m.ok = Good(ret)
      /\ Good(ret) => ret.st = m.st /\ ret.val = m.val
      /\ Top.in \in Rests(cur)
      /\ Meaning(mem, n, Top.in) = ToDo(mem, Top)
    BY <1>0, <1>1, <1>4, ResumedMeant
<1>6. Meaning(mem, n, Top.in) = FirstGood(mem, n, Top.pc, Top.in)
    BY <1>2, <1>5, ToDoIs
<1>7. FirstGood(mem, n, Top.pc, Top.in) = IF Good(ret) THEN m ELSE after
    <2>1. ~ (Top.pc > Len(Kids(n))) /\ Top.pc <= Len(Kids(n))
        BY <1>2
    <2> QED BY <2>1, <1>5 DEF FirstGood
<1>8. after = FirstGood(mem, n, Top.pc + 1, Top.in)
    <2>1. Top.pc + 1 \in Onward(n)
        BY <1>2, OnwardIs
    <2>2. after = MeaningFromRule(mem, n, Top.pc + 1, Top.in, {})
        BY <2>1, <1>2, <1>5, NoKeysYet, Solved
    <2> QED BY <2>2, <1>2, FromRuleIs
<1> HIDE DEF m, after
<1>9. CASE Good(ret)
    <2>1. Return(Make(n, ret.st, ret.val))
        BY <1>1, <1>9 DEF EitherStep
    <2>2. m = Yes(ret.st, ret.val)
        BY <1>5, <1>9, OutcomeIs
    <2> QED BY <2>1, <2>2, <1>1, <1>2, <1>6, <1>7, <1>9, MakeMeant
<1>10. CASE ~ Good(ret) /\ Top.pc < Len(Kids(n))
    <2>1. PICK pc \in Nat : pc = Top.pc + 1
        BY <1>2
    <2> DEFINE f == At(Top, pc, Top.in, Top.in, <<>>, {})
    <2>2. Continue(f)
        BY <1>1, <1>4, <1>10, <2>1 DEF EitherStep
    <2>3. /\ f.node = n /\ f.in = Top.in /\ f.st = Top.in /\ f.arg = Top.in
          /\ f.pc = pc /\ f.keys = {}
        BY AtKeeps, AtFields
    <2> HIDE DEF f
    <2>4. ToDo(mem, f) = FirstGood(mem, n, pc, Top.in)
        BY <2>3, <1>2, ToDoIs
    <2>5. Settled(mem, cur, f)
        BY <2>3, <1>2, NoKeysYet DEF Settled, ThreadOps, DelimitedOps
    <2>6. Meaning(mem, n, Top.in) = ToDo(mem, f)
        BY <2>1, <2>4, <1>6, <1>7, <1>8, <1>10
    <2> QED BY <2>2, <2>5, <2>6, <1>1, <1>2, EmptyTyped, ContinueMeant DEF f
<1>11. CASE ~ Good(ret) /\ ~ (Top.pc < Len(Kids(n)))
    <2>1. Return(Failed(n))
        BY <1>1, <1>11 DEF EitherStep
    <2>2. Top.pc + 1 > Len(Kids(n))
        BY <1>2, <1>11
    <2>3. Meaning(mem, n, Top.in) = No
        BY <2>2, <1>2, <1>6, <1>7, <1>8, <1>11, NoneLeft
    <2> QED BY <2>1, <2>3, <1>1, <1>2, FailMeant
<1> QED BY <1>9, <1>10, <1>11

LEMMA FoldMeant ==
    ASSUME IInv, GoodIffParsed, IsMeaning(Sources), OnTheWay, ResumeFold
    PROVE  OnTheWay'
<1> DEFINE n == Top.node
           m == Meaning(mem, Kids(n)[Top.pc], Top.arg)
           more == Repeated(mem, n, ret.st)
<1>0. {"fold_left"} \subseteq Ops \ LeafOps
    BY DEF Ops, LeafOps
<1>1. Resumed({"fold_left"}) /\ FoldStep(Top) /\ UNCHANGED <<mem, cur>>
    BY DEF ResumeFold
<1>2. /\ stack # <<>> /\ n \in Node /\ Op(n) = "fold_left"
      /\ Top.acc \in Seq(Token) /\ ret.st \in State /\ ret.val \in Seq(Token)
      /\ Top.pc \in 1 .. Len(Kids(n)) /\ Len(Kids(n)) \in Arity(Op(n))
      /\ Good(ret) \in BOOLEAN
    BY <1>0, <1>1, ResumedFacts DEF IInv
<1>3. Top.pc = 1 \/ Top.pc = 2
    <2>1. Len(Kids(n)) = 2
        BY <1>2 DEF Arity, LeafOps, ProbeOps, TryOps, DelimitedOps
    <2> QED BY <2>1, <1>2
<1>4. /\ m.ok = Good(ret)
      /\ Good(ret) => ret.st = m.st /\ ret.val = m.val
      /\ Good(ret) => ret.st \in Rests(cur)
      /\ Meaning(mem, n, Top.in) = ToDo(mem, Top)
      /\ Settled(mem, cur, Top)
    BY <1>0, <1>1, ResumedMeant
<1>5. Top.st = Top.arg
    BY <1>2, <1>4 DEF Settled, ThreadOps, DelimitedOps
<1>6. Good(ret) => /\ more \in Outcomes(ret.st)
                   /\ more = MeaningFrom(mem, n, 2, ret.st, {})
    <2>1. 2 \in Onward(n) /\ {} \in KeysIn(mem, n, cur)
        BY <1>2, OnwardIs, NoKeysYet
    <2>2. ASSUME Good(ret)
          PROVE  /\ MeaningFrom(mem, n, 2, ret.st, {}) \in Outcomes(ret.st)
                 /\ MeaningFrom(mem, n, 2, ret.st, {})
                      = MeaningFromRule(mem, n, 2, ret.st, {})
        BY <2>1, <2>2, <1>2, <1>4, Solved
    <2> QED BY <2>2, <1>2, FromRuleIs
\* Either parser, when it matches, is followed by what parser 2 repeats.
<1>7. Good(ret) => Meaning(mem, n, Top.in)
                     = Before(Top.acc, Before(ret.val, more))
    <2>1. CASE Top.pc = 1
        <3>1. Meaning(mem, n, Top.in) = Before(Top.acc, Fold(mem, n, Top.arg))
            BY <2>1, <1>2, <1>4, ToDoIs
        <3>2. Good(ret) => Fold(mem, n, Top.arg) = Before(ret.val, more)
            BY <2>1, <1>4 DEF Fold
        <3> QED BY <3>1, <3>2
    <2>2. CASE Top.pc = 2
        <3>1. Meaning(mem, n, Top.in)
                = Before(Top.acc, Repeated(mem, n, Top.arg))
            BY <2>2, <1>2, <1>4, ToDoIs
        <3>2. Good(ret) => Repeated(mem, n, Top.arg) = Before(ret.val, more)
            BY <2>2, <1>4, <1>6 DEF Repeated
        <3> QED BY <3>1, <3>2
    <2> QED BY <2>1, <2>2, <1>3
<1>8. Good(ret) => /\ Top.acc \o ret.val \in Seq(Token)
                   /\ Meaning(mem, n, Top.in)
                        = Before(Top.acc \o ret.val, more)
    BY <1>2, <1>6, <1>7, BeforeBefore, ConcatProperties
<1>9. CASE Good(ret)
    <2>0. PICK acc \in Seq(Token) : acc = Top.acc \o ret.val
        BY <1>8, <1>9
    <2> DEFINE f == At(Top, 2, ret.st, ret.st, acc, {})
    <2>1. Continue(f)
        BY <1>1, <1>9, <2>0 DEF FoldStep
    <2>2. /\ f.node = n /\ f.st = ret.st /\ f.arg = ret.st /\ f.pc = 2
          /\ f.acc = acc /\ f.keys = {}
        BY AtKeeps, AtFields
    <2> HIDE DEF f
    <2>3. Meaning(mem, n, Top.in) = ToDo(mem, f)
        <3>1. Meaning(mem, n, Top.in) = Before(acc, more)
            BY <2>0, <1>8, <1>9
        <3> QED BY <3>1, <2>2, <1>2, ToDoIs
    <2>4. Settled(mem, cur, f)
        BY <2>2, <1>2, NoKeysYet DEF Settled, ThreadOps, DelimitedOps
    <2> QED BY <2>1, <2>3, <2>4, <1>1, <1>2, <1>8, <1>9, EmptyTyped,
               ContinueMeant DEF f
<1>10. CASE ~ Good(ret) /\ Top.pc = 1
    <2>1. Return(Failed(n))
        BY <1>1, <1>10 DEF FoldStep
    <2>2. Meaning(mem, n, Top.in) = Before(Top.acc, Fold(mem, n, Top.arg))
        BY <1>2, <1>4, <1>10, ToDoIs
    <2>3. Fold(mem, n, Top.arg) = No
        BY <1>4, <1>10 DEF Fold
    <2> QED BY <2>1, <2>2, <2>3, <1>1, <1>2, BeforeNo, FailMeant
<1>11. CASE ~ Good(ret) /\ Top.pc = 2
    <2>1. Return(Make(n, Top.st, Top.acc))
        BY <1>1, <1>11 DEF FoldStep
    <2>2. Meaning(mem, n, Top.in) = Before(Top.acc, Repeated(mem, n, Top.arg))
        BY <1>2, <1>4, <1>11, ToDoIs
    <2>3. Repeated(mem, n, Top.arg) = Yes(Top.st, <<>>)
        BY <1>4, <1>5, <1>11 DEF Repeated
    <2> QED BY <2>1, <2>2, <2>3, <1>1, <1>2, BeforeYes, MakeMeant
<1> QED BY <1>3, <1>9, <1>10, <1>11

\* An element has been parsed, and the rest of the list comes behind it.
LEMMA ElementParsed ==
    ASSUME IInv, IsMeaning(Sources),
           NEW n \in Node, Op(n) \in DelimitedOps \union {"sequence"},
           Kids(n)[Elem(n)] \in Node,
           NEW next \in Rests(cur), NEW keys \in KeysIn(mem, n, cur),
           NEW m, m = Meaning(mem, Kids(n)[Elem(n)], next), m.ok,
           cur \in State
    PROVE  /\ m.st \in Rests(cur) /\ m.val \in Seq(Token)
           /\ KeysWith(n, keys, m.val) \in KeysIn(mem, n, cur)
           /\ \A ks \in KeysIn(mem, n, cur) :
                /\ MeaningFrom(mem, n, Sep(n), m.st, ks) \in Outcomes(m.st)
                /\ MeaningFrom(mem, n, Sep(n), m.st, ks)
                     = Elements(mem, n, m.st, ks)
<1>1. m \in Outcomes(next)
    BY Solved
<1>2. m.st \in Rests(cur) /\ m.val \in Seq(Token)
    BY <1>1, OutcomeIs, RestsTyped
<1>3. KeysWith(n, keys, m.val) \in KeysIn(mem, n, cur)
    <2>1. CASE Op(n) = "parse_map"
        <3>1. Elem(n) = 2
            BY <2>1 DEF Elem
        <3>2. KeyOf(m.val) \in
                {KeyOf(Meaning(mem, Kids(n)[2], v).val) : v \in Rests(cur)}
            BY <3>1
        <3> QED BY <2>1, <3>2 DEF KeysIn, KeysWith
    <2>2. CASE Op(n) # "parse_map"
        BY <2>2 DEF KeysIn, KeysWith
    <2> QED BY <2>1, <2>2
<1>4. Sep(n) \in Onward(n)
    BY OnwardIs DEF Sep, Elem, DelimitedOps
<1>5. \A ks \in KeysIn(mem, n, cur) :
        /\ MeaningFrom(mem, n, Sep(n), m.st, ks) \in Outcomes(m.st)
        /\ MeaningFrom(mem, n, Sep(n), m.st, ks) = Elements(mem, n, m.st, ks)
    BY <1>2, <1>4, Solved, FromRuleIs
<1> QED BY <1>2, <1>3, <1>5

\* It is put behind what the list had, unless it is one the map knows.
LEMMA ElementMeant ==
    ASSUME IInv, IsMeaning(Sources),
           NEW n \in Node, Op(n) \in DelimitedOps \union {"sequence"},
           Kids(n)[Elem(n)] \in Node,
           NEW next \in Rests(cur), NEW keys \in KeysIn(mem, n, cur),
           NEW m, m = Meaning(mem, Kids(n)[Elem(n)], next), m.ok,
           NEW acc \in Seq(Token), cur \in State
    PROVE  /\ Known(mem, n, keys, m.val)
                => Before(acc, Element(mem, n, keys, m))
                     = Before(acc, Elements(mem, n, m.st, keys))
           /\ ~ Known(mem, n, keys, m.val)
                => /\ KeysWith(n, keys, m.val) \in KeysIn(mem, n, cur)
                   /\ acc \o m.val \in Seq(Token)
                   /\ Before(acc, Element(mem, n, keys, m))
                        = Before(acc \o m.val,
                                 Elements(mem, n, m.st,
                                          KeysWith(n, keys, m.val)))
<1> DEFINE after(ks) == MeaningFrom(mem, n, Sep(n), m.st, ks)
<1>1. /\ m.st \in Rests(cur) /\ m.val \in Seq(Token)
      /\ KeysWith(n, keys, m.val) \in KeysIn(mem, n, cur)
      /\ \A ks \in KeysIn(mem, n, cur) :
            /\ after(ks) \in Outcomes(m.st)
            /\ after(ks) = Elements(mem, n, m.st, ks)
    BY ElementParsed
<1>2. CASE Known(mem, n, keys, m.val)
    <2>1. Element(mem, n, keys, m) = after(keys)
        BY <1>2 DEF Element
    <2> QED BY <2>1, <1>1, <1>2
<1>3. CASE ~ Known(mem, n, keys, m.val)
    <2> DEFINE ks == KeysWith(n, keys, m.val)
    <2>1. Element(mem, n, keys, m) = Before(m.val, after(ks))
        BY <1>3 DEF Element
    <2> HIDE DEF ks, after
    <2>2. Before(acc, Before(m.val, after(ks))) = Before(acc \o m.val, after(ks))
        BY <1>1, BeforeBefore DEF ks
    <2>3. acc \o m.val \in Seq(Token)
        BY <1>1, ConcatProperties
    <2> QED BY <2>1, <2>2, <2>3, <1>1, <1>3 DEF ks
<1> QED BY <1>2, <1>3

LEMMA ElementAtIs ==
    ASSUME IInv, IsMeaning(Sources),
           NEW n \in Node, Op(n) \in DelimitedOps \union {"sequence"},
           Kids(n)[Elem(n)] \in Node, cur \in State,
           NEW st \in Rests(cur), NEW next \in Rests(cur),
           NEW keys \in KeysIn(mem, n, cur)
    PROVE  ElementAt(mem, n, st, next, keys) \in Outcomes(cur)
<1> DEFINE m == Meaning(mem, Kids(n)[Elem(n)], next)
           after(ks) == MeaningFrom(mem, n, Sep(n), m.st, ks)
<1>1. m \in Outcomes(next)
    BY Solved
<1>2. CASE m.ok
    <2>1. /\ m.st \in Rests(cur) /\ m.val \in Seq(Token)
          /\ KeysWith(n, keys, m.val) \in KeysIn(mem, n, cur)
          /\ \A ks \in KeysIn(mem, n, cur) : after(ks) \in Outcomes(m.st)
        BY <1>2, ElementParsed
    <2>2. ElementAt(mem, n, st, next, keys) = Element(mem, n, keys, m)
        BY <1>2 DEF ElementAt
    <2> HIDE DEF m
    <2>3. \/ Element(mem, n, keys, m) = after(keys)
          \/ Element(mem, n, keys, m)
                = Before(m.val, after(KeysWith(n, keys, m.val)))
        BY DEF Element
    <2> HIDE DEF after
    <2>4. Element(mem, n, keys, m) \in Outcomes(m.st)
        BY <2>1, <2>3, BeforeIs
    <2> QED BY <2>1, <2>2, <2>4, OutcomeWidens
<1>3. CASE ~ m.ok
    <2>1. ElementAt(mem, n, st, next, keys) = Yes(st, <<>>)
        BY <1>3 DEF ElementAt
    <2> QED BY <2>1, EmptyTyped, YesIs
<1> QED BY <1>1, <1>2, <1>3, OutcomeIs

LEMMA SequenceMeant ==
    ASSUME IInv, GoodIffParsed, IsMeaning(Sources), OnTheWay, ResumeSequence
    PROVE  OnTheWay'
<1> DEFINE n == Top.node
           m == Meaning(mem, Kids(n)[Top.pc], Top.arg)
<1>0. {"sequence"} \subseteq Ops \ LeafOps
    BY DEF Ops, LeafOps
<1>1. Resumed({"sequence"}) /\ SequenceStep(Top) /\ UNCHANGED <<mem, cur>>
    BY DEF ResumeSequence
<1>2. /\ stack # <<>> /\ n \in Node /\ Op(n) = "sequence"
      /\ Top.st \in State /\ Top.acc \in Seq(Token)
      /\ Top.keys \in SUBSET Seq(Token)
      /\ ret.st \in State /\ ret.val \in Seq(Token)
      /\ Top.pc \in 1 .. Len(Kids(n)) /\ Len(Kids(n)) \in Arity(Op(n))
      /\ Good(ret) \in BOOLEAN
    BY <1>0, <1>1, ResumedFacts DEF IInv
<1>3. Top.pc = 1 \/ Top.pc = 2
    <2>1. Len(Kids(n)) = 2
        BY <1>2 DEF Arity, LeafOps, ProbeOps, TryOps, DelimitedOps
    <2> QED BY <2>1, <1>2
<1>4. /\ Kids(n)[Top.pc] \in Node /\ cur \in State
      /\ m.ok = Good(ret)
      /\ Good(ret) => ret.st = m.st /\ ret.val = m.val
      /\ Top.arg \in Rests(cur)
      /\ Meaning(mem, n, Top.in) = ToDo(mem, Top)
      /\ Settled(mem, cur, Top)
    BY <1>0, <1>1, ResumedMeant
<1>5. /\ Top.pc = 2 => Top.st = Top.arg
      /\ Top.keys = {}
    BY <1>2, <1>4 DEF Settled, KeysIn
<1>6. Elem(n) = 1 /\ Sep(n) = 2
    BY <1>2 DEF Elem, Sep
<1>7. CASE Top.pc = 1
    <2>1. Meaning(mem, n, Top.in)
            = Before(Top.acc, ElementAt(mem, n, Top.st, Top.arg, {}))
        BY <1>2, <1>4, <1>7, ToDoIs
    <2>2. CASE Good(ret)
        <3>0. PICK acc \in Seq(Token) : acc = Top.acc \o ret.val
            BY <1>2, ConcatProperties
        <3> DEFINE f == At(Top, 2, ret.st, ret.st, acc, {})
        <3>1. Continue(f)
            BY <1>1, <1>7, <2>2, <3>0 DEF SequenceStep, AfterElem
        <3>2. /\ f.node = n /\ f.st = ret.st /\ f.arg = ret.st /\ f.pc = 2
              /\ f.acc = acc /\ f.keys = {}
            BY AtKeeps, AtFields
        <3> HIDE DEF f
        <3>3. ElementAt(mem, n, Top.st, Top.arg, {}) = Element(mem, n, {}, m)
            BY <1>4, <1>6, <1>7, <2>2 DEF ElementAt
        <3>4. ~ Known(mem, n, {}, m.val) /\ KeysWith(n, {}, m.val) = {}
            BY <1>2 DEF Known, KeysWith
        <3>5. Before(Top.acc, Element(mem, n, {}, m))
                = Before(acc, Elements(mem, n, ret.st, {}))
            <4>1. m = Meaning(mem, Kids(n)[Elem(n)], Top.arg) /\ m.ok
                BY <1>4, <1>6, <1>7, <2>2
            <4>2. Kids(n)[Elem(n)] \in Node /\ {} \in KeysIn(mem, n, cur)
                BY <1>4, <1>6, <1>7, NoKeysYet
            <4> HIDE DEF m
            <4>3. Before(Top.acc, Element(mem, n, {}, m))
                    = Before(Top.acc \o m.val,
                             Elements(mem, n, m.st, KeysWith(n, {}, m.val)))
                <5>1. Op(n) \in DelimitedOps \union {"sequence"}
                    BY <1>2
                <5> QED BY <4>1, <4>2, <5>1, <3>4, <1>2, <1>4, ElementMeant
            <4> QED BY <4>3, <3>0, <3>4, <1>4, <2>2
        <3>6. Meaning(mem, n, Top.in) = ToDo(mem, f)
            BY <2>1, <3>2, <3>3, <3>5, <1>2, ToDoIs
        <3>7. Settled(mem, cur, f)
            BY <3>2, <1>2, NoKeysYet DEF Settled, ThreadOps, DelimitedOps
        <3> QED BY <3>1, <3>6, <3>7, <1>1, <1>2, EmptyTyped, ContinueMeant
                DEF f
    <2>3. CASE ~ Good(ret)
        <3>1. Return(Make(n, Top.st, Top.acc))
            BY <1>1, <2>3 DEF SequenceStep
        <3>2. ElementAt(mem, n, Top.st, Top.arg, {}) = Yes(Top.st, <<>>)
            BY <1>4, <1>6, <1>7, <2>3 DEF ElementAt
        <3> QED BY <3>1, <3>2, <2>1, <1>1, <1>2, BeforeYes, MakeMeant
    <2> QED BY <2>2, <2>3
<1>8. CASE Top.pc = 2
    <2>1. Meaning(mem, n, Top.in)
            = Before(Top.acc, Elements(mem, n, Top.st, {}))
        BY <1>2, <1>4, <1>5, <1>8, ToDoIs
    <2>2. CASE Good(ret)
        <3> DEFINE f == At(Top, 1, Top.st, ret.st, Top.acc, {})
        <3>1. Continue(f)
            BY <1>1, <1>5, <1>8, <2>2 DEF SequenceStep, AfterSep
        <3>2. /\ f.node = n /\ f.st = Top.st /\ f.arg = ret.st /\ f.pc = 1
              /\ f.acc = Top.acc /\ f.keys = {}
            BY AtKeeps, AtFields
        <3> HIDE DEF f
        <3>3. Elements(mem, n, Top.st, {})
                = ElementAt(mem, n, Top.st, ret.st, {})
            BY <1>4, <1>5, <1>6, <1>8, <2>2 DEF Elements
        <3>4. Meaning(mem, n, Top.in) = ToDo(mem, f)
            BY <2>1, <3>2, <3>3, <1>2, ToDoIs
        <3>5. Settled(mem, cur, f)
            BY <3>2, <1>2, NoKeysYet DEF Settled, ThreadOps, DelimitedOps
        <3> QED BY <3>1, <3>4, <3>5, <1>1, <1>2, EmptyTyped, ContinueMeant
                DEF f
    <2>3. CASE ~ Good(ret)
        <3>1. Return(Make(n, Top.st, Top.acc))
            BY <1>1, <2>3 DEF SequenceStep
        <3>2. Elements(mem, n, Top.st, {}) = Yes(Top.st, <<>>)
            BY <1>4, <1>5, <1>6, <1>8, <2>3 DEF Elements
        <3> QED BY <3>1, <3>2, <2>1, <1>1, <1>2, BeforeYes, MakeMeant
    <2> QED BY <2>2, <2>3
<1> QED BY <1>3, <1>7, <1>8

\* A frame of a list in brackets goes on.
LEMMA DelimitedContinues ==
    ASSUME IInv, OnTheWay, stack # <<>>, UNCHANGED <<mem, cur>>,
           Op(Top.node) \in DelimitedOps,
           NEW pc \in {2, 3, 4}, NEW st \in State, NEW arg \in State,
           NEW acc \in Seq(Token), NEW keys \in SUBSET Seq(Token),
           Continue(At(Top, pc, st, arg, acc, keys)),
           keys \in KeysIn(mem, Top.node, cur), pc \in {3, 4} => st = arg,
           Meaning(mem, Top.node, Top.in)
             = Closed(mem, Top.node,
                      CASE pc = 2 -> Before(acc, ElementAt(mem, Top.node,
                                                           st, arg, keys))
                        [] pc = 3 -> Before(acc, Elements(mem, Top.node,
                                                          arg, keys))
                        [] pc = 4 -> Yes(arg, acc))
    PROVE  OnTheWay'
<1> DEFINE f == At(Top, pc, st, arg, acc, keys)
<1>1. /\ f.node = Top.node /\ f.in = Top.in /\ f.st = st /\ f.arg = arg
      /\ f.pc = pc /\ f.acc = acc /\ f.keys = keys
    BY AtKeeps, AtFields
<1>2. Continue(f)
    OBVIOUS
<1> HIDE DEF f
<1>3. Meaning(mem, Top.node, Top.in) = ToDo(mem, f)
    <2>1. CASE pc = 2
        BY <2>1, <1>1, ToDoIs
    <2>2. CASE pc = 3
        BY <2>2, <1>1, ToDoIs
    <2>3. CASE pc = 4
        BY <2>3, <1>1, ToDoIs
    <2> QED BY <2>1, <2>2, <2>3
<1>4. Settled(mem, cur, f)
    BY <1>1 DEF Settled, ThreadOps, DelimitedOps
<1>5. pc \in Nat
    OBVIOUS
<1> QED BY <1>2, <1>3, <1>4, <1>5, ContinueMeant DEF f

LEMMA DelimitedMeant ==
    ASSUME IInv, GoodIffParsed, IsMeaning(Sources), OnTheWay, ResumeDelimited
    PROVE  OnTheWay'
<1> DEFINE n == Top.node
           m == Meaning(mem, Kids(n)[Top.pc], Top.arg)
<1>0. DelimitedOps \subseteq Ops \ LeafOps /\ "read" \notin DelimitedOps
    BY DEF DelimitedOps, Ops, LeafOps
<1>1. Resumed(DelimitedOps) /\ DelimitedStep(Top) /\ UNCHANGED <<mem, cur>>
    BY DEF ResumeDelimited
<1>2. /\ stack # <<>> /\ n \in Node /\ Op(n) \in DelimitedOps
      /\ Op(n) # "read"
      /\ Top.st \in State /\ Top.arg \in State /\ Top.acc \in Seq(Token)
      /\ Top.keys \in SUBSET Seq(Token)
      /\ ret.st \in State /\ ret.val \in Seq(Token)
      /\ Top.pc \in 1 .. Len(Kids(n)) /\ Len(Kids(n)) \in Arity(Op(n))
      /\ Good(ret) \in BOOLEAN
    BY <1>0, <1>1, ResumedFacts DEF IInv
<1>3. Len(Kids(n)) = 4
    BY <1>2 DEF Arity, LeafOps, ProbeOps, TryOps, DelimitedOps
<1>4. Top.pc \in {1, 2, 3, 4}
    BY <1>2, <1>3
<1>5. /\ Kids(n)[Top.pc] \in Node /\ cur \in State
      /\ m.ok = Good(ret)
      /\ Good(ret) => ret.st = m.st /\ ret.val = m.val
      /\ Good(ret) => ret.st \in Rests(cur)
      /\ Top.arg \in Rests(cur)
      /\ Meaning(mem, n, Top.in) = ToDo(mem, Top)
      /\ Settled(mem, cur, Top)
    BY <1>0, <1>1, ResumedMeant
<1>6. /\ Top.pc = 1 => Top.arg = Top.in
      /\ Top.pc \in {3, 4} => Top.st = Top.arg
      /\ Top.keys \in KeysIn(mem, n, cur)
    BY <1>2, <1>5 DEF Settled
<1>7. Elem(n) = 2 /\ Sep(n) = 3
    BY <1>2 DEF Elem, Sep, DelimitedOps
<1>8. Op(n) \in DelimitedOps \union {"sequence"}
    BY <1>2
<1>9. CASE Top.pc = 1
    <2>1. Meaning(mem, n, Top.in) = Enclosed(mem, n, Top.arg)
        BY <1>2, <1>5, <1>6, <1>9, ToDoIs
    <2>2. CASE Good(ret)
        <3> DEFINE list == ElementAt(mem, n, ret.st, ret.st, {})
        <3>1. Continue(At(Top, 2, ret.st, ret.st, <<>>, {}))
            BY <1>1, <1>9, <2>2 DEF DelimitedStep
        <3>2. Meaning(mem, n, Top.in) = Closed(mem, n, list)
            BY <2>1, <2>2, <1>5, <1>9 DEF Enclosed, List
        <3>3. {} \in KeysIn(mem, n, cur)
            BY NoKeysYet
        <3>4. Kids(n)[2] \in Node
            BY <1>2, <1>3, NodeFacts
        <3>5. list \in Outcomes(cur)
            BY <3>3, <3>4, <2>2, <1>2, <1>5, <1>7, <1>8, ElementAtIs
        <3>6. Before(<<>>, list) = list
            BY <3>5, BeforeNothing
        <3>7. PICK acc \in Seq(Token), keys \in SUBSET Seq(Token) :
                acc = <<>> /\ keys = {}
            BY EmptyTyped
        <3>8. /\ Continue(At(Top, 2, ret.st, ret.st, acc, keys))
              /\ keys \in KeysIn(mem, n, cur)
              /\ Meaning(mem, n, Top.in)
                   = Closed(mem, n, Before(acc, ElementAt(mem, n, ret.st,
                                                          ret.st, keys)))
            BY <3>1, <3>2, <3>3, <3>6, <3>7
        <3> QED BY <3>8, <1>1, <1>2, DelimitedContinues
    <2>3. CASE ~ Good(ret)
        <3>1. Return(Failed(n))
            BY <1>1, <1>9, <2>3 DEF DelimitedStep
        <3>2. Meaning(mem, n, Top.in) = No
            BY <2>1, <2>3, <1>5, <1>9 DEF Enclosed
        <3> QED BY <3>1, <3>2, <1>1, <1>2, FailMeant
    <2> QED BY <2>2, <2>3
<1>10. CASE Top.pc = 2
    <2>1. Meaning(mem, n, Top.in)
            = Closed(mem, n, Before(Top.acc, ElementAt(mem, n, Top.st, Top.arg,
                                                       Top.keys)))
        BY <1>2, <1>5, <1>10, ToDoIs
    <2>2. CASE Good(ret)
        <3>1. Continue(Stored(Top))
            BY <1>1, <1>10, <2>2 DEF DelimitedStep
        <3>2. ElementAt(mem, n, Top.st, Top.arg, Top.keys)
                = Element(mem, n, Top.keys, m)
            BY <1>5, <1>7, <1>10, <2>2 DEF ElementAt
        <3>3. m = Meaning(mem, Kids(n)[Elem(n)], Top.arg) /\ m.ok
            BY <1>5, <1>7, <1>10, <2>2
        <3>4. Kids(n)[Elem(n)] \in Node
            BY <1>5, <1>7, <1>10
        <3> HIDE DEF m
        <3>5. CASE Known(mem, n, Top.keys, m.val)
            <4>1. Stored(Top) = At(Top, 3, ret.st, ret.st, Top.acc, Top.keys)
                BY <3>5, <1>5, <2>2 DEF Stored, Emplace, Known
            <4>2. Before(Top.acc, Element(mem, n, Top.keys, m))
                    = Before(Top.acc, Elements(mem, n, ret.st, Top.keys))
                BY <3>3, <3>4, <3>5, <2>2, <1>2, <1>5, <1>6, <1>8, ElementMeant
            <4> QED BY <4>1, <4>2, <3>1, <3>2, <2>1, <1>1, <1>2, <1>6,
                       DelimitedContinues
        <3>6. CASE ~ Known(mem, n, Top.keys, m.val)
            <4> DEFINE ks == KeysWith(n, Top.keys, ret.val)
            <4>1. /\ ks \in KeysIn(mem, n, cur)
                  /\ Top.acc \o ret.val \in Seq(Token)
                  /\ Before(Top.acc, Element(mem, n, Top.keys, m))
                       = Before(Top.acc \o ret.val,
                                Elements(mem, n, ret.st, ks))
                BY <3>3, <3>4, <3>6, <2>2, <1>2, <1>5, <1>6, <1>8, ElementMeant
            <4>2. PICK acc \in Seq(Token) : acc = Top.acc \o ret.val
                BY <4>1
            <4>3. Stored(Top) = At(Top, 3, ret.st, ret.st, acc, ks)
                BY <4>2, <3>6, <1>5, <2>2
                DEF Stored, Emplace, AfterElem, Known, KeysWith
            <4>4. ks \in SUBSET Seq(Token)
                BY <1>2, KeyTyped, EmptyTyped DEF KeysWith
            <4> HIDE DEF ks
            <4>5. Meaning(mem, n, Top.in)
                    = Closed(mem, n, Before(acc, Elements(mem, n, ret.st, ks)))
                BY <4>1, <4>2, <3>2, <2>1
            <4>6. Continue(At(Top, 3, ret.st, ret.st, acc, ks))
                BY <4>3, <3>1
            <4> QED BY <4>1, <4>4, <4>5, <4>6, <1>1, <1>2, DelimitedContinues
        <3> QED BY <3>5, <3>6
    <2>3. CASE ~ Good(ret)
        <3>1. Continue(At(Top, 4, Top.st, Top.st, Top.acc, Top.keys))
            BY <1>1, <1>10, <2>3 DEF DelimitedStep
        <3>2. ElementAt(mem, n, Top.st, Top.arg, Top.keys) = Yes(Top.st, <<>>)
            BY <1>5, <1>7, <1>10, <2>3 DEF ElementAt
        <3>3. Meaning(mem, n, Top.in) = Closed(mem, n, Yes(Top.st, Top.acc))
            BY <2>1, <3>2, <1>2, BeforeYes
        <3> QED BY <3>1, <3>3, <1>1, <1>2, <1>6, DelimitedContinues
    <2> QED BY <2>2, <2>3
<1>11. CASE Top.pc = 3
    <2>1. Meaning(mem, n, Top.in)
            = Closed(mem, n, Before(Top.acc, Elements(mem, n, Top.st,
                                                      Top.keys)))
        BY <1>2, <1>5, <1>6, <1>11, ToDoIs
    <2>2. CASE Good(ret)
        <3>1. Continue(At(Top, 2, Top.st, ret.st, Top.acc, Top.keys))
            BY <1>1, <1>11, <2>2 DEF DelimitedStep, AfterSep
        <3>2. Elements(mem, n, Top.st, Top.keys)
                = ElementAt(mem, n, Top.st, ret.st, Top.keys)
            BY <1>5, <1>6, <1>7, <1>11, <2>2 DEF Elements
        <3> QED BY <3>1, <3>2, <2>1, <1>1, <1>2, <1>6, DelimitedContinues
    <2>3. CASE ~ Good(ret)
        <3>1. Continue(At(Top, 4, Top.st, Top.st, Top.acc, Top.keys))
            BY <1>1, <1>11, <2>3 DEF DelimitedStep
        <3>2. Elements(mem, n, Top.st, Top.keys) = Yes(Top.st, <<>>)
            BY <1>5, <1>6, <1>7, <1>11, <2>3 DEF Elements
        <3>3. Meaning(mem, n, Top.in) = Closed(mem, n, Yes(Top.st, Top.acc))
            BY <2>1, <3>2, <1>2, BeforeYes
        <3> QED BY <3>1, <3>3, <1>1, <1>2, <1>6, DelimitedContinues
    <2> QED BY <2>2, <2>3
<1>12. CASE Top.pc = 4
    <2>1. Meaning(mem, n, Top.in) = Closed(mem, n, Yes(Top.arg, Top.acc))
        BY <1>2, <1>5, <1>12, ToDoIs
    <2>2. Closed(mem, n, Yes(Top.arg, Top.acc))
            = IF m.ok THEN Yes(m.st, Top.acc) ELSE No
        BY <1>12 DEF Closed, Yes
    <2>3. CASE Good(ret)
        <3>1. Return(Make(n, ret.st, Top.acc))
            BY <1>1, <1>12, <2>3 DEF DelimitedStep
        <3>2. Meaning(mem, n, Top.in) = Yes(ret.st, Top.acc)
            BY <2>1, <2>2, <2>3, <1>5
        <3> QED BY <3>1, <3>2, <1>1, <1>2, MakeMeant
    <2>4. CASE ~ Good(ret)
        <3>1. Return(Failed(n))
            BY <1>1, <1>12, <2>4 DEF DelimitedStep
        <3>2. Meaning(mem, n, Top.in) = No
            BY <2>1, <2>2, <2>4, <1>5
        <3> QED BY <3>1, <3>2, <1>1, <1>2, FailMeant
    <2> QED BY <2>3, <2>4
<1> QED BY <1>4, <1>9, <1>10, <1>11, <1>12

LEMMA UnaryIs ==
    ASSUME NEW n, NEW st, NEW p
    PROVE  /\ Op(n) \in ProbeOps
                => Unary(n, st, p) = Yes(st, Bool(n, st, p.ok))
           /\ Op(n) = "test_then"
                => Unary(n, st, p) = Yes(IF p.ok THEN p.st ELSE st,
                                         Bool(n, st, p.ok))
           /\ Op(n) = "try_parse"
                => Unary(n, st, p)
                     = IF p.ok THEN Yes(p.st, Mark(n, st) \o p.val)
                               ELSE Yes(st, <<>>)
           /\ Op(n) = "try_lookahead"
                => Unary(n, st, p)
                     = Yes(st, IF p.ok THEN Mark(n, st) \o p.val ELSE <<>>)
           /\ Op(n) = "lookahead"
                => Unary(n, st, p) = IF p.ok THEN Yes(st, p.val) ELSE No
           /\ Op(n) \in {"recurse", "read"} => Unary(n, st, p) = p
BY DEF Unary, ProbeOps

\* A parser that is tested has made a true value where it matched.
LEMMA ProbeTells ==
    ASSUME IInv, ProbesTell, NEW n \in Node, Op(n) \in ProbeOps,
           NEW v \in Rests(cur), Meaning(mem, Kids(n)[1], v).ok
    PROVE  Meaning(mem, Kids(n)[1], v).val # <<>>
<1>1. PICK s \in Sources : mem = s.mem /\ Within(cur, s.view)
    BY DEF IInv, ViewSound
<1>2. cur \in State /\ s.view \in State
    BY SourcesAssumption DEF IInv, TypeOK
<1>3. v \in Rests(s.view)
    BY <1>1, <1>2, WithinIsRest, RestsTyped
<1> QED BY <1>1, <1>3 DEF ProbesTell

LEMMA UnaryMeant ==
    ASSUME IInv, GoodIffParsed, IsMeaning(Sources), ProbesTell, OnTheWay,
           \/ ResumeProbe \/ ResumeTestThen \/ ResumeTry
           \/ ResumeLookahead \/ ResumeRecurse
    PROVE  OnTheWay'
<1> DEFINE n == Top.node
           m == Meaning(mem, Kids(n)[1], Top.in)
           unary == ProbeOps \union TryOps
                        \union {"test_then", "lookahead", "recurse"}
<1>0. unary \subseteq Ops \ LeafOps /\ "read" \notin unary
    BY DEF ProbeOps, TryOps, Ops, LeafOps
<1>1. Resumed(unary) /\ UNCHANGED <<mem, cur>>
    BY DEF Resumed, ResumeProbe, ResumeTestThen, ResumeTry, ResumeLookahead,
           ResumeRecurse
<1>2. /\ stack # <<>> /\ n \in Node /\ Op(n) \in unary /\ Op(n) # "read"
      /\ Top.pc \in 1 .. Len(Kids(n)) /\ Len(Kids(n)) \in Arity(Op(n))
      /\ Good(ret) \in BOOLEAN
    <2> HIDE DEF unary
    <2> QED BY <1>0, <1>1, ResumedFacts DEF IInv
<1>3. Top.pc = 1
    <2>1. Len(Kids(n)) = 1
        BY <1>2 DEF Arity, LeafOps, ProbeOps, TryOps, DelimitedOps
    <2> QED BY <2>1, <1>2
<1>4. Settled(mem, cur, Top)
    <2> HIDE DEF unary
    <2> QED BY <1>0, <1>1, ResumedMeant
<1>5. Top.st = Top.in /\ Top.arg = Top.in
    BY <1>2, <1>4
    DEF Settled, ThreadOps, DelimitedOps, ProbeOps, TryOps
<1>6. /\ m \in Outcomes(Top.in)
      /\ m.ok = Good(ret) /\ m.ok = ret.set
      /\ Good(ret) => ret.st = m.st /\ ret.val = m.val
      /\ ~ Good(ret) => ret.val = <<>>
      /\ Meaning(mem, n, Top.in) = ToDo(mem, Top)
      /\ Top.in \in Rests(cur)
    <2> HIDE DEF unary
    <2> QED BY <1>0, <1>1, <1>3, <1>5, ResumedMeant
<1>7. Meaning(mem, n, Top.in) = Unary(n, Top.in, m)
    <2>1. Op(n) \notin LeafOps \union ThreadOps \union DelimitedOps
                           \union {"either", "fold_left", "sequence"}
        BY <1>2 DEF LeafOps, ThreadOps, DelimitedOps, ProbeOps, TryOps
    <2> QED BY <2>1, <1>5, <1>6, ToDoIs
<1> HIDE DEF m, unary
<1>8. CASE ResumeProbe
    <2>1. Return(ProbeResult(Top)) /\ Op(n) \in ProbeOps
        BY <1>8 DEF ResumeProbe, Resumed
    <2>2. ret.val = <<>> <=> ~ m.ok
        <3>1. m.ok => m.val # <<>>
            BY <2>1, <1>2, <1>6, ProbeTells DEF m
        <3> QED BY <3>1, <1>6
    <2>3. ProbeResult(Top) = Make(n, Top.in, Bool(n, Top.in, m.ok))
        BY <2>2 DEF ProbeResult, Bool
    <2>4. Meaning(mem, n, Top.in) = Yes(Top.in, Bool(n, Top.in, m.ok))
        BY <2>1, <1>7, UnaryIs
    <2> QED BY <2>1, <2>3, <2>4, <1>1, <1>2, MakeMeant
<1>9. CASE ResumeTestThen
    <2> DEFINE st == IF m.ok THEN m.st ELSE Top.in
    <2>1. Return(TestThenResult(Top)) /\ Op(n) = "test_then"
        BY <1>9 DEF ResumeTestThen, Resumed
    <2>2. TestThenResult(Top) = Make(n, st, Bool(n, Top.in, m.ok))
        BY <1>5, <1>6 DEF TestThenResult, Bool
    <2>3. Meaning(mem, n, Top.in) = Yes(st, Bool(n, Top.in, m.ok))
        BY <2>1, <1>7, UnaryIs
    <2> QED BY <2>1, <2>2, <2>3, <1>1, <1>2, MakeMeant
<1>10. CASE ResumeTry
    <2>1. Return(Make(n, TryState(Top), TryValue(Top))) /\ Op(n) \in TryOps
        BY <1>10 DEF ResumeTry, Resumed
    <2>2. TryValue(Top) = IF m.ok THEN Mark(n, Top.in) \o m.val ELSE <<>>
        BY <1>6 DEF TryValue
    <2>3. Meaning(mem, n, Top.in) = Yes(TryState(Top), TryValue(Top))
        <3>1. CASE Op(n) = "try_parse"
            BY <3>1, <2>2, <1>6, <1>7, UnaryIs DEF TryState
        <3>2. CASE Op(n) = "try_lookahead"
            BY <3>2, <2>2, <1>6, <1>7, UnaryIs DEF TryState
        <3> QED BY <3>1, <3>2, <2>1 DEF TryOps
    <2> QED BY <2>1, <2>3, <1>1, <1>2, MakeMeant
<1>11. CASE ResumeLookahead
    <2>1. Return(LookaheadResult(Top)) /\ Op(n) = "lookahead"
        BY <1>11 DEF ResumeLookahead, Resumed
    <2>2. Meaning(mem, n, Top.in) = IF m.ok THEN Yes(Top.in, m.val) ELSE No
        BY <2>1, <1>7, UnaryIs
    <2>3. /\ LookaheadResult(Top).st = Top.in
          /\ LookaheadResult(Top).val = ret.val
          /\ LookaheadResult(Top).set = ret.set
        BY DEF LookaheadResult
    <2>4. CASE Good(ret)
        <3>1. Meaning(mem, n, Top.in) = Yes(Top.in, ret.val)
            BY <2>2, <2>4, <1>6
        <3>2. /\ Yes(Top.in, ret.val).ok = TRUE
              /\ Yes(Top.in, ret.val).st = Top.in
              /\ Yes(Top.in, ret.val).val = ret.val
            BY DEF Yes
        <3>3. Agrees(LookaheadResult(Top), Meaning(mem, n, Top.in))
            BY <2>3, <2>4, <3>1, <3>2, <1>2, <1>6, Zenon DEF Agrees
        <3> QED BY <2>1, <3>3, <1>1, <1>2, ReturnMeant
    <2>5. CASE ~ Good(ret)
        <3>1. Meaning(mem, n, Top.in) = No /\ No.ok = FALSE
            BY <2>2, <2>5, <1>6 DEF No
        <3>2. Agrees(LookaheadResult(Top), Meaning(mem, n, Top.in))
            BY <2>3, <2>5, <3>1, <1>2, <1>6, Zenon DEF Agrees
        <3> QED BY <2>1, <3>2, <1>1, <1>2, ReturnMeant
    <2> QED BY <2>4, <2>5
<1>12. CASE ResumeRecurse
    <2>1. Return(Converted(n)) /\ Op(n) = "recurse"
        BY <1>12 DEF ResumeRecurse, Resumed
    <2>2. Meaning(mem, n, Top.in) = m
        BY <2>1, <1>7, UnaryIs
    <2>3. CASE Good(ret)
        <3>1. Converted(n) = Make(n, ret.st, ret.val)
            BY <2>3 DEF Converted
        <3>2. m = Yes(ret.st, ret.val)
            BY <2>3, <1>6, OutcomeIs
        <3> QED BY <3>1, <3>2, <2>1, <2>2, <1>1, <1>2, MakeMeant
    <2>4. CASE ~ Good(ret)
        <3>1. Converted(n) = Failed(n)
            BY <2>4 DEF Converted
        <3>2. m = No
            BY <2>4, <1>6, OutcomeIs
        <3> QED BY <3>1, <3>2, <2>1, <2>2, <1>1, <1>2, FailMeant
    <2> QED BY <2>3, <2>4
<1> QED BY <1>8, <1>9, <1>10, <1>11, <1>12

LEMMA ReadMeant ==
    ASSUME IInv, IsMeaning(Sources), OnTheWay, NEW r \in Roots, Read(r)
    PROVE  OnTheWay'
<1> DEFINE f == Enter(r, cur)
<1>1. /\ stack' = <<f>> /\ ret' = NoResult
      /\ UNCHANGED <<mem, cur>>
    BY DEF Read, IInv, TypeOK
<1>2. cur \in Rests(cur)
    <2>1. cur \in State /\ Within(cur, cur)
        BY DEF IInv, TypeOK, ViewSound, Within, State
    <2> QED BY <2>1, WithinIsRest
<1>3. r \in Node
    BY DEF Roots
<1>4. Meaning(mem, r, cur) = ToDo(mem, f) /\ Settled(mem, cur, f)
    BY <1>2, <1>3, EnterMeant
<1>5. f.node = r /\ f.in = cur
    BY DEF Enter
<1> HIDE DEF f
<1>6. DOMAIN stack' = {1} /\ stack'[1] = f
    BY <1>1
<1> QED BY <1>1, <1>4, <1>5, <1>6 DEF OnTheWay

LEMMA NextMeant ==
    ASSUME IInv, GoodIffParsed, IsMeaning(Sources), ProbesTell, OnTheWay,
           [Next]_vars
    PROVE  OnTheWay'
<1>1. CASE ParseLeaf
    BY <1>1, LeafMeant
<1>2. CASE Call
    BY <1>2, CallMeant
<1>3. CASE ResumeThread
    BY <1>3, ThreadMeant
<1>4. CASE ResumeEither
    BY <1>4, EitherMeant
<1>5. CASE ResumeFold
    BY <1>5, FoldMeant
<1>6. CASE ResumeSequence
    BY <1>6, SequenceMeant
<1>7. CASE ResumeDelimited
    BY <1>7, DelimitedMeant
<1>8. CASE \/ ResumeProbe \/ ResumeTestThen \/ ResumeTry
           \/ ResumeLookahead \/ ResumeRecurse
    BY <1>8, UnaryMeant
<1>9. CASE FinishRead
    <2>1. stack' = <<>> /\ ret' = NoResult
        BY <1>9 DEF FinishRead
    <2>2. DOMAIN stack' = {}
        BY <2>1
    <2> QED BY <2>1, <2>2 DEF OnTheWay
<1>10. CASE \E r \in Roots : Read(r)
    BY <1>10, ReadMeant
<1>11. CASE UNCHANGED vars
    BY <1>11 DEF vars, OnTheWay, Returner, Top
<1> QED
    BY <1>1, <1>2, <1>3, <1>4, <1>5, <1>6, <1>7, <1>8, <1>9, <1>10, <1>11
    DEF Next, Work

----------------------------------------------------------------------------
(***************************************************************************)
(* A read and its grammar.                                                 *)
(***************************************************************************)
\* The call at the bottom of the stack is that of the read: a step of its
\* parsers leaves it there.
LEMMA ReadingStays ==
    ASSUME IInv, NoQuoteBehind, Work, ~ FinishRead
    PROVE  Reading' = Reading
<1>1. stack # <<>> /\ stack' # <<>>
    BY WorkWorks DEF Works
<1>2. stack \in Seq(Frame) /\ stack' \in Seq(Frame)
    BY NextTyped DEF Next, IInv, TypeOK
<1>3. 1 \in DOMAIN stack /\ 1 \in DOMAIN stack'
    BY <1>1, <1>2
<1>4. Kept \/ Call
    <2>1. Consuming({}) /\ Consumed({})
        BY DEF Consuming, Consumed, Shifted, GoodConsumed, AtStart
    <2> QED BY <1>1, <2>1, NextConsumes DEF Next
<1>5. stack'[1].node = stack[1].node
    <2>1. CASE Kept
        BY <2>1, <1>3 DEF Kept
    <2>2. CASE Call
        <3>1. /\ Op(Top.node) \notin LeafOps
              /\ Push(Enter(Kids(Top.node)[Top.pc], Top.arg))
            BY <2>2 DEF Call, InCall
        <3>2. \A i \in 1 .. Len(stack) : stack'[i] = stack[i]
            BY <1>1, <3>1, PushTo
        <3> QED BY <1>2, <1>3, <3>2
    <2> QED BY <1>4, <2>1, <2>2
<1> QED BY <1>1, <1>5 DEF Reading

\* What it hands over when it ends, and does to the client's state, is what
\* its parser makes of that state.
LEMMA FinishIsMeant ==
    ASSUME IInv, GoodIffParsed, IsMeaning(Sources), OnTheWay, FinishRead
    PROVE  \E r \in Roots : ReadSpec!End(r)
<1> DEFINE n == Top.node
           m == Meaning(mem, Kids(n)[Top.pc], Top.arg)
<1>0. {"read"} \subseteq Ops \ LeafOps
    BY DEF Ops, LeafOps
<1>1. /\ Resumed({"read"}) /\ cur' = ReadState /\ stack' = <<>>
      /\ got' = IF Good(ret) THEN ret ELSE Unread(ret)
      /\ mem' = mem
    BY DEF FinishRead
<1>2. /\ stack # <<>> /\ n \in Node /\ Op(n) = "read"
      /\ Top.pc \in 1 .. Len(Kids(n)) /\ Len(Kids(n)) \in Arity(Op(n))
      /\ Good(ret) \in BOOLEAN
    BY <1>0, <1>1, ResumedFacts DEF IInv
<1>3. Top.pc = 1
    <2>1. Len(Kids(n)) = 1
        BY <1>2 DEF Arity, LeafOps, ProbeOps, TryOps, DelimitedOps
    <2> QED BY <2>1, <1>2
<1>4. Settled(mem, cur, Top)
    BY <1>0, <1>1, ResumedMeant
<1>5. Top.arg = Top.in
    BY <1>2, <1>4 DEF Settled, ThreadOps, DelimitedOps
<1>6. n \in Roots /\ Reading = <<n>> /\ Top.in = cur
    <2>1. n \in Roots
        BY <1>2 DEF Roots
    <2>2. /\ Len(stack) \in DOMAIN stack /\ Top = stack[Len(stack)]
        BY <1>2, TopFacts DEF IInv, TypeOK
    <2>3. Len(stack) = 1 /\ Top.in = cur
        BY <2>1, <2>2 DEF IInv, Rooted
    <2> QED BY <2>1, <2>2, <2>3, <1>2 DEF Reading
<1>7. /\ m.ok = Good(ret) /\ m.ok = ret.set
      /\ Good(ret) => ret.st = m.st /\ ret.val = m.val
      /\ Meaning(mem, n, cur) = ToDo(mem, Top)
    BY <1>0, <1>1, <1>6, ResumedMeant
<1>8. Meaning(mem, n, cur) = m
    <2>1. Op(n) \notin LeafOps \union ThreadOps \union DelimitedOps
                           \union {"either", "fold_left", "sequence"}
        BY <1>2 DEF LeafOps, ThreadOps, DelimitedOps
    <2>2. ToDo(mem, Top) = Unary(n, Top.in, m)
        BY <2>1, <1>3, ToDoIs
    <2> QED BY <2>2, <1>2, <1>7, UnaryIs
<1> HIDE DEF m
<1>9. ReadSpec!End(n)
    <2>1. Reading' = <<>>
        BY <1>1 DEF Reading
    <2>2. cur' = IF m.ok THEN m.st ELSE cur
        BY <1>1, <1>2, <1>7 DEF ReadState
    <2>3. [set |-> got.set, val |-> got.val]'
            = IF m.ok THEN [set |-> TRUE, val |-> m.val] ELSE ReadSpec!Nothing
        <3>1. CASE Good(ret)
            BY <3>1, <1>1, <1>7
        <3>2. CASE ~ Good(ret)
            <4>1. got'.set = FALSE /\ got'.val = <<>>
                BY <3>2, <1>1 DEF Unread
            <4> QED BY <3>2, <4>1, <1>7 DEF ReadSpec!Nothing
        <3> QED BY <3>1, <3>2
    <2> QED BY <2>1, <2>2, <2>3, <1>1, <1>6, <1>8 DEF ReadSpec!End
<1> QED BY <1>6, <1>9

LEMMA NextIsMeant ==
    ASSUME IInv, NoQuoteBehind, GoodIffParsed, IsMeaning(Sources), OnTheWay,
           [Next]_vars
    PROVE  [ReadSpec!Next]_(ReadSpec!vars)
<1>1. CASE Work /\ ~ FinishRead
    <2>1. mem' = mem /\ cur' = cur /\ got' = got
        BY <1>1 DEF Work, ParseLeaf, Call, ResumeThread, ResumeEither,
            ResumeFold, ResumeSequence, ResumeDelimited, ResumeProbe,
            ResumeTestThen, ResumeTry, ResumeLookahead, ResumeRecurse
    <2>2. Reading' = Reading
        BY <1>1, ReadingStays
    <2> QED BY <2>1, <2>2 DEF ReadSpec!vars
<1>2. CASE FinishRead
    BY <1>2, FinishIsMeant DEF ReadSpec!Next
<1>3. CASE \E r \in Roots : Read(r)
    <2>1. PICK r \in Roots : Read(r)
        BY <1>3
    <2>2. Reading = <<>> /\ Reading' = <<r>>
        <3>1. stack = <<>> /\ stack' = <<Enter(r, cur)>>
            BY <2>1 DEF Read
        <3>2. Enter(r, cur).node = r
            BY DEF Enter
        <3> QED BY <3>1, <3>2 DEF Reading
    <2>3. ReadSpec!Begin(r)
        BY <2>1, <2>2 DEF Read, ReadSpec!Begin, ReadSpec!Nothing, NoResult
    <2> QED BY <2>3 DEF ReadSpec!Next
<1>4. CASE UNCHANGED vars
    BY <1>4 DEF vars, ReadSpec!vars, Reading
<1> QED BY <1>1, <1>2, <1>3, <1>4 DEF Next

\* What a call in progress has done and what it has still to do is always what
\* its parser means, and what it returns is that: for every grammar, every
\* input and every solution of the grammar's equations over them.
THEOREM CallsKeepTheirMeaning ==
    ASSUME NoQuoteBehind, NoNullInput, LookaheadSafe,
           IsMeaning(Sources), ProbesTell
    PROVE  Spec => []OnTheWay
<1>1. Init => OnTheWay
    <2>1. ASSUME Init PROVE DOMAIN stack = {} /\ ret = NoResult
        BY <2>1 DEF Init
    <2> QED BY <2>1 DEF OnTheWay
<1>2. IInv /\ GoodIffParsed /\ OnTheWay /\ [Next]_vars => OnTheWay'
    BY NextMeant
<1> QED BY <1>1, <1>2, Inductive, GoodMeansParsed, PTL DEF Spec

\* A read is one step of the grammar: what parser::read hands over and what it
\* leaves of the client's state is what its parser means, however the call
\* stack, the null states and the result types below it got there.
THEOREM ReadMeansItsGrammar ==
    ASSUME NoQuoteBehind, NoNullInput, LookaheadSafe,
           IsMeaning(Sources), ProbesTell
    PROVE  Spec => ReadImplementsMeaning
<1>1. Init => ReadSpec!Init
    BY DEF Init, NoResult, ReadSpec!Init, ReadSpec!Nothing, Reading
<1>2. IInv /\ GoodIffParsed /\ OnTheWay /\ [Next]_vars
        => [ReadSpec!Next]_(ReadSpec!vars)
    BY NextIsMeant
<1> QED BY <1>1, <1>2, CallsKeepTheirMeaning, Inductive, GoodMeansParsed, PTL
        DEF Spec, ReadImplementsMeaning, ReadSpec!Spec

=============================================================================
