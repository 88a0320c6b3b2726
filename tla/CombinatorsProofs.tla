------------------------- MODULE CombinatorsProofs -------------------------
(***************************************************************************)
(* What holds of every grammar and every input: the proofs of the type     *)
(* invariant, of where results end, of when they are good, and of what a   *)
(* read does to the client's state.                                        *)
(*                                                                         *)
(* An action of Work pushes a frame, replaces the top one, or returns a    *)
(* result to the frame below; there is one lemma for what each of the      *)
(* three keeps, and the proof for an action shows that what it pushes or   *)
(* returns fits.                                                           *)
(***************************************************************************)
EXTENDS Combinators, IntrinsicsProofs

----------------------------------------------------------------------------
(***************************************************************************)
(* Types of what frames and results are built from.                        *)
(***************************************************************************)
LEMMA NodeFacts ==
    ASSUME NEW n \in Node
    PROVE  /\ Op(n) \in Ops
           /\ Kids(n) \in Seq(Node)
           /\ Len(Kids(n)) \in Arity(Op(n))
           /\ AlwaysGood(n) \in BOOLEAN
           /\ AlwaysGood(n) = AlwaysGoodRule(n)
           /\ Kind(n) \in Kinds
           /\ \A i \in 1 .. Len(Kids(n)) :
                Kids(n)[i] \in Node /\ Kids(n)[i] \notin Roots
<1>1. Descriptor(Grammar[n]) /\ AlwaysGood(n) = AlwaysGoodRule(n)
    BY GrammarAssumption
<1>2. Op(n) \in Ops /\ Kids(n) \in Seq(Node) /\ Len(Kids(n)) \in Arity(Op(n))
    BY <1>1 DEF Descriptor, Op, Kids
<1>3. AlwaysGood(n) \in BOOLEAN
    BY <1>1 DEF Descriptor, AlwaysGood
<1>4. Kind(n) \in Kinds
    BY DEF Kind, Kinds
<1>5. \A i \in 1 .. Len(Kids(n)) :
        Kids(n)[i] \in Node /\ Kids(n)[i] \notin Roots
    BY <1>2, GrammarAssumption
<1> QED BY <1>1, <1>2, <1>3, <1>4, <1>5

LEMMA MakeTyped ==
    ASSUME NEW n \in Node, NEW st \in State, NEW val \in Seq(Token)
    PROVE  Make(n, st, val) \in Result
BY NodeFacts DEF Make, Result

LEMMA FailedTyped ==
    ASSUME NEW n \in Node
    PROVE  Failed(n) \in Result
<1>1. NullState \in State /\ <<>> \in Seq(Token)
    BY DEF NullState, State, NULLPTR
<1> QED BY <1>1, NodeFacts DEF Failed, Result

LEMMA ResultIsReal ==
    ASSUME NEW r \in Result
    PROVE  r # NoResult
BY DEF Result, NoResult, Kinds

LEMMA EnterTyped ==
    ASSUME NEW n \in Node, NEW st \in State
    PROVE  Enter(n, st) \in Frame
<1>1. <<>> \in Seq(Token) /\ {} \in SUBSET Seq(Token)
    OBVIOUS
<1> QED BY <1>1 DEF Enter, Frame

LEMMA AtTyped ==
    ASSUME NEW f \in Frame, NEW pc \in Nat, NEW st \in State, NEW arg \in State,
           NEW acc \in Seq(Token), NEW keys \in SUBSET Seq(Token)
    PROVE  At(f, pc, st, arg, acc, keys) \in Frame
BY DEF At, Frame

LEMMA LeafOutcomeContract ==
    ASSUME NEW text, NEW n \in Node, NEW st \in State
    PROVE  /\ IsOutcome(LeafOutcome(text, n, st))
           /\ /\ st.begin <= st.end
              /\ Op(n) = "string" => text[st.end] # Quote
              => EndsIn(LeafOutcome(text, n, st), st)
<1> DEFINE arg == Grammar[n].arg
           o == LeafOutcome(text, n, st)
           safe == /\ st.begin <= st.end
                   /\ Op(n) = "string" => text[st.end] # Quote
<1>0. Descriptor(Grammar[n])
    BY GrammarAssumption
<1>1. CASE Op(n) = "literal"
    <2>1. Len(arg) \in Nat /\ \A k \in 1 .. Len(arg) : Len(arg[k]) \in Nat
        BY <1>0, <1>1 DEF Descriptor, Op
    <2>2. o = LiteralParse(text, st, arg)
        BY <1>1 DEF LeafOutcome
    <2> QED BY <2>1, <2>2, LiteralContract
<1>2. CASE Op(n) = "charconv"
    <2>1. o = CharconvParse(text, st, arg)
        BY <1>2 DEF LeafOutcome
    <2> QED BY <2>1, CharconvContract
<1>3. CASE Op(n) \in {"chars", "count"}
    <2>1. o = CharsParse(text, st, arg)
        BY <1>3 DEF LeafOutcome
    <2> QED BY <2>1, CharsContract
<1>4. CASE Op(n) = "bool"
    <2>1. o = LiteralParse(text, st, BoolLiterals)
        BY <1>4 DEF LeafOutcome
    <2>2. /\ Len(BoolLiterals) = 2
          /\ Len(BoolLiterals[1]) = 4 /\ Len(BoolLiterals[2]) = 5
        BY DEF BoolLiterals
    <2>3. /\ Len(BoolLiterals) \in Nat
          /\ \A k \in 1 .. Len(BoolLiterals) : Len(BoolLiterals[k]) \in Nat
        BY <2>2
    <2> QED BY <2>1, <2>3, LiteralContract
<1>5. CASE Op(n) = "string"
    <2>1. o = StringParse(text, st)
        BY <1>5 DEF LeafOutcome
    <2> QED BY <1>5, <2>1, StringContract
<1>6. CASE Op(n) = "view"
    <2>1. o = ViewParse(text, st)
        BY <1>6 DEF LeafOutcome
    <2> QED BY <2>1, ViewContract
<1>7. CASE Op(n) = "line"
    <2>1. o = LineParse(text, st)
        BY <1>7 DEF LeafOutcome
    <2> QED BY <2>1, LineContract
<1>8. CASE Op(n) \in {"test_prefix", "require_prefix"}
    <2>1. o = LiteralParse(text, st, <<arg>>)
        BY <1>8 DEF LeafOutcome
    <2>2. Len(arg) \in Nat
        BY <1>0, <1>8 DEF Descriptor, Op
    <2>3. /\ Len(<<arg>>) \in Nat
          /\ \A k \in 1 .. Len(<<arg>>) : Len(<<arg>>[k]) \in Nat
        BY <2>2
    <2> QED BY <2>1, <2>3, LiteralContract
<1>9. CASE Op(n) = "pure"
    <2>1. o = Matched(st.begin, st.begin, st.begin)
        BY <1>9 DEF LeafOutcome
    <2> QED BY <2>1 DEF Matched, IsOutcome, EndsIn, State
<1>10. CASE Op(n) \notin {"literal", "charconv", "chars", "count", "bool",
                          "string", "view", "line", "test_prefix",
                          "require_prefix", "pure"}
    <2>1. o = NoMatch
        BY <1>10 DEF LeafOutcome
    <2> QED BY <2>1 DEF NoMatch, NULLPTR, IsOutcome, EndsIn
<1> QED BY <1>1, <1>2, <1>3, <1>4, <1>5, <1>6, <1>7, <1>8, <1>9, <1>10

LEMMA LeafResultTyped ==
    ASSUME NEW text, NEW n \in Node, NEW st \in State
    PROVE  LeafResult(text, n, st) \in Result
<1> DEFINE o == LeafOutcome(text, n, st)
           rest == [begin |-> o.rest, end |-> st.end]
           val == LeafValue(text, n, st, o)
<1>1. IsOutcome(o)
    BY LeafOutcomeContract
<1>2. rest \in State
    BY <1>1 DEF IsOutcome, State
<1>3. val \in Seq(Token)
    <2>1. [leaf |-> n, from |-> o.from, to |-> o.to] \in Token
        BY <1>1 DEF IsOutcome, Token
    <2> QED BY <2>1 DEF LeafValue
<1>4. LeafResult(text, n, st)
        = IF o.ok THEN Make(n, rest, val)
          ELSE IF AlwaysGood(n) THEN Make(n, st, <<>>) ELSE Failed(n)
    <2>1. o.ok \in BOOLEAN /\ AlwaysGood(n) \in BOOLEAN
        BY <1>1, NodeFacts DEF IsOutcome
    <2> QED BY <2>1 DEF LeafResult
<1>5. <<>> \in Seq(Token)
    OBVIOUS
<1> HIDE DEF rest, val, o
<1> QED BY <1>2, <1>3, <1>4, <1>5, MakeTyped, FailedTyped

----------------------------------------------------------------------------
(***************************************************************************)
(* The three things an action does to the stack.                           *)
(***************************************************************************)
LEMMA TopFacts ==
    ASSUME TypeOK, stack # <<>>
    PROVE  /\ Len(stack) \in Nat /\ Len(stack) >= 1
           /\ Top \in Frame
           /\ Top = stack[Len(stack)]
           /\ Top.node \in Node
           /\ Top.in \in State /\ Top.st \in State /\ Top.arg \in State
           /\ Top.pc \in Nat /\ Top.acc \in Seq(Token)
           /\ Top.keys \in SUBSET Seq(Token)
           /\ Op(Top.node) \notin LeafOps => Top.pc \in 1 .. Len(Kids(Top.node))
<1>1. stack \in Seq(Frame)
    BY DEF TypeOK
<1>2. Len(stack) \in Nat /\ Len(stack) >= 1
    BY <1>1
<1>3. Top \in Frame /\ Top = stack[Len(stack)]
    BY <1>1, <1>2 DEF Top
<1>4. Op(Top.node) \notin LeafOps => Top.pc \in 1 .. Len(Kids(Top.node))
    BY <1>1, <1>2, <1>3 DEF TypeOK
<1> QED BY <1>2, <1>3, <1>4 DEF Frame

LEMMA Pushed ==
    ASSUME stack \in Seq(Frame), NEW f \in Frame, Push(f)
    PROVE  /\ stack' \in Seq(Frame)
           /\ Len(stack') = Len(stack) + 1
           /\ stack' # <<>>
           /\ \A i \in 1 .. Len(stack) : stack'[i] = stack[i]
           /\ stack'[Len(stack')] = f
           /\ ret' = NoResult
BY DEF Push

LEMMA Continued ==
    ASSUME stack \in Seq(Frame), stack # <<>>, NEW f \in Frame, Continue(f)
    PROVE  /\ stack' \in Seq(Frame)
           /\ Len(stack') = Len(stack)
           /\ stack' # <<>>
           /\ \A i \in 1 .. (Len(stack) - 1) : stack'[i] = stack[i]
           /\ stack'[Len(stack)] = f
           /\ ret' = NoResult
<1>1. Len(stack) \in Nat /\ Len(stack) >= 1
    OBVIOUS
<1> QED BY <1>1 DEF Continue

LEMMA Returned ==
    ASSUME stack \in Seq(Frame), Len(stack) >= 2, NEW r, Return(r)
    PROVE  /\ stack' \in Seq(Frame)
           /\ Len(stack') = Len(stack) - 1
           /\ stack' # <<>>
           /\ \A i \in 1 .. (Len(stack) - 1) : stack'[i] = stack[i]
           /\ ret' = r
<1>1. Len(stack) \in Nat /\ Len(stack) - 1 \in 1 .. Len(stack)
    OBVIOUS
<1>2. stack' = SubSeq(stack, 1, Len(stack) - 1) /\ ret' = r
    BY DEF Return
<1>3. stack' \in Seq(Frame) /\ Len(stack') = Len(stack) - 1
    BY <1>1, <1>2
<1>4. \A i \in 1 .. (Len(stack) - 1) : stack'[i] = stack[i]
    BY <1>1, <1>2
<1>5. stack' # <<>>
    BY <1>1, <1>3
<1> QED BY <1>2, <1>3, <1>4, <1>5

\* Only parser::read is at the bottom, so any other frame returns to one.
LEMMA ReturnsToCaller ==
    ASSUME TypeOK, Rooted, stack # <<>>, Op(Top.node) # "read"
    PROVE  Len(stack) >= 2
<1>1. Top \in Frame /\ Top = stack[Len(stack)] /\ Len(stack) \in Nat
      /\ Len(stack) >= 1
    BY TopFacts
<1>2. Top.node \notin Roots
    BY DEF Roots
<1>3. stack \in Seq(Frame)
    BY DEF TypeOK
<1>4. Len(stack) # 1
    BY <1>1, <1>2, <1>3 DEF Rooted
<1>5. \A k \in Nat : k >= 1 /\ k # 1 => k >= 2
    OBVIOUS
<1> QED BY ONLY <1>1, <1>4, <1>5

LEMMA PushTyped ==
    ASSUME TypeOK, Rooted, stack # <<>>, Op(Top.node) \notin LeafOps,
           Push(Enter(Kids(Top.node)[Top.pc], Top.arg)), UNCHANGED <<cur, got>>
    PROVE  TypeOK' /\ Rooted'
<1> DEFINE k == Kids(Top.node)[Top.pc]
           f == Enter(k, Top.arg)
<1>1. k \in Node /\ k \notin Roots
    BY TopFacts, NodeFacts
<1>2. f \in Frame
    BY <1>1, TopFacts, EnterTyped
<1>3. f.node = k /\ f.in = Top.arg /\ f.pc = 1
    BY DEF Enter
<1> HIDE DEF f
<1>4. stack \in Seq(Frame)
    BY DEF TypeOK
<1>5. /\ stack' \in Seq(Frame)
      /\ Len(stack') = Len(stack) + 1
      /\ stack' # <<>>
      /\ \A i \in 1 .. Len(stack) : stack'[i] = stack[i]
      /\ stack'[Len(stack')] = f
      /\ ret' = NoResult
    BY <1>2, <1>4, Pushed DEF f
<1>6. Op(k) \notin LeafOps => 1 \in 1 .. Len(Kids(k))
    <2>1. Len(Kids(k)) \in Arity(Op(k)) /\ Op(k) \in Ops
        BY <1>1, NodeFacts
    <2> QED BY <2>1 DEF Arity, Ops, LeafOps, ThreadOps, ProbeOps, TryOps,
                        DelimitedOps
<1>7. Len(stack) \in Nat /\ Len(stack) >= 1 /\ Top = stack[Len(stack)]
    BY TopFacts
<1>8. \A i \in DOMAIN stack' :
        \/ i \in 1 .. Len(stack) /\ stack'[i] = stack[i]
        \/ i = Len(stack) + 1 /\ stack'[i] = f
    BY <1>5, <1>7
<1>9. TypeOK'
    <2>1. \A i \in DOMAIN stack' :
            Op(stack'[i].node) \notin LeafOps =>
                stack'[i].pc \in 1 .. Len(Kids(stack'[i].node))
        BY <1>3, <1>4, <1>6, <1>8 DEF TypeOK
    <2> QED BY <2>1, <1>5 DEF TypeOK
<1>10. Rooted'
    <2> SUFFICES ASSUME NEW i \in DOMAIN stack'
                 PROVE  /\ i = 1 <=> stack'[i].node \in Roots
                        /\ i = 1 => stack'[i].in = cur
                        /\ i > 1 =>
                            /\ stack'[i].node = Kids(stack'[i - 1].node)
                                                    [stack'[i - 1].pc]
                            /\ stack'[i].in = stack'[i - 1].arg
        BY DEF Rooted, Roots
    <2>1. CASE i \in 1 .. Len(stack) /\ stack'[i] = stack[i]
        <3>1. i > 1 => i - 1 \in 1 .. Len(stack)
            BY <2>1, <1>7
        <3>2. i > 1 => stack'[i - 1] = stack[i - 1]
            BY <3>1, <1>5
        <3> QED BY <2>1, <3>2, <1>4 DEF Rooted
    <2>2. CASE i = Len(stack) + 1 /\ stack'[i] = f
        <3>1. i > 1 /\ i - 1 = Len(stack)
            BY <2>2, <1>7
        <3>2. stack'[i - 1] = Top
            BY <3>1, <1>5, <1>7
        <3> QED BY <2>2, <3>1, <3>2, <1>1, <1>3
    <2> QED BY <1>8, <2>1, <2>2
<1> QED BY <1>9, <1>10

LEMMA ContinueTyped ==
    ASSUME TypeOK, Rooted, stack # <<>>, NEW f \in Frame,
           f.node = Top.node, f.in = Top.in,
           f.pc \in 1 .. Len(Kids(Top.node)),
           Continue(f), UNCHANGED <<cur, got>>
    PROVE  TypeOK' /\ Rooted'
<1>1. stack \in Seq(Frame)
    BY DEF TypeOK
<1>2. /\ stack' \in Seq(Frame)
      /\ Len(stack') = Len(stack)
      /\ stack' # <<>>
      /\ \A i \in 1 .. (Len(stack) - 1) : stack'[i] = stack[i]
      /\ stack'[Len(stack)] = f
      /\ ret' = NoResult
    BY <1>1, Continued
<1>3. Len(stack) \in Nat /\ Len(stack) >= 1 /\ Top = stack[Len(stack)]
    BY TopFacts
<1>4. \A i \in DOMAIN stack' :
        \/ i \in 1 .. (Len(stack) - 1) /\ stack'[i] = stack[i]
        \/ i = Len(stack) /\ stack'[i] = f
    BY <1>2, <1>3
<1>5. TypeOK'
    <2>1. \A i \in DOMAIN stack' :
            Op(stack'[i].node) \notin LeafOps =>
                stack'[i].pc \in 1 .. Len(Kids(stack'[i].node))
        BY <1>1, <1>4 DEF TypeOK
    <2> QED BY <2>1, <1>2 DEF TypeOK
<1>6. Rooted'
    <2> SUFFICES ASSUME NEW i \in DOMAIN stack'
                 PROVE  /\ i = 1 <=> stack'[i].node \in Roots
                        /\ i = 1 => stack'[i].in = cur
                        /\ i > 1 =>
                            /\ stack'[i].node = Kids(stack'[i - 1].node)
                                                    [stack'[i - 1].pc]
                            /\ stack'[i].in = stack'[i - 1].arg
        BY DEF Rooted, Roots
    <2>1. i \in DOMAIN stack /\ i \in 1 .. Len(stack)
        BY <1>1, <1>2, <1>3
    <2>2. stack'[i].node = stack[i].node /\ stack'[i].in = stack[i].in
        BY <1>3, <1>4
    <2>3. i > 1 => i - 1 \in 1 .. (Len(stack) - 1)
        BY <2>1, <1>3
    <2>4. i > 1 => stack'[i - 1] = stack[i - 1]
        BY <2>3, <1>2
    <2> QED BY <2>1, <2>2, <2>4 DEF Rooted
<1> QED BY <1>5, <1>6

LEMMA ReturnTyped ==
    ASSUME TypeOK, Rooted, stack # <<>>, Op(Top.node) # "read",
           NEW r \in Result, Return(r), UNCHANGED <<cur, got>>
    PROVE  TypeOK' /\ Rooted'
<1>1. stack \in Seq(Frame) /\ Len(stack) >= 2
    BY ReturnsToCaller DEF TypeOK
<1>2. /\ stack' \in Seq(Frame)
      /\ Len(stack') = Len(stack) - 1
      /\ stack' # <<>>
      /\ \A i \in 1 .. (Len(stack) - 1) : stack'[i] = stack[i]
      /\ ret' = r
    BY <1>1, Returned
<1>3. Len(stack) \in Nat
    BY <1>1
<1>4. \A i \in DOMAIN stack' :
        /\ i \in DOMAIN stack /\ stack'[i] = stack[i]
        /\ i > 1 => i - 1 \in DOMAIN stack' /\ stack'[i - 1] = stack[i - 1]
    BY <1>1, <1>2, <1>3
<1>5. TypeOK'
    <2>1. \A i \in DOMAIN stack' :
            Op(stack'[i].node) \notin LeafOps =>
                stack'[i].pc \in 1 .. Len(Kids(stack'[i].node))
        BY <1>4 DEF TypeOK
    <2> QED BY <2>1, <1>2 DEF TypeOK
<1>6. Rooted'
    BY <1>4 DEF Rooted, Roots
<1> QED BY <1>5, <1>6

----------------------------------------------------------------------------
(***************************************************************************)
(* Type correctness.                                                       *)
(***************************************************************************)
LEMMA ResumedFacts ==
    ASSUME TypeOK, NEW ops \in SUBSET (Ops \ LeafOps), Resumed(ops)
    PROVE  /\ stack # <<>>
           /\ Op(Top.node) \in ops
           /\ Top.node \in Node
           /\ Top \in Frame
           /\ Top.in \in State /\ Top.st \in State /\ Top.arg \in State
           /\ Top.acc \in Seq(Token) /\ Top.keys \in SUBSET Seq(Token)
           /\ Top.pc \in 1 .. Len(Kids(Top.node))
           /\ Len(Kids(Top.node)) \in Nat
           /\ Len(Kids(Top.node)) \in Arity(Op(Top.node))
           /\ ret # NoResult
           /\ ret \in Result
           /\ ret.st \in State /\ ret.val \in Seq(Token) /\ ret.set \in BOOLEAN
           /\ ret.kind \in Kinds
           /\ Good(ret) \in BOOLEAN
<1>1. /\ stack # <<>> /\ Op(Top.node) \in ops /\ ret # NoResult
      /\ Op(Top.node) \notin LeafOps
    BY DEF Resumed
<1>2. ret \in Result
    BY <1>1 DEF TypeOK
<1>3. /\ ret.st \in State /\ ret.val \in Seq(Token) /\ ret.set \in BOOLEAN
      /\ ret.kind \in Kinds
    BY <1>2 DEF Result
<1>4. Good(ret) \in BOOLEAN
    BY <1>3 DEF Good, StateGood
<1>5. /\ Top.node \in Node /\ Top \in Frame
      /\ Top.in \in State /\ Top.st \in State /\ Top.arg \in State
      /\ Top.acc \in Seq(Token) /\ Top.keys \in SUBSET Seq(Token)
      /\ Top.pc \in 1 .. Len(Kids(Top.node))
    BY <1>1, TopFacts
<1>6. /\ Kids(Top.node) \in Seq(Node)
      /\ Len(Kids(Top.node)) \in Arity(Op(Top.node))
    BY <1>5, NodeFacts
<1>7. Len(Kids(Top.node)) \in Nat
    BY <1>6
<1> QED BY <1>1, <1>2, <1>3, <1>4, <1>5, <1>6, <1>7

LEMMA AtKeeps ==
    ASSUME NEW f, NEW pc, NEW st, NEW arg, NEW acc, NEW keys
    PROVE  /\ At(f, pc, st, arg, acc, keys).node = f.node
           /\ At(f, pc, st, arg, acc, keys).in = f.in
           /\ At(f, pc, st, arg, acc, keys).st = st
           /\ At(f, pc, st, arg, acc, keys).arg = arg
           /\ At(f, pc, st, arg, acc, keys).pc = pc
BY DEF At

\* The frame on top goes on with another of its parsers.
LEMMA ContinueAtTyped ==
    ASSUME TypeOK, Rooted, stack # <<>>,
           NEW pc \in 1 .. Len(Kids(Top.node)),
           NEW st \in State, NEW arg \in State,
           NEW acc \in Seq(Token), NEW keys \in SUBSET Seq(Token),
           Continue(At(Top, pc, st, arg, acc, keys)), UNCHANGED <<cur, got>>
    PROVE  TypeOK' /\ Rooted'
<1> DEFINE f == At(Top, pc, st, arg, acc, keys)
<1>1. f \in Frame
    BY TopFacts, AtTyped
<1>2. f.node = Top.node /\ f.in = Top.in /\ f.pc \in 1 .. Len(Kids(Top.node))
    BY AtKeeps
<1> QED BY <1>1, <1>2, ContinueTyped

LEMMA EmptyTyped ==
    /\ <<>> \in Seq(Token)
    /\ {} \in SUBSET Seq(Token)
OBVIOUS

LEMMA ThreadTyped ==
    ASSUME TypeOK, Rooted, ResumeThread
    PROVE  TypeOK' /\ Rooted'
<1> USE DEF ResumeThread
<1>0. ThreadOps \subseteq Ops \ LeafOps /\ "read" \notin ThreadOps
    BY DEF ThreadOps, Ops, LeafOps
<1>1. Resumed(ThreadOps) /\ ThreadStep(Top) /\ UNCHANGED <<cur, got>>
    OBVIOUS
<1>2. /\ stack # <<>> /\ Top.node \in Node /\ Op(Top.node) # "read"
      /\ Top.acc \in Seq(Token) /\ ret.val \in Seq(Token) /\ ret.st \in State
      /\ Top.pc \in 1 .. Len(Kids(Top.node)) /\ Len(Kids(Top.node)) \in Nat
    BY <1>0, <1>1, ResumedFacts
<1>3. Gathered(Top) \in Seq(Token)
    BY <1>2, EmptyTyped DEF Gathered
<1>4. CASE ~ Good(ret)
    <2>1. Return(Failed(Top.node))
        BY <1>1, <1>4 DEF ThreadStep
    <2> QED BY <2>1, <1>1, <1>2, FailedTyped, ReturnTyped
<1>5. CASE Good(ret) /\ Top.pc < Len(Kids(Top.node))
    <2>1. Continue(At(Top, Top.pc + 1, ret.st, ret.st, Gathered(Top), {}))
        BY <1>1, <1>5 DEF ThreadStep
    <2>2. Top.pc + 1 \in 1 .. Len(Kids(Top.node))
        BY <1>2, <1>5
    <2> QED BY <2>1, <2>2, <1>1, <1>2, <1>3, EmptyTyped, ContinueAtTyped
<1>6. CASE Good(ret) /\ ~ (Top.pc < Len(Kids(Top.node)))
    <2>1. Return(Make(Top.node, ret.st, Gathered(Top)))
        BY <1>1, <1>6 DEF ThreadStep
    <2> QED BY <2>1, <1>1, <1>2, <1>3, MakeTyped, ReturnTyped
<1> QED BY <1>4, <1>5, <1>6

LEMMA EitherTyped ==
    ASSUME TypeOK, Rooted, ResumeEither
    PROVE  TypeOK' /\ Rooted'
<1> USE DEF ResumeEither
<1>0. {"either"} \subseteq Ops \ LeafOps
    BY DEF Ops, LeafOps
<1>1. Resumed({"either"}) /\ EitherStep(Top) /\ UNCHANGED <<cur, got>>
    OBVIOUS
<1>2. /\ stack # <<>> /\ Top.node \in Node /\ Op(Top.node) # "read"
      /\ Top.st \in State /\ ret.val \in Seq(Token) /\ ret.st \in State
      /\ Top.pc \in 1 .. Len(Kids(Top.node)) /\ Len(Kids(Top.node)) \in Nat
    BY <1>0, <1>1, ResumedFacts
<1>3. CASE Good(ret)
    <2>1. Return(Make(Top.node, ret.st, ret.val))
        BY <1>1, <1>3 DEF EitherStep
    <2> QED BY <2>1, <1>1, <1>2, MakeTyped, ReturnTyped
<1>4. CASE ~ Good(ret) /\ Top.pc < Len(Kids(Top.node))
    <2>1. Continue(At(Top, Top.pc + 1, Top.st, Top.st, <<>>, {}))
        BY <1>1, <1>4 DEF EitherStep
    <2>2. Top.pc + 1 \in 1 .. Len(Kids(Top.node))
        BY <1>2, <1>4
    <2> QED BY <2>1, <2>2, <1>1, <1>2, EmptyTyped, ContinueAtTyped
<1>5. CASE ~ Good(ret) /\ ~ (Top.pc < Len(Kids(Top.node)))
    <2>1. Return(Failed(Top.node))
        BY <1>1, <1>5 DEF EitherStep
    <2> QED BY <2>1, <1>1, <1>2, FailedTyped, ReturnTyped
<1> QED BY <1>3, <1>4, <1>5

LEMMA FoldTyped ==
    ASSUME TypeOK, Rooted, ResumeFold
    PROVE  TypeOK' /\ Rooted'
<1> USE DEF ResumeFold
<1>0. {"fold_left"} \subseteq Ops \ LeafOps
    BY DEF Ops, LeafOps
<1>1. Resumed({"fold_left"}) /\ FoldStep(Top) /\ UNCHANGED <<cur, got>>
    OBVIOUS
<1>2. /\ stack # <<>> /\ Top.node \in Node /\ Op(Top.node) = "fold_left"
      /\ Top.st \in State /\ Top.acc \in Seq(Token)
      /\ ret.val \in Seq(Token) /\ ret.st \in State
      /\ Len(Kids(Top.node)) \in Arity(Op(Top.node))
    BY <1>0, <1>1, ResumedFacts
<1>3. Len(Kids(Top.node)) = 2
    BY <1>2 DEF Arity, LeafOps, ProbeOps, TryOps, DelimitedOps
<1>4. CASE Good(ret)
    <2>1. Continue(At(Top, 2, ret.st, ret.st, Top.acc \o ret.val, {}))
        BY <1>1, <1>4 DEF FoldStep
    <2>2. Top.acc \o ret.val \in Seq(Token) /\ 2 \in 1 .. Len(Kids(Top.node))
        BY <1>2, <1>3
    <2> QED BY <2>1, <2>2, <1>1, <1>2, EmptyTyped, ContinueAtTyped
<1>5. CASE ~ Good(ret) /\ Top.pc = 1
    <2>1. Return(Failed(Top.node))
        BY <1>1, <1>5 DEF FoldStep
    <2> QED BY <2>1, <1>1, <1>2, FailedTyped, ReturnTyped
<1>6. CASE ~ Good(ret) /\ Top.pc # 1
    <2>1. Return(Make(Top.node, Top.st, Top.acc))
        BY <1>1, <1>6 DEF FoldStep
    <2> QED BY <2>1, <1>1, <1>2, MakeTyped, ReturnTyped
<1> QED BY <1>4, <1>5, <1>6

LEMMA SequenceTyped ==
    ASSUME TypeOK, Rooted, ResumeSequence
    PROVE  TypeOK' /\ Rooted'
<1> USE DEF ResumeSequence
<1>0. {"sequence"} \subseteq Ops \ LeafOps
    BY DEF Ops, LeafOps
<1>1. Resumed({"sequence"}) /\ SequenceStep(Top) /\ UNCHANGED <<cur, got>>
    OBVIOUS
<1>2. /\ stack # <<>> /\ Top.node \in Node /\ Op(Top.node) = "sequence"
      /\ Top.st \in State /\ Top.acc \in Seq(Token)
      /\ Top.keys \in SUBSET Seq(Token)
      /\ ret.val \in Seq(Token) /\ ret.st \in State
      /\ Len(Kids(Top.node)) \in Arity(Op(Top.node))
    BY <1>0, <1>1, ResumedFacts
<1>3. Len(Kids(Top.node)) = 2
    BY <1>2 DEF Arity, LeafOps, ProbeOps, TryOps, DelimitedOps
<1>4. CASE ~ Good(ret)
    <2>1. Return(Make(Top.node, Top.st, Top.acc))
        BY <1>1, <1>4 DEF SequenceStep
    <2> QED BY <2>1, <1>1, <1>2, MakeTyped, ReturnTyped
<1>5. CASE Good(ret) /\ Top.pc = 1
    <2>1. Continue(At(Top, 2, ret.st, ret.st, Top.acc \o ret.val, {}))
        BY <1>1, <1>5 DEF SequenceStep, AfterElem
    <2>2. Top.acc \o ret.val \in Seq(Token) /\ 2 \in 1 .. Len(Kids(Top.node))
        BY <1>2, <1>3
    <2> QED BY <2>1, <2>2, <1>1, <1>2, EmptyTyped, ContinueAtTyped
<1>6. CASE Good(ret) /\ Top.pc # 1
    <2>1. Continue(At(Top, 1, Top.st, ret.st, Top.acc, Top.keys))
        BY <1>1, <1>6 DEF SequenceStep, AfterSep
    <2>2. 1 \in 1 .. Len(Kids(Top.node))
        BY <1>3
    <2> QED BY <2>1, <2>2, <1>1, <1>2, ContinueAtTyped
<1> QED BY <1>4, <1>5, <1>6

LEMMA KeyTyped ==
    ASSUME NEW val \in Seq(Token)
    PROVE  KeyOf(val) \in Seq(Token)
<1>1. CASE val = <<>>
    BY <1>1, EmptyTyped DEF KeyOf
<1>2. CASE val # <<>>
    <2>1. val[1] \in Token
        BY <1>2
    <2> QED BY <1>2, <2>1 DEF KeyOf
<1> QED BY <1>1, <1>2

\* What storing an element does to the frame, whichever container it is.
LEMMA StoredShape ==
    ASSUME NEW acc, NEW keys, NEW val,
           Top.acc = acc, Top.keys = keys, ret.val = val,
           acc \in Seq(Token), val \in Seq(Token), keys \in SUBSET Seq(Token)
    PROVE  \E a \in Seq(Token), ks \in SUBSET Seq(Token) :
             Stored(Top) = At(Top, 3, ret.st, ret.st, a, ks)
<1>1. acc \o val \in Seq(Token)
    OBVIOUS
<1>2. keys \union {KeyOf(val)} \in SUBSET Seq(Token)
    BY KeyTyped
<1> QED BY <1>1, <1>2, EmptyTyped DEF Stored, Emplace, AfterElem

LEMMA DelimitedTyped ==
    ASSUME TypeOK, Rooted, ResumeDelimited
    PROVE  TypeOK' /\ Rooted'
<1> USE DEF ResumeDelimited
<1>0. DelimitedOps \subseteq Ops \ LeafOps /\ "read" \notin DelimitedOps
    BY DEF DelimitedOps, Ops, LeafOps
<1>1. Resumed(DelimitedOps) /\ DelimitedStep(Top) /\ UNCHANGED <<cur, got>>
    OBVIOUS
<1>2. /\ stack # <<>> /\ Top.node \in Node /\ Op(Top.node) \in DelimitedOps
      /\ Op(Top.node) # "read"
      /\ Top.st \in State /\ Top.acc \in Seq(Token)
      /\ Top.keys \in SUBSET Seq(Token)
      /\ ret.val \in Seq(Token) /\ ret.st \in State
      /\ Len(Kids(Top.node)) \in Arity(Op(Top.node))
    BY <1>0, <1>1, ResumedFacts
<1>3. Len(Kids(Top.node)) = 4
    BY <1>2 DEF Arity, LeafOps, ProbeOps, TryOps, DelimitedOps
<1>4. 2 \in 1 .. Len(Kids(Top.node)) /\ 3 \in 1 .. Len(Kids(Top.node))
      /\ 4 \in 1 .. Len(Kids(Top.node))
    BY <1>3
<1>5. CASE Good(ret) /\ Top.pc = 1
    <2>1. Continue(At(Top, 2, ret.st, ret.st, <<>>, {}))
        BY <1>1, <1>5 DEF DelimitedStep
    <2> QED BY <2>1, <1>1, <1>2, <1>4, EmptyTyped, ContinueAtTyped
<1>6. CASE Good(ret) /\ Top.pc = 2
    <2>1. Continue(Stored(Top))
        BY <1>1, <1>6 DEF DelimitedStep
    <2>2. PICK a \in Seq(Token), ks \in SUBSET Seq(Token) :
            Stored(Top) = At(Top, 3, ret.st, ret.st, a, ks)
        BY <1>2, StoredShape
    <2> QED BY <2>1, <2>2, <1>1, <1>2, <1>4, ContinueAtTyped
<1>7. CASE Good(ret) /\ Top.pc = 3
    <2>1. Continue(At(Top, 2, Top.st, ret.st, Top.acc, Top.keys))
        BY <1>1, <1>7 DEF DelimitedStep, AfterSep
    <2> QED BY <2>1, <1>1, <1>2, <1>4, ContinueAtTyped
<1>8. CASE Good(ret) /\ Top.pc = 4
    <2>1. Return(Make(Top.node, ret.st, Top.acc))
        BY <1>1, <1>8 DEF DelimitedStep
    <2> QED BY <2>1, <1>1, <1>2, MakeTyped, ReturnTyped
<1>9. CASE ~ Good(ret) /\ Top.pc \in {2, 3}
    <2>1. Continue(At(Top, 4, Top.st, Top.st, Top.acc, Top.keys))
        BY <1>1, <1>9 DEF DelimitedStep
    <2> QED BY <2>1, <1>1, <1>2, <1>4, ContinueAtTyped
<1>10. CASE /\ ~ (Good(ret) /\ Top.pc \in {1, 2, 3, 4})
            /\ ~ (~ Good(ret) /\ Top.pc \in {2, 3})
    <2>1. Return(Failed(Top.node))
        BY <1>1, <1>10 DEF DelimitedStep
    <2> QED BY <2>1, <1>1, <1>2, FailedTyped, ReturnTyped
<1> QED BY <1>5, <1>6, <1>7, <1>8, <1>9, <1>10

LEMMA MarkTyped ==
    ASSUME NEW n \in Node, NEW st \in State
    PROVE  Mark(n, st) \in Seq(Token)
<1>1. [leaf |-> n, from |-> st.begin, to |-> st.begin] \in Token
    BY DEF State, Token
<1> QED BY <1>1 DEF Mark

\* The combinators of one parser return at once, whatever its result is.
LEMMA UnaryTyped ==
    ASSUME TypeOK, Rooted,
           \/ ResumeProbe \/ ResumeTestThen \/ ResumeTry
           \/ ResumeLookahead \/ ResumeRecurse
    PROVE  TypeOK' /\ Rooted'
<1> DEFINE unary == ProbeOps \union TryOps
                        \union {"test_then", "lookahead", "recurse"}
<1>0. unary \subseteq Ops \ LeafOps /\ "read" \notin unary
    BY DEF ProbeOps, TryOps, Ops, LeafOps
<1>1. Resumed(unary) /\ UNCHANGED <<cur, got>>
    BY DEF Resumed, ResumeProbe, ResumeTestThen, ResumeTry, ResumeLookahead,
           ResumeRecurse
<1> HIDE DEF unary
<1>2. /\ stack # <<>> /\ Top.node \in Node /\ Op(Top.node) # "read"
      /\ Top.st \in State /\ Top.in \in State
      /\ ret.val \in Seq(Token) /\ ret.st \in State
      /\ ret.set \in BOOLEAN /\ ret.kind \in Kinds
    BY <1>0, <1>1, ResumedFacts
<1>3. Mark(Top.node, Top.in) \in Seq(Token)
    BY <1>2, MarkTyped
<1>4. CASE ResumeProbe
    <2>1. Return(ProbeResult(Top))
        BY <1>4 DEF ResumeProbe
    <2>2. ProbeResult(Top) \in Result
        BY <1>2, <1>3, EmptyTyped, MakeTyped DEF ProbeResult
    <2> QED BY <2>1, <2>2, <1>1, <1>2, ReturnTyped
<1>5. CASE ResumeTestThen
    <2>1. Return(TestThenResult(Top))
        BY <1>5 DEF ResumeTestThen
    <2>2. TestThenResult(Top) \in Result
        BY <1>2, <1>3, EmptyTyped, MakeTyped DEF TestThenResult
    <2> QED BY <2>1, <2>2, <1>1, <1>2, ReturnTyped
<1>6. CASE ResumeTry
    <2>1. Return(Make(Top.node, TryState(Top), TryValue(Top)))
        BY <1>6 DEF ResumeTry
    <2>2. TryState(Top) \in State
        BY <1>2 DEF TryState
    <2>3. Mark(Top.node, Top.in) \o ret.val \in Seq(Token)
        BY <1>2, <1>3
    <2>4. TryValue(Top) \in Seq(Token)
        BY <2>3, EmptyTyped DEF TryValue
    <2> QED BY <2>1, <2>2, <2>4, <1>1, <1>2, MakeTyped, ReturnTyped
<1>7. CASE ResumeLookahead
    <2>1. Return(LookaheadResult(Top))
        BY <1>7 DEF ResumeLookahead
    <2>2. LookaheadResult(Top) \in Result
        BY <1>2 DEF LookaheadResult, Result
    <2> QED BY <2>1, <2>2, <1>1, <1>2, ReturnTyped
<1>8. CASE ResumeRecurse
    <2>1. Return(Converted(Top.node))
        BY <1>8 DEF ResumeRecurse
    <2>2. Converted(Top.node) \in Result
        BY <1>2, MakeTyped, FailedTyped DEF Converted
    <2> QED BY <2>1, <2>2, <1>1, <1>2, ReturnTyped
<1> QED BY <1>4, <1>5, <1>6, <1>7, <1>8

LEMMA LeafTyped ==
    ASSUME TypeOK, Rooted, ParseLeaf
    PROVE  TypeOK' /\ Rooted'
<1>1. /\ stack # <<>> /\ Op(Top.node) \in LeafOps
      /\ Return(LeafResult(mem, Top.node, Top.in)) /\ UNCHANGED <<cur, got>>
    BY DEF ParseLeaf, InCall
<1>2. Op(Top.node) # "read"
    BY <1>1 DEF LeafOps
<1>3. LeafResult(mem, Top.node, Top.in) \in Result
    BY <1>1, TopFacts, LeafResultTyped
<1> QED BY <1>1, <1>2, <1>3, ReturnTyped

LEMMA CallTyped ==
    ASSUME TypeOK, Rooted, Call
    PROVE  TypeOK' /\ Rooted'
<1>1. /\ stack # <<>> /\ Op(Top.node) \notin LeafOps
      /\ Push(Enter(Kids(Top.node)[Top.pc], Top.arg)) /\ UNCHANGED <<cur, got>>
    BY DEF Call, InCall
<1> QED BY <1>1, PushTyped

LEMMA ReadTyped ==
    ASSUME TypeOK, NEW r \in Roots, Read(r)
    PROVE  TypeOK' /\ Rooted'
<1>1. r \in Node /\ Op(r) = "read"
    BY DEF Roots
<1>2. Len(Kids(r)) = 1
    <2>1. Len(Kids(r)) \in Arity(Op(r))
        BY <1>1, NodeFacts
    <2> QED BY <1>1, <2>1 DEF Arity, LeafOps, ProbeOps, TryOps, DelimitedOps
<1>3. cur \in State
    BY DEF TypeOK
<1>4. /\ stack' = <<Enter(r, cur)>> /\ ret' = NoResult /\ got' = NoResult
      /\ cur' = cur
    BY DEF Read, TypeOK
<1>5. Enter(r, cur) \in Frame
    BY <1>1, <1>3, EnterTyped
<1>6. Enter(r, cur).node = r /\ Enter(r, cur).in = cur /\ Enter(r, cur).pc = 1
    BY DEF Enter
<1>7. stack' \in Seq(Frame) /\ stack' # <<>>
    BY <1>4, <1>5
<1>8. DOMAIN stack' = {1} /\ stack'[1] = Enter(r, cur)
    BY <1>4
<1>9. TypeOK'
    <2>1. \A i \in DOMAIN stack' :
            stack'[i].pc \in 1 .. Len(Kids(stack'[i].node))
        <3>1. stack'[1].pc = 1 /\ stack'[1].node = r
            BY <1>6, <1>8
        <3>2. 1 \in 1 .. Len(Kids(r))
            BY <1>2
        <3> QED BY <3>1, <3>2, <1>8
    <2>2. cur' \in State /\ stack' # <<>>
        BY <1>3, <1>4, <1>7
    <2> QED BY <1>4, <1>7, <2>1, <2>2 DEF TypeOK
<1>10. Rooted'
    BY <1>4, <1>6, <1>8 DEF Rooted, Roots
<1> QED BY <1>9, <1>10

LEMMA FinishTyped ==
    ASSUME TypeOK, Rooted, FinishRead
    PROVE  TypeOK' /\ Rooted'
<1>0. {"read"} \subseteq Ops \ LeafOps
    BY DEF Ops, LeafOps
<1>1. ret \in Result /\ ret.st \in State /\ ret.kind \in Kinds
    BY <1>0, ResumedFacts DEF FinishRead
<1>2. cur \in State
    BY DEF TypeOK
<1>3. /\ cur' = ReadState /\ stack' = <<>> /\ ret' = NoResult
      /\ got' = IF Good(ret) THEN ret ELSE Unread(ret)
    BY DEF FinishRead
<1>4. cur' \in State
    BY <1>1, <1>2, <1>3 DEF ReadState
<1>5. Unread(ret) \in Result
    <2>1. NullState \in State
        BY DEF NullState, State, NULLPTR
    <2> QED BY <2>1, <1>1, EmptyTyped DEF Unread, Result
<1>6. got' \in Result
    BY <1>1, <1>3, <1>5
<1>7. stack' \in Seq(Frame) /\ DOMAIN stack' = {}
    BY <1>3
<1> QED BY <1>3, <1>4, <1>6, <1>7 DEF TypeOK, Rooted

LEMMA InitTyped ==
    ASSUME Init
    PROVE  TypeOK /\ Rooted
<1>1. cur \in State
    BY SourcesAssumption DEF Init
<1>2. stack = <<>> /\ ret = NoResult /\ got = NoResult
    BY DEF Init
<1>3. stack \in Seq(Frame) /\ DOMAIN stack = {}
    BY <1>2
<1> QED BY <1>1, <1>2, <1>3 DEF TypeOK, Rooted

LEMMA NextTyped ==
    ASSUME TypeOK, Rooted, [Next]_vars
    PROVE  TypeOK' /\ Rooted'
<1>1. CASE ParseLeaf
    BY <1>1, LeafTyped
<1>2. CASE Call
    BY <1>2, CallTyped
<1>3. CASE ResumeThread
    BY <1>3, ThreadTyped
<1>4. CASE ResumeEither
    BY <1>4, EitherTyped
<1>5. CASE ResumeFold
    BY <1>5, FoldTyped
<1>6. CASE ResumeSequence
    BY <1>6, SequenceTyped
<1>7. CASE ResumeDelimited
    BY <1>7, DelimitedTyped
<1>8. CASE \/ ResumeProbe \/ ResumeTestThen \/ ResumeTry
           \/ ResumeLookahead \/ ResumeRecurse
    BY <1>8, UnaryTyped
<1>9. CASE FinishRead
    BY <1>9, FinishTyped
<1>10. CASE \E r \in Roots : Read(r)
    BY <1>10, ReadTyped
<1>11. CASE UNCHANGED vars
    BY <1>11 DEF vars, TypeOK, Rooted, Top
<1> QED
    BY <1>1, <1>2, <1>3, <1>4, <1>5, <1>6, <1>7, <1>8, <1>9, <1>10, <1>11
    DEF Next, Work

\* Type correctness for every grammar and every input: in particular no
\* combinator ever applies a parser it does not have, and no result is left
\* behind when the call that waits for it is gone.
THEOREM TypeCorrect == Spec => []TypeOK
<1>1. Init => TypeOK /\ Rooted
    BY InitTyped
<1>2. TypeOK /\ Rooted /\ [Next]_vars => TypeOK' /\ Rooted'
    BY NextTyped
<1> QED BY <1>1, <1>2, PTL DEF Spec

----------------------------------------------------------------------------
(***************************************************************************)
(* Where results end.  The inductive invariant relates the states along    *)
(* the stack; Sound is what it says beyond types.                          *)
(***************************************************************************)
Sound == FramesNested /\ AlternativesFailed /\ ResultFits /\ ViewSound

\* What a step of a read before the last one does: a call waits, or returns a
\* value and a rest of what it was applied to, or a failure its type allows.
\* Only lookahead hands back a result that another parser made.
Works ==
    /\ stack # <<>> /\ stack' # <<>>
    /\ \/ ret' = NoResult
       \/ \E st \in State, val \in Seq(Token) :
            /\ ret' = Make(Top.node, st, val)
            /\ Within(st, Top.in)
       \/ ret' = Failed(Top.node) /\ ~ AlwaysGood(Top.node)
       \/ /\ Resumed({"lookahead"})
          /\ ret' = LookaheadResult(Top)
    /\ Top.node \in Node

LEMMA WithinTrans ==
    ASSUME NEW a \in State, NEW b \in State, NEW c \in State,
           Within(a, b), Within(b, c)
    PROVE  Within(a, c)
BY DEF Within, State

LEMMA WithinSelf ==
    ASSUME NEW a \in State, NEW b \in State, Within(a, b)
    PROVE  Within(a, a)
BY DEF Within, State

\* The states of the frame on top, each within the one before it.
LEMMA TopNested ==
    ASSUME IInv, stack # <<>>
    PROVE  /\ Top.in \in State /\ Top.st \in State /\ Top.arg \in State
           /\ cur \in State
           /\ Within(Top.in, cur)
           /\ Within(Top.st, Top.in)
           /\ Within(Top.arg, Top.st)
           /\ Within(Top.arg, Top.in)
           /\ Within(Top.in, Top.in)
           /\ Within(Top.st, Top.st)
           /\ Within(Top.arg, Top.arg)
<1>1. /\ Top.in \in State /\ Top.st \in State /\ Top.arg \in State
      /\ Len(stack) \in DOMAIN stack /\ Top = stack[Len(stack)]
    BY TopFacts DEF IInv, TypeOK
<1>2. cur \in State
    BY DEF IInv, TypeOK
<1>3. Within(Top.in, cur) /\ Within(Top.st, Top.in) /\ Within(Top.arg, Top.st)
    BY <1>1 DEF IInv, FramesNested
<1> QED BY <1>1, <1>2, <1>3, WithinTrans, WithinSelf

LEMMA PushSound ==
    ASSUME IInv, stack # <<>>, Op(Top.node) \notin LeafOps,
           Push(Enter(Kids(Top.node)[Top.pc], Top.arg)),
           UNCHANGED <<mem, cur>>
    PROVE  Sound' /\ Works
<1> DEFINE k == Kids(Top.node)[Top.pc]
           f == Enter(k, Top.arg)
<1>1. k \in Node /\ f \in Frame /\ stack \in Seq(Frame)
    BY TopFacts, NodeFacts, EnterTyped DEF IInv, TypeOK
<1>2. f.in = Top.arg /\ f.st = Top.arg /\ f.arg = Top.arg /\ f.pc = 1
    BY DEF Enter
<1> HIDE DEF f
<1>3. /\ stack' \in Seq(Frame)
      /\ Len(stack') = Len(stack) + 1
      /\ \A i \in 1 .. Len(stack) : stack'[i] = stack[i]
      /\ stack'[Len(stack')] = f
      /\ stack' # <<>>
      /\ ret' = NoResult
    BY <1>1, Pushed DEF f
<1>4. \A i \in DOMAIN stack' :
        \/ i \in DOMAIN stack /\ stack'[i] = stack[i]
        \/ stack'[i] = f
    BY <1>1, <1>3
<1>5. Within(f.in, cur) /\ Within(f.st, f.in) /\ Within(f.arg, f.st)
    BY <1>2, TopNested, WithinTrans
<1>6. FramesNested'
    BY <1>4, <1>5 DEF IInv, FramesNested
<1>7. AlternativesFailed'
    BY <1>2, <1>4 DEF IInv, AlternativesFailed
<1>8. ResultFits'
    BY <1>3 DEF ResultFits
<1>9. ViewSound'
    BY DEF IInv, ViewSound
<1>10. Works
    BY <1>3, TopFacts DEF IInv, Works
<1> QED BY <1>6, <1>7, <1>8, <1>9, <1>10 DEF Sound

LEMMA ContinueSound ==
    ASSUME IInv, stack # <<>>,
           NEW pc \in Nat, NEW st \in State, NEW arg \in State,
           NEW acc \in Seq(Token), NEW keys \in SUBSET Seq(Token),
           Within(st, Top.in), Within(arg, st),
           Op(Top.node) = "either" =>
               \A j \in 1 .. (pc - 1) : ~ AlwaysGood(Kids(Top.node)[j]),
           Continue(At(Top, pc, st, arg, acc, keys)), UNCHANGED <<mem, cur>>
    PROVE  Sound' /\ Works
<1> DEFINE f == At(Top, pc, st, arg, acc, keys)
<1>1. f \in Frame /\ stack \in Seq(Frame)
    BY TopFacts, AtTyped DEF IInv, TypeOK
<1>2. /\ f.node = Top.node /\ f.in = Top.in
      /\ f.st = st /\ f.arg = arg /\ f.pc = pc
    BY AtKeeps
<1> HIDE DEF f
<1>3. /\ stack' \in Seq(Frame)
      /\ Len(stack') = Len(stack)
      /\ \A i \in 1 .. (Len(stack) - 1) : stack'[i] = stack[i]
      /\ stack'[Len(stack)] = f
      /\ stack' # <<>>
      /\ ret' = NoResult
    BY <1>1, Continued DEF f
<1>4. \A i \in DOMAIN stack' :
        \/ i \in DOMAIN stack /\ stack'[i] = stack[i]
        \/ stack'[i] = f
    BY <1>1, <1>3
<1>5. Within(f.in, cur) /\ Within(f.st, f.in) /\ Within(f.arg, f.st)
    BY <1>2, TopNested
<1>6. FramesNested'
    BY <1>4, <1>5 DEF IInv, FramesNested
<1>7. AlternativesFailed'
    BY <1>2, <1>4 DEF IInv, AlternativesFailed
<1>8. ResultFits'
    BY <1>3 DEF ResultFits
<1>9. ViewSound'
    BY DEF IInv, ViewSound
<1>10. Works
    BY <1>3, TopFacts DEF IInv, Works
<1> QED BY <1>6, <1>7, <1>8, <1>9, <1>10 DEF Sound

LEMMA ReturnSound ==
    ASSUME IInv, stack # <<>>, Op(Top.node) # "read",
           NEW r \in Result, r.kind = Kind(Top.node),
           Good(r) => Within(r.st, Top.in),
           Return(r), UNCHANGED <<mem, cur>>
    PROVE  Sound' /\ stack' # <<>>
<1>1. stack \in Seq(Frame) /\ Len(stack) >= 2 /\ Len(stack) \in Nat
    BY ReturnsToCaller, TopFacts DEF IInv, TypeOK
<1>2. /\ stack' \in Seq(Frame)
      /\ Len(stack') = Len(stack) - 1
      /\ \A i \in 1 .. (Len(stack) - 1) : stack'[i] = stack[i]
      /\ stack' # <<>>
      /\ ret' = r
    BY <1>1, Returned
<1>3. \A i \in DOMAIN stack' : i \in DOMAIN stack /\ stack'[i] = stack[i]
    BY <1>1, <1>2
<1>4. FramesNested'
    BY <1>3 DEF IInv, FramesNested
<1>5. AlternativesFailed'
    BY <1>3 DEF IInv, AlternativesFailed
<1>6. ResultFits'
    <2> DEFINE caller == stack[Len(stack) - 1]
    <2>1. Top' = caller
        <3>1. Top' = stack'[Len(stack')]
            BY DEF Top
        <3>2. Len(stack) - 1 \in 1 .. (Len(stack) - 1)
            BY <1>1
        <3> QED BY <3>1, <3>2, <1>2
    <2>2. Top.node = Kids(caller.node)[caller.pc] /\ Top.in = caller.arg
        <3>1. Len(stack) \in DOMAIN stack /\ Len(stack) > 1
            BY <1>1
        <3> QED BY <3>1 DEF IInv, Rooted, Top
    <2>3. Returner' = Top.node
        BY <2>1, <2>2 DEF Returner
    <2>4. Good(ret)' = Good(r)
        BY <1>2 DEF Good
    <2> QED BY <1>2, <2>1, <2>2, <2>3, <2>4 DEF ResultFits
<1>7. ViewSound'
    BY DEF IInv, ViewSound
<1> QED BY <1>2, <1>4, <1>5, <1>6, <1>7 DEF Sound

\* What is known of a result when the frame it is for resumes.
LEMMA ResumedSound ==
    ASSUME IInv, NEW ops \in SUBSET (Ops \ LeafOps), Resumed(ops)
    PROVE  /\ ret.kind = Kind(Kids(Top.node)[Top.pc])
           /\ AlwaysGood(Kids(Top.node)[Top.pc]) => Good(ret)
           /\ Good(ret) =>
                /\ Within(ret.st, Top.arg)
                /\ Within(ret.st, Top.st)
                /\ Within(ret.st, Top.in)
                /\ Within(ret.st, ret.st)
<1>1. ret # NoResult /\ stack # <<>> /\ ret.st \in State
    BY ResumedFacts DEF IInv
<1>2. /\ ret.kind = Kind(Returner)
      /\ Good(ret) => Within(ret.st, Top.arg)
    BY <1>1 DEF IInv, ResultFits
<1>3. AlwaysGood(Returner) => Good(ret)
    BY <1>2 DEF Kind, Good
<1> QED BY <1>1, <1>2, <1>3, TopNested, WithinTrans, WithinSelf DEF Returner

LEMMA FailedFits ==
    ASSUME NEW n \in Node
    PROVE  /\ Failed(n).kind = Kind(n)
           /\ ~ AlwaysGood(n) => ~ Good(Failed(n))
BY DEF Failed, Kind, Good, StateGood, NullState

\* The parser on top returns a value.
LEMMA MakeSound ==
    ASSUME IInv, stack # <<>>, Op(Top.node) # "read",
           NEW st \in State, NEW val \in Seq(Token), Within(st, Top.in),
           Return(Make(Top.node, st, val)), UNCHANGED <<mem, cur>>
    PROVE  Sound' /\ Works
<1> DEFINE r == Make(Top.node, st, val)
<1>1. Top.node \in Node
    BY TopFacts DEF IInv
<1>2. r \in Result
    BY <1>1, MakeTyped
<1>3. r.kind = Kind(Top.node) /\ r.st = st
    BY DEF Make
<1>4. ret' = r
    BY DEF Return
<1> HIDE DEF r
<1>5. Sound' /\ stack' # <<>>
    BY <1>2, <1>3, ReturnSound DEF r
<1> QED BY <1>1, <1>4, <1>5 DEF Works, r

\* The parser on top fails, as one whose type promises success may not.
LEMMA FailSound ==
    ASSUME IInv, stack # <<>>, Op(Top.node) # "read",
           ~ AlwaysGood(Top.node),
           Return(Failed(Top.node)), UNCHANGED <<mem, cur>>
    PROVE  Sound' /\ Works
<1>1. Top.node \in Node
    BY TopFacts DEF IInv
<1>2. Failed(Top.node) \in Result
    BY <1>1, FailedTyped
<1>3. ret' = Failed(Top.node)
    BY DEF Return
<1>4. Sound' /\ stack' # <<>>
    BY <1>1, <1>2, FailedFits, ReturnSound
<1> QED BY <1>1, <1>3, <1>4 DEF Works

LEMMA ThreadSound ==
    ASSUME IInv, ResumeThread
    PROVE  Sound' /\ Works
<1>0. ThreadOps \subseteq Ops \ LeafOps
    BY DEF ThreadOps, Ops, LeafOps
<1>1. Resumed(ThreadOps) /\ ThreadStep(Top) /\ UNCHANGED <<mem, cur>>
    BY DEF ResumeThread
<1>2. /\ stack # <<>> /\ Top.node \in Node /\ Op(Top.node) \in ThreadOps
      /\ Top.acc \in Seq(Token) /\ ret.val \in Seq(Token) /\ ret.st \in State
      /\ Top.pc \in 1 .. Len(Kids(Top.node)) /\ Len(Kids(Top.node)) \in Nat
    BY <1>0, <1>1, ResumedFacts DEF IInv
<1>3. Op(Top.node) # "read" /\ Op(Top.node) # "either"
    BY <1>2 DEF ThreadOps
<1>4. Gathered(Top) \in Seq(Token)
    BY <1>2, EmptyTyped DEF Gathered
<1>5. /\ AlwaysGood(Kids(Top.node)[Top.pc]) => Good(ret)
      /\ Good(ret) => Within(ret.st, Top.in) /\ Within(ret.st, ret.st)
    BY <1>0, <1>1, ResumedSound
<1>6. CASE ~ Good(ret)
    <2>1. Return(Failed(Top.node))
        BY <1>1, <1>6 DEF ThreadStep
    <2>2. ~ AlwaysGood(Top.node)
        <3>1. ~ AlwaysGood(Kids(Top.node)[Top.pc])
            BY <1>5, <1>6
        <3>2. Kids(Top.node) \in Seq(Node) /\ AlwaysGood(Top.node) \in BOOLEAN
              /\ AlwaysGood(Top.node) = AlwaysGoodRule(Top.node)
            BY <1>2, NodeFacts
        <3>3. Top.pc \in DOMAIN Kids(Top.node)
            BY <1>2, <3>2
        <3> QED BY <1>2, <3>1, <3>2, <3>3
                DEF AlwaysGoodRule, ThreadOps, ProbeOps, TryOps
    <2> QED BY <2>1, <2>2, <1>1, <1>2, <1>3, FailSound
<1>7. CASE Good(ret) /\ Top.pc < Len(Kids(Top.node))
    <2>1. Continue(At(Top, Top.pc + 1, ret.st, ret.st, Gathered(Top), {}))
        BY <1>1, <1>7 DEF ThreadStep
    <2>2. Top.pc + 1 \in Nat
        BY <1>2
    <2> QED BY <2>1, <2>2, <1>1, <1>2, <1>3, <1>4, <1>5, <1>7, EmptyTyped,
               ContinueSound
<1>8. CASE Good(ret) /\ ~ (Top.pc < Len(Kids(Top.node)))
    <2>1. Return(Make(Top.node, ret.st, Gathered(Top)))
        BY <1>1, <1>8 DEF ThreadStep
    <2> QED BY <2>1, <1>1, <1>2, <1>3, <1>4, <1>5, <1>8, MakeSound
<1> QED BY <1>6, <1>7, <1>8

\* An either that promises success has an alternative that cannot fail, and
\* the ones in front of the current one are not it.
LEMMA EitherNeverFallsOff ==
    ASSUME IInv, stack # <<>>, Op(Top.node) = "either",
           Top.pc = Len(Kids(Top.node)),
           ~ AlwaysGood(Kids(Top.node)[Top.pc])
    PROVE  ~ AlwaysGood(Top.node)
<1>1. Top.node \in Node /\ Len(stack) \in DOMAIN stack
      /\ Top = stack[Len(stack)]
    BY TopFacts DEF IInv, TypeOK
<1>2. \A j \in 1 .. (Top.pc - 1) : ~ AlwaysGood(Kids(Top.node)[j])
    BY <1>1 DEF IInv, AlternativesFailed
<1>3. Kids(Top.node) \in Seq(Node) /\ AlwaysGood(Top.node) \in BOOLEAN
      /\ AlwaysGood(Top.node) = AlwaysGoodRule(Top.node)
    BY <1>1, NodeFacts
<1>4. \A j \in DOMAIN Kids(Top.node) : j \in 1 .. (Top.pc - 1) \/ j = Top.pc
    BY <1>3
<1>5. ~ \E j \in DOMAIN Kids(Top.node) : AlwaysGood(Kids(Top.node)[j])
    BY <1>2, <1>4
<1> QED BY <1>3, <1>5 DEF AlwaysGoodRule, ProbeOps, TryOps

LEMMA EitherSound ==
    ASSUME IInv, ResumeEither
    PROVE  Sound' /\ Works
<1>0. {"either"} \subseteq Ops \ LeafOps
    BY DEF Ops, LeafOps
<1>1. Resumed({"either"}) /\ EitherStep(Top) /\ UNCHANGED <<mem, cur>>
    BY DEF ResumeEither
<1>2. /\ stack # <<>> /\ Top.node \in Node /\ Op(Top.node) = "either"
      /\ Top.st \in State /\ ret.val \in Seq(Token) /\ ret.st \in State
      /\ Top.pc \in 1 .. Len(Kids(Top.node)) /\ Len(Kids(Top.node)) \in Nat
    BY <1>0, <1>1, ResumedFacts DEF IInv
<1>3. /\ AlwaysGood(Kids(Top.node)[Top.pc]) => Good(ret)
      /\ Good(ret) => Within(ret.st, Top.in)
    BY <1>0, <1>1, ResumedSound
<1>4. CASE Good(ret)
    <2>1. Return(Make(Top.node, ret.st, ret.val))
        BY <1>1, <1>4 DEF EitherStep
    <2> QED BY <2>1, <1>1, <1>2, <1>3, <1>4, MakeSound
<1>5. CASE ~ Good(ret) /\ Top.pc < Len(Kids(Top.node))
    <2>1. PICK pc \in Nat : pc = Top.pc + 1
        BY <1>2
    <2>2. Continue(At(Top, pc, Top.st, Top.st, <<>>, {}))
        BY <1>1, <1>5, <2>1 DEF EitherStep
    <2>3. Within(Top.st, Top.in) /\ Within(Top.st, Top.st)
        BY <1>2, TopNested
    <2>4. \A j \in 1 .. (pc - 1) : ~ AlwaysGood(Kids(Top.node)[j])
        <3>1. \A j \in 1 .. (Top.pc - 1) : ~ AlwaysGood(Kids(Top.node)[j])
            <4>1. Len(stack) \in DOMAIN stack /\ Top = stack[Len(stack)]
                BY <1>2, TopFacts DEF IInv, TypeOK
            <4> QED BY <1>2, <4>1 DEF IInv, AlternativesFailed
        <3>2. ~ AlwaysGood(Kids(Top.node)[Top.pc])
            BY <1>3, <1>5
        <3>3. \A j \in 1 .. (pc - 1) : j \in 1 .. (Top.pc - 1) \/ j = Top.pc
            BY <1>2, <2>1
        <3> QED BY <3>1, <3>2, <3>3
    <2> QED BY <2>2, <2>3, <2>4, <1>1, <1>2, EmptyTyped, ContinueSound
<1>6. CASE ~ Good(ret) /\ ~ (Top.pc < Len(Kids(Top.node)))
    <2>1. Return(Failed(Top.node))
        BY <1>1, <1>6 DEF EitherStep
    <2>2. Top.pc = Len(Kids(Top.node))
        BY <1>2, <1>6
    <2>3. ~ AlwaysGood(Top.node)
        BY <2>2, <1>2, <1>3, <1>6, EitherNeverFallsOff
    <2> QED BY <2>1, <2>3, <1>1, <1>2, FailSound
<1> QED BY <1>4, <1>5, <1>6

LEMMA NotAlwaysGood ==
    ASSUME NEW n \in Node,
           Op(n) \in {"fold_left", "recurse", "enclose", "then", "read"}
                         \union DelimitedOps
    PROVE  ~ AlwaysGood(n)
<1>1. AlwaysGood(n) = AlwaysGoodRule(n)
    BY NodeFacts
<1> QED BY <1>1 DEF AlwaysGoodRule, ProbeOps, TryOps, DelimitedOps

LEMMA FoldSound ==
    ASSUME IInv, ResumeFold
    PROVE  Sound' /\ Works
<1>0. {"fold_left"} \subseteq Ops \ LeafOps
    BY DEF Ops, LeafOps
<1>1. Resumed({"fold_left"}) /\ FoldStep(Top) /\ UNCHANGED <<mem, cur>>
    BY DEF ResumeFold
<1>2. /\ stack # <<>> /\ Top.node \in Node /\ Op(Top.node) = "fold_left"
      /\ Top.st \in State /\ Top.acc \in Seq(Token)
      /\ ret.val \in Seq(Token) /\ ret.st \in State
    BY <1>0, <1>1, ResumedFacts DEF IInv
<1>3. Good(ret) => Within(ret.st, Top.in) /\ Within(ret.st, ret.st)
    BY <1>0, <1>1, ResumedSound
<1>4. CASE Good(ret)
    <2>1. Continue(At(Top, 2, ret.st, ret.st, Top.acc \o ret.val, {}))
        BY <1>1, <1>4 DEF FoldStep
    <2>2. Top.acc \o ret.val \in Seq(Token)
        BY <1>2
    <2> QED BY <2>1, <2>2, <1>1, <1>2, <1>3, <1>4, EmptyTyped, ContinueSound
<1>5. CASE ~ Good(ret) /\ Top.pc = 1
    <2>1. Return(Failed(Top.node))
        BY <1>1, <1>5 DEF FoldStep
    <2> QED BY <2>1, <1>1, <1>2, NotAlwaysGood, FailSound
<1>6. CASE ~ Good(ret) /\ Top.pc # 1
    <2>1. Return(Make(Top.node, Top.st, Top.acc))
        BY <1>1, <1>6 DEF FoldStep
    <2> QED BY <2>1, <1>1, <1>2, TopNested, MakeSound
<1> QED BY <1>4, <1>5, <1>6

LEMMA SequenceSound ==
    ASSUME IInv, ResumeSequence
    PROVE  Sound' /\ Works
<1>0. {"sequence"} \subseteq Ops \ LeafOps
    BY DEF Ops, LeafOps
<1>1. Resumed({"sequence"}) /\ SequenceStep(Top) /\ UNCHANGED <<mem, cur>>
    BY DEF ResumeSequence
<1>2. /\ stack # <<>> /\ Top.node \in Node /\ Op(Top.node) = "sequence"
      /\ Top.st \in State /\ Top.acc \in Seq(Token)
      /\ Top.keys \in SUBSET Seq(Token)
      /\ ret.val \in Seq(Token) /\ ret.st \in State
    BY <1>0, <1>1, ResumedFacts DEF IInv
<1>3. /\ Within(Top.st, Top.in)
      /\ Good(ret) => /\ Within(ret.st, Top.in) /\ Within(ret.st, Top.st)
                      /\ Within(ret.st, ret.st)
    BY <1>0, <1>1, <1>2, ResumedSound, TopNested
<1>4. CASE ~ Good(ret)
    <2>1. Return(Make(Top.node, Top.st, Top.acc))
        BY <1>1, <1>4 DEF SequenceStep
    <2> QED BY <2>1, <1>1, <1>2, <1>3, MakeSound
<1>5. CASE Good(ret) /\ Top.pc = 1
    <2>1. Continue(At(Top, 2, ret.st, ret.st, Top.acc \o ret.val, {}))
        BY <1>1, <1>5 DEF SequenceStep, AfterElem
    <2>2. Top.acc \o ret.val \in Seq(Token)
        BY <1>2
    <2> QED BY <2>1, <2>2, <1>1, <1>2, <1>3, <1>5, EmptyTyped, ContinueSound
<1>6. CASE Good(ret) /\ Top.pc # 1
    <2>1. Continue(At(Top, 1, Top.st, ret.st, Top.acc, Top.keys))
        BY <1>1, <1>6 DEF SequenceStep, AfterSep
    <2> QED BY <2>1, <1>1, <1>2, <1>3, <1>6, ContinueSound
<1> QED BY <1>4, <1>5, <1>6

LEMMA DelimitedSound ==
    ASSUME IInv, ResumeDelimited
    PROVE  Sound' /\ Works
<1>0. DelimitedOps \subseteq Ops \ LeafOps
    BY DEF DelimitedOps, Ops, LeafOps
<1>1. Resumed(DelimitedOps) /\ DelimitedStep(Top) /\ UNCHANGED <<mem, cur>>
    BY DEF ResumeDelimited
<1>2. /\ stack # <<>> /\ Top.node \in Node /\ Op(Top.node) \in DelimitedOps
      /\ Top.st \in State /\ Top.acc \in Seq(Token)
      /\ Top.keys \in SUBSET Seq(Token)
      /\ ret.val \in Seq(Token) /\ ret.st \in State
    BY <1>0, <1>1, ResumedFacts DEF IInv
<1>3. Op(Top.node) # "read" /\ Op(Top.node) # "either"
    BY <1>2 DEF DelimitedOps
<1>4. /\ Within(Top.st, Top.in) /\ Within(Top.st, Top.st)
      /\ Good(ret) => /\ Within(ret.st, Top.in) /\ Within(ret.st, Top.st)
                      /\ Within(ret.st, ret.st)
    BY <1>0, <1>1, <1>2, ResumedSound, TopNested
<1>5. CASE Good(ret) /\ Top.pc = 1
    <2>1. Continue(At(Top, 2, ret.st, ret.st, <<>>, {}))
        BY <1>1, <1>5 DEF DelimitedStep
    <2> QED BY <2>1, <1>1, <1>2, <1>3, <1>4, <1>5, EmptyTyped, ContinueSound
<1>6. CASE Good(ret) /\ Top.pc = 2
    <2>1. Continue(Stored(Top))
        BY <1>1, <1>6 DEF DelimitedStep
    <2>2. PICK a \in Seq(Token), ks \in SUBSET Seq(Token) :
            Stored(Top) = At(Top, 3, ret.st, ret.st, a, ks)
        BY <1>2, StoredShape
    <2> QED BY <2>1, <2>2, <1>1, <1>2, <1>3, <1>4, <1>6, ContinueSound
<1>7. CASE Good(ret) /\ Top.pc = 3
    <2>1. Continue(At(Top, 2, Top.st, ret.st, Top.acc, Top.keys))
        BY <1>1, <1>7 DEF DelimitedStep, AfterSep
    <2> QED BY <2>1, <1>1, <1>2, <1>3, <1>4, <1>7, ContinueSound
<1>8. CASE Good(ret) /\ Top.pc = 4
    <2>1. Return(Make(Top.node, ret.st, Top.acc))
        BY <1>1, <1>8 DEF DelimitedStep
    <2> QED BY <2>1, <1>1, <1>2, <1>3, <1>4, <1>8, MakeSound
<1>9. CASE ~ Good(ret) /\ Top.pc \in {2, 3}
    <2>1. Continue(At(Top, 4, Top.st, Top.st, Top.acc, Top.keys))
        BY <1>1, <1>9 DEF DelimitedStep
    <2> QED BY <2>1, <1>1, <1>2, <1>3, <1>4, ContinueSound
<1>10. CASE /\ ~ (Good(ret) /\ Top.pc \in {1, 2, 3, 4})
            /\ ~ (~ Good(ret) /\ Top.pc \in {2, 3})
    <2>1. Return(Failed(Top.node))
        BY <1>1, <1>10 DEF DelimitedStep
    <2> QED BY <2>1, <1>1, <1>2, <1>3, NotAlwaysGood, FailSound
<1> QED BY <1>5, <1>6, <1>7, <1>8, <1>9, <1>10

\* The result types of lookahead and of its parser are the same.
LEMMA LookaheadKind ==
    ASSUME NEW n \in Node, Op(n) = "lookahead"
    PROVE  Kind(Kids(n)[1]) = Kind(n)
<1>1. SameResultType(n, Kids(n)[1])
    BY GrammarAssumption
<1> QED BY <1>1 DEF SameResultType, Kind, AlwaysGood

LEMMA UnarySound ==
    ASSUME IInv,
           \/ ResumeProbe \/ ResumeTestThen \/ ResumeTry
           \/ ResumeLookahead \/ ResumeRecurse
    PROVE  Sound' /\ Works
<1> DEFINE unary == ProbeOps \union TryOps
                        \union {"test_then", "lookahead", "recurse"}
<1>0. unary \subseteq Ops \ LeafOps /\ "read" \notin unary
    BY DEF ProbeOps, TryOps, Ops, LeafOps
<1>1. Resumed(unary) /\ UNCHANGED <<mem, cur>>
    BY DEF Resumed, ResumeProbe, ResumeTestThen, ResumeTry, ResumeLookahead,
           ResumeRecurse
<1> HIDE DEF unary
<1>2. /\ stack # <<>> /\ Top.node \in Node /\ Op(Top.node) # "read"
      /\ Top.st \in State /\ Top.in \in State
      /\ ret.val \in Seq(Token) /\ ret.st \in State
      /\ ret.set \in BOOLEAN /\ ret.kind \in Kinds
      /\ Top.pc \in 1 .. Len(Kids(Top.node))
      /\ Len(Kids(Top.node)) \in Arity(Op(Top.node))
    BY <1>0, <1>1, ResumedFacts DEF IInv
<1>3. Mark(Top.node, Top.in) \in Seq(Token)
    BY <1>2, MarkTyped
<1>4. /\ Within(Top.in, Top.in) /\ Within(Top.st, Top.in)
      /\ Good(ret) => Within(ret.st, Top.in)
      /\ ret.kind = Kind(Kids(Top.node)[Top.pc])
    BY <1>0, <1>1, <1>2, ResumedSound, TopNested
<1>5. CASE ResumeProbe
    <2>1. Return(ProbeResult(Top))
        BY <1>5 DEF ResumeProbe
    <2>2. \E val \in Seq(Token) :
            ProbeResult(Top) = Make(Top.node, Top.in, val)
        BY <1>3, EmptyTyped DEF ProbeResult
    <2> QED BY <2>1, <2>2, <1>1, <1>2, <1>4, MakeSound
<1>6. CASE ResumeTestThen
    <2>1. Return(TestThenResult(Top))
        BY <1>6 DEF ResumeTestThen
    <2>2. \E st \in {ret.st, Top.st}, val \in Seq(Token) :
            /\ TestThenResult(Top) = Make(Top.node, st, val)
            /\ Within(st, Top.in)
        BY <1>3, <1>4, EmptyTyped DEF TestThenResult
    <2> QED BY <2>1, <2>2, <1>1, <1>2, MakeSound
<1>7. CASE ResumeTry
    <2>1. Return(Make(Top.node, TryState(Top), TryValue(Top)))
        BY <1>7 DEF ResumeTry
    <2>2. TryState(Top) \in State /\ Within(TryState(Top), Top.in)
        BY <1>2, <1>4 DEF TryState
    <2>3. Mark(Top.node, Top.in) \o ret.val \in Seq(Token)
        BY <1>2, <1>3
    <2>4. TryValue(Top) \in Seq(Token)
        BY <2>3, EmptyTyped DEF TryValue
    <2> QED BY <2>1, <2>2, <2>4, <1>1, <1>2, MakeSound
<1>8. CASE ResumeLookahead
    <2>1. Return(LookaheadResult(Top)) /\ Op(Top.node) = "lookahead"
        BY <1>8 DEF ResumeLookahead, Resumed
    <2>2. Len(Kids(Top.node)) = 1
        BY <1>2, <2>1 DEF Arity, LeafOps, ProbeOps, TryOps, DelimitedOps
    <2>3. Top.pc = 1
        BY <1>2, <2>2
    <2>4. ret.kind = Kind(Top.node)
        BY <1>2, <1>4, <2>1, <2>3, LookaheadKind
    <2>5. /\ LookaheadResult(Top) \in Result
          /\ LookaheadResult(Top).kind = Kind(Top.node)
          /\ LookaheadResult(Top).st = Top.in
        BY <1>2, <2>4 DEF LookaheadResult, Result
    <2>6. Sound' /\ stack' # <<>>
        BY <2>1, <2>5, <1>1, <1>2, <1>4, ReturnSound
    <2>7. ret' = LookaheadResult(Top) /\ Resumed({"lookahead"})
        BY <2>1, <1>8 DEF Return, ResumeLookahead
    <2> QED BY <2>6, <2>7, <1>2 DEF Works
<1>9. CASE ResumeRecurse
    <2>1. Return(Converted(Top.node)) /\ Op(Top.node) = "recurse"
        BY <1>9 DEF ResumeRecurse, Resumed
    <2>2. CASE Good(ret)
        <3>1. Converted(Top.node) = Make(Top.node, ret.st, ret.val)
            BY <2>2 DEF Converted
        <3> QED BY <2>1, <2>2, <3>1, <1>1, <1>2, <1>4, MakeSound
    <2>3. CASE ~ Good(ret)
        <3>1. Converted(Top.node) = Failed(Top.node)
            BY <2>3 DEF Converted
        <3>2. ~ AlwaysGood(Top.node)
            BY <2>1, <1>2, NotAlwaysGood
        <3> QED BY <2>1, <3>1, <3>2, <1>1, <1>2, FailSound
    <2> QED BY <2>2, <2>3
<1> QED BY <1>5, <1>6, <1>7, <1>8, <1>9

\* No parse_string is applied to a view that a quote follows.
LEMMA NoQuoteBehindTop ==
    ASSUME IInv, NoQuoteBehind, stack # <<>>, Op(Top.node) = "string"
    PROVE  mem[Top.in.end] # Quote
<1>1. PICK s \in Sources : mem = s.mem /\ Within(cur, s.view)
    BY DEF IInv, ViewSound
<1>2. Top.in.end = s.view.end
    BY <1>1, TopNested DEF Within
<1>3. Top.node \in Node
    BY TopFacts DEF IInv
<1> QED BY <1>1, <1>2, <1>3 DEF NoQuoteBehind

LEMMA LeafSound ==
    ASSUME IInv, NoQuoteBehind, ParseLeaf
    PROVE  Sound' /\ Works
<1> DEFINE n == Top.node
           o == LeafOutcome(mem, n, Top.in)
           r == LeafResult(mem, n, Top.in)
           rest == [begin |-> o.rest, end |-> Top.in.end]
           val == LeafValue(mem, n, Top.in, o)
<1>1. /\ stack # <<>> /\ Op(n) \in LeafOps
      /\ Return(r) /\ UNCHANGED <<mem, cur>>
    BY DEF ParseLeaf, InCall
<1>2. Op(n) # "read"
    BY <1>1 DEF LeafOps
<1>3. n \in Node /\ Top.in \in State /\ Within(Top.in, Top.in)
    BY <1>1, TopFacts, TopNested DEF IInv
<1>4. Op(n) = "string" => mem[Top.in.end] # Quote
    BY <1>1, NoQuoteBehindTop
<1>5. IsOutcome(o) /\ EndsIn(o, Top.in)
    BY <1>3, <1>4, LeafOutcomeContract DEF Within
<1>6. r = IF o.ok THEN Make(n, rest, val)
          ELSE IF AlwaysGood(n) THEN Make(n, Top.in, <<>>) ELSE Failed(n)
    <2>1. o.ok \in BOOLEAN /\ AlwaysGood(n) \in BOOLEAN
        BY <1>3, <1>5, NodeFacts DEF IsOutcome
    <2> QED BY <2>1 DEF LeafResult
<1>7. o.ok => Within(rest, Top.in)
    BY <1>3, <1>5 DEF EndsIn, IsOutcome, Within, State
<1>8. rest \in State /\ val \in Seq(Token)
    <2>1. rest \in State
        BY <1>3, <1>5 DEF IsOutcome, State
    <2>2. [leaf |-> n, from |-> o.from, to |-> o.to] \in Token
        BY <1>3, <1>5 DEF IsOutcome, Token
    <2> QED BY <2>1, <2>2 DEF LeafValue
<1> HIDE DEF o, rest, val
<1>9. CASE o.ok
    BY <1>1, <1>2, <1>6, <1>7, <1>8, <1>9, MakeSound
<1>10. CASE ~ o.ok /\ AlwaysGood(n)
    BY <1>1, <1>2, <1>3, <1>6, <1>10, EmptyTyped, MakeSound
<1>11. CASE ~ o.ok /\ ~ AlwaysGood(n)
    BY <1>1, <1>2, <1>6, <1>11, FailSound
<1> QED BY <1>9, <1>10, <1>11

LEMMA CallSound ==
    ASSUME IInv, Call
    PROVE  Sound' /\ Works
<1>1. /\ stack # <<>> /\ Op(Top.node) \notin LeafOps
      /\ Push(Enter(Kids(Top.node)[Top.pc], Top.arg)) /\ UNCHANGED <<mem, cur>>
    BY DEF Call, InCall
<1> QED BY <1>1, PushSound

LEMMA ReadSound ==
    ASSUME IInv, NEW r \in Roots, Read(r)
    PROVE  Sound'
<1> DEFINE f == Enter(r, cur)
<1>1. /\ stack' = <<f>> /\ ret' = NoResult
      /\ UNCHANGED <<mem, cur>>
    BY DEF Read, IInv, TypeOK
<1>2. f.node = r /\ f.in = cur /\ f.st = cur /\ f.arg = cur
    BY DEF Enter
<1>3. Op(r) # "either"
    BY DEF Roots
<1>4. Within(cur, cur)
    BY DEF IInv, TypeOK, ViewSound, Within, State
<1> HIDE DEF f
<1>5. DOMAIN stack' = {1} /\ stack'[1] = f
    BY <1>1
<1>6. FramesNested'
    BY <1>1, <1>2, <1>4, <1>5 DEF FramesNested
<1>7. AlternativesFailed'
    BY <1>2, <1>3, <1>5 DEF AlternativesFailed
<1>8. ResultFits' /\ ViewSound'
    BY <1>1 DEF ResultFits, IInv, ViewSound
<1> QED BY <1>6, <1>7, <1>8 DEF Sound

LEMMA FinishSound ==
    ASSUME IInv, FinishRead
    PROVE  Sound'
<1>0. {"read"} \subseteq Ops \ LeafOps
    BY DEF Ops, LeafOps
<1>1. /\ stack # <<>> /\ ret.st \in State /\ cur \in State
    BY <1>0, ResumedFacts DEF FinishRead, IInv, TypeOK
<1>2. /\ mem' = mem /\ cur' = ReadState /\ stack' = <<>> /\ ret' = NoResult
    BY DEF FinishRead
<1>3. Good(ret) => Within(ret.st, cur)
    BY <1>0, <1>1, ResumedSound, TopNested, WithinTrans DEF FinishRead
<1>4. PICK s \in Sources : mem = s.mem /\ Within(cur, s.view)
    BY DEF IInv, ViewSound
<1>5. s.view \in State
    BY SourcesAssumption
<1>6. cur' \in State /\ Within(cur', s.view) /\ cur'.begin <= cur'.end
    <2>1. CASE Good(ret)
        <3>1. cur' = ret.st
            BY <1>2, <2>1 DEF ReadState
        <3> QED BY <3>1, <2>1, <1>1, <1>3, <1>4, <1>5, WithinTrans DEF Within
    <2>2. CASE ~ Good(ret)
        <3>1. cur' = cur
            BY <1>2, <2>2 DEF ReadState
        <3> QED BY <3>1, <1>1, <1>4 DEF Within
    <2> QED BY <2>1, <2>2
<1>7. ViewSound'
    BY <1>2, <1>4, <1>6 DEF ViewSound
<1>8. DOMAIN stack' = {}
    BY <1>2
<1> QED BY <1>2, <1>7, <1>8
        DEF Sound, FramesNested, AlternativesFailed, ResultFits

LEMMA InitSound ==
    ASSUME Init
    PROVE  IInv
<1>1. TypeOK /\ Rooted
    BY InitTyped
<1>2. PICK s \in Sources : mem = s.mem /\ cur = s.view
    BY DEF Init
<1>3. cur \in State /\ cur.begin <= cur.end
    BY <1>2, SourcesAssumption DEF NullState, NULLPTR
<1>4. Within(cur, s.view)
    BY <1>2, <1>3 DEF Within, State
<1>5. ViewSound
    BY <1>2, <1>3, <1>4 DEF ViewSound
<1>6. DOMAIN stack = {} /\ ret = NoResult
    BY DEF Init
<1> QED BY <1>1, <1>5, <1>6
        DEF IInv, FramesNested, AlternativesFailed, ResultFits

LEMMA NextSound ==
    ASSUME IInv, NoQuoteBehind, [Next]_vars
    PROVE  Sound'
<1>1. CASE ParseLeaf
    BY <1>1, LeafSound
<1>2. CASE Call
    BY <1>2, CallSound
<1>3. CASE ResumeThread
    BY <1>3, ThreadSound
<1>4. CASE ResumeEither
    BY <1>4, EitherSound
<1>5. CASE ResumeFold
    BY <1>5, FoldSound
<1>6. CASE ResumeSequence
    BY <1>6, SequenceSound
<1>7. CASE ResumeDelimited
    BY <1>7, DelimitedSound
<1>8. CASE \/ ResumeProbe \/ ResumeTestThen \/ ResumeTry
           \/ ResumeLookahead \/ ResumeRecurse
    BY <1>8, UnarySound
<1>9. CASE FinishRead
    BY <1>9, FinishSound
<1>10. CASE \E r \in Roots : Read(r)
    BY <1>10, ReadSound
<1>11. CASE UNCHANGED vars
    BY <1>11 DEF vars, IInv, Sound, FramesNested, AlternativesFailed,
                 ResultFits, ViewSound, Returner, Top
<1> QED
    BY <1>1, <1>2, <1>3, <1>4, <1>5, <1>6, <1>7, <1>8, <1>9, <1>10, <1>11
    DEF Next, Work

\* The inductive invariant, for every grammar and every input that keeps
\* parse_string inside its view.
THEOREM Inductive ==
    ASSUME NoQuoteBehind
    PROVE  Spec => []IInv
<1>1. Init => IInv
    BY InitSound
<1>2. IInv /\ [Next]_vars => IInv'
    BY NextTyped, NextSound DEF IInv, Sound
<1> QED BY <1>1, <1>2, PTL DEF Spec

\* No parser that reports success hands back characters before its input or
\* past its end, however it is built and however it backtracked.
THEOREM RemaindersInView ==
    ASSUME NoQuoteBehind
    PROVE  Spec => []RemainderInView
<1>1. IInv => RemainderInView
    BY DEF IInv, ResultFits, RemainderInView
<1> QED BY <1>1, Inductive, PTL

\* The states of a call and of the calls it is made of are rests of each
\* other: backtracking goes back no further than to the caller's state.
THEOREM StatesNested ==
    ASSUME NoQuoteBehind
    PROVE  Spec => []FramesNested
<1>1. IInv => FramesNested
    BY DEF IInv
<1> QED BY <1>1, Inductive, PTL

----------------------------------------------------------------------------
(***************************************************************************)
(* When results are good, and what a read does to the client's state.      *)
(***************************************************************************)
LEMMA WorkWorks ==
    ASSUME IInv, NoQuoteBehind, Work, ~ FinishRead
    PROVE  Works
<1>1. CASE ParseLeaf
    BY <1>1, LeafSound
<1>2. CASE Call
    BY <1>2, CallSound
<1>3. CASE ResumeThread
    BY <1>3, ThreadSound
<1>4. CASE ResumeEither
    BY <1>4, EitherSound
<1>5. CASE ResumeFold
    BY <1>5, FoldSound
<1>6. CASE ResumeSequence
    BY <1>6, SequenceSound
<1>7. CASE ResumeDelimited
    BY <1>7, DelimitedSound
<1>8. CASE \/ ResumeProbe \/ ResumeTestThen \/ ResumeTry
           \/ ResumeLookahead \/ ResumeRecurse
    BY <1>8, UnarySound
<1> QED BY <1>1, <1>2, <1>3, <1>4, <1>5, <1>6, <1>7, <1>8 DEF Work

\* The state of the parser on top is not null when no client's state is.
LEMMA TopNotNull ==
    ASSUME IInv, NoNullInput, stack # <<>>,
           NEW st \in State, Within(st, Top.in)
    PROVE  StateGood(st)
<1>1. PICK s \in Sources : Within(cur, s.view)
    BY DEF IInv, ViewSound
<1>2. s.view \in State /\ 1 <= s.view.begin
    BY SourcesAssumption, <1>1 DEF NoNullInput, StateGood, NullState
<1>3. Within(Top.in, cur) /\ Top.in \in State /\ cur \in State
    BY TopNested
<1>4. Within(st, s.view)
    BY <1>1, <1>2, <1>3, WithinTrans
<1> QED BY <1>2, <1>4 DEF Within, State, StateGood, NULLPTR

LEMMA WorksParsed ==
    ASSUME IInv, NoNullInput, LookaheadSafe, GoodIffParsed, Works
    PROVE  GoodIffParsed'
<1> SUFFICES ASSUME ret' # NoResult
             PROVE  Good(ret') <=> ret'.set
    BY DEF GoodIffParsed, Good
<1>0. stack # <<>> /\ Top.node \in Node
    BY DEF Works
<1>1. CASE \E st \in State, val \in Seq(Token) :
            ret' = Make(Top.node, st, val) /\ Within(st, Top.in)
    <2>1. PICK st \in State, val \in Seq(Token) :
            ret' = Make(Top.node, st, val) /\ Within(st, Top.in)
        BY <1>1
    <2>2. StateGood(st)
        BY <1>0, <2>1, TopNotNull
    <2>3. ret'.st = st /\ ret'.set = TRUE
        BY <2>1 DEF Make
    <2> QED BY <2>2, <2>3 DEF Good
<1>2. CASE ret' = Failed(Top.node) /\ ~ AlwaysGood(Top.node)
    <2>1. ~ Good(Failed(Top.node))
        BY <1>0, <1>2, FailedFits
    <2>2. Failed(Top.node).set = FALSE
        BY DEF Failed
    <2> QED BY <1>2, <2>1, <2>2
<1>3. CASE Resumed({"lookahead"}) /\ ret' = LookaheadResult(Top)
    <2>0. {"lookahead"} \subseteq Ops \ LeafOps
        BY DEF Ops, LeafOps
    <2>1. /\ Op(Top.node) = "lookahead" /\ ret # NoResult /\ ret \in Result
          /\ ret.set \in BOOLEAN /\ ret.kind \in Kinds
          /\ Top.pc \in 1 .. Len(Kids(Top.node))
          /\ Len(Kids(Top.node)) \in Arity(Op(Top.node))
        BY <1>3, <2>0, ResumedFacts DEF IInv
    <2>2. Len(Kids(Top.node)) = 1
        BY <2>1 DEF Arity, LeafOps, ProbeOps, TryOps, DelimitedOps
    <2>3. Top.pc = 1
        BY <2>1, <2>2
    <2>4. ret.kind = Kind(Kids(Top.node)[1])
        BY <1>3, <2>0, <2>3, ResumedSound
    <2>5. ret.kind # "result"
        BY <1>0, <2>1, <2>4 DEF LookaheadSafe
    <2>6. Good(ret) <=> ret.set
        BY <2>1 DEF GoodIffParsed
    <2>7. ret'.kind = ret.kind /\ ret'.set = ret.set
        BY <1>3 DEF LookaheadResult
    <2>8. ret.kind = "pure" \/ ret.kind = "optional"
        BY <2>1, <2>5 DEF Kinds
    <2> QED BY <2>6, <2>7, <2>8 DEF Good
<1> QED BY <1>1, <1>2, <1>3 DEF Works

LEMMA NextParsed ==
    ASSUME IInv, NoQuoteBehind, NoNullInput, LookaheadSafe, GoodIffParsed,
           [Next]_vars
    PROVE  GoodIffParsed'
<1>1. CASE Work /\ ~ FinishRead
    BY <1>1, WorkWorks, WorksParsed
<1>2. CASE FinishRead
    BY <1>2 DEF FinishRead, GoodIffParsed
<1>3. CASE \E r \in Roots : Read(r)
    BY <1>3 DEF Read, GoodIffParsed, Good
<1>4. CASE UNCHANGED vars
    BY <1>4 DEF vars, GoodIffParsed, Good
<1> QED BY <1>1, <1>2, <1>3, <1>4 DEF Next

\* A failure never becomes a success on its way up, nor a success a failure,
\* where every lookahead keeps its parser's failure and no client reads from
\* a null state.
THEOREM GoodMeansParsed ==
    ASSUME NoQuoteBehind, NoNullInput, LookaheadSafe
    PROVE  Spec => []GoodIffParsed
<1>1. Init => GoodIffParsed
    BY DEF Init, GoodIffParsed
<1>2. IInv /\ GoodIffParsed /\ [Next]_vars => GoodIffParsed'
    BY NextParsed
<1> QED BY <1>1, <1>2, Inductive, PTL DEF Spec

\* The step of parser::read that ends it either succeeds or fails.
LEMMA FinishIsEnd ==
    ASSUME IInv, GoodIffParsed, FinishRead
    PROVE  ReadCursor!Succeed \/ ReadCursor!Fail
<1>0. {"read"} \subseteq Ops \ LeafOps
    BY DEF Ops, LeafOps
<1>1. stack # <<>> /\ ret # NoResult /\ ret.st \in State
    BY <1>0, ResumedFacts DEF FinishRead, IInv
<1>2. /\ cur' = ReadState /\ stack' = <<>>
      /\ got' = IF Good(ret) THEN ret ELSE Unread(ret)
    BY DEF FinishRead
<1>3. Good(ret) <=> ret.set
    BY <1>1 DEF GoodIffParsed
<1>4. ret.set \in BOOLEAN
    BY <1>0, ResumedFacts DEF FinishRead, IInv
<1>5. CASE Good(ret)
    <2>1. cur' = ret.st /\ got'.set = TRUE
        BY <1>2, <1>3, <1>4, <1>5 DEF ReadState
    <2>2. Within(ret.st, cur)
        BY <1>0, <1>1, <1>5, ResumedSound, TopNested, WithinTrans
        DEF FinishRead
    <2> QED BY <1>1, <1>2, <2>1, <2>2
            DEF ReadCursor!Succeed, ReadCursor!IsRest, Within
<1>6. CASE ~ Good(ret)
    <2>1. cur' = cur /\ got'.set = FALSE
        BY <1>2, <1>6 DEF ReadState, Unread
    <2> QED BY <1>1, <1>2, <2>1 DEF ReadCursor!Fail
<1> QED BY <1>5, <1>6

LEMMA ReadIsBegin ==
    ASSUME NEW r \in Roots, Read(r)
    PROVE  ReadCursor!Begin
BY DEF Read, ReadCursor!Begin, NoResult

LEMMA NextRefines ==
    ASSUME IInv, NoQuoteBehind, GoodIffParsed, [Next]_vars
    PROVE  [ReadCursor!Next]_(ReadCursor!vars)
<1>1. CASE Work /\ ~ FinishRead
    <2>1. stack # <<>> /\ stack' # <<>>
        BY <1>1, WorkWorks DEF Works
    <2>2. cur' = cur /\ got' = got
        BY <1>1 DEF Work, ParseLeaf, Call, ResumeThread, ResumeEither,
            ResumeFold, ResumeSequence, ResumeDelimited, ResumeProbe,
            ResumeTestThen, ResumeTry, ResumeLookahead, ResumeRecurse
    <2>3. (stack # <<>>)' = (stack # <<>>)
        BY <2>1
    <2> QED BY <2>2, <2>3 DEF ReadCursor!vars
<1>2. CASE FinishRead
    BY <1>2, FinishIsEnd DEF ReadCursor!Next
<1>3. CASE \E r \in Roots : Read(r)
    BY <1>3, ReadIsBegin DEF ReadCursor!Next
<1>4. CASE UNCHANGED vars
    BY <1>4 DEF vars, ReadCursor!vars
<1> QED BY <1>1, <1>2, <1>3, <1>4 DEF Next

\* parser::read never loses the client's place in the text: it implements
\* Cursor, whatever the grammar, under the hypotheses of GoodMeansParsed.
THEOREM ReadRefinesCursor ==
    ASSUME NoQuoteBehind, NoNullInput, LookaheadSafe
    PROVE  Spec => ReadImplementsCursor
<1>1. Init => ReadCursor!Init
    BY DEF Init, NoResult, ReadCursor!Init
<1>2. IInv /\ GoodIffParsed /\ [Next]_vars
        => [ReadCursor!Next]_(ReadCursor!vars)
    BY NextRefines
<1> QED BY <1>1, <1>2, Inductive, GoodMeansParsed, PTL
        DEF Spec, ReadImplementsCursor, ReadCursor!Spec

=============================================================================
