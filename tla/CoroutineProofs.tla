-------------------------- MODULE CoroutineProofs --------------------------
(***************************************************************************)
(* What holds of every set of coroutines, whatever their bodies and the    *)
(* parsers they await: the frames stay nested, only the top one runs, a    *)
(* coroutine that failed or threw hands nothing over, and what a body has  *)
(* taken it has taken once and in order.                                   *)
(*                                                                         *)
(* Most actions replace the frame on top and leave the rest alone; one     *)
(* lemma says what such a step has to do to keep the invariant, another    *)
(* what a co_await that is over does, and each action is a case of one of  *)
(* the two.  Calls and returns are proved on their own.                    *)
(*                                                                         *)
(* The same order, lemma by lemma, then shows what all this is for: a read *)
(* does what the coroutine means (CoroutineMeaning).                       *)
(***************************************************************************)
EXTENDS CoroutineMeaning, SequenceTheorems, TLAPS

----------------------------------------------------------------------------
(***************************************************************************)
(* Tokens in order.                                                        *)
(***************************************************************************)
LEMMA NothingInOrder ==
    ASSUME NEW a \in Int, NEW b \in Int, a <= b
    PROVE  InOrder(<<>>, a, b)
BY DEF InOrder

LEMMA TokenFacts ==
    ASSUME NEW s \in Seq(Token), NEW k \in 1 .. Len(s)
    PROVE  s[k].from \in Int /\ s[k].to \in Int
<1>1. s[k] \in Token
    OBVIOUS
<1> QED BY <1>1 DEF Token

\* What is taken next goes behind what was taken before.
LEMMA InOrderConcat ==
    ASSUME NEW s \in Seq(Token), NEW t \in Seq(Token),
           NEW a \in Int, NEW b \in Int, NEW c \in Int,
           InOrder(s, a, b), InOrder(t, b, c)
    PROVE  InOrder(s \o t, a, c)
<1> DEFINE u == s \o t
<1>1. /\ Len(s) \in Nat /\ Len(t) \in Nat /\ u \in Seq(Token)
      /\ Len(u) = Len(s) + Len(t)
      /\ \A k \in 1 .. Len(s) : u[k] = s[k]
      /\ \A k \in Len(s) + 1 .. Len(u) : u[k] = t[k - Len(s)]
    OBVIOUS
<1> HIDE DEF u
<1>2. a <= b /\ b <= c
    BY DEF InOrder
<1>3. ASSUME NEW k \in 1 .. Len(s)
      PROVE  a <= u[k].from /\ u[k].from <= u[k].to /\ u[k].to <= b
    BY <1>1 DEF InOrder
<1>4. ASSUME NEW k \in Len(s) + 1 .. Len(u)
      PROVE  /\ b <= u[k].from /\ u[k].from <= u[k].to /\ u[k].to <= c
             /\ k < Len(u) => u[k].to <= u[k + 1].from
    <2>1. k - Len(s) \in 1 .. Len(t) /\ u[k] = t[k - Len(s)]
        BY <1>1
    <2>2. k < Len(u) => /\ k - Len(s) < Len(t)
                        /\ u[k + 1] = t[(k - Len(s)) + 1]
        <3>1. SUFFICES ASSUME k < Len(u)
                       PROVE  /\ k - Len(s) < Len(t)
                              /\ u[k + 1] = t[(k - Len(s)) + 1]
            OBVIOUS
        <3>2. k + 1 \in Len(s) + 1 .. Len(u) /\ k - Len(s) < Len(t)
            BY <1>1, <3>1
        <3>3. (k + 1) - Len(s) = (k - Len(s)) + 1
            BY <1>1
        <3>4. u[k + 1] = t[(k + 1) - Len(s)]
            BY <1>1, <3>2
        <3> QED BY <3>2, <3>3, <3>4
    <2> QED BY <2>1, <2>2 DEF InOrder
<1>5. ASSUME NEW k \in 1 .. Len(s), k < Len(u)
      PROVE  u[k].to <= u[k + 1].from
    <2>1. CASE k < Len(s)
        <3>1. k + 1 \in 1 .. Len(s)
            BY <1>1, <2>1
        <3>2. u[k] = s[k] /\ u[k + 1] = s[k + 1]
            BY <1>1, <3>1
        <3> QED BY <2>1, <3>2 DEF InOrder
    <2>2. CASE k = Len(s)
        <3>1. k + 1 \in Len(s) + 1 .. Len(u)
            BY <1>1, <1>5, <2>2
        <3>2. b <= u[k + 1].from /\ u[k].to <= b
            BY <1>3, <1>4, <3>1
        <3>3. k + 1 \in 1 .. Len(u) /\ k \in 1 .. Len(u)
            BY <1>1, <3>1
        <3>4. u[k].to \in Int /\ u[k + 1].from \in Int
            BY <1>1, <3>3, TokenFacts
        <3> QED BY <3>2, <3>4
    <2> QED BY <1>1, <2>1, <2>2
<1>6. ASSUME NEW k \in 1 .. Len(u)
      PROVE  u[k].from \in Int /\ u[k].to \in Int
    BY <1>1, TokenFacts
<1>7. \A k \in 1 .. Len(u) : k \in 1 .. Len(s) \/ k \in Len(s) + 1 .. Len(u)
    BY <1>1
<1>8. ASSUME NEW k \in 1 .. Len(u)
      PROVE  /\ a <= u[k].from /\ u[k].from <= u[k].to /\ u[k].to <= c
             /\ k < Len(u) => u[k].to <= u[k + 1].from
    BY <1>2, <1>3, <1>4, <1>5, <1>6, <1>7
<1>9. a <= c
    BY <1>2
<1> QED BY <1>8, <1>9 DEF InOrder, u

\* A loop on an optional adds what is behind the token that says it is there.
LEMMA InOrderTail ==
    ASSUME NEW s \in Seq(Token), NEW a \in Int, NEW b \in Int,
           s # <<>>, InOrder(s, a, b)
    PROVE  Tail(s) \in Seq(Token) /\ InOrder(Tail(s), a, b)
<1>1. /\ Tail(s) \in Seq(Token) /\ Len(s) \in Nat /\ Len(s) >= 1
      /\ Len(Tail(s)) = Len(s) - 1
      /\ \A k \in 1 .. Len(s) - 1 : Tail(s)[k] = s[k + 1]
    OBVIOUS
<1>2. ASSUME NEW k \in 1 .. Len(Tail(s))
      PROVE  /\ a <= Tail(s)[k].from
             /\ Tail(s)[k].from <= Tail(s)[k].to /\ Tail(s)[k].to <= b
             /\ k < Len(Tail(s)) => Tail(s)[k].to <= Tail(s)[k + 1].from
    <2>1. k + 1 \in 1 .. Len(s) /\ Tail(s)[k] = s[k + 1]
        BY <1>1
    <2>2. k < Len(Tail(s)) => k + 1 < Len(s) /\ Tail(s)[k + 1] = s[(k + 1) + 1]
        BY <1>1
    <2> QED BY <2>1, <2>2 DEF InOrder
<1> QED BY <1>1, <1>2 DEF InOrder

----------------------------------------------------------------------------
(***************************************************************************)
(* States that are rests of each other.                                    *)
(***************************************************************************)
LEMMA WithinSelf ==
    ASSUME NEW st \in State, st.begin <= st.end
    PROVE  Within(st, st)
BY DEF Within, State

LEMMA WithinTrans ==
    ASSUME NEW a \in State, NEW b \in State, NEW c \in State,
           Within(a, b), Within(b, c)
    PROVE  Within(a, c)
BY DEF Within, State

LEMMA WithinFacts ==
    ASSUME NEW a \in State, NEW b \in State, Within(a, b)
    PROVE  /\ a.begin \in Int /\ b.begin \in Int
           /\ b.begin <= a.begin
           /\ Within(a, a)
BY DEF Within, State

LEMMA NullResultTyped == NullResult \in Result /\ ~ Good(NullResult)
<1>1. NullState \in State /\ ~ StateGood(NullState)
    BY DEF NullState, State, NULLPTR, StateGood
<1>2. <<>> \in Seq(Token)
    OBVIOUS
<1> QED BY <1>1, <1>2 DEF NullResult, Result, Good

----------------------------------------------------------------------------
(***************************************************************************)
(* Frames.                                                                 *)
(***************************************************************************)
LEMMA FrameFacts ==
    ASSUME NEW f \in Frame
    PROVE  /\ f.coro \in Coroutine /\ f.phase \in Phases /\ f.pc \in Nat
           /\ f.sum \in Seq(Token) /\ f.value \in Seq(Token)
           /\ f.state \in State /\ f.is_good \in BOOLEAN
BY DEF Frame

LEMMA BodyFacts ==
    ASSUME NEW c \in Coroutine, NEW k \in 1 .. Len(Body[c])
    PROVE  /\ Len(Body[c]) \in Nat \ {0}
           /\ Body[c][k].op \in Awaits \union {"throw", "return"}
           /\ Body[c][k].op = "return" <=> k = Len(Body[c])
           /\ Body[c][k].op = "await" => Body[c][k].keeps \in BOOLEAN
BY BodyAssumption

LEMMA NewFrameTyped ==
    ASSUME NEW c \in Coroutine, NEW st \in State
    PROVE  /\ NewFrame(c, st) \in Frame
           /\ NewFrame(c, st).pc \in 1 .. Len(Body[c])
           /\ NewFrame(c, st).coro = c
           /\ NewFrame(c, st).phase = "initial"
           /\ NewFrame(c, st).state = st
           /\ NewFrame(c, st).sum = <<>>
           /\ NewFrame(c, st).is_good = FALSE
<1>1. <<>> \in Seq(Token) /\ "initial" \in Phases
    BY DEF Phases
<1>2. Len(Body[c]) \in Nat \ {0}
    BY BodyAssumption
<1> QED BY <1>1, <1>2 DEF NewFrame, Frame

LEMMA TopFacts ==
    ASSUME TypeOK, stack # <<>>
    PROVE  /\ Len(stack) \in Nat /\ Len(stack) >= 1
           /\ Top = stack[Len(stack)]
           /\ Top \in Frame
           /\ Top.pc \in 1 .. Len(Body[Top.coro])
           /\ Instr = Body[Top.coro][Top.pc]
           /\ reading # <<>>
<1>1. Len(stack) \in Nat /\ Len(stack) >= 1
    BY DEF TypeOK
<1>2. Len(stack) \in 1 .. Len(stack) /\ stack \in Seq(Frame)
    BY <1>1 DEF TypeOK
<1>3. Top = stack[Len(stack)] /\ Top \in Frame
    BY <1>2 DEF Top
<1> QED BY <1>1, <1>2, <1>3 DEF TypeOK, Instr

LEMMA Became ==
    ASSUME TypeOK, stack # <<>>, NEW f \in Frame, Become(f)
    PROVE  /\ stack' \in Seq(Frame)
           /\ Len(stack') = Len(stack)
           /\ stack' # <<>>
           /\ \A i \in 1 .. Len(stack) - 1 : stack'[i] = stack[i]
           /\ stack'[Len(stack)] = f
<1>1. stack \in Seq(Frame) /\ Len(stack) \in Nat /\ Len(stack) >= 1
    BY TopFacts DEF TypeOK
<1> QED BY <1>1 DEF Become

LEMMA TopNested ==
    ASSUME TypeOK, PromisesNested, stack # <<>>
    PROVE  /\ Within(Top.state, cur)
           /\ Within(Top.state, CallerState(Len(stack)))
           /\ CallerState(Len(stack)) \in State
           /\ CallerState(Len(stack) + 1) = Top.state
<1>1. Len(stack) \in Nat /\ Len(stack) >= 1 /\ Top = stack[Len(stack)]
    BY TopFacts
<1>2. stack \in Seq(Frame) /\ cur \in State
    BY DEF TypeOK
<1>3. CallerState(Len(stack)) \in State
    <2>1. CASE Len(stack) = 1
        BY <1>2, <2>1 DEF CallerState
    <2>2. CASE Len(stack) # 1
        <3> DEFINE n == Len(stack)
        <3>0. n \in Nat /\ n >= 1 /\ n # 1
            BY <1>1, <2>2
        <3> HIDE DEF n
        <3>1. n - 1 \in 1 .. n
            BY <3>0
        <3> USE DEF n
        <3>2. stack[Len(stack) - 1] \in Frame
            BY <1>2, <3>1
        <3> QED BY <2>2, <3>2, FrameFacts DEF CallerState
    <2> QED BY <2>1, <2>2
<1>4. CallerState(Len(stack) + 1) = Top.state
    BY <1>1 DEF CallerState
<1> QED BY <1>1, <1>3, <1>4 DEF PromisesNested

----------------------------------------------------------------------------
(***************************************************************************)
(* The steps that replace the frame on top.                                *)
(***************************************************************************)

\* What the proofs carry along: where a body is and what it has taken go
\* together, so the two invariants are proved as one.
Sound == IInv /\ TakenOnce

LEMMA SoundParts ==
    Sound <=> /\ TypeOK /\ GoodOnlyAtEnd /\ OnlyTopRuns
              /\ PromisesNested /\ ViewSound /\ TakenOnce
BY DEF Sound, IInv

\* The frame on top may go on if it does not stop at a co_await, its state is a
\* rest of what it was, and what it has taken lies before that state.
LEMMA BecomeKeeps ==
    ASSUME Sound, stack # <<>>, NEW f \in Frame, Become(f),
           f.coro = Top.coro, f.pc \in 1 .. Len(Body[f.coro]),
           f.phase # "awaiting",
           f.is_good => f.phase = "final" /\ f.value = f.sum,
           Within(f.state, Top.state),
           InOrder(f.sum, CallerState(Len(stack)).begin, f.state.begin),
           ret' = <<>>, UNCHANGED <<mem, cur, reading, got, alive>>
    PROVE  Sound'
<1> USE SoundParts
<1>1. /\ stack \in Seq(Frame) /\ stack' \in Seq(Frame)
      /\ Len(stack) \in Nat /\ Len(stack) >= 1
      /\ Len(stack') = Len(stack) /\ stack' # <<>>
      /\ \A i \in 1 .. Len(stack) - 1 : stack'[i] = stack[i]
      /\ stack'[Len(stack)] = f
    BY Became, TopFacts DEF TypeOK
<1>2. Top \in Frame /\ Top = stack[Len(stack)] /\ reading # <<>>
    BY TopFacts
<1>3. Top' = f
    BY <1>1 DEF Top
<1>4. ASSUME NEW i \in 1 .. Len(stack)
      PROVE  \/ i = Len(stack) /\ stack'[i] = f
             \/ i \in 1 .. Len(stack) - 1 /\ stack'[i] = stack[i]
    BY <1>1
<1>5. ASSUME NEW i \in 1 .. Len(stack)
      PROVE  CallerState(i)' = CallerState(i)
    <2>1. CASE i = 1
        BY <2>1 DEF CallerState
    <2>2. CASE i # 1
        <3>1. i - 1 \in 1 .. Len(stack) - 1
            BY <1>1, <2>2
        <3> QED BY <1>1, <2>2, <3>1 DEF CallerState
    <2> QED BY <2>1, <2>2
<1>6. TypeOK'
    <2>1. /\ alive' \in BOOLEAN /\ cur' \in State
          /\ got' \in [set : BOOLEAN, val : Seq(Token)]
        BY DEF TypeOK
    <2>2. ret' \in Seq(Result) /\ Len(ret') <= 1
        OBVIOUS
    <2>3. \A i \in 1 .. Len(stack') :
            stack'[i].pc \in 1 .. Len(Body[stack'[i].coro])
        BY <1>1, <1>4 DEF TypeOK
    <2>4. reading' # <<>>
        BY <1>2
    <2> QED BY <1>1, <2>1, <2>2, <2>3, <2>4 DEF TypeOK
<1>7. GoodOnlyAtEnd'
    BY <1>1, <1>4 DEF GoodOnlyAtEnd
<1>8. OnlyTopRuns'
    <2>1. ASSUME NEW i \in 1 .. Len(stack')
          PROVE  /\ i < Len(stack') => stack'[i].phase = "awaiting"
                 /\ stack'[i].phase = "awaiting" =>
                        Body[stack'[i].coro][stack'[i].pc].op \in Awaits
        BY <1>1, <1>4 DEF OnlyTopRuns
    <2> QED BY <1>3, <2>1 DEF OnlyTopRuns
<1>9. PromisesNested'
    <2>1. /\ Within(Top.state, cur)
          /\ Within(Top.state, CallerState(Len(stack)))
          /\ CallerState(Len(stack)) \in State
          /\ cur \in State /\ Top.state \in State /\ f.state \in State
        BY <1>2, TopNested, FrameFacts DEF TypeOK
    <2>2. Within(f.state, cur) /\ Within(f.state, CallerState(Len(stack)))
        BY <2>1, WithinTrans
    <2>3. ASSUME NEW i \in 1 .. Len(stack')
          PROVE  /\ Within(stack'[i].state, CallerState(i)')
                 /\ Within(stack'[i].state, cur')
        BY <1>1, <1>4, <1>5, <2>2 DEF PromisesNested
    <2> QED BY <2>3 DEF PromisesNested
<1>10. ViewSound'
    BY DEF ViewSound
<1>11. TakenOnce'
    <2>1. ASSUME NEW i \in 1 .. Len(stack')
          PROVE  InOrder(stack'[i].sum, CallerState(i)'.begin,
                         stack'[i].state.begin)
        BY <1>1, <1>4, <1>5 DEF TakenOnce
    <2> QED BY <2>1 DEF TakenOnce
<1> QED BY <1>6, <1>7, <1>8, <1>9, <1>10, <1>11 DEF Sound, IInv

\* A step that leaves the state and what was taken as they are.
LEMMA BodyStep ==
    ASSUME Sound, stack # <<>>, NEW f \in Frame, Become(f),
           f.coro = Top.coro, f.pc \in 1 .. Len(Body[f.coro]),
           f.phase # "awaiting",
           f.is_good => f.phase = "final" /\ f.value = f.sum,
           f.state = Top.state, f.sum = Top.sum,
           ret = <<>>, UNCHANGED <<mem, cur, reading, ret, got, alive>>
    PROVE  Sound'
<1> USE SoundParts
<1>1. /\ Len(stack) \in 1 .. Len(stack) /\ Top = stack[Len(stack)]
      /\ Top \in Frame /\ cur \in State
    BY TopFacts DEF TypeOK
<1>2. Within(Top.state, Top.state)
    BY <1>1, TopNested, FrameFacts, WithinFacts
<1>3. InOrder(Top.sum, CallerState(Len(stack)).begin, Top.state.begin)
    BY <1>1 DEF TakenOnce
<1> QED BY <1>2, <1>3, BecomeKeeps

\* No result is there while the frame on top runs.
LEMMA NoResultThere ==
    ASSUME Sound, NEW p, In(p), p # "awaiting"
    PROVE  stack # <<>> /\ Top.phase = p /\ ret = <<>>
BY SoundParts DEF In, OnlyTopRuns

LEMMA ResumeKeeps ==
    ASSUME Sound, Resume
    PROVE  Sound'
<1> DEFINE f == [Top EXCEPT !.phase = "running"]
<1>1. stack # <<>> /\ Top.phase = "initial" /\ ret = <<>>
    BY NoResultThere DEF Resume
<1>2. Top \in Frame /\ Top.pc \in 1 .. Len(Body[Top.coro])
    BY <1>1, TopFacts, SoundParts
<1>3. ~ Top.is_good
    <2>1. Len(stack) \in 1 .. Len(stack) /\ Top = stack[Len(stack)]
        BY <1>1, TopFacts, SoundParts
    <2> QED BY <1>1, <2>1, SoundParts DEF GoodOnlyAtEnd
<1>4. /\ f \in Frame /\ f.coro = Top.coro /\ f.pc = Top.pc
      /\ f.phase = "running" /\ f.is_good = Top.is_good
      /\ f.state = Top.state /\ f.sum = Top.sum
    BY <1>2 DEF Frame, Phases
<1>5. Become(f) /\ UNCHANGED <<mem, cur, reading, ret, got, alive>>
    BY DEF Resume
<1> HIDE DEF f
<1> QED BY <1>1, <1>2, <1>3, <1>4, <1>5, BodyStep

\* A running body has not said it is good.
LEMMA RunningFacts ==
    ASSUME Sound, In("running")
    PROVE  /\ stack # <<>> /\ ret = <<>>
           /\ Top \in Frame
           /\ Top.pc \in 1 .. Len(Body[Top.coro])
           /\ Len(Body[Top.coro]) \in Nat \ {0}
           /\ Instr.op \in Awaits \union {"throw", "return"}
           /\ Instr.op = "return" <=> Top.pc = Len(Body[Top.coro])
           /\ ~ Top.is_good
<1>1. stack # <<>> /\ Top.phase = "running" /\ ret = <<>>
    BY NoResultThere
<1>2. /\ Top \in Frame /\ Top.pc \in 1 .. Len(Body[Top.coro])
      /\ Instr = Body[Top.coro][Top.pc]
      /\ Len(stack) \in 1 .. Len(stack) /\ Top = stack[Len(stack)]
    BY <1>1, TopFacts, SoundParts
<1>3. Top.coro \in Coroutine
    BY <1>2, FrameFacts
<1>4. ~ Top.is_good
    BY <1>1, <1>2, SoundParts DEF GoodOnlyAtEnd
<1> QED BY <1>1, <1>2, <1>3, <1>4, BodyFacts

LEMMA UnhandledExceptionKeeps ==
    ASSUME Sound, UnhandledException
    PROVE  Sound'
<1> DEFINE f == [Top EXCEPT !.is_good = FALSE, !.phase = "final"]
<1>1. In("running")
    BY DEF UnhandledException
<1>2. /\ f \in Frame /\ f.coro = Top.coro /\ f.pc = Top.pc
      /\ f.phase = "final" /\ f.is_good = FALSE
      /\ f.state = Top.state /\ f.sum = Top.sum
    BY <1>1, RunningFacts DEF Frame, Phases
<1>3. Become(f) /\ UNCHANGED <<mem, cur, reading, ret, got, alive>>
    BY DEF UnhandledException
<1> HIDE DEF f
<1> QED BY <1>1, <1>2, <1>3, RunningFacts, BodyStep

LEMMA NoExceptionKeeps ==
    ASSUME Sound, NoException
    PROVE  Sound'
<1> DEFINE f == [Top EXCEPT !.pc = Top.pc + 1]
<1>1. In("running") /\ Instr.op = "throw"
    BY DEF NoException
<1>2. /\ f \in Frame /\ f.coro = Top.coro /\ f.pc = Top.pc + 1
      /\ f.phase = Top.phase /\ f.is_good = Top.is_good
      /\ f.state = Top.state /\ f.sum = Top.sum
    BY <1>1, RunningFacts DEF Frame
<1>3. Top.phase = "running"
    BY <1>1 DEF In
<1>4. f.pc \in 1 .. Len(Body[Top.coro])
    BY <1>1, <1>2, RunningFacts
<1>5. Become(f) /\ UNCHANGED <<mem, cur, reading, ret, got, alive>>
    BY DEF NoException
<1> HIDE DEF f
<1> QED BY <1>1, <1>2, <1>3, <1>4, <1>5, RunningFacts, BodyStep

LEMMA ReturnValueKeeps ==
    ASSUME Sound, ReturnValue
    PROVE  Sound'
<1> DEFINE f == [Top EXCEPT !.value = Top.sum, !.is_good = TRUE,
                            !.phase = "final"]
<1>1. In("running")
    BY DEF ReturnValue
<1>2. /\ f \in Frame /\ f.coro = Top.coro /\ f.pc = Top.pc
      /\ f.phase = "final" /\ f.value = f.sum
      /\ f.state = Top.state /\ f.sum = Top.sum
    BY <1>1, RunningFacts DEF Frame, Phases
<1>3. Become(f) /\ UNCHANGED <<mem, cur, reading, ret, got, alive>>
    BY DEF ReturnValue
<1> HIDE DEF f
<1> QED BY <1>1, <1>2, <1>3, RunningFacts, BodyStep

----------------------------------------------------------------------------
(***************************************************************************)
(* co_await.                                                               *)
(***************************************************************************)

\* A co_await that is over keeps the invariant if the parser went forward and
\* what the body takes from it lies between where it began and where it ended.
LEMMA AwaitingKeeps ==
    ASSUME Sound, stack # <<>>, Instr.op \in Awaits, ~ Top.is_good,
           NEW o, Become(Awaiting(Top, o)),
           o.ok => /\ o.st \in State
                   /\ Within(o.st, Top.state)
                   /\ Taken(Instr, o) \in Seq(Token)
                   /\ InOrder(Taken(Instr, o), Top.state.begin, o.st.begin),
           ret' = <<>>, UNCHANGED <<mem, cur, reading, got, alive>>
    PROVE  Sound'
<1> DEFINE f == Awaiting(Top, o)
<1>1. /\ Top \in Frame /\ Top.pc \in 1 .. Len(Body[Top.coro])
      /\ Instr = Body[Top.coro][Top.pc]
      /\ Len(stack) \in 1 .. Len(stack) /\ Top = stack[Len(stack)]
    BY TopFacts, SoundParts
<1>2. /\ Top.state \in State /\ Within(Top.state, Top.state)
      /\ CallerState(Len(stack)).begin \in Int
    BY <1>1, TopNested, FrameFacts, WithinFacts, SoundParts
<1>3. /\ Top.sum \in Seq(Token)
      /\ InOrder(Top.sum, CallerState(Len(stack)).begin, Top.state.begin)
    BY <1>1, FrameFacts, SoundParts DEF TakenOnce
<1>4. CASE o.ok
    <2>1. f = [Top EXCEPT !.phase = "running", !.state = o.st,
                          !.sum = Top.sum \o Taken(Instr, o),
                          !.pc = NextPc(Top, o)]
        BY <1>4 DEF Awaiting, PromiseState, Locals
    <2>2. Top.sum \o Taken(Instr, o) \in Seq(Token)
        BY <1>3, <1>4
    <2>3. NextPc(Top, o) \in 1 .. Len(Body[Top.coro])
        <3>1. Top.coro \in Coroutine /\ Top.pc \in Nat
            BY <1>1, FrameFacts
        <3>2. Instr.op # "return"
            BY DEF Awaits
        <3>3. Top.pc # Len(Body[Top.coro]) /\ Len(Body[Top.coro]) \in Nat
            BY <1>1, <3>1, <3>2, BodyFacts
        <3>4. Top.pc + 1 \in 1 .. Len(Body[Top.coro])
            BY <1>1, <3>1, <3>3
        <3> QED BY <1>1, <3>4 DEF NextPc
    <2>4. NextPc(Top, o) \in Nat
        BY <2>3
    <2>5. /\ f \in Frame /\ f.coro = Top.coro /\ f.phase = "running"
          /\ f.pc = NextPc(Top, o) /\ f.is_good = Top.is_good
          /\ f.state = o.st /\ f.sum = Top.sum \o Taken(Instr, o)
        BY <1>1, <1>4, <2>1, <2>2, <2>4 DEF Frame, Phases
    <2>6. o.st.begin \in Int /\ Top.state.begin \in Int
        BY <1>2, <1>4 DEF State
    <2>7. InOrder(f.sum, CallerState(Len(stack)).begin, f.state.begin)
        BY <1>2, <1>3, <1>4, <2>5, <2>6, InOrderConcat
    <2> HIDE DEF f
    <2>8. Become(f)
        BY DEF f
    <2> QED BY <1>4, <2>3, <2>5, <2>7, <2>8, BecomeKeeps
<1>5. CASE ~ o.ok
    <2>1. f = [Top EXCEPT !.phase = "suspended", !.state = Top.state]
        BY <1>5 DEF Awaiting, PromiseState
    <2>2. /\ f \in Frame /\ f.coro = Top.coro /\ f.phase = "suspended"
          /\ f.pc = Top.pc /\ f.is_good = Top.is_good
          /\ f.state = Top.state /\ f.sum = Top.sum
        BY <1>1, <2>1 DEF Frame, Phases
    <2> HIDE DEF f
    <2>3. Become(f)
        BY DEF f
    <2>4. /\ Within(f.state, Top.state)
          /\ InOrder(f.sum, CallerState(Len(stack)).begin, f.state.begin)
        BY <1>2, <1>3, <2>2
    <2> QED BY <1>1, <2>2, <2>3, <2>4, BecomeKeeps
<1> QED BY <1>4, <1>5

\* What a parser that is no coroutine hands back lies in place.
LEMMA ParsedInPlace ==
    ASSUME Sound, AwaitParser, NEW o,
           o = Outcome(mem, Instr.parser, Top.state), o.ok
    PROVE  /\ o.st \in State
           /\ Within(o.st, Top.state)
           /\ Taken(Instr, o) \in Seq(Token)
           /\ InOrder(Taken(Instr, o), Top.state.begin, o.st.begin)
<1>1. /\ In("running") /\ Instr.op \in Awaits
      /\ Instr.parser \notin Coroutine
    BY DEF AwaitParser
<1>2. /\ stack # <<>> /\ Top \in Frame
      /\ Top.pc \in 1 .. Len(Body[Top.coro])
    BY <1>1, RunningFacts
<1>3. Top.coro \in Coroutine /\ Top.state \in State
    BY <1>2, FrameFacts
<1>4. Instr \in PlainAwaits
    BY <1>1, <1>2, <1>3 DEF PlainAwaits, Instr
<1>5. PICK s \in Sources : mem = s.mem /\ Within(cur, s.view)
    BY SoundParts DEF ViewSound
<1>6. Within(Top.state, s.view)
    <2>1. Within(Top.state, cur) /\ cur \in State
        BY <1>2, TopNested, SoundParts DEF TypeOK
    <2>2. s.view \in State
        BY SourceAssumption
    <2> QED BY <1>3, <1>5, <2>1, <2>2, WithinTrans
<1>7. /\ Top.state.begin \in s.view.begin .. s.view.end
      /\ Top.state = [begin |-> Top.state.begin, end |-> s.view.end]
    BY <1>3, <1>6, SourceAssumption DEF Within, State
<1>8. /\ o.st \in State
      /\ o.st.begin \in Top.state.begin .. s.view.end
      /\ o.st.end = s.view.end
      /\ Taken(Instr, o) \in Seq(Token)
      /\ InOrder(Taken(Instr, o), Top.state.begin, o.st.begin)
    BY <1>4, <1>5, <1>7, OutcomeAssumption
<1>9. Within(o.st, Top.state)
    <2>1. Top.state.end = s.view.end
        BY <1>7
    <2> QED BY <1>3, <1>8, <2>1 DEF Within, State
<1> QED BY <1>8, <1>9

LEMMA AwaitParserKeeps ==
    ASSUME Sound, AwaitParser
    PROVE  Sound'
<1> DEFINE o == Outcome(mem, Instr.parser, Top.state)
<1>1. /\ In("running") /\ Instr.op \in Awaits
      /\ Become(Awaiting(Top, o))
      /\ ret = <<>> /\ ret' = ret /\ UNCHANGED <<mem, cur, reading, got, alive>>
    BY DEF AwaitParser
<1>2. stack # <<>> /\ ~ Top.is_good
    BY <1>1, RunningFacts
<1>3. o.ok => /\ o.st \in State
              /\ Within(o.st, Top.state)
              /\ Taken(Instr, o) \in Seq(Token)
              /\ InOrder(Taken(Instr, o), Top.state.begin, o.st.begin)
    BY ParsedInPlace
<1> HIDE DEF o
<1> QED BY <1>1, <1>2, <1>3, AwaitingKeeps

LEMMA AwaitTerminatesKeeps ==
    ASSUME Sound, AwaitTerminates
    PROVE  Sound'
<1> USE SoundParts
<1>1. UNCHANGED <<mem, cur, reading, stack, ret, got>> /\ alive' = FALSE
    BY DEF AwaitTerminates
<1>2. TypeOK'
    BY <1>1 DEF TypeOK
<1>3. GoodOnlyAtEnd'
    BY <1>1 DEF GoodOnlyAtEnd
<1>4. OnlyTopRuns'
    BY <1>1 DEF OnlyTopRuns, Top
<1>5. PromisesNested'
    BY <1>1 DEF PromisesNested, CallerState
<1>6. ViewSound'
    BY <1>1 DEF ViewSound
<1>7. TakenOnce'
    BY <1>1 DEF TakenOnce, CallerState
<1> QED BY <1>2, <1>3, <1>4, <1>5, <1>6, <1>7 DEF Sound, IInv

\* What the awaited coroutine returned is a parse like any other's.
Returned == [ok |-> Good(ret[1]), st |-> ret[1].st, val |-> ret[1].val,
             called |-> <<>>]

LEMMA ReturnedFacts ==
    ASSUME Sound, AwaitReturns
    PROVE  /\ stack # <<>> /\ Top.phase = "awaiting" /\ ret # <<>>
           /\ ~ Top.is_good /\ Instr.op \in Awaits
           /\ Become(Awaiting(Top, Returned))
           /\ ret' = <<>> /\ UNCHANGED <<mem, cur, reading, got, alive>>
<1>1. /\ stack # <<>> /\ Top.phase = "awaiting" /\ ret # <<>>
      /\ Become(Awaiting(Top, Returned))
      /\ ret' = <<>> /\ UNCHANGED <<mem, cur, reading, got, alive>>
    BY DEF AwaitReturns, In, Returned
<1>2. /\ Top \in Frame /\ Instr = Body[Top.coro][Top.pc]
      /\ Len(stack) \in 1 .. Len(stack) /\ Top = stack[Len(stack)]
    BY <1>1, TopFacts, SoundParts
<1> QED BY <1>1, <1>2, SoundParts DEF GoodOnlyAtEnd, OnlyTopRuns

LEMMA ReturnedInPlace ==
    ASSUME Sound, AwaitReturns, NEW o, o = Returned, o.ok
    PROVE  /\ o.st \in State
           /\ Within(o.st, Top.state)
           /\ Taken(Instr, o) \in Seq(Token)
           /\ InOrder(Taken(Instr, o), Top.state.begin, o.st.begin)
<1>1. stack # <<>> /\ ret # <<>> /\ Instr.op \in Awaits
    BY ReturnedFacts
<1>2. /\ Top \in Frame /\ Top.pc \in 1 .. Len(Body[Top.coro])
      /\ Instr = Body[Top.coro][Top.pc]
    BY <1>1, TopFacts, SoundParts
<1>4. ret[1].st \in State /\ ret[1].val \in Seq(Token)
    <2>1. ret \in Seq(Result) /\ 1 \in 1 .. Len(ret)
        BY <1>1, SoundParts DEF TypeOK
    <2>2. ret[1] \in Result
        BY <2>1
    <2> QED BY <2>2 DEF Result
<1>5. CallerState(Len(stack) + 1) = Top.state /\ Top.state \in State
    BY <1>1, <1>2, TopNested, FrameFacts, SoundParts
<1>6. /\ o.ok = Good(ret[1]) /\ o.st = ret[1].st /\ o.val = ret[1].val
      /\ o.called = <<>>
    BY DEF Returned
<1>7. Within(o.st, Top.state) /\ InOrder(o.val, Top.state.begin, o.st.begin)
    BY <1>1, <1>5, <1>6, SoundParts DEF PromisesNested, TakenOnce
<1>8. Instr.op = "await" => Instr.keeps \in BOOLEAN
    BY <1>2, FrameFacts, BodyFacts
<1>9. /\ Taken(Instr, o) \in Seq(Token)
      /\ InOrder(Taken(Instr, o), Top.state.begin, o.st.begin)
    <2>1. Top.state.begin \in Int /\ o.st.begin \in Int
          /\ Top.state.begin <= o.st.begin
        BY <1>4, <1>5, <1>6, <1>7, WithinFacts
    <2>2. /\ <<>> \in Seq(Token)
          /\ InOrder(<<>>, Top.state.begin, o.st.begin)
        BY <2>1, NothingInOrder
    <2>3. o.val # <<>> => /\ Tail(o.val) \in Seq(Token)
                          /\ InOrder(Tail(o.val), Top.state.begin, o.st.begin)
        BY <1>4, <1>6, <1>7, <2>1, InOrderTail
    <2>4. \A s \in Seq(Token) : <<>> \o s = s
        OBVIOUS
    <2>5. Taken(Instr, o) \in {<<>>, o.val}
          \/ (o.val # <<>> /\ Taken(Instr, o) = Tail(o.val))
        BY <1>1, <1>4, <1>6, <1>8, <2>3, <2>4 DEF Taken, Awaits
    <2> QED BY <1>4, <1>6, <1>7, <2>2, <2>3, <2>5
<1> QED BY <1>4, <1>6, <1>7, <1>9

LEMMA AwaitReturnsKeeps ==
    ASSUME Sound, AwaitReturns
    PROVE  Sound'
<1> DEFINE o == Returned
<1>1. o.ok => /\ o.st \in State
              /\ Within(o.st, Top.state)
              /\ Taken(Instr, o) \in Seq(Token)
              /\ InOrder(Taken(Instr, o), Top.state.begin, o.st.begin)
    BY ReturnedInPlace
<1>2. Become(Awaiting(Top, o))
    BY ReturnedFacts
<1> HIDE DEF o
<1> QED BY <1>1, <1>2, ReturnedFacts, AwaitingKeeps

----------------------------------------------------------------------------
(***************************************************************************)
(* Calls and returns.                                                      *)
(***************************************************************************)

\* A coroutine is called on the state of its caller, which waits from then on.
LEMMA CallKeeps ==
    ASSUME Sound, NEW c \in Coroutine, NEW st \in State,
           NEW below \in Seq(Frame), Len(below) = Len(stack),
           \A i \in 1 .. Len(stack) :
                /\ below[i].phase = "awaiting" /\ ~ below[i].is_good
                /\ below[i].coro = stack[i].coro /\ below[i].pc = stack[i].pc
                /\ below[i].state = stack[i].state
                /\ below[i].sum = stack[i].sum
                /\ Body[stack[i].coro][stack[i].pc].op \in Awaits,
           st = CallerState(Len(stack) + 1), Within(st, cur), Within(st, st),
           stack' = Append(below, NewFrame(c, st)),
           ret' = <<>>, reading' # <<>>,
           got' \in [set : BOOLEAN, val : Seq(Token)],
           UNCHANGED <<mem, cur, alive>>
    PROVE  Sound'
<1> DEFINE f == NewFrame(c, st)
           n == Len(stack)
<1>1. /\ f \in Frame /\ f.pc \in 1 .. Len(Body[c]) /\ f.coro = c
      /\ f.phase = "initial" /\ f.state = st /\ f.sum = <<>>
      /\ f.is_good = FALSE
    <2>1. c \in Coroutine /\ st \in State
        OBVIOUS
    <2> QED BY ONLY <2>1, NewFrameTyped
<1> USE SoundParts
<1>2. n \in Nat
    BY DEF TypeOK
<1> HIDE DEF f
<1>3. /\ stack' \in Seq(Frame) /\ Len(stack') = n + 1 /\ stack' # <<>>
      /\ \A i \in 1 .. n : stack'[i] = below[i]
      /\ stack'[n + 1] = f
    BY <1>1, <1>2 DEF f
<1>4. ASSUME NEW i \in 1 .. Len(stack')
      PROVE  \/ i = n + 1 /\ stack'[i] = f
             \/ i \in 1 .. n /\ i < Len(stack') /\ stack'[i] = below[i]
    BY <1>2, <1>3
<1>5. ASSUME NEW i \in 1 .. n + 1
      PROVE  CallerState(i)' = CallerState(i)
    <2>1. CASE i = 1
        BY <2>1 DEF CallerState
    <2>2. CASE i # 1
        <3>1. i - 1 \in 1 .. n
            BY <1>2, <2>2
        <3> QED BY <1>3, <2>2, <3>1 DEF CallerState
    <2> QED BY <2>1, <2>2
<1>6. TypeOK'
    <2>1. ASSUME NEW i \in 1 .. Len(stack')
          PROVE  stack'[i].pc \in 1 .. Len(Body[stack'[i].coro])
        <3>1. CASE i = n + 1 /\ stack'[i] = f
            BY <1>1, <3>1
        <3>2. CASE i \in 1 .. n /\ stack'[i] = below[i]
            BY <3>2 DEF TypeOK
        <3> QED BY <1>4, <3>1, <3>2
    <2>2. /\ alive' \in BOOLEAN /\ cur' \in State
          /\ ret' \in Seq(Result) /\ Len(ret') <= 1
        BY DEF TypeOK
    <2> QED BY <1>3, <2>1, <2>2 DEF TypeOK
<1>7. GoodOnlyAtEnd'
    BY <1>1, <1>4 DEF GoodOnlyAtEnd
<1>8. OnlyTopRuns'
    <2>1. Top' = f
        BY <1>3 DEF Top
    <2>2. ASSUME NEW i \in 1 .. Len(stack')
          PROVE  /\ i < Len(stack') => stack'[i].phase = "awaiting"
                 /\ stack'[i].phase = "awaiting" =>
                        Body[stack'[i].coro][stack'[i].pc].op \in Awaits
        BY <1>1, <1>2, <1>3, <1>4
    <2> QED BY <1>1, <2>1, <2>2 DEF OnlyTopRuns
<1>9. PromisesNested'
    <2>1. ASSUME NEW i \in 1 .. Len(stack')
          PROVE  /\ Within(stack'[i].state, CallerState(i)')
                 /\ Within(stack'[i].state, cur')
        BY <1>1, <1>3, <1>4, <1>5 DEF PromisesNested
    <2> QED BY <2>1 DEF PromisesNested
<1>10. ViewSound'
    BY DEF ViewSound
<1>11. TakenOnce'
    <2>1. InOrder(<<>>, st.begin, st.begin)
        BY NothingInOrder DEF State
    <2>2. ASSUME NEW i \in 1 .. Len(stack')
          PROVE  InOrder(stack'[i].sum, CallerState(i)'.begin,
                         stack'[i].state.begin)
        BY <1>1, <1>3, <1>4, <1>5, <2>1 DEF TakenOnce
    <2> QED BY <2>2 DEF TakenOnce
<1> QED BY <1>6, <1>7, <1>8, <1>9, <1>10, <1>11 DEF Sound, IInv

LEMMA ViewIsProper ==
    ASSUME Sound
    PROVE  cur \in State /\ Within(cur, cur)
<1>1. PICK s \in Sources : Within(cur, s.view)
    BY SoundParts DEF ViewSound
<1>2. cur \in State /\ s.view \in State
    BY SourceAssumption, SoundParts DEF TypeOK
<1> QED BY <1>1, <1>2, WithinFacts

LEMMA ReadKeeps ==
    ASSUME Sound, NEW c \in EntryPoints, Read(c)
    PROVE  Sound'
<1>1. /\ reading = <<>> /\ reading' = <<c>> /\ got' = Nothing
      /\ stack' = Append(stack, NewFrame(c, cur))
      /\ UNCHANGED <<mem, cur, ret, alive>>
    BY DEF Read, Push
<1>2. stack = <<>> /\ ret = <<>> /\ stack \in Seq(Frame) /\ Len(stack) = 0
    BY <1>1, SoundParts DEF TypeOK
<1>3. CallerState(Len(stack) + 1) = cur
    BY <1>2 DEF CallerState
<1>4. c \in Coroutine
    BY BodyAssumption
<1>5. Nothing \in [set : BOOLEAN, val : Seq(Token)]
    <2>1. <<>> \in Seq(Token)
        OBVIOUS
    <2> QED BY <2>1 DEF Nothing
<1>6. 1 .. Len(stack) = {}
    BY <1>2
<1> QED BY <1>1, <1>2, <1>3, <1>4, <1>5, <1>6, ViewIsProper, CallKeeps

LEMMA AwaitCoroutineKeeps ==
    ASSUME Sound, AwaitCoroutine
    PROVE  Sound'
<1> DEFINE below == [stack EXCEPT ![Len(stack)].phase = "awaiting"]
           n == Len(stack)
<1>1. /\ In("running") /\ Instr.op \in Awaits /\ Instr.parser \in Coroutine
      /\ stack' = Append(below, NewFrame(Instr.parser, Top.state))
      /\ UNCHANGED <<mem, cur, reading, ret, got, alive>>
    BY DEF AwaitCoroutine
<1>2. /\ stack # <<>> /\ ret = <<>> /\ Top \in Frame /\ ~ Top.is_good
    BY <1>1, RunningFacts
<1>3. /\ n \in Nat /\ n >= 1 /\ Top = stack[n] /\ reading # <<>>
      /\ Instr = Body[Top.coro][Top.pc] /\ stack \in Seq(Frame)
    BY <1>2, TopFacts, SoundParts DEF TypeOK
<1>4. [Top EXCEPT !.phase = "awaiting"] \in Frame
    BY <1>2 DEF Frame, Phases
<1>5. below = [stack EXCEPT ![n] = [Top EXCEPT !.phase = "awaiting"]]
    BY <1>3
<1>6. /\ below \in Seq(Frame) /\ Len(below) = n
      /\ \A i \in 1 .. n - 1 : below[i] = stack[i]
      /\ below[n] = [Top EXCEPT !.phase = "awaiting"]
    BY <1>3, <1>4, <1>5
<1>7. /\ below[n].phase = "awaiting" /\ below[n].is_good = Top.is_good
      /\ below[n].coro = Top.coro /\ below[n].pc = Top.pc
      /\ below[n].state = Top.state /\ below[n].sum = Top.sum
    <2> DEFINE f == [Top EXCEPT !.phase = "awaiting"]
    <2>1. /\ f.phase = "awaiting" /\ f.is_good = Top.is_good
          /\ f.coro = Top.coro /\ f.pc = Top.pc
          /\ f.state = Top.state /\ f.sum = Top.sum
        BY <1>2 DEF Frame
    <2>2. below[n] = f
        BY <1>6
    <2> HIDE DEF f, below
    <2> QED BY <2>1, <2>2
<1> HIDE DEF below
<1>8. ASSUME NEW i \in 1 .. n
      PROVE  /\ below[i].phase = "awaiting" /\ ~ below[i].is_good
             /\ below[i].coro = stack[i].coro /\ below[i].pc = stack[i].pc
             /\ below[i].state = stack[i].state
             /\ below[i].sum = stack[i].sum
             /\ Body[stack[i].coro][stack[i].pc].op \in Awaits
    <2>1. CASE i = n
        BY <1>1, <1>2, <1>3, <1>7, <2>1
    <2>2. CASE i \in 1 .. n - 1
        <3>1. i < n /\ below[i] = stack[i]
            BY <1>3, <1>6, <2>2
        <3>2. /\ stack[i].phase = "awaiting"
              /\ Body[stack[i].coro][stack[i].pc].op \in Awaits
            BY <3>1, SoundParts DEF OnlyTopRuns
        <3>3. ~ stack[i].is_good
            BY <3>2, SoundParts DEF GoodOnlyAtEnd
        <3> QED BY <3>1, <3>2, <3>3
    <2> QED BY <1>3, <2>1, <2>2
<1>9. /\ Top.state \in State /\ Within(Top.state, cur)
      /\ Within(Top.state, Top.state)
      /\ CallerState(n + 1) = Top.state
    BY <1>2, TopNested, FrameFacts, WithinFacts, SoundParts DEF TypeOK
<1>10. got' \in [set : BOOLEAN, val : Seq(Token)]
    BY <1>1, SoundParts DEF TypeOK
<1> QED BY <1>1, <1>2, <1>3, <1>6, <1>8, <1>9, <1>10, CallKeeps

\* The frame on top is gone, and its result is there for the one below.
LEMMA ReturnKeeps ==
    ASSUME Sound, Return
    PROVE  Sound'
<1> USE SoundParts
<1> DEFINE n == Len(stack)
           r == PromiseResult(Top)
<1>1. /\ stack # <<>> /\ Top.phase # "awaiting" /\ ret = <<>>
      /\ ret' = <<r>> /\ stack' = SubSeq(stack, 1, n - 1)
      /\ UNCHANGED <<mem, cur, reading, got, alive>>
    <2>1. In("suspended") \/ In("final")
        BY DEF Return
    <2> QED BY <2>1, NoResultThere DEF Return
<1>2. /\ n \in Nat /\ n >= 1 /\ Top = stack[n] /\ reading # <<>>
      /\ Top \in Frame /\ stack \in Seq(Frame)
    BY <1>1, TopFacts DEF TypeOK
<1>3. /\ stack' \in Seq(Frame) /\ Len(stack') = n - 1
      /\ \A i \in 1 .. n - 1 : stack'[i] = stack[i]
    BY <1>1, <1>2
<1>4. ASSUME NEW i \in 1 .. n
      PROVE  CallerState(i)' = CallerState(i)
    <2>1. CASE i = 1
        BY <1>1, <2>1 DEF CallerState
    <2>2. CASE i # 1
        <3>1. i - 1 \in 1 .. n - 1
            BY <1>2, <2>2
        <3> QED BY <1>1, <1>3, <2>2, <3>1 DEF CallerState
    <2> QED BY <2>1, <2>2
<1>5. r \in Result
    BY <1>2, FrameFacts, NullResultTyped DEF PromiseResult, Result
<1>6. Good(r) => /\ r.st = Top.state /\ r.val = Top.sum
    <2>1. ~ Top.is_good => r = NullResult
        BY DEF PromiseResult
    <2>2. Top.is_good => r.st = Top.state /\ r.val = Top.value
                         /\ Top.value = Top.sum
        BY <1>2 DEF PromiseResult, GoodOnlyAtEnd
    <2> HIDE DEF r
    <2> QED BY <1>2, <2>1, <2>2, NullResultTyped, FrameFacts
<1> HIDE DEF r
<1>7. ASSUME NEW i \in 1 .. Len(stack')
      PROVE  i \in 1 .. n /\ i < n /\ stack'[i] = stack[i]
    BY <1>2, <1>3
<1>8. TypeOK'
    <2>1. \A i \in 1 .. Len(stack') :
            stack'[i].pc \in 1 .. Len(Body[stack'[i].coro])
        BY <1>7 DEF TypeOK
    <2>2. ret' \in Seq(Result) /\ Len(ret') <= 1
        BY <1>1, <1>5
    <2> QED BY <1>1, <1>2, <1>3, <2>1, <2>2 DEF TypeOK
<1>9. GoodOnlyAtEnd'
    BY <1>7 DEF GoodOnlyAtEnd
<1>10. OnlyTopRuns'
    <2>1. ASSUME NEW i \in 1 .. Len(stack')
          PROVE  /\ stack'[i].phase = "awaiting"
                 /\ Body[stack'[i].coro][stack'[i].pc].op \in Awaits
        BY <1>7 DEF OnlyTopRuns
    <2>2. stack' # <<>> => Top'.phase = "awaiting"
        <3>1. stack' # <<>> => Len(stack') \in 1 .. Len(stack')
            BY <1>3
        <3> QED BY <2>1, <3>1 DEF Top
    <2>3. ret' # <<>>
        BY <1>1
    <2> QED BY <2>1, <2>2, <2>3 DEF OnlyTopRuns
<1>11. CallerState(Len(stack) + 1)' = CallerState(Len(stack))
    <2>1. Len(stack') + 1 = n
        BY <1>2, <1>3
    <2>2. CASE n = 1
        BY <1>1, <2>1, <2>2 DEF CallerState
    <2>3. CASE n # 1
        <3>1. n - 1 \in 1 .. n - 1 /\ (Len(stack') + 1) - 1 = n - 1
            BY <1>2, <2>1, <2>3
        <3> QED BY <1>3, <2>1, <2>3, <3>1 DEF CallerState
    <2> QED BY <2>2, <2>3
<1>12. ret'[1] = r
    BY <1>1
<1>13. PromisesNested'
    <2>1. ASSUME NEW i \in 1 .. Len(stack')
          PROVE  /\ Within(stack'[i].state, CallerState(i)')
                 /\ Within(stack'[i].state, cur')
        BY <1>1, <1>4, <1>7 DEF PromisesNested
    <2>2. Good(r) => Within(r.st, CallerState(Len(stack)))
        BY <1>1, <1>2, <1>6, TopNested
    <2> QED BY <1>11, <1>12, <2>1, <2>2 DEF PromisesNested, Good
<1>14. ViewSound'
    BY <1>1 DEF ViewSound
<1>15. TakenOnce'
    <2>1. ASSUME NEW i \in 1 .. Len(stack')
          PROVE  InOrder(stack'[i].sum, CallerState(i)'.begin,
                         stack'[i].state.begin)
        BY <1>4, <1>7 DEF TakenOnce
    <2>2. Good(r) => InOrder(r.val, CallerState(Len(stack)).begin, r.st.begin)
        <3>1. n \in 1 .. n
            BY <1>2
        <3> QED BY <1>2, <1>6, <3>1 DEF TakenOnce
    <2> QED BY <1>11, <1>12, <2>1, <2>2 DEF TakenOnce, Good
<1> QED BY <1>8, <1>9, <1>10, <1>13, <1>14, <1>15 DEF Sound, IInv

\* What the client is handed at the end of its read.
LEMMA FinishFacts ==
    ASSUME Sound, FinishRead
    PROVE  /\ stack = <<>> /\ reading # <<>> /\ ret # <<>>
           /\ ret[1] \in Result
           /\ Good(ret[1]) => Within(ret[1].st, cur)
           /\ cur' = IF Good(ret[1]) THEN ret[1].st ELSE cur
           /\ got' = IF Good(ret[1]) THEN [set |-> TRUE, val |-> ret[1].val]
                                     ELSE Nothing
           /\ reading' = <<>> /\ ret' = <<>>
           /\ UNCHANGED <<mem, stack, alive>>
<1>1. stack = <<>> /\ ret # <<>>
    BY DEF FinishRead
<1>2. ret[1] \in Result
    <2>1. ret \in Seq(Result)
        BY SoundParts DEF TypeOK
    <2>2. 1 \in 1 .. Len(ret)
        BY <1>1, <2>1
    <2> QED BY <2>1, <2>2
<1>3. CallerState(Len(stack) + 1) = cur
    <2>1. Len(stack) = 0
        BY <1>1
    <2> QED BY <2>1 DEF CallerState
<1>4. Good(ret[1]) => Within(ret[1].st, cur)
    BY <1>1, <1>3, SoundParts DEF PromisesNested
<1> QED BY <1>1, <1>2, <1>4 DEF FinishRead

LEMMA FinishReadKeeps ==
    ASSUME Sound, FinishRead
    PROVE  Sound'
<1>1. /\ stack = <<>> /\ stack' = <<>> /\ ret' = <<>> /\ mem' = mem
      /\ alive' = alive /\ reading' = <<>>
    BY FinishFacts
<1>2. ret[1].st \in State /\ ret[1].val \in Seq(Token) /\ cur \in State
    BY FinishFacts, SoundParts DEF Result, TypeOK
<1>3. cur' \in State /\ Within(cur', cur)
    BY <1>2, FinishFacts, ViewIsProper
<1>4. got' \in [set : BOOLEAN, val : Seq(Token)]
    <2>1. <<>> \in Seq(Token)
        OBVIOUS
    <2>2. \A v \in Seq(Token), b \in BOOLEAN :
            [set |-> b, val |-> v] \in [set : BOOLEAN, val : Seq(Token)]
        OBVIOUS
    <2>3. got' = [set |-> TRUE, val |-> ret[1].val] \/ got' = Nothing
        BY FinishFacts
    <2> QED BY <1>2, <2>1, <2>2, <2>3 DEF Nothing
<1>5. stack' \in Seq(Frame) /\ Len(stack') = 0 /\ 1 .. Len(stack') = {}
    BY <1>1
<1>6. TypeOK'
    <2>1. ret' \in Seq(Result) /\ Len(ret') <= 1 /\ alive' \in BOOLEAN
        BY <1>1, SoundParts DEF TypeOK
    <2> QED BY <1>1, <1>3, <1>4, <1>5, <2>1 DEF TypeOK
<1>7. GoodOnlyAtEnd' /\ OnlyTopRuns' /\ PromisesNested' /\ TakenOnce'
    BY <1>1, <1>5 DEF GoodOnlyAtEnd, OnlyTopRuns, PromisesNested, TakenOnce
<1>8. ViewSound'
    <2>1. PICK s \in Sources : mem = s.mem /\ Within(cur, s.view)
        BY SoundParts DEF ViewSound
    <2>2. Within(cur', s.view)
        BY <1>2, <1>3, <2>1, SourceAssumption, WithinTrans
    <2> QED BY <1>1, <2>1, <2>2 DEF ViewSound
<1> QED BY <1>6, <1>7, <1>8 DEF Sound, IInv

----------------------------------------------------------------------------
(***************************************************************************)
(* The theorems.                                                           *)
(***************************************************************************)
LEMMA InitSound ==
    ASSUME Init
    PROVE  Sound
<1>1. PICK s \in Sources : mem = s.mem /\ cur = s.view
    BY DEF Init
<1>2. cur \in State /\ Within(cur, s.view)
    BY <1>1, SourceAssumption, WithinSelf
<1>3. /\ stack = <<>> /\ ret = <<>> /\ reading = <<>> /\ got = Nothing
      /\ alive = TRUE
    BY DEF Init
<1>4. stack \in Seq(Frame) /\ Len(stack) = 0 /\ 1 .. Len(stack) = {}
    BY <1>3
<1>5. ret \in Seq(Result) /\ Len(ret) <= 1
    BY <1>3
<1>6. got \in [set : BOOLEAN, val : Seq(Token)]
    <2>1. <<>> \in Seq(Token)
        OBVIOUS
    <2> QED BY <1>3, <2>1 DEF Nothing
<1>7. TypeOK
    BY <1>2, <1>3, <1>4, <1>5, <1>6 DEF TypeOK
<1>8. GoodOnlyAtEnd /\ OnlyTopRuns /\ PromisesNested /\ TakenOnce
    BY <1>3, <1>4 DEF GoodOnlyAtEnd, OnlyTopRuns, PromisesNested, TakenOnce
<1>9. ViewSound
    BY <1>1, <1>2 DEF ViewSound
<1> QED BY <1>7, <1>8, <1>9, SoundParts

LEMMA NextSound ==
    ASSUME Sound, [Next]_vars
    PROVE  Sound'
<1>1. CASE Resume
    BY <1>1, ResumeKeeps
<1>2. CASE AwaitParser
    BY <1>2, AwaitParserKeeps
<1>3. CASE AwaitTerminates
    BY <1>3, AwaitTerminatesKeeps
<1>4. CASE AwaitCoroutine
    BY <1>4, AwaitCoroutineKeeps
<1>5. CASE AwaitReturns
    BY <1>5, AwaitReturnsKeeps
<1>6. CASE UnhandledException
    BY <1>6, UnhandledExceptionKeeps
<1>7. CASE NoException
    BY <1>7, NoExceptionKeeps
<1>8. CASE ReturnValue
    BY <1>8, ReturnValueKeeps
<1>9. CASE Return
    BY <1>9, ReturnKeeps
<1>10. CASE FinishRead
    BY <1>10, FinishReadKeeps
<1>11. CASE \E c \in EntryPoints : Read(c)
    BY <1>11, ReadKeeps
<1>12. CASE UNCHANGED vars
    <2>1. UNCHANGED <<mem, cur, reading, stack, ret, got, alive>>
        BY <1>12 DEF vars
    <2>2. TypeOK'
        BY <2>1, SoundParts DEF TypeOK
    <2>3. GoodOnlyAtEnd' /\ OnlyTopRuns'
        BY <2>1, SoundParts DEF GoodOnlyAtEnd, OnlyTopRuns, Top
    <2>4. PromisesNested' /\ TakenOnce'
        BY <2>1, SoundParts DEF PromisesNested, TakenOnce, CallerState
    <2>5. ViewSound'
        BY <2>1, SoundParts DEF ViewSound
    <2> QED BY <2>2, <2>3, <2>4, <2>5 DEF Sound, IInv
<1> QED BY <1>1, <1>2, <1>3, <1>4, <1>5, <1>6, <1>7, <1>8, <1>9, <1>10,
            <1>11, <1>12 DEF Next, Work

\* A coroutine that was suspended or threw hands nothing over, only the frame
\* on top runs, and no co_await moves a state but forward in its caller's view:
\* whatever the bodies, and whatever the parsers they await.
THEOREM CoroutineInvariant == Spec => []IInv
<1>1. Init => Sound
    BY InitSound
<1>2. Sound /\ [Next]_vars => Sound'
    BY NextSound
<1>3. Sound => IInv
    BY DEF Sound
<1> QED BY <1>1, <1>2, <1>3, PTL DEF Spec

\* Nothing is taken twice: what a body keeps, adds or hands to a function it
\* passed to a parser was parsed in order, and lies behind where it parses next.
THEOREM CoroutinesTakeOnce == Spec => []TakenOnce
<1>1. Init => Sound
    BY InitSound
<1>2. Sound /\ [Next]_vars => Sound'
    BY NextSound
<1>3. Sound => TakenOnce
    BY DEF Sound
<1> QED BY <1>1, <1>2, <1>3, PTL DEF Spec

\* The step that ends a read hands over a value and a rest of the view, or
\* neither.
LEMMA FinishIsEnd ==
    ASSUME Sound, FinishRead
    PROVE  Client!Succeed \/ Client!Fail
<1>1. (reading # <<>>) = TRUE /\ (reading' # <<>>) = FALSE
    BY FinishFacts
<1>2. CASE Good(ret[1])
    <2>1. cur' = ret[1].st /\ got'.set = TRUE /\ Within(ret[1].st, cur)
        BY <1>2, FinishFacts
    <2> QED BY <1>1, <2>1 DEF Client!Succeed, Client!IsRest, Within
<1>3. CASE ~ Good(ret[1])
    <2>1. cur' = cur /\ got'.set = FALSE
        BY <1>3, FinishFacts DEF Nothing
    <2> QED BY <1>1, <2>1 DEF Client!Fail
<1> QED BY <1>2, <1>3

LEMMA NextRefines ==
    ASSUME Sound, [Next]_vars
    PROVE  [Client!Next]_(Client!vars)
<1>1. CASE Work /\ ~ FinishRead
    <2>1. UNCHANGED <<cur, reading, got>>
        BY <1>1 DEF Work, Resume, AwaitParser, AwaitTerminates, AwaitCoroutine,
            AwaitReturns, UnhandledException, NoException, ReturnValue, Return
    <2> QED BY <2>1 DEF Client!vars
<1>2. CASE FinishRead
    BY <1>2, FinishIsEnd DEF Client!Next
<1>3. CASE \E c \in EntryPoints : Read(c)
    BY <1>3 DEF Read, Nothing, Client!Next, Client!Begin
<1>4. CASE UNCHANGED vars
    BY <1>4 DEF vars, Client!vars
<1> QED BY <1>1, <1>2, <1>3, <1>4 DEF Next

\* A client that reads with coroutines never loses its place: parser::read
\* with a coroutine implements Cursor, whichever co_await failed or threw.
THEOREM CoroutinesRefineCursor == Spec => CoroutineImplementsCursor
<1>1. Init => Client!Init
    BY DEF Init, Nothing, Client!Init
<1>2. Sound /\ [Next]_vars => [Client!Next]_(Client!vars)
    BY NextRefines
<1>3. Init => Sound
    BY InitSound
<1>4. Sound /\ [Next]_vars => Sound'
    BY NextSound
<1> QED BY <1>1, <1>2, <1>3, <1>4, PTL
        DEF Spec, CoroutineImplementsCursor, Client!Spec

----------------------------------------------------------------------------
(***************************************************************************)
(* What a coroutine means.  Every step of a body takes a part of what is   *)
(* left of it and adds that to what it has taken; a call begins with all   *)
(* that is left, and a return hands over what is taken.                    *)
(***************************************************************************)
LEMMA OutcomeIs ==
    ASSUME NEW view, NEW m \in Outcomes(view)
    PROVE  /\ m.ok \in BOOLEAN
           /\ m.ok => /\ m.st \in Rests(view) /\ m.val \in Seq(Token)
                      /\ m = Yes(m.st, m.val)
           /\ ~ m.ok => m = No
<1>1. CASE m \in [ok : {TRUE}, st : Rests(view), val : Seq(Token)]
    <2>1. m = [ok |-> m.ok, st |-> m.st, val |-> m.val] /\ m.ok = TRUE
        BY <1>1
    <2> QED BY <1>1, <2>1 DEF Yes
<1>2. CASE m = No
    BY <1>2 DEF No
<1> QED BY <1>1, <1>2 DEF Outcomes

LEMMA BeforeBefore ==
    ASSUME NEW view, NEW m \in Outcomes(view),
           NEW a \in Seq(Token), NEW b \in Seq(Token)
    PROVE  Before(a, Before(b, m)) = Before(a \o b, m)
<1>1. CASE m.ok
    <2> DEFINE c == m.val
    <2>1. c \in Seq(Token)
        BY <1>1, OutcomeIs
    <2> HIDE DEF c
    <2>2. a \o (b \o c) = (a \o b) \o c
        BY <2>1, ConcatAssociative
    <2>3. Before(b, m) = Yes(m.st, b \o c)
        BY <1>1 DEF Before, c
    <2>4. Before(a, Yes(m.st, b \o c)) = Yes(m.st, a \o (b \o c))
        BY DEF Before, Yes
    <2>5. Before(a \o b, m) = Yes(m.st, (a \o b) \o c)
        BY <1>1 DEF Before, c
    <2> QED BY <2>2, <2>3, <2>4, <2>5
<1>2. CASE ~ m.ok
    <2>1. Before(b, m) = No /\ Before(a \o b, m) = No
        BY <1>2 DEF Before
    <2> QED BY <2>1 DEF Before, No
<1> QED BY <1>1, <1>2, OutcomeIs

LEMMA BeforeNone ==
    ASSUME NEW view, NEW m \in Outcomes(view)
    PROVE  Before(<<>>, m) = m
<1>1. CASE m.ok
    <2>1. m.val \in Seq(Token) /\ m = Yes(m.st, m.val)
        BY <1>1, OutcomeIs
    <2>2. <<>> \o m.val = m.val
        BY <2>1, ConcatEmptySeq
    <2> QED BY <1>1, <2>1, <2>2 DEF Before
<1>2. CASE ~ m.ok
    BY <1>2, OutcomeIs DEF Before
<1> QED BY <1>1, <1>2

\* The last token does not need the ones in front of it.
LEMMA LastOfLast ==
    ASSUME NEW c, NEW s \in Seq(Token), NEW t \in Seq(Token)
    PROVE  LastOf(c, LastOf(c, s) \o t) = LastOf(c, s \o t)
<1>1. CASE ~ Looks(c)
    BY <1>1 DEF LastOf
<1>2. CASE Looks(c)
    <2> DEFINE u == LastOf(c, s)
    <2>1. /\ Len(s) \in Nat /\ Len(t) \in Nat
          /\ s # <<>> => Len(s) \in 1 .. Len(s)
          /\ t # <<>> => Len(t) \in 1 .. Len(t)
          /\ s # <<>> => s[Len(s)] \in Token
        OBVIOUS
    <2>2. /\ s = <<>> => u = <<>>
          /\ s # <<>> => u = <<s[Len(s)]>>
        BY <1>2 DEF LastOf
    <2>3. u \in Seq(Token)
        <3>1. <<>> \in Seq(Token) /\ \A x \in Token : <<x>> \in Seq(Token)
            OBVIOUS
        <3> QED BY <2>1, <2>2, <3>1
    <2> HIDE DEF u
    <2>4. CASE t = <<>>
        <3>1. u \o t = u /\ s \o t = s
            BY <2>3, <2>4, ConcatEmptySeq
        <3>2. LastOf(c, u) = u
            BY <1>2, <2>2 DEF LastOf
        <3> QED BY <3>1, <3>2 DEF u
    <2>5. CASE t # <<>>
        <3>1. ASSUME NEW w \in Seq(Token)
              PROVE  LastOf(c, w \o t) = <<t[Len(t)]>>
            <4>1. /\ w \o t # <<>> /\ Len(w \o t) = Len(w) + Len(t)
                  /\ (w \o t)[Len(w) + Len(t)] = t[Len(t)]
                BY <2>1, <2>5
            <4> QED BY <1>2, <4>1 DEF LastOf
        <3> QED BY <2>3, <3>1 DEF u
    <2> QED BY <2>4, <2>5 DEF u
<1> QED BY <1>1, <1>2

LEMMA LastTyped ==
    ASSUME NEW c, NEW view \in State, NEW sum \in Seq(Token),
           NEW a \in Int, NEW b \in Int, view.begin <= a, b <= view.end,
           InOrder(sum, a, b)
    PROVE  LastOf(c, sum) \in Lasts(c, view)
<1>1. CASE ~ Looks(c) \/ sum = <<>>
    BY <1>1 DEF LastOf, Lasts
<1>2. CASE Looks(c) /\ sum # <<>>
    <2> DEFINE t == sum[Len(sum)]
    <2>1. Len(sum) \in 1 .. Len(sum) /\ view.begin \in Int /\ view.end \in Int
        BY <1>2 DEF State
    <2>2. t \in Token /\ a <= t.from /\ t.from <= t.to /\ t.to <= b
        BY <2>1 DEF InOrder
    <2>3. /\ t.from \in view.begin .. view.end
          /\ t.to \in view.begin .. view.end
          /\ t = [from |-> t.from, to |-> t.to]
        BY <2>1, <2>2 DEF Token
    <2> HIDE DEF t
    <2>4. LastOf(c, sum) = <<[from |-> t.from, to |-> t.to]>>
        BY <1>2, <2>3 DEF LastOf, t
    <2> QED BY <1>2, <2>3, <2>4 DEF Lasts
<1> QED BY <1>1, <1>2

\* The equations hold on every rest of an input's view.
LEMMA RulesHold ==
    ASSUME IsMeaning(Sources), NEW s \in Sources, NEW c \in Coroutine,
           NEW st \in State, Within(st, s.view)
    PROVE  /\ Meaning(s.mem, c, st) = MeaningFrom(s.mem, c, 1, st, <<>>)
           /\ \A k \in 1 .. Len(Body[c]), last \in Lasts(c, s.view) :
                /\ MeaningFrom(s.mem, c, k, st, last) \in Outcomes(st)
                /\ MeaningFrom(s.mem, c, k, st, last)
                     = MeaningFromRule(s.mem, c, k, st, last)
<1>1. st \in Rests(s.view)
    <2>1. st.begin \in s.view.begin .. s.view.end
        BY SourceAssumption DEF Within, State
    <2>2. st = [begin |-> st.begin, end |-> s.view.end]
        BY DEF Within, State
    <2> QED BY <2>1, <2>2 DEF Rests
<1>2. Solves(s.mem, c, s.view)
    BY DEF IsMeaning
<1> QED BY <1>1, <1>2 DEF Solves

\* What is left of the body on top, by name.
Left == MeaningFrom(mem, Top.coro, Top.pc, Top.state,
                    LastOf(Top.coro, Top.sum))

\* What would be left of it at another place, with t taken before.
LeftAt(k, st, t) ==
    MeaningFrom(mem, Top.coro, k, st, LastOf(Top.coro, Top.sum \o t))

LEMMA LeftFacts ==
    ASSUME IsMeaning(Sources), Sound, stack # <<>>
    PROVE  /\ Top.coro \in Coroutine /\ Top.sum \in Seq(Token)
           /\ Top.state \in State
           /\ Left \in Outcomes(Top.state)
           /\ Left = MeaningFromRule(mem, Top.coro, Top.pc, Top.state,
                                     LastOf(Top.coro, Top.sum))
           /\ \A k \in 1 .. Len(Body[Top.coro]), st \in State,
                 t \in Seq(Token) :
                Within(st, Top.state) /\ InOrder(t, Top.state.begin, st.begin)
                    => LeftAt(k, st, t) \in Outcomes(st)
           /\ \A c \in Coroutine :
                /\ Meaning(mem, c, Top.state)
                     = MeaningFrom(mem, c, 1, Top.state, <<>>)
                /\ MeaningFrom(mem, c, 1, Top.state, <<>>)
                     \in Outcomes(Top.state)
<1>1. /\ Top \in Frame /\ Top.pc \in 1 .. Len(Body[Top.coro])
      /\ Len(stack) \in 1 .. Len(stack) /\ Top = stack[Len(stack)]
    BY TopFacts, SoundParts
<1>2. /\ Top.coro \in Coroutine /\ Top.sum \in Seq(Token)
      /\ Top.state \in State /\ cur \in State
    BY <1>1, FrameFacts, SoundParts DEF TypeOK
<1>3. PICK s \in Sources : mem = s.mem /\ Within(cur, s.view)
    BY SoundParts DEF ViewSound
<1>4. s.view \in State
    BY SourceAssumption
<1>5. /\ Within(Top.state, cur) /\ Within(Top.state, CallerState(Len(stack)))
      /\ CallerState(Len(stack)) \in State
      /\ CallerState(Len(stack) + 1) = Top.state
    BY TopNested, SoundParts
<1>6. Within(Top.state, s.view)
    BY <1>2, <1>3, <1>4, <1>5, WithinTrans
<1> DEFINE a == CallerState(Len(stack)).begin
<1>7. a \in Int /\ s.view.begin <= a /\ Top.state.begin \in Int
    <2>1. Within(CallerState(Len(stack)), cur)
        <3>1. CASE Len(stack) = 1
            <4>1. CallerState(Len(stack)) = cur
                BY <3>1 DEF CallerState
            <4>2. Within(cur, cur)
                BY ViewIsProper
            <4> QED BY <4>1, <4>2
        <3>2. CASE Len(stack) # 1
            <4> DEFINE n == Len(stack)
            <4>1. n \in Nat /\ n >= 1 /\ n # 1
                BY <1>1, <3>2
            <4> HIDE DEF n
            <4>2. n - 1 \in 1 .. n
                BY <4>1
            <4> USE DEF n
            <4>3. CallerState(Len(stack)) = stack[Len(stack) - 1].state
                BY <3>2 DEF CallerState
            <4> QED BY <4>2, <4>3, SoundParts DEF PromisesNested
        <3> QED BY <3>1, <3>2
    <2>2. Within(CallerState(Len(stack)), s.view)
        BY <1>2, <1>3, <1>4, <1>5, <2>1, WithinTrans
    <2> QED BY <1>2, <1>4, <1>5, <2>2, WithinFacts
<1>8. InOrder(Top.sum, a, Top.state.begin)
    BY <1>1, SoundParts DEF TakenOnce
<1> HIDE DEF a
<1>9. ASSUME NEW k \in 1 .. Len(Body[Top.coro]), NEW st \in State,
             NEW t \in Seq(Token), Within(st, Top.state),
             InOrder(t, Top.state.begin, st.begin)
      PROVE  LeftAt(k, st, t) \in Outcomes(st)
    <2>1. Within(st, s.view) /\ st.begin \in Int /\ st.begin <= s.view.end
        <3>1. Within(st, s.view)
            BY <1>2, <1>4, <1>6, <1>9, WithinTrans
        <3> QED BY <1>4, <3>1 DEF Within, State
    <2>2. InOrder(Top.sum \o t, a, st.begin)
        BY <1>2, <1>7, <1>8, <1>9, <2>1, InOrderConcat
    <2>3. LastOf(Top.coro, Top.sum \o t) \in Lasts(Top.coro, s.view)
        <3>1. Top.sum \o t \in Seq(Token)
            BY <1>2
        <3> QED BY <1>4, <1>7, <2>1, <2>2, <3>1, LastTyped
    <2> QED BY <1>2, <1>3, <2>1, <2>3, RulesHold DEF LeftAt
<1>10. LastOf(Top.coro, Top.sum) \in Lasts(Top.coro, s.view)
    <2>1. Top.state.begin <= s.view.end
        BY <1>2, <1>4, <1>6 DEF Within, State
    <2> QED BY <1>2, <1>4, <1>7, <1>8, <2>1, LastTyped
<1>11. /\ Left \in Outcomes(Top.state)
       /\ Left = MeaningFromRule(mem, Top.coro, Top.pc, Top.state,
                                 LastOf(Top.coro, Top.sum))
    BY <1>1, <1>2, <1>3, <1>6, <1>10, RulesHold DEF Left
<1>12. ASSUME NEW c \in Coroutine
       PROVE  /\ Meaning(mem, c, Top.state)
                   = MeaningFrom(mem, c, 1, Top.state, <<>>)
              /\ MeaningFrom(mem, c, 1, Top.state, <<>>)
                   \in Outcomes(Top.state)
    <2>1. 1 \in 1 .. Len(Body[c]) /\ <<>> \in Lasts(c, s.view)
        BY BodyAssumption DEF Lasts
    <2> QED BY <1>2, <1>3, <1>6, <2>1, RulesHold
<1> QED BY <1>2, <1>9, <1>11, <1>12

\* What is done and what is left of the frame on top, as OnTheWay has it.
LEMMA TopOnTheWay ==
    ASSUME Sound, OnTheWay, stack # <<>>
    PROVE  /\ Top.coro = Applied(Len(stack))
           /\ Meaning(mem, Top.coro, CallerState(Len(stack)))
                = ToDo(mem, Top)
           /\ Top.phase \in {"initial", "running", "awaiting"} =>
                ToDo(mem, Top) = Before(Top.sum, Left)
<1>1. Len(stack) \in 1 .. Len(stack) /\ Top = stack[Len(stack)]
    BY TopFacts, SoundParts
<1> QED BY <1>1 DEF OnTheWay, ToDo, Left

\* The frame on top may be replaced if what it has done and what it has still
\* to do are together what they were.
LEMMA BecomeOnTheWay ==
    ASSUME Sound, OnTheWay, stack # <<>>, NEW f \in Frame, Become(f),
           f.coro = Top.coro, ToDo(mem, f) = ToDo(mem, Top),
           ret' = <<>>, UNCHANGED <<mem, cur, reading>>
    PROVE  OnTheWay'
<1>1. /\ Len(stack) \in Nat /\ Len(stack) >= 1
      /\ Len(stack') = Len(stack)
      /\ \A i \in 1 .. Len(stack) - 1 : stack'[i] = stack[i]
      /\ stack'[Len(stack)] = f
    BY Became, TopFacts, SoundParts
<1>2. ASSUME NEW i \in 1 .. Len(stack)
      PROVE  CallerState(i)' = CallerState(i) /\ Applied(i)' = Applied(i)
    <2>1. CASE i = 1
        BY <2>1 DEF CallerState, Applied
    <2>2. CASE i # 1
        <3>1. i - 1 \in 1 .. Len(stack) - 1
            BY <1>1, <2>2
        <3> QED BY <1>1, <2>2, <3>1 DEF CallerState, Applied
    <2> QED BY <2>1, <2>2
<1>3. ASSUME NEW i \in 1 .. Len(stack)
      PROVE  /\ stack'[i].coro = Applied(i)
             /\ Meaning(mem, stack'[i].coro, CallerState(i))
                  = ToDo(mem, stack'[i])
    <2>1. CASE i = Len(stack)
        BY <1>1, <2>1, TopOnTheWay
    <2>2. CASE i # Len(stack)
        <3>1. i \in 1 .. Len(stack) - 1
            BY <1>1, <2>2
        <3> QED BY <1>1, <3>1 DEF OnTheWay
    <2> QED BY <2>1, <2>2
<1>4. reading' \in {<<>>} \union {<<c>> : c \in EntryPoints}
    BY DEF OnTheWay
<1> QED BY <1>1, <1>2, <1>3, <1>4 DEF OnTheWay

LEMMA ResumeOnTheWay ==
    ASSUME Sound, OnTheWay, Resume
    PROVE  OnTheWay'
<1> DEFINE f == [Top EXCEPT !.phase = "running"]
<1>1. stack # <<>> /\ Top.phase = "initial" /\ ret = <<>>
    BY NoResultThere DEF Resume
<1>2. Top \in Frame
    BY <1>1, TopFacts, SoundParts
<1>3. /\ f \in Frame /\ f.coro = Top.coro /\ f.pc = Top.pc
      /\ f.phase = "running" /\ f.state = Top.state /\ f.sum = Top.sum
    BY <1>2 DEF Frame, Phases
<1>4. Become(f) /\ ret' = <<>> /\ UNCHANGED <<mem, cur, reading>>
    BY <1>1 DEF Resume
<1> HIDE DEF f
<1>5. ToDo(mem, f) = ToDo(mem, Top)
    BY <1>1, <1>3 DEF ToDo
<1> QED BY <1>1, <1>3, <1>4, <1>5, BecomeOnTheWay

\* What is left of a running body, in terms of the instruction it is at.
LEMMA RunningMeans ==
    ASSUME IsMeaning(Sources), Sound, OnTheWay, In("running")
    PROVE  /\ stack # <<>> /\ Top \in Frame /\ ret = <<>>
           /\ Top.phase = "running"
           /\ Top.sum \in Seq(Token) /\ Top.coro \in Coroutine
           /\ Instr = Body[Top.coro][Top.pc]
           /\ Left \in Outcomes(Top.state)
           /\ Left = MeaningFromRule(mem, Top.coro, Top.pc, Top.state,
                                     LastOf(Top.coro, Top.sum))
           /\ ToDo(mem, Top) = Before(Top.sum, Left)
<1>1. stack # <<>> /\ Top.phase = "running" /\ Top \in Frame /\ ret = <<>>
    BY NoResultThere, RunningFacts
<1> QED BY <1>1, LeftFacts, TopOnTheWay DEF Instr

\* The token a throw looks at is the last one taken.
LEMMA ThrowSees ==
    ASSUME Sound, In("running"), Instr.op = "throw"
    PROVE  LastOf(Top.coro, Top.sum)
             = IF Top.sum = <<>> THEN <<>> ELSE <<Top.sum[Len(Top.sum)]>>
<1>1. /\ Top.pc \in 1 .. Len(Body[Top.coro])
      /\ Body[Top.coro][Top.pc].op = "throw"
    BY RunningFacts DEF Instr
<1> QED BY <1>1 DEF LastOf, Looks

LEMMA UnhandledExceptionOnTheWay ==
    ASSUME IsMeaning(Sources), Sound, OnTheWay, UnhandledException
    PROVE  OnTheWay'
<1> DEFINE f == [Top EXCEPT !.is_good = FALSE, !.phase = "final"]
<1>1. In("running") /\ Instr.op = "throw" /\ Throws
    BY DEF UnhandledException
<1>2. /\ f \in Frame /\ f.coro = Top.coro /\ f.phase = "final"
      /\ f.is_good = FALSE
    BY <1>1, RunningFacts DEF Frame, Phases
<1>3. Become(f) /\ ret' = <<>> /\ UNCHANGED <<mem, cur, reading>>
    BY <1>1, RunningMeans DEF UnhandledException
<1> HIDE DEF f
<1>4. Left = No
    <2>1. LastOf(Top.coro, Top.sum) = <<Top.sum[Len(Top.sum)]>>
        BY <1>1, ThrowSees DEF Throws
    <2>2. MeaningFromRule(mem, Top.coro, Top.pc, Top.state,
                          <<Top.sum[Len(Top.sum)]>>) = No
        BY <1>1, RunningMeans DEF MeaningFromRule, Throws, Awaits
    <2> QED BY <1>1, <2>1, <2>2, RunningMeans
<1>5. ToDo(mem, f) = No /\ ToDo(mem, Top) = No
    BY <1>1, <1>2, <1>4, RunningMeans DEF ToDo, Before, No
<1> QED BY <1>1, <1>2, <1>3, <1>5, RunningMeans, BecomeOnTheWay

LEMMA NoExceptionOnTheWay ==
    ASSUME IsMeaning(Sources), Sound, OnTheWay, NoException
    PROVE  OnTheWay'
<1> DEFINE f == [Top EXCEPT !.pc = Top.pc + 1]
           last == LastOf(Top.coro, Top.sum)
<1>1. In("running") /\ Instr.op = "throw" /\ ~ Throws
    BY DEF NoException
<1>2. /\ f \in Frame /\ f.coro = Top.coro /\ f.pc = Top.pc + 1
      /\ f.phase = "running" /\ f.state = Top.state /\ f.sum = Top.sum
    BY <1>1, RunningFacts, RunningMeans DEF Frame
<1>3. Become(f) /\ ret' = <<>> /\ UNCHANGED <<mem, cur, reading>>
    BY <1>1, RunningMeans DEF NoException
<1> HIDE DEF f
<1>4. ~ (last # <<>> /\ Reads(mem, last[1], Instr.texts))
    BY <1>1, ThrowSees DEF Throws
<1> HIDE DEF last
<1>5. Left = MeaningFrom(mem, Top.coro, Top.pc + 1, Top.state, last)
    <2>1. Left = MeaningFromRule(mem, Top.coro, Top.pc, Top.state, last)
        BY <1>1, RunningMeans DEF last
    <2>2. Body[Top.coro][Top.pc] = Instr
        BY DEF Instr
    <2> QED BY <1>1, <1>4, <2>1, <2>2 DEF MeaningFromRule, Awaits
<1>6. ToDo(mem, f) = Before(Top.sum, Left)
    BY <1>2, <1>5 DEF ToDo, last
<1> QED BY <1>1, <1>2, <1>3, <1>6, RunningMeans, BecomeOnTheWay

LEMMA ReturnValueOnTheWay ==
    ASSUME IsMeaning(Sources), Sound, OnTheWay, ReturnValue
    PROVE  OnTheWay'
<1> DEFINE f == [Top EXCEPT !.value = Top.sum, !.is_good = TRUE,
                            !.phase = "final"]
<1>1. In("running") /\ Instr.op = "return"
    BY DEF ReturnValue
<1>2. /\ f \in Frame /\ f.coro = Top.coro /\ f.phase = "final"
      /\ f.is_good = TRUE /\ f.value = Top.sum /\ f.state = Top.state
    BY <1>1, RunningFacts DEF Frame, Phases
<1>3. Become(f) /\ ret' = <<>> /\ UNCHANGED <<mem, cur, reading>>
    BY <1>1, RunningMeans DEF ReturnValue
<1> HIDE DEF f
<1>4. Left = Handed(Top.state, <<>>)
    BY <1>1, RunningMeans DEF MeaningFromRule, Awaits
<1>5. Before(Top.sum, Handed(Top.state, <<>>)) = Handed(Top.state, Top.sum)
    <2>1. Top.sum \o <<>> = Top.sum
        BY <1>1, RunningMeans, ConcatEmptySeq
    <2> QED BY <2>1 DEF Before, Handed, Yes, No
<1>6. ToDo(mem, f) = Handed(Top.state, Top.sum)
    BY <1>2 DEF ToDo
<1> QED BY <1>1, <1>2, <1>3, <1>4, <1>5, <1>6, RunningMeans, BecomeOnTheWay

----------------------------------------------------------------------------
\* A co_await that is over has taken from what is left what the rule says.
LEMMA AwaitingOnTheWay ==
    ASSUME IsMeaning(Sources), Sound, OnTheWay, stack # <<>>,
           Top.phase \in {"running", "awaiting"}, Instr.op \in Awaits,
           NEW o, Become(Awaiting(Top, o)),
           o.ok => /\ o.st \in State
                   /\ Within(o.st, Top.state)
                   /\ Taken(Instr, o) \in Seq(Token)
                   /\ InOrder(Taken(Instr, o), Top.state.begin, o.st.begin),
           Left = IF o.ok
                  THEN Before(Taken(Instr, o),
                              MeaningFrom(mem, Top.coro, NextPc(Top, o), o.st,
                                          LastOf(Top.coro,
                                                 LastOf(Top.coro, Top.sum)
                                                    \o Taken(Instr, o))))
                  ELSE No,
           ret' = <<>>, UNCHANGED <<mem, cur, reading>>
    PROVE  OnTheWay'
<1> DEFINE f == Awaiting(Top, o)
<1>1. /\ Top \in Frame /\ Top.pc \in 1 .. Len(Body[Top.coro])
      /\ Instr = Body[Top.coro][Top.pc]
    BY TopFacts, SoundParts
<1>2. Top.coro \in Coroutine /\ Top.sum \in Seq(Token) /\ Top.pc \in Nat
    BY <1>1, FrameFacts
<1>3. ToDo(mem, Top) = Before(Top.sum, Left)
    BY TopOnTheWay
<1>4. CASE o.ok
    <2> DEFINE t == Taken(Instr, o)
               k == NextPc(Top, o)
    <2>1. t \in Seq(Token) /\ Top.sum \o t \in Seq(Token)
        BY <1>2, <1>4
    <2>2. k \in 1 .. Len(Body[Top.coro])
        <3>1. Instr.op # "return"
            BY DEF Awaits
        <3>2. Top.pc # Len(Body[Top.coro]) /\ Len(Body[Top.coro]) \in Nat
            BY <1>1, <1>2, <3>1, BodyFacts
        <3>3. Top.pc + 1 \in 1 .. Len(Body[Top.coro])
            BY <1>1, <1>2, <3>2
        <3> QED BY <1>1, <3>3 DEF NextPc
    <2>3. f = [Top EXCEPT !.phase = "running", !.state = o.st,
                          !.sum = Top.sum \o t, !.pc = k]
        BY <1>4 DEF Awaiting, PromiseState, Locals
    <2>4. /\ f \in Frame /\ f.coro = Top.coro /\ f.phase = "running"
          /\ f.pc = k /\ f.state = o.st /\ f.sum = Top.sum \o t
        <3>1. k \in Nat
            BY <2>2
        <3> HIDE DEF k, t, f
        <3> QED BY <1>1, <1>4, <2>1, <2>3, <3>1 DEF Frame, Phases
    <2>5. LeftAt(k, o.st, t) \in Outcomes(o.st)
        BY <1>4, <2>1, <2>2, LeftFacts
    <2>6. Left = Before(t, LeftAt(k, o.st, t))
        <3>1. LastOf(Top.coro, LastOf(Top.coro, Top.sum) \o t)
                = LastOf(Top.coro, Top.sum \o t)
            BY <1>2, <2>1, LastOfLast
        <3> QED BY <1>4, <3>1 DEF LeftAt
    <2> HIDE DEF f, t, k
    <2>7. ToDo(mem, f) = Before(Top.sum \o t, LeftAt(k, o.st, t))
        BY <2>4 DEF ToDo, LeftAt
    <2>8. ToDo(mem, f) = ToDo(mem, Top)
        BY <1>2, <1>3, <2>1, <2>5, <2>6, <2>7, BeforeBefore
    <2>9. Become(f)
        BY DEF f
    <2> QED BY <2>4, <2>8, <2>9, BecomeOnTheWay
<1>5. CASE ~ o.ok
    <2>1. f = [Top EXCEPT !.phase = "suspended", !.state = Top.state]
        BY <1>5 DEF Awaiting, PromiseState
    <2>2. f \in Frame /\ f.coro = Top.coro /\ f.phase = "suspended"
        BY <1>1, <2>1 DEF Frame, Phases
    <2> HIDE DEF f
    <2>3. ToDo(mem, f) = No /\ ToDo(mem, Top) = No
        BY <1>3, <1>5, <2>2 DEF ToDo, Before, No
    <2>4. Become(f)
        BY DEF f
    <2> QED BY <2>2, <2>3, <2>4, BecomeOnTheWay
<1> QED BY <1>4, <1>5

\* At a co_await, the rule is that of the parser awaited.
LEMMA AwaitRule ==
    ASSUME IsMeaning(Sources), Sound, stack # <<>>, Instr.op \in Awaits
    PROVE  Left = AfterAwait(mem, Top.coro, Top.pc, LastOf(Top.coro, Top.sum),
                             Awaited(mem, Instr.parser, Top.state))
<1> DEFINE last == LastOf(Top.coro, Top.sum)
<1>1. Left = MeaningFromRule(mem, Top.coro, Top.pc, Top.state, last)
    BY LeftFacts
<1>2. Body[Top.coro][Top.pc] = Instr
    BY DEF Instr
<1> HIDE DEF last
<1>3. Left = AfterAwait(mem, Top.coro, Top.pc, last,
                        Awaited(mem, Instr.parser, Top.state))
    BY <1>1, <1>2 DEF MeaningFromRule, Awaits
<1> QED BY <1>3 DEF last

LEMMA AwaitParserOnTheWay ==
    ASSUME IsMeaning(Sources), Sound, OnTheWay, AwaitParser
    PROVE  OnTheWay'
<1> DEFINE o == Outcome(mem, Instr.parser, Top.state)
<1>1. /\ In("running") /\ Instr.op \in Awaits
      /\ Instr.parser \notin Coroutine /\ ~ o.throws
      /\ Become(Awaiting(Top, o))
      /\ ret = <<>> /\ ret' = ret /\ UNCHANGED <<mem, cur, reading>>
    BY DEF AwaitParser
<1>2. o.ok => /\ o.st \in State
              /\ Within(o.st, Top.state)
              /\ Taken(Instr, o) \in Seq(Token)
              /\ InOrder(Taken(Instr, o), Top.state.begin, o.st.begin)
    BY ParsedInPlace
<1>3. Awaited(mem, Instr.parser, Top.state) = o
    BY <1>1 DEF Awaited
<1> HIDE DEF o
<1>4. Left = AfterAwait(mem, Top.coro, Top.pc, LastOf(Top.coro, Top.sum), o)
    BY <1>1, <1>3, RunningMeans, AwaitRule
<1> QED BY <1>1, <1>2, <1>4, RunningMeans, AwaitingOnTheWay
        DEF AfterAwait, NextPc

LEMMA AwaitReturnsOnTheWay ==
    ASSUME IsMeaning(Sources), Sound, OnTheWay, AwaitReturns
    PROVE  OnTheWay'
<1> DEFINE o == Returned
           m == Awaited(mem, Instr.parser, Top.state)
<1>1. /\ stack # <<>> /\ Top.phase = "awaiting" /\ ret # <<>>
      /\ Instr.op \in Awaits /\ Become(Awaiting(Top, o))
      /\ ret' = <<>> /\ UNCHANGED <<mem, cur, reading>>
    BY ReturnedFacts
<1>2. o.ok => /\ o.st \in State
              /\ Within(o.st, Top.state)
              /\ Taken(Instr, o) \in Seq(Token)
              /\ InOrder(Taken(Instr, o), Top.state.begin, o.st.begin)
    BY ReturnedInPlace
<1>3. /\ o.ok = Good(ret[1]) /\ o.st = ret[1].st /\ o.val = ret[1].val
      /\ o.called = <<>>
    BY DEF Returned
<1> HIDE DEF o
<1> DEFINE p == Instr.parser
           r == Meaning(mem, p, Top.state)
           a == [ok |-> r.ok, st |-> r.st, val |-> r.val, called |-> <<>>,
                 throws |-> FALSE]
<1>4. /\ Applied(Len(stack) + 1) = p
      /\ CallerState(Len(stack) + 1) = Top.state
    <2>1. Len(stack) \in Nat /\ Len(stack) >= 1 /\ Top = stack[Len(stack)]
          /\ Instr = Body[Top.coro][Top.pc]
        BY <1>1, TopFacts, SoundParts
    <2>2. Len(stack) + 1 # 1 /\ (Len(stack) + 1) - 1 = Len(stack)
        BY <2>1
    <2> QED BY <1>1, <2>1, <2>2, TopNested, SoundParts DEF Applied
<1>5. /\ p \in Coroutine
      /\ Good(ret[1]) <=> r.ok
      /\ r.ok => ret[1].st = r.st /\ ret[1].val = r.val
    BY <1>1, <1>4 DEF OnTheWay, Agrees
<1>6. r.ok \in BOOLEAN
    BY <1>1, <1>5, LeftFacts, OutcomeIs
<1>7. Awaited(mem, p, Top.state) = a
    BY <1>5 DEF Awaited
<1>8. Left = AfterAwait(mem, Top.coro, Top.pc, LastOf(Top.coro, Top.sum), a)
    BY <1>1, <1>7, AwaitRule
<1> HIDE DEF p, r
<1>9. /\ a.ok = r.ok
      /\ a.throws = FALSE
      /\ r.ok => a.st = o.st /\ a.val = o.val /\ a.called = o.called
    BY <1>3, <1>5
<1> HIDE DEF a
<1>10. r.ok => Taken(Instr, a) = Taken(Instr, o)
    BY <1>9 DEF Taken
<1>11. o.ok <=> r.ok
    BY <1>3, <1>5
<1> DEFINE left(x) ==
        Before(Taken(Instr, o),
               MeaningFrom(mem, Top.coro, NextPc(Top, o), o.st,
                           LastOf(Top.coro, x \o Taken(Instr, o))))
<1>12. Left = IF o.ok THEN left(LastOf(Top.coro, Top.sum)) ELSE No
    <2>1. CASE ~ r.ok
        BY <1>8, <1>9, <1>11, <2>1 DEF AfterAwait
    <2>2. CASE r.ok
        <3>1. (IF Instr.op = "while" /\ a.val # <<>>
               THEN Top.pc ELSE Top.pc + 1) = NextPc(Top, o)
            BY <1>9, <2>2 DEF NextPc
        <3>2. Body[Top.coro][Top.pc] = Instr
            BY DEF Instr
        <3> QED BY <1>8, <1>9, <1>10, <1>11, <2>2, <3>1, <3>2 DEF AfterAwait
    <2> QED BY <2>1, <2>2
<1> QED BY <1>1, <1>2, <1>12, AwaitingOnTheWay

----------------------------------------------------------------------------
\* A frame that begins has all of its body to do.
LEMMA NewFrameMeans ==
    ASSUME NEW c \in Coroutine, NEW st \in State,
           Meaning(mem, c, st) = MeaningFrom(mem, c, 1, st, <<>>),
           MeaningFrom(mem, c, 1, st, <<>>) \in Outcomes(st)
    PROVE  ToDo(mem, NewFrame(c, st)) = Meaning(mem, c, st)
<1> DEFINE f == NewFrame(c, st)
<1>1. /\ f.coro = c /\ f.phase = "initial" /\ f.state = st /\ f.sum = <<>>
      /\ f.pc = 1
    BY DEF NewFrame
<1> HIDE DEF f
<1>2. LastOf(c, <<>>) = <<>>
    BY DEF LastOf
<1>3. ToDo(mem, f) = Before(<<>>, MeaningFrom(mem, c, 1, st, <<>>))
    BY <1>1, <1>2 DEF ToDo
<1>4. Before(<<>>, MeaningFrom(mem, c, 1, st, <<>>))
        = MeaningFrom(mem, c, 1, st, <<>>)
    BY BeforeNone
<1> QED BY <1>3, <1>4 DEF f

LEMMA CallOnTheWay ==
    ASSUME Sound, OnTheWay, NEW c \in Coroutine, NEW st \in State,
           NEW below \in Seq(Frame), Len(below) = Len(stack),
           \A i \in 1 .. Len(stack) :
                /\ below[i].coro = stack[i].coro /\ below[i].pc = stack[i].pc
                /\ below[i].state = stack[i].state
                /\ ToDo(mem, below[i]) = ToDo(mem, stack[i]),
           st = CallerState(Len(stack) + 1),
           ToDo(mem, NewFrame(c, st)) = Meaning(mem, c, st),
           stack' = Append(below, NewFrame(c, st)),
           reading' \in {<<e>> : e \in EntryPoints},
           \/ stack = <<>> /\ c = reading'[1]
           \/ stack # <<>> /\ c = Instr.parser /\ reading' = reading,
           ret' = <<>>, UNCHANGED <<mem, cur>>
    PROVE  OnTheWay'
<1> DEFINE f == NewFrame(c, st)
           n == Len(stack)
<1>1. f \in Frame /\ f.coro = c
    <2>1. c \in Coroutine /\ st \in State
        OBVIOUS
    <2> QED BY ONLY <2>1, NewFrameTyped
<1>2. n \in Nat
    BY SoundParts DEF TypeOK
<1>3. ToDo(mem, f) = Meaning(mem, c, st)
    OBVIOUS
<1> HIDE DEF f
<1>4. /\ Len(stack') = n + 1
      /\ \A i \in 1 .. n : stack'[i] = below[i]
      /\ stack'[n + 1] = f
    BY <1>1, <1>2 DEF f
<1>5. ASSUME NEW i \in 1 .. n + 1
      PROVE  CallerState(i)' = CallerState(i)
    <2>1. CASE i = 1
        BY <2>1 DEF CallerState
    <2>2. CASE i # 1
        <3>1. i - 1 \in 1 .. n
            BY <1>2, <2>2
        <3> QED BY <1>4, <2>2, <3>1 DEF CallerState
    <2> QED BY <2>1, <2>2
<1>6. ASSUME NEW i \in 1 .. n
      PROVE  Applied(i)' = Applied(i)
    <2>1. stack # <<>>
        BY <1>2
    <2>2. CASE i = 1
        BY <2>1, <2>2 DEF Applied
    <2>3. CASE i # 1
        <3>1. i - 1 \in 1 .. n
            BY <1>2, <2>3
        <3> QED BY <1>4, <2>3, <3>1 DEF Applied
    <2> QED BY <2>2, <2>3
<1>7. ASSUME NEW i, i = n + 1
      PROVE  c = Applied(i)'
    <2>1. CASE stack = <<>>
        <3>1. i = 1
            BY <1>7, <2>1
        <3> QED BY <2>1, <3>1 DEF Applied
    <2>2. CASE stack # <<>>
        <3>1. n >= 1 /\ Top = stack[n] /\ Instr = Body[Top.coro][Top.pc]
            BY <2>2, TopFacts, SoundParts
        <3>2. n \in 1 .. n /\ i - 1 = n /\ i # 1
            BY <1>2, <1>7, <3>1
        <3>3. Applied(i)' = Body[below[n].coro][below[n].pc].parser
            BY <1>4, <3>2 DEF Applied
        <3> QED BY <2>2, <3>1, <3>2, <3>3
    <2> QED BY <2>1, <2>2
<1>8. ASSUME NEW i \in 1 .. n + 1
      PROVE  /\ stack'[i].coro = Applied(i)'
             /\ Meaning(mem, stack'[i].coro, CallerState(i))
                  = ToDo(mem, stack'[i])
    <2>1. CASE i = n + 1
        BY <1>1, <1>3, <1>4, <1>7, <2>1
    <2>2. CASE i # n + 1
        <3>1. i \in 1 .. n
            BY <1>2, <2>2
        <3>2. /\ stack[i].coro = Applied(i)
              /\ Meaning(mem, stack[i].coro, CallerState(i))
                   = ToDo(mem, stack[i])
            BY <3>1 DEF OnTheWay
        <3> QED BY <1>4, <1>6, <3>1, <3>2
    <2> QED BY <2>1, <2>2
<1> QED BY <1>4, <1>5, <1>8 DEF OnTheWay

LEMMA ReadOnTheWay ==
    ASSUME IsMeaning(Sources), Sound, OnTheWay, NEW c \in EntryPoints, Read(c)
    PROVE  OnTheWay'
<1>1. /\ reading = <<>> /\ reading' = <<c>>
      /\ stack' = Append(stack, NewFrame(c, cur))
      /\ UNCHANGED <<mem, cur, ret>>
    BY DEF Read, Push
<1>2. /\ stack = <<>> /\ ret = <<>> /\ stack \in Seq(Frame)
      /\ Len(stack) = 0 /\ cur \in State
    BY <1>1, SoundParts DEF TypeOK
<1>3. CallerState(Len(stack) + 1) = cur
    BY <1>2 DEF CallerState
<1>4. c \in Coroutine /\ 1 \in 1 .. Len(Body[c])
    BY BodyAssumption
<1>5. PICK s \in Sources : mem = s.mem /\ Within(cur, s.view)
    BY SoundParts DEF ViewSound
<1>6. <<>> \in Lasts(c, s.view)
    BY DEF Lasts
<1>7. ToDo(mem, NewFrame(c, cur)) = Meaning(mem, c, cur)
    BY <1>2, <1>4, <1>5, <1>6, RulesHold, NewFrameMeans
<1> QED BY <1>1, <1>2, <1>3, <1>4, <1>7, CallOnTheWay

LEMMA AwaitCoroutineOnTheWay ==
    ASSUME IsMeaning(Sources), Sound, OnTheWay, AwaitCoroutine
    PROVE  OnTheWay'
<1> DEFINE below == [stack EXCEPT ![Len(stack)].phase = "awaiting"]
           n == Len(stack)
           f == [Top EXCEPT !.phase = "awaiting"]
           p == Instr.parser
<1>1. /\ In("running") /\ p \in Coroutine
      /\ stack' = Append(below, NewFrame(p, Top.state))
      /\ UNCHANGED <<mem, cur, reading, ret>>
    BY DEF AwaitCoroutine
<1>2. stack # <<>> /\ ret = <<>> /\ Top \in Frame /\ Top.phase = "running"
    BY <1>1, RunningMeans
<1>3. /\ n \in Nat /\ n >= 1 /\ Top = stack[n] /\ reading # <<>>
      /\ stack \in Seq(Frame)
    BY <1>2, TopFacts, SoundParts DEF TypeOK
<1>4. /\ f \in Frame /\ f.phase = "awaiting" /\ f.coro = Top.coro
      /\ f.pc = Top.pc /\ f.state = Top.state /\ f.sum = Top.sum
    BY <1>2 DEF Frame, Phases
<1>5. below = [stack EXCEPT ![n] = f]
    BY <1>3
<1> HIDE DEF f
<1>6. /\ below \in Seq(Frame) /\ Len(below) = n
      /\ \A i \in 1 .. n - 1 : below[i] = stack[i]
      /\ below[n] = f
    BY <1>3, <1>4, <1>5
<1> HIDE DEF below
<1>7. ToDo(mem, f) = ToDo(mem, Top)
    BY <1>2, <1>4 DEF ToDo
<1>8. ASSUME NEW i \in 1 .. n
      PROVE  /\ below[i].coro = stack[i].coro /\ below[i].pc = stack[i].pc
             /\ below[i].state = stack[i].state
             /\ ToDo(mem, below[i]) = ToDo(mem, stack[i])
    <2>1. CASE i = n
        BY <1>3, <1>4, <1>6, <1>7, <2>1
    <2>2. CASE i # n
        <3>1. i \in 1 .. n - 1
            BY <1>3, <2>2
        <3> QED BY <1>6, <3>1
    <2> QED BY <2>1, <2>2
<1>9. Top.state \in State /\ CallerState(n + 1) = Top.state
    BY <1>2, TopNested, FrameFacts, SoundParts
<1>10. ToDo(mem, NewFrame(p, Top.state)) = Meaning(mem, p, Top.state)
    BY <1>1, <1>2, <1>9, LeftFacts, NewFrameMeans
<1>11. reading' \in {<<e>> : e \in EntryPoints} /\ reading' = reading
    BY <1>1, <1>3 DEF OnTheWay
<1> QED BY <1>1, <1>2, <1>6, <1>8, <1>9, <1>10, <1>11, CallOnTheWay

\* A frame that ends hands over what is taken, and that is all there was to do.
LEMMA ReturnOnTheWay ==
    ASSUME Sound, OnTheWay, Return
    PROVE  OnTheWay'
<1> DEFINE n == Len(stack)
           r == PromiseResult(Top)
<1>1. /\ stack # <<>> /\ Top.phase \in {"suspended", "final"} /\ ret = <<>>
      /\ ret' = <<r>> /\ stack' = SubSeq(stack, 1, n - 1)
      /\ UNCHANGED <<mem, cur, reading>>
    <2>1. In("suspended") \/ In("final")
        BY DEF Return
    <2> QED BY <2>1, NoResultThere DEF Return
<1>2. /\ n \in Nat /\ n >= 1 /\ Top = stack[n] /\ Top \in Frame
      /\ stack \in Seq(Frame)
    BY <1>1, TopFacts, SoundParts DEF TypeOK
<1>3. /\ Len(stack') = n - 1
      /\ \A i \in 1 .. n - 1 : stack'[i] = stack[i]
    BY <1>1, <1>2
<1>4. ASSUME NEW i \in 1 .. n
      PROVE  CallerState(i)' = CallerState(i) /\ Applied(i)' = Applied(i)
    <2>1. CASE i = 1
        BY <1>1, <2>1 DEF CallerState, Applied
    <2>2. CASE i # 1
        <3>1. i - 1 \in 1 .. n - 1
            BY <1>2, <2>2
        <3> QED BY <1>1, <1>3, <2>2, <3>1 DEF CallerState, Applied
    <2> QED BY <2>1, <2>2
<1>5. Top.is_good => Top.phase = "final"
    <2>1. n \in 1 .. n
        BY <1>2
    <2> QED BY <1>2, <2>1, SoundParts DEF GoodOnlyAtEnd
<1>6. ToDo(mem, Top) = IF Top.is_good THEN Handed(Top.state, Top.value) ELSE No
    BY <1>1, <1>5 DEF ToDo
<1>7. Agrees(r, ToDo(mem, Top))
    <2>1. CASE Top.is_good
        <3>1. r.st = Top.state /\ r.val = Top.value
            BY <2>1 DEF PromiseResult
        <3>2. ToDo(mem, Top) = IF StateGood(Top.state)
                               THEN Yes(Top.state, Top.value) ELSE No
            BY <1>6, <2>1 DEF Handed
        <3> HIDE DEF r
        <3> QED BY <3>1, <3>2 DEF Agrees, Good, Yes, No
    <2>2. CASE ~ Top.is_good
        <3>1. r = NullResult
            BY <2>2 DEF PromiseResult
        <3> QED BY <1>6, <2>2, <3>1, NullResultTyped DEF Agrees, No
    <2> QED BY <2>1, <2>2
<1>8. /\ Top.coro = Applied(n) /\ Top.coro \in Coroutine
      /\ Meaning(mem, Top.coro, CallerState(n)) = ToDo(mem, Top)
    BY <1>1, <1>2, FrameFacts, TopOnTheWay
<1> HIDE DEF r
<1>9. ASSUME NEW i \in 1 .. Len(stack')
      PROVE  /\ stack'[i].coro = Applied(i)'
             /\ Meaning(mem, stack'[i].coro, CallerState(i)')
                  = ToDo(mem, stack'[i])
    <2>1. i \in 1 .. n /\ stack'[i] = stack[i]
        BY <1>2, <1>3
    <2> QED BY <1>4, <2>1 DEF OnTheWay
<1>10. Len(stack') + 1 = n /\ n \in 1 .. n
    BY <1>2, <1>3
<1>11. /\ Applied(Len(stack) + 1)' = Top.coro
       /\ CallerState(Len(stack) + 1)' = CallerState(n)
    BY <1>4, <1>8, <1>10
<1>12. ret'[1] = r
    BY <1>1
<1>13. reading' \in {<<>>} \union {<<e>> : e \in EntryPoints}
    BY <1>1 DEF OnTheWay
<1> QED BY <1>1, <1>7, <1>8, <1>9, <1>11, <1>12, <1>13 DEF OnTheWay

LEMMA NextOnTheWay ==
    ASSUME IsMeaning(Sources), Sound, OnTheWay, [Next]_vars
    PROVE  OnTheWay'
<1>1. CASE Resume
    BY <1>1, ResumeOnTheWay
<1>2. CASE AwaitParser
    BY <1>2, AwaitParserOnTheWay
<1>3. CASE AwaitTerminates \/ UNCHANGED vars
    <2>1. UNCHANGED <<mem, cur, reading, stack, ret>>
        BY <1>3 DEF AwaitTerminates, vars
    <2> QED BY <2>1 DEF OnTheWay, Applied, CallerState
<1>4. CASE AwaitCoroutine
    BY <1>4, AwaitCoroutineOnTheWay
<1>5. CASE AwaitReturns
    BY <1>5, AwaitReturnsOnTheWay
<1>6. CASE UnhandledException
    BY <1>6, UnhandledExceptionOnTheWay
<1>7. CASE NoException
    BY <1>7, NoExceptionOnTheWay
<1>8. CASE ReturnValue
    BY <1>8, ReturnValueOnTheWay
<1>9. CASE Return
    BY <1>9, ReturnOnTheWay
<1>10. CASE FinishRead
    <2>1. stack' = <<>> /\ ret' = <<>> /\ reading' = <<>>
        BY <1>10, FinishFacts
    <2>2. 1 .. Len(stack') = {}
        BY <2>1
    <2> QED BY <2>1, <2>2 DEF OnTheWay
<1>11. CASE \E c \in EntryPoints : Read(c)
    BY <1>11, ReadOnTheWay
<1> QED BY <1>1, <1>2, <1>3, <1>4, <1>5, <1>6, <1>7, <1>8, <1>9, <1>10,
            <1>11 DEF Next, Work

\* However many coroutines are suspended in each other, what each has taken and
\* what is left of its body make what it means on the state it was called with:
\* no co_await, exception or return of another frame gets in between.
THEOREM CoroutinesKeepTheirMeaning ==
    ASSUME IsMeaning(Sources)
    PROVE  Spec => []OnTheWay
<1>1. Init => Sound /\ OnTheWay
    <2> SUFFICES ASSUME Init PROVE Sound /\ OnTheWay
        OBVIOUS
    <2>1. stack = <<>> /\ ret = <<>> /\ reading = <<>> /\ 1 .. Len(stack) = {}
        BY DEF Init
    <2> QED BY <2>1, InitSound DEF OnTheWay
<1>2. Sound /\ OnTheWay /\ [Next]_vars => Sound' /\ OnTheWay'
    BY NextSound, NextOnTheWay
<1> QED BY <1>1, <1>2, PTL DEF Spec

LEMMA FinishIsCombinators ==
    ASSUME Sound, OnTheWay, FinishRead
    PROVE  CombinatorRead!Next
<1>1. PICK c \in EntryPoints : reading = <<c>>
    BY FinishFacts DEF OnTheWay
<1> DEFINE m == Meaning(mem, c, cur)
<1>2. Applied(Len(stack) + 1) = c /\ CallerState(Len(stack) + 1) = cur
    <2>1. Len(stack) = 0
        BY FinishFacts
    <2> QED BY <1>1, <2>1 DEF Applied, CallerState
<1>3. /\ Good(ret[1]) <=> m.ok
      /\ m.ok => ret[1].st = m.st /\ ret[1].val = m.val
    BY <1>2, FinishFacts DEF OnTheWay, Agrees
<1>4. /\ cur' = IF m.ok THEN m.st ELSE cur
      /\ got' = IF m.ok THEN [set |-> TRUE, val |-> m.val]
                        ELSE CombinatorRead!Nothing
      /\ reading' = <<>> /\ mem' = mem
    <2> HIDE DEF m
    <2> QED BY <1>3, FinishFacts DEF Nothing, CombinatorRead!Nothing
<1>5. CombinatorRead!End(c)
    BY <1>1, <1>4 DEF CombinatorRead!End
<1> QED BY <1>5 DEF CombinatorRead!Next

LEMMA NextIsCombinators ==
    ASSUME Sound, OnTheWay, [Next]_vars
    PROVE  [CombinatorRead!Next]_(CombinatorRead!vars)
<1>1. CASE Work /\ ~ FinishRead
    <2>1. UNCHANGED <<mem, cur, reading, got>>
        BY <1>1 DEF Work, Resume, AwaitParser, AwaitTerminates, AwaitCoroutine,
            AwaitReturns, UnhandledException, NoException, ReturnValue, Return
    <2> QED BY <2>1 DEF CombinatorRead!vars
<1>2. CASE FinishRead
    BY <1>2, FinishIsCombinators
<1>3. CASE \E c \in EntryPoints : Read(c)
    BY <1>3 DEF Read, Nothing, CombinatorRead!Next, CombinatorRead!Begin,
                CombinatorRead!Nothing
<1>4. CASE UNCHANGED vars
    BY <1>4 DEF vars, CombinatorRead!vars
<1> QED BY <1>1, <1>2, <1>3, <1>4 DEF Next

\* A read with a coroutine is one step to its client, and does what the
\* coroutine means: a co_await that fails, an exception of a body and a nested
\* coroutine that does either leave nothing behind.
THEOREM CoroutinesReadAsCombinators ==
    ASSUME IsMeaning(Sources)
    PROVE  Spec => CoroutineImplementsCombinator
<1>1. Init => CombinatorRead!Init
    BY DEF Init, Nothing, CombinatorRead!Init, CombinatorRead!Nothing
<1>2. Sound /\ OnTheWay /\ [Next]_vars
        => [CombinatorRead!Next]_(CombinatorRead!vars)
    BY NextIsCombinators
<1>3. Init => Sound
    BY InitSound
<1>4. Sound /\ [Next]_vars => Sound'
    BY NextSound
<1> QED BY <1>1, <1>2, <1>3, <1>4, CoroutinesKeepTheirMeaning, PTL
        DEF Spec, CoroutineImplementsCombinator, CombinatorRead!Spec

=============================================================================
