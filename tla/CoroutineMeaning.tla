-------------------------- MODULE CoroutineMeaning --------------------------
(***************************************************************************)
(* The meaning of a coroutine: what its body makes of a view when every    *)
(* co_await is taken to be one step, with no frames, no promises and no    *)
(* suspensions.                                                            *)
(*                                                                         *)
(* As in PegRules, a meaning is any solution of the equations below, one   *)
(* for a coroutine c and one for what is left of its body from instruction *)
(* k on.  Nothing here is recursive.                                       *)
(***************************************************************************)
EXTENDS Coroutine

CONSTANTS
    Meaning(_, _, _),          \* (characters, coroutine, view)
    MeaningFrom(_, _, _, _, _) \* (characters, coroutine, k, view, last token)

Yes(st, val) == [ok |-> TRUE, st |-> st, val |-> val]
No == [ok |-> FALSE, st |-> NullState, val |-> <<>>]

\* A result<T> over a null state is a failure, whatever its value.
Handed(st, val) == IF StateGood(st) THEN Yes(st, val) ELSE No

Rests(view) ==
    {[begin |-> b, end |-> view.end] : b \in view.begin .. view.end}

Outcomes(view) ==
    [ok : {TRUE}, st : Rests(view), val : Seq(Token)] \union {No}

\* m, with the tokens of val in front of its own.
Before(val, m) == IF m.ok THEN Yes(m.st, val \o m.val) ELSE No

----------------------------------------------------------------------------
\* The token a throw would look at; a body that never throws keeps none.
Looks(c) == \E k \in 1 .. Len(Body[c]) : Body[c][k].op = "throw"

LastOf(c, sum) ==
    IF Looks(c) /\ sum # <<>> THEN <<sum[Len(sum)]>> ELSE <<>>

\* What a parser that is awaited makes of a state.
Awaited(text, p, st) ==
    LET m == Meaning(text, p, st)
    IN  IF p \in Coroutine
        THEN [ok |-> m.ok, st |-> m.st, val |-> m.val, called |-> <<>>,
              throws |-> FALSE]
        ELSE Outcome(text, p, st)

\* A co_await, and the rest of the body; a while is come to again.
AfterAwait(text, c, k, last, o) ==
    LET i     == Body[c][k]
        taken == Taken(i, o)
        next  == IF i.op = "while" /\ o.val # <<>> THEN k ELSE k + 1
    IN  IF o.ok /\ ~ o.throws
        THEN Before(taken, MeaningFrom(text, c, next, o.st,
                                       LastOf(c, last \o taken)))
        ELSE No

\* The rule: an exception, of the body or of a parser, is a failure.
MeaningFromRule(text, c, k, st, last) ==
    LET i == Body[c][k]
    IN  CASE i.op \in Awaits ->
                AfterAwait(text, c, k, last, Awaited(text, i.parser, st))
          [] i.op = "throw" ->
                IF last # <<>> /\ Reads(text, last[1], i.texts)
                THEN No
                ELSE MeaningFrom(text, c, k + 1, st, last)
          [] i.op = "return" -> Handed(st, <<>>)

----------------------------------------------------------------------------
(***************************************************************************)
(* What makes the two constants a meaning: the equations, for all the      *)
(* views an input has and the tokens that can have been taken from it.     *)
(***************************************************************************)
Lasts(c, view) ==
    {<<>>} \union
    IF Looks(c)
    THEN {<<[from |-> a, to |-> b]>> : a, b \in view.begin .. view.end}
    ELSE {}

Solves(text, c, view) ==
    \A v \in Rests(view) :
        /\ Meaning(text, c, v) = MeaningFrom(text, c, 1, v, <<>>)
        /\ \A k \in 1 .. Len(Body[c]), last \in Lasts(c, view) :
            /\ MeaningFrom(text, c, k, v, last) \in Outcomes(v)
            /\ MeaningFrom(text, c, k, v, last)
                 = MeaningFromRule(text, c, k, v, last)

IsMeaning(inputs) == \A s \in inputs, c \in Coroutine : Solves(s.mem, c, s.view)

----------------------------------------------------------------------------
CombinatorRead ==
    INSTANCE ParserSpec WITH Roots <- EntryPoints, Inputs <- Sources

\* A coroutine is a parser like any other: what a read with it does to the
\* client is what its meaning does (that of the combinator of the same parsers
\* in the same order, in the instances checked), whichever co_await failed or
\* threw, and on whatever frame.
CoroutineImplementsCombinator == CombinatorRead!Spec

(***************************************************************************)
(* Why it does: what a frame has taken, with what is left of its body, is  *)
(* what the coroutine means on the state it was called with.               *)
(***************************************************************************)
\* The coroutine that frame i runs: the client's, or what its caller awaits.
Applied(i) ==
    IF i = 1 THEN reading[1]
             ELSE Body[stack[i - 1].coro][stack[i - 1].pc].parser

ToDo(text, f) ==
    CASE f.phase = "suspended" -> No
      [] f.phase = "final" ->
            IF f.is_good THEN Handed(f.state, f.value) ELSE No
      [] OTHER ->
            Before(f.sum, MeaningFrom(text, f.coro, f.pc, f.state,
                                      LastOf(f.coro, f.sum)))

Agrees(r, m) ==
    /\ Good(r) <=> m.ok
    /\ m.ok => r.st = m.st /\ r.val = m.val

\* Every frame is on the way to what its coroutine means, however many others
\* are suspended around it, and a result that is there is what was meant.
OnTheWay ==
    /\ reading \in {<<>>} \union {<<c>> : c \in EntryPoints}
    /\ \A i \in 1 .. Len(stack) :
        /\ stack[i].coro = Applied(i)
        /\ Meaning(mem, stack[i].coro, CallerState(i)) = ToDo(mem, stack[i])
    /\ ret # <<>> =>
        /\ Applied(Len(stack) + 1) \in Coroutine
        /\ Agrees(ret[1], Meaning(mem, Applied(Len(stack) + 1),
                                  CallerState(Len(stack) + 1)))

=============================================================================
