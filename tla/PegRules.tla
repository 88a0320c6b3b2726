------------------------------ MODULE PegRules ------------------------------
(***************************************************************************)
(* The meaning of a parser expression as a parsing expression grammar:     *)
(* what each combinator is documented to do with a view of the characters, *)
(* with no stack, no null states and no result types.                      *)
(*                                                                         *)
(* A meaning is any solution of the equations below, one for a parser n    *)
(* and one for what is left of n when its parsers in front of number k     *)
(* have been applied.  Nothing here is recursive: the equations relate two *)
(* constants.  Peg solves them by recursion.                               *)
(***************************************************************************)
EXTENDS Combinators

CONSTANTS
    Meaning(_, _, _),          \* (characters, parser, view)
    MeaningFrom(_, _, _, _, _) \* (characters, parser, k, view, keys so far)

Yes(st, val) == [ok |-> TRUE, st |-> st, val |-> val]
No == [ok |-> FALSE, st |-> NullState, val |-> <<>>]

\* What is left of a view when characters have been taken off its front.
Rests(view) ==
    {[begin |-> b, end |-> view.end] : b \in view.begin .. view.end}

\* What a parser makes of a view: a rest of it and a value, or nothing.
Outcomes(view) ==
    [ok : {TRUE}, st : Rests(view), val : Seq(Token)] \union {No}

\* m, with the tokens of val in front of its own.
Before(val, m) == IF m.ok THEN Yes(m.st, val \o m.val) ELSE No

----------------------------------------------------------------------------
\* The parsers whose values make the value of parsers in turn: those of map
\* and make are all arguments, enclose has the middle one, match none.
Valued(n) ==
    CASE Op(n) \in {"map", "make"} -> DOMAIN Kids(n)
      [] Op(n) = "enclose" -> {2}
      [] Op(n) \in {"join", "then"} -> {Len(Kids(n))}
      [] OTHER -> {}

\* The parsers of n in turn, from number k on.
InTurn(text, n, k, st) ==
    LET a == Meaning(text, Kids(n)[k], st)
    IN  CASE k > Len(Kids(n)) -> Yes(st, <<>>)
          [] k <= Len(Kids(n)) /\ a.ok ->
                Before(IF k \in Valued(n) THEN a.val ELSE <<>>,
                       MeaningFrom(text, n, k + 1, a.st, {}))
          [] OTHER -> No

\* The first parser of n that matches, from number k on.
FirstGood(text, n, k, st) ==
    LET a == Meaning(text, Kids(n)[k], st)
    IN  CASE k > Len(Kids(n)) -> No
          [] k <= Len(Kids(n)) /\ a.ok -> a
          [] OTHER -> MeaningFrom(text, n, k + 1, st, {})

\* Parser 2 of a fold, as often as it matches.
Repeated(text, n, st) ==
    LET a == Meaning(text, Kids(n)[2], st)
    IN  IF a.ok THEN Before(a.val, MeaningFrom(text, n, 2, a.st, {}))
                ELSE Yes(st, <<>>)

Fold(text, n, st) ==
    LET first == Meaning(text, Kids(n)[1], st)
    IN  IF first.ok THEN Before(first.val, Repeated(text, n, first.st)) ELSE No

----------------------------------------------------------------------------
(***************************************************************************)
(* Lists: elem (sep elem)*, or nothing.  An element of a map whose key is  *)
(* that of one in front of it adds nothing.                                *)
(***************************************************************************)
Elem(n) == IF Op(n) = "sequence" THEN 1 ELSE 2
Sep(n) == Elem(n) + 1

Known(text, n, keys, val) ==
    /\ Op(n) = "parse_map"
    /\ \E key \in keys : SameKey(text, key, KeyOf(val))

KeysWith(n, keys, val) ==
    IF Op(n) = "parse_map" THEN keys \union {KeyOf(val)} ELSE {}

\* An element that matched, and what follows it.
Element(text, n, keys, e) ==
    IF Known(text, n, keys, e.val)
    THEN MeaningFrom(text, n, Sep(n), e.st, keys)
    ELSE Before(e.val,
                MeaningFrom(text, n, Sep(n), e.st, KeysWith(n, keys, e.val)))

\* The element at next, if there is one: the list ends at st if not.
ElementAt(text, n, st, next, keys) ==
    LET e == Meaning(text, Kids(n)[Elem(n)], next)
    IN  IF e.ok THEN Element(text, n, keys, e) ELSE Yes(st, <<>>)

\* (sep elem)*: a separator that no element follows is left in the input.
Elements(text, n, st, keys) ==
    LET s == Meaning(text, Kids(n)[Sep(n)], st)
    IN  IF s.ok THEN ElementAt(text, n, st, s.st, keys) ELSE Yes(st, <<>>)

List(text, n, st) == ElementAt(text, n, st, st, {})

\* A list, and then the parser that closes it.
Closed(text, n, list) ==
    LET close == Meaning(text, Kids(n)[4], list.st)
    IN  IF list.ok /\ close.ok THEN Yes(close.st, list.val) ELSE No

Enclosed(text, n, st) ==
    LET open == Meaning(text, Kids(n)[1], st)
    IN  IF open.ok THEN Closed(text, n, List(text, n, open.st)) ELSE No

----------------------------------------------------------------------------
\* A combinator of one parser, which made p of st.
Bool(n, st, b) == IF b THEN Mark(n, st) ELSE <<>>

Unary(n, st, p) ==
    LET op == Op(n)
        seen == IF p.ok THEN Mark(n, st) \o p.val ELSE <<>>
        rest == IF p.ok THEN p.st ELSE st
    IN  CASE op \in ProbeOps -> Yes(st, Bool(n, st, p.ok))
          [] op = "test_then" -> Yes(rest, Bool(n, st, p.ok))
          [] op = "try_parse" -> Yes(rest, seen)
          [] op = "try_lookahead" -> Yes(st, seen)
          [] op = "lookahead" -> IF p.ok THEN Yes(st, p.val) ELSE No
          [] OTHER -> p

LeafMeaning(text, n, st) ==
    LET leaf == LeafResult(text, n, st)
    IN  IF leaf.set THEN Yes(leaf.st, leaf.val) ELSE No

\* The rules.
MeaningRule(text, n, st) ==
    CASE Op(n) \in LeafOps -> LeafMeaning(text, n, st)
      [] Op(n) \in ThreadOps -> InTurn(text, n, 1, st)
      [] Op(n) = "either" -> FirstGood(text, n, 1, st)
      [] Op(n) = "fold_left" -> Fold(text, n, st)
      [] Op(n) = "sequence" -> List(text, n, st)
      [] Op(n) \in DelimitedOps -> Enclosed(text, n, st)
      [] OTHER -> Unary(n, st, Meaning(text, Kids(n)[1], st))

MeaningFromRule(text, n, k, st, keys) ==
    CASE Op(n) \in ThreadOps -> InTurn(text, n, k, st)
      [] Op(n) = "either" -> FirstGood(text, n, k, st)
      [] Op(n) = "fold_left" -> Repeated(text, n, st)
      [] OTHER -> Elements(text, n, st, keys)

----------------------------------------------------------------------------
(***************************************************************************)
(* What makes the two constants a meaning: the equations, for all the      *)
(* views an input has.                                                     *)
(***************************************************************************)
\* The numbers k a parser can have come to.
Onward(n) ==
    CASE Op(n) \in ThreadOps \union {"either"} -> 1 .. (Len(Kids(n)) + 1)
      [] Op(n) = "fold_left" -> {2}
      [] Op(n) \in DelimitedOps \union {"sequence"} -> {Sep(n)}
      [] OTHER -> {}

\* The keys it can have met.
KeysIn(text, n, view) ==
    IF Op(n) = "parse_map"
    THEN SUBSET {KeyOf(Meaning(text, Kids(n)[2], v).val) : v \in Rests(view)}
    ELSE {{}}

Solves(text, n, view) ==
    \A v \in Rests(view) :
        /\ Meaning(text, n, v) \in Outcomes(v)
        /\ Meaning(text, n, v) = MeaningRule(text, n, v)
        /\ \A k \in Onward(n), keys \in KeysIn(text, n, view) :
            /\ MeaningFrom(text, n, k, v, keys) \in Outcomes(v)
            /\ MeaningFrom(text, n, k, v, keys)
                 = MeaningFromRule(text, n, k, v, keys)

IsMeaning(inputs) == \A s \in inputs, n \in Node : Solves(s.mem, n, s.view)

\* The parsers that are tested are true whenever they match.
ProbesTell ==
    \A n \in Node : Op(n) \in ProbeOps =>
        \A s \in Sources : \A v \in Rests(s.view) :
            LET m == Meaning(s.mem, Kids(n)[1], v)
            IN  m.ok => m.val # <<>>

----------------------------------------------------------------------------
(***************************************************************************)
(* parser::read, over the whole run of the combinators, implements the     *)
(* atomic read of ParserSpec.                                              *)
(***************************************************************************)
Reading == IF stack = <<>> THEN <<>> ELSE <<stack[1].node>>

ReadSpec ==
    INSTANCE ParserSpec WITH Inputs <- Sources, reading <- Reading,
                             got <- [set |-> got.set, val |-> got.val]

\* A read does to the client's state, and hands over, what the grammar means:
\* ordered choice, repetition, lists with separators and maps are the
\* documented ones, and no failed alternative leaves a trace.
ReadImplementsMeaning == ReadSpec!Spec

(***************************************************************************)
(* Why it does: what a call in progress has still to do, put behind what   *)
(* it has done, is what its parser means.                                  *)
(***************************************************************************)
ToDo(text, f) ==
    LET n == f.node
        op == Op(n)
    IN  CASE op \in LeafOps -> LeafMeaning(text, n, f.in)
          [] op \in ThreadOps -> Before(f.acc, InTurn(text, n, f.pc, f.arg))
          [] op = "either" -> FirstGood(text, n, f.pc, f.in)
          [] op = "fold_left" /\ f.pc = 1 ->
                Before(f.acc, Fold(text, n, f.arg))
          [] op = "fold_left" /\ f.pc # 1 ->
                Before(f.acc, Repeated(text, n, f.arg))
          [] op = "sequence" /\ f.pc = 1 ->
                Before(f.acc, ElementAt(text, n, f.st, f.arg, {}))
          [] op = "sequence" /\ f.pc # 1 ->
                Before(f.acc, Elements(text, n, f.arg, {}))
          [] op \in DelimitedOps /\ f.pc = 1 -> Enclosed(text, n, f.in)
          [] op \in DelimitedOps /\ f.pc = 2 ->
                Closed(text, n,
                       Before(f.acc, ElementAt(text, n, f.st, f.arg, f.keys)))
          [] op \in DelimitedOps /\ f.pc = 3 ->
                Closed(text, n, Before(f.acc, Elements(text, n, f.arg, f.keys)))
          [] op \in DelimitedOps /\ f.pc = 4 ->
                Closed(text, n, Yes(f.arg, f.acc))
          [] OTHER -> Unary(n, f.in, Meaning(text, Kids(n)[1], f.arg))

\* Where its states are: only an element behind a separator is applied to
\* another state than the local one, and only lists and parsers in turn move
\* that from the state they were given.
Settled(text, view, f) ==
    LET op == Op(f.node)
        start == f.st = f.in /\ f.arg = f.in
    IN  /\ op \notin ThreadOps \union DelimitedOps \union
                        {"fold_left", "sequence"} => start
        /\ op \in DelimitedOps \union {"fold_left"} /\ f.pc = 1 => start
        /\ op \in ThreadOps \union {"fold_left"} => f.st = f.arg
        /\ op = "sequence" /\ f.pc # 1 => f.st = f.arg
        /\ op \in DelimitedOps /\ f.pc \in {3, 4} => f.st = f.arg
        /\ f.keys \in KeysIn(text, f.node, view)

Agrees(r, m) ==
    /\ r.set = m.ok
    /\ m.ok => r.st = m.st /\ r.val = m.val
    /\ ~ m.ok => r.val = <<>>

OnTheWay ==
    /\ \A i \in DOMAIN stack :
        /\ Meaning(mem, stack[i].node, stack[i].in) = ToDo(mem, stack[i])
        /\ Settled(mem, cur, stack[i])
    /\ ret # NoResult => Agrees(ret, Meaning(mem, Returner, Top.arg))

=============================================================================
