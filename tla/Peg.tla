-------------------------------- MODULE Peg --------------------------------
(***************************************************************************)
(* The meaning of a grammar that is not left-recursive, by recursion over  *)
(* the lists of parsers and of their values.  It is written without the    *)
(* rules of PegRules, and solves them.                                     *)
(*                                                                         *)
(* RECURSIVE operators: for TLC's runs only.                               *)
(***************************************************************************)
EXTENDS Combinators

SX == INSTANCE SequencesExt

Yes(st, val) == [ok |-> TRUE, st |-> st, val |-> val]
No == [ok |-> FALSE, st |-> NullState, val |-> <<>>]

\* The values whose key has no equal in front of it, nor in keys.
FirstOfEachKey(text, keys, vals) ==
    LET same(v, key) == SameKey(text, key, KeyOf(v))
        place(v) == CHOOSE k \in DOMAIN vals : vals[k] = v
        front(v) == {KeyOf(vals[j]) : j \in 1 .. (place(v) - 1)}
        fresh(v) == \A key \in keys \union front(v) : ~ same(v, key)
    IN  SelectSeq(vals, fresh)

\* F(x), with x evaluated once.
With(x, F(_)) == CHOOSE y \in {F(v) : v \in {x}} : TRUE

Values(m) == Yes(m.st, SX!FlattenSeq(m.val))
Where(m, F(_)) == IF m.ok THEN F(m) ELSE No   \* F(m) when m matched

RECURSIVE Solution(_, _, _), InTurn(_, _, _), FirstGood(_, _, _), Many(_, _, _)

\* Parsers in turn: the list of their values.
InTurn(text, ps, st) ==
    IF ps = <<>>
    THEN Yes(st, <<>>)
    ELSE With(Solution(text, Head(ps), st), LAMBDA a :
            Where(a, LAMBDA a1 :
              With(InTurn(text, Tail(ps), a.st), LAMBDA b :
                Where(b, LAMBDA b1 : Yes(b.st, <<a.val>> \o b.val)))))

FirstGood(text, ps, st) ==
    IF ps = <<>>
    THEN No
    ELSE With(Solution(text, Head(ps), st), LAMBDA a :
            IF a.ok THEN a ELSE FirstGood(text, Tail(ps), st))

\* The parsers ps in turn, as often as they match: the last value of each turn.
Many(text, ps, st) ==
    With(InTurn(text, ps, st), LAMBDA turn :
        IF turn.ok
        THEN With(Many(text, ps, turn.st), LAMBDA more :
                Yes(more.st, <<turn.val[Len(ps)]>> \o more.val))
        ELSE Yes(st, <<>>))

\* first, then ps as often as they match.
AndMany(text, first, ps) ==
    With(Many(text, ps, first.st), LAMBDA more :
        Yes(more.st, <<first.val>> \o more.val))

\* elem (sep elem)*, or nothing.
List(text, elem, sep, st) ==
    With(Solution(text, elem, st), LAMBDA first :
        IF first.ok THEN AndMany(text, first, <<sep, elem>>) ELSE Yes(st, <<>>))

Enclosed(text, k, st) ==
    With(Solution(text, k[1], st), LAMBDA open : Where(open, LAMBDA o :
        With(List(text, k[2], k[3], o.st), LAMBDA list :
            With(Solution(text, k[4], list.st), LAMBDA close :
                Where(close, LAMBDA c : Yes(c.st, list.val))))))

Bool(n, st, b) == IF b THEN Mark(n, st) ELSE <<>>

\* A combinator of the one parser whose meaning is p.
Unary(n, st, p) ==
    LET op == Op(n)
        seen == IF p.ok THEN Mark(n, st) \o p.val ELSE <<>>
        rest == IF p.ok THEN p.st ELSE st
    IN  CASE op \in ProbeOps -> Yes(st, Bool(n, st, p.ok))
          [] op = "test_then" -> Yes(rest, Bool(n, st, p.ok))
          [] op = "try_parse" -> Yes(rest, seen)
          [] op = "try_lookahead" -> Yes(st, seen)
          [] op = "lookahead" -> IF p.ok THEN Yes(st, p.val) ELSE No
          [] OTHER -> p

\* The parsers whose values make that of a combinator of parsers in turn.
Kept(n) ==
    CASE Op(n) \in {"map", "make"} -> DOMAIN Kids(n)
      [] Op(n) = "enclose" -> {2}
      [] Op(n) \in {"join", "then"} -> {Len(Kids(n))}
      [] OTHER -> {}

\* Such a combinator, from parser k on: the values of those parsers are all.val.
Turns(n, k, all) ==
    LET kept(i) == IF i + k - 1 \in Kept(n) THEN all.val[i] ELSE <<>>
    IN  Where(all, LAMBDA a : Values(Yes(a.st, [i \in DOMAIN a.val |-> kept(i)])))

From(ps, k) == SubSeq(ps, k, Len(ps))

Solution(text, n, st) ==
    LET k  == Kids(n)
        op == Op(n)
        leaf == LeafResult(text, n, st)
        unique(m) == Yes(m.st, FirstOfEachKey(text, {}, m.val))
    IN  CASE op \in LeafOps ->
                IF leaf.set THEN Yes(leaf.st, leaf.val) ELSE No
          [] op \in ThreadOps ->
                With(InTurn(text, k, st), LAMBDA all : Turns(n, 1, all))
          [] op = "either" -> FirstGood(text, k, st)
          [] op = "sequence" -> Values(List(text, k[1], k[2], st))
          [] op = "fold_left" ->
                With(Solution(text, k[1], st), LAMBDA p : Where(p, LAMBDA q :
                    Values(AndMany(text, q, <<k[2]>>))))
          [] op = "delimited" ->
                With(Enclosed(text, k, st), LAMBDA m : Where(m, Values))
          [] op = "parse_map" ->
                With(Enclosed(text, k, st), LAMBDA m :
                    Where(m, LAMBDA q : Values(unique(q))))
          [] OTHER ->
                With(Solution(text, k[1], st), LAMBDA p : Unary(n, st, p))

\* What is left of n when the parsers in front of number k have been applied.
SolutionFrom(text, n, k, st, keys) ==
    LET ps == Kids(n)
        op == Op(n)
        unique(m) == Yes(m.st, FirstOfEachKey(text, keys, m.val))
    IN  CASE op \in ThreadOps ->
                With(InTurn(text, From(ps, k), st), LAMBDA all : Turns(n, k, all))
          [] op = "either" -> FirstGood(text, From(ps, k), st)
          [] op = "fold_left" -> Values(Many(text, <<ps[2]>>, st))
          [] op = "sequence" -> Values(Many(text, <<ps[2], ps[1]>>, st))
          [] op = "delimited" -> Values(Many(text, <<ps[3], ps[2]>>, st))
          [] op = "parse_map" ->
                With(Many(text, <<ps[3], ps[2]>>, st), LAMBDA m : Values(unique(m)))

=============================================================================
