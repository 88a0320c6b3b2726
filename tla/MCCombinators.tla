--------------------------- MODULE MCCombinators ---------------------------
(***************************************************************************)
(* Instances for model checking Combinators: the repository's own parsers  *)
(* (module Grammars), and a grammar that applies every other combinator    *)
(* once.                                                                   *)
(***************************************************************************)
EXTENDS PegRules, Grammars, Texts, TLC

\* The meaning of each of the grammars below.
P == INSTANCE Peg WITH
        mem <- <<>>, cur <- NullState, stack <- <<>>, ret <- <<>>, got <- <<>>

\* Computed once for every view of every text.  (TLC's coverage does not look
\* behind the LETs of PegMeaning and PegMeaningFrom, where there is too much.)
ViewsOf(text) ==
    UNION {Rests(s.view) : s \in {s \in Sources : s.mem = text}}

Meanings ==
    [text \in {s.mem : s \in Sources} |->
        [v \in ViewsOf(text) |-> [n \in Node |-> P!Solution(text, n, v)]]]

MeaningsFrom ==
    [text \in {s.mem : s \in Sources} |->
        [v \in ViewsOf(text) |-> [n \in Node |->
            [k \in Onward(n) |-> P!SolutionFrom(text, n, k, v, {})]]]]

PegMeaning(text, n, st) == LET m == Meanings IN m[text][st][n]

PegMeaningFrom(text, n, k, st, keys) ==
    LET m == MeaningsFrom
    IN  IF keys = {} THEN m[text][st][n][k]
                     ELSE P!SolutionFrom(text, n, k, st, keys)

ListNode == DOMAIN ListGrammar
ListTextLength == 5
OtherListTextLength == 4   \* with a character that is in no list
ListSources ==
    {NullInput} \union
    {Input(t, NUL) : t \in TextsUpTo({"1", ",", " "}, ListTextLength) \union
                          TextsUpTo({"1", ",", " ", "x"}, OtherListTextLength)}

Member(key, val) == <<Quote>> \o key \o <<Quote, ":">> \o val
ObjectTexts ==
    {<<"{">> \o Member(k1, v1) \o s \o Member(k2, v2) \o e :
        k1 \in {<<>>, <<"a">>}, k2 \in {<<>>, <<"a">>},
        v1 \in {<<"1">>}, v2 \in {<<"n">>, << >>},
        s \in {<<",">>, <<" ", ",">>, <<>>}, e \in {<<"}">>, <<",", "}">>}}
JsonTextLength == 3
ArrayTextLength == 3   \* of the text behind the bracket that opens an array
JsonTexts ==
    ObjectTexts \union TextsUpTo({"[", "]", ",", "1"}, JsonTextLength) \union
    {<<"[">> \o t \o e : t \in TextsUpTo({"[", "]", ",", "1"}, ArrayTextLength),
                         e \in {<<>>, <<"]">>}}

(***************************************************************************)
(* Every other combinator and leaf: alternatives that share a prefix,      *)
(* lookahead on a parser that is always good and on one whose value is not *)
(* default-constructible, and the parsers of strings and lines.            *)
(***************************************************************************)
OtherGrammar ==
    [ int     |-> Leaf("charconv", IntType),
      int_ref |-> Boxed("map", <<"int">>),
      yes     |-> Leaf("pure", <<>>),
      point   |-> Leaf("require_prefix", <<",">>),
      one     |-> Leaf("test_prefix", <<"1">>),
      ones    |-> Leaf("count", {"1"}),
      never   |-> Leaf("fail", <<>>),
      line    |-> Leaf("line", <<>>),
      parse_string |-> Leaf("string", <<>>),
      pair    |-> Fallible("make", <<"int", "point", "int">>),
      item    |-> Fallible("join", <<"int", "point">>),
      pair_or_item |-> Fallible("either", <<"never", "pair", "item">>),
      peek_ref  |-> Boxed("lookahead", <<"int_ref">>),
      peek_ones |-> Always("lookahead", <<"ones">>),
      peeked    |-> Fallible("make", <<"peek_ref", "peek_ones", "item">>),
      try_pair  |-> Always("try_lookahead", <<"pair">>),
      is_yes    |-> Always("test", <<"yes">>),
      is_yes_ahead |-> Always("test_lookahead", <<"yes">>),
      probed  |-> Always("join", <<"is_yes", "is_yes_ahead", "try_pair", "one">>),
      quoted  |-> Fallible("either", <<"parse_string", "string">>),
      text    |-> Always("either", <<"quoted", "line">>),
      read_pair   |-> ReadOf("pair_or_item"),
      read_peeked |-> ReadOf("peeked"),
      read_probed |-> ReadOf("probed"),
      read_try    |-> ReadOf("try_pair"),
      read_text   |-> ReadOf("text") ]

OtherTextLength == 3
QuotedTextLength == 3   \* of the text behind a quote: an escape and a quote
OtherTexts ==
    TextsUpTo({"1", ",", Quote, Escape, NewLine, "n"}, OtherTextLength) \union
    {<<Quote>> \o t : t \in TextsUpTo({Quote, Escape, "n"}, QuotedTextLength)}

\* One program that has both: a client may read a value, and then a line.
ProgramGrammar == JsonGrammar @@ OtherGrammar
ProgramNode == DOMAIN ProgramGrammar
ProgramSources == {Input(t, NUL) : t \in JsonTexts \union OtherTexts}

(***************************************************************************)
(* What the proofs ask of a grammar holds of each of these: its loops are  *)
(* over parsers that consume, and it is not left-recursive.                *)
(***************************************************************************)
RECURSIVE GreatestConsuming(_), Reached(_, _)

GreatestConsuming(C) ==
    LET D == {n \in C : ~ AlwaysGood(n) /\ MustConsume(C, n)}
    IN  IF D = C THEN C ELSE GreatestConsuming(D)

Consumers == GreatestConsuming(Node)

Reached(C, L) ==
    LET M == L \union UNION {LeftCalls(C, k) : k \in L}
    IN  IF M = L THEN L ELSE Reached(C, M)

ASSUME GrammarsConsume ==
    /\ Consuming(Consumers) /\ LoopsConsume(Consumers)
    /\ NoLeftRecursion(Consumers,
            [n \in Node |-> Reached(Consumers, LeftCalls(Consumers, n))])

\* What Peg computes solves their equations.  Only a test of a parse_bool does
\* not tell whether its parser matched.
ASSUME GrammarsMean ==
    /\ NoQuoteBehind => IsMeaning(Sources)
    /\ \/ ProbesTell
       \/ \E n \in Node : Op(n) \in ProbeOps /\ Op(Kids(n)[1]) = "bool"

\* The parsers that end with the number they yield.
Enders == {n \in Node : Op(n) = "charconv"} \union ({"next"} \intersect Node)

ASSUME GrammarsEndWithValues == FoldsEndWithValues(Enders)

(***************************************************************************)
(* One leaf, or one combinator on a leaf, for a doc the code departs from. *)
(***************************************************************************)
LookaheadGrammar == [ int  |-> Leaf("charconv", IntType),
                      peek |-> Fallible("lookahead", <<"int">>),
                      read_peek |-> ReadOf("peek") ]
LookaheadNode == DOMAIN LookaheadGrammar
LookaheadSources == {Input(t, NUL) : t \in TextsUpTo({"1", "x"}, 2)}

TestGrammar == [ bool |-> Leaf("bool", <<>>),
                 test_bool |-> Always("test", <<"bool">>),
                 read_test |-> ReadOf("test_bool") ]
TestNode == DOMAIN TestGrammar
TestSources == {Input(t, NUL) : t \in {BoolLiterals[1], BoolLiterals[2], <<"x">>}}

ViewGrammar == [ view |-> Leaf("view", <<>>), read_view |-> ReadOf("view") ]
ViewNode == DOMAIN ViewGrammar
ViewSources ==
    {Input(<<Quote>> \o t, NUL) : t \in TextsUpTo({"1", Quote, Escape}, 3)}

\* Here the view is cut from a longer text, in which a quote comes next.
StringGrammar == [ string |-> Leaf("string", <<>>),
                   read_string |-> ReadOf("string") ]
StringNode == DOMAIN StringGrammar
StringSources == {Input(t, Quote) : t \in TextsUpTo({"1", Quote, Escape}, 3)}

=============================================================================
