---------------------------- MODULE MCCoroutine ----------------------------
(***************************************************************************)
(* The coroutines of bench.cpp and readme.md, make_w_coro, and bodies that *)
(* throw, each next to the combinator it is to be equal to.                *)
(***************************************************************************)
EXTENDS CoroutineMeaning, Grammars, Texts

\* The parsers the bodies await, as the grammar they are.
P == INSTANCE Peg WITH
        Grammar <- AwaitGrammar, Node <- DOMAIN AwaitGrammar, Sources <- {},
        mem <- <<>>, cur <- NullState, stack <- <<>>,
        ret <- <<>>, got <- <<>>

TooLarge == {<<"1", "1">>}

MCBody ==
    [ add_w_try_parse |-> AddWithTryParse,
      add_w_test_then |-> AddWithTestThen,
      parse_int  |-> ParseInt,
      parse_pair |-> ParsePair,
      make_three |-> MakeWithCoro,
      \* throws an exception of its own when the number is too large
      checked    |-> <<Await("int"), ThrowIf(TooLarge), CoReturn>>,
      checked_pair |-> <<Await("checked"), Await("next"), CoReturn>>,
      \* awaits a map whose function throws when the number is too large
      unguarded  |-> <<Await("checked_int"), CoReturn>> ]

Twin ==
    [ add_w_try_parse |-> "int_sum", add_w_test_then |-> "int_sum",
      parse_int |-> "int", parse_pair |-> "pair", make_three |-> "three",
      checked |-> "small_int", checked_pair |-> "small_pair",
      unguarded |-> "small_int" ]

MCCoroutines == DOMAIN MCBody
Throwers == {"checked", "unguarded"}

TextLength == 5        \* of digits and commas: three numbers
SpacedTextLength == 4  \* with spaces
MCSources ==
    {NullInput} \union
    {Input(t, NUL) : t \in TextsUpTo({"1", ","}, TextLength)
        \union TextsUpTo({"1", ",", " "}, SpacedTextLength)
        \union {<<"{">> \o a \o s \o b \o e :
                    a \in {<<"1">>, <<"1", " ">>, <<",">>},
                    s \in {<<",">>, <<",", " ">>, <<>>},
                    b \in {<<"1">>, <<"1", "1">>, <<>>},
                    e \in {<<"}">>, <<" ", "}", " ">>, <<>>}}}

Text(text, val) == SubSeq(text, val[1].from, val[1].to - 1)

\* The tokens of a value, whichever leaf parsed them.
Bare(val) == [i \in DOMAIN val |-> [from |-> val[i].from, to |-> val[i].to]]

\* What the awaited parsers do.  checked_int is map(parse_int, f), for an f
\* that throws when the number is too large; test_then calls its function with
\* the value of its parser.
Called(text, p, m, st) ==
    IF p = "next_test" /\ m.val # <<>>
    THEN Bare(P!Solution(text, "next", st).val)
    ELSE <<>>

OutcomeOf(text, p, st) ==
    LET m == P!Solution(text, IF p = "checked_int" THEN "int" ELSE p, st)
    IN  [ok |-> m.ok, st |-> m.st, val |-> Bare(m.val),
         called |-> Called(text, p, m, st),
         throws |-> /\ p = "checked_int" /\ m.ok
                    /\ Text(text, m.val) \in TooLarge]

\* The same, computed once for every view of every text.
Calls ==
    UNION {{<<s.mem, i.parser, v>> : v \in Rests(s.view)} :
                s \in MCSources, i \in PlainAwaits}

OutcomeTable == [c \in Calls |-> OutcomeOf(c[1], c[2], c[3])]

MCOutcome(text, p, st) == LET o == OutcomeTable IN o[<<text, p, st>>]

TwinOf(text, c, view) ==
    LET m == P!Solution(text, Twin[c], view)
    IN  [ok |-> m.ok, st |-> m.st, val |-> Bare(m.val)]

\* What a coroutine is to mean: what its combinator does.
TwinTable ==
    [call \in UNION {{<<s.mem, c, v>> : c \in MCCoroutines,
                                       v \in Rests(s.view)} : s \in MCSources}
        |-> TwinOf(call[1], call[2], call[3])]

TwinMeaning(text, c, view) == LET m == TwinTable IN m[<<text, c, view>>]

\* What is left of a body: the rule, which refers to MeaningFrom, which every
\* configuration says is this operator.
TwinFrom(text, c, k, view, last) ==
    LET rule == MeaningFromRule(text, c, k, view, last) IN rule

\* So the combinators solve the equations of the coroutines' bodies.
ASSUME TwinsSolve == IsMeaning(Sources)

=============================================================================
