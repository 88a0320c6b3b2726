---------------------------- MODULE BaselineFold ----------------------------
(***************************************************************************)
(* add_w_fold, the parser add_w_baseline is measured against: fold_left of *)
(* a long and of ints behind a comma with whitespace around it.            *)
(*                                                                         *)
(* The loop is not that parser.  It reads its first number as an int too,  *)
(* and it takes only spaces for whitespace; what it may therefore do       *)
(* differently has a name below, and the rest it must do as the fold does. *)
(***************************************************************************)
EXTENDS Baseline, Grammars

CONSTANTS
    Int64,                     \* the range of a long, for parse_long
    Meaning(_, _, _),          \* a solution of the rules of PegRules
    MeaningFrom(_, _, _, _, _)

\* A long holds what an int does.
ASSUME TypesAssumption ==
    /\ Int32.signed = Int64.signed
    /\ Int32.max \in Nat /\ Int64.max \in Nat
    /\ Int32.max <= Int64.max

FoldGrammar ==
    [ long    |-> Leaf("charconv", Int64),
      int     |-> Leaf("charconv", Int32),
      ws      |-> Leaf("chars", Whitespace),
      comma   |-> Lit(","),
      comma_separator |-> Fallible("match", <<"ws", "comma", "ws">>),
      next    |-> Fallible("then", <<"comma_separator", "int">>),
      add_w_fold |-> Fallible("fold_left", <<"long", "next">>) ]

P == INSTANCE PegRules WITH
        Node <- DOMAIN FoldGrammar, Grammar <- FoldGrammar,
        stack <- <<>>, ret <- <<>>

\* The numbers of a value, without the parser that read them.
Numbers(val) == [i \in DOMAIN val |-> [from |-> val[i].from, to |-> val[i].to]]

FoldMeaning(text, c, view) ==
    LET m == Meaning(text, "add_w_fold", view)
    IN  [ok |-> m.ok, st |-> m.st, val |-> Numbers(m.val)]

FoldRead ==
    INSTANCE ParserSpec WITH
        Roots <- {"add_w_baseline"}, Inputs <- Sources, Meaning <- FoldMeaning,
        reading <- IF pc = "idle" THEN <<>> ELSE <<"add_w_baseline">>

\* The numbers, as the parsers that read them have them.
Tokens(numbers) ==
    [i \in DOMAIN numbers |->
        [leaf |-> IF i = 1 THEN "long" ELSE "int",
         from |-> numbers[i].from, to |-> numbers[i].to]]

----------------------------------------------------------------------------
(***************************************************************************)
(* Where the two parsers part, and how much they still agree on there.     *)
(***************************************************************************)
\* A first number that only a long holds.
OnlyLong(text, v) ==
    /\ CharconvParse(text, v, Int64).ok
    /\ ~ CharconvParse(text, v, Int32).ok

\* Whitespace other than a space, in a separator the rest begins with.
OtherSpaceBehind(text, rest) ==
    \E a \in rest.begin .. (rest.end - 1) :
        LET skipped == rest.begin .. (a - 1)
        IN  /\ text[a] \in Whitespace \ {" "}
            /\ \A b \in skipped : text[b] \in {" ", ","}
            /\ \A b, c \in skipped : text[b] = "," /\ text[c] = "," => b = c

\* The loop fails where the fold has a long.
FailsAtLong ==
    /\ OnlyLong(mem, cur)
    /\ got' = Nothing /\ UNCHANGED cur

\* The loop stops behind some of the fold's numbers, in front of such
\* whitespace, and what the fold makes of the rest are the other numbers.
StopsAtOtherSpace ==
    /\ got'.set /\ cur' \in P!Rests(cur)
    /\ OtherSpaceBehind(mem, cur')
    /\ Meaning(mem, "add_w_fold", cur)
         = P!Before(Tokens(got'.val),
                    MeaningFrom(mem, "add_w_fold", 2, cur', {}))

EndsEarly ==
    /\ pc # "idle" /\ pc' = "idle" /\ UNCHANGED mem
    /\ FailsAtLong \/ StopsAtOtherSpace

\* The loop adds what add_w_fold adds and leaves what it leaves: behind the
\* last number, in front of a separator that nothing follows.  Only at a number
\* or at whitespace that it does not know it may end early.
BaselineImplementsFold ==
    FoldRead!Init /\ [][FoldRead!Next \/ EndsEarly]_(FoldRead!vars)

----------------------------------------------------------------------------
(***************************************************************************)
(* Why it does: what is added, with what the fold makes of the rest behind *)
(* it, is what the fold makes of the client's state; and the loop is where *)
(* the separator's parsers would be.                                       *)
(***************************************************************************)
\* What the fold makes of the characters behind the last number.
Behind == MeaningFrom(mem, "add_w_fold", 2, Rest, {})

Spaces(from, to) == \A a \in from .. (to - 1) : mem[a] = " "

\* One comma between spaces has been skipped.
CommaSkipped ==
    \E c \in start .. (begin - 1) :
        /\ Spaces(start, c) /\ mem[c] = "," /\ Spaces(c + 1, begin)

\* What is added is the beginning of what add_w_fold adds, and the rest of it is
\* what the fold makes of the characters from parse_result_start on.
AddedSoFar ==
    /\ sum \in Seq([from : Int, to : Int])
    /\ pc # "idle" => got = Nothing
    /\ pc = "first" => start = cur.begin /\ begin = start /\ sum = <<>>
    /\ pc \notin {"idle", "first"} =>
        /\ sum # <<>> /\ cur.begin < start
        /\ Meaning(mem, "add_w_fold", cur) = P!Before(Tokens(sum), Behind)
    /\ pc \in {"before", "comma"} => Spaces(start, begin)
    /\ pc \in {"behind", "value"} => CommaSkipped
    /\ pc \in {"comma", "value"} => ~ AtSpace
    /\ pc = "done" => \/ Behind = P!Yes(Rest, <<>>)
                      \/ OtherSpaceBehind(mem, Rest)

=============================================================================
