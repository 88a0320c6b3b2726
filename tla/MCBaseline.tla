----------------------------- MODULE MCBaseline -----------------------------
(***************************************************************************)
(* Inputs for add_w_baseline, and the meaning of the fold it is measured   *)
(* against, computed once for every view of every text.                    *)
(***************************************************************************)
EXTENDS BaselineFold, Texts

R == INSTANCE Peg WITH
        Node <- DOMAIN FoldGrammar, Grammar <- FoldGrammar,
        stack <- <<>>, ret <- <<>>,
        mem <- <<>>, cur <- NullState, got <- <<>>

TextLength == 5
TabLength == 4   \* of the texts with whitespace that is no space
CutLength == 3   \* of the views cut from a text that goes on with a comma
MCSources ==
    {NullInput} \union
    {Input(t, NUL) : t \in TextsUpTo({"1", ",", " ", "x"}, TextLength)} \union
    {Input(t, NUL) : t \in TextsUpTo({"1", ",", " ", "\t"}, TabLength)} \union
    {Input(t, ",") : t \in TextsUpTo({"1", ",", " "}, CutLength)}

ViewsOf(text) ==
    UNION {P!Rests(s.view) : s \in {s \in Sources : s.mem = text}}

Meanings ==
    [text \in {s.mem : s \in Sources} |->
        [v \in ViewsOf(text) |->
            [n \in DOMAIN FoldGrammar |-> R!Solution(text, n, v)]]]

PegMeaning(text, n, st) == LET m == Meanings IN m[text][st][n]

PegMeaningFrom(text, n, k, st, keys) ==
    LET m == R!SolutionFrom(text, n, k, st, keys) IN m

\* What Peg computes solves the rules.
ASSUME FoldSolved == P!IsMeaning(Sources)

=============================================================================
