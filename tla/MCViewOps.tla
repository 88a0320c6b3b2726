----------------------------- MODULE MCViewOps -----------------------------
(***************************************************************************)
(* Two state objects on short arrays of signed characters, some of which   *)
(* hold a 0 in the middle.                                                 *)
(***************************************************************************)
EXTENDS ViewOps

CONSTANTS o1, o2

MCObject == {o1, o2}
TextLength == 3
MCArrays ==
    {Append(t, 0) : t \in UNION {[1 .. n -> {-1, 0, 1}] : n \in 0 .. TextLength}}
MCMaxCount == 4      \* one more than the longest text
MCMaxOvershoot == 2
MCMaxBehind == 2     \* room for a cut of positive size behind the array
MCSizeValues == 16

=============================================================================
