----------------------------- MODULE MCScanners -----------------------------
(***************************************************************************)
(* Every loop of the leaf parsers, on every short text.                    *)
(***************************************************************************)
EXTENDS Scanners, Texts

MCLeaves ==
    [ spaces |-> [op |-> "chars", arg |-> {"1", NewLine}],
      ones   |-> [op |-> "count", arg |-> {"1"}],
      either_literal |-> [op |-> "literal",
                          arg |-> << <<"1", "n">>, <<"1", "1">>, <<"n">> >>],
      no_literal |-> [op |-> "literal", arg |-> << <<>> >>],
      string |-> [op |-> "string", arg |-> <<>>],
      view   |-> [op |-> "view", arg |-> <<>>],
      line   |-> [op |-> "line", arg |-> <<>>] ]
MCScanner == DOMAIN MCLeaves

\* A size_t for texts shorter than 16 characters.
MCSizeValues == 16

TextLength == 3
LineLength == 5
StringLength == 5
MCSources ==
    {Input(t, NUL) :
        t \in TextsUpTo({"1", "n", Quote, Escape, NewLine, Return_}, TextLength)
            \union TextsUpTo({"1", NewLine, Return_}, LineLength)
            \union {<<Quote>> \o t : t \in TextsUpTo({"1", Quote, Escape},
                                                     StringLength - 1)}}

=============================================================================
