------------------------------- MODULE Texts -------------------------------
(***************************************************************************)
(* The inputs of the model-checking instances: texts, and the view of one  *)
(* that a client begins with.                                              *)
(***************************************************************************)
EXTENDS NoamState

\* The byte behind a text is part of the buffer and not of the client's view.
Input(text, past) ==
    [mem |-> Append(text, past), view |-> [begin |-> 1, end |-> Len(text) + 1]]

TextsUpTo(chars, n) == UNION {[1 .. k -> chars] : k \in 0 .. n}

NUL == "NUL"

\* state_t{}, or the state of a default-constructed std::string_view.
NullInput == [mem |-> <<>>, view |-> NullState]

=============================================================================
