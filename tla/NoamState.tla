----------------------------- MODULE NoamState -----------------------------
(***************************************************************************)
(* noam::state (include/noam/state.hpp), the nullable string view every    *)
(* parser of the library takes and returns.                                *)
(*                                                                         *)
(* Pointers are addresses: nullptr is 0, and the characters a pointer may  *)
(* refer to are the cells of a sequence text, so that text[a] is the       *)
(* character at address a.  A state is the pair of its pointers _begin     *)
(* and _end; nothing forces _begin <= _end, in the code as here.           *)
(***************************************************************************)
EXTENDS Integers, Sequences

NULLPTR == 0

\* Every pair of pointers a noam::state object can hold.
State == [begin : Int, end : Int]

NullState == [begin |-> NULLPTR, end |-> NULLPTR]

\* operator bool and good(): only _begin is looked at.
StateGood(st) == st.begin # NULLPTR

\* size(): negative when _begin has overshot _end.
Size(st) == st.end - st.begin

\* starts_with(prefix): the length test, then character by character.
StartsWith(text, st, prefix) ==
    /\ Size(st) >= Len(prefix)
    /\ \A i \in 1 .. Len(prefix) : text[st.begin + i - 1] = prefix[i]

=============================================================================
