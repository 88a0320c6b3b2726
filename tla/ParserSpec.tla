----------------------------- MODULE ParserSpec -----------------------------
(***************************************************************************)
(* What a parser of noam promises the client that reads with it, as one    *)
(* step: Meaning is what the parser r makes of a view of the characters,   *)
(* either a value and the rest of the view, or nothing.                    *)
(***************************************************************************)
EXTENDS Integers, Sequences

CONSTANTS
    Roots,             \* the parsers the client reads with
    Inputs,            \* the inputs: [mem, view]
    Meaning(_, _, _)   \* (characters, parser, view) -> [ok, st, val]

VARIABLES mem, cur, reading, got

vars == <<mem, cur, reading, got>>

Nothing == [set |-> FALSE, val |-> <<>>]

Init ==
    /\ \E s \in Inputs : mem = s.mem /\ cur = s.view
    /\ reading = <<>>
    /\ got = Nothing

Begin(r) ==
    /\ reading = <<>>
    /\ reading' = <<r>>
    /\ got' = Nothing
    /\ UNCHANGED <<mem, cur>>

End(r) ==
    LET m == Meaning(mem, r, cur)
    IN  /\ reading = <<r>>
        /\ reading' = <<>>
        /\ cur' = IF m.ok THEN m.st ELSE cur
        /\ got' = IF m.ok THEN [set |-> TRUE, val |-> m.val] ELSE Nothing
        /\ UNCHANGED mem

Next == \E r \in Roots : Begin(r) \/ End(r)

Spec == Init /\ [][Next]_vars

=============================================================================
