------------------------------ MODULE Scanners ------------------------------
(***************************************************************************)
(* The loops of the leaf parsers (include/noam/util/intrinsic_types.hpp    *)
(* and util/literal.hpp), one character per step, each run by a client's   *)
(* read.  Intrinsics says where these loops stop; here they run, with the  *)
(* local variables and the unsigned arithmetic the code has, and with a    *)
(* record of the last character they looked at.                            *)
(***************************************************************************)
EXTENDS Intrinsics

CONSTANTS
    Scanner,    \* the leaf parsers the client reads with
    Leaves,     \* what each is: [op, arg]
    Sources,    \* the inputs: [mem, view]
    SizeValues  \* the number of values of size_t

Op(r) == Leaves[r].op
Arg(r) == Leaves[r].arg
ScanOps == {"literal", "chars", "count", "string", "view", "line"}

ASSUME ScannerAssumption ==
    /\ DOMAIN Leaves = Scanner
    /\ \A r \in Scanner : Op(r) \in ScanOps
    /\ \A r \in Scanner : Op(r) = "literal" =>
        /\ Len(Arg(r)) \in Nat
        /\ \A k \in 1 .. Len(Arg(r)) : Len(Arg(r)[k]) \in Nat

ASSUME SizeAssumption ==
    /\ SizeValues \in Nat \ {0}
    /\ \A s \in Sources :
        /\ s.view \in State
        /\ s.view.begin <= s.view.end
        /\ Size(s.view) < SizeValues

SizeT(n) == n % SizeValues

----------------------------------------------------------------------------
VARIABLES
    mem,      \* the characters of the input
    cur,      \* the client's state_t
    reading,  \* the parser that runs, if one does
    at,       \* "open" before its first test, "loop" inside its loop
    st,       \* its local state_t
    i,        \* its index
    size,     \* the size_t it compares the index with
    lit,      \* the literal of the fold it is at
    looked,   \* the address it has dereferenced last, NULLPTR for none
    got       \* what the client's last read handed over

locals == <<at, st, i, size, lit>>
vars == <<mem, cur, reading, locals, looked, got>>

Nothing == [set |-> FALSE, val |-> <<>>]
Running(op, where) == reading # <<>> /\ Op(reading[1]) = op /\ at = where
Arg1 == Arg(reading[1])

Init ==
    /\ \E s \in Sources : mem = s.mem /\ cur = s.view
    /\ reading = <<>>
    /\ at = "open" /\ st = cur /\ i = 0 /\ size = 0 /\ lit = 1
    /\ looked = NULLPTR
    /\ got = Nothing

\* read: the parser runs on a copy of the client's state.
Start(r) ==
    /\ reading = <<>>
    /\ reading' = <<r>>
    /\ at' = IF Op(r) \in {"string", "view"} THEN "open" ELSE "loop"
    /\ st' = cur
    /\ i' = 0
    /\ size' = SizeT(Size(cur))
    /\ lit' = 1
    /\ looked' = NULLPTR
    /\ got' = Nothing
    /\ UNCHANGED <<mem, cur>>

Done(client, result) ==
    /\ reading' = <<>>
    /\ cur' = client
    /\ got' = result
    /\ at' = "open" /\ st' = client /\ i' = 0 /\ size' = 0 /\ lit' = 1
    /\ UNCHANGED mem

\* return {rest, value}: the value is made of the characters [from, to).
Succeed(rest, from, to) ==
    Done([begin |-> rest, end |-> cur.end],
         [set |-> TRUE,
          val |-> <<[leaf |-> reading[1], from |-> from, to |-> to]>>])

Fail == Done(cur, Nothing)

\* The loop goes on with the index j.
Turn(j) ==
    /\ i' = SizeT(j)
    /\ UNCHANGED <<mem, cur, reading, at, st, size, lit, got>>

\* The loop goes on with the state rest.
Advance(rest) ==
    /\ st' = rest /\ at' = "loop"
    /\ UNCHANGED <<mem, cur, reading, i, size, lit, got>>

RemovePrefix(n) == [st EXCEPT !.begin = st.begin + n]
Here == mem[st.begin + i]
LooksAt(a) == looked' = a
LooksNowhere == UNCHANGED looked

----------------------------------------------------------------------------
\* zero_or_more_chars: compares pointers.
CharsNext ==
    /\ Running("chars", "loop")
    /\ st.begin < st.end
    /\ mem[st.begin] \in Arg1
    /\ LooksAt(st.begin)
    /\ Advance(RemovePrefix(1))

CharsEnd ==
    /\ Running("chars", "loop")
    /\ \/ st.begin >= st.end /\ LooksNowhere
       \/ st.begin < st.end /\ mem[st.begin] \notin Arg1 /\ LooksAt(st.begin)
    /\ Succeed(st.begin, cur.begin, st.begin)

\* Mutant: the bound is one too large.
InSizePast == i <= size

\* count_chars, line_parser: the index is below the size.
InSize == i < size

\* count_chars: compares a size_t index with the size.
CountNext ==
    /\ Running("count", "loop")
    /\ InSize /\ Here \in Arg1
    /\ LooksAt(st.begin + i)
    /\ Turn(i + 1)

CountEnd ==
    /\ Running("count", "loop")
    /\ \/ ~ InSize /\ LooksNowhere
       \/ InSize /\ Here \notin Arg1 /\ LooksAt(st.begin + i)
    /\ Succeed(st.begin + i, st.begin, st.begin + i)

----------------------------------------------------------------------------
(***************************************************************************)
(* line_parser.  The line is substr(0, line_size), which is cut to what    *)
(* there is.                                                               *)
(***************************************************************************)
SubstrEnd(s, start, count) ==
    LET max == SizeT(Size(s) - start)
    IN  s.begin + start + IF max < count THEN max ELSE count

LineSize == IF i > 0 /\ mem[st.begin + i - 1] = Return_ THEN i - 1 ELSE i

LineNext ==
    /\ Running("line", "loop")
    /\ InSize /\ Here # NewLine
    /\ LooksAt(st.begin + i)
    /\ Turn(i + 1)

LineBreak ==
    /\ Running("line", "loop")
    /\ InSize /\ Here = NewLine
    /\ LooksAt(st.begin + i)
    /\ Succeed(st.begin + i + 1, st.begin, SubstrEnd(st, 0, LineSize))

LineEnd ==
    /\ Running("line", "loop")
    /\ ~ InSize
    /\ LooksNowhere
    /\ Succeed(st.begin + size, st.begin, st.end)

----------------------------------------------------------------------------
(***************************************************************************)
(* string_parser.  The loop keeps the index below size - 1, an escape      *)
(* sequence takes two characters, and the character behind the loop is     *)
(* looked at whatever the index is.                                        *)
(***************************************************************************)
StringOpen ==
    /\ Running("string", "open")
    /\ \/ /\ Size(st) < 2 /\ LooksNowhere /\ Fail
       \/ /\ Size(st) >= 2 /\ mem[st.begin] # Quote
          /\ LooksAt(st.begin) /\ Fail
       \/ /\ Size(st) >= 2 /\ mem[st.begin] = Quote
          /\ LooksAt(st.begin)
          /\ at' = "loop" /\ i' = 1 /\ size' = SizeT(Size(st) - 1)
          /\ UNCHANGED <<mem, cur, reading, st, lit, got>>

StringNext ==
    /\ Running("string", "loop")
    /\ InSize /\ Here \notin {Escape, Quote}
    /\ LooksAt(st.begin + i)
    /\ Turn(i + 1)

\* Mutant: only the backslash is skipped.
EscapeLengthOne == 1
\* Mutant: the index is not advanced.
EscapeLengthZero == 0

EscapeLength == 2

StringEscape ==
    /\ Running("string", "loop")
    /\ InSize /\ Here = Escape
    /\ LooksAt(st.begin + i + 1)
    /\ IF mem[st.begin + i + 1] \in EscapeCodes
       THEN Turn(i + EscapeLength)
       ELSE Fail

StringEnd ==
    /\ Running("string", "loop")
    /\ ~ InSize \/ Here = Quote
    /\ LooksAt(st.begin + i)
    /\ IF Here = Quote
       THEN Succeed(st.begin + i + 1, st.begin + 1, st.begin + i)
       ELSE Fail

----------------------------------------------------------------------------
(***************************************************************************)
(* view_parser<'"', '"', '\\'>: check_and_update of the opening quote, and *)
(* then of the closing one or an escape character, on a state that         *)
(* shrinks.                                                                *)
(***************************************************************************)
Check(s, c) == s.begin < s.end /\ mem[s.begin] = c

ViewOpen ==
    /\ Running("view", "open")
    /\ IF Size(st) > 0 THEN LooksAt(st.begin) ELSE LooksNowhere
    /\ IF Check(st, Quote) THEN Advance(RemovePrefix(1)) ELSE Fail

ViewNext ==
    /\ Running("view", "loop")
    /\ Size(st) > 0 /\ mem[st.begin] \notin {Quote, Escape}
    /\ LooksAt(st.begin)
    /\ Advance(RemovePrefix(1))

ViewEscape ==
    /\ Running("view", "loop")
    /\ Size(st) > 0 /\ mem[st.begin] = Escape
    /\ LET behind == RemovePrefix(1)
       IN  /\ LooksAt(IF Size(behind) > 0 THEN behind.begin ELSE st.begin)
           /\ Advance(IF Check(behind, Quote) THEN RemovePrefix(2) ELSE behind)

ViewEnd ==
    /\ Running("view", "loop")
    /\ \/ /\ Size(st) <= 0 /\ LooksNowhere /\ Fail
       \/ /\ Size(st) > 0 /\ mem[st.begin] = Quote
          /\ LooksAt(st.begin)
          /\ Succeed(st.begin + 1, cur.begin + 1, st.begin)

----------------------------------------------------------------------------
(***************************************************************************)
(* literal and its kin: the fold (Literals.check_and_update(st) || ...),   *)
(* each a length test and a loop over the characters of the literal.       *)
(***************************************************************************)
Fits(l) == Size(st) >= Len(l)

NextLiteral ==
    /\ lit' = lit + 1 /\ i' = 0
    /\ UNCHANGED <<mem, cur, reading, at, st, size, got>>

LiteralNext ==
    /\ Running("literal", "loop")
    /\ lit <= Len(Arg1)
    /\ LET l == Arg1[lit]
       IN  \/ ~ Fits(l) /\ LooksNowhere /\ NextLiteral
           \/ /\ Fits(l) /\ i < Len(l)
              /\ LooksAt(st.begin + i)
              /\ IF Here = l[i + 1] THEN Turn(i + 1) ELSE NextLiteral

LiteralEnd ==
    /\ Running("literal", "loop")
    /\ LooksNowhere
    /\ \/ /\ lit <= Len(Arg1) /\ Fits(Arg1[lit]) /\ i = Len(Arg1[lit])
          /\ Succeed(st.begin + i, st.begin, st.begin + i)
       \/ lit > Len(Arg1) /\ Fail

----------------------------------------------------------------------------
Work ==
    \/ CharsNext \/ CharsEnd
    \/ CountNext \/ CountEnd
    \/ LineNext \/ LineBreak \/ LineEnd
    \/ StringOpen \/ StringNext \/ StringEscape \/ StringEnd
    \/ ViewOpen \/ ViewNext \/ ViewEscape \/ ViewEnd
    \/ LiteralNext \/ LiteralEnd

Next == Work \/ \E r \in Scanner : Start(r)

Spec == Init /\ [][Next]_vars

\* A loop goes on until it ends; the client may stop reading.
FairSpec == Spec /\ WF_vars(Work)

----------------------------------------------------------------------------
(***************************************************************************)
(* Properties.                                                             *)
(***************************************************************************)

\* The byte behind a view that string_parser may be given is not a quote: the
\* condition under which it stays in the view.
NoQuoteBehind ==
    (\E r \in Scanner : Op(r) = "string") =>
        \A s \in Sources : s.mem[s.view.end] # Quote

\* Variables keep their types, and a client's view the end of the input's.
TypeOK ==
    /\ reading = <<>> \/ \E r \in Scanner : reading = <<r>>
    /\ at \in {"open", "loop"}
    /\ cur \in State /\ st \in State
    /\ i \in Nat /\ size \in Nat /\ lit \in Nat \ {0}
    /\ looked \in Int
    /\ \E s \in Sources : mem = s.mem /\ cur.end = s.view.end
                          /\ s.view.begin <= cur.begin

\* Where a loop can be: the local state is a rest of the client's, and an
\* index is at most one past the last character it may stand for - two in
\* string_parser, whose bound is one short and whose steps are two long.
IndexInView ==
    LET op == Op(reading[1])
    IN  reading # <<>> =>
        /\ st.end = cur.end
        /\ cur.begin <= st.begin /\ st.begin <= st.end
        /\ op \in {"chars", "view"} => i = 0
        /\ op # "chars" /\ (op = "view" => at = "open") => st = cur
        /\ op \in {"count", "line"} =>
                size = Size(cur) /\ i <= size
        /\ op = "string" /\ at = "loop" =>
                size = Size(cur) - 1 /\ 1 <= i /\ i <= size + 1
        /\ op = "literal" /\ lit <= Len(Arg1) =>
                i <= Len(Arg1[lit]) /\ (i = 0 \/ Fits(Arg1[lit]))

\* The character a loop has looked at last is one of the view it was given, or
\* the one behind it for string_parser.
LookedInView ==
    reading # <<>> /\ looked # NULLPTR =>
        /\ cur.begin <= looked
        /\ \/ looked < cur.end
           \/ looked = cur.end /\ Op(reading[1]) = "string"

\* What a loop has gone past is what Intrinsics says it goes past, and not one
\* of the places where it is to stop; string_parser is never half way through
\* an escape sequence, and view_parser never at a quote it should skip.
PassedRight ==
    LET op == Op(reading[1])
        passed == cur.begin .. (st.begin + i - 1)
        inside == (cur.begin + 1) .. (st.begin + i - 1)
    IN  reading # <<>> =>
        /\ op \in {"chars", "count"} => \A a \in passed : mem[a] \in Arg1
        /\ op = "line" => \A a \in passed : mem[a] # NewLine
        /\ op = "string" /\ at = "loop" =>
                /\ mem[cur.begin] = Quote
                /\ ~ SecondOfEscape(mem, cur, cur.begin + i)
                /\ \A a \in inside :
                    /\ a \notin StringStops(mem, cur)
                    /\ SecondOfEscape(mem, cur, a) => mem[a] \in EscapeCodes
        /\ op = "view" /\ at = "loop" =>
                /\ mem[cur.begin] = Quote /\ cur.begin < st.begin
                /\ st.begin < st.end /\ mem[st.begin] = Quote
                        => mem[st.begin - 1] # Escape
                /\ \A a \in inside : a \notin ViewStops(mem, cur)
        /\ op = "literal" =>
                /\ lit <= Len(Arg1) + 1
                /\ \A k \in 1 .. (lit - 1) : ~ StartsWith(mem, cur, Arg1[k])
                /\ lit <= Len(Arg1) =>
                        \A k \in 1 .. i : mem[cur.begin + k - 1] = Arg1[lit][k]

\* A view is not overshot, unless a quote behind it made parse_string do so.
ViewSound == cur.begin <= cur.end

IInv == TypeOK /\ IndexInView /\ LookedInView /\ PassedRight /\ ViewSound

\* No parser looks in front of the view it was given or past its end, except
\* that string_parser may look at the one character behind it.
ReadsInView ==
    [][ Work /\ looked' # NULLPTR
        => /\ cur.begin <= looked'
           /\ \/ looked' < cur.end
              \/ looked' = cur.end /\ Op(reading[1]) = "string" ]_vars

\* Every scan comes to an end.
ScanReturns == reading # <<>> ~> reading = <<>>

(***************************************************************************)
(* The outcomes of Intrinsics, as one step of ParserSpec.                  *)
(***************************************************************************)
Outcome(text, r, view) ==
    LET op  == Op(r)
        arg == Arg(r)
    IN  CASE op = "literal"           -> LiteralParse(text, view, arg)
          [] op \in {"chars", "count"} -> CharsParse(text, view, arg)
          [] op = "string"            -> StringParse(text, view)
          [] op = "view"              -> ViewParse(text, view)
          [] OTHER                    -> LineParse(text, view)

OutcomeMeaning(text, r, view) ==
    LET o == Outcome(text, r, view)
    IN  [ok  |-> o.ok,
         st  |-> [begin |-> o.rest, end |-> view.end],
         val |-> <<[leaf |-> r, from |-> o.from, to |-> o.to]>>]

ScanRead ==
    INSTANCE ParserSpec WITH Roots <- Scanner, Inputs <- Sources,
                             Meaning <- OutcomeMeaning

\* The loops compute the outcomes: each stops at the character Intrinsics says
\* it stops at, whatever it skips on the way, and hands over that piece.
ScansImplementOutcomes == ScanRead!Spec

=============================================================================
