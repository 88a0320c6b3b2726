------------------------------ MODULE Baseline ------------------------------
(***************************************************************************)
(* add_w_baseline of bench/bench.cpp: the loop over raw pointers that the  *)
(* combinators are measured against.  It sums a list of integers, and      *)
(* hands back the view behind the last of them; parse_result_start trails  *)
(* begin for that, which runs ahead over separators that may turn out to   *)
(* belong to nothing.                                                      *)
(***************************************************************************)
EXTENDS Intrinsics

CONSTANTS
    Sources,  \* the inputs: characters, and the view a client begins with
    Int32     \* the range of value: [signed, max], for from_chars

ASSUME SourcesAssumption ==
    \A s \in Sources :
        /\ s.view \in State
        /\ \/ s.view = NullState
           \/ 1 <= s.view.begin /\ s.view.begin <= s.view.end

VARIABLES
    mem,    \* the characters of the input
    cur,    \* the client's state_t, and sv during a read
    begin,  \* const char* begin
    start,  \* const char* parse_result_start
    sum,    \* the numbers added so far, as the characters they were read from
    pc,     \* where the loop is
    got     \* what the client's last read handed over

vars == <<mem, cur, begin, start, sum, pc, got>>

Nothing == [set |-> FALSE, val |-> <<>>]
Places == {"idle", "first", "before", "comma", "behind", "value", "done"}

Init ==
    /\ \E s \in Sources : mem = s.mem /\ cur = s.view
    /\ begin = NULLPTR /\ start = NULLPTR
    /\ sum = <<>>
    /\ pc = "idle"
    /\ got = Nothing

\* parser::read calls the function on a copy of the client's state.
Read ==
    /\ pc = "idle"
    /\ begin' = cur.begin
    /\ start' = cur.begin
    /\ sum' = <<>>
    /\ pc' = "first"
    /\ got' = Nothing
    /\ UNCHANGED <<mem, cur>>

----------------------------------------------------------------------------
FromChars == CharconvParse(mem, [begin |-> begin, end |-> cur.end], Int32)

\* Mutant: the number is assigned, not added.
TakeAssigned(r) ==
    /\ sum' = <<[from |-> r.from, to |-> r.to]>>
    /\ begin' = r.rest
    /\ start' = r.rest
    /\ pc' = "before"

\* A number has been read: it is added, and both pointers move behind it.
Take(r) ==
    /\ sum' = Append(sum, [from |-> r.from, to |-> r.to])
    /\ begin' = r.rest
    /\ start' = r.rest
    /\ pc' = "before"

\* return {}: the state of the result is null, and read leaves cur alone.
FirstValue ==
    /\ pc = "first"
    /\ \E r \in {FromChars} :
        \/ r.ok /\ Take(r)
        \/ ~ r.ok /\ pc' = "idle" /\ UNCHANGED <<begin, start, sum>>
    /\ UNCHANGED <<mem, cur, got>>

\* Mutant: the end of the view is not looked at.
AtCommaUnbounded == mem[begin] = ","
\* Mutant: the loop stays where it is.
PastZero == begin

AtSpace == begin < cur.end /\ mem[begin] = " "
AtComma == begin # cur.end /\ mem[begin] = ","
Past == begin + 1

\* while (begin < end && *begin == ' ') begin++
Space ==
    /\ pc \in {"before", "behind"}
    /\ AtSpace
    /\ begin' = Past
    /\ UNCHANGED <<mem, cur, start, sum, pc, got>>

SpaceEnd ==
    /\ pc \in {"before", "behind"}
    /\ ~ AtSpace
    /\ pc' = IF pc = "before" THEN "comma" ELSE "value"
    /\ UNCHANGED <<mem, cur, begin, start, sum, got>>

Comma ==
    /\ pc = "comma"
    /\ IF AtComma
       THEN begin' = Past /\ pc' = "behind"
       ELSE pc' = "done" /\ UNCHANGED begin
    /\ UNCHANGED <<mem, cur, start, sum, got>>

NextValue ==
    /\ pc = "value"
    /\ \E r \in {FromChars} :
        \/ r.ok /\ Take(r)
        \/ ~ r.ok /\ pc' = "done" /\ UNCHANGED <<begin, start, sum>>
    /\ UNCHANGED <<mem, cur, got>>

----------------------------------------------------------------------------
\* Mutant: the rest begins where the loop gave up.
RestAtBegin == [begin |-> begin, end |-> cur.end]

\* state_t {parse_result_start, end}
Rest == [begin |-> start, end |-> cur.end]

Return ==
    /\ pc = "done"
    /\ cur' = IF StateGood(Rest) THEN Rest ELSE cur
    /\ got' = [set |-> StateGood(Rest), val |-> sum]
    /\ pc' = "idle"
    /\ UNCHANGED <<mem, begin, start, sum>>

Work == FirstValue \/ Space \/ SpaceEnd \/ Comma \/ NextValue \/ Return

Next == Read \/ Work

Spec == Init /\ [][Next]_vars

\* The loop goes on until it returns; the client may stop reading.
FairSpec == Spec /\ WF_vars(Work)

----------------------------------------------------------------------------
(***************************************************************************)
(* Properties.                                                             *)
(***************************************************************************)
TypeOK ==
    /\ cur \in State
    /\ begin \in Int /\ start \in Int
    /\ pc \in Places

\* The client's state is a rest of the view the input began with.
ViewSound ==
    \E s \in Sources :
        /\ mem = s.mem
        /\ s.view.begin <= cur.begin
        /\ cur.begin <= cur.end
        /\ cur.end = s.view.end

\* While the loop runs, sv.data() <= parse_result_start <= begin <= end: none
\* of the pointers the loop compares and reads through leaves the view.
PointersOrdered ==
    pc # "idle" =>
        /\ cur.begin <= start
        /\ start <= begin
        /\ begin <= cur.end

Skipped == start .. (begin - 1)

\* What the loop has run ahead over, and would give back, is a part of one
\* separator: spaces, and a comma at most once, so no number is dropped.
SkippedIsSeparator ==
    pc # "idle" =>
        /\ \A a \in Skipped : mem[a] \in {" ", ","}
        /\ \A a, b \in Skipped : mem[a] = "," /\ mem[b] = "," => a = b
        /\ pc = "first" => begin = start
        /\ pc \in {"before", "comma"} => \A a \in Skipped : mem[a] = " "

IInv == TypeOK /\ ViewSound /\ PointersOrdered /\ SkippedIsSeparator

\* Every read returns.
ReadReturns == pc # "idle" ~> pc = "idle"

=============================================================================
