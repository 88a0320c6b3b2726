----------------------------- MODULE Coroutine -----------------------------
(***************************************************************************)
(* Parsers written as C++20 coroutines: a function (state_t) -> result<T>  *)
(* whose body says co_await to a parser and co_return to a value           *)
(* (include/noam/co_await.hpp, coupling/parse_promise.hpp and              *)
(* coupling/await_parser.hpp).                                             *)
(*                                                                         *)
(* A call makes a coroutine frame, suspended before its body begins.  The  *)
(* object the call returns, parse_promise_to_result, resumes it when it is *)
(* converted to result<T>, takes the result from the promise and destroys  *)
(* the frame.  In between, co_await parses from the promise's state, and a *)
(* parse that fails suspends the frame for good.                           *)
(*                                                                         *)
(* A parser that is itself a coroutine runs on a frame of its own, inside  *)
(* await_ready of the one that awaits it; any other parser is one step     *)
(* with the outcome Outcome.                                               *)
(***************************************************************************)
EXTENDS NoamState

CONSTANTS
    Coroutine,        \* the parsers that are coroutines
    EntryPoints,      \* those of them the client reads with
    Body,             \* their bodies: sequences of instructions
    Sources,          \* the inputs: [mem, view]
    Outcome(_, _, _)  \* (characters, parser, state) ->
                      \*   [ok, st, val, called, throws]

(***************************************************************************)
(* An instruction is what the body does from one co_await to the next:     *)
(*   await   x = co_await parser, or just co_await parser when it does not *)
(*           keep the value                                                *)
(*   while   while (x = co_await parser) add x, for a parser whose value   *)
(*           is a bool or an optional: empty, or a token in front of what  *)
(*           is added                                                      *)
(*   throw   throw an exception if the last token reads like one of texts  *)
(*   return  co_return what was kept and added                             *)
(***************************************************************************)
Awaits == {"await", "while"}

ASSUME BodyAssumption ==
    /\ EntryPoints \subseteq Coroutine
    /\ DOMAIN Body = Coroutine
    /\ \A c \in Coroutine :
        /\ Len(Body[c]) \in Nat \ {0}
        /\ \A k \in 1 .. Len(Body[c]) :
            /\ Body[c][k].op \in Awaits \union {"throw", "return"}
            /\ Body[c][k].op = "return" <=> k = Len(Body[c])
            /\ Body[c][k].op = "await" => Body[c][k].keeps \in BOOLEAN

\* Where a value was parsed from.
Token == [from : Int, to : Int]

\* What an instruction adds to the local variables: what the body keeps, or a
\* function it passed to the parser was called with (test_then's func, with sum
\* captured by reference).
Taken(i, o) ==
    CASE i.op = "await" /\ ~ i.keeps -> o.called
      [] i.op = "await" /\ i.keeps -> o.called \o o.val
      [] i.op = "while" /\ o.val # <<>> -> o.called \o Tail(o.val)
      [] OTHER -> <<>>

\* The tokens of s follow each other, and lie between two positions.
InOrder(s, from, to) ==
    /\ from <= to
    /\ \A k \in 1 .. Len(s) :
        /\ from <= s[k].from /\ s[k].from <= s[k].to /\ s[k].to <= to
        /\ k < Len(s) => s[k].to <= s[k + 1].from

\* The instructions that await a parser that is not a coroutine itself.
PlainAwaits ==
    {i \in UNION {{Body[c][k] : k \in 1 .. Len(Body[c])} : c \in Coroutine} :
        i.op \in Awaits /\ i.parser \notin Coroutine}

ASSUME SourceAssumption ==
    \A s \in Sources : s.view \in State /\ s.view.begin <= s.view.end

\* What a body relies on: a parser hands back a rest of the state it got, and
\* what the body takes from it was parsed in between.
ASSUME OutcomeAssumption ==
    \A s \in Sources, i \in PlainAwaits :
        \A b \in s.view.begin .. s.view.end :
            LET o == Outcome(s.mem, i.parser,
                             [begin |-> b, end |-> s.view.end])
            IN  o.ok => /\ o.st \in State
                        /\ o.st.begin \in b .. s.view.end
                        /\ o.st.end = s.view.end
                        /\ Taken(i, o) \in Seq(Token)
                        /\ InOrder(Taken(i, o), b, o.st.begin)

----------------------------------------------------------------------------
VARIABLES
    mem,      \* the characters of the input
    cur,      \* the client's state_t
    reading,  \* the parser the client reads with, if it does
    stack,    \* the coroutine frames, outermost first
    ret,      \* <<r>>, r the result a call has just returned, or <<>>
    got,      \* what the client's last read handed over
    alive     \* the program has not called std::terminate

vars == <<mem, cur, reading, stack, ret, got, alive>>

(***************************************************************************)
(* A result<T> is good when its state is not null.                         *)
(***************************************************************************)
NullResult == [st |-> NullState, val |-> <<>>]
Good(r) == StateGood(r.st)

Nothing == [set |-> FALSE, val |-> <<>>]

(***************************************************************************)
(* A coroutine frame: the promise (state, value, is_good), where its body  *)
(* is (pc) and what it holds in local variables (sum), and whether it is   *)
(* at its initial suspend point, running, inside await_ready on a          *)
(* coroutine above it, suspended at a co_await, or at its final suspend    *)
(* point.                                                                  *)
(***************************************************************************)
Phases == {"initial", "running", "awaiting", "suspended", "final"}

NewFrame(c, st) ==
    [coro |-> c, phase |-> "initial", pc |-> 1, sum |-> <<>>,
     state |-> st, value |-> <<>>, is_good |-> FALSE]

Top == stack[Len(stack)]
Instr == Body[Top.coro][Top.pc]
In(phase) == alive /\ stack # <<>> /\ Top.phase = phase

Become(f) == stack' = [stack EXCEPT ![Len(stack)] = f]
Push(c, st) == stack' = Append(stack, NewFrame(c, st))

Init ==
    /\ \E s \in Sources : mem = s.mem /\ cur = s.view
    /\ reading = <<>>
    /\ stack = <<>>
    /\ ret = <<>>
    /\ got = Nothing
    /\ alive = TRUE

----------------------------------------------------------------------------
\* parser::read(st): the coroutine is called on a copy of the client's state.
Read(c) ==
    /\ alive /\ reading = <<>>
    /\ reading' = <<c>>
    /\ got' = Nothing
    /\ Push(c, cur)
    /\ UNCHANGED <<mem, cur, ret, alive>>

\* operator result<T>: handle.resume().
Resume ==
    /\ In("initial")
    /\ Become([Top EXCEPT !.phase = "running"])
    /\ UNCHANGED <<mem, cur, reading, ret, got, alive>>

----------------------------------------------------------------------------
(***************************************************************************)
(* co_await.  await_ready parses a copy of the promise's state, and        *)
(* stores the new one only if the parse succeeded.                         *)
(***************************************************************************)

\* Mutant: the state is updated before the result is looked at.
PromiseStateUnchecked(f, o) == o.st
\* Mutant: it is not updated.
PromiseStateStale(f, o) == f.state

PromiseState(f, o) == IF o.ok THEN o.st ELSE f.state

\* Mutant: the value is assigned to what should add it.
LocalsAssigned(f, o) == IF o.val = <<>> THEN f.sum ELSE Taken(Instr, o)

Locals(f, o) == f.sum \o Taken(Instr, o)

\* Mutant: the end of a loop is its beginning.
NextPcAgain(f, o) == IF Instr.op = "while" THEN f.pc ELSE f.pc + 1

NextPc(f, o) ==
    IF Instr.op = "while" /\ o.val # <<>> THEN f.pc ELSE f.pc + 1

\* await_ready, and what follows: await_resume, or suspended for ever.
Awaiting(f, o) ==
    IF o.ok
    THEN [f EXCEPT !.phase = "running", !.state = PromiseState(f, o),
                   !.sum = Locals(f, o), !.pc = NextPc(f, o)]
    ELSE [f EXCEPT !.phase = "suspended", !.state = PromiseState(f, o)]

AwaitParser ==
    /\ In("running") /\ ret = <<>>
    /\ Instr.op \in Awaits
    /\ Instr.parser \notin Coroutine
    /\ \E o \in {Outcome(mem, Instr.parser, Top.state)} :
        ~ o.throws /\ Become(Awaiting(Top, o))
    /\ UNCHANGED <<mem, cur, reading, ret, got, alive>>

\* await_ready is noexcept: an exception out of the parser ends the program.
AwaitTerminates ==
    /\ In("running") /\ ret = <<>>
    /\ Instr.op \in Awaits
    /\ Instr.parser \notin Coroutine
    /\ Outcome(mem, Instr.parser, Top.state).throws
    /\ alive' = FALSE
    /\ UNCHANGED <<mem, cur, reading, stack, ret, got>>

AwaitCoroutine ==
    /\ In("running")
    /\ Instr.op \in Awaits
    /\ Instr.parser \in Coroutine
    /\ stack' = Append([stack EXCEPT ![Len(stack)].phase = "awaiting"],
                       NewFrame(Instr.parser, Top.state))
    /\ UNCHANGED <<mem, cur, reading, ret, got, alive>>

\* The awaited coroutine's result is there, and its frame is gone.
AwaitReturns ==
    /\ In("awaiting") /\ ret # <<>>
    /\ LET r == ret[1]
       IN  Become(Awaiting(Top, [ok |-> Good(r), st |-> r.st, val |-> r.val,
                                 called |-> <<>>]))
    /\ ret' = <<>>
    /\ UNCHANGED <<mem, cur, reading, got, alive>>

----------------------------------------------------------------------------
(***************************************************************************)
(* How a body ends: co_return stores the value; an exception is caught by  *)
(* unhandled_exception, which says is_good = false.                        *)
(***************************************************************************)
Reads(text, token, texts) ==
    SubSeq(text, token.from, token.to - 1) \in texts

Throws ==
    /\ Top.sum # <<>>
    /\ Reads(mem, Top.sum[Len(Top.sum)], Instr.texts)

UnhandledException ==
    /\ In("running")
    /\ Instr.op = "throw" /\ Throws
    /\ Become([Top EXCEPT !.is_good = FALSE, !.phase = "final"])
    /\ UNCHANGED <<mem, cur, reading, ret, got, alive>>

NoException ==
    /\ In("running")
    /\ Instr.op = "throw" /\ ~ Throws
    /\ Become([Top EXCEPT !.pc = Top.pc + 1])
    /\ UNCHANGED <<mem, cur, reading, ret, got, alive>>

ReturnValue ==
    /\ In("running")
    /\ Instr.op = "return"
    /\ Become([Top EXCEPT !.value = Top.sum, !.is_good = TRUE,
                          !.phase = "final"])
    /\ UNCHANGED <<mem, cur, reading, ret, got, alive>>

\* Mutant: the coroutine is taken to have succeeded.
PromiseResultUnchecked(f) == [st |-> f.state, val |-> f.value]

PromiseResult(f) ==
    IF f.is_good THEN [st |-> f.state, val |-> f.value] ELSE NullResult

\* resume() has returned: the result is built from the promise, and the
\* destructor of parse_promise_to_result destroys the frame.
Return ==
    /\ In("suspended") \/ In("final")
    /\ ret' = <<PromiseResult(Top)>>
    /\ stack' = SubSeq(stack, 1, Len(stack) - 1)
    /\ UNCHANGED <<mem, cur, reading, got, alive>>

\* Mutant: the client's state is assigned whatever the result is.
FinishReadUnchecked ==
    /\ alive /\ reading # <<>> /\ stack = <<>> /\ ret # <<>>
    /\ cur' = ret[1].st
    /\ got' = IF Good(ret[1]) THEN [set |-> TRUE, val |-> ret[1].val]
                              ELSE Nothing
    /\ reading' = <<>>
    /\ ret' = <<>>
    /\ UNCHANGED <<mem, stack, alive>>

FinishRead ==
    /\ alive /\ reading # <<>> /\ stack = <<>> /\ ret # <<>>
    /\ cur' = IF Good(ret[1]) THEN ret[1].st ELSE cur
    /\ got' = IF Good(ret[1]) THEN [set |-> TRUE, val |-> ret[1].val]
                              ELSE Nothing
    /\ reading' = <<>>
    /\ ret' = <<>>
    /\ UNCHANGED <<mem, stack, alive>>

\* The steps of a call: one thread, and nothing runs in between.
Work ==
    \/ Resume \/ AwaitParser \/ AwaitTerminates
    \/ AwaitCoroutine \/ AwaitReturns
    \/ UnhandledException \/ NoException \/ ReturnValue
    \/ Return \/ FinishRead

Next == Work \/ \E c \in EntryPoints : Read(c)

Spec == Init /\ [][Next]_vars

\* A call goes on until it returns; the client may stop reading.
FairSpec == Spec /\ WF_vars(Work)

----------------------------------------------------------------------------
(***************************************************************************)
(* Properties.                                                             *)
(***************************************************************************)
Within(st, v) ==
    /\ v.begin <= st.begin
    /\ st.begin <= st.end
    /\ st.end = v.end

Result == [st : State, val : Seq(Token)]

Frame == [coro : Coroutine, phase : Phases, pc : Nat, sum : Seq(Token),
          state : State, value : Seq(Token), is_good : BOOLEAN]

\* Frames and states keep their types, and a body never runs past its return.
TypeOK ==
    /\ alive \in BOOLEAN
    /\ cur \in State
    /\ stack \in Seq(Frame)
    /\ \A i \in 1 .. Len(stack) : stack[i].pc \in 1 .. Len(Body[stack[i].coro])
    /\ ret \in Seq(Result) /\ Len(ret) <= 1
    /\ got \in [set : BOOLEAN, val : Seq(Token)]
    /\ reading = <<>> => stack = <<>> /\ ret = <<>>

\* A promise only says it is good at the end of its body, so a coroutine that
\* was suspended or threw never hands over the state it had reached; and the
\* value it then holds is what the body had taken by the end.
GoodOnlyAtEnd ==
    \A i \in 1 .. Len(stack) :
        stack[i].is_good =>
            stack[i].phase = "final" /\ stack[i].value = stack[i].sum

\* Every frame but the one on top waits in await_ready for the coroutine above
\* it, and a result is only there for a frame that waits.
OnlyTopRuns ==
    /\ \A i \in 1 .. Len(stack) :
        /\ i < Len(stack) => stack[i].phase = "awaiting"
        /\ stack[i].phase = "awaiting" =>
                Body[stack[i].coro][stack[i].pc].op \in Awaits
    /\ stack # <<>> => (Top.phase = "awaiting" <=> ret # <<>>)

\* The state frame i was called with: the client's, or its caller's.
CallerState(i) == IF i = 1 THEN cur ELSE stack[i - 1].state

\* The states of the frames are rests of each other, outside in, and what a
\* call returns is a rest of what it was given: a nested coroutine that fails
\* half way does not move the one that awaits it.
PromisesNested ==
    /\ \A i \in 1 .. Len(stack) :
        /\ Within(stack[i].state, CallerState(i))
        /\ Within(stack[i].state, cur)
    /\ ret # <<>> /\ Good(ret[1]) =>
            Within(ret[1].st, CallerState(Len(stack) + 1))

\* The client's state is a rest of the view the input began with.
ViewSound ==
    \E s \in Sources : mem = s.mem /\ Within(cur, s.view)

IInv == TypeOK /\ GoodOnlyAtEnd /\ OnlyTopRuns /\ PromisesNested /\ ViewSound

\* What a body has kept or added was parsed in order, nothing of it twice, all
\* of it between the state it was called with and the one the next co_await
\* parses from, and so is the value it hands to its caller: a value that
\* test_then passed to its func is one the promise has moved past.
TakenOnce ==
    /\ \A i \in 1 .. Len(stack) :
        InOrder(stack[i].sum, CallerState(i).begin, stack[i].state.begin)
    /\ ret # <<>> /\ Good(ret[1]) =>
            InOrder(ret[1].val, CallerState(Len(stack) + 1).begin,
                    ret[1].st.begin)

\* What unhandled_exception is there for: an exception cancels the parse, and
\* not the program.
ExceptionsCancel == alive

Client ==
    INSTANCE Cursor WITH Views <- {s.view : s \in Sources}, view <- cur,
                         busy <- reading # <<>>, success <- got.set

\* A client that reads with a coroutine never loses its place, whichever
\* co_await failed or threw and on whatever frame: a read leaves a rest of the
\* view and hands over a value, or does neither.
CoroutineImplementsCursor == Client!Spec

\* Every read returns, or an exception has ended the program.
ReadReturns == reading # <<>> ~> (reading = <<>> \/ ~ alive)

=============================================================================
