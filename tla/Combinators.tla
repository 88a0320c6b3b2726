---------------------------- MODULE Combinators ----------------------------
(***************************************************************************)
(* The parser combinators of noam (include/noam/combinators.hpp,           *)
(* util/combinator_types.hpp, operators.hpp) and parser::read, run the way *)
(* the compiled program runs them: a parser built from others calls their  *)
(* parse member on a state_t passed by value, looks at the result it gets  *)
(* back, and returns a result of its own.                                  *)
(*                                                                         *)
(* A parser expression is a node of Grammar.  stack is the call stack, one *)
(* frame per parse call in progress, and ret the result a call has just    *)
(* returned to the frame on top.  cur is the client's state_t, the one     *)
(* parser::read updates, and got the result the last read handed over,     *)
(* dropped when the next one begins.                                       *)
(***************************************************************************)
EXTENDS Intrinsics

CONSTANTS
    Node,     \* the parser objects of the program
    Grammar,  \* what each is built from: [op, kids, arg, good, boxed]
    Sources   \* the inputs: characters, and the view a client begins with

LeafOps == {"pure", "fail", "literal", "charconv", "chars", "count", "bool",
            "string", "view", "line", "test_prefix", "require_prefix"}
ThreadOps == {"map", "match", "join", "enclose", "then", "make"}
ProbeOps == {"test", "test_lookahead"}
TryOps == {"try_parse", "try_lookahead"}
DelimitedOps == {"delimited", "parse_map"}
Ops == LeafOps \union ThreadOps \union ProbeOps \union TryOps
           \union DelimitedOps \union {"either", "fold_left", "sequence",
           "test_then", "lookahead", "recurse", "read"}

Op(n) == Grammar[n].op
Kids(n) == Grammar[n].kids
AlwaysGood(n) == Grammar[n].good
Roots == {n \in Node : Op(n) = "read"}

(***************************************************************************)
(* The static side of a parser expression: how many parsers a combinator   *)
(* is built from, and whether its result type is always_good, as the       *)
(* templates compute it.                                                   *)
(***************************************************************************)
Arity(op) ==
    CASE op \in LeafOps -> {0}
      [] op \in ProbeOps \union TryOps \union
                {"map", "test_then", "lookahead", "recurse", "read"} -> {1}
      [] op \in {"then", "fold_left", "sequence"} -> {2}
      [] op = "enclose" -> {3}
      [] op \in DelimitedOps -> {4}
      [] OTHER -> 1 .. 8

AlwaysGoodRule(n) ==
    LET kids == Kids(n)
        all  == \A i \in DOMAIN kids : AlwaysGood(kids[i])
        op   == Op(n)
    IN  CASE op \in {"pure", "chars", "count", "line", "test_prefix",
                     "sequence", "test_then"} \union ProbeOps \union TryOps
                                  -> TRUE
          [] op = "either"        -> \E i \in DOMAIN kids : AlwaysGood(kids[i])
          [] op \in {"map", "match", "join", "lookahead"} -> all
          [] op = "make"          -> Len(kids) = 1 /\ all
          [] OTHER                -> FALSE

\* lookahead returns the very result type of its parser.
SameResultType(n, k) ==
    AlwaysGood(n) = AlwaysGood(k) /\ Grammar[n].boxed = Grammar[k].boxed

\* The parsers test and test_lookahead compile for are those of a bool.
BoolOps == {"pure", "bool", "test_prefix", "test_then"} \union ProbeOps

Descriptor(d) ==
    /\ DOMAIN d = {"op", "kids", "arg", "good", "boxed"}
    /\ d.op \in Ops
    /\ d.kids \in Seq(Node)
    /\ Len(d.kids) \in Arity(d.op)
    /\ d.good \in BOOLEAN
    /\ d.boxed \in BOOLEAN
    /\ d.op = "literal" =>
        Len(d.arg) \in Nat /\ \A k \in 1 .. Len(d.arg) : Len(d.arg[k]) \in Nat
    /\ d.op \in {"test_prefix", "require_prefix"} => Len(d.arg) \in Nat

ASSUME GrammarAssumption ==
    /\ DOMAIN Grammar = Node
    /\ \A n \in Node :
        /\ Descriptor(Grammar[n])
        /\ AlwaysGood(n) = AlwaysGoodRule(n)
        /\ \A i \in DOMAIN Kids(n) : Kids(n)[i] \notin Roots
        /\ Op(n) = "lookahead" => SameResultType(n, Kids(n)[1])
        /\ Op(n) \in ProbeOps => Op(Kids(n)[1]) \in BoolOps

ASSUME SourcesAssumption ==
    \A s \in Sources :
        /\ s.view \in State
        /\ \/ s.view = NullState
           \/ 1 <= s.view.begin /\ s.view.begin <= s.view.end

----------------------------------------------------------------------------
(***************************************************************************)
(* Results.  A pure_result is always good; a result<T> of a T that can be  *)
(* default-constructed is good when its state is not null; any other       *)
(* result<T> is good when its optional<T> is engaged.  set records that a  *)
(* parser put a value in the result, which only the last kind stores.      *)
(* A value is the list of the tokens it was made from.                     *)
(***************************************************************************)
Token == [leaf : Node, from : Int, to : Int]
Kinds == {"pure", "result", "optional"}
Result == [kind : Kinds, st : State, val : Seq(Token), set : BOOLEAN]
NoResult == [kind |-> "none", st |-> NullState, val |-> <<>>, set |-> FALSE]

Kind(n) == IF AlwaysGood(n) THEN "pure"
           ELSE IF Grammar[n].boxed THEN "optional" ELSE "result"

Make(n, st, val) == [kind |-> Kind(n), st |-> st, val |-> val, set |-> TRUE]
Failed(n) == [kind |-> Kind(n), st |-> NullState, val |-> <<>>, set |-> FALSE]

Good(r) == CASE r.kind = "pure"     -> TRUE
             [] r.kind = "optional" -> r.set
             [] OTHER               -> StateGood(r.st)

----------------------------------------------------------------------------
VARIABLES
    mem,    \* the characters of the input
    cur,    \* the client's state_t
    stack,  \* the parse calls in progress, outermost first
    ret,    \* the result just returned to the frame on top, or NoResult
    got     \* the result of the client's last completed read

vars == <<mem, cur, stack, ret, got>>

(***************************************************************************)
(* A frame: the parser, the state it was applied to, its local state st,   *)
(* the state it applies the parser Kids[pc] to, and the value so far;      *)
(* keys are the keys a parse_map has emplaced.                             *)
(***************************************************************************)
Frame == [node : Node, in : State, st : State, arg : State,
          pc : Nat, acc : Seq(Token), keys : SUBSET Seq(Token)]

Enter(n, st) == [node |-> n, in |-> st, st |-> st, arg |-> st,
                 pc |-> 1, acc |-> <<>>, keys |-> {}]

\* The frame f, about to apply its parser number pc to arg.
At(f, pc, st, arg, acc, keys) ==
    [node |-> f.node, in |-> f.in, st |-> st, arg |-> arg,
     pc |-> pc, acc |-> acc, keys |-> keys]

Top == stack[Len(stack)]
InCall(ops) == stack # <<>> /\ Op(Top.node) \in ops /\ ret = NoResult
Resumed(ops) == stack # <<>> /\ Op(Top.node) \in ops /\ ret # NoResult

Push(f) == stack' = Append(stack, f) /\ ret' = NoResult
Continue(f) == stack' = [stack EXCEPT ![Len(stack)] = f] /\ ret' = NoResult
Return(r) == stack' = SubSeq(stack, 1, Len(stack) - 1) /\ ret' = r

Init ==
    /\ \E s \in Sources : mem = s.mem /\ cur = s.view
    /\ stack = <<>>
    /\ ret = NoResult
    /\ got = NoResult

----------------------------------------------------------------------------
(***************************************************************************)
(* Leaves: one call computes the outcome (module Intrinsics).  A result    *)
(* that is always good and found nothing leaves the state as it was.       *)
(***************************************************************************)
BoolLiterals == << <<"t", "r", "u", "e">>, <<"f", "a", "l", "s", "e">> >>

LeafOutcome(text, n, st) ==
    LET arg == Grammar[n].arg
        op  == Op(n)
    IN  CASE op = "literal"        -> LiteralParse(text, st, arg)
          [] op = "charconv"       -> CharconvParse(text, st, arg)
          [] op \in {"chars", "count"} -> CharsParse(text, st, arg)
          [] op = "bool"           -> LiteralParse(text, st, BoolLiterals)
          [] op = "string"         -> StringParse(text, st)
          [] op = "view"           -> ViewParse(text, st)
          [] op = "line"           -> LineParse(text, st)
          [] op \in {"test_prefix", "require_prefix"} ->
                LiteralParse(text, st, <<arg>>)
          [] op = "pure"           -> Matched(st.begin, st.begin, st.begin)
          [] OTHER                 -> NoMatch

\* A bool is true when its value holds a token, an optional engaged.
Mark(n, st) == <<[leaf |-> n, from |-> st.begin, to |-> st.begin]>>

LeafValue(text, n, st, o) ==
    IF Op(n) = "bool" /\ text[st.begin] = "f"
    THEN <<>>
    ELSE <<[leaf |-> n, from |-> o.from, to |-> o.to]>>

LeafResult(text, n, st) ==
    LET o == LeafOutcome(text, n, st)
    IN  CASE o.ok -> Make(n, [begin |-> o.rest, end |-> st.end],
                          LeafValue(text, n, st, o))
          [] ~ o.ok /\ AlwaysGood(n) -> Make(n, st, <<>>)
          [] OTHER -> Failed(n)

ParseLeaf ==
    /\ InCall(LeafOps)
    /\ Return(LeafResult(mem, Top.node, Top.in))
    /\ UNCHANGED <<mem, cur, got>>

\* A combinator applies the next of its parsers.
Call ==
    /\ InCall(Ops \ LeafOps)
    /\ Push(Enter(Kids(Top.node)[Top.pc], Top.arg))
    /\ UNCHANGED <<mem, cur, got>>

----------------------------------------------------------------------------
(***************************************************************************)
(* map, match, join, enclose, make and operator>>: the parsers in turn,    *)
(* each on the state the one before it left, until one fails.  What each   *)
(* keeps of the values: map and make all of them, enclose the middle one,  *)
(* join and >> the last, match none.                                       *)
(***************************************************************************)
Keeps(n, i) ==
    CASE Op(n) \in {"map", "make"} -> TRUE
      [] Op(n) = "enclose" -> i = 2
      [] Op(n) \in {"join", "then"} -> i = Len(Kids(n))
      [] OTHER -> FALSE

Gathered(f) == f.acc \o IF Keeps(f.node, f.pc) THEN ret.val ELSE <<>>

\* Mutant: one parser too many.
ThreadStepPastEnd(f) ==
    CASE ~ Good(ret) -> Return(Failed(f.node))
      [] Good(ret) /\ f.pc <= Len(Kids(f.node)) ->
            Continue(At(f, f.pc + 1, ret.st, ret.st, Gathered(f), {}))
      [] OTHER -> Return(Make(f.node, ret.st, Gathered(f)))

ThreadStep(f) ==
    CASE ~ Good(ret) -> Return(Failed(f.node))
      [] Good(ret) /\ f.pc < Len(Kids(f.node)) ->
            Continue(At(f, f.pc + 1, ret.st, ret.st, Gathered(f), {}))
      [] OTHER -> Return(Make(f.node, ret.st, Gathered(f)))

ResumeThread ==
    /\ Resumed(ThreadOps)
    /\ ThreadStep(Top)
    /\ UNCHANGED <<mem, cur, got>>

\* Mutant: the alternative that failed is tried again.
EitherStepAgain(f) ==
    CASE Good(ret) -> Return(Make(f.node, ret.st, ret.val))
      [] ~ Good(ret) /\ f.pc < Len(Kids(f.node)) ->
            Continue(At(f, f.pc, f.st, f.st, <<>>, {}))
      [] OTHER -> Return(Failed(f.node))

\* Mutant: the last return is {st, val} whether or not a parser set val.
EitherStepUnchecked(f) ==
    CASE Good(ret) -> Return(Make(f.node, ret.st, ret.val))
      [] ~ Good(ret) /\ f.pc < Len(Kids(f.node)) ->
            Continue(At(f, f.pc + 1, f.st, f.st, <<>>, {}))
      [] OTHER -> Return([Failed(f.node) EXCEPT !.st = f.st])

\* either: each parser on the state either was given, until one is good.
EitherStep(f) ==
    CASE Good(ret) -> Return(Make(f.node, ret.st, ret.val))
      [] ~ Good(ret) /\ f.pc < Len(Kids(f.node)) ->
            Continue(At(f, f.pc + 1, f.st, f.st, <<>>, {}))
      [] OTHER -> Return(Failed(f.node))

ResumeEither ==
    /\ Resumed({"either"})
    /\ EitherStep(Top)
    /\ UNCHANGED <<mem, cur, got>>

\* Mutant: the parser that ends the fold fails it.
FoldStepFails(f) ==
    IF Good(ret)
    THEN Continue(At(f, 2, ret.st, ret.st, f.acc \o ret.val, {}))
    ELSE Return(Failed(f.node))

\* fold_left(initial, rest, op): parser 1, then parser 2 while it is good.
FoldStep(f) ==
    CASE Good(ret) -> Continue(At(f, 2, ret.st, ret.st, f.acc \o ret.val, {}))
      [] ~ Good(ret) /\ f.pc = 1 -> Return(Failed(f.node))
      [] OTHER -> Return(Make(f.node, f.st, f.acc))

ResumeFold ==
    /\ Resumed({"fold_left"})
    /\ FoldStep(Top)
    /\ UNCHANGED <<mem, cur, got>>

(***************************************************************************)
(* sequence(elem, sep): a separator is parsed without updating st, and     *)
(* only an element behind it does that.  The vector parsed so far is the   *)
(* result when either of them fails, empty if it was the first element.    *)
(***************************************************************************)
AfterElem(f, pc, keys) == At(f, pc, ret.st, ret.st, f.acc \o ret.val, keys)

\* Mutant: the separator updates st.
AfterSepTaken(f, pc) == At(f, pc, ret.st, ret.st, f.acc, f.keys)
\* Mutant: st and the next parser's state are swapped.
AfterSepSwapped(f, pc) == At(f, pc, ret.st, f.st, f.acc, f.keys)

AfterSep(f, pc) == At(f, pc, f.st, ret.st, f.acc, f.keys)

SequenceStep(f) ==
    CASE ~ Good(ret) -> Return(Make(f.node, f.st, f.acc))
      [] Good(ret) /\ f.pc = 1 -> Continue(AfterElem(f, 2, {}))
      [] OTHER -> Continue(AfterSep(f, 1))

ResumeSequence ==
    /\ Resumed({"sequence"})
    /\ SequenceStep(Top)
    /\ UNCHANGED <<mem, cur, got>>

(***************************************************************************)
(* sequence<Opening, Separator, Closing>(elem) and parse_map: the parsers  *)
(* are open, elem, sep and close.  The loop ends like that of sequence,    *)
(* and then close must match.  A map emplaces: the first of two elements   *)
(* with the same key stays.                                                *)
(***************************************************************************)
SameKey(text, j, k) ==
    LET chars(t) == SubSeq(text, t.from, t.to - 1)
    IN  /\ Len(j) = Len(k)
        /\ \A i \in DOMAIN j : chars(j[i]) = chars(k[i])
\* The key is what an element's value begins with: the element is a make of it.
KeyOf(val) == IF val = <<>> THEN <<>> ELSE <<val[1]>>

\* Mutant: the map keeps both.
EmplaceBoth(f) == AfterElem(f, 3, f.keys \union {KeyOf(ret.val)})

Emplace(f) ==
    IF \E k \in f.keys : SameKey(mem, k, KeyOf(ret.val))
    THEN At(f, 3, ret.st, ret.st, f.acc, f.keys)
    ELSE AfterElem(f, 3, f.keys \union {KeyOf(ret.val)})

Stored(f) ==
    IF Op(f.node) = "parse_map" THEN Emplace(f) ELSE AfterElem(f, 3, {})

\* Mutant: the elements begin where the opening literal did.
DelimitedStepUnopened(f) ==
    CASE Good(ret) /\ f.pc = 1 -> Continue(At(f, 2, f.st, f.st, <<>>, {}))
      [] Good(ret) /\ f.pc = 2 -> Continue(Stored(f))
      [] Good(ret) /\ f.pc = 3 -> Continue(AfterSep(f, 2))
      [] Good(ret) /\ f.pc = 4 -> Return(Make(f.node, ret.st, f.acc))
      [] ~ Good(ret) /\ f.pc \in {2, 3} ->
            Continue(At(f, 4, f.st, f.st, f.acc, f.keys))
      [] OTHER -> Return(Failed(f.node))

DelimitedStep(f) ==
    CASE Good(ret) /\ f.pc = 1 -> Continue(At(f, 2, ret.st, ret.st, <<>>, {}))
      [] Good(ret) /\ f.pc = 2 -> Continue(Stored(f))
      [] Good(ret) /\ f.pc = 3 -> Continue(AfterSep(f, 2))
      [] Good(ret) /\ f.pc = 4 -> Return(Make(f.node, ret.st, f.acc))
      [] ~ Good(ret) /\ f.pc \in {2, 3} ->
            Continue(At(f, 4, f.st, f.st, f.acc, f.keys))
      [] OTHER -> Return(Failed(f.node))

ResumeDelimited ==
    /\ Resumed(DelimitedOps)
    /\ DelimitedStep(Top)
    /\ UNCHANGED <<mem, cur, got>>

----------------------------------------------------------------------------
(***************************************************************************)
(* test and test_lookahead build boolean_result(sv, parser.parse(sv)): the *)
(* state they were given, and the bool inside the result of their parser.  *)
(***************************************************************************)
ProbeResult(f) ==
    Make(f.node, f.in, IF ret.val = <<>> THEN <<>> ELSE Mark(f.node, f.in))

ResumeProbe ==
    /\ Resumed(ProbeOps)
    /\ Return(ProbeResult(Top))
    /\ UNCHANGED <<mem, cur, got>>

\* test_then: true and the state behind the match, or false and no change.
TestThenResult(f) ==
    IF Good(ret)
    THEN Make(f.node, ret.st, Mark(f.node, f.in))
    ELSE Make(f.node, f.st, <<>>)

ResumeTestThen ==
    /\ Resumed({"test_then"})
    /\ Return(TestThenResult(Top))
    /\ UNCHANGED <<mem, cur, got>>

\* Mutant: the failed parser's state is taken.
TryStateUnchecked(f) == ret.st
\* Mutant: a lookahead takes the state too.
TryStateConsumes(f) == IF Good(ret) THEN ret.st ELSE f.in

\* try_parse and try_lookahead: an optional, engaged when the parser is good.
TryState(f) ==
    IF Op(f.node) = "try_parse" /\ Good(ret) THEN ret.st ELSE f.in
TryValue(f) == IF Good(ret) THEN Mark(f.node, f.in) \o ret.val ELSE <<>>

ResumeTry ==
    /\ Resumed(TryOps)
    /\ Return(Make(Top.node, TryState(Top), TryValue(Top)))
    /\ UNCHANGED <<mem, cur, got>>

\* lookahead: result.set_state(state) on the parser's own result, good or not.
LookaheadResult(f) ==
    [kind |-> ret.kind, st |-> f.in, val |-> ret.val, set |-> ret.set]

ResumeLookahead ==
    /\ Resumed({"lookahead"})
    /\ Return(LookaheadResult(Top))
    /\ UNCHANGED <<mem, cur, got>>

\* recurse<T>: the result converted to the result<T> its parse declares.
Converted(n) ==
    IF Good(ret) THEN Make(n, ret.st, ret.val) ELSE Failed(n)

ResumeRecurse ==
    /\ Resumed({"recurse"})
    /\ Return(Converted(Top.node))
    /\ UNCHANGED <<mem, cur, got>>

----------------------------------------------------------------------------
(***************************************************************************)
(* parser::read(st), called by the client: the parser is applied to a copy *)
(* of st, and st takes the remainder only when the result is good.  What   *)
(* read returns when it is not is a new decltype(res){}.                   *)
(***************************************************************************)
Read(r) ==
    /\ stack = <<>>
    /\ stack' = <<Enter(r, cur)>>
    /\ got' = NoResult
    /\ UNCHANGED <<mem, cur, ret>>

Unread(r) == [kind |-> r.kind, st |-> NullState, val |-> <<>>, set |-> FALSE]

\* Mutant: st = res.get_state() whether or not res is good.
ReadStateUnchecked == ret.st

ReadState == IF Good(ret) THEN ret.st ELSE cur

FinishRead ==
    /\ Resumed({"read"})
    /\ cur' = ReadState
    /\ got' = IF Good(ret) THEN ret ELSE Unread(ret)
    /\ stack' = <<>>
    /\ ret' = NoResult
    /\ UNCHANGED mem

\* The parse calls a read makes, up to its return: one thread, one step each.
Work ==
    \/ ParseLeaf \/ Call
    \/ ResumeThread \/ ResumeEither \/ ResumeFold
    \/ ResumeSequence \/ ResumeDelimited
    \/ ResumeProbe \/ ResumeTestThen \/ ResumeTry
    \/ ResumeLookahead \/ ResumeRecurse
    \/ FinishRead

Next == Work \/ \E r \in Roots : Read(r)

Spec == Init /\ [][Next]_vars

\* A call in progress goes on until it returns; the client may stop reading.
FairSpec == Spec /\ WF_vars(Work)

----------------------------------------------------------------------------
(***************************************************************************)
(* Properties.                                                             *)
(***************************************************************************)

\* Every frame, result and state has its type, a result is only there while
\* a call waits for it, and a frame's pc names one of its parsers.
TypeOK ==
    /\ cur \in State
    /\ stack \in Seq(Frame)
    /\ ret \in Result \union {NoResult}
    /\ got \in Result \union {NoResult}
    /\ stack = <<>> => ret = NoResult
    /\ \A i \in DOMAIN stack :
        Op(stack[i].node) \notin LeafOps =>
            stack[i].pc \in 1 .. Len(Kids(stack[i].node))

\* The parser that has just returned.
Returner == Kids(Top.node)[Top.pc]

\* st is the view v less a prefix of it.
Within(st, v) ==
    /\ v.begin <= st.begin
    /\ st.begin <= st.end
    /\ st.end = v.end

\* Whatever a parser that reports success was applied to, the state it hands
\* back is what is left of that view: no combinator hands back characters
\* before its input or past its end, however its parsers backtracked.
RemainderInView ==
    ret # NoResult /\ Good(ret) => Within(ret.st, Top.arg)

\* A result is good exactly when a parser produced the value in it: a failure
\* never turns into a success with a default value on its way up (the state
\* alone says which it is), nor does a combinator whose type promises
\* success (always_good) fall off its end without having parsed anything.
GoodIffParsed ==
    ret # NoResult => (Good(ret) <=> ret.set)

\* Backtracking forgets, and no further than it may: what a frame was given is
\* a rest of the client's view, its own state a rest of what it was given, and
\* what it applies the next parser to a rest of that.
FramesNested ==
    \A i \in DOMAIN stack :
        /\ Within(stack[i].in, cur)
        /\ Within(stack[i].st, stack[i].in)
        /\ Within(stack[i].arg, stack[i].st)

\* A read is at the bottom of the stack, on the client's state, and every
\* other frame runs the parser the frame below is at, on the state it gave.
Rooted ==
    \A i \in DOMAIN stack :
        /\ i = 1 <=> stack[i].node \in Roots
        /\ i = 1 => stack[i].in = cur
        /\ i > 1 => LET caller == stack[i - 1]
                    IN  /\ stack[i].node = Kids(caller.node)[caller.pc]
                        /\ stack[i].in = caller.arg

\* Only a parser that can fail has another alternative tried after it.
AlternativesFailed ==
    \A i \in DOMAIN stack :
        Op(stack[i].node) = "either" =>
            \A j \in 1 .. (stack[i].pc - 1) :
                ~ AlwaysGood(Kids(stack[i].node)[j])

\* A result is of its parser's type, and its state what the parser left.
ResultFits ==
    ret # NoResult =>
        /\ ret.kind = Kind(Returner)
        /\ Good(ret) => Within(ret.st, Top.arg)

\* The client's state is a view whose end is where the input's was.
ViewSound ==
    /\ cur.begin <= cur.end
    /\ \E s \in Sources :
        /\ mem = s.mem
        /\ Within(cur, s.view)

\* All of it together is inductive.
IInv == /\ TypeOK
        /\ Rooted
        /\ FramesNested
        /\ AlternativesFailed
        /\ ResultFits
        /\ ViewSound

\* The inputs parse_string stays inside of: no quote follows the view.
NoQuoteBehind ==
    \A n \in Node, s \in Sources :
        Op(n) = "string" => s.mem[s.view.end] # Quote

\* The lookaheads that keep a failure: those whose parser's result tells it
\* by more than a null state.
LookaheadSafe ==
    \A n \in Node : Op(n) = "lookahead" => Kind(Kids(n)[1]) # "result"

\* No client reads from a null state.
NoNullInput == \A s \in Sources : StateGood(s.view)

(***************************************************************************)
(* What can be told of a grammar before anything is parsed.                *)
(***************************************************************************)

\* A parser that only succeeds if it takes a character, given that those in C
\* do: a leaf that matches no empty text, or a combinator all of whose ways to
\* succeed go through a parser in C.
MustConsume(C, n) ==
    LET op == Op(n)
    IN  \/ op \in {"charconv", "bool", "string", "view", "fail"}
        \/ op = "literal" /\ \A k \in 1 .. Len(Grammar[n].arg) :
                                Len(Grammar[n].arg[k]) > 0
        \/ op = "require_prefix" /\ Len(Grammar[n].arg) > 0
        \/ op \in ThreadOps /\ \E i \in 1 .. Len(Kids(n)) : Kids(n)[i] \in C
        \/ op = "either" /\ \A i \in 1 .. Len(Kids(n)) : Kids(n)[i] \in C
        \/ op \in {"fold_left", "recurse"} /\ Kids(n)[1] \in C
        \/ op \in DelimitedOps /\ (Kids(n)[1] \in C \/ Kids(n)[4] \in C)

Consuming(C) == \A n \in C : n \in Node /\ ~ AlwaysGood(n) /\ MustConsume(C, n)

\* The library leaves it to its users that a loop is over parsers that consume.
LoopsConsume(C) ==
    \A n \in Node :
        Op(n) \in {"fold_left", "sequence"} => {Kids(n)[1], Kids(n)[2]} \subseteq C

\* Nothing that consumes is applied in front of parser number pc of n, so n may
\* apply it where it was applied itself.
AtStart(C, n, pc) ==
    CASE Op(n) \in ThreadOps -> \A j \in 1 .. (pc - 1) : Kids(n)[j] \notin C
      [] Op(n) \in DelimitedOps \union {"fold_left", "sequence"} ->
            pc = 1 \/ Kids(n)[1] \notin C
      [] OTHER -> TRUE

LeftCalls(C, n) ==
    {Kids(n)[pc] : pc \in {pc \in 1 .. Len(Kids(n)) : AtStart(C, n, pc)}}

\* Left[n] has the parsers that are reached from n without consuming, and no
\* recurse reaches itself: the grammar is not left-recursive.
NoLeftRecursion(C, Left) ==
    \A n \in Node :
        /\ LeftCalls(C, n) \subseteq Left[n]
        /\ \A k \in Left[n] : k \in Node /\ LeftCalls(C, k) \subseteq Left[n]
        /\ Op(n) = "recurse" => n \notin Left[n]

\* A parser whose good results end where their value does, given that those of
\* the parsers in E do.
EndsWithValue(E, n) ==
    LET kids == Kids(n)
    IN  \/ Op(n) = "charconv"
        \/ Op(n) \in {"map", "make", "join", "then"} /\ kids[Len(kids)] \in E
        \/ Op(n) = "either" /\ \A i \in 1 .. Len(kids) : kids[i] \in E
        \/ Op(n) = "recurse" /\ kids[1] \in E

\* Each turn of a fold over numbers ends with what it adds.
FoldsEndWithValues(E) ==
    /\ \A n \in E : n \in Node /\ ~ AlwaysGood(n) /\ EndsWithValue(E, n)
    /\ \A n \in Node :
        /\ Op(n) = "charconv" => n \in E
        /\ Op(n) = "fold_left" /\ Op(Kids(n)[1]) = "charconv" => Kids(n)[2] \in E

\* A separator with no element behind it stays in the input: a list or a fold
\* of numbers hands back the state right behind the last number it kept.
TrailingSeparatorKept ==
    /\ ret # NoResult
    /\ Op(Returner) \in {"sequence", "fold_left"}
    /\ Op(Kids(Returner)[1]) = "charconv"
    /\ ret.val # <<>>
    => ret.st.begin = ret.val[Len(ret.val)].to

\* The C++ stack is no deeper than the text is long: a recurse that is still
\* running when it is applied again has consumed something in between.
RecursionConsumes ==
    \A i, j \in DOMAIN stack :
        /\ i < j
        /\ stack[i].node = stack[j].node
        /\ Op(stack[i].node) = "recurse"
        => stack[i].in.begin < stack[j].in.begin

\* No loop turns without consuming: fold_left and sequence apply the next of
\* their parsers further on in the text than the last one.
LoopsAdvance ==
    [][ /\ Resumed({"fold_left", "sequence"})
        /\ Len(stack') = Len(stack)
        => stack'[Len(stack)].arg.begin > Top.arg.begin ]_vars

\* What test and test_lookahead are documented to tell: whether the parser
\* succeeded.
TestTellsSuccess ==
    [][Resumed(ProbeOps) => (ret'.val # <<>> <=> Good(ret))]_vars

\* parse_string_view ends a string where parse_string does: they agree on
\* which quotes are escaped.
ViewEndsWithString ==
    /\ ret # NoResult
    /\ Op(Returner) = "view"
    /\ StringParse(mem, Top.arg).ok
    => Good(ret) /\ ret.st.begin = StringParse(mem, Top.arg).rest

ReadCursor ==
    INSTANCE Cursor WITH Views <- {s.view : s \in Sources}, view <- cur,
                         busy <- stack # <<>>, success <- got.set

\* A client that reads never loses its place: whatever the parser, a read
\* either hands over a value and leaves a rest of the view it began with, or
\* hands over none and leaves the view alone.
ReadImplementsCursor == ReadCursor!Spec

\* Every read the client starts returns to it.
ReadReturns == stack # <<>> ~> stack = <<>>

=============================================================================
