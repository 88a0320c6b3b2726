# noam, specified

noam is a header-only C++20 library of parser combinators. A *parser* is a
stateless object with a member `parse(state_t) -> result`; a *combinator* is a
function that builds a parser from parsers; `parser::read(state_t&)` is how a
program uses one. This directory holds TLA+ modules for the parsers, the
combinators, `read`, the coroutines one can write parsers as, the state type and
the programs in the repository, TLC configurations that check them on small grammars
and texts, and TLAPS proofs of what holds for every grammar, every coroutine and every text.

All paths below are relative to the repository.

## 1. Inventory

| component | source | state it keeps | operations |
|---|---|---|---|
| state | `include/noam/state.hpp` | two pointers, `_begin` and `_end`; null when `_begin` is | `good`, `size`, `empty`, `starts_with`, `substr` (two forms), `remove_prefix`, `remove_suffix`, `clear`, `==`, `<=>`, `swap`, constructors from strings |
| result types | `include/noam/result_types.hpp` | a state, and a value or an optional value | `good`, `get_state`, `set_state`, `get_value`, conversion to bool |
| `parser::read` | `include/noam/parser.hpp` | the client's `state_t` | read |
| leaf parsers | `include/noam/util/intrinsic_types.hpp`, `intrinsics.hpp`, `util/literal.hpp` | none | one `parse` each |
| combinators | `include/noam/combinators.hpp`, `util/combinator_types.hpp`, `util/helpers.hpp`, `operators.hpp` | the locals of a running `parse` | one `parse` each, and the helpers that thread a state through several parsers |
| coroutine coupling | `include/noam/co_await.hpp`, `coupling/` | a promise: state, value, a good flag | `co_await`, `co_return`, an exception of the body, conversion of the return object |
| JSON printer | `src/include/json_value.hpp` | an indentation string shared by nested calls | `format` of a value |
| benchmark baseline | `bench/bench.cpp` | three pointers and a sum | a loop over characters, against which the parsers are measured |
| examples, benchmark, tests | `src/`, `bench/`, `test/`, `readme.md` | | grammars and coroutines built from the above |
| formatting, reflection, build | `include/noam/util/fmt.hpp`, `util/reflection.hpp`, CMake | | no behaviour |

**How they interact.** Only by calls. A combinator's `parse` takes a `state_t`
by value, calls `parse` of the parsers it was built from on copies of that
state, looks at whether their results are good, and returns a result of its
own. A leaf looks at characters. `read` calls one `parse` and assigns the
client's state. Nothing is shared between calls apart from the characters, which nobody writes.

**What is hard.** There are no threads, no files, no retries and no timeouts.
What is hard is the bookkeeping of states under backtracking:

- each combinator holds up to three states at once (what it was given, what it
  has taken, what it tries next), all of one type, and one wrong copy loses input or reads it twice,
  often only when an alternative fails far inside another;
- a failure is encoded four ways: a null state, a disengaged optional, a
  conversion to bool, or a type that cannot fail (`always_good`), each picked by
  templates, so whether a result is good depends on a computation no reader sees;
- `if constexpr (always_good)` drops returns, and the function then relies on a loop or
  an alternative that cannot fall through;
- leaf parsers read at `size() - 1` and behind an escape, where boundaries matter;
- loops end only when some parser fails, so termination is a property of the
  grammar and the text together;
- recursion through `recurse<T>` makes the C++ stack as deep as the text;
- a coroutine parser has a second stack of frames, each suspended inside a
  `noexcept` call of the one below, and ends in three ways: it returns, it is suspended for
  good, or it throws;
- sizes are signed, indices are `size_t`, and the two are subtracted and compared.

**What makes each component correct.**

| component | correctness |
|---|---|
| state | a state handed on is a rest of the view it came from; null means failure and nothing else |
| result types | good exactly when a parser produced a value |
| `read` | moves the client's state on success only, and then to a rest of it |
| leaves | accept the longest or first match the docs name, and end inside the view |
| combinators | implement the grammar: ordered choice, repetition, lists, maps, lookahead; leave nothing behind when an alternative fails; return |
| coroutine | the same contract as a combinator of the parsers it awaits; exceptions become failures; each `co_await` continues where the last one ended |
| JSON printer | what it prints parses back; indentation follows nesting |
| baseline | the same sum and the same rest as `add_w_fold`, up to a number or whitespace it does not read |

The hazards, each at its line, with the properties that would catch them, are
in `PROJECT.json` under `hazards`.

## 2. Modules

```
NoamState -> Intrinsics -> Combinators -> PegRules -> GrammarProofs     what
    |           |   |  |        |    \       |         (and EXTENDS       is
    |           |   |  |      Cursor  \  ParserSpec   CombinatorsProofs) proved
    |           |   |  |   (abstract)  \  (abstract)
    |           |   |  |                Peg -> MCCombinators, MCJsonPrint,
    |           |   |  |                       MCBaseline, MCCoroutine   and
    |           |   |  +-> IntrinsicsProofs -> CombinatorsProofs,        checked
    |           |   |                 ScannersProofs, BaselineProofs
    |           |   +-> Scanners -> MCScanners, ScannersProofs
    |           +-> Baseline -> BaselineFold -> MCBaseline, BaselineProofs
    +-> Coroutine -> CoroutineMeaning -> MCCoroutine, CoroutineProofs
    +-> ViewOps -> MCViewOps, ViewOpsProofs
        JsonPrint -> MCJsonPrint, JsonPrintProofs
        Grammars, Texts: parsers and inputs
```

**NoamState** is the pointer pair. Pointers are addresses, `nullptr` is 0, and
the characters are a sequence `text`, so that `text[a]` is `*a`. A text may
be followed by a byte that belongs to the buffer but not to the view (the NUL of
a string literal, or the next character of a longer text): leaf parsers can be
seen reading it.

**Intrinsics** gives the outcome of each leaf parser: whether it matches,
where the rest begins and which characters its value is made of. The loops of the
code are stated by where they stop, including where they stop wrongly:
`StringParse` stops one past the end when an escape sequence ends the view,
because the loop does. `std::from_chars` is external and is modelled from its use in
`charconv`: sign for signed types only, longest run of digits, failure when out of
range.

**Combinators** runs parser expressions as the program runs them. `Grammar`
maps every parser object to the combinator it is made by, its parsers and
what the templates compute of it (`good` is `always_good`, `boxed` says the value is not
default-constructible, so that the result holds an optional). `GrammarAssumption`
states what a program that compiles satisfies: numbers of arguments, the
`always_good` rules, `test` only on parsers of `bool`, `lookahead` with the result type
of its parser.

| variable | in the program |
|---|---|
| `mem` | the characters |
| `cur` | the `state_t` the client passes to `read` by reference |
| `stack` | the `parse` calls in progress; a frame has the state `in` it was called with, its local `st`, the argument `arg` of the call it makes next, which of its parsers that is (`pc`), the value so far (`acc`), the keys of a map |
| `ret` | the result a `parse` has just returned to the frame on top |
| `got` | what the client's last `read` returned |

`Call` is the call of the next parser, `ParseLeaf` a whole call of a leaf,
`Resume...` what a combinator does when a call returns (one action per
combinator or per family written on one helper), `Read` and `FinishRead` the two ends of
`parser::read`. Each action of `Work` is the code from one call or return to the
next, so a combinator's test, its assignments and its return are one step.

| action | combinators |
|---|---|
| `ResumeThread` | `map`, `match`, `join`, `enclose`, `make`, `operator>>` |
| `ResumeEither` | `either`, `operator\|` |
| `ResumeFold` | `fold_left` |
| `ResumeSequence` | `sequence(elem, sep)` |
| `ResumeDelimited` | `sequence<Opening, Separator, Closing>(elem)`, `parse_map` |
| `ResumeProbe` | `test`, `test_lookahead` |
| `ResumeTestThen` | `test_then` |
| `ResumeTry` | `try_parse`, `try_lookahead` |
| `ResumeLookahead` | `lookahead` |
| `ResumeRecurse` | `recurse<T>`, and the conversion of a result |

**Cursor** is the smallest promise: a client's view, and reads that either
hand over a value and leave a rest of the view, or leave it alone.
**ParserSpec** is the larger one: a read is one step whose effect is a function
of grammar and text. **PegRules** says what that function, `Meaning`, has to be: the equations of a parsing
expression grammar (ordered choice, repetition, lists, maps that keep the first of
two equal keys), with no stack, null states or result kinds, one for a parser and one for what is left of it when its first parsers
have been applied. The equations are over two constants and recursion is nowhere in them; `IsMeaning(inputs)` says that the
constants solve them on every view an input has. `PegRules` instantiates
`ParserSpec` with the refinement mapping: the read in progress is
the bottom frame, the value handed over is `got`. **Peg** computes, by recursion over lists of parsers and of their values, what
should solve the equations, without using them: the configurations give the two constants of `PegRules` what `Peg` computes, tabulated per
view, and the MC modules assume (`GrammarsMean`) that it is a solution, which TLC evaluates. So the grammar is stated twice, and the two are
compared. `PegRules` shares the leaves
(`LeafResult`) and `SameKey` with `Combinators`: what it is compared with is the
combinators, not the leaves.

**Grammars** holds the parsers the repository builds: lists and sums, JSON, and the bodies of
the coroutines in `bench.cpp`, `readme.md` and `make_w_coro`. **Texts** makes inputs.
**MCCombinators** adds the grammars and texts of its runs, and states that they satisfy what
the proofs ask of a grammar. **IntrinsicsProofs**, **CombinatorsProofs**, **GrammarProofs**,
**BaselineProofs**, **ViewOpsProofs**, **ScannersProofs**, **JsonPrintProofs** and **CoroutineProofs**
hold the proofs, each those of the module it is named after (`GrammarProofs` continues `CombinatorsProofs`).

**Scanners** runs the loops of the leaf parsers one character per step, with the local variables of the
code (`st`, `i`, `size`, and `lit`, the literal a fold is at). `looked` records the address
dereferenced last. Indices and sizes are counted modulo `SizeValues`. Each action is one turn
of a loop, or its end. What `Intrinsics` states as an outcome is checked to be what these loops
compute.

**ViewOps** is a client's state objects over one array: constructors, `substr`, `remove_prefix`,
`remove_suffix`, `clear` and `swap` as actions, `==` and `<=>` as the operators `Equal` and `Compare`.
`Substr` subtracts in `size_t` as the code does, so that a `start` past the end wraps around (`Wraps`) and gives a state of
positive size outside the text. `Cut` lets the client ask for it. The history variable `wrapped` holds the objects
whose state comes from such a cut, through any number of copies, moves and swaps; the others are `Sound`, and the properties are about these.

**Coroutine** models parsers written as C++20 coroutines.

| variable | in the program |
|---|---|
| `stack` | the coroutine frames, each with its promise (`state`, `value`, `is_good`), the place of its body (`pc`), what it holds in local variables (`sum`), and whether it is at its initial suspension, running, inside `await_ready` on a coroutine above it, suspended, or at its final suspension |
| `ret` | the `result<T>` a call has just returned |
| `reading`, `cur`, `got` | the client's read |
| `alive` | `std::terminate` has not been called |

`Body` gives each coroutine a short program of instructions: `co_await` a parser and keep its value or not,
`while (co_await ...)`, throw on certain values, `co_return`. A parser that is not a coroutine is one
step with outcome `Outcome`; one that is runs on a frame of its own, between `AwaitCoroutine` and `AwaitReturns`.
`Resume` is `handle.resume()` in the conversion to `result<T>`, `Return` the rest of that conversion and the
destructor that destroys the frame. The module takes the conversion to happen after
the initial suspension, when the caller gets the return object, which is what readme.md describes and
what the compilers it names do. `test_then` calls its function, which adds to a local variable of the
awaiting body, in the same step that parses: `Taken` is what that instruction keeps of the outcome, be it
the value or what the function was called with, and `Locals` appends it. So an effect of user code is modelled
where the code of the repository has one.

**CoroutineMeaning** is to `Coroutine` what `PegRules` is to `Combinators`: what a body makes of a view when each
`co_await` is one step, as equations over two constants, and the instance of `ParserSpec` with a solution as its meaning. In
`MCCoroutine` that solution is a combinator's: each coroutine has a twin, `fold_left` for the loops of `bench.cpp`, `make` for
`parse_pair` and `make_w_coro`, and the assumption `TwinsSolve` says that the twins solve the equations of the bodies.

**Baseline** is the hand-written loop of `bench.cpp`: `begin`, `parse_result_start` (`start`), and a place in the loop.
**BaselineFold** is the parser it is measured against, `add_w_fold`, as a grammar, with its `PegRules` and the instance of `ParserSpec` that
compares the two. They are not the same parser: `add_w_fold` begins with a `long` where the loop has an `int`, and its `comma_separator` skips all
whitespace where the loop skips spaces. What that lets the loop do differently is named (`EndsEarly`): it fails at a first number that only a
`long` holds (`OnlyLong`), or stops in front of a separator with other whitespace in it (`OtherSpaceBehind`), and then the fold reads
the rest of the numbers from where the loop stopped.
**JsonPrint** is the recursive formatter: the calls in progress are loops over containers on a stack, and `depth` is the
size of the string they share.

An operator preceded by a comment `Mutant:` is not part of the model. It is a
plausible mistake in the definition below it, with which the named property must fail.

## 3. What the runs check

| run | grammar | checks | states |
|---|---|---|---|
| `lists` | the parsers of `src/hello.cpp`, `bench/bench.cpp` and `test/combinators.cpp`: lists and sums of integers, `try_parse`, `test_then`, `either` with a default | `TypeOK`; `TrailingSeparatorKept`; `LoopsAdvance`; `OnTheWay`; `ReadImplementsMeaning`; `ReadReturns` (liveness) | about 68,000 |
| `program` | `src/json-example.cpp` (arrays, objects, recursion through `recurse`), and next to it every other leaf and combinator: alternatives with a common prefix, `lookahead`, `test`, `try_lookahead`, `make`, strings, lines | `IInv`; `RemainderInView`; `GoodIffParsed`; `FramesNested`; `RecursionConsumes`; `OnTheWay`; `ReadImplementsMeaning`; `ReadImplementsCursor` | about 153,000 |
| `coroutine` | the coroutines of `bench.cpp` and `readme.md`, `make_w_coro`, bodies and parsers that throw | `IInv`; `TakenOnce`; `OnTheWay`; `CoroutineImplementsCombinator`; `CoroutineImplementsCursor`; `ReadReturns` (liveness) | about 13,000 |
| `scanners` | every loop of the leaf parsers | `IInv`; `ReadsInView`; `ScansImplementOutcomes`; `ScanReturns` (liveness) | about 41,000 |
| `views` | two state objects, moved in any order | `IInv`; `PositiveSizeIsInside`; `EqualIffEquivalent`; `CompareIsLexical`; `SubstrIsSlice` | about 109,000 |
| `baseline` | `add_w_baseline` | `IInv`; `AddedSoFar`; `BaselineImplementsFold`; `ReadReturns` (liveness) | about 7,400 |
| `json_print` | JSON values three containers deep | `LoopsInside`; `DepthIsNesting`; `PrintedParses` | about 28,000 |

- `ReadImplementsMeaning` is the strongest: whatever happened on the stack, a read does to
  the client what the grammar means. It catches separators that are taken or
  forgotten, an alternative that starts where the last one ended, keys
  overwritten instead of kept, lookahead that consumes.
- `OnTheWay` says why, of combinators and of coroutines: for every call in progress, what it has done put in front of what it has
  still to do is what its parser means on the state it was given. It fails at the first step that goes wrong,
  however far from the end of the read.
- `RemainderInView` says that the state of a good result is a rest of the view its
  parser was applied to: no parser hands back characters in front of its input or past its end.
- `GoodIffParsed` says that a result is good exactly when a parser put a value in it.
- `FramesNested` says that along the whole stack states only shrink inwards.
- `TrailingSeparatorKept` says that in `1,2,x` the second comma stays in the input.
- `ReadReturns` says that every read the client starts returns to it.
- `LoopsAdvance` says why: each turn of a `fold_left` or `sequence` parses further on than the last.
- `RecursionConsumes` says that between two levels of the same `recurse` something was consumed, so the
  C++ stack is no deeper than the text is long.
- `CoroutineImplementsCombinator` says that a read with a coroutine is one step of `ParserSpec` with the
  meaning of the combinator that takes the same parsers: `fold_left` for the loops of `bench.cpp`,
  `make` for `parse_pair` and `make_w_coro`, and the parser with a smaller range for a body that throws on large numbers. So a
  `co_await` that fails half way through a nested coroutine, or an exception there, moves nobody's state.
- `CoroutineImplementsCursor` is the smaller promise, of any coroutine: whichever `co_await` failed or threw, a read leaves
  a rest of the view and hands over a value, or does neither.
- `TakenOnce` says that what a body has kept or added was parsed in order, nothing of it twice, between
  the state its caller had and the state the next `co_await` parses from; and so is the value it hands over.
- `ReadsInView` says which characters the loops look at: those of the view, and for `parse_string` one more.
- `ScansImplementOutcomes` says that each loop stops where `Intrinsics` says it does. `Intrinsics` is what the
  combinators are checked and proved against, so this is what ties both to the code's loops.
- `PositiveSizeIsInside` says that `size() > 0` is, as the docs call it, a reliable check, of every state that does not come from a
  `substr(start, count)` past an end; and `CompareIsLexical`
  that `<=>` is the lexical order with overshot states counting as empty. `EqualIffEquivalent` ties `==` to it: the two differ
  exactly on states that have overshot, and there on those that have overshot by different counts.
- `BaselineImplementsFold` says that the loop of `bench.cpp` and `add_w_fold` give the same sum and the same rest, except where the loop
  ends early in one of the two named ways; a failure or a stop for any other reason, or one that leaves numbers the fold would not
  read, is an error. `AddedSoFar` says that at each turn, what has been added with what
  the fold makes of the characters behind it is what the fold makes of the whole.
- `DepthIsNesting` says that the shared indentation is that of the objects being printed; `LoopsInside` that the loops of the
  printer, which print an element before they compare `begin` with `end`, are at an element whenever they do; `PrintedParses` that
  `parse_json` reads what was printed to its end, with the same keys and scalars in the same order.

Five runs end in a counterexample. Each shows that the code does not do what its own documentation
says:

| run | property | what it shows |
|---|---|---|
| `lookahead` | `GoodIffParsed` | `lookahead` sets the state of its parser's result whether or not it is good; a failed `lookahead(parse_int)` is a good result with a default value (`combinators.hpp:395`) |
| `test` | `TestTellsSuccess` | `test(parse_bool)` on `false` is false although `parse_bool` succeeded: what is converted to bool is the value; and the state handed back is the one in front of it, where the comment says it is the one behind (`combinators.hpp:299`) |
| `string` | `RemainderInView` | when an escape sequence ends the view, `parse_string` looks at the character behind it, and takes it if it is a quote (`util/intrinsic_types.hpp:181`) |
| `view` | `ViewEndsWithString` | `parse_string_view` takes the quote behind an escaped backslash for an escaped one (`util/intrinsic_types.hpp:210`) |
| `exceptions` | `ExceptionsCancel` | `await_ready` is `noexcept`: an exception out of a parser that is awaited ends the program instead of the parse (`coupling/await_parser.hpp:18`) |

Modelling the code also showed these, which no run states as a violation:

- `parse_line` drops a carriage return only in front of a newline, so a last line without one keeps it
  (`util/intrinsic_types.hpp:240`, against `intrinsics.hpp:99`). `LineParse` does so too.
- `substr(start, count)` with `start` past the end wraps around in `size_t` and makes a state of positive size
  behind the text (`state.hpp:54`, against `state.hpp:104`). Run `views` reaches such states, and moves, copies and cuts them further;
  stated of all objects instead of those in `Sound`, `PointsInArray` and `PositiveSizeIsInside` are violated by them.
- A state whose begin is past its end is empty and by `<=>` equivalent to every empty state, but not equal to
  one (`state.hpp:167`, against the assertion at `state.hpp:276`); `EqualIffEquivalent` says when.
  The comment in `<=>` that calls null states unordered describes other code: they count as empty.
- The formatter prints an object without members as `[]` (`json_value.hpp:94`), which parses back as an array.
  `PrintedParses` compares keys and scalars and does not notice; `Empty` shows it.
- `add_w_fold` reads its first number as a `long` and the other three sums of `bench.cpp` as an `int`, so they
  differ on a first number that only a `long` holds; and `add_w_baseline` alone of the four skips only spaces around a comma, so it
  stops at `1\t,2` behind the 1. `EndsEarly` names both for the baseline. The coroutines are compared with a fold that begins, as they do, with an `int`.

The grammars of the first four are one leaf, or one combinator on a leaf. The passing runs use `lookahead` on
parsers for which it is sound, `parse_string` on views with no quote behind them, and
`test` on parsers that always yield true: the hypotheses are named `LookaheadSafe` and
`NoQuoteBehind`, and appear in the theorems that need them.

### Bounds

| bound | value | why it is enough |
|---|---|---|
| `ListTextLength`, `OtherListTextLength` | 5, 4 | over `1 , space`, and with an `x`: two separators with spaces around one, a separator with no element behind it, three elements, a number out of range (`111`); and the null input |
| `JsonTextLength`, `ArrayTextLength` | 3, 3 | over `[ ] , 1`, and the same behind an opening bracket and between two: two levels of nested arrays, arrays of two elements, empty arrays, lists that end in a separator or do not close |
| `ObjectTexts` | 48 texts | objects of two members with equal and different keys, a missing value, a missing or trailing separator |
| `OtherTextLength` | 3 | over digits, comma, quote, backslash, newline: each leaf and combinator matches and fails, and fails after consuming |
| `QuotedTextLength` | 3 | behind a quote: room for an escape sequence and a closing quote |
| `MaxInt` | 11 | integers of one and two digits fit and `111` does not, which a `long` holds |
| `MCCoroutine`: `TextLength`, `SpacedTextLength` | 5, 4 | over `1 ,`, and with spaces: a list of three, a number out of range in each place, failures at each `co_await`; and 54 texts in braces for `parse_pair` |
| `MCScanners`: `TextLength`, `LineLength`, `StringLength` | 3, 5, 5 | every text of 3 over six characters; carriage returns and newlines in every order up to 5; a quote followed by 4 of quote, backslash and digit, so that an escape sequence ends before, at and behind the end |
| `MCSizeValues` | 16 | more than the longest text, so that only a wrapped size is large |
| `MCViewOps`: `TextLength`, `MCMaxCount`, `MCMaxOvershoot`, `MCMaxBehind` | 3, 4, 2, 2 | arrays of signed characters with a 0 inside; counts and starts past the end; states that overshoot, by two different counts, and are then moved on; room for a wrapped cut of positive size behind the array |
| `MCBaseline`: `TextLength`, `TabLength`, `CutLength` | 5, 4, 3 | over `1 , space x`: as for lists, with `111` a number only a `long` holds; with a tab in front of a comma, behind it and inside the spaces; and views cut from a text that goes on with a comma |
| `MaxElements`, `Inner` | 2 | objects in arrays and objects in each other, three deep, with a sibling after each |

The client reads again from wherever the last read left it, with any of its
parsers, so a run covers sequences of reads. The stack is not bounded: its depth follows from the text, since the
grammars are not left-recursive. There is no symmetry; characters and parsers are all
different.

The deadlock check stays on where the client can always start another read. It is off for `coroutine`,
where the program may have been terminated, and for `json_print`, which ends.

### Fairness

`FairSpec` assumes weak fairness of `Work`, the steps between the start of a
read and its return. `read` is a synchronous call on one thread: once it
begins, nothing else runs until it has returned, so the next step of the call stack is taken. The same holds of the
steps of a coroutine and of the turns of a leaf's loop or of the baseline's, for the same reason: resuming, suspending and
returning are calls and returns on one thread.
Nothing is assumed of the client, who may stop reading. `ReadReturns` under this
assumption says that no combinator loops without making progress. It is about the grammars checked: `sequence` or
`fold_left` over parsers that succeed on no input loops forever in the program, and would in
the model; that their elements consume something is a precondition the library leaves to its users. It is named
`LoopsConsume`, and `MCCombinators` states that the grammars of the runs satisfy it.

## 4. What is proved

The theorems of `CombinatorsProofs` are for every `Node`, `Grammar` and `Sources` that satisfy
`GrammarAssumption` and `SourcesAssumption`.

| theorem | says | also assumes |
|---|---|---|
| `TypeCorrect` | `Spec => []TypeOK`: frames and results keep their types, no combinator applies a parser it does not have, no result outlives the call that waits for it | |
| `Inductive` | `Spec => []IInv` | `NoQuoteBehind` |
| `RemaindersInView` | `Spec => []RemainderInView` | `NoQuoteBehind` |
| `StatesNested` | `Spec => []FramesNested` | `NoQuoteBehind` |
| `GoodMeansParsed` | `Spec => []GoodIffParsed` | `NoQuoteBehind`, `LookaheadSafe`, `NoNullInput` |
| `ReadRefinesCursor` | `Spec => ReadImplementsCursor` | as `GoodMeansParsed` |

The extra hypotheses are what the counterexamples above show to be necessary: without
`NoQuoteBehind` a good result may lie past the view (run `string`), without
`LookaheadSafe` a failure may be good (run `lookahead`). Without `NoNullInput` a
parser that succeeds on a null state without consuming anything returns a null state,
which reads as a failure.

**The argument.** `RemainderInView` is not inductive: what a combinator hands
back was computed by a frame from earlier results, so the frames must be known to be sound, and
for them the calls below. `IInv` adds

- `Rooted`: the bottom frame is the read, on the client's state, and each other frame
  runs the parser its caller is at, on the state its caller gave;
- `FramesNested`: `in`, `st` and `arg` of a frame each lie within the one
  before, and `in` within the client's view;
- `AlternativesFailed`: an `either` only goes past parsers that can fail (with the
  `always_good` rules, this is why an `always_good` `either` never falls off its end);
- `ResultFits`: a result is of the kind its parser's type declares, and within what
  that parser was applied to;
- `ViewSound`: the client's state is a view that ends where the input's ends.

Every action of `Work` except `FinishRead` pushes a frame, replaces the top
one or returns a result. Three lemmas (`PushSound`, `ContinueSound`, `ReturnSound`) say what each of these
preserves; one lemma per combinator shows that what it pushes, continues with
or returns fits. They rest on contracts for the leaves, proved in
`IntrinsicsProofs`: a match begins and ends inside the view, the view that parse_string is given having no quote
behind it. The same lemmas carry `GoodIffParsed` (from the shape of a returned result) and the refinement of
`Cursor` (a `Read` is `Begin`, a `FinishRead` is `Succeed` or `Fail`, everything else
stutters).

### Loops, recursion and separators

`GrammarProofs` begins with what a program relies on when it writes a loop or a recursive parser. None of it holds
of every grammar. What it takes is stated of how the parsers are built from each other, and can be read off a program before
anything is parsed.

| theorem | says | also assumes |
|---|---|---|
| `LoopsGoForward` | `Spec => LoopsAdvance` | `Consuming(C)`, `LoopsConsume(C)`, `NoQuoteBehind` |
| `RecursionGoesForward` | `Spec => []RecursionConsumes` | `Consuming(C)`, `NoLeftRecursion(C, Left)`, `NoQuoteBehind` |
| `SeparatorsStay` | `Spec => []TrailingSeparatorKept` | `FoldsEndWithValues(E)`, `NoQuoteBehind` |

`Consuming(C)` says that each parser in `C` can fail and is a leaf that takes a character when it matches, or cannot succeed without a
parser in `C`. `LoopsConsume(C)` says that all `fold_left` and `sequence` are over
parsers in `C`, and `NoLeftRecursion(C, Left)` that no `recurse` is among the parsers `Left` it reaches
without going through one in `C` first. `FoldsEndWithValues(E)` says that each turn of a fold over numbers
ends with the number it adds. `MCCombinators` computes such `C`, `Left` and `E` for the grammars of
every run and states as assumptions that they satisfy these, so TLC evaluates them: the parsers of the repository are covered.

Three invariants, next to `IInv`, carry the proofs. `Consumed(C)`: a frame that is past a parser in `C` has a local state
behind its input's begin, and a good result of a parser in `C` is behind what it was applied to. `Descends(Left)`: of
two frames, the inner one was applied further on, or is of a parser that the outer one reaches without consuming. `Ended(E)`: a
list of numbers, and what it returns, ends where its last number does. They start from the leaves that never match the
empty text (`LiteralTakes`, `CharconvTakes`, `StringTakes`, `ViewTakes`) and have one lemma per combinator, as `IInv` has.

### What a read means

The second half of `GrammarProofs` shows that the library implements its grammars.

| theorem | says | assumes |
|---|---|---|
| `CallsKeepTheirMeaning` | `Spec => []OnTheWay` | `IsMeaning(Sources)`, `ProbesTell`, and `NoQuoteBehind`, `LookaheadSafe`, `NoNullInput` as above |
| `ReadMeansItsGrammar` | `Spec => ReadImplementsMeaning` | the same |

There is no recursion to prove anything about: `Meaning` and `MeaningFrom` are any two functions that solve the equations of
`PegRules` over the inputs, and the theorems say that whatever a solution gives for the client's view is what a read that returns does.
A grammar that is left-recursive may have several solutions or none, and then its reads do not return; that reads do return is
`ReadReturns`. For the grammars of the runs `Peg` computes a solution, and TLC evaluates that it is one.
`ProbesTell` says that the parsers that are tested yield true whenever they match; run `test` shows that it is needed, and is the one grammar
for which it does not hold. The inputs with a null state of run `lists` are outside `NoNullInput`: there the result is only checked.

The invariant is `OnTheWay`. `ToDo` says, for each combinator and each place in it, what is left: the parsers from `pc` on, the alternatives
from `pc` on, the elements behind a separator, the closing parser. A frame is on its way when the value it has gathered, put before
that, is what its parser means on the state it was given. One lemma per combinator shows that a result that agrees with the meaning of the parser that was
called takes the same from what is left as it adds to what is done; this is one unfolding of one equation, and the associativity of
putting values before others. `Settled`, the second half, says in which places the local state and the argument of the next call are those the frame
was given, which is what makes an alternative start where `either` did. `GoodIffParsed` is needed too: only with it does a good result mean
that the parser called has a meaning there.

### The leaves' loops

`ScannersProofs` is for every input whose length a `size_t` holds (`SizeAssumption`) and every set of leaf parsers
(`ScannerAssumption`), with no quote behind the view of a `parse_string` (`NoQuoteBehind`).

| theorem | says |
|---|---|
| `ScannersInvariant` | `Spec => []IInv`: each loop keeps its index and state where the next read is allowed, and has gone past no character at which it should have stopped |
| `ScannersReadInView` | `Spec => ReadsInView` |
| `ScansImplementTheirOutcomes` | `Spec => ScansImplementOutcomes`: run one character at a time, each leaf implements `ParserSpec` with its outcome of `Intrinsics` as the meaning |

`ReadsInView` is about a step and follows from the part of `IInv` on indices. The refinement needs the part on what is behind:
nothing in front of where a loop ends was a place to stop, so where it ends is the first one, which is how
`Intrinsics` defines the outcome. For escape sequences the two are far apart: `string_parser` goes over a backslash
and what follows, `Intrinsics` counts the backslashes in front of a quote. `EscapesAlternate` (in `IntrinsicsProofs`) is the lemma between them:
a character is the second half of an escape sequence exactly when the one in front is a backslash that is not. With
`CombinatorsProofs`, which rests on the outcomes, this takes the results on combinators down to the loops of the code.

### Coroutines

`CoroutineProofs` is for every set of coroutines, whatever their bodies (`BodyAssumption`), their inputs
(`SourceAssumption`) and the parsers they await, if these hand back a rest of what they get (`OutcomeAssumption`, which
`RemaindersInView` proves of combinators).

| theorem | says |
|---|---|
| `CoroutineInvariant` | `Spec => []IInv`: only the top frame runs, frames are nested, a promise that is not at the end of its body hands nothing over |
| `CoroutinesTakeOnce` | `Spec => []TakenOnce` |
| `CoroutinesRefineCursor` | `Spec => CoroutineImplementsCursor` |
| `CoroutinesKeepTheirMeaning` | `Spec => []OnTheWay`, assuming `IsMeaning(Sources)` of `CoroutineMeaning` |
| `CoroutinesReadAsCombinators` | `Spec => CoroutineImplementsCombinator`, assuming the same |

The result of a coroutine is in order only if what its body took is, and that lies in place only if the frames are nested, so the
inductive invariant `Sound` is `IInv /\ TakenOnce`. Most actions replace the frame on top: `BecomeKeeps` says what such a step
must do, `AwaitingKeeps` what a `co_await` that is over does, and each action is a case of one of them. `CallKeeps` and
`ReturnKeeps` are for frames that come and go; in the latter `GoodOnlyAtEnd` shows that the value handed over is what the body took.

The last two are for any solution of the bodies' equations. An exception out of an awaited parser means a failure in them, as it does for
the combinator; since it ends the program (run `exceptions`), no read comes to say otherwise. With
`TwinsSolve` they apply to the coroutines of the repository: the combinator of the same parsers is a solution for its coroutine. The proof has
the lemmas of the invariant once more (`BecomeOnTheWay`, `AwaitingOnTheWay`, `CallOnTheWay`, `ReturnOnTheWay`). What they use of `Sound` is that the states
and tokens of a frame lie in the client's view, where the equations hold. A body that throws looks at the last token it took, so the equations carry that token,
and `LastOfLast` shows that they need no more.

### The JSON printer, the state and the baseline

| theorem | says | assumes |
|---|---|---|
| `IndentationIsNesting` (`JsonPrintProofs`) | `Spec => []DepthIsNesting` | the values printed are in a set that holds what its members are made of (`Composed(V, K)`) |
| `IteratorsStayInside` (`JsonPrintProofs`) | `Spec => []LoopsInside` | the same |
| `StatesPointInArray` (`ViewOpsProofs`) | `Spec => []IInv`: no state object in `Sound` reaches outside its array | `ViewOpsAssumption` |
| `PositiveSizesAreInside` (`ViewOpsProofs`) | `Spec => []PositiveSizeIsInside`, of the objects in `Sound` | `ViewOpsAssumption` |
| `EqualAndCompareAgree` (`ViewOpsProofs`) | `Spec => []EqualIffEquivalent`: where `==` and `<=>` agree and where they do not | `ViewOpsAssumption` |
| `CompareIsTheLexicalOrder` (`ViewOpsProofs`) | `Spec => []CompareIsLexical` | `ViewOpsAssumption` |
| `SubstrIsTheSlice` (`ViewOpsProofs`) | `Spec => []SubstrIsSlice`, for each start with `~ Wraps` | `ViewOpsAssumption` |
| `LoopStaysInView` (`BaselineProofs`) | `Spec => []IInv`: the pointers of the baseline loop stay ordered and in the view; what it gives back is at most spaces and one comma | `SourcesAssumption` of `Baseline` |
| `SumsSoFar` (`BaselineProofs`) | `Spec => []AddedSoFar` | `SourcesAssumption`, `TypesAssumption` (a `long` holds what an `int` does), and `P!IsMeaning(Sources)`: the constants of `BaselineFold` solve the equations of `add_w_fold` |
| `LoopAddsTheFold` (`BaselineProofs`) | `Spec => BaselineImplementsFold`, with the two named ways to end early | the same |

In `JsonPrint` the two invariants and the types of the loops are inductive together. A set `V` closed under parts stands for values of any depth
(there is no recursion on values to do), and what is counted is finite, since `ObjectLoops` is a set of places on the stack. That the
indentation is never cut below nothing follows: an object that ends is itself one of the objects counted. `MCJsonPrint` states that the
values of its run are in such a set.

In `ViewOps` a begin never moves down and an end never up, also when a state has overshot: `PointsInArray` says so without
asking for the size. A `substr` keeps it as long as its `size_t` subtraction does not wrap (`SizeTSmall`). The code does not see to that, so the
invariant is about the objects in `Sound`: `wrapped` grows where a subtraction wraps and an object leaves it only by getting a state from one that is
not in it, which is what makes the invariant inductive without a guard on `Cut`. The theorems on `==` and `<=>` hold of any two states that point into the array. They turn on the first
place where two texts differ, or on the shorter one if there is none (`PrecedesByDifference`, `PrecedesByLength`).

In `Baseline`, that the client's state stays in its view needs `PointersOrdered`, for the rest that `Return` hands over; that what is
skipped holds one comma needs the place of the loop, since up to `comma` nothing but spaces has been skipped.
`FromCharsBounds` takes the step over a number from the contract of `charconv`.
`AddedSoFar` has the loop's sum in front of what the fold makes of the rest behind `start`. Nothing in the loop is a parser of the fold: its two loops over
spaces, the comma and the number stand for `comma_separator >> int`, and the invariant says how far along these the loop is (`Spaces`, `CommaSkipped`). Only
at a number, or where it gives up, does the equation of the fold get unfolded. That the result is not null, and so handed over, follows from a
number taking at least a character (`CharconvTakes`). That the loop's first number is the fold's takes `LargerTypeReads` (in `IntrinsicsProofs`): what an `int`
holds a larger type reads alike. Where the loop gives up, `AtOtherSpace` splits the case: if the character it looks at is no whitespace,
`comma_separator` stands there as well and the fold has ended; otherwise what was skipped in front of it is at most spaces and a comma, which is
`OtherSpaceBehind`. The theorems are for all ranges of an `int` and a `long`, and `MCBaseline` states as `FoldSolved` that what `Peg` computes is a solution.

**Only model-checked.** `ReadReturns` (of three modules) and `ScanReturns`, since liveness is out of the prover's reach; for the
combinators `LoopsGoForward` and `RecursionGoesForward` prove what it rests on, that loops and recursion move on in a finite text.
`PrintedParses`, since the text of a value is a recursive function of the value. That the equations of a grammar have a solution, and that a coroutine's
twin is one of its body, are assumptions TLC evaluates on the inputs of a run: both are induction over the text. Every other property of a
passing run is the property of a theorem.

## 5. What the model leaves out

- **Values.** A value is the list of the tokens (leaf, first and last character) it was
  made of. What a user's function makes of them is left out; that of `map` and `fold_left` is taken to be
  pure.
- **Numbers.** Integers stand for every type `charconv` is used with; the syntax of
  floating-point numbers is not modelled. Sums do not overflow.
- **`parse_map`.** Which keys and values the map holds is modelled, their order in a `std::map` is not.
- **`bool_parser` and `charconv`** are not in `Scanners`: the first is two `starts_with`, the loop of the second is
  `std::from_chars`.
- **`state`.** The constructors from a pointer and a size and from `std::string`, and the conversions to strings.
- **Coroutines.** Allocation of a frame, and its failure; an exception of a copy of the value in `return_value`
  (it is one of the body's own); a coroutine whose return object is never converted, which never begins.
- **Stack overflow** on deeply nested texts: `RecursionConsumes` bounds the depth by the text's length, and nothing bounds that.
- **Templates.** Which overload a call picks is in `Grammar` (`good`, `boxed`) and its assumption; `box`, `optional_ref` and the type lists of
  `helpers.hpp` carry values and types and have no behaviour of their own.
- **Formatting, reflection and build.** `util/fmt.hpp`, `util/reflection.hpp`, CMake: no state. The harness of the tests and of the
  benchmark is I/O and timing.

## 6. Plan

The parts that have behaviour are modelled, and what can be stated without recursion is proved:

1. *Done.* The call stack, `read` and the abstract specifications; the leaves' loops; coroutines; the
   state's operations and the baseline; the JSON printer.
2. *Done.* The invariants and the refinements of section 4, component by component.
3. *Done.* Loops, recursion and separators, for every grammar with the named hypotheses.
4. *Done.* What a read means: combinators, coroutines and the baseline against any solution of equations that take the place of a
   recursive `Meaning`.
5. `NoQuoteBehind` asks for a byte other than a quote behind every input as soon as the grammar has a `parse_string`. It is needed
   only of reads that reach one, which a hypothesis on the grammar could say.
6. `PrintedParses` by the same method: the text of a value as a solution of equations over its parts, and `parse_json` on it.
