------------------------------ MODULE Grammars ------------------------------
(***************************************************************************)
(* The parsers this repository builds from noam, as the programs build     *)
(* them: the sums of bench/bench.cpp and the lists of src/hello.cpp, the   *)
(* JSON values of src/json-example.cpp, and the coroutines of bench.cpp    *)
(* and readme.md.  A parser expression is a node; a grammar maps a node to *)
(* the combinator it is made by, its parsers, and what the templates       *)
(* compute of it: good is always_good, boxed says its value cannot be      *)
(* default-constructed.                                                    *)
(***************************************************************************)
EXTENDS Integers, Sequences

GoodLeaves == {"pure", "chars", "count", "line", "test_prefix"}
Leaf(op, arg) == [op |-> op, kids |-> <<>>, arg |-> arg,
                  good |-> op \in GoodLeaves, boxed |-> FALSE]
Fallible(op, kids) == [op |-> op, kids |-> kids, arg |-> <<>>,
                       good |-> FALSE, boxed |-> FALSE]
Always(op, kids) == [op |-> op, kids |-> kids, arg |-> <<>>,
                     good |-> TRUE, boxed |-> FALSE]
Boxed(op, kids) == [op |-> op, kids |-> kids, arg |-> <<>>,
                    good |-> FALSE, boxed |-> TRUE]
ReadOf(p) == Fallible("read", <<p>>)
Lit(c) == Leaf("literal", << <<c>> >>)

\* Small integer types: "11" is an int and "111" is only a long.
MaxInt == 11
IntType == [signed |-> TRUE, max |-> MaxInt]
LongType == [signed |-> TRUE, max |-> 10 * MaxInt + 1]
Whitespace == {" ", "\t", "\n", "\r"}

(***************************************************************************)
(* Lists of integers: src/hello.cpp, the parsers bench.cpp sums with, and  *)
(* those of test/combinators.cpp.  int_sum is add_w_fold with an int in    *)
(* front, which is what the coroutines of bench.cpp parse.                 *)
(***************************************************************************)
ListGrammar ==
    [ int       |-> Leaf("charconv", IntType),
      long      |-> Leaf("charconv", LongType),
      ws        |-> Leaf("chars", Whitespace),
      comma     |-> Lit(","),
      comma_separator |-> Fallible("match", <<"ws", "comma", "ws">>),
      list      |-> Always("sequence", <<"int", "comma_separator">>),
      next      |-> Fallible("then", <<"comma_separator", "int">>),
      sum       |-> Fallible("fold_left", <<"long", "next">>),
      int_sum   |-> Fallible("fold_left", <<"int", "next">>),
      next_try  |-> Always("try_parse", <<"next">>),
      next_test |-> Always("test_then", <<"next">>),
      n42       |-> Leaf("pure", <<>>),
      int_or_42 |-> Always("either", <<"int", "n42">>),
      ws_int_ws |-> Fallible("enclose", <<"ws", "int", "ws">>),
      read_list |-> ReadOf("list"),
      read_sum  |-> ReadOf("sum"),
      read_next_try  |-> ReadOf("next_try"),
      read_next_test |-> ReadOf("next_test"),
      read_int_or_42 |-> ReadOf("int_or_42"),
      read_ws_int_ws |-> ReadOf("ws_int_ws") ]

(***************************************************************************)
(* src/json-example.cpp: a value that contains values.  Numbers are        *)
(* integers and null is written n.                                         *)
(***************************************************************************)
JsonGrammar ==
    [ ws      |-> Leaf("chars", Whitespace),
      null    |-> Lit("n"),
      bool    |-> Leaf("bool", <<>>),
      number  |-> Leaf("charconv", IntType),
      string  |-> Leaf("view", <<>>),
      lbrack  |-> Lit("["), rbrack |-> Lit("]"),
      lbrace  |-> Lit("{"), rbrace |-> Lit("}"),
      comma   |-> Lit(","), colon  |-> Lit(":"),
      sep     |-> Fallible("match", <<"ws", "comma", "ws">>),
      kv_sep  |-> Fallible("match", <<"ws", "colon", "ws">>),
      arr_open  |-> Fallible("match", <<"lbrack", "ws">>),
      arr_close |-> Fallible("match", <<"ws", "rbrack">>),
      obj_open  |-> Fallible("match", <<"lbrace", "ws">>),
      obj_close |-> Fallible("match", <<"ws", "rbrace">>),
      array   |-> Fallible("delimited",
                           <<"arr_open", "value", "sep", "arr_close">>),
      kv_value |-> Fallible("join", <<"kv_sep", "value">>),
      member  |-> Fallible("make", <<"string", "kv_value">>),
      object  |-> Fallible("parse_map",
                           <<"obj_open", "member", "sep", "obj_close">>),
      alternatives |-> Fallible("either", <<"null", "bool", "number",
                                            "string", "array", "object">>),
      value   |-> Fallible("recurse", <<"alternatives">>),
      json    |-> Fallible("enclose", <<"ws", "value", "ws">>),
      read_json |-> ReadOf("json") ]

----------------------------------------------------------------------------
(***************************************************************************)
(* The parsers the coroutines below await.  Separators read the whitespace *)
(* around them.                                                            *)
(***************************************************************************)
Separator(sep) == Fallible("match", <<"ws", sep, "ws">>)

AwaitGrammar ==
    [ int    |-> Leaf("charconv", IntType),
      ws     |-> Leaf("chars", Whitespace),
      lbrace |-> Lit("{"), comma |-> Lit(","), rbrace |-> Lit("}"),
      open   |-> Separator("lbrace"),
      comma_separator |-> Separator("comma"),
      close  |-> Separator("rbrace"),
      next   |-> Fallible("then", <<"comma_separator", "int">>),
      next_try  |-> Always("try_parse", <<"next">>),
      next_test |-> Always("test_then", <<"next">>),
      \* what each coroutine is to be equal to
      int_sum   |-> Fallible("fold_left", <<"int", "next">>),
      pair      |-> Fallible("make", <<"open", "int", "comma_separator",
                                       "int", "close">>),
      three     |-> Fallible("make", <<"int", "next", "next">>),
      small_int |-> Leaf("charconv", [signed |-> TRUE, max |-> 1]),
      small_pair |-> Fallible("make", <<"small_int", "next">>) ]

Await(p)  == [op |-> "await", parser |-> p, keeps |-> TRUE]
Skip(p)   == [op |-> "await", parser |-> p, keeps |-> FALSE]
While(p)  == [op |-> "while", parser |-> p]
ThrowIf(texts) == [op |-> "throw", texts |-> texts]
CoReturn  == [op |-> "return"]

\* bench.cpp: an int, then as many as there are behind a comma.
AddWithTryParse == <<Await("int"), While("next_try"), CoReturn>>
AddWithTestThen == <<Await("int"), While("next_test"), CoReturn>>

\* readme.md: a coroutine that is one co_await, and one that awaits it twice.
ParseInt == <<Await("int"), CoReturn>>
ParsePair == <<Skip("open"), Await("parse_int"), Skip("comma_separator"),
               Await("parse_int"), Skip("close"), CoReturn>>

\* co_await.hpp: make_w_coro<T>(p1, p2, p3).
MakeWithCoro == <<Await("int"), Await("next"), Await("next"), CoReturn>>

=============================================================================
