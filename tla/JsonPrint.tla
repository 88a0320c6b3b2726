------------------------------ MODULE JsonPrint ------------------------------
(***************************************************************************)
(* How src/json-example.cpp prints the value it parsed: the recursive      *)
(* fmt::formatter of include/json_value.hpp.  A call of format prints one  *)
(* value; the calls in progress, which are loops over an array or an       *)
(* object, are a stack.  The indentation is one string, depth, which all   *)
(* calls share: an object appends to it and cuts it back at its end.       *)
(*                                                                         *)
(* A value is a scalar [is, text], an array [is, elems] of values, or an   *)
(* object [is, members] of [key, val] in the order of its map.             *)
(***************************************************************************)
EXTENDS Integers, Sequences, FiniteSets

CONSTANT JsonValues   \* the values to print, of a parse that succeeded

Scalars == {"null", "bool", "number", "string"}
Containers == {"array", "object"}

Tab == 4          \* depth += "    "

VARIABLES
    value,  \* what is printed
    todo,   \* <<v>>, v the value format has just been called with, or <<>>
    stack,  \* the loops in progress: the container, and the index of begin
    depth,  \* the size of the string of spaces
    out     \* the characters printed

vars == <<value, todo, stack, depth, out>>

Init ==
    /\ value \in JsonValues
    /\ todo = <<value>>
    /\ stack = <<>>
    /\ depth = 0
    /\ out = <<>>

Items(v) == IF v.is = "array" THEN v.elems ELSE v.members

Top == stack[Len(stack)]
AtEnd == Top.index = Len(Items(Top.items))

Spaces(n) == [i \in 1 .. n |-> " "]
Quoted(chars) == <<"\"">> \o chars \o <<"\"">>
MemberHead(indent, key) == Spaces(indent) \o Quoted(key) \o <<":", " ">>

\* The loop over v, at its first element.
Loop(v) == [items |-> v, index |-> 1]

\* Mutant: begin is advanced twice.
AdvanceTwice == [stack EXCEPT ![Len(stack)].index = @ + 2]

Advance == [stack EXCEPT ![Len(stack)].index = @ + 1]
Leave == SubSeq(stack, 1, Len(stack) - 1)

Calling(kind) == todo # <<>> /\ todo[1].is = kind
Looping(kind) == todo = <<>> /\ stack # <<>> /\ Top.items.is = kind

----------------------------------------------------------------------------
ScalarText(v) == IF v.is = "string" THEN Quoted(v.text) ELSE v.text

Scalar ==
    /\ \E kind \in Scalars : Calling(kind)
    /\ out' = out \o ScalarText(todo[1])
    /\ todo' = <<>>
    /\ UNCHANGED <<value, stack, depth>>

\* An object without members is printed as an array without elements.
Empty ==
    /\ \E kind \in Containers : Calling(kind)
    /\ Items(todo[1]) = <<>>
    /\ out' = out \o <<"[", "]">>
    /\ todo' = <<>>
    /\ UNCHANGED <<value, stack, depth>>

----------------------------------------------------------------------------
ArrayBegin ==
    /\ Calling("array") /\ todo[1].elems # <<>>
    /\ out' = Append(out, "[")
    /\ stack' = Append(stack, Loop(todo[1]))
    /\ todo' = <<todo[1].elems[1]>>
    /\ UNCHANGED <<value, depth>>

\* Mutant: no separator.
ElementSeparatorMissing == <<" ">>

ElementSeparator == <<",", " ">>

ArrayNext ==
    /\ Looping("array") /\ ~ AtEnd
    /\ out' = out \o ElementSeparator
    /\ stack' = Advance
    /\ todo' = <<Top.items.elems[Top.index + 1]>>
    /\ UNCHANGED <<value, depth>>

ArrayEnd ==
    /\ Looping("array") /\ AtEnd
    /\ out' = Append(out, "]")
    /\ stack' = Leave
    /\ UNCHANGED <<value, todo, depth>>

----------------------------------------------------------------------------
ObjectBegin ==
    /\ Calling("object") /\ todo[1].members # <<>>
    /\ depth' = depth + Tab
    /\ out' = out \o <<"{", "\n">> \o MemberHead(depth', todo[1].members[1].key)
    /\ stack' = Append(stack, Loop(todo[1]))
    /\ todo' = <<todo[1].members[1].val>>
    /\ UNCHANGED value

ObjectNext ==
    /\ Looping("object") /\ ~ AtEnd
    /\ out' = out \o <<",", "\n">>
                  \o MemberHead(depth, Top.items.members[Top.index + 1].key)
    /\ stack' = Advance
    /\ todo' = <<Top.items.members[Top.index + 1].val>>
    /\ UNCHANGED <<value, depth>>

\* Mutant: the outermost indentation is kept.
CutBackKept(n) == IF n > Tab THEN n - Tab ELSE n

\* depth.resize(depth.size() - 4), if it is that long.
CutBack(n) == IF n >= Tab THEN n - Tab ELSE n

ObjectEnd ==
    /\ Looping("object") /\ AtEnd
    /\ depth' = CutBack(depth)
    /\ out' = out \o <<"\n">> \o Spaces(depth') \o <<"}">>
    /\ stack' = Leave
    /\ UNCHANGED <<value, todo>>

Next ==
    \/ Scalar \/ Empty
    \/ ArrayBegin \/ ArrayNext \/ ArrayEnd
    \/ ObjectBegin \/ ObjectNext \/ ObjectEnd

Spec == Init /\ [][Next]_vars

----------------------------------------------------------------------------
(***************************************************************************)
(* Properties.                                                             *)
(***************************************************************************)
\* A set V of values that holds what they are made of, with keys from K: JSON
\* values of any depth are the elements of such a set.
Composed(V, K) ==
    \A v \in V :
        \/ v.is \in Scalars
        \/ v.is = "array" /\ v.elems \in Seq(V)
        \/ v.is = "object" /\ v.members \in Seq([key : K, val : V])

Printed == todo = <<>> /\ stack = <<>>

ObjectLoops == {i \in DOMAIN stack : stack[i].items.is = "object"}

\* A loop is at an element of its container: begin, which is only compared for
\* equality with end, is dereferenced in front of it, also when the container
\* was empty and when a call for the last element has returned.
LoopsInside ==
    \A i \in DOMAIN stack :
        /\ stack[i].items.is \in Containers
        /\ stack[i].index \in 1 .. Len(Items(stack[i].items))

\* The indentation that all calls share is that of the objects whose loops are
\* in progress, whatever arrays lie between them: every call of format leaves
\* depth as it found it, so what a value looks like does not depend on what was
\* printed in front of it, and the test of depth.size() never fails.
DepthIsNesting == depth = Tab * Cardinality(ObjectLoops)

=============================================================================
