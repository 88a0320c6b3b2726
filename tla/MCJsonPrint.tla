----------------------------- MODULE MCJsonPrint -----------------------------
(***************************************************************************)
(* JSON values three containers deep and two elements wide, printed and    *)
(* parsed again with parse_json.                                           *)
(***************************************************************************)
EXTENDS JsonPrint, Grammars

P == INSTANCE Peg WITH
        Node <- DOMAIN JsonGrammar, Grammar <- JsonGrammar, Sources <- {},
        mem <- <<>>, cur <- [begin |-> 0, end |-> 0], stack <- <<>>,
        ret <- <<>>, got <- <<>>

Written(kind, text) == [is |-> kind, text |-> text]
Array(elems) == [is |-> "array", elems |-> elems]
Object(members) == [is |-> "object", members |-> members]
Null == Written("null", <<"n">>)

\* What the leaf parsers of json-example.cpp can have returned, as it is
\* printed: the view of a string keeps its escape sequences.
MCScalars ==
    { Null, Written("number", <<"-", "1">>),
      Written("string", <<"\\", "\"", ",">>) }

MaxElements == 2
Keys == << <<>>, <<"a">> >>      \* in the order of the map

Lists(vs) == UNION {[1 .. n -> vs] : n \in 0 .. MaxElements}

Members(vs) ==
    {<<>>} \union {<<[key |-> k, val |-> v]>> : k \in {Keys[1], Keys[2]}, v \in vs}
           \union {<<[key |-> Keys[1], val |-> v], [key |-> Keys[2], val |-> w]>> :
                        v \in vs, w \in vs}

Containing(vs) ==
    {Array(l) : l \in Lists(vs)} \union {Object(m) : m \in Members(vs)}

\* Objects in containers in containers.
Inner == {Null, Object(<<>>), Object(<<[key |-> Keys[1], val |-> Null]>>)}
Middle == MCScalars \union Containing(Inner)
MCValues == MCScalars \union Containing(Middle)

\* What the proofs ask of the values holds of these.
ASSUME ValuesComposed ==
    Composed(MCValues \union Middle \union Inner, {Keys[1], Keys[2]})

----------------------------------------------------------------------------
RECURSIVE Leaves(_)

SX == INSTANCE SequencesExt

\* The scalars and keys of a value, in the order of the text.
Leaves(v) ==
    LET of(member) == <<Written("string", member.key)>> \o Leaves(member.val)
    IN  CASE v.is = "array" ->
                SX!FlattenSeq([i \in DOMAIN v.elems |-> Leaves(v.elems[i])])
          [] v.is = "object" ->
                SX!FlattenSeq([i \in DOMAIN v.members |-> of(v.members[i])])
          [] OTHER -> <<v>>

Parsed == P!Solution(out, "json", [begin |-> 1, end |-> Len(out) + 1])
Reread(token) == Written(token.leaf, SubSeq(out, token.from, token.to - 1))

\* What is printed for a value is text that parse_json reads to its end, with
\* the same keys and scalars in the same order: brackets, commas and escape
\* sequences come out as the parser wants them back.
PrintedParses ==
    Printed => \E m \in {Parsed} :
        /\ m.ok
        /\ m.st.begin = m.st.end
        /\ [i \in DOMAIN m.val |-> Reread(m.val[i])] = Leaves(value)

=============================================================================
