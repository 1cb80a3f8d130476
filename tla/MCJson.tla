-------------------------------- MODULE MCJson --------------------------------
(***************************************************************************)
(* Bodies and answers for TLC, and the comparison with JsonReference.      *)
(***************************************************************************)
EXTENDS JsonExchange, JsonReference

-----------------------------------------------------------------------------
(* Answers.                                                                *)

\* { } [ ] , a space, "a":  "b":  1  null  "x"  and a NUL.
Structure ==
    [fragments |-> { <<123>>, <<125>>, <<91>>, <<93>>, <<44>>, <<32>>, <<34, 97, 34, 58>>,
                     <<34, 98, 34, 58>>, <<49>>, <<110, 117, 108, 108>>, <<34, 120, 34>>, <<0>> },
     most |-> 7]

\* Quote, a, backslash, \u, n, \uD83D, \uDE00, 00E9, a line feed, and sequences of UTF-8,
\* also broken ones.
Texts ==
    [fragments |-> { <<34>>, <<97>>, <<92>>, <<92, 117>>, <<110>>,
                     <<92, 117, 68, 56, 51, 68>>, <<92, 117, 68, 69, 48, 48>>,
                     <<48, 48, 69, 57>>, <<226, 130, 172>>, <<226, 130>>, <<172>>,
                     <<240, 159, 152, 128>>, <<244, 143, 191, 191>>, <<244, 144>>,
                     <<237, 160, 128>>, <<192, 128>>, <<10>> },
     most |-> 5]

\* 0 1 - + . e and a space.
Figures ==
    [fragments |-> {<<48>>, <<49>>, <<45>>, <<43>>, <<46>>, <<101>>, <<32>>}, most |-> 6]

\* A byte order mark, the beginning of one, true, tru, e, [ , ] and the end of a text.
Words ==
    [fragments |-> { <<239, 187, 191>>, <<239, 187>>, <<116, 114, 117, 101>>,
                     <<116, 114, 117>>, <<101>>, <<91>>, <<44>>, <<93>>, <<0>> },
     most |-> 5]

MCFamilies == {Structure, Texts, Figures, Words}

-----------------------------------------------------------------------------
(* Bodies.                                                                 *)

\* a, quote, backslash, a line feed, a control character, UTF-8 and what is none.
Pieces1 ==
    { <<97>>, <<34>>, <<92>>, <<10>>, <<1>>, <<226, 130, 172>>, <<240, 159, 152, 128>>,
      <<194>>, <<237, 160, 128>>, <<192, 128>>, <<255>> }

Pieces2 == {<<>>} \cup Pieces1 \cup {a \o b : a \in Pieces1, b \in Pieces1}
Pieces3 == Pieces2 \cup {a \o b : a \in Pieces1, b \in Pieces2}

MCBodies ==
    {LoginBody(<<97>>, s) : s \in Pieces3} \cup {PushBody(k, c) : k \in Pieces1, c \in Pieces1}

-----------------------------------------------------------------------------
(* Properties.                                                             *)

\* The value that a node of the document is.
RECURSIVE Tree(_)
Tree(id) ==
    LET node == nodes[id]
    IN  CASE node.kind = "array" ->
                [kind |-> "array", items |-> [i \in DOMAIN node.items |-> Tree(node.items[i])]]
          [] node.kind = "object" ->
                [kind |-> "object", items |-> [k \in DOMAIN node.items |-> Tree(node.items[k])]]
          [] OTHER -> [kind |-> node.kind, value |-> node.value]

Bom == <<239, 187, 191>>
WithoutBom(t) == IF Len(t) > 2 /\ SubSeq(t, 1, 3) = Bom THEN SubSeq(t, 4, Len(t)) ELSE t

\* What the parser takes for the text: up to a NUL, behind a byte order mark.
Content ==
    WithoutBom(IF text # <<>> /\ text[Len(text)] = 0 THEN SubSeq(text, 1, Len(text) - 1)
               ELSE text)

\* The string that a value has as its member b, in its member a.
TokenOf(v) ==
    LET member(x, k) == IF x.kind = "object" /\ k \in DOMAIN x.items THEN {x.items[k]} ELSE {}
    IN  {y.value : y \in {x \in UNION {member(z, <<98>>) : z \in member(v, <<97>>)} :
                             x.kind = "value_string"}}

\* An answer that json::parse accepts is JSON, and the document that Login reads its token
\* from is its value: no byte, escape, duplicate key or nesting is read as something else.
Understood ==
    outcome = "value" =>
        /\ Values(Content) = {Tree(1)}
        /\ ClientToken(<<97>>, <<98>>) = TokenOf(Tree(1))

\* How a text that is not at its end may go on.
Endings ==
    LET closing == { <<>>, <<34>>, <<93>>, <<125>>, <<34, 93>>, <<34, 125>>, <<49>>,
                     <<49, 125>>, <<58, 49, 125>>, <<34, 58, 49, 125>>,
                     <<128, 34>>, <<128, 128, 34>>, <<128, 128, 128, 34>>, <<48, 34>> }
    IN  IF lex.current \in {EOF, 0} THEN {<<>>} ELSE closing

\* An answer that is refused, at its end or before it, is no JSON and begins none: Vault's
\* answers are well-formed, so none of them ever becomes "Failed to parse".
NothingRefused ==
    outcome = "parse_error" => \A e \in Endings : Values(Content \o e) = {}
=============================================================================
