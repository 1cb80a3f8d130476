------------------------------ MODULE JsonReader ------------------------------
(***************************************************************************)
(* json::parse of nlohmann/json.hpp, with which the push client reads      *)
(* Vault's answers: the parser's loop (sax_parse_internal) and the handler *)
(* that builds the document (json_sax_dom_parser), driven by the lexer.    *)
(*                                                                         *)
(* A step reads one byte. The document is a heap of nodes; ref_stack and   *)
(* object_element point into it as the code's raw pointers do. The place   *)
(* of get_token() that the loop waits in is a variable.                    *)
(***************************************************************************)
EXTENDS JsonLexer

VARIABLES
    lex,        \* the lexer
    states,     \* the parser's stack: TRUE for an array, FALSE for an object
    expect,     \* where the parser waits for a token
    nodes,      \* the document: its first node is the root
    refs,       \* ref_stack: the containers that are open
    element,    \* object_element: the place of the next member's value
    outcome     \* how parse() ended

document == <<nodes, refs, element>>
parser == <<states, expect, document, outcome>>
reader == <<lex, parser>>

Nowhere == [node |-> 0, key |-> <<>>]
Containers == {"array", "object"}
BeginOf == [array |-> "begin_array", object |-> "begin_object"]
EndOf == [array |-> "end_array", object |-> "end_object"]
Places == {"value", "array", "object", "first colon", "colon", "element", "member", "key",
           "end"}

ReaderInit ==
    /\ lex = LexerStart
    /\ states = <<>>
    /\ expect = "value"
    /\ nodes = <<>>
    /\ refs = <<>>
    /\ element = Nowhere
    /\ outcome = "reading"

-----------------------------------------------------------------------------
(* json_sax_dom_parser.                                                    *)

Empty(kind) == [kind |-> kind, value |-> <<>>, items |-> <<>>]
Leaf(kind, value) == [kind |-> kind, value |-> value, items |-> <<>>]

Top == refs[Len(refs)]
Pop(stack) == SubSeq(stack, 1, Len(stack) - 1)

\* The member of this key is now this one; 0 is the null that key() puts there first.
WithMember(items, key, id) ==
    [k \in DOMAIN items \cup {key} |-> IF k = key THEN id ELSE items[k]]

\* A container with this value added: at the end of an array, at object_element.
Holding(id) ==
    IF nodes[Top].kind = "array"
    THEN [nodes EXCEPT ![Top].items = Append(@, id)]
    ELSE [nodes EXCEPT ![element.node].items = WithMember(@, element.key, id)]

\* The address of the value that handle_value has made.
New == Len(nodes) + 1

HandleValue(node) == nodes' = Append(IF refs = <<>> THEN nodes ELSE Holding(New), node)

\* Mutant: the pointer is to what is behind the new element, not to the element.
StartContainerBehind(kind) ==
    /\ HandleValue(Empty(kind))
    /\ refs' = Append(refs, New + 1)
    /\ UNCHANGED element

StartContainer(kind) ==
    /\ HandleValue(Empty(kind))
    /\ refs' = Append(refs, New)
    /\ UNCHANGED element

EndContainer ==
    /\ refs' = Pop(refs)
    /\ UNCHANGED <<nodes, element>>

\* A key that is there already keeps its value until the next one is assigned to it.
HandleKey(key) ==
    /\ element' = [node |-> Top, key |-> key]
    /\ nodes' = IF key \in DOMAIN nodes[Top].items THEN nodes
                ELSE [nodes EXCEPT ![Top].items = WithMember(@, key, 0)]
    /\ UNCHANGED refs

-----------------------------------------------------------------------------
(* sax_parse_internal, for the token it has waited for.                    *)

Numeric == {"value_unsigned", "value_integer", "value_float"}
Scalars == {"value_string", "literal_true", "literal_false", "literal_null"} \cup Numeric
ValueTokens == Scalars \cup {"begin_array", "begin_object"}

Expected(place) ==
    CASE place = "value" -> ValueTokens
      [] place = "array" -> ValueTokens \cup {"end_array"}
      [] place = "object" -> {"value_string", "end_object"}
      [] place \in {"first colon", "colon"} -> {"name_separator"}
      [] place = "element" -> {"value_separator", "end_array"}
      [] place = "member" -> {"value_separator", "end_object"}
      [] place = "key" -> {"value_string"}
      [] OTHER -> {"end_of_input"}

\* After [ the same token is looked at again, as the first element, one level deeper.
ValueExpected == expect \in {"value", "array"}
Level == IF expect = "array" THEN Append(states, TRUE) ELSE states

\* Where a value that is complete leads, inside of these containers.
After(stack) ==
    IF stack = <<>> THEN "end" ELSE IF stack[Len(stack)] THEN "element" ELSE "member"

Begin(token, kind) ==
    /\ ValueExpected /\ token = BeginOf[kind]
    /\ StartContainer(kind)
    /\ states' = Level
    /\ expect' = kind
    /\ UNCHANGED outcome

\* A container without elements has not been pushed to states yet.
EndEmpty(token) ==
    /\ expect \in Containers /\ token = EndOf[expect]
    /\ EndContainer
    /\ expect' = After(states)
    /\ UNCHANGED <<states, outcome>>

Value(token, text) ==
    /\ ValueExpected /\ token \in Scalars
    /\ HandleValue(Leaf(token, IF token \in {"literal_true", "literal_false", "literal_null"}
                               THEN <<>> ELSE text))
    /\ states' = Level
    /\ expect' = After(Level)
    /\ UNCHANGED <<refs, element, outcome>>

\* strtod returned infinity: without an exponent that takes 309 digits.
MayOverflow(text) == Len(text) > 308 \/ \E i \in 1..Len(text) : NumberClass(text[i]) = "e"

\* The only error of parse() that is no parse_error.
NumberOverflows(token, text) ==
    /\ ValueExpected /\ token \in Numeric /\ MayOverflow(text)
    /\ outcome' = "out_of_range"
    /\ states' = Level
    /\ UNCHANGED <<expect, document>>

Key(token, text) ==
    /\ expect \in {"object", "key"} /\ token = "value_string"
    /\ HandleKey(text)
    /\ expect' = IF expect = "object" THEN "first colon" ELSE "colon"
    /\ UNCHANGED <<states, outcome>>

\* Mutant: a member after a comma goes one level deeper, too.
NameSeparatorPushes(token) ==
    /\ expect \in {"first colon", "colon"} /\ token = "name_separator"
    /\ states' = Append(states, FALSE)
    /\ expect' = "value"
    /\ UNCHANGED <<document, outcome>>

\* The object is pushed to states after its first colon.
NameSeparator(token) ==
    /\ expect \in {"first colon", "colon"} /\ token = "name_separator"
    /\ states' = IF expect = "first colon" THEN Append(states, FALSE) ELSE states
    /\ expect' = "value"
    /\ UNCHANGED <<document, outcome>>

ValueSeparator(token) ==
    /\ expect \in {"element", "member"} /\ token = "value_separator"
    /\ expect' = IF expect = "element" THEN "value" ELSE "key"
    /\ UNCHANGED <<states, document, outcome>>

End(token) ==
    /\ \/ expect = "element" /\ token = "end_array"
       \/ expect = "member" /\ token = "end_object"
    /\ EndContainer
    /\ states' = Pop(states)
    /\ expect' = After(Pop(states))
    /\ UNCHANGED outcome

\* parse() is strict: nothing may follow the value.
Finish(token) ==
    /\ expect = "end" /\ token = "end_of_input"
    /\ outcome' = "value"
    /\ UNCHANGED <<states, expect, document>>

\* The lexer's error, the end of the input, or a token that is out of place.
Unexpected(token) ==
    /\ token \notin Expected(expect)
    /\ outcome' = "parse_error"
    /\ UNCHANGED <<states, expect, document>>

Parse(token, text) ==
    \/ \E kind \in Containers : Begin(token, kind)
    \/ EndEmpty(token)
    \/ Value(token, text)
    \/ NumberOverflows(token, text)
    \/ Key(token, text)
    \/ NameSeparator(token)
    \/ ValueSeparator(token)
    \/ End(token)
    \/ Finish(token)
    \/ Unexpected(token)

\* get() returned this byte.
Read(c) ==
    /\ outcome = "reading"
    /\ lex' = Scan(lex, c)
    /\ \/ lex'.token = "none" /\ UNCHANGED parser
       \/ lex'.token # "none" /\ Parse(lex'.token, lex'.buffer)

-----------------------------------------------------------------------------
(* What Login takes from the document.                                     *)

\* at(key) throws, which Login catches, if this is no object or has no such member.
At(id, key) ==
    IF id # 0 /\ nodes[id].kind = "object" /\ key \in DOMAIN nodes[id].items
    THEN nodes[id].items[key] ELSE 0

\* at("auth").at("client_token").get<std::string>(): the string, or none.
ClientToken(auth, clientToken) ==
    LET id == At(At(1, auth), clientToken)
    IN  IF id # 0 /\ nodes[id].kind = "value_string" THEN {nodes[id].value} ELSE {}

-----------------------------------------------------------------------------
(* Properties.                                                             *)

\* The containers that the handler has opened, as the parser's stack has them.
Kinds(stack) == [i \in 1..Len(stack) |-> IF stack[i] THEN "array" ELSE "object"]
Pending == IF expect \in {"array", "object"} THEN <<expect>>
           ELSE IF expect = "first colon" THEN <<"object">> ELSE <<>>

\* Parser and handler, which only their calls keep in step, agree on what is open.
StacksAgree ==
    outcome = "reading" =>
        [i \in 1..Len(refs) |-> nodes[refs[i]].kind] = Kinds(states) \o Pending

\* A value goes to the member whose key was just read in the innermost object.
ElementIsOfTop ==
    (outcome = "reading" /\ expect = "value" /\ states # <<>> /\ ~states[Len(states)]) =>
        element.node = Top /\ element.key \in DOMAIN nodes[Top].items

\* No pointer of ref_stack is left behind by a container that grew or was overwritten:
\* each points to what the one before it still holds, the last element of an array.
PointersHold ==
    outcome = "reading" =>
        \A i \in 2..Len(refs) :
            LET parent == nodes[refs[i - 1]]
            IN  IF parent.kind = "array"
                THEN parent.items # <<>> /\ parent.items[Len(parent.items)] = refs[i]
                ELSE \E k \in DOMAIN parent.items : parent.items[k] = refs[i]

\* The JSON_ASSERTs of key, end_object, end_array and handle_value, none of which a
\* release build checks (-DNDEBUG), hold for every answer, well-formed or not.
AssertionsHold == StacksAgree /\ ElementIsOfTop /\ PointersHold
=============================================================================
