----------------------------- MODULE JsonGrammar -----------------------------
(***************************************************************************)
(* RFC 8259 without recursion: a text is JSON, and a document is its       *)
(* value, when there are tokens that the text can be cut into and a tree   *)
(* of spans of these tokens, one for each node of the document. This is no *)
(* code of the repository's; what json.hpp accepts is compared with it.    *)
(*                                                                         *)
(* A token is [kind, first, last, value]: the bytes from first to last. A  *)
(* span is [first, last, members]: the tokens from first to last, and the  *)
(* nodes that are written in it, in their order. A document is a sequence  *)
(* of nodes [kind, value, items]; its first node is the root.              *)
(***************************************************************************)
EXTENDS JsonScalars

Spaces == {32, 9, 10, 13}
Bom == <<239, 187, 191>>

Structural ==
    [begin_array |-> 91, end_array |-> 93, begin_object |-> 123, end_object |-> 125,
     name_separator |-> 58, value_separator |-> 44]

LiteralNames ==
    [literal_true |-> <<116, 114, 117, 101>>, literal_false |-> <<102, 97, 108, 115, 101>>,
     literal_null |-> <<110, 117, 108, 108>>]

-----------------------------------------------------------------------------
(* Strings.                                                                *)

\* What follows a backslash, and the byte that it stands for.
Shorts ==
    { <<34, 34>>, <<92, 92>>, <<47, 47>>, <<98, 8>>, <<102, 12>>, <<110, 10>>, <<114, 13>>,
      <<116, 9>> }

\* A hexadecimal digit is one of 0..15, any other byte none.
Nibbles(c) ==
    {n \in 0..15 : \/ c \in 48..57 /\ n = c - 48
                   \/ c \in 65..70 /\ n = c - 55
                   \/ c \in 97..102 /\ n = c - 87}

\* The code unit that \uXXXX is.
Units(r) ==
    IF Len(r) = 6 /\ r[1] = 92 /\ r[2] = 117
    THEN {4096 * a + 256 * b + 16 * c + d :
             a \in Nibbles(r[3]), b \in Nibbles(r[4]), c \in Nibbles(r[5]), d \in Nibbles(r[6])}
    ELSE {}

\* r is one character in a string, and v is its UTF-8: it stands for itself, or it is
\* escaped, with a letter, as a code unit or as a pair of surrogates.
CharOf(r, v) ==
    \/ r = v /\ \E cp \in Utf8CodePoints(r) : cp > 31 /\ cp \notin {34, 92}
    \/ \E s \in Shorts : r = <<92, s[1]>> /\ v = <<s[2]>>
    \/ \E unit \in Units(r) : unit \in Utf8CodePoints(v)
    \/ /\ Len(r) = 12
       /\ \E high \in Units(SubSeq(r, 1, 6)), low \in Units(SubSeq(r, 7, 12)) :
             /\ high \in 55296..56319 /\ low \in 56320..57343
             /\ 65536 + (high - 55296) * 1024 + (low - 56320) \in Utf8CodePoints(v)

\* Cut at p and at q, r is as many characters as v is, one for one.
CharsOf(r, v) ==
    \E n \in 0..Len(r) : \E p \in [0..n -> 0..Len(r)], q \in [0..n -> 0..Len(v)] :
        /\ p[0] = 0 /\ q[0] = 0 /\ p[n] = Len(r) /\ q[n] = Len(v)
        /\ \A i \in 1..n : CharOf(SubSeq(r, p[i - 1] + 1, p[i]), SubSeq(v, q[i - 1] + 1, q[i]))

StringOf(raw, v) ==
    /\ Len(raw) > 1 /\ raw[1] = 34 /\ raw[Len(raw)] = 34
    /\ CharsOf(SubSeq(raw, 2, Len(raw) - 1), v)

-----------------------------------------------------------------------------
(* Tokens.                                                                 *)

\* The bytes raw are a token of this kind, and v is what it says.
TokenOf(kind, raw, v) ==
    \/ kind \in DOMAIN Structural /\ raw = <<Structural[kind]>>
    \/ kind \in DOMAIN LiteralNames /\ raw = LiteralNames[kind]
    \/ kind = "value_string" /\ StringOf(raw, v)
    \/ [kind |-> kind, value |-> v] \in Numbers(raw)

KindSet ==
    DOMAIN Structural \cup DOMAIN LiteralNames
        \cup {"value_string", "value_unsigned", "value_integer", "value_float"}
TokenSet == [kind : KindSet, first : Nat, last : Nat, value : Seq(0..255)]

\* The bytes of t from one place to another are these tokens with spaces around them.
Lexed(t, from, to, tokens) ==
    /\ \A j \in 1..Len(tokens) :
          LET token == tokens[j]
          IN  /\ from <= token.first /\ token.first <= token.last /\ token.last <= to
              /\ j > 1 => tokens[j - 1].last < token.first
              /\ TokenOf(token.kind, SubSeq(t, token.first, token.last), token.value)
    /\ \A x \in from..to :
          t[x] \in Spaces \/ \E j \in 1..Len(tokens) : tokens[j].first <= x /\ x <= tokens[j].last

-----------------------------------------------------------------------------
(* Values.                                                                 *)

Opening == [array |-> "begin_array", object |-> "begin_object"]
Closing == [array |-> "end_array", object |-> "end_object"]

\* The last token of a container's first k members, or the one that opens it.
Upto(spans, i, k) == IF k = 0 THEN spans[i].first ELSE spans[spans[i].members[k]].last

\* Where member k begins, behind the opening bracket or a comma.
FirstOf(spans, i, k) == Upto(spans, i, k - 1) + (IF k = 1 THEN 1 ELSE 2)

NameOf(tokens, spans, member) == tokens[spans[member].first - 2].value

\* The members are there, one behind the other, and in an object each has a name.
MembersIn(tokens, kind, spans, i) ==
    \A k \in 1..Len(spans[i].members) :
        LET begin == FirstOf(spans, i, k)
            first == spans[spans[i].members[k]].first
        IN  /\ k > 1 => tokens[begin - 1].kind = "value_separator"
            /\ kind = "array" => first = begin
            /\ kind = "object" =>
                  /\ first = begin + 2
                  /\ tokens[begin].kind = "value_string"
                  /\ tokens[begin + 1].kind = "name_separator"

\* An object has the names of its members; of members of the same name it has the last one.
ItemsAre(items, tokens, spans, members) ==
    /\ DOMAIN items = {NameOf(tokens, spans, members[k]) : k \in 1..Len(members)}
    /\ \A k \in 1..Len(members) :
          LET name(j) == NameOf(tokens, spans, members[j])
          IN  (\A j \in (k + 1)..Len(members) : name(j) # name(k)) => items[name(k)] = members[k]

ScalarIs(token, node) ==
    /\ token.kind = node.kind
    /\ node.kind \in DOMAIN LiteralNames \/ node.value = token.value

ContainerIs(tokens, node, spans, i) ==
    /\ tokens[spans[i].first].kind = Opening[node.kind]
    /\ MembersIn(tokens, node.kind, spans, i)
    /\ spans[i].last = Upto(spans, i, Len(spans[i].members)) + 1
    /\ tokens[spans[i].last].kind = Closing[node.kind]
    /\ IF node.kind = "array" THEN node.items = spans[i].members
       ELSE ItemsAre(node.items, tokens, spans, spans[i].members)

\* The document is what the tokens say: all of them, and nothing else.
TreeOf(tokens, document, spans) ==
    /\ \A i \in 1..Len(document) :
          IF document[i].kind \in DOMAIN Opening THEN ContainerIs(tokens, document[i], spans, i)
          ELSE spans[i].last = spans[i].first /\ ScalarIs(tokens[spans[i].first], document[i])
    /\ spans[1].first = 1 /\ spans[1].last = Len(tokens)

-----------------------------------------------------------------------------
\* A byte order mark may come before the text, and a NUL ends it.
Starts(t) == {1} \cup {x \in {4} : Len(t) > 2 /\ SubSeq(t, 1, 3) = Bom}
Stops(t) == {Len(t)} \cup {x \in {Len(t) - 1} : Len(t) > 0 /\ t[Len(t)] = 0}

\* The text t is JSON, and its value is this document.
IsJson(t, document) ==
    \E from \in Starts(t), to \in Stops(t) :
        \E tokens \in Seq(TokenSet) :
            \E spans \in Seq([first : 1..Len(tokens), last : 1..Len(tokens),
                              members : Seq(1..Len(document))]) :
                /\ Len(spans) = Len(document) /\ Len(document) > 0
                /\ Lexed(t, from, to, tokens)
                /\ TreeOf(tokens, document, spans)
=============================================================================
