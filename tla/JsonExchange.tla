----------------------------- MODULE JsonExchange -----------------------------
(***************************************************************************)
(* The push client's use of nlohmann/json.hpp: bodies that it writes with  *)
(* JsonDump, texts that it reads with JsonReader.                          *)
(*                                                                         *)
(* A behaviour is about one text. Either it is a body of the client's, and *)
(* what reads it stops somewhere (the connection was cut) or at the end;   *)
(* or it is an answer, any text put together from some fragments.          *)
(***************************************************************************)
EXTENDS JsonReader, JsonDump, JsonScalars

CONSTANTS
    Bodies,         \* what the client may have to write
    Families        \* what answers are made of: [fragments, most]

\* Objects of strings and of objects of strings, no name twice in one of them.
Bytes == 0..255
Strings0 == [kind : {"string"}, value : Seq(Bytes)]
ObjectsOf(values) ==
    {o \in [kind : {"object"}, members : Seq(Seq(Bytes) \X values)] :
        \A i, j \in 1..Len(o.members) : o.members[i][1] = o.members[j][1] => i = j}

ASSUME ClientBodies == Bodies \subseteq ObjectsOf(Strings0 \cup ObjectsOf(Strings0))

ASSUME AnswerFamilies ==
    \A f \in Families : f.most \in Nat /\ f.fragments \subseteq Seq(0..255) \ {<<>>}

VARIABLES
    body,       \* the value that is written, or none
    family,     \* what the answer is made of
    left,       \* how many fragments it may still have
    ahead,      \* what is left of a fragment
    text        \* the bytes that the reader was given

source == <<body, family, left, ahead>>
vars == <<reader, writer, source, text>>

NoBody == [kind |-> "none"]

-----------------------------------------------------------------------------
(* The values the client builds, from nested initializer lists.            *)

Str(bytes) == [kind |-> "string", value |-> bytes]

\* std::string's order, by bytes.
Less(a, b) ==
    \/ \E i \in 1..Len(a) : i <= Len(b) /\ a[i] < b[i] /\ \A j \in 1..(i - 1) : a[j] = b[j]
    \/ Len(a) < Len(b) /\ \A j \in 1..Len(a) : a[j] = b[j]

\* std::map::emplace: a key that is there keeps its value.
Emplace(members, key, value) ==
    IF \E i \in 1..Len(members) : members[i][1] = key THEN members
    ELSE SelectSeq(members, LAMBDA m : Less(m[1], key)) \o << <<key, value>> >>
            \o SelectSeq(members, LAMBDA m : Less(key, m[1]))

\* A list of pairs that begin with a string is an object, any other list an array.
IsPair(v) == v.kind = "array" /\ Len(v.items) = 2 /\ v.items[1].kind = "string"
List(values) ==
    LET upTo[n \in 0..Len(values)] ==
            IF n = 0 THEN <<>>
            ELSE Emplace(upTo[n - 1], values[n].items[1].value, values[n].items[2])
    IN  IF \A i \in 1..Len(values) : IsPair(values[i])
        THEN [kind |-> "object", members |-> upTo[Len(values)]]
        ELSE [kind |-> "array", items |-> values]

Named(key, value) == List(<<Str(key), value>>)

\* Login's body; its keys are an r and an s.
LoginBody(role, secret) == List(<<Named(<<114>>, Str(role)), Named(<<115>>, Str(secret))>>)

\* PushCert's: the member data holds seven strings, two of them here, k before c.
PushBody(key, chain) ==
    List(<<Named(<<100>>, List(<<Named(<<107>>, Str(key)), Named(<<99>>, Str(chain))>>))>>)

-----------------------------------------------------------------------------
Init ==
    /\ ReaderInit
    /\ text = <<>> /\ ahead = <<>>
    /\ \/ /\ body \in Bodies
          /\ DumpInit(body)
          /\ family = {} /\ left = 0
       \/ /\ body = NoBody
          /\ \E f \in Families : family = f.fragments /\ left = f.most
          /\ DumpInit(body)

Dump ==
    /\ body # NoBody
    /\ DumpNext
    /\ UNCHANGED <<reader, source, text>>

\* unget: the byte after a number is read twice.
ReadAgain ==
    /\ lex.unget
    /\ Read(lex.current)
    /\ UNCHANGED <<writer, source, text>>

ReadByte(c) ==
    /\ ~lex.unget
    /\ Read(c)
    /\ text' = Append(text, c)
    /\ UNCHANGED writer

\* Once it is written.
ReadBody ==
    /\ writing = "dumped"
    /\ Len(text) < Len(out)
    /\ ReadByte(out[Len(text) + 1])
    /\ UNCHANGED source

ReadFragment ==
    /\ body = NoBody /\ ahead = <<>> /\ left > 0
    /\ \E f \in family :
          /\ ReadByte(Head(f))
          /\ ahead' = Tail(f)
    /\ left' = left - 1
    /\ UNCHANGED <<body, family>>

ReadAhead ==
    /\ ahead # <<>>
    /\ ReadByte(Head(ahead))
    /\ ahead' = Tail(ahead)
    /\ UNCHANGED <<body, family, left>>

\* get() at the end of what there is, which is where an answer or a connection ends.
ReadEnd ==
    /\ ~lex.unget /\ ahead = <<>>
    /\ body = NoBody \/ writing = "dumped"
    /\ Read(EOF)
    /\ UNCHANGED <<writer, source, text>>

Next == Dump \/ ReadAgain \/ ReadBody \/ ReadFragment \/ ReadAhead \/ ReadEnd

Spec == Init /\ [][Next]_vars

TypeOK ==
    /\ outcome \in {"reading", "value", "parse_error", "out_of_range"}
    /\ expect \in Places
    /\ states \in Seq(BOOLEAN)
    /\ refs \in Seq(1..Len(nodes))
    /\ element.node \in 0..Len(nodes)
    /\ lex.buffer \in Seq(0..255) /\ lex.current \in 0..EOF /\ lex.unget \in BOOLEAN
    /\ text \in Seq(0..255) /\ ahead \in Seq(0..255) /\ left \in Nat
    /\ out \in Seq(Bytes) /\ buffer \in Seq(Bytes)
    /\ state \in 0..8 /\ codepoint \in Nat /\ touched \in Nat /\ next \in Nat
    /\ writing \in {"value", "members", "key", "text", "dumped", "threw"}

-----------------------------------------------------------------------------
(* Properties.                                                             *)

Children(v) == IF IsString(v) THEN {} ELSE {v.members[i][2] : i \in 1..Len(v.members)}
Parts(v) == {v} \cup Children(v) \cup UNION {Children(c) : c \in Children(v)}

\* The strings in a body, names included.
TextsOf(v) ==
    {p.value : p \in {q \in Parts(v) : IsString(q)}}
    \cup UNION {{p.members[i][1] : i \in 1..Len(p.members)} :
                   p \in {q \in Parts(v) : ~IsString(q)}}

\* The node is an object with the names that v has, and no others.
NamesOf(id, v) ==
    /\ nodes[id].kind = "object"
    /\ DOMAIN nodes[id].items = {v.members[i][1] : i \in 1..Len(v.members)}

SameString(id, v) ==
    id # 0 /\ nodes[id].kind = "value_string" /\ IsString(v) /\ nodes[id].value = v.value
SameObject(id, v) ==
    /\ id # 0 /\ ~IsString(v) /\ NamesOf(id, v)
    /\ \A i \in 1..Len(v.members) : SameString(nodes[id].items[v.members[i][1]], v.members[i][2])

\* The document is this body.
SameBody(v) ==
    /\ NamesOf(1, v)
    /\ \A i \in 1..Len(v.members) :
          LET id == nodes[1].items[v.members[i][1]]
          IN  SameString(id, v.members[i][2]) \/ SameObject(id, v.members[i][2])

\* What the client writes is read back as the same value. It throws for what is not UTF-8
\* and for nothing else, and of a body that is cut off no part is taken for a whole one.
RoundTrip ==
    body # NoBody =>
        /\ writing = "threw" => \E s \in TextsOf(body) : ~IsUtf8(s)
        /\ writing = "dumped" => \A s \in TextsOf(body) : IsUtf8(s)
        /\ outcome = "value" => text = out /\ SameBody(body)
        /\ outcome = "parse_error" => lex.current = EOF /\ text # out
        /\ outcome # "out_of_range"
=============================================================================
