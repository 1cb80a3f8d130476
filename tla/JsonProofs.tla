------------------------------ MODULE JsonProofs ------------------------------
(***************************************************************************)
(* Proofs about the push client's use of nlohmann/json.hpp, for every body *)
(* and every answer: the writer stays inside its buffer, whatever its      *)
(* size; the reader's parser and handler agree, so that the assertions a   *)
(* release build leaves out hold; and whatever escapes and code points an  *)
(* answer has, what the lexer makes of them are bytes; and what the client *)
(* writes is read back as the same value.                                  *)
(*                                                                         *)
(* The invariants that say so come in this order: first those of the       *)
(* structure, for which a sequence is one "of some set"; then the lexer's  *)
(* types; then where the writer is in the body that it writes; and what    *)
(* the reader has when it was given the bytes up to such a place.          *)
(***************************************************************************)
EXTENDS JsonExchange, SequenceTheorems, TLAPS

IsSeq(s) == \E S : s \in Seq(S)

-----------------------------------------------------------------------------
(* Sequences of some set.                                                  *)

LEMMA AppendSeq ==
    ASSUME NEW s, IsSeq(s), NEW e
    PROVE  /\ IsSeq(Append(s, e))
           /\ Len(Append(s, e)) = Len(s) + 1
           /\ Append(s, e)[Len(s) + 1] = e
           /\ \A i \in 1..Len(s) : Append(s, e)[i] = s[i]
<1>1. PICK S : s \in Seq(S) BY DEF IsSeq
<1>2. s \in Seq(S \cup {e}) /\ e \in S \cup {e} BY <1>1
<1>3. Append(s, e) \in Seq(S \cup {e}) BY <1>2
<1> QED BY <1>2, <1>3 DEF IsSeq

LEMMA ConcatSeq ==
    ASSUME NEW s, NEW t, IsSeq(s), IsSeq(t)
    PROVE  IsSeq(s \o t) /\ Len(s \o t) = Len(s) + Len(t)
<1>1. PICK S : s \in Seq(S) BY DEF IsSeq
<1>2. PICK T : t \in Seq(T) BY DEF IsSeq
<1>3. s \in Seq(S \cup T) /\ t \in Seq(S \cup T) BY <1>1, <1>2
<1> QED BY <1>3 DEF IsSeq

LEMMA LenNat == ASSUME NEW s, IsSeq(s) PROVE Len(s) \in Nat
BY DEF IsSeq

LEMMA PopSeq ==
    ASSUME NEW s, IsSeq(s), Len(s) > 0
    PROVE  /\ IsSeq(Pop(s))
           /\ Len(Pop(s)) = Len(s) - 1
           /\ \A i \in 1..(Len(s) - 1) : Pop(s)[i] = s[i]
<1>1. PICK S : s \in Seq(S) BY DEF IsSeq
<1>2. Pop(s) \in Seq(S) /\ Len(Pop(s)) = Len(s) - 1
  <2>1. \A i \in 1..(Len(s) - 1) : s[i] \in S BY <1>1
  <2>2. Len(Pop(s)) = IF 1 <= Len(s) - 1 THEN (Len(s) - 1) - 1 + 1 ELSE 0
      BY <1>1, <2>1, SubSeqProperties DEF Pop
  <2>3. Pop(s) \in Seq(S) BY <1>1, <2>1, SubSeqProperties DEF Pop
  <2>4. Len(s) \in Nat BY <1>1
  <2>5. CASE Len(s) = 1 BY <2>2, <2>3, <2>5
  <2>6. CASE Len(s) > 1 BY <2>2, <2>3, <2>4, <2>6
  <2>7. PICK n \in Nat : n = Len(s) BY <2>4
  <2>8. n = 1 \/ n > 1 BY <2>7
  <2> QED BY <2>5, <2>6, <2>7, <2>8
<1>3. \A i \in 1..(Len(s) - 1) : Pop(s)[i] = s[i]
  <2>1. Len(s) \in Nat BY <1>1
  <2>2. \A i \in 1..(Len(s) - 1) : s[i] \in S BY <1>1, <2>1
  <2>3. \A i \in 1..((Len(s) - 1) - 1 + 1) : Pop(s)[i] = s[1 + i - 1]
      BY <2>1, <2>2, SubSeqProperties DEF Pop
  <2>4. (Len(s) - 1) - 1 + 1 = Len(s) - 1 BY <2>1
  <2>5. \A i \in 1..(Len(s) - 1) : 1 + i - 1 = i BY <2>1
  <2> QED BY <2>3, <2>4, <2>5
<1> QED BY <1>2, <1>3 DEF IsSeq

-----------------------------------------------------------------------------
(* The writer's buffer. Room for Reserve bytes is left whenever a code     *)
(* point is complete; the bytes of one that is not are at most three, and  *)
(* what completes it adds at most seven.                                   *)

\* How many bytes may have been copied since; in state 1 dump has thrown.
Copied(s) ==
    IF s \in {4, 5, 6, 7, 8} THEN 1 ELSE IF s = 3 THEN 2 ELSE IF s \in {1, 2} THEN 3 ELSE 0

WriterInv ==
    /\ IsSeq(buffer)
    /\ state \in 0..8
    /\ Len(buffer) <= BufferSize - Reserve + Copied(state)
    /\ touched \in Nat /\ touched <= BufferSize

LEMMA DecodeCopies ==
    ASSUME NEW from \in 0..8, NEW b, Decode(from, b) \notin {0, 1}
    PROVE  Decode(from, b) \in 0..8 /\ Copied(Decode(from, b)) >= Copied(from) + 1
<1> DEFINE moves == {m \in DecoderMoves : m[1] = from /\ m[2] = ByteType(b)}
<1>1. moves # {} BY DEF Decode
<1>2. PICK m \in moves : Decode(from, b) = m[3] BY <1>1 DEF Decode
<1>3. m \in DecoderMoves /\ m[1] = from BY <1>2
<1>4. PICK t \in 0..11 : m \in { <<0, t, 0>>, <<0, t, 2>>, <<0, t, 3>>, <<0, t, 5>>, <<0, t, 8>>,
        <<0, t, 7>>, <<0, t, 4>>, <<0, t, 6>>, <<2, t, 0>>, <<3, t, 2>>, <<4, t, 2>>,
        <<5, t, 2>>, <<6, t, 3>>, <<7, t, 3>>, <<8, t, 3>> }
    BY <1>3, SMTT(30) DEF DecoderMoves, Accepts
<1> QED BY <1>2, <1>3, <1>4 DEF Copied

LEMMA DecodeInRange ==
    ASSUME NEW from, NEW b PROVE Decode(from, b) \in 0..8
<1> DEFINE moves == {m \in DecoderMoves : m[1] = from /\ m[2] = ByteType(b)}
<1>1. CASE moves = {} BY <1>1 DEF Decode
<1>2. CASE moves # {}
  <2>1. PICK m \in moves : Decode(from, b) = m[3] BY <1>2 DEF Decode
  <2>2. m \in DecoderMoves BY <2>1
  <2>3. m[3] \in 0..8 BY <2>2, SMTT(30) DEF DecoderMoves, Accepts
  <2> QED BY <2>1, <2>3
<1> QED BY <1>1, <1>2

LEMMA EscapeFits ==
    ASSUME NEW cp, NEW b
    PROVE  IsSeq(Escape(cp, b)) /\ Len(Escape(cp, b)) \in {1, 2, 6}
<1> DEFINE e == (CHOOSE x \in ShortEscapes : x[1] = cp)[2]
           s == <<92, 117, 48, 48, Nibble(cp \div 16), Nibble(cp % 16)>>
<1>1. <<92, e>> \in Seq({92, e}) /\ Len(<<92, e>>) = 2 OBVIOUS
<1>2. /\ s \in Seq({92, 117, 48, Nibble(cp \div 16), Nibble(cp % 16)})
      /\ Len(s) = 6
    OBVIOUS
<1>3. <<b>> \in Seq({b}) /\ Len(<<b>>) = 1 OBVIOUS
<1> HIDE DEF e, s
<1>4. Escape(cp, b) \in {<<92, e>>, s, <<b>>} BY DEF Escape, e, s
<1> QED BY <1>1, <1>2, <1>3, <1>4 DEF IsSeq

LEMMA WriterStarts == ASSUME NEW v, DumpInit(v) PROVE WriterInv
<1>1. buffer \in Seq({}) /\ Len(buffer) = 0 BY DEF DumpInit
<1> QED BY <1>1, BufferBound DEF DumpInit, WriterInv, IsSeq, Copied, Reserve

\* One byte of a string: Reserve is the most that a code point needs.
LEMMA EscapeByteFits == WriterInv /\ EscapeByte => WriterInv'
<1> SUFFICES ASSUME WriterInv, EscapeByte PROVE WriterInv' OBVIOUS
<1> USE BufferBound DEF Reserve
<1>1. IsSeq(buffer) /\ Len(buffer) \in Nat /\ state \in 0..8 BY LenNat DEF WriterInv
<1>2. state' = Decode(state, NextByte) /\ state' \in 0..8 BY DecodeInRange DEF EscapeByte
<1>3. Len(buffer) <= BufferSize - 10 BY <1>1 DEF WriterInv, Copied
<1>4. CASE state' = 0
  <2> DEFINE cp == codepoint'
             esc == Escape(cp, NextByte)
             bytes == buffer \o esc
  <2>1. Flush(bytes) /\ touched' = Written(cp, NextByte) BY <1>4 DEF EscapeByte
  <2>2. IsSeq(esc) /\ Len(esc) \in {1, 2, 6} BY EscapeFits
  <2>3. IsSeq(bytes) /\ Len(bytes) = Len(buffer) + Len(esc) BY <1>1, <2>2, ConcatSeq
  <2>4. touched' = Len(buffer) + Len(esc) + IF Len(esc) = 6 THEN 1 ELSE 0
      BY <2>1 DEF Written
  <2>5. touched' \in Nat /\ touched' <= BufferSize
    <3> HIDE DEF esc
    <3>1. PICK n \in Nat : n = Len(buffer) BY <1>1
    <3>2. PICK m \in {1, 2, 6} : m = Len(esc) BY <2>2
    <3>3. touched' = n + m + IF m = 6 THEN 1 ELSE 0 BY <2>4, <3>1, <3>2
    <3>4. n <= BufferSize - 10 BY <1>3, <3>1
    <3> QED BY <3>3, <3>4
  <2>6. IsSeq(<<>>) /\ Len(<<>>) = 0 BY DEF IsSeq
  <2>7. IsSeq(buffer') /\ Len(buffer') <= BufferSize - 13
    <3> HIDE DEF bytes
    <3>1. Len(bytes) \in Nat BY <2>3, LenNat
    <3> QED BY <2>1, <2>3, <2>6, <3>1 DEF Flush
  <2> QED BY <1>2, <1>4, <2>5, <2>7 DEF WriterInv, Copied
<1>5. CASE state' = 1
    BY <1>5, <1>3, <1>1 DEF EscapeByte, WriterInv, Copied
<1>6. CASE state' \notin {0, 1}
  <2>1. buffer' = Append(buffer, NextByte) /\ touched' = Len(buffer') BY <1>6 DEF EscapeByte
  <2>2. IsSeq(buffer') /\ Len(buffer') = Len(buffer) + 1 BY <1>1, <2>1, AppendSeq
  <2>3. Copied(state') >= Copied(state) + 1 BY <1>1, <1>2, <1>6, DecodeCopies
  <2>4. Len(buffer') <= BufferSize - 13 + Copied(state')
    <3>1. Len(buffer) <= BufferSize - 13 + Copied(state) BY <1>1 DEF WriterInv
    <3>2. PICK n \in Nat : n = Len(buffer) BY <1>1
    <3>3. PICK x \in Int, y \in Int : x = Copied(state) /\ y = Copied(state')
        BY <1>1, <1>2 DEF Copied
    <3>4. Len(buffer') = n + 1 /\ n <= BufferSize - 13 + x /\ y >= x + 1
        BY <2>2, <2>3, <3>1, <3>2, <3>3
    <3> QED BY <3>3, <3>4, BufferBound
  <2>5. touched' <= BufferSize BY <1>2, <2>1, <2>4, <2>2, <1>1 DEF Copied
  <2> QED BY <1>1, <1>2, <2>1, <2>2, <2>4, <2>5 DEF WriterInv
<1> QED BY <1>4, <1>5, <1>6

LEMMA WriterSteps == WriterInv /\ [DumpNext]_writer => WriterInv'
<1> SUFFICES ASSUME WriterInv, [DumpNext]_writer PROVE WriterInv' OBVIOUS
<1>1. CASE UNCHANGED <<buffer, state, touched>> BY <1>1 DEF WriterInv
<1>2. CASE EscapeByte BY <1>2, EscapeByteFits
<1>3. CASE EndEscape
  <2>1. buffer' = <<>> /\ state = 0 /\ UNCHANGED <<state, touched>> BY <1>3 DEF EndEscape
  <2>2. IsSeq(<<>>) /\ Len(<<>>) = 0 BY DEF IsSeq
  <2> QED BY <2>1, <2>2, BufferBound DEF WriterInv, Copied, Reserve
<1> QED BY <1>1, <1>2, <1>3
        DEF DumpNext, WriteString, WriteObject, WriteMember, EndObject, IncompleteString, writer,
            escaper

-----------------------------------------------------------------------------
(* The reader's document.                                                  *)

NodeKinds == Containers \cup Scalars

IsDoc(d) ==
    /\ \E V, I : d \in Seq([kind : NodeKinds, value : V, items : I])
    /\ \A i \in 1..Len(d) : d[i].kind = "array" => d[i].items \in Seq(Nat)

\* A node whose items are replaced.
LEMMA NodeChanged ==
    ASSUME NEW d, IsDoc(d), NEW i \in 1..Len(d), NEW x,
           d[i].kind = "array" => x \in Seq(Nat)
    PROVE  LET e == [d EXCEPT ![i].items = x]
           IN  /\ IsDoc(e)
               /\ Len(e) = Len(d)
               /\ e[i].items = x
               /\ \A j \in 1..Len(d) : e[j].kind = d[j].kind /\ (j # i => e[j] = d[j])
<1> DEFINE e == [d EXCEPT ![i].items = x]
<1>1. PICK V, I : d \in Seq([kind : NodeKinds, value : V, items : I]) BY DEF IsDoc
<1> DEFINE Node == [kind : NodeKinds, value : V, items : I \cup {x}]
           n == [d[i] EXCEPT !.items = x]
<1>2. d \in Seq(Node) /\ d[i] \in Node
  <2> DEFINE Old == [kind : NodeKinds, value : V, items : I]
  <2>1. Old \subseteq Node OBVIOUS
  <2>2. d \in Seq(Old) BY <1>1
  <2> HIDE DEF Old, Node
  <2> QED BY <2>1, <2>2
<1>3. n \in Node /\ n.items = x /\ n.kind = d[i].kind BY <1>2
<1>4. e = [d EXCEPT ![i] = n] OBVIOUS
<1> HIDE DEF n, Node, e
<1>5. /\ e \in Seq(Node) /\ Len(e) = Len(d) /\ e[i] = n
      /\ \A j \in 1..Len(d) : j # i => e[j] = d[j]
    BY <1>2, <1>3, <1>4
<1>6. \A j \in 1..Len(d) : e[j].kind = d[j].kind BY <1>3, <1>5
<1>7. \A j \in 1..Len(e) : e[j].kind = "array" => e[j].items \in Seq(Nat)
    BY <1>3, <1>5, <1>6 DEF IsDoc
<1>8. IsDoc(e) BY <1>5, <1>7 DEF IsDoc, Node
<1> QED BY <1>3, <1>5, <1>6, <1>8 DEF e

\* A node that is added.
LEMMA NodeAdded ==
    ASSUME NEW d, IsDoc(d), NEW W, NEW n \in [kind : NodeKinds, value : W, items : {<<>>}]
    PROVE  /\ IsDoc(Append(d, n))
           /\ Len(d) \in Nat
           /\ Len(Append(d, n)) = Len(d) + 1
           /\ Append(d, n)[Len(d) + 1] = n
           /\ \A j \in 1..Len(d) : Append(d, n)[j] = d[j]
<1>1. PICK V, I : d \in Seq([kind : NodeKinds, value : V, items : I]) BY DEF IsDoc
<1> DEFINE Node == [kind : NodeKinds, value : V \cup W, items : I \cup {<<>>}]
           e == Append(d, n)
<1>2. d \in Seq(Node) /\ n \in Node
  <2> DEFINE Old == [kind : NodeKinds, value : V, items : I]
  <2>1. Old \subseteq Node /\ n \in Node OBVIOUS
  <2>2. d \in Seq(Old) BY <1>1
  <2> HIDE DEF Old, Node
  <2> QED BY <2>1, <2>2
<1>3. n.items \in Seq(Nat)
  <2>1. <<>> \in Seq(Nat) OBVIOUS
  <2> QED BY <2>1
<1> HIDE DEF Node
<1>4. /\ e \in Seq(Node) /\ Len(d) \in Nat /\ Len(e) = Len(d) + 1 /\ e[Len(d) + 1] = n
      /\ \A j \in 1..Len(d) : e[j] = d[j]
    BY <1>2
<1>5. \A j \in 1..Len(e) : e[j].kind = "array" => e[j].items \in Seq(Nat)
    BY <1>3, <1>4 DEF IsDoc
<1> HIDE DEF e
<1>6. IsDoc(e) BY <1>4, <1>5 DEF IsDoc, Node
<1> QED BY <1>4, <1>6 DEF e

-----------------------------------------------------------------------------
(* The parser's stack, as kinds.                                           *)

KindAt(s, i) == IF s[i] THEN "array" ELSE "object"

LEMMA PushedKinds ==
    ASSUME NEW s, IsSeq(s)
    PROVE  /\ \A i \in 1..Len(s) : /\ KindAt(Append(s, TRUE), i) = KindAt(s, i)
                                   /\ KindAt(Append(s, FALSE), i) = KindAt(s, i)
           /\ KindAt(Append(s, TRUE), Len(s) + 1) = "array"
           /\ KindAt(Append(s, FALSE), Len(s) + 1) = "object"
BY AppendSeq DEF KindAt

LEMMA AfterWhat ==
    ASSUME NEW s, IsSeq(s)
    PROVE  \/ Len(s) = 0 /\ After(s) = "end"
           \/ Len(s) > 0 /\ KindAt(s, Len(s)) = "array" /\ After(s) = "element"
           \/ Len(s) > 0 /\ KindAt(s, Len(s)) = "object" /\ After(s) = "member"
<1>1. PICK S : s \in Seq(S) BY DEF IsSeq
<1>2. Len(s) \in Nat BY <1>1
<1>3. s = <<>> \/ Len(s) > 0 BY <1>1, EmptySeq
<1>4. s = <<>> => Len(s) = 0 OBVIOUS
<1> QED BY <1>2, <1>3, <1>4 DEF After, KindAt

-----------------------------------------------------------------------------
(* The invariant of the reader.                                            *)

ReaderTypes ==
    /\ IsSeq(states)
    /\ refs \in Seq(Nat)
    /\ IsDoc(nodes)

\* ref_stack points into the document, to ever newer containers.
Rising ==
    /\ \A i \in 1..Len(refs) : refs[i] \in 1..Len(nodes)
    /\ \A i, j \in 1..Len(refs) : i < j => refs[i] < refs[j]

\* A container that is open for the handler and not yet on the parser's stack.
HasPending == expect \in {"array", "object", "first colon"}

Depths == Len(refs) = Len(states) + IF HasPending THEN 1 ELSE 0

KindsMatch ==
    /\ \A i \in 1..Len(states) : nodes[refs[i]].kind = KindAt(states, i)
    /\ HasPending =>
          nodes[refs[Len(refs)]].kind = IF expect = "array" THEN "array" ELSE "object"

\* What the place in the parser's code says of the innermost container.
PlaceMatches ==
    /\ expect = "element" => Len(states) > 0 /\ KindAt(states, Len(states)) = "array"
    /\ expect \in {"member", "key", "colon"} =>
          Len(states) > 0 /\ KindAt(states, Len(states)) = "object"

\* object_element points into the innermost container as soon as a key was read.
ElementHeld ==
    \/ expect \in {"first colon", "colon"}
    \/ expect = "value" /\ Len(states) > 0 /\ KindAt(states, Len(states)) = "object"
    => /\ element.node = Top
       /\ element.key \in DOMAIN nodes[Top].items

\* PointersHold, one step after the other.
Chained ==
    \A i \in 2..Len(refs) :
        LET parent == nodes[refs[i - 1]]
        IN  IF parent.kind = "array"
            THEN parent.items # <<>> /\ parent.items[Len(parent.items)] = refs[i]
            ELSE \E k \in DOMAIN parent.items : parent.items[k] = refs[i]

Agree == Rising /\ Depths /\ KindsMatch /\ PlaceMatches /\ ElementHeld /\ Chained

ReaderInv == ReaderTypes /\ (outcome = "reading" => Agree)

LEMMA Lengths == ReaderTypes => Len(states) \in Nat /\ Len(refs) \in Nat /\ Len(nodes) \in Nat
BY LenNat DEF ReaderTypes, IsDoc

\* The innermost container, before a value.
LEMMA TopBeforeValue ==
    ASSUME ReaderTypes, Agree, ValueExpected, refs # <<>>
    PROVE  /\ Len(refs) > 0 /\ Top \in 1..Len(nodes)
           /\ \/ nodes[Top].kind = "array"
              \/ /\ nodes[Top].kind = "object"
                 /\ element.node = Top /\ element.key \in DOMAIN nodes[Top].items
<1>1. Len(refs) \in Nat /\ Len(refs) > 0 BY EmptySeq DEF ReaderTypes
<1>2. Top \in 1..Len(nodes) BY <1>1 DEF Agree, Rising, Top
<1>3. CASE expect = "array"
    BY <1>1, <1>2, <1>3 DEF Agree, KindsMatch, HasPending, Top
<1>4. CASE expect = "value"
  <2>1. Len(states) = Len(refs) BY <1>4, Lengths DEF Agree, Depths, HasPending
  <2>2. nodes[Top].kind = KindAt(states, Len(states))
      BY <1>1, <2>1 DEF Agree, KindsMatch, Top
  <2> QED BY <1>1, <1>2, <1>4, <2>1, <2>2 DEF Agree, ElementHeld, KindAt
<1> QED BY <1>3, <1>4 DEF ValueExpected

\* The stack that the value is in.
LEMMA LevelMatches ==
    ASSUME ReaderTypes, Agree, ValueExpected
    PROVE  /\ IsSeq(Level)
           /\ Len(Level) = Len(refs)
           /\ \A i \in 1..Len(refs) : nodes[refs[i]].kind = KindAt(Level, i)
<1>1. Len(states) \in Nat /\ Len(refs) \in Nat BY Lengths
<1>2. CASE expect = "array"
  <2>1. IsSeq(Level) /\ Len(Level) = Len(states) + 1
      BY <1>2, AppendSeq DEF ReaderTypes, Level
  <2>2. Len(refs) = Len(states) + 1 BY <1>1, <1>2 DEF Agree, Depths, HasPending
  <2>3. nodes[refs[Len(refs)]].kind = "array"
      BY <1>2 DEF Agree, KindsMatch, HasPending
  <2>4. KindAt(Level, Len(states) + 1) = "array"
      BY <1>2, PushedKinds DEF ReaderTypes, Level
  <2>5. \A i \in 1..Len(states) : nodes[refs[i]].kind = KindAt(Level, i)
      BY <1>2, PushedKinds DEF ReaderTypes, Level, Agree, KindsMatch
  <2> QED BY <1>1, <2>1, <2>2, <2>3, <2>4, <2>5
<1>3. CASE expect = "value"
  <2>1. Level = states /\ Len(states) = Len(refs)
      BY <1>1, <1>3 DEF Agree, Depths, HasPending, Level
  <2> QED BY <2>1 DEF ReaderTypes, Agree, KindsMatch
<1> QED BY <1>2, <1>3 DEF ValueExpected

\* handle_value changes the innermost container only, and that one holds the value now.
LEMMA ValueHandled ==
    ASSUME ReaderTypes, Agree, ValueExpected,
           NEW W, NEW n \in [kind : NodeKinds, value : W, items : {<<>>}], HandleValue(n)
    PROVE  /\ IsDoc(nodes')
           /\ Len(nodes') = Len(nodes) + 1 /\ nodes'[New] = n
           /\ \A i \in 1..Len(nodes) : nodes'[i].kind = nodes[i].kind
           /\ \A i \in 1..Len(nodes) : refs = <<>> \/ i # Top => nodes'[i] = nodes[i]
           /\ refs # <<>> =>
                IF nodes[Top].kind = "array"
                THEN nodes'[Top].items # <<>> /\ nodes'[Top].items[Len(nodes'[Top].items)] = New
                ELSE \E k \in DOMAIN nodes'[Top].items : nodes'[Top].items[k] = New
<1>1. IsDoc(nodes) /\ Len(nodes) \in Nat BY Lengths DEF ReaderTypes
<1>2. CASE refs = <<>>
  <2>1. nodes' = Append(nodes, n) BY <1>2 DEF HandleValue
  <2> QED BY <1>1, <1>2, <2>1, NodeAdded DEF New
<1>3. CASE refs # <<>>
  <2>1. /\ Top \in 1..Len(nodes)
        /\ \/ nodes[Top].kind = "array"
           \/ /\ nodes[Top].kind = "object"
              /\ element.node = Top /\ element.key \in DOMAIN nodes[Top].items
      BY <1>3, TopBeforeValue
  <2> DEFINE items == IF nodes[Top].kind = "array" THEN Append(nodes[Top].items, New)
                      ELSE WithMember(nodes[Top].items, element.key, New)
             d == [nodes EXCEPT ![Top].items = items]
  <2>2. nodes' = Append(d, n) BY <1>3, <2>1 DEF HandleValue, Holding
  <2>3. nodes[Top].kind = "array" =>
           /\ items \in Seq(Nat) /\ items # <<>> /\ items[Len(items)] = New
    <3> SUFFICES ASSUME nodes[Top].kind = "array"
                 PROVE  items \in Seq(Nat) /\ items # <<>> /\ items[Len(items)] = New
        OBVIOUS
    <3>1. nodes[Top].items \in Seq(Nat) /\ New \in Nat BY <1>1, <2>1 DEF IsDoc, New
    <3>2. items = Append(nodes[Top].items, New) OBVIOUS
    <3> HIDE DEF items
    <3> QED BY <3>1, <3>2, AppendProperties
  <2>4. nodes[Top].kind # "array" => \E k \in DOMAIN items : items[k] = New
    <3> SUFFICES ASSUME nodes[Top].kind # "array" PROVE \E k \in DOMAIN items : items[k] = New
        OBVIOUS
    <3>1. element.key \in DOMAIN items /\ items[element.key] = New BY DEF WithMember
    <3> QED BY <3>1
  <2> HIDE DEF items
  <2>5. /\ IsDoc(d) /\ Len(d) = Len(nodes) /\ d[Top].items = items
        /\ \A j \in 1..Len(nodes) : d[j].kind = nodes[j].kind /\ (j # Top => d[j] = nodes[j])
    <3>1. IsDoc(nodes) /\ Top \in 1..Len(nodes) BY <1>1, <2>1
    <3>2. nodes[Top].kind = "array" => items \in Seq(Nat) BY <2>3
    <3> QED BY <3>1, <3>2, NodeChanged
  <2> HIDE DEF d
  <2>6. /\ IsDoc(nodes') /\ Len(nodes') = Len(nodes) + 1 /\ nodes'[Len(nodes) + 1] = n
        /\ \A j \in 1..Len(nodes) : nodes'[j] = d[j]
      BY <2>2, <2>5, NodeAdded
  <2>7. nodes'[Top].items = items BY <2>1, <2>5, <2>6
  <2> QED BY <1>3, <2>3, <2>4, <2>5, <2>6, <2>7 DEF New
<1> QED BY <1>2, <1>3

-----------------------------------------------------------------------------
(* The parser's steps, one lemma for each.                                 *)

LEMMA BeginAgrees ==
    ASSUME ReaderTypes, Agree, NEW token, NEW kind \in Containers, Begin(token, kind)
    PROVE  ReaderTypes' /\ Agree'
<1> DEFINE n == Empty(kind)
<1>1. /\ ValueExpected /\ HandleValue(n) /\ refs' = Append(refs, New)
      /\ states' = Level /\ expect' = kind
    BY DEF Begin, StartContainer
<1>2. /\ n \in [kind : NodeKinds, value : {<<>>}, items : {<<>>}] /\ n.kind = kind
      /\ kind = "array" \/ kind = "object"
  <2>1. kind = "array" \/ kind = "object" BY DEF Containers
  <2>2. kind \in NodeKinds BY DEF NodeKinds
  <2>3. n = [kind |-> kind, value |-> <<>>, items |-> <<>>] BY DEF Empty
  <2> QED BY <2>1, <2>2, <2>3
<1> HIDE DEF n
<1>3. /\ IsDoc(nodes') /\ Len(nodes') = Len(nodes) + 1 /\ nodes'[New] = n
      /\ \A i \in 1..Len(nodes) : nodes'[i].kind = nodes[i].kind
      /\ \A i \in 1..Len(nodes) : refs = <<>> \/ i # Top => nodes'[i] = nodes[i]
      /\ refs # <<>> =>
           IF nodes[Top].kind = "array"
           THEN nodes'[Top].items # <<>> /\ nodes'[Top].items[Len(nodes'[Top].items)] = New
           ELSE \E k \in DOMAIN nodes'[Top].items : nodes'[Top].items[k] = New
    BY <1>1, <1>2, ValueHandled
<1>4. /\ IsSeq(states') /\ Len(states') = Len(refs)
      /\ \A i \in 1..Len(refs) : nodes[refs[i]].kind = KindAt(states', i)
    BY <1>1, LevelMatches
<1>5. Len(refs) \in Nat /\ Len(nodes) \in Nat /\ New = Len(nodes) + 1 BY Lengths DEF New
<1>6. /\ refs' \in Seq(Nat) /\ Len(refs') = Len(refs) + 1 /\ refs'[Len(refs) + 1] = New
      /\ \A i \in 1..Len(refs) : refs'[i] = refs[i]
    BY <1>1, <1>5, AppendProperties DEF ReaderTypes
<1>7. ReaderTypes' BY <1>3, <1>4, <1>6 DEF ReaderTypes
<1>8. \A i \in 1..Len(refs) : refs[i] \in 1..Len(nodes) BY DEF Agree, Rising
<1>9. Rising'
  <2>1. \A i, j \in 1..Len(refs) : i < j => refs[i] < refs[j] BY DEF Agree, Rising
  <2>2. \A i \in 1..Len(refs) : refs[i] < New BY <1>5, <1>8
  <2>3. \A i \in 1..Len(refs') : refs'[i] \in 1..Len(nodes')
    <3> SUFFICES ASSUME NEW i \in 1..Len(refs') PROVE refs'[i] \in 1..Len(nodes')
        OBVIOUS
    <3>1. i \in 1..Len(refs) \/ i = Len(refs) + 1 BY <1>5, <1>6
    <3>2. CASE i \in 1..Len(refs)
      <4>1. refs'[i] = refs[i] /\ refs[i] \in 1..Len(nodes) BY <1>6, <1>8, <3>2
      <4> QED BY <1>3, <1>5, <4>1
    <3>3. CASE i = Len(refs) + 1
      <4>1. refs'[i] = Len(nodes) + 1 BY <1>5, <1>6, <3>3
      <4> QED BY <1>3, <1>5, <4>1
    <3> QED BY <3>1, <3>2, <3>3
  <2>4. \A i, j \in 1..Len(refs') : i < j => refs'[i] < refs'[j]
    <3> SUFFICES ASSUME NEW i \in 1..Len(refs'), NEW j \in 1..Len(refs'), i < j
                 PROVE  refs'[i] < refs'[j]
        OBVIOUS
    <3>1. i \in 1..Len(refs) /\ (j \in 1..Len(refs) \/ j = Len(refs) + 1) BY <1>5, <1>6
    <3> QED BY <1>6, <2>1, <2>2, <3>1
  <2> QED BY <2>3, <2>4 DEF Rising
<1>10. HasPending' BY <1>1, <1>2 DEF HasPending
<1>11. Depths' BY <1>4, <1>5, <1>6, <1>10 DEF Depths
<1>12. KindsMatch'
  <2>1. \A i \in 1..Len(states') : nodes'[refs'[i]].kind = KindAt(states', i)
      BY <1>3, <1>4, <1>6, <1>8
  <2>2. nodes'[refs'[Len(refs')]].kind = kind BY <1>2, <1>3, <1>6
  <2> QED BY <1>1, <1>2, <2>1, <2>2 DEF KindsMatch, KindAt
<1>13. PlaceMatches' /\ ElementHeld' BY <1>1, <1>2 DEF PlaceMatches, ElementHeld
<1>14. Chained'
  <2> SUFFICES ASSUME NEW i \in 2..Len(refs')
               PROVE  LET parent == nodes'[refs'[i - 1]]
                      IN  IF parent.kind = "array"
                          THEN parent.items # <<>> /\ parent.items[Len(parent.items)] = refs'[i]
                          ELSE \E k \in DOMAIN parent.items : parent.items[k] = refs'[i]
      BY DEF Chained
  <2>1. CASE i <= Len(refs)
    <3>1. i \in 2..Len(refs) /\ i - 1 \in 1..Len(refs) BY <1>5, <2>1
    <3>2. refs[i - 1] < refs[Len(refs)] BY <1>5, <3>1 DEF Agree, Rising
    <3>3. refs[i - 1] # Top /\ refs[i - 1] \in 1..Len(nodes) BY <1>8, <3>1, <3>2 DEF Top
    <3>4. refs'[i - 1] = refs[i - 1]
      <4>1. i - 1 \in 1..Len(refs) BY <3>1
      <4> QED BY <1>5, <1>6, <4>1
    <3>5. refs'[i] = refs[i]
      <4>1. i \in 1..Len(refs) BY <2>1, <3>1
      <4> QED BY <1>5, <1>6, <4>1
    <3>6. nodes'[refs[i - 1]] = nodes[refs[i - 1]] BY <1>3, <3>3
    <3> QED BY <3>1, <3>4, <3>5, <3>6 DEF Agree, Chained
  <2>2. CASE i = Len(refs) + 1
    <3>1. Len(refs) \in 1..Len(refs) /\ i - 1 = Len(refs) /\ refs # <<>> BY <1>5, <2>2
    <3>2. refs'[i - 1] = Top /\ refs'[i] = New /\ Top \in 1..Len(nodes)
        BY <1>6, <1>8, <2>2, <3>1 DEF Top
    <3> QED BY <1>3, <3>1, <3>2
  <2> QED BY <1>5, <1>6, <2>1, <2>2
<1> QED BY <1>7, <1>9, <1>11, <1>12, <1>13, <1>14 DEF Agree

\* What After() says of a place.
LEMMA AfterMatches ==
    ASSUME IsSeq(states)', expect' = After(states')
    PROVE  ~HasPending' /\ PlaceMatches' /\ ElementHeld' /\ expect' \notin Containers
<1> DEFINE s == states'
<1>1. \/ Len(s) = 0 /\ After(s) = "end"
      \/ Len(s) > 0 /\ KindAt(s, Len(s)) = "array" /\ After(s) = "element"
      \/ Len(s) > 0 /\ KindAt(s, Len(s)) = "object" /\ After(s) = "member"
    BY AfterWhat
<1> QED BY <1>1 DEF HasPending, PlaceMatches, ElementHeld, Containers

LEMMA ValueAgrees ==
    ASSUME ReaderTypes, Agree, NEW token, NEW text0, Value(token, text0)
    PROVE  ReaderTypes' /\ Agree'
<1> DEFINE value == IF token \in {"literal_true", "literal_false", "literal_null"}
                    THEN <<>> ELSE text0
           n == Leaf(token, value)
<1>1. /\ ValueExpected /\ HandleValue(n) /\ states' = Level /\ expect' = After(Level)
      /\ refs' = refs /\ element' = element /\ token \in Scalars
    BY DEF Value
<1> HIDE DEF value
<1>2. n \in [kind : NodeKinds, value : {value}, items : {<<>>}]
    BY <1>1 DEF Leaf, NodeKinds
<1> HIDE DEF n
<1>3. /\ IsDoc(nodes') /\ Len(nodes') = Len(nodes) + 1
      /\ \A i \in 1..Len(nodes) : nodes'[i].kind = nodes[i].kind
      /\ \A i \in 1..Len(nodes) : refs = <<>> \/ i # Top => nodes'[i] = nodes[i]
    BY <1>1, <1>2, ValueHandled
<1>4. /\ IsSeq(states') /\ Len(states') = Len(refs)
      /\ \A i \in 1..Len(refs) : nodes[refs[i]].kind = KindAt(states', i)
    BY <1>1, LevelMatches
<1>5. Len(refs) \in Nat /\ Len(nodes) \in Nat BY Lengths
<1>6. ReaderTypes' BY <1>1, <1>3, <1>4 DEF ReaderTypes
<1>7. \A i \in 1..Len(refs) : refs[i] \in 1..Len(nodes) BY DEF Agree, Rising
<1>8. Rising'
  <2>1. \A i \in 1..Len(refs) : refs[i] \in 1..Len(nodes') BY <1>3, <1>5, <1>7
  <2> QED BY <1>1, <2>1 DEF Agree, Rising
<1>9. ~HasPending' /\ PlaceMatches' /\ ElementHeld' BY <1>1, <1>4, AfterMatches
<1>10. Depths' BY <1>1, <1>4, <1>5, <1>9 DEF Depths
<1>11. KindsMatch' BY <1>1, <1>3, <1>4, <1>7, <1>9 DEF KindsMatch
<1>12. Chained'
  <2> SUFFICES ASSUME NEW i \in 2..Len(refs)
               PROVE  LET parent == nodes'[refs[i - 1]]
                      IN  IF parent.kind = "array"
                          THEN parent.items # <<>> /\ parent.items[Len(parent.items)] = refs[i]
                          ELSE \E k \in DOMAIN parent.items : parent.items[k] = refs[i]
      BY <1>1, ZenonT(30) DEF Chained
  <2>1. i - 1 \in 1..Len(refs) /\ i - 1 < Len(refs) /\ Len(refs) \in 1..Len(refs) BY <1>5
  <2>2. refs[i - 1] < refs[Len(refs)] BY <2>1 DEF Agree, Rising
  <2>3. refs[i - 1] # Top /\ refs[i - 1] \in 1..Len(nodes) BY <1>7, <2>1, <2>2 DEF Top
  <2>4. nodes'[refs[i - 1]] = nodes[refs[i - 1]] BY <1>3, <2>3
  <2> QED BY <2>4 DEF Agree, Chained
<1> QED BY <1>6, <1>8, <1>9, <1>10, <1>11, <1>12 DEF Agree

\* A container that ends is taken from ref_stack; what is left on states is around it.
LEMMA Popped ==
    ASSUME ReaderTypes, Agree, Len(refs) > 0, refs' = Pop(refs), nodes' = nodes,
           IsSeq(states)', Len(states') = Len(refs) - 1,
           \A i \in 1..(Len(refs) - 1) : KindAt(states', i) = KindAt(states, i),
           Len(states) >= Len(refs) - 1, expect' = After(states')
    PROVE  ReaderTypes' /\ Agree'
<1>1. Len(refs) \in Nat /\ Len(states) \in Nat BY Lengths
<1>2. IsSeq(refs) BY DEF IsSeq, ReaderTypes
<1>3. /\ Len(refs') = Len(refs) - 1
      /\ \A i \in 1..(Len(refs) - 1) : refs'[i] = refs[i]
    BY <1>2, PopSeq
<1>4. refs' \in Seq(Nat)
  <2>1. \A i \in 1..(Len(refs) - 1) : refs[i] \in Nat BY <1>1 DEF ReaderTypes
  <2> QED BY <1>1, <2>1, SubSeqProperties DEF Pop
<1>5. ReaderTypes' BY <1>4 DEF ReaderTypes
<1>6. ~HasPending' /\ PlaceMatches' /\ ElementHeld' BY AfterMatches
<1>7. PICK n \in Nat : Len(refs) = n + 1 BY <1>1
<1>8. Len(refs') = n /\ Len(states') = n /\ \A i \in 1..n : i \in 1..Len(refs) /\ i \in 1..Len(states)
    BY <1>1, <1>3, <1>7
<1>9. \A i \in 1..n : refs'[i] = refs[i] /\ KindAt(states', i) = KindAt(states, i)
    BY <1>3, <1>7
<1>10. Rising' BY <1>8, <1>9 DEF Agree, Rising
<1>11. Depths' BY <1>6, <1>8 DEF Depths
<1>12. KindsMatch' BY <1>6, <1>8, <1>9 DEF Agree, KindsMatch
<1>13. Chained'
  <2> SUFFICES ASSUME NEW i \in 2..n
               PROVE  LET parent == nodes[refs'[i - 1]]
                      IN  IF parent.kind = "array"
                          THEN parent.items # <<>> /\ parent.items[Len(parent.items)] = refs'[i]
                          ELSE \E k \in DOMAIN parent.items : parent.items[k] = refs'[i]
      BY <1>8 DEF Chained
  <2>1. i \in 2..Len(refs) /\ i \in 1..n /\ i - 1 \in 1..n BY <1>7
  <2>2. refs'[i] = refs[i] /\ refs'[i - 1] = refs[i - 1] BY <1>9, <2>1
  <2> QED BY <2>1, <2>2 DEF Agree, Chained
<1> QED BY <1>5, <1>6, <1>10, <1>11, <1>12, <1>13 DEF Agree

LEMMA EndEmptyAgrees ==
    ASSUME ReaderTypes, Agree, NEW token, EndEmpty(token)
    PROVE  ReaderTypes' /\ Agree'
<1>1. /\ expect \in Containers /\ refs' = Pop(refs) /\ nodes' = nodes /\ states' = states
      /\ expect' = After(states)
    BY DEF EndEmpty, EndContainer
<1>2. HasPending BY <1>1 DEF HasPending, Containers
<1>3. PICK n \in Nat : n = Len(states) /\ Len(refs) = n + 1
    BY <1>2, Lengths DEF Agree, Depths
<1>4. /\ Len(refs) > 0 /\ IsSeq(states)' /\ Len(states') = Len(refs) - 1
      /\ Len(states) >= Len(refs) - 1
    BY <1>1, <1>3 DEF ReaderTypes
<1> QED BY <1>1, <1>4, Popped

LEMMA EndAgrees ==
    ASSUME ReaderTypes, Agree, NEW token, End(token)
    PROVE  ReaderTypes' /\ Agree'
<1>1. /\ expect \in {"element", "member"} /\ refs' = Pop(refs) /\ nodes' = nodes
      /\ states' = Pop(states) /\ expect' = After(Pop(states))
    BY DEF End, EndContainer
<1>2. ~HasPending /\ Len(states) > 0 BY <1>1 DEF HasPending, Agree, PlaceMatches
<1>3. PICK n \in Nat : n = Len(states) /\ Len(refs) = n /\ n > 0
    BY <1>2, Lengths DEF Agree, Depths
<1>4. /\ IsSeq(states)' /\ Len(states') = Len(states) - 1
      /\ \A i \in 1..(Len(states) - 1) : states'[i] = states[i]
    BY <1>1, <1>2, PopSeq DEF ReaderTypes
<1>5. /\ Len(refs) > 0 /\ Len(states') = Len(refs) - 1 /\ Len(states) >= Len(refs) - 1
      /\ \A i \in 1..(Len(refs) - 1) : KindAt(states', i) = KindAt(states, i)
    BY <1>3, <1>4 DEF KindAt
<1> QED BY <1>1, <1>4, <1>5, Popped

\* A key: the innermost container is an object, and has that member now.
LEMMA KeyAgrees ==
    ASSUME ReaderTypes, Agree, NEW token, NEW text0, Key(token, text0)
    PROVE  ReaderTypes' /\ Agree'
<1> DEFINE changed == WithMember(nodes[Top].items, text0, 0)
<1>1. /\ expect \in {"object", "key"}
      /\ expect' = IF expect = "object" THEN "first colon" ELSE "colon"
      /\ element' = [node |-> Top, key |-> text0]
      /\ nodes' = IF text0 \in DOMAIN nodes[Top].items THEN nodes
                  ELSE [nodes EXCEPT ![Top].items = changed]
      /\ refs' = refs /\ states' = states
    BY DEF Key, HandleKey
<1>2. Len(refs) \in Nat /\ Len(states) \in Nat /\ Len(nodes) \in Nat BY Lengths
<1>3. Len(refs) > 0 /\ nodes[Top].kind = "object"
  <2>1. CASE expect = "object"
      BY <1>2, <2>1 DEF Agree, Depths, KindsMatch, HasPending, Top
  <2>2. CASE expect = "key"
    <3>1. Len(states) > 0 /\ KindAt(states, Len(states)) = "object" /\ Len(refs) = Len(states)
        BY <1>2, <2>2 DEF Agree, PlaceMatches, Depths, HasPending
    <3> QED BY <1>2, <3>1 DEF Agree, KindsMatch, Top
  <2> QED BY <1>1, <2>1, <2>2
<1>4. /\ \A i \in 1..Len(refs) : refs[i] \in 1..Len(nodes)
      /\ Top \in 1..Len(nodes)
    BY <1>2, <1>3 DEF Agree, Rising, Top
<1>5. text0 \in DOMAIN changed BY DEF WithMember
<1> HIDE DEF changed
<1>6. /\ IsDoc(nodes') /\ Len(nodes') = Len(nodes) /\ text0 \in DOMAIN nodes'[Top].items
      /\ \A i \in 1..Len(nodes) :
            nodes'[i].kind = nodes[i].kind /\ (i # Top => nodes'[i] = nodes[i])
  <2>1. CASE text0 \in DOMAIN nodes[Top].items BY <1>1, <2>1 DEF ReaderTypes
  <2>2. CASE text0 \notin DOMAIN nodes[Top].items
    <3>1. IsDoc(nodes) /\ (nodes[Top].kind = "array" => changed \in Seq(Nat))
        BY <1>3 DEF ReaderTypes
    <3> DEFINE d == [nodes EXCEPT ![Top].items = changed]
    <3>2. nodes' = d BY <1>1, <2>2
    <3>3. /\ IsDoc(d) /\ Len(d) = Len(nodes) /\ d[Top].items = changed
          /\ \A j \in 1..Len(nodes) : d[j].kind = nodes[j].kind /\ (j # Top => d[j] = nodes[j])
        BY <1>4, <3>1, NodeChanged
    <3> HIDE DEF d
    <3> QED BY <1>5, <3>2, <3>3
  <2> QED BY <2>1, <2>2
<1>7. ReaderTypes' BY <1>1, <1>6 DEF ReaderTypes
<1>8. Rising' BY <1>1, <1>6 DEF Agree, Rising
<1>9. HasPending' <=> HasPending BY <1>1 DEF HasPending
<1>10. Depths' BY <1>1, <1>9 DEF Agree, Depths
<1>11. KindsMatch'
  <2>1. \A i \in 1..Len(states) : i \in 1..Len(refs) BY <1>2 DEF Agree, Depths
  <2>2. \A i \in 1..Len(states) : nodes'[refs[i]].kind = KindAt(states, i)
      BY <1>4, <1>6, <2>1 DEF Agree, KindsMatch
  <2>3. nodes'[Top].kind = "object" BY <1>3, <1>4, <1>6
  <2> QED BY <1>1, <2>2, <2>3 DEF KindsMatch, Top
<1>12. PlaceMatches' BY <1>1 DEF Agree, PlaceMatches
<1>13. ElementHeld' BY <1>1, <1>6 DEF ElementHeld, Top
<1>14. Chained'
  <2> SUFFICES ASSUME NEW i \in 2..Len(refs)
               PROVE  LET parent == nodes'[refs[i - 1]]
                      IN  IF parent.kind = "array"
                          THEN parent.items # <<>> /\ parent.items[Len(parent.items)] = refs[i]
                          ELSE \E k \in DOMAIN parent.items : parent.items[k] = refs[i]
      BY <1>1, ZenonT(30) DEF Chained
  <2>1. i - 1 \in 1..Len(refs) /\ i - 1 < Len(refs) /\ Len(refs) \in 1..Len(refs) BY <1>2
  <2>2. refs[i - 1] < refs[Len(refs)] BY <2>1 DEF Agree, Rising
  <2>3. refs[i - 1] # Top /\ refs[i - 1] \in 1..Len(nodes) BY <1>4, <2>1, <2>2 DEF Top
  <2>4. nodes'[refs[i - 1]] = nodes[refs[i - 1]] BY <1>6, <2>3
  <2> QED BY <2>4 DEF Agree, Chained
<1> QED BY <1>7, <1>8, <1>10, <1>11, <1>12, <1>13, <1>14 DEF Agree

LEMMA NameSeparatorAgrees ==
    ASSUME ReaderTypes, Agree, NEW token, NameSeparator(token)
    PROVE  ReaderTypes' /\ Agree'
<1>1. /\ expect \in {"first colon", "colon"} /\ expect' = "value"
      /\ states' = IF expect = "first colon" THEN Append(states, FALSE) ELSE states
      /\ nodes' = nodes /\ refs' = refs /\ element' = element
    BY DEF NameSeparator, document
<1>2. ~HasPending' /\ PlaceMatches' BY <1>1 DEF HasPending, PlaceMatches
<1>3. Rising' /\ Chained' BY <1>1 DEF Agree, Rising, Chained
<1>4. ElementHeld' BY <1>1 DEF Agree, ElementHeld, Top
<1>5. Len(states) \in Nat /\ Len(refs) \in Nat BY Lengths
<1>6. CASE expect = "first colon"
  <2>1. /\ IsSeq(states') /\ Len(states') = Len(states) + 1
        /\ \A i \in 1..Len(states) : KindAt(states', i) = KindAt(states, i)
        /\ KindAt(states', Len(states) + 1) = "object"
      BY <1>1, <1>6, AppendSeq, PushedKinds DEF ReaderTypes
  <2>2. Len(refs) = Len(states) + 1 /\ nodes[refs[Len(refs)]].kind = "object"
      BY <1>6 DEF Agree, Depths, KindsMatch, HasPending
  <2>3. \A i \in 1..Len(states') : nodes[refs[i]].kind = KindAt(states', i)
    <3> SUFFICES ASSUME NEW i \in 1..Len(states')
                 PROVE  nodes[refs[i]].kind = KindAt(states', i)
        OBVIOUS
    <3>1. CASE i \in 1..Len(states) BY <2>1, <3>1 DEF Agree, KindsMatch
    <3>2. CASE i = Len(states) + 1 BY <2>1, <2>2, <3>2
    <3> QED BY <1>5, <2>1, <3>1, <3>2
  <2>4. KindsMatch' BY <1>1, <1>2, <2>3 DEF KindsMatch
  <2>5. Depths'
    <3>1. PICK n \in Nat : n = Len(states) BY <1>5
    <3>2. Len(states') = n + 1 /\ Len(refs') = n + 1 BY <1>1, <2>1, <2>2, <3>1
    <3> QED BY <1>2, <3>2 DEF Depths
  <2>6. ReaderTypes' BY <1>1, <2>1 DEF ReaderTypes
  <2> QED BY <1>2, <1>3, <1>4, <2>4, <2>5, <2>6 DEF Agree
<1>7. CASE expect = "colon"
  <2>1. states' = states /\ ~HasPending BY <1>1, <1>7 DEF HasPending
  <2>2. KindsMatch' /\ Depths' /\ ReaderTypes'
      BY <1>1, <1>2, <2>1 DEF Agree, KindsMatch, Depths, ReaderTypes
  <2> QED BY <1>2, <1>3, <1>4, <2>2 DEF Agree
<1> QED BY <1>1, <1>6, <1>7

LEMMA ValueSeparatorAgrees ==
    ASSUME ReaderTypes, Agree, NEW token, ValueSeparator(token)
    PROVE  ReaderTypes' /\ Agree'
<1>1. /\ expect \in {"element", "member"}
      /\ expect' = IF expect = "element" THEN "value" ELSE "key"
      /\ states' = states /\ nodes' = nodes /\ refs' = refs /\ element' = element
    BY DEF ValueSeparator, document
<1>2. ~HasPending /\ ~HasPending' BY <1>1 DEF HasPending
<1>3. Rising' /\ Chained' /\ ReaderTypes' BY <1>1 DEF Agree, Rising, Chained, ReaderTypes
<1>4. Depths' /\ KindsMatch' BY <1>1, <1>2 DEF Agree, Depths, KindsMatch
<1>5. PlaceMatches' /\ ElementHeld' BY <1>1 DEF Agree, PlaceMatches, ElementHeld
<1> QED BY <1>3, <1>4, <1>5 DEF Agree

-----------------------------------------------------------------------------
(* The specification.                                                      *)

LEMMA ReaderStarts == ReaderInit => ReaderInv
<1> SUFFICES ASSUME ReaderInit PROVE ReaderInv OBVIOUS
<1>1. nodes = <<>> /\ refs = <<>> /\ states = <<>> /\ expect = "value" BY DEF ReaderInit
<1>2. IsSeq(states) BY <1>1 DEF IsSeq
<1>3. IsDoc(nodes)
  <2>1. <<>> \in Seq([kind : NodeKinds, value : {}, items : {}]) OBVIOUS
  <2> QED BY <1>1, <2>1 DEF IsDoc
<1>4. ReaderTypes BY <1>1, <1>2, <1>3 DEF ReaderTypes
<1>5. Len(refs) = 0 /\ Len(states) = 0 BY <1>1
<1>6. Agree
    BY <1>1, <1>5 DEF Agree, Rising, Depths, KindsMatch, PlaceMatches, ElementHeld, Chained,
                      HasPending
<1> QED BY <1>4, <1>6 DEF ReaderInv

LEMMA ParseAgrees ==
    ASSUME ReaderTypes, Agree, NEW token, NEW text0, Parse(token, text0)
    PROVE  ReaderInv'
<1>1. ASSUME NEW kind \in Containers, Begin(token, kind) PROVE ReaderInv'
    BY <1>1, BeginAgrees DEF ReaderInv
<1>2. CASE EndEmpty(token) BY <1>2, EndEmptyAgrees DEF ReaderInv
<1>3. CASE Value(token, text0) BY <1>3, ValueAgrees DEF ReaderInv
<1>4. CASE NumberOverflows(token, text0)
  <2>1. nodes' = nodes /\ refs' = refs /\ states' = Level /\ outcome' # "reading"
      BY <1>4 DEF NumberOverflows, document
  <2>2. IsSeq(Level) BY <1>4, LevelMatches DEF NumberOverflows
  <2> QED BY <2>1, <2>2 DEF ReaderInv, ReaderTypes
<1>5. CASE Key(token, text0) BY <1>5, KeyAgrees DEF ReaderInv
<1>6. CASE NameSeparator(token) BY <1>6, NameSeparatorAgrees DEF ReaderInv
<1>7. CASE ValueSeparator(token) BY <1>7, ValueSeparatorAgrees DEF ReaderInv
<1>8. CASE End(token) BY <1>8, EndAgrees DEF ReaderInv
<1>9. CASE Finish(token) \/ Unexpected(token)
  <2>1. nodes' = nodes /\ refs' = refs /\ states' = states /\ outcome' # "reading"
      BY <1>9 DEF Finish, Unexpected, document
  <2> QED BY <2>1 DEF ReaderInv, ReaderTypes
<1> QED BY <1>1, <1>2, <1>3, <1>4, <1>5, <1>6, <1>7, <1>8, <1>9 DEF Parse

\* What does not read leaves the reader alone.
LEMMA ReaderKept == ReaderInv /\ UNCHANGED reader => ReaderInv'
<1> SUFFICES ASSUME ReaderInv, UNCHANGED reader PROVE ReaderInv' OBVIOUS
<1>1. UNCHANGED <<states, expect, nodes, refs, element, outcome>>
    BY DEF reader, parser, document
<1> QED BY <1>1 DEF ReaderInv, ReaderTypes, Agree, Rising, Depths, KindsMatch, PlaceMatches,
                    ElementHeld, Chained, HasPending, Top

LEMMA ReadAgrees ==
    ASSUME ReaderInv, NEW c, Read(c)
    PROVE  ReaderInv'
<1>1. ReaderTypes /\ Agree BY DEF Read, ReaderInv
<1>2. CASE UNCHANGED parser
  <2>1. UNCHANGED <<states, expect, nodes, refs, element, outcome>>
      BY <1>2 DEF parser, document
  <2> QED BY <2>1 DEF ReaderInv, ReaderTypes, Agree, Rising, Depths, KindsMatch,
                      PlaceMatches, ElementHeld, Chained, HasPending, Top
<1>3. CASE Parse(lex'.token, lex'.buffer) BY <1>1, <1>3, ParseAgrees
<1> QED BY <1>2, <1>3 DEF Read

LEMMA InitBoth == Init => ReaderInv /\ WriterInv
BY ReaderStarts, WriterStarts DEF Init

LEMMA NextBoth == ReaderInv /\ WriterInv /\ [Next]_vars => ReaderInv' /\ WriterInv'
<1> SUFFICES ASSUME ReaderInv, WriterInv, [Next]_vars PROVE ReaderInv' /\ WriterInv'
    OBVIOUS
<1>1. CASE Dump
    BY <1>1, ReaderKept, WriterSteps DEF Dump
<1>2. ASSUME NEW c, Read(c), UNCHANGED writer PROVE ReaderInv' /\ WriterInv'
    BY <1>2, ReadAgrees, WriterSteps
<1>3. CASE ReadAgain BY <1>2, <1>3 DEF ReadAgain
<1>4. CASE ReadBody BY <1>2, <1>4 DEF ReadBody, ReadByte
<1>5. CASE ReadFragment BY <1>2, <1>5 DEF ReadFragment, ReadByte
<1>6. CASE ReadAhead BY <1>2, <1>6 DEF ReadAhead, ReadByte
<1>7. CASE ReadEnd BY <1>2, <1>7 DEF ReadEnd
<1>8. CASE UNCHANGED vars
  <2>1. UNCHANGED reader /\ UNCHANGED writer BY <1>8 DEF vars
  <2> QED BY <2>1, ReaderKept, WriterSteps
<1> QED BY <1>1, <1>3, <1>4, <1>5, <1>6, <1>7, <1>8 DEF Next

\* The pointwise form is the property's.
LEMMA AgreeIsEnough == ReaderInv => AssertionsHold
<1> SUFFICES ASSUME ReaderInv, outcome = "reading" PROVE AssertionsHold
    BY DEF AssertionsHold, StacksAgree, ElementIsOfTop, PointersHold
<1>1. ReaderTypes /\ Agree BY DEF ReaderInv
<1>2. Len(states) \in Nat /\ Len(refs) \in Nat /\ Len(nodes) \in Nat BY <1>1, Lengths
<1>3. StacksAgree
  <2> DEFINE open == [i \in 1..Len(refs) |-> nodes[refs[i]].kind]
             kinds == Kinds(states)
             both == kinds \o Pending
  <2>1. kinds \in Seq(Containers) /\ Len(kinds) = Len(states)
        /\ \A i \in 1..Len(states) : kinds[i] = KindAt(states, i)
    <3>1. kinds = [i \in 1..Len(states) |-> KindAt(states, i)] BY DEF Kinds, KindAt
    <3>2. \A i \in 1..Len(states) : KindAt(states, i) \in Containers BY DEF KindAt, Containers
    <3> HIDE DEF kinds
    <3> QED BY <1>2, <3>1, <3>2
  <2>2. /\ Pending \in Seq(Containers)
        /\ HasPending => /\ Len(Pending) = 1
                         /\ Pending[1] = IF expect = "array" THEN "array" ELSE "object"
        /\ ~HasPending => Len(Pending) = 0
    <3>1. CASE expect = "array"
      <4>1. Pending = <<"array">> /\ "array" \in Containers BY <3>1 DEF Pending, Containers
      <4> QED BY <3>1, <4>1 DEF HasPending
    <3>2. CASE expect \in {"object", "first colon"}
      <4>1. Pending = <<"object">> /\ "object" \in Containers BY <3>2 DEF Pending, Containers
      <4>2. Pending \in Seq(Containers) /\ Len(Pending) = 1 /\ Pending[1] = "object" BY <4>1
      <4>3. HasPending /\ expect # "array" BY <3>2 DEF HasPending
      <4> QED BY <4>2, <4>3
    <3>3. CASE expect \notin {"array", "object", "first colon"}
      <4>1. Pending = <<>> BY <3>3 DEF Pending
      <4>2. Pending \in Seq(Containers) /\ Len(Pending) = 0 BY <4>1
      <4>3. ~HasPending BY <3>3 DEF HasPending
      <4> QED BY <4>2, <4>3
    <3> QED BY <3>1, <3>2, <3>3
  <2> HIDE DEF kinds
  <2>3. /\ both \in Seq(Containers) /\ Len(both) = Len(kinds) + Len(Pending)
        /\ \A i \in 1..(Len(kinds) + Len(Pending)) :
              both[i] = IF i <= Len(kinds) THEN kinds[i] ELSE Pending[i - Len(kinds)]
    <3>1. kinds \in Seq(Containers) /\ Pending \in Seq(Containers) BY <2>1, <2>2
    <3> QED BY <3>1, ConcatProperties
  <2> HIDE DEF both
  <2>4. Len(both) = Len(refs)
    <3>1. CASE HasPending BY <1>1, <1>2, <2>1, <2>2, <2>3, <3>1 DEF Agree, Depths
    <3>2. CASE ~HasPending BY <1>1, <1>2, <2>1, <2>2, <2>3, <3>2 DEF Agree, Depths
    <3> QED BY <3>1, <3>2
  <2>5. ASSUME NEW i \in 1..Len(refs) PROVE both[i] = nodes[refs[i]].kind
    <3>1. CASE i \in 1..Len(states)
      <4>1. both[i] = kinds[i] BY <1>2, <2>1, <2>3, <2>4, <3>1
      <4> QED BY <1>1, <2>1, <3>1, <4>1 DEF Agree, KindsMatch
    <3>2. CASE i \notin 1..Len(states)
      <4>1. HasPending /\ i = Len(states) + 1 /\ i = Len(refs)
          BY <1>1, <1>2, <3>2 DEF Agree, Depths
      <4>2. i - Len(kinds) = 1 /\ ~(i <= Len(kinds)) BY <1>2, <2>1, <4>1
      <4>3. both[i] = Pending[1] BY <2>3, <2>4, <4>2
      <4> QED BY <1>1, <2>2, <4>1, <4>3 DEF Agree, KindsMatch
    <3> QED BY <3>1, <3>2
  <2>6. both = [i \in 1..Len(both) |-> both[i]] BY <2>3
  <2>7. open = both BY <2>4, <2>5, <2>6
  <2> QED BY <2>7 DEF StacksAgree, both, kinds
<1>4. ElementIsOfTop
  <2> SUFFICES ASSUME expect = "value", states # <<>>, ~states[Len(states)]
               PROVE  element.node = Top /\ element.key \in DOMAIN nodes[Top].items
      BY DEF ElementIsOfTop
  <2>1. Len(states) > 0 BY <1>1, EmptySeq DEF ReaderTypes, IsSeq
  <2>2. KindAt(states, Len(states)) = "object" BY DEF KindAt
  <2> QED BY <1>1, <2>1, <2>2 DEF Agree, ElementHeld
<1>5. PointersHold BY <1>1 DEF Agree, Chained, PointersHold
<1> QED BY <1>3, <1>4, <1>5 DEF AssertionsHold

\* The JSON_ASSERTs of the document's builder hold for every answer: parser and handler
\* agree on what is open, and no pointer on ref_stack outlives what it points to.
THEOREM ReaderAgrees == Spec => []AssertionsHold
<1>1. Init => ReaderInv /\ WriterInv BY InitBoth
<1>2. ReaderInv /\ WriterInv /\ [Next]_vars => ReaderInv' /\ WriterInv' BY NextBoth
<1>3. ReaderInv => AssertionsHold BY AgreeIsEnough
<1> QED BY <1>1, <1>2, <1>3, PTL DEF Spec

\* Whatever the client writes and however large its buffer is, if it has room for Reserve
\* bytes: nothing is written behind it.
THEOREM WriterFits == Spec => []BufferSuffices
<1>1. Init => ReaderInv /\ WriterInv BY InitBoth
<1>2. ReaderInv /\ WriterInv /\ [Next]_vars => ReaderInv' /\ WriterInv' BY NextBoth
<1>3. WriterInv => BufferSuffices BY DEF WriterInv, BufferSuffices
<1> QED BY <1>1, <1>2, <1>3, PTL DEF Spec

-----------------------------------------------------------------------------
(* The lexer's types.                                                      *)

LiteralAts == {"literal_true", "literal_false", "literal_null"}
StringAts == {"string", "utf8", "escape", "hex", "pair", "pair u"}
Ats == {"bom", "bom 2", "bom 3", "start"} \cup LiteralAts \cup NumberLabels \cup StringAts
Tokens == {"none", "parse_error", "begin_array", "end_array", "name_separator",
           "value_separator", "end_object", "begin_object", "end_of_input"} \cup Scalars
Ranges == Bytes \X Bytes

Lexers ==
    [at : Ats, token : Tokens, unget : BOOLEAN, current : 0..EOF, buffer : Seq(Bytes),
     rest : Seq(Bytes) \cup Seq(Ranges), high : {0} \cup HighSurrogates]

LexerOK(l) ==
    /\ l \in Lexers
    /\ l.at \in LiteralAts => l.rest \in Seq(Bytes) /\ l.rest # <<>>
    /\ l.at = "utf8" => l.rest \in Seq(Ranges) /\ l.rest # <<>>
    /\ l.at = "hex" => l.rest \in Seq(HexDigits) /\ Len(l.rest) < 4
    /\ l.at \in NumberLabels => l.buffer # <<>>

LEMMA StartOK == LexerOK(LexerStart)
<1>1. <<>> \in Seq(Bytes) OBVIOUS
<1> QED BY <1>1 DEF LexerOK, Lexers, LexerStart, Ats, Tokens, EOF, LiteralAts, NumberLabels, Bytes

LEMMA TokenOK ==
    ASSUME NEW l, l \in Lexers, NEW t \in Tokens
    PROVE  LexerOK(Token(l, t))
BY DEF LexerOK, Lexers, Token, Ats, LiteralAts, NumberLabels

LEMMA FailOK == ASSUME NEW l, l \in Lexers PROVE LexerOK(Fail(l))
<1>1. "parse_error" \in Tokens BY DEF Tokens
<1> QED BY <1>1, TokenOK DEF Fail

Easy == {"bom", "bom 2", "bom 3", "start", "string", "escape", "pair", "pair u"}

LEMMA GoOnOK ==
    ASSUME NEW l, l \in Lexers, NEW at \in Easy
    PROVE  LexerOK(GoOn(l, at))
BY DEF LexerOK, Lexers, GoOn, Ats, LiteralAts, NumberLabels, StringAts, Easy

LEMMA EasyOK ==
    ASSUME NEW m \in Lexers, m.at \in Easy
    PROVE  LexerOK(m)
BY DEF LexerOK, LiteralAts, NumberLabels, Easy

\* The scanner is somewhere else, and looks for something else.
Put(l, at, rest) == [l EXCEPT !.at = at, !.rest = rest]

LEMMA Moved ==
    ASSUME NEW l \in Lexers, NEW at \in Ats, NEW rest \in Seq(Bytes) \cup Seq(Ranges)
    PROVE  /\ Put(l, at, rest) \in Lexers
           /\ Put(l, at, rest).at = at /\ Put(l, at, rest).rest = rest
BY DEF Lexers, Put

PutHigh(l, at, high) == [l EXCEPT !.at = at, !.high = high]

LEMMA MovedTo ==
    ASSUME NEW l \in Lexers, NEW at \in Ats, NEW high \in {0} \cup HighSurrogates
    PROVE  PutHigh(l, at, high) \in Lexers /\ PutHigh(l, at, high).at = at
BY DEF Lexers, PutHigh

LEMMA HexStarts ==
    ASSUME NEW l \in Lexers
    PROVE  LexerOK([l EXCEPT !.at = "hex", !.rest = <<>>])
<1> DEFINE m == [l EXCEPT !.at = "hex", !.rest = <<>>]
           none == <<>>
<1>1. none \in Seq(Bytes) /\ none \in Seq(HexDigits) /\ Len(none) = 0 OBVIOUS
<1>2. "hex" \in Ats BY DEF Ats, StringAts
<1>3. m = Put(l, "hex", none) BY DEF Put
<1> HIDE DEF m, none
<1>4. m \in Lexers /\ m.at = "hex" /\ m.rest = none
  <2>1. none \in Seq(Bytes) \cup Seq(Ranges) BY <1>1
  <2> QED BY SMT, <2>1, <1>2, <1>3, Moved
<1>5. LexerOK(m) BY <1>1, <1>4 DEF LexerOK, LiteralAts, NumberLabels
<1> QED BY <1>5 DEF m

LEMMA AddOK ==
    ASSUME NEW l, l \in Lexers, NEW s \in Seq(Bytes)
    PROVE  Add(l, s) \in Lexers /\ Add(l, s).at = l.at /\ Add(l, s).rest = l.rest
<1>1. l.buffer \in Seq(Bytes) BY DEF Lexers
<1>2. l.buffer \o s \in Seq(Bytes) BY <1>1
<1> QED BY <1>2 DEF Add, Lexers

LEMMA SingleIsToken == ASSUME NEW c PROVE Single(c) \in Tokens
BY DEF Single, Tokens

LEMMA LiteralFacts ==
    ASSUME NEW l \in Literals
    PROVE  l[2] \in LiteralAts /\ l[3] \in Seq(Bytes) /\ l[3] # <<>>
<1> DEFINE rue == <<114, 117, 101>>
           alse == <<97, 108, 115, 101>>
           ull == <<117, 108, 108>>
<1>1. rue \in Seq(Bytes) /\ rue # <<>> BY DEF Bytes
<1>2. alse \in Seq(Bytes) /\ alse # <<>> BY DEF Bytes
<1>3. ull \in Seq(Bytes) /\ ull # <<>> BY DEF Bytes
<1>4. l \in {<<116, "literal_true", rue>>, <<102, "literal_false", alse>>,
             <<110, "literal_null", ull>>}
    BY DEF Literals
<1> HIDE DEF rue, alse, ull
<1> QED BY <1>1, <1>2, <1>3, <1>4 DEF LiteralAts

LEMMA LabelFacts ==
    ASSUME NEW at, NEW c
    PROVE  NextLabel(at, c) \subseteq NumberLabels
BY SMTT(30) DEF NextLabel, NumberMoves, IntegerMoves, FractionMoves, ExponentMoves, Moves, NumberLabels

LEMMA LabelAtByte ==
    ASSUME NEW at, NEW c \in 0..EOF, NextLabel(at, c) # {}
    PROVE  c \in Bytes
<1>1. NumberClass(c) # "other"
  <2>1. PICK m \in NumberMoves : m[2] = NumberClass(c) BY DEF NextLabel
  <2> QED BY <2>1, SMTT(30) DEF NumberMoves, IntegerMoves, FractionMoves, ExponentMoves, Moves, Digit
<1> QED BY <1>1 DEF NumberClass, Bytes, EOF, Minus, Zero

\* The byte that a token begins with says what token it is.
StartsLiteral(c) == \E x \in Literals : x[1] = c
StartsNumber(c) == NextLabel("init", c) # {}

LEMMA NumberStarts ==
    ASSUME NEW c
    PROVE  StartsNumber(c) => c \in {Minus} \cup 48..57
<1> SUFFICES ASSUME StartsNumber(c) PROVE c \in {Minus} \cup 48..57 OBVIOUS
<1>1. PICK m \in NumberMoves : m[1] = "init" /\ m[2] = NumberClass(c)
    BY DEF StartsNumber, NextLabel
<1>2. m[2] \in {"-", "0", "1-9"}
    BY <1>1, SMTT(30) DEF NumberMoves, IntegerMoves, FractionMoves, ExponentMoves, Moves
<1> QED BY <1>1, <1>2 DEF NumberClass, Minus, Zero

LEMMA FirstByteTells ==
    ASSUME NEW c
    PROVE  /\ c \in Whitespace =>
                c \notin SingleBytes /\ c # Quote /\ ~StartsLiteral(c) /\ ~StartsNumber(c)
           /\ c \in SingleBytes => c # Quote /\ ~StartsLiteral(c) /\ ~StartsNumber(c)
           /\ c = Quote => ~StartsLiteral(c) /\ ~StartsNumber(c)
           /\ StartsLiteral(c) => ~StartsNumber(c)
<1>1. StartsLiteral(c) => c \in {116, 102, 110} BY DEF StartsLiteral, Literals
<1>2. StartsNumber(c) => c \in {Minus} \cup 48..57 BY NumberStarts
<1> QED BY <1>1, <1>2 DEF Whitespace, SingleBytes, Quote, OpenBracket, CloseBracket, OpenBrace,
            CloseBrace, Colon, Comma, EOF, Minus

LEMMA ScanStartOK ==
    ASSUME NEW l \in Lexers, NEW c \in 0..EOF
    PROVE  LexerOK(ScanStart(l, c))
<1> USE FirstByteTells DEF StartsLiteral, StartsNumber
<1>1. CASE c \in Whitespace
  <2>1. ScanStart(l, c) = GoOn(l, "start") BY <1>1 DEF ScanStart
  <2> QED BY <2>1, GoOnOK DEF Easy
<1>2. CASE c \notin Whitespace /\ c \in SingleBytes
  <2>1. ScanStart(l, c) = Token(l, Single(c)) BY <1>2 DEF ScanStart
  <2> QED BY <2>1, TokenOK, SingleIsToken
<1>3. CASE c \notin Whitespace \cup SingleBytes /\ c = Quote
  <2>1. ScanStart(l, c) = [l EXCEPT !.at = "string", !.buffer = <<>>] BY <1>3 DEF ScanStart
  <2>2. <<>> \in Seq(Bytes) OBVIOUS
  <2> QED BY <2>1, <2>2 DEF LexerOK, Lexers, Ats, StringAts, LiteralAts, NumberLabels
<1>4. CASE c \notin Whitespace \cup SingleBytes \cup {Quote} /\ \E x \in Literals : x[1] = c
  <2> DEFINE x == CHOOSE x \in Literals : x[1] = c
  <2>1. x \in Literals BY <1>4
  <2> HIDE DEF x
  <2>2. ScanStart(l, c) = [l EXCEPT !.at = x[2], !.rest = x[3]] BY <1>4 DEF ScanStart, x
  <2>3. x[2] \in LiteralAts /\ x[3] \in Seq(Bytes) /\ x[3] # <<>> BY <2>1, LiteralFacts
  <2> QED BY <2>2, <2>3 DEF LexerOK, Lexers, Ats, LiteralAts, NumberLabels
<1>5. CASE /\ c \notin Whitespace \cup SingleBytes \cup {Quote}
           /\ \A x \in Literals : x[1] # c
           /\ NextLabel("init", c) # {}
  <2> DEFINE n == CHOOSE n \in NextLabel("init", c) : TRUE
  <2>1. n \in NumberLabels BY <1>5, LabelFacts
  <2> HIDE DEF n
  <2>2. ScanStart(l, c) = [l EXCEPT !.at = n, !.buffer = <<c>>] BY <1>5 DEF ScanStart, n
  <2>3. c \in Bytes BY <1>5, LabelAtByte
  <2>4. <<c>> \in Seq(Bytes) /\ <<c>> # <<>> BY <2>3
  <2> QED BY <2>1, <2>2, <2>4 DEF LexerOK, Lexers, Ats, LiteralAts, NumberLabels
<1>6. CASE /\ c \notin Whitespace \cup SingleBytes \cup {Quote}
           /\ \A x \in Literals : x[1] # c
           /\ NextLabel("init", c) = {}
  <2>1. ScanStart(l, c) = Fail(l) BY <1>6 DEF ScanStart
  <2> QED BY <2>1, FailOK
<1> QED BY <1>1, <1>2, <1>3, <1>4, <1>5, <1>6

LEMMA ScanBomOK ==
    ASSUME NEW l \in Lexers, NEW c \in 0..EOF
    PROVE  LexerOK(ScanBom(l, c))
<1>1. ScanBom(l, c) \in {GoOn(l, "bom 2"), GoOn(l, "bom 3"), GoOn(l, "start"), Fail(l),
                         ScanStart(l, c)}
    BY DEF ScanBom
<1> QED BY <1>1, GoOnOK, FailOK, ScanStartOK DEF Easy

LEMMA ScanLiteralOK ==
    ASSUME NEW l, LexerOK(l), l.at \in LiteralAts, NEW c
    PROVE  LexerOK(ScanLiteral(l, c))
<1>1. l \in Lexers /\ l.rest \in Seq(Bytes) /\ l.rest # <<>> BY DEF LexerOK
<1>2. Tail(l.rest) \in Seq(Bytes) BY <1>1
<1>3. CASE c # Head(l.rest) BY <1>1, <1>3, FailOK DEF ScanLiteral
<1>4. CASE c = Head(l.rest) /\ Tail(l.rest) = <<>>
  <2>1. l.at \in Tokens BY DEF LiteralAts, Tokens, Scalars
  <2> QED BY <1>1, <1>4, <2>1, TokenOK DEF ScanLiteral
<1>5. CASE c = Head(l.rest) /\ Tail(l.rest) # <<>>
  <2>1. ScanLiteral(l, c) = [l EXCEPT !.rest = Tail(l.rest)] BY <1>5 DEF ScanLiteral
  <2> QED BY <1>1, <1>2, <1>5, <2>1 DEF LexerOK, Lexers, LiteralAts, NumberLabels
<1> QED BY <1>3, <1>4, <1>5

LEMMA ScanNumberOK ==
    ASSUME NEW l, LexerOK(l), l.at \in NumberLabels, NEW c \in 0..EOF
    PROVE  LexerOK(ScanNumber(l, c))
<1>1. l \in Lexers BY DEF LexerOK
<1>2. CASE NextLabel(l.at, c) # {}
  <2> DEFINE n == CHOOSE n \in NextLabel(l.at, c) : TRUE
  <2>1. n \in NumberLabels BY <1>2, LabelFacts
  <2> HIDE DEF n
  <2>2. c \in Bytes BY <1>2, LabelAtByte
  <2>3. <<c>> \in Seq(Bytes) /\ l.buffer \in Seq(Bytes) BY <1>1, <2>2 DEF Lexers
  <2>4. l.buffer \o <<c>> \in Seq(Bytes) /\ l.buffer \o <<c>> # <<>> BY <2>3
  <2>5. ScanNumber(l, c) = [[l EXCEPT !.buffer = l.buffer \o <<c>>] EXCEPT !.at = n]
      BY <1>2 DEF ScanNumber, GoOn, Add, n
  <2> QED BY <1>1, <2>1, <2>4, <2>5 DEF LexerOK, Lexers, Ats, LiteralAts, NumberLabels
<1>3. CASE NextLabel(l.at, c) = {} /\ l.at \in NumberEnds
  <2>1. NumberToken(l) \in Tokens BY DEF NumberToken, Tokens, Scalars, Numeric
  <2>2. ScanNumber(l, c) = [Token(l, NumberToken(l)) EXCEPT !.unget = TRUE]
      BY <1>3 DEF ScanNumber
  <2> QED BY <1>1, <2>1, <2>2 DEF LexerOK, Lexers, Token, Ats, LiteralAts, NumberLabels
<1>4. CASE NextLabel(l.at, c) = {} /\ l.at \notin NumberEnds
    BY <1>1, <1>4, FailOK DEF ScanNumber
<1> QED BY <1>2, <1>3, <1>4

LEMMA ShortSeq ==
    ASSUME NEW S, NEW a \in S, NEW b \in S, NEW c \in S, NEW d \in S
    PROVE  /\ <<a>> \in Seq(S) /\ <<a, b>> \in Seq(S) /\ <<a, b, c>> \in Seq(S)
           /\ <<a, b, c, d>> \in Seq(S)
OBVIOUS

LEMMA RestFacts ==
    ASSUME NEW c, Utf8Rest(c) # <<>>
    PROVE  Utf8Rest(c) \in Seq(Ranges) /\ c \in 194..244
<1> DEFINE t == Tail80BF
           e0 == <<160, 191>>
           ed == <<128, 159>>
           f0 == <<144, 191>>
           f4 == <<128, 143>>
<1>1. t \in Ranges /\ e0 \in Ranges /\ ed \in Ranges /\ f0 \in Ranges /\ f4 \in Ranges
    BY DEF Tail80BF, Ranges, Bytes
<1>2. Utf8Rest(c) \in {<<t>>, <<e0, t>>, <<t, t>>, <<ed, t>>, <<f0, t, t>>, <<t, t, t>>,
                       <<f4, t, t>>}
    BY DEF Utf8Rest
<1>3. c \in 194..244 BY DEF Utf8Rest
<1> HIDE DEF t, e0, ed, f0, f4
<1>4. /\ <<t>> \in Seq(Ranges) /\ <<e0, t>> \in Seq(Ranges) /\ <<t, t>> \in Seq(Ranges)
      /\ <<ed, t>> \in Seq(Ranges) /\ <<f0, t, t>> \in Seq(Ranges)
      /\ <<t, t, t>> \in Seq(Ranges) /\ <<f4, t, t>> \in Seq(Ranges)
    BY <1>1
<1>5. Utf8Rest(c) \in Seq(Ranges) BY <1>2, <1>4
<1> QED BY <1>3, <1>5

LEMMA ScanCharOK ==
    ASSUME NEW l \in Lexers, l.at = "string", NEW c \in 0..EOF
    PROVE  LexerOK(ScanChar(l, c))
<1>0. Utf8Rest(c) # <<>> => c \in 194..244 BY RestFacts
<1> DEFINE first == Utf8Rest(c) # <<>>
<1>a. /\ c = Quote => c # Backslash /\ c \notin Plain /\ c \notin Control /\ ~first
      /\ c = Backslash => c # Quote /\ c \notin Plain /\ c \notin Control /\ ~first
      /\ c \in Plain => c # Quote /\ c # Backslash /\ c \notin Control /\ ~first
      /\ first => c # Quote /\ c # Backslash /\ c \notin Control /\ c \notin Plain
    BY <1>0 DEF Plain, Control, Quote, Backslash
<1>1. CASE c = Quote
  <2>1. ScanChar(l, c) = Token(l, "value_string") BY <1>a, <1>1 DEF ScanChar
  <2> QED BY <2>1, TokenOK DEF Tokens, Scalars
<1>2. CASE c = Backslash
  <2>1. ScanChar(l, c) = GoOn(l, "escape") BY <1>a, <1>2 DEF ScanChar
  <2> QED BY <2>1, GoOnOK DEF Easy
<1>3. CASE c \in Plain
  <2>1. ScanChar(l, c) = Add(l, <<c>>) BY <1>a, <1>3 DEF ScanChar
  <2>2. <<c>> \in Seq(Bytes) BY <1>3 DEF Bytes, Plain
  <2>3. Add(l, <<c>>) \in Lexers /\ Add(l, <<c>>).at = "string" BY <2>2, AddOK
  <2> QED BY <2>1, <2>3 DEF LexerOK, LiteralAts, NumberLabels
<1>4. CASE Utf8Rest(c) # <<>>
  <2> DEFINE k == Add(l, <<c>>)
             r == Utf8Rest(c)
  <2>1. ScanChar(l, c) = [k EXCEPT !.at = "utf8", !.rest = r]
      BY <1>a, <1>4 DEF ScanChar
  <2>2. c \in Bytes BY <1>0, <1>4 DEF Bytes
  <2>3. <<c>> \in Seq(Bytes) BY <2>2
  <2>4. k \in Lexers BY <2>3, AddOK
  <2>5. r \in Seq(Ranges) /\ r # <<>> BY <1>4, RestFacts
  <2> HIDE DEF k, r
  <2> QED BY <2>1, <2>4, <2>5 DEF LexerOK, Lexers, Ats, StringAts, LiteralAts, NumberLabels
<1>5. CASE c \notin {Quote, Backslash} \cup Plain /\ Utf8Rest(c) = <<>>
  <2>1. ScanChar(l, c) = Fail(l) BY <1>5 DEF ScanChar
  <2> QED BY <2>1, FailOK
<1> QED BY <1>1, <1>2, <1>3, <1>4, <1>5

LEMMA ScanUtf8OK ==
    ASSUME NEW l, LexerOK(l), l.at = "utf8", NEW c \in 0..EOF
    PROVE  LexerOK(ScanUtf8(l, c))
<1> DEFINE r == l.rest
<1>1. l \in Lexers /\ r \in Seq(Ranges) /\ r # <<>> BY DEF LexerOK
<1>2. CASE c \notin Head(r)[1]..Head(r)[2] BY <1>1, <1>2, FailOK DEF ScanUtf8
<1>3. CASE c \in Head(r)[1]..Head(r)[2]
  <2> DEFINE k == Add(l, <<c>>)
             t == Tail(r)
             at == IF t = <<>> THEN "string" ELSE "utf8"
  <2>1. ScanUtf8(l, c) = [k EXCEPT !.at = at, !.rest = t] BY <1>3 DEF ScanUtf8
  <2>2. Head(r) \in Ranges BY <1>1
  <2>3. c \in Bytes BY <1>3, <2>2 DEF Ranges, Bytes, EOF
  <2>4. <<c>> \in Seq(Bytes) BY <2>3
  <2>5. k \in Lexers BY <1>1, <2>4, AddOK
  <2>6. t \in Seq(Ranges) BY <1>1
  <2>7. at \in Ats BY DEF Ats, StringAts
  <2> HIDE DEF k, t, at
  <2> DEFINE m == [k EXCEPT !.at = at, !.rest = t]
  <2>m. m = Put(k, at, t) BY DEF Put
  <2> HIDE DEF m
  <2>8. m \in Lexers /\ m.at = at /\ m.rest = t BY <2>5, <2>6, <2>7, <2>m, Moved
  <2>9. LexerOK(m)
    <3>1. CASE t = <<>> BY <2>8, <3>1, EasyOK DEF Easy, at
    <3>2. CASE t # <<>>
      <4>1. m.at = "utf8" /\ m.rest = t BY <2>8, <3>2 DEF at
      <4> QED BY <2>6, <2>8, <3>2, <4>1 DEF LexerOK, LiteralAts, NumberLabels
    <3> QED BY <3>1, <3>2
  <2> QED BY <2>1, <2>9 DEF m
<1> QED BY <1>2, <1>3

LEMMA ScanEscapeOK ==
    ASSUME NEW l \in Lexers, NEW c
    PROVE  LexerOK(ScanEscape(l, c))
<1>1. \A u \in Unescaped : u[1] # 117 /\ u[2] \in Bytes BY DEF Unescaped, Bytes, Quote, Backslash
<1>2. CASE c = 117
  <2>1. ScanEscape(l, c) = [l EXCEPT !.at = "hex", !.rest = <<>>] BY <1>1, <1>2 DEF ScanEscape
  <2> QED BY <2>1, HexStarts
<1>3. CASE \E u \in Unescaped : u[1] = c
  <2> DEFINE u == CHOOSE u \in Unescaped : u[1] = c
             k == Add(l, <<u[2]>>)
  <2>1. u \in Unescaped /\ u[1] = c BY <1>3
  <2>2. ScanEscape(l, c) = GoOn(k, "string") BY <1>1, <1>3 DEF ScanEscape
  <2>3. <<u[2]>> \in Seq(Bytes) BY <1>1, <2>1
  <2>4. k \in Lexers BY <2>3, AddOK
  <2> HIDE DEF k
  <2> QED BY <2>2, <2>4, GoOnOK DEF Easy
<1>4. CASE c # 117 /\ ~\E u \in Unescaped : u[1] = c
  <2>1. ScanEscape(l, c) = Fail(l) BY <1>4 DEF ScanEscape
  <2> QED BY <2>1, FailOK
<1> QED BY <1>2, <1>3, <1>4

\* The bytes of a code point behind its first one.
Low(cp, n) == 128 + ((cp \div n) % 64)

LEMMA LowOK ==
    ASSUME NEW cp \in Int
    PROVE  Low(cp, 1) \in 128..191 /\ Low(cp, 64) \in 128..191 /\ Low(cp, 4096) \in 128..191
BY SMT DEF Low

LEMMA EncodeIs ==
    ASSUME NEW cp \in Int, cp >= 0
    PROVE  /\ cp < 128 => Encode(cp) = <<cp>>
           /\ cp >= 128 /\ cp <= 2047 => Encode(cp) = <<192 + (cp \div 64), Low(cp, 1)>>
           /\ cp >= 2048 /\ cp <= 65535 =>
                Encode(cp) = <<224 + (cp \div 4096), Low(cp, 64), Low(cp, 1)>>
           /\ cp >= 65536 =>
                Encode(cp) = <<240 + (cp \div 262144), Low(cp, 4096), Low(cp, 64), Low(cp, 1)>>
<1> DEFINE one == <<cp>>
           two == <<192 + (cp \div 64), Low(cp, 1)>>
           three == <<224 + (cp \div 4096), Low(cp, 64), Low(cp, 1)>>
           four == <<240 + (cp \div 262144), Low(cp, 4096), Low(cp, 64), Low(cp, 1)>>
<1>1. Encode(cp) = IF cp < 128 THEN one ELSE IF cp <= 2047 THEN two
                   ELSE IF cp <= 65535 THEN three ELSE four
    BY SMT DEF Encode, Low
<1> HIDE DEF one, two, three, four
<1>2. /\ cp < 128 => Encode(cp) = one
      /\ cp >= 128 /\ cp <= 2047 => Encode(cp) = two
      /\ cp >= 2048 /\ cp <= 65535 => Encode(cp) = three
      /\ cp >= 65536 => Encode(cp) = four
    BY SMT, <1>1
<1> QED BY SMT, <1>2 DEF one, two, three, four

\* A code point of Unicode is one to four bytes.
LEMMA EncodeOK ==
    ASSUME NEW cp \in Int, cp >= 0, cp <= 1114111
    PROVE  Encode(cp) \in Seq(Bytes)
<1> DEFINE x == Low(cp, 1)
           y == Low(cp, 64)
           z == Low(cp, 4096)
<1>1. x \in Bytes /\ y \in Bytes /\ z \in Bytes BY SMT, LowOK DEF Bytes
<1>2. CASE cp < 128
  <2>1. cp \in Bytes BY SMT, <1>2 DEF Bytes
  <2>2. Encode(cp) = <<cp>> BY SMT, <1>2, EncodeIs
  <2> QED BY SMT, <2>1, <2>2, ShortSeq
<1>3. CASE cp >= 128 /\ cp <= 2047
  <2> DEFINE a == 192 + (cp \div 64)
  <2>1. a \in Bytes BY SMT, <1>3 DEF Bytes
  <2>2. Encode(cp) = <<a, x>> BY SMT, <1>3, EncodeIs
  <2> HIDE DEF a, x, y, z
  <2> QED BY SMT, <1>1, <2>1, <2>2, ShortSeq
<1>4. CASE cp >= 2048 /\ cp <= 65535
  <2> DEFINE a == 224 + (cp \div 4096)
  <2>1. a \in Bytes BY SMT, <1>4 DEF Bytes
  <2>2. Encode(cp) = <<a, y, x>> BY SMT, <1>4, EncodeIs
  <2> HIDE DEF a, x, y, z
  <2> QED BY SMT, <1>1, <2>1, <2>2, ShortSeq
<1>5. CASE cp >= 65536
  <2> DEFINE a == 240 + (cp \div 262144)
  <2>1. a \in Bytes BY SMT, <1>5 DEF Bytes
  <2>2. Encode(cp) = <<a, z, y, x>> BY SMT, <1>5, EncodeIs
  <2> HIDE DEF a, x, y, z
  <2> QED BY SMT, <1>1, <2>1, <2>2, ShortSeq
<1> QED BY SMT, <1>2, <1>3, <1>4, <1>5

LEMMA FirstCodepointOK ==
    ASSUME NEW l \in Lexers, NEW cp \in Int, cp >= 0, cp <= 65535
    PROVE  LexerOK(FirstCodepoint(l, cp))
<1> DEFINE high == cp \in HighSurrogates
           low == cp \in LowSurrogates
<1>0. high => ~low BY SMT DEF HighSurrogates, LowSurrogates
<1>1. CASE high
  <2>1. FirstCodepoint(l, cp) = [l EXCEPT !.at = "pair", !.high = cp]
      BY SMT, <1>0, <1>1 DEF FirstCodepoint
  <2> DEFINE m == [l EXCEPT !.at = "pair", !.high = cp]
  <2>2. m = PutHigh(l, "pair", cp) BY SMT DEF PutHigh
  <2> HIDE DEF m
  <2>3. "pair" \in Ats BY DEF Ats, StringAts
  <2>4. cp \in {0} \cup HighSurrogates BY SMT, <1>1
  <2>5. m \in Lexers /\ m.at = "pair" BY SMT, <2>2, <2>3, <2>4, MovedTo
  <2>e. m.at \in Easy BY SMT, <2>5 DEF Easy
  <2>6. LexerOK(m) BY SMT, <2>e, <2>5, EasyOK
  <2> QED BY SMT, <2>1, <2>6 DEF m
<1>2. CASE low
  <2>1. FirstCodepoint(l, cp) = Fail(l) BY SMT, <1>0, <1>2 DEF FirstCodepoint
  <2> QED BY SMT, <2>1, FailOK
<1>3. CASE ~high /\ ~low
  <2> DEFINE k == Add(l, Encode(cp))
  <2>1. FirstCodepoint(l, cp) = GoOn(k, "string") BY SMT, <1>3 DEF FirstCodepoint
  <2>2. Encode(cp) \in Seq(Bytes) BY SMT, EncodeOK
  <2>3. k \in Lexers BY SMT, <2>2, AddOK
  <2> HIDE DEF k
  <2>e. "string" \in Easy BY SMT DEF Easy
  <2>4. LexerOK(GoOn(k, "string")) BY SMT, <2>3, <2>e, GoOnOK
  <2> QED BY SMT, <2>1, <2>4
<1> QED BY <1>1, <1>2, <1>3

LEMMA ScanCodepointOK ==
    ASSUME NEW l \in Lexers, NEW cp \in Int, cp >= 0, cp <= 65535
    PROVE  LexerOK(ScanCodepoint(l, cp))
<1> DEFINE low == cp \in LowSurrogates
<1>1. CASE l.high = 0 BY SMT, <1>1, FirstCodepointOK DEF ScanCodepoint
<1>2. CASE l.high # 0 /\ low
  <2> DEFINE both == l.high * 1024 + cp - 56613888
             k == Add(l, Encode(both))
  <2>1. ScanCodepoint(l, cp) = [k EXCEPT !.at = "string", !.high = 0]
      BY SMT, <1>2 DEF ScanCodepoint
  <2>2. l.high \in HighSurrogates BY SMT, <1>2 DEF Lexers
  <2>3. both \in Int /\ both >= 0 /\ both <= 1114111
    <3>1. PICK h \in Int : h = l.high /\ h >= 55296 /\ h <= 56319
        BY SMTT(30), <2>2 DEF HighSurrogates
    <3>2. cp >= 56320 /\ cp <= 57343 BY SMTT(30), <1>2 DEF LowSurrogates
    <3>3. both = h * 1024 + cp - 56613888 BY SMT, <3>1
    <3> HIDE DEF both
    <3> QED BY SMT, <3>1, <3>2, <3>3
  <2> HIDE DEF both
  <2>4. Encode(both) \in Seq(Bytes) BY SMT, <2>3, EncodeOK
  <2>5. k \in Lexers BY SMT, <2>4, AddOK
  <2> HIDE DEF k
  <2> DEFINE m == [k EXCEPT !.at = "string", !.high = 0]
  <2>6. m = PutHigh(k, "string", 0) BY SMT DEF PutHigh
  <2> HIDE DEF m
  <2>7. "string" \in Ats BY DEF Ats, StringAts
  <2>8. m \in Lexers /\ m.at = "string" BY SMT, <2>5, <2>6, <2>7, MovedTo
  <2>e. m.at \in Easy BY SMT, <2>8 DEF Easy
  <2>9. LexerOK(m) BY SMT, <2>e, <2>8, EasyOK
  <2> QED BY SMT, <2>1, <2>9 DEF m
<1>3. CASE l.high # 0 /\ ~low
  <2>1. ScanCodepoint(l, cp) = Fail(l) BY SMT, <1>3 DEF ScanCodepoint
  <2> QED BY SMT, <2>1, FailOK
<1> QED BY <1>1, <1>2, <1>3

LEMMA ScanHexOK ==
    ASSUME NEW l, LexerOK(l), l.at = "hex", NEW c
    PROVE  LexerOK(ScanHex(l, c))
<1>1. l \in Lexers /\ l.rest \in Seq(HexDigits) /\ Len(l.rest) < 4 BY DEF LexerOK
<1>2. CASE c \notin HexDigits BY <1>1, <1>2, FailOK DEF ScanHex
<1>3. CASE c \in HexDigits
  <2> DEFINE digits == Append(l.rest, c)
  <2>1. digits \in Seq(HexDigits) /\ Len(digits) = Len(l.rest) + 1 BY <1>1, <1>3
  <2>2. digits \in Seq(Bytes)
    <3>1. HexDigits \subseteq Bytes BY DEF HexDigits, Bytes
    <3> QED BY <2>1, <3>1
  <2>3. ScanHex(l, c) = IF Len(digits) < 4 THEN [l EXCEPT !.rest = digits]
                        ELSE ScanCodepoint([l EXCEPT !.rest = <<>>], Codepoint(digits))
      BY <1>3 DEF ScanHex
  <2>4. CASE Len(digits) < 4
    <3> HIDE DEF digits
    <3> QED BY <1>1, <2>1, <2>2, <2>3, <2>4 DEF LexerOK, Lexers, LiteralAts, NumberLabels
  <2>5. CASE Len(digits) >= 4
    <3>1. Len(digits) = 4 BY <1>1, <2>1, <2>5
    <3> HIDE DEF digits
    <3>2. \A i \in 1..4 : digits[i] \in HexDigits
      <4>1. PICK g \in Seq(HexDigits) : g = digits BY <2>1
      <4>2. Len(g) = 4 BY <3>1, <4>1
      <4>3. \A i \in 1..Len(g) : g[i] \in HexDigits BY <4>1
      <4> QED BY <4>1, <4>2, <4>3
    <3>3. \A h \in HexDigits : HexValue(h) \in 0..15 BY DEF HexDigits, HexValue
    <3>4. Codepoint(digits) \in Int /\ Codepoint(digits) >= 0 /\ Codepoint(digits) <= 65535
      <4> DEFINE a == HexValue(digits[1])
                 b == HexValue(digits[2])
                 d == HexValue(digits[3])
                 e == HexValue(digits[4])
      <4>1. a \in 0..15 /\ b \in 0..15 /\ d \in 0..15 /\ e \in 0..15 BY <3>2, <3>3
      <4>2. Codepoint(digits) = 4096 * a + 256 * b + 16 * d + e BY DEF Codepoint
      <4> HIDE DEF a, b, d, e
      <4> QED BY SMT, <4>1, <4>2
    <3>5. <<>> \in Seq(Bytes) OBVIOUS
    <3>6. [l EXCEPT !.rest = <<>>] \in Lexers BY <1>1, <3>5 DEF Lexers
    <3> QED BY <2>3, <2>5, <3>1, <3>4, <3>6, ScanCodepointOK
  <2> QED BY <2>1, <2>4, <2>5
<1> QED BY <1>2, <1>3

LEMMA ScanPairOK ==
    ASSUME NEW l \in Lexers, NEW c
    PROVE  LexerOK(ScanPair(l, c))
<1> DEFINE h == [l EXCEPT !.at = "hex", !.rest = <<>>]
<1>1. ScanPair(l, c) \in {GoOn(l, "pair u"), h, Fail(l)} BY DEF ScanPair
<1>3. LexerOK(h) BY HexStarts
<1> QED BY <1>1, <1>3, GoOnOK, FailOK DEF Easy

\* What Scan looks at: the byte is taken, and the last token is no more.
Got(l, c) == [l EXCEPT !.current = c, !.unget = FALSE, !.token = "none"]

LEMMA GotOK ==
    ASSUME NEW l, LexerOK(l), NEW c \in 0..EOF
    PROVE  /\ LexerOK(Got(l, c))
           /\ Got(l, c).at = l.at /\ Got(l, c).current = c /\ ~Got(l, c).unget
           /\ Got(l, c).token = "none"
           /\ Got(l, c).buffer = l.buffer /\ Got(l, c).rest = l.rest /\ Got(l, c).high = l.high
<1>1. l \in Lexers BY DEF LexerOK
<1>2. /\ Got(l, c) \in Lexers
      /\ Got(l, c).at = l.at /\ Got(l, c).current = c /\ ~Got(l, c).unget
      /\ Got(l, c).token = "none"
      /\ Got(l, c).buffer = l.buffer /\ Got(l, c).rest = l.rest /\ Got(l, c).high = l.high
    BY <1>1 DEF Got, Lexers, Tokens
<1> QED BY <1>1, <1>2 DEF LexerOK

LEMMA LiteralPlaces == {x[2] : x \in Literals} = LiteralAts
BY DEF Literals, LiteralAts

\* Which of the scanner's parts a place belongs to.
LEMMA ScanPart ==
    ASSUME NEW l, LexerOK(l), NEW c \in 0..EOF
    PROVE  LET k == Got(l, c)
           IN  /\ l.at \in {"bom", "bom 2", "bom 3"} => Scan(l, c) = ScanBom(k, c)
               /\ l.at = "start" => Scan(l, c) = ScanStart(k, c)
               /\ l.at \in LiteralAts => Scan(l, c) = ScanLiteral(k, c)
               /\ l.at \in NumberLabels => Scan(l, c) = ScanNumber(k, c)
               /\ l.at = "string" => Scan(l, c) = ScanChar(k, c)
               /\ l.at = "utf8" => Scan(l, c) = ScanUtf8(k, c)
               /\ l.at = "escape" => Scan(l, c) = ScanEscape(k, c)
               /\ l.at = "hex" => Scan(l, c) = ScanHex(k, c)
               /\ l.at \in {"pair", "pair u"} => Scan(l, c) = ScanPair(k, c)
<1> DEFINE k == Got(l, c)
<1>1. k.at = l.at BY GotOK
<1>2. Scan(l, c) =
        CASE k.at \in {"bom", "bom 2", "bom 3"} -> ScanBom(k, c)
          [] k.at = "start" -> ScanStart(k, c)
          [] k.at \in LiteralAts -> ScanLiteral(k, c)
          [] k.at \in NumberLabels -> ScanNumber(k, c)
          [] k.at = "string" -> ScanChar(k, c)
          [] k.at = "utf8" -> ScanUtf8(k, c)
          [] k.at = "escape" -> ScanEscape(k, c)
          [] k.at = "hex" -> ScanHex(k, c)
          [] OTHER -> ScanPair(k, c)
    BY LiteralPlaces, Zenon DEF Scan, Got
<1> HIDE DEF k
<1> QED BY <1>1, <1>2 DEF k, LiteralAts, NumberLabels

LEMMA ScanOK ==
    ASSUME NEW l, LexerOK(l), NEW c \in 0..EOF
    PROVE  LexerOK(Scan(l, c))
<1> DEFINE k == Got(l, c)
<1>1. LexerOK(k) /\ k.at = l.at BY GotOK
<1>2. k \in Lexers BY <1>1 DEF LexerOK
<1>3. l.at \in Ats BY DEF LexerOK, Lexers
<1>4. CASE l.at \in {"bom", "bom 2", "bom 3"}
  <2>1. Scan(l, c) = ScanBom(k, c) BY <1>4, ScanPart
  <2> HIDE DEF k
  <2>2. LexerOK(ScanBom(k, c)) BY <1>1, <1>2, <1>4, ScanBomOK
  <2> QED BY <2>1, <2>2
<1>5. CASE l.at = "start"
  <2>1. Scan(l, c) = ScanStart(k, c) BY <1>5, ScanPart
  <2> HIDE DEF k
  <2>2. LexerOK(ScanStart(k, c)) BY <1>1, <1>2, <1>5, ScanStartOK
  <2> QED BY <2>1, <2>2
<1>6. CASE l.at \in LiteralAts
  <2>1. Scan(l, c) = ScanLiteral(k, c) BY <1>6, ScanPart
  <2> HIDE DEF k
  <2>2. LexerOK(ScanLiteral(k, c)) BY <1>1, <1>2, <1>6, ScanLiteralOK
  <2> QED BY <2>1, <2>2
<1>7. CASE l.at \in NumberLabels
  <2>1. Scan(l, c) = ScanNumber(k, c) BY <1>7, ScanPart
  <2> HIDE DEF k
  <2>2. LexerOK(ScanNumber(k, c)) BY <1>1, <1>2, <1>7, ScanNumberOK
  <2> QED BY <2>1, <2>2
<1>8. CASE l.at = "string"
  <2>1. Scan(l, c) = ScanChar(k, c) BY <1>8, ScanPart
  <2> HIDE DEF k
  <2>2. LexerOK(ScanChar(k, c)) BY <1>1, <1>2, <1>8, ScanCharOK
  <2> QED BY <2>1, <2>2
<1>9. CASE l.at = "utf8"
  <2>1. Scan(l, c) = ScanUtf8(k, c) BY <1>9, ScanPart
  <2> HIDE DEF k
  <2>2. LexerOK(ScanUtf8(k, c)) BY <1>1, <1>2, <1>9, ScanUtf8OK
  <2> QED BY <2>1, <2>2
<1>10. CASE l.at = "escape"
  <2>1. Scan(l, c) = ScanEscape(k, c) BY <1>10, ScanPart
  <2> HIDE DEF k
  <2>2. LexerOK(ScanEscape(k, c)) BY <1>1, <1>2, <1>10, ScanEscapeOK
  <2> QED BY <2>1, <2>2
<1>11. CASE l.at = "hex"
  <2>1. Scan(l, c) = ScanHex(k, c) BY <1>11, ScanPart
  <2> HIDE DEF k
  <2>2. LexerOK(ScanHex(k, c)) BY <1>1, <1>2, <1>11, ScanHexOK
  <2> QED BY <2>1, <2>2
<1>12. CASE l.at \in {"pair", "pair u"}
  <2>1. Scan(l, c) = ScanPair(k, c) BY <1>12, ScanPart
  <2> HIDE DEF k
  <2>2. LexerOK(ScanPair(k, c)) BY <1>1, <1>2, <1>12, ScanPairOK
  <2> QED BY <2>1, <2>2
<1> QED BY <1>3, <1>4, <1>5, <1>6, <1>7, <1>8, <1>9, <1>10, <1>11, <1>12 DEF Ats, StringAts

-----------------------------------------------------------------------------
(* What the writer writes, byte by byte.                                   *)

Inside == Strings0 \cup ObjectsOf(Strings0)
Values0 == Inside \cup ObjectsOf(Inside)
MemberLists(values) == Seq(Seq(Bytes) \X values)
Named0(members) ==
    \A i, j \in 1..Len(members) : members[i][1] = members[j][1] => i = j

LEMMA ObjectFacts ==
    ASSUME NEW values, NEW o \in ObjectsOf(values)
    PROVE  ~IsString(o) /\ o.members \in MemberLists(values) /\ Named0(o.members)
BY DEF ObjectsOf, IsString, MemberLists, Named0

LEMMA StringFacts ==
    ASSUME NEW o \in Strings0
    PROVE  IsString(o) /\ o.value \in Seq(Bytes)
BY DEF Strings0, IsString

LEMMA ListsGrow ==
    ASSUME NEW S, NEW T, S \subseteq T, NEW m \in MemberLists(S)
    PROVE  m \in MemberLists(T)
BY DEF MemberLists

LEMMA ListFacts ==
    ASSUME NEW values, NEW m \in MemberLists(values), NEW i \in 1..Len(m)
    PROVE  m[i][1] \in Seq(Bytes) /\ m[i][2] \in values
<1> DEFINE P == Seq(Bytes) \X values
<1>1. m \in Seq(P) BY DEF MemberLists
<1>2. m[i] \in P BY <1>1
<1> QED BY <1>2

\* A value is a string, or its members are values.
LEMMA ValueFacts ==
    ASSUME NEW v \in Values0
    PROVE  /\ IsString(v) => v \in Strings0
           /\ ~IsString(v) => /\ v.members \in MemberLists(Values0)
                              /\ Named0(v.members)
           /\ v \in Inside /\ ~IsString(v) => v.members \in MemberLists(Strings0)
<1>1. CASE v \in Strings0 BY <1>1, StringFacts
<1>2. CASE v \in ObjectsOf(Strings0)
  <2>1. ~IsString(v) /\ v.members \in MemberLists(Strings0) /\ Named0(v.members)
      BY <1>2, ObjectFacts
  <2>2. Strings0 \subseteq Values0 BY DEF Values0, Inside
  <2> QED BY <2>1, <2>2, ListsGrow
<1>3. CASE v \in ObjectsOf(Inside) /\ v \notin Inside
  <2>1. ~IsString(v) /\ v.members \in MemberLists(Inside) /\ Named0(v.members)
      BY <1>3, ObjectFacts
  <2>2. Inside \subseteq Values0 BY DEF Values0
  <2> QED BY <2>1, <2>2, <1>3, ListsGrow
<1> QED BY <1>1, <1>2, <1>3 DEF Values0, Inside

\* Where the writer is between two bytes of what it writes: `part' of the bytes that the
\* last byte of the string is escaped with are written, or none are to come.
Snap(f, at, n, s, part) == [frames |-> f, at |-> at, next |-> n, state |-> s, part |-> part]

LEMMA SnapFields ==
    ASSUME NEW f, NEW at, NEW n, NEW s, NEW part
    PROVE  /\ Snap(f, at, n, s, part).frames = f
           /\ Snap(f, at, n, s, part).at = at
           /\ Snap(f, at, n, s, part).next = n
           /\ Snap(f, at, n, s, part).state = s
           /\ Snap(f, at, n, s, part).part = part
BY DEF Snap

Deepest(f) == f[Len(f)]
MemberAt(frame) == frame.members[frame.begun]

\* What the innermost call was called with.
ArgOf(f, at) ==
    IF at = "value" THEN IF f = <<>> THEN body ELSE MemberAt(Deepest(f))[2]
    ELSE IF at = "key" THEN MemberAt(Deepest(f))[1]
    ELSE MemberAt(Deepest(f))[2].value

Frames0 == [members : MemberLists(Values0), begun : Nat]

\* The calls that have not returned, each for a member's value of the one before.
FramesOK(f) ==
    /\ f \in Seq(Frames0) /\ Len(f) <= 2
    /\ \A k \in 1..Len(f) : f[k].begun <= Len(f[k].members) /\ Named0(f[k].members)
    /\ Len(f) > 0 => f[1].members = body.members
    /\ Len(f) > 1 => /\ f[1].begun > 0
                     /\ ~IsString(MemberAt(f[1])[2])
                     /\ f[2].members = MemberAt(f[1])[2].members

InString(at) == at \in {"key", "text"}

PlaceOK(p) ==
    /\ p.at \in {"value", "members", "comma", "key", "colon", "text", "dumped"}
    /\ p.at = "value" => p.frames = <<>> \/ Deepest(p.frames).begun > 0
    /\ p.at \in {"members", "comma", "key", "colon", "text"} => p.frames # <<>>
    /\ p.at \in {"key", "colon", "text"} => Deepest(p.frames).begun > 0
    /\ p.at = "comma" => /\ Deepest(p.frames).begun > 0
                         /\ Deepest(p.frames).begun < Len(Deepest(p.frames).members)
    /\ p.at = "text" => IsString(MemberAt(Deepest(p.frames))[2])
    /\ p.at = "dumped" => p.frames = <<>>

StringOK(p) ==
    LET s == ArgOf(p.frames, p.at)
    IN  /\ p.next \in 1..(Len(s) + 1)
        /\ p.state \in 0..8 \ {1}
        /\ p.part \in 0..5
        /\ p.part > 0 => /\ p.state = 0 /\ p.next > 1
                         /\ s[p.next - 1] < 128
                         /\ p.part < Len(Escape(s[p.next - 1], s[p.next - 1]))

Good(p) ==
    /\ FramesOK(p.frames)
    /\ PlaceOK(p)
    /\ InString(p.at) => StringOK(p)
    /\ ~InString(p.at) => p.state = 0 /\ p.part = 0

\* The bytes that the next byte of a string is written as.
Piece(s, b) == IF s = 0 /\ b < 128 THEN Escape(b, b) ELSE <<b>>

Opens(p, c, q) ==
    LET v == ArgOf(p.frames, "value")
    IN  /\ p.at = "value" /\ ~IsString(v) /\ c = 123
        /\ q = Snap(Append(p.frames, [members |-> v.members, begun |-> 0]), "members",
                    p.next, p.state, p.part)

StartsText(p, c, q) ==
    /\ p.at = "value" /\ IsString(ArgOf(p.frames, "value")) /\ c = 34
    /\ q = Snap(p.frames, "text", 1, p.state, p.part)

Begun(f) == [f EXCEPT ![Len(f)].begun = @ + 1]

StartsName(p, c, q) ==
    LET top == Deepest(p.frames)
    IN  /\ \/ p.at = "comma"
           \/ p.at = "members" /\ top.begun = 0 /\ Len(top.members) > 0
        /\ c = 34
        /\ q = Snap(Begun(p.frames), "key", 1, p.state, p.part)

Separates(p, c, q) ==
    LET top == Deepest(p.frames)
    IN  /\ p.at = "members" /\ top.begun > 0 /\ top.begun < Len(top.members)
        /\ c = 44
        /\ q = Snap(p.frames, "comma", p.next, p.state, p.part)

Closes(p, c, q) ==
    LET top == Deepest(p.frames)
        f == SubSeq(p.frames, 1, Len(p.frames) - 1)
    IN  /\ p.at = "members" /\ top.begun = Len(top.members)
        /\ c = 125
        /\ q = Snap(f, Returned(f), p.next, p.state, p.part)

Continues(p, c, q) ==
    LET s == ArgOf(p.frames, p.at)
        b == s[p.next]
        piece == Piece(p.state, b)
    IN  /\ InString(p.at) /\ p.part = 0 /\ p.next <= Len(s)
        /\ Decode(p.state, b) # 1
        /\ c = piece[1]
        /\ q = Snap(p.frames, p.at, p.next + 1, Decode(p.state, b),
                    IF Len(piece) = 1 THEN 0 ELSE 1)

Completes(p, c, q) ==
    LET s == ArgOf(p.frames, p.at)
        b == s[p.next - 1]
        piece == Escape(b, b)
    IN  /\ InString(p.at) /\ p.part > 0
        /\ c = piece[p.part + 1]
        /\ q = Snap(p.frames, p.at, p.next, p.state,
                    IF p.part + 1 = Len(piece) THEN 0 ELSE p.part + 1)

Ended(p) == p.part = 0 /\ p.next > Len(ArgOf(p.frames, p.at)) /\ p.state = 0

EndsName(p, c, q) ==
    /\ p.at = "key" /\ Ended(p) /\ c = 34
    /\ q = Snap(p.frames, "colon", p.next, p.state, p.part)

Points(p, c, q) ==
    /\ p.at = "colon" /\ c = 58
    /\ q = Snap(p.frames, "value", p.next, p.state, p.part)

EndsText(p, c, q) ==
    /\ p.at = "text" /\ Ended(p) /\ c = 34
    /\ q = Snap(p.frames, Returned(p.frames), p.next, p.state, p.part)

Emits(p, c, q) ==
    \/ Opens(p, c, q) \/ StartsText(p, c, q) \/ StartsName(p, c, q) \/ Separates(p, c, q)
    \/ Closes(p, c, q) \/ Continues(p, c, q) \/ Completes(p, c, q) \/ EndsName(p, c, q)
    \/ Points(p, c, q) \/ EndsText(p, c, q)

-----------------------------------------------------------------------------
IsBody == body \in ObjectsOf(Inside)

LEMMA BodyFacts ==
    ASSUME IsBody
    PROVE  /\ body \in Values0 /\ ~IsString(body) /\ body # NoBody
           /\ body.members \in MemberLists(Inside) /\ body.members \in MemberLists(Values0)
           /\ Named0(body.members)
<1>1. ~IsString(body) /\ body.members \in MemberLists(Inside) /\ Named0(body.members)
    BY ObjectFacts DEF IsBody
<1>2. body.members \in MemberLists(Values0) BY <1>1, ListsGrow DEF Values0
<1>3. body # NoBody BY DEF IsBody, ObjectsOf, NoBody
<1> QED BY <1>1, <1>2, <1>3 DEF IsBody, Values0

\* The innermost object, and the member that it is at.
LEMMA DeepestFacts ==
    ASSUME NEW f, FramesOK(f), f # <<>>
    PROVE  /\ Len(f) \in 1..2
           /\ Deepest(f) \in Frames0
           /\ Deepest(f).members \in MemberLists(Values0) /\ Deepest(f).begun \in Nat
           /\ Deepest(f).begun <= Len(Deepest(f).members)
           /\ Named0(Deepest(f).members)
           /\ Deepest(f).begun > 0 => /\ MemberAt(Deepest(f))[1] \in Seq(Bytes)
                                      /\ MemberAt(Deepest(f))[2] \in Values0
<1>1. f \in Seq(Frames0) /\ Len(f) \in 1..2
  <2>1. f \in Seq(Frames0) BY DEF FramesOK
  <2>5. Len(f) <= 2 BY DEF FramesOK
  <2>2. Len(f) \in Nat BY <2>1
  <2>3. Len(f) # 0 BY <2>1, EmptySeq
  <2>4. PICK n \in Nat : n = Len(f) BY <2>2
  <2>6. n \in 1..2 BY <2>3, <2>4, <2>5
  <2> QED BY <2>1, <2>4, <2>6
<1>2. Deepest(f) \in Frames0 BY <1>1 DEF Deepest
<1>3. /\ Deepest(f).members \in MemberLists(Values0) /\ Deepest(f).begun \in Nat
      /\ Deepest(f).begun <= Len(Deepest(f).members)
      /\ Named0(Deepest(f).members)
    BY <1>1, <1>2 DEF FramesOK, Deepest, Frames0
<1>4. ASSUME Deepest(f).begun > 0
      PROVE  MemberAt(Deepest(f))[1] \in Seq(Bytes) /\ MemberAt(Deepest(f))[2] \in Values0
  <2>1. Len(Deepest(f).members) \in Nat BY <1>3 DEF MemberLists
  <2>2. Deepest(f).begun \in 1..Len(Deepest(f).members) BY <1>3, <1>4, <2>1
  <2> QED BY <1>3, <2>2, ListFacts DEF MemberAt
<1> QED BY <1>1, <1>2, <1>3, <1>4

\* In the second object all values are strings; in the first they are objects at most.
LEMMA ValuesInside ==
    ASSUME IsBody, NEW f, FramesOK(f), f # <<>>, Deepest(f).begun > 0
    PROVE  /\ MemberAt(Deepest(f))[2] \in Inside
           /\ Len(f) = 2 => MemberAt(Deepest(f))[2] \in Strings0
<1>1. Len(f) \in 1..2 BY DeepestFacts
<1>2. f[1].begun > 0 => MemberAt(f[1])[2] \in Inside
  <2> SUFFICES ASSUME f[1].begun > 0 PROVE MemberAt(f[1])[2] \in Inside OBVIOUS
  <2>1. f[1].members = body.members /\ f[1] \in Frames0 /\ f[1].begun <= Len(f[1].members)
      BY <1>1 DEF FramesOK
  <2>2. f[1].members \in MemberLists(Inside) BY <2>1, BodyFacts
  <2>3. Len(f[1].members) \in Nat BY <2>2 DEF MemberLists
  <2>4. f[1].begun \in 1..Len(f[1].members) BY <2>1, <2>3 DEF Frames0
  <2> QED BY <2>2, <2>4, ListFacts DEF MemberAt
<1>3. CASE Len(f) = 1 BY <1>2, <1>3 DEF Deepest
<1>4. CASE Len(f) = 2
  <2> DEFINE v == MemberAt(f[1])[2]
  <2>1. v \in Inside /\ ~IsString(v) /\ f[2].members = v.members
      BY <1>2, <1>4 DEF FramesOK
  <2>2. v \in Values0 BY <2>1 DEF Values0
  <2>3. f[2].members \in MemberLists(Strings0) BY <2>1, <2>2, ValueFacts
  <2>4. f[2] \in Frames0 /\ f[2].begun <= Len(f[2].members)
    <3>1. f \in Seq(Frames0) /\ 2 \in 1..Len(f) BY <1>4 DEF FramesOK
    <3> QED BY <3>1 DEF FramesOK
  <2>5. Len(f[2].members) \in Nat BY <2>3 DEF MemberLists
  <2>6. f[2].begun \in 1..Len(f[2].members) BY <1>4, <2>4, <2>5 DEF Frames0, Deepest
  <2>7. MemberAt(f[2])[2] \in Strings0 BY <2>3, <2>6, ListFacts DEF MemberAt
  <2> QED BY <1>4, <2>7 DEF Deepest, Inside
<1> QED BY <1>1, <1>3, <1>4

-----------------------------------------------------------------------------
(* Every byte leads from a good place to a good one.                       *)

\* The string that is written, or what the call of dump was called with.
LEMMA ArgFacts ==
    ASSUME IsBody, NEW p, Good(p)
    PROVE  /\ InString(p.at) => ArgOf(p.frames, p.at) \in Seq(Bytes)
           /\ p.at = "value" => ArgOf(p.frames, "value") \in Values0
           /\ p.at = "value" /\ p.frames # <<>> => ArgOf(p.frames, "value") \in Inside
<1>1. CASE p.at = "value" /\ p.frames = <<>>
  <2>1. ArgOf(p.frames, "value") = body BY <1>1 DEF ArgOf
  <2> QED BY <1>1, <2>1, BodyFacts DEF InString
<1>2. CASE p.at = "value" /\ p.frames # <<>>
  <2>1. FramesOK(p.frames) /\ Deepest(p.frames).begun > 0 BY <1>2 DEF Good, PlaceOK
  <2>2. ArgOf(p.frames, "value") = MemberAt(Deepest(p.frames))[2] BY <1>2 DEF ArgOf
  <2> QED BY <1>2, <2>1, <2>2, ValuesInside DEF InString, Values0
<1>3. CASE InString(p.at)
  <2>1. FramesOK(p.frames) /\ p.frames # <<>> /\ Deepest(p.frames).begun > 0
      BY <1>3 DEF Good, PlaceOK, InString
  <2>2. /\ MemberAt(Deepest(p.frames))[1] \in Seq(Bytes)
        /\ MemberAt(Deepest(p.frames))[2] \in Values0
      BY <2>1, DeepestFacts
  <2>3. CASE p.at = "key" BY <2>2, <2>3 DEF ArgOf
  <2>4. CASE p.at = "text"
    <3>1. IsString(MemberAt(Deepest(p.frames))[2]) BY <2>4 DEF Good, PlaceOK
    <3>2. MemberAt(Deepest(p.frames))[2].value \in Seq(Bytes)
        BY <2>2, <3>1, ValueFacts, StringFacts
    <3> QED BY <2>4, <3>2 DEF ArgOf
  <2> QED BY <1>3, <2>3, <2>4 DEF InString
<1> QED BY <1>1, <1>2, <1>3 DEF InString

LEMMA OpensGood ==
    ASSUME IsBody, NEW p, NEW c, NEW q, Good(p), Opens(p, c, q)
    PROVE  Good(q)
<1> DEFINE v == ArgOf(p.frames, "value")
           f == p.frames
           new == [members |-> v.members, begun |-> 0]
           g == Append(f, new)
<1>1. p.at = "value" /\ ~IsString(v) /\ FramesOK(f) /\ v \in Values0
    BY ArgFacts DEF Opens, Good
<1>2. q.frames = g /\ q.at = "members" /\ q.state = p.state /\ q.part = p.part
  <2>1. q = Snap(g, "members", p.next, p.state, p.part) BY DEF Opens
  <2> HIDE DEF g
  <2> QED BY <2>1, SnapFields
<1>3. v.members \in MemberLists(Values0) /\ Named0(v.members) /\ Len(v.members) \in Nat
    BY <1>1, ValueFacts DEF MemberLists
<1>4. new \in Frames0 /\ new.members = v.members /\ new.begun = 0 BY <1>3 DEF Frames0
<1>5. CASE f = <<>>
  <2>1. v = body BY <1>5 DEF ArgOf
  <2> HIDE DEF v, f, new
  <2>2. g \in Seq(Frames0) /\ Len(g) = 1 /\ g[1] = new BY <1>4, <1>5
  <2> HIDE DEF g
  <2>3. FramesOK(g) BY <1>3, <1>4, <2>1, <2>2 DEF FramesOK
  <2>4. Deepest(g) = new /\ g # <<>> BY <2>2 DEF Deepest
  <2> QED BY <1>1, <1>2, <2>3, <2>4 DEF Good, PlaceOK, InString
<1>6. CASE f # <<>>
  <2>1. Deepest(f).begun > 0 /\ v = MemberAt(Deepest(f))[2]
      BY <1>1, <1>6 DEF Good, PlaceOK, ArgOf
  <2>2. Len(f) = 1
    <3>1. Len(f) \in 1..2 BY <1>1, <1>6, DeepestFacts
    <3>2. Len(f) # 2 BY <1>1, <1>6, <2>1, ValuesInside, StringFacts
    <3> QED BY <3>1, <3>2
  <2>3. Deepest(f) = f[1] BY <2>2 DEF Deepest
  <2>4. f \in Seq(Frames0) BY <1>1 DEF FramesOK
  <2>5. f[1].begun > 0 /\ v = MemberAt(f[1])[2] BY <2>1, <2>3
  <2> HIDE DEF v, new
  <2>6. g \in Seq(Frames0) /\ Len(g) = 2 /\ g[1] = f[1] /\ g[2] = new
    <3>1. g \in Seq(Frames0) BY <1>4, <2>4
    <3>2. IsSeq(f) BY <2>4 DEF IsSeq
    <3>3. Len(g) = Len(f) + 1 /\ g[Len(f) + 1] = new /\ \A i \in 1..Len(f) : g[i] = f[i]
        BY <3>2, AppendSeq
    <3>4. g[1] = f[1] /\ Len(f) + 1 = 2 BY <2>2, <3>3
    <3> QED BY <3>1, <3>3, <3>4
  <2> HIDE DEF g
  <2>7. FramesOK(g)
    <3>1. f[1].begun <= Len(f[1].members) /\ Named0(f[1].members) /\ f[1].members = body.members
        BY <1>1, <2>2 DEF FramesOK
    <3> QED BY <1>1, <1>3, <1>4, <2>5, <2>6, <3>1 DEF FramesOK
  <2>8. Deepest(g) = new BY <2>6 DEF Deepest
  <2>9. g # <<>>
    <3>1. Len(g) # 0 BY <2>6
    <3>2. Len(<<>>) = 0 OBVIOUS
    <3> QED BY <3>1, <3>2
  <2> QED BY <1>1, <1>2, <2>7, <2>8, <2>9 DEF Good, PlaceOK, InString
<1> QED BY <1>5, <1>6

LEMMA BegunFacts ==
    ASSUME NEW f, FramesOK(f), f # <<>>, Deepest(f).begun < Len(Deepest(f).members)
    PROVE  /\ FramesOK(Begun(f)) /\ Begun(f) # <<>> /\ Len(Begun(f)) = Len(f)
           /\ Deepest(Begun(f)).members = Deepest(f).members
           /\ Deepest(Begun(f)).begun = Deepest(f).begun + 1
           /\ \A k \in 1..(Len(f) - 1) : Begun(f)[k] = f[k]
<1> DEFINE g == Begun(f)
           top == Deepest(f)
           new == [top EXCEPT !.begun = @ + 1]
<1>1. f \in Seq(Frames0) /\ Len(f) \in 1..2 /\ top \in Frames0 BY DeepestFacts DEF FramesOK
<1>2. g = [f EXCEPT ![Len(f)] = new] BY <1>1 DEF Begun, Deepest
<1>3. /\ new \in Frames0 /\ new.members = top.members /\ new.begun = top.begun + 1
      /\ new.begun <= Len(new.members)
  <2>1. Len(top.members) \in Nat BY <1>1 DEF Frames0, MemberLists
  <2> QED BY <1>1, <2>1 DEF Frames0
<1> HIDE DEF new, g
<1>4. g \in Seq(Frames0) /\ Len(g) = Len(f) /\ g[Len(f)] = new
      /\ \A k \in 1..Len(f) : k # Len(f) => g[k] = f[k]
    BY <1>1, <1>2, <1>3
<1>5. Deepest(g) = new BY <1>4 DEF Deepest
<1>6. FramesOK(g)
  <2>1. top = f[Len(f)] BY DEF Deepest
  <2>2. CASE Len(f) = 1
    BY <1>1, <1>3, <1>4, <2>1, <2>2 DEF FramesOK
  <2>3. CASE Len(f) = 2
    <3>1. g[1] = f[1] BY <1>4, <2>3
    <3>2. g[2].members = f[2].members BY <1>3, <1>4, <2>1, <2>3
    <3> QED BY <1>1, <1>3, <1>4, <2>1, <2>3, <3>1, <3>2 DEF FramesOK
  <2> QED BY <1>1, <2>2, <2>3
<1>7. g # <<>> BY <1>1, <1>4
<1>8. \A k \in 1..(Len(f) - 1) : g[k] = f[k] BY <1>1, <1>4
<1> QED BY <1>3, <1>4, <1>5, <1>6, <1>7, <1>8 DEF g

LEMMA PopFacts ==
    ASSUME NEW f, FramesOK(f), f # <<>>
    PROVE  LET g == SubSeq(f, 1, Len(f) - 1)
           IN  /\ FramesOK(g) /\ Len(g) = Len(f) - 1
               /\ \A k \in 1..(Len(f) - 1) : g[k] = f[k]
               /\ g # <<>> => Deepest(g).begun > 0
<1> DEFINE g == SubSeq(f, 1, Len(f) - 1)
<1>1. f \in Seq(Frames0) /\ Len(f) \in 1..2 BY DeepestFacts DEF FramesOK
<1>2. IsSeq(f) /\ Len(f) > 0 BY <1>1 DEF IsSeq
<1>3. Len(g) = Len(f) - 1 /\ \A k \in 1..(Len(f) - 1) : g[k] = f[k] BY <1>2, PopSeq DEF Pop
<1>4. g \in Seq(Frames0) BY <1>1, <1>2
<1> HIDE DEF g
<1>5. FramesOK(g) BY <1>1, <1>3, <1>4 DEF FramesOK
<1>6. ASSUME g # <<>> PROVE Deepest(g).begun > 0
  <2>1. Len(g) \in 1..2 BY <1>5, <1>6, DeepestFacts
  <2>2. Len(g) = 1 /\ Len(f) = 2 BY <1>1, <1>3, <2>1
  <2> QED BY <1>3, <2>2 DEF FramesOK, Deepest
<1> QED BY <1>3, <1>5, <1>6 DEF g

LEMMA StartsTextGood ==
    ASSUME IsBody, NEW p, NEW c, NEW q, Good(p), StartsText(p, c, q)
    PROVE  Good(q)
<1> DEFINE f == p.frames
           v == ArgOf(f, "value")
<1>1. p.at = "value" /\ IsString(v) /\ FramesOK(f) /\ v \in Values0 /\ p.state = 0 /\ p.part = 0
    BY ArgFacts DEF StartsText, Good, InString
<1>2. q.frames = f /\ q.at = "text" /\ q.next = 1 /\ q.state = p.state /\ q.part = p.part
    BY SnapFields DEF StartsText
<1>3. f # <<>> BY <1>1, BodyFacts DEF ArgOf
<1>4. Deepest(f).begun > 0 /\ v = MemberAt(Deepest(f))[2]
    BY <1>1, <1>3 DEF Good, PlaceOK, ArgOf
<1>5. PlaceOK(q) BY <1>1, <1>2, <1>3, <1>4 DEF PlaceOK
<1>6. ArgOf(f, "text") = v.value BY <1>4 DEF ArgOf
<1>7. v.value \in Seq(Bytes) BY <1>1, ValueFacts, StringFacts
<1>8. StringOK(q)
  <2>1. Len(v.value) \in Nat BY <1>7
  <2> QED BY <1>1, <1>2, <1>6, <2>1 DEF StringOK
<1> QED BY <1>1, <1>2, <1>5, <1>8 DEF Good, InString

LEMMA StartsNameGood ==
    ASSUME IsBody, NEW p, NEW c, NEW q, Good(p), StartsName(p, c, q)
    PROVE  Good(q)
<1> DEFINE f == p.frames
           g == Begun(f)
           top == Deepest(f)
<1>1. FramesOK(f) /\ f # <<>> /\ p.state = 0 /\ p.part = 0
    BY DEF StartsName, Good, PlaceOK, InString
<1>2. q.frames = g /\ q.at = "key" /\ q.next = 1 /\ q.state = p.state /\ q.part = p.part
    BY SnapFields DEF StartsName
<1>3. top.begun \in Nat /\ top.begun < Len(top.members)
    BY <1>1, DeepestFacts DEF StartsName, Good, PlaceOK
<1>4. FramesOK(g) /\ g # <<>> /\ Deepest(g).begun = top.begun + 1 BY <1>1, <1>3, BegunFacts
<1>5. Deepest(g).begun > 0 BY <1>3, <1>4
<1>6. PlaceOK(q) BY <1>2, <1>4, <1>5 DEF PlaceOK
<1>7. ArgOf(g, "key") \in Seq(Bytes)
  <2>1. MemberAt(Deepest(g))[1] \in Seq(Bytes) BY <1>4, <1>5, DeepestFacts
  <2> QED BY <2>1 DEF ArgOf
<1>8. StringOK(q)
  <2>1. Len(ArgOf(g, "key")) \in Nat BY <1>7
  <2> QED BY <1>1, <1>2, <2>1 DEF StringOK
<1> QED BY <1>1, <1>2, <1>4, <1>6, <1>8 DEF Good, InString

\* Where a call of dump returns to is a place, if its frame is gone or was never there.
LEMMA ReturnedGood ==
    ASSUME NEW f, FramesOK(f), f # <<>> => Deepest(f).begun > 0, NEW q,
           q.frames = f, q.at = Returned(f), q.state = 0, q.part = 0
    PROVE  Good(q)
<1>1. (q.at = "dumped" /\ f = <<>>) \/ (q.at = "members" /\ f # <<>>) BY DEF Returned
<1>2. PlaceOK(q) BY <1>1 DEF PlaceOK
<1> QED BY <1>1, <1>2 DEF Good, InString

LEMMA ClosesGood ==
    ASSUME IsBody, NEW p, NEW c, NEW q, Good(p), Closes(p, c, q)
    PROVE  Good(q)
<1> DEFINE g == SubSeq(p.frames, 1, Len(p.frames) - 1)
<1>1. FramesOK(p.frames) /\ p.frames # <<>> /\ p.state = 0 /\ p.part = 0
    BY DEF Closes, Good, PlaceOK, InString
<1>2. q.frames = g /\ q.at = Returned(g) /\ q.state = p.state /\ q.part = p.part
  <2>1. q = Snap(g, Returned(g), p.next, p.state, p.part) BY DEF Closes
  <2> HIDE DEF g
  <2> QED BY <2>1, SnapFields
<1>3. FramesOK(g) /\ (g # <<>> => Deepest(g).begun > 0) BY <1>1, PopFacts
<1> HIDE DEF g
<1> QED BY <1>1, <1>2, <1>3, ReturnedGood

LEMMA EscapeBytes ==
    ASSUME NEW b \in Bytes
    PROVE  Escape(b, b) \in Seq(Bytes) /\ Len(Escape(b, b)) \in {1, 2, 6}
<1> DEFINE e == (CHOOSE x \in ShortEscapes : x[1] = b)[2]
           m == Nibble(b \div 16)
           n == Nibble(b % 16)
           s == <<92, 117, 48, 48, m, n>>
<1>1. CASE \E x \in ShortEscapes : x[1] = b
  <2>1. e \in Bytes BY <1>1 DEF ShortEscapes, Bytes
  <2>2. Escape(b, b) = <<92, e>> BY <1>1 DEF Escape
  <2>3. 92 \in Bytes BY DEF Bytes
  <2> HIDE DEF e
  <2> QED BY <2>1, <2>2, <2>3
<1>2. CASE ~(\E x \in ShortEscapes : x[1] = b) /\ b <= 31
  <2>1. m \in Bytes /\ n \in Bytes
    <3>1. b \div 16 \in 0..15 /\ b % 16 \in 0..15 BY DEF Bytes
    <3>2. \A d \in 0..15 : Nibble(d) \in Bytes BY DEF Nibble, Bytes
    <3> QED BY <3>1, <3>2
  <2>2. Escape(b, b) = s BY <1>2 DEF Escape
  <2>3. 92 \in Bytes /\ 117 \in Bytes /\ 48 \in Bytes BY DEF Bytes
  <2> HIDE DEF m, n
  <2>4. s \in Seq(Bytes) /\ Len(s) = 6 BY <2>1, <2>3
  <2> QED BY <2>2, <2>4
<1>3. CASE ~(\E x \in ShortEscapes : x[1] = b) /\ ~(b <= 31)
  <2>1. Escape(b, b) = <<b>> BY <1>3 DEF Escape
  <2> QED BY <2>1
<1> QED BY <1>1, <1>2, <1>3

LEMMA PieceBytes ==
    ASSUME NEW s, NEW b \in Bytes
    PROVE  /\ Piece(s, b) \in Seq(Bytes) /\ Len(Piece(s, b)) \in {1, 2, 6}
           /\ Len(Piece(s, b)) # 1 => s = 0 /\ b < 128 /\ Piece(s, b) = Escape(b, b)
<1>1. CASE s = 0 /\ b < 128 BY <1>1, EscapeBytes DEF Piece
<1>2. CASE ~(s = 0 /\ b < 128)
  <2>1. Piece(s, b) = <<b>> BY <1>2 DEF Piece
  <2>2. <<b>> \in Seq(Bytes) /\ Len(<<b>>) = 1 OBVIOUS
  <2> QED BY <2>1, <2>2
<1> QED BY <1>1, <1>2

\* A byte below 80 is a code point, if it is in none.
LEMMA DecodeAscii ==
    ASSUME NEW b \in Bytes, b < 128
    PROVE  Decode(0, b) = 0
<1> DEFINE moves == {m \in DecoderMoves : m[1] = 0 /\ m[2] = ByteType(b)}
<1>1. ByteType(b) = 0 BY DEF ByteType, Bytes
<1>2. <<0, 0, 0>> \in DecoderMoves BY DEF DecoderMoves, Accepts
<1>3. <<0, 0, 0>> \in moves BY <1>1, <1>2
<1>4. PICK m \in moves : Decode(0, b) = m[3] BY <1>3 DEF Decode
<1>5. m \in DecoderMoves /\ m[1] = 0 /\ m[2] = 0 BY <1>1, <1>4
<1>6. m[3] = 0 BY <1>5, SMTT(30) DEF DecoderMoves, Accepts
<1> QED BY <1>4, <1>6

LEMMA ContinuesGood ==
    ASSUME IsBody, NEW p, NEW c, NEW q, Good(p), Continues(p, c, q)
    PROVE  Good(q) /\ c \in Bytes
<1> DEFINE f == p.frames
           s == ArgOf(f, p.at)
           b == s[p.next]
           piece == Piece(p.state, b)
           part == IF Len(piece) = 1 THEN 0 ELSE 1
<1>1. /\ InString(p.at) /\ p.part = 0 /\ p.next <= Len(s)
      /\ Decode(p.state, b) # 1 /\ c = piece[1]
    BY DEF Continues
<1>2. FramesOK(f) /\ PlaceOK(p) /\ StringOK(p) BY <1>1 DEF Good
<1>3. /\ q.frames = f /\ q.at = p.at /\ q.next = p.next + 1
      /\ q.state = Decode(p.state, b) /\ q.part = part
  <2>1. q = Snap(f, p.at, p.next + 1, Decode(p.state, b), part) BY DEF Continues
  <2> HIDE DEF part
  <2> QED BY <2>1, SnapFields
<1>4. s \in Seq(Bytes) BY <1>1, ArgFacts
<1>5. p.next \in 1..(Len(s) + 1) /\ p.state \in 0..8 \ {1} BY <1>2 DEF StringOK
<1>6. Len(s) \in Nat /\ p.next \in 1..Len(s) BY <1>1, <1>4, <1>5
<1>7. b \in Bytes BY <1>4, <1>6
<1>8. /\ piece \in Seq(Bytes) /\ Len(piece) \in {1, 2, 6}
      /\ Len(piece) # 1 => p.state = 0 /\ b < 128 /\ piece = Escape(b, b)
    BY <1>7, PieceBytes
<1>9. c \in Bytes BY <1>1, <1>8
<1>10. Decode(p.state, b) \in 0..8 BY DecodeInRange
<1>11. ArgOf(q.frames, q.at) = s BY <1>3
<1>12. q.next \in 1..(Len(s) + 1) /\ q.next - 1 = p.next /\ q.next > 1 BY <1>3, <1>6
<1>13. StringOK(q)
  <2> HIDE DEF s, b, piece
  <2>1. CASE Len(piece) = 1
    <3>1. q.part = 0 BY <1>3, <2>1
    <3> QED BY <1>1, <1>3, <1>10, <1>11, <1>12, <3>1 DEF StringOK
  <2>2. CASE Len(piece) # 1
    <3>1. p.state = 0 /\ b < 128 /\ piece = Escape(b, b) BY <1>8, <2>2
    <3>2. q.state = 0 BY <1>3, <1>7, <3>1, DecodeAscii
    <3>3. q.part = 1 BY <1>3, <2>2
    <3>4. s[q.next - 1] = b BY <1>12 DEF b
    <3>5. q.part < Len(Escape(b, b))
      <4>1. Len(piece) \in {2, 6} BY <1>8, <2>2
      <4>2. PICK n \in {2, 6} : Len(Escape(b, b)) = n BY <3>1, <4>1
      <4>3. 1 < n BY <4>2
      <4> QED BY <3>3, <4>2, <4>3
    <3> QED BY <1>11, <1>12, <3>1, <3>2, <3>3, <3>4, <3>5 DEF StringOK
  <2> QED BY <1>8, <2>1, <2>2
<1>14. PlaceOK(q) BY <1>2, <1>3 DEF PlaceOK
<1> QED BY <1>1, <1>2, <1>3, <1>9, <1>13, <1>14 DEF Good

LEMMA CompletesGood ==
    ASSUME IsBody, NEW p, NEW c, NEW q, Good(p), Completes(p, c, q)
    PROVE  Good(q) /\ c \in Bytes
<1> DEFINE f == p.frames
           s == ArgOf(f, p.at)
           b == s[p.next - 1]
           piece == Escape(b, b)
           part == IF p.part + 1 = Len(piece) THEN 0 ELSE p.part + 1
<1>1. InString(p.at) /\ p.part > 0 /\ c = piece[p.part + 1] BY DEF Completes
<1>2. FramesOK(f) /\ PlaceOK(p) /\ StringOK(p) BY <1>1 DEF Good
<1>3. q.frames = f /\ q.at = p.at /\ q.next = p.next /\ q.state = p.state /\ q.part = part
  <2>1. q = Snap(f, p.at, p.next, p.state, part) BY DEF Completes
  <2> HIDE DEF part
  <2> QED BY <2>1, SnapFields
<1>4. s \in Seq(Bytes) BY <1>1, ArgFacts
<1>5. /\ p.next \in 1..(Len(s) + 1) /\ p.next > 1 /\ p.part \in 1..5 /\ p.state = 0
      /\ b < 128 /\ p.part < Len(piece)
    BY <1>1, <1>2 DEF StringOK
<1>6. p.next - 1 \in 1..Len(s) BY <1>4, <1>5
<1>7. b \in Bytes BY <1>4, <1>6
<1>8. piece \in Seq(Bytes) /\ Len(piece) \in {1, 2, 6} BY <1>7, EscapeBytes
<1>9. c \in Bytes
  <2>1. p.part + 1 \in 1..Len(piece) BY <1>5, <1>8
  <2> QED BY <1>1, <1>8, <2>1
<1>10. part \in 0..5 /\ (part > 0 => part < Len(piece))
  <2> HIDE DEF piece
  <2>1. PICK n \in {1, 2, 6} : n = Len(piece) BY <1>8
  <2>2. part = IF p.part + 1 = n THEN 0 ELSE p.part + 1 BY <2>1
  <2>3. p.part \in 1..5 /\ p.part < n BY <1>5, <2>1
  <2> HIDE DEF part
  <2>4. part \in 0..5 /\ (part > 0 => part < n) BY <2>2, <2>3
  <2> QED BY <2>1, <2>4
<1>11. StringOK(q)
  <2> HIDE DEF part, piece, b, s
  <2>1. ArgOf(q.frames, q.at) = s BY <1>3 DEF s
  <2> QED BY <1>3, <1>5, <1>10, <2>1 DEF StringOK, b, piece
<1>12. PlaceOK(q) BY <1>2, <1>3 DEF PlaceOK
<1> QED BY <1>1, <1>2, <1>3, <1>9, <1>11, <1>12 DEF Good

LEMMA EmitsGood ==
    ASSUME IsBody, NEW p, NEW c, NEW q, Good(p), Emits(p, c, q)
    PROVE  Good(q) /\ c \in Bytes
<1> USE DEF Bytes
<1>1. CASE Opens(p, c, q) BY <1>1, OpensGood DEF Opens
<1>2. CASE StartsText(p, c, q) BY <1>2, StartsTextGood DEF StartsText
<1>3. CASE StartsName(p, c, q) BY <1>3, StartsNameGood DEF StartsName
<1>4. CASE Separates(p, c, q)
  <2>1. c = 44 /\ p.at = "members" /\ q = Snap(p.frames, "comma", p.next, p.state, p.part)
      BY <1>4 DEF Separates
  <2>2. q.frames = p.frames /\ q.at = "comma" /\ q.state = p.state /\ q.part = p.part
      BY <2>1, SnapFields
  <2> QED BY <1>4, <2>1, <2>2 DEF Separates, Good, PlaceOK, InString
<1>5. CASE Closes(p, c, q) BY <1>5, ClosesGood DEF Closes
<1>6. CASE Continues(p, c, q) BY <1>6, ContinuesGood
<1>7. CASE Completes(p, c, q) BY <1>7, CompletesGood
<1>8. CASE EndsName(p, c, q)
  <2>1. c = 34 /\ p.at = "key" /\ Ended(p) /\ q = Snap(p.frames, "colon", p.next, p.state, p.part)
      BY <1>8 DEF EndsName
  <2>2. q.frames = p.frames /\ q.at = "colon" /\ q.state = p.state /\ q.part = p.part
      BY <2>1, SnapFields
  <2> QED BY <2>1, <2>2 DEF Good, PlaceOK, InString, Ended
<1>9. CASE Points(p, c, q)
  <2>1. c = 58 /\ p.at = "colon" /\ q = Snap(p.frames, "value", p.next, p.state, p.part)
      BY <1>9 DEF Points
  <2>2. q.frames = p.frames /\ q.at = "value" /\ q.state = p.state /\ q.part = p.part
      BY <2>1, SnapFields
  <2> QED BY <2>1, <2>2 DEF Good, PlaceOK, InString
<1>10. CASE EndsText(p, c, q)
  <2>1. /\ c = 34 /\ p.at = "text" /\ Ended(p)
        /\ q = Snap(p.frames, Returned(p.frames), p.next, p.state, p.part)
      BY <1>10 DEF EndsText
  <2>2. /\ q.frames = p.frames /\ q.at = Returned(p.frames)
        /\ q.state = p.state /\ q.part = p.part
      BY <2>1, SnapFields
  <2>3. FramesOK(p.frames) /\ Deepest(p.frames).begun > 0 BY <2>1 DEF Good, PlaceOK
  <2> QED BY <2>1, <2>2, <2>3, ReturnedGood DEF Ended
<1> QED BY <1>1, <1>2, <1>3, <1>4, <1>5, <1>6, <1>7, <1>8, <1>9, <1>10 DEF Emits

-----------------------------------------------------------------------------
(* The decoder's table, by the ranges that the bytes are in.               *)

DecoderTo(from, t) ==
    IF from = 0 THEN IF t = 0 THEN 0 ELSE IF t = 2 THEN 2 ELSE IF t = 3 THEN 3
                     ELSE IF t = 4 THEN 5 ELSE IF t = 5 THEN 8 ELSE IF t = 6 THEN 7
                     ELSE IF t = 10 THEN 4 ELSE IF t = 11 THEN 6 ELSE 1
    ELSE IF from = 2 THEN IF t \in {1, 7, 9} THEN 0 ELSE 1
    ELSE IF from = 3 THEN IF t \in {1, 7, 9} THEN 2 ELSE 1
    ELSE IF from = 4 THEN IF t = 7 THEN 2 ELSE 1
    ELSE IF from = 5 THEN IF t \in {1, 9} THEN 2 ELSE 1
    ELSE IF from = 6 THEN IF t \in {7, 9} THEN 3 ELSE 1
    ELSE IF from = 7 THEN IF t \in {1, 7, 9} THEN 3 ELSE 1
    ELSE IF from = 8 THEN IF t = 1 THEN 3 ELSE 1
    ELSE 1

LEMMA MoveLeads ==
    ASSUME NEW m \in DecoderMoves
    PROVE  m[3] = DecoderTo(m[1], m[2])
<1>1. PICK t \in 0..11 :
        \/ m = <<0, t, 0>> /\ t = 0
        \/ m = <<0, t, 2>> /\ t = 2
        \/ m = <<0, t, 3>> /\ t = 3
        \/ m = <<0, t, 5>> /\ t = 4
        \/ m = <<0, t, 8>> /\ t = 5
        \/ m = <<0, t, 7>> /\ t = 6
        \/ m = <<0, t, 4>> /\ t = 10
        \/ m = <<0, t, 6>> /\ t = 11
        \/ m = <<2, t, 0>> /\ t \in {1, 7, 9}
        \/ m = <<3, t, 2>> /\ t \in {1, 7, 9}
        \/ m = <<4, t, 2>> /\ t = 7
        \/ m = <<5, t, 2>> /\ t \in {1, 9}
        \/ m = <<6, t, 3>> /\ t \in {7, 9}
        \/ m = <<7, t, 3>> /\ t \in {1, 7, 9}
        \/ m = <<8, t, 3>> /\ t = 1
    BY SMTT(60) DEF DecoderMoves, Accepts
<1> QED BY <1>1 DEF DecoderTo

LEMMA MoveThere ==
    ASSUME NEW from \in 0..8, NEW t \in 0..11, DecoderTo(from, t) # 1
    PROVE  <<from, t, DecoderTo(from, t)>> \in DecoderMoves
<1>1. \/ from = 0 /\ \/ t = 0 /\ DecoderTo(from, t) = 0
                     \/ t = 2 /\ DecoderTo(from, t) = 2
                     \/ t = 3 /\ DecoderTo(from, t) = 3
                     \/ t = 4 /\ DecoderTo(from, t) = 5
                     \/ t = 5 /\ DecoderTo(from, t) = 8
                     \/ t = 6 /\ DecoderTo(from, t) = 7
                     \/ t = 10 /\ DecoderTo(from, t) = 4
                     \/ t = 11 /\ DecoderTo(from, t) = 6
      \/ from = 2 /\ t \in {1, 7, 9} /\ DecoderTo(from, t) = 0
      \/ from = 3 /\ t \in {1, 7, 9} /\ DecoderTo(from, t) = 2
      \/ from = 4 /\ t \in {7} /\ DecoderTo(from, t) = 2
      \/ from = 5 /\ t \in {1, 9} /\ DecoderTo(from, t) = 2
      \/ from = 6 /\ t \in {7, 9} /\ DecoderTo(from, t) = 3
      \/ from = 7 /\ t \in {1, 7, 9} /\ DecoderTo(from, t) = 3
      \/ from = 8 /\ t \in {1} /\ DecoderTo(from, t) = 3
    BY DEF DecoderTo
<1> QED BY <1>1, SMTT(60) DEF DecoderMoves, Accepts

LEMMA ByteTypes ==
    ASSUME NEW b \in Bytes
    PROVE  /\ ByteType(b) \in 0..11
           /\ b < 128 <=> ByteType(b) = 0
           /\ b \in 128..143 <=> ByteType(b) = 1
           /\ b \in 144..159 <=> ByteType(b) = 9
           /\ b \in 160..191 <=> ByteType(b) = 7
           /\ b \in 194..223 <=> ByteType(b) = 2
           /\ b = 224 <=> ByteType(b) = 10
           /\ b \in 225..236 \cup {238, 239} <=> ByteType(b) = 3
           /\ b = 237 <=> ByteType(b) = 4
           /\ b = 240 <=> ByteType(b) = 11
           /\ b \in 241..243 <=> ByteType(b) = 6
           /\ b = 244 <=> ByteType(b) = 5
<1> DEFINE g0 == b \in 0..127
           g1 == b \in 128..143
           g2 == b \in 144..159
           g3 == b \in 160..191
           g4 == b \in 194..223
           g5 == b = 224
           g6 == b \in 225..236 \cup {238, 239}
           g7 == b = 237
           g8 == b = 240
           g9 == b \in 241..243
           g10 == b = 244
<1>1. ByteType(b) =
        CASE g0 -> 0
          [] g1 -> 1
          [] g2 -> 9
          [] g3 -> 7
          [] g4 -> 2
          [] g5 -> 10
          [] g6 -> 3
          [] g7 -> 4
          [] g8 -> 11
          [] g9 -> 6
          [] g10 -> 5
          [] OTHER -> 8
    BY Zenon DEF ByteType
<1>2. /\ g0 => ~g1 /\ ~g2 /\ ~g3 /\ ~g4 /\ ~g5 /\ ~g6 /\ ~g7 /\ ~g8 /\ ~g9 /\ ~g10
      /\ g1 => ~g0 /\ ~g2 /\ ~g3 /\ ~g4 /\ ~g5 /\ ~g6 /\ ~g7 /\ ~g8 /\ ~g9 /\ ~g10
      /\ g2 => ~g0 /\ ~g1 /\ ~g3 /\ ~g4 /\ ~g5 /\ ~g6 /\ ~g7 /\ ~g8 /\ ~g9 /\ ~g10
      /\ g3 => ~g0 /\ ~g1 /\ ~g2 /\ ~g4 /\ ~g5 /\ ~g6 /\ ~g7 /\ ~g8 /\ ~g9 /\ ~g10
      /\ g4 => ~g0 /\ ~g1 /\ ~g2 /\ ~g3 /\ ~g5 /\ ~g6 /\ ~g7 /\ ~g8 /\ ~g9 /\ ~g10
      /\ g5 => ~g0 /\ ~g1 /\ ~g2 /\ ~g3 /\ ~g4 /\ ~g6 /\ ~g7 /\ ~g8 /\ ~g9 /\ ~g10
      /\ g6 => ~g0 /\ ~g1 /\ ~g2 /\ ~g3 /\ ~g4 /\ ~g5 /\ ~g7 /\ ~g8 /\ ~g9 /\ ~g10
      /\ g7 => ~g0 /\ ~g1 /\ ~g2 /\ ~g3 /\ ~g4 /\ ~g5 /\ ~g6 /\ ~g8 /\ ~g9 /\ ~g10
      /\ g8 => ~g0 /\ ~g1 /\ ~g2 /\ ~g3 /\ ~g4 /\ ~g5 /\ ~g6 /\ ~g7 /\ ~g9 /\ ~g10
      /\ g9 => ~g0 /\ ~g1 /\ ~g2 /\ ~g3 /\ ~g4 /\ ~g5 /\ ~g6 /\ ~g7 /\ ~g8 /\ ~g10
      /\ g10 => ~g0 /\ ~g1 /\ ~g2 /\ ~g3 /\ ~g4 /\ ~g5 /\ ~g6 /\ ~g7 /\ ~g8 /\ ~g9
    BY SMTT(30) DEF Bytes
<1>3. g0 <=> b < 128 BY DEF Bytes
<1> HIDE DEF g0, g1, g2, g3, g4, g5, g6, g7, g8, g9, g10
<1>10. g0 => ByteType(b) = 0 BY <1>1, <1>2
<1>11. g1 => ByteType(b) = 1 BY <1>1, <1>2
<1>12. g2 => ByteType(b) = 9 BY <1>1, <1>2
<1>13. g3 => ByteType(b) = 7 BY <1>1, <1>2
<1>14. g4 => ByteType(b) = 2 BY <1>1, <1>2
<1>15. g5 => ByteType(b) = 10 BY <1>1, <1>2
<1>16. g6 => ByteType(b) = 3 BY <1>1, <1>2
<1>17. g7 => ByteType(b) = 4 BY <1>1, <1>2
<1>18. g8 => ByteType(b) = 11 BY <1>1, <1>2
<1>19. g9 => ByteType(b) = 6 BY <1>1, <1>2
<1>20. g10 => ByteType(b) = 5 BY <1>1, <1>2
<1>30. ~g0 /\ ~g1 /\ ~g2 /\ ~g3 /\ ~g4 /\ ~g5 /\ ~g6 /\ ~g7 /\ ~g8 /\ ~g9 /\ ~g10 => ByteType(b) = 8 BY <1>1
<1>31. (g0 <=> ByteType(b) = 0) /\ (g1 <=> ByteType(b) = 1) /\ (g2 <=> ByteType(b) = 9) /\ (g3 <=> ByteType(b) = 7) /\ (g4 <=> ByteType(b) = 2) /\ (g5 <=> ByteType(b) = 10) /\ (g6 <=> ByteType(b) = 3) /\ (g7 <=> ByteType(b) = 4) /\ (g8 <=> ByteType(b) = 11) /\ (g9 <=> ByteType(b) = 6) /\ (g10 <=> ByteType(b) = 5) /\ ByteType(b) \in 0..11
    BY <1>2, <1>10, <1>11, <1>12, <1>13, <1>14, <1>15, <1>16, <1>17, <1>18, <1>19, <1>20, <1>30
<1> QED BY <1>3, <1>31 DEF g0, g1, g2, g3, g4, g5, g6, g7, g8, g9, g10

LEMMA DecodeTo ==
    ASSUME NEW from \in 0..8, NEW b \in Bytes
    PROVE  Decode(from, b) = DecoderTo(from, ByteType(b))
<1> DEFINE t == ByteType(b)
           moves == {m \in DecoderMoves : m[1] = from /\ m[2] = t}
<1>1. t \in 0..11 BY ByteTypes
<1>2. \A m \in moves : m[3] = DecoderTo(from, t) BY MoveLeads
<1>3. CASE DecoderTo(from, t) = 1
  <2>1. CASE moves = {} BY <1>3, <2>1 DEF Decode
  <2>2. CASE moves # {}
    <3>1. PICK m \in moves : Decode(from, b) = m[3] BY <2>2 DEF Decode
    <3> QED BY <1>2, <3>1
  <2> QED BY <2>1, <2>2
<1>4. CASE DecoderTo(from, t) # 1
  <2>1. <<from, t, DecoderTo(from, t)>> \in DecoderMoves BY <1>1, <1>4, MoveThere
  <2>2. <<from, t, DecoderTo(from, t)>> \in moves BY <2>1
  <2>3. PICK m \in moves : Decode(from, b) = m[3] BY <2>2 DEF Decode
  <2> QED BY <1>2, <2>3
<1> QED BY <1>3, <1>4

LEMMA DecodeRanges ==
    ASSUME NEW b \in Bytes
    PROVE  /\ Decode(0, b) = IF b < 128 THEN 0 ELSE IF b \in 194..223 THEN 2
                             ELSE IF b = 224 THEN 4 ELSE IF b = 237 THEN 5
                             ELSE IF b \in 225..239 THEN 3 ELSE IF b = 240 THEN 6
                             ELSE IF b \in 241..243 THEN 7 ELSE IF b = 244 THEN 8 ELSE 1
           /\ Decode(2, b) = IF b \in 128..191 THEN 0 ELSE 1
           /\ Decode(3, b) = IF b \in 128..191 THEN 2 ELSE 1
           /\ Decode(4, b) = IF b \in 160..191 THEN 2 ELSE 1
           /\ Decode(5, b) = IF b \in 128..159 THEN 2 ELSE 1
           /\ Decode(6, b) = IF b \in 144..191 THEN 3 ELSE 1
           /\ Decode(7, b) = IF b \in 128..191 THEN 3 ELSE 1
           /\ Decode(8, b) = IF b \in 128..143 THEN 3 ELSE 1
<1> DEFINE t == ByteType(b)
<1>1. \A s \in 0..8 : Decode(s, b) = DecoderTo(s, t) BY DecodeTo
<1>2. b \in 0..255 BY DEF Bytes
<1>3. /\ t \in 0..11
      /\ b < 128 <=> t = 0
      /\ b \in 128..143 <=> t = 1
      /\ b \in 144..159 <=> t = 9
      /\ b \in 160..191 <=> t = 7
      /\ b \in 194..223 <=> t = 2
      /\ b = 224 <=> t = 10
      /\ b \in 225..236 \cup {238, 239} <=> t = 3
      /\ b = 237 <=> t = 4
      /\ b = 240 <=> t = 11
      /\ b \in 241..243 <=> t = 6
      /\ b = 244 <=> t = 5
    BY ByteTypes
<1> HIDE DEF t
<1>4. DecoderTo(0, t) = IF b < 128 THEN 0 ELSE IF b \in 194..223 THEN 2
                             ELSE IF b = 224 THEN 4 ELSE IF b = 237 THEN 5
                             ELSE IF b \in 225..239 THEN 3 ELSE IF b = 240 THEN 6
                             ELSE IF b \in 241..243 THEN 7 ELSE IF b = 244 THEN 8 ELSE 1
    BY <1>2, <1>3, SMTT(60) DEF DecoderTo
<1>5. b \in 128..191 <=> t \in {1, 7, 9} BY <1>2, <1>3
<1>6. b \in 128..159 <=> t \in {1, 9} BY <1>2, <1>3
<1>7. b \in 144..191 <=> t \in {7, 9} BY <1>2, <1>3
<1> QED BY <1>1, <1>3, <1>4, <1>5, <1>6, <1>7 DEF DecoderTo

\* Whose name, and whose value, was read.
LastNamed(f, at) == IF at = "key" THEN Deepest(f).begun - 1 ELSE Deepest(f).begun
LastHeld(f, at) == IF at \in {"members", "comma"} THEN Deepest(f).begun ELSE Deepest(f).begun - 1

-----------------------------------------------------------------------------
(* UTF-8, by the first byte of a code point.                               *)

Tails == 128..191
Width(b) ==
    IF b < 128 THEN 1 ELSE IF b \in 194..223 THEN 2 ELSE IF b \in 224..239 THEN 3
    ELSE IF b \in 240..244 THEN 4 ELSE 0
SecondOf(b) ==
    IF b = 224 THEN 160..191 ELSE IF b = 237 THEN 128..159
    ELSE IF b = 240 THEN 144..191 ELSE IF b = 244 THEN 128..143 ELSE Tails

\* The k bytes of s from i on are a code point, or begin one.
Begins(s, i, k) ==
    /\ i \in 1..Len(s) /\ k \in 1..4 /\ i + k <= Len(s) + 1
    /\ k <= Width(s[i])
    /\ k >= 2 => s[i + 1] \in SecondOf(s[i])
    /\ k >= 3 => s[i + 2] \in Tails
    /\ k >= 4 => s[i + 3] \in Tails

Whole(s, i) == Begins(s, i, Width(s[i]))

LEMMA WidthIs ==
    ASSUME NEW b \in Bytes
    PROVE  /\ Width(b) \in 0..4
           /\ 1 = Width(b) <=> b < 128
           /\ 2 = Width(b) <=> b \in 192..223 /\ b >= 194
           /\ 2 = Width(b) => SecondOf(b) = Tails
           /\ 3 = Width(b) <=> b \in 224..239
           /\ 4 = Width(b) <=> b \in 240..247 /\ b <= 244
           /\ SecondOf(b) \subseteq Tails
<1>1. b \in 0..255 BY DEF Bytes
<1>2. /\ Width(b) \in 0..4
      /\ 1 = Width(b) <=> b < 128
      /\ 2 = Width(b) <=> b \in 194..223
      /\ 3 = Width(b) <=> b \in 224..239
      /\ 4 = Width(b) <=> b \in 240..244
    BY SMT, <1>1 DEF Width
<1>3. b \in 194..223 <=> b \in 192..223 /\ b >= 194 BY SMT, <1>1
<1>4. b \in 240..244 <=> b \in 240..247 /\ b <= 244 BY SMT, <1>1
<1>5. b \in 194..223 => SecondOf(b) = Tails BY SMT DEF SecondOf
<1>6. SecondOf(b) \subseteq Tails BY SMT DEF SecondOf, Tails
<1> QED BY <1>2, <1>3, <1>4, <1>5, <1>6

LEMMA TwoBytes ==
    ASSUME NEW a \in 192..223, NEW b \in Tails
    PROVE  LET x == (a - 192) * 64 + (b - 128)
           IN  x \in Int /\ (x >= 128 /\ x <= 2047 <=> a >= 194)
BY SMT DEF Tails


LEMMA ThreeBytes ==
    ASSUME NEW a \in 224..239, NEW b \in Tails, NEW c \in Tails
    PROVE  LET x == (a - 224) * 4096 + (b - 128) * 64 + (c - 128)
           IN  /\ x \in Int
               /\ (x >= 2048 /\ x <= 55295) \/ (x >= 57344 /\ x <= 65535) <=> b \in SecondOf(a)
<1>0. SecondOf(a) = IF a = 224 THEN 160..191 ELSE IF a = 237 THEN 128..159 ELSE 128..191
    BY SMT DEF SecondOf, Tails
<1>1. CASE a = 224 BY SMT, <1>0, <1>1 DEF Tails
<1>2. CASE a = 237 BY SMT, <1>0, <1>2 DEF Tails
<1>3. CASE a \in 225..236 BY SMT, <1>0, <1>3 DEF Tails
<1>4. CASE a \in 238..239 BY SMT, <1>0, <1>4 DEF Tails
<1> QED BY SMT, <1>1, <1>2, <1>3, <1>4

LEMMA FourBytes ==
    ASSUME NEW a \in 240..247, NEW b \in Tails, NEW c \in Tails, NEW d \in Tails
    PROVE  LET x == (a - 240) * 262144 + (b - 128) * 4096 + (c - 128) * 64 + (d - 128)
           IN  /\ x \in Int
               /\ x >= 65536 /\ x <= 1114111 <=> a <= 244 /\ b \in SecondOf(a)
<1>0. SecondOf(a) = IF a = 240 THEN 144..191 ELSE IF a = 244 THEN 128..143 ELSE 128..191
    BY SMT DEF SecondOf, Tails
<1>1. CASE a = 240 BY SMT, <1>0, <1>1 DEF Tails
<1>2. CASE a = 244 BY SMT, <1>0, <1>2 DEF Tails
<1>3. CASE a \in 241..243 BY SMT, <1>0, <1>3 DEF Tails
<1>4. CASE a \in 245..247 BY SMT, <1>0, <1>4 DEF Tails
<1> QED BY SMT, <1>1, <1>2, <1>3, <1>4

LEMMA WithinIs ==
    ASSUME NEW cp, NEW from, NEW to
    PROVE  Within(cp, from, to) # {} <=> from <= cp /\ cp <= to
BY DEF Within

LEMMA PointsOne ==
    ASSUME NEW w, Len(w) = 1
    PROVE  Utf8CodePoints(w) # {} <=> w[1] < 128
BY SMT DEF Utf8CodePoints

LEMMA PointsTwo ==
    ASSUME NEW w, Len(w) = 2, NEW a \in Bytes, NEW b \in Bytes, w[1] = a, w[2] = b
    PROVE  Utf8CodePoints(w) # {} <=> Width(a) = 2 /\ b \in SecondOf(a)
<1>1. (\A i \in 2..2 : w[i] \in 128..191) <=> b \in Tails BY SMT DEF Tails
<1> DEFINE x == (a - 192) * 64 + (b - 128)
<1>2. Utf8CodePoints(w) = IF b \in Tails /\ a \in 192..223 THEN Within(x, 128, 2047) ELSE {}
    BY SMT, <1>1 DEF Utf8CodePoints
<1>3. b \in Tails /\ a \in 192..223 => (128 <= x /\ x <= 2047 <=> a >= 194) BY SMT, TwoBytes
<1> HIDE DEF x
<1>4. Utf8CodePoints(w) # {} <=> b \in Tails /\ a \in 192..223 /\ a >= 194
    BY SMT, <1>2, <1>3, WithinIs
<1> QED BY SMT, <1>4, WidthIs

LEMMA PointsThree ==
    ASSUME NEW w, Len(w) = 3, NEW a \in Bytes, NEW b \in Bytes, NEW c \in Bytes,
           w[1] = a, w[2] = b, w[3] = c
    PROVE  Utf8CodePoints(w) # {} <=> Width(a) = 3 /\ b \in SecondOf(a) /\ c \in Tails
<1>1. (\A i \in 2..3 : w[i] \in 128..191) <=> b \in Tails /\ c \in Tails BY SMT DEF Tails
<1> DEFINE x == (a - 224) * 4096 + (b - 128) * 64 + (c - 128)
           there == b \in Tails /\ c \in Tails /\ a \in 224..239
<1>2. Utf8CodePoints(w) = IF there THEN Within(x, 2048, 55295) \cup Within(x, 57344, 65535) ELSE {}
    BY SMT, <1>1 DEF Utf8CodePoints
<1>3. there => ((2048 <= x /\ x <= 55295) \/ (57344 <= x /\ x <= 65535) <=> b \in SecondOf(a))
    BY SMT, ThreeBytes
<1> HIDE DEF x
<1>4. Within(x, 2048, 55295) \cup Within(x, 57344, 65535) # {}
        <=> (2048 <= x /\ x <= 55295) \/ (57344 <= x /\ x <= 65535)
    BY SMT, WithinIs
<1>5. Utf8CodePoints(w) # {} <=> there /\ b \in SecondOf(a) BY SMT, <1>2, <1>3, <1>4
<1> QED BY SMT, <1>5, WidthIs

LEMMA PointsFour ==
    ASSUME NEW w, Len(w) = 4, NEW a \in Bytes, NEW b \in Bytes, NEW c \in Bytes, NEW d \in Bytes,
           w[1] = a, w[2] = b, w[3] = c, w[4] = d
    PROVE  Utf8CodePoints(w) # {} <=>
              Width(a) = 4 /\ b \in SecondOf(a) /\ c \in Tails /\ d \in Tails
<1>1. (\A i \in 2..4 : w[i] \in 128..191) <=> b \in Tails /\ c \in Tails /\ d \in Tails
    BY SMT DEF Tails
<1> DEFINE x == (a - 240) * 262144 + (b - 128) * 4096 + (c - 128) * 64 + (d - 128)
           there == b \in Tails /\ c \in Tails /\ d \in Tails /\ a \in 240..247
<1>2. Utf8CodePoints(w) = IF there THEN Within(x, 65536, 1114111) ELSE {}
    BY SMT, <1>1 DEF Utf8CodePoints
<1>3. there => (65536 <= x /\ x <= 1114111 <=> a <= 244 /\ b \in SecondOf(a))
    BY SMT, FourBytes
<1> HIDE DEF x
<1>5. Utf8CodePoints(w) # {} <=> there /\ a <= 244 /\ b \in SecondOf(a)
    BY SMT, <1>2, <1>3, WithinIs
<1> QED BY SMT, <1>5, WidthIs

\* The windows that IsUtf8 looks for are the code points.
LEMMA Windows ==
    ASSUME NEW s \in Seq(Bytes), NEW i \in 1..Len(s), NEW j \in i..Len(s), j - i < 4
    PROVE  Utf8CodePoints(SubSeq(s, i, j)) # {} <=> Whole(s, i) /\ j = i + Width(s[i]) - 1
<1> DEFINE w == SubSeq(s, i, j)
           a == s[i]
<1>1. w \in Seq(Bytes) /\ Len(w) = j - i + 1 /\ \A k \in 1..(j - i + 1) : w[k] = s[i + k - 1]
    BY SMT, SubSeqProperties
<1>2. Len(s) \in Nat /\ a \in Bytes BY SMT
<1>3. Width(a) \in 0..4 BY SMT, <1>2, WidthIs
<1> HIDE DEF w, a
<1>4. CASE j = i
  <2>1. Len(w) = 1 /\ w[1] = a BY SMT, <1>1, <1>4 DEF a
  <2>2. Utf8CodePoints(w) # {} <=> a < 128 BY SMT, <2>1, PointsOne
  <2>3. a < 128 <=> Width(a) = 1 BY SMT, <1>2, WidthIs
  <2>4. Width(a) = 1 => Whole(s, i) BY SMT, <1>2 DEF Whole, Begins, a
  <2> QED BY SMT, <1>2, <1>3, <1>4, <2>2, <2>3, <2>4 DEF w, a
<1>5. CASE j = i + 1
  <2> DEFINE b == s[i + 1]
  <2>1. b \in Bytes /\ Len(w) = 2 /\ w[1] = a /\ w[2] = b BY SMT, <1>1, <1>5 DEF a
  <2> HIDE DEF b
  <2>2. Utf8CodePoints(w) # {} <=> Width(a) = 2 /\ b \in SecondOf(a)
      BY SMT, <1>2, <2>1, PointsTwo
  <2>3. Width(a) = 2 => (Whole(s, i) <=> b \in SecondOf(a))
      BY SMT, <1>2, <1>5 DEF Whole, Begins, a, b
  <2> QED BY SMT, <1>2, <1>3, <1>5, <2>2, <2>3 DEF w, a
<1>6. CASE j = i + 2
  <2> DEFINE b == s[i + 1]
             c == s[i + 2]
  <2>1. b \in Bytes /\ c \in Bytes /\ Len(w) = 3 /\ w[1] = a /\ w[2] = b /\ w[3] = c
      BY SMT, <1>1, <1>6 DEF a
  <2> HIDE DEF b, c
  <2>2. Utf8CodePoints(w) # {} <=> Width(a) = 3 /\ b \in SecondOf(a) /\ c \in Tails
      BY SMT, <1>2, <2>1, PointsThree
  <2>3. Width(a) = 3 => (Whole(s, i) <=> b \in SecondOf(a) /\ c \in Tails)
      BY SMT, <1>2, <1>6 DEF Whole, Begins, a, b, c
  <2> QED BY SMT, <1>2, <1>3, <1>6, <2>2, <2>3 DEF w, a
<1>7. CASE j = i + 3
  <2> DEFINE b == s[i + 1]
             c == s[i + 2]
             d == s[i + 3]
  <2>1. /\ b \in Bytes /\ c \in Bytes /\ d \in Bytes
        /\ Len(w) = 4 /\ w[1] = a /\ w[2] = b /\ w[3] = c /\ w[4] = d
      BY SMT, <1>1, <1>7 DEF a
  <2> HIDE DEF b, c, d
  <2>2. Utf8CodePoints(w) # {} <=> Width(a) = 4 /\ b \in SecondOf(a) /\ c \in Tails /\ d \in Tails
      BY SMT, <1>2, <2>1, PointsFour
  <2>3. Width(a) = 4 => (Whole(s, i) <=> b \in SecondOf(a) /\ c \in Tails /\ d \in Tails)
      BY SMT, <1>2, <1>7 DEF Whole, Begins, a, b, c, d
  <2> QED BY SMT, <1>2, <1>3, <1>7, <2>2, <2>3 DEF w, a
<1> QED BY SMT, <1>4, <1>5, <1>6, <1>7

-----------------------------------------------------------------------------
(* The decoder accepts UTF-8 and nothing else.                             *)

\* Its state after k bytes of a code point that begins with b and has more.
StateIn(b, k) ==
    IF k = 1
    THEN IF b \in 194..223 THEN 2 ELSE IF b = 224 THEN 4 ELSE IF b = 237 THEN 5
         ELSE IF b \in 225..239 THEN 3 ELSE IF b = 240 THEN 6
         ELSE IF b \in 241..243 THEN 7 ELSE 8
    ELSE IF Width(b) - k = 1 THEN 2 ELSE 3

LEMMA DecodeFirst ==
    ASSUME NEW b \in Bytes
    PROVE  Decode(0, b) = IF Width(b) = 0 THEN 1 ELSE IF Width(b) = 1 THEN 0 ELSE StateIn(b, 1)
<1>1. b \in 0..255 BY DEF Bytes
<1>2. Decode(0, b) = IF b < 128 THEN 0 ELSE IF b \in 194..223 THEN 2
                     ELSE IF b = 224 THEN 4 ELSE IF b = 237 THEN 5
                     ELSE IF b \in 225..239 THEN 3 ELSE IF b = 240 THEN 6
                     ELSE IF b \in 241..243 THEN 7 ELSE IF b = 244 THEN 8 ELSE 1
    BY DecodeRanges
<1> QED BY SMT, <1>1, <1>2 DEF Width, StateIn

LEMMA DecodeLater ==
    ASSUME NEW a \in Bytes, NEW b \in Bytes, NEW k \in 1..3, k < Width(a)
    PROVE  LET fits == (k = 1 /\ b \in SecondOf(a)) \/ (k > 1 /\ b \in Tails)
           IN  Decode(StateIn(a, k), b) =
                 IF ~fits THEN 1 ELSE IF k + 1 = Width(a) THEN 0 ELSE StateIn(a, k + 1)
<1>1. a \in 0..255 /\ b \in 0..255 BY DEF Bytes
<1>2. /\ Decode(2, b) = IF b \in 128..191 THEN 0 ELSE 1
      /\ Decode(3, b) = IF b \in 128..191 THEN 2 ELSE 1
      /\ Decode(4, b) = IF b \in 160..191 THEN 2 ELSE 1
      /\ Decode(5, b) = IF b \in 128..159 THEN 2 ELSE 1
      /\ Decode(6, b) = IF b \in 144..191 THEN 3 ELSE 1
      /\ Decode(7, b) = IF b \in 128..191 THEN 3 ELSE 1
      /\ Decode(8, b) = IF b \in 128..143 THEN 3 ELSE 1
    BY DecodeRanges
<1>3. CASE a \in 194..223
    BY SMT, <1>1, <1>2, <1>3 DEF Width, StateIn, SecondOf, Tails
<1>4. CASE a = 224 BY SMT, <1>1, <1>2, <1>4 DEF Width, StateIn, SecondOf, Tails
<1>5. CASE a = 237 BY SMT, <1>1, <1>2, <1>5 DEF Width, StateIn, SecondOf, Tails
<1>6. CASE a \in 225..239 /\ a # 237
    BY SMT, <1>1, <1>2, <1>6 DEF Width, StateIn, SecondOf, Tails
<1>7. CASE a = 240 BY SMT, <1>1, <1>2, <1>7 DEF Width, StateIn, SecondOf, Tails
<1>8. CASE a \in 241..243 BY SMT, <1>1, <1>2, <1>8 DEF Width, StateIn, SecondOf, Tails
<1>9. CASE a = 244 BY SMT, <1>1, <1>2, <1>9 DEF Width, StateIn, SecondOf, Tails
<1>10. a \in 194..244 BY SMT, <1>1 DEF Width
<1> QED BY SMT, <1>3, <1>4, <1>5, <1>6, <1>7, <1>8, <1>9, <1>10

LEMMA StateInIs ==
    ASSUME NEW a \in Bytes, NEW k \in 1..3, k < Width(a)
    PROVE  StateIn(a, k) \in 2..8
BY SMT DEF StateIn

\* Each of the first n bytes is in a code point that ends there or before.
Covered(s, n) ==
    \A j \in 1..n : \E i \in 1..j :
        Whole(s, i) /\ j < i + Width(s[i]) /\ i + Width(s[i]) <= n + 1

\* The decoder has taken n bytes and is in this state: behind the code points that are
\* complete there are the first bytes of another one.
Decoded(s, n, st) ==
    \E i \in 1..(n + 1) :
        /\ Covered(s, i - 1)
        /\ st = 0 => i = n + 1
        /\ st # 0 => /\ i <= n /\ Begins(s, i, n + 1 - i)
                     /\ n + 1 - i < Width(s[i])
                     /\ st = StateIn(s[i], n + 1 - i)

LEMMA WholeFacts ==
    ASSUME NEW s \in Seq(Bytes), NEW i, Whole(s, i)
    PROVE  /\ i \in 1..Len(s) /\ s[i] \in Bytes /\ Width(s[i]) \in 1..4
           /\ i + Width(s[i]) <= Len(s) + 1
           /\ \A j \in (i + 1)..(i + Width(s[i]) - 1) : s[j] \in Tails
<1> DEFINE w == Width(s[i])
<1>1. i \in 1..Len(s) /\ w \in 1..4 /\ i + w <= Len(s) + 1
      /\ (w >= 2 => s[i + 1] \in SecondOf(s[i]))
      /\ (w >= 3 => s[i + 2] \in Tails) /\ (w >= 4 => s[i + 3] \in Tails)
    BY SMT DEF Whole, Begins
<1>2. s[i] \in Bytes /\ Len(s) \in Nat BY SMT, <1>1
<1>3. SecondOf(s[i]) \subseteq Tails BY SMT, <1>2, WidthIs
<1>4. ASSUME NEW j \in (i + 1)..(i + w - 1) PROVE s[j] \in Tails
  <2>1. (j = i + 1 /\ w >= 2) \/ (j = i + 2 /\ w >= 3) \/ (j = i + 3 /\ w >= 4)
      BY SMT, <1>1, <1>4
  <2> QED BY SMT, <1>1, <1>3, <2>1
<1> QED BY SMT, <1>1, <1>2, <1>4

LEMMA NoWidth == ASSUME NEW b \in Tails PROVE Width(b) = 0
BY SMT DEF Tails, Width

\* A code point does not begin inside of another.
LEMMA NoneBeginsInside ==
    ASSUME NEW s \in Seq(Bytes), NEW n \in 0..Len(s), Covered(s, n),
           NEW i \in 1..n, Whole(s, i)
    PROVE  i + Width(s[i]) <= n + 1
<1>1. PICK k \in 1..i : /\ Whole(s, k) /\ i < k + Width(s[k])
                        /\ k + Width(s[k]) <= n + 1
    BY DEF Covered
<1>2. Width(s[i]) \in 1..4 /\ s[i] \in Bytes BY WholeFacts
<1>3. Width(s[k]) \in 1..4 /\ \A j \in (k + 1)..(k + Width(s[k]) - 1) : s[j] \in Tails
    BY <1>1, WholeFacts
<1>4. CASE k < i
  <2>1. i \in (k + 1)..(k + Width(s[k]) - 1) BY SMT, <1>1, <1>3, <1>4
  <2>2. s[i] \in Tails BY <1>3, <2>1
  <2>3. Width(s[i]) = 0 BY <2>2, NoWidth
  <2> QED BY SMT, <1>2, <2>3
<1>5. CASE k = i BY <1>1, <1>5
<1> QED BY SMT, <1>4, <1>5

LEMMA Utf8Covers ==
    ASSUME NEW s \in Seq(Bytes)
    PROVE  IsUtf8(s) <=> Covered(s, Len(s))
<1>0. Len(s) \in Nat BY SMT
<1>1. ASSUME IsUtf8(s), NEW j \in 1..Len(s)
      PROVE  \E i \in 1..j : Whole(s, i) /\ j < i + Width(s[i]) /\ i + Width(s[i]) <= Len(s) + 1
  <2>1. PICK first \in 1..j, last \in j..Len(s) :
           last - first < 4 /\ Utf8CodePoints(SubSeq(s, first, last)) # {}
      BY <1>1 DEF IsUtf8
  <2>2. first \in 1..Len(s) /\ last \in first..Len(s) BY SMT, <1>0, <2>1
  <2>3. Whole(s, first) /\ last = first + Width(s[first]) - 1 BY <2>1, <2>2, Windows
  <2>4. Width(s[first]) \in 1..4 BY <2>3, WholeFacts
  <2>5. j < first + Width(s[first]) /\ first + Width(s[first]) <= Len(s) + 1
    <3>1. PICK w \in 1..4 : w = Width(s[first]) BY <2>4
    <3>2. last = first + w - 1 /\ j <= last /\ last <= Len(s) BY SMT, <2>1, <2>3, <3>1
    <3>3. PICK n \in Nat : n = Len(s) BY <1>0
    <3>4. last <= n /\ last \in Int BY SMT, <3>2, <3>3
    <3>5. j < first + w /\ first + w <= n + 1 BY SMT, <3>1, <3>2, <3>4
    <3> QED BY <3>1, <3>3, <3>5
  <2> QED BY <2>3, <2>5
<1>2. ASSUME Covered(s, Len(s)), NEW j \in 1..Len(s)
      PROVE  \E first \in 1..j, last \in j..Len(s) :
                last - first < 4 /\ Utf8CodePoints(SubSeq(s, first, last)) # {}
  <2>1. PICK i \in 1..j : /\ Whole(s, i) /\ j < i + Width(s[i])
                          /\ i + Width(s[i]) <= Len(s) + 1
      BY <1>2 DEF Covered
  <2>2. Width(s[i]) \in 1..4 BY <2>1, WholeFacts
  <2> DEFINE last == i + Width(s[i]) - 1
  <2>3. i \in 1..Len(s) /\ last \in i..Len(s) /\ last \in j..Len(s) /\ last - i < 4
    <3>1. PICK w \in 1..4 : w = Width(s[i]) BY <2>2
    <3>2. last = i + w - 1 /\ j < i + w /\ i + w <= Len(s) + 1 BY <2>1, <3>1
    <3> HIDE DEF last
    <3>3. PICK n \in Nat : n = Len(s) BY <1>0
    <3>4. i \in 1..n /\ last \in i..n /\ last \in j..n /\ last - i < 4
        BY SMT, <2>1, <3>1, <3>2, <3>3
    <3> QED BY <3>3, <3>4
  <2>4. Utf8CodePoints(SubSeq(s, i, last)) # {} BY <2>1, <2>3, Windows
  <2> QED BY <2>3, <2>4
<1> QED BY <1>1, <1>2 DEF IsUtf8, Covered

LEMMA DecodedNothing == ASSUME NEW s PROVE Decoded(s, 0, 0)
<1>1. Covered(s, 0) BY SMT DEF Covered
<1> QED BY SMT, <1>1 DEF Decoded

LEMMA DecodedAll ==
    ASSUME NEW s \in Seq(Bytes), Decoded(s, Len(s), 0)
    PROVE  IsUtf8(s)
<1>1. Len(s) \in Nat BY SMT
<1>2. Covered(s, (Len(s) + 1) - 1) BY DEF Decoded
<1>3. (Len(s) + 1) - 1 = Len(s) BY SMT, <1>1
<1> QED BY <1>2, <1>3, Utf8Covers

\* What is covered, and a code point behind it.
LEMMA CoveredMore ==
    ASSUME NEW s \in Seq(Bytes), NEW i \in 1..Len(s), Covered(s, i - 1), Whole(s, i)
    PROVE  Covered(s, i + Width(s[i]) - 1)
<1> DEFINE w == Width(s[i])
           n == i + w - 1
<1>1. w \in 1..4 /\ Len(s) \in Nat BY WholeFacts
<1> SUFFICES ASSUME NEW j \in 1..n
             PROVE  \E k \in 1..j : /\ Whole(s, k) /\ j < k + Width(s[k])
                                    /\ k + Width(s[k]) <= n + 1
    BY DEF Covered
<1>2. CASE j <= i - 1
  <2>1. j \in 1..(i - 1) BY SMT, <1>2
  <2>2. PICK k \in 1..j : /\ Whole(s, k) /\ j < k + Width(s[k])
                          /\ k + Width(s[k]) <= (i - 1) + 1
      BY <2>1 DEF Covered
  <2>3. Width(s[k]) \in 1..4 BY <2>2, WholeFacts
  <2>4. k + Width(s[k]) <= n + 1 BY SMT, <1>1, <2>2, <2>3
  <2> QED BY <2>2, <2>4
<1>3. CASE j > i - 1
  <2>1. i \in 1..j /\ j < i + w /\ i + w <= n + 1 BY SMT, <1>1, <1>3
  <2> QED BY <2>1
<1> QED BY SMT, <1>2, <1>3

LEMMA InCodePoint ==
    ASSUME NEW s, NEW n \in Nat, NEW i \in 1..n, NEW k \in Nat, i + k = n + 1,
           Covered(s, i - 1), Begins(s, i, k), k < Width(s[i]), StateIn(s[i], k) # 0
    PROVE  Decoded(s, n, StateIn(s[i], k))
<1>1. i \in 1..(n + 1) /\ i <= n /\ n + 1 - i = k BY SMT
<1>2. Begins(s, i, n + 1 - i) /\ n + 1 - i < Width(s[i]) /\ StateIn(s[i], k) = StateIn(s[i], n + 1 - i)
    BY <1>1
<1> QED BY <1>1, <1>2 DEF Decoded

LEMMA BehindCodePoint ==
    ASSUME NEW s, NEW n \in Nat, Covered(s, n)
    PROVE  Decoded(s, n, 0)
<1>1. n + 1 \in 1..(n + 1) /\ (n + 1) - 1 = n BY SMT
<1>2. Covered(s, (n + 1) - 1) BY <1>1
<1> QED BY <1>1, <1>2 DEF Decoded

\* The next byte is one that the code point can have, or the decoder rejects it.
LEMMA DecodesOn ==
    ASSUME NEW s \in Seq(Bytes), NEW n \in 0..(Len(s) - 1), NEW st, Decoded(s, n, st),
           Decode(st, s[n + 1]) # 1
    PROVE  Decoded(s, n + 1, Decode(st, s[n + 1]))
<1> DEFINE t == Decode(st, s[n + 1])
<1>1. Len(s) \in Nat /\ n \in Nat /\ n + 1 \in 1..Len(s) /\ n + 1 \in Nat BY SMT
<1>2. s[n + 1] \in Bytes BY <1>1
<1>3. PICK i \in 1..(n + 1) :
        /\ Covered(s, i - 1)
        /\ st = 0 => i = n + 1
        /\ st # 0 => /\ i <= n /\ Begins(s, i, n + 1 - i)
                     /\ n + 1 - i < Width(s[i])
                     /\ st = StateIn(s[i], n + 1 - i)
    BY DEF Decoded
<1>4. CASE st = 0
  <2> DEFINE b == s[n + 1]
  <2>1. i = n + 1 /\ b = s[i] BY <1>3, <1>4
  <2>2. t = IF Width(b) = 0 THEN 1 ELSE IF Width(b) = 1 THEN 0 ELSE StateIn(b, 1)
      BY <1>2, <1>4, DecodeFirst
  <2>3. Width(b) \in 0..4 BY <1>2, WidthIs
  <2>4. CASE Width(b) = 1
    <3>1. t = 0 BY <2>2, <2>4
    <3>2. Whole(s, i) BY SMT, <1>1, <2>1, <2>4 DEF Whole, Begins
    <3>3. Covered(s, i + 1 - 1)
      <4>1. Covered(s, i + Width(s[i]) - 1) BY SMT, <1>1, <1>3, <2>1, <3>2, CoveredMore
      <4> QED BY <2>1, <2>4, <4>1
    <3>4. i + 1 - 1 = n + 1 BY SMT, <1>1, <2>1
    <3>5. Covered(s, n + 1) BY <3>3, <3>4
    <3> QED BY <1>1, <3>1, <3>5, BehindCodePoint
  <2>5. CASE Width(b) > 1
    <3>1. t = StateIn(b, 1) /\ t # 0 BY SMT, <1>2, <2>2, <2>3, <2>5, StateInIs
    <3>2. i \in 1..(n + 1) /\ i + 1 = (n + 1) + 1 BY SMT, <1>1, <2>1
    <3>3. Begins(s, i, 1) BY SMT, <1>1, <2>1, <2>3, <2>5 DEF Begins
    <3>4. Covered(s, i - 1) /\ 1 < Width(s[i]) /\ t = StateIn(s[i], 1) BY SMT, <1>3, <2>1, <2>3, <2>5, <3>1
    <3>5. StateIn(s[i], 1) # 0 BY <3>1, <3>4
    <3>6. Decoded(s, n + 1, StateIn(s[i], 1)) BY <1>1, <3>2, <3>3, <3>4, <3>5, InCodePoint
    <3> QED BY <3>4, <3>6
  <2>6. Width(b) # 0 BY <2>2
  <2> QED BY SMT, <2>3, <2>4, <2>5, <2>6
<1>5. CASE st # 0
  <2> DEFINE a == s[i]
             b == s[n + 1]
             k == n + 1 - i
             w == Width(a)
             fits == (k = 1 /\ b \in SecondOf(a)) \/ (k > 1 /\ b \in Tails)
  <2>1. /\ i <= n /\ Begins(s, i, k) /\ k < w /\ st = StateIn(a, k)
      BY <1>3, <1>5
  <2>2. i \in 1..Len(s) /\ a \in Bytes /\ w \in 0..4
    <3>1. i \in 1..Len(s) BY SMT, <1>1, <2>1
    <3>2. a \in Bytes BY <3>1
    <3> QED BY <3>1, <3>2, WidthIs
  <2>3. k \in 1..3 BY SMT, <1>1, <2>1, <2>2
  <2> HIDE DEF w, k, a, b
  <2>4. t = IF ~fits THEN 1 ELSE IF k + 1 = w THEN 0 ELSE StateIn(a, k + 1)
      BY <1>2, <2>1, <2>2, <2>3, DecodeLater DEF w, b
  <2>5. fits /\ t = IF k + 1 = w THEN 0 ELSE StateIn(a, k + 1) BY <2>4
  <2>6. Begins(s, i, k + 1)
    <3>1. i + (k + 1) <= Len(s) + 1 /\ k + 1 \in 2..4 /\ k + 1 <= w
        BY SMT, <1>1, <2>1, <2>2, <2>3 DEF k
    <3>2. b = s[i + k] 
      <4>1. i + k = n + 1 BY SMT, <1>1 DEF k
      <4> QED BY <4>1 DEF b
    <3>3. CASE k = 1
        BY SMT, <2>2, <2>5, <3>1, <3>2, <3>3 DEF Begins, a, w
    <3>4. CASE k = 2
        BY SMT, <2>1, <2>2, <2>5, <3>1, <3>2, <3>4 DEF Begins, a, w
    <3>5. CASE k = 3
        BY SMT, <2>1, <2>2, <2>5, <3>1, <3>2, <3>5 DEF Begins, a, w
    <3> QED BY SMT, <2>3, <3>3, <3>4, <3>5
  <2>7. CASE k + 1 = w
    <3>1. t = 0 BY <2>5, <2>7
    <3>2. Whole(s, i) BY <2>6, <2>7 DEF Whole, w, a
    <3>3. Covered(s, i + w - 1) BY <1>3, <2>2, <3>2, CoveredMore DEF w, a
    <3>4. i + w - 1 = n + 1 BY SMT, <1>1, <2>2, <2>7 DEF k
    <3>5. Covered(s, n + 1) BY <3>3, <3>4
    <3> QED BY <1>1, <3>1, <3>5, BehindCodePoint
  <2>8. CASE k + 1 # w
    <3>1. k + 1 < w /\ k + 1 \in 1..3 BY SMT, <2>1, <2>2, <2>3, <2>8
    <3>2. t = StateIn(a, k + 1) /\ t # 0 BY SMT, <2>2, <2>5, <2>8, <3>1, StateInIs DEF w
    <3>3. i \in 1..(n + 1) /\ i + (k + 1) = (n + 1) + 1 /\ k + 1 \in Nat
        BY SMT, <1>1, <2>1, <3>1 DEF k
    <3>4. Covered(s, i - 1) /\ Begins(s, i, k + 1) /\ k + 1 < Width(s[i])
          /\ StateIn(s[i], k + 1) # 0 /\ t = StateIn(s[i], k + 1)
        BY <1>3, <2>6, <3>1, <3>2 DEF w, a
    <3>5. Decoded(s, n + 1, StateIn(s[i], k + 1)) BY <1>1, <3>3, <3>4, InCodePoint
    <3> QED BY <3>4, <3>5
  <2> QED BY <2>7, <2>8
<1> QED BY <1>4, <1>5

\* In UTF-8 the code point that the decoder is in is there as a whole.
LEMMA WholeHere ==
    ASSUME NEW s \in Seq(Bytes), IsUtf8(s), NEW i \in 1..Len(s), Covered(s, i - 1)
    PROVE  Whole(s, i)
<1>1. Len(s) \in Nat BY SMT
<1>2. Covered(s, Len(s)) BY Utf8Covers
<1>3. PICK k \in 1..i : Whole(s, k) /\ i < k + Width(s[k]) BY <1>2 DEF Covered
<1>4. Width(s[k]) \in 1..4 BY <1>3, WholeFacts
<1>5. CASE k < i
  <2>1. k \in 1..(i - 1) /\ i - 1 \in 0..Len(s) BY SMT, <1>1, <1>5
  <2>2. k + Width(s[k]) <= (i - 1) + 1 BY <1>3, <2>1, NoneBeginsInside
  <2> QED BY SMT, <1>3, <1>4, <2>2
<1>6. CASE k = i BY <1>3, <1>6
<1> QED BY SMT, <1>5, <1>6

LEMMA Rejected ==
    ASSUME NEW s \in Seq(Bytes), NEW n \in 0..(Len(s) - 1), NEW st, Decoded(s, n, st),
           Decode(st, s[n + 1]) = 1
    PROVE  ~IsUtf8(s)
<1> SUFFICES ASSUME IsUtf8(s) PROVE FALSE OBVIOUS
<1>1. Len(s) \in Nat /\ n \in Nat /\ n + 1 \in 1..Len(s) BY SMT
<1>2. s[n + 1] \in Bytes BY <1>1
<1>3. PICK i \in 1..(n + 1) :
        /\ Covered(s, i - 1)
        /\ st = 0 => i = n + 1
        /\ st # 0 => /\ i <= n /\ Begins(s, i, n + 1 - i)
                     /\ n + 1 - i < Width(s[i])
                     /\ st = StateIn(s[i], n + 1 - i)
    BY DEF Decoded
<1>4. i \in 1..Len(s) BY SMT, <1>1
<1>5. Whole(s, i) BY <1>3, <1>4, WholeHere
<1>6. Width(s[i]) \in 1..4 /\ s[i] \in Bytes BY <1>5, WholeFacts
<1>7. CASE st = 0
  <2>1. s[i] = s[n + 1] BY <1>3, <1>7
  <2>2. Decode(0, s[i]) = IF Width(s[i]) = 1 THEN 0 ELSE StateIn(s[i], 1)
      BY SMT, <1>6, DecodeFirst
  <2>3. Width(s[i]) > 1 => StateIn(s[i], 1) \in 2..8 BY SMT, <1>6, StateInIs
  <2> QED BY SMT, <1>6, <1>7, <2>1, <2>2, <2>3
<1>8. CASE st # 0
  <2> DEFINE a == s[i]
             b == s[n + 1]
             k == n + 1 - i
             w == Width(a)
             fits == (k = 1 /\ b \in SecondOf(a)) \/ (k > 1 /\ b \in Tails)
  <2>1. /\ i <= n /\ k < w /\ st = StateIn(a, k) BY <1>3, <1>8
  <2>3. k \in 1..3 BY SMT, <1>1, <1>6, <2>1
  <2>4. b = s[i + k]
    <3>1. i + k = n + 1 BY SMT, <1>1
    <3> QED BY <3>1
  <2> HIDE DEF w, k, a, b
  <2>5. Decode(st, b) = IF ~fits THEN 1 ELSE IF k + 1 = w THEN 0 ELSE StateIn(a, k + 1)
      BY <1>2, <1>6, <2>1, <2>3, DecodeLater DEF w, b, a
  <2>6. fits
    <3>1. /\ w >= 2 => s[i + 1] \in SecondOf(a)
          /\ w >= 3 => s[i + 2] \in Tails
          /\ w >= 4 => s[i + 3] \in Tails
        BY <1>5 DEF Whole, Begins, w, a
    <3> QED BY SMT, <1>6, <2>1, <2>3, <2>4, <3>1 DEF w, a
  <2>7. k + 1 # w => k + 1 \in 1..3 /\ k + 1 < w BY SMT, <1>6, <2>1, <2>3 DEF w, a
  <2>8. k + 1 # w => StateIn(a, k + 1) \in 2..8 BY SMT, <1>6, <2>7, StateInIs DEF w, a
  <2> QED BY SMT, <2>5, <2>6, <2>8 DEF b
<1> QED BY <1>7, <1>8

LEMMA Unfinished ==
    ASSUME NEW s \in Seq(Bytes), NEW st, Decoded(s, Len(s), st), st # 0
    PROVE  ~IsUtf8(s)
<1> SUFFICES ASSUME IsUtf8(s) PROVE FALSE OBVIOUS
<1>1. Len(s) \in Nat BY SMT
<1>2. PICK i \in 1..(Len(s) + 1) :
         Covered(s, i - 1) /\ i <= Len(s) /\ Len(s) + 1 - i < Width(s[i])
    BY DEF Decoded
<1>3. i \in 1..Len(s) BY SMT, <1>1, <1>2
<1>4. Whole(s, i) BY <1>2, <1>3, WholeHere
<1>5. Width(s[i]) \in 1..4 /\ i + Width(s[i]) <= Len(s) + 1 BY <1>4, WholeFacts
<1> QED BY SMT, <1>1, <1>2, <1>5

-----------------------------------------------------------------------------
(* What is written is UTF-8.                                               *)

CleanText(v) == IsUtf8(v.value)
CleanValue(v) ==
    IF IsString(v) THEN IsUtf8(v.value)
    ELSE \A i \in 1..Len(v.members) : IsUtf8(v.members[i][1]) /\ CleanText(v.members[i][2])

CleanMembers(members, named, held) ==
    /\ \A i \in 1..named : IsUtf8(members[i][1])
    /\ \A i \in 1..held : CleanValue(members[i][2])

Clean(p) ==
    LET f == p.frames
    IN  /\ f # <<>> => CleanMembers(Deepest(f).members, LastNamed(f, p.at), LastHeld(f, p.at))
        /\ Len(f) = 2 => CleanMembers(f[1].members, f[1].begun, f[1].begun - 1)
        /\ p.at = "dumped" => CleanMembers(body.members, Len(body.members), Len(body.members))
        /\ InString(p.at) => Decoded(ArgOf(f, p.at), p.next - 1, p.state)

\* Of a string that has ended.
LEMMA EndedIsUtf8 ==
    ASSUME IsBody, NEW p, Good(p), Clean(p), InString(p.at), Ended(p)
    PROVE  IsUtf8(ArgOf(p.frames, p.at))
<1> DEFINE s == ArgOf(p.frames, p.at)
<1>1. s \in Seq(Bytes) /\ Len(s) \in Nat
  <2>1. s \in Seq(Bytes) BY ArgFacts
  <2> QED BY <2>1
<1>2. p.next \in 1..(Len(s) + 1) /\ p.next > Len(s) /\ p.state = 0
    BY DEF Good, StringOK, Ended
<1>3. p.next - 1 = Len(s) BY SMT, <1>1, <1>2
<1>4. Decoded(s, p.next - 1, p.state) BY DEF Clean
<1> HIDE DEF s
<1>5. Decoded(s, Len(s), 0) BY <1>2, <1>3, <1>4
<1> QED BY <1>1, <1>5, DecodedAll DEF s

LEMMA OpensClean ==
    ASSUME IsBody, NEW p, NEW c, NEW q, Good(p), Clean(p), Opens(p, c, q)
    PROVE  Clean(q)
<1> DEFINE f == p.frames
           new == [members |-> ArgOf(p.frames, "value").members, begun |-> 0]
           g == Append(f, new)
<1>1. p.at = "value" /\ FramesOK(f) /\ Good(q) BY OpensGood DEF Opens, Good
<1>2. q.frames = g /\ q.at = "members"
  <2>1. q = Snap(g, "members", p.next, p.state, p.part) BY DEF Opens
  <2> HIDE DEF g
  <2> QED BY <2>1, SnapFields
<1>3. IsSeq(f) /\ Len(f) \in Nat
  <2>1. f \in Seq(Frames0) BY <1>1 DEF FramesOK
  <2> QED BY <2>1 DEF IsSeq
<1> HIDE DEF f, new
<1>4. Len(g) = Len(f) + 1 /\ g[Len(f) + 1] = new /\ \A i \in 1..Len(f) : g[i] = f[i]
    BY <1>3, AppendSeq
<1> HIDE DEF g
<1>5. Deepest(g) = new /\ new.begun = 0 BY <1>4 DEF Deepest, new
<1>6. LastNamed(g, q.at) = 0 /\ LastHeld(g, q.at) = 0 BY <1>2, <1>5 DEF LastNamed, LastHeld
<1>7. ASSUME Len(g) = 2 PROVE CleanMembers(g[1].members, g[1].begun, g[1].begun - 1)
  <2>0. Len(f) = 1
    <3>1. PICK n \in Nat : n = Len(f) BY <1>3
    <3>2. n + 1 = 2 BY <1>4, <1>7, <3>1
    <3> QED BY <3>1, <3>2
  <2>1. Len(f) = 1 /\ g[1] = f[1] BY <1>4, <2>0
  <2>2. f # <<>> /\ Deepest(f) = f[1]
    <3>1. Len(<<>>) = 0 OBVIOUS
    <3> QED BY <2>1, <3>1 DEF Deepest
  <2>3. CleanMembers(Deepest(f).members, LastNamed(f, p.at), LastHeld(f, p.at))
      BY <2>2 DEF Clean, f
  <2>4. LastNamed(f, p.at) = f[1].begun /\ LastHeld(f, p.at) = f[1].begun - 1
      BY <1>1, <2>2 DEF LastNamed, LastHeld
  <2> QED BY <2>1, <2>2, <2>3, <2>4
<1>8. CleanMembers(Deepest(g).members, LastNamed(g, q.at), LastHeld(g, q.at))
    BY <1>6 DEF CleanMembers
<1> QED BY <1>2, <1>7, <1>8 DEF Clean, InString

LEMMA StartsNameClean ==
    ASSUME IsBody, NEW p, NEW c, NEW q, Good(p), Clean(p), StartsName(p, c, q)
    PROVE  Clean(q)
<1> DEFINE f == p.frames
           g == Begun(f)
           top == Deepest(f)
<1>1. FramesOK(f) /\ f # <<>> /\ p.state = 0 BY DEF StartsName, Good, PlaceOK, InString
<1>2. q.frames = g /\ q.at = "key" /\ q.next = 1 /\ q.state = p.state
    BY SnapFields DEF StartsName
<1>3. top.begun \in Nat /\ top.begun < Len(top.members)
    BY <1>1, DeepestFacts DEF StartsName, Good, PlaceOK
<1>4. /\ Len(g) = Len(f) /\ Deepest(g).members = top.members
      /\ Deepest(g).begun = top.begun + 1
      /\ \A k \in 1..(Len(f) - 1) : g[k] = f[k]
    BY <1>1, <1>3, BegunFacts
<1>5. p.at \in {"members", "comma"} BY DEF StartsName
<1>6. LastNamed(f, p.at) = top.begun /\ LastHeld(f, p.at) = top.begun
    BY <1>5 DEF LastNamed, LastHeld
<1>7. LastNamed(g, q.at) = top.begun /\ LastHeld(g, q.at) = top.begun
    BY <1>2, <1>3, <1>4 DEF LastNamed, LastHeld
<1>8. CleanMembers(Deepest(g).members, LastNamed(g, q.at), LastHeld(g, q.at))
    BY <1>1, <1>4, <1>6, <1>7 DEF Clean
<1>9. ASSUME Len(g) = 2 PROVE CleanMembers(g[1].members, g[1].begun, g[1].begun - 1)
  <2>1. g[1] = f[1] /\ Len(f) = 2 BY <1>4, <1>9
  <2> QED BY <2>1 DEF Clean
<1> HIDE DEF g
<1>10. Decoded(ArgOf(g, q.at), q.next - 1, q.state)
  <2>1. q.next - 1 = 0 /\ q.state = 0 BY <1>1, <1>2
  <2> QED BY <2>1, DecodedNothing
<1> QED BY <1>2, <1>8, <1>9, <1>10 DEF Clean, InString

LEMMA ClosesClean ==
    ASSUME IsBody, NEW p, NEW c, NEW q, Good(p), Clean(p), Closes(p, c, q)
    PROVE  Clean(q)
<1> DEFINE f == p.frames
           top == Deepest(f)
           g == SubSeq(f, 1, Len(f) - 1)
<1>1. FramesOK(f) /\ f # <<>> /\ p.at = "members" /\ top.begun = Len(top.members)
    BY DEF Closes, Good, PlaceOK
<1>2. q.frames = g /\ q.at = Returned(g)
  <2>1. q = Snap(g, Returned(g), p.next, p.state, p.part) BY DEF Closes
  <2> HIDE DEF g
  <2> QED BY <2>1, SnapFields
<1>3. Len(f) \in 1..2 /\ top.members \in MemberLists(Values0) /\ Len(top.members) \in Nat
  <2>1. Len(f) \in 1..2 /\ top.members \in MemberLists(Values0) BY <1>1, DeepestFacts
  <2> QED BY <2>1 DEF MemberLists
<1>4. /\ FramesOK(g) /\ Len(g) = Len(f) - 1
      /\ \A k \in 1..(Len(f) - 1) : g[k] = f[k]
      /\ g # <<>> => Deepest(g).begun > 0
    BY <1>1, PopFacts
<1>5. CleanMembers(top.members, Len(top.members), Len(top.members))
  <2>1. LastNamed(f, p.at) = Len(top.members) /\ LastHeld(f, p.at) = Len(top.members)
      BY <1>1 DEF LastNamed, LastHeld
  <2> QED BY <1>1, <2>1 DEF Clean
<1> HIDE DEF g
<1>6. CASE Len(f) = 1
  <2>1. Len(g) = 0 /\ g = <<>>
    <3>1. Len(g) = 0 BY <1>4, <1>6
    <3>2. g \in Seq(Frames0) BY <1>4 DEF FramesOK
    <3> QED BY <3>1, <3>2, EmptySeq
  <2>2. top.members = body.members BY <1>1, <1>6 DEF FramesOK, Deepest
  <2>3. q.at = "dumped" BY <1>2, <2>1 DEF Returned
  <2> HIDE DEF f, top
  <2> QED BY <1>2, <1>5, <2>1, <2>2, <2>3 DEF Clean, InString
<1>7. CASE Len(f) = 2
  <2>1. Len(g) = 1 /\ g[1] = f[1] /\ g # <<>>
    <3>1. Len(<<>>) = 0 OBVIOUS
    <3> QED BY <1>4, <1>7, <3>1
  <2>2. Deepest(g) = f[1] /\ q.at = "members" BY <1>2, <2>1 DEF Deepest, Returned
  <2>3. LastNamed(g, q.at) = f[1].begun /\ LastHeld(g, q.at) = f[1].begun
      BY <2>2 DEF LastNamed, LastHeld
  <2>4. CleanMembers(f[1].members, f[1].begun, f[1].begun - 1) BY <1>7 DEF Clean
  <2>5. ~IsString(MemberAt(f[1])[2]) /\ f[2].members = MemberAt(f[1])[2].members
        /\ f[1].begun > 0
      BY <1>1, <1>7 DEF FramesOK
  <2>6. top = f[2] BY <1>7 DEF Deepest
  <2>7. \A i \in 1..Len(top.members) : IsString(top.members[i][2])
    <3> SUFFICES ASSUME NEW i \in 1..Len(top.members) PROVE IsString(top.members[i][2])
        OBVIOUS
    <3>1. f[1].members = body.members /\ f[1] \in Frames0 /\ f[1].begun <= Len(f[1].members)
        BY <1>1, <1>7 DEF FramesOK
    <3>2. f[1].members \in MemberLists(Inside) BY <3>1, BodyFacts
    <3>3. Len(f[1].members) \in Nat BY <3>2 DEF MemberLists
    <3>4. f[1].begun \in 1..Len(f[1].members) BY <2>5, <3>1, <3>3 DEF Frames0
    <3>5. MemberAt(f[1])[2] \in Inside BY <3>2, <3>4, ListFacts DEF MemberAt
    <3>6. MemberAt(f[1])[2] \in Values0 BY <3>5 DEF Values0
    <3>7. top.members \in MemberLists(Strings0) BY <2>5, <2>6, <3>5, <3>6, ValueFacts
    <3> HIDE DEF top
    <3>8. top.members[i][2] \in Strings0 BY <3>7, ListFacts
    <3> QED BY <3>8, StringFacts
  <2>8. CleanValue(MemberAt(f[1])[2])
    <3>1. \A i \in 1..Len(top.members) :
             IsUtf8(top.members[i][1]) /\ CleanText(top.members[i][2])
        BY <1>5, <2>7 DEF CleanMembers, CleanValue, CleanText
    <3> QED BY <2>5, <2>6, <3>1 DEF CleanValue
  <2>9. CleanMembers(f[1].members, f[1].begun, f[1].begun)
    <3>1. f[1].begun \in Nat
      <4>1. f[1] \in Frames0 BY <1>1, <1>7 DEF FramesOK
      <4> QED BY <4>1 DEF Frames0
    <3>2. ASSUME NEW i \in 1..f[1].begun PROVE CleanValue(f[1].members[i][2])
      <4>1. i \in 1..(f[1].begun - 1) \/ i = f[1].begun BY <3>1
      <4> QED BY <2>4, <2>8, <4>1 DEF CleanMembers, MemberAt
    <3> QED BY <2>4, <3>2 DEF CleanMembers
  <2> HIDE DEF f, top
  <2> QED BY <1>2, <2>1, <2>2, <2>3, <2>9 DEF Clean, InString
<1> QED BY <1>3, <1>6, <1>7

LEMMA ContinuesClean ==
    ASSUME IsBody, NEW p, NEW c, NEW q, Good(p), Clean(p), Continues(p, c, q)
    PROVE  Clean(q)
<1> DEFINE f == p.frames
           s == ArgOf(f, p.at)
           b == s[p.next]
           part == IF Len(Piece(p.state, b)) = 1 THEN 0 ELSE 1
           n == p.next - 1
<1>1. InString(p.at) /\ p.next <= Len(s) /\ Decode(p.state, b) # 1 BY DEF Continues
<1>2. /\ q.frames = f /\ q.at = p.at /\ q.next = p.next + 1 /\ q.state = Decode(p.state, b)
  <2>1. q = Snap(f, p.at, p.next + 1, Decode(p.state, b), part) BY DEF Continues
  <2> HIDE DEF part
  <2> QED BY <2>1, SnapFields
<1>3. s \in Seq(Bytes) BY <1>1, ArgFacts
<1>4. p.next \in 1..(Len(s) + 1) BY <1>1 DEF Good, StringOK
<1>5. n \in 0..(Len(s) - 1) /\ n + 1 = p.next /\ q.next - 1 = n + 1
  <2>1. Len(s) \in Nat BY <1>3
  <2> QED BY <1>1, <1>2, <1>4, <2>1
<1>6. Decoded(s, n, p.state) BY <1>1 DEF Clean
<1> HIDE DEF s, n, f
<1>7. Decoded(s, n + 1, Decode(p.state, s[n + 1])) BY <1>1, <1>3, <1>5, <1>6, DecodesOn
<1>8. Decoded(ArgOf(q.frames, q.at), q.next - 1, q.state)
    BY <1>2, <1>5, <1>7 DEF s, f
<1>9. q.at # "dumped" BY <1>1, <1>2 DEF InString
<1> QED BY <1>2, <1>8, <1>9 DEF Clean, f

\* The places before and behind a string, and the one behind a comma.
LEMMA SameClean ==
    ASSUME NEW p, NEW q, Clean(p), q.frames = p.frames, ~InString(q.at),
           q.at # "dumped",
           q.frames # <<>> =>
             CleanMembers(Deepest(q.frames).members, LastNamed(q.frames, q.at), LastHeld(q.frames, q.at))
    PROVE  Clean(q)
BY DEF Clean

LEMMA EndsNameClean ==
    ASSUME IsBody, NEW p, NEW c, NEW q, Good(p), Clean(p), EndsName(p, c, q)
    PROVE  Clean(q)
<1> DEFINE f == p.frames
           top == Deepest(f)
<1>1. p.at = "key" /\ Ended(p) /\ InString(p.at) BY DEF EndsName, InString
<1>2. q.frames = f /\ q.at = "colon" BY SnapFields DEF EndsName
<1>3. IsUtf8(MemberAt(top)[1])
  <2>1. IsUtf8(ArgOf(f, p.at)) BY <1>1, EndedIsUtf8
  <2> QED BY <1>1, <2>1 DEF ArgOf
<1>4. f # <<>> /\ FramesOK(f) /\ top.begun \in Nat /\ top.begun > 0
  <2>1. f # <<>> /\ FramesOK(f) /\ top.begun > 0 BY <1>1 DEF Good, PlaceOK
  <2> QED BY <2>1, DeepestFacts
<1>5. CleanMembers(top.members, top.begun - 1, top.begun - 1)
    BY <1>1, <1>4 DEF Clean, LastNamed, LastHeld
<1>6. CleanMembers(top.members, top.begun, top.begun - 1)
  <2>1. ASSUME NEW i \in 1..top.begun PROVE IsUtf8(top.members[i][1])
    <3>1. i \in 1..(top.begun - 1) \/ i = top.begun BY <1>4
    <3> QED BY <1>3, <1>5, <3>1 DEF CleanMembers, MemberAt
  <2> QED BY <1>5, <2>1 DEF CleanMembers
<1>7. LastNamed(f, "colon") = top.begun /\ LastHeld(f, "colon") = top.begun - 1
    BY DEF LastNamed, LastHeld
<1> HIDE DEF f, top
<1>8. CleanMembers(Deepest(q.frames).members, LastNamed(q.frames, q.at), LastHeld(q.frames, q.at))
    BY <1>2, <1>6, <1>7 DEF top
<1> QED BY <1>2, <1>8, SameClean DEF InString, f

LEMMA EndsTextClean ==
    ASSUME IsBody, NEW p, NEW c, NEW q, Good(p), Clean(p), EndsText(p, c, q)
    PROVE  Clean(q)
<1> DEFINE f == p.frames
           top == Deepest(f)
<1>1. p.at = "text" /\ Ended(p) /\ InString(p.at) BY DEF EndsText, InString
<1>2. f # <<>> /\ FramesOK(f) /\ top.begun \in Nat /\ top.begun > 0
  <2>1. f # <<>> /\ FramesOK(f) /\ top.begun > 0 BY <1>1 DEF Good, PlaceOK
  <2> QED BY <2>1, DeepestFacts
<1>3. q.frames = f /\ q.at = "members"
  <2>1. Returned(f) = "members" BY <1>2 DEF Returned
  <2> QED BY <2>1, SnapFields DEF EndsText
<1>4. CleanValue(MemberAt(top)[2])
  <2>1. IsUtf8(ArgOf(f, p.at)) BY <1>1, EndedIsUtf8
  <2>2. IsUtf8(MemberAt(top)[2].value) BY <1>1, <2>1 DEF ArgOf
  <2>3. IsString(MemberAt(top)[2]) BY <1>1 DEF Good, PlaceOK
  <2> QED BY <2>2, <2>3 DEF CleanValue
<1>5. CleanMembers(top.members, top.begun, top.begun - 1)
    BY <1>1, <1>2 DEF Clean, LastNamed, LastHeld
<1>6. CleanMembers(top.members, top.begun, top.begun)
  <2>1. ASSUME NEW i \in 1..top.begun PROVE CleanValue(top.members[i][2])
    <3>1. i \in 1..(top.begun - 1) \/ i = top.begun BY <1>2
    <3> QED BY <1>4, <1>5, <3>1 DEF CleanMembers, MemberAt
  <2> QED BY <1>5, <2>1 DEF CleanMembers
<1>7. LastNamed(f, "members") = top.begun /\ LastHeld(f, "members") = top.begun
    BY DEF LastNamed, LastHeld
<1> HIDE DEF f, top
<1>8. CleanMembers(Deepest(q.frames).members, LastNamed(q.frames, q.at), LastHeld(q.frames, q.at))
    BY <1>3, <1>6, <1>7 DEF top
<1> QED BY <1>3, <1>8, SameClean DEF InString, f

LEMMA EmitsClean ==
    ASSUME IsBody, NEW p, NEW c, NEW q, Good(p), Clean(p), Emits(p, c, q)
    PROVE  Clean(q)
<1>1. CASE Opens(p, c, q) BY <1>1, OpensClean
<1>2. CASE StartsText(p, c, q)
  <2>1. p.at = "value" /\ q.frames = p.frames /\ q.at = "text" /\ q.next = 1
        /\ q.state = p.state
      BY <1>2, SnapFields DEF StartsText
  <2>2. p.state = 0 BY <2>1 DEF Good, InString
  <2>3. Decoded(ArgOf(q.frames, q.at), q.next - 1, q.state)
    <3>1. q.next - 1 = 0 /\ q.state = 0 BY <2>1, <2>2
    <3> QED BY <3>1, DecodedNothing
  <2>4. /\ LastNamed(p.frames, q.at) = LastNamed(p.frames, p.at)
        /\ LastHeld(p.frames, q.at) = LastHeld(p.frames, p.at)
      BY <2>1 DEF LastNamed, LastHeld
  <2> QED BY <2>1, <2>3, <2>4 DEF Clean
<1>3. CASE StartsName(p, c, q) BY <1>3, StartsNameClean
<1>4. CASE Separates(p, c, q)
  <2>1. p.at = "members" /\ q.frames = p.frames /\ q.at = "comma"
      BY <1>4, SnapFields DEF Separates
  <2>2. /\ LastNamed(p.frames, q.at) = LastNamed(p.frames, p.at)
        /\ LastHeld(p.frames, q.at) = LastHeld(p.frames, p.at)
      BY <2>1 DEF LastNamed, LastHeld
  <2> QED BY <2>1, <2>2 DEF Clean, InString
<1>5. CASE Closes(p, c, q) BY <1>5, ClosesClean
<1>6. CASE Continues(p, c, q) BY <1>6, ContinuesClean
<1>7. CASE Completes(p, c, q)
  <2> DEFINE b == ArgOf(p.frames, p.at)[p.next - 1]
             part == IF p.part + 1 = Len(Escape(b, b)) THEN 0 ELSE p.part + 1
  <2>1. q = Snap(p.frames, p.at, p.next, p.state, part) BY <1>7 DEF Completes
  <2> HIDE DEF part
  <2>2. q.frames = p.frames /\ q.at = p.at /\ q.next = p.next /\ q.state = p.state
      BY <2>1, SnapFields
  <2> QED BY <2>2 DEF Clean
<1>8. CASE EndsName(p, c, q) BY <1>8, EndsNameClean
<1>9. CASE Points(p, c, q)
  <2>1. p.at = "colon" /\ q.frames = p.frames /\ q.at = "value"
      BY <1>9, SnapFields DEF Points
  <2>2. /\ LastNamed(p.frames, q.at) = LastNamed(p.frames, p.at)
        /\ LastHeld(p.frames, q.at) = LastHeld(p.frames, p.at)
      BY <2>1 DEF LastNamed, LastHeld
  <2> QED BY <2>1, <2>2 DEF Clean, InString
<1>10. CASE EndsText(p, c, q) BY <1>10, EndsTextClean
<1> QED BY <1>1, <1>2, <1>3, <1>4, <1>5, <1>6, <1>7, <1>8, <1>9, <1>10 DEF Emits

-----------------------------------------------------------------------------
\* The strings of a body.
LEMMA CleanTexts ==
    ASSUME IsBody, CleanMembers(body.members, Len(body.members), Len(body.members)),
           NEW t \in TextsOf(body)
    PROVE  IsUtf8(t)
<1>1. ~IsString(body) /\ body.members \in MemberLists(Inside) BY BodyFacts
<1>2. ASSUME NEW v \in Children(body)
      PROVE  v \in Inside /\ CleanValue(v)
  <2>1. PICK i \in 1..Len(body.members) : v = body.members[i][2] BY <1>1 DEF Children
  <2> QED BY <1>1, <2>1, ListFacts DEF CleanMembers
<1>3. ASSUME NEW v \in Children(body), NEW w \in Children(v)
      PROVE  IsString(w) /\ IsUtf8(w.value)
  <2>1. v \in Inside /\ CleanValue(v) /\ v \in Values0 BY <1>2 DEF Values0
  <2>2. ~IsString(v) /\ \E i \in 1..Len(v.members) : w = v.members[i][2] BY DEF Children
  <2>3. PICK i \in 1..Len(v.members) : w = v.members[i][2] BY <2>2
  <2>4. v.members \in MemberLists(Strings0) BY <2>1, <2>2, ValueFacts
  <2>5. w \in Strings0 BY <2>3, <2>4, ListFacts
  <2> QED BY <2>1, <2>2, <2>3, <2>5, StringFacts DEF CleanValue, CleanText
<1>4. CASE \E v \in Parts(body) : IsString(v) /\ t = v.value
  <2>1. PICK v \in Parts(body) : IsString(v) /\ t = v.value BY <1>4
  <2>2. CASE v \in Children(body) BY <1>2, <2>1, <2>2 DEF CleanValue
  <2>3. CASE \E w \in Children(body) : v \in Children(w) BY <1>3, <2>1, <2>3
  <2> QED BY <1>1, <2>1, <2>2, <2>3 DEF Parts
<1>5. CASE \E v \in Parts(body) : ~IsString(v) /\ \E i \in 1..Len(v.members) : t = v.members[i][1]
  <2>1. PICK v \in Parts(body) : ~IsString(v) /\ \E i \in 1..Len(v.members) : t = v.members[i][1]
      BY <1>5
  <2>2. PICK i \in 1..Len(v.members) : t = v.members[i][1] BY <2>1
  <2>3. CASE v = body BY <2>2, <2>3 DEF CleanMembers
  <2>4. CASE v \in Children(body) BY <1>2, <2>1, <2>2, <2>4 DEF CleanValue
  <2>5. CASE \E w \in Children(body) : v \in Children(w) BY <1>3, <2>1, <2>5
  <2> QED BY <1>1, <2>1, <2>3, <2>4, <2>5 DEF Parts
<1> QED BY <1>4, <1>5 DEF TextsOf

LEMMA ArgIsText ==
    ASSUME IsBody, NEW p, Good(p), InString(p.at)
    PROVE  ArgOf(p.frames, p.at) \in TextsOf(body)
<1> DEFINE f == p.frames
           top == Deepest(f)
<1>1. FramesOK(f) /\ f # <<>> /\ top.begun > 0 BY DEF Good, PlaceOK, InString
<1>2. /\ Len(f) \in 1..2 /\ top.begun \in Nat /\ top.begun <= Len(top.members)
      /\ top.members \in MemberLists(Values0)
    BY <1>1, DeepestFacts
<1>3. top.begun \in 1..Len(top.members)
  <2>1. Len(top.members) \in Nat BY <1>2 DEF MemberLists
  <2> QED BY <1>1, <1>2, <2>1
<1>4. \E v \in Parts(body) : ~IsString(v) /\ v.members = top.members
                              /\ Children(v) \subseteq Parts(body)
  <2>0. ~IsString(body) BY BodyFacts
  <2>1. CASE Len(f) = 1
    <3>1. top.members = body.members BY <1>1, <2>1 DEF FramesOK, Deepest
    <3> QED BY <2>0, <3>1 DEF Parts
  <2>2. CASE Len(f) = 2
    <3> DEFINE v == MemberAt(f[1])[2]
    <3>1. ~IsString(v) /\ top.members = v.members /\ f[1].members = body.members
          /\ f[1] \in Frames0 /\ f[1].begun > 0 /\ f[1].begun <= Len(f[1].members)
        BY <1>1, <2>2 DEF FramesOK, Deepest
    <3>2. body.members \in MemberLists(Inside) BY BodyFacts
    <3>3. Len(f[1].members) \in Nat BY <3>1, <3>2 DEF MemberLists
    <3>4. f[1].begun \in 1..Len(body.members) BY <3>1, <3>3 DEF Frames0
    <3>5. v \in Children(body) BY <2>0, <3>1, <3>4 DEF Children, MemberAt
    <3> QED BY <3>1, <3>5 DEF Parts
  <2> QED BY <1>2, <2>1, <2>2
<1>5. PICK v \in Parts(body) : ~IsString(v) /\ v.members = top.members
                               /\ Children(v) \subseteq Parts(body)
    BY <1>4
<1>6. CASE p.at = "key"
  <2>1. ArgOf(f, p.at) = v.members[top.begun][1] BY <1>5, <1>6 DEF ArgOf, MemberAt
  <2> QED BY <1>3, <1>5, <2>1 DEF TextsOf
<1>7. CASE p.at = "text"
  <2> DEFINE w == MemberAt(top)[2]
  <2>1. IsString(w) BY <1>7 DEF Good, PlaceOK
  <2>2. w \in Children(v) BY <1>3, <1>5 DEF Children, MemberAt
  <2>3. ArgOf(f, p.at) = w.value BY <1>7 DEF ArgOf
  <2> QED BY <1>5, <2>1, <2>2, <2>3 DEF TextsOf
<1> QED BY <1>6, <1>7 DEF InString

-----------------------------------------------------------------------------
(* Where the writer came from.                                             *)

Start == Snap(<<>>, "value", 0, 0, 0)

\* The places that the writer went through, and the byte that each but the last led to.
Path(h, s) ==
    /\ IsSeq(h) /\ s \in Seq(Bytes) /\ Len(h) = Len(s) + 1
    /\ h[1] = Start
    /\ \A i \in 1..Len(h) : Good(h[i]) /\ Clean(h[i])
    /\ \A i \in 1..Len(s) : Emits(h[i], s[i], h[i + 1])

Reaches(s, p) == \E h : Path(h, s) /\ h[Len(h)] = p

LEMMA StartGood == IsBody => Good(Start) /\ Clean(Start)
<1> DEFINE none == <<>>
<1>1. Start.frames = none /\ Start.at = "value" /\ Start.state = 0 /\ Start.part = 0
    BY SnapFields DEF Start
<1>2. none \in Seq(Frames0) /\ Len(none) = 0 OBVIOUS
<1>3. FramesOK(none) BY <1>2 DEF FramesOK
<1>4. Good(Start) BY <1>1, <1>3 DEF Good, PlaceOK, InString
<1>5. Clean(Start) BY <1>1, <1>2 DEF Clean, InString
<1> QED BY <1>4, <1>5

LEMMA ReachesStart == IsBody => Reaches(<<>>, Start)
<1> SUFFICES ASSUME IsBody PROVE Reaches(<<>>, Start) OBVIOUS
<1> DEFINE h == <<Start>>
           none == <<>>
<1>1. Good(Start) /\ Clean(Start) BY StartGood
<1>2. h \in Seq({Start}) /\ Len(h) = 1 /\ h[1] = Start OBVIOUS
<1>3. none \in Seq(Bytes) /\ Len(none) = 0 OBVIOUS
<1> HIDE DEF h, none
<1>4. Path(h, none)
  <2>1. IsSeq(h) BY <1>2 DEF IsSeq
  <2>2. \A i \in 1..Len(h) : i = 1 BY <1>2
  <2>3. \A i \in 1..Len(none) : FALSE BY <1>3
  <2>4. Len(h) = Len(none) + 1 BY <1>2, <1>3
  <2> QED BY <1>1, <1>2, <1>3, <2>1, <2>2, <2>3, <2>4 DEF Path
<1>5. Reaches(none, Start) BY <1>2, <1>4 DEF Reaches
<1> QED BY <1>5 DEF none

LEMMA ReachesGood ==
    ASSUME NEW s, NEW p, Reaches(s, p)
    PROVE  Good(p) /\ Clean(p) /\ s \in Seq(Bytes)
<1>1. PICK h : Path(h, s) /\ h[Len(h)] = p BY DEF Reaches
<1>2. s \in Seq(Bytes) /\ Len(h) = Len(s) + 1 BY <1>1 DEF Path
<1>3. Len(s) \in Nat BY <1>2
<1>4. Len(h) \in 1..Len(h) BY <1>2, <1>3
<1> QED BY <1>1, <1>2, <1>4 DEF Path

LEMMA ReachesStep ==
    ASSUME IsBody, NEW s, NEW p, NEW c, NEW q, Reaches(s, p), Emits(p, c, q)
    PROVE  Reaches(Append(s, c), q)
<1>1. PICK h : Path(h, s) /\ h[Len(h)] = p BY DEF Reaches
<1>2. Good(p) /\ Clean(p) /\ s \in Seq(Bytes) BY ReachesGood
<1>3. Good(q) /\ Clean(q) /\ c \in Bytes BY <1>2, EmitsGood, EmitsClean
<1>4. IsSeq(h) /\ Len(h) = Len(s) + 1 /\ h[1] = Start BY <1>1 DEF Path
<1>5. PICK n \in Nat : n = Len(s) BY <1>2
<1> DEFINE t == Append(s, c)
           g == Append(h, q)
<1>6. /\ t \in Seq(Bytes) /\ Len(t) = n + 1 /\ t[n + 1] = c
      /\ \A i \in 1..n : t[i] = s[i]
    BY <1>2, <1>3, <1>5
<1>7. /\ IsSeq(g) /\ Len(g) = n + 2 /\ g[n + 2] = q
      /\ \A i \in 1..(n + 1) : g[i] = h[i]
  <2>1. Len(h) = n + 1 BY <1>4, <1>5
  <2>2. IsSeq(g) /\ Len(g) = (n + 1) + 1 /\ g[(n + 1) + 1] = q
        /\ \A i \in 1..(n + 1) : g[i] = h[i]
      BY <1>4, <2>1, AppendSeq
  <2>3. (n + 1) + 1 = n + 2 OBVIOUS
  <2> QED BY <2>2, <2>3
<1> HIDE DEF t, g
<1>8. g[1] = Start
  <2>1. 1 \in 1..(n + 1) OBVIOUS
  <2> QED BY <1>4, <1>7, <2>1
<1>9. ASSUME NEW i \in 1..Len(g) PROVE Good(g[i]) /\ Clean(g[i])
  <2>1. i \in 1..(n + 1) \/ i = n + 2 BY <1>7
  <2>2. CASE i \in 1..(n + 1)
    <3>1. i \in 1..Len(h) /\ g[i] = h[i] BY <1>4, <1>5, <1>7, <2>2
    <3> QED BY <1>1, <3>1 DEF Path
  <2> QED BY <1>3, <1>7, <2>1, <2>2
<1>10. ASSUME NEW i \in 1..Len(t) PROVE Emits(g[i], t[i], g[i + 1])
  <2>1. i \in 1..n \/ i = n + 1 BY <1>6
  <2>2. CASE i \in 1..n
    <3>1. i \in 1..(n + 1) /\ i + 1 \in 1..(n + 1) BY <2>2
    <3>2. g[i] = h[i] /\ g[i + 1] = h[i + 1] /\ t[i] = s[i] BY <1>6, <1>7, <2>2, <3>1
    <3>3. Emits(h[i], s[i], h[i + 1]) BY <1>1, <1>5, <2>2 DEF Path
    <3> QED BY <3>2, <3>3
  <2>3. CASE i = n + 1
    <3>1. n + 1 \in 1..(n + 1) /\ (n + 1) + 1 = n + 2 OBVIOUS
    <3>2. g[i] = p /\ g[i + 1] = q /\ t[i] = c BY <1>1, <1>4, <1>5, <1>6, <1>7, <2>3, <3>1
    <3> QED BY <3>2
  <2> QED BY <2>1, <2>2, <2>3
<1>11. Path(g, t)
  <2>1. Len(g) = Len(t) + 1 BY <1>6, <1>7
  <2> QED BY <1>6, <1>7, <1>8, <1>9, <1>10, <2>1 DEF Path
<1>12. g[Len(g)] = q BY <1>7
<1>13. Reaches(t, q) BY <1>11, <1>12 DEF Reaches
<1> QED BY <1>13 DEF t

-----------------------------------------------------------------------------
(* The bytes that a byte of a string is written as.                        *)

\* A string and the first bytes of another.
With(s, t, k) == s \o SubSeq(t, 1, k)

LEMMA WithMore ==
    ASSUME NEW s \in Seq(Bytes), NEW t \in Seq(Bytes), NEW k \in Nat, k < Len(t)
    PROVE  With(s, t, k + 1) = Append(With(s, t, k), t[k + 1])
BY DEF With

LEMMA WithNone ==
    ASSUME NEW s \in Seq(Bytes), NEW t \in Seq(Bytes) PROVE With(s, t, 0) = s
<1>1. SubSeq(t, 1, 0) = <<>> OBVIOUS
<1> QED BY <1>1 DEF With

LEMMA WithAll ==
    ASSUME NEW s \in Seq(Bytes), NEW t \in Seq(Bytes) PROVE With(s, t, Len(t)) = s \o t
<1>1. SubSeq(t, 1, Len(t)) = t OBVIOUS
<1> QED BY <1>1 DEF With

LEMMA PieceWritten ==
    ASSUME IsBody, NEW s, NEW f, NEW at, NEW n, NEW st, Reaches(s, Snap(f, at, n, st, 0)),
           InString(at), n <= Len(ArgOf(f, at)), NEW b, b = ArgOf(f, at)[n],
           Decode(st, b) # 1
    PROVE  b \in Bytes /\ Reaches(s \o Piece(st, b), Snap(f, at, n + 1, Decode(st, b), 0))
<1> DEFINE p == Snap(f, at, n, st, 0)
           text0 == ArgOf(f, at)
           piece == Piece(st, b)
           here(k) == Snap(f, at, n + 1, Decode(st, b), IF k = Len(piece) THEN 0 ELSE k)
<1>1. Good(p) /\ s \in Seq(Bytes) BY ReachesGood
<1>2. p.frames = f /\ p.at = at /\ p.next = n /\ p.state = st /\ p.part = 0 BY SnapFields
<1> HIDE DEF p
<1>3. text0 \in Seq(Bytes) BY <1>1, <1>2, ArgFacts
<1>4. n \in 1..(Len(text0) + 1) BY <1>1, <1>2 DEF Good, StringOK
<1>5. n \in 1..Len(text0)
  <2>1. Len(text0) \in Nat BY <1>3
  <2> QED BY <1>4, <2>1
<1>6. b \in Bytes BY <1>3, <1>5
<1>7. /\ piece \in Seq(Bytes) /\ Len(piece) \in {1, 2, 6}
      /\ Len(piece) # 1 => st = 0 /\ b < 128 /\ piece = Escape(b, b)
    BY <1>6, PieceBytes
<1>8. Continues(p, piece[1], here(1))
  <2> DEFINE part == IF Len(piece) = 1 THEN 0 ELSE 1
  <2>1. part = IF 1 = Len(piece) THEN 0 ELSE 1 OBVIOUS
  <2> HIDE DEF piece
  <2> QED BY <1>2, <2>1 DEF Continues, piece
<1>9. Reaches(Append(s, piece[1]), here(1))
  <2> HIDE DEF here, piece
  <2>1. Emits(p, piece[1], here(1)) BY <1>8 DEF Emits
  <2>2. Reaches(s, p) BY DEF p
  <2> QED BY <2>1, <2>2, ReachesStep
<1>10. Reaches(With(s, piece, 1), here(1))
  <2> HIDE DEF here, piece
  <2>0. 0 < Len(piece)
    <3>1. PICK m \in {1, 2, 6} : m = Len(piece) BY <1>7
    <3>2. 0 < m OBVIOUS
    <3> QED BY <3>1, <3>2
  <2>1. With(s, piece, 0) = s /\ 0 + 1 = 1 BY <1>1, <1>7, WithNone
  <2>2. With(s, piece, 0 + 1) = Append(With(s, piece, 0), piece[0 + 1])
      BY <1>1, <1>7, <2>0, WithMore
  <2>3. With(s, piece, 1) = Append(s, piece[1]) BY <2>1, <2>2
  <2> QED BY <1>9, <2>3
<1>11. ASSUME NEW k \in 1..5, k < Len(piece), Reaches(With(s, piece, k), here(k))
       PROVE  Reaches(With(s, piece, k + 1), here(k + 1))
  <2>1. st = 0 /\ b < 128 /\ piece = Escape(b, b) BY <1>7, <1>11
  <2>2. Decode(st, b) = 0 BY <1>6, <2>1, DecodeAscii
  <2>3. /\ here(k).frames = f /\ here(k).at = at /\ here(k).next = n + 1
        /\ here(k).state = 0 /\ here(k).part = k
    <3> DEFINE part == IF k = Len(piece) THEN 0 ELSE k
    <3>1. part = k
      <4>1. PICK m \in {1, 2, 6} : m = Len(piece) BY <1>7
      <4>2. k # m BY <1>11, <4>1
      <4> QED BY <4>1, <4>2
    <3>2. here(k) = Snap(f, at, n + 1, 0, k) BY <2>2, <3>1
    <3> HIDE DEF here
    <3> QED BY <3>2, SnapFields
  <2>4. Completes(here(k), piece[k + 1], here(k + 1))
    <3> DEFINE e == Escape(b, b)
               part == IF k + 1 = Len(e) THEN 0 ELSE k + 1
    <3>1. here(k + 1) = Snap(f, at, n + 1, 0, part) BY <2>1, <2>2
    <3>2. (n + 1) - 1 = n BY <1>5
    <3>3. text0[here(k).next - 1] = b BY <2>3, <3>2
    <3> HIDE DEF here, piece
    <3> QED BY <2>1, <2>3, <3>1, <3>3 DEF Completes
  <2> HIDE DEF here
  <2>5. Emits(here(k), piece[k + 1], here(k + 1)) BY <2>4 DEF Emits
  <2> HIDE DEF piece
  <2>6. Reaches(Append(With(s, piece, k), piece[k + 1]), here(k + 1))
      BY <1>11, <2>5, ReachesStep
  <2>7. With(s, piece, k + 1) = Append(With(s, piece, k), piece[k + 1])
      BY <1>1, <1>7, <1>11, WithMore
  <2> QED BY <2>6, <2>7
<1>12. Reaches(With(s, piece, Len(piece)), here(Len(piece)))
  <2> HIDE DEF here, piece
  <2>1. CASE Len(piece) = 1 BY <1>10, <2>1
  <2>2. CASE Len(piece) = 2
    <3>1. 1 \in 1..5 /\ 1 < Len(piece) /\ 1 + 1 = 2 BY <2>2
    <3>2. Reaches(With(s, piece, 2), here(2)) BY <1>10, <1>11, <3>1
    <3> QED BY <2>2, <3>2
  <2>3. CASE Len(piece) = 6
    <3>1. \A k \in 1..5 : k < Len(piece) BY <2>3
    <3>2. 1 \in 1..5 /\ 1 + 1 = 2 OBVIOUS
    <3>3. Reaches(With(s, piece, 2), here(2)) BY <1>10, <1>11, <3>1, <3>2
    <3>4. 2 \in 1..5 /\ 2 + 1 = 3 OBVIOUS
    <3>5. Reaches(With(s, piece, 3), here(3)) BY <1>11, <3>1, <3>3, <3>4
    <3>6. 3 \in 1..5 /\ 3 + 1 = 4 OBVIOUS
    <3>7. Reaches(With(s, piece, 4), here(4)) BY <1>11, <3>1, <3>5, <3>6
    <3>8. 4 \in 1..5 /\ 4 + 1 = 5 OBVIOUS
    <3>9. Reaches(With(s, piece, 5), here(5)) BY <1>11, <3>1, <3>7, <3>8
    <3>10. 5 \in 1..5 /\ 5 + 1 = 6 OBVIOUS
    <3>11. Reaches(With(s, piece, 6), here(6)) BY <1>11, <3>1, <3>9, <3>10
    <3> QED BY <2>3, <3>11
  <2> QED BY <1>7, <2>1, <2>2, <2>3
<1>13. With(s, piece, Len(piece)) = s \o piece
  <2> HIDE DEF piece
  <2> QED BY <1>1, <1>7, WithAll
<1>14. here(Len(piece)) = Snap(f, at, n + 1, Decode(st, b), 0) OBVIOUS
<1> HIDE DEF here
<1> QED BY <1>6, <1>12, <1>13, <1>14

-----------------------------------------------------------------------------
(* The writer writes along such a path.                                    *)

Cur == Snap(frames, writing, next, state, 0)

\* What is in codepoint, of a code point that may not have more bytes than it needs.
CodepointOK ==
    /\ state = 2 => codepoint >= 2
    /\ state \in {3, 5, 7, 8} => codepoint >= 1

Writes ==
    /\ writing # "threw" =>
          /\ Reaches(out \o buffer, Cur)
          /\ writing \in {"value", "key", "text"} => arg = ArgOf(frames, writing)
          /\ ~InString(writing) => buffer = <<>>
          /\ CodepointOK
    /\ writing = "threw" => \E t \in TextsOf(body) : ~IsUtf8(t)

WriterTypes ==
    /\ out \in Seq(Bytes) /\ buffer \in Seq(Bytes)
    /\ state \in 0..8 /\ codepoint \in Nat /\ touched \in Nat /\ next \in Nat
    /\ writing \in {"value", "members", "key", "text", "dumped", "threw"}

WriterAt == WriterTypes /\ (body # NoBody => IsBody /\ Writes)

\* A body is what it was.
LEMMA PlacesKept ==
    ASSUME body' = body, NEW p
    PROVE  (Good(p)' <=> Good(p)) /\ (Clean(p)' <=> Clean(p))
<1>1. ASSUME NEW f, NEW at PROVE ArgOf(f, at)' = ArgOf(f, at)
    BY DEF ArgOf
<1>2. ASSUME NEW f PROVE FramesOK(f)' <=> FramesOK(f)
    BY DEF FramesOK
<1>3. StringOK(p)' <=> StringOK(p) BY <1>1 DEF StringOK
<1>4. Good(p)' <=> Good(p) BY <1>2, <1>3 DEF Good
<1>5. Clean(p)' <=> Clean(p) BY <1>1 DEF Clean
<1> QED BY <1>4, <1>5

LEMMA EmitsKept ==
    ASSUME body' = body, NEW p, NEW c, NEW q
    PROVE  Emits(p, c, q)' <=> Emits(p, c, q)
<1>1. ASSUME NEW f, NEW at PROVE ArgOf(f, at)' = ArgOf(f, at)
    BY DEF ArgOf
<1>2. Opens(p, c, q)' <=> Opens(p, c, q) BY <1>1 DEF Opens
<1>3. StartsText(p, c, q)' <=> StartsText(p, c, q) BY <1>1 DEF StartsText
<1>4. Continues(p, c, q)' <=> Continues(p, c, q) BY <1>1 DEF Continues
<1>5. Completes(p, c, q)' <=> Completes(p, c, q) BY <1>1 DEF Completes
<1>6. Ended(p)' <=> Ended(p) BY <1>1 DEF Ended
<1>7. (EndsName(p, c, q)' <=> EndsName(p, c, q)) /\ (EndsText(p, c, q)' <=> EndsText(p, c, q))
    BY <1>6 DEF EndsName, EndsText
<1> QED BY <1>2, <1>3, <1>4, <1>5, <1>7 DEF Emits

LEMMA PathKept ==
    ASSUME body' = body, NEW h, NEW s
    PROVE  Path(h, s)' <=> Path(h, s)
<1>1. \A i \in 1..Len(h) : (Good(h[i])' <=> Good(h[i])) /\ (Clean(h[i])' <=> Clean(h[i]))
    BY PlacesKept
<1>2. \A i \in 1..Len(s) : Emits(h[i], s[i], h[i + 1])' <=> Emits(h[i], s[i], h[i + 1])
    BY EmitsKept
<1> QED BY <1>1, <1>2 DEF Path

LEMMA ReachesKept ==
    ASSUME body' = body, NEW s, NEW p, Reaches(s, p)
    PROVE  Reaches(s, p)'
<1>1. \A h : Path(h, s)' <=> Path(h, s) BY PathKept
<1> QED BY <1>1 DEF Reaches

-----------------------------------------------------------------------------
\* Where the writer is after a step.
LEMMA WriterMoved ==
    ASSUME body' = body, IsBody, WriterTypes',
           Reaches(out' \o buffer', Snap(frames', writing', next', state', 0)),
           writing' # "threw",
           writing' \in {"value", "key", "text"} => arg' = ArgOf(frames', writing'),
           ~InString(writing') => buffer' = <<>>,
           CodepointOK'
    PROVE  WriterAt'
<1>1. IsBody' BY DEF IsBody
<1>2. PICK s : s = out' \o buffer' OBVIOUS
<1>3. PICK p : p = Snap(frames', writing', next', state', 0) OBVIOUS
<1>4. Reaches(s, p) BY <1>2, <1>3
<1>5. Reaches(s, p)' BY <1>4, ReachesKept
<1>6. p = Cur' BY <1>3 DEF Cur
<1>7. Reaches(out \o buffer, Cur)' BY <1>2, <1>5, <1>6
<1>8. PICK f : f = frames' OBVIOUS
<1>9. PICK at : at = writing' OBVIOUS
<1>10. ArgOf(f, at)' = ArgOf(f, at) BY DEF ArgOf
<1>11. ArgOf(frames, writing)' = ArgOf(frames', writing') BY <1>8, <1>9, <1>10
<1>12. (InString(writing))' <=> InString(writing') BY DEF InString
<1>13. Writes' BY <1>7, <1>11, <1>12 DEF Writes
<1> QED BY <1>1, <1>13 DEF WriterAt

LEMMA WriteStringWrites ==
    ASSUME body' = body, IsBody, WriterTypes, Writes, WriteString
    PROVE  WriterAt'
<1>1. /\ writing = "value" /\ IsString(arg) /\ out' = Append(out, 34) /\ writing' = "text"
      /\ arg' = arg.value /\ next' = 1 /\ frames' = frames /\ buffer' = buffer
      /\ state' = state /\ codepoint' = codepoint /\ touched' = touched
    BY DEF WriteString, escaper
<1>2. buffer = <<>> /\ Reaches(out \o buffer, Cur) /\ arg = ArgOf(frames, "value") /\ CodepointOK
    BY <1>1 DEF Writes, InString
<1>3. Cur.frames = frames /\ Cur.at = "value" /\ Cur.state = state /\ Cur.part = 0
    BY <1>1, SnapFields DEF Cur
<1>4. Emits(Cur, 34, Snap(frames, "text", 1, state, 0))
    BY <1>1, <1>2, <1>3 DEF StartsText, Emits
<1>5. Reaches(Append(out \o buffer, 34), Snap(frames, "text", 1, state, 0))
    BY <1>2, <1>4, ReachesStep
<1>6. out' \o buffer' = Append(out \o buffer, 34)
    BY <1>1, <1>2 DEF WriterTypes
<1>7. arg' = ArgOf(frames, "text")
  <2>1. frames # <<>> BY <1>1, <1>2, BodyFacts DEF ArgOf
  <2> QED BY <1>1, <1>2, <2>1 DEF ArgOf
<1>8. WriterTypes' BY <1>1 DEF WriterTypes, Bytes
<1>9. CodepointOK' BY <1>1, <1>2 DEF CodepointOK
<1> QED BY <1>1, <1>5, <1>6, <1>7, <1>8, <1>9, WriterMoved DEF InString

LEMMA WriteObjectWrites ==
    ASSUME body' = body, IsBody, WriterTypes, Writes, WriteObject
    PROVE  WriterAt'
<1> DEFINE f == Append(frames, [members |-> arg.members, begun |-> 0])
<1>1. /\ writing = "value" /\ ~IsString(arg) /\ out' = Append(out, 123) /\ writing' = "members"
      /\ next' = next /\ frames' = f /\ buffer' = buffer
      /\ state' = state /\ codepoint' = codepoint /\ touched' = touched
    BY DEF WriteObject, escaper
<1>2. buffer = <<>> /\ Reaches(out \o buffer, Cur) /\ arg = ArgOf(frames, "value") /\ CodepointOK
    BY <1>1 DEF Writes, InString
<1>3. Cur.frames = frames /\ Cur.at = "value" /\ Cur.next = next /\ Cur.state = state /\ Cur.part = 0
    BY <1>1, SnapFields DEF Cur
<1>4. Emits(Cur, 123, Snap(f, "members", next, state, 0))
    BY <1>1, <1>2, <1>3 DEF Opens, Emits
<1> HIDE DEF f
<1>5. Reaches(Append(out \o buffer, 123), Snap(f, "members", next, state, 0))
    BY <1>2, <1>4, ReachesStep
<1>6. out' \o buffer' = Append(out \o buffer, 123)
    BY <1>1, <1>2 DEF WriterTypes
<1>7. WriterTypes' BY <1>1 DEF WriterTypes, Bytes
<1>8. CodepointOK' BY <1>1, <1>2 DEF CodepointOK
<1> QED BY <1>1, <1>2, <1>5, <1>6, <1>7, <1>8, WriterMoved DEF InString

LEMMA EndObjectWrites ==
    ASSUME body' = body, IsBody, WriterTypes, Writes, EndObject
    PROVE  WriterAt'
<1> DEFINE f == SubSeq(frames, 1, Len(frames) - 1)
<1>1. /\ writing = "members" /\ Inner.begun = Len(Inner.members)
      /\ out' = Append(out, 125) /\ writing' = Returned(f)
      /\ next' = next /\ frames' = f /\ buffer' = buffer
      /\ state' = state /\ codepoint' = codepoint /\ touched' = touched
    BY DEF EndObject, escaper
<1>2. buffer = <<>> /\ Reaches(out \o buffer, Cur) /\ CodepointOK
    BY <1>1 DEF Writes, InString
<1>3. Cur.frames = frames /\ Cur.at = "members" /\ Cur.next = next /\ Cur.state = state /\ Cur.part = 0
    BY <1>1, SnapFields DEF Cur
<1>4. Emits(Cur, 125, Snap(f, Returned(f), next, state, 0))
    BY <1>1, <1>3 DEF Closes, Emits, Deepest, Inner
<1> HIDE DEF f
<1>5. Reaches(Append(out \o buffer, 125), Snap(f, Returned(f), next, state, 0))
    BY <1>2, <1>4, ReachesStep
<1>6. out' \o buffer' = Append(out \o buffer, 125)
    BY <1>1, <1>2 DEF WriterTypes
<1>7. writing' \in {"dumped", "members"} BY <1>1 DEF Returned
<1>8. WriterTypes' BY <1>1, <1>7 DEF WriterTypes, Bytes
<1>9. CodepointOK' BY <1>1, <1>2 DEF CodepointOK
<1> QED BY <1>1, <1>2, <1>5, <1>6, <1>7, <1>8, <1>9, WriterMoved DEF InString

LEMMA WriteMemberWrites ==
    ASSUME body' = body, IsBody, WriterTypes, Writes, WriteMember
    PROVE  WriterAt'
<1> DEFINE g == Begun(frames)
           top == Deepest(frames)
           q == Snap(g, "key", 1, state, 0)
<1>1. /\ writing = "members" /\ top.begun < Len(top.members)
      /\ out' = out \o IF top.begun = 0 THEN <<34>> ELSE <<44, 34>>
      /\ frames' = g
      /\ writing' = "key" /\ arg' = top.members[top.begun + 1][1] /\ next' = 1
      /\ buffer' = buffer /\ state' = state /\ codepoint' = codepoint /\ touched' = touched
    BY DEF WriteMember, escaper, Deepest, Inner, Begun
<1>2. buffer = <<>> /\ Reaches(out \o buffer, Cur) /\ CodepointOK
    BY <1>1 DEF Writes, InString
<1>3. Cur.frames = frames /\ Cur.at = "members" /\ Cur.next = next /\ Cur.state = state /\ Cur.part = 0
    BY <1>1, SnapFields DEF Cur
<1>4. Good(Cur) BY <1>2, ReachesGood
<1>5. FramesOK(frames) /\ frames # <<>> BY <1>3, <1>4 DEF Good, PlaceOK
<1>6. top.begun \in Nat /\ Len(top.members) \in Nat
  <2>1. top.members \in MemberLists(Values0) /\ top.begun \in Nat BY <1>5, DeepestFacts
  <2> QED BY <2>1 DEF MemberLists
<1>12. out' \in Seq(Bytes)
  <2> DEFINE more == IF top.begun = 0 THEN <<34>> ELSE <<44, 34>>
  <2>1. more \in Seq(Bytes)
    <3>1. <<34>> \in Seq(Bytes) BY DEF Bytes
    <3>2. <<44, 34>> \in Seq(Bytes) BY DEF Bytes
    <3> QED BY <3>1, <3>2
  <2>2. out' = out \o more BY <1>1
  <2> HIDE DEF more
  <2> QED BY <2>1, <2>2 DEF WriterTypes
<1>7. out' \o buffer' = out' /\ out \o buffer = out
  <2>1. \A s \in Seq(Bytes) : s \o <<>> = s OBVIOUS
  <2> QED BY <1>1, <1>2, <1>12, <2>1 DEF WriterTypes
<1>8. Reaches(out', q)
  <2>1. CASE top.begun = 0
    <3>1. Emits(Cur, 34, q) BY <1>1, <1>3, <1>6, <2>1 DEF StartsName, Emits
    <3> HIDE DEF q
    <3>2. Reaches(Append(out, 34), q) BY <1>2, <1>7, <3>1, ReachesStep
    <3>3. out' = Append(out, 34) BY <1>1, <2>1 DEF WriterTypes
    <3> QED BY <3>2, <3>3
  <2>2. CASE top.begun # 0
    <3> DEFINE m == Snap(frames, "comma", next, state, 0)
    <3>1. Separates(Cur, 44, m) BY <1>1, <1>3, <1>6, <2>2 DEF Separates
    <3>2. m.frames = frames /\ m.at = "comma" /\ m.state = state /\ m.part = 0 BY SnapFields
    <3>3. StartsName(m, 34, q) BY <3>2 DEF StartsName
    <3> HIDE DEF q, m
    <3>4. Emits(Cur, 44, m) /\ Emits(m, 34, q) BY <3>1, <3>3 DEF Emits
    <3>5. Reaches(Append(out, 44), m) BY <1>2, <1>7, <3>4, ReachesStep
    <3>6. Reaches(Append(Append(out, 44), 34), q) BY <3>4, <3>5, ReachesStep
    <3>7. out' = out \o <<44, 34>> BY <1>1, <2>2
    <3>8. out \o <<44, 34>> = Append(Append(out, 44), 34) BY SMTT(30) DEF WriterTypes
    <3>9. out' = Append(Append(out, 44), 34) BY <3>7, <3>8
    <3> QED BY <3>6, <3>9
  <2> QED BY <2>1, <2>2
<1>9. arg' = ArgOf(g, "key")
  <2>1. Deepest(g).members = top.members /\ Deepest(g).begun = top.begun + 1
      BY <1>1, <1>5, BegunFacts
  <2> HIDE DEF g, top
  <2> QED BY <1>1, <2>1 DEF ArgOf, MemberAt
<1>10. WriterTypes' BY <1>1, <1>12 DEF WriterTypes
<1>11. CodepointOK' BY <1>1, <1>2 DEF CodepointOK
<1> HIDE DEF g
<1> QED BY <1>1, <1>7, <1>8, <1>9, <1>10, <1>11, WriterMoved DEF InString

-----------------------------------------------------------------------------
(* One byte of a string.                                                   *)

\* The bits of a byte that are a code point's.
LEMMA CodepFacts ==
    ASSUME CodepointOK, state \in 0..8, codepoint \in Nat, NEW b \in Bytes
    PROVE  /\ Codep(b) \in Nat
           /\ state = 0 /\ b < 128 => Codep(b) = b
           /\ state = 2 => Codep(b) >= 128
           /\ Decode(state, b) = 2 => Codep(b) >= 2
           /\ Decode(state, b) \in {3, 5, 7, 8} => Codep(b) >= 1
<1>1. b \in 0..255 BY DEF Bytes
<1> DEFINE t == ByteType(b)
           low == b % 64
<1>2. /\ t \in 0..11
      /\ b < 128 <=> t = 0
      /\ b \in 194..223 <=> t = 2
      /\ b = 237 <=> t = 4
      /\ b = 244 <=> t = 5
      /\ b \in 241..243 <=> t = 6
      /\ b \in 225..236 \cup {238, 239} <=> t = 3
      /\ t \in {1, 7, 9} => b \in 128..191
    BY ByteTypes
<1> HIDE DEF t
<1>3. /\ Decode(0, b) = IF b < 128 THEN 0 ELSE IF b \in 194..223 THEN 2
                     ELSE IF b = 224 THEN 4 ELSE IF b = 237 THEN 5
                     ELSE IF b \in 225..239 THEN 3 ELSE IF b = 240 THEN 6
                     ELSE IF b \in 241..243 THEN 7 ELSE IF b = 244 THEN 8 ELSE 1
      /\ Decode(2, b) = IF b \in 128..191 THEN 0 ELSE 1
      /\ Decode(3, b) = IF b \in 128..191 THEN 2 ELSE 1
      /\ Decode(4, b) = IF b \in 160..191 THEN 2 ELSE 1
      /\ Decode(5, b) = IF b \in 128..159 THEN 2 ELSE 1
      /\ Decode(6, b) = IF b \in 144..191 THEN 3 ELSE 1
      /\ Decode(7, b) = IF b \in 128..191 THEN 3 ELSE 1
      /\ Decode(8, b) = IF b \in 128..143 THEN 3 ELSE 1
    BY DecodeRanges
<1>4. CASE state = 0
  <2>1. Codep(b) = IF t = 0 THEN b ELSE IF t < 8 THEN b % Shifted[t] ELSE 0
      BY <1>4 DEF Codep, t
  <2>2. /\ t = 1 => Codep(b) = b % 128 
        /\ t = 2 => Codep(b) = b % 64
        /\ t = 3 => Codep(b) = b % 32
        /\ t = 4 => Codep(b) = b % 16
        /\ t = 5 => Codep(b) = b % 8
        /\ t = 6 => Codep(b) = b % 4
        /\ t = 7 => Codep(b) = b % 2
        /\ t >= 8 => Codep(b) = 0
        /\ t = 0 => Codep(b) = b
    BY <1>2, <2>1 DEF Shifted
  <2>3. Codep(b) \in Nat BY SMT, <1>1, <1>2, <2>2
  <2>4. Decode(0, b) = 2 => Codep(b) >= 2 BY SMT, <1>1, <1>2, <1>3, <2>2
  <2>5. Decode(0, b) = 3 => Codep(b) >= 1 BY SMT, <1>1, <1>2, <1>3, <2>2
  <2>6. Decode(0, b) = 5 => Codep(b) >= 1 BY SMT, <1>1, <1>2, <1>3, <2>2
  <2>7. Decode(0, b) = 7 => Codep(b) >= 1 BY SMT, <1>1, <1>2, <1>3, <2>2
  <2>8. Decode(0, b) = 8 => Codep(b) >= 1 BY SMT, <1>1, <1>2, <1>3, <2>2
  <2>9. b < 128 => Codep(b) = b BY <1>2, <2>2
  <2> QED BY <1>4, <2>3, <2>4, <2>5, <2>6, <2>7, <2>8, <2>9
<1>5. CASE state # 0
  <2>1. Codep(b) = codepoint * 64 + low BY <1>5 DEF Codep
  <2>2. low \in 0..63 /\ (b \in 160..191 => low >= 32) /\ (b \in 144..191 => low >= 16)
    BY <1>1
  <2> HIDE DEF low
  <2>3. Codep(b) \in Nat BY <2>1, <2>2
  <2>4. codepoint >= 1 => Codep(b) >= 64 BY <2>1, <2>2
  <2>5. codepoint >= 2 => Codep(b) >= 128 BY <2>1, <2>2
  <2>6. Codep(b) >= low BY <2>1, <2>2
  <2>7. /\ Decode(state, b) = 2 => state \in {3, 5} \/ (state = 4 /\ b \in 160..191)
        /\ Decode(state, b) = 3 => state \in {7, 8} \/ (state = 6 /\ b \in 144..191)
        /\ Decode(state, b) \notin {5, 7, 8}
    <3>1. state \in 1..8 BY <1>5
    <3>2. Decode(1, b) = 1
      <4>1. Decode(1, b) = DecoderTo(1, ByteType(b)) BY DecodeTo
      <4> QED BY <4>1 DEF DecoderTo
    <3>3. CASE state = 1 BY <1>1, <1>3, <3>2, <3>3
    <3>4. CASE state = 2 BY <1>1, <1>3, <3>2, <3>4
    <3>5. CASE state = 3 BY <1>1, <1>3, <3>2, <3>5
    <3>6. CASE state = 4 BY <1>1, <1>3, <3>2, <3>6
    <3>7. CASE state = 5 BY <1>1, <1>3, <3>2, <3>7
    <3>8. CASE state = 6 BY <1>1, <1>3, <3>2, <3>8
    <3>9. CASE state = 7 BY <1>1, <1>3, <3>2, <3>9
    <3>10. CASE state = 8 BY <1>1, <1>3, <3>2, <3>10
    <3> QED BY <3>1, <3>3, <3>4, <3>5, <3>6, <3>7, <3>8, <3>9, <3>10
  <2>8. Codep(b) \in Nat /\ low \in Nat BY <2>2, <2>3
  <2> HIDE DEF CodepointOK
  <2>9. (state = 2 => codepoint >= 2) /\ (state \in {3, 5, 7, 8} => codepoint >= 1)
      BY DEF CodepointOK
  <2> QED BY SMT, <1>5, <2>2, <2>4, <2>5, <2>6, <2>7, <2>8, <2>9
<1> QED BY <1>4, <1>5

\* A byte that completes a code point is escaped as it would be alone.
LEMMA EscapeIsPiece ==
    ASSUME CodepointOK, state \in 0..8, codepoint \in Nat, NEW b \in Bytes, Decode(state, b) = 0
    PROVE  Escape(Codep(b), b) = Piece(state, b)
<1>1. b \in 0..255 BY DEF Bytes
<1>2. /\ Codep(b) \in Nat
      /\ state = 0 /\ b < 128 => Codep(b) = b
      /\ state = 2 => Codep(b) >= 128
    BY CodepFacts
<1>3. state = 2 \/ (state = 0 /\ b < 128)
  <2>1. DecoderTo(state, ByteType(b)) = 0 BY DecodeTo
  <2>2. b < 128 <=> ByteType(b) = 0 BY ByteTypes
  <2>3. state = 2 \/ (state = 0 /\ ByteType(b) = 0) BY SMT, <2>1 DEF DecoderTo
  <2> QED BY <2>2, <2>3
<1>4. CASE state = 0 /\ b < 128 BY <1>2, <1>4 DEF Piece
<1>5. CASE state = 2
  <2>1. ~\E e \in ShortEscapes : e[1] = Codep(b) BY <1>2, <1>5 DEF ShortEscapes
  <2>2. ~(Codep(b) <= 31) BY <1>2, <1>5
  <2>3. Escape(Codep(b), b) = <<b>> BY <2>1, <2>2 DEF Escape
  <2> QED BY <1>5, <2>3 DEF Piece
<1> QED BY <1>3, <1>4, <1>5

\* A byte that does not is copied.
LEMMA CopyIsPiece ==
    ASSUME NEW s \in 0..8, NEW b \in Bytes, Decode(s, b) # 0
    PROVE  Piece(s, b) = <<b>>
BY DecodeAscii DEF Piece

LEMMA EscapeByteWrites ==
    ASSUME body' = body, IsBody, WriterTypes, Writes, EscapeByte
    PROVE  WriterAt'
<1> DEFINE b == arg[next]
           s == out \o buffer
           piece == Piece(state, b)
           q == Snap(frames, writing, next + 1, Decode(state, b), 0)
<1>1. /\ InString(writing) /\ next <= Len(arg) /\ writing # "threw"
      /\ frames' = frames /\ arg' = arg
      /\ state' = Decode(state, b) /\ codepoint' = Codep(b)
    BY DEF EscapeByte, Escaping, InString, NextByte
<1>2. Reaches(s, Cur) /\ arg = ArgOf(frames, writing) /\ CodepointOK
    BY <1>1 DEF Writes, InString
<1>3. Good(Cur) /\ Clean(Cur) BY <1>2, ReachesGood
<1>4. Cur.frames = frames /\ Cur.at = writing /\ Cur.next = next /\ Cur.state = state /\ Cur.part = 0
    BY SnapFields DEF Cur
<1>5. arg \in Seq(Bytes) BY <1>1, <1>2, <1>3, <1>4, ArgFacts
<1>6. next \in 1..(Len(arg) + 1) BY <1>1, <1>2, <1>3, <1>4 DEF Good, StringOK
<1>7. Len(arg) \in Nat /\ next \in 1..Len(arg)
  <2>1. Len(arg) \in Nat BY <1>5
  <2> QED BY <1>1, <1>6, <2>1
<1>8. b \in Bytes BY <1>5, <1>7
<1>9. state \in 0..8 /\ codepoint \in Nat /\ out \in Seq(Bytes) /\ buffer \in Seq(Bytes)
      /\ touched \in Nat /\ next \in Nat
    BY DEF WriterTypes
<1>10. /\ Codep(b) \in Nat
       /\ Decode(state, b) = 2 => Codep(b) >= 2
       /\ Decode(state, b) \in {3, 5, 7, 8} => Codep(b) >= 1
  <2> HIDE DEF b
  <2> QED BY <1>2, <1>8, <1>9, CodepFacts
<1>11. Decode(state, b) \in 0..8 BY DecodeInRange
<1>12. CodepointOK' BY <1>1, <1>10 DEF CodepointOK
<1>13. CASE Decode(state, b) = 1
  <2>1. /\ writing' = "threw" /\ next' = next /\ out' = out /\ buffer' = buffer
        /\ touched' = touched
      BY <1>1, <1>13 DEF EscapeByte
  <2>2. WriterTypes' BY <1>1, <1>9, <1>10, <1>11, <2>1 DEF WriterTypes
  <2>3. Decoded(arg, next - 1, state) BY <1>1, <1>2, <1>3, <1>4 DEF Clean
  <2>4. next - 1 \in 0..(Len(arg) - 1) /\ (next - 1) + 1 = next BY <1>7
  <2>5. ~IsUtf8(arg) BY <1>5, <1>13, <2>3, <2>4, Rejected
  <2>6. arg \in TextsOf(body) BY <1>1, <1>2, <1>3, <1>4, ArgIsText
  <2>7. \E t \in TextsOf(body) : ~IsUtf8(t) BY <2>5, <2>6
  <2>8. TextsOf(body)' = TextsOf(body)
    <3>1. PICK v : v = body OBVIOUS
    <3> QED BY <3>1
  <2>9. IsBody' BY DEF IsBody
  <2>10. Writes' BY <2>1, <2>7, <2>8 DEF Writes
  <2> QED BY <2>2, <2>9, <2>10 DEF WriterAt
<1>14. CASE Decode(state, b) # 1
  <2>1. Reaches(s \o piece, q)
    <3> HIDE DEF b, s
    <3>1. Reaches(s, Snap(frames, writing, next, state, 0)) BY <1>2 DEF Cur
    <3>2. next <= Len(ArgOf(frames, writing)) /\ b = ArgOf(frames, writing)[next]
        BY <1>1, <1>2 DEF b
    <3> QED BY <1>1, <1>14, <3>1, <3>2, PieceWritten
  <2>2. out' \o buffer' = s \o piece /\ out' \in Seq(Bytes) /\ buffer' \in Seq(Bytes)
        /\ touched' \in Nat /\ writing' = writing /\ next' = next + 1
    <3>1. CASE Decode(state, b) = 0
      <4>1. Escape(Codep(b), b) = piece
        <5> HIDE DEF b
        <5> QED BY <1>2, <1>8, <1>9, <3>1, EscapeIsPiece
      <4>2. Flush(buffer \o piece) /\ touched' = Written(codepoint', b) /\ writing' = writing
            /\ next' = next + 1
          BY <1>1, <3>1, <4>1 DEF EscapeByte, NextByte
      <4>3. piece \in Seq(Bytes) /\ Len(piece) \in {1, 2, 6} BY <1>8, PieceBytes
      <4>4. touched' = Len(buffer) + Len(piece) + IF Len(piece) = 6 THEN 1 ELSE 0
          BY <1>1, <4>1, <4>2 DEF Written
      <4> HIDE DEF piece
      <4>5. touched' \in Nat
        <5>1. PICK m \in {1, 2, 6} : m = Len(piece) BY <4>3
        <5>2. Len(buffer) \in Nat BY <1>9
        <5> QED BY <4>4, <5>1, <5>2
      <4>6. \/ out' = out \o (buffer \o piece) /\ buffer' = <<>>
            \/ out' = out /\ buffer' = buffer \o piece
          BY <4>2 DEF Flush
      <4>7. (out \o (buffer \o piece)) \o <<>> = s \o piece
            /\ out \o (buffer \o piece) = s \o piece
            /\ out \o (buffer \o piece) \in Seq(Bytes) /\ buffer \o piece \in Seq(Bytes)
        <5>1. buffer \o piece \in Seq(Bytes) BY <1>9, <4>3
        <5>2. out \o (buffer \o piece) \in Seq(Bytes) BY <1>9, <5>1
        <5>3. out \o (buffer \o piece) = s \o piece BY <1>9, <4>3
        <5>4. \A x \in Seq(Bytes) : x \o <<>> = x OBVIOUS
        <5> QED BY <5>1, <5>2, <5>3, <5>4
      <4>8. <<>> \in Seq(Bytes) OBVIOUS
      <4> HIDE DEF s
      <4> QED BY <1>9, <4>2, <4>5, <4>6, <4>7, <4>8
    <3>2. CASE Decode(state, b) # 0
      <4>1. piece = <<b>> BY <1>8, <1>9, <3>2, CopyIsPiece
      <4>2. buffer' = Append(buffer, b) /\ touched' = Len(buffer') /\ out' = out
            /\ writing' = writing /\ next' = next + 1
          BY <1>1, <1>14, <3>2 DEF EscapeByte, NextByte
      <4> HIDE DEF b, piece
      <4>3. buffer' \in Seq(Bytes) /\ touched' \in Nat BY <1>8, <1>9, <4>2
      <4>4. out \o Append(buffer, b) = (out \o buffer) \o <<b>> BY <1>8, <1>9
      <4> QED BY <1>9, <4>1, <4>2, <4>3, <4>4
    <3> QED BY <3>1, <3>2
  <2>3. WriterTypes'
      BY <1>1, <1>9, <1>10, <1>11, <2>2 DEF WriterTypes
  <2>4. Reaches(out' \o buffer', Snap(frames', writing', next', state', 0))
    <3> HIDE DEF s, piece
    <3> QED BY <1>1, <2>1, <2>2
  <2> HIDE DEF s, piece, b, q
  <2> QED BY <1>1, <1>2, <1>12, <2>2, <2>3, <2>4, WriterMoved
<1> QED BY <1>13, <1>14

LEMMA IncompleteWrites ==
    ASSUME body' = body, IsBody, WriterTypes, Writes, IncompleteString
    PROVE  WriterAt'
<1>1. /\ InString(writing) /\ next > Len(arg) /\ writing # "threw" /\ state # 0
      /\ writing' = "threw"
      /\ out' = out /\ buffer' = buffer /\ next' = next
      /\ state' = state /\ codepoint' = codepoint /\ touched' = touched
    BY DEF IncompleteString, Escaping, InString, escaper
<1>2. Reaches(out \o buffer, Cur) /\ arg = ArgOf(frames, writing)
    BY <1>1 DEF Writes, InString
<1>3. Good(Cur) /\ Clean(Cur) BY <1>2, ReachesGood
<1>4. Cur.frames = frames /\ Cur.at = writing /\ Cur.next = next /\ Cur.state = state /\ Cur.part = 0
    BY SnapFields DEF Cur
<1>5. arg \in Seq(Bytes) BY <1>1, <1>2, <1>3, <1>4, ArgFacts
<1>6. next \in 1..(Len(arg) + 1) BY <1>1, <1>2, <1>3, <1>4 DEF Good, StringOK
<1>7. next - 1 = Len(arg)
  <2>1. Len(arg) \in Nat BY <1>5
  <2> QED BY <1>1, <1>6, <2>1
<1>8. Decoded(arg, next - 1, state) BY <1>1, <1>2, <1>3, <1>4 DEF Clean
<1>9. ~IsUtf8(arg) BY <1>1, <1>5, <1>7, <1>8, Unfinished
<1>10. arg \in TextsOf(body) BY <1>1, <1>2, <1>3, <1>4, ArgIsText
<1>11. \E t \in TextsOf(body) : ~IsUtf8(t) BY <1>9, <1>10
<1>12. TextsOf(body)' = TextsOf(body)
  <2>1. PICK v : v = body OBVIOUS
  <2> QED BY <2>1
<1>13. IsBody' BY DEF IsBody
<1>14. Writes' BY <1>1, <1>11, <1>12 DEF Writes
<1>15. WriterTypes' BY <1>1 DEF WriterTypes
<1> QED BY <1>13, <1>14, <1>15 DEF WriterAt

LEMMA EndEscapeWrites ==
    ASSUME body' = body, IsBody, WriterTypes, Writes, EndEscape
    PROVE  WriterAt'
<1> DEFINE s == out \o buffer
<1>1. /\ InString(writing) /\ next > Len(arg) /\ writing # "threw" /\ state = 0
      /\ buffer' = <<>> /\ frames' = frames /\ next' = next
      /\ state' = state /\ codepoint' = codepoint /\ touched' = touched
      /\ \/ /\ writing = "key"
            /\ out' = out \o buffer \o <<34, 58>>
            /\ writing' = "value" /\ arg' = MemberAt(Deepest(frames))[2]
         \/ /\ writing = "text"
            /\ out' = out \o buffer \o <<34>>
            /\ writing' = Returned(frames)
    BY DEF EndEscape, Escaping, InString, Inner, Deepest, MemberAt
<1>2. Reaches(s, Cur) /\ arg = ArgOf(frames, writing) /\ CodepointOK
    BY <1>1 DEF Writes, InString
<1>3. Good(Cur) BY <1>2, ReachesGood
<1>4. Cur.frames = frames /\ Cur.at = writing /\ Cur.next = next /\ Cur.state = 0 /\ Cur.part = 0
    BY <1>1, SnapFields DEF Cur
<1>5. frames # <<>> BY <1>1, <1>3, <1>4 DEF Good, PlaceOK, InString
<1>6. Ended(Cur) BY <1>1, <1>2, <1>4 DEF Ended
<1>7. CodepointOK' BY <1>1, <1>2 DEF CodepointOK
<1>8. out \in Seq(Bytes) /\ buffer \in Seq(Bytes) /\ s \in Seq(Bytes) /\ 34 \in Bytes /\ 58 \in Bytes
      /\ <<>> \in Seq(Bytes)
    BY DEF WriterTypes, Bytes
<1>9. \A x \in Seq(Bytes) : x \o <<>> = x OBVIOUS
<1>10. CASE writing = "key"
  <2> DEFINE m == Snap(frames, "colon", next, 0, 0)
             q == Snap(frames, "value", next, 0, 0)
  <2>1. EndsName(Cur, 34, m) BY <1>4, <1>6, <1>10 DEF EndsName
  <2>2. m.frames = frames /\ m.at = "colon" /\ m.next = next /\ m.state = 0 /\ m.part = 0
      BY SnapFields
  <2>3. Points(m, 58, q) BY <2>2 DEF Points
  <2> HIDE DEF m, s
  <2>4. Reaches(Append(s, 34), m)
    <3>1. Emits(Cur, 34, m) BY <2>1 DEF Emits
    <3> QED BY <1>2, <3>1, ReachesStep
  <2>5. Reaches(Append(Append(s, 34), 58), q)
    <3> HIDE DEF q
    <3>1. Emits(m, 58, q) BY <2>3 DEF Emits
    <3> QED BY <2>4, <3>1, ReachesStep
  <2>6. out' = s \o <<34, 58>> /\ writing' = "value" /\ arg' = MemberAt(Deepest(frames))[2]
      BY <1>1, <1>10 DEF s
  <2>7. out' = Append(Append(s, 34), 58) BY <1>8, <2>6
  <2>8. out' \in Seq(Bytes)
    <3>1. Append(s, 34) \in Seq(Bytes) BY <1>8
    <3> QED BY <1>8, <2>7, <3>1
  <2>9. out' \o buffer' = Append(Append(s, 34), 58) BY <1>1, <1>9, <2>7, <2>8
  <2>10. arg' = ArgOf(frames', writing') BY <1>1, <1>5, <2>6 DEF ArgOf
  <2>11. WriterTypes' BY <1>1, <1>8, <2>6, <2>8 DEF WriterTypes
  <2>12. Reaches(out' \o buffer', Snap(frames', writing', next', state', 0))
      BY <1>1, <2>5, <2>6, <2>9
  <2> QED BY <1>1, <1>7, <2>6, <2>10, <2>11, <2>12, WriterMoved
<1>11. CASE writing = "text"
  <2> DEFINE q == Snap(frames, Returned(frames), next, 0, 0)
  <2>1. EndsText(Cur, 34, q) BY <1>4, <1>6, <1>11 DEF EndsText
  <2>2. Returned(frames) = "members" BY <1>5 DEF Returned
  <2> HIDE DEF s
  <2>4. Reaches(Append(s, 34), q)
    <3> HIDE DEF q
    <3>1. Emits(Cur, 34, q) BY <2>1 DEF Emits
    <3> QED BY <1>2, <3>1, ReachesStep
  <2>6. out' = s \o <<34>> /\ writing' = "members" BY <1>1, <1>11, <2>2 DEF s
  <2>7. out' = Append(s, 34) BY <1>8, <2>6
  <2>8. out' \in Seq(Bytes) BY <1>8, <2>7
  <2>9. out' \o buffer' = Append(s, 34) BY <1>1, <1>9, <2>7, <2>8
  <2>11. WriterTypes' BY <1>1, <1>8, <2>6, <2>8 DEF WriterTypes
  <2>12. Reaches(out' \o buffer', Snap(frames', writing', next', state', 0))
      BY <1>1, <2>2, <2>4, <2>6, <2>9
  <2> QED BY <1>1, <1>7, <2>6, <2>11, <2>12, WriterMoved DEF InString
<1> QED BY <1>1, <1>10, <1>11

LEMMA DumpWrites ==
    ASSUME WriterAt, Dump
    PROVE  WriterAt'
<1>1. body # NoBody /\ body' = body /\ DumpNext BY DEF Dump, source
<1>2. IsBody /\ WriterTypes /\ Writes BY <1>1 DEF WriterAt
<1> QED BY <1>1, <1>2, WriteStringWrites, WriteObjectWrites, WriteMemberWrites, EndObjectWrites,
           EscapeByteWrites, EndEscapeWrites, IncompleteWrites DEF DumpNext

\* What does not write leaves the writer alone.
LEMMA WriterKept ==
    ASSUME WriterAt, UNCHANGED writer, body' = body
    PROVE  WriterAt'
<1>1. UNCHANGED <<frames, writing, arg, next, out, buffer, state, codepoint, touched>>
    BY DEF writer, escaper
<1>2. WriterTypes' BY <1>1 DEF WriterAt, WriterTypes
<1>3. CASE body = NoBody
  <2>1. body' = NoBody BY <1>3
  <2> QED BY <1>2, <2>1 DEF WriterAt
<1>4. CASE body # NoBody
  <2>1. IsBody /\ Writes BY <1>4 DEF WriterAt
  <2>2. CASE writing = "threw"
    <3>1. PICK v : v = body OBVIOUS
    <3>2. TextsOf(body)' = TextsOf(body) BY <3>1
    <3>3. Writes' BY <1>1, <2>1, <2>2, <3>2 DEF Writes
    <3>4. IsBody' BY <2>1 DEF IsBody
    <3> QED BY <1>2, <3>3, <3>4 DEF WriterAt
  <2>3. CASE writing # "threw"
    <3>1. Reaches(out' \o buffer', Snap(frames', writing', next', state', 0))
        BY <1>1, <2>1, <2>3 DEF Writes, Cur
    <3>2. writing' \in {"value", "key", "text"} => arg' = ArgOf(frames', writing')
        BY <1>1, <2>1, <2>3 DEF Writes
    <3>3. ~InString(writing') => buffer' = <<>> BY <1>1, <2>1, <2>3 DEF Writes
    <3>4. CodepointOK' BY <1>1, <2>1, <2>3 DEF Writes, CodepointOK
    <3> QED BY <1>1, <1>2, <2>1, <2>3, <3>1, <3>2, <3>3, <3>4, WriterMoved
  <2> QED BY <2>2, <2>3
<1> QED BY <1>3, <1>4

LEMMA WriterBegins ==
    ASSUME Init
    PROVE  WriterAt
<1>1. /\ frames = <<>> /\ writing = "value" /\ arg = body /\ next = 0 /\ out = <<>>
      /\ buffer = <<>> /\ state = 0 /\ codepoint = 0 /\ touched = 0
    BY DEF Init, DumpInit
<1>2. <<>> \in Seq(Bytes) OBVIOUS
<1>3. WriterTypes BY <1>1, <1>2 DEF WriterTypes
<1>4. ASSUME body # NoBody PROVE IsBody /\ Writes
  <2>1. body \in Bodies BY <1>4 DEF Init
  <2>2. IsBody BY <2>1, ClientBodies DEF IsBody, Inside
  <2>3. Cur = Start BY <1>1 DEF Cur, Start
  <2>4. out \o buffer = <<>> BY <1>1, <1>2
  <2>5. Reaches(out \o buffer, Cur) BY <2>2, <2>3, <2>4, ReachesStart
  <2>6. arg = ArgOf(frames, writing) BY <1>1 DEF ArgOf
  <2>7. CodepointOK BY <1>1 DEF CodepointOK
  <2> QED BY <1>1, <2>2, <2>5, <2>6, <2>7 DEF Writes
<1> QED BY <1>3, <1>4 DEF WriterAt

-----------------------------------------------------------------------------
(* The types of all variables.                                             *)

ReaderTyped ==
    /\ outcome \in {"reading", "value", "parse_error", "out_of_range"}
    /\ expect \in Places
    /\ states \in Seq(BOOLEAN)
    /\ element.node \in 0..Len(nodes)
    /\ \A i \in 1..Len(refs) : refs[i] \in 1..Len(nodes)
    /\ LexerOK(lex)

SourceTyped ==
    /\ text \in Seq(Bytes) /\ ahead \in Seq(Bytes) /\ left \in Nat
    /\ family \subseteq Seq(Bytes) \ {<<>>}

LEMMA AfterIsPlace == ASSUME NEW s PROVE After(s) \in Places
BY DEF After, Places

LEMMA AppendIn == ASSUME NEW S, NEW s \in Seq(S), NEW e \in S PROVE Append(s, e) \in Seq(S)
OBVIOUS

LEMMA LevelTyped ==
    ASSUME states \in Seq(BOOLEAN)
    PROVE  /\ Level \in Seq(BOOLEAN)
           /\ Append(states, FALSE) \in Seq(BOOLEAN)
<1>1. TRUE \in BOOLEAN /\ FALSE \in BOOLEAN OBVIOUS
<1>2. Append(states, TRUE) \in Seq(BOOLEAN) /\ Append(states, FALSE) \in Seq(BOOLEAN)
    BY <1>1, AppendIn
<1> QED BY Zenon, <1>2 DEF Level

LEMMA ParseTyped ==
    ASSUME ReaderTypes, Agree, outcome = "reading", ReaderTyped,
           NEW token, NEW text0, Parse(token, text0), LexerOK(lex)'
    PROVE  ReaderTyped'
<1>1. ReaderInv' BY ParseAgrees
<1>2. outcome' = "reading" => \A i \in 1..Len(refs') : refs'[i] \in 1..Len(nodes')
    BY <1>1 DEF ReaderInv, Agree, Rising
<1>3. Len(nodes) \in Nat /\ element.node \in 0..Len(nodes) /\ states \in Seq(BOOLEAN)
      /\ expect \in Places
    BY Lengths DEF ReaderTyped
<1>4. Level \in Seq(BOOLEAN) BY <1>3, LevelTyped
<1>5. ASSUME NEW kind \in Containers, Begin(token, kind) PROVE ReaderTyped'
  <2> DEFINE n == Empty(kind)
  <2>1. /\ ValueExpected /\ HandleValue(n) /\ element' = element
        /\ states' = Level /\ expect' = kind /\ outcome' = outcome
      BY <1>5 DEF Begin, StartContainer
  <2>2. n \in [kind : NodeKinds, value : {<<>>}, items : {<<>>}]
    <3>1. kind \in NodeKinds BY DEF NodeKinds
    <3>2. n = [kind |-> kind, value |-> <<>>, items |-> <<>>] BY DEF Empty
    <3> QED BY <3>1, <3>2
  <2> HIDE DEF n
  <2>3. Len(nodes') = Len(nodes) + 1 BY <2>1, <2>2, ValueHandled
  <2>4. element'.node \in 0..Len(nodes') BY <1>3, <2>1, <2>3
  <2>5. kind \in Places BY DEF Containers, Places
  <2> QED BY <1>2, <1>4, <2>1, <2>4, <2>5 DEF ReaderTyped
<1>6. CASE EndEmpty(token)
  <2>1. nodes' = nodes /\ element' = element /\ states' = states /\ expect' = After(states)
        /\ outcome' = outcome
      BY <1>6 DEF EndEmpty, EndContainer
  <2> QED BY <1>2, <1>3, <2>1, AfterIsPlace DEF ReaderTyped
<1>7. CASE Value(token, text0)
  <2> DEFINE value == IF token \in {"literal_true", "literal_false", "literal_null"}
                      THEN <<>> ELSE text0
             n == Leaf(token, value)
  <2>1. /\ ValueExpected /\ HandleValue(n) /\ states' = Level /\ expect' = After(Level)
        /\ refs' = refs /\ element' = element /\ token \in Scalars /\ outcome' = outcome
      BY <1>7 DEF Value
  <2> HIDE DEF value
  <2>2. n \in [kind : NodeKinds, value : {value}, items : {<<>>}]
      BY <2>1 DEF Leaf, NodeKinds
  <2> HIDE DEF n
  <2>3. Len(nodes') = Len(nodes) + 1 BY <2>1, <2>2, ValueHandled
  <2>4. element'.node \in 0..Len(nodes') BY <1>3, <2>1, <2>3
  <2> QED BY <1>2, <1>4, <2>1, <2>4, AfterIsPlace DEF ReaderTyped
<1>8. CASE NumberOverflows(token, text0)
  <2>1. UNCHANGED <<nodes, refs, element, expect>> /\ states' = Level /\ outcome' = "out_of_range"
      BY <1>8 DEF NumberOverflows, document
  <2> QED BY <1>4, <2>1 DEF ReaderTyped
<1>9. CASE Key(token, text0)
  <2>1. /\ element' = [node |-> Top, key |-> text0] /\ refs' = refs /\ states' = states
        /\ expect' \in Places /\ outcome' = outcome
      BY <1>9 DEF Key, HandleKey, Places
  <2>2. ReaderTypes' /\ Agree' BY <1>9, KeyAgrees
  <2>3. element'.node = Top' /\ Top' = Top BY <2>1 DEF Top
  <2>4. expect' \in {"first colon", "colon"} BY <1>9 DEF Key
  <2>5. Top' \in 1..Len(nodes')
    <3>1. Len(refs') > 0 
      <4>1. CASE expect' = "first colon"
        <5>1. Len(refs') = Len(states') + 1 BY <2>2, <4>1 DEF Agree, Depths, HasPending
        <5>2. Len(states') \in Nat BY <1>3, <2>1
        <5> QED BY <5>1, <5>2
      <4>2. CASE expect' = "colon"
        <5>1. Len(refs') = Len(states') /\ Len(states') > 0
          <6>1. Len(refs') = Len(states') + 0 /\ Len(states') > 0
              BY <2>2, <4>2 DEF Agree, Depths, HasPending, PlaceMatches
          <6>2. Len(states') \in Nat BY <1>3, <2>1
          <6> QED BY <6>1, <6>2
        <5> QED BY <5>1
      <4> QED BY <2>4, <4>1, <4>2
    <3>2. Len(refs') \in Nat BY <2>2 DEF ReaderTypes
    <3>3. Len(refs') \in 1..Len(refs') BY <3>1, <3>2
    <3> QED BY <2>2, <3>3 DEF Agree, Rising, Top
  <2>6. Len(nodes') \in Nat
    <3>1. \E V, I : nodes' \in Seq([kind : NodeKinds, value : V, items : I])
        BY <2>2 DEF ReaderTypes, IsDoc
    <3> QED BY <3>1
  <2>7. element'.node \in 0..Len(nodes') BY <2>3, <2>5, <2>6
  <2> QED BY <1>2, <1>3, <2>1, <2>7 DEF ReaderTyped
<1>10. CASE NameSeparator(token)
  <2>1. UNCHANGED <<nodes, refs, element, outcome>> /\ expect' = "value"
        /\ states' \in {states, Append(states, FALSE)}
      BY <1>10 DEF NameSeparator, document
  <2>2. states' \in Seq(BOOLEAN) BY <1>3, <2>1, LevelTyped
  <2> QED BY <2>1, <2>2 DEF ReaderTyped, Places
<1>11. CASE ValueSeparator(token)
  <2>1. UNCHANGED <<nodes, refs, element, outcome, states>> /\ expect' \in {"value", "key"}
      BY <1>11 DEF ValueSeparator, document
  <2> QED BY <2>1 DEF ReaderTyped, Places
<1>12. CASE End(token)
  <2>1. UNCHANGED <<nodes, element, outcome>> /\ expect' = After(Pop(states)) /\ states' = Pop(states)
      BY <1>12 DEF End, EndContainer
  <2>2. Len(states) > 0 BY <1>12 DEF End, Agree, PlaceMatches
  <2>3. states' \in Seq(BOOLEAN) BY <1>3, <2>1, <2>2 DEF Pop
  <2> QED BY <1>2, <1>3, <2>1, <2>3, AfterIsPlace DEF ReaderTyped
<1>13. CASE Finish(token) \/ Unexpected(token)
  <2>1. UNCHANGED <<nodes, refs, element, expect, states>> /\ outcome' \in {"value", "parse_error"}
      BY <1>13 DEF Finish, Unexpected, document
  <2> QED BY <2>1 DEF ReaderTyped
<1> QED BY <1>5, <1>6, <1>7, <1>8, <1>9, <1>10, <1>11, <1>12, <1>13 DEF Parse

LEMMA ReadTyped ==
    ASSUME ReaderInv, ReaderTyped, NEW c \in 0..EOF, Read(c)
    PROVE  ReaderTyped'
<1>1. LexerOK(lex)' /\ outcome = "reading" /\ ReaderTypes /\ Agree
  <2>1. LexerOK(Scan(lex, c)) BY ScanOK DEF ReaderTyped
  <2>2. PICK l : l = Scan(lex, c) OBVIOUS
  <2>3. lex' = l /\ LexerOK(l) BY <2>1, <2>2 DEF Read
  <2> QED BY <2>3 DEF Read, ReaderInv, LexerOK
<1>2. CASE UNCHANGED parser
  <2>1. UNCHANGED <<states, expect, nodes, refs, element, outcome>> BY <1>2 DEF parser, document
  <2> QED BY <1>1, <2>1 DEF ReaderTyped
<1>3. CASE Parse(lex'.token, lex'.buffer) BY <1>1, <1>3, ParseTyped
<1> QED BY <1>2, <1>3 DEF Read

TypeInv == ReaderInv /\ ReaderTyped /\ WriterAt /\ SourceTyped

LEMMA TypesBegin == Init => TypeInv
<1> SUFFICES ASSUME Init PROVE TypeInv OBVIOUS
<1>1. ReaderInv /\ WriterAt BY ReaderStarts, WriterBegins DEF Init
<1>2. /\ lex = LexerStart /\ states = <<>> /\ expect = "value" /\ nodes = <<>> /\ refs = <<>>
      /\ element = Nowhere /\ outcome = "reading"
    BY DEF Init, ReaderInit
<1>3. ReaderTyped
  <2>1. <<>> \in Seq(BOOLEAN) /\ Len(nodes) = 0 /\ Len(refs) = 0 BY <1>2
  <2> QED BY <1>2, <2>1, StartOK DEF ReaderTyped, Places, Nowhere
<1>4. SourceTyped
  <2>1. text = <<>> /\ ahead = <<>> /\ <<>> \in Seq(Bytes) BY DEF Init
  <2>2. CASE family = {} /\ left = 0 BY <2>1, <2>2 DEF SourceTyped
  <2>3. CASE \E f \in Families : family = f.fragments /\ left = f.most
      BY <2>1, <2>3, AnswerFamilies DEF SourceTyped, Bytes
  <2> QED BY <2>2, <2>3 DEF Init
<1> QED BY <1>1, <1>3, <1>4 DEF TypeInv

LEMMA TypesKept == TypeInv /\ [Next]_vars => TypeInv'
<1> SUFFICES ASSUME TypeInv, [Next]_vars PROVE TypeInv' OBVIOUS
<1>1. ReaderInv /\ ReaderTyped /\ WriterAt /\ SourceTyped BY DEF TypeInv
<1>2. ASSUME UNCHANGED reader PROVE ReaderInv' /\ ReaderTyped'
  <2>1. UNCHANGED <<lex, states, expect, nodes, refs, element, outcome>>
      BY <1>2 DEF reader, parser, document
  <2>2. PICK l : l = lex OBVIOUS
  <2>3. LexerOK(lex)' BY <1>1, <2>1, <2>2 DEF ReaderTyped
  <2> QED BY <1>1, <1>2, <2>1, <2>3, ReaderKept DEF ReaderTyped
<1>3. ASSUME NEW c \in 0..EOF, Read(c) PROVE ReaderInv' /\ ReaderTyped'
    BY <1>1, <1>3, ReadAgrees, ReadTyped
<1>4. /\ lex.current \in 0..EOF /\ 256 \in 0..EOF /\ EOF \in 0..EOF
      /\ Bytes \subseteq 0..EOF
    BY <1>1 DEF ReaderTyped, LexerOK, Lexers, EOF, Bytes
<1>5. /\ text \in Seq(Bytes) /\ ahead \in Seq(Bytes) /\ left \in Nat
      /\ family \subseteq Seq(Bytes) \ {<<>>}
    BY <1>1 DEF SourceTyped
<1>6. CASE Dump
  <2>1. UNCHANGED reader /\ UNCHANGED <<body, family, left, ahead, text>>
      BY <1>6 DEF Dump, source
  <2> QED BY <1>1, <1>2, <1>6, <2>1, DumpWrites DEF TypeInv, SourceTyped
<1>7. CASE ReadAgain
  <2>1. Read(lex.current) /\ UNCHANGED writer /\ UNCHANGED <<body, family, left, ahead, text>>
      BY <1>7 DEF ReadAgain, source
  <2> QED BY <1>1, <1>3, <1>4, <2>1, WriterKept DEF TypeInv, SourceTyped
<1>8. CASE ReadBody
  <2> DEFINE c == out[Len(text) + 1]
  <2>1. /\ Read(c) /\ text' = Append(text, c) /\ Len(text) < Len(out) /\ UNCHANGED writer
        /\ UNCHANGED <<body, family, left, ahead>>
      BY <1>8 DEF ReadBody, ReadByte, source
  <2>2. c \in Bytes
    <3>1. out \in Seq(Bytes) BY <1>1 DEF WriterAt, WriterTypes
    <3>2. Len(text) \in Nat /\ Len(out) \in Nat BY <1>5, <3>1
    <3>3. Len(text) + 1 \in 1..Len(out) BY <2>1, <3>2
    <3> QED BY <3>1, <3>3
  <2> HIDE DEF c
  <2>3. text' \in Seq(Bytes) BY <1>5, <2>1, <2>2
  <2> QED BY <1>1, <1>3, <1>4, <1>5, <2>1, <2>2, <2>3, WriterKept DEF TypeInv, SourceTyped
<1>9. ASSUME NEW f \in Seq(Bytes), f # <<>>
      PROVE  Head(f) \in Bytes /\ Tail(f) \in Seq(Bytes)
    BY <1>9
<1>10. CASE ReadFragment
  <2>1. PICK f \in family : ReadByte(Head(f)) /\ ahead' = Tail(f) BY <1>10 DEF ReadFragment
  <2>2. f \in Seq(Bytes) /\ f # <<>> BY <1>5
  <2>3. Head(f) \in Bytes /\ Tail(f) \in Seq(Bytes) BY <1>9, <2>2
  <2>4. /\ Read(Head(f)) /\ text' = Append(text, Head(f)) /\ UNCHANGED writer
      BY <2>1 DEF ReadByte
  <2>5. left > 0 /\ left' = left - 1 /\ UNCHANGED <<body, family>> BY <1>10 DEF ReadFragment
  <2>6. text' \in Seq(Bytes) /\ left' \in Nat
    <3>1. text' \in Seq(Bytes) BY <1>5, <2>3, <2>4
    <3> QED BY <1>5, <2>5, <3>1
  <2> QED BY <1>1, <1>3, <1>4, <1>5, <2>1, <2>3, <2>4, <2>5, <2>6, WriterKept
          DEF TypeInv, SourceTyped
<1>11. CASE ReadAhead
  <2>1. ahead # <<>> /\ Read(Head(ahead)) /\ text' = Append(text, Head(ahead)) /\ UNCHANGED writer
        /\ ahead' = Tail(ahead) /\ UNCHANGED <<body, family, left>>
      BY <1>11 DEF ReadAhead, ReadByte
  <2>2. Head(ahead) \in Bytes /\ Tail(ahead) \in Seq(Bytes) BY <1>5, <1>9, <2>1
  <2>3. text' \in Seq(Bytes) BY <1>5, <2>1, <2>2
  <2> QED BY <1>1, <1>3, <1>4, <1>5, <2>1, <2>2, <2>3, WriterKept DEF TypeInv, SourceTyped
<1>12. CASE ReadEnd
  <2>1. Read(EOF) /\ UNCHANGED writer /\ UNCHANGED <<body, family, left, ahead, text>>
      BY <1>12 DEF ReadEnd, source
  <2> QED BY <1>1, <1>3, <1>4, <2>1, WriterKept DEF TypeInv, SourceTyped
<1>13. CASE UNCHANGED vars
  <2>1. UNCHANGED reader /\ UNCHANGED writer /\ UNCHANGED <<body, family, left, ahead, text>>
      BY <1>13 DEF vars, source
  <2> QED BY <1>1, <1>2, <2>1, WriterKept DEF TypeInv, SourceTyped
<1> QED BY <1>6, <1>7, <1>8, <1>10, <1>11, <1>12, <1>13 DEF Next

LEMMA TypesAreEnough == TypeInv => TypeOK
<1> SUFFICES ASSUME TypeInv PROVE TypeOK OBVIOUS
<1>1. ReaderInv /\ ReaderTyped /\ WriterTypes /\ SourceTyped BY DEF TypeInv, WriterAt
<1>2. refs \in Seq(1..Len(nodes))
  <2>1. refs \in Seq(Nat) BY <1>1 DEF ReaderInv, ReaderTypes
  <2>2. \A i \in 1..Len(refs) : refs[i] \in 1..Len(nodes) BY <1>1 DEF ReaderTyped
  <2> DEFINE S == 1..Len(nodes)
  <2>3. \A i \in 1..Len(refs) : refs[i] \in S BY <2>2
  <2> HIDE DEF S
  <2>4. refs \in Seq(S) BY <2>1, <2>3
  <2> QED BY <2>4 DEF S
<1>3. lex.buffer \in Seq(Bytes) /\ lex.current \in 0..EOF /\ lex.unget \in BOOLEAN
    BY <1>1 DEF ReaderTyped, LexerOK, Lexers
<1> QED BY <1>1, <1>2, <1>3 DEF TypeOK, ReaderTyped, WriterTypes, SourceTyped, Bytes

\* Whatever is written or read: the types.
THEOREM JsonTyped == Spec => []TypeOK
<1>1. Init => TypeInv BY TypesBegin
<1>2. TypeInv /\ [Next]_vars => TypeInv' BY TypesKept
<1>3. TypeInv => TypeOK BY TypesAreEnough
<1> QED BY <1>1, <1>2, <1>3, PTL DEF Spec


-----------------------------------------------------------------------------
(* What the reader has, when it has read what was written up to a place.   *)

\* The ranges that are left of a code point, by the decoder's state in it.
RestOf(s) ==
    IF s = 2 THEN <<Tail80BF>>
    ELSE IF s = 3 THEN <<Tail80BF, Tail80BF>>
    ELSE IF s = 4 THEN << <<160, 191>>, Tail80BF >>
    ELSE IF s = 5 THEN << <<128, 159>>, Tail80BF >>
    ELSE IF s = 6 THEN << <<144, 191>>, Tail80BF, Tail80BF >>
    ELSE IF s = 7 THEN <<Tail80BF, Tail80BF, Tail80BF>>
    ELSE << <<128, 143>>, Tail80BF, Tail80BF >>

\* How much of the string was read.
Taken(p) == IF p.part = 0 THEN p.next - 1 ELSE p.next - 2

ScannerAt(l, p) ==
    LET s == ArgOf(p.frames, p.at)
        b == s[p.next - 1]
    IN  /\ ~l.unget /\ l.high = 0
        /\ ~InString(p.at) =>
              l.at = IF p.at = "value" /\ p.frames = <<>> THEN "bom" ELSE "start"
        /\ InString(p.at) =>
              /\ l.buffer = SubSeq(s, 1, Taken(p))
              /\ p.part = 0 /\ p.state = 0 => l.at = "string"
              /\ p.part = 0 /\ p.state # 0 => l.at = "utf8" /\ l.rest = RestOf(p.state)
              /\ p.part = 1 => l.at = "escape"
              /\ p.part > 1 => l.at = "hex" /\ l.rest = SubSeq(Escape(b, b), 3, p.part)

PlaceOf(f, at) ==
    LET begun == Deepest(f).begun
    IN  CASE at = "members" -> IF begun = 0 THEN "object" ELSE "member"
          [] at = "comma" -> "key"
          [] at = "key" -> IF begun = 1 THEN "object" ELSE "key"
          [] at = "colon" -> IF begun = 1 THEN "first colon" ELSE "colon"
          [] at = "dumped" -> "end"
          [] OTHER -> "value"

\* The node holds this value, and is not open.
Holds(id, v) ==
    /\ id \in 1..Len(nodes)
    /\ \A k \in 1..Len(refs) : refs[k] # id
    /\ SameString(id, v) \/ SameObject(id, v)
    /\ ~IsString(v) => \A i \in 1..Len(v.members) :
          nodes[id].items[v.members[i][1]] \in 1..Len(nodes)

\* The members that were read of an open object are in its node, with these values.
MembersAt(id, members, named, held) ==
    /\ id \in 1..Len(nodes)
    /\ nodes[id].kind = "object"
    /\ DOMAIN nodes[id].items = {members[i][1] : i \in 1..named}
    /\ \A i \in 1..held : Holds(nodes[id].items[members[i][1]], members[i][2])

DocumentAt(f, at) ==
    /\ Len(refs) = Len(f)
    /\ f = <<>> /\ at = "value" => nodes = <<>>
    /\ f = <<>> /\ at # "value" => SameBody(body)
    /\ f # <<>> => /\ refs[1] = 1
                   /\ MembersAt(Top, Deepest(f).members, LastNamed(f, at), LastHeld(f, at))
    /\ Len(f) = 2 => /\ MembersAt(1, f[1].members, f[1].begun, f[1].begun - 1)
                     /\ nodes[1].items[MemberAt(f[1])[1]] = Top
    /\ f # <<>> /\ at \in {"colon", "value", "text"} =>
          element = [node |-> Top, key |-> MemberAt(Deepest(f))[1]]

Follows(p) ==
    /\ outcome = "reading"
    /\ ScannerAt(lex, p)
    /\ expect = PlaceOf(p.frames, p.at)
    /\ DocumentAt(p.frames, p.at)

-----------------------------------------------------------------------------
(* The scanner reads what was written.                                     *)

LEMMA TokenFields ==
    ASSUME NEW l \in Lexers, NEW t
    PROVE  /\ Token(l, t).at = "start" /\ Token(l, t).token = t
           /\ Token(l, t).unget = l.unget /\ Token(l, t).high = l.high
           /\ Token(l, t).buffer = l.buffer
BY DEF Token, Lexers

LEMMA AddFields ==
    ASSUME NEW l \in Lexers, NEW s
    PROVE  /\ Add(l, s).at = l.at /\ Add(l, s).token = l.token /\ Add(l, s).rest = l.rest
           /\ Add(l, s).unget = l.unget /\ Add(l, s).high = l.high
           /\ Add(l, s).buffer = l.buffer \o s
BY DEF Add, Lexers

LEMMA GoOnFields ==
    ASSUME NEW l \in Lexers, NEW at
    PROVE  /\ GoOn(l, at).at = at /\ GoOn(l, at).token = l.token /\ GoOn(l, at).rest = l.rest
           /\ GoOn(l, at).unget = l.unget /\ GoOn(l, at).high = l.high
           /\ GoOn(l, at).buffer = l.buffer
BY DEF GoOn, Lexers

LEMMA PutFields ==
    ASSUME NEW l \in Lexers, NEW at, NEW rest
    PROVE  /\ Put(l, at, rest).at = at /\ Put(l, at, rest).token = l.token
           /\ Put(l, at, rest).rest = rest
           /\ Put(l, at, rest).unget = l.unget /\ Put(l, at, rest).high = l.high
           /\ Put(l, at, rest).buffer = l.buffer
BY DEF Put, Lexers

\* The scanner when a byte was taken.
LEMMA GotThere ==
    ASSUME NEW l, LexerOK(l), NEW c \in Bytes
    PROVE  /\ c \in 0..EOF
           /\ Got(l, c) \in Lexers /\ Got(l, c).at = l.at /\ Got(l, c).token = "none"
           /\ ~Got(l, c).unget /\ Got(l, c).high = l.high
           /\ Got(l, c).buffer = l.buffer /\ Got(l, c).rest = l.rest
           /\ l.buffer \in Seq(Bytes)
<1>1. c \in 0..EOF BY DEF Bytes, EOF
<1> QED BY <1>1, GotOK DEF LexerOK, Lexers

\* Outside of strings.
LEMMA ScanOutside ==
    ASSUME NEW l, LexerOK(l), l.at \in {"bom", "start"}, NEW c \in Bytes, c # 239
    PROVE  Scan(l, c) = ScanStart(Got(l, c), c)
<1>1. /\ Got(l, c).at = l.at /\ c \in 0..EOF BY GotThere
<1>2. CASE l.at = "bom"
  <2>1. Scan(l, c) = ScanBom(Got(l, c), c) BY <1>1, <1>2, ScanPart
  <2> QED BY <1>1, <1>2, <2>1 DEF ScanBom
<1>3. CASE l.at = "start" BY <1>1, <1>3, ScanPart
<1> QED BY <1>2, <1>3

Marks == {123, 125, 58, 44}
MarkToken(c) ==
    IF c = 123 THEN "begin_object" ELSE IF c = 125 THEN "end_object"
    ELSE IF c = 58 THEN "name_separator" ELSE "value_separator"

LEMMA MarkScanned ==
    ASSUME NEW l, LexerOK(l), l.at \in {"bom", "start"}, NEW c \in Marks
    PROVE  /\ Scan(l, c).at = "start" /\ Scan(l, c).token = MarkToken(c)
           /\ ~Scan(l, c).unget /\ Scan(l, c).high = l.high
<1> DEFINE k == Got(l, c)
<1>1. c \in Bytes /\ c # 239 BY DEF Bytes, Marks
<1>2. Scan(l, c) = ScanStart(k, c) BY <1>1, ScanOutside
<1>3. k \in Lexers /\ ~k.unget /\ k.high = l.high BY <1>1, GotThere
<1> HIDE DEF k
<1>4. c \in SingleBytes /\ c \notin Whitespace
    BY DEF Marks, SingleBytes, Whitespace, OpenBrace, CloseBrace, Colon, Comma
<1>5. c # Quote /\ ~StartsLiteral(c) /\ ~StartsNumber(c) BY <1>4, FirstByteTells
<1>6. ScanStart(k, c) = Token(k, Single(c))
    BY <1>4, <1>5 DEF ScanStart, StartsLiteral, StartsNumber
<1>7. Single(c) = MarkToken(c)
    BY DEF Marks, MarkToken, Single, OpenBracket, CloseBracket, OpenBrace, CloseBrace, Colon,
           Comma
<1> QED BY <1>2, <1>3, <1>6, <1>7, TokenFields

LEMMA QuoteOpens ==
    ASSUME NEW l, LexerOK(l), l.at \in {"bom", "start"}
    PROVE  /\ Scan(l, 34).at = "string" /\ Scan(l, 34).token = "none"
           /\ Scan(l, 34).buffer = <<>>
           /\ ~Scan(l, 34).unget /\ Scan(l, 34).high = l.high
<1> DEFINE k == Got(l, 34)
<1>1. 34 \in Bytes /\ 34 # 239 BY DEF Bytes
<1>2. Scan(l, 34) = ScanStart(k, 34) BY <1>1, ScanOutside
<1>3. k \in Lexers /\ ~k.unget /\ k.high = l.high /\ k.token = "none" BY <1>1, GotThere
<1> HIDE DEF k
<1>4. 34 \notin SingleBytes /\ 34 \notin Whitespace /\ 34 = Quote
    BY DEF SingleBytes, Whitespace, OpenBrace, CloseBrace, Colon, Comma, OpenBracket,
           CloseBracket, Quote, EOF
<1>5. ~StartsLiteral(34) /\ ~StartsNumber(34) BY <1>4, FirstByteTells
<1>6. ScanStart(k, 34) = [k EXCEPT !.at = "string", !.buffer = <<>>]
    BY <1>4, <1>5 DEF ScanStart, StartsLiteral, StartsNumber
<1> DEFINE m == [k EXCEPT !.at = "string", !.buffer = <<>>]
<1>7. /\ m.at = "string" /\ m.buffer = <<>> /\ m.token = k.token
      /\ m.unget = k.unget /\ m.high = k.high
    BY <1>3 DEF Lexers
<1>8. Scan(l, 34) = m BY <1>2, <1>6
<1> HIDE DEF m
<1> QED BY <1>3, <1>7, <1>8

-----------------------------------------------------------------------------
(* In a string.                                                            *)

\* ScanChar, one byte after the other.
LEMMA CharIs ==
    ASSUME NEW k \in Lexers, NEW c \in Bytes
    PROVE  /\ c = Quote => ScanChar(k, c) = Token(k, "value_string")
           /\ c = Backslash => ScanChar(k, c) = GoOn(k, "escape")
           /\ c \in Plain => ScanChar(k, c) = Add(k, <<c>>)
           /\ Utf8Rest(c) # <<>> =>
                 ScanChar(k, c) = Put(Add(k, <<c>>), "utf8", Utf8Rest(c))
<1>1. Utf8Rest(c) # <<>> => c \in 194..244 BY RestFacts
<1> DEFINE first == Utf8Rest(c) # <<>>
<1>2. /\ c = Quote => c # Backslash /\ c \notin Plain /\ c \notin Control /\ ~first
      /\ c = Backslash => c # Quote /\ c \notin Plain /\ c \notin Control /\ ~first
      /\ c \in Plain => c # Quote /\ c # Backslash /\ c \notin Control /\ ~first
      /\ first => c # Quote /\ c # Backslash /\ c \notin Control /\ c \notin Plain
    BY <1>1 DEF Plain, Control, Quote, Backslash, Bytes
<1>3. c = Quote => ScanChar(k, c) = Token(k, "value_string") BY <1>2 DEF ScanChar
<1>4. c = Backslash => ScanChar(k, c) = GoOn(k, "escape") BY <1>2 DEF ScanChar
<1>5. c \in Plain => ScanChar(k, c) = Add(k, <<c>>) BY <1>2 DEF ScanChar
<1>6. first => ScanChar(k, c) = Put(Add(k, <<c>>), "utf8", Utf8Rest(c))
    BY <1>2 DEF ScanChar, Put
<1> QED BY <1>3, <1>4, <1>5, <1>6

\* A byte that is in no code point and needs no escape.
LEMMA PlainScanned ==
    ASSUME NEW l, LexerOK(l), l.at = "string", NEW c \in Plain
    PROVE  /\ Scan(l, c).at = "string" /\ Scan(l, c).token = "none"
           /\ Scan(l, c).buffer = Append(l.buffer, c)
           /\ ~Scan(l, c).unget /\ Scan(l, c).high = l.high
<1> DEFINE k == Got(l, c)
<1>1. c \in Bytes BY DEF Bytes, Plain
<1>2. /\ k \in Lexers /\ k.at = "string" /\ k.token = "none" /\ ~k.unget /\ k.high = l.high
      /\ k.buffer = l.buffer /\ l.buffer \in Seq(Bytes) /\ c \in 0..EOF
    BY <1>1, GotThere
<1>3. Scan(l, c) = ScanChar(k, c) BY <1>2, ScanPart
<1> HIDE DEF k
<1>4. Scan(l, c) = Add(k, <<c>>) BY <1>1, <1>2, <1>3, CharIs
<1>5. k.buffer \o <<c>> = Append(l.buffer, c) BY <1>1, <1>2
<1>6. /\ Add(k, <<c>>).at = "string" /\ Add(k, <<c>>).token = "none"
      /\ ~Add(k, <<c>>).unget /\ Add(k, <<c>>).high = l.high
      /\ Add(k, <<c>>).buffer = k.buffer \o <<c>>
    BY <1>2, AddFields
<1> QED BY <1>4, <1>5, <1>6

LEMMA QuoteCloses ==
    ASSUME NEW l, LexerOK(l), l.at = "string"
    PROVE  /\ Scan(l, 34).at = "start" /\ Scan(l, 34).token = "value_string"
           /\ Scan(l, 34).buffer = l.buffer
           /\ ~Scan(l, 34).unget /\ Scan(l, 34).high = l.high
<1> DEFINE k == Got(l, 34)
<1>1. 34 \in Bytes BY DEF Bytes
<1>2. /\ k \in Lexers /\ k.at = "string" /\ k.token = "none" /\ ~k.unget /\ k.high = l.high
      /\ k.buffer = l.buffer /\ 34 \in 0..EOF
    BY <1>1, GotThere
<1>3. Scan(l, 34) = ScanChar(k, 34) BY <1>2, ScanPart
<1> HIDE DEF k
<1>4. Scan(l, 34) = Token(k, "value_string") BY <1>1, <1>2, <1>3, CharIs DEF Quote
<1> QED BY <1>2, <1>4, TokenFields

LEMMA BackslashScanned ==
    ASSUME NEW l, LexerOK(l), l.at = "string"
    PROVE  /\ Scan(l, 92).at = "escape" /\ Scan(l, 92).token = "none"
           /\ Scan(l, 92).buffer = l.buffer
           /\ ~Scan(l, 92).unget /\ Scan(l, 92).high = l.high
<1> DEFINE k == Got(l, 92)
<1>1. 92 \in Bytes BY DEF Bytes
<1>2. /\ k \in Lexers /\ k.at = "string" /\ k.token = "none" /\ ~k.unget /\ k.high = l.high
      /\ k.buffer = l.buffer /\ 92 \in 0..EOF
    BY <1>1, GotThere
<1>3. Scan(l, 92) = ScanChar(k, 92) BY <1>2, ScanPart
<1> HIDE DEF k
<1>4. Scan(l, 92) = GoOn(k, "escape") BY <1>1, <1>2, <1>3, CharIs DEF Backslash
<1> QED BY <1>2, <1>4, GoOnFields

\* The writer's decoder and the reader's ranges are two forms of one automaton.
LEMMA RestIs ==
    ASSUME NEW b \in Bytes, Decode(0, b) \notin {0, 1}
    PROVE  Utf8Rest(b) = RestOf(Decode(0, b)) /\ Utf8Rest(b) # <<>>
<1>1. b \in 0..255 BY DEF Bytes
<1>2. Decode(0, b) = IF b < 128 THEN 0 ELSE IF b \in 194..223 THEN 2
                     ELSE IF b = 224 THEN 4 ELSE IF b = 237 THEN 5
                     ELSE IF b \in 225..239 THEN 3 ELSE IF b = 240 THEN 6
                     ELSE IF b \in 241..243 THEN 7 ELSE IF b = 244 THEN 8 ELSE 1
    BY DecodeRanges
<1> DEFINE t == Tail80BF
           one == <<t>>
           two == <<t, t>>
           e0 == << <<160, 191>>, t >>
           ed == << <<128, 159>>, t >>
           f0 == << <<144, 191>>, t, t >>
           three == <<t, t, t>>
           f4 == << <<128, 143>>, t, t >>
<1>3. /\ one # <<>> /\ two # <<>> /\ e0 # <<>> /\ ed # <<>> /\ f0 # <<>> /\ three # <<>>
      /\ f4 # <<>>
    OBVIOUS
<1> DEFINE g1 == b \in 194..223
           g2 == b = 224
           g3 == b \in 225..236 \cup {238, 239}
           g4 == b = 237
           g5 == b = 240
           g6 == b \in 241..243
           g7 == b = 244
<1>4. Utf8Rest(b) = CASE g1 -> one [] g2 -> e0 [] g3 -> two [] g4 -> ed [] g5 -> f0
                      [] g6 -> three [] g7 -> f4 [] OTHER -> <<>>
    BY DEF Utf8Rest
<1>5. RestOf(Decode(0, b)) =
        IF Decode(0, b) = 2 THEN one ELSE IF Decode(0, b) = 3 THEN two
        ELSE IF Decode(0, b) = 4 THEN e0 ELSE IF Decode(0, b) = 5 THEN ed
        ELSE IF Decode(0, b) = 6 THEN f0 ELSE IF Decode(0, b) = 7 THEN three ELSE f4
    BY DEF RestOf
<1>6. \/ g1 /\ ~g2 /\ ~g3 /\ ~g4 /\ ~g5 /\ ~g6 /\ ~g7 /\ Decode(0, b) = 2
      \/ ~g1 /\ g2 /\ ~g3 /\ ~g4 /\ ~g5 /\ ~g6 /\ ~g7 /\ Decode(0, b) = 4
      \/ ~g1 /\ ~g2 /\ g3 /\ ~g4 /\ ~g5 /\ ~g6 /\ ~g7 /\ Decode(0, b) = 3
      \/ ~g1 /\ ~g2 /\ ~g3 /\ g4 /\ ~g5 /\ ~g6 /\ ~g7 /\ Decode(0, b) = 5
      \/ ~g1 /\ ~g2 /\ ~g3 /\ ~g4 /\ g5 /\ ~g6 /\ ~g7 /\ Decode(0, b) = 6
      \/ ~g1 /\ ~g2 /\ ~g3 /\ ~g4 /\ ~g5 /\ g6 /\ ~g7 /\ Decode(0, b) = 7
      \/ ~g1 /\ ~g2 /\ ~g3 /\ ~g4 /\ ~g5 /\ ~g6 /\ g7 /\ Decode(0, b) = 8
    BY <1>1, <1>2
<1> HIDE DEF g1, g2, g3, g4, g5, g6, g7, one, two, e0, ed, f0, three, f4
<1> QED BY <1>3, <1>4, <1>5, <1>6

LEMMA HeadsAndTails ==
    ASSUME NEW a, NEW b, NEW c
    PROVE  /\ Head(<<a>>) = a /\ Tail(<<a>>) = <<>>
           /\ Head(<<a, b>>) = a /\ Tail(<<a, b>>) = <<b>>
           /\ Head(<<a, b, c>>) = a /\ Tail(<<a, b, c>>) = <<b, c>>
<1> DEFINE S == {a, b, c}
<1>1. a \in S /\ b \in S /\ c \in S OBVIOUS
<1> HIDE DEF S
<1>2. Head(<<a>>) = a /\ Tail(<<a>>) = <<>>
  <2>1. <<a>> \in Seq(S) BY <1>1
  <2> QED BY <2>1
<1>3. Head(<<a, b>>) = a /\ Tail(<<a, b>>) = <<b>>
  <2>1. <<a, b>> \in Seq(S) /\ <<b>> \in Seq(S) BY <1>1
  <2> QED BY <2>1
<1>4. Head(<<a, b, c>>) = a /\ Tail(<<a, b, c>>) = <<b, c>>
  <2>1. <<a, b, c>> \in Seq(S) /\ <<b, c>> \in Seq(S) BY <1>1
  <2> QED BY <2>1
<1> QED BY <1>2, <1>3, <1>4

LEMMA RestMoves ==
    ASSUME NEW s \in 2..8, NEW b \in Bytes, Decode(s, b) # 1
    PROVE  /\ b \in Head(RestOf(s))[1]..Head(RestOf(s))[2]
           /\ Decode(s, b) = 0 => Tail(RestOf(s)) = <<>>
           /\ Decode(s, b) # 0 => /\ Decode(s, b) \in 2..8
                                  /\ Tail(RestOf(s)) = RestOf(Decode(s, b))
                                  /\ RestOf(Decode(s, b)) # <<>>
<1>1. b \in 0..255 BY DEF Bytes
<1>2. /\ Decode(2, b) = IF b \in 128..191 THEN 0 ELSE 1
      /\ Decode(3, b) = IF b \in 128..191 THEN 2 ELSE 1
      /\ Decode(4, b) = IF b \in 160..191 THEN 2 ELSE 1
      /\ Decode(5, b) = IF b \in 128..159 THEN 2 ELSE 1
      /\ Decode(6, b) = IF b \in 144..191 THEN 3 ELSE 1
      /\ Decode(7, b) = IF b \in 128..191 THEN 3 ELSE 1
      /\ Decode(8, b) = IF b \in 128..143 THEN 3 ELSE 1
    BY DecodeRanges
<1> DEFINE t == Tail80BF
<1>3. t[1] = 128 /\ t[2] = 191 BY DEF Tail80BF
<1> HIDE DEF t
<1>4. RestOf(2) = <<t>> /\ RestOf(3) = <<t, t>> BY DEF RestOf, t
<1>5. <<t>> # <<>> /\ <<t, t>> # <<>> OBVIOUS
<1>6. CASE s = 2
  <2>1. RestOf(s) = <<t>> BY <1>6 DEF RestOf, t
  <2>2. Head(RestOf(s)) = t /\ Tail(RestOf(s)) = <<>> BY <2>1, HeadsAndTails
  <2>3. Head(RestOf(s))[1] = 128 /\ Head(RestOf(s))[2] = 191 BY <1>3, <2>2
  <2>4. Decode(s, b) = 0 /\ b \in 128..191 BY <1>1, <1>2, <1>6
  <2> QED BY <2>2, <2>3, <2>4
<1>7. CASE s = 3
  <2>1. RestOf(s) = <<t, t>> BY <1>7 DEF RestOf, t
  <2>2. Head(RestOf(s)) = t /\ Tail(RestOf(s)) = <<t>> BY <2>1, HeadsAndTails
  <2>3. Head(RestOf(s))[1] = 128 /\ Head(RestOf(s))[2] = 191 BY <1>3, <2>2
  <2>4. Decode(s, b) = 2 /\ b \in 128..191 BY <1>1, <1>2, <1>7
  <2>5. RestOf(Decode(s, b)) = <<t>> /\ <<t>> # <<>> BY <1>4, <1>5, <2>4
  <2>6. Tail(RestOf(s)) = RestOf(Decode(s, b)) /\ RestOf(Decode(s, b)) # <<>> BY Zenon, <2>2, <2>5
  <2>7. Decode(s, b) \in 2..8 /\ Decode(s, b) # 0 BY <2>4
  <2>8. b \in Head(RestOf(s))[1]..Head(RestOf(s))[2] BY <2>3, <2>4
  <2> QED BY <2>6, <2>7, <2>8
<1>8. CASE s = 4
  <2>1. RestOf(s) = << <<160, 191>>, t >> BY <1>8 DEF RestOf, t
  <2>2. Head(RestOf(s)) = <<160, 191>> /\ Tail(RestOf(s)) = <<t>> BY <2>1, HeadsAndTails
  <2>3. Head(RestOf(s))[1] = 160 /\ Head(RestOf(s))[2] = 191 BY <1>3, <2>2
  <2>4. Decode(s, b) = 2 /\ b \in 160..191 BY <1>1, <1>2, <1>8
  <2>5. RestOf(Decode(s, b)) = <<t>> /\ <<t>> # <<>> BY <1>4, <1>5, <2>4
  <2>6. Tail(RestOf(s)) = RestOf(Decode(s, b)) /\ RestOf(Decode(s, b)) # <<>> BY Zenon, <2>2, <2>5
  <2>7. Decode(s, b) \in 2..8 /\ Decode(s, b) # 0 BY <2>4
  <2>8. b \in Head(RestOf(s))[1]..Head(RestOf(s))[2] BY <2>3, <2>4
  <2> QED BY <2>6, <2>7, <2>8
<1>9. CASE s = 5
  <2>1. RestOf(s) = << <<128, 159>>, t >> BY <1>9 DEF RestOf, t
  <2>2. Head(RestOf(s)) = <<128, 159>> /\ Tail(RestOf(s)) = <<t>> BY <2>1, HeadsAndTails
  <2>3. Head(RestOf(s))[1] = 128 /\ Head(RestOf(s))[2] = 159 BY <1>3, <2>2
  <2>4. Decode(s, b) = 2 /\ b \in 128..159 BY <1>1, <1>2, <1>9
  <2>5. RestOf(Decode(s, b)) = <<t>> /\ <<t>> # <<>> BY <1>4, <1>5, <2>4
  <2>6. Tail(RestOf(s)) = RestOf(Decode(s, b)) /\ RestOf(Decode(s, b)) # <<>> BY Zenon, <2>2, <2>5
  <2>7. Decode(s, b) \in 2..8 /\ Decode(s, b) # 0 BY <2>4
  <2>8. b \in Head(RestOf(s))[1]..Head(RestOf(s))[2] BY <2>3, <2>4
  <2> QED BY <2>6, <2>7, <2>8
<1>10. CASE s = 6
  <2>1. RestOf(s) = << <<144, 191>>, t, t >> BY <1>10 DEF RestOf, t
  <2>2. Head(RestOf(s)) = <<144, 191>> /\ Tail(RestOf(s)) = <<t, t>> BY <2>1, HeadsAndTails
  <2>3. Head(RestOf(s))[1] = 144 /\ Head(RestOf(s))[2] = 191 BY <1>3, <2>2
  <2>4. Decode(s, b) = 3 /\ b \in 144..191 BY <1>1, <1>2, <1>10
  <2>5. RestOf(Decode(s, b)) = <<t, t>> /\ <<t, t>> # <<>> BY <1>4, <1>5, <2>4
  <2>6. Tail(RestOf(s)) = RestOf(Decode(s, b)) /\ RestOf(Decode(s, b)) # <<>> BY Zenon, <2>2, <2>5
  <2>7. Decode(s, b) \in 2..8 /\ Decode(s, b) # 0 BY <2>4
  <2>8. b \in Head(RestOf(s))[1]..Head(RestOf(s))[2] BY <2>3, <2>4
  <2> QED BY <2>6, <2>7, <2>8
<1>11. CASE s = 7
  <2>1. RestOf(s) = <<t, t, t>> BY <1>11 DEF RestOf, t
  <2>2. Head(RestOf(s)) = t /\ Tail(RestOf(s)) = <<t, t>> BY <2>1, HeadsAndTails
  <2>3. Head(RestOf(s))[1] = 128 /\ Head(RestOf(s))[2] = 191 BY <1>3, <2>2
  <2>4. Decode(s, b) = 3 /\ b \in 128..191 BY <1>1, <1>2, <1>11
  <2>5. RestOf(Decode(s, b)) = <<t, t>> /\ <<t, t>> # <<>> BY <1>4, <1>5, <2>4
  <2>6. Tail(RestOf(s)) = RestOf(Decode(s, b)) /\ RestOf(Decode(s, b)) # <<>> BY Zenon, <2>2, <2>5
  <2>7. Decode(s, b) \in 2..8 /\ Decode(s, b) # 0 BY <2>4
  <2>8. b \in Head(RestOf(s))[1]..Head(RestOf(s))[2] BY <2>3, <2>4
  <2> QED BY <2>6, <2>7, <2>8
<1>12. CASE s = 8
  <2>1. RestOf(s) = << <<128, 143>>, t, t >> BY <1>12 DEF RestOf, t
  <2>2. Head(RestOf(s)) = <<128, 143>> /\ Tail(RestOf(s)) = <<t, t>> BY <2>1, HeadsAndTails
  <2>3. Head(RestOf(s))[1] = 128 /\ Head(RestOf(s))[2] = 143 BY <1>3, <2>2
  <2>4. Decode(s, b) = 3 /\ b \in 128..143 BY <1>1, <1>2, <1>12
  <2>5. RestOf(Decode(s, b)) = <<t, t>> /\ <<t, t>> # <<>> BY <1>4, <1>5, <2>4
  <2>6. Tail(RestOf(s)) = RestOf(Decode(s, b)) /\ RestOf(Decode(s, b)) # <<>> BY Zenon, <2>2, <2>5
  <2>7. Decode(s, b) \in 2..8 /\ Decode(s, b) # 0 BY <2>4
  <2>8. b \in Head(RestOf(s))[1]..Head(RestOf(s))[2] BY <2>3, <2>4
  <2> QED BY <2>6, <2>7, <2>8
<1> QED BY <1>6, <1>7, <1>8, <1>9, <1>10, <1>11, <1>12

LEMMA FirstScanned ==
    ASSUME NEW l, LexerOK(l), l.at = "string", NEW b \in Bytes, Decode(0, b) \notin {0, 1}
    PROVE  /\ Scan(l, b).at = "utf8" /\ Scan(l, b).token = "none"
           /\ Scan(l, b).rest = RestOf(Decode(0, b))
           /\ Scan(l, b).buffer = Append(l.buffer, b)
           /\ ~Scan(l, b).unget /\ Scan(l, b).high = l.high
<1> DEFINE k == Got(l, b)
           a == Add(k, <<b>>)
           r == Utf8Rest(b)
<1>1. /\ k \in Lexers /\ k.at = "string" /\ k.token = "none" /\ ~k.unget /\ k.high = l.high
      /\ k.buffer = l.buffer /\ l.buffer \in Seq(Bytes) /\ b \in 0..EOF
    BY GotThere
<1>2. Scan(l, b) = ScanChar(k, b) BY <1>1, ScanPart
<1> HIDE DEF k
<1>3. r # <<>> /\ r = RestOf(Decode(0, b)) BY RestIs
<1>4. Scan(l, b) = Put(a, "utf8", r) BY <1>1, <1>2, <1>3, CharIs
<1>5. k.buffer \o <<b>> = Append(l.buffer, b) BY <1>1
<1>6. /\ a.token = "none" /\ ~a.unget /\ a.high = l.high
      /\ a.buffer = k.buffer \o <<b>>
    BY <1>1, AddFields
<1>7. a \in Lexers
  <2>1. <<b>> \in Seq(Bytes) OBVIOUS
  <2> QED BY <1>1, <2>1, AddOK
<1> HIDE DEF a, r
<1> DEFINE m == Put(a, "utf8", r)
<1>8. /\ m.at = "utf8" /\ m.token = a.token /\ m.rest = r
      /\ m.unget = a.unget /\ m.high = a.high /\ m.buffer = a.buffer
    BY <1>7, PutFields
<1>9. Scan(l, b) = m BY <1>4
<1> HIDE DEF m
<1> QED BY <1>3, <1>5, <1>6, <1>8, <1>9

LEMMA NextScanned ==
    ASSUME NEW l, LexerOK(l), l.at = "utf8", NEW s \in 2..8, l.rest = RestOf(s),
           NEW b \in Bytes, Decode(s, b) # 1
    PROVE  /\ Scan(l, b).at = IF Decode(s, b) = 0 THEN "string" ELSE "utf8"
           /\ Scan(l, b).token = "none"
           /\ Decode(s, b) # 0 => Scan(l, b).rest = RestOf(Decode(s, b))
           /\ Scan(l, b).buffer = Append(l.buffer, b)
           /\ ~Scan(l, b).unget /\ Scan(l, b).high = l.high
<1> DEFINE k == Got(l, b)
           a == Add(k, <<b>>)
           r == Tail(RestOf(s))
           at == IF r = <<>> THEN "string" ELSE "utf8"
<1>1. /\ k \in Lexers /\ k.at = "utf8" /\ k.token = "none" /\ ~k.unget /\ k.high = l.high
      /\ k.buffer = l.buffer /\ l.buffer \in Seq(Bytes) /\ b \in 0..EOF /\ k.rest = RestOf(s)
    BY GotThere
<1>2. Scan(l, b) = ScanUtf8(k, b) BY <1>1, ScanPart
<1> HIDE DEF k
<1>3. /\ b \in Head(RestOf(s))[1]..Head(RestOf(s))[2]
      /\ Decode(s, b) = 0 => r = <<>>
      /\ Decode(s, b) # 0 => r = RestOf(Decode(s, b)) /\ r # <<>>
    BY RestMoves
<1>4. Scan(l, b) = Put(a, at, r) BY <1>1, <1>2, <1>3 DEF ScanUtf8, Put
<1>5. k.buffer \o <<b>> = Append(l.buffer, b) BY <1>1
<1>6. /\ a.token = "none" /\ ~a.unget /\ a.high = l.high
      /\ a.buffer = k.buffer \o <<b>>
    BY <1>1, AddFields
<1>7. a \in Lexers
  <2>1. <<b>> \in Seq(Bytes) OBVIOUS
  <2> QED BY <1>1, <2>1, AddOK
<1>8. at = IF Decode(s, b) = 0 THEN "string" ELSE "utf8" BY <1>3
<1> HIDE DEF a, r, at
<1>9. /\ Scan(l, b).at = at /\ Scan(l, b).token = "none" /\ Scan(l, b).rest = r
      /\ Scan(l, b).buffer = Append(l.buffer, b)
      /\ ~Scan(l, b).unget /\ Scan(l, b).high = l.high
  <2> DEFINE m == Put(a, at, r)
  <2>1. /\ m.at = at /\ m.token = a.token /\ m.rest = r
        /\ m.unget = a.unget /\ m.high = a.high /\ m.buffer = a.buffer
      BY <1>7, PutFields
  <2>2. Scan(l, b) = m BY <1>4
  <2> HIDE DEF m
  <2> QED BY <1>5, <1>6, <2>1, <2>2
<1> QED BY <1>3, <1>8, <1>9

\* What a byte is escaped as is what the scanner takes for that byte.
LEMMA EscapeForms ==
    ASSUME NEW b \in Bytes, b < 128
    PROVE  \/ b \in Plain /\ Escape(b, b) = <<b>>
           \/ \E e \in Bytes : Escape(b, b) = <<92, e>> /\ <<e, b>> \in Unescaped
           \/ /\ b <= 31
              /\ Escape(b, b) = <<92, 117, 48, 48, Nibble(b \div 16), Nibble(b % 16)>>
<1>1. b \in 0..255 BY DEF Bytes
<1>2. CASE \E x \in ShortEscapes : x[1] = b
  <2> DEFINE x == CHOOSE x \in ShortEscapes : x[1] = b
  <2>1. x \in ShortEscapes /\ x[1] = b BY <1>2
  <2>2. Escape(b, b) = <<92, x[2]>> BY <1>2 DEF Escape
  <2> HIDE DEF x
  <2>3. x[2] \in Bytes BY <2>1 DEF ShortEscapes, Bytes
  <2>4. <<x[2], b>> \in Unescaped BY <2>1 DEF ShortEscapes, Unescaped, Quote, Backslash
  <2> QED BY <2>2, <2>3, <2>4
<1>3. CASE ~(\E x \in ShortEscapes : x[1] = b) /\ b <= 31 BY <1>3 DEF Escape
<1>4. CASE ~(\E x \in ShortEscapes : x[1] = b) /\ ~(b <= 31)
  <2>1. Escape(b, b) = <<b>> BY <1>4 DEF Escape
  <2>2. b # 34 /\ b # 92 BY <1>4 DEF ShortEscapes
  <2>3. b \in Plain BY <1>1, <1>4, <2>2 DEF Plain, Quote, Backslash
  <2> QED BY <2>1, <2>3
<1> QED BY <1>2, <1>3, <1>4

LEMMA ShortScanned ==
    ASSUME NEW l, LexerOK(l), l.at = "escape", NEW e \in Bytes, NEW b \in Bytes,
           <<e, b>> \in Unescaped
    PROVE  /\ Scan(l, e).at = "string" /\ Scan(l, e).token = "none"
           /\ Scan(l, e).buffer = Append(l.buffer, b)
           /\ ~Scan(l, e).unget /\ Scan(l, e).high = l.high
<1> DEFINE k == Got(l, e)
           a == Add(k, <<b>>)
<1>1. /\ k \in Lexers /\ k.at = "escape" /\ k.token = "none" /\ ~k.unget /\ k.high = l.high
      /\ k.buffer = l.buffer /\ l.buffer \in Seq(Bytes) /\ e \in 0..EOF
    BY GotThere
<1>2. Scan(l, e) = ScanEscape(k, e) BY <1>1, ScanPart
<1> HIDE DEF k
<1> DEFINE u == CHOOSE u \in Unescaped : u[1] = e
<1>3. e # 117 /\ \E x \in Unescaped : x[1] = e
  <2>1. \A x \in Unescaped : x[1] # 117 BY DEF Unescaped, Quote, Backslash
  <2> QED BY <2>1
<1>4. u \in Unescaped /\ u[1] = e BY <1>3
<1>5. Scan(l, e) = GoOn(Add(k, <<u[2]>>), "string") BY <1>2, <1>3 DEF ScanEscape
<1> HIDE DEF u
<1>6. \A x, y \in Unescaped : x[1] = y[1] => x[2] = y[2] BY DEF Unescaped, Quote, Backslash
<1>7. u[2] = b BY <1>4, <1>6
<1>8. Scan(l, e) = GoOn(a, "string") BY <1>5, <1>7
<1>9. k.buffer \o <<b>> = Append(l.buffer, b) BY <1>1
<1>10. /\ a.token = "none" /\ ~a.unget /\ a.high = l.high
       /\ a.buffer = k.buffer \o <<b>>
    BY <1>1, AddFields
<1>11. a \in Lexers
  <2>1. <<b>> \in Seq(Bytes) OBVIOUS
  <2> QED BY <1>1, <2>1, AddOK
<1> HIDE DEF a
<1> DEFINE m == GoOn(a, "string")
<1>12. /\ m.at = "string" /\ m.token = a.token
       /\ m.unget = a.unget /\ m.high = a.high /\ m.buffer = a.buffer
    BY <1>11, GoOnFields
<1>13. Scan(l, e) = m BY <1>8
<1> HIDE DEF m
<1> QED BY <1>9, <1>10, <1>12, <1>13

LEMMA UScanned ==
    ASSUME NEW l, LexerOK(l), l.at = "escape"
    PROVE  /\ Scan(l, 117).at = "hex" /\ Scan(l, 117).token = "none"
           /\ Scan(l, 117).rest = <<>>
           /\ Scan(l, 117).buffer = l.buffer
           /\ ~Scan(l, 117).unget /\ Scan(l, 117).high = l.high
<1> DEFINE k == Got(l, 117)
<1>1. 117 \in Bytes BY DEF Bytes
<1>2. /\ k \in Lexers /\ k.at = "escape" /\ k.token = "none" /\ ~k.unget /\ k.high = l.high
      /\ k.buffer = l.buffer /\ 117 \in 0..EOF
    BY <1>1, GotThere
<1>3. Scan(l, 117) = ScanEscape(k, 117) BY <1>2, ScanPart
<1> HIDE DEF k
<1>4. \A x \in Unescaped : x[1] # 117 BY DEF Unescaped, Quote, Backslash
<1>5. ScanEscape(k, 117) = [k EXCEPT !.at = "hex", !.rest = <<>>] BY <1>4 DEF ScanEscape
<1>6. Scan(l, 117) = Put(k, "hex", <<>>) BY <1>3, <1>5 DEF Put
<1> QED BY <1>2, <1>6, PutFields

LEMMA HexScanned ==
    ASSUME NEW l, LexerOK(l), l.at = "hex", NEW c \in HexDigits, Len(l.rest) < 3
    PROVE  /\ Scan(l, c).at = "hex" /\ Scan(l, c).token = "none"
           /\ Scan(l, c).rest = Append(l.rest, c)
           /\ Scan(l, c).buffer = l.buffer
           /\ ~Scan(l, c).unget /\ Scan(l, c).high = l.high
<1> DEFINE k == Got(l, c)
           digits == Append(l.rest, c)
<1>1. c \in Bytes BY DEF Bytes, HexDigits
<1>2. /\ k \in Lexers /\ k.at = "hex" /\ k.token = "none" /\ ~k.unget /\ k.high = l.high
      /\ k.buffer = l.buffer /\ c \in 0..EOF /\ k.rest = l.rest
    BY <1>1, GotThere
<1>3. Scan(l, c) = ScanHex(k, c) BY <1>2, ScanPart
<1> HIDE DEF k
<1>4. l.rest \in Seq(HexDigits) BY DEF LexerOK
<1>5. Len(digits) < 4 BY <1>4
<1>6. ScanHex(k, c) = [k EXCEPT !.rest = digits] BY <1>2, <1>5 DEF ScanHex
<1> HIDE DEF digits
<1>7. [k EXCEPT !.rest = digits].at = "hex" /\ [k EXCEPT !.rest = digits].token = "none"
      /\ [k EXCEPT !.rest = digits].rest = digits
      /\ [k EXCEPT !.rest = digits].buffer = l.buffer
      /\ ~[k EXCEPT !.rest = digits].unget /\ [k EXCEPT !.rest = digits].high = l.high
    BY <1>2 DEF Lexers
<1> QED BY <1>3, <1>6, <1>7 DEF digits

LEMMA NibbleFacts ==
    ASSUME NEW n \in 0..15
    PROVE  Nibble(n) \in HexDigits /\ HexValue(Nibble(n)) = n /\ Nibble(n) \in Bytes
BY DEF Nibble, HexDigits, HexValue, Bytes

LEMMA LastHexScanned ==
    ASSUME NEW l, LexerOK(l), l.at = "hex", l.high = 0, NEW b \in Bytes, b <= 31,
           NEW m, NEW n, m = Nibble(b \div 16), n = Nibble(b % 16), l.rest = <<48, 48, m>>
    PROVE  /\ Scan(l, n).at = "string" /\ Scan(l, n).token = "none"
           /\ Scan(l, n).buffer = Append(l.buffer, b)
           /\ ~Scan(l, n).unget /\ Scan(l, n).high = 0
<1> DEFINE k == Got(l, n)
           digits == <<48, 48, m, n>>
           z == [k EXCEPT !.rest = <<>>]
<1>1. b \in 0..255 BY DEF Bytes
<1>2. b \div 16 \in 0..15 /\ b % 16 \in 0..15 /\ 16 * (b \div 16) + (b % 16) = b BY <1>1
<1>3. /\ m \in HexDigits /\ HexValue(m) = b \div 16 /\ n \in HexDigits /\ HexValue(n) = b % 16
      /\ n \in Bytes
    BY <1>2, NibbleFacts
<1>4. /\ k \in Lexers /\ k.at = "hex" /\ k.token = "none" /\ ~k.unget /\ k.high = 0
      /\ k.buffer = l.buffer /\ l.buffer \in Seq(Bytes) /\ n \in 0..EOF /\ k.rest = l.rest
    BY <1>3, GotThere
<1>5. Scan(l, n) = ScanHex(k, n) BY <1>4, ScanPart
<1> HIDE DEF k
<1>6. Append(k.rest, n) = digits /\ Len(digits) = 4
  <2> DEFINE r == <<48, 48, m>>
  <2>1. m \in Bytes /\ n \in Bytes /\ 48 \in Bytes BY <1>2, <1>3, NibbleFacts DEF Bytes
  <2>2. r \in Seq(Bytes) /\ Len(r) = 3 /\ r[1] = 48 /\ r[2] = 48 /\ r[3] = m BY <2>1
  <2>3. digits \in Seq(Bytes) /\ Len(digits) = 4 /\ digits[1] = 48 /\ digits[2] = 48
        /\ digits[3] = m /\ digits[4] = n
      BY <2>1
  <2>4. k.rest = r BY <1>4
  <2> HIDE DEF r, digits
  <2>5. Append(r, n) = digits
    <3> DEFINE g == Append(r, n)
    <3>1. g \in Seq(Bytes) BY <2>1, <2>2
    <3>2. IsSeq(r) BY <2>2 DEF IsSeq
    <3>3. Len(g) = Len(r) + 1 /\ g[Len(r) + 1] = n /\ \A i \in 1..Len(r) : g[i] = r[i]
        BY <3>2, AppendSeq
    <3>4. Len(r) + 1 = 4 BY <2>2
    <3>5. Len(g) = 4 /\ g[4] = n /\ g[1] = 48 /\ g[2] = 48 /\ g[3] = m
        BY <2>2, <3>3, <3>4
    <3> HIDE DEF g
    <3>6. \A i \in 1..4 : g[i] = digits[i] BY <2>3, <3>5
    <3>7. g = digits BY <2>3, <3>1, <3>5, <3>6, SeqEqual
    <3> QED BY <3>7 DEF g
  <2> QED BY <2>3, <2>4, <2>5
<1>7. Codepoint(digits) = b
  <2>1. HexValue(48) = 0 BY DEF HexValue
  <2>2. Codepoint(digits) = 4096 * 0 + 256 * 0 + 16 * HexValue(m) + HexValue(n)
      BY <2>1 DEF Codepoint
  <2>3. Codepoint(digits) = 16 * (b \div 16) + (b % 16) BY <1>2, <1>3, <2>2
  <2> QED BY <1>2, <2>3
<1> HIDE DEF digits
<1>8. ScanHex(k, n) = ScanCodepoint(z, b)
  <2>1. ~(Len(digits) < 4) BY <1>6
  <2>2. ScanHex(k, n) = ScanCodepoint([k EXCEPT !.rest = <<>>], Codepoint(Append(k.rest, n)))
      BY <1>3, <1>6, <2>1 DEF ScanHex
  <2> QED BY <1>6, <1>7, <2>2
<1>9. /\ z \in Lexers /\ z.token = "none" /\ ~z.unget /\ z.high = 0
      /\ z.buffer = l.buffer
  <2>1. <<>> \in Seq(Bytes) OBVIOUS
  <2> QED BY <1>4, <2>1 DEF Lexers
<1> HIDE DEF z
<1>10. ScanCodepoint(z, b) = FirstCodepoint(z, b) BY <1>9 DEF ScanCodepoint
<1> DEFINE a == Add(z, <<b>>)
<1>11. FirstCodepoint(z, b) = GoOn(a, "string")
  <2>1. Encode(b) = <<b>> BY <1>1, EncodeIs
  <2>2. b \notin HighSurrogates /\ b \notin LowSurrogates
    <3>1. b < 55296 BY SMT, <1>1
    <3> QED BY SMTT(30), <3>1 DEF HighSurrogates, LowSurrogates
  <2> QED BY <2>1, <2>2 DEF FirstCodepoint
<1>12. z.buffer \o <<b>> = Append(l.buffer, b) BY <1>4, <1>9
<1>13. /\ a.token = "none" /\ ~a.unget /\ a.high = 0
       /\ a.buffer = z.buffer \o <<b>>
    BY <1>9, AddFields
<1>14. a \in Lexers
  <2>1. <<b>> \in Seq(Bytes) OBVIOUS
  <2> QED BY <1>9, <2>1, AddOK
<1> HIDE DEF a
<1>15. Scan(l, n) = GoOn(a, "string") BY <1>5, <1>8, <1>10, <1>11
<1>16. /\ GoOn(a, "string").at = "string" /\ GoOn(a, "string").token = a.token
       /\ GoOn(a, "string").unget = a.unget /\ GoOn(a, "string").high = a.high
       /\ GoOn(a, "string").buffer = a.buffer
    BY <1>14, GoOnFields
<1> QED BY <1>12, <1>13, <1>15, <1>16

-----------------------------------------------------------------------------
(* One byte that was written, to the scanner.                              *)

LEMMA MarkRead ==
    ASSUME NEW l, LexerOK(l), NEW p, ScannerAt(l, p), ~InString(p.at), NEW c \in Marks,
           NEW q, ~InString(q.at), q.at = "value" => q.frames # <<>>
    PROVE  ScannerAt(Scan(l, c), q) /\ Scan(l, c).token = MarkToken(c)
<1>1. l.at \in {"bom", "start"} /\ l.high = 0 BY DEF ScannerAt
<1>2. /\ Scan(l, c).at = "start" /\ Scan(l, c).token = MarkToken(c)
      /\ ~Scan(l, c).unget /\ Scan(l, c).high = 0
    BY <1>1, MarkScanned
<1> QED BY <1>2 DEF ScannerAt

\* The scanner in a string, where no escape is begun.
LEMMA StandsInString ==
    ASSUME NEW k, NEW q, InString(q.at), q.part = 0, NEW s, s = ArgOf(q.frames, q.at),
           ~k.unget, k.high = 0, k.buffer = SubSeq(s, 1, q.next - 1),
           q.state = 0 => k.at = "string",
           q.state # 0 => k.at = "utf8" /\ k.rest = RestOf(q.state)
    PROVE  ScannerAt(k, q)
BY DEF ScannerAt, Taken

\* In the bytes that a byte of the string is escaped with.
LEMMA StandsInEscape ==
    ASSUME NEW k, NEW q, InString(q.at), q.part > 0, q.part \in Nat,
           NEW s, s = ArgOf(q.frames, q.at), NEW b, b = s[q.next - 1],
           ~k.unget, k.high = 0, k.buffer = SubSeq(s, 1, q.next - 2),
           q.part = 1 => k.at = "escape",
           q.part > 1 => k.at = "hex" /\ k.rest = SubSeq(Escape(b, b), 3, q.part)
    PROVE  ScannerAt(k, q)
<1>1. q.part # 0 OBVIOUS
<1>2. Taken(q) = q.next - 2 BY <1>1 DEF Taken
<1> QED BY <1>1, <1>2 DEF ScannerAt

LEMMA QuoteRead ==
    ASSUME NEW l, LexerOK(l), NEW p, ScannerAt(l, p), ~InString(p.at),
           NEW q, q.next = 1, q.state = 0, q.part = 0, ArgOf(q.frames, q.at) \in Seq(Bytes)
    PROVE  /\ InString(q.at) => ScannerAt(Scan(l, 34), q)
           /\ Scan(l, 34).token = "none"
<1>1. l.at \in {"bom", "start"} /\ l.high = 0 BY DEF ScannerAt
<1>2. /\ Scan(l, 34).at = "string" /\ Scan(l, 34).token = "none"
      /\ Scan(l, 34).buffer = <<>>
      /\ ~Scan(l, 34).unget /\ Scan(l, 34).high = 0
    BY <1>1, QuoteOpens
<1> DEFINE s == ArgOf(q.frames, q.at)
           k == Scan(l, 34)
<1>3. \A t \in Seq(Bytes) : SubSeq(t, 1, 0) = <<>> OBVIOUS
<1>4. k.buffer = SubSeq(s, 1, q.next - 1)
  <2>1. q.next - 1 = 0 OBVIOUS
  <2>2. SubSeq(s, 1, 0) = <<>> BY <1>3
  <2> HIDE DEF s
  <2> QED BY <1>2, <2>1, <2>2
<1> HIDE DEF s, k
<1>5. InString(q.at) => ScannerAt(k, q)
    BY <1>2, <1>4, StandsInString DEF k, s
<1> QED BY <1>2, <1>5 DEF k

LEMMA EndRead ==
    ASSUME NEW l, LexerOK(l), NEW p, ScannerAt(l, p), InString(p.at), StringOK(p), Ended(p),
           ArgOf(p.frames, p.at) \in Seq(Bytes),
           NEW q, ~InString(q.at), q.at # "value"
    PROVE  /\ ScannerAt(Scan(l, 34), q)
           /\ Scan(l, 34).token = "value_string"
           /\ Scan(l, 34).buffer = ArgOf(p.frames, p.at)
<1> DEFINE s == ArgOf(p.frames, p.at)
<1>1. p.part = 0 /\ p.state = 0 /\ p.next > Len(s) /\ p.next \in 1..(Len(s) + 1)
    BY DEF Ended, StringOK
<1>2. Len(s) \in Nat OBVIOUS
<1>3. Taken(p) = Len(s) BY <1>1, <1>2 DEF Taken
<1>4. l.high = 0 /\ l.at = "string" /\ l.buffer = SubSeq(s, 1, Len(s))
    BY <1>1, <1>3 DEF ScannerAt
<1>5. SubSeq(s, 1, Len(s)) = s OBVIOUS
<1>6. /\ Scan(l, 34).at = "start" /\ Scan(l, 34).token = "value_string"
      /\ Scan(l, 34).buffer = l.buffer
      /\ ~Scan(l, 34).unget /\ Scan(l, 34).high = 0
    BY <1>4, QuoteCloses
<1> QED BY <1>4, <1>5, <1>6 DEF ScannerAt

LEMMA OneMore ==
    ASSUME NEW s \in Seq(Bytes), NEW n \in 1..Len(s)
    PROVE  Append(SubSeq(s, 1, n - 1), s[n]) = SubSeq(s, 1, n)
OBVIOUS

LEMMA SubFrom ==
    ASSUME NEW e \in Seq(Bytes), NEW m \in 2..5, m <= Len(e)
    PROVE  /\ SubSeq(e, 3, m) \in Seq(Bytes) /\ Len(SubSeq(e, 3, m)) = m - 2
           /\ \A i \in 1..(m - 2) : SubSeq(e, 3, m)[i] = e[i + 2]
<1>1. Len(e) \in Nat OBVIOUS
<1> QED BY <1>1

LEMMA OneMoreFrom ==
    ASSUME NEW e \in Seq(Bytes), NEW m \in 2..4, m < Len(e)
    PROVE  Append(SubSeq(e, 3, m), e[m + 1]) = SubSeq(e, 3, m + 1)
<1> DEFINE t == SubSeq(e, 3, m)
           u == SubSeq(e, 3, m + 1)
<1>1. Len(e) \in Nat /\ e[m + 1] \in Bytes OBVIOUS
<1>2. /\ t \in Seq(Bytes) /\ Len(t) = m - 2
      /\ \A i \in 1..(m - 2) : t[i] = e[i + 2]
    BY <1>1
<1>3. /\ u \in Seq(Bytes) /\ Len(u) = m - 1
      /\ \A i \in 1..(m - 1) : u[i] = e[i + 2]
    BY <1>1
<1> HIDE DEF t, u
<1> DEFINE v == Append(t, e[m + 1])
<1>4. /\ v \in Seq(Bytes) /\ Len(v) = m - 1 /\ v[m - 1] = e[m + 1]
      /\ \A i \in 1..(m - 2) : v[i] = t[i]
  <2>1. v \in Seq(Bytes) BY <1>1, <1>2
  <2>2. IsSeq(t) BY <1>2 DEF IsSeq
  <2>3. Len(v) = Len(t) + 1 /\ v[Len(t) + 1] = e[m + 1] /\ \A i \in 1..Len(t) : v[i] = t[i]
      BY <2>2, AppendSeq
  <2>4. Len(t) + 1 = m - 1 BY <1>2
  <2> QED BY <1>2, <2>1, <2>3, <2>4
<1> HIDE DEF v
<1>5. \A i \in 1..(m - 1) : v[i] = u[i]
  <2> SUFFICES ASSUME NEW i \in 1..(m - 1) PROVE v[i] = u[i] OBVIOUS
  <2>1. CASE i = m - 1
    <3>1. i + 2 = m + 1 BY <2>1
    <3> QED BY <1>3, <1>4, <2>1, <3>1
  <2>2. CASE i # m - 1
    <3>1. i \in 1..(m - 2) BY <2>2
    <3> QED BY <1>2, <1>3, <1>4, <3>1
  <2> QED BY <2>1, <2>2
<1>6. v = u BY <1>3, <1>4, <1>5, SeqEqual
<1> QED BY <1>6 DEF v, t, u

LEMMA ByteRead ==
    ASSUME IsBody, NEW l, LexerOK(l), NEW p, Good(p), ScannerAt(l, p), NEW c, NEW q,
           Continues(p, c, q)
    PROVE  ScannerAt(Scan(l, c), q) /\ Scan(l, c).token = "none"
<1> DEFINE s == ArgOf(p.frames, p.at)
           n == p.next
           b == s[n]
           piece == Piece(p.state, b)
           d == Decode(p.state, b)
           part == IF Len(piece) = 1 THEN 0 ELSE 1
           k == Scan(l, c)
<1>1. /\ InString(p.at) /\ p.part = 0 /\ n <= Len(s) /\ d # 1 /\ c = piece[1]
      /\ q = Snap(p.frames, p.at, n + 1, d, part)
    BY DEF Continues
<1>2. /\ q.frames = p.frames /\ q.at = p.at /\ q.next = n + 1 /\ q.state = d
      /\ q.part = part
  <2> HIDE DEF part, d
  <2> QED BY <1>1, SnapFields
<1>3. s \in Seq(Bytes) BY <1>1, ArgFacts
<1>4. n \in 1..(Len(s) + 1) /\ p.state \in 0..8 \ {1} BY <1>1 DEF Good, StringOK
<1>5. n \in 1..Len(s) /\ q.next - 1 = n /\ q.next - 2 = n - 1
  <2>1. Len(s) \in Nat BY <1>3
  <2> QED BY <1>1, <1>2, <1>4, <2>1
<1>6. b \in Bytes BY <1>3, <1>5
<1>7. /\ ~l.unget /\ l.high = 0 /\ l.buffer = SubSeq(s, 1, n - 1)
      /\ p.state = 0 => l.at = "string"
      /\ p.state # 0 => l.at = "utf8" /\ l.rest = RestOf(p.state)
    BY <1>1 DEF ScannerAt, Taken
<1>8. Append(l.buffer, b) = SubSeq(s, 1, n) BY <1>3, <1>5, <1>7, OneMore
<1> HIDE DEF n, s, b, d
<1>9. s = ArgOf(q.frames, q.at) /\ InString(q.at) BY <1>1, <1>2 DEF s
<1>10. ASSUME piece = <<b>>, k.token = "none", ~k.unget, k.high = 0,
              k.buffer = Append(l.buffer, b), d = 0 => k.at = "string",
              d # 0 => k.at = "utf8" /\ k.rest = RestOf(d)
       PROVE  ScannerAt(k, q) /\ k.token = "none"
  <2>1. q.part = 0
    <3>1. Len(<<b>>) = 1 OBVIOUS
    <3> QED BY <1>2, <1>10, <3>1
  <2>2. k.buffer = SubSeq(s, 1, q.next - 1) BY <1>5, <1>8, <1>10
  <2> HIDE DEF k
  <2> QED BY <1>2, <1>9, <1>10, <2>1, <2>2, StandsInString
<1>11. CASE p.state # 0
  <2>1. piece = <<b>> BY <1>11 DEF Piece
  <2>2. c = b BY <1>1, <2>1
  <2>3. p.state \in 2..8 BY <1>4, <1>11
  <2>4. /\ Scan(l, b).at = IF d = 0 THEN "string" ELSE "utf8"
        /\ Scan(l, b).token = "none"
        /\ d # 0 => Scan(l, b).rest = RestOf(d)
        /\ Scan(l, b).buffer = Append(l.buffer, b)
        /\ ~Scan(l, b).unget /\ Scan(l, b).high = l.high
      BY <1>1, <1>6, <1>7, <1>11, <2>3, NextScanned DEF d
  <2> QED BY <1>7, <1>10, <2>1, <2>2, <2>4
<1>12. CASE p.state = 0 /\ ~(b < 128)
  <2>1. piece = <<b>> BY <1>12 DEF Piece
  <2>2. c = b BY <1>1, <2>1
  <2>3. d = Decode(0, b) BY <1>12 DEF d
  <2>4. d # 0
    <3>1. Decode(0, b) = IF b < 128 THEN 0 ELSE IF b \in 194..223 THEN 2
                     ELSE IF b = 224 THEN 4 ELSE IF b = 237 THEN 5
                     ELSE IF b \in 225..239 THEN 3 ELSE IF b = 240 THEN 6
                     ELSE IF b \in 241..243 THEN 7 ELSE IF b = 244 THEN 8 ELSE 1
        BY <1>6, DecodeRanges DEF Bytes
    <3> QED BY <1>12, <2>3, <3>1
  <2>5. /\ Scan(l, b).at = "utf8" /\ Scan(l, b).token = "none"
        /\ Scan(l, b).rest = RestOf(d)
        /\ Scan(l, b).buffer = Append(l.buffer, b)
        /\ ~Scan(l, b).unget /\ Scan(l, b).high = l.high
      BY <1>1, <1>6, <1>7, <1>12, <2>3, <2>4, FirstScanned
  <2> QED BY <1>7, <1>10, <2>1, <2>2, <2>4, <2>5
<1>13. CASE p.state = 0 /\ b < 128
  <2>1. d = 0 BY <1>6, <1>13, DecodeAscii DEF d
  <2>2. piece = Escape(b, b) BY <1>13 DEF Piece
  <2>3. \/ b \in Plain /\ piece = <<b>>
        \/ \E e \in Bytes : piece = <<92, e>> /\ <<e, b>> \in Unescaped
        \/ piece = <<92, 117, 48, 48, Nibble(b \div 16), Nibble(b % 16)>>
      BY <1>6, <1>13, <2>2, ZenonT(40), EscapeForms
  <2>4. CASE b \in Plain /\ piece = <<b>>
    <3>1. c = b BY <1>1, <2>4
    <3>2. /\ Scan(l, b).at = "string" /\ Scan(l, b).token = "none"
          /\ Scan(l, b).buffer = Append(l.buffer, b)
          /\ ~Scan(l, b).unget /\ Scan(l, b).high = l.high
        BY <1>7, <1>13, <2>4, PlainScanned
    <3> QED BY <1>7, <1>10, <2>1, <2>4, <3>1, <3>2
  <2>5. CASE piece[1] = 92 /\ Len(piece) # 1
    <3>1. c = 92 /\ q.part = 1 BY <1>1, <1>2, <2>5
    <3>2. /\ Scan(l, 92).at = "escape" /\ Scan(l, 92).token = "none"
          /\ Scan(l, 92).buffer = l.buffer
          /\ ~Scan(l, 92).unget /\ Scan(l, 92).high = l.high
        BY <1>7, <1>13, BackslashScanned
    <3>4. /\ k.at = "escape" /\ k.token = "none" /\ ~k.unget /\ k.high = 0
          /\ k.buffer = SubSeq(s, 1, q.next - 2)
        BY <1>5, <1>7, <3>1, <3>2
    <3> HIDE DEF k
    <3>5. ScannerAt(k, q) BY <1>9, <3>1, <3>4, StandsInEscape
    <3> QED BY <3>4, <3>5 DEF k
  <2>6. \A e : <<92, e>>[1] = 92 /\ Len(<<92, e>>) # 1 OBVIOUS
  <2>7. \A x, y : /\ <<92, 117, 48, 48, x, y>>[1] = 92
                  /\ Len(<<92, 117, 48, 48, x, y>>) # 1
      OBVIOUS
  <2>8. \/ b \in Plain /\ piece = <<b>>
        \/ piece[1] = 92 /\ Len(piece) # 1
    <3> HIDE DEF piece
    <3>1. CASE \E e \in Bytes : piece = <<92, e>> /\ <<e, b>> \in Unescaped BY <2>6, <3>1
    <3>2. CASE piece = <<92, 117, 48, 48, Nibble(b \div 16), Nibble(b % 16)>> BY <2>7, <3>2
    <3> QED BY <2>3, <3>1, <3>2
  <2> QED BY <2>4, <2>5, <2>8
<1> QED BY <1>11, <1>12, <1>13

LEMMA EscapeRead ==
    ASSUME IsBody, NEW l, LexerOK(l), NEW p, Good(p), ScannerAt(l, p), NEW c, NEW q,
           Completes(p, c, q)
    PROVE  ScannerAt(Scan(l, c), q) /\ Scan(l, c).token = "none"
<1> DEFINE s == ArgOf(p.frames, p.at)
           n == p.next - 1
           b == s[n]
           e == Escape(b, b)
           part == IF p.part + 1 = Len(e) THEN 0 ELSE p.part + 1
           k == Scan(l, c)
           x == Nibble(b \div 16)
           y == Nibble(b % 16)
           six == <<92, 117, 48, 48, x, y>>
<1>1. /\ InString(p.at) /\ p.part > 0 /\ c = e[p.part + 1]
      /\ q = Snap(p.frames, p.at, p.next, p.state, part)
    BY DEF Completes
<1>2. /\ q.frames = p.frames /\ q.at = p.at /\ q.next = p.next /\ q.state = p.state
      /\ q.part = part
  <2> HIDE DEF part
  <2> QED BY <1>1, SnapFields
<1>3. s \in Seq(Bytes) BY <1>1, ArgFacts
<1>4. /\ p.next \in 1..(Len(s) + 1) /\ p.next > 1 /\ p.part \in 1..5 /\ p.state = 0
      /\ b < 128 /\ p.part < Len(e)
    BY <1>1 DEF Good, StringOK
<1>5. n \in 1..Len(s) /\ p.next - 2 = n - 1
  <2>1. Len(s) \in Nat BY <1>3
  <2> QED BY <1>4, <2>1
<1>6. b \in Bytes BY <1>3, <1>5
<1>7. /\ ~l.unget /\ l.high = 0 /\ l.buffer = SubSeq(s, 1, n - 1)
      /\ p.part = 1 => l.at = "escape"
      /\ p.part > 1 => l.at = "hex" /\ l.rest = SubSeq(e, 3, p.part)
  <2>1. Taken(p) = n - 1 BY <1>4, <1>5 DEF Taken
  <2> QED BY <1>1, <2>1 DEF ScannerAt
<1>8. Append(l.buffer, b) = SubSeq(s, 1, n) BY <1>3, <1>5, <1>7, OneMore
<1>9. s = ArgOf(q.frames, q.at) /\ InString(q.at) /\ q.next - 1 = n /\ q.next - 2 = n - 1
    BY <1>1, <1>2, <1>5
<1>10. s[q.next - 1] = b BY <1>9
<1> HIDE DEF s, n, b, e
<1>11. ASSUME q.part = 0, k.token = "none", ~k.unget, k.high = 0,
              k.buffer = Append(l.buffer, b), k.at = "string"
       PROVE  ScannerAt(k, q) /\ k.token = "none"
  <2>1. k.buffer = SubSeq(s, 1, q.next - 1) BY <1>8, <1>9, <1>11
  <2> HIDE DEF k
  <2> QED BY <1>2, <1>4, <1>9, <1>11, <2>1, StandsInString
<1>12. \/ e = <<b>>
       \/ \E z \in Bytes : e = <<92, z>> /\ <<z, b>> \in Unescaped
       \/ b <= 31 /\ e = six
    BY <1>4, <1>6, ZenonT(40), EscapeForms DEF e
<1>13. CASE e = <<b>>
  <2>1. Len(e) = 1 BY <1>13
  <2> QED BY <1>4, <2>1
<1>14. CASE \E z \in Bytes : e = <<92, z>> /\ <<z, b>> \in Unescaped
  <2>1. PICK z \in Bytes : e = <<92, z>> /\ <<z, b>> \in Unescaped BY <1>14
  <2>2. Len(e) = 2 /\ e[2] = z BY <2>1
  <2>3. p.part = 1 BY <1>4, <2>2
  <2>4. c = z /\ q.part = 0 BY <1>1, <1>2, <2>2, <2>3
  <2>5. /\ Scan(l, z).at = "string" /\ Scan(l, z).token = "none"
        /\ Scan(l, z).buffer = Append(l.buffer, b)
        /\ ~Scan(l, z).unget /\ Scan(l, z).high = l.high
      BY <1>6, <1>7, <2>1, <2>3, ShortScanned
  <2> QED BY <1>7, <1>11, <2>4, <2>5
<1>15. CASE b <= 31 /\ e = six
  <2>1. /\ x \in HexDigits /\ y \in HexDigits /\ x \in Bytes /\ y \in Bytes
    <3>1. b \div 16 \in 0..15 /\ b % 16 \in 0..15 BY <1>6 DEF Bytes
    <3> QED BY <3>1, NibbleFacts
  <2>2. /\ e \in Seq(Bytes) /\ Len(e) = 6
        /\ e[2] = 117 /\ e[3] = 48 /\ e[4] = 48 /\ e[5] = x /\ e[6] = y
    <3>1. 92 \in Bytes /\ 117 \in Bytes /\ 48 \in Bytes BY DEF Bytes
    <3> HIDE DEF x, y
    <3> QED BY <1>15, <2>1, <3>1
  <2>3. CASE p.part = 1
    <3>1. c = 117 /\ q.part = 2 BY <1>1, <1>2, <2>2, <2>3
    <3>2. /\ Scan(l, 117).at = "hex" /\ Scan(l, 117).token = "none"
          /\ Scan(l, 117).rest = <<>>
          /\ Scan(l, 117).buffer = l.buffer
          /\ ~Scan(l, 117).unget /\ Scan(l, 117).high = l.high
        BY <1>7, <2>3, UScanned
    <3>3. SubSeq(e, 3, 2) = <<>> BY <2>2
    <3>5. /\ k.at = "hex" /\ k.token = "none" /\ ~k.unget /\ k.high = 0
          /\ k.rest = SubSeq(e, 3, q.part) /\ k.buffer = SubSeq(s, 1, q.next - 2)
        BY <1>7, <1>9, <3>1, <3>2, <3>3
    <3>6. k.rest = SubSeq(Escape(b, b), 3, q.part) BY <3>5 DEF e
    <3> HIDE DEF k
    <3>8. q.part > 1 /\ q.part \in Nat /\ q.part > 0 /\ q.part # 1 BY <3>1
    <3>7. ScannerAt(k, q) BY <1>9, <1>10, <3>5, <3>6, <3>8, StandsInEscape
    <3> QED BY <3>5, <3>7 DEF k
  <2>4. CASE p.part \in 2..4
    <3>1. PICK m \in 2..4 : m = p.part BY <2>4
    <3>2. q.part = m + 1 /\ c = e[m + 1] BY <1>1, <1>2, <2>2, <3>1
    <3>3. c \in HexDigits
      <4>1. 48 \in HexDigits BY DEF HexDigits
      <4>2. m + 1 \in {3, 4, 5} BY <3>1
      <4>3. \A j \in {3, 4, 5} : e[j] \in HexDigits BY <2>1, <2>2, <4>1
      <4> QED BY <3>2, <4>2, <4>3
    <3>4. Len(SubSeq(e, 3, m)) = m - 2 BY <2>2, <3>1
    <3>5. l.at = "hex" /\ l.rest = SubSeq(e, 3, m) /\ Len(l.rest) < 3 BY <1>7, <3>1, <3>4
    <3>6. /\ Scan(l, c).at = "hex" /\ Scan(l, c).token = "none"
          /\ Scan(l, c).rest = Append(l.rest, c)
          /\ Scan(l, c).buffer = l.buffer
          /\ ~Scan(l, c).unget /\ Scan(l, c).high = l.high
        BY <3>3, <3>5, HexScanned
    <3>7. Append(SubSeq(e, 3, m), e[m + 1]) = SubSeq(e, 3, m + 1)
      <4>1. m < Len(e) BY <2>2, <3>1
      <4> QED BY <2>2, <4>1, OneMoreFrom
    <3>9. /\ k.at = "hex" /\ k.token = "none" /\ ~k.unget /\ k.high = 0
          /\ k.rest = SubSeq(e, 3, q.part) /\ k.buffer = SubSeq(s, 1, q.next - 2)
        BY <1>7, <1>9, <3>2, <3>5, <3>6, <3>7
    <3>10. k.rest = SubSeq(Escape(b, b), 3, q.part) BY <3>9 DEF e
    <3>11. q.part > 1 /\ q.part \in Nat BY <3>2
    <3> HIDE DEF k
    <3>12. ScannerAt(k, q) BY <1>9, <1>10, <3>9, <3>10, <3>11, StandsInEscape
    <3> QED BY <3>9, <3>12 DEF k
  <2>5. CASE p.part = 5
    <3>1. c = y /\ q.part = 0 BY <1>1, <1>2, <2>2, <2>5
    <3>2. l.at = "hex" /\ l.rest = SubSeq(e, 3, 5) BY <1>7, <2>5
    <3>3. SubSeq(e, 3, 5) = <<48, 48, x>>
      <4> DEFINE t == <<48, 48, x>>
                 u == SubSeq(e, 3, 5)
      <4>1. 48 \in Bytes BY DEF Bytes
      <4>2. t \in Seq(Bytes) /\ Len(t) = 3 /\ t[1] = 48 /\ t[2] = 48 /\ t[3] = x
        <5> HIDE DEF x
        <5> QED BY <2>1, <4>1
      <4>3. u \in Seq(Bytes) /\ Len(u) = 3 /\ u[1] = e[3] /\ u[2] = e[4] /\ u[3] = e[5]
        <5>1. u \in Seq(Bytes) /\ Len(u) = 5 - 2 /\ \A i \in 1..(5 - 2) : u[i] = e[i + 2]
          <6>1. 5 <= Len(e) /\ 5 \in 2..5 BY <2>2
          <6>2. e \in Seq(Bytes) BY <2>2
          <6> QED BY Zenon, <6>1, <6>2, SubFrom
        <5> HIDE DEF u
        <5>2. 1 + 2 = 3 /\ 2 + 2 = 4 /\ 3 + 2 = 5 OBVIOUS
        <5> QED BY <5>1, <5>2
      <4> HIDE DEF t, u
      <4>4. \A i \in 1..3 : t[i] = u[i] BY <2>2, <4>2, <4>3
      <4>5. t = u BY <4>2, <4>3, <4>4, SeqEqual
      <4> QED BY <4>5 DEF t, u
    <3>4. /\ Scan(l, y).at = "string" /\ Scan(l, y).token = "none"
          /\ Scan(l, y).buffer = Append(l.buffer, b)
          /\ ~Scan(l, y).unget /\ Scan(l, y).high = 0
      <4>1. l.rest = <<48, 48, x>> BY Zenon, <3>2, <3>3
      <4>2. x = Nibble(b \div 16) /\ y = Nibble(b % 16) OBVIOUS
      <4>3. b <= 31 /\ l.at = "hex" /\ l.high = 0 BY <1>7, <1>15, <3>2
      <4> HIDE DEF x, y
      <4> QED BY <1>6, <4>1, <4>2, <4>3, LastHexScanned
    <3> QED BY <1>11, <3>1, <3>4
  <2> QED BY <1>4, <2>3, <2>4, <2>5
<1> QED BY <1>12, <1>13, <1>14, <1>15

-----------------------------------------------------------------------------
(* What a step leaves as it is.                                            *)

\* Nodes that are not open are left alone, and what is opened is new.
Grows ==
    /\ Len(nodes) \in Nat /\ Len(nodes') \in Nat /\ Len(nodes) <= Len(nodes')
    /\ \A j \in 1..Len(nodes) :
          nodes'[j] = nodes[j]
          \/ (nodes[j].kind # "value_string" /\ \E k \in 1..Len(refs) : refs[k] = j)
    /\ \A k \in 1..Len(refs') :
          refs'[k] > Len(nodes) \/ \E j \in 1..Len(refs) : refs[j] = refs'[k]

LEMMA StringKept ==
    ASSUME Grows, NEW id \in 1..Len(nodes), NEW v, SameString(id, v)
    PROVE  SameString(id, v)'
<1>1. id # 0 /\ nodes[id].kind = "value_string" /\ IsString(v) /\ nodes[id].value = v.value
    BY DEF SameString
<1>2. nodes'[id] = nodes[id] BY <1>1 DEF Grows
<1> QED BY <1>1, <1>2 DEF SameString

LEMMA HoldsKept ==
    ASSUME Grows, NEW id, NEW v, Holds(id, v)
    PROVE  Holds(id, v)'
<1>1. /\ id \in 1..Len(nodes)
      /\ \A k \in 1..Len(refs) : refs[k] # id
      /\ SameString(id, v) \/ SameObject(id, v)
      /\ ~IsString(v) => \A i \in 1..Len(v.members) :
            nodes[id].items[v.members[i][1]] \in 1..Len(nodes)
    BY DEF Holds
<1>2. nodes'[id] = nodes[id] BY <1>1 DEF Grows
<1>3. id \in 1..Len(nodes') /\ \A j \in 1..Len(nodes) : j \in 1..Len(nodes') BY <1>1 DEF Grows
<1>4. \A k \in 1..Len(refs') : refs'[k] # id BY <1>1 DEF Grows
<1>5. CASE SameString(id, v)
  <2>1. SameString(id, v)' BY <1>1, <1>5, StringKept
  <2>2. IsString(v) BY <1>5 DEF SameString
  <2> QED BY <1>3, <1>4, <2>1, <2>2 DEF Holds
<1>6. CASE SameObject(id, v)
  <2>1. /\ id # 0 /\ ~IsString(v) /\ NamesOf(id, v)
        /\ \A i \in 1..Len(v.members) :
              SameString(nodes[id].items[v.members[i][1]], v.members[i][2])
      BY <1>6 DEF SameObject
  <2>2. PICK items : items = nodes[id].items OBVIOUS
  <2>3. NamesOf(id, v)' BY <1>2, <2>1 DEF NamesOf
  <2>4. ASSUME NEW i \in 1..Len(v.members)
        PROVE  SameString(items[v.members[i][1]], v.members[i][2])'
    <3>1. items[v.members[i][1]] \in 1..Len(nodes) BY <1>1, <2>1, <2>2
    <3>2. SameString(items[v.members[i][1]], v.members[i][2]) BY <2>1, <2>2
    <3> QED BY <3>1, <3>2, StringKept
  <2>5. nodes'[id].items = items BY <1>2, <2>2
  <2>7. \A i \in 1..Len(v.members) :
            SameString(nodes[id].items[v.members[i][1]], v.members[i][2])'
    <3> SUFFICES ASSUME NEW i \in 1..Len(v.members)
                 PROVE  SameString(nodes[id].items[v.members[i][1]], v.members[i][2])'
        OBVIOUS
    <3>1. PICK m : m = items[v.members[i][1]] OBVIOUS
    <3>2. m = nodes'[id].items[v.members[i][1]] BY <2>5, <3>1
    <3>3. SameString(m, v.members[i][2])' BY <2>4, <3>1
    <3> QED BY <3>2, <3>3
  <2>8. SameObject(id, v)' BY <2>1, <2>3, <2>7 DEF SameObject
  <2>9. \A i \in 1..Len(v.members) : nodes'[id].items[v.members[i][1]] \in 1..Len(nodes')
      BY <1>1, <1>2, <1>3, <2>1
  <2> QED BY <1>3, <1>4, <2>8, <2>9 DEF Holds
<1> QED BY <1>1, <1>5, <1>6

LEMMA MembersKept ==
    ASSUME Grows, NEW id, NEW members, NEW named, NEW held, MembersAt(id, members, named, held),
           nodes'[id] = nodes[id]
    PROVE  MembersAt(id, members, named, held)'
<1>1. /\ id \in 1..Len(nodes)
      /\ nodes[id].kind = "object"
      /\ DOMAIN nodes[id].items = {members[i][1] : i \in 1..named}
      /\ \A i \in 1..held : Holds(nodes[id].items[members[i][1]], members[i][2])
    BY DEF MembersAt
<1>2. id \in 1..Len(nodes') BY <1>1 DEF Grows
<1>3. PICK items : items = nodes[id].items OBVIOUS
<1>4. nodes'[id].items = items /\ nodes'[id].kind = "object" BY <1>1, <1>3
<1>5. \A i \in 1..held : Holds(nodes[id].items[members[i][1]], members[i][2])'
  <2> SUFFICES ASSUME NEW i \in 1..held
               PROVE  Holds(nodes[id].items[members[i][1]], members[i][2])'
      OBVIOUS
  <2>1. PICK m : m = items[members[i][1]] OBVIOUS
  <2>2. Holds(m, members[i][2]) BY <1>1, <1>3, <2>1
  <2>3. Holds(m, members[i][2])' BY <2>2, HoldsKept
  <2>4. m = nodes'[id].items[members[i][1]] BY <1>4, <2>1
  <2> QED BY <2>3, <2>4
<1> QED BY <1>1, <1>2, <1>3, <1>4, <1>5 DEF MembersAt

-----------------------------------------------------------------------------
(* The containers that are open.                                           *)

LEMMA OpenFacts ==
    ASSUME ReaderTypes, Agree, NEW f, FramesOK(f), f # <<>>, NEW at, DocumentAt(f, at)
    PROVE  /\ Len(nodes) \in Nat /\ Len(f) \in 1..2 /\ Len(refs) = Len(f) /\ refs # <<>>
           /\ Top \in 1..Len(nodes) /\ Top = refs[Len(f)]
           /\ 1 \in 1..Len(nodes) /\ refs[1] = 1
           /\ Len(f) = 1 => Top = 1 /\ Deepest(f) = f[1]
           /\ Len(f) = 2 => Top # 1 /\ Deepest(f) = f[2]
           /\ nodes[Top].kind = "object"
           /\ \A k \in 1..Len(refs) : refs[k] = 1 \/ refs[k] = Top
           /\ \A k \in 1..Len(refs) : nodes[refs[k]].kind = "object"
<1>1. Len(nodes) \in Nat /\ Len(f) \in 1..2 /\ Len(refs) = Len(f)
    BY Lengths, DeepestFacts DEF DocumentAt
<1>2. refs # <<>>
  <2>1. Len(refs) # 0 BY <1>1
  <2> QED BY <2>1
<1>3. refs[1] = 1 /\ MembersAt(Top, Deepest(f).members, LastNamed(f, at), LastHeld(f, at))
    BY DEF DocumentAt
<1>4. nodes[Top].kind = "object" /\ Top \in 1..Len(nodes) BY <1>3 DEF MembersAt
<1>5. Top = refs[Len(f)] BY <1>1 DEF Top
<1>6. 1 \in 1..Len(nodes) BY <1>4, <1>1
<1>7. CASE Len(f) = 1
  <2>1. Top = 1 /\ Deepest(f) = f[1] BY <1>3, <1>5, <1>7 DEF Deepest
  <2>2. \A k \in 1..Len(refs) : k = 1 BY <1>1, <1>7
  <2>3. \A k \in 1..Len(refs) : refs[k] = 1 BY <1>3, <2>2
  <2> QED BY <1>1, <1>2, <1>3, <1>4, <1>5, <1>6, <1>7, <2>1, <2>3
<1>8. CASE Len(f) = 2
  <2>1. MembersAt(1, f[1].members, f[1].begun, f[1].begun - 1) BY <1>8 DEF DocumentAt
  <2>2. nodes[1].kind = "object" BY <2>1 DEF MembersAt
  <2>3. refs[1] < refs[2]
    <3>1. 1 \in 1..Len(refs) /\ 2 \in 1..Len(refs) /\ 1 < 2 BY <1>1, <1>8
    <3> QED BY <3>1 DEF Agree, Rising
  <2>4. Top = refs[2] /\ Deepest(f) = f[2] BY <1>5, <1>8 DEF Deepest
  <2>5. Top # 1 BY <1>1, <1>3, <1>4, <2>3, <2>4
  <2>6. \A k \in 1..Len(refs) : k = 1 \/ k = 2 BY <1>1, <1>8
  <2>7. \A k \in 1..Len(refs) : refs[k] = 1 \/ refs[k] = Top BY <1>3, <2>4, <2>6
  <2> QED BY <1>1, <1>2, <1>3, <1>4, <1>5, <1>6, <1>8, <2>2, <2>4, <2>5, <2>7
<1> QED BY <1>1, <1>7, <1>8

\* No other container is open before the first value and after the last one.
LEMMA ClosedFacts ==
    ASSUME ReaderTypes, NEW f, f = <<>>, NEW at, DocumentAt(f, at)
    PROVE  refs = <<>> /\ Len(refs) = 0
<1>1. Len(f) = 0 /\ Len(refs) = 0 BY DEF DocumentAt
<1> QED BY <1>1, EmptySeq DEF ReaderTypes

\* A name that was not read yet.
LEMMA NameIsNew ==
    ASSUME NEW members, Named0(members), NEW n \in Nat, n + 1 <= Len(members), Len(members) \in Nat
    PROVE  members[n + 1][1] \notin {members[i][1] : i \in 1..n}
<1> SUFFICES ASSUME NEW i \in 1..n, members[i][1] = members[n + 1][1] PROVE FALSE
    OBVIOUS
<1>1. i \in 1..Len(members) /\ n + 1 \in 1..Len(members) /\ i # n + 1 OBVIOUS
<1> QED BY <1>1 DEF Named0

-----------------------------------------------------------------------------
(* Where the parser waits, and what it does with the token that comes.     *)

LEMMA PlaceIs ==
    ASSUME NEW f, NEW begun, begun = Deepest(f).begun
    PROVE  /\ PlaceOf(f, "members") = IF begun = 0 THEN "object" ELSE "member"
           /\ PlaceOf(f, "comma") = "key"
           /\ PlaceOf(f, "key") = IF begun = 1 THEN "object" ELSE "key"
           /\ PlaceOf(f, "colon") = IF begun = 1 THEN "first colon" ELSE "colon"
           /\ PlaceOf(f, "dumped") = "end"
           /\ PlaceOf(f, "value") = "value"
           /\ PlaceOf(f, "text") = "value"
BY DEF PlaceOf

LEMMA ExpectedIs ==
    /\ "begin_object" \in Expected("value") /\ "value_string" \in Expected("value")
    /\ "value_string" \in Expected("object") /\ "end_object" \in Expected("object")
    /\ "name_separator" \in Expected("first colon") /\ "name_separator" \in Expected("colon")
    /\ "value_separator" \in Expected("member") /\ "end_object" \in Expected("member")
    /\ "value_string" \in Expected("key")
    /\ Expected("end") = {"end_of_input"}
BY DEF Expected, ValueTokens, Scalars

LEMMA NotUnexpected ==
    ASSUME NEW token, token \in Expected(expect)
    PROVE  ~Unexpected(token)
BY DEF Unexpected

LEMMA BeginToken ==
    ASSUME NEW token, NEW kind \in Containers, Begin(token, kind)
    PROVE  /\ ValueExpected /\ token \notin Scalars
           /\ token \in {"begin_array", "begin_object"}
           /\ token = "begin_object" => kind = "object"
<1>1. ValueExpected /\ token = BeginOf[kind] BY DEF Begin
<1>2. kind = "array" \/ kind = "object" BY DEF Containers
<1> QED BY <1>1, <1>2 DEF BeginOf, Scalars, Numeric

LEMMA EndEmptyToken ==
    ASSUME NEW token, EndEmpty(token)
    PROVE  expect \in Containers /\ token \in {"end_array", "end_object"}
<1>1. expect \in Containers /\ token = EndOf[expect] BY DEF EndEmpty
<1>2. expect = "array" \/ expect = "object" BY <1>1 DEF Containers
<1> QED BY <1>1, <1>2 DEF EndOf

LEMMA BeginParsed ==
    ASSUME NEW text0, Parse("begin_object", text0), expect = "value"
    PROVE  Begin("begin_object", "object")
<1> DEFINE token == "begin_object"
<1>1. ~Unexpected(token) BY ExpectedIs, NotUnexpected
<1>2. ~EndEmpty(token) BY EndEmptyToken
<1>3. /\ ~Value(token, text0) /\ ~NumberOverflows(token, text0) /\ ~Key(token, text0)
      /\ ~NameSeparator(token) /\ ~ValueSeparator(token) /\ ~End(token) /\ ~Finish(token)
    BY DEF Value, NumberOverflows, Key, NameSeparator, ValueSeparator, End, Finish, Scalars, Numeric
<1>4. PICK kind \in Containers : Begin(token, kind) BY <1>1, <1>2, <1>3 DEF Parse
<1>5. kind = "object" BY <1>4, BeginToken
<1> QED BY <1>4, <1>5

LEMMA TextParsed ==
    ASSUME NEW text0, Parse("value_string", text0), expect = "value"
    PROVE  Value("value_string", text0)
<1> DEFINE token == "value_string"
<1>1. ~Unexpected(token) BY ExpectedIs, NotUnexpected
<1>2. ~EndEmpty(token) BY EndEmptyToken
<1>3. /\ ~NumberOverflows(token, text0) /\ ~Key(token, text0)
      /\ ~NameSeparator(token) /\ ~ValueSeparator(token) /\ ~End(token) /\ ~Finish(token)
    BY DEF NumberOverflows, Key, NameSeparator, ValueSeparator, End, Finish, Numeric
<1>4. ~\E kind \in Containers : Begin(token, kind) BY BeginToken
<1> QED BY <1>1, <1>2, <1>3, <1>4 DEF Parse

LEMMA NameParsed ==
    ASSUME NEW text0, Parse("value_string", text0), expect \in {"object", "key"}
    PROVE  Key("value_string", text0)
<1> DEFINE token == "value_string"
<1>1. ~Unexpected(token) BY ExpectedIs, NotUnexpected
<1>2. ~EndEmpty(token) BY EndEmptyToken
<1>3. /\ ~Value(token, text0) /\ ~NumberOverflows(token, text0)
      /\ ~NameSeparator(token) /\ ~ValueSeparator(token) /\ ~End(token) /\ ~Finish(token)
    BY DEF Value, NumberOverflows, NameSeparator, ValueSeparator, End, Finish, ValueExpected
<1>4. ~\E kind \in Containers : Begin(token, kind) BY BeginToken
<1> QED BY <1>1, <1>2, <1>3, <1>4 DEF Parse

LEMMA ColonParsed ==
    ASSUME NEW text0, Parse("name_separator", text0), expect \in {"first colon", "colon"}
    PROVE  NameSeparator("name_separator")
BY ExpectedIs DEF Parse, Begin, EndEmpty, Value, NumberOverflows, Key, NameSeparator,
    ValueSeparator, End, Finish, Unexpected, Containers, ValueExpected

LEMMA CommaParsed ==
    ASSUME NEW text0, Parse("value_separator", text0), expect = "member"
    PROVE  ValueSeparator("value_separator")
BY ExpectedIs DEF Parse, Begin, EndEmpty, Value, NumberOverflows, Key, NameSeparator,
    ValueSeparator, End, Finish, Unexpected, Containers, ValueExpected

LEMMA EndParsed ==
    ASSUME NEW text0, Parse("end_object", text0), expect \in {"object", "member"}
    PROVE  EndEmpty("end_object") \/ End("end_object")
BY ExpectedIs DEF Parse, Begin, EndEmpty, Value, NumberOverflows, Key, NameSeparator,
    ValueSeparator, End, Finish, Unexpected, Containers, ValueExpected

-----------------------------------------------------------------------------
(* The document, after a value, a name or an end.                          *)

\* The value goes to the member whose name was read last.
LEMMA ValueHeld ==
    ASSUME ReaderTypes, Agree, expect = "value", refs # <<>>, nodes[Top].kind = "object",
           NEW W, NEW n \in [kind : NodeKinds, value : W, items : {<<>>}], HandleValue(n)
    PROVE  /\ Len(nodes) \in Nat /\ Top \in 1..Len(nodes)
           /\ Len(nodes') = Len(nodes) + 1 /\ nodes'[New] = n
           /\ nodes'[Top].kind = "object"
           /\ nodes'[Top].items = WithMember(nodes[Top].items, element.key, New)
           /\ \A i \in 1..Len(nodes) : i # Top => nodes'[i] = nodes[i]
<1>1. IsDoc(nodes) /\ Len(nodes) \in Nat BY Lengths DEF ReaderTypes
<1>2. Top \in 1..Len(nodes) /\ element.node = Top
    BY TopBeforeValue DEF ValueExpected
<1> DEFINE items == WithMember(nodes[Top].items, element.key, New)
           d == [nodes EXCEPT ![Top].items = items]
<1>3. nodes' = Append(d, n) BY <1>2 DEF HandleValue, Holding
<1> HIDE DEF items
<1>4. /\ IsDoc(d) /\ Len(d) = Len(nodes) /\ d[Top].items = items
      /\ \A j \in 1..Len(nodes) : d[j].kind = nodes[j].kind /\ (j # Top => d[j] = nodes[j])
  <2>1. PICK D, i : D = nodes /\ i = Top OBVIOUS
  <2>2. D[i].kind = "array" => items \in Seq(Nat) BY <2>1
  <2>3. IsDoc(D) /\ i \in 1..Len(D) BY <1>1, <1>2, <2>1
  <2>4. d = [D EXCEPT ![i].items = items] BY <2>1
  <2> HIDE DEF d
  <2>5. /\ IsDoc(d) /\ Len(d) = Len(D) /\ d[i].items = items
        /\ \A j \in 1..Len(D) : d[j].kind = D[j].kind /\ (j # i => d[j] = D[j])
    <3> DEFINE e == [D EXCEPT ![i].items = items]
    <3>1. /\ IsDoc(e) /\ Len(e) = Len(D) /\ e[i].items = items
          /\ \A j \in 1..Len(D) : e[j].kind = D[j].kind /\ (j # i => e[j] = D[j])
        BY <2>2, <2>3, SMTT(30), NodeChanged
    <3> QED BY <2>4, <3>1
  <2> QED BY <2>1, <2>5
<1> HIDE DEF d
<1>5. /\ Len(nodes') = Len(nodes) + 1 /\ nodes'[Len(nodes) + 1] = n
      /\ \A j \in 1..Len(nodes) : nodes'[j] = d[j]
    BY <1>3, <1>4, NodeAdded
<1> QED BY <1>1, <1>2, <1>4, <1>5 DEF New, items

\* The first value.
LEMMA RootHeld ==
    ASSUME ReaderTypes, refs = <<>>,
           NEW W, NEW n \in [kind : NodeKinds, value : W, items : {<<>>}], HandleValue(n)
    PROVE  /\ Len(nodes) \in Nat /\ Len(nodes') = Len(nodes) + 1 /\ nodes'[New] = n
           /\ \A i \in 1..Len(nodes) : nodes'[i] = nodes[i]
<1>1. IsDoc(nodes) BY DEF ReaderTypes
<1>2. nodes' = Append(nodes, n) BY DEF HandleValue
<1> QED BY <1>1, <1>2, NodeAdded DEF New


\* One of the members, of which that many have values, is given this one.
Assigns(id, members, named, m, new) ==
    /\ Named0(members) /\ Len(members) \in Nat
    /\ m \in Nat /\ m + 1 <= Len(members) /\ (named = m \/ named = m + 1)
    /\ MembersAt(id, members, named, m)
    /\ nodes'[id].kind = "object"
    /\ nodes'[id].items = WithMember(nodes[id].items, members[m + 1][1], new)

\* The members that were read before keep their values.
LEMMA MembersAssigned ==
    ASSUME Grows, NEW id, NEW members, NEW named, NEW m, NEW new,
           Assigns(id, members, named, m, new)
    PROVE  MembersAt(id, members, m + 1, m)' /\ nodes'[id].items[members[m + 1][1]] = new
<1>0. /\ Named0(members) /\ Len(members) \in Nat
      /\ m \in Nat /\ m + 1 <= Len(members) /\ named \in {m, m + 1}
      /\ MembersAt(id, members, named, m)
      /\ nodes'[id].kind = "object"
      /\ nodes'[id].items = WithMember(nodes[id].items, members[m + 1][1], new)
    BY DEF Assigns
<1> DEFINE key == members[m + 1][1]
<1>1. /\ id \in 1..Len(nodes)
      /\ DOMAIN nodes[id].items = {members[i][1] : i \in 1..named}
      /\ \A i \in 1..m : Holds(nodes[id].items[members[i][1]], members[i][2])
    BY <1>0 DEF MembersAt
<1>2. id \in 1..Len(nodes') BY <1>1 DEF Grows
<1>3. PICK items : items = nodes[id].items OBVIOUS
<1>4. PICK after : after = nodes'[id].items OBVIOUS
<1>5. after = WithMember(items, key, new) BY <1>0, <1>3, <1>4
<1>6. DOMAIN after = DOMAIN items \cup {key} BY <1>5 DEF WithMember
<1>7. {members[i][1] : i \in 1..named} \cup {key} = {members[i][1] : i \in 1..(m + 1)}
  <2>1. 1..(m + 1) = (1..m) \cup {m + 1} /\ named \in {m, m + 1} BY <1>0
  <2> QED BY <2>1
<1>8. DOMAIN after = {members[i][1] : i \in 1..(m + 1)} BY <1>1, <1>3, <1>6, <1>7
<1>9. ASSUME NEW i \in 1..m PROVE after[members[i][1]] = items[members[i][1]]
  <2>1. i \in 1..Len(members) /\ m + 1 \in 1..Len(members) /\ i # m + 1 BY <1>0
  <2>2. members[i][1] # key BY <1>0, <2>1 DEF Named0
  <2>3. i \in 1..named BY <1>0
  <2>4. members[i][1] \in DOMAIN items BY <1>1, <1>3, <2>3
  <2> QED BY <1>5, <2>2, <2>4 DEF WithMember
<1>10. after[key] = new BY <1>5 DEF WithMember
<1>11. \A i \in 1..m : Holds(nodes[id].items[members[i][1]], members[i][2])'
  <2> SUFFICES ASSUME NEW i \in 1..m
               PROVE  Holds(nodes[id].items[members[i][1]], members[i][2])'
      OBVIOUS
  <2>1. PICK x : x = items[members[i][1]] OBVIOUS
  <2>2. Holds(x, members[i][2]) BY <1>1, <1>3, <2>1
  <2>3. Holds(x, members[i][2])' BY <2>2, HoldsKept
  <2>4. x = nodes'[id].items[members[i][1]] BY <1>4, <1>9, <2>1
  <2> QED BY <2>3, <2>4
<1>12. DOMAIN nodes'[id].items = {members[i][1] : i \in 1..(m + 1)} BY <1>4, <1>8
<1>13. MembersAt(id, members, m + 1, m)' BY <1>0, <1>2, <1>11, <1>12 DEF MembersAt
<1> QED BY <1>4, <1>10, <1>13

\* One more value.
LEMMA OneMoreHeld ==
    ASSUME NEW id, NEW members, NEW m \in Nat, MembersAt(id, members, m + 1, m)',
           NEW x, Holds(x, members[m + 1][2])', nodes'[id].items[members[m + 1][1]] = x
    PROVE  MembersAt(id, members, m + 1, m + 1)'
<1>1. /\ id \in 1..Len(nodes')
      /\ nodes'[id].kind = "object"
      /\ DOMAIN nodes'[id].items = {members[i][1] : i \in 1..(m + 1)}
      /\ \A i \in 1..m : Holds(nodes[id].items[members[i][1]], members[i][2])'
    BY DEF MembersAt
<1>2. Holds(nodes[id].items[members[m + 1][1]], members[m + 1][2])' OBVIOUS
<1>3. \A i \in 1..(m + 1) : Holds(nodes[id].items[members[i][1]], members[i][2])'
  <2> SUFFICES ASSUME NEW i \in 1..(m + 1)
               PROVE  Holds(nodes[id].items[members[i][1]], members[i][2])'
      OBVIOUS
  <2>1. i \in 1..m \/ i = m + 1 OBVIOUS
  <2> QED BY <1>1, <1>2, <2>1
<1> QED BY <1>1, <1>3 DEF MembersAt

-----------------------------------------------------------------------------
(* The parser's step for each mark and each string that the writer ends.   *)

\* The parser and the document, after the step.
ParserFollows(f, at) ==
    outcome' = "reading" /\ expect' = PlaceOf(f, at) /\ DocumentAt(f, at)'

\* The members that an object has at first.
LEMMA NoMembers ==
    ASSUME NEW id, NEW members, id \in 1..Len(nodes'), nodes'[id] = Empty("object")
    PROVE  MembersAt(id, members, 0, 0)'
<1>1. nodes'[id].kind = "object" /\ nodes'[id].items = <<>> BY DEF Empty
<1>2. DOMAIN nodes'[id].items = {}
  <2> DEFINE none == <<>>
  <2>1. none \in Seq({}) /\ Len(none) = 0 OBVIOUS
  <2>2. DOMAIN none = 1..0 BY <2>1
  <2> QED BY <1>1, <2>2
<1>3. 1..0 = {} OBVIOUS
<1> QED BY <1>1, <1>2, <1>3 DEF MembersAt

LEMMA OpensParsed ==
    ASSUME IsBody, body' = body, ReaderTypes, Agree, outcome = "reading",
           NEW p, NEW c, NEW q, Good(p), Opens(p, c, q),
           expect = PlaceOf(p.frames, p.at), DocumentAt(p.frames, p.at),
           NEW text0, Parse("begin_object", text0)
    PROVE  ParserFollows(q.frames, q.at)
<1> DEFINE f == p.frames
           v == ArgOf(f, "value")
           g == q.frames
           n == Empty("object")
<1>1. p.at = "value" /\ ~IsString(v) /\ FramesOK(f) BY DEF Opens, Good
<1>2. g = Append(f, [members |-> v.members, begun |-> 0]) /\ q.at = "members"
  <2> DEFINE h == Append(f, [members |-> v.members, begun |-> 0])
  <2>1. q = Snap(h, "members", p.next, p.state, p.part) BY DEF Opens
  <2> HIDE DEF h
  <2>2. q.frames = h /\ q.at = "members" BY <2>1, SnapFields
  <2> QED BY <2>2 DEF h
<1>3. expect = "value" BY <1>1, PlaceIs
<1>4. /\ HandleValue(n) /\ refs' = Append(refs, New) /\ element' = element
      /\ outcome' = outcome /\ expect' = "object"
  <2>1. Begin("begin_object", "object") BY <1>3, BeginParsed
  <2> QED BY <2>1 DEF Begin, StartContainer
<1>5. n \in [kind : NodeKinds, value : {<<>>}, items : {<<>>}]
    BY DEF Empty, NodeKinds, Containers
<1>6. f \in Seq(Frames0) /\ refs \in Seq(Nat) /\ Len(nodes) \in Nat /\ New = Len(nodes) + 1
      /\ New \in Nat
    BY <1>1, Lengths DEF FramesOK, ReaderTypes, New
<1>7. /\ Len(refs') = Len(refs) + 1 /\ refs'[Len(refs) + 1] = New
      /\ \A k \in 1..Len(refs) : refs'[k] = refs[k]
    BY <1>4, <1>6, AppendProperties
<1>8. /\ Len(g) = Len(f) + 1 /\ g[Len(f) + 1].begun = 0 /\ \A k \in 1..Len(f) : g[k] = f[k]
  <2> DEFINE new == [members |-> v.members, begun |-> 0]
  <2>1. IsSeq(f) BY <1>6 DEF IsSeq
  <2>2. new.begun = 0 OBVIOUS
  <2>3. g = Append(f, new) BY <1>2
  <2> HIDE DEF new, f, g
  <2>4. Len(g) = Len(f) + 1 /\ g[Len(f) + 1] = new /\ \A k \in 1..Len(f) : g[k] = f[k]
      BY <2>1, <2>3, AppendSeq
  <2> QED BY <2>2, <2>4
<1>9. Len(refs) = Len(f) /\ Len(f) \in Nat /\ DocumentAt(f, "value") BY <1>1, <1>6 DEF DocumentAt
<1>10. Deepest(g).begun = 0 BY <1>8, <1>9 DEF Deepest
<1> HIDE DEF n
<1>12. PlaceOf(g, "members") = "object" BY <1>10, PlaceIs
<1>13. LastNamed(g, "members") = 0 /\ LastHeld(g, "members") = 0
    BY <1>10 DEF LastNamed, LastHeld
<1>14. g # <<>> /\ Len(refs') = Len(g)
  <2>1. Len(g) # 0 BY <1>8, <1>9
  <2> QED BY <2>1, <1>7, <1>8, <1>9
<1>15. Top' = New BY <1>7, <1>9 DEF Top
<1>16. CASE f = <<>>
  <2>1. refs = <<>> /\ Len(refs) = 0 BY <1>9, <1>16, ClosedFacts
  <2>2. Len(nodes') = Len(nodes) + 1 /\ nodes'[New] = n BY <1>4, <1>5, <2>1, RootHeld
  <2>3. nodes = <<>> BY <1>9, <1>16 DEF DocumentAt
  <2>4. New = 1
    <3>1. Len(nodes) = 0 BY <2>3
    <3> QED BY <1>6, <3>1
  <2>5. refs'[1] = 1 BY <1>7, <2>1, <2>4
  <2>6. New \in 1..Len(nodes') BY <1>6, <2>2
  <2>7. PICK id : id = Top' OBVIOUS
  <2>8. id \in 1..Len(nodes') /\ nodes'[id] = Empty("object") BY <1>15, <2>2, <2>6, <2>7 DEF n
  <2>9. MembersAt(id, Deepest(g).members, 0, 0)' BY <2>8, NoMembers
  <2>10. MembersAt(Top, Deepest(g).members, LastNamed(g, "members"), LastHeld(g, "members"))'
      BY <1>13, <2>7, <2>9
  <2>11. Len(g) # 2 BY <1>8, <1>9, <2>1
  <2>12. DocumentAt(g, "members")' BY <1>14, <2>5, <2>10, <2>11 DEF DocumentAt
  <2> QED BY <1>2, <1>4, <1>12, <2>12 DEF ParserFollows
<1>17. CASE f # <<>>
  <2>1. Deepest(f).begun > 0 /\ v = MemberAt(Deepest(f))[2]
      BY <1>1, <1>17 DEF Good, PlaceOK, ArgOf
  <2>2. Len(f) = 1
    <3>1. Len(f) \in 1..2 BY <1>1, <1>17, DeepestFacts
    <3>2. Len(f) # 2 BY <1>1, <1>17, <2>1, ValuesInside, StringFacts
    <3> QED BY <3>1, <3>2
  <2>3. /\ refs # <<>> /\ Top \in 1..Len(nodes) /\ Top = 1 /\ refs[1] = 1 /\ Deepest(f) = f[1]
        /\ nodes[Top].kind = "object" /\ 1 \in 1..Len(nodes)
      BY <1>1, <1>9, <1>17, <2>2, OpenFacts
  <2>4. /\ Len(nodes') = Len(nodes) + 1 /\ nodes'[New] = n
        /\ nodes'[1].kind = "object"
        /\ nodes'[1].items = WithMember(nodes[1].items, element.key, New)
        /\ \A i \in 1..Len(nodes) : i # 1 => nodes'[i] = nodes[i]
      BY <1>3, <1>4, <1>5, <2>3, ValueHeld
  <2>5. element.key = MemberAt(f[1])[1]
    <3>1. element = [node |-> Top, key |-> MemberAt(f[1])[1]] BY <1>9, <1>17, <2>3 DEF DocumentAt
    <3> QED BY <3>1
  <2>6. MembersAt(1, f[1].members, f[1].begun, f[1].begun - 1)
      BY <1>9, <1>17, <2>3 DEF DocumentAt, LastNamed, LastHeld
  <2>7. /\ Named0(f[1].members) /\ Len(f[1].members) \in Nat /\ f[1].begun \in Nat
        /\ f[1].begun > 0 /\ f[1].begun <= Len(f[1].members)
      BY <1>1, <1>17, <2>1, <2>3, DeepestFacts DEF MemberLists
  <2>8. PICK m \in Nat : f[1].begun = m + 1
    <3>1. PICK b \in Nat : b = f[1].begun BY <2>7
    <3>2. b > 0 BY <2>7, <3>1
    <3>3. b - 1 \in Nat /\ b = (b - 1) + 1 BY <3>2
    <3> QED BY <3>1, <3>3
  <2>9. f[1].begun - 1 = m /\ m + 1 <= Len(f[1].members) BY <2>7, <2>8
  <2>10. Grows
    <3>1. Len(nodes') \in Nat /\ Len(nodes) <= Len(nodes') BY <1>6, <2>4
    <3>2. \E k \in 1..Len(refs) : refs[k] = 1 BY <1>9, <2>2, <2>3
    <3>3. nodes[1].kind # "value_string" BY <2>3
    <3>4. ASSUME NEW k \in 1..Len(refs')
          PROVE  refs'[k] > Len(nodes) \/ \E j \in 1..Len(refs) : refs[j] = refs'[k]
      <4>1. k \in 1..Len(refs) \/ k = Len(refs) + 1 BY <1>7, <1>9
      <4>2. New > Len(nodes) BY <1>6
      <4> QED BY <1>7, <4>1, <4>2
    <3> QED BY <1>6, <2>4, <3>1, <3>2, <3>3, <3>4 DEF Grows
  <2>11. MemberAt(f[1])[1] = f[1].members[m + 1][1] BY <2>8 DEF MemberAt
  <2>12. /\ MembersAt(1, f[1].members, m + 1, m)
         /\ nodes'[1].items = WithMember(nodes[1].items, f[1].members[m + 1][1], New)
      BY <2>4, <2>5, <2>6, <2>8, <2>9, <2>11
  <2>13. /\ MembersAt(1, f[1].members, m + 1, m)'
         /\ nodes'[1].items[f[1].members[m + 1][1]] = New
    <3>1. PICK members : members = f[1].members OBVIOUS
    <3>3. PICK new0 : new0 = New OBVIOUS
    <3>4. Assigns(1, members, m + 1, m, new0)
        BY <2>4, <2>7, <2>8, <2>9, <2>12, <3>1, <3>3 DEF Assigns
    <3>5. MembersAt(1, members, m + 1, m)' /\ nodes'[1].items[members[m + 1][1]] = new0
        BY <2>10, <3>4, MembersAssigned
    <3> QED BY <3>1, <3>3, <3>5
  <2>14. New \in 1..Len(nodes') BY <1>6, <2>4
  <2>15. PICK id : id = Top' OBVIOUS
  <2>16. id \in 1..Len(nodes') /\ nodes'[id] = Empty("object") BY <1>15, <2>4, <2>14, <2>15 DEF n
  <2>17. MembersAt(id, Deepest(g).members, 0, 0)' BY <2>16, NoMembers
  <2>18. MembersAt(Top, Deepest(g).members, LastNamed(g, "members"), LastHeld(g, "members"))'
      BY <1>13, <2>15, <2>17
  <2>19. g[1] = f[1] /\ refs'[1] = 1 BY <1>7, <1>8, <1>9, <2>2, <2>3
  <2>20. MembersAt(1, g[1].members, g[1].begun, g[1].begun - 1)' BY <2>8, <2>9, <2>13, <2>19
  <2>21. nodes'[1].items[MemberAt(g[1])[1]] = Top' BY <1>15, <2>11, <2>13, <2>19
  <2>22. DocumentAt(g, "members")' BY <1>14, <2>18, <2>19, <2>20, <2>21 DEF DocumentAt
  <2> QED BY <1>2, <1>4, <1>12, <2>22 DEF ParserFollows
<1> QED BY <1>16, <1>17

\* What the document says of an open object, with the numbers as they are before a value.
LEMMA ObjectOpen ==
    ASSUME NEW f, FramesOK(f), f # <<>>, NEW at, DocumentAt(f, at), Deepest(f).begun > 0
    PROVE  /\ Named0(Deepest(f).members) /\ Len(Deepest(f).members) \in Nat
           /\ \E m \in Nat :
                 /\ Deepest(f).begun = m + 1 /\ m + 1 <= Len(Deepest(f).members)
                 /\ MemberAt(Deepest(f)) = Deepest(f).members[m + 1]
                 /\ at \in {"value", "text", "colon"} =>
                       MembersAt(Top, Deepest(f).members, m + 1, m)
                 /\ at = "key" => MembersAt(Top, Deepest(f).members, m, m)
<1>1. /\ Named0(Deepest(f).members) /\ Len(Deepest(f).members) \in Nat
      /\ Deepest(f).begun \in Nat /\ Deepest(f).begun <= Len(Deepest(f).members)
    BY DeepestFacts DEF MemberLists
<1>2. PICK b \in Nat : b = Deepest(f).begun BY <1>1
<1>3. b > 0 BY <1>2
<1> DEFINE m == b - 1
<1>4. m \in Nat /\ m + 1 = b BY <1>3
<1>5. MembersAt(Top, Deepest(f).members, LastNamed(f, at), LastHeld(f, at)) BY DEF DocumentAt
<1>6. at \in {"value", "text", "colon"} => LastNamed(f, at) = m + 1 /\ LastHeld(f, at) = m
    BY <1>2, <1>4 DEF LastNamed, LastHeld
<1>7. at = "key" => LastNamed(f, at) = m /\ LastHeld(f, at) = m
    BY <1>2, <1>4 DEF LastNamed, LastHeld
<1> HIDE DEF m
<1> QED BY <1>1, <1>2, <1>4, <1>5, <1>6, <1>7 DEF MemberAt

\* The object around the innermost one.
LEMMA OuterKept ==
    ASSUME ReaderTypes, Agree, Grows, NEW f, FramesOK(f), f # <<>>, NEW at, DocumentAt(f, at),
           refs' = refs, \A i \in 1..Len(nodes) : i # Top => nodes'[i] = nodes[i]
    PROVE  /\ Len(refs') = Len(f) /\ refs'[1] = 1 /\ Top' = Top
           /\ Len(f) = 2 => /\ MembersAt(1, f[1].members, f[1].begun, f[1].begun - 1)'
                            /\ nodes'[1].items[MemberAt(f[1])[1]] = Top'
<1>1. /\ Len(refs') = Len(f) /\ refs'[1] = 1 /\ Top' = Top BY DEF DocumentAt, Top
<1>2. ASSUME Len(f) = 2
      PROVE  /\ MembersAt(1, f[1].members, f[1].begun, f[1].begun - 1)'
             /\ nodes'[1].items[MemberAt(f[1])[1]] = Top'
  <2>1. 1 \in 1..Len(nodes) /\ Top # 1 BY <1>2, OpenFacts
  <2>2. nodes'[1] = nodes[1] BY <2>1
  <2>3. /\ MembersAt(1, f[1].members, f[1].begun, f[1].begun - 1)
        /\ nodes[1].items[MemberAt(f[1])[1]] = Top
      BY <1>2 DEF DocumentAt
  <2>4. MembersAt(1, f[1].members, f[1].begun, f[1].begun - 1)' BY <2>2, <2>3, MembersKept
  <2> QED BY <1>1, <2>2, <2>3, <2>4
<1> QED BY <1>1, <1>2

LEMMA EndsTextParsed ==
    ASSUME IsBody, body' = body, ReaderTypes, Agree, outcome = "reading",
           NEW p, NEW c, NEW q, Good(p), EndsText(p, c, q),
           expect = PlaceOf(p.frames, p.at), DocumentAt(p.frames, p.at),
           Parse("value_string", ArgOf(p.frames, p.at)), ReaderInv'
    PROVE  ParserFollows(q.frames, q.at)
<1> DEFINE f == p.frames
           top == Deepest(f)
<1>1. p.at = "text" /\ FramesOK(f) /\ f # <<>> /\ top.begun > 0 /\ IsString(MemberAt(top)[2])
    BY DEF EndsText, Good, PlaceOK
<1>2. q.frames = f /\ q.at = "members"
  <2>1. q = Snap(f, Returned(f), p.next, p.state, p.part) BY DEF EndsText
  <2>2. Returned(f) = "members" BY <1>1 DEF Returned
  <2> QED BY <2>1, <2>2, SnapFields
<1>3. expect = "value" BY <1>1, PlaceIs
<1>4. PICK s : s = ArgOf(p.frames, p.at) OBVIOUS
<1>5. s = MemberAt(top)[2].value BY <1>1, <1>4 DEF ArgOf
<1> DEFINE n == Leaf("value_string", s)
<1>6. /\ HandleValue(n) /\ refs' = refs /\ element' = element /\ outcome' = outcome
      /\ states' = Level /\ expect' = After(Level)
  <2>1. Value("value_string", s) BY <1>3, <1>4, TextParsed
  <2> QED BY <2>1 DEF Value
<1>7. /\ n \in [kind : NodeKinds, value : {s}, items : {<<>>}]
      /\ n.kind = "value_string" /\ n.value = s
    BY DEF Leaf, NodeKinds, Scalars
<1> HIDE DEF n
<1>8. DocumentAt(f, "text") BY <1>1
<1>9. /\ refs # <<>> /\ Top \in 1..Len(nodes) /\ Len(refs) = Len(f)
      /\ nodes[Top].kind = "object" /\ Len(f) \in 1..2 /\ Top = refs[Len(f)]
      /\ \A k \in 1..Len(refs) : refs[k] = 1 \/ refs[k] = Top
      /\ Len(nodes) \in Nat /\ 1 \in 1..Len(nodes)
    BY <1>1, <1>8, OpenFacts
<1>10. /\ Len(nodes') = Len(nodes) + 1 /\ nodes'[New] = n /\ New = Len(nodes) + 1
       /\ nodes'[Top].kind = "object"
       /\ nodes'[Top].items = WithMember(nodes[Top].items, element.key, New)
       /\ \A i \in 1..Len(nodes) : i # Top => nodes'[i] = nodes[i]
    BY <1>3, <1>6, <1>7, <1>9, ValueHeld DEF New
<1>11. element.key = MemberAt(top)[1]
  <2>1. element = [node |-> Top, key |-> MemberAt(top)[1]] BY <1>1, <1>8 DEF DocumentAt
  <2> QED BY <2>1
<1>12. PICK m \in Nat :
          /\ top.begun = m + 1 /\ m + 1 <= Len(top.members) /\ MemberAt(top) = top.members[m + 1]
          /\ MembersAt(Top, top.members, m + 1, m)
    BY <1>1, <1>8, ObjectOpen
<1>13. Named0(top.members) /\ Len(top.members) \in Nat BY <1>1, <1>8, ObjectOpen
<1>14. Grows
  <2>1. Len(nodes') \in Nat /\ Len(nodes) <= Len(nodes') BY <1>9, <1>10
  <2>2. \E k \in 1..Len(refs) : refs[k] = Top BY <1>9
  <2>3. nodes[Top].kind # "value_string" BY <1>9
  <2>4. \A k \in 1..Len(refs') : \E j \in 1..Len(refs) : refs[j] = refs'[k] BY <1>6
  <2> QED BY <1>9, <1>10, <2>1, <2>2, <2>3, <2>4 DEF Grows
<1>15. /\ Len(refs') = Len(f) /\ refs'[1] = 1 /\ Top' = Top
       /\ Len(f) = 2 => /\ MembersAt(1, f[1].members, f[1].begun, f[1].begun - 1)'
                        /\ nodes'[1].items[MemberAt(f[1])[1]] = Top'
    BY <1>1, <1>6, <1>8, <1>10, <1>14, OuterKept
<1>16. PICK id : id = Top OBVIOUS
<1>17. PICK x : x = New OBVIOUS
<1>18. Assigns(id, top.members, m + 1, m, x)
    BY <1>10, <1>11, <1>12, <1>13, <1>16, <1>17 DEF Assigns
<1>19. MembersAt(id, top.members, m + 1, m)' /\ nodes'[id].items[top.members[m + 1][1]] = x
    BY <1>14, <1>18, MembersAssigned
<1>20. PICK v : v = MemberAt(top)[2] OBVIOUS
<1>21. Holds(x, v)'
  <2>1. x \in 1..Len(nodes') BY <1>9, <1>10, <1>17
  <2>2. \A k \in 1..Len(refs') : refs'[k] # x BY <1>6, <1>9, <1>10, <1>17
  <2>3. x # 0 BY <1>9, <1>10, <1>17
  <2>4. SameString(x, v)'
      BY <1>1, <1>5, <1>7, <1>10, <1>17, <1>20, <2>3 DEF SameString
  <2> QED BY <1>1, <1>20, <2>1, <2>2, <2>4 DEF Holds
<1>22. MembersAt(id, top.members, m + 1, m + 1)'
  <2>1. v = top.members[m + 1][2] BY <1>12, <1>20
  <2>2. Holds(x, top.members[m + 1][2])' BY <1>21, <2>1
  <2> QED BY <1>19, <2>2, OneMoreHeld
<1>23. LastNamed(f, "members") = m + 1 /\ LastHeld(f, "members") = m + 1
    BY <1>12 DEF LastNamed, LastHeld
<1>24. MembersAt(Top, top.members, LastNamed(f, "members"), LastHeld(f, "members"))'
  <2>1. id = Top' BY <1>15, <1>16
  <2> QED BY <1>22, <1>23, <2>1
<1>25. DocumentAt(f, "members")' BY <1>1, <1>15, <1>24 DEF DocumentAt
<1>26. expect' = "member"
  <2>1. Len(Level) = Len(refs) /\ IsSeq(Level)
        /\ \A i \in 1..Len(refs) : nodes[refs[i]].kind = KindAt(Level, i)
      BY <1>3, LevelMatches DEF ValueExpected
  <2>2. Len(refs) > 0 /\ Len(refs) \in 1..Len(refs) BY <1>9
  <2>3. KindAt(Level, Len(Level)) = "object" BY <1>9, <2>1, <2>2
  <2>4. \/ Len(Level) = 0 /\ After(Level) = "end"
        \/ Len(Level) > 0 /\ KindAt(Level, Len(Level)) = "array" /\ After(Level) = "element"
        \/ Len(Level) > 0 /\ KindAt(Level, Len(Level)) = "object" /\ After(Level) = "member"
      BY <2>1, AfterWhat
  <2> QED BY <1>6, <2>1, <2>2, <2>3, <2>4
<1>27. PlaceOf(f, "members") = "member"
  <2>1. top.begun # 0 BY <1>12
  <2> QED BY <2>1, PlaceIs
<1> QED BY <1>2, <1>6, <1>25, <1>26, <1>27 DEF ParserFollows

\* An object whose items are others.
LEMMA ObjectChanged ==
    ASSUME IsDoc(nodes), NEW i \in 1..Len(nodes), nodes[i].kind = "object", NEW x,
           nodes' = [nodes EXCEPT ![i].items = x]
    PROVE  /\ Len(nodes') = Len(nodes) /\ nodes'[i].items = x /\ nodes'[i].kind = "object"
           /\ \A j \in 1..Len(nodes) : j # i => nodes'[j] = nodes[j]
<1>1. PICK V, I : nodes \in Seq([kind : NodeKinds, value : V, items : I]) BY DEF IsDoc
<1> DEFINE n == [nodes[i] EXCEPT !.items = x]
<1>2. n.items = x /\ n.kind = "object" BY <1>1
<1>3. nodes' = [nodes EXCEPT ![i] = n] OBVIOUS
<1> HIDE DEF n
<1> QED BY <1>1, <1>2, <1>3

LEMMA EndsNameParsed ==
    ASSUME IsBody, body' = body, ReaderTypes, Agree, outcome = "reading",
           NEW p, NEW c, NEW q, Good(p), EndsName(p, c, q),
           expect = PlaceOf(p.frames, p.at), DocumentAt(p.frames, p.at),
           Parse("value_string", ArgOf(p.frames, p.at))
    PROVE  ParserFollows(q.frames, q.at)
<1> DEFINE f == p.frames
           top == Deepest(f)
<1>1. p.at = "key" /\ FramesOK(f) /\ f # <<>> /\ top.begun > 0
    BY DEF EndsName, Good, PlaceOK
<1>2. q.frames = f /\ q.at = "colon"
  <2>1. q = Snap(f, "colon", p.next, p.state, p.part) BY DEF EndsName
  <2> QED BY <2>1, SnapFields
<1>3. expect = IF top.begun = 1 THEN "object" ELSE "key" BY <1>1, PlaceIs
<1>4. PICK s : s = ArgOf(p.frames, p.at) OBVIOUS
<1>5. s = MemberAt(top)[1] BY <1>1, <1>4 DEF ArgOf
<1>6. HandleKey(s) /\ outcome' = outcome
      /\ expect' = IF expect = "object" THEN "first colon" ELSE "colon"
  <2>1. Key("value_string", s) BY <1>3, <1>4, NameParsed
  <2> QED BY <2>1 DEF Key
<1>7. DocumentAt(f, "key") BY <1>1
<1>8. /\ refs # <<>> /\ Top \in 1..Len(nodes) /\ Len(refs) = Len(f)
      /\ nodes[Top].kind = "object" /\ Len(f) \in 1..2 /\ Top = refs[Len(f)]
      /\ Len(nodes) \in Nat
    BY <1>1, <1>7, OpenFacts
<1>9. PICK m \in Nat :
          /\ top.begun = m + 1 /\ m + 1 <= Len(top.members) /\ MemberAt(top) = top.members[m + 1]
          /\ MembersAt(Top, top.members, m, m)
    BY <1>1, <1>7, ObjectOpen
<1>10. Named0(top.members) /\ Len(top.members) \in Nat BY <1>1, <1>7, ObjectOpen
<1>11. s \notin DOMAIN nodes[Top].items
  <2>1. DOMAIN nodes[Top].items = {top.members[i][1] : i \in 1..m} BY <1>9 DEF MembersAt
  <2>2. PICK members : members = top.members OBVIOUS
  <2>3. members[m + 1][1] \notin {members[i][1] : i \in 1..m}
    <3>1. Named0(members) /\ m + 1 <= Len(members) /\ Len(members) \in Nat BY <1>9, <1>10, <2>2
    <3> QED BY <3>1, NameIsNew
  <2> QED BY <1>5, <1>9, <2>1, <2>2, <2>3
<1>12. /\ element' = [node |-> Top, key |-> s] /\ refs' = refs
       /\ nodes' = [nodes EXCEPT ![Top].items = WithMember(@, s, 0)]
    BY <1>6, <1>11 DEF HandleKey
<1>13. /\ Len(nodes') = Len(nodes) /\ nodes'[Top].items = WithMember(nodes[Top].items, s, 0)
       /\ nodes'[Top].kind = "object"
       /\ \A i \in 1..Len(nodes) : i # Top => nodes'[i] = nodes[i]
  <2>1. PICK id : id = Top OBVIOUS
  <2>2. PICK items : items = WithMember(nodes[Top].items, s, 0) OBVIOUS
  <2>3. nodes' = [nodes EXCEPT ![id].items = items] BY <1>12, <2>1, <2>2
  <2>4. IsDoc(nodes) /\ id \in 1..Len(nodes) /\ nodes[id].kind = "object"
      BY <1>8, <2>1 DEF ReaderTypes
  <2>5. /\ Len(nodes') = Len(nodes) /\ nodes'[id].items = items /\ nodes'[id].kind = "object"
        /\ \A j \in 1..Len(nodes) : j # id => nodes'[j] = nodes[j]
      BY <2>3, <2>4, ObjectChanged
  <2> QED BY <2>1, <2>2, <2>5
<1>14. Grows
  <2>1. Len(nodes') \in Nat /\ Len(nodes) <= Len(nodes') BY <1>8, <1>13
  <2>2. \E k \in 1..Len(refs) : refs[k] = Top BY <1>8
  <2>3. nodes[Top].kind # "value_string" BY <1>8
  <2>4. \A k \in 1..Len(refs') : \E j \in 1..Len(refs) : refs[j] = refs'[k] BY <1>12
  <2> QED BY <1>8, <1>13, <2>1, <2>2, <2>3, <2>4 DEF Grows
<1>15. /\ Len(refs') = Len(f) /\ refs'[1] = 1 /\ Top' = Top
       /\ Len(f) = 2 => /\ MembersAt(1, f[1].members, f[1].begun, f[1].begun - 1)'
                        /\ nodes'[1].items[MemberAt(f[1])[1]] = Top'
    BY <1>1, <1>12, <1>7, <1>13, <1>14, OuterKept
<1>16. PICK id : id = Top OBVIOUS
<1>17. s = top.members[m + 1][1] BY <1>5, <1>9
<1>18. Assigns(id, top.members, m, m, 0)
    BY <1>9, <1>10, <1>13, <1>16, <1>17 DEF Assigns
<1>19. MembersAt(id, top.members, m + 1, m)'
    BY <1>14, <1>18, MembersAssigned
<1>20. LastNamed(f, "colon") = m + 1 /\ LastHeld(f, "colon") = m
    BY <1>9 DEF LastNamed, LastHeld
<1>21. MembersAt(Top, top.members, LastNamed(f, "colon"), LastHeld(f, "colon"))'
  <2>1. id = Top' BY <1>15, <1>16
  <2> QED BY <1>19, <1>20, <2>1
<1>22. element' = [node |-> Top', key |-> MemberAt(top)[1]] BY <1>5, <1>12, <1>15
<1>23. DocumentAt(f, "colon")' BY <1>1, <1>15, <1>21, <1>22 DEF DocumentAt
<1>24. expect' = PlaceOf(f, "colon") BY <1>3, <1>6, PlaceIs
<1> QED BY <1>2, <1>6, <1>23, <1>24 DEF ParserFollows

-----------------------------------------------------------------------------
(* What leaves the document alone.                                         *)

LEMMA DocumentKept ==
    ASSUME body' = body, nodes' = nodes, refs' = refs, element' = element,
           NEW f, NEW at, DocumentAt(f, at)
    PROVE  DocumentAt(f, at)'
<1>1. ASSUME NEW id, NEW v PROVE Holds(id, v)' <=> Holds(id, v)
    BY DEF Holds, SameString, SameObject, NamesOf
<1>2. ASSUME NEW id, NEW members, NEW named, NEW held
      PROVE  MembersAt(id, members, named, held)' <=> MembersAt(id, members, named, held)
  <2>1. PICK items : items = nodes[id].items OBVIOUS
  <2>2. \A i \in 1..held :
           Holds(items[members[i][1]], members[i][2])' <=> Holds(items[members[i][1]], members[i][2])
      BY <1>1
  <2>3. items = nodes'[id].items BY <2>1
  <2>4. \A i \in 1..held : Holds(nodes[id].items[members[i][1]], members[i][2])'
                           <=> Holds(nodes[id].items[members[i][1]], members[i][2])
    <3> SUFFICES ASSUME NEW i \in 1..held
                 PROVE  Holds(nodes[id].items[members[i][1]], members[i][2])'
                        <=> Holds(nodes[id].items[members[i][1]], members[i][2])
        OBVIOUS
    <3>1. PICK x : x = items[members[i][1]] OBVIOUS
    <3>2. x = nodes[id].items[members[i][1]] BY <2>1, <3>1
    <3>3. x = nodes'[id].items[members[i][1]] BY <2>3, <3>1
    <3>4. Holds(x, members[i][2])' <=> Holds(x, members[i][2]) BY <1>1
    <3> QED BY <3>2, <3>3, <3>4
  <2> QED BY <2>4 DEF MembersAt
<1>3. Top' = Top BY DEF Top
<1>4. SameBody(body)' <=> SameBody(body)
    BY DEF SameBody, NamesOf, SameString, SameObject
<1>5. PICK t : t = Top OBVIOUS
<1>6. MembersAt(Top, Deepest(f).members, LastNamed(f, at), LastHeld(f, at))'
      <=> MembersAt(Top, Deepest(f).members, LastNamed(f, at), LastHeld(f, at))
  <2>1. MembersAt(t, Deepest(f).members, LastNamed(f, at), LastHeld(f, at))'
        <=> MembersAt(t, Deepest(f).members, LastNamed(f, at), LastHeld(f, at))
      BY <1>2
  <2>2. t = Top' BY <1>3, <1>5
  <2> QED BY <1>5, <2>1, <2>2
<1>7. MembersAt(1, f[1].members, f[1].begun, f[1].begun - 1)'
      <=> MembersAt(1, f[1].members, f[1].begun, f[1].begun - 1)
    BY <1>2
<1> QED BY <1>3, <1>4, <1>6, <1>7 DEF DocumentAt

\* Between two places that differ in nothing the document tells apart.
LEMMA PlaceMoves ==
    ASSUME NEW f, f # <<>>, NEW at, NEW to, DocumentAt(f, at),
           LastNamed(f, to) = LastNamed(f, at), LastHeld(f, to) = LastHeld(f, at),
           to \in {"colon", "value", "text"} => at \in {"colon", "value", "text"}
    PROVE  DocumentAt(f, to)
BY DEF DocumentAt

LEMMA PointsParsed ==
    ASSUME IsBody, body' = body, ReaderTypes, Agree, outcome = "reading",
           NEW p, NEW c, NEW q, Good(p), Points(p, c, q),
           expect = PlaceOf(p.frames, p.at), DocumentAt(p.frames, p.at),
           NEW text0, Parse("name_separator", text0)
    PROVE  ParserFollows(q.frames, q.at)
<1> DEFINE f == p.frames
<1>1. p.at = "colon" /\ f # <<>> BY DEF Points, Good, PlaceOK
<1>2. q.frames = f /\ q.at = "value"
  <2>1. q = Snap(f, "value", p.next, p.state, p.part) BY DEF Points
  <2> QED BY <2>1, SnapFields
<1>3. expect \in {"first colon", "colon"} BY <1>1, PlaceIs
<1>4. /\ expect' = "value" /\ outcome' = outcome
      /\ nodes' = nodes /\ refs' = refs /\ element' = element
  <2>1. NameSeparator("name_separator") BY <1>3, ColonParsed
  <2> QED BY <2>1 DEF NameSeparator, document
<1>5. DocumentAt(f, "value") BY <1>1, PlaceMoves DEF LastNamed, LastHeld
<1>6. DocumentAt(f, "value")' BY <1>4, <1>5, DocumentKept
<1>7. PlaceOf(f, "value") = "value" BY PlaceIs
<1> QED BY <1>2, <1>4, <1>6, <1>7 DEF ParserFollows

LEMMA SeparatesParsed ==
    ASSUME IsBody, body' = body, ReaderTypes, Agree, outcome = "reading",
           NEW p, NEW c, NEW q, Good(p), Separates(p, c, q),
           expect = PlaceOf(p.frames, p.at), DocumentAt(p.frames, p.at),
           NEW text0, Parse("value_separator", text0)
    PROVE  ParserFollows(q.frames, q.at)
<1> DEFINE f == p.frames
<1>1. p.at = "members" /\ f # <<>> /\ Deepest(f).begun > 0 BY DEF Separates, Good, PlaceOK
<1>2. q.frames = f /\ q.at = "comma"
  <2>1. q = Snap(f, "comma", p.next, p.state, p.part) BY DEF Separates
  <2> QED BY <2>1, SnapFields
<1>3. expect = "member"
  <2>1. Deepest(f).begun # 0 BY <1>1
  <2> QED BY <1>1, <2>1, PlaceIs
<1>4. /\ expect' = "key" /\ outcome' = outcome
      /\ nodes' = nodes /\ refs' = refs /\ element' = element
  <2>1. ValueSeparator("value_separator") BY <1>3, CommaParsed
  <2> QED BY <1>3, <2>1 DEF ValueSeparator, document
<1>5. DocumentAt(f, "comma") BY <1>1, PlaceMoves DEF LastNamed, LastHeld
<1>6. DocumentAt(f, "comma")' BY <1>4, <1>5, DocumentKept
<1>7. PlaceOf(f, "comma") = "key" BY PlaceIs
<1> QED BY <1>2, <1>4, <1>6, <1>7 DEF ParserFollows

-----------------------------------------------------------------------------
(* The bytes that are no token's last.                                     *)

LEMMA StartsTextSame ==
    ASSUME IsBody, NEW p, NEW c, NEW q, Good(p), StartsText(p, c, q),
           expect = PlaceOf(p.frames, p.at), DocumentAt(p.frames, p.at)
    PROVE  expect = PlaceOf(q.frames, q.at) /\ DocumentAt(q.frames, q.at)
<1> DEFINE f == p.frames
<1>1. p.at = "value" /\ IsString(ArgOf(f, "value")) BY DEF StartsText
<1>2. q.frames = f /\ q.at = "text"
  <2>1. q = Snap(f, "text", 1, p.state, p.part) BY DEF StartsText
  <2> QED BY <2>1, SnapFields
<1>3. f # <<>>
  <2>1. ~IsString(body) BY BodyFacts
  <2> QED BY <1>1, <2>1 DEF ArgOf
<1>4. DocumentAt(f, "text") BY <1>1, <1>3, PlaceMoves DEF LastNamed, LastHeld
<1> QED BY <1>1, <1>2, <1>4, PlaceIs

LEMMA StartsNameSame ==
    ASSUME NEW p, NEW c, NEW q, Good(p), StartsName(p, c, q),
           expect = PlaceOf(p.frames, p.at), DocumentAt(p.frames, p.at)
    PROVE  expect = PlaceOf(q.frames, q.at) /\ DocumentAt(q.frames, q.at)
<1> DEFINE f == p.frames
           g == Begun(f)
           top == Deepest(f)
<1>1. /\ FramesOK(f) /\ f # <<>> /\ top.begun < Len(top.members)
      /\ (p.at = "comma" /\ top.begun > 0) \/ (p.at = "members" /\ top.begun = 0)
    BY DEF StartsName, Good, PlaceOK
<1>2. q.frames = g /\ q.at = "key"
  <2>1. q = Snap(g, "key", 1, p.state, p.part) BY DEF StartsName
  <2> HIDE DEF g
  <2> QED BY <2>1, SnapFields
<1>3. /\ g # <<>> /\ Len(g) = Len(f) /\ FramesOK(g)
      /\ Deepest(g).members = top.members /\ Deepest(g).begun = top.begun + 1
      /\ \A k \in 1..(Len(f) - 1) : g[k] = f[k]
    BY <1>1, BegunFacts
<1>4. Len(f) \in 1..2 /\ top.begun \in Nat BY <1>1, DeepestFacts
<1> HIDE DEF g
<1>5. expect = PlaceOf(g, "key")
  <2>1. CASE p.at = "comma" /\ top.begun > 0
    <3>1. Deepest(g).begun # 1 BY <1>3, <1>4, <2>1
    <3> QED BY <2>1, <3>1, PlaceIs
  <2>2. CASE p.at = "members" /\ top.begun = 0
    <3>1. Deepest(g).begun = 1 BY <1>3, <2>2
    <3> QED BY <2>2, <3>1, PlaceIs
  <2> QED BY <1>1, <2>1, <2>2
<1>6. LastNamed(g, "key") = LastNamed(f, p.at) /\ LastHeld(g, "key") = LastHeld(f, p.at)
  <2>1. LastNamed(g, "key") = top.begun /\ LastHeld(g, "key") = top.begun
      BY <1>3, <1>4 DEF LastNamed, LastHeld
  <2>2. LastNamed(f, p.at) = top.begun /\ LastHeld(f, p.at) = top.begun
      BY <1>1 DEF LastNamed, LastHeld
  <2> QED BY <2>1, <2>2
<1>7. Len(f) = 2 => g[1] = f[1] BY <1>3
<1>8. DocumentAt(g, "key") BY <1>1, <1>3, <1>6, <1>7 DEF DocumentAt
<1> QED BY <1>2, <1>5, <1>8

LEMMA ByteSame ==
    ASSUME NEW p, NEW c, NEW q, Continues(p, c, q) \/ Completes(p, c, q)
    PROVE  q.frames = p.frames /\ q.at = p.at /\ InString(p.at)
<1>1. CASE Continues(p, c, q)
  <2> DEFINE s == ArgOf(p.frames, p.at)
             b == s[p.next]
             part == IF Len(Piece(p.state, b)) = 1 THEN 0 ELSE 1
  <2>1. q = Snap(p.frames, p.at, p.next + 1, Decode(p.state, b), part) BY <1>1 DEF Continues
  <2> HIDE DEF part, b, s
  <2> QED BY <1>1, <2>1, SnapFields DEF Continues
<1>2. CASE Completes(p, c, q)
  <2> DEFINE s == ArgOf(p.frames, p.at)
             b == s[p.next - 1]
             part == IF p.part + 1 = Len(Escape(b, b)) THEN 0 ELSE p.part + 1
  <2>1. q = Snap(p.frames, p.at, p.next, p.state, part) BY <1>2 DEF Completes
  <2> HIDE DEF part, b, s
  <2> QED BY <1>2, <2>1, SnapFields DEF Completes
<1> QED BY <1>1, <1>2

-----------------------------------------------------------------------------
(* The end of an object.                                                   *)

\* An object of strings whose values were all read, and that is the last one open.
LEMMA ObjectRead ==
    ASSUME NEW id, NEW v, ~IsString(v), v.members \in MemberLists(Strings0),
           NEW n, n = Len(v.members), MembersAt(id, v.members, n, n), id # 0
    PROVE  /\ SameObject(id, v)
           /\ \A i \in 1..Len(v.members) :
                 nodes[id].items[v.members[i][1]] \in 1..Len(nodes)
<1>1. /\ id \in 1..Len(nodes) /\ nodes[id].kind = "object"
      /\ DOMAIN nodes[id].items = {v.members[i][1] : i \in 1..Len(v.members)}
      /\ \A i \in 1..Len(v.members) :
            Holds(nodes[id].items[v.members[i][1]], v.members[i][2])
    BY DEF MembersAt
<1>2. NamesOf(id, v) BY <1>1 DEF NamesOf
<1>3. ASSUME NEW i \in 1..Len(v.members)
      PROVE  /\ SameString(nodes[id].items[v.members[i][1]], v.members[i][2])
             /\ nodes[id].items[v.members[i][1]] \in 1..Len(nodes)
  <2>1. v.members[i][2] \in Strings0 BY ListFacts
  <2>2. IsString(v.members[i][2]) BY <2>1, StringFacts
  <2>3. Holds(nodes[id].items[v.members[i][1]], v.members[i][2]) BY <1>1
  <2> QED BY <2>2, <2>3 DEF Holds, SameObject
<1> QED BY <1>2, <1>3 DEF SameObject

\* The body, whose values were all read.
LEMMA BodyRead ==
    ASSUME NEW n, n = Len(body.members), MembersAt(1, body.members, n, n)
    PROVE  SameBody(body)
<1>1. /\ nodes[1].kind = "object"
      /\ DOMAIN nodes[1].items = {body.members[i][1] : i \in 1..Len(body.members)}
      /\ \A i \in 1..Len(body.members) :
            Holds(nodes[1].items[body.members[i][1]], body.members[i][2])
    BY DEF MembersAt
<1>2. NamesOf(1, body) BY <1>1 DEF NamesOf
<1>3. \A i \in 1..Len(body.members) :
         \/ SameString(nodes[1].items[body.members[i][1]], body.members[i][2])
         \/ SameObject(nodes[1].items[body.members[i][1]], body.members[i][2])
    BY <1>1 DEF Holds
<1> QED BY <1>2, <1>3 DEF SameBody

LEMMA BodyKept ==
    ASSUME body' = body, nodes' = nodes
    PROVE  SameBody(body)' <=> SameBody(body)
BY DEF SameBody, NamesOf, SameString, SameObject

\* What the end of an object does to the document, and where the parser waits then.
LEMMA ObjectEnds ==
    ASSUME ReaderTypes, Agree, outcome = "reading", expect \in {"object", "member"},
           NEW text0, Parse("end_object", text0), ReaderInv'
    PROVE  /\ refs' = Pop(refs) /\ nodes' = nodes /\ element' = element /\ outcome' = "reading"
           /\ expect' = IF Len(refs') = 0 THEN "end"
                        ELSE IF nodes[refs'[Len(refs')]].kind = "array" THEN "element"
                        ELSE "member"
<1>1. EndEmpty("end_object") \/ End("end_object") BY EndParsed
<1>2. /\ refs' = Pop(refs) /\ nodes' = nodes /\ element' = element /\ outcome' = outcome
      /\ expect' = After(states')
    BY <1>1 DEF EndEmpty, End, EndContainer
<1>3. ReaderTypes' /\ Agree' BY <1>2 DEF ReaderInv
<1> DEFINE s == states'
<1>4. IsSeq(s) BY <1>3 DEF ReaderTypes
<1>5. \/ Len(s) = 0 /\ After(s) = "end"
      \/ Len(s) > 0 /\ KindAt(s, Len(s)) = "array" /\ After(s) = "element"
      \/ Len(s) > 0 /\ KindAt(s, Len(s)) = "object" /\ After(s) = "member"
    BY <1>4, AfterWhat
<1>6. ~HasPending' BY <1>2, <1>5 DEF HasPending
<1>7. Len(refs') = Len(s) /\ Len(s) \in Nat
    BY <1>3, <1>4, <1>6, LenNat DEF Agree, Depths
<1>8. \A i \in 1..Len(s) : nodes'[refs'[i]].kind = KindAt(s, i)
    BY <1>3 DEF Agree, KindsMatch
<1>9. CASE Len(s) = 0 BY <1>2, <1>5, <1>7, <1>9
<1>10. CASE Len(s) > 0
  <2>1. Len(s) \in 1..Len(s) BY <1>7, <1>10
  <2>2. nodes[refs'[Len(refs')]].kind = KindAt(s, Len(s)) BY <1>2, <1>7, <1>8, <2>1
  <2>3. Len(refs') # 0 BY <1>7, <1>10
  <2>4. Len(s) # 0 BY <1>10
  <2> HIDE DEF s
  <2>5. expect' = After(s) BY <1>2 DEF s
  <2> QED BY <1>2, <1>5, <2>2, <2>3, <2>4, <2>5
<1> QED BY <1>7, <1>9, <1>10

LEMMA ClosesParsed ==
    ASSUME IsBody, body' = body, ReaderTypes, Agree, outcome = "reading",
           NEW p, NEW c, NEW q, Good(p), Closes(p, c, q),
           expect = PlaceOf(p.frames, p.at), DocumentAt(p.frames, p.at),
           NEW text0, Parse("end_object", text0), ReaderInv'
    PROVE  ParserFollows(q.frames, q.at)
<1> DEFINE f == p.frames
           g == q.frames
           top == Deepest(f)
<1>1. p.at = "members" /\ FramesOK(f) /\ f # <<>> /\ top.begun = Len(top.members)
    BY DEF Closes, Good, PlaceOK
<1>2. g = SubSeq(f, 1, Len(f) - 1) /\ q.at = Returned(g)
  <2> DEFINE h == SubSeq(f, 1, Len(f) - 1)
  <2>1. q = Snap(h, Returned(h), p.next, p.state, p.part) BY DEF Closes
  <2> HIDE DEF h
  <2>2. q.frames = h /\ q.at = Returned(h) BY <2>1, SnapFields
  <2> QED BY <2>2 DEF h
<1>3. expect \in {"object", "member"} BY <1>1, PlaceIs
<1>4. /\ refs' = Pop(refs) /\ nodes' = nodes /\ element' = element /\ outcome' = "reading"
      /\ expect' = IF Len(refs') = 0 THEN "end"
                   ELSE IF nodes[refs'[Len(refs')]].kind = "array" THEN "element"
                   ELSE "member"
    BY <1>3, ObjectEnds
<1>5. DocumentAt(f, "members") BY <1>1
<1>6. /\ refs # <<>> /\ Top \in 1..Len(nodes) /\ Len(refs) = Len(f)
      /\ Len(f) \in 1..2 /\ Top = refs[Len(f)] /\ refs[1] = 1
      /\ Len(f) = 1 => Top = 1 /\ top = f[1]
      /\ Len(f) = 2 => Top # 1 /\ top = f[2]
      /\ Len(nodes) \in Nat /\ 1 \in 1..Len(nodes)
    BY <1>1, <1>5, OpenFacts
<1>7. /\ Len(refs') = Len(refs) - 1 /\ \A i \in 1..(Len(refs) - 1) : refs'[i] = refs[i]
  <2>1. IsSeq(refs) /\ Len(refs) > 0 BY <1>6 DEF ReaderTypes, IsSeq
  <2> QED BY <1>4, <2>1, PopSeq
<1>8. FramesOK(g) /\ Len(g) = Len(f) - 1 /\ \A k \in 1..(Len(f) - 1) : g[k] = f[k]
    BY <1>1, <1>2, PopFacts
<1>9. MembersAt(Top, top.members, Len(top.members), Len(top.members))
  <2>1. LastNamed(f, "members") = Len(top.members) /\ LastHeld(f, "members") = Len(top.members)
      BY <1>1 DEF LastNamed, LastHeld
  <2> QED BY <1>1, <1>5, <2>1 DEF DocumentAt
<1>10. CASE Len(f) = 1
  <2>1. Len(g) = 0 /\ Len(refs') = 0 BY <1>6, <1>7, <1>8, <1>10
  <2>2. g = <<>> BY <1>8, <2>1 DEF FramesOK
  <2>3. top.members = body.members BY <1>1, <1>6, <1>10 DEF FramesOK
  <2>4. SameBody(body) BY <1>6, <1>9, <1>10, <2>3, BodyRead
  <2>5. SameBody(body)'
    <3>1. nodes' = nodes BY <1>4
    <3> QED BY <2>4, <3>1, BodyKept
  <2>6. q.at = "dumped" BY <1>2, <2>2 DEF Returned
  <2>7. DocumentAt(g, "dumped")' BY <2>1, <2>2, <2>5 DEF DocumentAt
  <2>8. expect' = PlaceOf(g, "dumped") BY <1>4, <2>1, PlaceIs
  <2> QED BY <1>4, <2>6, <2>7, <2>8 DEF ParserFollows
<1>11. CASE Len(f) = 2
  <2>1. Len(g) = 1 /\ Len(refs') = 1 /\ g[1] = f[1] /\ refs'[1] = 1
      BY <1>6, <1>7, <1>8, <1>11
  <2>2. g # <<>>
    <3>1. Len(g) # 0 BY <2>1
    <3> QED BY <3>1
  <2>3. Deepest(g) = f[1] /\ Top' = 1 BY <2>1 DEF Deepest, Top
  <2>4. Deepest(g).begun > 0 BY <1>1, <1>2, <2>2, PopFacts
  <2> DEFINE b == f[1].begun
             v == MemberAt(f[1])[2]
  <2>5. /\ ~IsString(v) /\ f[2].members = v.members /\ v \in Inside
    <3>1. ~IsString(v) /\ f[2].members = v.members BY <1>1, <1>11 DEF FramesOK
    <3>2. MemberAt(Deepest(g))[2] \in Inside BY <1>8, <2>2, <2>4, ValuesInside
    <3> QED BY <2>3, <3>1, <3>2
  <2>6. v.members \in MemberLists(Strings0) BY <2>5, ValueFacts DEF Values0
  <2>7. PICK id : id = Top OBVIOUS
  <2>8. MembersAt(id, v.members, Len(v.members), Len(v.members)) /\ id # 0
    <3>1. top.members = v.members BY <1>6, <1>11, <2>5
    <3>2. id # 0 BY <1>6, <2>7
    <3> HIDE DEF top, v
    <3> QED BY <1>9, <2>7, <3>1, <3>2
  <2>9. /\ SameObject(id, v)
        /\ \A i \in 1..Len(v.members) : nodes[id].items[v.members[i][1]] \in 1..Len(nodes)
      BY <2>5, <2>6, <2>8, ObjectRead
  <2>10. Holds(id, v)'
    <3>1. SameObject(id, v)' BY <1>4, <2>9 DEF SameObject, NamesOf, SameString
    <3>2. \A k \in 1..Len(refs') : refs'[k] # id
      <4>1. \A k \in 1..Len(refs') : k = 1 BY <2>1
      <4> QED BY <1>6, <1>11, <2>1, <2>7, <4>1
    <3>3. \A i \in 1..Len(v.members) : nodes'[id].items[v.members[i][1]] \in 1..Len(nodes')
        BY <1>4, <2>9
    <3> QED BY <1>4, <1>6, <2>7, <3>1, <3>2, <3>3 DEF Holds
  <2>11. PICK m \in Nat : b = m + 1
    <3>1. b \in Nat BY <1>8, <2>2, <2>3, DeepestFacts
    <3>2. PICK n \in Nat : n = b BY <3>1
    <3>3. n > 0 BY <2>3, <2>4, <3>2
    <3>4. n - 1 \in Nat /\ n = (n - 1) + 1 BY <3>3
    <3> QED BY <3>2, <3>4
  <2>12. b - 1 = m BY <2>11
  <2>13. /\ MembersAt(1, f[1].members, m + 1, m)
         /\ nodes[1].items[MemberAt(f[1])[1]] = Top
      BY <1>5, <1>11, <2>11, <2>12 DEF DocumentAt
  <2>14. Grows
    <3>1. \A k \in 1..Len(refs') : \E j \in 1..Len(refs) : refs[j] = refs'[k]
      <4>1. 1 \in 1..Len(refs) BY <1>6, <1>11
      <4>2. \A k \in 1..Len(refs') : refs'[k] = refs[1] BY <1>6, <2>1
      <4> QED BY <4>1, <4>2
    <3> QED BY <1>4, <1>6, <3>1 DEF Grows
  <2>15. MembersAt(1, f[1].members, m + 1, m)' BY <1>4, <2>13, <2>14, MembersKept
  <2>16. MemberAt(f[1]) = f[1].members[m + 1] BY <2>11 DEF MemberAt
  <2>17. nodes'[1].items[f[1].members[m + 1][1]] = id BY <1>4, <2>7, <2>13, <2>16
  <2>18. MembersAt(1, f[1].members, m + 1, m + 1)'
    <3>1. v = f[1].members[m + 1][2] BY <2>16
    <3>2. Holds(id, f[1].members[m + 1][2])' BY <2>10, <3>1
    <3> QED BY <2>15, <2>17, <3>2, OneMoreHeld
  <2>19. LastNamed(g, "members") = m + 1 /\ LastHeld(g, "members") = m + 1
      BY <2>3, <2>11 DEF LastNamed, LastHeld
  <2>20. MembersAt(Top, Deepest(g).members, LastNamed(g, "members"), LastHeld(g, "members"))'
      BY <2>3, <2>18, <2>19
  <2>21. Len(g) # 2 BY <2>1
  <2>22. DocumentAt(g, "members")' BY <2>1, <2>2, <2>20, <2>21 DEF DocumentAt
  <2>23. q.at = "members" BY <1>2, <2>2 DEF Returned
  <2>24. expect' = "member"
    <3>1. nodes[1].kind = "object" BY <2>13 DEF MembersAt
    <3> QED BY <1>4, <2>1, <3>1
  <2>25. PlaceOf(g, "members") = "member"
    <3>1. Deepest(g).begun # 0 BY <2>4
    <3> QED BY <3>1, PlaceIs
  <2> QED BY <1>4, <2>22, <2>23, <2>24, <2>25 DEF ParserFollows
<1> QED BY <1>6, <1>10, <1>11

-----------------------------------------------------------------------------
(* A step of the reader, with a byte that the writer wrote.                *)

LEMMA ScannerKept ==
    ASSUME body' = body, NEW l, NEW p, ScannerAt(l, p)
    PROVE  ScannerAt(l, p)'
BY DEF ScannerAt, ArgOf

LEMMA FollowsIs ==
    ASSUME body' = body, NEW k, lex' = k, NEW q, ScannerAt(k, q), ParserFollows(q.frames, q.at)
    PROVE  Follows(q)'
<1>1. ScannerAt(k, q)' BY ScannerKept
<1>2. ScannerAt(lex, q)' BY <1>1 DEF ScannerAt
<1> QED BY <1>2 DEF Follows, ParserFollows

LEMMA ReadIs ==
    ASSUME ReaderInv, NEW c, Read(c), NEW l, l = lex, NEW k, k = Scan(l, c)
    PROVE  /\ outcome = "reading" /\ ReaderTypes /\ Agree /\ ReaderInv' /\ lex' = k
           /\ k.token = "none" => UNCHANGED <<states, expect, nodes, refs, element, outcome>>
           /\ k.token # "none" => Parse(k.token, k.buffer)
<1>1. lex' = k /\ outcome = "reading" BY DEF Read
<1>2. \/ k.token = "none" /\ UNCHANGED parser
      \/ k.token # "none" /\ Parse(k.token, k.buffer)
    BY <1>1, Zenon DEF Read
<1>3. UNCHANGED parser => UNCHANGED <<states, expect, nodes, refs, element, outcome>>
    BY DEF parser, document
<1> QED BY <1>1, <1>2, <1>3, ReadAgrees DEF ReaderInv

\* Braces, colons and commas.
LEMMA MarksFollow ==
    ASSUME IsBody, body' = body, ReaderInv, LexerOK(lex),
           NEW p, NEW c, NEW q, Good(p), Emits(p, c, q), Follows(p), Read(c),
           Opens(p, c, q) \/ Points(p, c, q) \/ Separates(p, c, q) \/ Closes(p, c, q)
    PROVE  Follows(q)'
<1>1. PICK l : l = lex OBVIOUS
<1>2. PICK k : k = Scan(l, c) OBVIOUS
<1>3. LexerOK(l) /\ ScannerAt(l, p) BY <1>1 DEF Follows
<1>4. expect = PlaceOf(p.frames, p.at) /\ DocumentAt(p.frames, p.at) BY DEF Follows
<1>5. /\ outcome = "reading" /\ ReaderTypes /\ Agree /\ ReaderInv' /\ lex' = k
      /\ k.token # "none" => Parse(k.token, k.buffer)
    BY <1>1, <1>2, ReadIs
<1>6. Good(q) BY EmitsGood
<1>7. /\ c \in Marks /\ ~InString(p.at) /\ ~InString(q.at)
      /\ q.at = "value" => q.frames # <<>>
  <2>1. CASE Opens(p, c, q)
    <3> DEFINE g == Append(p.frames, [members |-> ArgOf(p.frames, "value").members, begun |-> 0])
    <3>1. q = Snap(g, "members", p.next, p.state, p.part) BY <2>1 DEF Opens
    <3> HIDE DEF g
    <3>2. q.at = "members" BY <3>1, SnapFields
    <3>3. p.at = "value" /\ c = 123 BY <2>1 DEF Opens
    <3> QED BY <3>2, <3>3 DEF Marks, InString
  <2>2. CASE Points(p, c, q)
    <3>1. q = Snap(p.frames, "value", p.next, p.state, p.part) BY <2>2 DEF Points
    <3>2. q.at = "value" /\ q.frames = p.frames BY <3>1, SnapFields
    <3>3. p.at = "colon" /\ c = 58 BY <2>2 DEF Points
    <3>4. p.frames # <<>> BY <3>3 DEF Good, PlaceOK
    <3> QED BY <3>2, <3>3, <3>4 DEF Marks, InString
  <2>3. CASE Separates(p, c, q)
    <3>1. q = Snap(p.frames, "comma", p.next, p.state, p.part) BY <2>3 DEF Separates
    <3>2. q.at = "comma" BY <3>1, SnapFields
    <3>3. p.at = "members" /\ c = 44 BY <2>3 DEF Separates
    <3> QED BY <3>2, <3>3 DEF Marks, InString
  <2>4. CASE Closes(p, c, q)
    <3> DEFINE g == SubSeq(p.frames, 1, Len(p.frames) - 1)
    <3>1. q = Snap(g, Returned(g), p.next, p.state, p.part) BY <2>4 DEF Closes
    <3> HIDE DEF g
    <3>2. q.at \in {"dumped", "members"} BY <3>1, SnapFields DEF Returned
    <3>3. p.at = "members" /\ c = 125 BY <2>4 DEF Closes
    <3> QED BY <3>2, <3>3 DEF Marks, InString
  <2> QED BY <2>1, <2>2, <2>3, <2>4
<1>8. ScannerAt(k, q) /\ k.token = MarkToken(c) BY <1>2, <1>3, <1>7, MarkRead
<1>9. Parse(MarkToken(c), k.buffer) BY <1>5, <1>8 DEF MarkToken
<1>10. PICK t : t = k.buffer OBVIOUS
<1>11. Parse(MarkToken(c), t) BY <1>9, <1>10
<1>12. ParserFollows(q.frames, q.at)
  <2>1. CASE Opens(p, c, q)
    <3>1. Parse("begin_object", t) BY <1>11, <2>1 DEF Opens, MarkToken
    <3> QED BY <1>4, <1>5, <2>1, <3>1, OpensParsed
  <2>2. CASE Points(p, c, q)
    <3>1. Parse("name_separator", t) BY <1>11, <2>2 DEF Points, MarkToken
    <3> QED BY <1>4, <1>5, <2>2, <3>1, PointsParsed
  <2>3. CASE Separates(p, c, q)
    <3>1. Parse("value_separator", t) BY <1>11, <2>3 DEF Separates, MarkToken
    <3> QED BY <1>4, <1>5, <2>3, <3>1, SeparatesParsed
  <2>4. CASE Closes(p, c, q)
    <3>1. Parse("end_object", t) BY <1>11, <2>4 DEF Closes, MarkToken
    <3> QED BY <1>4, <1>5, <2>4, <3>1, ClosesParsed
  <2> QED BY <2>1, <2>2, <2>3, <2>4
<1> QED BY <1>5, <1>8, <1>12, FollowsIs

\* The quote that ends a name or a value.
LEMMA EndsFollow ==
    ASSUME IsBody, body' = body, ReaderInv, LexerOK(lex),
           NEW p, NEW c, NEW q, Good(p), Emits(p, c, q), Follows(p), Read(c),
           EndsText(p, c, q) \/ EndsName(p, c, q)
    PROVE  Follows(q)'
<1>1. PICK l : l = lex OBVIOUS
<1>2. PICK k : k = Scan(l, c) OBVIOUS
<1>3. LexerOK(l) /\ ScannerAt(l, p) BY <1>1 DEF Follows
<1>4. expect = PlaceOf(p.frames, p.at) /\ DocumentAt(p.frames, p.at) BY DEF Follows
<1>5. /\ outcome = "reading" /\ ReaderTypes /\ Agree /\ ReaderInv' /\ lex' = k
      /\ k.token # "none" => Parse(k.token, k.buffer)
    BY <1>1, <1>2, ReadIs
<1>6. /\ c = 34 /\ InString(p.at) /\ Ended(p) /\ StringOK(p)
      /\ q.frames = p.frames /\ q.at \in {"members", "dumped", "colon"}
  <2>1. CASE EndsText(p, c, q)
    <3> DEFINE at == Returned(p.frames)
    <3>1. q = Snap(p.frames, at, p.next, p.state, p.part) BY <2>1 DEF EndsText
    <3> HIDE DEF at
    <3>2. q.at = at /\ q.frames = p.frames BY <3>1, SnapFields
    <3>3. at \in {"members", "dumped"} BY DEF at, Returned
    <3> QED BY <2>1, <3>2, <3>3 DEF EndsText, InString, Good
  <2>2. CASE EndsName(p, c, q)
    <3>1. q = Snap(p.frames, "colon", p.next, p.state, p.part) BY <2>2 DEF EndsName
    <3>2. q.at = "colon" /\ q.frames = p.frames BY <3>1, SnapFields
    <3> QED BY <2>2, <3>2 DEF EndsName, InString, Good
  <2> QED BY <2>1, <2>2
<1>7. ArgOf(p.frames, p.at) \in Seq(Bytes) BY <1>6, ArgFacts
<1>8. q.at # "value" /\ ~InString(q.at) BY <1>6 DEF InString
<1>9. ScannerAt(k, q) /\ k.token = "value_string" /\ k.buffer = ArgOf(p.frames, p.at)
    BY <1>2, <1>3, <1>6, <1>7, <1>8, EndRead
<1>10. Parse("value_string", ArgOf(p.frames, p.at)) BY <1>5, <1>9
<1>11. ParserFollows(q.frames, q.at)
  <2>1. CASE EndsText(p, c, q) BY <1>4, <1>5, <1>10, <2>1, EndsTextParsed
  <2>2. CASE EndsName(p, c, q) BY <1>4, <1>5, <1>10, <2>2, EndsNameParsed
  <2> QED BY <2>1, <2>2
<1> QED BY <1>5, <1>9, <1>11, FollowsIs

\* The quote that begins one, and the bytes in it.
LEMMA BytesFollow ==
    ASSUME IsBody, body' = body, ReaderInv, LexerOK(lex),
           NEW p, NEW c, NEW q, Good(p), Emits(p, c, q), Follows(p), Read(c),
           \/ StartsText(p, c, q) \/ StartsName(p, c, q)
           \/ Continues(p, c, q) \/ Completes(p, c, q)
    PROVE  Follows(q)'
<1>1. PICK l : l = lex OBVIOUS
<1>2. PICK k : k = Scan(l, c) OBVIOUS
<1>3. LexerOK(l) /\ ScannerAt(l, p) BY <1>1 DEF Follows
<1>4. expect = PlaceOf(p.frames, p.at) /\ DocumentAt(p.frames, p.at) BY DEF Follows
<1>5. /\ outcome = "reading" /\ lex' = k
      /\ k.token = "none" => UNCHANGED <<states, expect, nodes, refs, element, outcome>>
    BY <1>1, <1>2, ReadIs
<1>6. Good(q) BY EmitsGood
<1>7. ASSUME StartsText(p, c, q) \/ StartsName(p, c, q)
      PROVE  /\ c = 34 /\ ~InString(p.at) /\ InString(q.at)
             /\ q.next = 1 /\ q.state = 0 /\ q.part = 0
  <2>0. p.at \in {"value", "comma", "members"} /\ c = 34 BY <1>7 DEF StartsText, StartsName
  <2>1. ~InString(p.at) BY <2>0 DEF InString
  <2>2. p.state = 0 /\ p.part = 0 BY <2>1 DEF Good
  <2> DEFINE g == Begun(p.frames)
  <2>3. q = Snap(p.frames, "text", 1, p.state, p.part) \/ q = Snap(g, "key", 1, p.state, p.part)
      BY <1>7 DEF StartsText, StartsName
  <2> HIDE DEF g
  <2>4. q.at \in {"text", "key"} /\ q.next = 1 /\ q.state = p.state /\ q.part = p.part
      BY <2>3, SnapFields
  <2> QED BY <2>0, <2>1, <2>2, <2>4 DEF InString
<1>8. ScannerAt(k, q) /\ k.token = "none"
  <2>1. CASE StartsText(p, c, q) \/ StartsName(p, c, q)
    <3>1. ArgOf(q.frames, q.at) \in Seq(Bytes) BY <1>6, <1>7, <2>1, ArgFacts
    <3>2. k = Scan(l, 34) BY <1>2, <1>7, <2>1
    <3> QED BY <1>3, <1>7, <2>1, <3>1, <3>2, QuoteRead
  <2>2. CASE Continues(p, c, q) BY <1>2, <1>3, <2>2, ByteRead
  <2>3. CASE Completes(p, c, q) BY <1>2, <1>3, <2>3, EscapeRead
  <2> QED BY <2>1, <2>2, <2>3
<1>9. expect = PlaceOf(q.frames, q.at) /\ DocumentAt(q.frames, q.at)
  <2>1. CASE StartsText(p, c, q) BY <1>4, <2>1, StartsTextSame
  <2>2. CASE StartsName(p, c, q) BY <1>4, <2>2, StartsNameSame
  <2>3. CASE Continues(p, c, q) \/ Completes(p, c, q) BY <1>4, <2>3, ByteSame
  <2> QED BY <2>1, <2>2, <2>3
<1>10. DocumentAt(q.frames, q.at)'
  <2>1. PICK f : f = q.frames OBVIOUS
  <2>2. PICK at : at = q.at OBVIOUS
  <2>3. DocumentAt(f, at)' BY <1>5, <1>8, <1>9, <2>1, <2>2, DocumentKept
  <2> QED BY <2>1, <2>2, <2>3
<1>11. ParserFollows(q.frames, q.at) BY <1>5, <1>8, <1>9, <1>10 DEF ParserFollows
<1> QED BY <1>5, <1>8, <1>11, FollowsIs

\* The reader follows the writer, byte by byte.
LEMMA ReadFollows ==
    ASSUME IsBody, body' = body, ReaderInv, LexerOK(lex),
           NEW p, NEW c, NEW q, Good(p), Emits(p, c, q), Follows(p), Read(c)
    PROVE  Follows(q)'
BY MarksFollow, EndsFollow, BytesFollow DEF Emits

-----------------------------------------------------------------------------
(* The end of what there is to read.                                       *)

LEMMA FailFields ==
    ASSUME NEW k \in Lexers
    PROVE  /\ Fail(k).token = "parse_error" /\ Fail(k).current = k.current
           /\ Token(k, "end_of_input").token = "end_of_input"
           /\ Token(k, "end_of_input").current = k.current
BY DEF Fail, Token, Lexers

LEMMA EndNotInString ==
    ASSUME NEW k, LexerOK(k)
    PROVE  /\ k.at = "string" => ScanChar(k, EOF) = Fail(k)
           /\ k.at = "utf8" => ScanUtf8(k, EOF) = Fail(k)
           /\ ScanEscape(k, EOF) = Fail(k)
           /\ ScanHex(k, EOF) = Fail(k)
<1>1. ScanChar(k, EOF) = Fail(k)
  <2>1. Utf8Rest(EOF) = <<>>
    <3>1. EOF \notin 194..244 BY DEF EOF
    <3> QED BY <3>1, RestFacts
  <2>2. EOF # Quote /\ EOF # Backslash /\ EOF \notin Plain /\ EOF \notin Control
      BY DEF EOF, Quote, Backslash, Plain, Control
  <2> QED BY <2>1, <2>2 DEF ScanChar
<1>2. ASSUME k.at = "utf8" PROVE ScanUtf8(k, EOF) = Fail(k)
  <2>1. k.rest \in Seq(Ranges) /\ k.rest # <<>> BY <1>2 DEF LexerOK
  <2>2. Head(k.rest) \in Ranges BY <2>1
  <2>3. PICK r \in Ranges : r = Head(k.rest) BY <2>2
  <2>4. r[1] \in Bytes /\ r[2] \in Bytes BY DEF Ranges
  <2>5. EOF \notin r[1]..r[2] BY <2>4 DEF Bytes, EOF
  <2> QED BY <2>3, <2>5 DEF ScanUtf8
<1>3. ScanEscape(k, EOF) = Fail(k)
  <2>1. \A u \in Unescaped : u[1] # EOF BY DEF Unescaped, Quote, Backslash, EOF
  <2>2. EOF # 117 BY DEF EOF
  <2> QED BY <2>1, <2>2 DEF ScanEscape
<1>4. ScanHex(k, EOF) = Fail(k)
  <2>1. EOF \notin HexDigits BY DEF HexDigits, EOF
  <2> QED BY <2>1 DEF ScanHex
<1> QED BY <1>1, <1>2, <1>3, <1>4

LEMMA EndOutside ==
    ASSUME NEW k
    PROVE  ScanStart(k, EOF) = Token(k, "end_of_input")
<1>1. EOF \in SingleBytes /\ EOF \notin Whitespace BY DEF SingleBytes, Whitespace, EOF
<1>2. EOF # Quote /\ ~StartsLiteral(EOF) /\ ~StartsNumber(EOF) BY <1>1, FirstByteTells
<1>3. ScanStart(k, EOF) = Token(k, Single(EOF))
    BY <1>1, <1>2 DEF ScanStart, StartsLiteral, StartsNumber
<1>4. Single(EOF) = "end_of_input"
    BY DEF Single, EOF, OpenBracket, CloseBracket, OpenBrace, CloseBrace, Colon, Comma
<1> QED BY <1>3, <1>4

LEMMA EndScanned ==
    ASSUME NEW l, LexerOK(l), NEW p, Good(p), ScannerAt(l, p)
    PROVE  /\ Scan(l, EOF).current = EOF
           /\ InString(p.at) => Scan(l, EOF).token = "parse_error"
           /\ ~InString(p.at) => Scan(l, EOF).token = "end_of_input"
<1>1. EOF \in 0..EOF BY DEF EOF
<1>2. PICK k : k = Got(l, EOF) OBVIOUS
<1>3. LexerOK(k) /\ k.at = l.at /\ k.current = EOF BY <1>1, <1>2, GotOK
<1>4. k \in Lexers BY <1>3 DEF LexerOK
<1>5. CASE InString(p.at)
  <2>1. l.at \in {"string", "utf8", "escape", "hex"}
    <3>1. StringOK(p) BY <1>5 DEF Good
    <3>2. p.part \in 0..5 BY <3>1 DEF StringOK
    <3>3. p.part = 0 \/ p.part = 1 \/ p.part > 1 BY <3>2
    <3>4. /\ p.part = 0 /\ p.state = 0 => l.at = "string"
          /\ p.part = 0 /\ p.state # 0 => l.at = "utf8"
          /\ p.part = 1 => l.at = "escape"
          /\ p.part > 1 => l.at = "hex"
        BY <1>5 DEF ScannerAt
    <3> QED BY <3>3, <3>4
  <2>2. /\ l.at = "string" => Scan(l, EOF) = ScanChar(k, EOF)
        /\ l.at = "utf8" => Scan(l, EOF) = ScanUtf8(k, EOF)
        /\ l.at = "escape" => Scan(l, EOF) = ScanEscape(k, EOF)
        /\ l.at = "hex" => Scan(l, EOF) = ScanHex(k, EOF)
      BY <1>1, <1>2, ScanPart
  <2>3. Scan(l, EOF) = Fail(k) BY <1>3, <2>1, <2>2, EndNotInString
  <2> QED BY <1>3, <1>4, <1>5, <2>3, FailFields
<1>6. CASE ~InString(p.at)
  <2>1. l.at \in {"bom", "start"} BY <1>6 DEF ScannerAt
  <2>2. /\ l.at = "bom" => Scan(l, EOF) = ScanBom(k, EOF)
        /\ l.at = "start" => Scan(l, EOF) = ScanStart(k, EOF)
      BY <1>1, <1>2, ScanPart
  <2>3. k.at = "bom" => ScanBom(k, EOF) = ScanStart(k, EOF) BY DEF ScanBom, EOF
  <2>4. Scan(l, EOF) = Token(k, "end_of_input") BY <1>3, <2>1, <2>2, <2>3, EndOutside
  <2> QED BY <1>3, <1>4, <1>6, <2>4, FailFields
<1> QED BY <1>5, <1>6

LEMMA FinishParsed ==
    ASSUME NEW text0, Parse("end_of_input", text0), expect = "end"
    PROVE  Finish("end_of_input")
BY ExpectedIs DEF Parse, Begin, EndEmpty, Value, NumberOverflows, Key, NameSeparator,
    ValueSeparator, End, Finish, Unexpected, Containers, ValueExpected

LEMMA CutParsed ==
    ASSUME NEW token \in {"end_of_input", "parse_error"}, NEW text0, Parse(token, text0),
           expect # "end"
    PROVE  Unexpected(token)
<1>1. ~\E kind \in Containers : Begin(token, kind) BY BeginToken
<1>2. ~EndEmpty(token) BY EndEmptyToken
<1>3. ~Value(token, text0) /\ ~NumberOverflows(token, text0)
    BY DEF Value, NumberOverflows, Scalars, Numeric
<1>4. ~Key(token, text0) /\ ~NameSeparator(token) /\ ~ValueSeparator(token) /\ ~End(token)
      /\ ~Finish(token)
    BY DEF Key, NameSeparator, ValueSeparator, End, Finish
<1> QED BY <1>1, <1>2, <1>3, <1>4 DEF Parse

\* What ends where the writer has ended is its body; what ends elsewhere is an error.
LEMMA EndFollows ==
    ASSUME body' = body, ReaderInv, LexerOK(lex), NEW p, Good(p), Follows(p), Read(EOF)
    PROVE  /\ p.at = "dumped" => outcome' = "value" /\ SameBody(body)'
           /\ p.at # "dumped" => outcome' = "parse_error" /\ lex'.current = EOF
<1>1. PICK l : l = lex OBVIOUS
<1>2. PICK k : k = Scan(l, EOF) OBVIOUS
<1>3. LexerOK(l) /\ ScannerAt(l, p) BY <1>1 DEF Follows
<1>4. expect = PlaceOf(p.frames, p.at) /\ DocumentAt(p.frames, p.at) BY DEF Follows
<1>5. lex' = k /\ (k.token # "none" => Parse(k.token, k.buffer)) BY <1>1, <1>2, ReadIs
<1>6. /\ k.current = EOF
      /\ InString(p.at) => k.token = "parse_error"
      /\ ~InString(p.at) => k.token = "end_of_input"
    BY <1>2, <1>3, EndScanned
<1>7. PICK t : t = k.buffer OBVIOUS
<1>8. CASE p.at = "dumped"
  <2>1. p.frames = <<>> BY <1>8 DEF Good, PlaceOK
  <2>2. SameBody(body) BY <1>4, <1>8, <2>1 DEF DocumentAt
  <2>3. expect = "end" BY <1>4, <1>8, PlaceIs
  <2>4. Parse("end_of_input", t) BY <1>5, <1>6, <1>7, <1>8 DEF InString
  <2>5. Finish("end_of_input") BY <2>3, <2>4, FinishParsed
  <2>6. outcome' = "value" /\ nodes' = nodes BY <2>5 DEF Finish, document
  <2> QED BY <1>8, <2>2, <2>6, BodyKept
<1>9. CASE p.at # "dumped"
  <2>1. p.at \in {"value", "members", "comma", "key", "colon", "text"}
      BY <1>9 DEF Good, PlaceOK
  <2>2. expect # "end" BY <1>4, <2>1, PlaceIs
  <2>3. PICK token : token = k.token OBVIOUS
  <2>4. token \in {"end_of_input", "parse_error"} /\ Parse(token, t)
    <3>1. token \in {"end_of_input", "parse_error"} BY <1>6, <2>3
    <3> QED BY <1>5, <1>7, <2>3, <3>1
  <2>5. Unexpected(token) BY <2>2, <2>4, CutParsed
  <2> QED BY <1>5, <1>6, <1>9, <2>5 DEF Unexpected
<1> QED BY <1>8, <1>9

-----------------------------------------------------------------------------
(* What was read of a body, when it was written.                           *)

\* The reader is where the writer was when it had written as much.
ReadAlong(h) ==
    /\ Path(h, out) /\ h[Len(h)].at = "dumped"
    /\ Len(text) <= Len(out) /\ text = SubSeq(out, 1, Len(text))
    /\ outcome = "reading" => Follows(h[Len(text) + 1])
    /\ outcome = "value" => text = out /\ SameBody(body)
    /\ outcome = "parse_error" => lex.current = EOF /\ text # out
    /\ outcome # "out_of_range"

Reads ==
    body # NoBody =>
        /\ ahead = <<>> /\ left = 0
        /\ writing # "dumped" => ReaderInit /\ text = <<>>
        /\ writing = "dumped" => \E h : ReadAlong(h)

ReadInv == TypeInv /\ Reads

LEMMA FollowsKept ==
    ASSUME body' = body, UNCHANGED reader, NEW p, Follows(p)
    PROVE  Follows(p)'
<1>1. UNCHANGED <<lex, states, expect, nodes, refs, element, outcome>>
    BY DEF reader, parser, document
<1>2. PICK l : l = lex OBVIOUS
<1>3. ScannerAt(l, p) BY <1>2 DEF Follows
<1>4. PICK f : f = p.frames OBVIOUS
<1>5. PICK at : at = p.at OBVIOUS
<1>6. DocumentAt(f, at)' BY <1>1, <1>4, <1>5, DocumentKept DEF Follows
<1>7. ParserFollows(p.frames, p.at) BY <1>1, <1>4, <1>5, <1>6 DEF Follows, ParserFollows
<1> QED BY <1>1, <1>2, <1>3, <1>7, FollowsIs

\* Reading begins where writing began.
LEMMA ReadingBegins ==
    ASSUME body' = body, ReaderInit, UNCHANGED reader
    PROVE  Follows(Start)'
<1>1. /\ lex = LexerStart /\ expect = "value" /\ nodes = <<>> /\ refs = <<>>
      /\ outcome = "reading"
    BY DEF ReaderInit
<1>2. Start.frames = <<>> /\ Start.at = "value" BY SnapFields DEF Start
<1>3. ScannerAt(lex, Start) BY <1>1, <1>2 DEF ScannerAt, LexerStart, InString
<1>4. DocumentAt(Start.frames, Start.at)
  <2>1. Len(refs) = Len(Start.frames) BY <1>1, <1>2
  <2>2. Len(Start.frames) # 2 BY <1>2
  <2> QED BY <1>1, <1>2, <2>1, <2>2 DEF DocumentAt
<1>5. expect = PlaceOf(Start.frames, Start.at) BY <1>1, <1>2, PlaceIs
<1>6. Follows(Start) BY <1>1, <1>3, <1>4, <1>5 DEF Follows
<1> QED BY <1>6, FollowsKept

\* The writer is done.
LEMMA WritingEnds ==
    ASSUME body' = body, body # NoBody, WriterAt', writing' = "dumped", ReaderInit,
           UNCHANGED reader, text' = <<>>
    PROVE  \E h : ReadAlong(h)'
<1>1. (IsBody /\ Writes)' BY DEF WriterAt
<1>2. buffer' = <<>> /\ Reaches(out \o buffer, Cur)' BY <1>1 DEF Writes, InString
<1>3. PICK s : s = out' OBVIOUS
<1>4. s \in Seq(Bytes) BY <1>3 DEF WriterAt, WriterTypes
<1>5. PICK w : w = Cur' OBVIOUS
<1>6. Reaches(s, w)'
  <2>1. out' \o buffer' = s BY <1>2, <1>3, <1>4
  <2> QED BY <1>2, <1>5, <2>1 DEF Reaches
<1>7. PICK h : Path(h, s)' /\ h[Len(h)] = w BY <1>6 DEF Reaches
<1>8. w.at = "dumped" BY <1>5, SnapFields DEF Cur
<1>9. h[1] = Start /\ Follows(Start)'
  <2>1. h[1] = Start BY <1>7 DEF Path
  <2> QED BY <2>1, ReadingBegins
<1>10. /\ Len(text') <= Len(out') /\ text' = SubSeq(out', 1, Len(text')) /\ Len(text') + 1 = 1
  <2>1. Len(text') = 0 /\ Len(s) \in Nat BY <1>4
  <2>2. SubSeq(s, 1, 0) = <<>> BY <1>4
  <2> QED BY <1>3, <2>1, <2>2
<1>11. Follows(h[Len(text) + 1])'
  <2>1. PICK q : q = h[1] OBVIOUS
  <2>2. Follows(q)' BY <1>9, <2>1
  <2>3. q = h[Len(text') + 1] BY <1>10, <2>1
  <2> QED BY <2>2, <2>3
<1>12. outcome' = "reading" BY <1>9 DEF Follows
<1>13. Path(h, out)' BY <1>3, <1>7
<1>14. ReadAlong(h)' BY <1>7, <1>8, <1>10, <1>11, <1>12, <1>13 DEF ReadAlong
<1> QED BY <1>14

\* Nothing was read.
LEMMA AlongKept ==
    ASSUME body' = body, UNCHANGED reader, UNCHANGED writer, text' = text,
           NEW h, ReadAlong(h)
    PROVE  ReadAlong(h)'
<1>1. UNCHANGED <<lex, states, expect, nodes, refs, element, outcome>> /\ out' = out
    BY DEF reader, parser, document, writer
<1>2. PICK s : s = out OBVIOUS
<1>3. Path(h, out)'
  <2>1. Path(h, s)' BY <1>2, PathKept DEF ReadAlong
  <2> QED BY <1>1, <1>2, <2>1
<1>4. SameBody(body)' <=> SameBody(body) BY <1>1, BodyKept
<1>5. outcome = "reading" => Follows(h[Len(text) + 1])'
  <2> SUFFICES ASSUME outcome = "reading" PROVE Follows(h[Len(text) + 1])' OBVIOUS
  <2>1. PICK p : p = h[Len(text) + 1] OBVIOUS
  <2>2. Follows(p)' BY <2>1, FollowsKept DEF ReadAlong
  <2>3. p = h[Len(text') + 1] BY <2>1
  <2> QED BY <2>2, <2>3
<1> QED BY <1>1, <1>3, <1>4, <1>5 DEF ReadAlong

\* One more byte was read.
LEMMA AlongStep ==
    ASSUME IsBody, body' = body, ReaderInv, LexerOK(lex), out \in Seq(Bytes),
           text \in Seq(Bytes), UNCHANGED writer, NEW h, ReadAlong(h),
           Len(text) < Len(out), Read(out[Len(text) + 1]), text' = Append(text, out[Len(text) + 1])
    PROVE  ReadAlong(h)'
<1>1. PICK n \in Nat : n = Len(text) BY LenNat DEF IsSeq
<1>2. PICK s \in Seq(Bytes) : s = out OBVIOUS
<1>3. out' = s BY <1>2 DEF writer
<1>4. PICK c : c = s[n + 1] OBVIOUS
<1>5. n + 1 \in 1..Len(s) /\ n \in 0..Len(s) /\ Len(s) \in Nat
  <2>1. Len(s) \in Nat /\ n < Len(s) BY <1>1, <1>2
  <2> QED BY <2>1
<1>6. Read(c) /\ text' = Append(text, c) BY <1>1, <1>2, <1>4
<1>7. Path(h, s) BY <1>2 DEF ReadAlong
<1>8. PICK p : p = h[n + 1] OBVIOUS
<1>9. PICK q : q = h[n + 2] OBVIOUS
<1>10. Good(p) /\ Emits(p, c, q)
  <2>1. n + 1 \in 1..Len(h) /\ (n + 1) + 1 = n + 2 BY <1>5, <1>7 DEF Path
  <2>2. Emits(h[n + 1], s[n + 1], h[(n + 1) + 1]) BY <1>5, <1>7 DEF Path
  <2>3. Good(h[n + 1]) BY <1>7, <2>1 DEF Path
  <2> QED BY <1>4, <1>8, <1>9, <2>1, <2>2, <2>3
<1>11. Follows(p) BY <1>1, <1>6, <1>8 DEF ReadAlong, Read
<1>12. Follows(q)' BY <1>6, <1>10, <1>11, ReadFollows
<1>13. Len(text') = n + 1 BY <1>1, <1>6
<1>14. Follows(h[Len(text) + 1])'
  <2>1. Len(text') + 1 = n + 2 BY <1>13
  <2>2. q = h[Len(text') + 1] BY <1>9, <2>1
  <2> QED BY <1>12, <2>2
<1>15. outcome' = "reading" BY <1>12 DEF Follows
<1>16. text' = SubSeq(s, 1, n + 1)
  <2>1. text = SubSeq(s, 1, n) BY <1>1, <1>2 DEF ReadAlong
  <2>2. SubSeq(s, 1, n + 1) = Append(SubSeq(s, 1, n), s[n + 1]) BY <1>5
  <2> QED BY <1>4, <1>6, <2>1, <2>2
<1>17. Path(h, out)'
  <2>1. Path(h, s)' BY <1>7, PathKept
  <2> QED BY <1>3, <2>1
<1>18. h[Len(h)].at = "dumped" BY DEF ReadAlong
<1>19. Len(text') <= Len(out') /\ text' = SubSeq(out', 1, Len(text'))
    BY <1>3, <1>5, <1>13, <1>16
<1> QED BY <1>14, <1>15, <1>17, <1>18, <1>19 DEF ReadAlong

\* No more is there to be read.
LEMMA AlongEnds ==
    ASSUME IsBody, body' = body, ReaderInv, LexerOK(lex), out \in Seq(Bytes),
           text \in Seq(Bytes), UNCHANGED writer, NEW h, ReadAlong(h), Read(EOF), text' = text
    PROVE  ReadAlong(h)'
<1>1. PICK n \in Nat : n = Len(text) BY LenNat DEF IsSeq
<1>2. PICK s \in Seq(Bytes) : s = out OBVIOUS
<1>3. out' = s BY <1>2 DEF writer
<1>4. Len(s) \in Nat /\ n <= Len(s) /\ text = SubSeq(s, 1, n) BY <1>1, <1>2 DEF ReadAlong
<1>5. Path(h, s) /\ h[Len(h)].at = "dumped" BY <1>2 DEF ReadAlong
<1>6. PICK p : p = h[n + 1] OBVIOUS
<1>7. Len(h) = Len(s) + 1 /\ n + 1 \in 1..Len(h) BY <1>4, <1>5 DEF Path
<1>8. Good(p) BY <1>5, <1>6, <1>7 DEF Path
<1>9. Follows(p) BY <1>1, <1>6 DEF ReadAlong, Read
<1>10. p.at = "dumped" <=> text = s
  <2>1. CASE n = Len(s)
    <3>1. text = s BY <1>4, <2>1
    <3>2. p = h[Len(h)] BY <1>6, <1>7, <2>1
    <3> QED BY <1>5, <3>1, <3>2
  <2>2. CASE n # Len(s)
    <3>1. text # s BY <1>1, <2>2
    <3>2. n + 1 \in 1..Len(s) BY <1>4, <2>2
    <3>3. Emits(p, s[n + 1], h[(n + 1) + 1]) BY <1>5, <1>6, <3>2 DEF Path
    <3>4. p.at # "dumped"
        BY <3>3 DEF Emits, Opens, StartsText, StartsName, Separates, Closes, Continues,
                    Completes, EndsName, Points, EndsText, InString
    <3> QED BY <3>1, <3>4
  <2> QED BY <2>1, <2>2
<1>11. /\ p.at = "dumped" => outcome' = "value" /\ SameBody(body)'
       /\ p.at # "dumped" => outcome' = "parse_error" /\ lex'.current = EOF
    BY <1>8, <1>9, EndFollows
<1>12. Path(h, out)'
  <2>1. Path(h, s)' BY <1>5, PathKept
  <2> QED BY <1>3, <2>1
<1>13. Len(text') <= Len(out') /\ text' = SubSeq(out', 1, Len(text'))
    BY <1>1, <1>3, <1>4
<1> QED BY <1>3, <1>5, <1>10, <1>11, <1>12, <1>13 DEF ReadAlong

LEMMA ReadsBegin == Init => ReadInv
<1> SUFFICES ASSUME Init PROVE ReadInv OBVIOUS
<1>1. TypeInv BY TypesBegin
<1>2. ReaderInit /\ text = <<>> /\ ahead = <<>> BY DEF Init
<1>3. body # NoBody => left = 0 /\ writing = "value" BY DEF Init, DumpInit
<1>4. Reads BY <1>2, <1>3 DEF Reads
<1> QED BY <1>1, <1>4 DEF ReadInv

\* A step of the writer.
LEMMA DumpReads ==
    ASSUME WriterAt', Reads, Dump
    PROVE  Reads'
<1>1. /\ body # NoBody /\ UNCHANGED reader /\ body' = body /\ text' = text
      /\ ahead' = ahead /\ left' = left
    BY DEF Dump, source
<1>2. UNCHANGED <<lex, states, expect, nodes, refs, element, outcome>>
    BY <1>1 DEF reader, parser, document
<1>3. writing # "dumped"
    BY DEF Dump, DumpNext, WriteString, WriteObject, WriteMember, EndObject, EscapeByte,
           EndEscape, IncompleteString, Escaping
<1>4. ahead = <<>> /\ left = 0 /\ ReaderInit /\ text = <<>> BY <1>1, <1>3 DEF Reads
<1>5. ReaderInit' BY <1>2, <1>4 DEF ReaderInit
<1>6. CASE writing' # "dumped" BY <1>1, <1>4, <1>5, <1>6 DEF Reads
<1>7. CASE writing' = "dumped"
  <2>1. \E h : ReadAlong(h)' BY <1>1, <1>4, <1>7, WritingEnds
  <2> QED BY <1>1, <1>4, <1>7, <2>1 DEF Reads
<1> QED BY <1>6, <1>7

LEMMA ReadsKept == ReadInv /\ [Next]_vars => ReadInv'
<1> SUFFICES ASSUME ReadInv, [Next]_vars PROVE ReadInv' OBVIOUS
<1>1. TypeInv /\ TypeInv' BY TypesKept DEF ReadInv
<1>2. /\ ReaderInv /\ LexerOK(lex) /\ out \in Seq(Bytes) /\ text \in Seq(Bytes)
      /\ body # NoBody => IsBody
    BY <1>1 DEF TypeInv, ReaderTyped, WriterAt, WriterTypes, SourceTyped
<1>3. Reads BY DEF ReadInv
<1>4. WriterAt' BY <1>1 DEF TypeInv
<1>5. body' = body
    BY DEF Next, Dump, ReadAgain, ReadBody, ReadFragment, ReadAhead, ReadEnd, source, vars
<1>6. CASE body = NoBody BY <1>1, <1>5, <1>6 DEF ReadInv, Reads
<1>7. CASE body # NoBody
  <2>1. /\ ahead = <<>> /\ left = 0 /\ IsBody
        /\ writing # "dumped" => ReaderInit /\ text = <<>>
        /\ writing = "dumped" => \E h : ReadAlong(h)
      BY <1>2, <1>3, <1>7 DEF Reads
  <2>2. CASE Dump BY <1>1, <1>3, <1>4, <2>2, DumpReads DEF ReadInv
  <2>3. ~ReadAgain
    <3>1. ASSUME ReadAgain PROVE FALSE
      <4>1. lex.unget /\ outcome = "reading" BY <3>1 DEF ReadAgain, Read
      <4>2. CASE writing # "dumped" BY <2>1, <4>1, <4>2 DEF ReaderInit, LexerStart
      <4>3. CASE writing = "dumped"
        <5>1. PICK p : Follows(p) BY <2>1, <4>1, <4>3 DEF ReadAlong
        <5> QED BY <4>1, <5>1 DEF Follows, ScannerAt
      <4> QED BY <4>2, <4>3
    <3> QED BY <3>1
  <2>4. CASE ReadBody
    <3>1. /\ writing = "dumped" /\ Len(text) < Len(out) /\ UNCHANGED writer
          /\ Read(out[Len(text) + 1]) /\ text' = Append(text, out[Len(text) + 1])
          /\ ahead' = ahead /\ left' = left
        BY <2>4 DEF ReadBody, ReadByte, source
    <3>2. PICK h : ReadAlong(h) BY <2>1, <3>1
    <3>3. ReadAlong(h)' BY <1>2, <1>5, <2>1, <3>1, <3>2, AlongStep
    <3>4. writing' = "dumped" BY <3>1 DEF writer
    <3> QED BY <1>1, <2>1, <3>1, <3>3, <3>4 DEF ReadInv, Reads
  <2>5. ~ReadFragment BY <1>7 DEF ReadFragment
  <2>6. ~ReadAhead BY <2>1 DEF ReadAhead
  <2>7. CASE ReadEnd
    <3>1. /\ writing = "dumped" /\ UNCHANGED writer /\ Read(EOF) /\ text' = text
          /\ ahead' = ahead /\ left' = left
        BY <1>7, <2>7 DEF ReadEnd, source
    <3>2. PICK h : ReadAlong(h) BY <2>1, <3>1
    <3>3. ReadAlong(h)' BY <1>2, <1>5, <2>1, <3>1, <3>2, AlongEnds
    <3>4. writing' = "dumped" BY <3>1 DEF writer
    <3> QED BY <1>1, <2>1, <3>1, <3>3, <3>4 DEF ReadInv, Reads
  <2>8. CASE UNCHANGED vars
    <3>1. UNCHANGED reader /\ UNCHANGED writer /\ text' = text /\ ahead' = ahead /\ left' = left
        BY <2>8 DEF vars, source
    <3>2. UNCHANGED <<lex, states, expect, nodes, refs, element, outcome>> /\ writing' = writing
        BY <3>1 DEF reader, parser, document, writer
    <3>3. ReaderInit => ReaderInit' BY <3>2 DEF ReaderInit
    <3>4. \A h : ReadAlong(h) => ReadAlong(h)' BY <1>5, <3>1, AlongKept
    <3> QED BY <1>1, <2>1, <3>1, <3>2, <3>3, <3>4 DEF ReadInv, Reads
  <2> QED BY <2>2, <2>3, <2>4, <2>5, <2>6, <2>7, <2>8 DEF Next
<1> QED BY <1>6, <1>7

LEMMA ReadsAreEnough == ReadInv => RoundTrip
<1> SUFFICES ASSUME ReadInv, body # NoBody
             PROVE  /\ writing = "threw" => \E s \in TextsOf(body) : ~IsUtf8(s)
                    /\ writing = "dumped" => \A s \in TextsOf(body) : IsUtf8(s)
                    /\ outcome = "value" => text = out /\ SameBody(body)
                    /\ outcome = "parse_error" => lex.current = EOF /\ text # out
                    /\ outcome # "out_of_range"
    BY DEF RoundTrip
<1>1. /\ IsBody /\ (writing = "threw" => \E t \in TextsOf(body) : ~IsUtf8(t))
      /\ writing # "dumped" => ReaderInit
      /\ writing = "dumped" => \E h : ReadAlong(h)
    BY DEF ReadInv, Reads, TypeInv, WriterAt, Writes
<1>2. CASE writing # "dumped"
  <2>1. outcome = "reading" BY <1>1, <1>2 DEF ReaderInit
  <2> QED BY <1>1, <1>2, <2>1
<1>3. CASE writing = "dumped"
  <2>1. PICK h : ReadAlong(h) BY <1>1, <1>3
  <2>2. ASSUME NEW t \in TextsOf(body) PROVE IsUtf8(t)
    <3>1. Path(h, out) /\ h[Len(h)].at = "dumped" BY <2>1 DEF ReadAlong
    <3>2. Len(h) \in 1..Len(h)
      <4>1. Len(h) = Len(out) + 1 /\ out \in Seq(Bytes) BY <3>1 DEF Path
      <4>2. Len(out) \in Nat BY <4>1
      <4> QED BY <4>1, <4>2
    <3>3. Clean(h[Len(h)]) BY <3>1, <3>2 DEF Path
    <3>4. CleanMembers(body.members, Len(body.members), Len(body.members))
        BY <3>1, <3>3 DEF Clean
    <3> QED BY <1>1, <3>4, CleanTexts
  <2> QED BY <1>3, <2>1, <2>2 DEF ReadAlong
<1> QED BY <1>2, <1>3

\* Whatever body the client has: what it writes is read back as the same value.
THEOREM BodiesComeBack == Spec => []RoundTrip
<1>1. Init => ReadInv BY ReadsBegin
<1>2. ReadInv /\ [Next]_vars => ReadInv' BY ReadsKept
<1>3. ReadInv => RoundTrip BY ReadsAreEnough
<1> QED BY <1>1, <1>2, <1>3, PTL DEF Spec
=============================================================================
