------------------------------- MODULE JsonDump -------------------------------
(***************************************************************************)
(* json::dump of nlohmann/json.hpp, with which the push client writes the  *)
(* bodies of its requests: objects of strings and objects, without         *)
(* indentation, bytes above 7F as they are, and strict about UTF-8.        *)
(*                                                                         *)
(* The calls of dump that have not returned are a stack of frames. A step  *)
(* goes from one call to the next, or takes one byte of a string.          *)
(***************************************************************************)
EXTENDS Naturals, Sequences

CONSTANT BufferSize     \* of string_buffer; 512 in the code

\* "there must be 13 bytes left"
Reserve == 13

ASSUME BufferBound == BufferSize \in Nat /\ BufferSize >= Reserve

VARIABLES
    frames,     \* the objects whose members are being written
    writing,    \* where the innermost call is
    arg,        \* what it was called with: a value, or a string for dump_escaped
    next,       \* the byte of the string that it is at
    out,        \* what the output adapter has been given
    buffer,     \* the first `bytes' bytes of string_buffer
    state,      \* the UTF-8 decoder's state
    codepoint,  \* the code point it is in
    touched     \* how far into string_buffer the last byte's step has written

escaper == <<buffer, state, codepoint, touched>>
writer == <<frames, writing, arg, next, out, escaper>>

\* A value is a string or an object: the list of its members in the order of their keys.
IsString(value) == value.kind = "string"

DumpInit(value) ==
    /\ frames = <<>>
    /\ writing = "value"
    /\ arg = value
    /\ next = 0
    /\ out = <<>>
    /\ buffer = <<>>
    /\ state = 0
    /\ codepoint = 0
    /\ touched = 0

-----------------------------------------------------------------------------
(* serializer::dump.                                                       *)

Inner == frames[Len(frames)]

\* Where a call of dump returns to.
Returned(stack) == IF stack = <<>> THEN "dumped" ELSE "members"

WriteString ==
    /\ writing = "value" /\ IsString(arg)
    /\ out' = Append(out, 34)
    /\ writing' = "text" /\ arg' = arg.value /\ next' = 1
    /\ UNCHANGED <<frames, escaper>>

WriteObject ==
    /\ writing = "value" /\ ~IsString(arg)
    /\ out' = Append(out, 123)
    /\ frames' = Append(frames, [members |-> arg.members, begun |-> 0])
    /\ writing' = "members"
    /\ UNCHANGED <<arg, next, escaper>>

\* A comma is behind each member but the last.
WriteMember ==
    /\ writing = "members" /\ Inner.begun < Len(Inner.members)
    /\ out' = out \o IF Inner.begun = 0 THEN <<34>> ELSE <<44, 34>>
    /\ frames' = [frames EXCEPT ![Len(frames)].begun = @ + 1]
    /\ writing' = "key" /\ arg' = Inner.members[Inner.begun + 1][1] /\ next' = 1
    /\ UNCHANGED escaper

EndObject ==
    /\ writing = "members" /\ Inner.begun = Len(Inner.members)
    /\ out' = Append(out, 125)
    /\ frames' = SubSeq(frames, 1, Len(frames) - 1)
    /\ writing' = Returned(frames')
    /\ UNCHANGED <<arg, next, escaper>>

-----------------------------------------------------------------------------
(* decode: the automaton in the table utf8d.                               *)

\* The type of a byte: the first part of the table.
ByteType(b) ==
    CASE b \in 0..127 -> 0
      [] b \in 128..143 -> 1
      [] b \in 144..159 -> 9
      [] b \in 160..191 -> 7
      [] b \in 194..223 -> 2
      [] b = 224 -> 10
      [] b \in 225..236 \cup {238, 239} -> 3
      [] b = 237 -> 4
      [] b = 240 -> 11
      [] b \in 241..243 -> 6
      [] b = 244 -> 5
      [] OTHER -> 8

\* Where a byte of some type leads, if not to 1, the rejecting state: the second part.
Accepts(from, types, to) == {from} \X types \X {to}
DecoderMoves ==
    Accepts(0, {0}, 0) \cup Accepts(0, {2}, 2) \cup Accepts(0, {3}, 3)
    \cup Accepts(0, {4}, 5) \cup Accepts(0, {5}, 8) \cup Accepts(0, {6}, 7)
    \cup Accepts(0, {10}, 4) \cup Accepts(0, {11}, 6)
    \cup Accepts(2, {1, 7, 9}, 0) \cup Accepts(3, {1, 7, 9}, 2)
    \cup Accepts(4, {7}, 2) \cup Accepts(5, {1, 9}, 2)
    \cup Accepts(6, {7, 9}, 3) \cup Accepts(7, {1, 7, 9}, 3) \cup Accepts(8, {1}, 3)

Decode(from, b) ==
    LET moves == {m \in DecoderMoves : m[1] = from /\ m[2] = ByteType(b)}
    IN  IF moves = {} THEN 1 ELSE (CHOOSE m \in moves : TRUE)[3]

\* 256, shifted to the right by the type.
Shifted == <<128, 64, 32, 16, 8, 4, 2>>

Codep(b) ==
    IF state # 0 THEN (codepoint * 64) + (b % 64)
    ELSE IF ByteType(b) = 0 THEN b
    ELSE IF ByteType(b) < 8 THEN b % Shifted[ByteType(b)] ELSE 0

-----------------------------------------------------------------------------
(* dump_escaped.                                                           *)

ShortEscapes ==
    {<<8, 98>>, <<9, 116>>, <<10, 110>>, <<12, 102>>, <<13, 114>>, <<34, 34>>, <<92, 92>>}

\* Lower case, as %04x has it.
Nibble(n) == IF n < 10 THEN 48 + n ELSE 87 + n

Escape(cp, b) ==
    IF \E e \in ShortEscapes : e[1] = cp
    THEN <<92, (CHOOSE e \in ShortEscapes : e[1] = cp)[2]>>
    ELSE IF cp <= 31 THEN <<92, 117, 48, 48, Nibble(cp \div 16), Nibble(cp % 16)>>
    ELSE <<b>>

\* snprintf adds a NUL behind the six bytes of \u00xx.
Written(cp, b) == Len(buffer) + Len(Escape(cp, b)) + IF Len(Escape(cp, b)) = 6 THEN 1 ELSE 0

Escaping == writing \in {"key", "text"}
NextByte == arg[next]

\* Mutant: the buffer is written out when it is full.
FlushFull(bytes) ==
    IF Len(bytes) >= BufferSize
    THEN out' = out \o bytes /\ buffer' = <<>>
    ELSE out' = out /\ buffer' = bytes

\* Mutant: what is in the buffer is written out and kept.
FlushKeeps(bytes) ==
    /\ out' = IF BufferSize - Len(bytes) < Reserve THEN out \o bytes ELSE out
    /\ buffer' = bytes

Flush(bytes) ==
    IF BufferSize - Len(bytes) < Reserve
    THEN out' = out \o bytes /\ buffer' = <<>>
    ELSE out' = out /\ buffer' = bytes

\* One byte of the string that is being escaped.
EscapeByte ==
    /\ Escaping /\ next <= Len(arg)
    /\ state' = Decode(state, NextByte)
    /\ codepoint' = Codep(NextByte)
    /\ \/ /\ state' = 0
          /\ Flush(buffer \o Escape(codepoint', NextByte))
          /\ touched' = Written(codepoint', NextByte)
          /\ next' = next + 1
          /\ UNCHANGED writing
       \/ /\ state' = 1
          /\ writing' = "threw"
          /\ UNCHANGED <<next, out, buffer, touched>>
       \/ /\ state' \notin {0, 1}
          /\ buffer' = Append(buffer, NextByte)
          /\ touched' = Len(buffer')
          /\ next' = next + 1
          /\ UNCHANGED <<out, writing>>
    /\ UNCHANGED <<frames, arg>>

\* The end of the string, behind which dump writes a quote, and a colon after a key.
EndEscape ==
    /\ Escaping /\ next > Len(arg) /\ state = 0
    /\ buffer' = <<>>
    /\ \/ /\ writing = "key"
          /\ out' = out \o buffer \o <<34, 58>>
          /\ writing' = "value" /\ arg' = Inner.members[Inner.begun][2]
       \/ /\ writing = "text"
          /\ out' = out \o buffer \o <<34>>
          /\ writing' = Returned(frames) /\ UNCHANGED arg
    /\ UNCHANGED <<frames, next, state, codepoint, touched>>

\* The last code point of the string is incomplete.
IncompleteString ==
    /\ Escaping /\ next > Len(arg) /\ state # 0
    /\ writing' = "threw"
    /\ UNCHANGED <<frames, arg, next, out, escaper>>

DumpNext ==
    WriteString \/ WriteObject \/ WriteMember \/ EndObject
        \/ EscapeByte \/ EndEscape \/ IncompleteString

-----------------------------------------------------------------------------
(* Properties.                                                             *)

\* The room that is left after each code point is enough for the next one, with the
\* bytes that are copied before it is complete: nothing is written behind string_buffer.
BufferSuffices == touched <= BufferSize
=============================================================================
