----------------------------- MODULE JsonScalars -----------------------------
(***************************************************************************)
(* The parts of RFC 8259 and RFC 3629 that need no recursion: which        *)
(* sequences of bytes are UTF-8, and which are numbers. This is no code of *)
(* the repository's; what json.hpp reads or writes is compared with it.    *)
(***************************************************************************)
EXTENDS Integers, Sequences

Decimals == 48..57

Within(cp, from, to) == {c \in {cp} : from <= c /\ c <= to}

\* Unicode: the code point that a sequence of one to four bytes is the UTF-8 form of.
Utf8CodePoints(s) ==
    LET n == Len(s)
        tails == \A i \in 2..n : s[i] \in 128..191
        t(i) == s[i] - 128
    IN  IF n = 1 /\ s[1] < 128 THEN {s[1]}
        ELSE IF n = 2 /\ tails /\ s[1] \in 192..223
        THEN Within((s[1] - 192) * 64 + t(2), 128, 2047)
        ELSE IF n = 3 /\ tails /\ s[1] \in 224..239
        THEN LET cp == (s[1] - 224) * 4096 + t(2) * 64 + t(3)
             IN  Within(cp, 2048, 55295) \cup Within(cp, 57344, 65535)
        ELSE IF n = 4 /\ tails /\ s[1] \in 240..247
        THEN Within((s[1] - 240) * 262144 + t(2) * 4096 + t(3) * 64 + t(4), 65536, 1114111)
        ELSE {}

\* Each byte is in a code point. Code points cannot overlap without being the same, for
\* the first byte of one is never a later byte of another: together they are the sequence.
IsUtf8(s) ==
    \A i \in 1..Len(s) :
        \E first \in 1..i, last \in i..Len(s) :
            last - first < 4 /\ Utf8CodePoints(SubSeq(s, first, last)) # {}

AllDigits(s) == s # <<>> /\ \A i \in 1..Len(s) : s[i] \in Decimals

IsInt(s) == AllDigits(s) /\ (s[1] # 48 \/ Len(s) = 1)

IsFraction(s) == s = <<>> \/ (s[1] = 46 /\ AllDigits(Tail(s)))

IsExponent(s) ==
    \/ s = <<>>
    \/ /\ s[1] \in {69, 101}
       /\ \/ AllDigits(Tail(s))
          \/ Len(s) > 1 /\ s[2] \in {43, 45} /\ AllDigits(SubSeq(s, 3, Len(s)))

\* int, fraction and exponent; what kind it is follows from which of them there are.
Numbers(s) ==
    LET first == IF s # <<>> /\ s[1] = 45 THEN 2 ELSE 1
        cuts == {c \in (first..Len(s)) \X (first..Len(s)) :
                    /\ c[1] <= c[2]
                    /\ IsInt(SubSeq(s, first, c[1])) /\ IsFraction(SubSeq(s, c[1] + 1, c[2]))
                    /\ IsExponent(SubSeq(s, c[2] + 1, Len(s)))}
        kind == IF \E c \in cuts : c[1] < Len(s) THEN "value_float"
                ELSE IF first = 2 THEN "value_integer" ELSE "value_unsigned"
    IN  IF cuts = {} THEN {} ELSE {[kind |-> kind, value |-> s]}
=============================================================================
