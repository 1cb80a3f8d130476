---------------------------- MODULE JsonReference ----------------------------
(***************************************************************************)
(* RFC 8259 as definitions: which values a sequence of bytes is the text   *)
(* of. There is at most one. This is no code of the repository's; texts    *)
(* that json.hpp reads or writes are compared with it.                     *)
(***************************************************************************)
EXTENDS JsonScalars, FiniteSets

LOCAL Sub(s, i, j) == SubSeq(s, i, j)
LOCAL Spaces == {32, 9, 10, 13}
LOCAL Digits == 48..57

RECURSIVE Trim(_)
Trim(s) ==
    IF s = <<>> THEN s
    ELSE IF s[1] \in Spaces THEN Trim(Tail(s))
    ELSE IF s[Len(s)] \in Spaces THEN Trim(Sub(s, 1, Len(s) - 1))
    ELSE s

\* The UTF-8 form of a code point, without a search.
LOCAL Utf8Form(cp) ==
    LET part(n) == 128 + ((cp \div n) % 64)
    IN  IF cp < 128 THEN <<cp>>
        ELSE IF cp < 2048 THEN <<192 + cp \div 64, part(1)>>
        ELSE IF cp < 65536 THEN <<224 + cp \div 4096, part(64), part(1)>>
        ELSE <<240 + cp \div 262144, part(4096), part(64), part(1)>>

LOCAL Hex(c) ==
    CASE c \in Digits -> c - 48
      [] c \in 65..70 -> c - 55
      [] c \in 97..102 -> c - 87
      [] OTHER -> -1

\* The code unit of \uXXXX at the beginning of s, or -1.
LOCAL Unit(s) ==
    IF Len(s) < 6 \/ s[1] # 92 \/ s[2] # 117 \/ \E i \in 3..6 : Hex(s[i]) = -1 THEN -1
    ELSE ((Hex(s[3]) * 16 + Hex(s[4])) * 16 + Hex(s[5])) * 16 + Hex(s[6])

LOCAL Prepend(bytes, rests) == {bytes \o r : r \in rests}

\* What the inside of a string stands for.
RECURSIVE Chars(_)
Chars(s) ==
    LET rest(n) == Chars(Sub(s, n + 1, Len(s)))
        short == [c \in {34, 92, 47} |-> c]
        named == {<<98, 8>>, <<102, 12>>, <<110, 10>>, <<114, 13>>, <<116, 9>>}
        u == Unit(s)
        u2 == Unit(Sub(s, 7, Len(s)))
    IN  IF s = <<>> THEN {<<>>}
        ELSE IF s[1] = 92 /\ Len(s) > 1 /\ s[2] \in DOMAIN short THEN Prepend(<<s[2]>>, rest(2))
        ELSE IF s[1] = 92 /\ Len(s) > 1 /\ \E e \in named : e[1] = s[2]
             THEN Prepend(<<(CHOOSE e \in named : e[1] = s[2])[2]>>, rest(2))
        ELSE IF u \in 55296..56319 /\ u2 \in 56320..57343
             THEN Prepend(Utf8Form(65536 + (u - 55296) * 1024 + (u2 - 56320)), rest(12))
        ELSE IF u # -1 /\ u \notin 55296..57343 THEN Prepend(Utf8Form(u), rest(6))
        ELSE IF s[1] \in 0..31 \cup {34, 92} THEN {}
        ELSE UNION {Prepend(Sub(s, 1, n), rest(n)) :
                        n \in {m \in 1..4 : m <= Len(s) /\ Utf8CodePoints(Sub(s, 1, m)) # {}}}

Strings(s) ==
    IF Len(s) > 1 /\ s[1] = 34 /\ s[Len(s)] = 34 THEN Chars(Sub(s, 2, Len(s) - 1)) ELSE {}

LOCAL Literal(s) ==
    CASE s = <<116, 114, 117, 101>> -> {[kind |-> "literal_true", value |-> <<>>]}
      [] s = <<102, 97, 108, 115, 101>> -> {[kind |-> "literal_false", value |-> <<>>]}
      [] s = <<110, 117, 108, 108>> -> {[kind |-> "literal_null", value |-> <<>>]}
      [] OTHER -> {}

LOCAL Ends(s, c) == {i \in 1..Len(s) : s[i] = c} \cup {Len(s) + 1}

RECURSIVE Values(_), Elements(_), Pairs(_)

\* The elements of an array, or the members of an object, that are written in s.
Elements(s) ==
    UNION {{<<v>> \o (IF i > Len(s) THEN <<>> ELSE r) :
               v \in Values(Sub(s, 1, i - 1)),
               r \in IF i > Len(s) THEN {<<>>} ELSE Elements(Sub(s, i + 1, Len(s)))} :
           i \in Ends(s, 44)}

LOCAL PairAt(s, i) ==
    {<<k, v>> : k \in Strings(Trim(Sub(s, 1, i - 1))), v \in Values(Sub(s, i + 1, Len(s)))}

Pairs(s) ==
    UNION {{<<p>> \o (IF i > Len(s) THEN <<>> ELSE r) :
               p \in UNION {PairAt(Sub(s, 1, i - 1), j) : j \in Ends(Sub(s, 1, i - 1), 58)},
               r \in IF i > Len(s) THEN {<<>>} ELSE Pairs(Sub(s, i + 1, Len(s)))} :
           i \in Ends(s, 44)}

\* Of members with the same name the last one counts.
LOCAL Object(pairs) ==
    [k \in {pairs[i][1] : i \in 1..Len(pairs)} |->
        pairs[CHOOSE i \in 1..Len(pairs) :
                 pairs[i][1] = k /\ \A j \in (i + 1)..Len(pairs) : pairs[j][1] # k][2]]

\* The values a text is of, white space around it included.
Values(text) ==
    LET s == Trim(text)
        inner == Sub(s, 2, Len(s) - 1)
        closed(open, close) == Len(s) > 1 /\ s[1] = open /\ s[Len(s)] = close
    IN  Literal(s) \cup Numbers(s)
        \cup {[kind |-> "value_string", value |-> v] : v \in Strings(s)}
        \cup (IF ~closed(91, 93) THEN {}
              ELSE {[kind |-> "array", items |-> e] :
                       e \in IF Trim(inner) = <<>> THEN {<<>>} ELSE Elements(inner)})
        \cup (IF ~closed(123, 125) THEN {}
              ELSE {[kind |-> "object", items |-> Object(p)] :
                       p \in IF Trim(inner) = <<>> THEN {<<>>} ELSE Pairs(inner)})
=============================================================================
