---------------------------- MODULE JsonAcceptProofs ----------------------------
(***************************************************************************)
(* A text that json.hpp accepts is JSON, and the document is its value:    *)
(* proof for every text, against the grammar of JsonGrammar.               *)
(*                                                                         *)
(* The first half is about the lexer: what it has read is cut into tokens  *)
(* and spaces, and a token that is not complete (Partial), whatever the    *)
(* next byte is. The second half is about the parser and the handler:      *)
(* after each token the document is the tree of the tokens so far, whose   *)
(* spans end where their last token is, or not yet (TreeSoFar).            *)
(***************************************************************************)
EXTENDS JsonProofs, JsonGrammar

-----------------------------------------------------------------------------
(* Characters.                                                             *)

LEMMA ConcatBytes ==
    ASSUME NEW s \in Seq(Bytes), NEW x \in Seq(Bytes)
    PROVE  /\ s \o x \in Seq(Bytes) /\ Len(s \o x) = Len(s) + Len(x)
           /\ \A i \in 1..Len(s) : (s \o x)[i] = s[i]
           /\ \A i \in 1..Len(x) : (s \o x)[Len(s) + i] = x[i]
OBVIOUS

\* Parts of a sequence that was made longer.
LEMMA PartsOfConcat ==
    ASSUME NEW s \in Seq(Bytes), NEW x \in Seq(Bytes)
    PROVE  /\ \A a, b \in 0..Len(s) : SubSeq(s \o x, a + 1, b) = SubSeq(s, a + 1, b)
           /\ SubSeq(s \o x, Len(s) + 1, Len(s) + Len(x)) = x
<1>1. s \o x \in Seq(Bytes) /\ Len(s \o x) = Len(s) + Len(x) OBVIOUS
<1>2. \A i \in 1..Len(s) : (s \o x)[i] = s[i] OBVIOUS
<1>3. \A i \in 1..Len(x) : (s \o x)[Len(s) + i] = x[i] OBVIOUS
<1>4. ASSUME NEW a \in 0..Len(s), NEW b \in 0..Len(s)
      PROVE  SubSeq(s \o x, a + 1, b) = SubSeq(s, a + 1, b)
  <2>1. SubSeq(s \o x, a + 1, b) = [i \in 1..(1 + b - (a + 1)) |-> (s \o x)[i + (a + 1) - 1]]
      BY <1>1
  <2>2. SubSeq(s, a + 1, b) = [i \in 1..(1 + b - (a + 1)) |-> s[i + (a + 1) - 1]] OBVIOUS
  <2>3. \A i \in 1..(1 + b - (a + 1)) : (s \o x)[i + (a + 1) - 1] = s[i + (a + 1) - 1]
      BY <1>2
  <2> QED BY <2>1, <2>2, <2>3
<1>5. SubSeq(s \o x, Len(s) + 1, Len(s) + Len(x)) = x
  <2> DEFINE y == SubSeq(s \o x, Len(s) + 1, Len(s) + Len(x))
  <2>1. y \in Seq(Bytes) /\ Len(y) = Len(x) /\ \A i \in 1..Len(x) : y[i] = x[i]
      BY <1>1, <1>3
  <2> QED BY <2>1, SeqEqual
<1> QED BY <1>4, <1>5

LEMMA NoChars == CharsOf(<<>>, <<>>)
<1> DEFINE p == [i \in 0..0 |-> 0]
<1>1. Len(<<>>) = 0 OBVIOUS
<1>2. p \in [0..0 -> 0..0] /\ p[0] = 0 OBVIOUS
<1> HIDE DEF p
<1>3. 0 \in 0..0 /\ 1..0 = {} OBVIOUS
<1> QED BY <1>1, <1>2, <1>3, Zenon DEF CharsOf

\* One more character.
LEMMA MoreChars ==
    ASSUME NEW r \in Seq(Bytes), NEW v \in Seq(Bytes), CharsOf(r, v),
           NEW x \in Seq(Bytes), NEW y \in Seq(Bytes), CharOf(x, y), Len(x) > 0
    PROVE  CharsOf(r \o x, v \o y)
<1>1. PICK n \in 0..Len(r) : \E p \in [0..n -> 0..Len(r)], q \in [0..n -> 0..Len(v)] :
        /\ p[0] = 0 /\ q[0] = 0 /\ p[n] = Len(r) /\ q[n] = Len(v)
        /\ \A i \in 1..n : CharOf(SubSeq(r, p[i - 1] + 1, p[i]), SubSeq(v, q[i - 1] + 1, q[i]))
    BY DEF CharsOf
<1>2. PICK p \in [0..n -> 0..Len(r)], q \in [0..n -> 0..Len(v)] :
        /\ p[0] = 0 /\ q[0] = 0 /\ p[n] = Len(r) /\ q[n] = Len(v)
        /\ \A i \in 1..n : CharOf(SubSeq(r, p[i - 1] + 1, p[i]), SubSeq(v, q[i - 1] + 1, q[i]))
    BY <1>1
<1>3. PICK a \in Nat, b \in Nat, c \in Nat, d \in Nat :
        a = Len(r) /\ b = Len(v) /\ c = Len(x) /\ d = Len(y) /\ c > 0
    OBVIOUS
<1>4. Len(r \o x) = a + c /\ Len(v \o y) = b + d BY <1>3
<1> DEFINE p2 == [i \in 0..(n + 1) |-> IF i <= n THEN p[i] ELSE a + c]
           q2 == [i \in 0..(n + 1) |-> IF i <= n THEN q[i] ELSE b + d]
<1>5. n \in Nat /\ n + 1 \in 0..(a + c) BY <1>3
<1>6. p2 \in [0..(n + 1) -> 0..(a + c)] BY <1>2, <1>3, <1>5
<1>7. q2 \in [0..(n + 1) -> 0..(b + d)] BY <1>2, <1>3, <1>5
<1>8. p2[0] = 0 /\ q2[0] = 0 /\ p2[n + 1] = a + c /\ q2[n + 1] = b + d BY <1>2, <1>5
<1>9. ASSUME NEW i \in 1..(n + 1)
      PROVE  CharOf(SubSeq(r \o x, p2[i - 1] + 1, p2[i]), SubSeq(v \o y, q2[i - 1] + 1, q2[i]))
  <2>1. CASE i <= n
    <3>1. i \in 1..n /\ i \in 0..n /\ i - 1 \in 0..n BY <1>5, <2>1
    <3>2. p2[i - 1] = p[i - 1] /\ p2[i] = p[i] /\ q2[i - 1] = q[i - 1] /\ q2[i] = q[i]
        BY <1>5, <3>1
    <3>3. /\ p[i - 1] \in 0..Len(r) /\ p[i] \in 0..Len(r)
          /\ q[i - 1] \in 0..Len(v) /\ q[i] \in 0..Len(v)
        BY <3>1
    <3>4. SubSeq(r \o x, p[i - 1] + 1, p[i]) = SubSeq(r, p[i - 1] + 1, p[i])
        BY <3>3, PartsOfConcat
    <3>5. SubSeq(v \o y, q[i - 1] + 1, q[i]) = SubSeq(v, q[i - 1] + 1, q[i])
        BY <3>3, PartsOfConcat
    <3> QED BY <1>2, <3>1, <3>2, <3>4, <3>5
  <2>2. CASE i > n
    <3>1. i = n + 1 /\ i - 1 = n BY <1>5, <2>2
    <3>2. p2[i - 1] = a /\ p2[i] = a + c /\ q2[i - 1] = b /\ q2[i] = b + d
        BY <1>2, <1>3, <1>5, <1>8, <3>1
    <3>3. SubSeq(r \o x, a + 1, a + c) = x BY <1>3, PartsOfConcat
    <3>4. SubSeq(v \o y, b + 1, b + d) = y BY <1>3, PartsOfConcat
    <3> QED BY <3>2, <3>3, <3>4
  <2> QED BY <1>5, <2>1, <2>2
<1> HIDE DEF p2, q2
<1> QED BY <1>4, <1>5, <1>6, <1>7, <1>8, <1>9 DEF CharsOf

LEMMA PlainIsChar ==
    ASSUME NEW c \in Plain
    PROVE  CharOf(<<c>>, <<c>>) /\ Utf8CodePoints(<<c>>) # {}
<1>1. c \in 32..127 /\ c # 34 /\ c # 92 BY DEF Plain, Quote, Backslash
<1>2. Utf8CodePoints(<<c>>) = {c} BY <1>1 DEF Utf8CodePoints
<1> QED BY <1>1, <1>2 DEF CharOf

LEMMA ShortIsChar ==
    ASSUME NEW u \in Unescaped
    PROVE  CharOf(<<Backslash, u[1]>>, <<u[2]>>) /\ Utf8CodePoints(<<u[2]>>) # {}
<1>1. u \in Shorts BY DEF Unescaped, Shorts, Quote, Backslash
<1>2. u[2] < 128 BY DEF Unescaped, Quote, Backslash
<1>3. CharOf(<<Backslash, u[1]>>, <<u[2]>>) BY <1>1 DEF CharOf, Backslash
<1> QED BY <1>2, <1>3 DEF Utf8CodePoints

\* The code point of two, three or four bytes.
LEMMA PointOfTwo ==
    ASSUME NEW w, Len(w) = 2
    PROVE  Utf8CodePoints(w) = IF w[2] \in Tails /\ w[1] \in 192..223
                               THEN Within((w[1] - 192) * 64 + (w[2] - 128), 128, 2047) ELSE {}
<1>1. (\A i \in 2..2 : w[i] \in 128..191) <=> w[2] \in Tails BY SMT DEF Tails
<1> QED BY SMT, <1>1 DEF Utf8CodePoints

LEMMA PointOfThree ==
    ASSUME NEW w, Len(w) = 3
    PROVE  Utf8CodePoints(w) =
              IF w[2] \in Tails /\ w[3] \in Tails /\ w[1] \in 224..239
              THEN Within((w[1] - 224) * 4096 + (w[2] - 128) * 64 + (w[3] - 128), 2048, 55295)
                   \cup Within((w[1] - 224) * 4096 + (w[2] - 128) * 64 + (w[3] - 128),
                               57344, 65535)
              ELSE {}
<1>1. (\A i \in 2..3 : w[i] \in 128..191) <=> w[2] \in Tails /\ w[3] \in Tails BY SMT DEF Tails
<1> QED BY SMT, <1>1 DEF Utf8CodePoints

LEMMA PointOfFour ==
    ASSUME NEW w, Len(w) = 4
    PROVE  Utf8CodePoints(w) =
              IF w[2] \in Tails /\ w[3] \in Tails /\ w[4] \in Tails /\ w[1] \in 240..247
              THEN Within((w[1] - 240) * 262144 + (w[2] - 128) * 4096 + (w[3] - 128) * 64
                              + (w[4] - 128),
                          65536, 1114111)
              ELSE {}
<1>1. (\A i \in 2..4 : w[i] \in 128..191) <=> w[2] \in Tails /\ w[3] \in Tails /\ w[4] \in Tails
    BY SMT DEF Tails
<1> QED BY SMT, <1>1 DEF Utf8CodePoints

LEMMA InWithin ==
    ASSUME NEW x, NEW from, NEW to
    PROVE  /\ \A cp \in Within(x, from, to) : cp = x /\ from <= cp
           /\ from <= x /\ x <= to => x \in Within(x, from, to)
BY DEF Within

LEMMA BytesAreInts == Bytes \subseteq Int
BY DEF Bytes

LEMMA LongPoints ==
    ASSUME NEW z, Len(z) \in Nat, Len(z) > 1, \A i \in 1..Len(z) : z[i] \in Int,
           NEW cp \in Utf8CodePoints(z)
    PROVE  cp \in Int /\ cp >= 128
<1>1. PICK n \in Nat : n = Len(z) OBVIOUS
<1>2. n <= 4
  <2> SUFFICES ASSUME n > 4 PROVE FALSE OBVIOUS
  <2>1. Len(z) # 1 /\ Len(z) # 2 /\ Len(z) # 3 /\ Len(z) # 4 BY SMT, <1>1
  <2>2. Utf8CodePoints(z) = {} BY ONLY SMT, <2>1 DEF Utf8CodePoints
  <2> QED BY <2>2
<1>3. CASE Len(z) = 2
  <2> DEFINE x == (z[1] - 192) * 64 + (z[2] - 128)
  <2>1. Utf8CodePoints(z) \subseteq Within(x, 128, 2047) BY SMT, <1>3, PointOfTwo
  <2>2. x \in Int BY SMT, <1>3
  <2> HIDE DEF x
  <2> QED BY SMT, <2>1, <2>2, InWithin
<1>4. CASE Len(z) = 3
  <2> DEFINE x == (z[1] - 224) * 4096 + (z[2] - 128) * 64 + (z[3] - 128)
  <2>1. Utf8CodePoints(z) \subseteq Within(x, 2048, 55295) \cup Within(x, 57344, 65535)
      BY SMT, <1>4, PointOfThree
  <2>2. x \in Int BY SMT, <1>4
  <2> HIDE DEF x
  <2> QED BY SMT, <2>1, <2>2, InWithin
<1>5. CASE Len(z) = 4
  <2> DEFINE x == (z[1] - 240) * 262144 + (z[2] - 128) * 4096 + (z[3] - 128) * 64 + (z[4] - 128)
  <2>1. Utf8CodePoints(z) \subseteq Within(x, 65536, 1114111) BY SMT, <1>5, PointOfFour
  <2>2. x \in Int BY SMT, <1>5
  <2> HIDE DEF x
  <2> QED BY SMT, <2>1, <2>2, InWithin
<1>6. n = 2 \/ n = 3 \/ n = 4 BY SMT, <1>1, <1>2
<1> QED BY SMT, <1>1, <1>3, <1>4, <1>5, <1>6

LEMMA LongIsChar ==
    ASSUME NEW z \in Seq(Bytes), Len(z) > 1, Utf8CodePoints(z) # {}
    PROVE  CharOf(z, z)
<1>1. PICK cp : cp \in Utf8CodePoints(z) OBVIOUS
<1>2. Len(z) \in Nat /\ \A i \in 1..Len(z) : z[i] \in Bytes OBVIOUS
<1>3. \A i \in 1..Len(z) : z[i] \in Int BY <1>2, BytesAreInts
<1>4. cp \in Int /\ cp >= 128 BY <1>1, <1>2, <1>3, LongPoints
<1>5. cp > 31 /\ cp \notin {34, 92} BY <1>4
<1> QED BY <1>1, <1>5 DEF CharOf

\* The bytes of a code point are its UTF-8.
LEMMA EncodeIsUtf8 ==
    ASSUME NEW cp \in Int, cp >= 0, cp <= 1114111, cp < 55296 \/ cp > 57343
    PROVE  cp \in Utf8CodePoints(Encode(cp))
<1> DEFINE x == Low(cp, 1)
           y == Low(cp, 64)
           z == Low(cp, 4096)
<1>1. x \in Tails /\ y \in Tails /\ z \in Tails BY SMT, LowOK DEF Tails
<1>2. CASE cp < 128
  <2>1. Encode(cp) = <<cp>> BY SMT, <1>2, EncodeIs
  <2> QED BY SMT, <1>2, <2>1 DEF Utf8CodePoints
<1>3. CASE cp >= 128 /\ cp <= 2047
  <2> DEFINE a == 192 + (cp \div 64)
  <2>1. a \in 192..223 /\ a \in Int /\ x \in Int BY SMT, <1>1, <1>3 DEF Tails
  <2>2. Encode(cp) = <<a, x>> BY SMT, <1>3, EncodeIs
  <2>3. (a - 192) * 64 + (x - 128) = cp BY SMT DEF Low
  <2> HIDE DEF a, x
  <2>4. Utf8CodePoints(<<a, x>>) = Within((a - 192) * 64 + (x - 128), 128, 2047)
      BY SMT, <1>1, <2>1, PointOfTwo
  <2> QED BY SMT, <1>3, <2>2, <2>3, <2>4, InWithin
<1>4. CASE cp >= 2048 /\ cp <= 65535
  <2> DEFINE a == 224 + (cp \div 4096)
  <2>1. a \in 224..239 /\ a \in Int /\ x \in Int /\ y \in Int BY SMT, <1>1, <1>4 DEF Tails
  <2>2. Encode(cp) = <<a, y, x>> BY SMT, <1>4, EncodeIs
  <2>3. (a - 224) * 4096 + (y - 128) * 64 + (x - 128) = cp
    <3>1. cp \div 64 \in Int /\ cp = 64 * (cp \div 64) + (cp % 64) BY SMT
    <3>2. cp \div 64 = 64 * (cp \div 4096) + ((cp \div 64) % 64) BY SMT
    <3> QED BY SMT, <3>1, <3>2 DEF Low
  <2> HIDE DEF a, x, y
  <2>4. Utf8CodePoints(<<a, y, x>>) =
            Within((a - 224) * 4096 + (y - 128) * 64 + (x - 128), 2048, 55295)
              \cup Within((a - 224) * 4096 + (y - 128) * 64 + (x - 128), 57344, 65535)
      BY SMT, <1>1, <2>1, PointOfThree
  <2> QED BY SMT, <1>4, <2>2, <2>3, <2>4, InWithin
<1>5. CASE cp >= 65536
  <2> DEFINE a == 240 + (cp \div 262144)
  <2>1. a \in 240..247 /\ a \in Int /\ x \in Int /\ y \in Int /\ z \in Int
      BY SMT, <1>1, <1>5 DEF Tails
  <2>2. Encode(cp) = <<a, z, y, x>> BY SMT, <1>5, EncodeIs
  <2>3. (a - 240) * 262144 + (z - 128) * 4096 + (y - 128) * 64 + (x - 128) = cp
    <3>1. cp \div 64 \in Int /\ cp = 64 * (cp \div 64) + (cp % 64) BY SMT
    <3>2. cp \div 4096 \in Int /\ cp \div 64 = 64 * (cp \div 4096) + ((cp \div 64) % 64) BY SMT
    <3>3. cp \div 4096 = 64 * (cp \div 262144) + ((cp \div 4096) % 64) BY SMT
    <3> QED BY SMT, <3>1, <3>2, <3>3 DEF Low
  <2> HIDE DEF a, x, y, z
  <2> DEFINE w == <<a, z, y, x>>
  <2>4. Len(w) = 4 /\ w[1] = a /\ w[2] = z /\ w[3] = y /\ w[4] = x BY SMT
  <2> HIDE DEF w
  <2>5. Utf8CodePoints(w) =
            Within((a - 240) * 262144 + (z - 128) * 4096 + (y - 128) * 64 + (x - 128),
                   65536, 1114111)
    <3>1. w[2] \in Tails /\ w[3] \in Tails /\ w[4] \in Tails /\ w[1] \in 240..247
        BY ONLY Zenon, <1>1, <2>1, <2>4
    <3>2. Utf8CodePoints(w) =
            Within((w[1] - 240) * 262144 + (w[2] - 128) * 4096 + (w[3] - 128) * 64
                       + (w[4] - 128), 65536, 1114111)
        BY SMT, <2>4, <3>1, PointOfFour
    <3> QED BY SMT, <2>4, <3>2
  <2> QED BY SMT, <1>5, <2>2, <2>3, <2>5, InWithin DEF w
<1> QED BY SMT, <1>2, <1>3, <1>4, <1>5

LEMMA HexNibble ==
    ASSUME NEW d \in HexDigits
    PROVE  HexValue(d) \in Nibbles(d) /\ HexValue(d) \in 0..15 /\ d \in Bytes
BY SMT DEF HexDigits, HexValue, Nibbles, Bytes

BackslashU == <<92, 117>>

\* \u and four digits.
LEMMA EscapedUnit ==
    ASSUME NEW digits \in Seq(HexDigits), Len(digits) = 4
    PROVE  /\ digits \in Seq(Bytes)
           /\ BackslashU \o digits \in Seq(Bytes) /\ Len(BackslashU \o digits) = 6
           /\ Codepoint(digits) \in Units(BackslashU \o digits)
           /\ Codepoint(digits) \in Int /\ Codepoint(digits) >= 0 /\ Codepoint(digits) <= 65535
<1> DEFINE r == BackslashU \o digits
<1>1. \A i \in 1..4 : digits[i] \in HexDigits OBVIOUS
<1>2. HexDigits \subseteq Bytes BY HexNibble
<1>3. digits \in Seq(Bytes) BY <1>2
<1>4. BackslashU \in Seq(Bytes) /\ Len(BackslashU) = 2 BY DEF BackslashU, Bytes
<1>5. r \in Seq(Bytes) /\ Len(r) = 6
  <2>1. r \in Seq(Bytes) /\ Len(r) = Len(BackslashU) + Len(digits)
      BY Zenon, <1>3, <1>4, ConcatBytes
  <2> QED BY <1>4, <2>1
<1>6. r[1] = 92 /\ r[2] = 117
  <2>1. BackslashU[1] = 92 /\ BackslashU[2] = 117 BY DEF BackslashU
  <2>2. r[1] = BackslashU[1] /\ r[2] = BackslashU[2] BY <1>3, <1>4, ConcatBytes
  <2> QED BY <2>1, <2>2
<1>7. r[3] = digits[1] /\ r[4] = digits[2] /\ r[5] = digits[3] /\ r[6] = digits[4]
  <2>1. \A i \in 1..Len(digits) : r[Len(BackslashU) + i] = digits[i]
      BY Zenon, <1>3, <1>4, ConcatBytes
  <2>2. \A i \in 1..4 : r[2 + i] = digits[i] BY <1>4, <2>1
  <2> HIDE DEF r
  <2> QED BY <2>2
<1> HIDE DEF r
<1> DEFINE a == HexValue(digits[1])
           b == HexValue(digits[2])
           c == HexValue(digits[3])
           d == HexValue(digits[4])
<1>8. /\ a \in Nibbles(r[3]) /\ b \in Nibbles(r[4]) /\ c \in Nibbles(r[5]) /\ d \in Nibbles(r[6])
      /\ a \in 0..15 /\ b \in 0..15 /\ c \in 0..15 /\ d \in 0..15
    BY <1>1, <1>7, HexNibble
<1>9. Codepoint(digits) = 4096 * a + 256 * b + 16 * c + d BY SMT DEF Codepoint
<1> HIDE DEF a, b, c, d
<1>10. Codepoint(digits) \in Int /\ Codepoint(digits) >= 0 /\ Codepoint(digits) <= 65535
    BY SMT, <1>8, <1>9
<1>11. Codepoint(digits) \in Units(r) BY SMT, <1>5, <1>6, <1>8, <1>9 DEF Units
<1> QED BY <1>3, <1>5, <1>10, <1>11 DEF r

LEMMA UnitIsChar ==
    ASSUME NEW digits \in Seq(HexDigits), Len(digits) = 4,
           Codepoint(digits) \notin HighSurrogates, Codepoint(digits) \notin LowSurrogates
    PROVE  /\ CharOf(BackslashU \o digits, Encode(Codepoint(digits)))
           /\ Utf8CodePoints(Encode(Codepoint(digits))) # {}
<1> DEFINE u == Codepoint(digits)
<1>1. u \in Int /\ u >= 0 /\ u <= 65535 /\ u \in Units(BackslashU \o digits)
    BY SMT, EscapedUnit
<1>2. u < 55296 \/ u > 57343
  <2>1. u \notin 55296..56319 /\ u \notin 56320..57343 BY SMT DEF HighSurrogates, LowSurrogates
  <2> HIDE DEF u
  <2> QED BY SMT, <1>1, <2>1
<1>3. u \in Utf8CodePoints(Encode(u)) BY SMT, <1>1, <1>2, EncodeIsUtf8
<1> QED BY SMT, <1>1, <1>3 DEF CharOf

LEMMA PairIsChar ==
    ASSUME NEW first \in Seq(HexDigits), Len(first) = 4, Codepoint(first) \in HighSurrogates,
           NEW digits \in Seq(HexDigits), Len(digits) = 4, Codepoint(digits) \in LowSurrogates,
           NEW cp, cp = Codepoint(first) * 1024 + Codepoint(digits) - 56613888
    PROVE  /\ CharOf((BackslashU \o first) \o (BackslashU \o digits), Encode(cp))
           /\ Utf8CodePoints(Encode(cp)) # {}
           /\ Encode(cp) \in Seq(Bytes)
<1> DEFINE a == BackslashU \o first
           b == BackslashU \o digits
           r == a \o b
           high == Codepoint(first)
           low == Codepoint(digits)
<1>1. a \in Seq(Bytes) /\ Len(a) = 6 /\ high \in Units(a) /\ high \in Int BY SMT, EscapedUnit
<1>2. b \in Seq(Bytes) /\ Len(b) = 6 /\ low \in Units(b) /\ low \in Int BY SMT, EscapedUnit
<1> HIDE DEF a, b
<1>3. Len(r) = 12
  <2>1. Len(r) = Len(a) + Len(b) BY ONLY Zenon, <1>1, <1>2, ConcatBytes
  <2> QED BY SMT, <1>1, <1>2, <2>1
<1>4. SubSeq(r, 1, 6) = a
  <2>1. 0 \in 0..Len(a) /\ 6 \in 0..Len(a) BY SMT, <1>1
  <2>2. SubSeq(r, 0 + 1, 6) = SubSeq(a, 0 + 1, 6) BY ONLY Zenon, <1>1, <1>2, <2>1, PartsOfConcat
  <2>3. SubSeq(a, 0 + 1, 6) = a BY ONLY SMT, <1>1
  <2>4. 0 + 1 = 1 BY ONLY SMT
  <2> QED BY ONLY Zenon, <2>2, <2>3, <2>4
<1>5. SubSeq(r, 7, 12) = b
  <2>1. SubSeq(r, Len(a) + 1, Len(a) + Len(b)) = b BY ONLY Zenon, <1>1, <1>2, PartsOfConcat
  <2>2. Len(a) + 1 = 7 /\ Len(a) + Len(b) = 12 BY SMT, <1>1, <1>2
  <2> QED BY SMT, <2>1, <2>2
<1> HIDE DEF r
<1>6. high \in HighSurrogates /\ low \in LowSurrogates OBVIOUS
<1> HIDE DEF high, low
<1>7. high >= 55296 /\ high <= 56319 /\ low >= 56320 /\ low <= 57343
    BY ONLY SMT, <1>1, <1>2, <1>6 DEF HighSurrogates, LowSurrogates
<1>8. cp = high * 1024 + low - 56613888 BY SMT DEF high, low
<1>9. cp \in Int /\ cp >= 65536 /\ cp <= 1114111 /\ cp = 65536 + (high - 55296) * 1024 + (low - 56320)
    BY SMT, <1>1, <1>2, <1>7, <1>8
<1>10. cp \in Utf8CodePoints(Encode(cp)) /\ Encode(cp) \in Seq(Bytes)
    BY SMT, <1>9, EncodeIsUtf8, EncodeOK
<1>11. high \in 55296..56319 /\ low \in 56320..57343 BY ONLY SMT, <1>1, <1>2, <1>7
<1>12. CharOf(r, Encode(cp))
  <2>1. PICK v : v = Encode(cp) OBVIOUS
  <2>2. cp \in Utf8CodePoints(v) BY ONLY SMT, <1>10, <2>1
  <2>3. PICK x : x = 65536 + (high - 55296) * 1024 + (low - 56320) OBVIOUS
  <2>4. x = cp BY ONLY SMT, <1>9, <2>3
  <2>5. x \in Utf8CodePoints(v) BY ONLY SMT, <2>2, <2>4
  <2>6. high \in Units(SubSeq(r, 1, 6)) /\ low \in Units(SubSeq(r, 7, 12))
      BY ONLY Zenon, <1>1, <1>2, <1>4, <1>5
  <2>7. \E h \in Units(SubSeq(r, 1, 6)), k \in Units(SubSeq(r, 7, 12)) :
           /\ h \in 55296..56319 /\ k \in 56320..57343
           /\ 65536 + (h - 55296) * 1024 + (k - 56320) \in Utf8CodePoints(v)
    <3>1. 65536 + (high - 55296) * 1024 + (low - 56320) \in Utf8CodePoints(v)
        BY ONLY SMT, <2>3, <2>5
    <3> QED BY ONLY SMT, <1>11, <2>6, <3>1
  <2>8. CharOf(r, v) BY ONLY SMT, <1>3, <2>7 DEF CharOf
  <2> QED BY ONLY SMT, <2>1, <2>8
<1> QED BY SMT, <1>10, <1>12 DEF r, a, b

\* The bytes that a range allows.
Allowed(range) == range[1]..range[2]

LEMMA RestRanges ==
    ASSUME NEW b \in Bytes, Utf8Rest(b) # <<>>
    PROVE  LET r == Utf8Rest(b)
           IN  /\ r \in Seq(Ranges) /\ Width(b) \in 2..4 /\ Len(r) = Width(b) - 1
               /\ Allowed(r[1]) = SecondOf(b)
               /\ \A i \in 2..Len(r) : Allowed(r[i]) = Tails
<1> DEFINE t == Tail80BF
           r == Utf8Rest(b)
<1>1. b \in 194..244 /\ r \in Seq(Ranges) BY RestFacts
<1>2. Allowed(t) = Tails BY DEF Allowed, Tail80BF, Tails
<1> DEFINE g1 == b \in 194..223
           g2 == b = 224
           g3 == b \in 225..236 \cup {238, 239}
           g4 == b = 237
           g5 == b = 240
           g6 == b \in 241..243
           g7 == b = 244
<1> DEFINE one == <<t>>
           two == <<t, t>>
           e0 == << <<160, 191>>, t >>
           ed == << <<128, 159>>, t >>
           f0 == << <<144, 191>>, t, t >>
           three == <<t, t, t>>
           f4 == << <<128, 143>>, t, t >>
<1>3. Utf8Rest(b) = CASE g1 -> one [] g2 -> e0 [] g3 -> two [] g4 -> ed [] g5 -> f0
                      [] g6 -> three [] g7 -> f4 [] OTHER -> <<>>
    BY DEF Utf8Rest
<1>4. \/ g1 /\ ~g2 /\ ~g3 /\ ~g4 /\ ~g5 /\ ~g6 /\ ~g7 /\ Width(b) = 2 /\ SecondOf(b) = Tails
      \/ ~g1 /\ g2 /\ ~g3 /\ ~g4 /\ ~g5 /\ ~g6 /\ ~g7 /\ Width(b) = 3 /\ SecondOf(b) = 160..191
      \/ ~g1 /\ ~g2 /\ g3 /\ ~g4 /\ ~g5 /\ ~g6 /\ ~g7 /\ Width(b) = 3 /\ SecondOf(b) = Tails
      \/ ~g1 /\ ~g2 /\ ~g3 /\ g4 /\ ~g5 /\ ~g6 /\ ~g7 /\ Width(b) = 3 /\ SecondOf(b) = 128..159
      \/ ~g1 /\ ~g2 /\ ~g3 /\ ~g4 /\ g5 /\ ~g6 /\ ~g7 /\ Width(b) = 4 /\ SecondOf(b) = 144..191
      \/ ~g1 /\ ~g2 /\ ~g3 /\ ~g4 /\ ~g5 /\ g6 /\ ~g7 /\ Width(b) = 4 /\ SecondOf(b) = Tails
      \/ ~g1 /\ ~g2 /\ ~g3 /\ ~g4 /\ ~g5 /\ ~g6 /\ g7 /\ Width(b) = 4 /\ SecondOf(b) = 128..143
    BY <1>1 DEF Width, SecondOf
<1>5. Width(b) \in 2..4 BY <1>4
<1> HIDE DEF g1, g2, g3, g4, g5, g6, g7, one, two, e0, ed, f0, three, f4
<1>6. \/ r = one /\ Width(b) = 2 /\ SecondOf(b) = Tails
      \/ r = e0 /\ Width(b) = 3 /\ SecondOf(b) = 160..191
      \/ r = two /\ Width(b) = 3 /\ SecondOf(b) = Tails
      \/ r = ed /\ Width(b) = 3 /\ SecondOf(b) = 128..159
      \/ r = f0 /\ Width(b) = 4 /\ SecondOf(b) = 144..191
      \/ r = three /\ Width(b) = 4 /\ SecondOf(b) = Tails
      \/ r = f4 /\ Width(b) = 4 /\ SecondOf(b) = 128..143
    BY <1>3, <1>4
<1> HIDE DEF r, t
<1> DEFINE Fine == /\ Len(r) = Width(b) - 1 /\ Allowed(r[1]) = SecondOf(b)
                   /\ \A i \in 2..Len(r) : r[i] = t
<1>7. ASSUME r = one, Width(b) = 2, SecondOf(b) = Tails PROVE Fine
    BY <1>2, <1>7 DEF one
<1>8. ASSUME r = e0, Width(b) = 3, SecondOf(b) = 160..191 PROVE Fine
    BY <1>8 DEF e0, Allowed
<1>9. ASSUME r = two, Width(b) = 3, SecondOf(b) = Tails PROVE Fine
    BY <1>2, <1>9 DEF two
<1>10. ASSUME r = ed, Width(b) = 3, SecondOf(b) = 128..159 PROVE Fine
    BY <1>10 DEF ed, Allowed
<1>11. ASSUME r = f0, Width(b) = 4, SecondOf(b) = 144..191 PROVE Fine
    BY <1>11 DEF f0, Allowed
<1>12. ASSUME r = three, Width(b) = 4, SecondOf(b) = Tails PROVE Fine
    BY <1>2, <1>12 DEF three
<1>13. ASSUME r = f4, Width(b) = 4, SecondOf(b) = 128..143 PROVE Fine
    BY <1>13 DEF f4, Allowed
<1> HIDE DEF Fine
<1>14. Fine BY Zenon, <1>6, <1>7, <1>8, <1>9, <1>10, <1>11, <1>12, <1>13
<1> QED BY <1>1, <1>2, <1>5, <1>14 DEF r, Fine

\* A code point at the beginning of a sequence.
LEMMA BeginsHere ==
    ASSUME NEW z, Len(z) \in Nat, NEW k \in Nat
    PROVE  Begins(z, 1, k) <=>
              /\ k >= 1 /\ k <= 4 /\ k <= Len(z) /\ k <= Width(z[1])
              /\ k >= 2 => z[2] \in SecondOf(z[1])
              /\ k >= 3 => z[3] \in Tails
              /\ k >= 4 => z[4] \in Tails
BY DEF Begins

\* The bytes of a code point that are there, and the ranges of those that are not.
CharBegun(z, rest) ==
    /\ z \in Seq(Bytes) /\ Begins(z, 1, Len(z))
    /\ rest \in Seq(Ranges) /\ Width(z[1]) \in 2..4 /\ Len(rest) = Width(z[1]) - Len(z)
    /\ \A i \in 1..Len(rest) :
          Allowed(rest[i]) = IF Len(z) = 1 /\ i = 1 THEN SecondOf(z[1]) ELSE Tails

LEMMA FirstOfChar ==
    ASSUME NEW b \in Bytes, Utf8Rest(b) # <<>>
    PROVE  CharBegun(<<b>>, Utf8Rest(b))
<1> DEFINE z == <<b>>
<1>1. z \in Seq(Bytes) /\ Len(z) = 1 /\ z[1] = b OBVIOUS
<1>2. /\ Utf8Rest(b) \in Seq(Ranges) /\ Width(b) \in 2..4 /\ Len(Utf8Rest(b)) = Width(b) - 1
      /\ Allowed(Utf8Rest(b)[1]) = SecondOf(b)
      /\ \A i \in 2..Len(Utf8Rest(b)) : Allowed(Utf8Rest(b)[i]) = Tails
    BY RestRanges
<1> HIDE DEF z
<1>3. Begins(z, 1, Len(z)) BY <1>1, <1>2 DEF Begins
<1>4. CharBegun(z, Utf8Rest(b)) BY <1>1, <1>2, <1>3 DEF CharBegun
<1> QED BY <1>4 DEF z

LEMMA NextOfChar ==
    ASSUME NEW z, NEW rest, CharBegun(z, rest), rest # <<>>, NEW c \in Bytes,
           c \in Allowed(Head(rest))
    PROVE  CharBegun(Append(z, c), Tail(rest))
<1> DEFINE y == Append(z, c)
           t == Tail(rest)
<1>1. z \in Seq(Bytes) /\ rest \in Seq(Ranges) BY DEF CharBegun
<1>2. y \in Seq(Bytes) /\ Len(y) = Len(z) + 1 /\ y[Len(z) + 1] = c
      /\ \A i \in 1..Len(z) : y[i] = z[i]
    BY <1>1
<1>3. t \in Seq(Ranges) /\ Len(t) = Len(rest) - 1 /\ \A i \in 1..Len(t) : t[i] = rest[i + 1]
    BY <1>1
<1>4. Head(rest) = rest[1] /\ Len(rest) \in Nat /\ Len(rest) > 0 BY <1>1
<1>5. /\ Len(z) \in Nat /\ Len(z) >= 1 /\ Len(z) <= 4 /\ Len(z) <= Width(z[1])
      /\ Len(z) >= 2 => z[2] \in SecondOf(z[1])
      /\ Len(z) >= 3 => z[3] \in Tails
  <2>1. Len(z) \in Nat /\ Begins(z, 1, Len(z)) BY <1>1 DEF CharBegun
  <2> QED BY ONLY <2>1, BeginsHere
<1>6. c \in IF Len(z) = 1 THEN SecondOf(z[1]) ELSE Tails
    BY <1>4 DEF CharBegun
<1>7. z[1] = y[1] /\ Width(z[1]) \in 2..4 /\ Len(rest) = Width(z[1]) - Len(z)
    BY <1>2, <1>5 DEF CharBegun
<1> HIDE DEF y, t
<1>8. Begins(y, 1, Len(y))
  <2> PICK n \in Nat : n = Len(z) BY <1>5
  <2>1. Len(y) = n + 1 /\ n >= 1 /\ n + 1 <= Width(y[1]) /\ n + 1 <= 4 BY <1>2, <1>4, <1>5, <1>7
  <2>2. y[n + 1] = c /\ \A i \in 1..n : y[i] = z[i] BY <1>2
  <2>3. y[2] \in SecondOf(y[1])
    <3>1. CASE n = 1 BY <1>6, <1>7, <2>2, <3>1
    <3>2. CASE n >= 2 BY <1>5, <1>7, <2>2, <3>2
    <3> QED BY <2>1, <3>1, <3>2
  <2>4. n >= 2 => y[3] \in Tails
    <3>1. CASE n = 2 BY <1>6, <2>2, <3>1
    <3>2. CASE n >= 3 BY <1>5, <2>2, <3>2
    <3> QED BY <2>1, <3>1, <3>2
  <2>5. n >= 3 => y[4] \in Tails BY <1>6, <2>1, <2>2
  <2>6. n + 1 >= 1 /\ n + 1 \in Nat /\ Len(y) \in Nat BY <2>1
  <2>7. n + 1 >= 2 => y[2] \in SecondOf(y[1]) BY <2>3
  <2>8. n + 1 >= 3 => y[3] \in Tails BY <2>4
  <2>9. n + 1 >= 4 => y[4] \in Tails BY <2>5
  <2>10. n + 1 <= Len(y) BY <2>1, <2>6
  <2>11. Begins(y, 1, n + 1) BY <2>1, <2>6, <2>7, <2>8, <2>9, <2>10, BeginsHere
  <2> QED BY <2>1, <2>11
<1>9. \A i \in 1..Len(t) : Allowed(t[i]) = Tails
  <2> SUFFICES ASSUME NEW i \in 1..Len(t) PROVE Allowed(t[i]) = Tails OBVIOUS
  <2>1. i + 1 \in 1..Len(rest) /\ i + 1 # 1 BY <1>3, <1>4
  <2>2. Allowed(rest[i + 1]) = Tails BY <2>1 DEF CharBegun
  <2> QED BY <1>3, <2>2
<1>10. Len(y) # 1 /\ Len(t) = Width(y[1]) - Len(y) BY <1>2, <1>3, <1>5, <1>7
<1> QED BY <1>2, <1>3, <1>7, <1>8, <1>9, <1>10 DEF CharBegun, y, t

LEMMA CharIsWhole ==
    ASSUME NEW z, CharBegun(z, <<>>)
    PROVE  CharOf(z, z) /\ Utf8CodePoints(z) # {} /\ Len(z) > 1
<1>1. z \in Seq(Bytes) /\ Len(z) \in Nat /\ Begins(z, 1, Len(z)) BY DEF CharBegun
<1>2. Len(z) \in 2..4 /\ Len(z) > 1 /\ Width(z[1]) = Len(z)
  <2>1. Len(<<>>) = 0 OBVIOUS
  <2>2. Width(z[1]) \in 2..4 /\ 0 = Width(z[1]) - Len(z) BY <2>1 DEF CharBegun
  <2>3. PICK n \in Nat, w \in Nat : n = Len(z) /\ w = Width(z[1]) /\ w >= 2 /\ w <= 4
      BY <1>1, <2>2
  <2>4. n = w /\ n > 1 BY <2>2, <2>3
  <2> QED BY <2>3, <2>4
<1>3. /\ z[2] \in SecondOf(z[1])
      /\ Len(z) >= 3 => z[3] \in Tails
      /\ Len(z) >= 4 => z[4] \in Tails
    BY <1>1, <1>2, BeginsHere
<1>4. \A i \in 1..Len(z) : z[i] \in Bytes BY <1>1
<1>5. Utf8CodePoints(z) # {}
  <2>1. CASE Len(z) = 2
    <3>1. z[1] \in Bytes /\ z[2] \in Bytes BY <1>4, <2>1
    <3> QED BY Zenon, <1>2, <1>3, <2>1, <3>1, PointsTwo
  <2>2. CASE Len(z) = 3
    <3>1. z[1] \in Bytes /\ z[2] \in Bytes /\ z[3] \in Bytes /\ z[3] \in Tails
        BY <1>3, <1>4, <2>2
    <3> QED BY Zenon, <1>2, <1>3, <2>2, <3>1, PointsThree
  <2>3. CASE Len(z) = 4
    <3>1. /\ z[1] \in Bytes /\ z[2] \in Bytes /\ z[3] \in Bytes /\ z[4] \in Bytes
          /\ z[3] \in Tails /\ z[4] \in Tails
        BY <1>3, <1>4, <2>3
    <3> QED BY Zenon, <1>2, <1>3, <2>3, <3>1, PointsFour
  <2> QED BY <1>2, <2>1, <2>2, <2>3
<1> QED BY <1>1, <1>2, <1>5, LongIsChar

LEMMA ConcatAppends ==
    ASSUME NEW s \in Seq(Bytes), NEW x \in Seq(Bytes), NEW c \in Bytes
    PROVE  Append(s \o x, c) = s \o Append(x, c) /\ Append(s \o x, c) \in Seq(Bytes)
<1> DEFINE a == s \o x
           y == Append(x, c)
           l == Append(a, c)
           r == s \o y
<1>1. a \in Seq(Bytes) /\ Len(a) = Len(s) + Len(x)
      /\ (\A i \in 1..Len(s) : a[i] = s[i]) /\ \A i \in 1..Len(x) : a[Len(s) + i] = x[i]
    BY Zenon, ConcatBytes
<1>2. y \in Seq(Bytes) /\ Len(y) = Len(x) + 1 /\ y[Len(x) + 1] = c
      /\ \A i \in 1..Len(x) : y[i] = x[i]
    OBVIOUS
<1> HIDE DEF a, y
<1>3. l \in Seq(Bytes) /\ Len(l) = Len(a) + 1 /\ l[Len(a) + 1] = c
      /\ \A i \in 1..Len(a) : l[i] = a[i]
    BY <1>1
<1>4. r \in Seq(Bytes) /\ Len(r) = Len(s) + Len(y)
      /\ (\A i \in 1..Len(s) : r[i] = s[i]) /\ \A i \in 1..Len(y) : r[Len(s) + i] = y[i]
    BY Zenon, <1>2, ConcatBytes
<1> HIDE DEF l, r
<1>5. PICK n \in Nat, k \in Nat : n = Len(s) /\ k = Len(x) OBVIOUS
<1>6. Len(l) = n + k + 1 /\ Len(r) = n + k + 1 /\ Len(a) = n + k /\ Len(y) = k + 1
    BY <1>1, <1>2, <1>3, <1>4, <1>5
<1>7. /\ \A i \in 1..n : a[i] = s[i] /\ l[i] = a[i] /\ r[i] = s[i]
      /\ \A i \in 1..k : a[n + i] = x[i] /\ l[n + i] = a[n + i] /\ y[i] = x[i]
      /\ \A i \in 1..(k + 1) : r[n + i] = y[i]
      /\ l[n + k + 1] = c /\ y[k + 1] = c
  <2>1. \A i \in 1..n : i \in 1..(n + k) BY <1>5
  <2>2. \A i \in 1..k : n + i \in 1..(n + k) /\ i \in 1..(k + 1) BY <1>5
  <2>3. \A i \in 1..n : a[i] = s[i] /\ r[i] = s[i] BY <1>1, <1>4, <1>5
  <2>4. \A i \in 1..(n + k) : l[i] = a[i] BY <1>3, <1>6
  <2>5. \A i \in 1..k : a[n + i] = x[i] /\ y[i] = x[i] BY <1>1, <1>2, <1>5
  <2>6. \A i \in 1..(k + 1) : r[n + i] = y[i] BY <1>4, <1>5, <1>6
  <2>7. l[n + k + 1] = c /\ y[k + 1] = c BY <1>2, <1>3, <1>5, <1>6
  <2>8. \A i \in 1..n : a[i] = s[i] /\ l[i] = a[i] /\ r[i] = s[i] BY ONLY <2>1, <2>3, <2>4
  <2>9. \A i \in 1..k : a[n + i] = x[i] /\ l[n + i] = a[n + i] /\ y[i] = x[i]
      BY ONLY <2>2, <2>4, <2>5
  <2> QED BY ONLY <2>6, <2>7, <2>8, <2>9
<1>8. ASSUME NEW i \in 1..Len(l) PROVE l[i] = r[i]
  <2>1. i \in Int /\ 1 <= i /\ i <= n + k + 1 BY <1>6
  <2>2. i \in 1..n \/ (i - n \in 1..k /\ n + (i - n) = i) \/ i = n + (k + 1)
      BY ONLY <2>1, n \in Nat, k \in Nat
  <2>3. \A j \in 1..k : l[n + j] = r[n + j]
    <3>1. \A j \in 1..k : j \in 1..(k + 1) BY <1>5
    <3> QED BY <1>7, <3>1
  <2>4. l[n + (k + 1)] = r[n + (k + 1)]
    <3>1. k + 1 \in 1..(k + 1) /\ n + k + 1 = n + (k + 1) BY <1>5
    <3> QED BY <1>7, <3>1
  <2>5. CASE i \in 1..n BY <1>7, <2>5
  <2>6. CASE i - n \in 1..k /\ n + (i - n) = i BY <2>3, <2>6
  <2>7. CASE i = n + (k + 1) BY <2>4, <2>7
  <2> QED BY <2>2, <2>5, <2>6, <2>7
<1>9. l = r BY <1>3, <1>4, <1>6, <1>8, SeqEqual
<1> QED BY <1>3, <1>9 DEF l, r, a, y

LEMMA ConcatNothing ==
    ASSUME NEW s \in Seq(Bytes)
    PROVE  s \o <<>> = s /\ <<>> \in Seq(Bytes)
OBVIOUS

LEMMA ConcatOne ==
    ASSUME NEW s \in Seq(Bytes), NEW c \in Bytes
    PROVE  s \o <<c>> = Append(s, c) /\ Append(s, c) \in Seq(Bytes) /\ <<c>> \in Seq(Bytes)
           /\ Len(Append(s, c)) = Len(s) + 1
OBVIOUS

LEMMA ConcatGroups ==
    ASSUME NEW s \in Seq(Bytes), NEW x \in Seq(Bytes), NEW y \in Seq(Bytes)
    PROVE  (s \o x) \o y = s \o (x \o y)
BY ConcatAssociative

-----------------------------------------------------------------------------
(* A string that was read so far: its characters, and the one begun.       *)

Quoted(r, z) == (<<34>> \o r) \o z

LEMMA QuotedFacts ==
    ASSUME NEW r \in Seq(Bytes), NEW z \in Seq(Bytes)
    PROVE  /\ \A c \in Bytes : Append(Quoted(r, z), c) = Quoted(r, Append(z, c))
           /\ Quoted(r, z) = Quoted(r \o z, <<>>)
           /\ Quoted(r, <<>>) = <<34>> \o r
           /\ Quoted(r, z) \in Seq(Bytes)
<1> DEFINE q == <<34>>
           s == q \o r
           none == <<>>
<1>1. q \in Seq(Bytes) BY DEF Bytes
<1> HIDE DEF q
<1>2. s \in Seq(Bytes) BY Zenon, <1>1, ConcatBytes
<1>3. q \o (r \o z) = s \o z BY Zenon, <1>1, ConcatGroups
<1> HIDE DEF s
<1>4. s \o z \in Seq(Bytes) BY Zenon, <1>2, ConcatBytes
<1>5. \A c \in Bytes : Append(s \o z, c) = s \o Append(z, c) BY Zenon, <1>2, ConcatAppends
<1>6. r \o z \in Seq(Bytes) BY Zenon, ConcatBytes
<1>7. q \o (r \o z) \in Seq(Bytes) BY Zenon, <1>1, <1>6, ConcatBytes
<1>8. (q \o (r \o z)) \o none = q \o (r \o z) BY Zenon, <1>7, ConcatNothing
<1>9. s \o none = s BY Zenon, <1>2, ConcatNothing
<1> QED BY Zenon, <1>3, <1>4, <1>5, <1>8, <1>9 DEF Quoted, s, q

\* The first half of a pair was read, and h is how it was written.
HalfOf(high, h) ==
    /\ high \in HighSurrogates
    /\ \E first \in Seq(HexDigits) :
          Len(first) = 4 /\ Codepoint(first) = high /\ h = BackslashU \o first

\* Where the scanner is, when v is what it has of a string, and z the character begun.
Between(l, v, z) == l.at = "string" /\ l.high = 0 /\ l.buffer = v /\ z = <<>>
InPoint(l, v, z) ==
    l.at = "utf8" /\ l.high = 0 /\ l.buffer = v \o z /\ CharBegun(z, l.rest)
InEscape(l, v, z) == l.at = "escape" /\ l.high = 0 /\ l.buffer = v /\ z = <<92>>
InUnit(l, v, z) ==
    /\ l.at = "hex" /\ l.buffer = v
    /\ \/ l.high = 0 /\ z = BackslashU \o l.rest
       \/ \E h \in Seq(Bytes) : HalfOf(l.high, h) /\ z = h \o (BackslashU \o l.rest)
InPair(l, v, z) == l.at = "pair" /\ l.buffer = v /\ HalfOf(l.high, z)
InPairU(l, v, z) ==
    /\ l.at = "pair u" /\ l.buffer = v
    /\ \E h \in Seq(Bytes) : HalfOf(l.high, h) /\ z = Append(h, 92)

InChar(l, v, z) ==
    \/ Between(l, v, z) \/ InPoint(l, v, z) \/ InEscape(l, v, z)
    \/ InUnit(l, v, z) \/ InPair(l, v, z) \/ InPairU(l, v, z)

StringSoFar(l, raw) ==
    \E r \in Seq(Bytes), v \in Seq(Bytes), z \in Seq(Bytes) :
        raw = Quoted(r, z) /\ CharsOf(r, v) /\ InChar(l, v, z)

\* What a byte may do in a string.
StringOn(m, raw, c) ==
    c \in Bytes /\ m.token = "none" /\ ~m.unget /\ StringSoFar(m, Append(raw, c))
StringDone(m, raw, c) ==
    /\ c \in Bytes /\ m.token = "value_string" /\ m.at = "start" /\ ~m.unget /\ m.high = 0
    /\ StringOf(Append(raw, c), m.buffer)
StringStep(m, raw, c) == m.token = "parse_error" \/ StringOn(m, raw, c) \/ StringDone(m, raw, c)

LEMMA FailStep ==
    ASSUME NEW k \in Lexers, NEW raw, NEW c
    PROVE  StringStep(Fail(k), raw, c)
BY FailFields DEF StringStep

\* A character goes on.
LEMMA CharGoesOn ==
    ASSUME NEW r \in Seq(Bytes), NEW v \in Seq(Bytes), NEW z \in Seq(Bytes), CharsOf(r, v),
           NEW c \in Bytes, NEW m, m.token = "none", ~m.unget, InChar(m, v, Append(z, c))
    PROVE  StringStep(m, Quoted(r, z), c)
<1>1. Append(z, c) \in Seq(Bytes) OBVIOUS
<1>2. Append(Quoted(r, z), c) = Quoted(r, Append(z, c)) BY Zenon, QuotedFacts
<1> QED BY Zenon, <1>1, <1>2 DEF StringStep, StringOn, StringSoFar

\* A character is complete.
LEMMA CharEnds ==
    ASSUME NEW r \in Seq(Bytes), NEW v \in Seq(Bytes), NEW z \in Seq(Bytes), CharsOf(r, v),
           NEW c \in Bytes, NEW y \in Seq(Bytes), CharOf(Append(z, c), y),
           NEW m, m.token = "none", ~m.unget, m.at = "string", m.high = 0, m.buffer = v \o y
    PROVE  StringStep(m, Quoted(r, z), c)
<1> DEFINE x == Append(z, c)
           none == <<>>
<1>1. x \in Seq(Bytes) /\ Len(x) > 0 OBVIOUS
<1>2. Append(Quoted(r, z), c) = Quoted(r, x) BY Zenon, QuotedFacts
<1> HIDE DEF x
<1>3. Quoted(r, x) = Quoted(r \o x, none) BY Zenon, <1>1, QuotedFacts
<1>4. CharsOf(r \o x, v \o y) BY <1>1, MoreChars DEF x
<1>5. r \o x \in Seq(Bytes) /\ v \o y \in Seq(Bytes) BY Zenon, <1>1, ConcatBytes
<1>6. none \in Seq(Bytes) OBVIOUS
<1>7. InChar(m, v \o y, none) BY DEF InChar, Between
<1> HIDE DEF none
<1> QED BY Zenon, <1>2, <1>3, <1>4, <1>5, <1>6, <1>7 DEF StringStep, StringOn, StringSoFar

\* The closing quote.
LEMMA StringEnds ==
    ASSUME NEW r \in Seq(Bytes), NEW v \in Seq(Bytes), CharsOf(r, v),
           NEW m, m.token = "value_string", m.at = "start", ~m.unget, m.high = 0, m.buffer = v
    PROVE  StringStep(m, Quoted(r, <<>>), 34)
<1> DEFINE s == <<34>> \o r
           t == Append(s, 34)
<1>1. 34 \in Bytes BY DEF Bytes
<1>2. Quoted(r, <<>>) = s BY Zenon, QuotedFacts DEF s
<1>3. <<34>> \in Seq(Bytes) /\ Len(<<34>>) = 1 /\ <<34>>[1] = 34 BY <1>1
<1>4. s \in Seq(Bytes) /\ Len(s) = Len(r) + 1 /\ s[1] = 34
  <2>1. /\ s \in Seq(Bytes) /\ Len(s) = Len(<<34>>) + Len(r)
        /\ \A i \in 1..Len(<<34>>) : s[i] = <<34>>[i]
      BY Zenon, <1>3, ConcatBytes
  <2> QED BY <1>3, <2>1
<1>5. SubSeq(s, 2, Len(s)) = r
  <2>1. SubSeq(<<34>> \o r, Len(<<34>>) + 1, Len(<<34>>) + Len(r)) = r
      BY Zenon, <1>3, PartsOfConcat
  <2>2. Len(<<34>>) + 1 = 2 /\ Len(<<34>>) + Len(r) = Len(s) BY <1>3, <1>4
  <2> QED BY Zenon, <2>1, <2>2
<1> HIDE DEF s
<1>6. t \in Seq(Bytes) /\ Len(t) = Len(s) + 1 /\ t[Len(t)] = 34 /\ t[1] = 34
    BY <1>1, <1>4
<1>7. SubSeq(t, 2, Len(t) - 1) = r
  <2>1. SubSeq(s \o <<34>>, 1 + 1, Len(s)) = SubSeq(s, 1 + 1, Len(s))
    <3>1. 1 \in 0..Len(s) /\ Len(s) \in 0..Len(s) BY <1>4
    <3>2. \A a, b \in 0..Len(s) : SubSeq(s \o <<34>>, a + 1, b) = SubSeq(s, a + 1, b)
        BY Zenon, <1>3, <1>4, PartsOfConcat
    <3> QED BY <3>1, <3>2
  <2>2. t = s \o <<34>> BY <1>1, <1>4
  <2>3. Len(t) - 1 = Len(s) /\ 1 + 1 = 2 BY <1>4, <1>6
  <2> QED BY <1>5, <2>1, <2>2, <2>3
<1>8. Len(t) > 1 BY <1>4, <1>6
<1>9. StringOf(t, v) BY <1>6, <1>7, <1>8 DEF StringOf
<1> QED BY <1>1, <1>2, <1>9 DEF StringStep, StringDone, t

\* What the scanner has, when a byte was taken in a string.
LEMMA GotInString ==
    ASSUME NEW l, LexerOK(l), NEW c \in 0..EOF
    PROVE  LET k == Got(l, c)
           IN  /\ k \in Lexers /\ k.at = l.at /\ k.token = "none" /\ ~k.unget /\ k.high = l.high
               /\ k.buffer = l.buffer /\ k.rest = l.rest /\ l.buffer \in Seq(Bytes)
               /\ k.current = c
BY GotOK DEF LexerOK, Lexers

LEMMA AppendedOne ==
    ASSUME NEW a \in Bytes, NEW b \in Bytes
    PROVE  Append(<<a>>, b) = <<a, b>>
<1> DEFINE x == <<a>>
           g == Append(x, b)
           t == <<a, b>>
<1>1. x \in Seq(Bytes) /\ Len(x) = 1 /\ x[1] = a OBVIOUS
<1> HIDE DEF x
<1>2. g \in Seq(Bytes) /\ Len(g) = 2 /\ g[1] = a /\ g[2] = b
  <2>1. g \in Seq(Bytes) BY <1>1
  <2>2. IsSeq(x) BY <1>1 DEF IsSeq
  <2>3. Len(g) = Len(x) + 1 /\ g[Len(x) + 1] = b /\ \A i \in 1..Len(x) : g[i] = x[i]
      BY <2>2, AppendSeq
  <2> HIDE DEF g
  <2> QED BY <1>1, <2>1, <2>3
<1>3. t \in Seq(Bytes) /\ Len(t) = 2 /\ t[1] = a /\ t[2] = b OBVIOUS
<1> HIDE DEF g, t
<1>4. \A i \in 1..Len(g) : g[i] = t[i] BY <1>2, <1>3
<1>5. g = t BY <1>2, <1>3, <1>4, SeqEqual
<1> QED BY <1>5 DEF g, t, x

\* The digits of a code unit begin.
LEMMA UnitBegins ==
    ASSUME NEW k \in Lexers, k.token = "none", ~k.unget
    PROVE  LET m == Put(k, "hex", <<>>)
           IN  /\ m.at = "hex" /\ m.token = "none" /\ m.rest = <<>> /\ ~m.unget
               /\ m.high = k.high /\ m.buffer = k.buffer
BY PutFields

LEMMA StepBetween ==
    ASSUME NEW l, LexerOK(l), NEW c \in 0..EOF,
           NEW r \in Seq(Bytes), NEW v \in Seq(Bytes), NEW z \in Seq(Bytes), CharsOf(r, v),
           Between(l, v, z)
    PROVE  StringStep(Scan(l, c), Quoted(r, z), c)
<1>1. PICK k : k = Got(l, c) OBVIOUS
<1>2. l.at = "string" /\ l.high = 0 /\ l.buffer = v /\ z = <<>> BY DEF Between
<1>3. /\ k \in Lexers /\ k.at = "string" /\ k.token = "none" /\ ~k.unget /\ k.high = 0
      /\ k.buffer = v
    BY <1>1, <1>2, GotInString
<1>4. Scan(l, c) = ScanChar(k, c) BY <1>1, <1>2, ScanPart
<1>5. c \in Bytes => Append(z, c) = <<c>> BY <1>2
<1>6. CASE c = Quote
  <2>1. c \in Bytes /\ c = 34 BY <1>6 DEF Quote, Bytes
  <2>2. Scan(l, c) = Token(k, "value_string") BY <1>3, <1>4, <1>6, <2>1, CharIs
  <2> DEFINE m == Token(k, "value_string")
  <2>3. m.token = "value_string" /\ m.at = "start" /\ ~m.unget /\ m.high = 0 /\ m.buffer = v
      BY <1>3, TokenFields
  <2> HIDE DEF m
  <2>4. StringStep(m, Quoted(r, <<>>), 34) BY Zenon, <2>3, StringEnds
  <2> QED BY <1>2, <2>1, <2>2, <2>4 DEF m
<1>7. CASE c = Backslash
  <2>1. c \in Bytes /\ c = 92 BY <1>7 DEF Backslash, Bytes
  <2>2. Scan(l, c) = GoOn(k, "escape") BY <1>3, <1>4, <1>7, <2>1, CharIs
  <2> DEFINE m == GoOn(k, "escape")
  <2>3. m.at = "escape" /\ m.token = "none" /\ ~m.unget /\ m.high = 0 /\ m.buffer = v
      BY <1>3, GoOnFields
  <2> HIDE DEF m
  <2>4. InChar(m, v, Append(z, c)) BY Zenon, <1>5, <2>1, <2>3 DEF InChar, InEscape
  <2>5. StringStep(m, Quoted(r, z), c) BY Zenon, <2>1, <2>3, <2>4, CharGoesOn
  <2> QED BY <2>2, <2>5 DEF m
<1>8. CASE c \in Plain
  <2>1. c \in Bytes BY <1>8 DEF Plain, Bytes
  <2>2. Scan(l, c) = Add(k, <<c>>) BY <1>3, <1>4, <1>8, <2>1, CharIs
  <2> DEFINE m == Add(k, <<c>>)
  <2>3. m.at = "string" /\ m.token = "none" /\ ~m.unget /\ m.high = 0 /\ m.buffer = v \o <<c>>
      BY <1>3, AddFields
  <2> HIDE DEF m
  <2>4. CharOf(Append(z, c), <<c>>) BY <1>5, <1>8, <2>1, PlainIsChar
  <2>5. <<c>> \in Seq(Bytes) BY <2>1
  <2>6. StringStep(m, Quoted(r, z), c) BY Zenon, <2>1, <2>3, <2>4, <2>5, CharEnds
  <2> QED BY <2>2, <2>6 DEF m
<1>9. CASE Utf8Rest(c) # <<>>
  <2>1. c \in Bytes
    <3>1. c \in 194..244 BY <1>9, RestFacts
    <3> QED BY <3>1 DEF Bytes
  <2> DEFINE a == Add(k, <<c>>)
             rest == Utf8Rest(c)
             m == Put(a, "utf8", rest)
  <2>2. Scan(l, c) = m BY <1>3, <1>4, <1>9, <2>1, CharIs
  <2>3. <<c>> \in Seq(Bytes) BY <2>1
  <2>4. a \in Lexers BY <1>3, <2>3, AddOK
  <2>5. a.token = "none" /\ ~a.unget /\ a.high = 0 /\ a.buffer = v \o <<c>>
      BY <1>3, AddFields
  <2>6. CharBegun(<<c>>, rest) BY <1>9, <2>1, FirstOfChar
  <2> HIDE DEF a, rest
  <2>7. /\ m.at = "utf8" /\ m.token = "none" /\ m.rest = rest /\ ~m.unget /\ m.high = 0
        /\ m.buffer = v \o <<c>>
      BY <2>4, <2>5, PutFields
  <2> HIDE DEF m
  <2>8. InChar(m, v, Append(z, c)) BY Zenon, <1>5, <2>1, <2>6, <2>7 DEF InChar, InPoint
  <2>9. StringStep(m, Quoted(r, z), c) BY Zenon, <2>1, <2>7, <2>8, CharGoesOn
  <2> QED BY <2>2, <2>9
<1>10. CASE c \notin {Quote, Backslash} \cup Plain /\ Utf8Rest(c) = <<>>
  <2>1. ScanChar(k, c) = Fail(k) BY <1>10 DEF ScanChar
  <2> QED BY <1>3, <1>4, <2>1, FailStep
<1> QED BY <1>6, <1>7, <1>8, <1>9, <1>10

LEMMA StepInPoint ==
    ASSUME NEW l, LexerOK(l), NEW c \in 0..EOF,
           NEW r \in Seq(Bytes), NEW v \in Seq(Bytes), NEW z \in Seq(Bytes), CharsOf(r, v),
           InPoint(l, v, z)
    PROVE  StringStep(Scan(l, c), Quoted(r, z), c)
<1>1. PICK k : k = Got(l, c) OBVIOUS
<1>2. l.at = "utf8" /\ l.high = 0 /\ l.buffer = v \o z /\ CharBegun(z, l.rest) BY DEF InPoint
<1>3. /\ k \in Lexers /\ k.at = "utf8" /\ k.token = "none" /\ ~k.unget /\ k.high = 0
      /\ k.buffer = v \o z /\ k.rest = l.rest
    BY <1>1, <1>2, GotInString
<1>4. Scan(l, c) = ScanUtf8(k, c) BY <1>1, <1>2, ScanPart
<1>5. l.rest \in Seq(Ranges) /\ l.rest # <<>> BY <1>2 DEF LexerOK
<1>6. PICK e : e = Head(l.rest) OBVIOUS
<1>7. e \in Ranges /\ e[1] \in Bytes /\ e[2] \in Bytes BY <1>5, <1>6 DEF Ranges
<1>8. CASE c \notin e[1]..e[2]
  <2>1. ScanUtf8(k, c) = Fail(k) BY <1>3, <1>6, <1>8 DEF ScanUtf8
  <2> QED BY <1>3, <1>4, <2>1, FailStep
<1>9. CASE c \in e[1]..e[2]
  <2>1. c \in Bytes
    <3>1. PICK x \in Bytes, y \in Bytes : x = e[1] /\ y = e[2] BY <1>7
    <3>2. c \in x..y BY <1>9, <3>1
    <3> QED BY <3>2 DEF Bytes
  <2> DEFINE a == Add(k, <<c>>)
             t == Tail(l.rest)
             at == IF t = <<>> THEN "string" ELSE "utf8"
             m == Put(a, at, t)
  <2>2. Scan(l, c) = m BY <1>3, <1>4, <1>6, <1>9 DEF ScanUtf8, Put
  <2>3. <<c>> \in Seq(Bytes) BY <2>1
  <2>4. a \in Lexers BY <1>3, <2>3, AddOK
  <2>5. (v \o z) \o <<c>> = v \o Append(z, c)
    <3>1. v \o z \in Seq(Bytes) BY Zenon, ConcatBytes
    <3>2. (v \o z) \o <<c>> = Append(v \o z, c) BY Zenon, <2>1, <3>1, ConcatOne
    <3>3. Append(v \o z, c) = v \o Append(z, c) BY Zenon, <2>1, ConcatAppends
    <3> QED BY <3>2, <3>3
  <2>6. a.token = "none" /\ ~a.unget /\ a.high = 0 /\ a.buffer = v \o Append(z, c)
      BY <1>3, <2>5, AddFields
  <2>7. CharBegun(Append(z, c), t)
    <3>1. c \in Allowed(Head(l.rest)) BY <1>6, <1>9 DEF Allowed
    <3> QED BY <1>2, <1>5, <2>1, <3>1, NextOfChar
  <2>8. t = <<>> \/ t # <<>> OBVIOUS
  <2>9. (t = <<>> => at = "string") /\ (t # <<>> => at = "utf8") OBVIOUS
  <2> HIDE DEF a, t, at
  <2>10. /\ m.at = at /\ m.token = "none" /\ m.rest = t /\ ~m.unget /\ m.high = 0
         /\ m.buffer = v \o Append(z, c)
    <3>1. /\ m.at = at /\ m.token = a.token /\ m.rest = t /\ m.unget = a.unget
          /\ m.high = a.high /\ m.buffer = a.buffer
        BY <2>4, PutFields
    <3> HIDE DEF m
    <3> QED BY <2>6, <3>1
  <2> HIDE DEF m
  <2>11. Append(z, c) \in Seq(Bytes) BY <2>1
  <2>12. CASE t = <<>>
    <3>1. CharOf(Append(z, c), Append(z, c)) BY <2>7, <2>12, CharIsWhole
    <3>2. m.at = "string" BY <2>10, <2>9, <2>12
    <3>3. StringStep(m, Quoted(r, z), c) BY Zenon, <2>1, <2>10, <2>11, <3>1, <3>2, CharEnds
    <3> QED BY <2>2, <3>3
  <2>13. CASE t # <<>>
    <3>1. m.at = "utf8" BY <2>10, <2>9, <2>13
    <3>2. InChar(m, v, Append(z, c)) BY Zenon, <2>7, <2>10, <3>1 DEF InChar, InPoint
    <3>3. StringStep(m, Quoted(r, z), c) BY Zenon, <2>1, <2>10, <3>2, CharGoesOn
    <3> QED BY <2>2, <3>3
  <2> QED BY <2>12, <2>13
<1> QED BY <1>8, <1>9

LEMMA StepInEscape ==
    ASSUME NEW l, LexerOK(l), NEW c \in 0..EOF,
           NEW r \in Seq(Bytes), NEW v \in Seq(Bytes), NEW z \in Seq(Bytes), CharsOf(r, v),
           InEscape(l, v, z)
    PROVE  StringStep(Scan(l, c), Quoted(r, z), c)
<1>1. PICK k : k = Got(l, c) OBVIOUS
<1>2. l.at = "escape" /\ l.high = 0 /\ l.buffer = v /\ z = <<92>> BY DEF InEscape
<1>3. /\ k \in Lexers /\ k.at = "escape" /\ k.token = "none" /\ ~k.unget /\ k.high = 0
      /\ k.buffer = v
    BY <1>1, <1>2, GotInString
<1>4. Scan(l, c) = ScanEscape(k, c) BY <1>1, <1>2, ScanPart
<1>5. \A u \in Unescaped : u[1] # 117 /\ u[1] \in Bytes /\ u[2] \in Bytes
    BY DEF Unescaped, Quote, Backslash, Bytes
<1>6. c \in Bytes => Append(z, c) = <<92, c>>
  <2> HAVE c \in Bytes
  <2>1. 92 \in Bytes BY DEF Bytes
  <2>2. Append(<<92>>, c) = <<92, c>> BY <2>1, AppendedOne
  <2> QED BY <1>2, <2>2
<1>7. CASE c = 117
  <2>1. ScanEscape(k, c) = Put(k, "hex", <<>>) BY <1>5, <1>7 DEF ScanEscape, Put
  <2> DEFINE m == Put(k, "hex", <<>>)
  <2>2. /\ m.at = "hex" /\ m.token = "none" /\ m.rest = <<>> /\ ~m.unget /\ m.high = 0
        /\ m.buffer = v
      BY <1>3, PutFields
  <2> HIDE DEF m
  <2>3. c \in Bytes BY <1>7 DEF Bytes
  <2>4. Append(z, c) = BackslashU \o m.rest
    <3>1. BackslashU \in Seq(Bytes) BY DEF BackslashU, Bytes
    <3>2. BackslashU \o <<>> = BackslashU BY <3>1
    <3> QED BY <1>7, <1>6, <2>2, <2>3, <3>2 DEF BackslashU
  <2>5. InChar(m, v, Append(z, c)) BY Zenon, <2>2, <2>4 DEF InChar, InUnit
  <2>6. StringStep(m, Quoted(r, z), c) BY Zenon, <2>2, <2>3, <2>5, CharGoesOn
  <2> QED BY <1>4, <2>1, <2>6 DEF m
<1>8. CASE \E u \in Unescaped : u[1] = c
  <2> DEFINE u == CHOOSE u \in Unescaped : u[1] = c
  <2>1. u \in Unescaped /\ u[1] = c BY <1>8
  <2>2. ScanEscape(k, c) = GoOn(Add(k, <<u[2]>>), "string") BY <1>5, <1>8 DEF ScanEscape
  <2> HIDE DEF u
  <2> DEFINE a == Add(k, <<u[2]>>)
             m == GoOn(a, "string")
  <2>3. <<u[2]>> \in Seq(Bytes) /\ c \in Bytes BY <1>5, <2>1
  <2>4. a \in Lexers BY <1>3, <2>3, AddOK
  <2>5. a.token = "none" /\ ~a.unget /\ a.high = 0 /\ a.buffer = v \o <<u[2]>>
      BY <1>3, AddFields
  <2> HIDE DEF a
  <2>6. m.at = "string" /\ m.token = "none" /\ ~m.unget /\ m.high = 0 /\ m.buffer = v \o <<u[2]>>
      BY <2>4, <2>5, GoOnFields
  <2>7. Scan(l, c) = m BY <1>4, <2>2 DEF a
  <2> HIDE DEF m
  <2>8. CharOf(Append(z, c), <<u[2]>>)
    <3>1. CharOf(<<Backslash, u[1]>>, <<u[2]>>) BY <2>1, ShortIsChar
    <3> QED BY <1>6, <2>1, <2>3, <3>1 DEF Backslash
  <2>9. StringStep(m, Quoted(r, z), c) BY Zenon, <2>3, <2>6, <2>8, CharEnds
  <2> QED BY <2>7, <2>9
<1>9. CASE c # 117 /\ ~\E u \in Unescaped : u[1] = c
  <2>1. ScanEscape(k, c) = Fail(k) BY <1>9 DEF ScanEscape
  <2> QED BY <1>3, <1>4, <2>1, FailStep
<1> QED BY <1>7, <1>8, <1>9

LEMMA HalfFacts ==
    ASSUME NEW high, NEW h, HalfOf(high, h)
    PROVE  h \in Seq(Bytes) /\ high # 0 /\ high \in Int
<1>1. PICK first \in Seq(HexDigits) : Len(first) = 4 /\ h = BackslashU \o first
    BY Zenon DEF HalfOf
<1>2. h \in Seq(Bytes) BY <1>1, EscapedUnit
<1>3. 0 \notin HighSurrogates /\ HighSurrogates \subseteq Int BY SMT DEF HighSurrogates
<1> QED BY Zenon, <1>2, <1>3 DEF HalfOf

LEMMA StepInPair ==
    ASSUME NEW l, LexerOK(l), NEW c \in 0..EOF,
           NEW r \in Seq(Bytes), NEW v \in Seq(Bytes), NEW z \in Seq(Bytes), CharsOf(r, v),
           InPair(l, v, z) \/ InPairU(l, v, z)
    PROVE  StringStep(Scan(l, c), Quoted(r, z), c)
<1>1. PICK k : k = Got(l, c) OBVIOUS
<1>2. l.at \in {"pair", "pair u"} /\ l.buffer = v BY Zenon DEF InPair, InPairU
<1>3. /\ k \in Lexers /\ k.at = l.at /\ k.token = "none" /\ ~k.unget /\ k.high = l.high
      /\ k.buffer = v
    BY <1>1, <1>2, GotInString, Zenon
<1>4. Scan(l, c) = ScanPair(k, c) BY <1>1, <1>2, ScanPart, Zenon
<1>5. 92 \in Bytes /\ 117 \in Bytes BY DEF Bytes
<1>6. CASE l.at = "pair" /\ c = 92
  <2>1. ScanPair(k, c) = GoOn(k, "pair u") BY Zenon, <1>3, <1>6 DEF ScanPair, Backslash
  <2> DEFINE m == GoOn(k, "pair u")
  <2>2. m.at = "pair u" /\ m.token = "none" /\ ~m.unget /\ m.high = l.high /\ m.buffer = v
      BY Zenon, <1>3, GoOnFields
  <2> HIDE DEF m
  <2>3. HalfOf(l.high, z)
    <3>1. ~InPairU(l, v, z) BY Zenon, <1>6 DEF InPairU
    <3> QED BY Zenon, <3>1 DEF InPair
  <2>4. InChar(m, v, Append(z, c)) BY Zenon, <1>6, <2>2, <2>3 DEF InChar, InPairU
  <2>5. StringStep(m, Quoted(r, z), c) BY Zenon, <1>5, <1>6, <2>2, <2>4, CharGoesOn
  <2> QED BY Zenon, <1>4, <2>1, <2>5 DEF m
<1>7. CASE l.at = "pair u" /\ c = 117
  <2>1. ScanPair(k, c) = Put(k, "hex", <<>>) BY Zenon, <1>3, <1>7 DEF ScanPair, Put
  <2> DEFINE m == Put(k, "hex", <<>>)
  <2>2. /\ m.at = "hex" /\ m.token = "none" /\ m.rest = <<>> /\ ~m.unget /\ m.high = l.high
        /\ m.buffer = v
      BY Zenon, <1>3, UnitBegins
  <2> HIDE DEF m
  <2>3. PICK h \in Seq(Bytes) : HalfOf(l.high, h) /\ z = Append(h, 92)
    <3>1. ~InPair(l, v, z) BY Zenon, <1>7 DEF InPair
    <3> QED BY Zenon, <3>1 DEF InPairU
  <2>4. Append(z, c) = h \o (BackslashU \o m.rest)
    <3>1. BackslashU \in Seq(Bytes) /\ BackslashU = Append(<<92>>, 117) /\ <<92>> \in Seq(Bytes)
        BY <1>5 DEF BackslashU
    <3>2. BackslashU \o <<>> = BackslashU BY Zenon, <3>1, ConcatNothing
    <3>3. Append(h, 92) = h \o <<92>> BY Zenon, <1>5, ConcatOne
    <3>4. \A q \in Seq(Bytes), x \in Bytes : Append(h \o q, x) = h \o Append(q, x)
        BY Zenon, ConcatAppends
    <3>5. Append(h \o <<92>>, 117) = h \o BackslashU BY Zenon, <1>5, <3>1, <3>4
    <3>6. Append(z, c) = h \o BackslashU BY Zenon, <1>7, <2>3, <3>3, <3>5
    <3>7. BackslashU \o m.rest = BackslashU BY Zenon, <2>2, <3>2
    <3> QED BY Zenon, <3>6, <3>7
  <2>5. InChar(m, v, Append(z, c)) BY Zenon, <2>2, <2>3, <2>4 DEF InChar, InUnit
  <2>6. StringStep(m, Quoted(r, z), c) BY Zenon, <1>5, <1>7, <2>2, <2>5, CharGoesOn
  <2> QED BY Zenon, <1>4, <2>1, <2>6 DEF m
<1>8. CASE ~(l.at = "pair" /\ c = 92) /\ ~(l.at = "pair u" /\ c = 117)
  <2>1. ScanPair(k, c) = Fail(k) BY Zenon, <1>3, <1>8 DEF ScanPair, Backslash
  <2>2. StringStep(Fail(k), Quoted(r, z), c) BY Zenon, <1>3, FailStep
  <2> QED BY Zenon, <1>4, <2>1, <2>2
<1> QED BY Zenon, <1>6, <1>7, <1>8

LEMMA PutHighFields ==
    ASSUME NEW l \in Lexers, NEW at, NEW high
    PROVE  /\ PutHigh(l, at, high).at = at /\ PutHigh(l, at, high).token = l.token
           /\ PutHigh(l, at, high).rest = l.rest /\ PutHigh(l, at, high).unget = l.unget
           /\ PutHigh(l, at, high).high = high /\ PutHigh(l, at, high).buffer = l.buffer
BY DEF PutHigh, Lexers

\* Four digits were read, and c is the last one.
LEMMA StepFirst ==
    ASSUME NEW k \in Lexers, k.token = "none", ~k.unget, k.high = 0, NEW c \in Bytes,
           NEW r \in Seq(Bytes), NEW v \in Seq(Bytes), NEW z \in Seq(Bytes), CharsOf(r, v),
           k.buffer = v,
           NEW digits \in Seq(HexDigits), Len(digits) = 4, Append(z, c) = BackslashU \o digits
    PROVE  StringStep(ScanCodepoint(k, Codepoint(digits)), Quoted(r, z), c)
<1> DEFINE cp == Codepoint(digits)
           high == cp \in HighSurrogates
           low == cp \in LowSurrogates
<1>1. high => ~low
  <2>1. HighSurrogates \cap LowSurrogates = {} BY SMT DEF HighSurrogates, LowSurrogates
  <2> QED BY <2>1
<1>2. ScanCodepoint(k, cp) = FirstCodepoint(k, cp) BY SMT DEF ScanCodepoint
<1>3. cp \in Int /\ cp >= 0 /\ cp <= 65535 BY SMT, EscapedUnit
<1>4. CASE high
  <2> DEFINE m == PutHigh(k, "pair", cp)
  <2>1. FirstCodepoint(k, cp) = m BY SMT, <1>1, <1>4 DEF FirstCodepoint, PutHigh
  <2>2. m.at = "pair" /\ m.token = "none" /\ ~m.unget /\ m.high = cp /\ m.buffer = v
      BY SMT, PutHighFields
  <2> HIDE DEF m
  <2>3. HalfOf(cp, BackslashU \o digits) BY Zenon, <1>4 DEF HalfOf
  <2> HIDE DEF cp
  <2>4. InChar(m, v, Append(z, c)) BY Zenon, <2>2, <2>3 DEF InChar, InPair
  <2>5. StringStep(m, Quoted(r, z), c) BY Zenon, <2>2, <2>4, CharGoesOn
  <2> QED BY Zenon, <1>2, <2>1, <2>5 DEF cp
<1>5. CASE low
  <2>1. FirstCodepoint(k, cp) = Fail(k) BY SMT, <1>1, <1>5 DEF FirstCodepoint
  <2>2. StringStep(Fail(k), Quoted(r, z), c) BY Zenon, FailStep
  <2> QED BY Zenon, <1>2, <2>1, <2>2
<1>6. CASE ~high /\ ~low
  <2> DEFINE y == Encode(cp)
             a == Add(k, y)
             m == GoOn(a, "string")
  <2>1. FirstCodepoint(k, cp) = m BY SMT, <1>6 DEF FirstCodepoint
  <2>2. y \in Seq(Bytes) BY SMT, <1>3, EncodeOK
  <2>3. CharOf(Append(z, c), y) BY Zenon, <1>6, UnitIsChar
  <2> HIDE DEF y
  <2>4. a \in Lexers BY SMT, <2>2, AddOK
  <2>5. a.token = "none" /\ ~a.unget /\ a.high = 0 /\ a.buffer = v \o y
      BY AddFields
  <2> HIDE DEF a
  <2>6. m.at = "string" /\ m.token = "none" /\ ~m.unget /\ m.high = 0 /\ m.buffer = v \o y
      BY SMT, <2>4, <2>5, GoOnFields
  <2> HIDE DEF m, cp
  <2>7. StringStep(m, Quoted(r, z), c) BY Zenon, <2>2, <2>3, <2>6, CharEnds
  <2> QED BY Zenon, <1>2, <2>1, <2>7 DEF cp
<1> QED BY <1>4, <1>5, <1>6

LEMMA StepSecond ==
    ASSUME NEW k \in Lexers, k.token = "none", ~k.unget, NEW c \in Bytes,
           NEW r \in Seq(Bytes), NEW v \in Seq(Bytes), NEW z \in Seq(Bytes), CharsOf(r, v),
           k.buffer = v, NEW h, HalfOf(k.high, h),
           NEW digits \in Seq(HexDigits), Len(digits) = 4,
           Append(z, c) = h \o (BackslashU \o digits)
    PROVE  StringStep(ScanCodepoint(k, Codepoint(digits)), Quoted(r, z), c)
<1> DEFINE cp == Codepoint(digits)
           low == cp \in LowSurrogates
<1>1. k.high # 0 BY Zenon, HalfFacts
<1>2. CASE low
  <2> DEFINE both == k.high * 1024 + cp - 56613888
             y == Encode(both)
             a == Add(k, y)
             m == PutHigh(a, "string", 0)
  <2>1. ScanCodepoint(k, cp) = m BY SMT, <1>1, <1>2 DEF ScanCodepoint, PutHigh
  <2>2. PICK first \in Seq(HexDigits) :
          Len(first) = 4 /\ Codepoint(first) = k.high /\ h = BackslashU \o first
      BY Zenon DEF HalfOf
  <2>3. k.high \in HighSurrogates BY Zenon DEF HalfOf
  <2>4. CharOf((BackslashU \o first) \o (BackslashU \o digits), y) /\ y \in Seq(Bytes)
      BY SMT, <1>2, <2>2, <2>3, PairIsChar
  <2>5. CharOf(Append(z, c), y)
    <3> HIDE DEF y
    <3> QED BY Zenon, <2>2, <2>4
  <2> HIDE DEF y
  <2>6. a \in Lexers BY SMT, <2>4, AddOK
  <2>7. a.token = "none" /\ ~a.unget /\ a.buffer = v \o y
      BY AddFields
  <2> HIDE DEF a
  <2>8. m.at = "string" /\ m.token = "none" /\ ~m.unget /\ m.high = 0 /\ m.buffer = v \o y
    <3>1. /\ m.at = "string" /\ m.token = a.token /\ m.unget = a.unget /\ m.high = 0
          /\ m.buffer = a.buffer
      <4>1. PICK b \in Lexers : b = a BY <2>6
      <4>2. PICK n : n = 0 OBVIOUS
      <4>3. m = PutHigh(b, "string", n) BY <4>1, <4>2
      <4> HIDE DEF m
      <4>4. /\ PutHigh(b, "string", n).at = "string" /\ PutHigh(b, "string", n).token = b.token
            /\ PutHigh(b, "string", n).unget = b.unget /\ PutHigh(b, "string", n).high = n
            /\ PutHigh(b, "string", n).buffer = b.buffer
          BY ONLY PutHighFields, b \in Lexers
      <4> QED BY Zenon, <4>1, <4>2, <4>3, <4>4
    <3> HIDE DEF m
    <3> QED BY <2>7, <3>1
  <2> HIDE DEF m, cp
  <2>9. StringStep(m, Quoted(r, z), c) BY Zenon, <2>4, <2>5, <2>8, CharEnds
  <2> QED BY Zenon, <2>1, <2>9 DEF cp
<1>3. CASE ~low
  <2>1. ScanCodepoint(k, cp) = Fail(k) BY SMT, <1>1, <1>3 DEF ScanCodepoint
  <2>2. StringStep(Fail(k), Quoted(r, z), c) BY Zenon, FailStep
  <2> QED BY Zenon, <2>1, <2>2
<1> QED BY <1>2, <1>3

\* A digit after \u, in the first half or in the second.
LEMMA UnitGrows ==
    ASSUME NEW rest \in Seq(HexDigits), NEW c \in HexDigits
    PROVE  /\ Append(BackslashU \o rest, c) = BackslashU \o Append(rest, c)
           /\ \A h \in Seq(Bytes) : Append(h \o (BackslashU \o rest), c)
                                      = h \o (BackslashU \o Append(rest, c))
           /\ c \in Bytes
<1>1. HexDigits \subseteq Bytes BY DEF HexDigits, Bytes
<1>2. c \in Bytes /\ rest \in Seq(Bytes) BY <1>1
<1>3. BackslashU \in Seq(Bytes) BY DEF BackslashU, Bytes
<1>4. Append(BackslashU \o rest, c) = BackslashU \o Append(rest, c)
    BY Zenon, <1>2, <1>3, ConcatAppends
<1>5. BackslashU \o rest \in Seq(Bytes) BY Zenon, <1>2, <1>3, ConcatBytes
<1>6. ASSUME NEW h \in Seq(Bytes)
      PROVE  Append(h \o (BackslashU \o rest), c) = h \o (BackslashU \o Append(rest, c))
  <2>1. Append(h \o (BackslashU \o rest), c) = h \o Append(BackslashU \o rest, c)
      BY Zenon, <1>2, <1>5, ConcatAppends
  <2> QED BY Zenon, <1>4, <2>1
<1> QED BY <1>2, <1>4, <1>6

LEMMA StepInUnit ==
    ASSUME NEW l, LexerOK(l), NEW c \in 0..EOF,
           NEW r \in Seq(Bytes), NEW v \in Seq(Bytes), NEW z \in Seq(Bytes), CharsOf(r, v),
           InUnit(l, v, z)
    PROVE  StringStep(Scan(l, c), Quoted(r, z), c)
<1>1. PICK k : k = Got(l, c) OBVIOUS
<1>2. l.at = "hex" /\ l.buffer = v BY DEF InUnit
<1>3. /\ k \in Lexers /\ k.at = "hex" /\ k.token = "none" /\ ~k.unget /\ k.high = l.high
      /\ k.buffer = v /\ k.rest = l.rest
    BY <1>1, <1>2, GotInString
<1>4. Scan(l, c) = ScanHex(k, c) BY <1>1, <1>2, ScanPart
<1>5. l.rest \in Seq(HexDigits) /\ Len(l.rest) < 4 BY <1>2 DEF LexerOK
<1>6. CASE c \notin HexDigits
  <2>1. ScanHex(k, c) = Fail(k) BY <1>6 DEF ScanHex
  <2> QED BY <1>3, <1>4, <2>1, FailStep
<1>7. CASE c \in HexDigits
  <2> DEFINE digits == Append(l.rest, c)
  <2>1. digits \in Seq(HexDigits) /\ Len(digits) = Len(l.rest) + 1 BY <1>5, <1>7
  <2>2. /\ Append(BackslashU \o l.rest, c) = BackslashU \o digits
        /\ \A h \in Seq(Bytes) : Append(h \o (BackslashU \o l.rest), c)
                                   = h \o (BackslashU \o digits)
        /\ c \in Bytes
      BY <1>5, <1>7, UnitGrows
  <2>3. ScanHex(k, c) = IF Len(digits) < 4 THEN [k EXCEPT !.rest = digits]
                        ELSE ScanCodepoint([k EXCEPT !.rest = <<>>], Codepoint(digits))
      BY <1>3, <1>7 DEF ScanHex
  <2> HIDE DEF digits
  <2>4. \/ l.high = 0 /\ Append(z, c) = BackslashU \o digits
        \/ \E h \in Seq(Bytes) : HalfOf(l.high, h) /\ Append(z, c) = h \o (BackslashU \o digits)
      BY Zenon, <2>2 DEF InUnit
  <2>5. CASE Len(digits) < 4
    <3> DEFINE m == [k EXCEPT !.rest = digits]
    <3>1. m.at = "hex" /\ m.token = "none" /\ m.rest = digits /\ m.buffer = v
          /\ ~m.unget /\ m.high = l.high
        BY <1>3 DEF Lexers
    <3>2. Scan(l, c) = m BY <1>4, <2>3, <2>5
    <3> HIDE DEF m
    <3>3. InChar(m, v, Append(z, c)) BY Zenon, <2>4, <3>1 DEF InChar, InUnit
    <3>4. StringStep(m, Quoted(r, z), c) BY Zenon, <2>2, <3>1, <3>3, CharGoesOn
    <3> QED BY Zenon, <3>2, <3>4
  <2>6. CASE ~(Len(digits) < 4)
    <3> DEFINE m == [k EXCEPT !.rest = <<>>]
    <3>1. <<>> \in Seq(Bytes) OBVIOUS
    <3>2. m \in Lexers /\ m.token = "none" /\ m.buffer = v /\ ~m.unget /\ m.high = l.high
        BY <1>3, <3>1 DEF Lexers
    <3>3. Scan(l, c) = ScanCodepoint(m, Codepoint(digits)) BY <1>4, <2>3, <2>6
    <3> HIDE DEF m
    <3>4. Len(digits) = 4 BY <1>5, <2>1, <2>6
    <3>5. CASE l.high = 0 /\ Append(z, c) = BackslashU \o digits
      <4>1. StringStep(ScanCodepoint(m, Codepoint(digits)), Quoted(r, z), c)
          BY Zenon, <2>1, <2>2, <3>2, <3>4, <3>5, StepFirst
      <4> QED BY Zenon, <3>3, <4>1
    <3>6. CASE \E h \in Seq(Bytes) :
                 HalfOf(l.high, h) /\ Append(z, c) = h \o (BackslashU \o digits)
      <4>1. StringStep(ScanCodepoint(m, Codepoint(digits)), Quoted(r, z), c)
          BY Zenon, <2>1, <2>2, <3>2, <3>4, <3>6, StepSecond
      <4> QED BY Zenon, <3>3, <4>1
    <3> QED BY <2>4, <3>5, <3>6
  <2> QED BY <2>5, <2>6
<1> QED BY <1>6, <1>7

\* A byte in a string: the string is refused, goes on, or is complete.
LEMMA StringScanned ==
    ASSUME NEW l, LexerOK(l), NEW c \in 0..EOF, NEW raw, StringSoFar(l, raw)
    PROVE  StringStep(Scan(l, c), raw, c)
<1>1. PICK r \in Seq(Bytes), v \in Seq(Bytes), z \in Seq(Bytes) :
        raw = Quoted(r, z) /\ CharsOf(r, v) /\ InChar(l, v, z)
    BY Zenon DEF StringSoFar
<1>2. CASE Between(l, v, z) BY Zenon, <1>1, <1>2, StepBetween
<1>3. CASE InPoint(l, v, z) BY Zenon, <1>1, <1>3, StepInPoint
<1>4. CASE InEscape(l, v, z) BY Zenon, <1>1, <1>4, StepInEscape
<1>5. CASE InUnit(l, v, z) BY Zenon, <1>1, <1>5, StepInUnit
<1>6. CASE InPair(l, v, z) \/ InPairU(l, v, z) BY Zenon, <1>1, <1>6, StepInPair
<1> QED BY Zenon, <1>1, <1>2, <1>3, <1>4, <1>5, <1>6 DEF InChar

\* The opening quote.
LEMMA StringBegins ==
    ASSUME NEW m, m.at = "string", m.high = 0, m.buffer = <<>>
    PROVE  StringSoFar(m, <<34>>)
<1> DEFINE none == <<>>
<1>1. none \in Seq(Bytes) OBVIOUS
<1>2. <<34>> \in Seq(Bytes) BY DEF Bytes
<1>3. Quoted(none, none) = <<34>>
  <2>1. <<34>> \o none = <<34>> BY Zenon, <1>2, ConcatNothing
  <2>2. Quoted(none, none) = <<34>> \o none BY Zenon, <1>1, QuotedFacts
  <2> QED BY <2>1, <2>2
<1>4. CharsOf(none, none) BY NoChars
<1>5. InChar(m, none, none) BY DEF InChar, Between
<1> HIDE DEF none
<1> QED BY Zenon, <1>1, <1>3, <1>4, <1>5 DEF StringSoFar

-----------------------------------------------------------------------------
(* A number that was read so far.                                          *)

First(s) == IF s[1] = 45 THEN 2 ELSE 1
DigitsIn(s, i, j) == \A x \in i..j : s[x] \in Decimals

IntTo(s, a) ==
    /\ First(s) <= a /\ a <= Len(s) /\ DigitsIn(s, First(s), a)
    /\ s[First(s)] # 48 \/ a = First(s)
FractionTo(s, a, b) == a = b \/ (a + 1 < b /\ s[a + 1] = 46 /\ DigitsIn(s, a + 2, b))
Mantissa(s, b) == b <= Len(s) /\ \E a \in 1..b : IntTo(s, a) /\ FractionTo(s, a, b)

NumberShape(at, s) ==
    LET n == Len(s)
    IN  \/ at = "minus" /\ n = 1 /\ s[1] = 45
        \/ at = "zero" /\ IntTo(s, n) /\ s[First(s)] = 48
        \/ at = "any1" /\ IntTo(s, n) /\ s[First(s)] # 48
        \/ at = "decimal1" /\ n > 1 /\ IntTo(s, n - 1) /\ s[n] = 46
        \/ at = "decimal2" /\ \E a \in 1..(n - 1) : IntTo(s, a) /\ FractionTo(s, a, n)
        \/ at = "exponent" /\ n > 1 /\ Mantissa(s, n - 1) /\ s[n] \in {69, 101}
        \/ at = "sign" /\ n > 2 /\ Mantissa(s, n - 2) /\ s[n - 1] \in {69, 101} /\ s[n] \in {43, 45}
        \/ at = "any2" /\ \E b \in 1..(n - 2) :
              /\ Mantissa(s, b) /\ s[b + 1] \in {69, 101}
              /\ \/ DigitsIn(s, b + 2, n)
                 \/ b + 3 <= n /\ s[b + 2] \in {43, 45} /\ DigitsIn(s, b + 3, n)

NumberSoFar(l, raw) ==
    /\ raw \in Seq(Bytes) /\ raw # <<>> /\ l.buffer = raw /\ l.high = 0
    /\ l.at \in NumberLabels /\ NumberShape(l.at, raw)

\* Where a byte leads in a number.
LEMMA LabelMoves ==
    ASSUME NEW at, NEW c \in Bytes, NEW n \in NextLabel(at, c)
    PROVE  \/ at = "init" /\ n = "minus" /\ c = 45
           \/ at \in {"init", "minus"} /\ n = "zero" /\ c = 48
           \/ at \in {"init", "minus"} /\ n = "any1" /\ c \in 49..57
           \/ at = "any1" /\ n = "any1" /\ c \in 48..57
           \/ at \in {"zero", "any1"} /\ n = "decimal1" /\ c = 46
           \/ at \in {"zero", "any1", "decimal2"} /\ n = "exponent" /\ c \in {69, 101}
           \/ at \in {"decimal1", "decimal2"} /\ n = "decimal2" /\ c \in 48..57
           \/ at = "exponent" /\ n = "sign" /\ c \in {43, 45}
           \/ at \in {"exponent", "sign", "any2"} /\ n = "any2" /\ c \in 48..57
<1>1. PICK m \in NumberMoves : m[1] = at /\ m[2] = NumberClass(c) /\ m[3] = n
    BY DEF NextLabel
<1>2. \/ at = "init" /\ n = "minus" /\ m[2] = "-"
      \/ at \in {"init", "minus"} /\ n = "zero" /\ m[2] = "0"
      \/ at \in {"init", "minus"} /\ n = "any1" /\ m[2] = "1-9"
      \/ at = "any1" /\ n = "any1" /\ m[2] \in Digit
      \/ at \in {"zero", "any1"} /\ n = "decimal1" /\ m[2] = "."
      \/ at \in {"zero", "any1", "decimal2"} /\ n = "exponent" /\ m[2] = "e"
      \/ at \in {"decimal1", "decimal2"} /\ n = "decimal2" /\ m[2] \in Digit
      \/ at = "exponent" /\ n = "sign" /\ m[2] \in {"+", "-"}
      \/ at \in {"exponent", "sign", "any2"} /\ n = "any2" /\ m[2] \in Digit
  <2>1. CASE m \in IntegerMoves BY <1>1, <2>1, SMTT(30) DEF IntegerMoves, Moves
  <2>2. CASE m \in FractionMoves BY <1>1, <2>2, SMTT(30) DEF FractionMoves, Moves
  <2>3. CASE m \in ExponentMoves BY <1>1, <2>3, SMTT(30) DEF ExponentMoves, Moves
  <2> QED BY <1>1, <2>1, <2>2, <2>3 DEF NumberMoves
<1>3. /\ NumberClass(c) = "-" => c = 45
      /\ NumberClass(c) = "0" => c = 48
      /\ NumberClass(c) = "1-9" => c \in 49..57
      /\ NumberClass(c) = "." => c = 46
      /\ NumberClass(c) = "e" => c \in {69, 101}
      /\ NumberClass(c) = "+" => c = 43
    BY DEF NumberClass, Minus, Zero
<1>4. m[2] \in Digit => c \in 48..57 BY <1>1, <1>3 DEF Digit
<1> QED BY <1>1, <1>2, <1>3, <1>4

LEMMA ShapesKept ==
    ASSUME NEW s \in Seq(Bytes), s # <<>>, NEW c \in Bytes
    PROVE  LET t == Append(s, c)
           IN  /\ t \in Seq(Bytes) /\ t # <<>> /\ Len(t) = Len(s) + 1 /\ t[Len(s) + 1] = c
               /\ \A i \in 1..Len(s) : t[i] = s[i]
               /\ First(t) = First(s)
               /\ \A i \in 1..Len(s), j \in 0..Len(s) : DigitsIn(s, i, j) => DigitsIn(t, i, j)
               /\ \A a \in 1..Len(s) : IntTo(s, a) => IntTo(t, a)
               /\ \A a \in 1..Len(s), b \in 1..Len(s) : FractionTo(s, a, b) => FractionTo(t, a, b)
               /\ \A b \in 1..Len(s) : Mantissa(s, b) => Mantissa(t, b)
<1> DEFINE t == Append(s, c)
<1>1. t \in Seq(Bytes) /\ t # <<>> /\ Len(t) = Len(s) + 1 /\ t[Len(s) + 1] = c
      /\ \A i \in 1..Len(s) : t[i] = s[i]
    OBVIOUS
<1> HIDE DEF t
<1>2. Len(s) \in Nat /\ Len(s) >= 1 OBVIOUS
<1>3. First(t) = First(s) /\ First(s) \in 1..2
  <2>1. t[1] = s[1] BY <1>1, <1>2
  <2> QED BY <2>1 DEF First
<1>4. ASSUME NEW i \in 1..Len(s), NEW j \in 0..Len(s), DigitsIn(s, i, j) PROVE DigitsIn(t, i, j)
    BY <1>1, <1>4 DEF DigitsIn
<1>5. ASSUME NEW a \in 1..Len(s), IntTo(s, a) PROVE IntTo(t, a)
  <2>1. First(s) <= a /\ DigitsIn(s, First(s), a) /\ (s[First(s)] # 48 \/ a = First(s))
      BY <1>5 DEF IntTo
  <2>2. First(s) \in 1..Len(s) /\ a \in 0..Len(s) BY <1>2, <1>3, <2>1
  <2>3. DigitsIn(t, First(s), a) BY <1>4, <2>1, <2>2
  <2>4. t[First(s)] = s[First(s)] BY <1>1, <2>2
  <2> QED BY <1>1, <1>2, <1>3, <2>1, <2>3, <2>4 DEF IntTo
<1>6. ASSUME NEW a \in 1..Len(s), NEW b \in 1..Len(s), FractionTo(s, a, b)
      PROVE  FractionTo(t, a, b)
  <2>1. CASE a = b BY <2>1 DEF FractionTo
  <2>2. CASE a + 1 < b /\ s[a + 1] = 46 /\ DigitsIn(s, a + 2, b)
    <3>1. a + 1 \in 1..Len(s) /\ a + 2 \in 1..Len(s) /\ b \in 0..Len(s) BY <1>2, <2>2
    <3>2. t[a + 1] = 46 /\ DigitsIn(t, a + 2, b) BY <1>1, <1>4, <2>2, <3>1
    <3> QED BY <2>2, <3>2 DEF FractionTo
  <2> QED BY <1>6, <2>1, <2>2 DEF FractionTo
<1>7. ASSUME NEW b \in 1..Len(s), Mantissa(s, b) PROVE Mantissa(t, b)
  <2>1. PICK a \in 1..b : IntTo(s, a) /\ FractionTo(s, a, b) BY <1>7 DEF Mantissa
  <2>2. a \in 1..Len(s) BY <1>2
  <2>3. IntTo(t, a) /\ FractionTo(t, a, b) BY <1>5, <1>6, <2>1, <2>2
  <2> QED BY <1>1, <1>2, <2>3 DEF Mantissa
<1> QED BY <1>1, <1>3, <1>4, <1>5, <1>6, <1>7 DEF t

\* A number goes on.
LEMMA NumberGrows ==
    ASSUME NEW s \in Seq(Bytes), s # <<>>, NEW at \in NumberLabels, NumberShape(at, s),
           NEW c \in Bytes, NEW n \in NextLabel(at, c)
    PROVE  NumberShape(n, Append(s, c))
<1> DEFINE t == Append(s, c)
           k == Len(s)
<1>1. /\ t \in Seq(Bytes) /\ t # <<>> /\ Len(t) = k + 1 /\ t[k + 1] = c
      /\ \A i \in 1..k : t[i] = s[i]
      /\ First(t) = First(s)
      /\ \A i \in 1..k, j \in 0..k : DigitsIn(s, i, j) => DigitsIn(t, i, j)
      /\ \A a \in 1..k : IntTo(s, a) => IntTo(t, a)
      /\ \A a \in 1..k, b \in 1..k : FractionTo(s, a, b) => FractionTo(t, a, b)
      /\ \A b \in 1..k : Mantissa(s, b) => Mantissa(t, b)
    BY ShapesKept
<1>2. k \in Nat /\ k >= 1 OBVIOUS
<1>3. at # "init" BY DEF NumberLabels
<1> HIDE DEF t, k
<1>4. First(s) \in 1..2 BY DEF First
<1>5. \A a : IntTo(s, a) /\ a \in 1..k => Mantissa(s, a)
    BY DEF Mantissa, FractionTo, IntTo
<1>6. ASSUME NEW i \in 1..k, DigitsIn(s, i, k), c \in 48..57 PROVE DigitsIn(t, i, k + 1)
  <2>1. DigitsIn(t, i, k) BY <1>1, <1>2, <1>6
  <2> QED BY <1>1, <1>2, <1>6, <2>1 DEF DigitsIn, Decimals
<1>7. CASE at = "minus"
  <2>1. k = 1 /\ s[1] = 45 BY <1>7 DEF NumberShape, k
  <2>2. First(t) = 2 /\ Len(t) = 2 /\ t[2] = c BY <1>1, <2>1 DEF First
  <2>3. c \in 48..57 => IntTo(t, 2) BY <2>2 DEF IntTo, DigitsIn, Decimals
  <2>4. (n = "zero" /\ c = 48) \/ (n = "any1" /\ c \in 49..57) BY <1>7, LabelMoves
  <2> QED BY <2>2, <2>3, <2>4 DEF NumberShape, t
<1>8. CASE at \in {"zero", "any1"}
  <2>1. IntTo(s, k) /\ First(s) <= k BY <1>8 DEF NumberShape, k, IntTo
  <2>2. IntTo(t, k) /\ Mantissa(t, k) BY <1>1, <1>2, <1>5, <2>1
  <2>3. CASE n = "any1"
    <3>1. at = "any1" /\ c \in 48..57 BY <1>3, <1>8, <2>3, LabelMoves
    <3>2. s[First(s)] # 48 /\ t[First(s)] = s[First(s)]
        BY <1>1, <1>4, <2>1, <3>1 DEF NumberShape, k
    <3>3. DigitsIn(t, First(s), k + 1)
      <4>1. First(s) \in 1..k /\ DigitsIn(s, First(s), k) BY <1>4, <2>1 DEF IntTo
      <4> QED BY <1>6, <3>1, <4>1
    <3>4. IntTo(t, k + 1) BY <1>1, <1>2, <1>4, <2>1, <3>2, <3>3 DEF IntTo
    <3> QED BY <1>1, <2>3, <3>2, <3>4 DEF NumberShape, t
  <2>4. CASE n = "decimal1"
    <3>1. c = 46 BY <2>4, LabelMoves
    <3> QED BY <1>1, <1>2, <2>2, <2>4, <3>1 DEF NumberShape, t
  <2>5. CASE n = "exponent"
    <3>1. c \in {69, 101} BY <2>5, LabelMoves
    <3> QED BY <1>1, <1>2, <2>2, <2>5, <3>1 DEF NumberShape, t
  <2> QED BY <1>8, <2>3, <2>4, <2>5, LabelMoves
<1>9. CASE at = "decimal1"
  <2>1. k > 1 /\ IntTo(s, k - 1) /\ s[k] = 46 BY <1>9 DEF NumberShape, k
  <2>2. n = "decimal2" /\ c \in 48..57 BY <1>9, LabelMoves
  <2>3. IntTo(t, k - 1) /\ t[k] = 46 BY <1>1, <1>2, <2>1
  <2>4. DigitsIn(t, k + 1, k + 1) BY <1>1, <1>2, <2>2 DEF DigitsIn, Decimals
  <2>5. FractionTo(t, k - 1, k + 1)
    <3>1. (k - 1) + 1 = k /\ (k - 1) + 2 = k + 1 /\ k < k + 1 BY <1>2
    <3> QED BY <2>3, <2>4, <3>1 DEF FractionTo
  <2>6. k - 1 \in 1..((k + 1) - 1) BY <1>2, <2>1
  <2> QED BY <1>1, <2>2, <2>3, <2>5, <2>6 DEF NumberShape, t
<1>10. CASE at = "decimal2"
  <2>1. PICK a \in 1..(k - 1) : IntTo(s, a) /\ FractionTo(s, a, k)
      BY <1>10 DEF NumberShape, k
  <2>2. a \in 1..k /\ k \in 1..k BY <1>2
  <2>3. IntTo(t, a) /\ FractionTo(t, a, k) BY <1>1, <2>1, <2>2
  <2>4. CASE n = "exponent"
    <3>1. c \in {69, 101} BY <2>4, LabelMoves
    <3>2. Mantissa(t, k) BY <1>1, <1>2, <2>2, <2>3 DEF Mantissa
    <3> QED BY <1>1, <1>2, <2>2, <2>4, <3>1, <3>2 DEF NumberShape, t
  <2>5. CASE n = "decimal2"
    <3>1. c \in 48..57 BY <1>10, <2>5, LabelMoves
    <3>2. a + 1 < k /\ s[a + 1] = 46 /\ DigitsIn(s, a + 2, k) BY <1>2, <2>1 DEF FractionTo
    <3>3. a + 2 \in 1..k /\ a + 1 \in 1..k BY <1>2, <3>2
    <3>4. DigitsIn(t, a + 2, k + 1) BY <1>6, <3>1, <3>2, <3>3
    <3>5. FractionTo(t, a, k + 1) BY <1>1, <1>2, <3>2, <3>3, <3>4 DEF FractionTo
    <3>6. a \in 1..((k + 1) - 1) BY <1>2
    <3> QED BY <1>1, <2>3, <2>5, <3>5, <3>6 DEF NumberShape, t
  <2> QED BY <1>10, <2>4, <2>5, LabelMoves
<1>11. CASE at = "exponent"
  <2>1. k > 1 /\ Mantissa(s, k - 1) /\ s[k] \in {69, 101} BY <1>11 DEF NumberShape, k
  <2>2. Mantissa(t, k - 1) /\ t[k] \in {69, 101} BY <1>1, <1>2, <2>1
  <2>3. CASE n = "sign"
    <3>1. c \in {43, 45} BY <2>3, LabelMoves
    <3>2. (k + 1) - 2 = k - 1 /\ (k + 1) - 1 = k /\ k + 1 > 2 BY <1>2, <2>1
    <3> QED BY <1>1, <2>2, <2>3, <3>1, <3>2 DEF NumberShape, t
  <2>4. CASE n = "any2"
    <3>1. c \in 48..57 BY <1>11, <2>4, LabelMoves
    <3>2. DigitsIn(t, k + 1, k + 1) BY <1>1, <1>2, <3>1 DEF DigitsIn, Decimals
    <3>3. k - 1 \in 1..((k + 1) - 2) /\ (k - 1) + 1 = k /\ (k - 1) + 2 = k + 1 BY <1>2, <2>1
    <3> QED BY <1>1, <2>2, <2>4, <3>2, <3>3 DEF NumberShape, t
  <2> QED BY <1>11, <2>3, <2>4, LabelMoves
<1>12. CASE at = "sign"
  <2>1. k > 2 /\ Mantissa(s, k - 2) /\ s[k - 1] \in {69, 101} /\ s[k] \in {43, 45}
      BY <1>12 DEF NumberShape, k
  <2>2. Mantissa(t, k - 2) /\ t[k - 1] \in {69, 101} /\ t[k] \in {43, 45}
      BY <1>1, <1>2, <2>1
  <2>3. n = "any2" /\ c \in 48..57 BY <1>12, LabelMoves
  <2>4. DigitsIn(t, k + 1, k + 1) BY <1>1, <1>2, <2>3 DEF DigitsIn, Decimals
  <2>5. /\ k - 2 \in 1..((k + 1) - 2) /\ (k - 2) + 1 = k - 1 /\ (k - 2) + 2 = k
        /\ (k - 2) + 3 = k + 1
      BY <1>2, <2>1
  <2> QED BY <1>1, <2>2, <2>3, <2>4, <2>5 DEF NumberShape, t
<1>13. CASE at = "any2"
  <2>1. PICK b \in 1..(k - 2) :
              /\ Mantissa(s, b) /\ s[b + 1] \in {69, 101}
              /\ \/ DigitsIn(s, b + 2, k)
                 \/ b + 3 <= k /\ s[b + 2] \in {43, 45} /\ DigitsIn(s, b + 3, k)
      BY <1>13 DEF NumberShape, k
  <2>2. b \in 1..k /\ b + 1 \in 1..k /\ b + 2 \in 1..k /\ (b + 3 <= k => b + 3 \in 1..k) BY <1>2
  <2>3. n = "any2" /\ c \in 48..57 BY <1>13, LabelMoves
  <2>4. Mantissa(t, b) /\ t[b + 1] \in {69, 101} BY <1>1, <2>1, <2>2
  <2>5. \/ DigitsIn(t, b + 2, k + 1)
        \/ b + 3 <= k + 1 /\ t[b + 2] \in {43, 45} /\ DigitsIn(t, b + 3, k + 1)
      BY <1>1, <1>2, <1>6, <2>1, <2>2, <2>3
  <2>6. b \in 1..((k + 1) - 2) BY <1>2
  <2> QED BY <1>1, <2>3, <2>4, <2>5, <2>6 DEF NumberShape, t
<1> QED BY <1>7, <1>8, <1>9, <1>10, <1>11, <1>12, <1>13 DEF NumberLabels

\* The first byte of a number.
LEMMA NumberBegins ==
    ASSUME NEW c \in Bytes, NEW n \in NextLabel("init", c)
    PROVE  NumberShape(n, <<c>>) /\ n \in NumberLabels
<1> DEFINE t == <<c>>
<1>1. Len(t) = 1 /\ t[1] = c OBVIOUS
<1> HIDE DEF t
<1>2. (n = "minus" /\ c = 45) \/ (n = "zero" /\ c = 48) \/ (n = "any1" /\ c \in 49..57)
  <2>1. PICK at : at = "init" OBVIOUS
  <2>2. n \in NextLabel(at, c) BY <2>1
  <2> QED BY <2>1, <2>2, LabelMoves
<1>3. CASE n = "minus" BY <1>1, <1>2, <1>3 DEF NumberShape, t, NumberLabels
<1>4. CASE n # "minus"
  <2>1. First(t) = 1 /\ c \in 48..57 BY <1>1, <1>2, <1>4 DEF First
  <2>2. IntTo(t, 1) BY <1>1, <2>1 DEF IntTo, DigitsIn, Decimals
  <2> QED BY <1>1, <1>2, <1>4, <2>1, <2>2 DEF NumberShape, t, NumberLabels
<1> QED BY <1>3, <1>4
LEMMA Slice ==
    ASSUME NEW s \in Seq(Bytes), NEW i \in Nat, NEW j \in Nat, 1 <= i, i <= j + 1, j <= Len(s)
    PROVE  LET w == SubSeq(s, i, j)
           IN  /\ w \in Seq(Bytes) /\ Len(w) = j - i + 1
               /\ \A x \in 1..(j - i + 1) : w[x] = s[i + x - 1]
               /\ i <= j => w # <<>> /\ w[1] = s[i] /\ Len(Tail(w)) = j - i
                             /\ \A x \in 1..(j - i) : Tail(w)[x] = s[i + x]
               /\ i <= j /\ DigitsIn(s, i, j) => AllDigits(w)
               /\ i < j /\ DigitsIn(s, i + 1, j) => AllDigits(Tail(w))
<1> DEFINE w == SubSeq(s, i, j)
           t == Tail(w)
<1>1. /\ w \in Seq(Bytes) /\ Len(w) = j - i + 1
      /\ \A x \in 1..(j - i + 1) : w[x] = s[i + x - 1]
    OBVIOUS
<1>2. i <= j => t \in Seq(Bytes) /\ Len(t) = j - i /\ \A x \in 1..(j - i) : t[x] = w[x + 1]
  <2> HIDE DEF w
  <2> QED BY <1>1
<1> HIDE DEF w, t
<1>3. ASSUME i <= j
      PROVE  w # <<>> /\ w[1] = s[i] /\ Len(t) = j - i /\ \A x \in 1..(j - i) : t[x] = s[i + x]
  <2>1. 1 \in 1..(j - i + 1) /\ i + 1 - 1 = i BY <1>3
  <2>2. w # <<>> /\ w[1] = s[i] BY <1>1, <1>3, <2>1
  <2>3. ASSUME NEW x \in 1..(j - i) PROVE t[x] = s[i + x]
    <3>1. x + 1 \in 1..(j - i + 1) /\ i + (x + 1) - 1 = i + x BY <1>3
    <3>2. w[x + 1] = s[i + (x + 1) - 1] BY <1>1, <3>1
    <3> QED BY <1>2, <1>3, <3>1, <3>2
  <2> QED BY <1>2, <1>3, <2>2, <2>3
<1>4. ASSUME i <= j, DigitsIn(s, i, j) PROVE AllDigits(w)
  <2>1. ASSUME NEW x \in 1..Len(w) PROVE w[x] \in Decimals
    <3>1. x \in 1..(j - i + 1) /\ i + x - 1 \in i..j BY <1>1
    <3> QED BY <1>1, <1>4, <3>1 DEF DigitsIn
  <2> QED BY <1>3, <1>4, <2>1 DEF AllDigits
<1>5. ASSUME i < j, DigitsIn(s, i + 1, j) PROVE AllDigits(t)
  <2>1. t \in Seq(Bytes) /\ Len(t) = j - i /\ j - i > 0 BY <1>2, <1>5
  <2>2. t # <<>> BY <2>1
  <2>3. ASSUME NEW x \in 1..Len(t) PROVE t[x] \in Decimals
    <3>1. x \in 1..(j - i) /\ i + x \in (i + 1)..j BY <2>1
    <3> QED BY <1>3, <1>5, <3>1 DEF DigitsIn
  <2> QED BY <2>2, <2>3 DEF AllDigits
<1> QED BY <1>1, <1>3, <1>4, <1>5 DEF w, t

LEMMA SliceBegins ==
    ASSUME NEW s \in Seq(Bytes), NEW x \in Nat, NEW y \in Nat, x < y, y <= Len(s)
    PROVE  SubSeq(s, x + 1, y) # <<>> /\ SubSeq(s, x + 1, y)[1] = s[x + 1]
<1>1. x + 1 \in Nat /\ 1 <= x + 1 /\ x + 1 <= y + 1 /\ x + 1 <= y OBVIOUS
<1> QED BY <1>1, Slice

LEMMA IntSlice ==
    ASSUME NEW s \in Seq(Bytes), NEW a \in Nat, IntTo(s, a)
    PROVE  IsInt(SubSeq(s, First(s), a)) /\ First(s) \in 1..2 /\ First(s) <= a /\ a <= Len(s)
<1>1. First(s) \in 1..2 /\ First(s) <= a /\ a <= Len(s) BY DEF First, IntTo
<1>2. PICK f \in Nat : f = First(s) /\ f >= 1 BY <1>1
<1> DEFINE w == SubSeq(s, f, a)
<1>3. w # <<>> /\ w[1] = s[f] /\ AllDigits(w) /\ Len(w) = a - f + 1
  <2>1. f <= a /\ f <= a + 1 /\ DigitsIn(s, f, a) BY <1>1, <1>2 DEF IntTo
  <2> QED BY <1>1, <1>2, <2>1, Slice
<1> HIDE DEF w
<1>4. s[f] # 48 \/ Len(w) = 1 BY <1>2, <1>3 DEF IntTo
<1>5. IsInt(w) BY <1>3, <1>4 DEF IsInt
<1> QED BY <1>1, <1>2, <1>5 DEF w

LEMMA FractionSlice ==
    ASSUME NEW s \in Seq(Bytes), NEW a \in Nat, NEW b \in Nat, a >= 1, b <= Len(s),
           FractionTo(s, a, b)
    PROVE  IsFraction(SubSeq(s, a + 1, b)) /\ a <= b
<1> DEFINE w == SubSeq(s, a + 1, b)
<1>1. CASE a = b
  <2>1. w = <<>> BY <1>1
  <2> QED BY <1>1, <2>1 DEF IsFraction
<1>2. CASE a + 1 < b /\ s[a + 1] = 46 /\ DigitsIn(s, a + 2, b)
  <2>1. a + 1 \in Nat /\ (a + 1) + 1 = a + 2 /\ a + 1 <= b /\ a + 1 <= b + 1 /\ 1 <= a + 1
      BY <1>2
  <2>2. DigitsIn(s, (a + 1) + 1, b) BY <1>2, <2>1
  <2>3. w[1] = 46 /\ AllDigits(Tail(w)) BY <1>2, <2>1, <2>2, Slice
  <2> HIDE DEF w
  <2>4. IsFraction(w) BY <2>3 DEF IsFraction
  <2> QED BY <1>2, <2>4 DEF w
<1> QED BY <1>1, <1>2 DEF FractionTo

LEMMA ExponentSlice ==
    ASSUME NEW s \in Seq(Bytes), NEW n \in Nat, n = Len(s), NEW i \in Nat, 1 <= i, i < n,
           s[i] \in {69, 101},
           \/ DigitsIn(s, i + 1, n)
           \/ i + 2 <= n /\ s[i + 1] \in {43, 45} /\ DigitsIn(s, i + 2, n)
    PROVE  IsExponent(SubSeq(s, i, n))
<1> DEFINE w == SubSeq(s, i, n)
<1>1. /\ w \in Seq(Bytes) /\ Len(w) = n - i + 1 /\ w # <<>> /\ w[1] = s[i]
      /\ DigitsIn(s, i + 1, n) => AllDigits(Tail(w))
  <2>1. 1 <= i /\ i <= n + 1 /\ n <= Len(s) /\ i <= n /\ i < n OBVIOUS
  <2>2. w \in Seq(Bytes) /\ Len(w) = n - i + 1 OBVIOUS
  <2>3. w # <<>> /\ w[1] = s[i]
    <3>1. \A x \in 1..(n - i + 1) : w[x] = s[i + x - 1] OBVIOUS
    <3> HIDE DEF w
    <3>2. 1 \in 1..(n - i + 1) /\ i + 1 - 1 = i BY <2>1
    <3>3. Len(w) > 0 BY <2>1, <2>2
    <3> QED BY <2>2, <3>1, <3>2, <3>3
  <2>4. DigitsIn(s, i + 1, n) => AllDigits(Tail(w))
    <3> HAVE DigitsIn(s, i + 1, n)
    <3> QED BY <2>1, Slice
  <2> QED BY <2>2, <2>3, <2>4
<1>2. \A x \in 1..(n - i + 1) : w[x] = s[i + x - 1] BY Slice
<1> HIDE DEF w
<1>3. CASE DigitsIn(s, i + 1, n) BY <1>1, <1>3 DEF IsExponent, w
<1>4. CASE i + 2 <= n /\ s[i + 1] \in {43, 45} /\ DigitsIn(s, i + 2, n)
  <2>1. w[2] \in {43, 45}
    <3>1. 2 \in 1..(n - i + 1) /\ i + 2 - 1 = i + 1 BY <1>4
    <3> QED BY <1>2, <1>4, <3>1
  <2>2. i + 2 <= n BY <1>4
  <2>3. w \in Seq(Bytes) /\ Len(w) = n - i + 1 BY <1>1
  <2>4. PICK k \in Nat : k = Len(w) /\ k = n - i + 1 /\ k >= 3
      BY ONLY <2>2, <2>3, n \in Nat, i \in Nat
  <2>5. ASSUME NEW x \in 3..k PROVE w[x] \in Decimals
    <3>1. x \in 1..(n - i + 1) /\ i + x - 1 \in (i + 2)..n BY <2>4
    <3>2. w[x] = s[i + x - 1] BY <1>2, <3>1
    <3> QED BY <1>4, <3>1, <3>2 DEF DigitsIn
  <2>6. AllDigits(SubSeq(w, 3, k))
    <3>1. DigitsIn(w, 3, k) BY <2>5 DEF DigitsIn
    <3>2. w \in Seq(Bytes) /\ k <= Len(w) BY ONLY <2>3, <2>4, k \in Nat
    <3>3. PICK j \in Nat : j = 3 OBVIOUS
    <3>4. 1 <= j /\ j <= k + 1 /\ j <= k /\ DigitsIn(w, j, k) BY <2>4, <3>1, <3>3
    <3>5. AllDigits(SubSeq(w, j, k)) BY <3>2, <3>4, Slice
    <3> QED BY <3>3, <3>5
  <2>7. Len(w) > 1 BY <2>4
  <2> QED BY <1>1, <2>1, <2>4, <2>6, <2>7 DEF IsExponent, w
<1> QED BY <1>3, <1>4

\* The places that a number can be cut at.
Cut(s, f, a, b) ==
    /\ a <= b /\ IsInt(SubSeq(s, f, a)) /\ IsFraction(SubSeq(s, a + 1, b))
    /\ IsExponent(SubSeq(s, b + 1, Len(s)))

LEMMA NumbersAre ==
    ASSUME NEW s \in Seq(Bytes), s # <<>>, NEW a \in First(s)..Len(s), NEW b \in First(s)..Len(s),
           Cut(s, First(s), a, b), NEW kind,
           \/ kind = "value_float" /\ a < Len(s)
           \/ /\ kind = IF s[1] = 45 THEN "value_integer" ELSE "value_unsigned"
              /\ \A x, y \in First(s)..Len(s) : Cut(s, First(s), x, y) => x = Len(s)
    PROVE  [kind |-> kind, value |-> s] \in Numbers(s)
<1> DEFINE f == IF s # <<>> /\ s[1] = 45 THEN 2 ELSE 1
           cuts == {c \in (f..Len(s)) \X (f..Len(s)) :
                    /\ c[1] <= c[2]
                    /\ IsInt(SubSeq(s, f, c[1])) /\ IsFraction(SubSeq(s, c[1] + 1, c[2]))
                    /\ IsExponent(SubSeq(s, c[2] + 1, Len(s)))}
           k == IF \E c \in cuts : c[1] < Len(s) THEN "value_float"
                ELSE IF f = 2 THEN "value_integer" ELSE "value_unsigned"
<1>1. f = First(s) /\ (f = 2 <=> s[1] = 45) BY DEF First
<1>2. Numbers(s) = IF cuts = {} THEN {} ELSE {[kind |-> k, value |-> s]}
    BY DEF Numbers
<1>3. <<a, b>> \in cuts BY <1>1 DEF Cut
<1>4. \A c \in cuts : c[1] \in f..Len(s) /\ c[2] \in f..Len(s) /\ Cut(s, f, c[1], c[2])
    BY DEF Cut
<1>5. k = kind
  <2>1. CASE kind = "value_float" /\ a < Len(s)
    <3>1. \E c \in cuts : c[1] < Len(s) BY <1>3, <2>1
    <3> QED BY <2>1, <3>1
  <2>2. CASE /\ kind = IF s[1] = 45 THEN "value_integer" ELSE "value_unsigned"
             /\ \A x, y \in First(s)..Len(s) : Cut(s, First(s), x, y) => x = Len(s)
    <3>1. \A c \in cuts : c[1] = Len(s) BY <1>1, <1>4, <2>2
    <3>2. ~\E c \in cuts : c[1] < Len(s) BY <3>1
    <3> QED BY <1>1, <2>2, <3>2
  <2> QED BY <2>1, <2>2
<1> QED BY <1>2, <1>3, <1>5

\* Where a number may end, it is one, and its token is of its kind.
LEMMA NumberEndsAs ==
    ASSUME NEW l, NEW raw, NumberSoFar(l, raw), l.at \in NumberEnds
    PROVE  [kind |-> NumberToken(l), value |-> raw] \in Numbers(raw)
<1>1. raw \in Seq(Bytes) /\ raw # <<>> /\ l.buffer = raw /\ NumberShape(l.at, raw)
    BY DEF NumberSoFar
<1>2. PICK n \in Nat : n = Len(raw) /\ n >= 1 BY <1>1
<1>3. First(raw) \in 1..2 BY DEF First
<1>4. IsExponent(SubSeq(raw, n + 1, Len(raw)))
  <2>1. SubSeq(raw, n + 1, Len(raw)) = <<>> BY <1>1, <1>2
  <2> QED BY <2>1 DEF IsExponent
<1>5. CASE l.at \in {"zero", "any1"}
  <2>1. IntTo(raw, n) BY <1>1, <1>2, <1>5 DEF NumberShape
  <2>2. IsInt(SubSeq(raw, First(raw), n)) /\ First(raw) <= n BY <1>1, <2>1, IntSlice
  <2>3. IsFraction(SubSeq(raw, n + 1, n)) BY <1>1, <1>2 DEF IsFraction
  <2>4. Cut(raw, First(raw), n, n) BY <1>2, <1>4, <2>2, <2>3 DEF Cut
  <2>5. NumberToken(l) = IF raw[1] = 45 THEN "value_integer" ELSE "value_unsigned"
      BY <1>1, <1>5 DEF NumberToken, Minus
  <2>6. ASSUME NEW x \in First(raw)..n, NEW y \in First(raw)..n, Cut(raw, First(raw), x, y), x # n
        PROVE  FALSE
    <3>1. x \in Nat /\ y \in Nat /\ x < n /\ x >= 1 /\ x <= y /\ y <= n
        BY <1>2, <1>3, <2>6 DEF Cut
    <3>2. raw[x + 1] \in Decimals
      <4>1. x + 1 \in First(raw)..n BY <1>3, <3>1
      <4> QED BY <2>1, <4>1 DEF IntTo, DigitsIn
    <3>3. y = x
      <4>1. SUFFICES ASSUME y > x PROVE FALSE BY <3>1
      <4> DEFINE w == SubSeq(raw, x + 1, y)
      <4>2. w # <<>> /\ w[1] = raw[x + 1]
        <5>1. y <= Len(raw) BY <1>2, <3>1
        <5> QED BY <1>1, <3>1, <4>1, <5>1, SliceBegins
      <4> HIDE DEF w
      <4>3. IsFraction(w) BY <2>6 DEF Cut, w
      <4> QED BY <3>2, <4>2, <4>3 DEF IsFraction, Decimals
    <3> DEFINE w == SubSeq(raw, x + 1, n)
    <3>4. w # <<>> /\ w[1] = raw[x + 1]
      <4>1. n <= Len(raw) BY <1>2
      <4> QED BY <1>1, <3>1, <4>1, SliceBegins
    <3>5. IsExponent(w) BY <1>2, <2>6, <3>3 DEF Cut
    <3> HIDE DEF w
    <3> QED BY <3>2, <3>4, <3>5 DEF IsExponent, Decimals
  <2>7. n \in First(raw)..Len(raw) BY <1>2, <1>3, <2>2
  <2>8. \A x, y \in First(raw)..Len(raw) : Cut(raw, First(raw), x, y) => x = Len(raw)
      BY <1>2, <2>6
  <2> QED BY <1>1, <2>4, <2>5, <2>7, <2>8, NumbersAre
<1>6. CASE l.at = "decimal2"
  <2>1. PICK a \in 1..(n - 1) : IntTo(raw, a) /\ FractionTo(raw, a, n)
      BY <1>1, <1>2, <1>6 DEF NumberShape
  <2>2. a \in Nat /\ a >= 1 /\ a < n BY <1>2
  <2>3. IsInt(SubSeq(raw, First(raw), a)) /\ First(raw) <= a BY <1>1, <2>1, <2>2, IntSlice
  <2>4. IsFraction(SubSeq(raw, a + 1, n)) BY <1>1, <1>2, <2>1, <2>2, FractionSlice
  <2>5. Cut(raw, First(raw), a, n) BY <1>2, <1>4, <2>2, <2>3, <2>4 DEF Cut
  <2>6. NumberToken(l) = "value_float" BY <1>6 DEF NumberToken
  <2>7. a \in First(raw)..Len(raw) /\ n \in First(raw)..Len(raw) /\ a < Len(raw)
      BY <1>2, <1>3, <2>2, <2>3
  <2> QED BY <1>1, <2>5, <2>6, <2>7, NumbersAre
<1>7. CASE l.at = "any2"
  <2>1. PICK b \in 1..(n - 2) :
              /\ Mantissa(raw, b) /\ raw[b + 1] \in {69, 101}
              /\ \/ DigitsIn(raw, b + 2, n)
                 \/ b + 3 <= n /\ raw[b + 2] \in {43, 45} /\ DigitsIn(raw, b + 3, n)
      BY <1>1, <1>2, <1>7 DEF NumberShape
  <2>2. PICK a \in 1..b : IntTo(raw, a) /\ FractionTo(raw, a, b) BY <2>1 DEF Mantissa
  <2>3. a \in Nat /\ a >= 1 /\ a <= b /\ b \in Nat /\ b + 2 <= n BY <1>2
  <2>4. IsInt(SubSeq(raw, First(raw), a)) /\ First(raw) <= a BY <1>1, <2>2, <2>3, IntSlice
  <2>5. IsFraction(SubSeq(raw, a + 1, b))
    <3>1. b <= Len(raw) BY <1>2, <2>3
    <3> QED BY <1>1, <2>2, <2>3, <3>1, FractionSlice
  <2>6. IsExponent(SubSeq(raw, b + 1, Len(raw)))
    <3>1. PICK i \in Nat : i = b + 1 BY <2>3
    <3>2. b + 2 = i + 1 /\ b + 3 = i + 2 /\ 1 <= i /\ i < n BY <2>3, <3>1
    <3>3. raw[i] \in {69, 101} BY <2>1, <3>1
    <3>4. \/ DigitsIn(raw, i + 1, n)
          \/ i + 2 <= n /\ raw[i + 1] \in {43, 45} /\ DigitsIn(raw, i + 2, n)
        BY <2>1, <3>2
    <3>5. IsExponent(SubSeq(raw, i, n)) BY <1>1, <1>2, <3>2, <3>3, <3>4, ExponentSlice
    <3> QED BY <1>2, <3>1, <3>5
  <2>7. Cut(raw, First(raw), a, b) BY <2>3, <2>4, <2>5, <2>6 DEF Cut
  <2>8. NumberToken(l) = "value_float" BY <1>7 DEF NumberToken
  <2>9. a \in First(raw)..Len(raw) /\ b \in First(raw)..Len(raw) /\ a < Len(raw)
      BY <1>2, <1>3, <2>3, <2>4
  <2> QED BY <1>1, <2>7, <2>8, <2>9, NumbersAre
<1> QED BY <1>5, <1>6, <1>7 DEF NumberEnds

-----------------------------------------------------------------------------
(* A token that was read so far, whatever it is.                           *)

LiteralSoFar(l, raw) ==
    /\ l.at \in LiteralAts /\ l.high = 0 /\ raw \in Seq(Bytes)
    /\ LiteralNames[l.at] = raw \o l.rest

BomAts == {"bom", "bom 2", "bom 3"}
BomSoFar(l, raw) ==
    /\ l.high = 0
    /\ \/ l.at = "bom" /\ raw = <<>>
       \/ l.at = "bom 2" /\ raw = <<239>>
       \/ l.at = "bom 3" /\ raw = <<239, 187>>

\* raw is what was read since the last token or space.
Partial(l, raw) ==
    \/ l.at = "start" /\ l.high = 0 /\ raw = <<>>
    \/ BomSoFar(l, raw)
    \/ LiteralSoFar(l, raw)
    \/ NumberSoFar(l, raw)
    \/ StringSoFar(l, raw)

Quiet(m) == m.token = "none" /\ ~m.unget
Outside(m) == m.at = "start" /\ m.high = 0

\* What a byte may do: it goes on with what was begun, is between tokens, or ends a token,
\* which it may belong to or not; or it ends the text.
GoesOn(l, m, raw, c) ==
    /\ c \in Bytes /\ Quiet(m) /\ Partial(m, Append(raw, c))
    /\ m.at \in BomAts => l.at \in BomAts
IsSpace(m, raw, c) == c \in Spaces /\ Quiet(m) /\ Outside(m) /\ raw = <<>>
EndsBom(l, m, raw, c) ==
    c \in Bytes /\ l.at \in BomAts /\ Quiet(m) /\ Outside(m) /\ Append(raw, c) = Bom
EndsToken(m, raw, c) ==
    /\ c \in Bytes /\ ~m.unget /\ Outside(m)
    /\ TokenOf(m.token, Append(raw, c), m.buffer)
EndedToken(m, raw, c) ==
    /\ m.unget /\ m.current = c /\ Outside(m)
    /\ raw # <<>> /\ TokenOf(m.token, raw, m.buffer)
EndsAll(m, raw, c) ==
    c \in {0, EOF} /\ m.token = "end_of_input" /\ ~m.unget /\ Outside(m) /\ raw = <<>>

Steps(l, m, raw, c) ==
    \/ m.token = "parse_error"
    \/ GoesOn(l, m, raw, c) \/ IsSpace(m, raw, c) \/ EndsBom(l, m, raw, c)
    \/ EndsToken(m, raw, c) \/ EndedToken(m, raw, c) \/ EndsAll(m, raw, c)

LEMMA TaggedSame ==
    ASSUME NEW l \in Lexers, NEW t, NEW u
    PROVE  LET m == [Token(l, t) EXCEPT !.unget = u]
           IN  m.at = "start" /\ m.token = t /\ m.unget = u /\ m.high = l.high
               /\ m.buffer = l.buffer /\ m.current = l.current
BY DEF Token, Lexers

\* A byte in a number.
LEMMA NumberScanned ==
    ASSUME NEW l, LexerOK(l), NEW c \in 0..EOF, NEW raw, NumberSoFar(l, raw)
    PROVE  Steps(l, Scan(l, c), raw, c)
<1>1. PICK k : k = Got(l, c) OBVIOUS
<1>2. /\ l.at \in NumberLabels /\ l.high = 0 /\ l.buffer = raw /\ raw \in Seq(Bytes)
      /\ raw # <<>> /\ NumberShape(l.at, raw)
    BY DEF NumberSoFar
<1>3. /\ k \in Lexers /\ k.at = l.at /\ k.token = "none" /\ ~k.unget /\ k.high = 0
      /\ k.buffer = raw /\ k.current = c
    BY <1>1, <1>2, GotInString
<1>4. Scan(l, c) = ScanNumber(k, c) BY <1>1, <1>2, ScanPart
<1>5. CASE NextLabel(l.at, c) # {}
  <2> DEFINE n == CHOOSE n \in NextLabel(l.at, c) : TRUE
             a == Add(k, <<c>>)
             m == GoOn(a, n)
  <2>1. n \in NextLabel(l.at, c) BY <1>5
  <2> HIDE DEF n
  <2>2. n \in NumberLabels BY <2>1, LabelFacts
  <2>3. c \in Bytes BY <1>5, LabelAtByte
  <2>4. NumberShape(n, Append(raw, c)) BY <1>2, <2>1, <2>3, NumberGrows
  <2>5. <<c>> \in Seq(Bytes) BY <2>3
  <2>6. a \in Lexers BY <1>3, <2>5, AddOK
  <2>7. a.token = "none" /\ ~a.unget /\ a.high = 0 /\ a.buffer = raw \o <<c>>
      BY <1>3, AddFields
  <2> HIDE DEF a
  <2>8. m.at = n /\ m.token = "none" /\ ~m.unget /\ m.high = 0 /\ m.buffer = raw \o <<c>>
      BY <2>6, <2>7, GoOnFields
  <2>9. Scan(l, c) = m BY <1>3, <1>4, <1>5 DEF ScanNumber, m, a, n
  <2> HIDE DEF m
  <2>10. raw \o <<c>> = Append(raw, c) /\ Append(raw, c) \in Seq(Bytes) BY <1>2, <2>3, ConcatOne
  <2>11. Append(raw, c) # <<>> BY <1>2, <2>3
  <2>12. NumberSoFar(m, Append(raw, c)) BY <2>2, <2>4, <2>8, <2>10, <2>11 DEF NumberSoFar
  <2>13. m.at \notin BomAts
    <3>1. NumberLabels \cap BomAts = {} BY Zenon DEF NumberLabels, BomAts
    <3> QED BY Zenon, <2>2, <2>8, <3>1
  <2> QED BY Zenon, <2>3, <2>8, <2>9, <2>12, <2>13 DEF Steps, GoesOn, Partial, Quiet
<1>6. CASE NextLabel(l.at, c) = {} /\ l.at \in NumberEnds
  <2> DEFINE t == NumberToken(k)
             m == [Token(k, t) EXCEPT !.unget = TRUE]
  <2>1. Scan(l, c) = m BY <1>3, <1>4, <1>6 DEF ScanNumber
  <2> HIDE DEF t
  <2>2. m.at = "start" /\ m.token = t /\ m.unget /\ m.high = 0 /\ m.buffer = raw /\ m.current = c
      BY <1>3, TaggedSame
  <2> HIDE DEF m
  <2>3. [kind |-> NumberToken(l), value |-> raw] \in Numbers(raw) BY <1>6, NumberEndsAs
  <2>4. t = NumberToken(l) BY <1>2, <1>3 DEF NumberToken, t
  <2>5. TokenOf(m.token, raw, m.buffer) BY <2>2, <2>3, <2>4 DEF TokenOf
  <2> QED BY <1>2, <2>1, <2>2, <2>5 DEF Steps, EndedToken, Outside
<1>7. CASE NextLabel(l.at, c) = {} /\ l.at \notin NumberEnds
  <2>1. Scan(l, c) = Fail(k) BY <1>3, <1>4, <1>7 DEF ScanNumber
  <2> QED BY <1>3, <2>1, FailFields DEF Steps
<1> QED BY <1>5, <1>6, <1>7

\* A byte in a literal.
LEMMA LiteralScanned ==
    ASSUME NEW l, LexerOK(l), NEW c \in 0..EOF, NEW raw, LiteralSoFar(l, raw)
    PROVE  Steps(l, Scan(l, c), raw, c)
<1>1. PICK k : k = Got(l, c) OBVIOUS
<1>2. /\ l.at \in LiteralAts /\ l.high = 0 /\ raw \in Seq(Bytes)
      /\ LiteralNames[l.at] = raw \o l.rest
    BY DEF LiteralSoFar
<1>3. /\ k \in Lexers /\ k.at = l.at /\ k.token = "none" /\ ~k.unget /\ k.high = 0
      /\ k.rest = l.rest
    BY <1>1, <1>2, GotInString
<1>4. Scan(l, c) = ScanLiteral(k, c) BY <1>1, <1>2, ScanPart
<1>5. PICK rest \in Seq(Bytes) : rest = l.rest /\ rest # <<>> BY <1>2 DEF LexerOK
<1>6. CASE c # Head(rest)
  <2>1. Scan(l, c) = Fail(k) BY <1>3, <1>4, <1>5, <1>6 DEF ScanLiteral
  <2> QED BY <1>3, <2>1, FailFields DEF Steps
<1>7. CASE c = Head(rest)
  <2>1. c \in Bytes /\ Tail(rest) \in Seq(Bytes) BY <1>5, <1>7
  <2>2. PICK tail \in Seq(Bytes) : tail = Tail(rest) BY <2>1
  <2>3. rest = <<c>> \o tail
    <3>1. Len(rest) = Len(tail) + 1 /\ \A i \in 1..Len(tail) : tail[i] = rest[i + 1]
        BY <1>5, <2>2
    <3>2. rest[1] = c /\ Len(rest) \in Nat BY <1>5, <1>7
    <3> DEFINE w == <<c>> \o tail
    <3>3. w \in Seq(Bytes) /\ Len(w) = Len(tail) + 1 /\ w[1] = c
          /\ \A i \in 1..Len(tail) : w[i + 1] = tail[i]
        BY <2>1
    <3> HIDE DEF w
    <3>4. PICK n \in Nat : n = Len(tail) OBVIOUS
    <3>5. ASSUME NEW i \in 1..Len(rest) PROVE rest[i] = w[i]
      <4>1. i \in Nat /\ (i = 1 \/ (i - 1 \in 1..n /\ (i - 1) + 1 = i)) BY <3>1, <3>4
      <4>2. \A j \in 1..n : rest[j + 1] = w[j + 1] BY <3>1, <3>3, <3>4
      <4> QED BY <3>2, <3>3, <4>1, <4>2
    <3>6. rest = w BY <1>5, <3>1, <3>3, <3>5, SeqEqual
    <3> QED BY <3>6 DEF w
  <2>4. LiteralNames[l.at] = Append(raw, c) \o tail /\ Append(raw, c) \in Seq(Bytes)
    <3>1. raw \o <<c>> = Append(raw, c) /\ Append(raw, c) \in Seq(Bytes) /\ <<c>> \in Seq(Bytes)
        BY <1>2, <2>1, ConcatOne
    <3>2. (raw \o <<c>>) \o tail = raw \o (<<c>> \o tail) BY Zenon, <1>2, <3>1, ConcatGroups
    <3> QED BY Zenon, <1>2, <1>5, <2>3, <3>1, <3>2
  <2>5. CASE tail = <<>>
    <3>1. Scan(l, c) = Token(k, l.at) BY <1>3, <1>4, <1>5, <1>7, <2>2, <2>5 DEF ScanLiteral
    <3> DEFINE m == Token(k, l.at)
    <3>2. m.at = "start" /\ m.token = l.at /\ ~m.unget /\ m.high = 0 BY <1>3, TokenFields
    <3> HIDE DEF m
    <3>3. LiteralNames[l.at] = Append(raw, c)
      <4>1. Append(raw, c) \o <<>> = Append(raw, c) BY Zenon, <2>4, ConcatNothing
      <4> QED BY Zenon, <2>4, <2>5, <4>1
    <3>4. l.at \in DOMAIN LiteralNames BY <1>2 DEF LiteralAts, LiteralNames
    <3>5. TokenOf(m.token, Append(raw, c), m.buffer) BY Zenon, <3>2, <3>3, <3>4 DEF TokenOf
    <3> QED BY Zenon, <2>1, <3>1, <3>2, <3>5 DEF Steps, EndsToken, Outside, m
  <2>6. CASE tail # <<>>
    <3> DEFINE m == [k EXCEPT !.rest = tail]
    <3>1. Scan(l, c) = m
        BY <1>3, <1>4, <1>5, <1>7, <2>2, <2>6 DEF ScanLiteral
    <3>2. m.at = l.at /\ m.token = "none" /\ ~m.unget /\ m.high = 0 /\ m.rest = tail
        BY <1>3 DEF Lexers
    <3> HIDE DEF m
    <3>3. LiteralSoFar(m, Append(raw, c)) BY Zenon, <1>2, <2>4, <3>2 DEF LiteralSoFar
    <3>4. m.at \notin BomAts
      <4>1. LiteralAts \cap BomAts = {} BY Zenon DEF LiteralAts, BomAts
      <4> QED BY Zenon, <1>2, <3>2, <4>1
    <3> QED BY Zenon, <2>1, <3>1, <3>2, <3>3, <3>4 DEF Steps, GoesOn, Partial, Quiet
  <2> QED BY <2>5, <2>6
<1> QED BY <1>6, <1>7

LEMMA LongerTuples ==
    /\ \A a, b, c \in Bytes : Append(<<a, b>>, c) = <<a, b, c>>
    /\ \A a, b, c, d \in Bytes : <<a>> \o <<b, c, d>> = <<a, b, c, d>>
    /\ \A a, b, c, d, e \in Bytes : <<a>> \o <<b, c, d, e>> = <<a, b, c, d, e>>
<1>1. ASSUME NEW a \in Bytes, NEW b \in Bytes, NEW c \in Bytes
      PROVE  Append(<<a, b>>, c) = <<a, b, c>>
  <2> DEFINE x == <<a, b>>
             g == Append(x, c)
             t == <<a, b, c>>
  <2>1. x \in Seq(Bytes) /\ Len(x) = 2 /\ x[1] = a /\ x[2] = b OBVIOUS
  <2> HIDE DEF x
  <2>2. g \in Seq(Bytes) /\ Len(g) = 3 /\ g[1] = a /\ g[2] = b /\ g[3] = c
    <3>1. g \in Seq(Bytes) BY <2>1
    <3>2. IsSeq(x) BY <2>1 DEF IsSeq
    <3>3. Len(g) = Len(x) + 1 /\ g[Len(x) + 1] = c /\ \A i \in 1..Len(x) : g[i] = x[i]
        BY <3>2, AppendSeq
    <3> HIDE DEF g
    <3> QED BY <2>1, <3>1, <3>3
  <2>3. t \in Seq(Bytes) /\ Len(t) = 3 /\ t[1] = a /\ t[2] = b /\ t[3] = c OBVIOUS
  <2> HIDE DEF g, t
  <2>4. \A i \in 1..Len(g) : g[i] = t[i]
    <3>1. 1..3 = {1, 2, 3} OBVIOUS
    <3> QED BY <2>2, <2>3, <3>1
  <2>5. g = t BY <2>2, <2>3, <2>4, SeqEqual
  <2> QED BY <2>5 DEF g, t, x
<1>2. ASSUME NEW a \in Bytes, NEW b \in Bytes, NEW c \in Bytes, NEW d \in Bytes
      PROVE  <<a>> \o <<b, c, d>> = <<a, b, c, d>>
  <2> DEFINE x == <<a>>
             y == <<b, c, d>>
             g == x \o y
             t == <<a, b, c, d>>
  <2>1. x \in Seq(Bytes) /\ Len(x) = 1 /\ x[1] = a OBVIOUS
  <2>2. y \in Seq(Bytes) /\ Len(y) = 3 /\ y[1] = b /\ y[2] = c /\ y[3] = d OBVIOUS
  <2> HIDE DEF x, y
  <2>3. g \in Seq(Bytes) /\ Len(g) = 4 /\ g[1] = a /\ g[2] = b /\ g[3] = c /\ g[4] = d
    <3>1. /\ g \in Seq(Bytes) /\ Len(g) = Len(x) + Len(y)
          /\ \A i \in 1..Len(x) : g[i] = x[i]
          /\ \A i \in 1..Len(y) : g[Len(x) + i] = y[i]
        BY Zenon, <2>1, <2>2, ConcatBytes
    <3> HIDE DEF g
    <3> QED BY <2>1, <2>2, <3>1
  <2>4. t \in Seq(Bytes) /\ Len(t) = 4 /\ t[1] = a /\ t[2] = b /\ t[3] = c /\ t[4] = d OBVIOUS
  <2> HIDE DEF g, t
  <2>5. \A i \in 1..Len(g) : g[i] = t[i]
    <3>1. 1..4 = {1, 2, 3, 4} OBVIOUS
    <3> QED BY <2>3, <2>4, <3>1
  <2>6. g = t BY <2>3, <2>4, <2>5, SeqEqual
  <2> QED BY <2>6 DEF g, t, x, y
<1>3. ASSUME NEW a \in Bytes, NEW b \in Bytes, NEW c \in Bytes, NEW d \in Bytes, NEW e \in Bytes
      PROVE  <<a>> \o <<b, c, d, e>> = <<a, b, c, d, e>>
  <2> DEFINE x == <<a>>
             y == <<b, c, d, e>>
             g == x \o y
             t == <<a, b, c, d, e>>
  <2>1. x \in Seq(Bytes) /\ Len(x) = 1 /\ x[1] = a OBVIOUS
  <2>2. y \in Seq(Bytes) /\ Len(y) = 4 /\ y[1] = b /\ y[2] = c /\ y[3] = d /\ y[4] = e
      OBVIOUS
  <2> HIDE DEF x, y
  <2>3. /\ g \in Seq(Bytes) /\ Len(g) = 5 /\ g[1] = a /\ g[2] = b /\ g[3] = c /\ g[4] = d
        /\ g[5] = e
    <3>1. /\ g \in Seq(Bytes) /\ Len(g) = Len(x) + Len(y)
          /\ \A i \in 1..Len(x) : g[i] = x[i]
          /\ \A i \in 1..Len(y) : g[Len(x) + i] = y[i]
        BY Zenon, <2>1, <2>2, ConcatBytes
    <3> HIDE DEF g
    <3> QED BY <2>1, <2>2, <3>1
  <2>4. /\ t \in Seq(Bytes) /\ Len(t) = 5 /\ t[1] = a /\ t[2] = b /\ t[3] = c /\ t[4] = d
        /\ t[5] = e
      OBVIOUS
  <2> HIDE DEF g, t
  <2>5. \A i \in 1..Len(g) : g[i] = t[i]
    <3>1. 1..5 = {1, 2, 3, 4, 5} OBVIOUS
    <3> QED BY <2>3, <2>4, <3>1
  <2>6. g = t BY <2>3, <2>4, <2>5, SeqEqual
  <2> QED BY <2>6 DEF g, t, x, y
<1> QED BY <1>1, <1>2, <1>3

LEMMA LiteralBegins ==
    ASSUME NEW x \in Literals
    PROVE  /\ x[1] \in Bytes /\ x[2] \in LiteralAts
           /\ <<x[1]>> \in Seq(Bytes) /\ LiteralNames[x[2]] = <<x[1]>> \o x[3]
<1> DEFINE t == <<116, "literal_true", <<114, 117, 101>> >>
           f == <<102, "literal_false", <<97, 108, 115, 101>> >>
           n == <<110, "literal_null", <<117, 108, 108>> >>
<1>1. x = t \/ x = f \/ x = n BY DEF Literals
<1>2. /\ 116 \in Bytes /\ 102 \in Bytes /\ 110 \in Bytes /\ 114 \in Bytes /\ 117 \in Bytes
      /\ 101 \in Bytes /\ 97 \in Bytes /\ 108 \in Bytes /\ 115 \in Bytes
    BY DEF Bytes
<1>3. CASE x = t
  <2>1. <<116>> \o <<114, 117, 101>> = <<116, 114, 117, 101>>
    <3>1. PICK h \in Bytes, i \in Bytes, j \in Bytes, k \in Bytes :
             h = 116 /\ i = 114 /\ j = 117 /\ k = 101
        BY <1>2
    <3>2. <<h>> \o <<i, j, k>> = <<h, i, j, k>> BY LongerTuples
    <3> QED BY Zenon, <3>1, <3>2
  <2>2. LiteralNames["literal_true"] = <<116, 114, 117, 101>> BY DEF LiteralNames
  <2>3. x[1] = 116 /\ x[2] = "literal_true" /\ x[3] = <<114, 117, 101>> BY <1>3
  <2> QED BY <1>2, <2>1, <2>2, <2>3 DEF LiteralAts
<1>4. CASE x = f
  <2>1. <<102>> \o <<97, 108, 115, 101>> = <<102, 97, 108, 115, 101>>
    <3>1. PICK h \in Bytes, i \in Bytes, j \in Bytes, k \in Bytes, o \in Bytes :
             h = 102 /\ i = 97 /\ j = 108 /\ k = 115 /\ o = 101
        BY <1>2
    <3>2. <<h>> \o <<i, j, k, o>> = <<h, i, j, k, o>> BY LongerTuples
    <3> QED BY Zenon, <3>1, <3>2
  <2>2. LiteralNames["literal_false"] = <<102, 97, 108, 115, 101>> BY DEF LiteralNames
  <2>3. x[1] = 102 /\ x[2] = "literal_false" /\ x[3] = <<97, 108, 115, 101>> BY <1>4
  <2> QED BY <1>2, <2>1, <2>2, <2>3 DEF LiteralAts
<1>5. CASE x = n
  <2>1. <<110>> \o <<117, 108, 108>> = <<110, 117, 108, 108>>
    <3>1. PICK h \in Bytes, i \in Bytes, j \in Bytes, k \in Bytes :
             h = 110 /\ i = 117 /\ j = 108 /\ k = 108
        BY <1>2
    <3>2. <<h>> \o <<i, j, k>> = <<h, i, j, k>> BY LongerTuples
    <3> QED BY Zenon, <3>1, <3>2
  <2>2. LiteralNames["literal_null"] = <<110, 117, 108, 108>> BY DEF LiteralNames
  <2>3. x[1] = 110 /\ x[2] = "literal_null" /\ x[3] = <<117, 108, 108>> BY <1>5
  <2> QED BY <1>2, <2>1, <2>2, <2>3 DEF LiteralAts
<1> QED BY <1>1, <1>3, <1>4, <1>5

LEMMA SingleIs ==
    ASSUME NEW c \in SingleBytes
    PROVE  \/ c \in {0, EOF} /\ Single(c) = "end_of_input"
           \/ c \in Bytes /\ Single(c) \in DOMAIN Structural /\ c = Structural[Single(c)]
<1> USE DEF Single, OpenBracket, CloseBracket, OpenBrace, CloseBrace, Colon, Comma
<1>1. CASE c \in {0, EOF} BY <1>1 DEF EOF
<1>2. CASE c \notin {0, EOF}
  <2>1. \/ c = 91 /\ Single(c) = "begin_array"
        \/ c = 93 /\ Single(c) = "end_array"
        \/ c = 123 /\ Single(c) = "begin_object"
        \/ c = 125 /\ Single(c) = "end_object"
        \/ c = 58 /\ Single(c) = "name_separator"
        \/ c = 44 /\ Single(c) = "value_separator"
      BY <1>2 DEF SingleBytes, EOF
  <2> QED BY <2>1 DEF Structural, Bytes
<1> QED BY <1>1, <1>2

\* A byte where a token may begin.
LEMMA StartScanned ==
    ASSUME NEW l, NEW k \in Lexers, k.token = "none", ~k.unget, k.high = 0, NEW c \in 0..EOF
    PROVE  Steps(l, ScanStart(k, c), <<>>, c)
<1> DEFINE none == <<>>
           m == ScanStart(k, c)
<1>1. none \in Seq(Bytes) /\ (c \in Bytes => Append(none, c) = <<c>> /\ <<c>> \in Seq(Bytes))
    OBVIOUS
<1> USE FirstByteTells DEF StartsLiteral, StartsNumber
<1>2. CASE c \in Whitespace
  <2>1. m = GoOn(k, "start") BY <1>2 DEF ScanStart
  <2>2. m.at = "start" /\ m.token = "none" /\ ~m.unget /\ m.high = 0 BY <2>1, GoOnFields
  <2>3. c \in Spaces BY <1>2 DEF Spaces, Whitespace
  <2> HIDE DEF m
  <2>4. IsSpace(m, <<>>, c) BY <2>2, <2>3 DEF IsSpace, Quiet, Outside
  <2> QED BY <2>4 DEF Steps, m
<1>3. CASE c \notin Whitespace /\ c \in SingleBytes
  <2>1. m = Token(k, Single(c)) BY <1>3 DEF ScanStart
  <2>2. m.at = "start" /\ m.token = Single(c) /\ ~m.unget /\ m.high = 0 BY <2>1, TokenFields
  <2> HIDE DEF m, none
  <2>3. CASE c \in {0, EOF} /\ Single(c) = "end_of_input"
    <3>1. EndsAll(m, <<>>, c) BY <2>2, <2>3 DEF EndsAll, Outside
    <3> QED BY <3>1 DEF Steps, m
  <2>4. CASE c \in Bytes /\ Single(c) \in DOMAIN Structural /\ c = Structural[Single(c)]
    <3>1. TokenOf(m.token, Append(none, c), m.buffer) BY <1>1, <2>2, <2>4 DEF TokenOf
    <3>2. EndsToken(m, none, c) BY <2>2, <2>4, <3>1 DEF EndsToken, Outside
    <3> QED BY <3>2 DEF Steps, m, none
  <2> QED BY <1>3, <2>3, <2>4, SingleIs
<1>4. CASE c \notin Whitespace \cup SingleBytes /\ c = Quote
  <2> DEFINE q == [k EXCEPT !.at = "string", !.buffer = <<>>]
  <2>1. m = q BY <1>4 DEF ScanStart
  <2>2. q.at = "string" /\ q.token = "none" /\ ~q.unget /\ q.high = 0 /\ q.buffer = <<>>
      BY DEF Lexers
  <2> HIDE DEF q, m
  <2>3. c = 34 /\ c \in Bytes BY <1>4 DEF Quote, Bytes
  <2>4. StringSoFar(q, <<34>>) BY <2>2, StringBegins
  <2>5. Append(none, c) = <<34>> BY <1>1, <2>3
  <2> HIDE DEF none
  <2>6. q.at \notin BomAts BY <2>2, Zenon DEF BomAts
  <2>7. GoesOn(l, m, none, c)
      BY <2>1, <2>2, <2>3, <2>4, <2>5, <2>6, Zenon DEF GoesOn, Quiet, Partial
  <2> QED BY <2>7 DEF Steps, m, none
<1>5. CASE c \notin Whitespace \cup SingleBytes \cup {Quote} /\ \E x \in Literals : x[1] = c
  <2> DEFINE x == CHOOSE x \in Literals : x[1] = c
  <2>1. x \in Literals /\ x[1] = c BY <1>5
  <2> HIDE DEF x
  <2> DEFINE q == [k EXCEPT !.at = x[2], !.rest = x[3]]
  <2>2. m = q BY <1>5 DEF ScanStart, x
  <2>3. q.at = x[2] /\ q.rest = x[3] /\ q.token = "none" /\ ~q.unget /\ q.high = 0
      BY DEF Lexers
  <2> HIDE DEF q, m
  <2>4. c \in Bytes /\ x[2] \in LiteralAts /\ LiteralNames[x[2]] = <<c>> \o x[3]
      BY <2>1, LiteralBegins
  <2>5. Append(none, c) = <<c>> /\ <<c>> \in Seq(Bytes) BY <1>1, <2>4
  <2> HIDE DEF none
  <2>6. LiteralSoFar(q, Append(none, c)) BY Zenon, <2>3, <2>4, <2>5 DEF LiteralSoFar
  <2>7. q.at \notin BomAts
    <3>1. LiteralAts \cap BomAts = {} BY Zenon DEF LiteralAts, BomAts
    <3> QED BY Zenon, <2>3, <2>4, <3>1
  <2>8. GoesOn(l, m, none, c)
      BY <2>2, <2>3, <2>4, <2>6, <2>7, Zenon DEF GoesOn, Quiet, Partial
  <2> QED BY <2>8 DEF Steps, m, none
<1>6. CASE /\ c \notin Whitespace \cup SingleBytes \cup {Quote}
           /\ \A x \in Literals : x[1] # c
           /\ NextLabel("init", c) # {}
  <2> DEFINE n == CHOOSE n \in NextLabel("init", c) : TRUE
             q == [k EXCEPT !.at = n, !.buffer = <<c>>]
  <2>1. n \in NextLabel("init", c) BY <1>6
  <2>2. c \in Bytes BY <1>6, LabelAtByte
  <2>3. m = q BY <1>6 DEF ScanStart
  <2> HIDE DEF n
  <2>4. q.at = n /\ q.buffer = <<c>> /\ q.token = "none" /\ ~q.unget /\ q.high = 0
      BY DEF Lexers
  <2> HIDE DEF q, m
  <2>5. NumberShape(n, <<c>>) /\ n \in NumberLabels BY <2>1, <2>2, NumberBegins
  <2>6. Append(none, c) = <<c>> /\ <<c>> \in Seq(Bytes) /\ <<c>> # <<>> BY <1>1, <2>2
  <2> HIDE DEF none
  <2>7. NumberSoFar(q, Append(none, c)) BY Zenon, <2>4, <2>5, <2>6 DEF NumberSoFar
  <2>8. q.at \notin BomAts
    <3>1. NumberLabels \cap BomAts = {} BY Zenon DEF NumberLabels, BomAts
    <3> QED BY Zenon, <2>4, <2>5, <3>1
  <2>9. GoesOn(l, m, none, c)
      BY <2>2, <2>3, <2>4, <2>7, <2>8, Zenon DEF GoesOn, Quiet, Partial
  <2> QED BY <2>9 DEF Steps, m, none
<1>7. CASE /\ c \notin Whitespace \cup SingleBytes \cup {Quote}
           /\ \A x \in Literals : x[1] # c
           /\ NextLabel("init", c) = {}
  <2>1. m = Fail(k) BY <1>7 DEF ScanStart
  <2> QED BY <2>1, FailFields DEF Steps
<1> QED BY <1>2, <1>3, <1>4, <1>5, <1>6, <1>7

\* A byte of a byte order mark, or what is there instead of one.
LEMMA BomScanned ==
    ASSUME NEW l, LexerOK(l), NEW c \in 0..EOF, NEW raw, BomSoFar(l, raw)
    PROVE  Steps(l, Scan(l, c), raw, c)
<1>1. PICK k : k = Got(l, c) OBVIOUS
<1>2. /\ k \in Lexers /\ k.at = l.at /\ k.token = "none" /\ ~k.unget /\ k.high = 0
    BY <1>1, GotInString DEF BomSoFar
<1>3. l.at \in BomAts BY Zenon DEF BomSoFar, BomAts
<1>4. Scan(l, c) = ScanBom(k, c) BY Zenon, <1>1, <1>3, ScanPart DEF BomAts
<1>5. \A at : LET m == GoOn(k, at) IN m.at = at /\ m.token = "none" /\ ~m.unget /\ m.high = 0
    BY <1>2, GoOnFields
<1>6. PICK two : two = "bom 2" BY Zenon
<1>7. PICK three : three = "bom 3" BY Zenon
<1>8. /\ l.at = "bom" => raw = <<>>
      /\ l.at = two => raw = <<239>>
      /\ l.at = three => raw = <<239, 187>>
    BY Zenon, <1>6, <1>7 DEF BomSoFar
<1>9. l.at = "bom" \/ l.at = two \/ l.at = three BY Zenon, <1>3, <1>6, <1>7 DEF BomAts
<1>10. 239 \in Bytes /\ 187 \in Bytes /\ 191 \in Bytes BY DEF Bytes
<1>11. Append(<<>>, 239) = <<239>> /\ Append(<<239>>, 187) = <<239, 187>>
       /\ Append(<<239, 187>>, 191) = Bom
  <2>1. Append(<<239>>, 187) = <<239, 187>> BY <1>10, AppendedOne
  <2>2. Append(<<239, 187>>, 191) = <<239, 187, 191>>
    <3>1. PICK x \in Bytes, y \in Bytes, z \in Bytes : x = 239 /\ y = 187 /\ z = 191 BY <1>10
    <3>2. Append(<<x, y>>, z) = <<x, y, z>> BY LongerTuples
    <3> QED BY <3>1, <3>2
  <2> QED BY <2>1, <2>2 DEF Bom
<1> DEFINE second == k.at = "bom 2" /\ c = 187
           third == k.at = "bom 3" /\ c = 191
           one == GoOn(k, "bom 2")
           other == GoOn(k, "bom 3")
<1>12. ScanBom(k, c) = IF k.at = "bom" THEN IF c = 239 THEN one ELSE ScanStart(k, c)
                       ELSE CASE second -> other
                              [] third -> GoOn(k, "start")
                              [] OTHER -> Fail(k)
    BY Zenon DEF ScanBom
<1>13. /\ second \in BOOLEAN /\ third \in BOOLEAN
       /\ second <=> (l.at = two /\ c = 187)
       /\ third <=> (l.at = three /\ c = 191)
       /\ one = GoOn(k, two) /\ other = GoOn(k, three)
    BY Zenon, <1>2, <1>6, <1>7
<1>14. two # "bom" /\ three # "bom" /\ three # two BY Zenon, <1>6, <1>7
<1> HIDE DEF second, third, one, other
<1>15. CASE l.at = "bom" /\ c # 239
  <2>1. ScanBom(k, c) = ScanStart(k, c) BY Zenon, <1>2, <1>15 DEF ScanBom
  <2>2. Steps(l, ScanStart(k, c), <<>>, c) BY <1>2, StartScanned
  <2> QED BY Zenon, <1>4, <1>8, <1>15, <2>1, <2>2
<1>16. CASE l.at = "bom" /\ c = 239
  <2>1. ScanBom(k, c) = GoOn(k, two) BY <1>2, <1>12, <1>13, <1>16
  <2>2. PICK m : m = GoOn(k, two) OBVIOUS
  <2>3. m.at = two /\ m.token = "none" /\ ~m.unget /\ m.high = 0 BY Zenon, <1>5, <2>2
  <2>4. Append(raw, c) = <<239>> BY Zenon, <1>8, <1>11, <1>16
  <2>5. BomSoFar(m, Append(raw, c)) BY Zenon, <1>6, <2>3, <2>4 DEF BomSoFar
  <2>6. GoesOn(l, m, raw, c)
      BY Zenon, <1>3, <1>10, <1>16, <2>3, <2>5 DEF GoesOn, Quiet, Partial
  <2> QED BY Zenon, <1>4, <2>1, <2>2, <2>6 DEF Steps
<1>17. CASE l.at = two /\ c = 187
  <2>1. ScanBom(k, c) = GoOn(k, three)
      BY <1>2, <1>12, <1>13, <1>14, <1>17
  <2>2. PICK m : m = GoOn(k, three) OBVIOUS
  <2>3. m.at = three /\ m.token = "none" /\ ~m.unget /\ m.high = 0 BY Zenon, <1>5, <2>2
  <2>4. Append(raw, c) = <<239, 187>> BY Zenon, <1>8, <1>11, <1>17
  <2>5. BomSoFar(m, Append(raw, c)) BY Zenon, <1>7, <2>3, <2>4 DEF BomSoFar
  <2>6. GoesOn(l, m, raw, c)
      BY Zenon, <1>3, <1>10, <1>17, <2>3, <2>5 DEF GoesOn, Quiet, Partial
  <2> QED BY Zenon, <1>4, <2>1, <2>2, <2>6 DEF Steps
<1>18. CASE l.at = three /\ c = 191
  <2>1. ScanBom(k, c) = GoOn(k, "start") BY <1>2, <1>12, <1>13, <1>14, <1>18
  <2>2. PICK m : m = GoOn(k, "start") OBVIOUS
  <2>3. m.at = "start" /\ m.token = "none" /\ ~m.unget /\ m.high = 0 BY Zenon, <1>5, <2>2
  <2>4. Append(raw, c) = Bom BY Zenon, <1>8, <1>11, <1>18
  <2>5. EndsBom(l, m, raw, c)
      BY Zenon, <1>3, <1>10, <1>18, <2>3, <2>4 DEF EndsBom, Quiet, Outside
  <2> QED BY Zenon, <1>4, <2>1, <2>2, <2>5 DEF Steps
<1>19. CASE l.at # "bom" /\ ~(l.at = two /\ c = 187) /\ ~(l.at = three /\ c = 191)
  <2>1. ScanBom(k, c) = Fail(k) BY <1>2, <1>12, <1>13, <1>19
  <2>2. Fail(k).token = "parse_error" BY <1>2, FailFields
  <2> QED BY Zenon, <1>4, <2>1, <2>2 DEF Steps
<1> QED BY Zenon, <1>9, <1>15, <1>16, <1>17, <1>18, <1>19

\* What a byte does, wherever the scanner is.
LEMMA Scanned ==
    ASSUME NEW l, LexerOK(l), NEW c \in 0..EOF, NEW raw, Partial(l, raw)
    PROVE  Steps(l, Scan(l, c), raw, c)
<1>1. CASE l.at = "start" /\ l.high = 0 /\ raw = <<>>
  <2>1. PICK k : k = Got(l, c) OBVIOUS
  <2>2. /\ k \in Lexers /\ k.at = l.at /\ k.token = "none" /\ ~k.unget /\ k.high = 0
      BY <1>1, <2>1, GotInString
  <2>3. Scan(l, c) = ScanStart(k, c) BY <1>1, <2>1, ScanPart
  <2>4. Steps(l, ScanStart(k, c), <<>>, c) BY <2>2, StartScanned
  <2> QED BY <1>1, <2>3, <2>4
<1>2. CASE BomSoFar(l, raw) BY <1>2, BomScanned
<1>3. CASE LiteralSoFar(l, raw) BY <1>3, LiteralScanned
<1>4. CASE NumberSoFar(l, raw) BY <1>4, NumberScanned
<1>5. CASE StringSoFar(l, raw)
  <2>1. StringStep(Scan(l, c), raw, c) BY <1>5, StringScanned
  <2>2. PICK m : m = Scan(l, c) OBVIOUS
  <2>3. CASE m.token = "parse_error" BY Zenon, <2>2, <2>3 DEF Steps
  <2>4. CASE StringOn(m, raw, c)
    <3>1. m.at \notin BomAts
      <4>1. \E v, z : InChar(m, v, z) BY Zenon, <2>4 DEF StringOn, StringSoFar
      <4>2. m.at \in StringAts
         
              BY Zenon, <4>1 DEF InChar, Between, InPoint, InEscape, InUnit, InPair, InPairU, StringAts
      <4>3. StringAts \cap BomAts = {} BY Zenon DEF StringAts, BomAts
      <4> QED BY Zenon, <4>2, <4>3
    <3>2. GoesOn(l, m, raw, c) BY Zenon, <2>4, <3>1 DEF StringOn, GoesOn, Quiet, Partial
    <3> QED BY Zenon, <2>2, <3>2 DEF Steps
  <2>5. CASE StringDone(m, raw, c)
    <3>1. TokenOf(m.token, Append(raw, c), m.buffer) BY Zenon, <2>5 DEF StringDone, TokenOf
    <3>2. EndsToken(m, raw, c) BY Zenon, <2>5, <3>1 DEF StringDone, EndsToken, Outside
    <3> QED BY Zenon, <2>2, <3>2 DEF Steps
  <2> QED BY Zenon, <2>1, <2>2, <2>3, <2>4, <2>5 DEF StringStep
<1> QED BY Zenon, <1>1, <1>2, <1>3, <1>4, <1>5 DEF Partial

-----------------------------------------------------------------------------
(* The text so far, cut into tokens.                                       *)

LEMMA TokenKinds ==
    ASSUME NEW kind, NEW raw, NEW v, TokenOf(kind, raw, v)
    PROVE  kind \in KindSet /\ kind \notin {"none", "parse_error", "end_of_input"}
<1>1. CASE kind \in DOMAIN Structural BY <1>1 DEF Structural, KindSet
<1>2. CASE kind \in DOMAIN LiteralNames BY <1>2 DEF LiteralNames, KindSet
<1>3. CASE kind = "value_string" BY <1>3 DEF KindSet
<1>4. CASE [kind |-> kind, value |-> v] \in Numbers(raw)
  <2>1. \A x \in Numbers(raw) : x.kind \in {"value_float", "value_integer", "value_unsigned"}
      BY DEF Numbers
  <2> QED BY <1>4, <2>1 DEF KindSet
<1> QED BY <1>1, <1>2, <1>3, <1>4 DEF TokenOf

LEMMA SliceKept ==
    ASSUME NEW t \in Seq(Bytes), NEW c \in Bytes
    PROVE  /\ Append(t, c) \in Seq(Bytes) /\ Len(Append(t, c)) = Len(t) + 1
           /\ \A a, b \in 0..Len(t) : SubSeq(Append(t, c), a + 1, b) = SubSeq(t, a + 1, b)
           /\ \A a \in 0..Len(t) :
                 SubSeq(Append(t, c), a + 1, Len(t) + 1) = Append(SubSeq(t, a + 1, Len(t)), c)
           /\ \A i \in 1..Len(t) : Append(t, c)[i] = t[i]
           /\ Append(t, c)[Len(t) + 1] = c
<1>1. t \o <<c>> = Append(t, c) /\ Append(t, c) \in Seq(Bytes) /\ <<c>> \in Seq(Bytes)
      /\ Len(Append(t, c)) = Len(t) + 1
    BY ConcatOne
<1>2. \A a, b \in 0..Len(t) : SubSeq(t \o <<c>>, a + 1, b) = SubSeq(t, a + 1, b)
    BY Zenon, <1>1, PartsOfConcat
<1>3. (\A i \in 1..Len(t) : Append(t, c)[i] = t[i]) /\ Append(t, c)[Len(t) + 1] = c OBVIOUS
<1>4. ASSUME NEW a \in 0..Len(t)
      PROVE  SubSeq(Append(t, c), a + 1, Len(t) + 1) = Append(SubSeq(t, a + 1, Len(t)), c)
  <2> DEFINE u == Append(t, c)
             x == SubSeq(u, a + 1, Len(t) + 1)
             z == SubSeq(t, a + 1, Len(t))
             y == Append(z, c)
  <2>1. PICK n \in Nat : n = Len(t) OBVIOUS
  <2>2. u \in Seq(Bytes) /\ Len(u) = n + 1 /\ (\A i \in 1..n : u[i] = t[i]) /\ u[n + 1] = c
      BY <1>1, <1>3, <2>1
  <2> HIDE DEF u
  <2>3. x \in Seq(Bytes) /\ Len(x) = n + 1 - a /\ \A i \in 1..(n + 1 - a) : x[i] = u[a + i]
      BY <2>1, <2>2
  <2>4. z \in Seq(Bytes) /\ Len(z) = n - a /\ \A i \in 1..(n - a) : z[i] = t[a + i] BY <2>1
  <2> HIDE DEF x, z
  <2>5. y \in Seq(Bytes) /\ Len(y) = n - a + 1 /\ y[n - a + 1] = c
        /\ \A i \in 1..(n - a) : y[i] = z[i]
    <3>1. PICK d \in Nat : d = Len(z) /\ d = n - a BY <2>4
    <3>2. y \in Seq(Bytes) /\ Len(y) = d + 1 /\ y[d + 1] = c /\ \A i \in 1..d : y[i] = z[i]
        BY <2>4, <3>1
    <3> QED BY <3>1, <3>2
  <2> HIDE DEF y
  <2>6. ASSUME NEW i \in 1..Len(x) PROVE x[i] = y[i]
    <3>1. i \in 1..(n + 1 - a) BY <2>3
    <3>2. CASE i <= n - a
      <4>1. i \in 1..(n - a) /\ a + i \in 1..n BY <2>1, <3>1, <3>2
      <4> QED BY <2>2, <2>3, <2>4, <2>5, <3>1, <4>1
    <3>3. CASE i > n - a
      <4>1. i = n - a + 1 /\ a + i = n + 1 BY <2>1, <3>1, <3>3
      <4> QED BY <2>2, <2>3, <2>5, <3>1, <4>1
    <3> QED BY <2>1, <3>1, <3>2, <3>3
  <2>7. Len(x) = Len(y) BY <2>1, <2>3, <2>5
  <2>8. x = y BY <2>3, <2>5, <2>6, <2>7, SeqEqual
  <2> QED BY <2>1, <2>8 DEF x, y, z, u
<1> QED BY <1>1, <1>2, <1>3, <1>4

TokenList == Seq(TokenSet)

LEMMA TokenTypes ==
    ASSUME NEW tokens \in TokenList
    PROVE  /\ Len(tokens) \in Nat
           /\ \A j \in 1..Len(tokens) :
                 /\ tokens[j].kind \in KindSet /\ tokens[j].first \in Nat /\ tokens[j].last \in Nat
                 /\ tokens[j].value \in Seq(Bytes)
<1>1. \A j \in 1..Len(tokens) : tokens[j] \in TokenSet BY DEF TokenList
<1>2. \A x \in TokenSet : /\ x.kind \in KindSet /\ x.first \in Nat /\ x.last \in Nat
                         /\ x.value \in Seq(Bytes)
    BY DEF TokenSet, Bytes
<1>3. Len(tokens) \in Nat BY DEF TokenList
<1> QED BY <1>1, <1>2, <1>3

LEMMA LexedLonger ==
    ASSUME NEW t \in Seq(Bytes), NEW c \in Bytes, NEW from \in Nat, from >= 1, NEW k \in 0..Len(t),
           NEW tokens \in TokenList, Lexed(t, from, k, tokens)
    PROVE  Lexed(Append(t, c), from, k, tokens)
<1> DEFINE u == Append(t, c)
<1>1. /\ \A a, b \in 0..Len(t) : SubSeq(u, a + 1, b) = SubSeq(t, a + 1, b)
      /\ \A i \in 1..Len(t) : u[i] = t[i]
    BY SliceKept
<1> HIDE DEF u
<1>2. ASSUME NEW j \in 1..Len(tokens)
      PROVE  LET token == tokens[j]
             IN  /\ from <= token.first /\ token.first <= token.last /\ token.last <= k
                 /\ j > 1 => tokens[j - 1].last < token.first
                 /\ TokenOf(token.kind, SubSeq(u, token.first, token.last), token.value)
  <2>1. PICK first \in Nat, last \in Nat : first = tokens[j].first /\ last = tokens[j].last
      BY TokenTypes
  <2>2. /\ from <= first /\ first <= last /\ last <= k
        /\ j > 1 => tokens[j - 1].last < first
        /\ TokenOf(tokens[j].kind, SubSeq(t, first, last), tokens[j].value)
      BY <2>1 DEF Lexed
  <2>3. PICK a \in 0..Len(t) : first = a + 1
    <3>1. first - 1 \in 0..Len(t) /\ first = (first - 1) + 1 BY <2>2
    <3> QED BY <3>1
  <2>4. last \in 0..Len(t) BY <2>2
  <2>5. SubSeq(u, first, last) = SubSeq(t, first, last) BY <1>1, <2>3, <2>4
  <2> QED BY <2>1, <2>2, <2>5
<1>3. ASSUME NEW x \in from..k
      PROVE  u[x] \in Spaces \/ \E j \in 1..Len(tokens) : tokens[j].first <= x /\ x <= tokens[j].last
  <2>1. x \in 1..Len(t) OBVIOUS
  <2>2. t[x] \in Spaces \/ \E j \in 1..Len(tokens) : tokens[j].first <= x /\ x <= tokens[j].last
      BY DEF Lexed
  <2> QED BY <1>1, <2>1, <2>2
<1> QED BY <1>2, <1>3 DEF Lexed, u

LEMMA LexedSpace ==
    ASSUME NEW t, NEW from \in Nat, NEW k \in Nat, NEW n \in Nat, n = k + 1,
           NEW tokens \in TokenList, Lexed(t, from, k, tokens), t[n] \in Spaces
    PROVE  Lexed(t, from, n, tokens)
<1>1. ASSUME NEW j \in 1..Len(tokens)
      PROVE  LET token == tokens[j]
             IN  /\ from <= token.first /\ token.first <= token.last /\ token.last <= n
                 /\ j > 1 => tokens[j - 1].last < token.first
                 /\ TokenOf(token.kind, SubSeq(t, token.first, token.last), token.value)
  <2>1. PICK first \in Nat, last \in Nat : first = tokens[j].first /\ last = tokens[j].last
      BY TokenTypes
  <2>2. /\ from <= first /\ first <= last /\ last <= k
        /\ j > 1 => tokens[j - 1].last < first
        /\ TokenOf(tokens[j].kind, SubSeq(t, first, last), tokens[j].value)
      BY <2>1 DEF Lexed
  <2>3. last <= n BY <2>2
  <2> QED BY <2>1, <2>2, <2>3
<1>2. ASSUME NEW x \in from..n
      PROVE  t[x] \in Spaces \/ \E j \in 1..Len(tokens) : tokens[j].first <= x /\ x <= tokens[j].last
  <2>1. x \in from..k \/ x = n OBVIOUS
  <2> QED BY <2>1 DEF Lexed
<1> QED BY <1>1, <1>2 DEF Lexed

NewToken(kind, first, last, v) == [kind |-> kind, first |-> first, last |-> last, value |-> v]

LEMMA LexedToken ==
    ASSUME NEW t, NEW from \in Nat, NEW k \in Nat, NEW n \in Nat, from <= k + 1, k < n,
           NEW tokens \in TokenList, Lexed(t, from, k, tokens),
           NEW kind \in KindSet, NEW v \in Seq(Bytes), TokenOf(kind, SubSeq(t, k + 1, n), v)
    PROVE  LET more == Append(tokens, NewToken(kind, k + 1, n, v))
           IN  more \in TokenList /\ Lexed(t, from, n, more)
<1> DEFINE w == NewToken(kind, k + 1, n, v)
           more == Append(tokens, w)
<1>1. w \in TokenSet BY DEF NewToken, TokenSet, Bytes
<1>2. w.kind = kind /\ w.first = k + 1 /\ w.last = n /\ w.value = v BY DEF NewToken
<1> HIDE DEF w
<1>3. more \in TokenList BY <1>1 DEF TokenList
<1>4. PICK h \in Nat : h = Len(tokens) BY DEF TokenList
<1>5. Len(more) = h + 1 /\ more[h + 1] = w /\ \A j \in 1..h : more[j] = tokens[j]
    BY <1>1, <1>4 DEF TokenList
<1> HIDE DEF more
<1>6. ASSUME NEW j \in 1..h
      PROVE  /\ from <= tokens[j].first /\ tokens[j].first <= tokens[j].last /\ tokens[j].last <= k
             /\ tokens[j].last \in Nat /\ tokens[j].first \in Nat
             /\ j > 1 => tokens[j - 1].last < tokens[j].first
             /\ TokenOf(tokens[j].kind, SubSeq(t, tokens[j].first, tokens[j].last), tokens[j].value)
  <2>1. tokens[j].last \in Nat /\ tokens[j].first \in Nat BY <1>4, TokenTypes
  <2> QED BY <1>4, <2>1 DEF Lexed
<1>7. ASSUME NEW j \in 1..Len(more)
      PROVE  LET token == more[j]
             IN  /\ from <= token.first /\ token.first <= token.last /\ token.last <= n
                 /\ j > 1 => more[j - 1].last < token.first
                 /\ TokenOf(token.kind, SubSeq(t, token.first, token.last), token.value)
  <2>1. CASE j \in 1..h
    <3>1. more[j] = tokens[j] /\ (j > 1 => j - 1 \in 1..h /\ more[j - 1] = tokens[j - 1])
        BY <1>5, <2>1
    <3>2. tokens[j].last <= n BY <1>6, <2>1
    <3> QED BY <1>6, <2>1, <3>1, <3>2
  <2>2. CASE j = h + 1
    <3>1. more[j] = w BY <1>5, <2>2
    <3>2. j > 1 => more[j - 1].last < k + 1
      <4>1. SUFFICES ASSUME j > 1 PROVE more[j - 1].last < k + 1 OBVIOUS
      <4>2. PICK i \in 1..h : i = j - 1 BY <1>4, <2>2, <4>1
      <4>3. more[i] = tokens[i] /\ tokens[i].last \in Nat /\ tokens[i].last <= k BY <1>5, <1>6
      <4> QED BY <4>2, <4>3
    <3>3. from <= k + 1 /\ k + 1 <= n OBVIOUS
    <3> QED BY <1>2, <3>1, <3>2, <3>3
  <2> QED BY <1>4, <1>5, <2>1, <2>2
<1>8. ASSUME NEW x \in from..n
      PROVE  t[x] \in Spaces \/ \E j \in 1..Len(more) : more[j].first <= x /\ x <= more[j].last
  <2>1. CASE x \in from..k
    <3>1. t[x] \in Spaces \/ \E j \in 1..h : tokens[j].first <= x /\ x <= tokens[j].last
        BY <1>4, <2>1 DEF Lexed
    <3>2. \A j \in 1..h : j \in 1..Len(more) BY <1>4, <1>5
    <3> QED BY <1>5, <3>1, <3>2
  <2>2. CASE x > k
    <3>1. k + 1 <= x /\ x <= n BY <2>2
    <3>2. h + 1 \in 1..Len(more) BY <1>4, <1>5
    <3> QED BY <1>2, <1>5, <3>1, <3>2
  <2> QED BY <2>1, <2>2
<1>9. Lexed(t, from, n, more) BY <1>7, <1>8 DEF Lexed
<1> QED BY <1>3, <1>9 DEF more, w

-----------------------------------------------------------------------------
(* One more byte of the text.                                              *)

\* The first k bytes of t are these tokens; what follows is begun.
CutUp(t, from, k, tokens, l) ==
    /\ t \in Seq(Bytes) /\ k \in 0..Len(t) /\ from \in {1, 4} /\ from <= k + 1
    /\ from = 4 => Len(t) > 2 /\ SubSeq(t, 1, 3) = Bom
    /\ tokens \in TokenList /\ Lexed(t, from, k, tokens)
    /\ Partial(l, SubSeq(t, k + 1, Len(t)))
    /\ l.at \in BomAts => k = 0 /\ from = 1 /\ tokens = <<>>

Extended(t, c) == IF c = EOF THEN t ELSE Append(t, c)
TextAfter(m, t, c) == IF m.unget THEN t ELSE Extended(t, c)

LEMMA OutsideIsPartial ==
    ASSUME NEW t \in Seq(Bytes), NEW n \in Nat, n = Len(t), NEW m, Outside(m)
    PROVE  Partial(m, SubSeq(t, n + 1, n)) /\ m.at \notin BomAts
<1>1. SubSeq(t, n + 1, n) = <<>> OBVIOUS
<1>2. m.at \notin BomAts BY Zenon DEF Outside, BomAts
<1> QED BY <1>1, <1>2 DEF Outside, Partial

LEMMA Starting ==
    ASSUME NEW l, l.at = "bom", l.high = 0
    PROVE  CutUp(<<>>, 1, 0, <<>>, l)
<1> DEFINE none == <<>>
<1>1. none \in Seq(Bytes) /\ Len(none) = 0 /\ SubSeq(none, 0 + 1, Len(none)) = none OBVIOUS
<1>2. none \in TokenList BY DEF TokenList
<1>3. Lexed(none, 1, 0, none)
  <2>1. 1..Len(none) = {} /\ 1..0 = {} OBVIOUS
  <2> QED BY Zenon, <2>1 DEF Lexed
<1>4. Partial(l, none) BY Zenon DEF Partial, BomSoFar
<1> HIDE DEF none
<1>5. 0 \in 0..Len(none) /\ 1 \in {1, 4} /\ 1 <= 0 + 1 /\ 1 # 4 BY <1>1
<1>6. CutUp(none, 1, 0, none, l)
  <2>1. PICK zero \in Nat : zero = 0 OBVIOUS
  <2>2. PICK one \in Nat : one = 1 OBVIOUS
  <2>3. /\ zero \in 0..Len(none) /\ one \in {1, 4} /\ one <= zero + 1 /\ one # 4
      BY <1>5, <2>1, <2>2
  <2>4. Partial(l, SubSeq(none, zero + 1, Len(none))) BY Zenon, <1>1, <1>4, <2>1
  <2>5. CutUp(none, one, zero, none, l) BY <1>1, <1>2, <1>3, <2>1, <2>2, <2>3, <2>4 DEF CutUp
  <2> QED BY <2>1, <2>2, <2>5
<1> QED BY <1>6 DEF none

\* Whatever a byte does, its token aside.
LEMMA CutFurther ==
    ASSUME NEW l, LexerOK(l), NEW c \in 0..EOF, NEW m, m = Scan(l, c), m.token # "parse_error",
           NEW t, NEW from, NEW k, NEW tokens, CutUp(t, from, k, tokens, l)
    PROVE  LET u == TextAfter(m, t, c)
           IN  \/ m.token = "none" /\ ~m.unget /\ \E f, h : CutUp(u, f, h, tokens, m)
               \/ m.token = "end_of_input" /\ ~m.unget /\ k = Len(t) /\ c \in {0, EOF}
               \/ /\ m.token \notin {"none", "parse_error", "end_of_input"}
                  /\ m.unget => m.current = c
                  /\ \E first \in Nat, last \in Nat : \E h :
                        LET w == NewToken(m.token, first, last, m.buffer)
                        IN  CutUp(u, from, h, Append(tokens, w), m)
<1>1. /\ t \in Seq(Bytes) /\ k \in 0..Len(t) /\ from \in {1, 4} /\ from <= k + 1
      /\ from = 4 => Len(t) > 2 /\ SubSeq(t, 1, 3) = Bom
      /\ tokens \in TokenList /\ Lexed(t, from, k, tokens)
      /\ Partial(l, SubSeq(t, k + 1, Len(t)))
      /\ l.at \in BomAts => k = 0 /\ from = 1 /\ tokens = <<>>
    BY DEF CutUp
<1>2. PICK n \in Nat : n = Len(t) BY <1>1
<1>3. PICK raw : raw = SubSeq(t, k + 1, n) OBVIOUS
<1>4. /\ raw \in Seq(Bytes) /\ Len(raw) = n - k /\ k \in Nat /\ k <= n /\ from \in Nat
      /\ from >= 1 /\ (raw = <<>> <=> k = n)
  <2>1. k \in Nat /\ k <= n /\ from \in Nat /\ from >= 1 BY <1>1, <1>2
  <2>2. raw \in Seq(Bytes) /\ Len(raw) = n - k BY <1>1, <1>2, <1>3, <2>1
  <2>3. raw = <<>> <=> Len(raw) = 0 BY <2>2
  <2> QED BY <2>1, <2>2, <2>3
<1>5. Steps(l, m, raw, c) BY <1>1, <1>2, <1>3, Scanned
<1>6. PICK u : u = TextAfter(m, t, c) OBVIOUS
<1>7. m.buffer \in Seq(Bytes)
  <2>1. LexerOK(m) BY ScanOK
  <2> QED BY <2>1 DEF LexerOK, Lexers
<1>8. ASSUME c \in Bytes, ~m.unget
      PROVE  /\ u = Append(t, c) /\ u \in Seq(Bytes) /\ Len(u) = n + 1 /\ u[n + 1] = c
             /\ SubSeq(u, k + 1, n + 1) = Append(raw, c)
             /\ Lexed(u, from, k, tokens)
             /\ from = 4 => Len(u) > 2 /\ SubSeq(u, 1, 3) = Bom
  <2>1. c # EOF BY <1>8 DEF Bytes, EOF
  <2>2. u = Append(t, c) BY <1>6, <1>8, <2>1 DEF TextAfter, Extended
  <2>3. /\ Append(t, c) \in Seq(Bytes) /\ Len(Append(t, c)) = n + 1
        /\ \A a, b \in 0..n : SubSeq(Append(t, c), a + 1, b) = SubSeq(t, a + 1, b)
        /\ \A a \in 0..n : SubSeq(Append(t, c), a + 1, n + 1) = Append(SubSeq(t, a + 1, n), c)
        /\ Append(t, c)[n + 1] = c
      BY <1>1, <1>2, <1>8, SliceKept
  <2>4. Lexed(Append(t, c), from, k, tokens) BY <1>1, <1>4, <1>8, LexedLonger
  <2>5. from = 4 => Len(u) > 2 /\ SubSeq(u, 1, 3) = Bom
    <3>1. SUFFICES ASSUME from = 4 PROVE Len(u) > 2 /\ SubSeq(u, 1, 3) = Bom OBVIOUS
    <3>2. n > 2 /\ SubSeq(t, 1, 3) = Bom BY <1>1, <1>2, <3>1
    <3>3. PICK a \in 0..n, b \in 0..n : a = 0 /\ b = 3 BY <3>2
    <3>4. SubSeq(u, a + 1, b) = SubSeq(t, a + 1, b) BY <2>2, <2>3
    <3>5. a + 1 = 1 BY <3>3
    <3> QED BY <2>2, <2>3, <3>2, <3>3, <3>4, <3>5
  <2> QED BY <1>1, <1>2, <1>3, <2>2, <2>3, <2>4, <2>5
<1>9. CASE GoesOn(l, m, raw, c)
  <2>1. /\ c \in Bytes /\ m.token = "none" /\ ~m.unget /\ Partial(m, Append(raw, c))
        /\ m.at \in BomAts => l.at \in BomAts
      BY <1>9, Zenon DEF GoesOn, Quiet
  <2>2. k \in 0..Len(u) BY <1>4, <1>8, <2>1
  <2>3. Partial(m, SubSeq(u, k + 1, Len(u))) BY <1>8, <2>1
  <2>4. CutUp(u, from, k, tokens, m) BY <1>1, <1>8, <2>1, <2>2, <2>3 DEF CutUp
  <2> QED BY Zenon, <1>6, <2>1, <2>4
<1>10. CASE IsSpace(m, raw, c)
  <2>1. c \in Spaces /\ m.token = "none" /\ ~m.unget /\ Outside(m) /\ raw = <<>>
      BY <1>10 DEF IsSpace, Quiet
  <2>2. c \in Bytes BY <2>1 DEF Spaces, Bytes
  <2>3. PICK h \in Nat : h = n + 1 OBVIOUS
  <2>4. h = k + 1 /\ h = Len(u) /\ u[h] \in Spaces BY <1>4, <1>8, <2>1, <2>2, <2>3
  <2>5. Lexed(u, from, h, tokens) BY <1>1, <1>4, <1>8, <2>1, <2>2, <2>4, LexedSpace
  <2>6. Partial(m, SubSeq(u, h + 1, Len(u))) /\ m.at \notin BomAts
      BY <1>8, <2>1, <2>2, <2>4, OutsideIsPartial
  <2>7. h \in 0..Len(u) /\ from <= h + 1 BY <1>1, <1>4, <2>4
  <2>8. CutUp(u, from, h, tokens, m) BY <1>1, <1>8, <2>1, <2>2, <2>5, <2>6, <2>7 DEF CutUp
  <2> QED BY Zenon, <1>6, <2>1, <2>8
<1>11. CASE EndsBom(l, m, raw, c)
  <2>1. /\ c \in Bytes /\ l.at \in BomAts /\ m.token = "none" /\ ~m.unget /\ Outside(m)
        /\ Append(raw, c) = Bom
      BY <1>11 DEF EndsBom, Quiet
  <2>2. k = 0 /\ from = 1 /\ tokens = <<>> BY <1>1, <2>1
  <2>3. Len(u) = 3 /\ SubSeq(u, 1, 3) = Bom
    <3>1. Len(Append(raw, c)) = Len(raw) + 1 BY <1>4
    <3>2. Len(Bom) = 3 BY DEF Bom
    <3>3. Len(u) = n + 1 /\ SubSeq(u, k + 1, n + 1) = Bom BY <1>8, <2>1
    <3>4. Len(raw) + 1 = 3 BY <2>1, <3>1, <3>2
    <3>5. n = 2 BY <1>4, <2>2, <3>4
    <3> QED BY <2>2, <3>3, <3>5
  <2>4. PICK h \in Nat : h = 3 OBVIOUS
  <2>5. PICK f \in Nat : f = 4 OBVIOUS
  <2>6. Lexed(u, f, h, tokens)
    <3>1. 1..Len(tokens) = {} /\ f..h = {} BY <2>2, <2>4, <2>5
    <3> QED BY <3>1, Zenon DEF Lexed
  <2>7. Partial(m, SubSeq(u, h + 1, Len(u))) /\ m.at \notin BomAts
      BY <1>8, <2>1, <2>3, <2>4, OutsideIsPartial
  <2>8. h \in 0..Len(u) /\ f <= h + 1 /\ f \in {1, 4} /\ Len(u) > 2 BY <2>3, <2>4, <2>5
  <2>9. CutUp(u, f, h, tokens, m) BY <1>1, <1>8, <2>1, <2>3, <2>6, <2>7, <2>8 DEF CutUp
  <2> QED BY Zenon, <1>6, <2>1, <2>9
<1>12. CASE EndsToken(m, raw, c)
  <2>1. c \in Bytes /\ ~m.unget /\ Outside(m) /\ TokenOf(m.token, Append(raw, c), m.buffer)
      BY <1>12 DEF EndsToken
  <2>2. m.token \in KindSet /\ m.token \notin {"none", "parse_error", "end_of_input"}
      BY <2>1, TokenKinds
  <2>3. PICK h \in Nat : h = n + 1 OBVIOUS
  <2>4. h = Len(u) /\ k < h /\ TokenOf(m.token, SubSeq(u, k + 1, h), m.buffer)
    <3>1. Len(u) = n + 1 /\ SubSeq(u, k + 1, n + 1) = Append(raw, c) BY <1>8, <2>1
    <3>2. k < h BY <1>4, <2>3
    <3> QED BY <2>1, <2>3, <3>1, <3>2
  <2> DEFINE more == Append(tokens, NewToken(m.token, k + 1, h, m.buffer))
  <2>5. more \in TokenList /\ Lexed(u, from, h, more)
      BY <1>1, <1>4, <1>7, <1>8, <2>1, <2>2, <2>4, LexedToken
  <2> HIDE DEF more
  <2>6. Partial(m, SubSeq(u, h + 1, Len(u))) /\ m.at \notin BomAts
      BY <1>8, <2>1, <2>4, OutsideIsPartial
  <2>7. h \in 0..Len(u) /\ from <= h + 1 /\ k + 1 \in Nat BY <1>1, <1>4, <2>4
  <2>8. CutUp(u, from, h, more, m) BY <1>1, <1>8, <2>1, <2>5, <2>6, <2>7 DEF CutUp
  <2> QED BY Zenon, <1>6, <2>1, <2>2, <2>7, <2>8 DEF more
<1>13. CASE EndedToken(m, raw, c)
  <2>1. m.unget /\ m.current = c /\ Outside(m) /\ raw # <<>> /\ TokenOf(m.token, raw, m.buffer)
      BY <1>13 DEF EndedToken
  <2>2. m.token \in KindSet /\ m.token \notin {"none", "parse_error", "end_of_input"}
      BY <2>1, TokenKinds
  <2>3. u = t BY <1>6, <2>1 DEF TextAfter
  <2>4. k < n /\ TokenOf(m.token, SubSeq(u, k + 1, n), m.buffer) BY <1>3, <1>4, <2>1, <2>3
  <2> DEFINE more == Append(tokens, NewToken(m.token, k + 1, n, m.buffer))
  <2>5. more \in TokenList /\ Lexed(u, from, n, more)
      BY <1>1, <1>4, <1>7, <2>2, <2>3, <2>4, LexedToken
  <2> HIDE DEF more
  <2>6. Partial(m, SubSeq(u, n + 1, Len(u))) /\ m.at \notin BomAts
      BY <1>1, <1>2, <2>1, <2>3, OutsideIsPartial
  <2>7. n \in 0..Len(u) /\ from <= n + 1 /\ k + 1 \in Nat BY <1>1, <1>2, <1>4, <2>3
  <2>8. CutUp(u, from, n, more, m) BY <1>1, <2>3, <2>5, <2>6, <2>7 DEF CutUp
  <2> QED BY Zenon, <1>6, <2>1, <2>2, <2>7, <2>8 DEF more
<1>14. CASE EndsAll(m, raw, c) BY <1>2, <1>4, <1>14 DEF EndsAll
<1> QED BY <1>5, <1>9, <1>10, <1>11, <1>12, <1>13, <1>14 DEF Steps

-----------------------------------------------------------------------------
(* The tree so far: a span for each node, which ends at 0 while the node   *)
(* is open.                                                                *)

SpanSet == [first : Nat, last : Nat, members : Seq(Nat)]

\* Members come after what holds them, and only the last one of an open node is open.
Spanned(T, S, n) ==
    /\ T \in TokenList /\ S \in Seq(SpanSet) /\ Len(S) = n
    /\ \A i \in 1..n :
          /\ S[i].first \in 1..Len(T) /\ S[i].last \in 0..Len(T)
          /\ \A k \in 1..Len(S[i].members) :
                /\ S[i].members[k] \in (i + 1)..n
                /\ S[S[i].members[k]].last = 0 => k = Len(S[i].members) /\ S[i].last = 0

MemberIn(T, kind, S, i, k) ==
    LET begin == FirstOf(S, i, k)
        first == S[S[i].members[k]].first
    IN  /\ k > 1 => T[begin - 1].kind = "value_separator"
        /\ kind = "array" => first = begin
        /\ kind = "object" =>
              /\ first = begin + 2
              /\ T[begin].kind = "value_string"
              /\ T[begin + 1].kind = "name_separator"

LEMMA MembersAre ==
    ASSUME NEW T, NEW kind, NEW S, NEW i
    PROVE  MembersIn(T, kind, S, i) <=> \A k \in 1..Len(S[i].members) : MemberIn(T, kind, S, i, k)
BY Zenon DEF MembersIn, MemberIn

\* Of the members of one name the last one; extra are names that have no member yet.
LastOnes(items, T, S, members) ==
    \A k \in 1..Len(members) :
        (\A j \in (k + 1)..Len(members) : NameOf(T, S, members[j]) # NameOf(T, S, members[k]))
            => items[NameOf(T, S, members[k])] = members[k]
NamesIn(T, S, members) == {NameOf(T, S, members[k]) : k \in 1..Len(members)}

Filled(T, S, i, node, extra) ==
    /\ T[S[i].first].kind = Opening[node.kind]
    /\ \A k \in 1..Len(S[i].members) : MemberIn(T, node.kind, S, i, k)
    /\ IF node.kind = "array" THEN node.items = S[i].members
       ELSE /\ DOMAIN node.items = NamesIn(T, S, S[i].members) \cup extra
            /\ LastOnes(node.items, T, S, S[i].members)
EndOfNode(T, S, i, node) ==
    /\ S[i].last = Upto(S, i, Len(S[i].members)) + 1
    /\ T[S[i].last].kind = Closing[node.kind]

NodeIs(T, S, i, node, extra) ==
    IF node.kind \in Containers
    THEN Filled(T, S, i, node, extra) /\ (S[i].last # 0 => EndOfNode(T, S, i, node))
    ELSE S[i].last = S[i].first /\ ScalarIs(T[S[i].first], node)

\* More tokens, more spans, and some that are closed now.
Later(T, S, T2, S2) ==
    /\ Len(T2) \in Nat /\ Len(T2) >= Len(T) /\ \A j \in 1..Len(T) : T2[j] = T[j]
    /\ \A j \in 1..Len(S) :
          S2[j].first = S[j].first /\ (S[j].last # 0 => S2[j].last = S[j].last)

\* All that the node holds is complete.
AllClosed(S, i) == \A k \in 1..Len(S[i].members) : S[S[i].members[k]].last # 0

LEMMA SpanTypes ==
    ASSUME NEW T, NEW S, NEW n \in Nat, Spanned(T, S, n)
    PROVE  /\ Len(T) \in Nat /\ Len(S) = n
           /\ \A i \in 1..n :
                 /\ S[i].first \in 1..Len(T) /\ S[i].last \in 0..Len(T)
                 /\ S[i].members \in Seq(Nat) /\ Len(S[i].members) \in Nat
                 /\ \A k \in 1..Len(S[i].members) : S[i].members[k] \in 1..n
<1>1. /\ T \in TokenList /\ S \in Seq(SpanSet) /\ Len(S) = n
      /\ \A i \in 1..n :
            /\ S[i].first \in 1..Len(T) /\ S[i].last \in 0..Len(T)
            /\ \A k \in 1..Len(S[i].members) : S[i].members[k] \in (i + 1)..n
    BY DEF Spanned
<1>2. Len(T) \in Nat BY <1>1 DEF TokenList
<1>3. \A s \in SpanSet : s.members \in Seq(Nat) BY DEF SpanSet
<1>4. \A i \in 1..n : S[i] \in SpanSet BY <1>1
<1>5. ASSUME NEW i \in 1..n
      PROVE  /\ S[i].members \in Seq(Nat) /\ Len(S[i].members) \in Nat
             /\ \A k \in 1..Len(S[i].members) : S[i].members[k] \in 1..n
  <2>1. S[i].members \in Seq(Nat) BY <1>3, <1>4
  <2>2. \A x \in (i + 1)..n : x \in 1..n OBVIOUS
  <2> QED BY <1>1, <2>1, <2>2
<1> QED BY <1>1, <1>2, <1>5

SameUpto(S, S2, i, k) ==
    k > 0 => S2[i].members[k] = S[i].members[k] /\ S[S[i].members[k]].last # 0

LEMMA UptoKept ==
    ASSUME NEW T, NEW S, NEW T2, NEW S2, NEW n \in Nat, Spanned(T, S, n), Later(T, S, T2, S2),
           NEW i \in 1..n, NEW k \in 0..Len(S[i].members), SameUpto(S, S2, i, k)
    PROVE  Upto(S2, i, k) = Upto(S, i, k) /\ Upto(S, i, k) \in 1..Len(T)
<1>1. S[i].first \in 1..Len(T) /\ S2[i].first = S[i].first /\ Len(T) \in Nat
    BY SpanTypes DEF Later
<1>2. CASE k = 0 BY <1>1, <1>2 DEF Upto
<1>3. CASE k > 0
  <2>1. k \in 1..Len(S[i].members) BY <1>3, SpanTypes
  <2>2. PICK m \in 1..n : m = S[i].members[k] BY <2>1, SpanTypes
  <2>3. S[m].last # 0 /\ S2[i].members[k] = m BY <1>3, <2>2 DEF SameUpto
  <2>4. S[m].last \in 0..Len(T) /\ Len(S) = n BY <2>2, SpanTypes
  <2>5. S2[m].last = S[m].last BY <2>2, <2>3, <2>4 DEF Later
  <2>6. S[m].last \in 1..Len(T) BY <1>1, <2>3, <2>4
  <2>7. k # 0 BY <1>3
  <2> QED BY <1>3, <2>2, <2>3, <2>5, <2>6, <2>7 DEF Upto
<1> QED BY <1>2, <1>3, SpanTypes

\* A member and the one before it are those of before.
SameMember(S, S2, i, k) ==
    /\ S2[i].members[k] = S[i].members[k]
    /\ k > 1 => S2[i].members[k - 1] = S[i].members[k - 1]

SameName(T, S, T2, S2, i, k) ==
    NameOf(T2, S2, S2[i].members[k]) = NameOf(T, S, S[i].members[k])

LEMMA MemberKept ==
    ASSUME NEW T, NEW S, NEW T2, NEW S2, NEW n \in Nat, Spanned(T, S, n), Later(T, S, T2, S2),
           NEW i \in 1..n, NEW k \in 1..Len(S[i].members), SameMember(S, S2, i, k),
           NEW kind \in Containers, MemberIn(T, kind, S, i, k)
    PROVE  /\ MemberIn(T2, kind, S2, i, k)
           /\ kind = "object" => SameName(T, S, T2, S2, i, k)
<1>1. /\ S2[i].members[k] = S[i].members[k]
      /\ k > 1 => S2[i].members[k - 1] = S[i].members[k - 1]
    BY DEF SameMember
<1>2. Len(T) \in Nat /\ Len(S) = n /\ Len(S[i].members) \in Nat BY SpanTypes
<1>3. PICK h \in 0..Len(S[i].members) : h = k - 1 /\ k \in Nat /\ h \in Nat
  <2>1. k - 1 \in 0..Len(S[i].members) BY <1>2
  <2> QED BY <1>2, <2>1
<1>4. SameUpto(S, S2, i, h)
  <2>1. SUFFICES ASSUME h > 0
                 PROVE  S2[i].members[h] = S[i].members[h] /\ S[S[i].members[h]].last # 0
      BY DEF SameUpto
  <2>2. h \in 1..Len(S[i].members) /\ h # Len(S[i].members) /\ k > 1 BY <1>2, <1>3, <2>1
  <2>3. S[S[i].members[h]].last # 0 BY <2>2 DEF Spanned
  <2> QED BY <1>1, <1>3, <2>2, <2>3
<1>5. Upto(S2, i, h) = Upto(S, i, h) /\ Upto(S, i, h) \in 1..Len(T) BY Zenon, <1>4, UptoKept
<1>6. PICK begin \in Nat : begin = FirstOf(S, i, k) /\ begin > 1 /\ FirstOf(S2, i, k) = begin
  <2>1. PICK u \in Nat : u = Upto(S, i, h) /\ u > 0 BY <1>2, <1>5
  <2>2. FirstOf(S, i, k) = u + (IF k = 1 THEN 1 ELSE 2) BY <1>3, <2>1 DEF FirstOf
  <2>3. FirstOf(S2, i, k) = u + (IF k = 1 THEN 1 ELSE 2) BY <1>3, <1>5, <2>1 DEF FirstOf
  <2> QED BY <2>1, <2>2, <2>3
<1>7. PICK m \in 1..n : m = S[i].members[k] /\ S2[i].members[k] = m BY <1>1, SpanTypes
<1>8. PICK first \in 1..Len(T) : first = S[m].first /\ S2[m].first = first
    BY <1>2, SpanTypes DEF Later
<1>9. /\ k > 1 => T[begin - 1].kind = "value_separator"
      /\ kind = "array" => first = begin
      /\ kind = "object" => /\ first = begin + 2
                            /\ T[begin].kind = "value_string"
                            /\ T[begin + 1].kind = "name_separator"
    BY <1>6, <1>7, <1>8 DEF MemberIn
<1>10. kind = "array" \/ kind = "object" BY DEF Containers
<1>11. begin \in 1..Len(T) /\ begin - 1 \in 1..Len(T)
    BY <1>2, <1>6, <1>8, <1>9, <1>10
<1>12. T2[begin] = T[begin] /\ T2[begin - 1] = T[begin - 1] BY <1>11 DEF Later
<1>13. kind = "object" => T2[begin + 1] = T[begin + 1] /\ first - 2 = begin
  <2>1. SUFFICES ASSUME kind = "object" PROVE T2[begin + 1] = T[begin + 1] /\ first - 2 = begin
      OBVIOUS
  <2>2. begin + 1 \in 1..Len(T) BY <1>2, <1>6, <1>8, <1>9, <2>1
  <2> QED BY <1>6, <1>9, <2>1, <2>2 DEF Later
<1>14. MemberIn(T2, kind, S2, i, k)
    BY <1>6, <1>7, <1>8, <1>9, <1>12, <1>13 DEF MemberIn
<1>15. kind = "object" => SameName(T, S, T2, S2, i, k)
    BY <1>7, <1>8, <1>12, <1>13 DEF NameOf, SameName
<1> QED BY <1>14, <1>15

\* What is inside of a node that holds what it held.
LEMMA FilledKept ==
    ASSUME NEW T, NEW S, NEW T2, NEW S2, NEW n \in Nat, Spanned(T, S, n), Later(T, S, T2, S2),
           NEW i \in 1..n, NEW node, NEW extra, node.kind \in Containers,
           Filled(T, S, i, node, extra), S2[i].members = S[i].members
    PROVE  Filled(T2, S2, i, node, extra)
<1>1. PICK first \in 1..Len(T) :
         first = S[i].first /\ S2[i].first = first /\ T2[first] = T[first]
  <2>1. S[i].first \in 1..Len(T) /\ Len(S) = n BY SpanTypes
  <2> QED BY <2>1 DEF Later
<1>2. PICK ms : ms = S[i].members /\ S2[i].members = ms OBVIOUS
<1> DEFINE kind == node.kind
<1>3. /\ T[first].kind = Opening[kind]
      /\ \A k \in 1..Len(ms) : MemberIn(T, kind, S, i, k)
      /\ IF kind = "array" THEN node.items = ms
         ELSE /\ DOMAIN node.items = NamesIn(T, S, ms) \cup extra
              /\ LastOnes(node.items, T, S, ms)
    BY <1>1, <1>2 DEF Filled
<1>4. kind \in Containers /\ (kind = "object" \/ kind = "array") BY DEF Containers
<1>5. ASSUME NEW k \in 1..Len(ms)
      PROVE  /\ MemberIn(T2, kind, S2, i, k)
             /\ kind = "object" => NameOf(T2, S2, ms[k]) = NameOf(T, S, ms[k])
  <2>1. k \in 1..Len(S[i].members) BY <1>2
  <2>2. SameMember(S, S2, i, k) BY <1>2 DEF SameMember
  <2>3. MemberIn(T, kind, S, i, k) BY <1>3
  <2> HIDE DEF kind
  <2>4. MemberIn(T2, kind, S2, i, k) BY Zenon, <1>4, <2>1, <2>2, <2>3, MemberKept
  <2>5. kind = "object" => SameName(T, S, T2, S2, i, k)
      BY Zenon, <1>4, <2>1, <2>2, <2>3, MemberKept
  <2>6. S2[i].members[k] = ms[k] /\ S[i].members[k] = ms[k] BY <1>2
  <2> QED BY <2>4, <2>5, <2>6 DEF SameName
<1>6. ASSUME kind # "array"
      PROVE  /\ NamesIn(T2, S2, ms) = NamesIn(T, S, ms)
             /\ LastOnes(node.items, T, S, ms) => LastOnes(node.items, T2, S2, ms)
  <2>1. \A k \in 1..Len(ms) : NameOf(T2, S2, ms[k]) = NameOf(T, S, ms[k]) BY <1>4, <1>5, <1>6
  <2>2. NamesIn(T2, S2, ms) = NamesIn(T, S, ms) BY <2>1 DEF NamesIn
  <2>3. \A k \in 1..Len(ms) : \A j \in (k + 1)..Len(ms) : j \in 1..Len(ms) BY <1>2, SpanTypes
  <2>4. LastOnes(node.items, T, S, ms) => LastOnes(node.items, T2, S2, ms)
      BY <2>1, <2>3 DEF LastOnes
  <2> QED BY <2>2, <2>4
<1> QED BY <1>1, <1>2, <1>3, <1>5, <1>6 DEF Filled

LEMMA UptoSame ==
    ASSUME NEW T, NEW S, NEW T2, NEW S2, NEW n \in Nat, Spanned(T, S, n), Later(T, S, T2, S2),
           NEW i \in 1..n, S2[i].members = S[i].members, AllClosed(S, i)
    PROVE  /\ Upto(S2, i, Len(S[i].members)) = Upto(S, i, Len(S[i].members))
           /\ Upto(S, i, Len(S[i].members)) \in 1..Len(T)
<1>1. PICK k \in Nat : k = Len(S[i].members) BY SpanTypes
<1>2. k \in 0..Len(S[i].members) BY <1>1
<1>3. SameUpto(S, S2, i, k)
  <2>1. k > 0 => k \in 1..Len(S[i].members) BY <1>1
  <2> QED BY <2>1 DEF SameUpto, AllClosed
<1>4. Spanned(T, S, n) /\ Later(T, S, T2, S2) /\ n \in Nat /\ i \in 1..n OBVIOUS
<1>5. Upto(S2, i, k) = Upto(S, i, k) /\ Upto(S, i, k) \in 1..Len(T)
    BY ONLY Zenon, <1>2, <1>3, <1>4, UptoKept
<1> QED BY <1>1, <1>5

\* A node that is as it was stays what its tokens say.
SameSpan(S, S2, i) == S2[i].members = S[i].members /\ S2[i].last = S[i].last

LEMMA NodeKept ==
    ASSUME NEW T, NEW S, NEW T2, NEW S2, NEW n \in Nat, Spanned(T, S, n), Later(T, S, T2, S2),
           NEW i \in 1..n, SameSpan(S, S2, i), NEW node, NEW extra, NodeIs(T, S, i, node, extra)
    PROVE  NodeIs(T2, S2, i, node, extra)
<1>1. PICK first \in 1..Len(T), last \in 0..Len(T) :
         /\ first = S[i].first /\ last = S[i].last /\ S2[i].first = first /\ S2[i].last = last
         /\ T2[first] = T[first] /\ (last # 0 => T2[last] = T[last])
  <2>1. S[i].first \in 1..Len(T) /\ S[i].last \in 0..Len(T) /\ Len(T) \in Nat /\ Len(S) = n
      BY SpanTypes
  <2>2. S2[i].first = S[i].first BY <2>1 DEF Later
  <2>3. S[i].last # 0 => S[i].last \in 1..Len(T) BY <2>1
  <2> QED BY <2>1, <2>2, <2>3 DEF Later, SameSpan
<1>2. S2[i].members = S[i].members BY DEF SameSpan
<1>3. CASE node.kind \in Containers
  <2>1. Filled(T2, S2, i, node, extra) BY <1>2, <1>3, FilledKept DEF NodeIs
  <2>2. ASSUME last # 0 PROVE EndOfNode(T2, S2, i, node)
    <3>1. AllClosed(S, i) BY <1>1, <2>2 DEF Spanned, AllClosed
    <3>2. Upto(S2, i, Len(S[i].members)) = Upto(S, i, Len(S[i].members))
        BY <1>2, <3>1, UptoSame
    <3>3. EndOfNode(T, S, i, node) BY <1>1, <1>3, <2>2 DEF NodeIs
    <3> QED BY <1>1, <1>2, <2>2, <3>2, <3>3 DEF EndOfNode
  <2> QED BY <1>1, <1>3, <2>1, <2>2 DEF NodeIs
<1>4. CASE node.kind \notin Containers BY <1>1, <1>4 DEF NodeIs
<1> QED BY <1>3, <1>4

-----------------------------------------------------------------------------
(* A value, whose token is the next one.                                   *)

Span(first, last, members) == [first |-> first, last |-> last, members |-> members]

\* The node top, if it is one, holds one more, which is this span.
Taking(S, top) ==
    IF top = 0 THEN S
    ELSE [S EXCEPT ![top] = Span(S[top].first, S[top].last, Append(S[top].members, Len(S) + 1))]
Pushed(S, top, span) == Append(Taking(S, top), span)

LEMMA SpanChanged ==
    ASSUME NEW S \in Seq(SpanSet), NEW i \in 1..Len(S), NEW e \in SpanSet
    PROVE  /\ [S EXCEPT ![i] = e] \in Seq(SpanSet)
           /\ Len([S EXCEPT ![i] = e]) = Len(S)
           /\ [S EXCEPT ![i] = e][i] = e
           /\ \A j \in 1..Len(S) : j # i => [S EXCEPT ![i] = e][j] = S[j]
OBVIOUS

LEMMA TokenAdded ==
    ASSUME NEW T \in TokenList, NEW w \in TokenSet
    PROVE  /\ Append(T, w) \in TokenList /\ Len(T) \in Nat /\ Len(Append(T, w)) = Len(T) + 1
           /\ Append(T, w)[Len(T) + 1] = w
           /\ \A j \in 1..Len(T) : Append(T, w)[j] = T[j]
<1> HIDE DEF TokenSet
<1> QED BY DEF TokenList

LEMMA SpansPushed ==
    ASSUME NEW T, NEW S, NEW n \in Nat, Spanned(T, S, n), NEW top \in 0..n, NEW span \in SpanSet
    PROVE  LET R == Pushed(S, top, span)
           IN  /\ R \in Seq(SpanSet) /\ Len(R) = n + 1 /\ R[n + 1] = span
               /\ \A i \in 1..n : i # top => R[i] = S[i]
               /\ top # 0 => /\ R[top].first = S[top].first /\ R[top].last = S[top].last
                             /\ R[top].members = Append(S[top].members, n + 1)
<1> DEFINE R == Pushed(S, top, span)
           H == Taking(S, top)
<1>1. S \in Seq(SpanSet) /\ Len(S) = n BY DEF Spanned
<1>2. /\ H \in Seq(SpanSet) /\ Len(H) = n
      /\ \A i \in 1..n : i # top => H[i] = S[i]
      /\ top # 0 => /\ H[top].first = S[top].first /\ H[top].last = S[top].last
                    /\ H[top].members = Append(S[top].members, n + 1)
  <2>1. CASE top = 0 BY <1>1, <2>1 DEF Taking
  <2>2. CASE top # 0
    <3>1. top \in 1..n BY <2>2
    <3> DEFINE e == Span(S[top].first, S[top].last, Append(S[top].members, n + 1))
    <3>2. /\ S[top].first \in Nat /\ S[top].last \in Nat /\ S[top].members \in Seq(Nat)
      <4>1. S[top] \in SpanSet BY <1>1, <3>1
      <4> QED BY <4>1 DEF SpanSet
    <3>3. n + 1 \in Nat /\ Append(S[top].members, n + 1) \in Seq(Nat) BY <3>2
    <3>4. /\ e \in SpanSet /\ e.first = S[top].first /\ e.last = S[top].last
          /\ e.members = Append(S[top].members, n + 1)
      <4>1. PICK a \in Nat, b \in Nat, ms \in Seq(Nat) :
               a = S[top].first /\ b = S[top].last /\ ms = Append(S[top].members, n + 1)
          BY <3>2, <3>3
      <4>2. e = Span(a, b, ms) BY <4>1
      <4>3. /\ Span(a, b, ms) \in SpanSet /\ Span(a, b, ms).first = a
            /\ Span(a, b, ms).last = b /\ Span(a, b, ms).members = ms
          BY DEF Span, SpanSet
      <4> HIDE DEF e
      <4> QED BY <4>1, <4>2, <4>3
    <3>5. H = [S EXCEPT ![top] = e] BY <1>1, <2>2 DEF Taking
    <3> HIDE DEF e, H
    <3> QED BY <1>1, <3>1, <3>4, <3>5, SpanChanged
  <2> QED BY <2>1, <2>2
<1>3. R = Append(H, span) BY DEF Pushed
<1> HIDE DEF H, R
<1>4. R \in Seq(SpanSet) /\ Len(R) = n + 1 /\ R[n + 1] = span /\ \A i \in 1..n : R[i] = H[i]
    BY <1>2, <1>3
<1>5. top # 0 => top \in 1..n OBVIOUS
<1> QED BY <1>2, <1>4, <1>5 DEF R

\* Where the next member of a node is to begin, whose value has the next token.
Room(T, S, i, kind, key) ==
    LET begin == FirstOf(S, i, Len(S[i].members) + 1)
    IN  /\ Len(S[i].members) > 0 => T[begin - 1].kind = "value_separator"
        /\ kind = "array" => Len(T) + 1 = begin
        /\ kind = "object" =>
              /\ Len(T) = begin + 1
              /\ T[begin].kind = "value_string" /\ T[begin].value = key
              /\ T[begin + 1].kind = "name_separator"

LEMMA PushedSpans ==
    ASSUME NEW T, NEW S, NEW n \in Nat, Spanned(T, S, n), NEW w \in TokenSet, NEW top \in 0..n,
           top # 0 => S[top].last = 0 /\ AllClosed(S, top),
           NEW last \in {0, Len(T) + 1}
    PROVE  LET R == Pushed(S, top, Span(Len(T) + 1, last, <<>>))
           IN  /\ Spanned(Append(T, w), R, n + 1)
               /\ Later(T, S, Append(T, w), R)
               /\ \A i \in 1..n : i # top => SameSpan(S, R, i)
               /\ R[n + 1].first = Len(T) + 1 /\ R[n + 1].last = last /\ R[n + 1].members = <<>>
               /\ top # 0 => /\ R[top].first = S[top].first /\ R[top].last = S[top].last
                             /\ R[top].members = Append(S[top].members, n + 1)
<1> DEFINE span == Span(Len(T) + 1, last, <<>>)
           R == Pushed(S, top, span)
           U == Append(T, w)
<1>1. /\ Len(T) \in Nat /\ U \in TokenList /\ Len(U) = Len(T) + 1 /\ U[Len(T) + 1] = w
      /\ \A j \in 1..Len(T) : U[j] = T[j]
    BY TokenAdded DEF Spanned
<1>2. span \in SpanSet /\ span.first = Len(T) + 1 /\ span.last = last /\ span.members = <<>>
  <2>1. Len(T) + 1 \in Nat /\ last \in Nat /\ <<>> \in Seq(Nat) BY <1>1
  <2>2. PICK a \in Nat, ms \in Seq(Nat) : a = Len(T) + 1 /\ ms = <<>> BY <2>1
  <2>3. span = Span(a, last, ms) /\ last \in Nat BY <2>1, <2>2
  <2>4. /\ Span(a, last, ms) \in SpanSet /\ Span(a, last, ms).first = a
        /\ Span(a, last, ms).last = last /\ Span(a, last, ms).members = ms
      BY <2>3 DEF Span, SpanSet
  <2> HIDE DEF span
  <2> QED BY <2>2, <2>3, <2>4
<1> HIDE DEF span, U
<1>3. /\ R \in Seq(SpanSet) /\ Len(R) = n + 1 /\ R[n + 1] = span
      /\ \A i \in 1..n : i # top => R[i] = S[i]
      /\ top # 0 => /\ R[top].first = S[top].first /\ R[top].last = S[top].last
                    /\ R[top].members = Append(S[top].members, n + 1)
    BY <1>2, SpansPushed
<1> HIDE DEF R
<1>4. /\ \A i \in 1..n : R[i].first = S[i].first /\ R[i].last = S[i].last
      /\ \A i \in 1..n : i # top => R[i].members = S[i].members
    BY <1>3
<1>5. \A i \in 1..n : /\ S[i].first \in 1..Len(T) /\ S[i].last \in 0..Len(T)
                      /\ S[i].members \in Seq(Nat) /\ Len(S[i].members) \in Nat
                      /\ \A k \in 1..Len(S[i].members) : S[i].members[k] \in 1..n
    BY SpanTypes
<1>6. ASSUME NEW i \in 1..n
      PROVE  \A k \in 1..Len(S[i].members) :
                /\ S[i].members[k] \in (i + 1)..n
                /\ S[S[i].members[k]].last = 0 => k = Len(S[i].members) /\ S[i].last = 0
    BY DEF Spanned
<1>7. ASSUME NEW i \in 1..(n + 1)
      PROVE  /\ R[i].first \in 1..Len(U) /\ R[i].last \in 0..Len(U)
             /\ \A k \in 1..Len(R[i].members) :
                   /\ R[i].members[k] \in (i + 1)..(n + 1)
                   /\ R[R[i].members[k]].last = 0 => k = Len(R[i].members) /\ R[i].last = 0
  <2>1. CASE i = n + 1
    <3>1. Len(R[i].members) = 0 BY <1>2, <1>3, <2>1
    <3> QED BY <1>1, <1>2, <1>3, <2>1, <3>1
  <2>2. CASE i \in 1..n /\ i # top
    <3>1. /\ R[i].first \in 1..Len(U) /\ R[i].last \in 0..Len(U)
      <4>1. S[i].first \in 1..Len(T) /\ S[i].last \in 0..Len(T) BY <1>5, <2>2
      <4> QED BY <1>1, <1>4, <2>2, <4>1
    <3>2. ASSUME NEW k \in 1..Len(R[i].members)
          PROVE  /\ R[i].members[k] \in (i + 1)..(n + 1)
                 /\ R[R[i].members[k]].last = 0 => k = Len(R[i].members) /\ R[i].last = 0
      <4>1. k \in 1..Len(S[i].members) /\ R[i].members[k] = S[i].members[k] BY <1>4, <2>2
      <4>2. PICK m : m = S[i].members[k] OBVIOUS
      <4>3. m \in (i + 1)..n /\ (S[m].last = 0 => k = Len(S[i].members) /\ S[i].last = 0)
          BY <1>6, <2>2, <4>1, <4>2
      <4>4. m \in 1..n /\ m \in (i + 1)..(n + 1) BY <2>2, <4>3
      <4> QED BY <1>4, <2>2, <4>1, <4>2, <4>3, <4>4
    <3> QED BY <3>1, <3>2
  <2>3. CASE i \in 1..n /\ i = top
    <3>1. i # 0 /\ S[i].last = 0 /\ AllClosed(S, i) BY <2>3
    <3>2. /\ R[i].first \in 1..Len(U) /\ R[i].last \in 0..Len(U) /\ R[i].last = 0
      <4>1. S[i].first \in 1..Len(T) BY <1>5, <2>3
      <4> QED BY <1>1, <1>4, <2>3, <3>1, <4>1
    <3>3. PICK h \in Nat : h = Len(S[i].members) BY <1>5, <2>3
    <3>4. R[i].members = Append(S[i].members, n + 1) /\ S[i].members \in Seq(Nat)
        BY <1>3, <1>5, <2>3, <3>1
    <3>5. /\ Len(R[i].members) = h + 1 /\ R[i].members[h + 1] = n + 1
          /\ \A k \in 1..h : R[i].members[k] = S[i].members[k]
        BY <3>3, <3>4
    <3>6. ASSUME NEW k \in 1..(h + 1)
          PROVE  /\ R[i].members[k] \in (i + 1)..(n + 1)
                 /\ R[R[i].members[k]].last = 0 => k = h + 1
      <4>1. CASE k = h + 1
        <5>1. n + 1 \in (i + 1)..(n + 1) BY <2>3
        <5> QED BY <3>5, <4>1, <5>1
      <4>2. CASE k \in 1..h
        <5>1. PICK m : m = S[i].members[k] OBVIOUS
        <5>2. m \in (i + 1)..n /\ S[m].last # 0
            BY <1>6, <2>3, <3>1, <3>3, <4>2, <5>1 DEF AllClosed
        <5>3. m \in 1..n /\ m \in (i + 1)..(n + 1) BY <2>3, <5>2
        <5> QED BY <1>4, <3>5, <4>2, <5>1, <5>2, <5>3
      <4> QED BY <4>1, <4>2
    <3> QED BY <3>2, <3>5, <3>6
  <2> QED BY <2>1, <2>2, <2>3
<1>8. Spanned(U, R, n + 1) BY <1>1, <1>3, <1>7 DEF Spanned
<1>9. Later(T, S, U, R)
  <2>1. Len(S) = n BY DEF Spanned
  <2> QED BY <1>1, <1>4, <2>1 DEF Later
<1>10. \A i \in 1..n : i # top => SameSpan(S, R, i) BY <1>4 DEF SameSpan
<1> QED BY <1>2, <1>3, <1>8, <1>9, <1>10 DEF R, U, span

\* The node that the token itself is, or begins.
LEMMA NewNodeIs ==
    ASSUME NEW T, NEW R, NEW i, NEW node, R[i].members = <<>>,
           \/ node.kind \notin Containers /\ R[i].last = R[i].first /\ ScalarIs(T[R[i].first], node)
           \/ /\ node.kind \in Containers /\ R[i].last = 0 /\ node.items = <<>>
              /\ T[R[i].first].kind = Opening[node.kind]
    PROVE  NodeIs(T, R, i, node, {})
<1>1. CASE node.kind \notin Containers BY <1>1 DEF NodeIs
<1>2. CASE node.kind \in Containers
  <2>1. R[i].last = 0 /\ node.items = <<>> /\ T[R[i].first].kind = Opening[node.kind] BY <1>2
  <2>2. PICK none : none = R[i].members /\ none = <<>> OBVIOUS
  <2>3. 1..Len(none) = {} /\ DOMAIN none = {} BY <2>2
  <2>4. NamesIn(T, R, none) = {} BY <2>3 DEF NamesIn
  <2>5. LastOnes(none, T, R, none) BY <2>3, Zenon DEF LastOnes
  <2>6. node.items = none /\ R[i].members = none BY <2>1, <2>2
  <2>7. DOMAIN none = NamesIn(T, R, none) \cup {} BY <2>3, <2>4
  <2>8. \A k \in 1..Len(none) : MemberIn(T, node.kind, R, i, k) BY <2>3, Zenon
  <2> QED BY <1>2, <2>1, <2>5, <2>6, <2>7, <2>8, SMT DEF NodeIs, Filled
<1> QED BY <1>1, <1>2

\* A node with one more member, which is there.
LEMMA MemberAdded ==
    ASSUME NEW T, NEW S, NEW U, NEW R, NEW n \in Nat, Spanned(T, S, n), Later(T, S, U, R),
           NEW i \in 1..n, NEW h \in Nat, h = Len(S[i].members), AllClosed(S, i),
           S[i].last = 0, R[i].last = 0, R[i].first = S[i].first,
           R[i].members = Append(S[i].members, n + 1), R[n + 1].first = Len(T) + 1,
           NEW kind \in Containers, NEW key, Room(T, S, i, kind, key)
    PROVE  /\ \A k \in 1..h : SameMember(S, R, i, k)
           /\ MemberIn(U, kind, R, i, h + 1)
           /\ kind = "object" => NameOf(U, R, n + 1) = key
<1>1. h \in Nat /\ S[i].members \in Seq(Nat) /\ Len(T) \in Nat BY SpanTypes
<1>2. PICK ms \in Seq(Nat) : ms = S[i].members BY <1>1
<1>3. PICK new \in Nat : new = n + 1 OBVIOUS
<1>4. PICK ns : ns = R[i].members OBVIOUS
<1>5. Len(ms) = h /\ Len(ns) = h + 1 /\ ns[h + 1] = new /\ \A k \in 1..h : ns[k] = ms[k]
    BY <1>2, <1>3, <1>4
<1>6. ASSUME NEW k \in 1..h PROVE SameMember(S, R, i, k)
  <2>1. ns[k] = ms[k] BY <1>5
  <2>2. k > 1 => k - 1 \in 1..h BY ONLY k \in 1..h, h \in Nat
  <2>3. k > 1 => ns[k - 1] = ms[k - 1] BY <1>5, <2>2
  <2> QED BY <1>2, <1>4, <2>1, <2>3 DEF SameMember
<1>7. Upto(R, i, h) = Upto(S, i, h) /\ Upto(S, i, h) \in 1..Len(T)
  <2>1. h \in 0..Len(S[i].members) BY <1>1
  <2>2. SameUpto(S, R, i, h)
    <3>1. h > 0 => h \in 1..h BY <1>1
    <3> QED BY <1>2, <1>4, <1>5, <3>1 DEF AllClosed, SameUpto
  <2>3. Spanned(T, S, n) /\ Later(T, S, U, R) /\ n \in Nat /\ i \in 1..n OBVIOUS
  <2> QED BY ONLY Zenon, <2>1, <2>2, <2>3, UptoKept
<1>8. PICK begin \in Nat :
         begin = FirstOf(S, i, h + 1) /\ begin > 1 /\ FirstOf(R, i, h + 1) = begin
  <2>1. PICK u \in Nat : u = Upto(S, i, h) /\ u > 0 BY <1>1, <1>7
  <2>2. PICK k \in Nat : k = h + 1 /\ k - 1 = h BY <1>1
  <2>3. FirstOf(S, i, k) = u + (IF k = 1 THEN 1 ELSE 2) BY <2>1, <2>2 DEF FirstOf
  <2>4. FirstOf(R, i, k) = u + (IF k = 1 THEN 1 ELSE 2) BY <1>7, <2>1, <2>2 DEF FirstOf
  <2> QED BY <2>1, <2>2, <2>3, <2>4
<1>9. /\ h > 0 => T[begin - 1].kind = "value_separator"
      /\ kind = "array" => Len(T) + 1 = begin
      /\ kind = "object" =>
            /\ Len(T) = begin + 1
            /\ T[begin].kind = "value_string" /\ T[begin].value = key
            /\ T[begin + 1].kind = "name_separator"
    BY <1>8 DEF Room
<1>10. kind = "array" \/ kind = "object" BY DEF Containers
<1>11. begin - 1 \in 1..Len(T) BY <1>1, <1>8, <1>9, <1>10
<1>12. U[begin - 1] = T[begin - 1] BY <1>11 DEF Later
<1>13. kind = "object" => /\ U[begin] = T[begin] /\ U[begin + 1] = T[begin + 1]
                          /\ Len(T) + 1 = begin + 2
  <2>1. SUFFICES ASSUME kind = "object"
                 PROVE  /\ U[begin] = T[begin] /\ U[begin + 1] = T[begin + 1]
                        /\ Len(T) + 1 = begin + 2
      OBVIOUS
  <2>2. begin \in 1..Len(T) /\ begin + 1 \in 1..Len(T) BY <1>1, <1>8, <1>9, <2>1
  <2> QED BY <1>9, <2>1, <2>2 DEF Later
<1>14. R[i].members[h + 1] = n + 1 BY <1>3, <1>4, <1>5
<1>15. MemberIn(U, kind, R, i, h + 1)
  <2>1. PICK k \in Nat : k = h + 1 /\ (k > 1 <=> h > 0) BY <1>1
  <2>2. R[R[i].members[k]].first = Len(T) + 1 /\ FirstOf(R, i, k) = begin BY <1>8, <1>14, <2>1
  <2>3. MemberIn(U, kind, R, i, k)
      BY <1>9, <1>12, <1>13, <2>1, <2>2 DEF MemberIn
  <2> QED BY <2>1, <2>3
<1>16. kind = "object" => NameOf(U, R, n + 1) = key
  <2>1. SUFFICES ASSUME kind = "object" PROVE NameOf(U, R, n + 1) = key OBVIOUS
  <2>2. R[n + 1].first - 2 = begin BY <1>8, <1>13, <2>1
  <2> QED BY <1>9, <1>13, <2>1, <2>2 DEF NameOf
<1> QED BY <1>6, <1>15, <1>16

\* Members ns are ms and one more, of that name; items are those of ms, and of that name.
Joins(T, S, U, R, ms, ns, new, key, items) ==
    /\ Len(ms) \in Nat /\ Len(ns) = Len(ms) + 1 /\ ns[Len(ms) + 1] = new
    /\ \A k \in 1..Len(ms) : ns[k] = ms[k] /\ NameOf(U, R, ms[k]) = NameOf(T, S, ms[k])
    /\ NameOf(U, R, new) = key
    /\ DOMAIN items = NamesIn(T, S, ms) \cup {key} /\ LastOnes(items, T, S, ms)

\* The items of an object that it is assigned to.
LEMMA NamesAssigned ==
    ASSUME NEW T, NEW S, NEW U, NEW R, NEW ms, NEW ns, NEW new, NEW key, NEW items,
           Joins(T, S, U, R, ms, ns, new, key, items)
    PROVE  LET more == WithMember(items, key, new)
           IN  DOMAIN more = NamesIn(U, R, ns) /\ LastOnes(more, U, R, ns)
<1>1. PICK h \in Nat : h = Len(ms) BY DEF Joins
<1>2. /\ Len(ns) = h + 1 /\ ns[h + 1] = new /\ NameOf(U, R, new) = key
      /\ DOMAIN items = NamesIn(T, S, ms) \cup {key} /\ LastOnes(items, T, S, ms)
    BY <1>1 DEF Joins
<1>3. ASSUME NEW k \in 1..h PROVE ns[k] = ms[k] /\ NameOf(U, R, ms[k]) = NameOf(T, S, ms[k])
  <2>1. k \in 1..Len(ms) BY <1>1
  <2>2. \A j \in 1..Len(ms) : ns[j] = ms[j] /\ NameOf(U, R, ms[j]) = NameOf(T, S, ms[j])
      BY Zenon DEF Joins
  <2> QED BY <2>1, <2>2
<1> DEFINE more == WithMember(items, key, new)
<1>4. /\ DOMAIN more = DOMAIN items /\ more[key] = new
      /\ \A x \in DOMAIN items : x # key => more[x] = items[x]
    BY <1>2 DEF WithMember
<1> HIDE DEF more
<1>5. \A k \in 1..h : NameOf(U, R, ns[k]) = NameOf(T, S, ms[k]) BY <1>3
<1>6. NameOf(U, R, ns[h + 1]) = key BY <1>2
<1>7. NamesIn(U, R, ns) = NamesIn(T, S, ms) \cup {key}
  <2>1. 1..Len(ns) = 1..h \cup {h + 1} BY <1>2
  <2> QED BY <1>1, <1>2, <1>5, <1>6, <2>1 DEF NamesIn
<1>8. ASSUME NEW k \in 1..Len(ns),
             \A j \in (k + 1)..Len(ns) : NameOf(U, R, ns[j]) # NameOf(U, R, ns[k])
      PROVE  more[NameOf(U, R, ns[k])] = ns[k]
  <2>1. CASE k = h + 1 BY <1>2, <1>4, <1>6, <2>1
  <2>2. CASE k \in 1..h
    <3>1. h + 1 \in (k + 1)..Len(ns) BY <1>2, <2>2
    <3>2. NameOf(U, R, ns[k]) = NameOf(T, S, ms[k]) /\ NameOf(U, R, ns[k]) # key /\ ns[k] = ms[k]
        BY <1>3, <1>5, <1>6, <1>8, <2>2, <3>1
    <3>3. ASSUME NEW j \in (k + 1)..Len(ms) PROVE NameOf(T, S, ms[j]) # NameOf(T, S, ms[k])
      <4>1. j \in 1..h /\ j \in (k + 1)..Len(ns) BY <1>1, <1>2, <2>2
      <4> QED BY <1>5, <1>8, <3>2, <4>1
    <3>4. items[NameOf(T, S, ms[k])] = ms[k] BY <1>1, <1>2, <2>2, <3>3 DEF LastOnes
    <3>5. NameOf(T, S, ms[k]) \in DOMAIN items BY <1>1, <1>2, <2>2 DEF NamesIn
    <3> QED BY <1>4, <3>2, <3>4, <3>5
  <2> QED BY <1>2, <2>1, <2>2
<1>9. LastOnes(more, U, R, ns) BY <1>8 DEF LastOnes
<1> QED BY <1>4, <1>7, <1>9, <1>2 DEF more

\* A container that got one more member.
LEMMA TopPushed ==
    ASSUME NEW T, NEW S, NEW U, NEW R, NEW n \in Nat, Spanned(T, S, n), Later(T, S, U, R),
           NEW i \in 1..n, AllClosed(S, i), S[i].last = 0, R[i].last = 0,
           R[i].members = Append(S[i].members, n + 1), R[n + 1].first = Len(T) + 1,
           NEW node, NEW more, NEW extra, NEW key, node.kind \in Containers,
           more.kind = node.kind, Room(T, S, i, node.kind, key), NodeIs(T, S, i, node, extra),
           node.kind = "array" => more.items = Append(node.items, n + 1),
           node.kind = "object" =>
               extra = {key} /\ more.items = WithMember(node.items, key, n + 1)
    PROVE  NodeIs(U, R, i, more, {})
<1>1. S[i].first \in 1..Len(T) /\ Len(S) = n /\ S[i].members \in Seq(Nat) BY SpanTypes
<1>2. R[i].first = S[i].first /\ U[S[i].first] = T[S[i].first] BY <1>1 DEF Later
<1>3. PICK h \in Nat : h = Len(S[i].members) BY <1>1
<1>4. PICK kind : kind = node.kind /\ (kind = "array" \/ kind = "object") BY DEF Containers
<1>5. kind \in Containers /\ Room(T, S, i, kind, key) BY <1>4
<1>6. /\ \A k \in 1..h : SameMember(S, R, i, k)
      /\ MemberIn(U, kind, R, i, h + 1)
      /\ kind = "object" => NameOf(U, R, n + 1) = key
    BY <1>2, <1>3, <1>5, MemberAdded
<1>7. PICK ms \in Seq(Nat), ns \in Seq(Nat), new \in Nat :
         ms = S[i].members /\ ns = R[i].members /\ new = n + 1
  <2>1. n + 1 \in Nat /\ Append(S[i].members, n + 1) \in Seq(Nat) BY <1>1
  <2> QED BY <1>1, <2>1
<1>8. Len(ms) = h /\ Len(ns) = h + 1 /\ ns[h + 1] = new /\ \A k \in 1..h : ns[k] = ms[k]
    BY <1>3, <1>7
<1>9. /\ T[S[i].first].kind = Opening[kind]
      /\ \A k \in 1..h : MemberIn(T, kind, S, i, k)
      /\ IF kind = "array" THEN node.items = ms
         ELSE DOMAIN node.items = NamesIn(T, S, ms) \cup extra /\ LastOnes(node.items, T, S, ms)
    BY <1>3, <1>4, <1>7 DEF NodeIs, Filled
<1>10. ASSUME NEW k \in 1..h
       PROVE  MemberIn(U, kind, R, i, k) /\ (kind = "object" => SameName(T, S, U, R, i, k))
  <2>1. k \in 1..Len(S[i].members) /\ SameMember(S, R, i, k) /\ MemberIn(T, kind, S, i, k)
      BY <1>3, <1>6, <1>9
  <2>2. Spanned(T, S, n) /\ Later(T, S, U, R) /\ n \in Nat /\ i \in 1..n OBVIOUS
  <2> QED BY ONLY Zenon, <1>5, <2>1, <2>2, MemberKept
<1>11. \A k \in 1..(h + 1) : MemberIn(U, kind, R, i, k)
  <2>1. \A k \in 1..(h + 1) : k \in 1..h \/ k = h + 1 OBVIOUS
  <2> QED BY <1>6, <1>10, <2>1
<1>12. CASE kind = "array"
  <2>1. more.items = ns BY <1>4, <1>7, <1>9, <1>12
  <2>2. Filled(U, R, i, more, {}) BY <1>2, <1>4, <1>7, <1>8, <1>9, <1>11, <1>12, <2>1 DEF Filled
  <2> QED BY <1>4, <1>5, <2>2 DEF NodeIs
<1>13. CASE kind = "object"
  <2>1. extra = {key} /\ more.items = WithMember(node.items, key, new) BY <1>4, <1>7, <1>13
  <2>2. \A k \in 1..h : NameOf(U, R, ms[k]) = NameOf(T, S, ms[k])
      BY <1>7, <1>8, <1>10, <1>13 DEF SameName
  <2>3. NameOf(U, R, new) = key BY <1>6, <1>7, <1>13
  <2>4. PICK items : items = node.items OBVIOUS
  <2>5. DOMAIN items = NamesIn(T, S, ms) \cup {key} /\ LastOnes(items, T, S, ms)
      BY <1>9, <1>13, <2>1, <2>4
  <2>6. PICK later : later = WithMember(items, key, new) OBVIOUS
  <2>7. DOMAIN later = NamesIn(U, R, ns) /\ LastOnes(later, U, R, ns)
    <3>1. Joins(T, S, U, R, ms, ns, new, key, items) BY <1>8, <2>2, <2>3, <2>5 DEF Joins
    <3>2. /\ DOMAIN WithMember(items, key, new) = NamesIn(U, R, ns)
          /\ LastOnes(WithMember(items, key, new), U, R, ns)
        BY <3>1, NamesAssigned
    <3> QED BY <3>2, <2>6
  <2>8. more.items = later BY <2>1, <2>4, <2>6
  <2>9. DOMAIN more.items = NamesIn(U, R, ns) \cup {} /\ LastOnes(more.items, U, R, ns)
      BY <2>7, <2>8
  <2>10. Filled(U, R, i, more, {})
      BY <1>2, <1>4, <1>7, <1>8, <1>9, <1>11, <1>13, <2>9 DEF Filled
  <2> QED BY <1>4, <1>5, <2>10 DEF NodeIs
<1> QED BY <1>4, <1>12, <1>13

-----------------------------------------------------------------------------
(* The end of a container.                                                 *)

Closed(S, top, last) == [S EXCEPT ![top] = Span(S[top].first, last, S[top].members)]

LEMMA SpansClosed ==
    ASSUME NEW T, NEW S, NEW n \in Nat, Spanned(T, S, n), NEW w \in TokenSet, NEW top \in 1..n,
           S[top].last = 0, AllClosed(S, top)
    PROVE  LET R == Closed(S, top, Len(T) + 1)
           IN  /\ Spanned(Append(T, w), R, n)
               /\ Later(T, S, Append(T, w), R)
               /\ \A i \in 1..n : i # top => SameSpan(S, R, i)
               /\ R[top].first = S[top].first /\ R[top].last = Len(T) + 1
               /\ R[top].members = S[top].members
<1> DEFINE R == Closed(S, top, Len(T) + 1)
           U == Append(T, w)
<1>1. /\ Len(T) \in Nat /\ U \in TokenList /\ Len(U) = Len(T) + 1 /\ U[Len(T) + 1] = w
      /\ \A j \in 1..Len(T) : U[j] = T[j]
    BY TokenAdded DEF Spanned
<1> HIDE DEF U
<1>2. S \in Seq(SpanSet) /\ Len(S) = n BY DEF Spanned
<1>3. PICK first \in Nat, last \in Nat, ms \in Seq(Nat) :
         first = S[top].first /\ last = Len(T) + 1 /\ ms = S[top].members
  <2>1. S[top].first \in Nat /\ S[top].members \in Seq(Nat) BY SpanTypes
  <2> QED BY <1>1, <2>1
<1>4. PICK e : e = Span(first, last, ms) OBVIOUS
<1>5. e \in SpanSet /\ e.first = first /\ e.last = last /\ e.members = ms
    BY <1>4 DEF Span, SpanSet
<1>6. R = [S EXCEPT ![top] = e] BY <1>3, <1>4 DEF Closed
<1> HIDE DEF R
<1>7. /\ R \in Seq(SpanSet) /\ Len(R) = n /\ R[top] = e
      /\ \A i \in 1..n : i # top => R[i] = S[i]
    BY <1>2, <1>5, <1>6, SpanChanged
<1>8. /\ \A i \in 1..n : R[i].first = S[i].first /\ R[i].members = S[i].members
      /\ \A i \in 1..n : i # top => R[i].last = S[i].last
      /\ R[top].last = Len(T) + 1
    BY <1>3, <1>5, <1>7
<1>9. ASSUME NEW i \in 1..n
      PROVE  /\ R[i].first \in 1..Len(U) /\ R[i].last \in 0..Len(U)
             /\ \A k \in 1..Len(R[i].members) :
                   /\ R[i].members[k] \in (i + 1)..n
                   /\ R[R[i].members[k]].last = 0 => k = Len(R[i].members) /\ R[i].last = 0
  <2>1. R[i].first \in 1..Len(U) /\ R[i].last \in 0..Len(U)
    <3>1. S[i].first \in 1..Len(T) /\ S[i].last \in 0..Len(T) BY SpanTypes
    <3> QED BY <1>1, <1>8, <3>1
  <2>2. ASSUME NEW k \in 1..Len(R[i].members)
        PROVE  /\ R[i].members[k] \in (i + 1)..n
               /\ R[R[i].members[k]].last = 0 => k = Len(R[i].members) /\ R[i].last = 0
    <3>1. k \in 1..Len(S[i].members) /\ R[i].members = S[i].members BY <1>8
    <3>2. PICK m : m = S[i].members[k] OBVIOUS
    <3>3. m \in (i + 1)..n /\ m \in 1..n /\ (S[m].last = 0 => k = Len(S[i].members) /\ S[i].last = 0)
      <4>1. m \in (i + 1)..n /\ (S[m].last = 0 => k = Len(S[i].members) /\ S[i].last = 0)
          BY <3>1, <3>2 DEF Spanned
      <4> QED BY <4>1
    <3>4. R[m].last = 0 => m # top /\ S[m].last = 0 BY <1>1, <1>8, <3>3
    <3>5. S[m].last = 0 => i # top BY <3>1, <3>2 DEF AllClosed
    <3> QED BY <1>8, <3>1, <3>2, <3>3, <3>4, <3>5
  <2> QED BY <2>1, <2>2
<1>10. Spanned(U, R, n) BY <1>1, <1>7, <1>9 DEF Spanned
<1>11. Later(T, S, U, R) BY <1>1, <1>2, <1>8 DEF Later
<1>12. \A i \in 1..n : i # top => SameSpan(S, R, i) BY <1>8 DEF SameSpan
<1> QED BY <1>3, <1>5, <1>7, <1>10, <1>11, <1>12 DEF R, U

LEMMA TopClosed ==
    ASSUME NEW T, NEW S, NEW U, NEW R, NEW n \in Nat, Spanned(T, S, n), Later(T, S, U, R),
           NEW i \in 1..n, AllClosed(S, i), R[i].members = S[i].members, R[i].last = Len(T) + 1,
           Len(T) = Upto(S, i, Len(S[i].members)),
           NEW node, node.kind \in Containers, NodeIs(T, S, i, node, {}),
           U[Len(T) + 1].kind = Closing[node.kind]
    PROVE  NodeIs(U, R, i, node, {})
<1>1. Filled(U, R, i, node, {}) BY FilledKept DEF NodeIs
<1>2. Upto(R, i, Len(S[i].members)) = Upto(S, i, Len(S[i].members)) BY UptoSame
<1>3. EndOfNode(U, R, i, node) BY <1>2 DEF EndOfNode
<1> QED BY <1>1, <1>3 DEF NodeIs

\* All nodes complete: the tree of the grammar.
LEMMA TreeIs ==
    ASSUME NEW T, NEW S, NEW n \in Nat, Spanned(T, S, n), n > 0, NEW document0, Len(document0) = n,
           \A i \in 1..n : S[i].last # 0 /\ NodeIs(T, S, i, document0[i], {}),
           S[1].first = 1, S[1].last = Len(T)
    PROVE  TreeOf(T, document0, S)
<1>1. ASSUME NEW i \in 1..n, document0[i].kind \in DOMAIN Opening
      PROVE  ContainerIs(T, document0[i], S, i)
  <2>1. PICK node : node = document0[i] OBVIOUS
  <2>2. node.kind \in Containers BY <1>1, <2>1 DEF Opening, Containers
  <2>3. NodeIs(T, S, i, node, {}) /\ S[i].last # 0 BY <2>1
  <2>4. Filled(T, S, i, node, {}) /\ EndOfNode(T, S, i, node) BY <2>2, <2>3 DEF NodeIs
  <2>5. MembersIn(T, node.kind, S, i) BY <2>4, MembersAre DEF Filled
  <2>6. node.kind # "array" => ItemsAre(node.items, T, S, S[i].members)
    <3>1. SUFFICES ASSUME node.kind # "array"
                   PROVE  ItemsAre(node.items, T, S, S[i].members)
        OBVIOUS
    <3>2. DOMAIN node.items = NamesIn(T, S, S[i].members)
          /\ LastOnes(node.items, T, S, S[i].members)
        BY <2>4, <3>1 DEF Filled
    <3> QED BY Zenon, <3>2 DEF ItemsAre, NamesIn, LastOnes
  <2> QED BY <2>1, <2>4, <2>5, <2>6 DEF ContainerIs, Filled, EndOfNode
<1>2. ASSUME NEW i \in 1..n, document0[i].kind \notin DOMAIN Opening
      PROVE  S[i].last = S[i].first /\ ScalarIs(T[S[i].first], document0[i])
  <2>1. document0[i].kind \notin Containers BY <1>2 DEF Opening, Containers
  <2> QED BY <2>1 DEF NodeIs
<1> QED BY <1>1, <1>2 DEF TreeOf

-----------------------------------------------------------------------------
(* The document that was read so far is what the tokens say.               *)

\* object_element is the place of a member that has a name and no value yet.
KeyRead ==
    \/ expect \in {"first colon", "colon"}
    \/ expect = "value" /\ Len(states) > 0 /\ KindAt(states, Len(states)) = "object"
Extra(i) == IF KeyRead /\ i = Top THEN {element.key} ELSE {}

\* ref_stack is what is open: the first node, its last member, and so on.
OpenIn(S, n, stack) ==
    /\ \A i \in 1..n : S[i].last = 0 <=> \E q \in 1..Len(stack) : stack[q] = i
    /\ \A q \in 2..Len(stack) :
          LET ms == S[stack[q - 1]].members IN Len(ms) > 0 /\ ms[Len(ms)] = stack[q]
    /\ n > 0 => S[1].first = 1
    /\ Len(stack) > 0 => stack[1] = 1
Opened(S) == OpenIn(S, Len(nodes), refs)

NameThere(T, S, i, key) ==
    LET begin == FirstOf(S, i, Len(S[i].members) + 1)
    IN  /\ Len(S[i].members) > 0 => T[begin - 1].kind = "value_separator"
        /\ Len(T) = begin /\ T[begin].kind = "value_string" /\ T[begin].value = key

\* What the parser waits for, after these tokens.
Waiting(T, S) ==
    LET held == Len(S[Top].members)
    IN  /\ ValueExpected => IF Len(refs) = 0 THEN Len(T) = 0 /\ Len(nodes) = 0
                            ELSE Room(T, S, Top, nodes[Top].kind, element.key)
        /\ expect \in {"array", "object", "element", "member"} => Len(T) = Upto(S, Top, held)
        /\ expect \in Containers => held = 0
        /\ expect \in {"element", "member", "key"} => held > 0
        /\ expect = "key" =>
              Len(T) = Upto(S, Top, held) + 1 /\ T[Len(T)].kind = "value_separator"
        /\ expect \in {"first colon", "colon"} => NameThere(T, S, Top, element.key)
        /\ expect = "end" => Len(refs) = 0 /\ Len(nodes) > 0 /\ S[1].last = Len(T)

TreeSoFar(T, S) ==
    /\ Spanned(T, S, Len(nodes))
    /\ \A i \in 1..Len(nodes) : NodeIs(T, S, i, nodes[i], Extra(i))
    /\ Opened(S)
    /\ Waiting(T, S)

\* The innermost container, wherever the parser waits inside of one.
LEMMA TopIs ==
    ASSUME ReaderTypes, Agree
    PROVE  /\ Len(refs) \in Nat /\ Len(nodes) \in Nat
           /\ Len(refs) > 0 => Top \in 1..Len(nodes) /\ nodes[Top].kind \in Containers
           /\ expect \in {"array", "element"} => Len(refs) > 0 /\ nodes[Top].kind = "array"
           /\ expect \in {"object", "first colon", "colon", "member", "key"} =>
                 Len(refs) > 0 /\ nodes[Top].kind = "object"
           /\ expect = "value" => (KeyRead <=> Len(refs) > 0 /\ nodes[Top].kind = "object")
           /\ KeyRead => Len(refs) > 0
<1>1. Len(refs) \in Nat /\ Len(nodes) \in Nat /\ Len(states) \in Nat BY Lengths
<1>2. Len(refs) > 0 => Top \in 1..Len(nodes) BY <1>1 DEF Agree, Rising, Top
<1>3. PICK n \in Nat : n = Len(states) BY <1>1
<1>4. CASE HasPending
  <2>1. Len(refs) = Len(states) + 1 /\ expect \in {"array", "object", "first colon"}
    <3>1. Len(refs) = Len(states) + 1 BY <1>4 DEF Agree, Depths
    <3> QED BY <1>4, <3>1 DEF HasPending
  <2>2. nodes[Top].kind = IF expect = "array" THEN "array" ELSE "object"
      BY <1>4 DEF Agree, KindsMatch, Top
  <2>3. Len(refs) > 0
    <3>1. Len(refs) = n + 1 BY <1>3, <2>1
    <3> QED BY <3>1
  <2>4. nodes[Top].kind \in Containers BY <2>2 DEF Containers
  <2>5. expect \notin {"value", "element", "colon", "member", "key"} BY <2>1
  <2> QED BY <1>1, <1>2, <2>1, <2>2, <2>3, <2>4, <2>5
<1>5. CASE ~HasPending
  <2>1. Len(refs) = Len(states) /\ expect \notin {"array", "object", "first colon"}
    <3>1. Len(refs) = Len(states) BY <1>1, <1>5 DEF Agree, Depths
    <3> QED BY <1>5, <3>1 DEF HasPending
  <2>2. Len(refs) > 0 => nodes[Top].kind = KindAt(states, Len(states))
    <3>1. Len(refs) = n BY <1>3, <2>1
    <3>2. \A i \in 1..n : nodes[refs[i]].kind = KindAt(states, i) BY <1>3 DEF Agree, KindsMatch
    <3>3. n > 0 => n \in 1..n OBVIOUS
    <3> QED BY <1>3, <3>1, <3>2, <3>3 DEF Top
  <2>3. /\ expect = "element" => Len(states) > 0 /\ KindAt(states, Len(states)) = "array"
        /\ expect \in {"member", "key", "colon"} =>
              Len(states) > 0 /\ KindAt(states, Len(states)) = "object"
      BY DEF Agree, PlaceMatches
  <2>4. KindAt(states, Len(states)) \in Containers BY DEF KindAt, Containers
  <2> QED BY <1>1, <1>2, <2>1, <2>2, <2>3, <2>4 DEF KeyRead
<1> QED BY <1>4, <1>5

\* What it holds is complete: what is open is ref_stack, and that ends with it.
LEMMA TopHoldsClosed ==
    ASSUME ReaderTypes, Agree, Len(refs) > 0, NEW T, NEW S, Spanned(T, S, Len(nodes)), Opened(S)
    PROVE  AllClosed(S, Top) /\ S[Top].last = 0
<1>1. Len(refs) \in Nat /\ Len(nodes) \in Nat /\ Top \in 1..Len(nodes) BY TopIs
<1>2. S[Top].last = 0
  <2>1. Len(refs) \in 1..Len(refs) BY <1>1
  <2> QED BY <1>1, <2>1 DEF Opened, OpenIn, Top
<1>3. ASSUME NEW k \in 1..Len(S[Top].members) PROVE S[S[Top].members[k]].last # 0
  <2>1. SUFFICES ASSUME S[S[Top].members[k]].last = 0 PROVE FALSE OBVIOUS
  <2>2. PICK m : m = S[Top].members[k] OBVIOUS
  <2>3. m \in (Top + 1)..Len(nodes) BY <1>1, <2>2 DEF Spanned
  <2>4. m \in 1..Len(nodes) /\ m > Top BY <1>1, <2>3
  <2>5. PICK q \in 1..Len(refs) : refs[q] = m BY <2>1, <2>2, <2>4 DEF Opened, OpenIn
  <2>6. q = Len(refs) \/ q < Len(refs) BY <1>1
  <2>7. q < Len(refs) => refs[q] < refs[Len(refs)] BY <1>1 DEF Agree, Rising
  <2>8. refs[q] <= Top BY <1>1, <2>4, <2>5, <2>6, <2>7 DEF Top
  <2> QED BY <1>1, <2>4, <2>5, <2>8
<1> QED BY <1>2, <1>3 DEF AllClosed

\* What handle_value makes of the innermost container's items.
LEMMA ItemsHandled ==
    ASSUME ReaderTypes, Agree, ValueExpected, Len(refs) > 0,
           NEW W, NEW n \in [kind : NodeKinds, value : W, items : {<<>>}], HandleValue(n)
    PROVE  /\ nodes[Top].kind = "array" => nodes'[Top].items = Append(nodes[Top].items, New)
           /\ nodes[Top].kind = "object" =>
                 nodes'[Top].items = WithMember(nodes[Top].items, element.key, New)
<1>1. IsDoc(nodes) /\ Len(nodes) \in Nat /\ New \in Nat BY Lengths DEF ReaderTypes, New
<1>2. refs # <<>> OBVIOUS
<1>3. /\ Top \in 1..Len(nodes)
      /\ \/ nodes[Top].kind = "array"
         \/ nodes[Top].kind = "object" /\ element.node = Top
    BY <1>2, TopBeforeValue
<1> DEFINE items == IF nodes[Top].kind = "array" THEN Append(nodes[Top].items, New)
                    ELSE WithMember(nodes[Top].items, element.key, New)
           d == [nodes EXCEPT ![Top].items = items]
<1>4. nodes' = Append(d, n) BY <1>2, <1>3 DEF HandleValue, Holding
<1>5. nodes[Top].kind = "array" => items \in Seq(Nat)
  <2>1. nodes[Top].kind = "array" => nodes[Top].items \in Seq(Nat) BY <1>1, <1>3 DEF IsDoc
  <2>2. nodes[Top].kind = "array" => Append(nodes[Top].items, New) \in Seq(Nat)
      BY <1>1, <2>1, AppendProperties
  <2> QED BY <2>2
<1>6. /\ nodes[Top].kind = "array" => items = Append(nodes[Top].items, New)
      /\ nodes[Top].kind = "object" => items = WithMember(nodes[Top].items, element.key, New)
    OBVIOUS
<1> HIDE DEF items
<1>7. IsDoc(d) /\ Len(d) = Len(nodes) /\ d[Top].items = items
  <2>1. IsDoc(nodes) /\ Top \in 1..Len(nodes) BY <1>1, <1>3
  <2> QED BY <1>5, <2>1, NodeChanged
<1> HIDE DEF d
<1>8. nodes'[Top] = d[Top] BY <1>3, <1>4, <1>7, NodeAdded
<1> QED BY <1>6, <1>7, <1>8

-----------------------------------------------------------------------------
(* A value is in the tree, at the end of what is open.                     *)

\* What a value adds to the spans: R is S and one more, which top holds, if there is a top.
ValueAdded(S, R, n, top, first, last) ==
    /\ \A i \in 1..n : R[i].first = S[i].first /\ R[i].last = S[i].last
    /\ \A i \in 1..n : i # top => R[i].members = S[i].members
    /\ R[n + 1].first = first /\ R[n + 1].last = last /\ R[n + 1].members = <<>>
    /\ top # 0 => R[top].members = Append(S[top].members, n + 1)

\* The innermost container, and 0 around the first value.
TopOf(stack) == IF Len(stack) = 0 THEN 0 ELSE stack[Len(stack)]

LEMMA ValueWritten ==
    ASSUME ReaderTypes, Agree, ValueExpected, NEW T, NEW S, TreeSoFar(T, S),
           NEW W, NEW node \in [kind : NodeKinds, value : W, items : {<<>>}], HandleValue(node),
           NEW w \in TokenSet, NEW last \in {0, Len(T) + 1},
           \/ node.kind \notin Containers /\ last = Len(T) + 1 /\ ScalarIs(w, node)
           \/ node.kind \in Containers /\ last = 0 /\ w.kind = Opening[node.kind]
    PROVE  \E R : /\ Spanned(Append(T, w), R, Len(nodes'))
                  /\ \A i \in 1..Len(nodes') : NodeIs(Append(T, w), R, i, nodes'[i], {})
                  /\ ValueAdded(S, R, Len(nodes), TopOf(refs), Len(T) + 1, last)
<1>1. PICK n \in Nat : n = Len(nodes) /\ New = n + 1 BY TopIs DEF New
<1>2. Len(refs) \in Nat BY TopIs
<1>3. PICK top \in 0..n : top = TopOf(refs) /\ (top # 0 => Len(refs) > 0 /\ top = Top)
                          /\ (Len(refs) > 0 => top # 0)
  <2>1. CASE Len(refs) = 0 BY <1>1, <2>1 DEF TopOf, Top
  <2>2. CASE Len(refs) > 0
    <3>1. Top \in 1..n BY <1>1, <2>2, TopIs
    <3>2. TopOf(refs) = Top BY <1>2, <2>2 DEF TopOf, Top
    <3> QED BY <2>2, <3>1, <3>2
  <2> QED BY <1>2, <2>1, <2>2
<1>4. Spanned(T, S, n) /\ Opened(S) BY <1>1 DEF TreeSoFar
<1>5. top # 0 => S[top].last = 0 /\ AllClosed(S, top) BY <1>1, <1>3, <1>4, TopHoldsClosed
<1> DEFINE R == Pushed(S, top, Span(Len(T) + 1, last, <<>>))
           U == Append(T, w)
<1>6. /\ Spanned(U, R, n + 1) /\ Later(T, S, U, R)
      /\ \A i \in 1..n : i # top => SameSpan(S, R, i)
      /\ R[n + 1].first = Len(T) + 1 /\ R[n + 1].last = last /\ R[n + 1].members = <<>>
      /\ top # 0 => /\ R[top].first = S[top].first /\ R[top].last = S[top].last
                    /\ R[top].members = Append(S[top].members, n + 1)
    BY ONLY <1>4, <1>5, PushedSpans, n \in Nat, top \in 0..n, w \in TokenSet,
            last \in {0, Len(T) + 1}
<1>7. U[Len(T) + 1] = w BY <1>4, TokenAdded DEF Spanned
<1> HIDE DEF R, U
<1>8. /\ Len(nodes') = n + 1 /\ nodes'[n + 1] = node
      /\ \A i \in 1..n : nodes'[i].kind = nodes[i].kind
      /\ \A i \in 1..n : i # top => nodes'[i] = nodes[i]
  <2>1. /\ Len(nodes') = Len(nodes) + 1 /\ nodes'[New] = node
        /\ \A i \in 1..Len(nodes) : nodes'[i].kind = nodes[i].kind
        /\ \A i \in 1..Len(nodes) : refs = <<>> \/ i # Top => nodes'[i] = nodes[i]
      BY ValueHandled
  <2>2. refs = <<>> \/ Len(refs) > 0 BY EmptySeq DEF ReaderTypes
  <2> QED BY <1>1, <1>3, <2>1, <2>2
<1>9. ASSUME NEW i \in 1..n, i # top PROVE NodeIs(U, R, i, nodes'[i], {})
  <2>1. Extra(i) = {} BY <1>3, <1>9, TopIs DEF Extra
  <2>2. NodeIs(T, S, i, nodes[i], {}) BY <1>1, <2>1 DEF TreeSoFar
  <2>3. PICK old : old = nodes[i] /\ nodes'[i] = old BY <1>8, <1>9
  <2>4. NodeIs(T, S, i, old, {}) /\ SameSpan(S, R, i) BY <1>6, <1>9, <2>2, <2>3
  <2>5. NodeIs(U, R, i, old, {}) BY <1>4, <1>6, <2>4, NodeKept
  <2> QED BY <2>3, <2>5
<1>10. ASSUME top # 0 PROVE NodeIs(U, R, top, nodes'[top], {})
  <2>1. Len(refs) > 0 /\ top = Top /\ top \in 1..n BY <1>3, <1>10
  <2>2. PICK old : old = nodes[Top] OBVIOUS
  <2>3. PICK more : more = nodes'[Top] OBVIOUS
  <2>4. PICK extra : extra = Extra(Top) OBVIOUS
  <2>5. PICK key : key = element.key OBVIOUS
  <2>6. /\ old = nodes[Top] /\ more = nodes'[Top]
        /\ extra = Extra(Top) /\ key = element.key
      BY <2>2, <2>3, <2>4, <2>5
  <2>7. old.kind \in Containers /\ more.kind = old.kind BY <1>8, <2>1, <2>6, TopIs
  <2>8. Room(T, S, top, old.kind, key)
    <3>1. Waiting(T, S) BY DEF TreeSoFar
    <3>2. Len(refs) # 0 BY <2>1
    <3>3. Room(T, S, Top, nodes[Top].kind, element.key) BY Zenon, <3>1, <3>2 DEF Waiting
    <3> QED BY <2>1, <2>6, <3>3
  <2>9. NodeIs(T, S, top, old, extra) BY <1>1, <2>1, <2>6 DEF TreeSoFar
  <2>10. /\ old.kind = "array" => more.items = Append(old.items, n + 1)
         /\ old.kind = "object" => more.items = WithMember(old.items, key, n + 1)
      BY <1>1, <2>1, <2>6, ItemsHandled
  <2>11. old.kind = "object" => extra = {key}
    <3>1. old.kind = "object" => expect = "value"
      <4>1. expect = "array" => nodes[Top].kind = "array" BY TopIs
      <4> QED BY <2>6, <4>1 DEF ValueExpected
    <3>2. old.kind = "object" => KeyRead BY <2>1, <2>6, <3>1, TopIs
    <3> QED BY <2>6, <3>2 DEF Extra
  <2>12. NodeIs(U, R, top, more, {})
      BY <1>4, <1>5, <1>6, <1>10, <2>1, <2>7, <2>8, <2>9, <2>10, <2>11, TopPushed
  <2> QED BY <2>1, <2>6, <2>12
<1>11. NodeIs(U, R, n + 1, node, {})
  <2>1. node.items = <<>> OBVIOUS
  <2> QED BY <1>6, <1>7, <2>1, NewNodeIs
<1>12. \A i \in 1..(n + 1) : NodeIs(U, R, i, nodes'[i], {})
  <2>1. \A i \in 1..(n + 1) : i \in 1..n \/ i = n + 1 OBVIOUS
  <2> QED BY <1>8, <1>9, <1>10, <1>11, <2>1
<1>13. ValueAdded(S, R, n, top, Len(T) + 1, last)
  <2>1. Len(S) = n /\ \A i \in 1..n : R[i].first = S[i].first BY <1>4, <1>6, SpanTypes DEF Later
  <2>2. \A i \in 1..n : i # top => R[i].last = S[i].last /\ R[i].members = S[i].members
      BY <1>6 DEF SameSpan
  <2> QED BY <1>6, <2>1, <2>2 DEF ValueAdded
<1> QED BY <1>1, <1>3, <1>6, <1>8, <1>12, <1>13 DEF U

-----------------------------------------------------------------------------
(* What is open, after a value, and after the end of a container.          *)

RisingTo(stack, n) ==
    /\ stack \in Seq(Nat)
    /\ \A q \in 1..Len(stack) : stack[q] \in 1..n
    /\ \A p, q \in 1..Len(stack) : p < q => stack[p] < stack[q]

\* The stack of what is open, and where the next value is: the first token, at first.
OpenBefore(S, n, stack, first) ==
    /\ RisingTo(stack, n) /\ OpenIn(S, n, stack)
    /\ \A i \in 1..n : S[i].members \in Seq(Nat)
    /\ Len(stack) = 0 => n = 0
    /\ n = 0 => first = 1

LEMMA OpenAfterValue ==
    ASSUME NEW S, NEW R, NEW n \in Nat, NEW stack, NEW first, OpenBefore(S, n, stack, first),
           NEW last, ValueAdded(S, R, n, TopOf(stack), first, last)
    PROVE  /\ last # 0 => OpenIn(R, n + 1, stack)
           /\ last = 0 => OpenIn(R, n + 1, Append(stack, n + 1))
<1> DEFINE top == TopOf(stack)
<1>1. top = IF Len(stack) = 0 THEN 0 ELSE stack[Len(stack)] BY DEF TopOf
<1> USE DEF OpenBefore
<1> HIDE DEF top
<1>2. PICK d \in Nat : d = Len(stack) BY DEF RisingTo
<1>3. /\ stack \in Seq(Nat)
      /\ \A q \in 1..d : stack[q] \in 1..n
      /\ \A p, q \in 1..d : p < q => stack[p] < stack[q]
    BY <1>2 DEF RisingTo
<1>4. /\ \A i \in 1..n : R[i].first = S[i].first /\ R[i].last = S[i].last
      /\ \A i \in 1..n : i # top => R[i].members = S[i].members
      /\ R[n + 1].first = first /\ R[n + 1].last = last /\ R[n + 1].members = <<>>
      /\ top # 0 => R[top].members = Append(S[top].members, n + 1)
    BY DEF ValueAdded, top
<1>5. /\ \A i \in 1..n : S[i].last = 0 <=> \E q \in 1..d : stack[q] = i
      /\ \A q \in 2..d :
            LET ms == S[stack[q - 1]].members IN Len(ms) > 0 /\ ms[Len(ms)] = stack[q]
      /\ n > 0 => S[1].first = 1
      /\ d > 0 => stack[1] = 1
    BY <1>2 DEF OpenIn
<1>6. d > 0 => top = stack[d] /\ top \in 1..n
  <2>1. d > 0 => d \in 1..d OBVIOUS
  <2> QED BY <1>1, <1>2, <1>3, <2>1
<1>7. ASSUME NEW q \in 2..d
      PROVE  LET ms == R[stack[q - 1]].members IN Len(ms) > 0 /\ ms[Len(ms)] = stack[q]
  <2>1. q - 1 \in 1..d /\ q - 1 < d /\ d \in 1..d OBVIOUS
  <2>2. stack[q - 1] < stack[d] /\ stack[q - 1] \in 1..n BY <1>3, <2>1
  <2>3. stack[q - 1] # top BY <1>6, <2>1, <2>2
  <2>4. R[stack[q - 1]].members = S[stack[q - 1]].members BY <1>4, <2>2, <2>3
  <2> QED BY <1>5, <2>4
<1>8. R[1].first = 1
  <2>1. CASE n > 0 BY <1>4, <1>5, <2>1
  <2>2. CASE n = 0 BY <1>4, <2>2
  <2> QED BY <2>1, <2>2
<1>9. n + 1 \in Nat /\ n + 1 > 0 OBVIOUS
<1>10. ASSUME last # 0 PROVE OpenIn(R, n + 1, stack)
  <2>1. ASSUME NEW i \in 1..(n + 1)
        PROVE  R[i].last = 0 <=> \E q \in 1..d : stack[q] = i
    <3>1. CASE i \in 1..n BY <1>4, <1>5, <3>1
    <3>2. CASE i = n + 1
      <4>1. \A q \in 1..d : stack[q] # n + 1
        <5>1. \A x \in 1..n : x # n + 1 OBVIOUS
        <5> QED BY <1>3, <5>1
      <4> QED BY <1>4, <1>10, <3>2, <4>1
    <3> QED BY <3>1, <3>2
  <2> QED BY <1>2, <1>5, <1>7, <1>8, <2>1 DEF OpenIn
<1>11. ASSUME last = 0 PROVE OpenIn(R, n + 1, Append(stack, n + 1))
  <2>1. Append(stack, n + 1) \in Seq(Nat) BY <1>3, <1>9, AppendProperties
  <2>2. PICK more \in Seq(Nat) : more = Append(stack, n + 1) BY <2>1
  <2>3. /\ Len(more) = d + 1 /\ more[d + 1] = n + 1
        /\ \A q \in 1..d : more[q] = stack[q]
      BY <1>2, <1>3, <1>9, <2>2, AppendProperties
  <2>4. ASSUME NEW i \in 1..(n + 1)
        PROVE  R[i].last = 0 <=> \E q \in 1..(d + 1) : more[q] = i
    <3>1. CASE i \in 1..n
      <4>1. R[i].last = 0 <=> \E q \in 1..d : stack[q] = i BY <1>4, <1>5, <3>1
      <4>2. (\E q \in 1..d : stack[q] = i) <=> \E q \in 1..(d + 1) : more[q] = i
        <5>1. i # n + 1 BY <3>1
        <5>2. \A q \in 1..(d + 1) : q \in 1..d \/ q = d + 1 OBVIOUS
        <5>3. \A q \in 1..d : q \in 1..(d + 1) OBVIOUS
        <5> QED BY <2>3, <5>1, <5>2, <5>3
      <4> QED BY <4>1, <4>2
    <3>2. CASE i = n + 1
      <4>1. d + 1 \in 1..(d + 1) OBVIOUS
      <4> QED BY <1>4, <1>11, <2>3, <3>2, <4>1
    <3> QED BY <3>1, <3>2
  <2>5. ASSUME NEW q \in 2..(d + 1)
        PROVE  LET ms == R[more[q - 1]].members IN Len(ms) > 0 /\ ms[Len(ms)] = more[q]
    <3>1. CASE q \in 2..d
      <4>1. q - 1 \in 1..d /\ q \in 1..d BY <3>1
      <4>2. more[q] = stack[q] /\ more[q - 1] = stack[q - 1] BY <2>3, <4>1
      <4> QED BY <1>7, <3>1, <4>2
    <3>2. CASE q = d + 1
      <4>1. q - 1 = d /\ d \in 1..d /\ d > 0 BY <3>2
      <4>2. more[q] = n + 1 /\ more[q - 1] = top BY <1>6, <2>3, <3>2, <4>1
      <4>3. top # 0 /\ S[top].members \in Seq(Nat) BY <1>6, <4>1
      <4>4. PICK ms \in Seq(Nat) : ms = S[top].members BY <4>3
      <4>5. R[top].members = Append(ms, n + 1) BY <1>4, <4>3, <4>4
      <4>6. Len(Append(ms, n + 1)) > 0 /\ Append(ms, n + 1)[Len(Append(ms, n + 1))] = n + 1
          BY <1>9, AppendProperties
      <4> QED BY <4>2, <4>5, <4>6
    <3> QED BY <3>1, <3>2
  <2>6. more[1] = 1
    <3>1. CASE d = 0 BY <1>2, <2>3, <3>1
    <3>2. CASE d > 0
      <4>1. 1 \in 1..d BY <3>2
      <4> QED BY <1>5, <2>3, <3>2, <4>1
    <3> QED BY <3>1, <3>2
  <2> QED BY <1>8, <2>2, <2>3, <2>4, <2>5, <2>6 DEF OpenIn
<1> QED BY <1>10, <1>11

LEMMA OpenAfterEnd ==
    ASSUME NEW S, NEW R, NEW n \in Nat, NEW stack, RisingTo(stack, n), OpenIn(S, n, stack),
           Len(stack) > 0, NEW top, top = stack[Len(stack)],
           \A i \in 1..n : R[i].first = S[i].first /\ R[i].members = S[i].members,
           \A i \in 1..n : i # top => R[i].last = S[i].last,
           R[top].last # 0
    PROVE  OpenIn(R, n, Pop(stack))
<1>1. PICK d \in Nat : d = Len(stack) /\ d > 0 BY DEF RisingTo
<1>2. /\ stack \in Seq(Nat)
      /\ \A q \in 1..d : stack[q] \in 1..n
      /\ \A p, q \in 1..d : p < q => stack[p] < stack[q]
    BY <1>1 DEF RisingTo
<1>3. /\ \A i \in 1..n : S[i].last = 0 <=> \E q \in 1..d : stack[q] = i
      /\ \A q \in 2..d :
            LET ms == S[stack[q - 1]].members IN Len(ms) > 0 /\ ms[Len(ms)] = stack[q]
      /\ n > 0 => S[1].first = 1
      /\ d > 0 => stack[1] = 1
    BY <1>1 DEF OpenIn
<1>4. PICK less : less = Pop(stack) OBVIOUS
<1>5. PICK b \in Nat : d = b + 1 BY <1>1
<1>6. Len(less) = b /\ \A q \in 1..b : less[q] = stack[q]
  <2>1. IsSeq(stack) BY <1>2 DEF IsSeq
  <2>2. Len(less) = d - 1 /\ \A q \in 1..(d - 1) : less[q] = stack[q]
      BY <1>1, <1>4, <2>1, PopSeq
  <2>3. d - 1 = b BY <1>5
  <2> QED BY <2>2, <2>3
<1>7. top = stack[b + 1] /\ \A q \in 1..b : stack[q] < top /\ stack[q] \in 1..n
  <2>1. \A q \in 1..b : q \in 1..d /\ q < b + 1 BY <1>5
  <2>2. b + 1 \in 1..d BY <1>5
  <2> QED BY <1>1, <1>2, <1>5, <2>1, <2>2
<1>8. top \in 1..n
  <2>1. b + 1 \in 1..d BY <1>5
  <2> QED BY <1>2, <1>5, <1>7, <2>1
<1>9. ASSUME NEW i \in 1..n
      PROVE  R[i].last = 0 <=> \E q \in 1..b : less[q] = i
  <2>1. CASE i = top
    <3>1. \A q \in 1..b : less[q] # top BY <1>2, <1>6, <1>7, <1>8
    <3> QED BY <2>1, <3>1
  <2>2. CASE i # top
    <3>1. R[i].last = 0 <=> \E q \in 1..d : stack[q] = i BY <1>3, <2>2
    <3>2. \A q \in 1..d : q \in 1..b \/ q = b + 1 BY <1>5
    <3>3. \A q \in 1..b : q \in 1..d BY <1>5
    <3> QED BY <1>6, <1>7, <2>2, <3>1, <3>2, <3>3
  <2> QED BY <2>1, <2>2
<1>10. ASSUME NEW q \in 2..b
       PROVE  LET ms == R[less[q - 1]].members IN Len(ms) > 0 /\ ms[Len(ms)] = less[q]
  <2>1. q - 1 \in 1..b /\ q \in 1..b /\ q \in 2..d BY <1>5
  <2>2. less[q] = stack[q] /\ less[q - 1] = stack[q - 1] /\ stack[q - 1] \in 1..n
      BY <1>6, <1>7, <2>1
  <2>3. R[less[q - 1]].members = S[stack[q - 1]].members BY <2>2
  <2>4. LET ms == S[stack[q - 1]].members IN Len(ms) > 0 /\ ms[Len(ms)] = stack[q]
      BY <1>3, <2>1
  <2> QED BY <2>2, <2>3, <2>4
<1>11. n > 0 => R[1].first = 1
  <2>1. n > 0 => 1 \in 1..n OBVIOUS
  <2> QED BY <1>3, <2>1
<1>12. b > 0 => less[1] = 1
  <2>1. b > 0 => 1 \in 1..b OBVIOUS
  <2> QED BY <1>1, <1>3, <1>6, <2>1
<1>13. OpenIn(R, n, less)
  <2>1. Len(less) = b BY <1>6
  <2>2. \A i \in 1..n : R[i].last = 0 <=> \E q \in 1..Len(less) : less[q] = i BY <1>9, <2>1
  <2>3. \A q \in 2..Len(less) :
           LET ms == R[less[q - 1]].members IN Len(ms) > 0 /\ ms[Len(ms)] = less[q]
      BY <1>10, <2>1
  <2>4. Len(less) > 0 => less[1] = 1 BY <1>12, <2>1
  <2> QED BY Zenon, <1>11, <2>2, <2>3, <2>4 DEF OpenIn
<1> QED BY <1>4, <1>13

LEMMA StackRises ==
    ASSUME ReaderTypes, Agree PROVE RisingTo(refs, Len(nodes))
BY DEF ReaderTypes, Agree, Rising, RisingTo

\* The last of a container's members, after a value in it.
LEMMA UptoAdded ==
    ASSUME NEW S, NEW R, NEW n \in Nat, NEW top \in 1..n, S[top].members \in Seq(Nat),
           NEW first, NEW last, ValueAdded(S, R, n, top, first, last)
    PROVE  Len(R[top].members) > 0 /\ Upto(R, top, Len(R[top].members)) = last
<1>1. PICK ms \in Seq(Nat), k \in Nat : ms = S[top].members /\ k = n + 1
  <2>1. n + 1 \in Nat OBVIOUS
  <2> QED BY <2>1
<1>2. R[top].members = Append(ms, k) /\ R[k].last = last BY <1>1 DEF ValueAdded
<1>3. PICK ns \in Seq(Nat), h \in Nat : ns = Append(ms, k) /\ h = Len(ms)
  <2>1. Append(ms, k) \in Seq(Nat) /\ Len(ms) \in Nat BY AppendProperties
  <2> QED BY <2>1
<1>4. Len(ns) = h + 1 /\ ns[h + 1] = k BY <1>3, AppendProperties
<1>5. R[top].members = ns /\ h + 1 # 0 /\ h + 1 > 0 BY <1>2, <1>3
<1> QED BY <1>2, <1>4, <1>5 DEF Upto

\* What is there around a value.
LEMMA AroundValue ==
    ASSUME ReaderTypes, Agree, ValueExpected, NEW T, NEW S, TreeSoFar(T, S)
    PROVE  /\ Len(refs) = 0 => Len(nodes) = 0 /\ Len(T) = 0
           /\ Len(nodes) = 0 => Len(refs) = 0
           /\ TopOf(refs) \in 0..Len(nodes)
           /\ Len(T) \in Nat
           /\ \A i \in 1..Len(nodes) : S[i].members \in Seq(Nat)
<1>1. Len(nodes) \in Nat /\ Len(refs) \in Nat /\ (Len(refs) > 0 => Top \in 1..Len(nodes)) BY TopIs
<1>2. Spanned(T, S, Len(nodes)) /\ Waiting(T, S) BY DEF TreeSoFar
<1>3. Len(refs) = 0 => Len(nodes) = 0 /\ Len(T) = 0 BY <1>2 DEF Waiting
<1>4. Len(T) \in Nat /\ \A i \in 1..Len(nodes) : S[i].members \in Seq(Nat)
    BY <1>1, <1>2, SpanTypes
<1>5. TopOf(refs) \in 0..Len(nodes) BY <1>1 DEF TopOf, Top
<1>6. Len(nodes) = 0 => Len(refs) = 0 BY <1>1
<1> QED BY <1>3, <1>4, <1>5, <1>6

\* A scalar.
LEMMA ValueTree ==
    ASSUME ReaderTypes, Agree, NEW T, NEW S, TreeSoFar(T, S), NEW w \in TokenSet,
           NEW token, NEW text0, w.kind = token, w.value = text0, Value(token, text0)
    PROVE  \E R : TreeSoFar(Append(T, w), R)'
<1> DEFINE value == IF token \in {"literal_true", "literal_false", "literal_null"}
                    THEN <<>> ELSE text0
           node == Leaf(token, value)
<1>1. /\ ValueExpected /\ HandleValue(node) /\ states' = Level /\ expect' = After(Level)
      /\ refs' = refs /\ element' = element /\ token \in Scalars
    BY DEF Value
<1>2. /\ node.kind \notin Containers /\ ScalarIs(w, node)
  <2>1. node.kind = token /\ node.value = value BY DEF Leaf
  <2>2. token \notin Containers BY <1>1 DEF Scalars, Numeric, Containers
  <2>3. token \notin {"literal_true", "literal_false", "literal_null"} => value = text0 OBVIOUS
  <2>4. token \in DOMAIN LiteralNames <=>
           token \in {"literal_true", "literal_false", "literal_null"}
      BY DEF LiteralNames
  <2> QED BY <2>1, <2>2, <2>3, <2>4 DEF ScalarIs
<1> HIDE DEF value
<1>3. node \in [kind : NodeKinds, value : {value}, items : {<<>>}]
    BY <1>1 DEF Leaf, NodeKinds
<1> HIDE DEF node
<1>4. PICK n \in Nat, t \in Nat, top \in Nat :
         n = Len(nodes) /\ t = Len(T) /\ top = TopOf(refs) /\ top \in 0..n
  <2>1. PICK n \in Nat : n = Len(nodes) BY TopIs
  <2>2. TopOf(refs) \in 0..Len(nodes) /\ Len(T) \in Nat BY <1>1, AroundValue
  <2>3. TopOf(refs) \in 0..n /\ TopOf(refs) \in Nat BY <2>1, <2>2
  <2> QED BY <2>1, <2>2, <2>3
<1>5. t + 1 \in {0, t + 1} /\ t + 1 # 0 OBVIOUS
<1>6. PICK R : /\ Spanned(Append(T, w), R, Len(nodes'))
               /\ \A i \in 1..Len(nodes') : NodeIs(Append(T, w), R, i, nodes'[i], {})
               /\ ValueAdded(S, R, n, top, t + 1, t + 1)
    BY <1>1, <1>2, <1>3, <1>4, <1>5, ValueWritten
<1>7. Len(nodes') = n + 1 /\ Len(Append(T, w)) = t + 1
  <2>1. Len(nodes') = Len(nodes) + 1 BY <1>1, <1>3, ValueHandled
  <2>2. Len(Append(T, w)) = Len(T) + 1 BY TokenAdded DEF TreeSoFar, Spanned
  <2> QED BY <1>4, <2>1, <2>2
<1>8. /\ Len(refs) = 0 => n = 0 /\ t = 0
      /\ n = 0 => Len(refs) = 0
      /\ \A i \in 1..n : S[i].members \in Seq(Nat)
    BY <1>1, <1>4, AroundValue
<1>9. OpenIn(R, n + 1, refs)
  <2>1. RisingTo(refs, n) BY <1>4, StackRises
  <2>2. OpenIn(S, n, refs) BY <1>4 DEF TreeSoFar, Opened
  <2>3. n = 0 => t + 1 = 1 BY <1>8
  <2>4. PICK d \in Nat : d = t + 1 /\ d # 0 /\ (n = 0 => d = 1) BY <2>3
  <2>5. PICK stack : stack = refs OBVIOUS
  <2>6. ValueAdded(S, R, n, TopOf(stack), d, d) BY <1>4, <1>6, <2>4, <2>5
  <2>7. /\ Len(stack) = 0 => n = 0
        /\ RisingTo(stack, n) /\ OpenIn(S, n, stack)
      BY <1>8, <2>1, <2>2, <2>5
  <2>8. \A i \in 1..n : S[i].members \in Seq(Nat) BY <1>8
  <2>9. OpenBefore(S, n, stack, d) /\ n \in Nat BY <2>4, <2>7, <2>8 DEF OpenBefore
  <2>10. /\ d # 0 => OpenIn(R, n + 1, stack)
         /\ d = 0 => OpenIn(R, n + 1, Append(stack, n + 1))
      BY ONLY Zenon, <2>6, <2>9, OpenAfterValue
  <2> QED BY <2>4, <2>5, <2>10
<1>10. \/ Len(refs) = 0 /\ expect' = "end"
       \/ Len(refs) > 0 /\ expect' \in {"element", "member"}
    BY <1>1, AfterWhat, LevelMatches
<1>11. ~KeyRead' BY <1>10 DEF KeyRead
<1>12. PICK U : U = Append(T, w) OBVIOUS
<1>13. Waiting(U, R)'
  <2>1. CASE Len(refs) = 0 /\ expect' = "end"
    <3>1. R[1].last = t + 1 BY <1>6, <1>8, <2>1 DEF ValueAdded
    <3>2. Len(refs') = 0 /\ Len(nodes') > 0 /\ R[1].last = Len(U)
        BY <1>1, <1>7, <1>12, <2>1, <3>1
    <3> QED BY <2>1, <3>2 DEF Waiting, ValueExpected, Containers
  <2>2. CASE Len(refs) > 0 /\ expect' \in {"element", "member"}
    <3>1. top = Top /\ top \in 1..n /\ Top' = Top
      <4>1. Top' = Top BY <1>1 DEF Top
      <4>2. Len(refs) # 0 BY <2>2
      <4>3. top = Top BY <1>4, <4>2 DEF TopOf, Top
      <4>4. Top \in 1..Len(nodes) BY <2>2, TopIs
      <4> QED BY <1>4, <4>1, <4>3, <4>4
    <3>2. Len(R[top].members) > 0 /\ Upto(R, top, Len(R[top].members)) = t + 1
        BY <1>6, <1>8, <3>1, UptoAdded
    <3>3. Len(R[Top'].members) > 0 /\ Len(U) = Upto(R, Top', Len(R[Top'].members))
        BY <1>7, <1>12, <3>1, <3>2
    <3> QED BY <2>2, <3>3 DEF Waiting, ValueExpected, Containers
  <2> QED BY <1>10, <2>1, <2>2
<1>14. \A i \in 1..Len(nodes') : NodeIs(U, R, i, nodes'[i], Extra(i)')
  <2>1. \A i : Extra(i)' = {} BY <1>11 DEF Extra
  <2> QED BY <1>6, <1>12, <2>1
<1>15. Spanned(U, R, Len(nodes')) /\ Opened(R)' BY <1>1, <1>6, <1>7, <1>9, <1>12 DEF Opened
<1>16. TreeSoFar(U, R)' BY <1>13, <1>14, <1>15 DEF TreeSoFar
<1> QED BY <1>12, <1>16

\* A container that begins, and has no member yet.
LEMMA BeginTree ==
    ASSUME ReaderTypes, Agree, NEW T, NEW S, TreeSoFar(T, S), NEW w \in TokenSet,
           NEW token, NEW kind \in Containers, w.kind = token, Begin(token, kind)
    PROVE  \E R : TreeSoFar(Append(T, w), R)'
<1> DEFINE node == Empty(kind)
<1>1. /\ ValueExpected /\ HandleValue(node) /\ expect' = kind
      /\ refs' = Append(refs, New) /\ element' = element /\ w.kind = BeginOf[kind]
    BY DEF Begin, StartContainer
<1>2. /\ node.kind = kind /\ node.kind \in Containers /\ w.kind = Opening[kind]
      /\ node \in [kind : NodeKinds, value : {<<>>}, items : {<<>>}]
  <2>1. kind = "array" \/ kind = "object" BY DEF Containers
  <2>2. w.kind = Opening[kind] BY <1>1, <2>1 DEF BeginOf, Opening
  <2>3. kind \in NodeKinds BY DEF NodeKinds
  <2>4. node = [kind |-> kind, value |-> <<>>, items |-> <<>>] BY DEF Empty
  <2> QED BY <2>2, <2>3, <2>4
<1> HIDE DEF node
<1>3. PICK n \in Nat, t \in Nat, top \in Nat :
         n = Len(nodes) /\ t = Len(T) /\ top = TopOf(refs) /\ top \in 0..n
  <2>1. PICK n \in Nat : n = Len(nodes) BY TopIs
  <2>2. TopOf(refs) \in 0..Len(nodes) /\ Len(T) \in Nat BY <1>1, AroundValue
  <2>3. TopOf(refs) \in 0..n /\ TopOf(refs) \in Nat BY <2>1, <2>2
  <2> QED BY <2>1, <2>2, <2>3
<1>4. PICK d \in Nat, z \in Nat : d = t + 1 /\ z = 0 /\ z \in {0, t + 1} OBVIOUS
<1>5. PICK R : /\ Spanned(Append(T, w), R, Len(nodes'))
               /\ \A i \in 1..Len(nodes') : NodeIs(Append(T, w), R, i, nodes'[i], {})
               /\ ValueAdded(S, R, n, top, t + 1, 0)
    BY <1>1, <1>2, <1>3, <1>4, ValueWritten
<1>6. Len(nodes') = n + 1 /\ nodes'[n + 1] = node /\ Len(Append(T, w)) = t + 1
  <2>1. Len(nodes') = Len(nodes) + 1 /\ nodes'[New] = node BY <1>1, <1>2, ValueHandled
  <2>2. Len(Append(T, w)) = Len(T) + 1 BY TokenAdded DEF TreeSoFar, Spanned
  <2> QED BY <1>3, <2>1, <2>2 DEF New
<1>7. PICK stack : stack = refs OBVIOUS
<1>8. OpenIn(R, n + 1, Append(stack, n + 1))
  <2>1. RisingTo(stack, n) BY <1>3, <1>7, StackRises
  <2>2. OpenIn(S, n, stack) BY <1>3, <1>7 DEF TreeSoFar, Opened
  <2>3. /\ Len(refs) = 0 => n = 0 /\ t = 0
        /\ n = 0 => Len(refs) = 0
        /\ \A i \in 1..n : S[i].members \in Seq(Nat)
      BY <1>1, <1>3, AroundValue
  <2>4. n = 0 => d = 1 BY <1>4, <2>3
  <2>5. ValueAdded(S, R, n, TopOf(stack), d, z) BY <1>3, <1>4, <1>5, <1>7
  <2>6. OpenBefore(S, n, stack, d) /\ n \in Nat BY <1>7, <2>1, <2>2, <2>3, <2>4 DEF OpenBefore
  <2>7. /\ z # 0 => OpenIn(R, n + 1, stack)
        /\ z = 0 => OpenIn(R, n + 1, Append(stack, n + 1))
      BY ONLY Zenon, <2>5, <2>6, OpenAfterValue
  <2> QED BY <1>4, <2>7
<1>9. Len(refs') > 0 /\ Top' = n + 1
  <2>1. refs \in Seq(Nat) /\ New \in Nat /\ New = n + 1 BY <1>3 DEF ReaderTypes, New
  <2>2. Len(refs') = Len(refs) + 1 /\ refs'[Len(refs) + 1] = New /\ Len(refs) \in Nat
      BY <1>1, <2>1, AppendProperties
  <2> QED BY <2>1, <2>2 DEF Top
<1>10. ~KeyRead' BY <1>1 DEF KeyRead, Containers
<1>11. PICK U : U = Append(T, w) OBVIOUS
<1>12. PICK top2 \in Nat : top2 = n + 1 OBVIOUS
<1>13. R[top2].first = t + 1 /\ Len(R[top2].members) = 0 BY <1>5, <1>12 DEF ValueAdded
<1>14. Upto(R, top2, 0) = t + 1 BY <1>13 DEF Upto
<1>15. kind = "array" => Room(U, R, top2, kind, element.key)
  <2>1. PICK one \in Nat, h \in Nat : one = 1 /\ h = 0 /\ one - 1 = h /\ h + 1 = one OBVIOUS
  <2>2. Len(R[top2].members) = h /\ Upto(R, top2, h) = t + 1 BY <1>13, <1>14, <2>1
  <2>3. FirstOf(R, top2, one) = t + 2 BY <2>1, <2>2 DEF FirstOf
  <2>4. FirstOf(R, top2, Len(R[top2].members) + 1) = t + 2 BY <2>1, <2>2, <2>3
  <2>5. Len(U) + 1 = t + 2 BY <1>6, <1>11
  <2>6. ~(Len(R[top2].members) > 0) BY <1>13
  <2> QED BY <2>4, <2>5, <2>6 DEF Room
<1>16. Waiting(U, R)'
  <2>1. Len(R[Top'].members) = 0 /\ Len(U) = Upto(R, Top', Len(R[Top'].members))
      BY <1>6, <1>9, <1>11, <1>12, <1>13, <1>14
  <2>2. Len(refs') # 0 BY <1>9
  <2>3. nodes'[Top'].kind = kind BY <1>2, <1>6, <1>9
  <2>4. ValueExpected' => kind = "array" BY <1>1 DEF ValueExpected, Containers
  <2>5. ValueExpected' => Room(U, R, Top', nodes'[Top'].kind, element'.key)
      BY <1>1, <1>9, <1>12, <1>15, <2>3, <2>4
  <2>6. expect' \notin {"element", "member", "key", "first colon", "colon", "end"}
      BY <1>1 DEF Containers
  <2> QED BY <2>1, <2>2, <2>5, <2>6 DEF Waiting
<1>17. \A i \in 1..Len(nodes') : NodeIs(U, R, i, nodes'[i], Extra(i)')
  <2>1. \A i : Extra(i)' = {} BY <1>10 DEF Extra
  <2> QED BY <1>5, <1>11, <2>1
<1>18. Opened(R)'
  <2>1. refs' = Append(stack, n + 1) BY <1>1, <1>3, <1>7 DEF New
  <2> QED BY <1>6, <1>8, <2>1 DEF Opened
<1>19. TreeSoFar(U, R)' BY <1>5, <1>11, <1>16, <1>17, <1>18 DEF TreeSoFar
<1> QED BY <1>11, <1>19

\* What ends a container, of either kind, empty or not.
LEMMA EndsTop ==
    ASSUME ReaderTypes, Agree, NEW token, EndEmpty(token) \/ End(token)
    PROVE  /\ Len(refs) > 0 /\ token = Closing[nodes[Top].kind]
           /\ expect \in {"array", "object", "element", "member"}
           /\ refs' = Pop(refs) /\ nodes' = nodes /\ element' = element
           /\ \/ Len(refs') = 0 /\ expect' = "end"
              \/ Len(refs') > 0 /\ expect' \in {"element", "member"}
<1>1. /\ expect \in {"array", "object", "element", "member"}
      /\ refs' = Pop(refs) /\ nodes' = nodes /\ element' = element
      /\ expect' = After(states')
    BY DEF EndEmpty, End, EndContainer, Containers
<1>2. ReaderTypes' /\ Agree' BY EndEmptyAgrees, EndAgrees
<1>3. Len(refs) > 0 /\ token = Closing[nodes[Top].kind]
  <2>1. /\ expect \in {"array", "element"} => Len(refs) > 0 /\ nodes[Top].kind = "array"
        /\ expect \in {"object", "member"} => Len(refs) > 0 /\ nodes[Top].kind = "object"
      BY TopIs
  <2>2. \/ expect \in {"array", "element"} /\ token = "end_array"
        \/ expect \in {"object", "member"} /\ token = "end_object"
      BY DEF EndEmpty, End, Containers, EndOf
  <2> QED BY <2>1, <2>2 DEF Closing
<1>4. IsSeq(states') BY <1>2 DEF ReaderTypes
<1>5. \/ Len(states') = 0 /\ expect' = "end"
      \/ Len(states') > 0 /\ expect' \in {"element", "member"}
    BY <1>1, <1>4, AfterWhat
<1>6. ~HasPending' BY <1>5 DEF HasPending
<1>7. Len(states') \in Nat BY <1>4, LenNat
<1>8. Len(refs') = Len(states') BY <1>2, <1>6, <1>7 DEF Agree, Depths
<1> QED BY <1>1, <1>3, <1>5, <1>8

LEMMA EndTree ==
    ASSUME ReaderTypes, Agree, NEW T, NEW S, TreeSoFar(T, S), NEW w \in TokenSet,
           NEW token, w.kind = token, EndEmpty(token) \/ End(token)
    PROVE  \E R : TreeSoFar(Append(T, w), R)'
<1>1. /\ Len(refs) > 0 /\ token = Closing[nodes[Top].kind]
      /\ expect \in {"array", "object", "element", "member"}
      /\ refs' = Pop(refs) /\ nodes' = nodes /\ element' = element
      /\ \/ Len(refs') = 0 /\ expect' = "end"
         \/ Len(refs') > 0 /\ expect' \in {"element", "member"}
    BY EndsTop
<1>2. PICK n \in Nat, t \in Nat, top \in Nat :
         n = Len(nodes) /\ t = Len(T) /\ top = Top /\ top \in 1..n
  <2>1. PICK n \in Nat : n = Len(nodes) /\ Top \in 1..n BY <1>1, TopIs
  <2>2. Len(T) \in Nat BY <2>1, SpanTypes DEF TreeSoFar
  <2> QED BY <2>1, <2>2
<1>3. Spanned(T, S, n) /\ OpenIn(S, n, refs) BY <1>2 DEF TreeSoFar, Opened
<1>4. S[top].last = 0 /\ AllClosed(S, top) BY <1>1, <1>2, TopHoldsClosed DEF TreeSoFar
<1> DEFINE R == Closed(S, top, Len(T) + 1)
           U == Append(T, w)
<1>5. /\ Spanned(U, R, n) /\ Later(T, S, U, R)
      /\ \A i \in 1..n : i # top => SameSpan(S, R, i)
      /\ R[top].first = S[top].first /\ R[top].last = Len(T) + 1
      /\ R[top].members = S[top].members
    BY <1>2, <1>3, <1>4, SpansClosed
<1>6. U[Len(T) + 1] = w /\ Len(U) = t + 1 BY <1>2, <1>3, TokenAdded DEF Spanned
<1> HIDE DEF R, U
<1>7. \A i : Extra(i) = {} /\ Extra(i)' = {}
  <2>1. ~KeyRead BY <1>1 DEF KeyRead
  <2>2. ~KeyRead' BY <1>1 DEF KeyRead
  <2> QED BY <2>1, <2>2 DEF Extra
<1>8. ASSUME NEW i \in 1..n PROVE NodeIs(U, R, i, nodes[i], {})
  <2>1. NodeIs(T, S, i, nodes[i], {}) BY <1>2, <1>7 DEF TreeSoFar
  <2>2. PICK node : node = nodes[i] OBVIOUS
  <2>3. NodeIs(T, S, i, node, {}) BY <2>1, <2>2
  <2>4. CASE i # top
    <3>1. SameSpan(S, R, i) BY <1>5, <2>4
    <3> QED BY <1>3, <1>5, <2>2, <2>3, <3>1, NodeKept
  <2>5. CASE i = top
    <3>1. node.kind \in Containers BY <1>1, <1>2, <2>2, <2>5, TopIs
    <3>2. Len(T) = Upto(S, top, Len(S[top].members))
      <4>1. Waiting(T, S) BY DEF TreeSoFar
      <4> QED BY <1>1, <1>2, <4>1 DEF Waiting
    <3>3. U[Len(T) + 1].kind = Closing[node.kind] BY <1>1, <1>2, <1>6, <2>2, <2>5
    <3>4. NodeIs(U, R, top, node, {})
        BY <1>2, <1>3, <1>4, <1>5, <2>3, <2>5, <3>1, <3>2, <3>3, TopClosed
    <3> QED BY <2>2, <2>5, <3>4
  <2> QED BY <2>4, <2>5
<1>9. /\ \A i \in 1..n : R[i].first = S[i].first /\ R[i].members = S[i].members
      /\ \A i \in 1..n : i # top => R[i].last = S[i].last
      /\ R[top].last = t + 1 /\ R[top].last # 0
  <2>1. \A i \in 1..n : i # top => R[i].members = S[i].members /\ R[i].last = S[i].last
      BY <1>5 DEF SameSpan
  <2>2. \A i \in 1..n : R[i].first = S[i].first BY <1>3, <1>5, SpanTypes DEF Later
  <2> QED BY <1>2, <1>5, <2>1, <2>2
<1>10. PICK stack, less : stack = refs /\ less = Pop(refs) OBVIOUS
<1>11. RisingTo(stack, n) /\ OpenIn(S, n, stack) /\ Len(stack) > 0 /\ top = stack[Len(stack)]
    BY <1>1, <1>2, <1>3, <1>10, StackRises DEF Top
<1>12. OpenIn(R, n, less) BY <1>9, <1>10, <1>11, OpenAfterEnd
<1>13. PICK d \in Nat : Len(stack) = d + 1
  <2>1. PICK h \in Nat : h = Len(stack) /\ h > 0 BY <1>11 DEF RisingTo
  <2>2. h - 1 \in Nat /\ h = (h - 1) + 1 BY <2>1
  <2> QED BY <2>1, <2>2
<1>14. Len(less) = d /\ \A q \in 1..d : less[q] = stack[q]
  <2>1. IsSeq(stack) BY <1>11 DEF RisingTo, IsSeq
  <2>2. /\ Len(less) = Len(stack) - 1
        /\ \A q \in 1..(Len(stack) - 1) : less[q] = stack[q]
      BY <1>10, <1>11, <2>1, PopSeq
  <2>3. Len(stack) - 1 = d BY <1>13
  <2> QED BY <2>2, <2>3
<1>15. Waiting(U, R)'
  <2>1. CASE Len(refs') = 0 /\ expect' = "end"
    <3>1. d = 0 BY <1>1, <1>10, <1>14, <2>1
    <3>2. top = 1 BY <1>11, <1>13, <3>1 DEF OpenIn
    <3>3. Len(refs') = 0 /\ Len(nodes') > 0 /\ R[1].last = Len(U)
        BY <1>1, <1>2, <1>6, <1>9, <2>1, <3>2
    <3> QED BY <2>1, <3>3 DEF Waiting, ValueExpected, Containers
  <2>2. CASE Len(refs') > 0 /\ expect' \in {"element", "member"}
    <3>1. d > 0 /\ Top' = stack[d]
      <4>1. Len(refs') = d /\ refs' = less BY <1>1, <1>10, <1>14
      <4>2. d > 0 BY <2>2, <4>1
      <4>3. d \in 1..d BY <4>2
      <4> QED BY <1>14, <4>1, <4>2, <4>3 DEF Top
    <3>2. d \in 1..Len(stack) /\ d + 1 \in 2..Len(stack) /\ d = (d + 1) - 1 BY <1>13, <3>1
    <3>3. PICK outer \in 1..n : outer = stack[d] BY <1>11, <3>2 DEF RisingTo
    <3>4. PICK q \in Nat : q = d + 1 /\ q \in 2..Len(stack) /\ q - 1 = d BY <3>2
    <3>5. Len(S[outer].members) > 0 /\ S[outer].members[Len(S[outer].members)] = top
      <4>1. \A x \in 2..Len(stack) : LET ms == S[stack[x - 1]].members
                                     IN  Len(ms) > 0 /\ ms[Len(ms)] = stack[x]
          BY <1>11 DEF OpenIn
      <4> QED BY <1>11, <1>13, <3>3, <3>4, <4>1
    <3>6. R[outer].members = S[outer].members BY <1>9
    <3>7. Len(R[outer].members) # 0 BY <3>5, <3>6
    <3>8. Upto(R, outer, Len(R[outer].members)) = t + 1 BY <1>9, <3>5, <3>6, <3>7 DEF Upto
    <3>9. Len(R[Top'].members) > 0 /\ Len(U) = Upto(R, Top', Len(R[Top'].members))
        BY <1>6, <3>1, <3>3, <3>5, <3>6, <3>8
    <3> QED BY <2>2, <3>9 DEF Waiting, ValueExpected, Containers
  <2> QED BY <1>1, <2>1, <2>2
<1>16. \A i \in 1..Len(nodes') : NodeIs(U, R, i, nodes'[i], Extra(i)')
    BY <1>1, <1>2, <1>7, <1>8
<1>17. Spanned(U, R, Len(nodes')) /\ Opened(R)' BY <1>1, <1>2, <1>5, <1>10, <1>12 DEF Opened
<1>18. TreeSoFar(U, R)' BY <1>15, <1>16, <1>17 DEF TreeSoFar, U, R
<1> QED BY <1>18 DEF U

\* A token that begins and ends no node.
LEMMA SpansKept ==
    ASSUME NEW T, NEW S, NEW n \in Nat, Spanned(T, S, n), NEW w \in TokenSet
    PROVE  /\ Spanned(Append(T, w), S, n) /\ Later(T, S, Append(T, w), S)
           /\ \A i \in 1..n : SameSpan(S, S, i)
<1> DEFINE U == Append(T, w)
<1>1. /\ Len(T) \in Nat /\ U \in TokenList /\ Len(U) = Len(T) + 1
      /\ \A j \in 1..Len(T) : U[j] = T[j]
    BY TokenAdded DEF Spanned
<1> HIDE DEF U
<1>2. \A x \in 1..Len(T) : x \in 1..Len(U) BY <1>1
<1>3. \A x \in 0..Len(T) : x \in 0..Len(U) BY <1>1
<1>4. Spanned(U, S, n) BY <1>1, <1>2, <1>3 DEF Spanned
<1>5. Later(T, S, U, S) BY <1>1 DEF Later
<1>6. \A i \in 1..n : SameSpan(S, S, i) BY DEF SameSpan
<1> QED BY <1>4, <1>5, <1>6 DEF U

\* Where the next member begins.
LEMMA NextFirst ==
    ASSUME NEW T, NEW S, NEW n \in Nat, Spanned(T, S, n), NEW i \in 1..n, AllClosed(S, i)
    PROVE  /\ Len(S[i].members) \in Nat
           /\ Upto(S, i, Len(S[i].members)) \in 1..Len(T)
           /\ FirstOf(S, i, Len(S[i].members) + 1) =
                 Upto(S, i, Len(S[i].members)) + (IF Len(S[i].members) = 0 THEN 1 ELSE 2)
<1>1. PICK h \in Nat : h = Len(S[i].members) BY SpanTypes
<1>2. Later(T, S, T, S)
  <2>1. Len(T) \in Nat BY SpanTypes
  <2> QED BY <2>1 DEF Later
<1>3. Upto(S, i, Len(S[i].members)) \in 1..Len(T) BY <1>2, UptoSame
<1>4. FirstOf(S, i, h + 1) = Upto(S, i, h) + (IF h = 0 THEN 1 ELSE 2)
  <2>1. PICK k \in Nat : k = h + 1 /\ k - 1 = h /\ (k = 1 <=> h = 0) OBVIOUS
  <2> QED BY <2>1 DEF FirstOf
<1> QED BY <1>1, <1>3, <1>4

\* An object in which a key was read, whose value is not there yet.
LEMMA KeyNamed ==
    ASSUME NEW T, NEW S, NEW i, NEW node, NEW more, NEW key, NodeIs(T, S, i, node, {}),
           S[i].last = 0, node.kind = "object", more.kind = "object",
           \/ key \in DOMAIN node.items /\ more.items = node.items
           \/ key \notin DOMAIN node.items /\ more.items = WithMember(node.items, key, 0)
    PROVE  NodeIs(T, S, i, more, {key})
<1>1. /\ T[S[i].first].kind = Opening["object"]
      /\ \A k \in 1..Len(S[i].members) : MemberIn(T, "object", S, i, k)
      /\ DOMAIN node.items = NamesIn(T, S, S[i].members)
      /\ LastOnes(node.items, T, S, S[i].members)
    BY DEF NodeIs, Filled, Containers
<1>2. PICK ms : ms = S[i].members OBVIOUS
<1>3. PICK items : items = node.items OBVIOUS
<1>4. PICK later : later = more.items OBVIOUS
<1>5. /\ DOMAIN later = DOMAIN items \cup {key}
      /\ \A x \in DOMAIN items : later[x] = items[x]
  <2>1. CASE key \in DOMAIN items /\ later = items BY <2>1
  <2>2. CASE key \notin DOMAIN items /\ later = WithMember(items, key, 0)
      BY <2>2 DEF WithMember
  <2> QED BY <1>3, <1>4, <2>1, <2>2
<1>6. DOMAIN later = NamesIn(T, S, ms) \cup {key} BY <1>1, <1>2, <1>3, <1>5
<1>7. LastOnes(later, T, S, ms)
  <2>1. \A k \in 1..Len(ms) : NameOf(T, S, ms[k]) \in DOMAIN items
      BY <1>1, <1>2, <1>3 DEF NamesIn
  <2>2. LastOnes(items, T, S, ms) BY <1>1, <1>2, <1>3
  <2> QED BY <1>5, <2>1, <2>2 DEF LastOnes
<1>8. Filled(T, S, i, more, {key}) BY <1>1, <1>2, <1>4, <1>6, <1>7 DEF Filled
<1> QED BY <1>8 DEF NodeIs, Containers

LEMMA KeyTree ==
    ASSUME ReaderTypes, Agree, NEW T, NEW S, TreeSoFar(T, S), NEW w \in TokenSet,
           NEW token, NEW text0, w.kind = token, w.value = text0, Key(token, text0)
    PROVE  TreeSoFar(Append(T, w), S)'
<1>1. /\ expect \in {"object", "key"} /\ token = "value_string"
      /\ expect' = IF expect = "object" THEN "first colon" ELSE "colon"
      /\ element' = [node |-> Top, key |-> text0]
      /\ nodes' = IF text0 \in DOMAIN nodes[Top].items THEN nodes
                  ELSE [nodes EXCEPT ![Top].items = WithMember(nodes[Top].items, text0, 0)]
      /\ refs' = refs
    BY DEF Key, HandleKey
<1>2. Len(refs) > 0 /\ nodes[Top].kind = "object" BY <1>1, TopIs
<1>3. PICK n \in Nat, t \in Nat, top \in Nat :
         n = Len(nodes) /\ t = Len(T) /\ top = Top /\ top \in 1..n
  <2>1. PICK n \in Nat : n = Len(nodes) /\ Top \in 1..n BY <1>2, TopIs
  <2>2. Len(T) \in Nat BY <2>1, SpanTypes DEF TreeSoFar
  <2> QED BY <2>1, <2>2
<1>4. Spanned(T, S, n) /\ OpenIn(S, n, refs) BY <1>3 DEF TreeSoFar, Opened
<1>5. S[top].last = 0 /\ AllClosed(S, top) BY <1>2, <1>3, TopHoldsClosed DEF TreeSoFar
<1> DEFINE U == Append(T, w)
<1>6. /\ U[t + 1] = w /\ Len(U) = t + 1 /\ \A j \in 1..t : U[j] = T[j]
      /\ Spanned(U, S, n) /\ Later(T, S, U, S) /\ \A i \in 1..n : SameSpan(S, S, i)
    BY <1>3, <1>4, TokenAdded, SpansKept DEF Spanned
<1> HIDE DEF U
<1>7. ~KeyRead BY <1>1 DEF KeyRead
<1>8. /\ Len(nodes') = n /\ nodes'[top].kind = "object"
      /\ \A i \in 1..n : i # top => nodes'[i] = nodes[i]
      /\ \/ text0 \in DOMAIN nodes[top].items /\ nodes'[top].items = nodes[top].items
         \/ /\ text0 \notin DOMAIN nodes[top].items
            /\ nodes'[top].items = WithMember(nodes[top].items, text0, 0)
  <2>1. CASE text0 \in DOMAIN nodes[Top].items BY <1>1, <1>2, <1>3, <2>1
  <2>2. CASE text0 \notin DOMAIN nodes[Top].items
    <3> DEFINE items == WithMember(nodes[Top].items, text0, 0)
               d == [nodes EXCEPT ![Top].items = items]
    <3>1. nodes' = d BY <1>1, <2>2
    <3>2. IsDoc(nodes) /\ Top \in 1..Len(nodes) /\ (nodes[Top].kind = "array" => items \in Seq(Nat))
        BY <1>2, <1>3 DEF ReaderTypes
    <3>3. items = WithMember(nodes[Top].items, text0, 0) OBVIOUS
    <3> HIDE DEF items
    <3>4. /\ Len(d) = Len(nodes) /\ d[Top].items = items
          /\ \A j \in 1..Len(nodes) : d[j].kind = nodes[j].kind /\ (j # Top => d[j] = nodes[j])
        BY <3>2, NodeChanged
    <3> HIDE DEF d
    <3> QED BY <1>2, <1>3, <2>2, <3>1, <3>3, <3>4
  <2> QED BY <2>1, <2>2
<1>9. \A i \in 1..n : NodeIs(T, S, i, nodes[i], {}) BY <1>3, <1>7 DEF TreeSoFar, Extra
<1>10. ASSUME NEW i \in 1..n PROVE NodeIs(U, S, i, nodes'[i], IF i = top THEN {text0} ELSE {})
  <2>1. PICK node : node = nodes[i] OBVIOUS
  <2>2. PICK more : more = nodes'[i] OBVIOUS
  <2>3. NodeIs(T, S, i, node, {}) BY <1>9, <2>1
  <2>4. CASE i # top
    <3>1. NodeIs(U, S, i, node, {}) BY <1>4, <1>6, <2>3, NodeKept
    <3> QED BY <1>8, <2>1, <2>4, <3>1
  <2>5. CASE i = top
    <3>1. NodeIs(T, S, i, more, {text0})
        BY <1>2, <1>3, <1>5, <1>8, <2>1, <2>2, <2>3, <2>5, KeyNamed
    <3>2. NodeIs(U, S, i, more, {text0}) BY <1>4, <1>6, <3>1, NodeKept
    <3> QED BY <2>2, <2>5, <3>2
  <2> QED BY <2>4, <2>5
<1>11. KeyRead' /\ Top' = top /\ element'.key = text0
    BY <1>1, <1>3 DEF KeyRead, Top
<1>12. \A i \in 1..Len(nodes') : NodeIs(U, S, i, nodes'[i], Extra(i)')
  <2>1. \A i : Extra(i)' = IF i = top THEN {text0} ELSE {} BY <1>11 DEF Extra
  <2> QED BY <1>8, <1>10, <2>1
<1>13. NameThere(U, S, top, text0)
  <2>1. PICK h \in Nat, u \in 1..t, begin \in Nat :
           /\ h = Len(S[top].members) /\ u = Upto(S, top, h)
           /\ begin = FirstOf(S, top, h + 1) /\ begin = u + (IF h = 0 THEN 1 ELSE 2)
    <3>1. PICK h \in Nat : h = Len(S[top].members) BY <1>3, <1>4, SpanTypes
    <3>2. /\ Upto(S, top, h) \in 1..t
          /\ FirstOf(S, top, h + 1) = Upto(S, top, h) + (IF h = 0 THEN 1 ELSE 2)
        BY <1>3, <1>4, <1>5, <3>1, NextFirst
    <3>3. PICK u \in 1..t : u = Upto(S, top, h) BY <3>2
    <3>4. u + (IF h = 0 THEN 1 ELSE 2) \in Nat OBVIOUS
    <3> QED BY <3>1, <3>2, <3>3, <3>4
  <2>2. /\ expect = "object" => h = 0 /\ t = u
        /\ expect = "key" => h > 0 /\ t = u + 1 /\ T[t].kind = "value_separator"
    <3>1. Waiting(T, S) BY DEF TreeSoFar
    <3> QED BY <1>1, <1>3, <2>1, <3>1 DEF Waiting, Containers
  <2>3. begin = t + 1 /\ (h > 0 => begin - 1 = t /\ T[t].kind = "value_separator" /\ t \in 1..t)
    <3>1. \/ h = 0 /\ t = u
          \/ h > 0 /\ t = u + 1 /\ T[t].kind = "value_separator"
        BY <1>1, <2>2
    <3>2. u \in Nat /\ u > 0 OBVIOUS
    <3>3. begin = t + 1 /\ (h > 0 => begin - 1 = t) /\ t \in 1..t BY <2>1, <3>1, <3>2
    <3>4. h > 0 => T[t].kind = "value_separator" BY <3>1
    <3> QED BY <3>3, <3>4
  <2>4. h > 0 => U[begin - 1].kind = "value_separator" BY <1>6, <2>3
  <2>5. U[begin].kind = "value_string" /\ U[begin].value = text0 /\ Len(U) = begin
      BY <1>1, <1>6, <2>3
  <2> QED BY <2>1, <2>4, <2>5 DEF NameThere
<1>14. Waiting(U, S)'
  <2>1. expect' \in {"first colon", "colon"} BY <1>1
  <2>2. NameThere(U, S, Top', element'.key) BY <1>11, <1>13
  <2> QED BY <2>1, <2>2 DEF Waiting, ValueExpected, Containers
<1>15. Spanned(U, S, Len(nodes')) /\ Opened(S)' BY <1>1, <1>4, <1>6, <1>8 DEF Opened
<1> QED BY <1>12, <1>14, <1>15 DEF TreeSoFar, U

\* A colon: the value of the key that was read is next.
LEMMA NameSeparatorTree ==
    ASSUME ReaderTypes, Agree, NEW T, NEW S, TreeSoFar(T, S), NEW w \in TokenSet,
           NEW token, w.kind = token, NameSeparator(token)
    PROVE  TreeSoFar(Append(T, w), S)'
<1>1. /\ expect \in {"first colon", "colon"} /\ token = "name_separator" /\ expect' = "value"
      /\ states' = IF expect = "first colon" THEN Append(states, FALSE) ELSE states
      /\ nodes' = nodes /\ refs' = refs /\ element' = element
    BY DEF NameSeparator, document
<1>2. Len(refs) > 0 /\ nodes[Top].kind = "object" BY <1>1, TopIs
<1>3. PICK n \in Nat, t \in Nat, top \in Nat :
         n = Len(nodes) /\ t = Len(T) /\ top = Top /\ top \in 1..n
  <2>1. PICK n \in Nat : n = Len(nodes) /\ Top \in 1..n BY <1>2, TopIs
  <2>2. Len(T) \in Nat BY <2>1, SpanTypes DEF TreeSoFar
  <2> QED BY <2>1, <2>2
<1>4. Spanned(T, S, n) /\ OpenIn(S, n, refs) BY <1>3 DEF TreeSoFar, Opened
<1>5. AllClosed(S, top) BY <1>2, <1>3, TopHoldsClosed DEF TreeSoFar
<1> DEFINE U == Append(T, w)
<1>6. /\ U[t + 1] = w /\ Len(U) = t + 1 /\ \A j \in 1..t : U[j] = T[j]
      /\ Spanned(U, S, n) /\ Later(T, S, U, S) /\ \A i \in 1..n : SameSpan(S, S, i)
    BY <1>3, <1>4, TokenAdded, SpansKept DEF Spanned
<1> HIDE DEF U
<1>7. Len(states') > 0 /\ KindAt(states', Len(states')) = "object"
  <2>1. CASE expect = "first colon"
    <3>1. states' = Append(states, FALSE) BY <1>1, <2>1
    <3>2. Len(states) \in Nat /\ Len(states') = Len(states) + 1
        BY <3>1, Lengths, AppendSeq DEF ReaderTypes
    <3>3. KindAt(states', Len(states) + 1) = "object" BY <3>1, PushedKinds DEF ReaderTypes
    <3> QED BY <3>2, <3>3
  <2>2. CASE expect = "colon" BY <1>1, <2>2 DEF Agree, PlaceMatches
  <2> QED BY <1>1, <2>1, <2>2
<1>8. KeyRead /\ KeyRead' /\ Top' = Top
  <2>1. KeyRead BY <1>1 DEF KeyRead
  <2>2. KeyRead' BY <1>1, <1>7 DEF KeyRead
  <2> QED BY <1>1, <2>1, <2>2 DEF Top
<1>9. \A i \in 1..Len(nodes') : NodeIs(U, S, i, nodes'[i], Extra(i)')
  <2>1. ASSUME NEW i \in 1..n PROVE NodeIs(U, S, i, nodes'[i], Extra(i)')
    <3>1. PICK node : node = nodes[i] OBVIOUS
    <3>2. PICK extra : extra = Extra(i) OBVIOUS
    <3>3. NodeIs(T, S, i, node, extra) BY <1>3, <3>1, <3>2 DEF TreeSoFar
    <3>4. NodeIs(U, S, i, node, extra) BY <1>4, <1>6, <3>3, NodeKept
    <3>5. Extra(i)' = extra BY <1>1, <1>8, <3>2 DEF Extra
    <3> QED BY <1>1, <3>1, <3>4, <3>5
  <2> QED BY <1>1, <1>3, <2>1
<1>10. PICK key : key = element.key OBVIOUS
<1>11. Room(U, S, top, "object", key)
  <2>1. PICK h \in Nat, u \in 1..t, begin \in Nat :
           /\ h = Len(S[top].members) /\ begin = FirstOf(S, top, h + 1)
           /\ begin = u + (IF h = 0 THEN 1 ELSE 2)
    <3>1. PICK h \in Nat : h = Len(S[top].members) BY <1>3, <1>4, SpanTypes
    <3>2. /\ Upto(S, top, h) \in 1..t
          /\ FirstOf(S, top, h + 1) = Upto(S, top, h) + (IF h = 0 THEN 1 ELSE 2)
        BY <1>3, <1>4, <1>5, <3>1, NextFirst
    <3>3. PICK u \in 1..t : u = Upto(S, top, h) BY <3>2
    <3>4. u + (IF h = 0 THEN 1 ELSE 2) \in Nat OBVIOUS
    <3> QED BY <3>1, <3>2, <3>3, <3>4
  <2>2. NameThere(T, S, top, key)
    <3>1. Waiting(T, S) BY DEF TreeSoFar
    <3> QED BY <1>1, <1>3, <1>10, <3>1 DEF Waiting
  <2>3. /\ h > 0 => T[begin - 1].kind = "value_separator"
        /\ t = begin /\ T[begin].kind = "value_string" /\ T[begin].value = key
      BY <1>3, <2>1, <2>2 DEF NameThere
  <2>4. begin \in 1..t /\ begin - 1 \in 1..t BY <2>1, <2>3
  <2>5. U[begin] = T[begin] /\ U[begin - 1] = T[begin - 1] /\ U[begin + 1] = w
      BY <1>6, <2>3, <2>4
  <2>6. Len(U) = begin + 1 BY <1>6, <2>3
  <2>7. FirstOf(S, top, Len(S[top].members) + 1) = begin BY <2>1
  <2>8. Len(S[top].members) > 0 => U[begin - 1].kind = "value_separator" BY <2>1, <2>3, <2>5
  <2>9. /\ U[begin].kind = "value_string" /\ U[begin].value = key
        /\ U[begin + 1].kind = "name_separator"
      BY <1>1, <2>3, <2>5
  <2> QED BY <2>6, <2>7, <2>8, <2>9 DEF Room
<1>12. Waiting(U, S)'
  <2>1. Len(refs') # 0
    <3>1. Len(refs) # 0 BY <1>2
    <3>2. refs' = refs BY <1>1
    <3> QED BY <3>1, <3>2
  <2>2. nodes'[Top'].kind = "object" /\ element'.key = key /\ Top' = top
      BY <1>1, <1>2, <1>3, <1>8, <1>10
  <2>3. Room(U, S, Top', nodes'[Top'].kind, element'.key) BY <1>11, <2>2
  <2>4. expect' = "value" BY <1>1
  <2> QED BY <2>1, <2>3, <2>4 DEF Waiting, ValueExpected, Containers
<1>13. Spanned(U, S, Len(nodes')) /\ Opened(S)' BY <1>1, <1>3, <1>4, <1>6 DEF Opened
<1> QED BY <1>9, <1>12, <1>13 DEF TreeSoFar, U

\* A comma: an element is next, or the key of a member.
LEMMA ValueSeparatorTree ==
    ASSUME ReaderTypes, Agree, NEW T, NEW S, TreeSoFar(T, S), NEW w \in TokenSet,
           NEW token, w.kind = token, ValueSeparator(token)
    PROVE  TreeSoFar(Append(T, w), S)'
<1>1. /\ expect \in {"element", "member"} /\ token = "value_separator"
      /\ expect' = IF expect = "element" THEN "value" ELSE "key"
      /\ states' = states /\ nodes' = nodes /\ refs' = refs /\ element' = element
    BY DEF ValueSeparator, document
<1>2. Len(refs) > 0 /\ (expect = "element" => nodes[Top].kind = "array") BY <1>1, TopIs
<1>3. PICK n \in Nat, t \in Nat, top \in Nat :
         n = Len(nodes) /\ t = Len(T) /\ top = Top /\ top \in 1..n
  <2>1. PICK n \in Nat : n = Len(nodes) /\ Top \in 1..n BY <1>2, TopIs
  <2>2. Len(T) \in Nat BY <2>1, SpanTypes DEF TreeSoFar
  <2> QED BY <2>1, <2>2
<1>4. Spanned(T, S, n) /\ OpenIn(S, n, refs) BY <1>3 DEF TreeSoFar, Opened
<1>5. AllClosed(S, top) BY <1>2, <1>3, TopHoldsClosed DEF TreeSoFar
<1> DEFINE U == Append(T, w)
<1>6. /\ U[t + 1] = w /\ Len(U) = t + 1
      /\ Spanned(U, S, n) /\ Later(T, S, U, S) /\ \A i \in 1..n : SameSpan(S, S, i)
    BY <1>3, <1>4, TokenAdded, SpansKept DEF Spanned
<1> HIDE DEF U
<1>7. ~KeyRead /\ ~KeyRead' /\ Top' = Top
  <2>1. ~KeyRead BY <1>1 DEF KeyRead
  <2>2. CASE expect = "element"
    <3>1. KindAt(states, Len(states)) = "array" BY <2>2 DEF Agree, PlaceMatches
    <3> QED BY <1>1, <2>1, <2>2, <3>1 DEF KeyRead, Top
  <2>3. CASE expect = "member" BY <1>1, <2>1, <2>3 DEF KeyRead, Top
  <2> QED BY <1>1, <2>2, <2>3
<1>8. \A i \in 1..Len(nodes') : NodeIs(U, S, i, nodes'[i], Extra(i)')
  <2>1. ASSUME NEW i \in 1..n PROVE NodeIs(U, S, i, nodes'[i], Extra(i)')
    <3>1. PICK node : node = nodes[i] OBVIOUS
    <3>2. NodeIs(T, S, i, node, {}) BY <1>3, <1>7, <3>1 DEF TreeSoFar, Extra
    <3>3. NodeIs(U, S, i, node, {}) BY <1>4, <1>6, <3>2, NodeKept
    <3> QED BY <1>1, <1>7, <3>1, <3>3 DEF Extra
  <2> QED BY <1>1, <1>3, <2>1
<1>9. PICK h \in Nat, u \in 1..t : h = Len(S[top].members) /\ u = Upto(S, top, h)
  <2>1. PICK h \in Nat : h = Len(S[top].members) BY <1>3, <1>4, SpanTypes
  <2>2. Upto(S, top, h) \in 1..t BY <1>3, <1>4, <1>5, <2>1, NextFirst
  <2> QED BY <2>1, <2>2
<1>10. h > 0 /\ t = u
  <2>1. Waiting(T, S) BY DEF TreeSoFar
  <2> QED BY <1>1, <1>3, <1>9, <2>1 DEF Waiting
<1>11. FirstOf(S, top, h + 1) = u + 2
  <2>1. FirstOf(S, top, h + 1) = Upto(S, top, h) + (IF h = 0 THEN 1 ELSE 2)
      BY <1>3, <1>4, <1>5, <1>9, NextFirst
  <2> QED BY <1>9, <1>10, <2>1
<1>12. U[t + 1].kind = "value_separator" BY <1>1, <1>6
<1>13. Waiting(U, S)'
  <2>1. CASE expect = "element"
    <3>1. PICK key : key = element.key OBVIOUS
    <3>2. Room(U, S, top, "array", key)
      <4>1. PICK begin \in Nat : begin = u + 2 /\ begin - 1 = t + 1 /\ Len(U) + 1 = begin
          BY <1>6, <1>10
      <4>2. FirstOf(S, top, Len(S[top].members) + 1) = begin BY <1>9, <1>11, <4>1
      <4>3. U[begin - 1].kind = "value_separator" BY <1>12, <4>1
      <4> QED BY <4>1, <4>2, <4>3 DEF Room
    <3>3. Len(refs') # 0
      <4>1. Len(refs) # 0 BY <1>2
      <4>2. refs' = refs BY <1>1
      <4> QED BY <4>1, <4>2
    <3>4. Room(U, S, Top', nodes'[Top'].kind, element'.key)
        BY <1>1, <1>2, <1>3, <1>7, <2>1, <3>1, <3>2
    <3> QED BY <1>1, <2>1, <3>3, <3>4 DEF Waiting, ValueExpected, Containers
  <2>2. CASE expect = "member"
    <3>1. /\ Len(S[Top'].members) > 0 /\ Len(U) = Upto(S, Top', Len(S[Top'].members)) + 1
          /\ U[Len(U)].kind = "value_separator"
        BY <1>3, <1>6, <1>7, <1>9, <1>10, <1>12
    <3> QED BY <1>1, <2>2, <3>1 DEF Waiting, ValueExpected, Containers
  <2> QED BY <1>1, <2>1, <2>2
<1>14. Spanned(U, S, Len(nodes')) /\ Opened(S)' BY <1>1, <1>3, <1>4, <1>6 DEF Opened
<1> QED BY <1>8, <1>13, <1>14 DEF TreeSoFar, U

-----------------------------------------------------------------------------
(* A token in the parser.                                                  *)

\* All is read: the tokens are the document.
LEMMA FinishTree ==
    ASSUME ReaderTypes, Agree, NEW T, NEW S, TreeSoFar(T, S), NEW token, Finish(token)
    PROVE  /\ token = "end_of_input" /\ nodes' = nodes /\ Len(nodes) \in Nat /\ Len(nodes) > 0
           /\ Spanned(T, S, Len(nodes)) /\ TreeOf(T, nodes, S)
           /\ \A i \in 1..Len(nodes) : S[i].last # 0
<1>1. expect = "end" /\ token = "end_of_input" /\ nodes' = nodes BY DEF Finish, document
<1>2. Len(refs) = 0 /\ Len(nodes) > 0 /\ S[1].last = Len(T)
    BY <1>1 DEF TreeSoFar, Waiting
<1>3. PICK n \in Nat : n = Len(nodes) /\ n > 0 BY <1>2, TopIs
<1>4. Spanned(T, S, n) /\ OpenIn(S, n, refs) BY <1>3 DEF TreeSoFar, Opened
<1>5. S[1].first = 1 BY <1>3, <1>4 DEF OpenIn
<1>6. \A i \in 1..n : S[i].last # 0
  <2>1. 1..Len(refs) = {} BY <1>2
  <2> QED BY <1>4, <2>1 DEF OpenIn
<1>7. ~KeyRead BY <1>1 DEF KeyRead
<1>8. \A i \in 1..n : NodeIs(T, S, i, nodes[i], {}) BY <1>3, <1>7 DEF TreeSoFar, Extra
<1>9. TreeOf(T, nodes, S) BY <1>2, <1>3, <1>4, <1>5, <1>6, <1>8, TreeIs
<1> QED BY <1>1, <1>3, <1>4, <1>6, <1>9

\* Whatever a token does that the parser waits for, the document is what the tokens say.
LEMMA ParseTree ==
    ASSUME ReaderTypes, Agree, outcome = "reading", NEW T, NEW S, TreeSoFar(T, S),
           NEW token, NEW text0, Parse(token, text0), outcome' = "reading",
           NEW w \in TokenSet, w.kind = token, w.value = text0
    PROVE  \E R : TreeSoFar(Append(T, w), R)'
<1>1. CASE \E kind \in Containers : Begin(token, kind) BY <1>1, BeginTree
<1>2. CASE EndEmpty(token) \/ End(token) BY <1>2, EndTree
<1>3. CASE Value(token, text0) BY <1>3, ValueTree
<1>4. CASE Key(token, text0) BY <1>4, KeyTree
<1>5. CASE NameSeparator(token) BY <1>5, NameSeparatorTree
<1>6. CASE ValueSeparator(token) BY <1>6, ValueSeparatorTree
<1>7. ~NumberOverflows(token, text0) /\ ~Finish(token) /\ ~Unexpected(token)
    BY DEF NumberOverflows, Finish, Unexpected
<1> QED BY <1>1, <1>2, <1>3, <1>4, <1>5, <1>6, <1>7 DEF Parse

\* What the parser reads on after, and what it ends with.
LEMMA ParseEnds ==
    ASSUME NEW token, NEW text0, Parse(token, text0), outcome = "reading"
    PROVE  /\ outcome' = "value" => Finish(token)
           /\ outcome' = "reading" => token \notin {"none", "parse_error", "end_of_input"}
<1>1. ASSUME NEW kind \in Containers, Begin(token, kind)
      PROVE  outcome' = "reading" /\ token \notin {"none", "parse_error", "end_of_input"}
    BY <1>1 DEF Begin, BeginOf, Containers
<1>2. ASSUME EndEmpty(token)
      PROVE  outcome' = "reading" /\ token \notin {"none", "parse_error", "end_of_input"}
    BY <1>2 DEF EndEmpty, EndOf, Containers
<1>3. ASSUME Value(token, text0) \/ Key(token, text0) \/ NameSeparator(token)
              \/ ValueSeparator(token) \/ End(token)
      PROVE  outcome' = "reading" /\ token \notin {"none", "parse_error", "end_of_input"}
    BY <1>3 DEF Value, Scalars, Numeric, Key, NameSeparator, ValueSeparator, End
<1>4. ASSUME NumberOverflows(token, text0) \/ Unexpected(token)
      PROVE  outcome' \notin {"value", "reading"}
    BY <1>4 DEF NumberOverflows, Unexpected
<1>5. Finish(token) => outcome' = "value" BY DEF Finish
<1> QED BY <1>1, <1>2, <1>3, <1>4, <1>5 DEF Parse

LEMMA Narrower ==
    ASSUME NEW A, NEW B, NEW s \in Seq(A), \A i \in 1..Len(s) : s[i] \in B
    PROVE  s \in Seq(B)
OBVIOUS

\* At the end of the text: what was read is JSON, and the document its value.
LEMMA EndsAsJson ==
    ASSUME NEW l, NEW t, NEW from, NEW k, NEW T, CutUp(t, from, k, T, l), k = Len(t),
           NEW c \in {0, EOF}, NEW S, NEW document0, NEW n \in Nat, n = Len(document0), n > 0,
           Spanned(T, S, n), TreeOf(T, document0, S), \A i \in 1..n : S[i].last # 0
    PROVE  IsJson(Extended(t, c), document0)
<1>1. /\ t \in Seq(Bytes) /\ from \in {1, 4} /\ T \in TokenList /\ Lexed(t, from, k, T)
      /\ from = 4 => Len(t) > 2 /\ SubSeq(t, 1, 3) = Bom
    BY DEF CutUp
<1>2. PICK h \in Nat : h = Len(t) /\ h = k BY <1>1
<1>3. PICK u : u = Extended(t, c) OBVIOUS
<1>4. /\ from \in Starts(u) /\ h \in Stops(u) /\ Lexed(u, from, h, T)
  <2>1. CASE c = EOF
    <3>1. u = t BY <1>3, <2>1 DEF Extended
    <3> QED BY <1>1, <1>2, <3>1 DEF Starts, Stops
  <2>2. CASE c = 0
    <3>1. c \in Bytes /\ c # EOF BY <2>2 DEF Bytes, EOF
    <3>2. u = Append(t, c) BY <1>3, <3>1 DEF Extended
    <3>3. /\ Len(Append(t, c)) = h + 1 /\ Append(t, c)[h + 1] = c
          /\ \A a, b \in 0..h : SubSeq(Append(t, c), a + 1, b) = SubSeq(t, a + 1, b)
        BY <1>1, <1>2, <3>1, SliceKept
    <3>4. from \in Nat /\ from >= 1 /\ h \in 0..Len(t) /\ Lexed(t, from, h, T) BY <1>1, <1>2
    <3>5. Lexed(Append(t, c), from, h, T) BY <1>1, <3>1, <3>4, LexedLonger
    <3>6. from \in Starts(u)
      <4>1. CASE from = 1 BY <4>1 DEF Starts
      <4>2. CASE from = 4
        <5>1. h > 2 /\ SubSeq(t, 1, 3) = Bom BY <1>1, <1>2, <4>2
        <5>2. PICK a \in 0..h, b \in 0..h : a = 0 /\ b = 3 BY <5>1
        <5>3. SubSeq(u, a + 1, b) = SubSeq(t, a + 1, b) BY <3>2, <3>3
        <5>4. a + 1 = 1 BY <5>2
        <5>5. SubSeq(u, 1, 3) = Bom BY <5>1, <5>2, <5>3, <5>4
        <5>6. Len(u) > 2 BY <3>2, <3>3, <5>1
        <5> QED BY <4>2, <5>5, <5>6 DEF Starts
      <4> QED BY <1>1, <4>1, <4>2
    <3>7. h \in Stops(u)
      <4>1. Len(u) - 1 = h /\ Len(u) > 0 /\ u[Len(u)] = 0 BY <2>2, <3>2, <3>3
      <4> QED BY <4>1 DEF Stops
    <3> QED BY <3>2, <3>5, <3>6, <3>7
  <2> QED BY <2>1, <2>2
<1>5. S \in Seq([first : 1..Len(T), last : 1..Len(T), members : Seq(1..Len(document0))])
  <2> DEFINE B == [first : 1..Len(T), last : 1..Len(T), members : Seq(1..n)]
  <2>1. ASSUME NEW i \in 1..n PROVE S[i] \in B
    <3>1. S[i] \in SpanSet BY DEF Spanned
    <3>2. /\ S[i].first \in 1..Len(T) /\ S[i].last \in 0..Len(T) /\ S[i].members \in Seq(Nat)
          /\ \A j \in 1..Len(S[i].members) : S[i].members[j] \in 1..n
        BY SpanTypes
    <3>3. S[i].members \in Seq(1..n) BY <3>2, Narrower
    <3>4. S[i].last \in 1..Len(T)
      <4>1. S[i].last # 0 OBVIOUS
      <4> QED BY <3>2, <4>1
    <3> QED BY <3>1, <3>2, <3>3, <3>4 DEF SpanSet
  <2> HIDE DEF B
  <2>2. S \in Seq(SpanSet) /\ Len(S) = n BY DEF Spanned
  <2>3. S \in Seq(B) BY <2>1, <2>2, Narrower
  <2> QED BY <2>3 DEF B
<1>6. Len(S) = Len(document0) BY DEF Spanned
<1>7. T \in Seq(TokenSet) BY <1>1 DEF TokenList
<1>8. IsJson(u, document0) BY Zenon, <1>4, <1>5, <1>6, <1>7 DEF IsJson
<1> QED BY <1>3, <1>8

-----------------------------------------------------------------------------
(* The text, its tokens and the document in one.                           *)

\* What was read of the text: the byte after a number is not yet.
TextIs(t) == text = IF lex.unget THEN Extended(t, lex.current) ELSE t

ReadSoFar(t, from, k, T, S) ==
    TextIs(t) /\ CutUp(t, from, k, T, lex) /\ TreeSoFar(T, S)

JsonSoFar == outcome = "reading" => \E t, from, k, T, S : ReadSoFar(t, from, k, T, S)
JsonAtEnd == outcome = "value" => IsJson(text, nodes)
JsonInv == TypeInv /\ JsonSoFar /\ JsonAtEnd

LEMMA TreeKept ==
    ASSUME NEW T, NEW S, TreeSoFar(T, S), UNCHANGED parser
    PROVE  TreeSoFar(T, S)'
<1>1. UNCHANGED <<states, expect, nodes, refs, element>> BY DEF parser, document
<1> QED BY <1>1, Zenon DEF TreeSoFar, Opened, Waiting, Extra, KeyRead, ValueExpected, Top

\* A byte of the text.
LEMMA ReadIsJson ==
    ASSUME ReaderTypes, Agree, LexerOK(lex), NEW c \in 0..EOF, Read(c),
           NEW t, NEW from, NEW k, NEW T, NEW S, CutUp(t, from, k, T, lex), TreeSoFar(T, S),
           text' = Extended(t, c)
    PROVE  JsonSoFar' /\ JsonAtEnd'
<1>1. PICK l : l = lex OBVIOUS
<1>2. PICK m : m = lex' OBVIOUS
<1>3. /\ outcome = "reading" /\ m = Scan(l, c)
      /\ \/ m.token = "none" /\ UNCHANGED parser
         \/ m.token # "none" /\ Parse(m.token, m.buffer)
    BY <1>1, <1>2 DEF Read
<1>4. PICK u : u = TextAfter(m, t, c) OBVIOUS
<1>5. /\ m.unget => u = t
      /\ ~m.unget => u = Extended(t, c)
    BY <1>4 DEF TextAfter
<1>6. (m.unget => m.current = c) => TextIs(u)' BY <1>2, <1>5 DEF TextIs
<1>7. CASE m.token = "parse_error"
  <2>1. Parse(m.token, m.buffer) BY <1>3, <1>7
  <2>2. outcome' # "reading" /\ outcome' # "value" BY <1>3, <1>7, <2>1, ParseEnds DEF Finish
  <2> QED BY <2>2 DEF JsonSoFar, JsonAtEnd
<1>8. CASE m.token # "parse_error"
  <2>1. \/ m.token = "none" /\ ~m.unget /\ \E f, h : CutUp(u, f, h, T, m)
        \/ m.token = "end_of_input" /\ ~m.unget /\ k = Len(t) /\ c \in {0, EOF}
        \/ /\ m.token \notin {"none", "parse_error", "end_of_input"}
           /\ m.unget => m.current = c
           /\ \E first \in Nat, last \in Nat : \E h :
                 LET w == NewToken(m.token, first, last, m.buffer)
                 IN  CutUp(u, from, h, Append(T, w), m)
      BY <1>1, <1>3, <1>4, <1>8, CutFurther
  <2>2. CASE m.token = "none" /\ ~m.unget /\ \E f, h : CutUp(u, f, h, T, m)
    <3>1. PICK f, h : CutUp(u, f, h, T, m) BY <2>2
    <3>2. UNCHANGED parser BY <1>3, <2>2
    <3>3. TreeSoFar(T, S)' BY <3>2, TreeKept
    <3>4. outcome' = "reading" BY <1>3, <3>2 DEF parser
    <3>5. ReadSoFar(u, f, h, T, S)' BY <1>2, <1>6, <2>2, <3>1, <3>3 DEF ReadSoFar
    <3>6. JsonSoFar' BY <3>5 DEF JsonSoFar
    <3> QED BY <3>4, <3>6 DEF JsonAtEnd
  <2>3. CASE m.token = "end_of_input" /\ ~m.unget /\ k = Len(t) /\ c \in {0, EOF}
    <3>1. Parse(m.token, m.buffer) BY <1>3, <2>3
    <3>2. outcome' # "reading" BY <1>3, <2>3, <3>1, ParseEnds
    <3>3. ASSUME outcome' = "value" PROVE IsJson(text, nodes)'
      <4>1. Finish(m.token) BY <1>3, <3>1, <3>3, ParseEnds
      <4>2. /\ nodes' = nodes /\ Len(nodes) \in Nat /\ Len(nodes) > 0
            /\ Spanned(T, S, Len(nodes)) /\ TreeOf(T, nodes, S)
            /\ \A i \in 1..Len(nodes) : S[i].last # 0
          BY <4>1, FinishTree
      <4>3. PICK n \in Nat : n = Len(nodes) BY <4>2
      <4>4. IsJson(Extended(t, c), nodes) BY <2>3, <4>2, <4>3, EndsAsJson
      <4> QED BY <4>2, <4>4
    <3> QED BY <3>2, <3>3 DEF JsonSoFar, JsonAtEnd
  <2>4. CASE /\ m.token \notin {"none", "parse_error", "end_of_input"}
             /\ m.unget => m.current = c
             /\ \E first \in Nat, last \in Nat : \E h :
                   LET w == NewToken(m.token, first, last, m.buffer)
                   IN  CutUp(u, from, h, Append(T, w), m)
    <3>1. PICK first \in Nat, last \in Nat :
             \E h : CutUp(u, from, h, Append(T, NewToken(m.token, first, last, m.buffer)), m)
        BY <2>4
    <3>2. PICK w : w = NewToken(m.token, first, last, m.buffer) OBVIOUS
    <3>3. PICK h : CutUp(u, from, h, Append(T, w), m) BY <3>1, <3>2
    <3>4. w.kind = m.token /\ w.value = m.buffer BY <3>2 DEF NewToken
    <3>5. w \in TokenSet
      <4>1. Append(T, w) \in TokenList /\ T \in TokenList BY <3>3 DEF CutUp
      <4>2. Len(T) \in Nat /\ Append(T, w) \in Seq(TokenSet) BY <4>1 DEF TokenList
      <4>3. Len(Append(T, w)) = Len(T) + 1 /\ Append(T, w)[Len(T) + 1] = w
          BY <4>1 DEF TokenList
      <4>4. Len(T) + 1 \in 1..Len(Append(T, w)) BY <4>2, <4>3
      <4> QED BY <4>2, <4>3, <4>4
    <3>6. Parse(m.token, m.buffer) BY <1>3, <2>4
    <3>7. outcome' # "value" BY <1>3, <2>4, <3>6, ParseEnds DEF Finish
    <3>8. ASSUME outcome' = "reading" PROVE \E a, b, d, U, R : ReadSoFar(a, b, d, U, R)'
      <4>1. PICK R : TreeSoFar(Append(T, w), R)' BY <1>3, <3>4, <3>5, <3>6, <3>8, ParseTree
      <4>2. TextIs(u)' BY <1>6, <2>4
      <4>3. ReadSoFar(u, from, h, Append(T, w), R)' BY <1>2, <3>3, <4>1, <4>2 DEF ReadSoFar
      <4> QED BY <4>3
    <3> QED BY <3>7, <3>8 DEF JsonSoFar, JsonAtEnd
  <2> QED BY <2>1, <2>2, <2>3, <2>4
<1> QED BY <1>7, <1>8

\* Every step reads a byte, or nothing of the reader's and the text changes.
LEMMA StepReads ==
    ASSUME TypeInv, [Next]_vars
    PROVE  \/ UNCHANGED <<reader, text>>
           \/ \E c \in 0..EOF : /\ Read(c)
                                /\ text' = IF lex.unget THEN text ELSE Extended(text, c)
                                /\ lex.unget => c = lex.current
<1>1. ASSUME NEW c \in Bytes, ReadByte(c)
      PROVE  /\ c \in 0..EOF /\ Read(c)
             /\ text' = IF lex.unget THEN text ELSE Extended(text, c)
             /\ lex.unget => c = lex.current
  <2>1. c \in 0..EOF /\ c # EOF BY DEF Bytes, EOF
  <2> QED BY <1>1, <2>1 DEF ReadByte, Extended
<1>2. /\ text \in Seq(Bytes) /\ ahead \in Seq(Bytes) /\ family \subseteq Seq(Bytes) \ {<<>>}
      /\ out \in Seq(Bytes) /\ lex.current \in 0..EOF
    BY DEF TypeInv, SourceTyped, ReaderTyped, LexerOK, Lexers, WriterAt, WriterTypes
<1>3. \A f \in Seq(Bytes) : f # <<>> => Head(f) \in Bytes OBVIOUS
<1>4. CASE Dump \/ UNCHANGED vars BY <1>4 DEF Dump, vars
<1>5. CASE ReadAgain
  <2>1. lex.unget /\ Read(lex.current) /\ text' = text BY <1>5 DEF ReadAgain
  <2>2. PICK c \in 0..EOF : c = lex.current BY <1>2
  <2> QED BY <2>1, <2>2
<1>6. CASE ReadBody
  <2>1. Len(text) < Len(out) /\ ReadByte(out[Len(text) + 1]) BY <1>6 DEF ReadBody
  <2>2. Len(text) \in Nat /\ Len(out) \in Nat BY <1>2
  <2>3. Len(text) + 1 \in 1..Len(out) BY <2>1, <2>2
  <2>4. out[Len(text) + 1] \in Bytes BY <1>2, <2>3
  <2>5. PICK c \in Bytes : c = out[Len(text) + 1] BY <2>4
  <2> QED BY <1>1, <2>1, <2>5
<1>7. CASE ReadFragment
  <2>1. PICK f \in family : ReadByte(Head(f)) BY <1>7 DEF ReadFragment
  <2>2. Head(f) \in Bytes BY <1>2, <1>3
  <2>3. PICK c \in Bytes : c = Head(f) BY <2>2
  <2> QED BY <1>1, <2>1, <2>3
<1>8. CASE ReadAhead
  <2>1. ahead # <<>> /\ ReadByte(Head(ahead)) BY <1>8 DEF ReadAhead
  <2>2. PICK c \in Bytes : c = Head(ahead) BY <1>2, <1>3, <2>1
  <2> QED BY <1>1, <2>1, <2>2
<1>9. CASE ReadEnd
  <2>1. ~lex.unget /\ Read(EOF) /\ text' = text BY <1>9 DEF ReadEnd, source
  <2>2. EOF \in 0..EOF BY DEF EOF
  <2> QED BY <2>1, <2>2 DEF Extended
<1> QED BY <1>4, <1>5, <1>6, <1>7, <1>8, <1>9 DEF Next

LEMMA JsonBegins == Init => JsonInv
<1> SUFFICES ASSUME Init PROVE JsonInv OBVIOUS
<1>1. TypeInv BY TypesBegin
<1>2. /\ lex = LexerStart /\ states = <<>> /\ expect = "value" /\ nodes = <<>> /\ refs = <<>>
      /\ outcome = "reading" /\ text = <<>>
    BY DEF Init, ReaderInit
<1>3. ~lex.unget /\ lex.at = "bom" /\ lex.high = 0 BY <1>2 DEF LexerStart
<1>4. PICK none : none = <<>> OBVIOUS
<1>5. CutUp(none, 1, 0, none, lex) BY <1>3, <1>4, Starting
<1>6. TreeSoFar(none, none)
  <2>1. PICK n \in Nat : n = Len(nodes) /\ n = 0 /\ n = Len(refs) /\ n = Len(states)
      /\ n = Len(none) /\ none \in TokenList /\ none \in Seq(SpanSet)
      BY <1>2, <1>4 DEF TokenList
  <2>2. 1..n = {} /\ 2..n = {} BY <2>1
  <2>3. Spanned(none, none, Len(nodes)) BY <2>1, <2>2 DEF Spanned
  <2>4. Opened(none) BY <2>1, <2>2 DEF Opened, OpenIn
  <2>5. Waiting(none, none) BY <1>2, <2>1 DEF Waiting, ValueExpected, Containers
  <2> QED BY <2>1, <2>2, <2>3, <2>4, <2>5 DEF TreeSoFar
<1>7. ReadSoFar(none, 1, 0, none, none) BY <1>2, <1>3, <1>4, <1>5, <1>6 DEF ReadSoFar, TextIs
<1>8. JsonSoFar BY <1>7 DEF JsonSoFar
<1> QED BY <1>1, <1>2, <1>8 DEF JsonInv, JsonAtEnd

LEMMA JsonKept == JsonInv /\ [Next]_vars => JsonInv'
<1> SUFFICES ASSUME JsonInv, [Next]_vars PROVE JsonInv' OBVIOUS
<1>1. TypeInv /\ JsonSoFar /\ JsonAtEnd BY DEF JsonInv
<1>2. TypeInv' BY <1>1, TypesKept
<1>3. CASE UNCHANGED <<reader, text>>
  <2>1. UNCHANGED <<lex, parser, text>> /\ outcome' = outcome /\ nodes' = nodes
      BY <1>3 DEF reader, parser, document
  <2>2. JsonAtEnd' BY <1>1, <2>1 DEF JsonAtEnd
  <2>3. ASSUME outcome = "reading" PROVE JsonSoFar'
    <3>1. PICK t, from, k, T, S : ReadSoFar(t, from, k, T, S) BY <1>1, <2>3 DEF JsonSoFar
    <3>2. TreeSoFar(T, S)' BY <2>1, <3>1, TreeKept DEF ReadSoFar
    <3>3. PICK l : l = lex /\ l = lex' BY <2>1
    <3>4. CutUp(t, from, k, T, lex)' BY <3>1, <3>3 DEF ReadSoFar
    <3>5. TextIs(t)' BY <2>1, <3>1 DEF ReadSoFar, TextIs
    <3>6. ReadSoFar(t, from, k, T, S)' BY <3>2, <3>4, <3>5 DEF ReadSoFar
    <3> QED BY <3>6 DEF JsonSoFar
  <2>4. outcome # "reading" => JsonSoFar' BY <2>1 DEF JsonSoFar
  <2> QED BY <1>2, <2>2, <2>3, <2>4 DEF JsonInv
<1>4. CASE \E c \in 0..EOF : /\ Read(c)
                             /\ text' = IF lex.unget THEN text ELSE Extended(text, c)
                             /\ lex.unget => c = lex.current
  <2>1. PICK c \in 0..EOF : /\ Read(c)
                            /\ text' = IF lex.unget THEN text ELSE Extended(text, c)
                            /\ lex.unget => c = lex.current
      BY <1>4
  <2>2. outcome = "reading" BY <2>1 DEF Read
  <2>3. PICK t, from, k, T, S : ReadSoFar(t, from, k, T, S) BY <1>1, <2>2 DEF JsonSoFar
  <2>4. CutUp(t, from, k, T, lex) /\ TreeSoFar(T, S) BY <2>3 DEF ReadSoFar
  <2>5. text' = Extended(t, c) BY <2>1, <2>3 DEF ReadSoFar, TextIs
  <2>6. ReaderTypes /\ Agree /\ LexerOK(lex) BY <1>1, <2>2 DEF TypeInv, ReaderInv, ReaderTyped
  <2>7. JsonSoFar' /\ JsonAtEnd' BY <2>1, <2>4, <2>5, <2>6, ReadIsJson
  <2> QED BY <1>2, <2>7 DEF JsonInv
<1> QED BY <1>1, <1>3, <1>4, StepReads

\* Of every text: when json.hpp takes it, it is JSON, and the document is its value.
AcceptedIsJson == outcome = "value" => IsJson(text, nodes)
THEOREM OnlyJsonIsAccepted == Spec => []AcceptedIsJson
<1>1. JsonInv => AcceptedIsJson BY DEF JsonInv, JsonAtEnd, AcceptedIsJson
<1> QED BY JsonBegins, JsonKept, <1>1, PTL DEF Spec
=============================================================================
