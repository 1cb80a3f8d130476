------------------------------ MODULE JsonLexer ------------------------------
(***************************************************************************)
(* The lexer of nlohmann/json.hpp, byte by byte: what its scanner does     *)
(* with each byte that get() returns. JsonReader feeds it.                 *)
(*                                                                         *)
(* The scanner's place in its code, the rest of what it is looking for and *)
(* token_buffer are a record. Bytes are numbers. Comments are off, and     *)
(* positions and token_string, which only error texts use, are left out. A *)
(* number is its digits: the conversions of libc are not modelled.         *)
(***************************************************************************)
EXTENDS Naturals, Sequences

EOF == 256
Quote == 34
Comma == 44
Minus == 45
Zero == 48
Colon == 58
Backslash == 92
OpenBracket == 91
CloseBracket == 93
OpenBrace == 123
CloseBrace == 125

\* The scanner before the first byte of a text.
LexerStart ==
    [at |-> "bom", token |-> "none", unget |-> FALSE, current |-> EOF,
     buffer |-> <<>>, rest |-> <<>>, high |-> 0]

Token(lex, token) == [lex EXCEPT !.at = "start", !.token = token]
Fail(lex) == Token(lex, "parse_error")
Add(lex, bytes) == [lex EXCEPT !.buffer = @ \o bytes]
GoOn(lex, at) == [lex EXCEPT !.at = at]

-----------------------------------------------------------------------------
(* scan: the byte that a token begins with.                                *)

Whitespace == {32, 9, 10, 13}

\* Tokens of one byte. A NUL ends the text like the end of the input does.
SingleBytes == {OpenBracket, CloseBracket, OpenBrace, CloseBrace, Colon, Comma, 0, EOF}
Single(c) ==
    CASE c = OpenBracket -> "begin_array"
      [] c = CloseBracket -> "end_array"
      [] c = OpenBrace -> "begin_object"
      [] c = CloseBrace -> "end_object"
      [] c = Colon -> "name_separator"
      [] c = Comma -> "value_separator"
      [] OTHER -> "end_of_input"

\* For t, f and n: the token, and the bytes still to come.
Literals ==
    { <<116, "literal_true", <<114, 117, 101>> >>,
      <<102, "literal_false", <<97, 108, 115, 101>> >>,
      <<110, "literal_null", <<117, 108, 108>> >> }

\* The bytes that scan_number tells apart.
NumberClass(c) ==
    CASE c = Minus -> "-"
      [] c = Zero -> "0"
      [] c \in 49..57 -> "1-9"
      [] c = 46 -> "."
      [] c \in {69, 101} -> "e"
      [] c = 43 -> "+"
      [] OTHER -> "other"

\* scan_number's labels, and where the byte that is read there leads.
Moves(from, classes, to) == {from} \X classes \X {to}
Digit == {"0", "1-9"}

IntegerMoves ==
    Moves("init", {"-"}, "minus")
    \cup Moves("init", {"0"}, "zero") \cup Moves("init", {"1-9"}, "any1")
    \cup Moves("minus", {"0"}, "zero") \cup Moves("minus", {"1-9"}, "any1")
    \cup Moves("any1", Digit, "any1")
    \cup Moves("zero", {"."}, "decimal1") \cup Moves("any1", {"."}, "decimal1")
    \cup Moves("zero", {"e"}, "exponent") \cup Moves("any1", {"e"}, "exponent")

FractionMoves ==
    Moves("decimal1", Digit, "decimal2") \cup Moves("decimal2", Digit, "decimal2")
    \cup Moves("decimal2", {"e"}, "exponent")

ExponentMoves ==
    Moves("exponent", {"+", "-"}, "sign")
    \cup Moves("exponent", Digit, "any2") \cup Moves("sign", Digit, "any2")
    \cup Moves("any2", Digit, "any2")

NumberMoves == IntegerMoves \cup FractionMoves \cup ExponentMoves

NumberLabels ==
    {"minus", "zero", "any1", "decimal1", "decimal2", "exponent", "sign", "any2"}
NumberEnds == {"zero", "any1", "decimal2", "any2"}
NextLabel(at, c) == {m[3] : m \in {n \in NumberMoves : n[1] = at /\ n[2] = NumberClass(c)}}

ScanStart(lex, c) ==
    CASE c \in Whitespace -> GoOn(lex, "start")
      [] c \in SingleBytes -> Token(lex, Single(c))
      [] c = Quote -> [lex EXCEPT !.at = "string", !.buffer = <<>>]
      [] \E l \in Literals : l[1] = c ->
            LET l == CHOOSE l \in Literals : l[1] = c
            IN  [lex EXCEPT !.at = l[2], !.rest = l[3]]
      [] NextLabel("init", c) # {} ->
            [lex EXCEPT !.at = CHOOSE n \in NextLabel("init", c) : TRUE, !.buffer = <<c>>]
      [] OTHER -> Fail(lex)

\* skip_bom, for the first bytes of a text.
ScanBom(lex, c) ==
    IF lex.at = "bom"
    THEN IF c = 239 THEN GoOn(lex, "bom 2") ELSE ScanStart(lex, c)
    ELSE CASE lex.at = "bom 2" /\ c = 187 -> GoOn(lex, "bom 3")
           [] lex.at = "bom 3" /\ c = 191 -> GoOn(lex, "start")
           [] OTHER -> Fail(lex)

ScanLiteral(lex, c) ==
    IF c # Head(lex.rest) THEN Fail(lex)
    ELSE IF Tail(lex.rest) = <<>> THEN Token(lex, lex.at)
    ELSE [lex EXCEPT !.rest = Tail(@)]

\* The token's type follows from how far the number went; an integer that does not fit
\* into 64 bits would be value_float too.
NumberToken(lex) ==
    IF lex.at \in {"decimal2", "any2"} THEN "value_float"
    ELSE IF lex.buffer[1] = Minus THEN "value_integer" ELSE "value_unsigned"

\* The byte after a number is read to find its end, and is read again.
ScanNumber(lex, c) ==
    IF NextLabel(lex.at, c) # {}
    THEN GoOn(Add(lex, <<c>>), CHOOSE n \in NextLabel(lex.at, c) : TRUE)
    ELSE IF lex.at \in NumberEnds
         THEN [Token(lex, NumberToken(lex)) EXCEPT !.unget = TRUE]
         ELSE Fail(lex)

-----------------------------------------------------------------------------
(* scan_string.                                                            *)

Tail80BF == <<128, 191>>

\* Mutant: a plane is forgotten.
Utf8RestTo3FFFF(c) ==
    CASE c \in 194..223 -> <<Tail80BF>>
      [] c = 224 -> << <<160, 191>>, Tail80BF >>
      [] c \in 225..236 \cup {238, 239} -> <<Tail80BF, Tail80BF>>
      [] c = 237 -> << <<128, 159>>, Tail80BF >>
      [] c = 240 -> << <<144, 191>>, Tail80BF, Tail80BF >>
      [] OTHER -> <<>>

\* The ranges that the bytes after this first one must be in.
Utf8Rest(c) ==
    CASE c \in 194..223 -> <<Tail80BF>>
      [] c = 224 -> << <<160, 191>>, Tail80BF >>
      [] c \in 225..236 \cup {238, 239} -> <<Tail80BF, Tail80BF>>
      [] c = 237 -> << <<128, 159>>, Tail80BF >>
      [] c = 240 -> << <<144, 191>>, Tail80BF, Tail80BF >>
      [] c \in 241..243 -> <<Tail80BF, Tail80BF, Tail80BF>>
      [] c = 244 -> << <<128, 143>>, Tail80BF, Tail80BF >>
      [] OTHER -> <<>>

Plain == 32..127 \ {Quote, Backslash}
Control == 0..31

\* The end of the input and a byte that begins no code point fail as control characters do.
ScanChar(lex, c) ==
    CASE c = Quote -> Token(lex, "value_string")
      [] c = Backslash -> GoOn(lex, "escape")
      [] c \in Plain -> Add(lex, <<c>>)
      [] Utf8Rest(c) # <<>> ->
            [Add(lex, <<c>>) EXCEPT !.at = "utf8", !.rest = Utf8Rest(c)]
      [] c \in Control -> Fail(lex)
      [] OTHER -> Fail(lex)

\* next_byte_in_range, for one of its ranges.
ScanUtf8(lex, c) ==
    IF c \in Head(lex.rest)[1]..Head(lex.rest)[2]
    THEN [Add(lex, <<c>>) EXCEPT !.at = IF Tail(lex.rest) = <<>> THEN "string" ELSE "utf8",
                                 !.rest = Tail(lex.rest)]
    ELSE Fail(lex)

\* What stands for what after a backslash.
Unescaped ==
    { <<Quote, Quote>>, <<Backslash, Backslash>>, <<47, 47>>, <<98, 8>>, <<102, 12>>,
      <<110, 10>>, <<114, 13>>, <<116, 9>> }

ScanEscape(lex, c) ==
    CASE c = 117 -> [lex EXCEPT !.at = "hex", !.rest = <<>>]
      [] \E u \in Unescaped : u[1] = c ->
            GoOn(Add(lex, << (CHOOSE u \in Unescaped : u[1] = c)[2] >>), "string")
      [] OTHER -> Fail(lex)

HexDigits == 48..57 \cup 65..70 \cup 97..102
HexValue(c) == IF c <= 57 THEN c - 48 ELSE IF c <= 70 THEN c - 55 ELSE c - 87

Codepoint(digits) ==
    4096 * HexValue(digits[1]) + 256 * HexValue(digits[2])
        + 16 * HexValue(digits[3]) + HexValue(digits[4])

HighSurrogates == 55296..56319
LowSurrogates == 56320..57343

\* The bytes of a code point.
Encode(cp) ==
    LET low(n) == 128 + ((cp \div n) % 64)
    IN  IF cp < 128 THEN <<cp>>
        ELSE IF cp <= 2047 THEN <<192 + (cp \div 64), low(1)>>
        ELSE IF cp <= 65535 THEN <<224 + (cp \div 4096), low(64), low(1)>>
        ELSE <<240 + (cp \div 262144), low(4096), low(64), low(1)>>

\* The four digits are there: a code point, half of one, or neither.
FirstCodepoint(lex, cp) ==
    CASE cp \in HighSurrogates -> [lex EXCEPT !.at = "pair", !.high = cp]
      [] cp \in LowSurrogates -> Fail(lex)
      [] OTHER -> GoOn(Add(lex, Encode(cp)), "string")

\* Mutant: the surrogates' noise is not subtracted.
ScanCodepointNoisy(lex, cp) ==
    IF lex.high = 0 THEN FirstCodepoint(lex, cp)
    ELSE IF cp \in LowSurrogates
         THEN [Add(lex, Encode((lex.high * 1024 + cp) % 65536)) EXCEPT !.at = "string",
                                                                      !.high = 0]
         ELSE Fail(lex)

ScanCodepoint(lex, cp) ==
    IF lex.high = 0 THEN FirstCodepoint(lex, cp)
    ELSE IF cp \in LowSurrogates
         THEN [Add(lex, Encode(lex.high * 1024 + cp - 56613888)) EXCEPT !.at = "string",
                                                                        !.high = 0]
         ELSE Fail(lex)

ScanHex(lex, c) ==
    IF c \notin HexDigits THEN Fail(lex)
    ELSE LET digits == Append(lex.rest, c)
         IN  IF Len(digits) < 4 THEN [lex EXCEPT !.rest = digits]
             ELSE ScanCodepoint([lex EXCEPT !.rest = <<>>], Codepoint(digits))

\* A high surrogate must be followed by \u and a low one.
ScanPair(lex, c) ==
    CASE lex.at = "pair" /\ c = Backslash -> GoOn(lex, "pair u")
      [] lex.at = "pair u" /\ c = 117 -> [lex EXCEPT !.at = "hex", !.rest = <<>>]
      [] OTHER -> Fail(lex)

-----------------------------------------------------------------------------
\* get(), and what the scanner does with the byte.
Scan(lex, c) ==
    LET l == [lex EXCEPT !.current = c, !.unget = FALSE, !.token = "none"]
    IN  CASE l.at \in {"bom", "bom 2", "bom 3"} -> ScanBom(l, c)
          [] l.at = "start" -> ScanStart(l, c)
          [] l.at \in {x[2] : x \in Literals} -> ScanLiteral(l, c)
          [] l.at \in NumberLabels -> ScanNumber(l, c)
          [] l.at = "string" -> ScanChar(l, c)
          [] l.at = "utf8" -> ScanUtf8(l, c)
          [] l.at = "escape" -> ScanEscape(l, c)
          [] l.at = "hex" -> ScanHex(l, c)
          [] OTHER -> ScanPair(l, c)
=============================================================================
