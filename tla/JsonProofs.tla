----------------------------- MODULE JsonProofs -----------------------------
(***************************************************************************)
(* JSON strings there and back, for every text: what the two escapers      *)
(* (canonical.c, gw_json.c) write s_decode_string reads back, and what     *)
(* s_decode_string reads s_skip_string skips, and is UTF-8.  The first     *)
(* part is about the characters that escapes stand for (put_utf8).         *)
(***************************************************************************)
EXTENDS AxTextProofs

-----------------------------------------------------------------------------
(* Characters and elements: put_utf8, and one round of s_decode_string. *)

(* The code points that put_utf8 is called with. *)
Scalars == {cp \in Int : cp >= 0 /\ cp <= MaxCodePoint /\ cp \notin Surrogates}

(* The last code points of one byte, of two and of three. *)
MaxOf1 == 127
MaxOf2 == 2047
MaxOf3 == 65535

(* The bytes of a character made from bits. *)
Bytes2(x, y) == <<192 + x, 128 + y>>
Bytes3(x, y, z) == <<224 + x, 128 + y, 128 + z>>
Bytes4(x, y, z, w) == <<240 + x, 128 + y, 128 + z, 128 + w>>

(* put_utf8 writes the bits of a code point, of two bytes, *)
LEMMA PutBits2 ==
  ASSUME NEW v \in Int, v > MaxOf1, v <= MaxOf2
  PROVE  \E x \in 2 .. 31, y \in Six : put_utf8(v) = Bytes2(x, y)
<1>1. v \div 64 \in 2 .. 31 /\ v % 64 \in Six
  BY SMTT(20) DEF Six, MaxOf1, MaxOf2
<1>2. put_utf8(v) = Bytes2(v \div 64, v % 64)
  BY SMTT(20) DEF put_utf8, Bytes2, MaxOf1, MaxOf2
<1> QED
  BY Zenon, <1>1, <1>2

(* of three, *)
LEMMA PutBits3 ==
  ASSUME NEW v \in Int, v > MaxOf2, v <= MaxOf3
  PROVE  \E x \in 0 .. 15, y \in Six, z \in Six :
           put_utf8(v) = Bytes3(x, y, z) /\ v = x * 4096 + y * 64 + z
<1>1. v \div 4096 \in 0 .. 15 /\ (v \div 64) % 64 \in Six /\ v % 64 \in Six
  BY SMTT(20) DEF Six, MaxOf2, MaxOf3
<1>2. v = (v \div 4096) * 4096 + ((v \div 64) % 64) * 64 + (v % 64)
  BY SMTT(20)
<1>3. put_utf8(v) = Bytes3(v \div 4096, (v \div 64) % 64, v % 64)
  BY SMTT(20) DEF put_utf8, Bytes3, MaxOf2, MaxOf3
<1> QED
  BY SMTT(20), <1>1, <1>2, <1>3

(* and of four. *)
LEMMA PutBits4 ==
  ASSUME NEW v \in Int, v > MaxOf3, v <= MaxCodePoint
  PROVE  \E x \in Three, y \in Six, z \in Six, w \in Six :
           put_utf8(v) = Bytes4(x, y, z, w) /\ v = x * 262144 + y * 4096 + z * 64 + w
<1> DEFINE x == v \div 262144
           y == (v \div 4096) % 64
           z == (v \div 64) % 64
           w == v % 64
<1>1. x \in Three /\ y \in Six /\ z \in Six /\ w \in Six
  BY SMTT(20) DEF Six, Three, MaxOf3, MaxCodePoint
<1>2. v = x * 262144 + y * 4096 + z * 64 + w
  BY SMTT(20)
<1>3. put_utf8(v) = Bytes4(x, y, z, w)
  BY SMTT(20) DEF put_utf8, Bytes4, MaxOf3
<1> HIDE DEF x, y, z, w
<1> QED
  BY SMTT(30), <1>1, <1>2, <1>3

(* What such bytes are. *)
LEMMA BitBytes2 ==
  ASSUME NEW x \in 2 .. 31, NEW y \in Six
  PROVE  \E a \in Byte, b \in Byte : Bytes2(x, y) = <<a, b>> /\ a \in Lead2 /\ Cont(b)
<1>1. 192 + x \in Byte /\ 192 + x \in Lead2 /\ 128 + y \in Byte /\ Cont(128 + y)
  BY SMTT(20) DEF Six, Byte, Cont, Lead2
<1> QED
  BY SMTT(20), <1>1 DEF Bytes2

(* The same of three bytes. *)
LEMMA BitBytes3 ==
  ASSUME NEW x \in 0 .. 15, NEW y \in Six, NEW z \in Six, x > 0 \/ y >= 32, ~(x = 13 /\ y >= 32)
  PROVE  \E a \in Byte, b \in Byte, d \in Byte :
           Bytes3(x, y, z) = <<a, b, d>> /\ a \in Lead3 /\ b \in Second(a) /\ Cont(d)
<1>1. /\ 224 + x \in Byte /\ 224 + x \in Lead3 /\ 128 + y \in Byte
      /\ 128 + z \in Byte /\ Cont(128 + z) /\ 128 + y \in Second(224 + x)
  BY SMTT(20) DEF Six, Byte, Cont, Lead3, Second
<1> QED
  BY SMTT(20), <1>1 DEF Bytes3

(* The same of four. *)
LEMMA BitBytes4 ==
  ASSUME NEW x \in Three, NEW y \in Six, NEW z \in Six, NEW w \in Six,
         x > 0 \/ y >= 16, x < 4 \/ (x = 4 /\ y <= 15)
  PROVE  \E a \in Byte, b \in Byte, d \in Byte, e \in Byte :
           Bytes4(x, y, z, w) = <<a, b, d, e>> /\ a \in Lead4 /\ b \in Second(a) /\ Cont(d) /\ Cont(e)
<1>1. /\ 240 + x \in Byte /\ 240 + x \in Lead4 /\ 128 + y \in Byte
      /\ 128 + z \in Byte /\ Cont(128 + z) /\ 128 + w \in Byte /\ Cont(128 + w)
  BY SMTT(20) DEF Six, Three, Byte, Cont, Lead4
<1>2. 128 + y \in Second(240 + x)
  BY SMTT(20) DEF Six, Three, Second
<1> QED
  BY SMTT(30), <1>1, <1>2 DEF Bytes4

(* A code point of two bytes is written as a character, *)
LEMMA PutTwo ==
  ASSUME NEW v \in Int, v > MaxOf1, v <= MaxOf2, NEW c, c = put_utf8(v)
  PROVE  c \in Seq(Byte) /\ Len(c) = 2 /\ Utf8Step(c, 1) = 2
<1>1. PICK a \in Byte, b \in Byte : c = <<a, b>> /\ a \in Lead2 /\ Cont(b)
  <2>1. PICK x \in 2 .. 31, y \in Six : c = Bytes2(x, y)
    BY SMTT(20), PutBits2
  <2>2. PICK a \in Byte, b \in Byte : Bytes2(x, y) = <<a, b>> /\ a \in Lead2 /\ Cont(b)
    BY SMTT(20), BitBytes2
  <2> QED
    BY SMTT(20), <2>1, <2>2
<1>2. c \in Seq(Byte) /\ Len(c) = 2 /\ c[1] = a /\ c[1 + 1] = b /\ 1 \in 1 .. Len(c) /\ 1 + 1 <= Len(c)
  BY <1>1
<1> QED
  BY Zenon, <1>1, <1>2, SecondContinues, FitsOf, Utf8Two

(* of three, *)
LEMMA PutThree ==
  ASSUME NEW v \in Int, v > MaxOf2, v <= MaxOf3, v \notin Surrogates, NEW c, c = put_utf8(v)
  PROVE  c \in Seq(Byte) /\ Len(c) = 3 /\ Utf8Step(c, 1) = 3
<1>1. PICK x \in 0 .. 15, y \in Six, z \in Six : c = Bytes3(x, y, z) /\ v = x * 4096 + y * 64 + z
  BY SMTT(20), PutBits3
<1>2. v >= MinOf3
  BY SMTT(20) DEF MaxOf2, MinOf3
<1>3. /\ v >= MinOf3 <=> x > 0 \/ y >= 32
      /\ v >= MinSurrogate /\ v <= MaxSurrogate <=> x = 13 /\ y >= 32
  BY SMTT(20), <1>1, ThreeBits
<1>4. PICK a \in Byte, b \in Byte, d \in Byte : c = <<a, b, d>> /\ a \in Lead3 /\ b \in Second(a) /\ Cont(d)
  <2>1. c = Bytes3(x, y, z)
    BY SMTT(20), <1>1
  <2>2. (x > 0 \/ y >= 32) /\ ~(x = 13 /\ y >= 32)
    BY Zenon, <1>2, <1>3, CodeRange
  <2> QED
    BY SMTT(30), <2>1, <2>2, BitBytes3
<1>5. /\ c \in Seq(Byte) /\ Len(c) = 3 /\ c[1] = a /\ c[1 + 1] = b /\ c[1 + 2] = d
      /\ 1 \in 1 .. Len(c) /\ 1 + 2 <= Len(c)
  BY <1>4
<1> QED
  BY Zenon, <1>4, <1>5, FitsOf, Utf8Three

(* and of four. *)
LEMMA PutFour ==
  ASSUME NEW v \in Int, v > MaxOf3, v <= MaxCodePoint, NEW c, c = put_utf8(v)
  PROVE  c \in Seq(Byte) /\ Len(c) = 4 /\ Utf8Step(c, 1) = 4
<1>1. PICK x \in Three, y \in Six, z \in Six, w \in Six :
          c = Bytes4(x, y, z, w) /\ v = x * 262144 + y * 4096 + z * 64 + w
  BY SMTT(20), PutBits4
<1>2. v >= MinOf4
  BY SMTT(20) DEF MaxOf3, MinOf4
<1>3. (x > 0 \/ y >= 16) /\ (x < 4 \/ (x = 4 /\ y <= 15))
  BY SMTT(30), <1>1, <1>2, FourBits
<1>4. PICK a \in Byte, b \in Byte, d \in Byte, e \in Byte :
          c = <<a, b, d, e>> /\ a \in Lead4 /\ b \in Second(a) /\ Cont(d) /\ Cont(e)
  <2>1. c = Bytes4(x, y, z, w)
    BY SMTT(20), <1>1
  <2> QED
    BY SMTT(30), <1>3, <2>1, BitBytes4
<1>5. /\ c \in Seq(Byte) /\ Len(c) = 4 /\ c[1] = a /\ c[1 + 1] = b /\ c[1 + 2] = d /\ c[1 + 3] = e
      /\ 1 \in 1 .. Len(c) /\ 1 + 3 <= Len(c)
  BY <1>4
<1> QED
  BY Zenon, <1>4, <1>5, FitsOf, Utf8Four

(* put_utf8 writes a character. *)
LEMMA PutCharacter ==
  ASSUME NEW v \in Scalars, NEW c, c = put_utf8(v)
  PROVE  c \in Seq(Byte) /\ Len(c) \in 1 .. 4 /\ Utf8Step(c, 1) = Len(c)
<1>1. v \in Int /\ v >= 0 /\ v <= MaxCodePoint /\ v \notin Surrogates
  BY Zenon DEF Scalars
<1>2. v <= MaxOf1 \/ (v > MaxOf1 /\ v <= MaxOf2) \/ (v > MaxOf2 /\ v <= MaxOf3) \/ v > MaxOf3
  BY SMTT(20), <1>1 DEF MaxOf1, MaxOf2, MaxOf3
<1>3. 1 \in 1 .. 4 /\ 2 \in 1 .. 4 /\ 3 \in 1 .. 4 /\ 4 \in 1 .. 4
  OBVIOUS
<1>4. CASE v <= MaxOf1
  <2>1. v \in Ascii /\ v \in Byte
    BY SMTT(20), <1>1, <1>4 DEF MaxOf1, Ascii, Byte
  <2>2. c = <<v>>
    BY SMTT(20), <1>1, <1>4 DEF MaxOf1, put_utf8
  <2>3. c \in Seq(Byte) /\ Len(c) = 1 /\ c[1] = v /\ 1 \in 1 .. Len(c)
    BY <2>1, <2>2
  <2> QED
    BY Zenon, <1>3, <2>1, <2>3, Utf8StepAscii
<1>5. CASE v > MaxOf1 /\ v <= MaxOf2
  BY Zenon, <1>1, <1>3, <1>5, PutTwo
<1>6. CASE v > MaxOf2 /\ v <= MaxOf3
  BY Zenon, <1>1, <1>3, <1>6, PutThree
<1>7. CASE v > MaxOf3
  BY Zenon, <1>1, <1>3, <1>7, PutFour
<1> QED
  BY Zenon, <1>2, <1>4, <1>5, <1>6, <1>7

(* n ASCII bytes stand at p. *)
AsciiRun(s, p, n) == p + n <= Len(s) + 1 /\ \A k \in 0 .. n - 1 : s[p + k] \in Ascii

(* The bytes that JSON strings and their escapes are made of. *)
LEMMA JsonAscii ==
  /\ QUOTE \in Ascii /\ BACKSLASH \in Ascii /\ LowerU \in Ascii /\ QUOTE # BACKSLASH /\ LowerU # QUOTE
  /\ LowerU # BACKSLASH /\ HexDigits \subseteq Ascii /\ Ascii \subseteq Byte
BY SMTT(20) DEF QUOTE, BACKSLASH, LowerU, Ascii, HexDigits, Byte

Escapable == DOMAIN CharEscapes

(* What an escape of one character stands for. *)
LEMMA CharEscapesType ==
  ASSUME NEW c \in Escapable
  PROVE  c \in Ascii /\ c # LowerU /\ CharEscapes[c] \in Ascii
<1>1. c \in {34, 47, 92, 98, 102, 110, 114, 116}
  BY SMTT(20) DEF CharEscapes, Escapable
<1>2. c \in Ascii /\ c # LowerU
  BY SMTT(20), <1>1 DEF Ascii, LowerU
<1>3. CharEscapes[c] \in {8, 12, 10, 13, 9, c}
  BY SMTT(20), <1>1 DEF CharEscapes
<1> QED
  BY SMTT(20), <1>2, <1>3 DEF Ascii

(* The value of a hexadecimal digit. *)
LEMMA HexValue ==
  /\ DOMAIN hexval = HexDigits
  /\ \A c \in HexDigits : hexval[c] \in 0 .. 15
<1>1. DOMAIN hexval = HexDigits
  BY Zenon DEF hexval
<1>2. ASSUME NEW c \in HexDigits PROVE hexval[c] \in 0 .. 15
  <2>1. hexval[c] = IF c < 65 THEN c - 48 ELSE IF c < 97 THEN c - 55 ELSE c - 87
    BY SMTT(20) DEF hexval
  <2> QED
    BY SMTT(20), <2>1 DEF HexDigits
<1> QED
  BY Zenon, <1>1, <1>2

Units == {u \in Int : u >= 0 /\ u <= MaxOf3}

(* s_read_u4 reads four digits, or fails. *)
LEMMA ReadUnit ==
  ASSUME NEW s \in Seq(Byte), NEW p \in Nat \ {0}, NEW u, u = s_read_u4(s, p)
  PROVE  u = -1 \/ (u \in Units /\ AsciiRun(s, p, 4))
<1>1. CASE p + 3 <= Len(s) /\ \A k \in 0 .. 3 : s[p + k] \in HexDigits
  <2>1. 0 \in 0 .. 3 /\ 1 \in 0 .. 3 /\ 2 \in 0 .. 3 /\ 3 \in 0 .. 3 /\ p + 0 = p /\ 4 - 1 = 3
    OBVIOUS
  <2>2. s[p] \in HexDigits /\ s[p + 1] \in HexDigits /\ s[p + 2] \in HexDigits /\ s[p + 3] \in HexDigits
    BY Zenon, <1>1, <2>1
  <2>3. u = hexval[s[p]] * 4096 + hexval[s[p + 1]] * 256 + hexval[s[p + 2]] * 16 + hexval[s[p + 3]]
    BY SMTT(20), <1>1, HexValue DEF s_read_u4
  <2>4. PICK a \in 0 .. 15, b \in 0 .. 15, c \in 0 .. 15, d \in 0 .. 15 :
            a = hexval[s[p]] /\ b = hexval[s[p + 1]] /\ c = hexval[s[p + 2]] /\ d = hexval[s[p + 3]]
    BY Zenon, <2>2, HexValue
  <2>5. u \in Units
    <3>1. u = a * 4096 + b * 256 + c * 16 + d
      BY SMTT(20), <2>3, <2>4
    <3>2. a \in Int /\ b \in Int /\ c \in Int /\ d \in Int
      OBVIOUS
    <3>3. a >= 0 /\ a <= 15 /\ b >= 0 /\ b <= 15 /\ c >= 0 /\ c <= 15 /\ d >= 0 /\ d <= 15
      OBVIOUS
    <3> QED
      BY SMTT(30), <3>1, <3>2, <3>3 DEF Units, MaxOf3
  <2>6. p + 4 <= Len(s) + 1
    BY <1>1
  <2>7. \A k \in 0 .. 4 - 1 : s[p + k] \in Ascii
    BY Zenon, <1>1, <2>1, JsonAscii
  <2> QED
    BY Zenon, <2>5, <2>6, <2>7 DEF AsciiRun
<1>2. CASE ~(p + 3 <= Len(s) /\ \A k \in 0 .. 3 : s[p + k] \in HexDigits)
  BY SMTT(20), <1>2, HexValue DEF s_read_u4
<1> QED
  BY Zenon, <1>1, <1>2

(* The code points of one \u escape and of a pair of them. *)
LEMMA UnitScalar ==
  ASSUME NEW u \in Units, u \notin LowSurrogates, u \notin HighSurrogates
  PROVE  u \in Scalars
<1>1. u \in Int /\ u >= 0 /\ u <= MaxCodePoint
  BY SMTT(20) DEF Units, MaxOf3, MaxCodePoint
<1>2. u \notin Surrogates
  <2>1. HighSurrogates \cup LowSurrogates = Surrogates
    BY SMTT(20) DEF LowSurrogates, HighSurrogates, Surrogates, MinSurrogate, MaxSurrogate
  <2> QED
    BY Zenon, <2>1
<1> QED
  BY Zenon, <1>1, <1>2 DEF Scalars

PairCode(u1, u2) == 65536 + (u1 - 55296) * 1024 + (u2 - 56320)

(* A pair of surrogates is one code point of four bytes. *)
LEMMA PairScalar ==
  ASSUME NEW u1 \in HighSurrogates, NEW u2 \in LowSurrogates
  PROVE  PairCode(u1, u2) \in Scalars
<1>1. u1 \in Int /\ u1 >= 55296 /\ u1 <= 56319
  BY SMT DEF HighSurrogates
<1>2. u2 \in Int /\ u2 >= 56320 /\ u2 <= 57343
  BY SMT DEF LowSurrogates
<1>3. PICK c \in Int : c = PairCode(u1, u2) /\ c >= 65536 /\ c <= 1114111
  BY SMTT(30), <1>1, <1>2 DEF PairCode
<1>4. c >= 0 /\ c <= MaxCodePoint /\ c \notin Surrogates
  BY SMTT(30), <1>3 DEF Surrogates, MinSurrogate, MaxSurrogate, MaxCodePoint
<1> QED
  BY SMTT(30), <1>3, <1>4 DEF Scalars

(* What is at p, by kind: no element, a byte, an escaped character, a \u   *)
(* escape, or a pair of them.                                              *)
IsNone(e) == e = NoElement
IsByte(s, p, e) == s[p] # BACKSLASH /\ e = Element(1, <<s[p]>>)
IsEscaped(s, p, e) == /\ s[p] = BACKSLASH /\ AsciiRun(s, p, 2) /\ s[p + 1] # LowerU
                      /\ \E c \in Ascii : e = Element(2, <<c>>)
IsUnit(s, p, e) == /\ s[p] = BACKSLASH /\ s[p + 1] = LowerU /\ AsciiRun(s, p, 6)
                   /\ \E v \in Scalars : e = Element(6, put_utf8(v))
PairAt(s, p) == /\ s[p] = BACKSLASH /\ s[p + 1] = LowerU /\ AsciiRun(s, p, 6)
                /\ s[p + 6] = BACKSLASH /\ s[p + 7] = LowerU /\ AsciiRun(s, p + 6, 6)
IsPair(s, p, e) == PairAt(s, p) /\ \E v \in Scalars : e = Element(12, put_utf8(v))

(* Six bytes: the backslash, the u and the digits. *)
LEMMA UnitRun ==
  ASSUME NEW s \in Seq(Byte), NEW p \in 1 .. Len(s), s[p] = BACKSLASH, s[p + 1] = LowerU, AsciiRun(s, p + 2, 4)
  PROVE  AsciiRun(s, p, 6)
<1>1. p + 6 <= Len(s) + 1
  BY DEF AsciiRun
<1>2. ASSUME NEW k \in 0 .. 6 - 1 PROVE s[p + k] \in Ascii
  <2>1. CASE k = 0
    BY <2>1, JsonAscii
  <2>2. CASE k = 1
    BY <2>2, JsonAscii
  <2>3. CASE k # 0 /\ k # 1
    <3>1. k - 2 \in 0 .. 4 - 1 /\ p + 2 + (k - 2) = p + k
      BY <2>3
    <3> QED
      BY <3>1 DEF AsciiRun
  <2> QED
    BY SMTT(30), <2>1, <2>2, <2>3
<1> QED
  BY Zenon, <1>1, <1>2 DEF AsciiRun

(* The kinds of elements that s_decode_string tells apart, each with the   *)
(* character it stands for.                                                *)
LEMMA ElementKinds ==
  ASSUME NEW s \in Seq(Byte), NEW p \in 1 .. Len(s), NEW e, e = StringElement(s, p)
  PROVE  IsNone(e) \/ IsByte(s, p, e) \/ IsEscaped(s, p, e) \/ IsUnit(s, p, e) \/ IsPair(s, p, e)
<1>1. CASE s[p] # BACKSLASH
  BY Zenon, <1>1 DEF StringElement, IsByte
<1>2. CASE s[p] = BACKSLASH /\ p = Len(s)
  BY Zenon, <1>2 DEF StringElement, IsNone
<1>3. CASE s[p] = BACKSLASH /\ p # Len(s) /\ s[p + 1] \in Escapable
  <2>1. s[p + 1] \in Ascii /\ s[p + 1] # LowerU /\ CharEscapes[s[p + 1]] \in Ascii
    BY Zenon, <1>3, CharEscapesType
  <2>2. e = Element(2, <<CharEscapes[s[p + 1]]>>)
    BY Zenon, <1>3 DEF StringElement, Escapable
  <2>3. AsciiRun(s, p, 2)
    <3>1. p + 2 <= Len(s) + 1 /\ p + 0 = p /\ \A k \in 0 .. 2 - 1 : k = 0 \/ k = 1
      BY <1>3
    <3> QED
      BY Zenon, <1>3, <2>1, <3>1, JsonAscii DEF AsciiRun
  <2> QED
    BY Zenon, <1>3, <2>1, <2>2, <2>3 DEF IsEscaped
<1>4. CASE s[p] = BACKSLASH /\ p # Len(s) /\ s[p + 1] \notin Escapable /\ s[p + 1] # LowerU
  BY Zenon, <1>4 DEF StringElement, Escapable, IsNone
<1>5. CASE s[p] = BACKSLASH /\ p # Len(s) /\ s[p + 1] \notin Escapable /\ s[p + 1] = LowerU
  <2> DEFINE u1 == s_read_u4(s, p + 2)
             pair == p + 7 <= Len(s) /\ s[p + 6] = BACKSLASH /\ s[p + 7] = LowerU
             u2 == IF pair THEN s_read_u4(s, p + 8) ELSE -1
  <2>1. e = UnicodeElement(s, p)
    BY Zenon, <1>5 DEF StringElement, Escapable
  <2>2. e = IF u1 = -1 \/ u1 \in LowSurrogates THEN NoElement
            ELSE IF u1 \notin HighSurrogates THEN Element(6, put_utf8(u1))
            ELSE IF u2 \notin LowSurrogates THEN NoElement
            ELSE Element(12, put_utf8(PairCode(u1, u2)))
    BY <2>1 DEF UnicodeElement, PairCode
  <2>3. u1 = -1 \/ (u1 \in Units /\ AsciiRun(s, p + 2, 4))
    <3>1. p + 2 \in Nat \ {0}
      OBVIOUS
    <3> QED
      BY Zenon, <3>1, ReadUnit
  <2>4. u2 = -1 \/ (pair /\ u2 \in Units /\ AsciiRun(s, p + 8, 4))
    <3>1. p + 8 \in Nat \ {0}
      OBVIOUS
    <3> QED
      BY Zenon, <3>1, ReadUnit
  <2>5. -1 \notin LowSurrogates
    BY SMTT(20) DEF LowSurrogates
  <2>6. pair => p + 6 \in 1 .. Len(s) /\ p + 6 + 1 = p + 7 /\ p + 6 + 2 = p + 8
    OBVIOUS
  <2> HIDE DEF u1, u2
  <2>7. CASE u1 = -1 \/ u1 \in LowSurrogates
    BY Zenon, <2>2, <2>7 DEF IsNone
  <2>8. CASE ~(u1 = -1 \/ u1 \in LowSurrogates) /\ u1 \notin HighSurrogates
    <3>1. u1 \in Scalars /\ AsciiRun(s, p, 6)
      BY Zenon, <1>5, <2>3, <2>8, UnitScalar, UnitRun
    <3> QED
      BY Zenon, <1>5, <2>2, <2>8, <3>1 DEF IsUnit
  <2>9. CASE ~(u1 = -1 \/ u1 \in LowSurrogates) /\ u1 \in HighSurrogates /\ u2 \notin LowSurrogates
    BY Zenon, <2>2, <2>9 DEF IsNone
  <2>10. CASE ~(u1 = -1 \/ u1 \in LowSurrogates) /\ u1 \in HighSurrogates /\ u2 \in LowSurrogates
    <3>1. AsciiRun(s, p, 6) /\ PairCode(u1, u2) \in Scalars
      BY Zenon, <1>5, <2>3, <2>10, PairScalar, UnitRun
    <3>2. pair /\ AsciiRun(s, p + 8, 4)
      BY Zenon, <2>4, <2>5, <2>10
    <3>3. AsciiRun(s, p + 6, 6)
      <4>1. PICK q \in 1 .. Len(s) : q = p + 6 /\ q + 1 = p + 7 /\ q + 2 = p + 8
        BY <2>6, <3>2
      <4> QED
        BY Zenon, <3>2, <4>1, UnitRun
    <3>4. e = Element(12, put_utf8(PairCode(u1, u2)))
      BY Zenon, <2>2, <2>10
    <3> QED
      BY Zenon, <1>5, <3>1, <3>2, <3>3, <3>4 DEF IsPair, PairAt
  <2> QED
    BY Zenon, <2>7, <2>8, <2>9, <2>10
<1> QED
  BY Zenon, <1>1, <1>2, <1>3, <1>4, <1>5

-----------------------------------------------------------------------------
(* The loops of s_decode_string and s_skip_string. *)

Decoded == [text : Seq(Byte), next : Nat]
JoinedTo(t, rest) == IF rest.next = 0 THEN NoString ELSE [text |-> t \o rest.text, next |-> rest.next]
Closed(p) == [text |-> <<>>, next |-> p + 1]

(* An element is within the text. *)
LEMMA ElementType ==
  ASSUME NEW s \in Seq(Byte), NEW p \in 1 .. Len(s), NEW e, e = StringElement(s, p)
  PROVE  e.n \in Nat /\ e.text \in Seq(Byte) /\ (e.n # 0 => p + e.n \in p + 1 .. Len(s) + 1)
<1>1. IsNone(e) \/ IsByte(s, p, e) \/ IsEscaped(s, p, e) \/ IsUnit(s, p, e) \/ IsPair(s, p, e)
  BY Zenon, ElementKinds
<1>3. CASE IsNone(e)
  <2>1. e.n = 0 /\ e.text = <<>>
    BY <1>3 DEF IsNone, NoElement, Element
  <2> QED
    BY <2>1, EmptySeq
<1>4. CASE IsByte(s, p, e)
  <2>1. e.n = 1 /\ e.text = <<s[p]>>
    BY <1>4 DEF IsByte, Element
  <2> QED
    BY <2>1
<1>5. CASE IsEscaped(s, p, e)
  <2>1. PICK c \in Ascii : e.n = 2 /\ e.text = <<c>>
    BY <1>5 DEF IsEscaped, Element
  <2>2. c \in Byte
    BY Zenon, JsonAscii
  <2>3. p + 2 <= Len(s) + 1
    BY Zenon, <1>5 DEF IsEscaped, AsciiRun
  <2> QED
    BY <2>1, <2>2, <2>3
<1>6. CASE IsUnit(s, p, e)
  <2>1. PICK v \in Scalars : e.n = 6 /\ e.text = put_utf8(v)
    BY <1>6 DEF IsUnit, Element
  <2>2. e.text \in Seq(Byte)
    BY Zenon, <2>1, PutCharacter
  <2>3. p + 6 <= Len(s) + 1
    BY Zenon, <1>6 DEF IsUnit, AsciiRun
  <2> QED
    BY <2>1, <2>2, <2>3
<1>7. CASE IsPair(s, p, e)
  <2>1. PICK v \in Scalars : e.n = 12 /\ e.text = put_utf8(v)
    BY <1>7 DEF IsPair, Element
  <2>2. e.text \in Seq(Byte)
    BY Zenon, <2>1, PutCharacter
  <2>3. p + 6 + 6 <= Len(s) + 1
    BY Zenon, <1>7 DEF IsPair, PairAt, AsciiRun
  <2> QED
    BY <2>1, <2>2, <2>3
<1> QED
  BY Zenon, <1>1, <1>3, <1>4, <1>5, <1>6, <1>7

(* What is joined to the rest of a string. *)
LEMMA JoinedToType ==
  ASSUME NEW t \in Seq(Byte), NEW d \in Decoded
  PROVE  JoinedTo(t, d) \in Decoded
<1>1. NoString \in Decoded
  BY EmptySeq DEF NoString, Decoded
<1>2. d.text \in Seq(Byte) /\ d.next \in Nat
  BY DEF Decoded
<1>3. t \o d.text \in Seq(Byte)
  BY <1>2, ConcatProperties
<1>4. [text |-> t \o d.text, next |-> d.next] \in Decoded
  BY <1>2, <1>3 DEF Decoded
<1> QED
  BY Zenon, <1>1, <1>4 DEF JoinedTo

(* One round of s_decode_string. *)
DecodeRound(s, p, f) ==
  IF p > Len(s) THEN NoString ELSE IF s[p] = QUOTE THEN Closed(p)
  ELSE IF StringElement(s, p).n = 0 THEN NoString
  ELSE JoinedTo(StringElement(s, p).text, f[p + StringElement(s, p).n])

(* The loop of s_decode_string. *)
LEMMA DecodeUnfolds ==
  ASSUME NEW s \in Seq(Byte)
  PROVE  /\ DecodedFrom(s) \in [1 .. Len(s) + 1 -> Decoded]
         /\ \A p \in 1 .. Len(s) + 1 : DecodedFrom(s)[p] = DecodeRound(s, p, DecodedFrom(s))
<1> DEFINE N == Len(s) + 1
           Stop == {p \in 1 .. N : p > Len(s) \/ s[p] = QUOTE \/ StringElement(s, p).n = 0}
           base == [p \in 1 .. N |-> IF p > Len(s) THEN NoString ELSE IF s[p] = QUOTE THEN Closed(p) ELSE NoString]
           nxt == [p \in 1 .. N |-> p + StringElement(s, p).n]
           h == [p \in 1 .. N |-> [d \in Decoded |-> JoinedTo(StringElement(s, p).text, d)]]
           Ok(f) == f = [p \in 1 .. N |->
                          IF p > Len(s) THEN NoString
                          ELSE IF s[p] = QUOTE THEN [text |-> <<>>, next |-> p + 1]
                          ELSE LET e == StringElement(s, p)
                                   rest == IF e.n = 0 THEN NoString ELSE f[p + e.n]
                               IN IF rest.next = 0 THEN NoString
                                  ELSE [text |-> e.text \o rest.text, next |-> rest.next]]
<1>1. N \in Nat /\ Len(s) \in Nat
  OBVIOUS
<1>2. NoString \in Decoded /\ NoString.next = 0
  BY EmptySeq DEF NoString, Decoded
<1>3. ASSUME NEW p \in 1 .. N PROVE Closed(p) \in Decoded
  <2>1. p + 1 \in Nat /\ <<>> \in Seq(Byte)
    BY EmptySeq
  <2> QED
    BY <2>1 DEF Closed, Decoded
<1>4. ASSUME NEW p \in 1 .. N, p \notin Stop
      PROVE  /\ nxt[p] \in p + 1 .. N /\ nxt[p] = p + StringElement(s, p).n /\ nxt[p] \in 1 .. N
             /\ StringElement(s, p).text \in Seq(Byte)
  <2>1. p \in 1 .. Len(s) /\ StringElement(s, p).n # 0
    BY <1>1, <1>4
  <2>2. /\ StringElement(s, p).n \in Nat /\ StringElement(s, p).text \in Seq(Byte)
        /\ p + StringElement(s, p).n \in p + 1 .. N
    BY Zenon, <2>1, ElementType
  <2>3. nxt[p] = p + StringElement(s, p).n
    OBVIOUS
  <2>4. p + 1 .. N \subseteq 1 .. N
    OBVIOUS
  <2> QED
    BY Zenon, <2>2, <2>3, <2>4
<1>5. ASSUME NEW p \in 1 .. N
      PROVE  IF p \in Stop THEN base[p] \in Decoded
             ELSE nxt[p] \in p + 1 .. N /\ \A d \in Decoded : h[p][d] \in Decoded
  <2>1. base[p] \in Decoded
    BY Zenon, <1>2, <1>3
  <2>2. ASSUME p \notin Stop, NEW d \in Decoded PROVE h[p][d] \in Decoded
    <3>1. h[p][d] = JoinedTo(StringElement(s, p).text, d)
      OBVIOUS
    <3> QED
      BY Zenon, <1>4, <2>2, <3>1, JoinedToType
  <2> QED
    BY Zenon, <1>4, <2>1, <2>2
<1>6. PICK f : Runs(f, N, Decoded, Stop, base, nxt, h)
  <2> HIDE DEF N, Stop, base, nxt, h
  <2>1. Loop(N, Decoded, Stop, base, nxt, h)
    BY Zenon, <1>5 DEF Loop
  <2> QED
    BY Zenon, <1>1, <2>1, Walk
<1>7. f \in [1 .. N -> Decoded]
  BY Zenon, <1>6 DEF Runs
<1>8. ASSUME NEW p \in 1 .. N PROVE f[p] = DecodeRound(s, p, f)
  <2>1. CASE p \in Stop
    <3>1. f[p] = base[p] /\ (p > Len(s) \/ s[p] = QUOTE \/ StringElement(s, p).n = 0)
      <4>1. f[p] = base[p]
        BY Zenon, <1>6, <2>1 DEF Runs
      <4> QED
        BY Zenon, <2>1, <4>1
    <3> QED
      BY Zenon, <3>1 DEF DecodeRound
  <2>2. CASE p \notin Stop
    <3>1. f[p] = h[p][f[nxt[p]]]
      BY Zenon, <1>6, <2>2 DEF Runs
    <3>2. f[nxt[p]] \in Decoded
      BY Zenon, <1>4, <1>7, <2>2
    <3>3. h[p][f[nxt[p]]] = JoinedTo(StringElement(s, p).text, f[nxt[p]])
      BY Zenon, <3>2
    <3>4. ~(p > Len(s)) /\ s[p] # QUOTE /\ StringElement(s, p).n # 0
      BY Zenon, <2>2
    <3> QED
      BY Zenon, <1>4, <2>2, <3>1, <3>3, <3>4 DEF DecodeRound
  <2> QED
    BY Zenon, <2>1, <2>2
<1>9. ASSUME NEW g, NEW p
      PROVE  DecodeRound(s, p, g) =
               IF p > Len(s) THEN NoString
               ELSE IF s[p] = QUOTE THEN [text |-> <<>>, next |-> p + 1]
               ELSE LET e == StringElement(s, p)
                        rest == IF e.n = 0 THEN NoString ELSE g[p + e.n]
                    IN IF rest.next = 0 THEN NoString
                       ELSE [text |-> e.text \o rest.text, next |-> rest.next]
  BY Zenon, <1>2 DEF DecodeRound, JoinedTo, Closed
<1>10. Ok(f)
  BY Zenon, <1>7, <1>8, <1>9
<1>11. Ok(DecodedFrom(s))
  <2>1. DecodedFrom(s) = CHOOSE g : Ok(g)
    BY DEF DecodedFrom
  <2> HIDE DEF Ok
  <2> QED
    BY Zenon, <1>10, <2>1
<1> DEFINE g == DecodedFrom(s)
           S == {p \in 1 .. N : g[p] \in Decoded}
<1>12. ASSUME NEW p \in 1 .. N PROVE g[p] = DecodeRound(s, p, g)
  <2>1. g[p] = IF p > Len(s) THEN NoString
               ELSE IF s[p] = QUOTE THEN [text |-> <<>>, next |-> p + 1]
               ELSE LET e == StringElement(s, p)
                        rest == IF e.n = 0 THEN NoString ELSE g[p + e.n]
                    IN IF rest.next = 0 THEN NoString
                       ELSE [text |-> e.text \o rest.text, next |-> rest.next]
    BY Zenon, <1>11
  <2> HIDE DEF g
  <2> QED
    BY Zenon, <1>9, <2>1
<1>13. DOMAIN g = 1 .. N /\ g = [p \in 1 .. N |-> g[p]]
  BY Zenon, <1>11
<1> HIDE DEF g, Ok
<1>14. ASSUME NEW p \in 1 .. N, \A q \in p + 1 .. N : q \in S PROVE p \in S
  <2>1. CASE p \in Stop
    <3>1. g[p] = NoString \/ g[p] = Closed(p)
      BY Zenon, <1>12, <2>1 DEF DecodeRound
    <3> QED
      BY Zenon, <1>2, <1>3, <3>1
  <2>2. CASE p \notin Stop
    <3>1. ~(p > Len(s)) /\ s[p] # QUOTE /\ StringElement(s, p).n # 0
      BY Zenon, <2>2
    <3>2. nxt[p] \in p + 1 .. N /\ nxt[p] = p + StringElement(s, p).n /\ StringElement(s, p).text \in Seq(Byte)
      BY Zenon, <1>4, <2>2
    <3> HIDE DEF nxt, Stop, base, h
    <3>3. g[nxt[p]] \in Decoded
      BY Zenon, <1>14, <3>2
    <3>4. g[p] = JoinedTo(StringElement(s, p).text, g[nxt[p]])
      BY Zenon, <1>12, <3>1, <3>2 DEF DecodeRound
    <3>5. g[p] \in Decoded
      BY Zenon, <3>2, <3>3, <3>4, JoinedToType
    <3> QED
      BY Zenon, <3>5
  <2> QED
    BY Zenon, <2>1, <2>2
<1>15. \A p \in 1 .. N : p \in S
  <2> HIDE DEF S, N
  <2> QED
    BY Zenon, <1>1, <1>14, FromTheEnd
<1>16. g \in [1 .. N -> Decoded]
  BY <1>13, <1>15
<1> QED
  BY Zenon, <1>12, <1>16 DEF g

(* Where s_skip_string goes from p. *)
SkipTo(s, p) == IF s[p] # BACKSLASH THEN p + 1 ELSE IF s[p + 1] # LowerU THEN p + 2 ELSE p + 6

SkipFails(s, p) == s[p] = BACKSLASH /\ (p = Len(s) \/ (s[p + 1] = LowerU /\ Len(s) - (p + 1) < 4))

(* One round of s_skip_string. *)
SkipRound(s, p, f) ==
  IF p > Len(s) THEN 0 ELSE IF s[p] = QUOTE THEN p + 1
  ELSE IF SkipFails(s, p) THEN 0 ELSE f[SkipTo(s, p)]

(* The loop of s_skip_string. *)
LEMMA SkipUnfolds ==
  ASSUME NEW s \in Seq(Byte)
  PROVE  \A p \in 1 .. Len(s) + 1 : SkippedFrom(s)[p] = SkipRound(s, p, SkippedFrom(s))
<1> DEFINE N == Len(s) + 1
           Stop == {p \in 1 .. N : p > Len(s) \/ s[p] = QUOTE \/ SkipFails(s, p)}
           base == [p \in 1 .. N |-> IF p > Len(s) THEN 0 ELSE IF s[p] = QUOTE THEN p + 1 ELSE 0]
           nxt == [p \in 1 .. N |-> SkipTo(s, p)]
           h == [p \in 1 .. N |-> [d \in Nat |-> d]]
           Ok(f) == f = [p \in 1 .. N |->
                          IF p > Len(s) THEN 0
                          ELSE IF s[p] = QUOTE THEN p + 1
                          ELSE IF s[p] # BACKSLASH THEN f[p + 1]
                          ELSE IF p = Len(s) THEN 0
                          ELSE IF s[p + 1] # LowerU THEN f[p + 2]
                          ELSE IF Len(s) - (p + 1) < 4 THEN 0 ELSE f[p + 6]]
<1>1. N \in Nat /\ Len(s) \in Nat
  OBVIOUS
<1>2. ASSUME NEW p \in 1 .. N, p \notin Stop
      PROVE  nxt[p] \in p + 1 .. N /\ nxt[p] = SkipTo(s, p) /\ nxt[p] \in 1 .. N
  <2>1. ~(p > Len(s)) /\ ~SkipFails(s, p)
    BY Zenon, <1>2
  <2>2. SkipTo(s, p) \in p + 1 .. N
    <3>1. CASE s[p] # BACKSLASH
      BY <1>1, <2>1, <3>1 DEF SkipTo
    <3>2. CASE s[p] = BACKSLASH /\ s[p + 1] # LowerU
      <4>1. p # Len(s) /\ SkipTo(s, p) = p + 2
        BY Zenon, <2>1, <3>2 DEF SkipTo, SkipFails
      <4> QED
        BY <1>1, <2>1, <4>1
    <3>3. CASE s[p] = BACKSLASH /\ s[p + 1] = LowerU
      <4>1. ~(Len(s) - (p + 1) < 4) /\ SkipTo(s, p) = p + 6
        BY Zenon, <2>1, <3>3 DEF SkipTo, SkipFails
      <4> QED
        BY <1>1, <2>1, <4>1
    <3> QED
      BY Zenon, <3>1, <3>2, <3>3
  <2>3. p + 1 .. N \subseteq 1 .. N
    OBVIOUS
  <2> QED
    BY Zenon, <2>2, <2>3
<1>3. ASSUME NEW p \in 1 .. N
      PROVE  IF p \in Stop THEN base[p] \in Nat
             ELSE nxt[p] \in p + 1 .. N /\ \A d \in Nat : h[p][d] \in Nat
  <2>1. base[p] \in Nat
    OBVIOUS
  <2>2. \A d \in Nat : h[p][d] \in Nat
    OBVIOUS
  <2> QED
    BY Zenon, <1>2, <2>1, <2>2
<1>4. PICK f : Runs(f, N, Nat, Stop, base, nxt, h)
  <2> HIDE DEF N, Stop, base, nxt, h
  <2>1. Loop(N, Nat, Stop, base, nxt, h)
    BY Zenon, <1>3 DEF Loop
  <2> QED
    BY Zenon, <1>1, <2>1, Walk
<1>5. f \in [1 .. N -> Nat]
  BY Zenon, <1>4 DEF Runs
<1>6. ASSUME NEW p \in 1 .. N PROVE f[p] = SkipRound(s, p, f)
  <2>1. CASE p \in Stop
    <3>1. f[p] = base[p]
      BY Zenon, <1>4, <2>1 DEF Runs
    <3>2. p > Len(s) \/ s[p] = QUOTE \/ SkipFails(s, p)
      BY Zenon, <2>1
    <3> QED
      BY Zenon, <3>1, <3>2 DEF SkipRound
  <2>2. CASE p \notin Stop
    <3>1. f[p] = h[p][f[nxt[p]]]
      BY Zenon, <1>4, <2>2 DEF Runs
    <3>2. f[nxt[p]] \in Nat
      BY Zenon, <1>2, <1>5, <2>2
    <3>3. h[p][f[nxt[p]]] = f[nxt[p]]
      BY Zenon, <3>2
    <3>4. ~(p > Len(s)) /\ s[p] # QUOTE /\ ~SkipFails(s, p)
      BY Zenon, <2>2
    <3> QED
      BY Zenon, <1>2, <2>2, <3>1, <3>3, <3>4 DEF SkipRound
  <2> QED
    BY Zenon, <2>1, <2>2
<1>7. ASSUME NEW g, NEW p
      PROVE  SkipRound(s, p, g) =
               IF p > Len(s) THEN 0
               ELSE IF s[p] = QUOTE THEN p + 1
               ELSE IF s[p] # BACKSLASH THEN g[p + 1]
               ELSE IF p = Len(s) THEN 0
               ELSE IF s[p + 1] # LowerU THEN g[p + 2]
               ELSE IF Len(s) - (p + 1) < 4 THEN 0 ELSE g[p + 6]
  BY Zenon DEF SkipRound, SkipFails, SkipTo
<1>8. Ok(f)
  BY Zenon, <1>5, <1>6, <1>7
<1>9. Ok(SkippedFrom(s))
  <2>1. SkippedFrom(s) = CHOOSE g : Ok(g)
    BY DEF SkippedFrom
  <2> HIDE DEF Ok
  <2> QED
    BY Zenon, <1>8, <2>1
<1>10. ASSUME NEW g, Ok(g), NEW p \in 1 .. N PROVE g[p] = SkipRound(s, p, g)
  <2>1. g[p] = IF p > Len(s) THEN 0
               ELSE IF s[p] = QUOTE THEN p + 1
               ELSE IF s[p] # BACKSLASH THEN g[p + 1]
               ELSE IF p = Len(s) THEN 0
               ELSE IF s[p + 1] # LowerU THEN g[p + 2]
               ELSE IF Len(s) - (p + 1) < 4 THEN 0 ELSE g[p + 6]
    BY Zenon, <1>10
  <2> QED
    BY Zenon, <1>7, <2>1
<1> HIDE DEF Ok
<1> QED
  BY Zenon, <1>9, <1>10

(* The string from p on is the element e and the string after it. *)
DecodesOn(s, p, e) ==
  /\ e.n # 0 /\ e.n \in Nat /\ e.text \in Seq(Byte) /\ p + e.n \in p + 1 .. Len(s) + 1
  /\ DecodedFrom(s)[p + e.n] \in Decoded
  /\ DecodedFrom(s)[p + e.n].next # 0
  /\ DecodedFrom(s)[p].next = DecodedFrom(s)[p + e.n].next
  /\ DecodedFrom(s)[p].text = e.text \o DecodedFrom(s)[p + e.n].text

(* One element of a string that decodes. *)
LEMMA DecodeStep ==
  ASSUME NEW s \in Seq(Byte), NEW p \in 1 .. Len(s), s[p] # QUOTE, DecodedFrom(s)[p].next # 0
  PROVE  DecodesOn(s, p, StringElement(s, p))
<1> DEFINE D == DecodedFrom(s)
           e == StringElement(s, p)
<1> HIDE DEF D, e
<1>1. p \in 1 .. Len(s) + 1 /\ ~(p > Len(s))
  OBVIOUS
<1>2. D[p] = IF e.n = 0 THEN NoString ELSE JoinedTo(e.text, D[p + e.n])
  BY Zenon, <1>1, DecodeUnfolds DEF DecodeRound, D, e
<1>3. NoString.next = 0
  BY DEF NoString
<1>4. e.n # 0 /\ D[p].next # 0
  BY Zenon, <1>2, <1>3 DEF D
<1>5. D[p] = JoinedTo(e.text, D[p + e.n])
  BY Zenon, <1>2, <1>4
<1>6. D[p + e.n].next # 0 /\ D[p].next = D[p + e.n].next /\ D[p].text = e.text \o D[p + e.n].text
  <2>1. PICK j, t, d : j = D[p] /\ t = e.text /\ d = D[p + e.n]
    OBVIOUS
  <2>2. j = JoinedTo(t, d) /\ j.next # 0
    BY Zenon, <1>4, <1>5, <2>1
  <2>3. d.next # 0 /\ j.next = d.next /\ j.text = t \o d.text
    <3>1. d.next # 0 /\ j = [text |-> t \o d.text, next |-> d.next]
      BY <1>3, <2>2 DEF JoinedTo
    <3> QED
      BY <3>1
  <2> QED
    BY Zenon, <2>1, <2>3
<1>7. e.n \in Nat /\ e.text \in Seq(Byte) /\ p + e.n \in p + 1 .. Len(s) + 1
  BY Zenon, <1>4, ElementType DEF e
<1>8. p + 1 .. Len(s) + 1 \subseteq 1 .. Len(s) + 1
  OBVIOUS
<1>9. D[p + e.n] \in Decoded
  BY Zenon, <1>7, <1>8, DecodeUnfolds DEF D
<1> QED
  BY Zenon, <1>4, <1>6, <1>7, <1>9 DEF DecodesOn, D, e

(* A round of s_skip_string at an escape. *)
LEMMA SkipEscape ==
  ASSUME NEW s \in Seq(Byte), NEW p \in 1 .. Len(s), s[p] = BACKSLASH, NEW n \in {2, 6},
         AsciiRun(s, p, n), s[p + 1] = LowerU <=> n = 6
  PROVE  SkippedFrom(s)[p] = SkippedFrom(s)[p + n]
<1>1. p \in 1 .. Len(s) + 1 /\ ~(p > Len(s))
  OBVIOUS
<1>2. p + n <= Len(s) + 1
  BY Zenon DEF AsciiRun
<1>3. p # Len(s) /\ ~(n = 6 /\ Len(s) - (p + 1) < 4) /\ (n = 2 \/ n = 6)
  BY <1>2
<1>4. ~SkipFails(s, p) /\ SkipTo(s, p) = p + n
  BY Zenon, <1>3 DEF SkipFails, SkipTo
<1> QED
  BY Zenon, <1>1, <1>4, SkipUnfolds, JsonAscii DEF SkipRound

(* What decodes can be skipped, and ends at the same place. *)
LEMMA SkipAgrees ==
  ASSUME NEW s \in Seq(Byte)
  PROVE  \A p \in 1 .. Len(s) + 1 : DecodedFrom(s)[p].next # 0 => SkippedFrom(s)[p] = DecodedFrom(s)[p].next
<1> DEFINE D == DecodedFrom(s)
           K == SkippedFrom(s)
           N == Len(s) + 1
           S == {p \in 1 .. N : D[p].next # 0 => K[p] = D[p].next}
<1>1. N \in Nat /\ Len(s) \in Nat
  OBVIOUS
<1>2. ASSUME NEW p \in 1 .. N, \A q \in p + 1 .. N : q \in S, D[p].next # 0 PROVE K[p] = D[p].next
  <2>0. D[p].next # 0
    BY Zenon, <1>2
  <2>1. p \in 1 .. Len(s)
    <3>1. p > Len(s) => D[p].next = 0
      <4>1. p > Len(s) => D[p] = NoString
        BY Zenon, DecodeUnfolds DEF DecodeRound
      <4> QED
        BY <4>1 DEF NoString
    <3>2. ~(p > Len(s))
      BY Zenon, <1>2, <3>1
    <3> QED
      BY <1>1, <3>2
  <2>2. ~(p > Len(s)) /\ p \in 1 .. N
    BY <2>1
  <2>3. CASE s[p] = QUOTE
    <3>1. D[p] = Closed(p) /\ K[p] = p + 1
      BY Zenon, <2>2, <2>3, DecodeUnfolds, SkipUnfolds DEF DecodeRound, SkipRound
    <3> QED
      BY <3>1 DEF Closed
  <2>4. CASE s[p] # QUOTE
    <3>1. PICK e : e = StringElement(s, p)
      OBVIOUS
    <3>2. PICK q : q = p + e.n
      OBVIOUS
    <3>3. e.n # 0 /\ q \in p + 1 .. N /\ D[q].next # 0 /\ D[p].next = D[q].next
      <4>1. DecodesOn(s, p, e)
        BY Zenon, <2>0, <2>1, <2>4, <3>1, DecodeStep
      <4> QED
        BY Zenon, <3>2, <4>1 DEF DecodesOn
    <3>4. K[q] = D[q].next
      BY Zenon, <1>2, <3>3
    <3>5. K[p] = K[q]
      <4>1. IsNone(e) \/ IsByte(s, p, e) \/ IsEscaped(s, p, e) \/ IsUnit(s, p, e) \/ IsPair(s, p, e)
        BY Zenon, <2>1, <3>1, ElementKinds
      <4>2. CASE IsNone(e)
        <5>1. e.n = 0
          BY <4>2 DEF IsNone, NoElement, Element
        <5> QED
          BY <3>3, <5>1
      <4>3. CASE IsByte(s, p, e)
        <5>1. e.n = 1 /\ s[p] # BACKSLASH
          BY <4>3 DEF IsByte, Element
        <5>2. ~SkipFails(s, p) /\ SkipTo(s, p) = q
          BY Zenon, <3>2, <5>1 DEF SkipFails, SkipTo
        <5> QED
          BY Zenon, <2>2, <2>4, <5>2, SkipUnfolds DEF SkipRound
      <4>4. CASE IsEscaped(s, p, e)
        <5>1. e.n = 2 /\ s[p] = BACKSLASH /\ s[p + 1] # LowerU /\ AsciiRun(s, p, 2)
          BY <4>4 DEF IsEscaped, Element
        <5>2. 2 \in {2, 6} /\ 2 # 6
          OBVIOUS
        <5> QED
          BY Zenon, <2>1, <3>2, <5>1, <5>2, SkipEscape
      <4>5. CASE IsUnit(s, p, e)
        <5>1. e.n = 6 /\ s[p] = BACKSLASH /\ s[p + 1] = LowerU /\ AsciiRun(s, p, 6)
          BY <4>5 DEF IsUnit, Element
        <5>2. 6 \in {2, 6}
          OBVIOUS
        <5> QED
          BY Zenon, <2>1, <3>2, <5>1, <5>2, SkipEscape
      <4>6. CASE IsPair(s, p, e)
        <5>1. PICK m : m = p + 6
          OBVIOUS
        <5>2. /\ e.n = 12 /\ s[p] = BACKSLASH /\ s[p + 1] = LowerU /\ AsciiRun(s, p, 6)
              /\ s[p + 6] = BACKSLASH /\ s[p + 7] = LowerU /\ AsciiRun(s, p + 6, 6)
          <6>1. PairAt(s, p) /\ e.n = 12
            BY <4>6 DEF IsPair, Element
          <6> QED
            BY Zenon, <6>1 DEF PairAt
        <5>3. 6 \in {2, 6} /\ p + 7 = m + 1 /\ q = m + 6
          BY <3>2, <5>1, <5>2
        <5>4. m + 6 <= Len(s) + 1
          BY Zenon, <5>1, <5>2 DEF AsciiRun
        <5>5. m \in 1 .. Len(s)
          BY <5>1, <5>4
        <5>6. K[p] = K[m]
          BY Zenon, <2>1, <5>1, <5>2, <5>3, SkipEscape
        <5>7. s[m] = BACKSLASH /\ s[m + 1] = LowerU /\ AsciiRun(s, m, 6)
          BY Zenon, <5>1, <5>2, <5>3
        <5>8. K[m] = K[m + 6]
          BY Zenon, <5>3, <5>5, <5>7, SkipEscape
        <5> QED
          BY Zenon, <5>3, <5>6, <5>8
      <4> QED
        BY Zenon, <4>1, <4>2, <4>3, <4>4, <4>5, <4>6
    <3> QED
      BY Zenon, <3>3, <3>4, <3>5
  <2> QED
    BY Zenon, <2>3, <2>4
<1>3. ASSUME NEW p \in 1 .. N, \A q \in p + 1 .. N : q \in S PROVE p \in S
  BY Zenon, <1>2, <1>3
<1> HIDE DEF S, N, D, K
<1>4. \A p \in 1 .. N : p \in S
  BY Zenon, <1>1, <1>3, FromTheEnd
<1> QED
  BY Zenon, <1>4 DEF S, N, D, K

-----------------------------------------------------------------------------
(* What is decoded from UTF-8 is UTF-8. *)

(* The scan of a text goes on in the quoted one. *)
LEMMA QuotedShape ==
  ASSUME NEW s \in Seq(Byte)
  PROVE  /\ Quoted(s) \in Seq(Byte) /\ Len(Quoted(s)) = Len(s) + 2
         /\ Quoted(s)[1] = QUOTE /\ Quoted(s)[Len(s) + 2] = QUOTE
         /\ \A i \in 1 .. Len(s) : Quoted(s)[i + 1] = s[i]
<1>1. <<QUOTE>> \in Seq(Byte) /\ Len(<<QUOTE>>) = 1 /\ <<QUOTE>>[1] = QUOTE
  BY JsonAscii
<1>2. PICK a \in Seq(Byte) : /\ a = <<QUOTE>> \o s /\ Len(a) = Len(s) + 1 /\ a[1] = QUOTE
                             /\ \A i \in 1 .. Len(s) : a[i + 1] = s[i]
  <2>1. /\ <<QUOTE>> \o s \in Seq(Byte) /\ Len(<<QUOTE>> \o s) = Len(s) + 1
        /\ (<<QUOTE>> \o s)[1] = QUOTE
        /\ \A i \in 1 .. Len(s) : (<<QUOTE>> \o s)[i + 1] = s[i]
    BY SMT, <1>1, ConcatProperties
  <2> QED
    BY Zenon, <2>1
<1>3. Quoted(s) = a \o <<QUOTE>>
  BY Zenon, <1>2 DEF Quoted
<1> QED
  BY <1>1, <1>2, <1>3, ConcatProperties

(* The scan of a text that is UTF-8 goes on between its quotes. *)
LEMMA QuotedScan ==
  ASSUME NEW s \in Seq(Byte), ax_validate_utf8(s)
  PROVE  Utf8From(Quoted(s), 2)
<1> DEFINE x == Quoted(s)
           N == Len(s) + 1
           S == {p \in 1 .. N : Utf8From(s, p) => Utf8From(x, p + 1)}
<1>1. /\ x \in Seq(Byte) /\ Len(x) = Len(s) + 2 /\ x[Len(s) + 2] = QUOTE
      /\ \A i \in 1 .. Len(s) : x[i + 1] = s[i]
  BY Zenon, QuotedShape
<1>2. N \in Nat /\ Len(s) \in Nat /\ 1 \in 1 .. N
  OBVIOUS
<1> HIDE DEF x
<1>3. ASSUME NEW p \in 1 .. N, \A q \in p + 1 .. N : q \in S, Utf8From(s, p) PROVE Utf8From(x, p + 1)
  <2>1. CASE p = N
    <3>1. PICK m : m = p + 1 /\ m = Len(s) + 2 /\ m \in 1 .. Len(x) /\ m + 1 \in Len(x) + 1 .. Len(x) + 4
      BY <1>1, <1>2, <2>1
    <3>2. Utf8Step(x, m) = 1
      BY Zenon, <1>1, <3>1, Utf8StepAscii, JsonAscii
    <3>3. Utf8From(x, m + 1)
      BY Zenon, <1>1, <3>1, Utf8End
    <3>4. 1 # 0
      OBVIOUS
    <3> QED
      BY Zenon, <1>1, <3>1, <3>2, <3>3, <3>4, Utf8Round
  <2>2. CASE p # N
    <3>1. p \in 1 .. Len(s)
      BY <1>2, <2>2
    <3>2. PICK n : n = Utf8Step(s, p)
      OBVIOUS
    <3>3. n # 0 /\ Utf8From(s, p + n)
      BY Zenon, <1>3, <3>1, <3>2, Utf8Round
    <3>4. n \in 0 .. 4 /\ p + n - 1 <= Len(s)
      BY Zenon, <3>1, <3>2, <3>3, Utf8StepBytes
    <3>5. PICK m \in 1 .. Len(x) : m = p + 1 /\ m + n - 1 <= Len(x) /\ m + n = p + n + 1
      <4>1. p + 1 \in 1 .. Len(x) /\ p + 1 + n - 1 <= Len(x) /\ p + 1 + n = p + n + 1
        BY <1>1, <1>2, <3>1, <3>4
      <4> QED
        BY Zenon, <4>1
    <3>6. ASSUME NEW k \in 0 .. n - 1 PROVE x[m + k] = s[p + k]
      <4>1. p + k \in 1 .. Len(s) /\ p + k + 1 = m + k
        BY <3>1, <3>4, <3>5
      <4>2. x[p + k + 1] = s[p + k]
        BY Zenon, <1>1, <4>1
      <4> QED
        BY Zenon, <4>1, <4>2
    <3>7. Utf8Step(x, m) = n
      BY Zenon, <1>1, <3>1, <3>2, <3>3, <3>5, <3>6, Utf8StepSeen
    <3>8. p + n \in p + 1 .. N
      BY <3>3, <3>4
    <3>9. Utf8From(x, p + n + 1)
      BY Zenon, <1>3, <3>3, <3>8
    <3> QED
      BY Zenon, <1>1, <3>3, <3>5, <3>7, <3>9, Utf8Round
  <2> QED
    BY Zenon, <2>1, <2>2
<1>4. ASSUME NEW p \in 1 .. N, \A q \in p + 1 .. N : q \in S PROVE p \in S
  BY Zenon, <1>3, <1>4
<1>5. 1 \in S
  <2> HIDE DEF S, N
  <2> QED
    BY Zenon, <1>2, <1>4, FromTheEnd
<1>6. Utf8From(s, 1)
  BY Zenon, Utf8Start
<1>7. 1 + 1 = 2
  OBVIOUS
<1> QED
  BY Zenon, <1>5, <1>6, <1>7 DEF x

(* ASCII bytes are scanned one by one. *)
LEMMA AsciiRunScans ==
  ASSUME NEW s \in Seq(Byte), NEW p \in 1 .. Len(s), NEW n \in Nat, AsciiRun(s, p, n), Utf8From(s, p)
  PROVE  Utf8From(s, p + n)
<1> DEFINE S == {k \in Nat : k <= n => Utf8From(s, p + k)}
<1>1. 0 \in S
  <2>1. p + 0 = p
    OBVIOUS
  <2> QED
    BY <2>1
<1>2. ASSUME NEW k \in Nat, k \in S PROVE k + 1 \in S
  <2> SUFFICES ASSUME k + 1 <= n PROVE Utf8From(s, p + (k + 1))
    OBVIOUS
  <2>1. p + n <= Len(s) + 1 /\ \A i \in 0 .. n - 1 : s[p + i] \in Ascii
    BY DEF AsciiRun
  <2>2. k <= n /\ k \in 0 .. n - 1
    OBVIOUS
  <2>3. PICK m \in 1 .. Len(s) : m = p + k /\ m + 1 = p + (k + 1)
    <3>1. p + k \in 1 .. Len(s) /\ p + k + 1 = p + (k + 1)
      BY <2>1, <2>2
    <3> QED
      BY Zenon, <3>1
  <2>4. Utf8From(s, m) /\ s[m] \in Ascii
    BY Zenon, <1>2, <2>1, <2>2, <2>3
  <2>5. Utf8Step(s, m) = 1
    BY Zenon, <2>4, Utf8StepAscii
  <2>6. 1 # 0
    OBVIOUS
  <2>7. Utf8From(s, m + 1)
    BY Zenon, <2>4, <2>5, <2>6, Utf8Round
  <2> QED
    BY Zenon, <2>3, <2>7
<1>3. n \in S
  <2> HIDE DEF S
  <2> QED
    BY Zenon, <1>1, <1>2, Induction
<1> QED
  BY <1>3

(* A character before a text. *)
LEMMA Utf8Character ==
  ASSUME NEW c \in Seq(Byte), Len(c) \in 1 .. 4, Utf8Step(c, 1) = Len(c), NEW v \in Seq(Byte), ax_validate_utf8(v)
  PROVE  ax_validate_utf8(c \o v)
<1>1. PICK x \in Seq(Byte) : /\ x = c \o v /\ Len(x) = Len(c) + Len(v)
                             /\ \A i \in 1 .. Len(c) : x[i] = c[i]
                             /\ \A i \in 1 .. Len(v) : x[Len(c) + i] = v[i]
  <2>1. /\ c \o v \in Seq(Byte) /\ Len(c \o v) = Len(c) + Len(v)
        /\ \A i \in 1 .. Len(c) : (c \o v)[i] = c[i]
        /\ \A i \in 1 .. Len(v) : (c \o v)[Len(c) + i] = v[i]
    BY SMT, ConcatProperties
  <2> QED
    BY Zenon, <2>1
<1>2. PICK n \in 1 .. 4 : n = Len(c)
  OBVIOUS
<1>3. /\ 1 \in 1 .. Len(c) /\ 1 \in 1 .. Len(x) /\ 1 + Utf8Step(c, 1) - 1 <= Len(x) /\ Utf8Step(c, 1) # 0 /\ n # 0
      /\ n \in Nat /\ Len(v) \in Nat
  BY <1>1, <1>2
<1>4. ASSUME NEW k \in 0 .. Utf8Step(c, 1) - 1 PROVE x[1 + k] = c[1 + k]
  <2>1. 1 + k \in 1 .. Len(c)
    OBVIOUS
  <2> QED
    BY Zenon, <1>1, <2>1
<1>5. Utf8Step(x, 1) = n
  <2>1. Utf8Step(x, 1) = Utf8Step(c, 1)
    BY Zenon, <1>3, <1>4, Utf8StepSeen
  <2> QED
    BY Zenon, <1>2, <2>1
<1>6. Follows(v, n, x)
  BY Zenon, <1>1, <1>2, <1>3 DEF Follows
<1>7. ax_validate_utf8(x)
  BY Zenon, <1>3, <1>5, <1>6, Utf8Prepend
<1> QED
  BY Zenon, <1>1, <1>7

(* A byte that stands for itself. *)
LEMMA FirstDecoded ==
  ASSUME NEW s \in Seq(Byte), NEW p \in 1 .. Len(s), s[p] # QUOTE, s[p] # BACKSLASH, DecodedFrom(s)[p].next # 0
  PROVE  /\ p + 1 \in p + 1 .. Len(s) + 1 /\ DecodedFrom(s)[p + 1].next # 0
         /\ DecodedFrom(s)[p + 1].text \in Seq(Byte)
         /\ DecodedFrom(s)[p].next = DecodedFrom(s)[p + 1].next
         /\ DecodedFrom(s)[p].text = <<s[p]>> \o DecodedFrom(s)[p + 1].text
<1>1. DecodesOn(s, p, StringElement(s, p))
  BY Zenon, DecodeStep
<1>2. StringElement(s, p) = Element(1, <<s[p]>>)
  BY Zenon DEF StringElement
<1>3. StringElement(s, p).n = 1 /\ StringElement(s, p).text = <<s[p]>>
  BY <1>2 DEF Element
<1>4. \A d \in Decoded : d.text \in Seq(Byte)
  BY DEF Decoded
<1> QED
  BY Zenon, <1>1, <1>3, <1>4 DEF DecodesOn

(* Bytes that stand for themselves, one after the other. *)
PlainRun(s, p, n) == p + n <= Len(s) + 1 /\ \A k \in 0 .. n - 1 : s[p + k] \in NonAscii

(* One byte more of a copy. *)
LEMMA FollowsByte ==
  ASSUME NEW t \in Seq(Byte), NEW b \in Byte
  PROVE  Follows(t, 1, <<b>> \o t) /\ (<<b>> \o t)[1] = b
<1>1. <<b>> \in Seq(Byte) /\ Len(<<b>>) = 1 /\ <<b>>[1] = b
  OBVIOUS
<1>2. /\ <<b>> \o t \in Seq(Byte) /\ Len(<<b>> \o t) = 1 + Len(t) /\ (<<b>> \o t)[1] = b
      /\ \A i \in 1 .. Len(t) : (<<b>> \o t)[1 + i] = t[i]
  BY SMT, <1>1, ConcatProperties
<1> QED
  BY <1>2 DEF Follows

(* And so on, one byte after the other. *)
LEMMA CopiedOn ==
  ASSUME NEW s, NEW p, NEW k, NEW g, NEW v, NEW w,
         Follows(v, k, g), Copied(s, p, k, g), Follows(w, 1, v), v[1] = s[p + k]
  PROVE  Follows(w, k + 1, g) /\ Copied(s, p, k + 1, g)
<1>1. /\ g \in Seq(Byte) /\ v \in Seq(Byte) /\ w \in Seq(Byte) /\ k \in Nat
      /\ Len(g) = k + Len(v) /\ Len(v) = 1 + Len(w) /\ Len(w) \in Nat
      /\ \A i \in 1 .. Len(v) : g[k + i] = v[i]
      /\ \A i \in 1 .. Len(w) : v[1 + i] = w[i]
  BY Zenon, LenProperties DEF Follows
<1>2. ASSUME NEW i \in 1 .. Len(w) PROVE g[k + 1 + i] = w[i]
  <2>1. 1 + i \in 1 .. Len(v) /\ k + (1 + i) = k + 1 + i
    BY <1>1
  <2> QED
    BY Zenon, <1>1, <2>1
<1>3. Follows(w, k + 1, g)
  BY <1>1, <1>2 DEF Follows
<1>4. ASSUME NEW i \in 0 .. (k + 1) - 1 PROVE g[i + 1] = s[p + i]
  <2>1. CASE i = k
    <3>1. 1 \in 1 .. Len(v)
      BY <1>1
    <3> QED
      BY Zenon, <1>1, <2>1, <3>1
  <2>2. CASE i # k
    <3>1. i \in 0 .. k - 1
      BY <1>1, <2>2
    <3> QED
      BY Zenon, <3>1 DEF Copied
  <2> QED
    BY Zenon, <2>1, <2>2
<1> QED
  BY Zenon, <1>3, <1>4 DEF Copied

(* A run of them is copied. *)
LEMMA RunDecoded ==
  ASSUME NEW s \in Seq(Byte), NEW p \in 1 .. Len(s), NEW n \in Nat, PlainRun(s, p, n), DecodedFrom(s)[p].next # 0
  PROVE  /\ DecodedFrom(s)[p + n].next # 0
         /\ Follows(DecodedFrom(s)[p + n].text, n, DecodedFrom(s)[p].text)
         /\ Copied(s, p, n, DecodedFrom(s)[p].text)
<1> DEFINE D == DecodedFrom(s)
           S == {k \in Nat : k <= n => /\ D[p + k].next # 0 /\ Follows(D[p + k].text, k, D[p].text)
                                       /\ Copied(s, p, k, D[p].text)}
<1>0. D[p].text \in Seq(Byte) /\ D[p].next # 0
  <2>1. D \in [1 .. Len(s) + 1 -> Decoded] /\ p \in 1 .. Len(s) + 1
    BY DecodeUnfolds
  <2> HIDE DEF D
  <2>2. D[p] \in Decoded
    BY Zenon, <2>1
  <2> QED
    BY <2>2 DEF Decoded, D
<1> HIDE DEF D
<1>1. 0 \in S
  <2>1. p + 0 = p
    OBVIOUS
  <2>2. Follows(D[p].text, 0, D[p].text)
    BY <1>0 DEF Follows
  <2>3. Copied(s, p, 0, D[p].text)
    BY DEF Copied
  <2> QED
    BY <1>0, <2>1, <2>2, <2>3
<1>2. ASSUME NEW k \in Nat, k \in S PROVE k + 1 \in S
  <2> SUFFICES ASSUME k + 1 <= n PROVE /\ D[p + (k + 1)].next # 0 /\ Follows(D[p + (k + 1)].text, k + 1, D[p].text)
                                       /\ Copied(s, p, k + 1, D[p].text)
    OBVIOUS
  <2>1. p + n <= Len(s) + 1 /\ \A i \in 0 .. n - 1 : s[p + i] \in NonAscii
    BY Zenon DEF PlainRun
  <2>2. k <= n /\ k \in 0 .. n - 1
    OBVIOUS
  <2>3. PICK m \in 1 .. Len(s) : m = p + k /\ m + 1 = p + (k + 1)
    <3>1. p + k \in 1 .. Len(s) /\ p + k + 1 = p + (k + 1)
      BY <2>1, <2>2
    <3> QED
      BY Zenon, <3>1
  <2>4. D[m].next # 0 /\ Follows(D[m].text, k, D[p].text) /\ Copied(s, p, k, D[p].text) /\ s[m] \in NonAscii
    BY Zenon, <1>2, <2>1, <2>2, <2>3
  <2>5. s[m] # QUOTE /\ s[m] # BACKSLASH /\ s[m] \in Byte
    <3>1. \A b \in NonAscii : b # QUOTE /\ b # BACKSLASH /\ b \in Byte
      BY DEF NonAscii, QUOTE, BACKSLASH, Byte
    <3> QED
      BY Zenon, <2>4, <3>1
  <2>6. /\ D[m + 1].next # 0 /\ D[m + 1].text \in Seq(Byte)
        /\ D[m].text = <<s[m]>> \o D[m + 1].text
    BY Zenon, <2>4, <2>5, FirstDecoded DEF D
  <2>7. Follows(D[m + 1].text, 1, D[m].text) /\ D[m].text[1] = s[p + k]
    BY ZenonT(40), <2>3, <2>5, <2>6, FollowsByte
  <2>8. Follows(D[m + 1].text, k + 1, D[p].text) /\ Copied(s, p, k + 1, D[p].text)
    BY Zenon, <2>4, <2>7, CopiedOn
  <2> QED
    BY Zenon, <2>3, <2>6, <2>8
<1>3. n \in S
  <2> HIDE DEF S
  <2> QED
    BY Zenon, <1>1, <1>2, Induction
<1> QED
  BY <1>3 DEF D

(* A character of several bytes is decoded whole. *)
LEMMA WideDecoded ==
  ASSUME NEW s \in Seq(Byte), NEW p \in 1 .. Len(s), s[p] \in NonAscii, Utf8Step(s, p) # 0, DecodedFrom(s)[p].next # 0,
         DecodedFrom(s)[p + Utf8Step(s, p)].next # 0 => ax_validate_utf8(DecodedFrom(s)[p + Utf8Step(s, p)].text)
  PROVE  ax_validate_utf8(DecodedFrom(s)[p].text)
<1>1. PICK n : n = Utf8Step(s, p)
  OBVIOUS
<1>2. n # 0 /\ n \in 0 .. 4 /\ n \in Nat /\ p + n - 1 <= Len(s) /\ \A k \in 1 .. n - 1 : Cont(s[p + k])
  <2>1. n \in 0 .. 4 /\ p + n - 1 <= Len(s) /\ Utf8Seq(s, p, n)
    BY Zenon, <1>1, Utf8StepBytes
  <2>2. n # 0 /\ \A k \in 1 .. n - 1 : Cont(s[p + k])
    BY Zenon, <1>1, <2>1 DEF Utf8Seq
  <2>3. n \in Nat
    BY <2>1
  <2> QED
    BY Zenon, <2>1, <2>2, <2>3
<1>3. PlainRun(s, p, n)
  <2>1. ASSUME NEW k \in 0 .. n - 1 PROVE s[p + k] \in NonAscii
    <3>1. CASE k = 0
      BY <3>1
    <3>2. CASE k # 0
      <4>1. k \in 1 .. n - 1 /\ p + k \in 1 .. Len(s)
        BY <1>2, <3>2
      <4>2. Cont(s[p + k]) /\ s[p + k] \in Byte
        BY Zenon, <1>2, <4>1, ElementOfSeq
      <4> QED
        BY <4>2 DEF Cont, NonAscii, Byte
    <3> QED
      BY Zenon, <3>1, <3>2
  <2> QED
    BY <1>2, <2>1 DEF PlainRun
<1>4. /\ DecodedFrom(s)[p + n].next # 0
      /\ Follows(DecodedFrom(s)[p + n].text, n, DecodedFrom(s)[p].text)
      /\ Copied(s, p, n, DecodedFrom(s)[p].text)
  BY Zenon, <1>2, <1>3, RunDecoded
<1>5. PICK g : g = DecodedFrom(s)[p].text
  OBVIOUS
<1>6. PICK v : v = DecodedFrom(s)[p + n].text
  OBVIOUS
<1>7. /\ g \in Seq(Byte) /\ 1 \in 1 .. Len(g) /\ 1 + n - 1 <= Len(g)
      /\ \A k \in 0 .. n - 1 : g[1 + k] = s[p + k]
  <2>1. Follows(v, n, g) /\ Copied(s, p, n, g)
    BY Zenon, <1>4, <1>5, <1>6
  <2>2. g \in Seq(Byte) /\ Len(g) = n + Len(v) /\ Len(v) \in Nat
    BY <2>1 DEF Follows
  <2>3. ASSUME NEW k \in 0 .. n - 1 PROVE g[1 + k] = s[p + k]
    <3>1. 1 + k = k + 1
      OBVIOUS
    <3> QED
      BY Zenon, <2>1, <3>1 DEF Copied
  <2> QED
    BY <1>2, <2>2, <2>3
<1>8. Utf8Step(g, 1) = n
  BY Zenon, <1>1, <1>2, <1>7, Utf8StepSeen
<1>9. ax_validate_utf8(v)
  BY Zenon, <1>1, <1>4, <1>6
<1> QED
  BY Zenon, <1>2, <1>4, <1>5, <1>6, <1>8, <1>9, Utf8Prepend

(* An element that stands for a character, after which the scan goes on. *)
LEMMA CharacterDecoded ==
  ASSUME NEW s \in Seq(Byte), NEW p \in 1 .. Len(s), s[p] # QUOTE, DecodedFrom(s)[p].next # 0,
         NEW c \in Seq(Byte), Len(c) \in 1 .. 4, Utf8Step(c, 1) = Len(c), StringElement(s, p).text = c,
         ax_validate_utf8(DecodedFrom(s)[p + StringElement(s, p).n].text)
  PROVE  ax_validate_utf8(DecodedFrom(s)[p].text)
<1>1. DecodesOn(s, p, StringElement(s, p))
  BY Zenon, DecodeStep
<1>2. PICK d : d = DecodedFrom(s)[p + StringElement(s, p).n].text
  OBVIOUS
<1>3. DecodedFrom(s)[p].text = c \o d
  BY Zenon, <1>1, <1>2 DEF DecodesOn
<1>4. d \in Seq(Byte)
  <2>1. \A r \in Decoded : r.text \in Seq(Byte)
    BY DEF Decoded
  <2> QED
    BY Zenon, <1>1, <1>2, <2>1 DEF DecodesOn
<1>5. ax_validate_utf8(c \o d)
  BY Zenon, <1>2, <1>4, Utf8Character
<1> QED
  BY Zenon, <1>3, <1>5

(* An ASCII byte is a character. *)
LEMMA AsciiCharacter ==
  ASSUME NEW b \in Ascii
  PROVE  <<b>> \in Seq(Byte) /\ Len(<<b>>) \in 1 .. 4 /\ Utf8Step(<<b>>, 1) = Len(<<b>>)
<1>1. b \in Byte
  BY DEF Ascii, Byte
<1>2. <<b>> \in Seq(Byte) /\ Len(<<b>>) = 1 /\ <<b>>[1] = b /\ 1 \in 1 .. Len(<<b>>) /\ 1 \in 1 .. 4
  BY <1>1
<1>3. Utf8Step(<<b>>, 1) = 1
  BY Zenon, <1>2, Utf8StepAscii
<1> QED
  BY Zenon, <1>2, <1>3

(* Which element an ASCII byte leads, how far the scan goes over it, and   *)
(* the character it stands for.                                            *)
LEMMA AsciiElement ==
  ASSUME NEW s \in Seq(Byte), NEW p \in 1 .. Len(s), s[p] \in Ascii, Utf8From(s, p), StringElement(s, p).n # 0
  PROVE  /\ Utf8From(s, p + StringElement(s, p).n)
         /\ \E c \in Seq(Byte) : /\ Len(c) \in 1 .. 4 /\ Utf8Step(c, 1) = Len(c)
                                 /\ StringElement(s, p).text = c
<1>1. PICK e : e = StringElement(s, p)
  OBVIOUS
<1>2. IsNone(e) \/ IsByte(s, p, e) \/ IsEscaped(s, p, e) \/ IsUnit(s, p, e) \/ IsPair(s, p, e)
  BY Zenon, <1>1, ElementKinds
<1>3. ~IsNone(e)
  <2>1. NoElement.n = 0
    BY DEF NoElement, Element
  <2> QED
    BY Zenon, <1>1, <2>1 DEF IsNone
<1>4. ASSUME NEW n, NEW t PROVE Element(n, t).n = n /\ Element(n, t).text = t
  BY DEF Element
<1>5. ASSUME NEW n \in Nat, AsciiRun(s, p, n) PROVE Utf8From(s, p + n)
  BY Zenon, <1>5, AsciiRunScans
<1>6. ASSUME NEW v \in Scalars, e.text = put_utf8(v)
      PROVE  \E c \in Seq(Byte) : Len(c) \in 1 .. 4 /\ Utf8Step(c, 1) = Len(c) /\ e.text = c
  BY Zenon, <1>6, PutCharacter
<1>7. ASSUME NEW b \in Ascii, e.text = <<b>>
      PROVE  \E c \in Seq(Byte) : Len(c) \in 1 .. 4 /\ Utf8Step(c, 1) = Len(c) /\ e.text = c
  BY Zenon, <1>7, AsciiCharacter
<1>8. 1 \in Nat /\ 2 \in Nat /\ 6 \in Nat /\ 12 \in Nat /\ p + 6 + 6 = p + 12 /\ 1 # 0
  OBVIOUS
<1>9. CASE IsByte(s, p, e)
  <2>1. e.n = 1 /\ e.text = <<s[p]>>
    BY Zenon, <1>4, <1>9 DEF IsByte
  <2>2. Utf8Step(s, p) = 1
    BY Zenon, Utf8StepAscii
  <2>3. Utf8From(s, p + 1)
    BY Zenon, <1>8, <2>2, Utf8Round
  <2> QED
    BY Zenon, <1>1, <1>7, <2>1, <2>3
<1>10. CASE IsEscaped(s, p, e)
  <2>1. PICK b \in Ascii : e = Element(2, <<b>>)
    BY Zenon, <1>10 DEF IsEscaped
  <2>2. AsciiRun(s, p, 2) /\ e.n = 2 /\ e.text = <<b>>
    BY ZenonT(40), <1>4, <1>10, <2>1 DEF IsEscaped
  <2> QED
    BY Zenon, <1>1, <1>5, <1>7, <1>8, <2>2
<1>11. CASE IsUnit(s, p, e)
  <2>1. PICK v \in Scalars : e = Element(6, put_utf8(v))
    BY Zenon, <1>11 DEF IsUnit
  <2>2. AsciiRun(s, p, 6) /\ e.n = 6 /\ e.text = put_utf8(v)
    BY Zenon, <1>4, <1>11, <2>1 DEF IsUnit
  <2> QED
    BY Zenon, <1>1, <1>5, <1>6, <1>8, <2>2
<1>12. CASE IsPair(s, p, e)
  <2>1. PICK v \in Scalars : e = Element(12, put_utf8(v))
    BY Zenon, <1>12 DEF IsPair
  <2>2. AsciiRun(s, p, 6) /\ AsciiRun(s, p + 6, 6) /\ e.n = 12 /\ e.text = put_utf8(v)
    <3>1. AsciiRun(s, p, 6) /\ AsciiRun(s, p + 6, 6)
      BY Zenon, <1>12 DEF IsPair, PairAt
    <3>2. e.n = 12 /\ e.text = put_utf8(v)
      BY ZenonT(40), <1>4, <2>1
    <3> QED
      BY Zenon, <3>1, <3>2
  <2>3. p + 6 \in 1 .. Len(s)
    BY <2>2 DEF AsciiRun
  <2>4. Utf8From(s, p + 6)
    BY Zenon, <1>5, <1>8, <2>2
  <2>5. Utf8From(s, p + 6 + 6)
    BY Zenon, <1>8, <2>2, <2>3, <2>4, AsciiRunScans
  <2>6. Utf8From(s, p + 12)
    BY Zenon, <1>8, <2>5
  <2> QED
    BY Zenon, <1>1, <1>6, <2>2, <2>6
<1> QED
  BY Zenon, <1>2, <1>3, <1>9, <1>10, <1>11, <1>12

(* Nothing is UTF-8. *)
LEMMA EmptyIsUtf8 == ax_validate_utf8(<<>>)
<1>1. <<>> \in Seq(Byte) /\ Len(<<>>) = 0 /\ 1 \in Len(<<>>) + 1 .. Len(<<>>) + 4
  BY EmptySeq
<1>2. Utf8From(<<>>, 1)
  BY Zenon, <1>1, Utf8End
<1> QED
  BY Zenon, <1>1, <1>2, Utf8Start

(* Where the scan of a body is, the string decodes to UTF-8. *)
LEMMA DecodedUtf8 ==
  ASSUME NEW s \in Seq(Byte), NEW p \in 1 .. Len(s) + 1, Utf8From(s, p), DecodedFrom(s)[p].next # 0
  PROVE  ax_validate_utf8(DecodedFrom(s)[p].text)
<1> DEFINE D == DecodedFrom(s)
           N == Len(s) + 1
           S == {q \in 1 .. N : Utf8From(s, q) /\ D[q].next # 0 => ax_validate_utf8(D[q].text)}
<1>1. N \in Nat /\ p \in 1 .. N
  OBVIOUS
<1>2. \A q \in 1 .. N : D[q] = DecodeRound(s, q, D)
  BY Zenon, DecodeUnfolds
<1>3. NoString.next = 0 /\ \A q : Closed(q).text = <<>>
  BY DEF NoString, Closed
<1>4. ASSUME NEW q \in 1 .. N, \A r \in q + 1 .. N : r \in S, Utf8From(s, q), D[q].next # 0
      PROVE  ax_validate_utf8(D[q].text)
  <2> HIDE DEF D
  <2>1. ~(q > Len(s))
    BY Zenon, <1>2, <1>3, <1>4 DEF DecodeRound
  <2>2. q \in 1 .. Len(s)
    BY <2>1
  <2>3. CASE s[q] = QUOTE
    <3>1. D[q] = Closed(q)
      BY Zenon, <1>2, <2>1, <2>3 DEF DecodeRound
    <3> QED
      BY Zenon, <1>3, <3>1, EmptyIsUtf8
  <2>4. CASE s[q] # QUOTE
    <3>1. DecodesOn(s, q, StringElement(s, q))
      BY Zenon, <1>4, <2>2, <2>4, DecodeStep DEF D
    <3>2. Utf8Step(s, q) # 0 /\ Utf8From(s, q + Utf8Step(s, q))
      BY Zenon, <1>4, <2>2, Utf8Round
    <3>3. CASE s[q] \in Ascii
      <4>1. StringElement(s, q).n # 0
        BY Zenon, <3>1 DEF DecodesOn
      <4>2. /\ Utf8From(s, q + StringElement(s, q).n)
            /\ \E c \in Seq(Byte) : /\ Len(c) \in 1 .. 4 /\ Utf8Step(c, 1) = Len(c)
                                    /\ StringElement(s, q).text = c
        BY Zenon, <1>4, <2>2, <3>3, <4>1, AsciiElement
      <4>3. q + StringElement(s, q).n \in q + 1 .. N /\ D[q + StringElement(s, q).n].next # 0
        BY Zenon, <3>1 DEF DecodesOn, D
      <4>4. ax_validate_utf8(D[q + StringElement(s, q).n].text)
        BY Zenon, <1>4, <4>2, <4>3
      <4> QED
        BY Zenon, <1>4, <2>2, <2>4, <4>2, <4>4, CharacterDecoded DEF D
    <3>4. CASE s[q] \in NonAscii
      <4>1. q + Utf8Step(s, q) \in q + 1 .. N
        <5>1. Utf8Step(s, q) \in 0 .. 4 /\ q + Utf8Step(s, q) - 1 <= Len(s)
          BY Zenon, <2>2, <3>2, Utf8StepBytes
        <5> QED
          BY <2>2, <3>2, <5>1
      <4>2. D[q + Utf8Step(s, q)].next # 0 => ax_validate_utf8(D[q + Utf8Step(s, q)].text)
        BY Zenon, <1>4, <3>2, <4>1
      <4> QED
        BY Zenon, <1>4, <2>2, <3>2, <3>4, <4>2, WideDecoded DEF D
    <3>5. s[q] \in Ascii \/ s[q] \in NonAscii
      <4>1. s[q] \in Byte
        BY Zenon, <2>2, ElementOfSeq
      <4> QED
        BY <4>1 DEF Byte, Ascii, NonAscii
    <3> QED
      BY Zenon, <3>3, <3>4, <3>5
  <2> QED
    BY Zenon, <2>3, <2>4
<1>5. ASSUME NEW q \in 1 .. N, \A r \in q + 1 .. N : r \in S PROVE q \in S
  <2> HIDE DEF D
  <2> QED
    BY Zenon, <1>4, <1>5
<1>6. p \in S
  <2> HIDE DEF S, N
  <2> QED
    BY Zenon, <1>1, <1>5, FromTheEnd
<1> QED
  BY Zenon, <1>6

(* Where no string ends, nothing is decoded. *)
LEMMA NoStringNoText ==
  ASSUME NEW s \in Seq(Byte), NEW p \in 1 .. Len(s) + 1, DecodedFrom(s)[p].next = 0
  PROVE  DecodedFrom(s)[p].text = <<>>
<1>1. PICK D : D = DecodedFrom(s)
  OBVIOUS
<1>2. D[p] = DecodeRound(s, p, D) /\ D[p].next = 0
  BY Zenon, <1>1, DecodeUnfolds
<1>3. NoString.text = <<>> /\ Closed(p).next # 0
  BY DEF NoString, Closed
<1>4. ASSUME NEW t, NEW d, JoinedTo(t, d).next = 0 PROVE JoinedTo(t, d) = NoString
  BY <1>4 DEF JoinedTo
<1>5. D[p] = NoString
  BY Zenon, <1>2, <1>3, <1>4 DEF DecodeRound
<1> QED
  BY Zenon, <1>1, <1>3, <1>5

(* Both halves of DecodingIsSound, for any text. *)
LEMMA DecodingSound ==
  ASSUME NEW s \in Seq(Byte), NEW cap
  PROVE  LET d == s_decode_string(Quoted(s), cap) IN
         /\ d.next # 0 => s_skip_string(Quoted(s)) = d.next
         /\ ax_validate_utf8(s) => ax_validate_utf8(d.text)
<1>1. /\ Quoted(s) \in Seq(Byte) /\ Len(Quoted(s)) = Len(s) + 2 /\ Quoted(s)[1] = QUOTE
  BY Zenon, QuotedShape
<1>2. Quoted(s) # <<>> /\ 2 \in 1 .. Len(Quoted(s)) + 1
  BY <1>1
<1>3. /\ s_decode_string(Quoted(s), cap) = (IF Len(DecodedFrom(Quoted(s))[2].text) <= cap
                                            THEN DecodedFrom(Quoted(s))[2] ELSE NoString)
      /\ s_skip_string(Quoted(s)) = SkippedFrom(Quoted(s))[2]
  BY Zenon, <1>1, <1>2 DEF s_decode_string, s_skip_string
<1>4. NoString.next = 0 /\ NoString.text = <<>>
  BY DEF NoString
<1>5. DecodedFrom(Quoted(s))[2].next # 0 => SkippedFrom(Quoted(s))[2] = DecodedFrom(Quoted(s))[2].next
  BY Zenon, <1>1, <1>2, SkipAgrees
<1>6. ax_validate_utf8(s) /\ DecodedFrom(Quoted(s))[2].next # 0 => ax_validate_utf8(DecodedFrom(Quoted(s))[2].text)
  BY Zenon, <1>1, <1>2, QuotedScan, DecodedUtf8
<1>7. DecodedFrom(Quoted(s))[2].next = 0 => DecodedFrom(Quoted(s))[2].text = <<>>
  BY Zenon, <1>1, <1>2, NoStringNoText
<1> QED
  BY Zenon, <1>3, <1>4, <1>5, <1>6, <1>7, EmptyIsUtf8

-----------------------------------------------------------------------------
(* What the escapers write is read back. *)

(* The three ways in which the escapers write a byte. *)
Itself(c, b) == c = <<b>> /\ b # QUOTE /\ b # BACKSLASH
Lettered(c, b) == \E d \in DOMAIN CharEscapes : c = <<BACKSLASH, d>> /\ CharEscapes[d] = b
StandsFor(c, b) == Itself(c, b) \/ Lettered(c, b) \/ (c = UnicodeEscape(b) /\ b < 32)

At(x, p, c) == p + Len(c) <= Len(x) + 1 /\ \A k \in 1 .. Len(c) : x[p + k - 1] = c[k]

(* The digits of a control character read back. *)
LEMMA HexRound ==
  ASSUME NEW d \in 0 .. 15
  PROVE  HexDigit(d) \in HexDigits /\ hexval[HexDigit(d)] = d
<1>1. HexDigit(d) \in HexDigits
  BY DEF HexDigit, HexDigits
<1>2. (IF HexDigit(d) < 65 THEN HexDigit(d) - 48 ELSE IF HexDigit(d) < 97 THEN HexDigit(d) - 55 ELSE HexDigit(d) - 87) = d
  BY DEF HexDigit
<1> QED
  BY <1>1, <1>2 DEF hexval

(* The escape of a control character, read back. *)
LEMMA UnitOfControl ==
  ASSUME NEW x \in Seq(Byte), NEW p \in 1 .. Len(x), NEW b \in Byte, b < 32, At(x, p, UnicodeEscape(b))
  PROVE  /\ x[p] = BACKSLASH /\ x[p + 1] = LowerU /\ p # Len(x) /\ p + 6 <= Len(x) + 1
         /\ s_read_u4(x, p + 2) = b
<1>1. b \in 0 .. 31 /\ b \div 16 \in 0 .. 15 /\ b % 16 \in 0 .. 15 /\ (b \div 16) * 16 + (b % 16) = b
  BY SMT DEF Byte
<1>2. PICK h \in 0 .. 15, l \in 0 .. 15 : h = b \div 16 /\ l = b % 16
  BY Zenon, <1>1
<1>3. PICK c : c = UnicodeEscape(b)
  OBVIOUS
<1>4. /\ Len(c) = 6 /\ c[1] = BACKSLASH /\ c[2] = LowerU /\ c[3] = 48 /\ c[4] = 48
      /\ c[5] = HexDigit(h) /\ c[6] = HexDigit(l)
  BY <1>2, <1>3 DEF UnicodeEscape
<1>5. p + 6 <= Len(x) + 1 /\ \A k \in 1 .. 6 : x[p + k - 1] = c[k]
  BY Zenon, <1>3, <1>4 DEF At
<1>6. 1 \in 1 .. 6 /\ 2 \in 1 .. 6 /\ 3 \in 1 .. 6 /\ 4 \in 1 .. 6 /\ 5 \in 1 .. 6 /\ 6 \in 1 .. 6
  OBVIOUS
<1>7. x[p] = c[1] /\ x[p + 1] = c[2] /\ x[p + 2] = c[3] /\ x[p + 3] = c[4] /\ x[p + 4] = c[5] /\ x[p + 5] = c[6]
  <2>1. /\ x[p + 1 - 1] = c[1] /\ x[p + 2 - 1] = c[2] /\ x[p + 3 - 1] = c[3]
        /\ x[p + 4 - 1] = c[4] /\ x[p + 5 - 1] = c[5] /\ x[p + 6 - 1] = c[6]
    BY Zenon, <1>5, <1>6
  <2>2. p + 1 - 1 = p /\ p + 2 - 1 = p + 1 /\ p + 3 - 1 = p + 2 /\ p + 4 - 1 = p + 3 /\ p + 5 - 1 = p + 4 /\ p + 6 - 1 = p + 5
    OBVIOUS
  <2> QED
    BY Zenon, <2>1, <2>2
<1>8. 48 \in HexDigits /\ hexval[48] = 0
  BY DEF HexDigits, hexval
<1>9. /\ x[p + 2] \in HexDigits /\ x[p + 3] \in HexDigits /\ x[p + 4] \in HexDigits /\ x[p + 5] \in HexDigits
      /\ hexval[x[p + 2]] = 0 /\ hexval[x[p + 3]] = 0 /\ hexval[x[p + 4]] = h /\ hexval[x[p + 5]] = l
  <2>1. HexDigit(h) \in HexDigits /\ hexval[HexDigit(h)] = h /\ HexDigit(l) \in HexDigits /\ hexval[HexDigit(l)] = l
    BY Zenon, HexRound
  <2>2. x[p + 2] = 48 /\ x[p + 3] = 48 /\ x[p + 4] = HexDigit(h) /\ x[p + 5] = HexDigit(l)
    BY SMT, <1>4, <1>7
  <2> QED
    BY SMT, <1>8, <2>1, <2>2
<1>10. DOMAIN hexval = HexDigits
  BY DEF hexval
<1>11. p + 2 + 3 <= Len(x) /\ \A k \in 0 .. 3 : x[p + 2 + k] \in DOMAIN hexval
  BY <1>5, <1>9, <1>10
<1>12. p + 2 + 1 = p + 3 /\ p + 2 + 2 = p + 4 /\ p + 2 + 3 = p + 5
  OBVIOUS
<1>13. s_read_u4(x, p + 2) = hexval[x[p + 2]] * 4096 + hexval[x[p + 3]] * 256 + hexval[x[p + 4]] * 16 + hexval[x[p + 5]]
  BY SMT, <1>11, <1>12 DEF s_read_u4
<1>14. s_read_u4(x, p + 2) = b
  <2>1. ASSUME NEW a1, NEW a2, NEW a3, NEW a4, a1 = 0, a2 = 0, a3 = h, a4 = l
        PROVE  a1 * 4096 + a2 * 256 + a3 * 16 + a4 = b
    BY SMT, <1>1, <1>2, <2>1
  <2> QED
    BY <1>9, <1>13, <2>1
<1> QED
  BY <1>4, <1>5, <1>7, <1>14

(* What the reader makes of each of them. *)
LEMMA PieceElement ==
  ASSUME NEW x \in Seq(Byte), NEW p \in 1 .. Len(x), NEW b \in Byte, NEW c \in Seq(Byte), StandsFor(c, b), At(x, p, c)
  PROVE  Len(c) \in 1 .. 6 /\ x[p] # QUOTE /\ StringElement(x, p) = Element(Len(c), <<b>>)
<1>0. QUOTE # BACKSLASH /\ LowerU \notin DOMAIN CharEscapes
  BY SMT DEF QUOTE, BACKSLASH, LowerU, CharEscapes
<1>1. CASE Itself(c, b)
  <2>1. Len(c) = 1 /\ c[1] = b /\ b # QUOTE /\ b # BACKSLASH /\ c = <<b>>
    BY <1>1 DEF Itself
  <2>2. x[p] = b
    <3>1. 1 \in 1 .. Len(c) /\ p + 1 - 1 = p
      BY <2>1
    <3> QED
      BY Zenon, <2>1, <3>1 DEF At
  <2>3. StringElement(x, p) = Element(1, <<b>>)
    BY Zenon, <2>1, <2>2 DEF StringElement
  <2>4. 1 \in 1 .. 6
    OBVIOUS
  <2> QED
    BY Zenon, <2>1, <2>2, <2>3, <2>4
<1>2. CASE Lettered(c, b)
  <2>1. PICK d \in DOMAIN CharEscapes : c = <<BACKSLASH, d>> /\ CharEscapes[d] = b
    BY Zenon, <1>2 DEF Lettered
  <2>2. Len(c) = 2 /\ c[1] = BACKSLASH /\ c[2] = d
    BY <2>1
  <2>3. x[p] = BACKSLASH /\ x[p + 1] = d /\ p # Len(x)
    <3>1. 1 \in 1 .. Len(c) /\ p + 1 - 1 = p /\ 2 \in 1 .. Len(c) /\ p + 2 - 1 = p + 1
      BY <2>2
    <3>2. p + 2 <= Len(x) + 1
      BY Zenon, <2>2 DEF At
    <3>3. p # Len(x)
      BY <3>2
    <3> QED
      BY Zenon, <2>2, <3>1, <3>3 DEF At
  <2>4. StringElement(x, p) = Element(2, <<b>>)
    BY Zenon, <2>1, <2>3 DEF StringElement
  <2>5. 2 \in 1 .. 6
    OBVIOUS
  <2> QED
    BY Zenon, <1>0, <2>2, <2>3, <2>4, <2>5
<1>3. CASE c = UnicodeEscape(b) /\ b < 32
  <2>1. Len(c) = 6
    BY <1>3 DEF UnicodeEscape
  <2>2. x[p] = BACKSLASH /\ x[p + 1] = LowerU /\ p # Len(x) /\ s_read_u4(x, p + 2) = b
    BY Zenon, <1>3, UnitOfControl
  <2>3. b # -1 /\ b \notin LowSurrogates /\ b \notin HighSurrogates /\ put_utf8(b) = <<b>>
    <3>1. b \in Int /\ b >= 0 /\ b < 32
      BY SMT, <1>3 DEF Byte
    <3>2. b # -1 /\ b \notin LowSurrogates /\ b \notin HighSurrogates
      <4>1. b # -1
        BY SMT, <3>1
      <4>2. b \notin LowSurrogates
        BY SMT, <3>1 DEF LowSurrogates
      <4>3. b \notin HighSurrogates
        BY SMT, <3>1 DEF HighSurrogates
      <4> QED
        BY Zenon, <4>1, <4>2, <4>3
    <3>3. b < 128
      BY SMT, <3>1
    <3>4. put_utf8(b) = <<b>>
      BY SMT, <3>3 DEF put_utf8
    <3> QED
      BY Zenon, <3>2, <3>4
  <2>4. UnicodeElement(x, p) = Element(6, <<b>>)
    BY SMT, <2>2, <2>3 DEF UnicodeElement
  <2>5. StringElement(x, p) = Element(6, <<b>>)
    BY Zenon, <1>0, <2>2, <2>4 DEF StringElement
  <2>6. 6 \in 1 .. 6
    OBVIOUS
  <2> QED
    BY Zenon, <1>0, <2>1, <2>2, <2>5, <2>6
<1> QED
  BY Zenon, <1>1, <1>2, <1>3 DEF StandsFor

(* A piece, the text after it, and the rest of the input. *)
LEMMA FollowsPiece ==
  ASSUME NEW c \in Seq(Byte), NEW v \in Seq(Byte), NEW n, NEW x, Follows((c \o v) \o <<QUOTE>>, n, x)
  PROVE  /\ At(x, n + 1, c) /\ n + 1 \in 1 .. Len(x) /\ n \in Nat /\ x \in Seq(Byte)
         /\ Follows(v \o <<QUOTE>>, n + Len(c), x)
<1>1. <<QUOTE>> \in Seq(Byte) /\ Len(<<QUOTE>>) = 1
  BY JsonAscii
<1>2. PICK w \in Seq(Byte) : w = v \o <<QUOTE>> /\ Len(w) = Len(v) + 1
  <2>1. v \o <<QUOTE>> \in Seq(Byte) /\ Len(v \o <<QUOTE>>) = Len(v) + 1
    BY SMT, <1>1, ConcatProperties
  <2> QED
    BY Zenon, <2>1
<1>3. (c \o v) \o <<QUOTE>> = c \o w
  BY SMT, <1>1, <1>2, ConcatAssociative
<1>4. /\ c \o w \in Seq(Byte) /\ Len(c \o w) = Len(c) + Len(w)
      /\ \A k \in 1 .. Len(c) : (c \o w)[k] = c[k]
      /\ \A k \in 1 .. Len(w) : (c \o w)[Len(c) + k] = w[k]
  BY SMT, ConcatProperties
<1>5. PICK z \in Seq(Byte) : /\ z = c \o w /\ Len(z) = Len(c) + Len(w)
                             /\ \A k \in 1 .. Len(c) : z[k] = c[k]
                             /\ \A k \in 1 .. Len(w) : z[Len(c) + k] = w[k]
  BY Zenon, <1>4
<1>6. /\ n \in Nat /\ x \in Seq(Byte) /\ Len(x) = n + Len(z) /\ \A i \in 1 .. Len(z) : x[n + i] = z[i]
  BY Zenon, <1>3, <1>5 DEF Follows
<1>7. Len(c) \in Nat /\ Len(v) \in Nat
  OBVIOUS
<1>8. n + 1 \in 1 .. Len(x) /\ n + 1 + Len(c) <= Len(x) + 1 /\ Len(x) = n + Len(c) + Len(w) /\ n + Len(c) \in Nat
  BY <1>2, <1>5, <1>6, <1>7
<1>9. ASSUME NEW k \in 1 .. Len(c) PROVE x[n + 1 + k - 1] = c[k]
  <2>1. k \in 1 .. Len(z) /\ n + 1 + k - 1 = n + k
    BY <1>2, <1>5, <1>6, <1>7
  <2> QED
    BY Zenon, <1>5, <1>6, <2>1
<1>10. ASSUME NEW k \in 1 .. Len(w) PROVE x[n + Len(c) + k] = w[k]
  <2>1. Len(c) + k \in 1 .. Len(z) /\ n + (Len(c) + k) = n + Len(c) + k
    BY <1>2, <1>5, <1>6, <1>7
  <2> QED
    BY Zenon, <1>5, <1>6, <2>1
<1>11. Follows(w, n + Len(c), x)
  BY Zenon, <1>6, <1>8, <1>10 DEF Follows
<1> QED
  BY Zenon, <1>2, <1>6, <1>8, <1>9, <1>11 DEF At

(* A byte before the rest of the source. *)
LEMMA FollowsBefore ==
  ASSUME NEW s \in Seq(Byte), NEW i \in 1 .. Len(s), NEW w, Follows(w, i, s)
  PROVE  Follows(<<s[i]>> \o w, i - 1, s)
<1>1. PICK b \in Byte : b = s[i]
  OBVIOUS
<1>2. w \in Seq(Byte) /\ Len(s) = i + Len(w) /\ Len(w) \in Nat /\ \A k \in 1 .. Len(w) : s[i + k] = w[k]
  BY DEF Follows
<1>3. PICK z \in Seq(Byte) : z = <<b>> \o w /\ Len(z) = 1 + Len(w) /\ z[1] = b /\ \A k \in 1 .. Len(w) : z[1 + k] = w[k]
  <2>1. Follows(w, 1, <<b>> \o w) /\ (<<b>> \o w)[1] = b
    BY Zenon, <1>2, FollowsByte
  <2> QED
    BY Zenon, <2>1 DEF Follows
<1>4. ASSUME NEW k \in 1 .. Len(z) PROVE s[(i - 1) + k] = z[k]
  <2>1. CASE k = 1
    <3>1. (i - 1) + 1 = i
      OBVIOUS
    <3> QED
      BY Zenon, <1>1, <1>3, <2>1, <3>1
  <2>2. CASE k # 1
    <3>1. PICK j \in 1 .. Len(w) : 1 + j = k /\ (i - 1) + k = i + j
      <4>1. k - 1 \in 1 .. Len(w) /\ 1 + (k - 1) = k /\ (i - 1) + k = i + (k - 1)
        BY <1>2, <1>3, <2>2
      <4> QED
        BY Zenon, <4>1
    <3> QED
      BY Zenon, <1>2, <1>3, <3>1
  <2> QED
    BY Zenon, <2>1, <2>2
<1>5. i - 1 \in Nat /\ Len(s) = (i - 1) + Len(z)
  BY <1>2, <1>3
<1> QED
  BY Zenon, <1>1, <1>3, <1>4, <1>5 DEF Follows

(* Every piece stands for a byte of the text. *)
Spells(piece, s) == /\ piece \in Seq(Seq(Byte)) /\ Len(piece) = Len(s)
                    /\ \A i \in 1 .. Len(s) : StandsFor(piece[i], s[i])

(* A string is read whose text is s. *)
ReadAs(x, p, s) == DecodedFrom(x)[p].next # 0 /\ DecodedFrom(x)[p].text = s

(* The reader undoes the pieces, from each one on to the closing quote. *)
LEMMA EscapedDecodes ==
  ASSUME NEW s \in Seq(Byte), NEW piece, Spells(piece, s),
         NEW x \in Seq(Byte), NEW n, Follows(StringFrom(piece)[1] \o <<QUOTE>>, n, x)
  PROVE  ReadAs(x, n + 1, s)
<1> DEFINE T == StringFrom(piece)
           N == Len(s) + 1
           D == DecodedFrom(x)
           S == {i \in 1 .. N : \A m : Follows(T[i] \o <<QUOTE>>, m, x) =>
                                         /\ D[m + 1].next # 0 /\ Follows(D[m + 1].text, i - 1, s)}
<1>0. piece \in Seq(Seq(Byte)) /\ Len(piece) = Len(s) /\ \A i \in 1 .. Len(s) : StandsFor(piece[i], s[i])
  BY Zenon DEF Spells
<1>1. /\ T \in [1 .. N -> Seq(Byte)] /\ T[N] = <<>>
      /\ \A i \in 1 .. Len(s) : T[i] = piece[i] \o T[i + 1]
  BY Zenon, <1>0, StringUnfolds
<1>2. \A p \in 1 .. Len(x) + 1 : D[p] = DecodeRound(x, p, D)
  BY Zenon, DecodeUnfolds
<1>3. N \in Nat /\ Len(s) \in Nat /\ 1 \in 1 .. N /\ N \in 1 .. N /\ Len(x) \in Nat
  OBVIOUS
<1> HIDE DEF T, D
<1>4. N \in S
  <2> SUFFICES ASSUME NEW m, Follows(<<QUOTE>>, m, x) PROVE D[m + 1].next # 0 /\ Follows(D[m + 1].text, N - 1, s)
    <3>1. <<>> \o <<QUOTE>> = <<QUOTE>>
      OBVIOUS
    <3> QED
      BY Zenon, <1>1, <1>3, <3>1
  <2>1. m \in Nat /\ Len(x) = m + 1 /\ x[m + 1] = QUOTE
    BY DEF Follows
  <2>2. m + 1 \in 1 .. Len(x) + 1 /\ ~(m + 1 > Len(x))
    BY <1>3, <2>1
  <2>3. D[m + 1] = Closed(m + 1)
    BY Zenon, <1>2, <2>1, <2>2 DEF DecodeRound
  <2>4. Closed(m + 1).next # 0 /\ Closed(m + 1).text = <<>>
    BY <2>1 DEF Closed
  <2>5. Follows(<<>>, N - 1, s)
    BY <1>3, EmptySeq DEF Follows
  <2> QED
    BY Zenon, <2>3, <2>4, <2>5
<1>5. ASSUME NEW i \in 1 .. N, \A j \in i + 1 .. N : j \in S PROVE i \in S
  <2>1. CASE i = N
    BY Zenon, <1>4, <2>1
  <2>2. CASE i # N
    <3>1. i \in 1 .. Len(s) /\ i + 1 \in i + 1 .. N /\ i + 1 \in 1 .. N /\ (i + 1) - 1 = i
      BY <1>3, <2>2
    <3>2. piece[i] \in Seq(Byte) /\ T[i + 1] \in Seq(Byte) /\ T[i] = piece[i] \o T[i + 1] /\ s[i] \in Byte
      <4>1. i \in 1 .. Len(piece)
        BY Zenon, <1>0, <3>1
      <4> QED
        BY Zenon, <1>0, <1>1, <3>1, <4>1, ElementOfSeq
    <3>3. ASSUME NEW m, Follows(T[i] \o <<QUOTE>>, m, x) PROVE D[m + 1].next # 0 /\ Follows(D[m + 1].text, i - 1, s)
      <4>1. PICK c \in Seq(Byte) : c = piece[i]
        BY Zenon, <3>2
      <4>2. Follows((c \o T[i + 1]) \o <<QUOTE>>, m, x)
        BY Zenon, <3>2, <3>3, <4>1
      <4>3. At(x, m + 1, c) /\ m + 1 \in 1 .. Len(x) /\ m \in Nat /\ Follows(T[i + 1] \o <<QUOTE>>, m + Len(c), x)
        BY Zenon, <3>2, <4>2, FollowsPiece
      <4>4. StandsFor(c, s[i])
        BY Zenon, <1>0, <3>1, <4>1
      <4>5. Len(c) \in 1 .. 6 /\ x[m + 1] # QUOTE /\ StringElement(x, m + 1) = Element(Len(c), <<s[i]>>)
        BY Zenon, <3>2, <4>3, <4>4, PieceElement
      <4>6. PICK r : r = D[m + Len(c) + 1]
        OBVIOUS
      <4>7. r.next # 0 /\ Follows(r.text, i, s)
        BY Zenon, <1>5, <3>1, <4>3, <4>6
      <4>8. m + 1 \in 1 .. Len(x) + 1 /\ ~(m + 1 > Len(x)) /\ m + 1 + Len(c) = m + Len(c) + 1 /\ Len(c) # 0
        <5>1. ASSUME NEW l \in 1 .. 6, NEW q \in Nat, q + 1 \in 1 .. Len(x)
              PROVE  q + 1 \in 1 .. Len(x) + 1 /\ ~(q + 1 > Len(x)) /\ q + 1 + l = q + l + 1 /\ l # 0
          BY <1>3, <5>1
        <5> QED
          BY Zenon, <4>3, <4>5, <5>1
      <4>9. StringElement(x, m + 1).n = Len(c) /\ StringElement(x, m + 1).text = <<s[i]>>
        BY <4>5 DEF Element
      <4>10. D[m + 1] = JoinedTo(<<s[i]>>, r)
        BY Zenon, <1>2, <4>5, <4>6, <4>8, <4>9 DEF DecodeRound
      <4>11. D[m + 1] = [text |-> <<s[i]>> \o r.text, next |-> r.next]
        BY Zenon, <4>7, <4>10 DEF JoinedTo
      <4>12. D[m + 1].next = r.next /\ D[m + 1].text = <<s[i]>> \o r.text
        BY SMTT(30), <4>11
      <4>13. Follows(<<s[i]>> \o r.text, i - 1, s)
        BY Zenon, <3>1, <4>7, FollowsBefore
      <4> QED
        BY Zenon, <4>7, <4>12, <4>13
    <3> QED
      BY Zenon, <3>3
  <2> QED
    BY Zenon, <2>1, <2>2
<1>6. 1 \in S
  <2> HIDE DEF S, N
  <2> QED
    BY Zenon, <1>3, <1>5, FromTheEnd
<1>7. D[n + 1].next # 0 /\ Follows(D[n + 1].text, 1 - 1, s)
  BY Zenon, <1>6 DEF T
<1>8. ASSUME NEW v, Follows(v, 1 - 1, s) PROVE v = s
  <2>1. v \in Seq(Byte) /\ Len(v) \in Nat /\ Len(s) = 0 + Len(v) /\ \A i \in 1 .. Len(v) : s[0 + i] = v[i]
    BY <1>8 DEF Follows
  <2>2. Len(s) = Len(v) /\ \A i \in 1 .. Len(v) : s[i] = v[i]
    BY <2>1
  <2> QED
    BY Zenon, <2>1, <2>2, SeqEqual
<1> QED
  BY Zenon, <1>7, <1>8 DEF D, ReadAs

(* Pieces that each stand for a byte are read back as those bytes. *)
LEMMA ReadBack ==
  ASSUME NEW s \in Seq(Byte), NEW piece, Spells(piece, s), Between(piece, 6)
  PROVE  Unquoted(StringFrom(piece)[1]) = s
<1>1. PICK e \in Seq(Byte) : e = StringFrom(piece)[1] /\ Len(e) \in Nat /\ Len(s) <= Len(e)
  <2>1. 6 \in Nat
    OBVIOUS
  <2> QED
    BY Zenon, <2>1, StringLength DEF Spells
<1>2. Follows(e \o <<QUOTE>>, 1, Quoted(e))
  <2>1. QUOTE \in Byte /\ <<QUOTE>> \in Seq(Byte)
    BY JsonAscii
  <2>2. e \o <<QUOTE>> \in Seq(Byte) /\ Quoted(e) = <<QUOTE>> \o (e \o <<QUOTE>>)
    BY SMT, <2>1, ConcatProperties, ConcatAssociative DEF Quoted
  <2> QED
    BY Zenon, <2>1, <2>2, FollowsByte
<1>3. Quoted(e) \in Seq(Byte) /\ Quoted(e)[1] = QUOTE /\ Len(Quoted(e)) = Len(e) + 2
  BY Zenon, QuotedShape
<1>4. Quoted(e) # <<>>
  BY <1>1, <1>3
<1>5. PICK n : n = 1
  OBVIOUS
<1>6. DecodedFrom(Quoted(e))[2].text = s
  <2>1. PICK x \in Seq(Byte) : x = Quoted(e)
    BY Zenon, <1>3
  <2>2. Follows(StringFrom(piece)[1] \o <<QUOTE>>, n, x)
    BY Zenon, <1>1, <1>2, <1>5, <2>1
  <2>3. ReadAs(x, n + 1, s)
    BY Zenon, <2>2, EscapedDecodes
  <2>4. n + 1 = 2
    BY <1>5
  <2> QED
    BY Zenon, <2>1, <2>3, <2>4 DEF ReadAs
<1>7. Len(s) <= 6 * Len(e)
  BY <1>1
<1>8. s_decode_string(Quoted(e), 6 * Len(e)).text = s
  BY Zenon, <1>3, <1>4, <1>6, <1>7 DEF s_decode_string
<1> QED
  BY Zenon, <1>1, <1>8 DEF Unquoted

(* What a byte becomes stands for it, in the record and in the body. *)
LEMMA CanonicalStandsFor ==
  ASSUME NEW b \in Byte
  PROVE  StandsFor(CanonicalByte(b), b)
<1>1. CASE b \in {QUOTE, BACKSLASH}
  <2>1. b \in DOMAIN CharEscapes /\ CharEscapes[b] = b
    BY SMT, <1>1 DEF QUOTE, BACKSLASH, CharEscapes
  <2> QED
    BY Zenon, <1>1, <2>1 DEF CanonicalByte, StandsFor, Lettered
<1>2. CASE b \notin {QUOTE, BACKSLASH}
  BY Zenon, <1>2 DEF CanonicalByte, StandsFor, Itself
<1> QED
  BY Zenon, <1>1, <1>2

(* The same of a byte in the body. *)
LEMMA RequestStandsFor ==
  ASSUME NEW b \in Byte
  PROVE  StandsFor(RequestByte(b), b)
<1>1. CASE b \in DOMAIN ShortEscapes
  <2>1. b \notin {QUOTE, BACKSLASH} /\ ShortEscapes[b] \in DOMAIN CharEscapes /\ CharEscapes[ShortEscapes[b]] = b
    BY SMT, <1>1 DEF QUOTE, BACKSLASH, CharEscapes, ShortEscapes
  <2> QED
    BY Zenon, <1>1, <2>1 DEF RequestByte, StandsFor, Lettered
<1>2. CASE b \notin DOMAIN ShortEscapes
  <2>1. RequestByte(b) = CanonicalByte(b)
    BY Zenon, <1>2 DEF RequestByte, CanonicalByte
  <2> QED
    BY Zenon, <2>1, CanonicalStandsFor
<1> QED
  BY Zenon, <1>1, <1>2

(* A reader gets every text back from a record, and from a body. *)
LEMMA RecordReadBack ==
  ASSUME NEW s \in Seq(Byte)
  PROVE  Unquoted(write_escaped(s)) = s
<1>1. ASSUME NEW i \in 1 .. Len(s)
      PROVE  /\ CanonicalByte(s[i]) \in Seq(Byte) /\ Len(CanonicalByte(s[i])) \in 1 .. 6
             /\ StandsFor(CanonicalByte(s[i]), s[i])
  BY Zenon, ElementOfSeq, CanonicalByteType, CanonicalStandsFor
<1>2. CanonicalPieces(s) \in Seq(Seq(Byte)) /\ Len(CanonicalPieces(s)) = Len(s)
  BY <1>1 DEF CanonicalPieces
<1>3. Between(CanonicalPieces(s), 6) /\ Spells(CanonicalPieces(s), s)
  BY <1>1, <1>2 DEF Between, Spells, CanonicalPieces
<1>4. write_escaped(s) = StringFrom(CanonicalPieces(s))[1]
  BY Zenon DEF write_escaped, EscapeAll, CanonicalPieces
<1> QED
  BY Zenon, <1>2, <1>3, <1>4, ReadBack

(* The same of a body. *)
LEMMA BodyReadBack ==
  ASSUME NEW s \in Seq(Byte), NEW cap, gwj_escape_utf8(s, cap).rc = 0
  PROVE  Unquoted(gwj_escape_utf8(s, cap).text) = s
<1>1. ASSUME NEW i \in 1 .. Len(s)
      PROVE  /\ RequestByte(s[i]) \in Seq(Byte) /\ Len(RequestByte(s[i])) \in 1 .. 6
             /\ StandsFor(RequestByte(s[i]), s[i])
  BY Zenon, ElementOfSeq, RequestByteType, RequestStandsFor
<1>2. RequestPieces(s) \in Seq(Seq(Byte)) /\ Len(RequestPieces(s)) = Len(s)
  BY <1>1 DEF RequestPieces
<1>3. Between(RequestPieces(s), 6) /\ Spells(RequestPieces(s), s)
  BY <1>1, <1>2 DEF Between, Spells, RequestPieces
<1>4. PICK e : e = StringFrom(RequestPieces(s))[1]
  OBVIOUS
<1>5. ASSUME NEW t PROVE [rc |-> -1, text |-> t].rc # 0 /\ [rc |-> 0, text |-> t].text = t
  OBVIOUS
<1>6. gwj_escape_utf8(s, cap) = gwj_escape(s, cap)
  BY Zenon, <1>5 DEF gwj_escape_utf8
<1>7. gwj_escape(s, cap) = (IF Len(e) <= cap THEN [rc |-> 0, text |-> e] ELSE [rc |-> -1, text |-> <<>>])
  BY Zenon, <1>4 DEF gwj_escape, EscapeAll, RequestPieces
<1>8. gwj_escape_utf8(s, cap).text = e
  BY Zenon, <1>5, <1>6, <1>7
<1> QED
  BY Zenon, <1>2, <1>3, <1>4, <1>8, ReadBack

(* A prompt that was admitted goes into the body. *)
LEMMA PromptFits ==
  ASSUME NEW s \in Seq(Byte), NEW size, ax_validate_and_normalise(s, size).rc = "AX_OK"
  PROVE  gwj_escape_utf8(ax_validate_and_normalise(s, size).text, 6 * Len(s) + 1).rc = 0
<1>1. PICK t : t = ax_validate_and_normalise(s, size).text
  OBVIOUS
<1>2. t \in Seq(Byte) /\ Len(t) <= Len(s) /\ ax_validate_utf8(t)
  BY Zenon, <1>1, AdmittedText
<1>3. \A i \in 1 .. Len(t) : Len(RequestByte(t[i])) \in 1 .. 6
  BY Zenon, <1>2, ElementOfSeq, RequestByteType
<1>4. 6 \in Nat /\ 6 * Len(s) + 1 \in Nat /\ 6 * Len(t) <= 6 * Len(s) + 1
  <2>1. Len(s) \in Nat /\ Len(t) \in Nat
    BY <1>2
  <2> QED
    BY <1>2, <2>1
<1>5. gwj_escape(t, 6 * Len(s) + 1).rc = 0
  BY Zenon, <1>2, <1>3, <1>4, EscapeFits
<1>6. gwj_escape_utf8(t, 6 * Len(s) + 1) = gwj_escape(t, 6 * Len(s) + 1)
  BY Zenon, <1>2, EscapesTheSameTexts DEF gwj_escape_utf8
<1> QED
  BY Zenon, <1>1, <1>5, <1>6
=============================================================================
