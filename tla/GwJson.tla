------------------------------- MODULE GwJson -------------------------------
(***************************************************************************)
(* Strings in JSON, on their way out and back in: the canonical form of a  *)
(* record (write_escaped of src/canonical.c), the request body             *)
(* (gwj_escape_utf8 of gateway/src/gw_json.c), and the reading of the      *)
(* oracle's response (s_decode_string, s_skip_string).                     *)
(***************************************************************************)
EXTENDS AxText

QUOTE == 34
BACKSLASH == 92
LowerU == 117

(* The pieces from each one on, one after the other. *)
StringFrom(piece) ==
  LET from[i \in 1 .. Len(piece) + 1] == IF i > Len(piece) THEN <<>> ELSE piece[i] \o from[i + 1]
  IN from

(* The replacement of every byte of s. *)
EscapeAll(s, Esc(_)) == StringFrom([i \in 1 .. Len(s) |-> Esc(s[i])])[1]

HexDigit(d) == IF d < 10 THEN 48 + d ELSE 87 + d

UnicodeEscape(c) == <<BACKSLASH, LowerU, 48, 48, HexDigit(c \div 16), HexDigit(c % 16)>>

CanonicalByte(c) == IF c \in {QUOTE, BACKSLASH} THEN <<BACKSLASH, c>>
                    ELSE IF c < 32 THEN UnicodeEscape(c) ELSE <<c>>

write_escaped(s) == EscapeAll(s, CanonicalByte)

ShortEscapes == [c \in {9, 10, 13} |-> IF c = 9 THEN 116 ELSE IF c = 10 THEN 110 ELSE 114]

(* Mutant: CR goes out as LF. *)
RequestByte_cr(c) == IF c \in {QUOTE, BACKSLASH} THEN <<BACKSLASH, c>>
                     ELSE IF c \in {10, 13} THEN <<BACKSLASH, 110>>
                     ELSE IF c < 32 THEN UnicodeEscape(c) ELSE <<c>>

RequestByte(c) == IF c \in {QUOTE, BACKSLASH} THEN <<BACKSLASH, c>>
                  ELSE IF c \in DOMAIN ShortEscapes THEN <<BACKSLASH, ShortEscapes[c]>>
                  ELSE IF c < 32 THEN UnicodeEscape(c) ELSE <<c>>

gwj_escape(s, cap) ==
  LET e == EscapeAll(s, RequestByte) IN
  IF Len(e) <= cap THEN [rc |-> 0, text |-> e] ELSE [rc |-> -1, text |-> <<>>]

(* utf8_seq_len: the well-formed sequence at p, by the table of leading    *)
(* and second bytes.                                                       *)
Lead2 == 194 .. 223
Lead3 == 224 .. 239
Lead4 == 240 .. 244

Second(c) == (IF c = 224 THEN 160 ELSE IF c = 240 THEN 144 ELSE 128) ..
               (IF c = 237 THEN 159 ELSE IF c = 244 THEN 143 ELSE 191)

Fits(s, p, n) == /\ p + n - 1 <= Len(s) /\ s[p + 1] \in Second(s[p])
                 /\ \A k \in 2 .. n - 1 : Cont(s[p + k])

utf8_seq_len(s, p) ==
  IF s[p] < 128 THEN 1
  ELSE IF s[p] \in Lead2 /\ Fits(s, p, 2) THEN 2
  ELSE IF s[p] \in Lead3 /\ Fits(s, p, 3) THEN 3
  ELSE IF s[p] \in Lead4 /\ Fits(s, p, 4) THEN 4
  ELSE 0

gwj_escape_utf8(s, cap) ==
  IF Scans([p \in 1 .. Len(s) |-> utf8_seq_len(s, p)]) THEN gwj_escape(s, cap) ELSE [rc |-> -1, text |-> <<>>]

-----------------------------------------------------------------------------
HexDigits == 48 .. 57 \cup 65 .. 70 \cup 97 .. 102

hexval == [c \in HexDigits |-> IF c < 65 THEN c - 48 ELSE IF c < 97 THEN c - 55 ELSE c - 87]

(* s_read_u4: the four hex digits at p, or -1. *)
s_read_u4(s, p) ==
  IF p + 3 <= Len(s) /\ \A k \in 0 .. 3 : s[p + k] \in DOMAIN hexval
  THEN hexval[s[p]] * 4096 + hexval[s[p + 1]] * 256 + hexval[s[p + 2]] * 16 + hexval[s[p + 3]]
  ELSE -1

put_utf8(cp) ==
  LET low(v) == 128 + (v % 64) IN
  IF cp < 128 THEN <<cp>>
  ELSE IF cp < 2048 THEN <<192 + (cp \div 64), low(cp)>>
  ELSE IF cp < 65536 THEN <<224 + (cp \div 4096), low(cp \div 64), low(cp)>>
  ELSE <<240 + (cp \div 262144), low(cp \div 4096), low(cp \div 64), low(cp)>>

(* What one element of a JSON string stands for, and how many bytes it is  *)
(* long: 0 if it is none.                                                  *)
Element(n, text) == [n |-> n, text |-> text]
NoElement == Element(0, <<>>)

CharEscapes == [c \in {34, 47, 92, 98, 102, 110, 114, 116} |->
                  CASE c = 98 -> 8 [] c = 102 -> 12 [] c = 110 -> 10 [] c = 114 -> 13 [] c = 116 -> 9
                    [] OTHER -> c]

HighSurrogates == 55296 .. 56319
LowSurrogates == 56320 .. 57343

(* Mutant: a low surrogate on its own is encoded like a character. *)
UnicodeElement_lone(s, p) ==
  LET u1 == s_read_u4(s, p + 2)
      pair == p + 7 <= Len(s) /\ s[p + 6] = BACKSLASH /\ s[p + 7] = LowerU
      u2 == IF pair THEN s_read_u4(s, p + 8) ELSE -1
  IN IF u1 = -1 THEN NoElement
     ELSE IF u1 \notin HighSurrogates THEN Element(6, put_utf8(u1))
     ELSE IF u2 \notin LowSurrogates THEN NoElement
     ELSE Element(12, put_utf8(65536 + (u1 - 55296) * 1024 + (u2 - 56320)))

(* \uXXXX, or a pair of them: a lone surrogate is an error. *)
UnicodeElement(s, p) ==
  LET u1 == s_read_u4(s, p + 2)
      pair == p + 7 <= Len(s) /\ s[p + 6] = BACKSLASH /\ s[p + 7] = LowerU
      u2 == IF pair THEN s_read_u4(s, p + 8) ELSE -1
  IN IF u1 = -1 \/ u1 \in LowSurrogates THEN NoElement
     ELSE IF u1 \notin HighSurrogates THEN Element(6, put_utf8(u1))
     ELSE IF u2 \notin LowSurrogates THEN NoElement
     ELSE Element(12, put_utf8(65536 + (u1 - 55296) * 1024 + (u2 - 56320)))

StringElement(s, p) ==
  IF s[p] # BACKSLASH THEN Element(1, <<s[p]>>)
  ELSE IF p = Len(s) THEN NoElement
  ELSE IF s[p + 1] \in DOMAIN CharEscapes THEN Element(2, <<CharEscapes[s[p + 1]]>>)
  ELSE IF s[p + 1] = LowerU THEN UnicodeElement(s, p)
  ELSE NoElement

(* The rest of a string from each position inside it on: its text and the  *)
(* position after its closing quote, which is 0 if there is no string.     *)
NoString == [text |-> <<>>, next |-> 0]

DecodedFrom(s) ==
  LET from[p \in 1 .. Len(s) + 1] ==
        IF p > Len(s) THEN NoString
        ELSE IF s[p] = QUOTE THEN [text |-> <<>>, next |-> p + 1]
        ELSE LET e == StringElement(s, p)
                 rest == IF e.n = 0 THEN NoString ELSE from[p + e.n]
             IN IF rest.next = 0 THEN NoString ELSE [text |-> e.text \o rest.text, next |-> rest.next]
  IN from

(* The string whose opening quote is at s[1]. *)
s_decode_string(s, cap) ==
  LET d == IF s # <<>> /\ s[1] = QUOTE THEN DecodedFrom(s)[2] ELSE NoString
  IN IF Len(d.text) <= cap THEN d ELSE NoString

(* Where a string ends, seen from each position inside it, or 0. *)
SkippedFrom(s) ==
  LET skip[p \in 1 .. Len(s) + 1] ==
        IF p > Len(s) THEN 0
        ELSE IF s[p] = QUOTE THEN p + 1
        ELSE IF s[p] # BACKSLASH THEN skip[p + 1]
        ELSE IF p = Len(s) THEN 0
        ELSE IF s[p + 1] # LowerU THEN skip[p + 2]
        ELSE IF Len(s) - (p + 1) < 4 THEN 0 ELSE skip[p + 6]
  IN skip

s_skip_string(s) == IF s # <<>> /\ s[1] = QUOTE THEN SkippedFrom(s)[2] ELSE 0
=============================================================================
