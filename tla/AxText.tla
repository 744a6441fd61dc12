------------------------------- MODULE AxText -------------------------------
(***************************************************************************)
(* src/validate.c: what text the gateway admits, as a prompt and as an     *)
(* oracle output.  A text is a sequence of bytes.  A C bit mask on a       *)
(* leading byte selects an interval of byte values, and is written as one. *)
(***************************************************************************)
EXTENDS Integers, Sequences

Byte == 0 .. 255

LF == 10
CR == 13
DEL == 127

Cont(c) == c \in 128 .. 191

(* The length a leading byte announces, 0 if it cannot lead. *)
SeqLen(c) == CASE c < 128 -> 1
               [] c \in 192 .. 223 -> 2
               [] c \in 224 .. 239 -> 3
               [] c \in 240 .. 247 -> 4
               [] OTHER -> 0

(* The code point of the n-byte sequence at p. *)
CodePoint(s, p, n) ==
  LET low(k) == s[p + k] % 64 IN
  CASE n = 2 -> (s[p] % 32) * 64 + low(1)
    [] n = 3 -> (s[p] % 16) * 4096 + low(1) * 64 + low(2)
    [] n = 4 -> (s[p] % 8) * 262144 + low(1) * 4096 + low(2) * 64 + low(3)

(* The code points that need three bytes, and four, and those that none   *)
(* may encode.                                                             *)
MinOf3 == 2048
MinOf4 == 65536
MaxCodePoint == 1114111
MinSurrogate == 55296
MaxSurrogate == 57343
Surrogates == MinSurrogate .. MaxSurrogate

(* A loop that advances by step[p] at position p gets from there past the  *)
(* end: no step it takes is 0.                                             *)
ScanFrom(step) ==
  LET ok[p \in 1 .. Len(step) + 4] == p > Len(step) \/ (step[p] # 0 /\ ok[p + step[p]])
  IN ok

Scans(step) == ScanFrom(step)[1]

(* Mutant: surrogates are not looked for. *)
Utf8Seq_surrogates(s, p, n) ==
  /\ n # 0 /\ p + n - 1 <= Len(s)
  /\ \A k \in 1 .. n - 1 : Cont(s[p + k])
  /\ n = 2 => s[p] % 32 >= 2
  /\ n = 3 => CodePoint(s, p, 3) >= MinOf3
  /\ n = 4 => CodePoint(s, p, 4) \in MinOf4 .. MaxCodePoint

(* The n bytes at p are no truncated, overlong, surrogate or out-of-range  *)
(* sequence.                                                               *)
Utf8Seq(s, p, n) ==
  /\ n # 0 /\ p + n - 1 <= Len(s)
  /\ \A k \in 1 .. n - 1 : Cont(s[p + k])
  /\ n = 2 => s[p] % 32 >= 2
  /\ n = 3 => CodePoint(s, p, 3) >= MinOf3 /\ CodePoint(s, p, 3) \notin Surrogates
  /\ n = 4 => CodePoint(s, p, 4) \in MinOf4 .. MaxCodePoint

(* One round of ax_validate_utf8. *)
Utf8Step(s, p) == IF Utf8Seq(s, p, SeqLen(s[p])) THEN SeqLen(s[p]) ELSE 0

ax_validate_utf8(s) == Scans([p \in 1 .. Len(s) |-> Utf8Step(s, p)])

(* Mutant: only the controls below the space are looked for. *)
ax_contains_forbidden_control_not_del(s) ==
  \E i \in DOMAIN s : s[i] < 32 /\ s[i] # LF

ax_contains_forbidden_control(s) ==
  \E i \in DOMAIN s : (s[i] < 32 /\ s[i] # LF) \/ s[i] = DEL

(* The combining marks that are refused, by the length of their encoding. *)
CombiningMarks(n) == CASE n = 2 -> 768 .. 879
                       [] n = 3 -> 7616 .. 7679 \cup 8400 .. 8447 \cup 65056 .. 65071

(* One round of ax_is_nfc, which only looks for combining marks. *)
NfcStep(s, p) ==
  LET n == SeqLen(s[p]) IN
  IF \/ n \in {1, 4}
     \/ n \in {2, 3} /\ p + n - 1 <= Len(s) /\ CodePoint(s, p, n) \notin CombiningMarks(n)
  THEN n ELSE 0

ax_is_nfc(s) == Scans([p \in 1 .. Len(s) |-> NfcStep(s, p)])

Text(t) == [rc |-> "AX_OK", text |-> t]
Error(rc) == [rc |-> rc, text |-> <<>>]

(* The text from each position on with LF for CR LF and for CR alone. *)
LineFeedsFrom(s) ==
  LET norm[p \in 1 .. Len(s) + 2] ==
        IF p > Len(s) THEN <<>>
        ELSE IF s[p] # CR THEN <<s[p]>> \o norm[p + 1]
        ELSE <<LF>> \o norm[IF p < Len(s) /\ s[p + 1] = LF THEN p + 2 ELSE p + 1]
  IN norm

(* One byte of dst is kept for the NUL. *)
ax_normalise_line_endings(s, dst_size) ==
  LET t == LineFeedsFrom(s)[1]
  IN IF Len(t) < dst_size THEN Text(t) ELSE Error("AX_ERR_BUFFER")

(* The checks of ax_obs_validate on text that is already in a record. *)
ax_validate_encoding(s) ==
  IF ax_validate_utf8(s) /\ ax_is_nfc(s) THEN "AX_OK" ELSE "AX_ERR_ENCODING"

ax_validate_and_normalise(s, dst_size) ==
  LET n == ax_normalise_line_endings(s, dst_size) IN
  IF ~ax_validate_utf8(s) THEN Error("AX_ERR_ENCODING")
  ELSE IF n.rc # "AX_OK" THEN n
  ELSE IF ax_contains_forbidden_control(n.text) \/ ~ax_is_nfc(n.text)
  THEN Error("AX_ERR_ENCODING")
  ELSE n

(* What id_is_well_formed of obs.c asks of an identifier that is there. *)
IdBytesAreWellFormed(s) ==
  /\ s # <<>>
  /\ \A i \in DOMAIN s : s[i] >= 32 /\ s[i] # DEL
  /\ ax_validate_utf8(s)
=============================================================================
