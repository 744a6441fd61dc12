----------------------------- MODULE GwResponse -----------------------------
(***************************************************************************)
(* How gw_json.c walks a response body, and what handle_request takes from *)
(* it.  A body is a sequence of tokens: the punctuation of JSON, string    *)
(* literals, scalars, and whatever else may stand there.  White space is   *)
(* left out.  A place in the body is the index of a token.  A walk is the  *)
(* set of what it returns, and the empty set where it returns -1.  What is *)
(* inside a literal is GwJson's matter.                                    *)
(***************************************************************************)
EXTENDS Integers, Sequences

CONSTANTS StrTok,       \* the string literals, each by its text
          Undecodable,  \* those that s_skip_string accepts and s_decode_string does not
          Scalar,       \* the tokens of numbers, true, false and null
          Size,         \* the length of each literal's text
          MaxDepth,     \* how deep s_skip_value goes: 64
          OutputCap,    \* AX_MAX_OUTPUT_BYTES, scaled
          KeyCap        \* the buffers: kbuf, ek, tv and stop_reason, scaled

ASSUME ResponseConstants == /\ Undecodable \subseteq StrTok
                            /\ Size \in [StrTok -> Nat]
                            /\ MaxDepth \in Nat /\ OutputCap \in Nat
                            /\ KeyCap \in [{"kbuf", "ek", "tv", "value"} -> Nat]

Places(ts) == 1 .. Len(ts) + 3
Tok(ts, p) == IF p \in DOMAIN ts THEN ts[p] ELSE "eof"

(* s_skip_string and s_decode_string: the place after the literal at p. *)
SkipString(ts, p) == {q \in {p + 1} : Tok(ts, p) \in StrTok}

Decodes(t, cap) == t \in StrTok \ Undecodable /\ Size[t] <= cap

(* Past the key and the colon of a member whose key fits into cap bytes.   *)
MemberValue(ts, p, cap) == {q \in {p + 2} : Decodes(Tok(ts, p), cap) /\ Tok(ts, p + 1) = ":"}

(* Mutant: an object or an array is closed by either bracket. *)
AfterItem_any_close(t, close, more, end) ==
  IF t = "," THEN more ELSE IF t \in {"}", "]"} THEN end ELSE {}

(* Mutant: the end of the body closes what is open. *)
AfterItem_eof(t, close, more, end) ==
  IF t = "," THEN more ELSE IF t \in {close, "eof"} THEN end ELSE {}

(* The end of every loop: a comma goes on, what closes ends, and anything  *)
(* else fails.                                                             *)
AfterItem(t, close, more, end) == IF t = "," THEN more ELSE IF t = close THEN end ELSE {}

-----------------------------------------------------------------------------
(* The place after the value at a place, by place and depth. *)
s_skip_value(ts) ==
  LET skip[p \in Places(ts), depth \in 0 .. MaxDepth + 1] ==
        LET t == Tok(ts, p)
            close == IF t = "{" THEN "}" ELSE "]"
            item(q) == IF t = "[" THEN {q} ELSE {v \in {q + 2} : SkipString(ts, q) # {} /\ Tok(ts, q + 1) = ":"}
            items[q \in Places(ts)] ==
              UNION {AfterItem(Tok(ts, next), close, items[next + 1], {next + 1}) :
                       next \in UNION {skip[v, depth + 1] : v \in item(q)}}
        IN IF depth > MaxDepth THEN {}
           ELSE IF t \in {"{", "["} THEN IF Tok(ts, p + 1) = close THEN {p + 2} ELSE items[p + 1]
           ELSE IF t \in Scalar
           THEN {q \in p + 1 .. Len(ts) + 1 : Tok(ts, q) \notin Scalar /\ \A r \in p .. q - 1 : ts[r] \in Scalar}
           ELSE SkipString(ts, p)
  IN skip

(* The text of the first member with that key. *)
gwj_top_string(ts, key, cap) ==
  LET top[p \in Places(ts)] ==
        UNION {IF Tok(ts, p) = key THEN {t \in {Tok(ts, value)} : Decodes(t, cap)}
               ELSE UNION {AfterItem(Tok(ts, next), "}", top[next + 1], {}) : next \in s_skip_value(ts)[value, 0]} :
                 value \in MemberValue(ts, p, KeyCap["kbuf"])}
  IN IF Tok(ts, 1) = "{" THEN top[2] ELSE {}

(* "message" in the object that is the first "error", which is handed over *)
(* with all that follows it.                                               *)
gwj_error_message(ts) ==
  LET error[p \in Places(ts)] ==
        UNION {IF Tok(ts, p) = "error"
               THEN UNION {gwj_top_string(rest, "message", KeyCap["value"]) : rest \in {SubSeq(ts, value, Len(ts))}}
               ELSE UNION {AfterItem(Tok(ts, next), "}", error[next + 1], {}) : next \in s_skip_value(ts)[value, 0]} :
                 value \in MemberValue(ts, p, KeyCap["ek"])}
  IN IF Tok(ts, 1) = "{" THEN error[2] ELSE {}

-----------------------------------------------------------------------------
(* One content block, from a member on: where it ends, and where the last  *)
(* text is, if a type was "text" (0: nowhere).                             *)
Block(ts) ==
  LET ended(q, is_text, text_at) == {[next |-> q, text_at |-> IF is_text THEN text_at ELSE 0]}
      block[p \in Places(ts), is_text \in BOOLEAN, text_at \in 0 .. Len(ts)] ==
        LET key == Tok(ts, p)
            past(value) == CASE key = "type" -> {q \in {value + 1} : Decodes(Tok(ts, value), KeyCap["tv"])}
                             [] key = "text" -> SkipString(ts, value)
                             [] OTHER -> s_skip_value(ts)[value, 0]
            is(value) == is_text \/ (key = "type" /\ Tok(ts, value) = "text")
            at(value) == IF key = "text" THEN value ELSE text_at
        IN IF key = "}" THEN ended(p + 1, is_text, text_at)
           ELSE UNION {UNION {AfterItem(Tok(ts, next), "}", block[next + 1, is(value), at(value)],
                                        ended(next + 1, is(value), at(value))) : next \in past(value)} :
                         value \in MemberValue(ts, p, KeyCap["ek"])}
  IN block

(* Mutant: each text is measured on its own. *)
SizeOf_none(out) == 0

(* How much of the output buffer is used. *)
SizeOf(out) == LET sum[n \in 0 .. Len(out)] == IF n = 0 THEN 0 ELSE sum[n - 1] + Size[out[n]]
               IN sum[Len(out)]

(* The blocks of a content array from a place on, out being the text so    *)
(* far: where the array ends, and the text then.                           *)
Blocks(ts) ==
  LET blocks[p \in Places(ts), out \in Seq(StrTok)] ==
        UNION {LET text == IF b.text_at = 0 THEN <<>> ELSE <<ts[b.text_at]>> IN
               IF b.text_at # 0 /\ ~Decodes(text[1], OutputCap - SizeOf(out)) THEN {}
               ELSE AfterItem(Tok(ts, b.next), "]", blocks[b.next + 1, out \o text],
                              {[next |-> b.next + 1, out |-> out \o text]}) :
                 b \in IF Tok(ts, p) = "{" THEN Block(ts)[p + 1, FALSE, 0] ELSE {}}
  IN blocks

Content(ts, p, out) ==
  IF Tok(ts, p) # "[" THEN {}
  ELSE IF Tok(ts, p + 1) = "]" THEN {[next |-> p + 2, out |-> out]}
  ELSE Blocks(ts)[p + 1, out]

gwj_content_text(ts) ==
  LET top[p \in Places(ts), found \in BOOLEAN, out \in Seq(StrTok)] ==
        LET content == Tok(ts, p) = "content"
            found_content == found \/ content
            past(value) == IF content THEN Content(ts, value, out)
                           ELSE {[next |-> q, out |-> out] : q \in s_skip_value(ts)[value, 0]}
        IN IF Tok(ts, p) = "}" THEN {o \in {out} : found}
           ELSE UNION {UNION {AfterItem(Tok(ts, s.next), "}", top[s.next + 1, found_content, s.out],
                                        {o \in {s.out} : found_content}) : s \in past(value)} :
                         value \in MemberValue(ts, p, KeyCap["kbuf"])}
  IN IF Tok(ts, 1) = "{" THEN top[2, FALSE, <<>>] ELSE {}

(* What handle_request makes of the body of a 200 response. *)
Outcome(ts) ==
  LET answers == {[state |-> IF stop_reason = "max_tokens" THEN "TRUNCATED" ELSE "COMPLETE", output |-> text] :
                    text \in gwj_content_text(ts), stop_reason \in gwj_top_string(ts, "stop_reason", KeyCap["value"])}
  IN IF answers = {} THEN [state |-> "INVALID_OUTPUT", output |-> <<>>] ELSE CHOOSE a \in answers : TRUE
=============================================================================
