------------------------------ MODULE GwParams ------------------------------
(***************************************************************************)
(* The sampling parameters of a request, along every way they take: from   *)
(* the header lines that handle_request reads to the body it sends, to the *)
(* canonical form of the record, and through the intent file of gw_wal.c   *)
(* to the record that recover_wal makes.                                   *)
(*                                                                         *)
(* A text is a sequence of one-character strings; a key with its "=" is    *)
(* one of them, since a key that is cut is no key.                         *)
(***************************************************************************)
EXTENDS Integers, Sequences, FiniteSetsExt

CONSTANTS default_max_tokens,   \* of the configuration
          max_prompt_bytes,     \* of the configuration
          NULL_Q16,             \* AX_PARAMS_NULL_Q16, which is INT32_MIN
          HashLen               \* characters of a hash in hex: 64

ASSUME ParamsConstants ==
  /\ default_max_tokens \in Nat \ {0} /\ default_max_tokens <= 200000
  /\ max_prompt_bytes \in Nat \ {0} /\ HashLen \in Nat \ {0}
  /\ NULL_Q16 \in Int /\ NULL_Q16 < -1

NULL_INT == -1      \* AX_PARAMS_NULL_INT32 and AX_PARAMS_NULL_INT64

-----------------------------------------------------------------------------
(* Step 1 of handle_request.  A line is its key, and the number sscanf     *)
(* finds after it; what follows the number is not looked at.               *)

NumberKeys == {"prompt_len", "max_tokens", "temperature_q16", "top_p_q16"}

(* The number the last line with key k gives. *)
LastOf(lines, k, default) ==
  LET at == {i \in DOMAIN lines : lines[i].key = k}
  IN IF at = {} THEN default ELSE lines[CHOOSE i \in at : \A j \in at : j <= i].num

Header(lines) ==
  [prompt_len |-> LastOf(lines, "prompt_len", -1),
   max_tokens |-> LastOf(lines, "max_tokens", default_max_tokens),
   temp_q16 |-> LastOf(lines, "temperature_q16", -1),
   top_p_q16 |-> LastOf(lines, "top_p_q16", -1)]

(* The limits of handle_request: 2.0 and 1.0 in Q16.16. *)
MaxTokens == 200000
MaxTemperature == 131072
MaxTopP == 65536

(* The reason given to proto_error, "" if there is none: for a number that *)
(* is missing or out of range, once the header is read, *)
OutOfRange(h) ==
  IF h.prompt_len <= 0 \/ h.prompt_len > max_prompt_bytes THEN "bad_prompt_len"
  ELSE IF h.max_tokens <= 0 \/ h.max_tokens > MaxTokens THEN "bad_max_tokens"
  ELSE IF h.temp_q16 < 0 THEN "temperature_required"
  ELSE IF h.temp_q16 > MaxTemperature \/ h.top_p_q16 > MaxTopP THEN "bad_param_range"
  ELSE ""

(* and before that for the first line that has no number that is known.    *)
Refusal(lines) ==
  LET unread == SelectSeq(lines, LAMBDA l : l.key \notin NumberKeys)
  IN IF unread = <<>> THEN OutOfRange(Header(lines))
     ELSE IF unread[1].key = "seed" THEN "seed_unsupported" ELSE "unknown_key"

ax_oracle_params_init_null ==
  [max_tokens |-> NULL_INT, seed |-> NULL_INT, temperature |-> NULL_Q16, top_p |-> NULL_Q16]

(* Step 3: the parameters of a request that is not refused. *)
Params(h) ==
  [ax_oracle_params_init_null EXCEPT
     !.max_tokens = h.max_tokens,
     !.temperature = IF h.temp_q16 >= 0 THEN h.temp_q16 ELSE @,
     !.top_p = IF h.top_p_q16 >= 0 THEN h.top_p_q16 ELSE @]

-----------------------------------------------------------------------------
(* The request body. *)

(* Mutant: only four decimals are written. *)
q16_to_dec_short(q) == [ip |-> q \div 65536, fp |-> (((q % 65536) * 625) \div 4096) * 100]

(* q16_to_dec of a value that is not negative: the integer part, and the   *)
(* six decimals as a number.  1000000 / 65536 = 15625 / 1024.              *)
q16_to_dec(q) == [ip |-> q \div 65536, fp |-> ((q % 65536) * 15625) \div 1024]

(* The numeric members that handle_request puts into the body, which it    *)
(* cannot build if a value to be sent is negative.                         *)
Sent(p) == {"max_tokens"} \cup {m \in {"temperature", "top_p"} : p[m] # NULL_Q16}

BodyBuilds(p) == \A m \in Sent(p) \ {"max_tokens"} : p[m] >= 0

Body(p) == [m \in Sent(p) |-> IF m = "max_tokens" THEN p[m] ELSE q16_to_dec(p[m])]

-----------------------------------------------------------------------------
(* Numbers as text. *)

Digit == <<"0", "1", "2", "3", "4", "5", "6", "7", "8", "9">>

(* Generated from the last digit, and reversed. *)
ax_format_uint64(v) ==
  LET digits[n \in 0 .. v] == IF n < 10 THEN <<Digit[n + 1]>> ELSE Append(digits[n \div 10], Digit[(n % 10) + 1])
  IN digits[v]

(* ax_format_int64, and %ld: the magnitude of the smallest value is taken  *)
(* without negating it.                                                    *)
ax_format_int64(v) ==
  IF v < 0 THEN <<"-">> \o ax_format_uint64((-(v + 1)) + 1) ELSE ax_format_uint64(v)

(* strtol: an optional sign and the digits after it. *)
strtol(s) ==
  LET neg == s # <<>> /\ s[1] = "-"
      value[n \in 0 .. Len(s)] ==
        IF n = 0 \/ (n = 1 /\ neg) THEN 0
        ELSE value[n - 1] * 10 + (CHOOSE d \in 0 .. 9 : Digit[d + 1] = s[n])
  IN IF neg THEN -value[Len(s)] ELSE value[Len(s)]

(* ax_params_canonicalise: the members in order, each with its text.       *)
Numeral(v, null) == IF v = null THEN <<"n", "u", "l", "l">> ELSE ax_format_int64(v)

ax_params_canonicalise(p) ==
  << <<"max_tokens", Numeral(p.max_tokens, NULL_INT)>>, <<"seed", Numeral(p.seed, NULL_INT)>>,
     <<"temperature", Numeral(p.temperature, NULL_Q16)>>, <<"top_p", Numeral(p.top_p, NULL_Q16)>> >>

-----------------------------------------------------------------------------
(* The intent file. *)

Line(key, value) == <<key>> \o value \o <<"\n">>

(* What gw_wal_write writes; a write that comes up short leaves a prefix.  *)
WalText(in) ==
  Line("input_hash=", in.input_hash) \o Line("model_id=", in.model_id)
    \o Line("max_tokens=", ax_format_int64(in.params.max_tokens))
    \o Line("seed=", ax_format_int64(NULL_INT))
    \o Line("temperature_q16=", ax_format_int64(in.params.temperature))
    \o Line("top_p_q16=", ax_format_int64(in.params.top_p))

(* Where c is for the first time, 0 if it is nowhere. *)
FirstAt(text, c) == LET at == {i \in DOMAIN text : text[i] = c} IN IF at = {} THEN 0 ELSE Min(at)

(* parse_field, for the line of the file that has this key: its value,     *)
(* which is empty if there is no such line.                                *)
parse_field(text, key) ==
  LET start == FirstAt(text, key)
      rest == IF start = 0 THEN <<>> ELSE SubSeq(text, start + 1, Len(text))
      end == FirstAt(rest, "\n")
  IN IF end = 0 THEN rest ELSE SubSeq(rest, 1, end - 1)

FieldNumber(text, key, default) ==
  LET v == parse_field(text, key) IN IF v = <<>> THEN default ELSE strtol(v)

(* Mutant: the length of the hash is not looked at. *)
Recovers_any_hash(text) == parse_field(text, "input_hash=") # <<>>

(* gw_wal_recover returns 1: both fields are there and the hash is whole.  *)
Recovers(text) == /\ Len(parse_field(text, "input_hash=")) = HashLen
                  /\ parse_field(text, "model_id=") # <<>>

(* The parameters that recover_wal records. *)
RecoveredParams(text) ==
  [ax_oracle_params_init_null EXCEPT
     !.max_tokens = FieldNumber(text, "max_tokens=", @),
     !.temperature = FieldNumber(text, "temperature_q16=", @),
     !.top_p = FieldNumber(text, "top_p_q16=", @)]
=============================================================================
