------------------------------ MODULE GwConfig ------------------------------
(***************************************************************************)
(* gateway/src/gw_config.c: the configuration file, a sequence of bytes,   *)
(* and the configuration it loads as.  The names of the keys and the sizes *)
(* of the buffers are constants, so that small files meet them.            *)
(***************************************************************************)
EXTENDS GwJson, FiniteSetsExt

CONSTANTS KeyName,      \* the bytes of each key's name
          Required,     \* the keys without which the file is refused
          Default,      \* the values before the file is read: bytes, or a number
          LineBuf,      \* sizeof line: 1024
          GW_CONFIG_MAX, GW_PATH_MAX, GW_ID_MAX,
          VersionMax,   \* sizeof anthropic_version: 64
          AX_MAX_ID     \* AX_MAX_MODEL_ID_BYTES and AX_MAX_ORACLE_ID_BYTES

PathKeys == {"socket_path", "ledger_path", "wal_path", "log_path", "api_url",
             "fixture_capture_path", "export_path"}
IdKeys == {"model_id", "oracle_id"}

(* set_long's bounds *)
Bounds == [connect_timeout_s |-> <<1, 600>>, response_timeout_s |-> <<1, 3600>>,
           max_attempts |-> <<1, 10>>, max_response_bytes |-> <<1024, 67108864>>,
           call_budget |-> <<0, 1000000>>, default_max_tokens |-> <<1, 200000>>,
           max_prompt_bytes |-> <<1, 1048576>>]

Keys == PathKeys \cup IdKeys \cup {"anthropic_version"} \cup DOMAIN Bounds

ASSUME ConfigConstants == DOMAIN KeyName = Keys /\ DOMAIN Default = Keys /\ Required \subseteq Keys
                          /\ "model_id" \in Required /\ Default["model_id"] = <<>>
                          /\ {LineBuf, GW_ID_MAX, GW_PATH_MAX} \subseteq Nat \ {0, 1}

Blank == {32, 9}
HASH == 35
EQUALS == 61

(* Where the first byte of a set is, 0 if there is none. *)
FirstIn(s, set) == LET at == {i \in DOMAIN s : s[i] \in set} IN IF at = {} THEN 0 ELSE Min(at)
Rest(s, n) == SubSeq(s, n + 1, Len(s))

TrimHead(s) == LET n == FirstIn(s, Byte \ Blank)
               IN IF n = 0 THEN <<>> ELSE Rest(s, n - 1)
TrimTail(s, set) == SubSeq(s, 1, Max({0} \cup {i \in DOMAIN s : s[i] \notin set}))

-----------------------------------------------------------------------------
(* A value as set_str, set_id, set_header_value and set_long take it.      *)

set_str(v, cap) == v # <<>> /\ Len(v) < cap

(* Mutant: only the size of an identifier is looked at. *)
set_id_any(v) == Len(v) <= AX_MAX_ID /\ set_str(v, GW_ID_MAX)

set_id(v) == Len(v) <= AX_MAX_ID /\ IdBytesAreWellFormed(v) /\ set_str(v, GW_ID_MAX)

set_header_value(v) ==
  (\A i \in DOMAIN v : v[i] >= 32 /\ v[i] # DEL) /\ set_str(v, VersionMax)

(* strtol of a whole value: white space, a sign, and one digit or more. *)
Signed(v) == LET n == FirstIn(v, Byte \ {11, 12, 13})
             IN IF n = 0 THEN <<>> ELSE Rest(v, n - 1)
Unsigned(v) == IF Signed(v) # <<>> /\ Signed(v)[1] \in {43, 45} THEN Tail(Signed(v)) ELSE Signed(v)
IsNumber(v) == Unsigned(v) # <<>> /\ \A i \in DOMAIN Unsigned(v) : Unsigned(v)[i] \in 48 .. 57
NumberOf(v) ==
  LET d == Unsigned(v)
      n[i \in 0 .. Len(d)] == IF i = 0 THEN 0 ELSE 10 * n[i - 1] + d[i] - 48
  IN IF Signed(v)[1] = 45 THEN -n[Len(d)] ELSE n[Len(d)]

set_long(k, v) == IsNumber(v) /\ NumberOf(v) \in Bounds[k][1] .. Bounds[k][2]

Takes(k, v) == CASE k \in PathKeys -> set_str(v, GW_PATH_MAX)
                 [] k \in IdKeys -> set_id(v)
                 [] k = "anthropic_version" -> set_header_value(v)
                 [] OTHER -> set_long(k, v)

-----------------------------------------------------------------------------
(* Mutant: one byte of the buffer is not used. *)
FgetsLen_short(text) ==
  LET lf == FirstIn(text, {LF}) IN
  IF lf # 0 /\ lf < LineBuf - 1 THEN lf ELSE IF Len(text) < LineBuf - 1 THEN Len(text) ELSE LineBuf - 2

(* How much fgets takes from the text: up to a line feed, and no more than *)
(* the buffer holds, so that a longer line is read as several.             *)
FgetsLen(text) ==
  LET lf == FirstIn(text, {LF}) IN
  IF lf # 0 /\ lf < LineBuf THEN lf ELSE IF Len(text) < LineBuf THEN Len(text) ELSE LineBuf - 1

(* The pieces of the file that fgets returns. *)
FgetsLines(raw) ==
  LET lines[m \in 0 .. Len(raw)] ==
        LET n == FgetsLen(Rest(raw, m))
        IN IF m = Len(raw) THEN <<>> ELSE <<SubSeq(raw, m + 1, m + n)>> \o lines[m + n]
  IN lines[0]

(* What a line sets: one key, or none if it is refused. *)
Settings(text) ==
  LET eq == FirstIn(text, {EQUALS})
      key == TrimTail(SubSeq(text, 1, eq - 1), Blank)
  IN {kv \in Keys \X {TrimHead(Rest(text, eq))} : eq # 0 /\ KeyName[kv[1]] = key /\ Takes(kv[1], kv[2])}

(* One round of the loop in gw_config_load. *)
LoadLine(cfg, text) ==
  IF text = <<>> \/ text[1] = HASH THEN {cfg}
  ELSE {[cfg EXCEPT ![kv[1]] = IF kv[1] \in DOMAIN Bounds THEN NumberOf(kv[2]) ELSE kv[2]] : kv \in Settings(text)}

LoadLines(lines) ==
  LET load[n \in 0 .. Len(lines)] ==
        IF n = 0 THEN {Default}
        ELSE UNION {LoadLine(cfg, text) :
                      cfg \in load[n - 1], text \in {TrimHead(TrimTail(lines[n], {LF, CR}))}}
  IN load[Len(lines)]

(* The configuration that is loaded, none where the code returns -1. *)
gw_config_load(raw) ==
  IF Len(raw) > GW_CONFIG_MAX \/ 0 \in Range(raw) THEN {}
  ELSE {cfg \in UNION {LoadLines(lines) : lines \in {FgetsLines(raw)}} : \A k \in Required : cfg[k] # <<>>}
=============================================================================
