------------------------------ MODULE MCText ------------------------------
EXTENDS Inputs, TLC

(* Single bytes at the boundaries of the ranges the code tests. *)
Bytes == {10, 13, 31, 34, 92, 97, 110, 117, 127, 128, 143, 191, 193, 194, 204, 239, 245}

(* A leading byte with a second byte on either side of its bound. *)
Leads == { <<224, 159>>, <<224, 160>>, <<225, 183>>, <<237, 159>>, <<237, 160>>,
           <<240, 143>>, <<240, 144>>, <<244, 143>>, <<244, 144>> }

(* \ud83d, \ude00, \u000a, é and € *)
Escapes == { <<92, 117, 100, 56, 51, 100>>, <<92, 117, 100, 101, 48, 48>>,
             <<92, 117, 48, 48, 48, 97>>, <<92, 117, 48, 48, 69, 57>>,
             <<92, 117, 50, 48, 97, 99>> }

Chunks == {<<b>> : b \in Bytes} \cup Leads \cup Escapes

-----------------------------------------------------------------------------
(* Header lines: a number at and past each bound that is tested. *)
Headers ==
  LET at(k, nums) == {[key |-> k, num |-> n] : n \in nums} IN
  at("prompt_len", {8, 9}) \cup at("max_tokens", {200000, 200001})
    \cup at("temperature_q16", {-1, 0, 45875, 131072, 131073})
    \cup at("top_p_q16", {-2, 58983, 65536, 65537}) \cup at("seed", {7}) \cup at("other", {0})

(* One more than INT32_MIN, whose magnitude TLC cannot represent. *)
NullQ16 == -2147483647
HashText == <<"a", "1">>
ModelText == <<"m", "-", "4">>

-----------------------------------------------------------------------------
(* Literals; "mid" fits the larger key buffer only, "long" fits neither.   *)
Literals == {"content", "stop_reason", "error", "usage", "type", "text", "message",
             "max_tokens", "end", "a", "b", "tool", "esc", "mid", "long"}
Sizes == [t \in Literals |-> CASE t = "a" -> 1 [] t = "b" -> 3 [] t = "mid" -> 4
                                [] t = "long" -> 5 [] OTHER -> 2]
Caps == [kbuf |-> 4, ek |-> 3, tv |-> 2, value |-> 4]

Plain(k, v) == [key |-> k, open |-> "", value |-> v]
Opened(k, o) == [key |-> k, open |-> o, value |-> <<>>]
Members == { Opened("content", "["), Plain("content", <<"a">>), Opened("error", "{"),
             Plain("stop_reason", <<"end">>), Plain("stop_reason", <<"max_tokens">>),
             Plain("message", <<"b">>), Plain("long", <<"1">>),
             Plain("usage", <<"{", "text", ":", "[", "1", "]", "}">>),
             Plain("mid", <<"[", "[", "[", "[", "1", "]", "]", "]", "]">>) }

Field(k, v) == [key |-> k, value |-> v]
TypeText == Field("type", <<"text">>)
Items == { <<>>, <<TypeText, Field("text", <<"a">>)>>, <<Field("text", <<"b">>), TypeText>>,
           <<Field("type", <<"tool">>), Field("text", <<"a">>)>>,
           <<TypeText, Field("usage", <<"{", "text", ":", "a", "}">>)>>,
           <<Field("text", <<"a">>), Field("usage", <<"[", "]">>), TypeText>>,
           <<TypeText, Field("text", <<"esc">>)>>,
           <<TypeText, Field("text", <<"a">>), Field("text", <<"b">>)>>,
           <<Field("type", <<"long">>)>>, <<TypeText, Field("message", <<"a">>)>> }
NoiseTokens == {"{", "}", "]", ",", ":", "text", "1"}

-----------------------------------------------------------------------------
(* Four keys are spelled with one letter; no file holds the others' name.  *)
Letters == "model_id" :> <<109>> @@ "wal_path" :> <<119>> @@ "max_attempts" :> <<110>>
             @@ "anthropic_version" :> <<118>>
Names == [k \in Keys |-> IF k \in DOMAIN Letters THEN Letters[k] ELSE <<0>>]
Defaults == [k \in Keys |-> IF k \in DOMAIN Bounds THEN 3 ELSE <<>>]
Pieces == { <<109, 61, 97, 10>>, <<119, 61, 98, 99, 10>>, <<32, 109, 9, 61, 32, 195, 169>>,
            <<110, 61, 55>>, <<118, 61, 97>>, <<55>>, <<32>>, <<35>>, <<10>>, <<13, 10>>,
            <<1>>, <<195>>, <<0>> }
=============================================================================
