---------------------------- MODULE ParamsProps ----------------------------
(***************************************************************************)
(* Every request header of a few lines, and what becomes of its sampling   *)
(* parameters.                                                             *)
(***************************************************************************)
EXTENDS GwParams

CONSTANTS HeaderLine,   \* the lines headers are made of: [key, num]
          MaxLines,     \* how many of them
          Hash,         \* the input hash in hex, as characters
          ModelId       \* the configured model_id, as characters

(* A text with nothing in it that ends a line of the intent file or begins *)
(* one.  A hash is hex digits, and set_id takes no model_id with a control *)
(* character.                                                              *)
WalMark == {"\n", "input_hash=", "model_id=", "max_tokens=", "seed=", "temperature_q16=", "top_p_q16="}
Unbroken(s) == s \in Seq(STRING) /\ \A i \in 1 .. Len(s) : s[i] \notin WalMark

ASSUME HeaderConstants == /\ MaxLines \in Nat /\ \A l \in HeaderLine : l.num \in Int
                          /\ Unbroken(Hash) /\ Len(Hash) = HashLen
                          /\ Unbroken(ModelId) /\ ModelId # <<>>

VARIABLE lines          \* the header lines read so far

ParamsInit == lines = <<>>

ReadLine(l) == Len(lines) < MaxLines /\ lines' = Append(lines, l)

NextHeader == lines' = <<>>

ParamsNext == (\E l \in HeaderLine : ReadLine(l)) \/ NextHeader

-----------------------------------------------------------------------------
Taken == Refusal(lines) = ""
TakenParams == Params(Header(lines))
Intent == [input_hash |-> Hash, model_id |-> ModelId, params |-> TakenParams]

(* What a reader of the record makes of the canonical parameters: the      *)
(* members that are not null, with their values.                           *)
Recorded(p) ==
  LET c == ax_params_canonicalise(p)
      given == {i \in DOMAIN c : c[i][2] # <<"n", "u", "l", "l">>}
  IN [m \in {c[i][1] : i \in given} |-> strtol(c[CHOOSE i \in given : c[i][1] = m][2])]

(* The Q16.16 value that is nearest to a decimal fraction of six places:   *)
(* 65536 / 1000000 = 1024 / 15625, and half of 15625 is 7812.5.            *)
Nearest(d) == d.ip * 65536 + (d.fp * 1024 + 7812) \div 15625

(* The oracle is sent exactly the parameters that the record states: the   *)
(* same members, the same max_tokens, and for temperature and top_p a      *)
(* decimal that no other Q16.16 value is nearer to.  gw_main.c keeps a     *)
(* parameter out of the record that is not sent ("seed"), and one that was *)
(* not given out of both; and a header that is taken always has a body.    *)
SentIsRecorded ==
  Taken => LET p == TakenParams IN
             /\ BodyBuilds(p)
             /\ Sent(p) = DOMAIN Recorded(p)
             /\ \A m \in Sent(p) :
                  Recorded(p)[m] = IF m = "max_tokens" THEN Body(p)[m] ELSE Nearest(Body(p)[m])

(* The record that recover_wal makes of an intent whose call had been made *)
(* states the parameters of that call, null ones included: nothing is lost *)
(* between gw_wal_write and gw_wal_recover.  However short the write of an *)
(* intent comes up, gw_wal_recover either refuses the file or names the    *)
(* request it was written for, and what it takes from lines that are       *)
(* whole, or are missing, is the request's or null.                        *)
RecoveredAsIntended ==
  Taken => LET text == WalText(Intent) IN
             /\ Recovers(text)
             /\ ax_params_canonicalise(RecoveredParams(text)) = ax_params_canonicalise(TakenParams)
             /\ \A n \in 0 .. Len(text) :
                  LET cut == SubSeq(text, 1, n)
                      got == RecoveredParams(cut)
                  IN Recovers(cut) =>
                       /\ parse_field(cut, "input_hash=") = Hash
                       /\ cut[n] = "\n" => \A m \in DOMAIN got :
                                             got[m] \in {TakenParams[m], ax_oracle_params_init_null[m]}
=============================================================================
