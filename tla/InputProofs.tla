---------------------------- MODULE InputProofs -----------------------------
(***************************************************************************)
(* What the gateway makes of its inputs, for every text, header and        *)
(* configuration file that it reads.                                       *)
(***************************************************************************)
EXTENDS Inputs, JsonProofs, ParamsProofs

-----------------------------------------------------------------------------
(* The theorems about every input that is read. *)

(* What is read is bytes, and header lines. *)
Read == src \in Seq(Byte) /\ raw \in Seq(Byte) /\ lines \in Seq(HeaderLine)

(* Nothing else is ever read. *)
LEMMA ReadHolds == Spec => []Read
<1>1. Init => Read
  BY DEF Init, TextInit, ConfigInit, ParamsInit, Read
<1>2. Read /\ [Next]_vars => Read'
  <2> SUFFICES ASSUME Read, [Next]_vars PROVE Read'
    OBVIOUS
  <2>1. CASE NewText
    <3>1. CASE NextText
      BY <2>1, <3>1 DEF NewText, NextText, Read
    <3>2. ASSUME NEW c \in Chunk, Feed(c) PROVE Read'
      <4>1. c \in Seq(Byte) /\ src' = src \o c /\ raw' = raw /\ lines' = lines
        BY SMTT(30), <2>1, <3>2, TextConstants DEF NewText, Feed
      <4> QED BY <4>1 DEF Read
    <3> QED BY SMTT(30), <2>1, <3>1, <3>2 DEF NewText, TextNext
  <2>2. CASE NewHeader
    <3>1. CASE NextHeader
      BY <2>2, <3>1 DEF NewHeader, NextHeader, Read
    <3>2. ASSUME NEW l \in HeaderLine, ReadLine(l) PROVE Read'
      <4>1. lines' = Append(lines, l) /\ raw' = raw /\ src' = src
        BY SMTT(30), <2>2, <3>2 DEF NewHeader, ReadLine
      <4> QED BY <4>1 DEF Read
    <3> QED BY SMTT(30), <2>2, <3>1, <3>2 DEF NewHeader, ParamsNext
  <2>3. CASE NewBody
    BY <2>3 DEF NewBody, Read
  <2>4. CASE NewFile
    <3>1. CASE NextFile
      BY <2>4, <3>1 DEF NewFile, NextFile, Read
    <3>2. ASSUME NEW p \in Piece, AddPiece(p) PROVE Read'
      <4>1. p \in Seq(Byte) /\ raw' = raw \o p /\ src' = src /\ lines' = lines
        BY SMTT(30), <2>4, <3>2, PieceConstants DEF NewFile, AddPiece
      <4> QED BY <4>1 DEF Read
    <3> QED BY SMTT(30), <2>4, <3>1, <3>2 DEF NewFile, ConfigNext
  <2>5. CASE UNCHANGED vars
    BY <2>5 DEF vars, Read
  <2> QED BY SMTT(30), <2>1, <2>2, <2>3, <2>4, <2>5 DEF Next
<1> QED BY <1>1, <1>2, PTL DEF Spec


(* ax_validate_utf8 (validate.c) accepts exactly the texts of RFC 3629,    *)
(* whatever bytes they are made of and however long they are.              *)
THEOREM Utf8IsAlwaysRFC3629 == Spec => []Utf8IsRFC3629
<1>1. Read => Utf8IsRFC3629
  BY Zenon, ValidatesTheGrammar DEF Read, Utf8IsRFC3629
<1> QED
  BY <1>1, ReadHolds, PTL

(* ax_validate_and_normalise (validate.c) is idempotent: a text it admits  *)
(* is admitted again unchanged, passes the checks of ax_obs_validate, has  *)
(* no control byte but LF, and has the lines of the text it was made from. *)
THEOREM AdmittedIsAlwaysFinal == Spec => []AdmittedIsFinal
<1>1. Read => AdmittedIsFinal
  <2> SUFFICES ASSUME Read, Accepted PROVE AdmittedIsFinal
    BY Zenon DEF AdmittedIsFinal
  <2>1. src \in Seq(Byte) /\ ax_validate_and_normalise(src, Len(src) + 1).rc = "AX_OK"
    BY Zenon DEF Read, Accepted, Normalised
  <2> QED
    BY ZenonT(40), <2>1, AdmittedStays DEF AdmittedIsFinal, Normalised
<1> QED
  BY <1>1, ReadHolds, PTL

(* For every text, a JSON reader gets the bytes back from what             *)
(* write_escaped (canonical.c) puts into the record and from what          *)
(* gwj_escape_utf8 (gw_json.c) puts into the body, and a prompt that was   *)
(* admitted always goes into the buffer that main allocates for it.        *)
THEOREM EscapingNeverLoses == Spec => []EscapingLosesNothing
<1>1. Read => EscapingLosesNothing
  <2> SUFFICES ASSUME src \in Seq(Byte) PROVE EscapingLosesNothing
    BY Zenon DEF Read
  <2>1. Unquoted(write_escaped(src)) = src
    BY Zenon, RecordReadBack
  <2>2. gwj_escape_utf8(src, 6 * Len(src) + 1).rc = 0 =>
          Unquoted(gwj_escape_utf8(src, 6 * Len(src) + 1).text) = src
    BY Zenon, BodyReadBack
  <2>3. Accepted => gwj_escape_utf8(Normalised.text, 6 * Len(src) + 1).rc = 0
    BY Zenon, PromptFits DEF Accepted, Normalised
  <2> QED
    BY Zenon, <2>1, <2>2, <2>3 DEF EscapingLosesNothing
<1> QED
  BY <1>1, ReadHolds, PTL

(* For every body, what s_decode_string (gw_json.c) decodes s_skip_string  *)
(* skips to the same place, and what is decoded from UTF-8 is UTF-8: no    *)
(* escape, paired or not, makes an output that fails admission for its     *)
(* encoding.                                                               *)
THEOREM DecodingIsAlwaysSound == Spec => []DecodingIsSound
<1>1. Read => DecodingIsSound
  BY Zenon, DecodingSound DEF Read, DecodingIsSound
<1> QED
  BY <1>1, ReadHolds, PTL

(* Whatever the file, gw_config_load (gw_config.c) returns no model_id     *)
(* that a record cannot hold, the body of a request has no room for, or    *)
(* that would end a line of a header.                                      *)
THEOREM LoadedIdAlwaysServes == Spec => []LoadedIdServes
<1>1. Read => LoadedIdServes
  <2> SUFFICES ASSUME Read, NEW id \in {cfg["model_id"] : cfg \in gw_config_load(raw)}
               PROVE  /\ IdBytesAreWellFormed(id) /\ Len(id) <= AX_MAX_ID
                      /\ gwj_escape_utf8(id, GW_ID_MAX * 6 + 1).rc = 0
                      /\ Len(id) < GW_ID_MAX
                      /\ Range(id) \cap {LF, CR} = {}
    BY Zenon DEF LoadedIdServes
  <2>1. id \in Seq(Byte) /\ set_id(id)
    BY Zenon, LoadedIdIsSet DEF Read
  <2>2. IdBytesAreWellFormed(id) /\ Len(id) <= AX_MAX_ID /\ Len(id) < GW_ID_MAX
    BY Zenon, <2>1 DEF set_id, set_str
  <2> QED BY Zenon, <2>1, <2>2, SetIdServes
<1> QED BY <1>1, ReadHolds, PTL

(* For every header that s_read_request (main.c) takes, the body can be    *)
(* built, and a reader of the record finds in it exactly the parameters    *)
(* that the body sends, with their values.                                 *)
THEOREM SentIsAlwaysRecorded == Spec => []SentIsRecorded
<1>1. Read => SentIsRecorded
  <2> SUFFICES ASSUME Read, Taken PROVE SentIsRecorded
    BY Zenon DEF SentIsRecorded
  <2>1. lines \in Seq(HeaderLine) /\ Refusal(lines) = ""
    BY Zenon DEF Read, Taken
  <2> QED BY Zenon, <2>1, TakenIsSent DEF SentIsRecorded, TakenParams
<1> QED BY <1>1, ReadHolds, PTL

(* However a call ends, the record that a restart makes for it states the  *)
(* parameters that were sent; and however an intent file was cut, what     *)
(* recover_wal takes from it is of the request it was written for.         *)
THEOREM RecoveredAlwaysAsIntended == Spec => []RecoveredAsIntended
<1>1. Read => RecoveredAsIntended
  <2> SUFFICES ASSUME Read, Taken PROVE RecoveredAsIntended
    BY Zenon DEF RecoveredAsIntended
  <2>1. lines \in Seq(HeaderLine) /\ Refusal(lines) = ""
    BY Zenon DEF Read, Taken
  <2>2. PICK p : p = TakenParams
    BY Zenon
  <2>3. PICK in : in = Intent
    BY Zenon
  <2>4. in = [input_hash |-> Hash, model_id |-> ModelId, params |-> p]
    BY Zenon, <2>2, <2>3 DEF Intent
  <2>5. /\ p.max_tokens \in Nat /\ p.seed = NULL_INT /\ p.temperature \in Nat
        /\ p.top_p = NULL_Q16 \/ p.top_p \in Nat
    BY Zenon, <2>1, <2>2, HeaderType, TakenInRange, ParamsTaken DEF TakenParams
  <2>6. p.max_tokens \in Int /\ p.temperature \in Int /\ p.top_p \in Int
    <3>1. \A v \in Nat : v \in Int
      OBVIOUS
    <3> QED BY Zenon, <2>5, <3>1, NullIsNegative
  <2> QED BY Zenon, <2>2, <2>3, <2>4, <2>5, <2>6, IntentRecovers DEF RecoveredAsIntended
<1> QED BY <1>1, ReadHolds, PTL
=============================================================================
