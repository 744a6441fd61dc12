---------------------------- MODULE ConfigProps ----------------------------
(***************************************************************************)
(* Every configuration file made of a few pieces, and what it loads as.    *)
(***************************************************************************)
EXTENDS GwConfig

CONSTANTS Piece,        \* the byte sequences files are made of
          MaxPieces     \* how many of them

ASSUME PieceConstants == MaxPieces \in Nat /\ Piece \subseteq Seq(Byte)

VARIABLES raw,          \* the file
          pieces        \* how many pieces it is made of

ConfigInit == raw = <<>> /\ pieces = 0

AddPiece(p) == pieces < MaxPieces /\ pieces' = pieces + 1 /\ raw' = raw \o p

NextFile == raw' = <<>> /\ pieces' = 0

ConfigNext == (\E p \in Piece : AddPiece(p)) \/ NextFile

-----------------------------------------------------------------------------
(* A line of the file starts at its beginning or after a line feed. *)
Ends == {i \in DOMAIN raw : raw[i] = LF} \cup {Len(raw) + 1}
LineFrom(a) == SubSeq(raw, a + 1, (CHOOSE b \in Ends : b > a /\ \A c \in Ends : ~(a < c /\ c < b)) - 1)
Starts == {0} \cup {i \in DOMAIN raw : raw[i] = LF}

(* s is core with bytes of before in front of it and of after behind it. *)
Padded(s, core, before, after) ==
  \E i \in 0 .. Len(s) - Len(core) :
    /\ SubSeq(s, i + 1, i + Len(core)) = core
    /\ \A j \in 1 .. i : s[j] \in before
    /\ \A j \in i + Len(core) + 1 .. Len(s) : s[j] \in after

(* The line sets k to v. *)
Says(line, k, v) ==
  /\ v = <<>> \/ (v[1] \notin Blank /\ v[Len(v)] # CR)
  /\ \E e \in DOMAIN line :
       /\ line[e] = EQUALS
       /\ Padded(SubSeq(line, 1, e - 1), KeyName[k], Blank, Blank)
       /\ Padded(SubSeq(line, e + 1, Len(line)), v, Blank, {CR})

ValuesIn(line) == {SubSeq(line, i, j) : i \in 1 .. Len(line) + 1, j \in 0 .. Len(line)}
SaidBy(line) == {kv \in Keys \X ValuesIn(line) : Says(line, kv[1], kv[2])}

SaysNothing(line) ==
  \/ \A i \in DOMAIN line : line[i] \in Blank \cup {CR}
  \/ \E i \in DOMAIN line : line[i] = HASH /\ \A j \in 1 .. i - 1 : line[j] \in Blank

(* A file that gw_config_load accepts, and whose lines fit its buffer,     *)
(* means what it says: every line is blank, a comment or a setting, and    *)
(* each key has the value of the last line that sets it, all of it, or its *)
(* default.  No line is dropped and no value is shortened: what is in      *)
(* force is what the commitment to the raw bytes stands for.               *)
ConfigIsTheFile ==
  \A cfg \in gw_config_load(raw) :
    (\A a \in Starts : Len(LineFrom(a)) < LineBuf) =>
      \A said \in {[a \in Starts |-> UNION {SaidBy(line) : line \in {LineFrom(a)}}]} :
        /\ \A a \in Starts : said[a] # {} \/ SaysNothing(LineFrom(a))
        /\ \A k \in Keys :
             LET setting == {a \in Starts : \E kv \in said[a] : kv[1] = k} IN
             IF setting = {} THEN cfg[k] = Default[k]
             ELSE \E kv \in said[Max(setting)] :
                    kv[1] = k /\ cfg[k] = IF k \in DOMAIN Bounds THEN NumberOf(kv[2]) ELSE kv[2]

(* The model_id of a file that is accepted is one that no later step can   *)
(* fail on: admission takes it, it has an escaped form that fits the       *)
(* buffer of handle_request (whose UTF-8 check is another one), it is      *)
(* copied whole into the intent, and it is one line of the intent file.    *)
LoadedIdServes ==
  \A id \in {cfg["model_id"] : cfg \in gw_config_load(raw)} :
    /\ IdBytesAreWellFormed(id) /\ Len(id) <= AX_MAX_ID
    /\ gwj_escape_utf8(id, GW_ID_MAX * 6 + 1).rc = 0
    /\ Len(id) < GW_ID_MAX
    /\ Range(id) \cap {LF, CR} = {}
=============================================================================
