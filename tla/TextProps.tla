----------------------------- MODULE TextProps -----------------------------
(***************************************************************************)
(* Every text made of a few chunks of bytes, offered to the validators,    *)
(* the normaliser, the two escapers and the two string readers.            *)
(***************************************************************************)
EXTENDS GwJson

CONSTANTS Chunk,        \* the byte sequences texts are made of
          MaxChunks     \* how many of them

ASSUME TextConstants == MaxChunks \in Nat /\ Chunk \subseteq Seq(Byte)

VARIABLES src,          \* the text
          chunks        \* how many chunks it is made of

TextInit == src = <<>> /\ chunks = 0

Feed(c) == /\ chunks < MaxChunks
           /\ src' = src \o c
           /\ chunks' = chunks + 1

NextText == src' = <<>> /\ chunks' = 0

TextNext == (\E c \in Chunk : Feed(c)) \/ NextText

-----------------------------------------------------------------------------
(* The UTF-8 grammar of RFC 3629, section 4: the byte ranges of each form. *)
Trail == 128 .. 191
Forms == { <<0 .. 127>>,
           <<194 .. 223, Trail>>,
           <<{224}, 160 .. 191, Trail>>, <<225 .. 236, Trail, Trail>>,
           <<{237}, 128 .. 159, Trail>>, <<238 .. 239, Trail, Trail>>,
           <<{240}, 144 .. 191, Trail, Trail>>, <<241 .. 243, Trail, Trail, Trail>>,
           <<{244}, 128 .. 143, Trail, Trail>> }

(* The characters that end at position n, as the positions before them.   *)
CharsEndingAt(s, n) ==
  {n - Len(f) : f \in {g \in Forms : /\ Len(g) <= n
                                    /\ \A k \in 1 .. Len(g) : s[n - Len(g) + k] \in g[k]}}

(* s is a sequence of well-formed characters. *)
IsUtf8(s) ==
  LET utf8[n \in 0 .. Len(s)] == n = 0 \/ \E b \in CharsEndingAt(s, n) : utf8[b]
  IN utf8[Len(s)]

(* ax_validate_utf8 accepts exactly the texts of RFC 3629, which its       *)
(* comment names: no form is missed, truncated at the end, or overlong.    *)
Utf8IsRFC3629 == ax_validate_utf8(src) <=> IsUtf8(src)

Normalised == ax_validate_and_normalise(src, Len(src) + 1)
Accepted == Normalised.rc = "AX_OK"

(* The lines of a text from each position on: what stands between the      *)
(* places where CR LF, CR or LF end one.                                   *)
SecondOfTwo(s, p) == s[p] = LF /\ p > 1 /\ s[p - 1] = CR
Before(c, rest) == IF c \in {CR, LF} THEN << <<>> >> \o rest ELSE << <<c>> \o Head(rest) >> \o Tail(rest)

LinesFrom(s) ==
  LET from[p \in 1 .. Len(s) + 1] ==
        IF p > Len(s) THEN << <<>> >>
        ELSE IF SecondOfTwo(s, p) THEN from[p + 1] ELSE Before(s[p], from[p + 1])
  IN from

TextLines(s) == LinesFrom(s)[1]

(* Text that was admitted is in its final form: offered again it is        *)
(* admitted unchanged, and it passes the checks that ax_obs_validate makes *)
(* of a record before it is appended.  It differs from what was offered in *)
(* its line endings only: ax_normalise_line_endings keeps every line.      *)
AdmittedIsFinal ==
  Accepted => /\ ax_validate_and_normalise(Normalised.text, Len(Normalised.text) + 1) = Normalised
              /\ ax_validate_encoding(Normalised.text) = "AX_OK"
              /\ \A i \in DOMAIN Normalised.text : Normalised.text[i] \notin {CR, DEL} \cup 11 .. 31 \cup 0 .. 9
              /\ TextLines(Normalised.text) = TextLines(src)

Quoted(s) == <<QUOTE>> \o s \o <<QUOTE>>
Unquoted(s) == s_decode_string(Quoted(s), 6 * Len(s)).text

(* The record and the request say the same of a text: a JSON reader gets   *)
(* the bytes back from the canonical form, and from what gwj_escape_utf8   *)
(* puts into the body.  A prompt that was admitted always goes into the    *)
(* buffer main allocates for the body, so that handle_request never has to *)
(* withdraw an intent because of its prompt.                               *)
EscapingLosesNothing ==
  LET e == gwj_escape_utf8(src, 6 * Len(src) + 1) IN
  /\ Unquoted(write_escaped(src)) = src
  /\ e.rc = 0 => Unquoted(e.text) = src
  /\ Accepted => gwj_escape_utf8(Normalised.text, 6 * Len(src) + 1).rc = 0

(* gwj_content_text skips a block's text with s_skip_string and decodes it *)
(* later with s_decode_string from the same place: what decodes can be     *)
(* skipped, and ends at the same place.  And a body that is UTF-8 decodes  *)
(* to text that is UTF-8: no escape, paired or not, makes an output that   *)
(* fails admission for its encoding.                                       *)
DecodingIsSound ==
  LET d == s_decode_string(Quoted(src), 4 * Len(src)) IN
  /\ d.next # 0 => s_skip_string(Quoted(src)) = d.next
  /\ ax_validate_utf8(src) => ax_validate_utf8(d.text)
=============================================================================
