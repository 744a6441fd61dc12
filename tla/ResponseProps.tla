--------------------------- MODULE ResponseProps ---------------------------
(***************************************************************************)
(* Response bodies that are built as documents, member by member, and the  *)
(* same bodies cut off or damaged on the way.                              *)
(***************************************************************************)
EXTENDS GwResponse, FiniteSets, FiniteSetsExt

CONSTANTS Member,       \* top-level members: [key, open, value], see Doc
          Item,         \* the fields of one object: a sequence of [key, value]
          MaxParts,     \* how many parts a document has
          Noise         \* the tokens that damage inserts

ASSUME DocumentConstants == MaxParts \in Nat

(* A member's value is the tokens of a value, or, where open is not "", an *)
(* array ("[") of objects or one object ("{") that is still to be filled.  *)
VARIABLE doc            \* the members: [key, open, value, items]

ResponseInit == doc = <<>>

Parts == LET n[i \in 0 .. Len(doc)] == IF i = 0 THEN 0 ELSE n[i - 1] + 1 + Len(doc[i].items)
         IN n[Len(doc)]

AddMember(m) ==
  /\ Parts < MaxParts
  /\ doc' = Append(doc, [key |-> m.key, open |-> m.open, value |-> m.value, items |-> <<>>])

AddItem(fields) ==
  /\ doc # <<>> /\ Parts < MaxParts
  /\ doc[Len(doc)].open = "[" \/ (doc[Len(doc)].open = "{" /\ doc[Len(doc)].items = <<>>)
  /\ doc' = [doc EXCEPT ![Len(doc)].items = Append(@, fields)]

NextDocument == doc' = <<>>

ResponseNext == (\E m \in Member : AddMember(m)) \/ (\E i \in Item : AddItem(i)) \/ NextDocument

-----------------------------------------------------------------------------
(* A document as tokens. *)
Joined(parts) ==
  LET join[n \in 0 .. Len(parts)] ==
        IF n = 0 THEN <<>> ELSE join[n - 1] \o (IF n = 1 THEN <<>> ELSE <<",">>) \o parts[n]
  IN join[Len(parts)]

Object(members) == <<"{">> \o Joined(members) \o <<"}">>

FieldTokens(f) == <<f.key, ":">> \o f.value
ItemTokens(fields) == Object([i \in DOMAIN fields |-> FieldTokens(fields[i])])

MemberTokens(m) ==
  LET items == [i \in DOMAIN m.items |-> ItemTokens(m.items[i])]
  IN <<m.key, ":">> \o CASE m.open = "[" -> <<"[">> \o Joined(items) \o <<"]">>
                         [] m.open = "{" -> IF items = <<>> THEN <<"{", "}">> ELSE items[1]
                         [] OTHER -> m.value

Tokens == Object([i \in DOMAIN doc |-> MemberTokens(doc[i])])

-----------------------------------------------------------------------------
(* A message as the API documents it: one content, an array, one           *)
(* stop_reason, a string, and blocks whose keys are there once.            *)
Once(fields, key) == Cardinality({i \in DOMAIN fields : fields[i].key = key}) <= 1
Of(fields, key) == fields[CHOOSE i \in DOMAIN fields : fields[i].key = key]
Has(fields, key) == \E i \in DOMAIN fields : fields[i].key = key

(* How many brackets are open at most. *)
Nesting(value) ==
  LET open[n \in 0 .. Len(value)] ==
        IF n = 0 THEN 0
        ELSE open[n - 1] + (IF value[n] \in {"{", "["} THEN 1 ELSE IF value[n] \in {"}", "]"} THEN -1 ELSE 0)
  IN Max({open[n] : n \in 0 .. Len(value)})

IsString(value, cap) == Len(value) = 1 /\ Decodes(value[1], cap)

BlockIsRegular(fields) ==
  /\ \A key \in {"type", "text"} : Once(fields, key)
  /\ Has(fields, "type") => IsString(Of(fields, "type").value, KeyCap["tv"])
  /\ Has(fields, "text") => IsString(Of(fields, "text").value, OutputCap)
  /\ \A i \in DOMAIN fields : Decodes(fields[i].key, KeyCap["ek"])

IsMessage ==
  /\ \A key \in {"content", "stop_reason"} : Has(doc, key) /\ Once(doc, key)
  /\ Of(doc, "content").open = "[" /\ IsString(Of(doc, "stop_reason").value, KeyCap["value"])
  /\ \A i \in DOMAIN doc : /\ Decodes(doc[i].key, KeyCap["kbuf"]) /\ Nesting(MemberTokens(doc[i])) <= MaxDepth
                           /\ \A j \in DOMAIN doc[i].items : BlockIsRegular(doc[i].items[j])

TextBlocks(items) ==
  SelectSeq(items, LAMBDA f : /\ Has(f, "type") /\ Of(f, "type").value = <<"text">>
                              /\ Has(f, "text"))

TextOf(items) == LET blocks == TextBlocks(items)
                 IN [i \in DOMAIN blocks |-> Of(blocks[i], "text").value[1]]

TotalSize(text) == FoldFunction(+, 0, [i \in DOMAIN text |-> Size[text[i]]])

(* An error as the API documents it: one error, an object with one message. *)
IsErrorBody ==
  /\ Has(doc, "error") /\ Once(doc, "error")
  /\ \A i \in DOMAIN doc : /\ Decodes(doc[i].key, KeyCap["ek"])
                           /\ Nesting(MemberTokens(doc[i])) <= MaxDepth
  /\ LET err == Of(doc, "error") IN
     /\ err.open = "{" /\ err.items # <<>>
     /\ \A i \in DOMAIN err.items[1] : Decodes(err.items[1][i].key, KeyCap["kbuf"])
     /\ Once(err.items[1], "message")

(* The output that is recorded for a message is the text of its text       *)
(* blocks, in their order and nothing else (no text of another block, of a *)
(* nested object or of another member), and the state tells whether the    *)
(* oracle stopped at max_tokens: wherever in the body the members are.     *)
(* Only a text over the output's bound is refused.  The message that is    *)
(* logged for an error is the one of the error object, not a member of the *)
(* same name before or after it, though gwj_error_message hands all the    *)
(* rest of the body to gwj_top_string.                                     *)
ResponseIsUnderstood ==
  /\ IsMessage =>
       LET text == TextOf(Of(doc, "content").items)
           stop == Of(doc, "stop_reason").value
       IN \A ts \in {Tokens} : Outcome(ts) =
            IF TotalSize(text) > OutputCap THEN [state |-> "INVALID_OUTPUT", output |-> <<>>]
            ELSE [state |-> IF stop = <<"max_tokens">> THEN "TRUNCATED" ELSE "COMPLETE", output |-> text]
  /\ IsErrorBody =>
       LET fields == Of(doc, "error").items[1] IN
       \A ts \in {Tokens} : gwj_error_message(ts) = {f.value[1] : f \in {g \in Range(fields) : g.key = "message"}}

(* A body that is cut off, between two tokens or inside one, is never      *)
(* taken for an answer, whatever it says and even if all of the content    *)
(* and the stop_reason are there: "cut" is a literal without its end.      *)
CutBodyIsRefused ==
  \A body \in {Tokens} :
    \A n \in 0 .. Len(body) - 1, last \in {<<>>, <<"cut">>} :
      \A ts \in {SubSeq(body, 1, n) \o last} : Outcome(ts).state = "INVALID_OUTPUT"

-----------------------------------------------------------------------------
(* JSON, by a pushdown automaton: what is open, and what must come next.   *)
Top(stack) == stack[Len(stack)]
Close(open) == IF open = "{" THEN "}" ELSE "]"

AfterValue(stack) == [stack |-> stack, want |-> IF stack = <<>> THEN "end" ELSE "comma"]
Bad == [stack |-> <<>>, want |-> "never"]

JsonStep(t, s) ==
  LET value == s.want \in {"value", "first"} /\ (s.stack = <<>> \/ Top(s.stack) = "[" \/ s.want = "value")
      key == s.stack # <<>> /\ Top(s.stack) = "{" /\ s.want \in {"key", "first"}
      closes == s.stack # <<>> /\ s.want \in {"first", "comma"} /\ t = Close(Top(s.stack))
  IN IF closes THEN AfterValue(SubSeq(s.stack, 1, Len(s.stack) - 1))
     ELSE IF key THEN IF t \in StrTok THEN [s EXCEPT !.want = "colon"] ELSE Bad
     ELSE IF value THEN IF t \in {"{", "["} THEN [stack |-> Append(s.stack, t), want |-> "first"]
                        ELSE IF t \in StrTok \cup Scalar THEN AfterValue(s.stack) ELSE Bad
     ELSE IF s.want = "colon" /\ t = ":" THEN [s EXCEPT !.want = "value"]
     ELSE IF s.want = "comma" /\ t = ","
          THEN [s EXCEPT !.want = IF Top(s.stack) = "{" THEN "key" ELSE "value"]
     ELSE Bad

(* Some first part of ts is a JSON value. *)
StartsWithJson(ts) ==
  LET after[n \in 0 .. Len(ts)] ==
        IF n = 0 THEN [stack |-> <<>>, want |-> "value"] ELSE JsonStep(ts[n], after[n - 1])
  IN \E n \in DOMAIN ts : after[n].want = "end"

(* The liberties of gwj_content_text: a comma before a closing brace, two  *)
(* scalars run together, and anything after the object.                    *)
Tidy(ts) ==
  LET free(i) == \/ ts[i] = "," /\ Tok(ts, i + 1) = "}"
                 \/ ts[i] \in Scalar /\ Tok(ts, i + 1) \in Scalar
      kept[n \in 0 .. Len(ts)] ==
        IF n = 0 THEN <<>> ELSE IF free(n) THEN kept[n - 1] ELSE Append(kept[n - 1], ts[n])
  IN kept[Len(ts)]

(* The body with the tokens new before token i, or in its place. *)
Damaged(body, i, new, skip) == SubSeq(body, 1, i - 1) \o new \o SubSeq(body, i + skip, Len(body))

(* A message of whose body a token was lost, changed or added is taken for *)
(* an answer only if it is still JSON up to the end of its object, but for *)
(* the liberties above.                                                    *)
DamageIsRefused ==
  IsMessage =>
    \A body \in {Tokens} :
      \A i \in DOMAIN body, new \in {<<>>} \cup {<<t>> : t \in Noise}, skip \in {0, 1} :
        \A ts \in {Damaged(body, i, new, skip)} :
          Outcome(ts).state # "INVALID_OUTPUT" => StartsWithJson(Tidy(ts))
=============================================================================
