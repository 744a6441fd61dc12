---------------------------- MODULE AxObsProofs ----------------------------
(***************************************************************************)
(* Proofs about ax_obs_admit for every limit, every set of inputs and      *)
(* every sequence of calls.                                                *)
(***************************************************************************)
EXTENDS AxObsProps, AxTextProofs

(* The types that the ordering argument needs. *)
ContextTypes == /\ initialized \in BOOLEAN
                /\ last_ledger_seq \in Nat
                /\ admitted \in Seq(Nat)

(* The record of an input that is admitted. *)
Stored(in) == [Candidate(in) EXCEPT !.obs_hash = Commitment(Candidate(in))]

(* What is known of an input that was just admitted: it passed the checks, *)
(* and the record was made from it.                                        *)
FromInput == OK => /\ input_is_schema_valid(given)
                   /\ NormalisedOutput(given).rc = "AX_OK"
                   /\ Canonicalises(Candidate(given), FALSE, CANONICAL_BUFFER_SIZE)
                   /\ res.rec = Stored(given)

OutputErrors == {"AX_ERR_ENCODING", "AX_ERR_SIZE", "AX_ERR_BUFFER"}

(* What is known of an input that was refused for its size or its output:  *)
(* its number is still free, and it had passed the checks that come first. *)
FromRefused == Returned /\ res.rc \in OutputErrors =>
                 /\ ~OutOfOrder(given)
                 /\ \/ id_too_long(given.model_id, MaxId) \/ id_too_long(given.oracle_id, MaxId)
                    \/ input_is_schema_valid(given)

IInv == /\ ContextTypes /\ AdmittedInOrder
        /\ Returned => IsInput(given)
        /\ FromInput /\ FromRefused

(***************************************************************************)
(* ax_obs_admit returns AX_OK only for an input that is in order and       *)
(* schema-valid, and its record is then made from that input.              *)
(***************************************************************************)
LEMMA AdmitOK ==
  ASSUME NEW in, NEW commit_ok, ax_obs_admit(in, commit_ok).rc = "AX_OK"
  PROVE  /\ ~OutOfOrder(in)
         /\ input_is_schema_valid(in)
         /\ NormalisedOutput(in).rc = "AX_OK"
         /\ Canonicalises(Candidate(in), FALSE, CANONICAL_BUFFER_SIZE)
         /\ ax_obs_admit(in, commit_ok).rec = Stored(in)
<1> DEFINE text == NormalisedOutput(in)
           rec == Candidate(in)
           hashed == ax_obs_compute_hash(rec, commit_ok)
           stored == [rec EXCEPT !.obs_hash = Commitment(rec)]
<1>1. /\ ~OutOfOrder(in) /\ input_is_schema_valid(in)
      /\ text.rc = "AX_OK" /\ hashed = "AX_OK"
      /\ ax_obs_admit(in, commit_ok).rec = stored
  BY Zenon DEF ax_obs_admit, Result
<1>2. Canonicalises(rec, FALSE, CANONICAL_BUFFER_SIZE)
  BY Zenon, <1>1 DEF ax_obs_compute_hash
<1> QED BY Zenon, <1>1, <1>2 DEF Stored

(* An error that is about the output or a size comes after the check of    *)
(* the number, and unless an identifier is too long after the schema's.    *)
LEMMA AdmitRefused ==
  ASSUME NEW in, NEW commit_ok, ax_obs_admit(in, commit_ok).rc \in OutputErrors
  PROVE  /\ ~OutOfOrder(in)
         /\ \/ id_too_long(in.model_id, MaxId) \/ id_too_long(in.oracle_id, MaxId)
            \/ input_is_schema_valid(in)
<1>1. "AX_ERR_ORDERING" \notin OutputErrors /\ "AX_ERR_SCHEMA" \notin OutputErrors
  BY DEF OutputErrors
<1>2. CASE OutOfOrder(in)
  BY Zenon, <1>1, <1>2 DEF ax_obs_admit, Result
<1>3. CASE /\ ~OutOfOrder(in)
           /\ ~(id_too_long(in.model_id, MaxId) \/ id_too_long(in.oracle_id, MaxId))
           /\ ~input_is_schema_valid(in)
  BY Zenon, <1>1, <1>3 DEF ax_obs_admit, Result
<1> QED BY Zenon, <1>2, <1>3

(* A permitted pair stays permitted when an oversize output relabels it,   *)
(* because the schema check refuses an oversize ERROR input.               *)
LEMMA RelabelledPair ==
  ASSUME NEW in, input_is_schema_valid(in)
  PROVE  state_pair_is_permitted(StateOf(in), in.failure_type)
BY DEF input_is_schema_valid, state_pair_is_permitted, StateOf, Oversize

(* A number above the last one extends a strictly increasing sequence. *)
LEMMA AppendInOrder ==
  ASSUME IInv, NEW n \in Nat, ~(initialized /\ n <= last_ledger_seq),
         NEW a, a = Append(admitted, n)
  PROVE  /\ a \in Seq(Nat) /\ a # <<>> /\ a[Len(a)] = n
         /\ \A i, j \in 1 .. Len(a) : i < j => a[i] < a[j]
<1>1. /\ a \in Seq(Nat) /\ Len(a) = Len(admitted) + 1 /\ a[Len(a)] = n
      /\ \A i \in 1 .. Len(admitted) : a[i] = admitted[i]
  BY DEF IInv, ContextTypes
<1>2. \A i \in 1 .. Len(admitted) : admitted[i] < n
  <2> SUFFICES ASSUME NEW i \in 1 .. Len(admitted) PROVE admitted[i] < n
    OBVIOUS
  <2>1. initialized /\ last_ledger_seq = admitted[Len(admitted)]
    BY DEF IInv, ContextTypes, AdmittedInOrder
  <2>2. admitted[i] <= last_ledger_seq
    BY <2>1 DEF IInv, ContextTypes, AdmittedInOrder
  <2> QED BY <2>1, <2>2 DEF IInv, ContextTypes
<1>3. ASSUME NEW i \in 1 .. Len(a), NEW j \in 1 .. Len(a), i < j
      PROVE  a[i] < a[j]
  BY <1>1, <1>2, <1>3 DEF IInv, ContextTypes, AdmittedInOrder
<1> QED BY <1>1, <1>3

(* Nothing is out of order in a new context. *)
LEMMA EmptyInOrder ==
  ASSUME NEW a, a = <<>>
  PROVE  a \in Seq(Nat) /\ \A i, j \in 1 .. Len(a) : i < j => a[i] < a[j]
OBVIOUS

(* A call that returns leaves what is known of its input. *)
LEMMA ReturnKeepsIInv ==
  ASSUME IInv, NEW seq \in Seq0, NEW in \in Inputs(seq), NEW commit_ok \in BOOLEAN,
         Admit(in, commit_ok)
  PROVE  IInv'
<1> DEFINE r == ax_obs_admit(in, commit_ok)
<1>1. in.ledger_seq \in Nat /\ IsInput(in)
  BY ObsLimits, ObsInputs
<1>2. res' = r /\ given' = in /\ (Returned => IsInput(given))'
  <2>1. res' = r /\ given' = in
    BY Zenon DEF Admit
  <2> QED BY <1>1, <2>1 DEF IsInput, IsText
<1>3. CASE r.rc = "AX_OK"
  <2>1. ~(initialized /\ in.ledger_seq <= last_ledger_seq)
    BY Zenon, <1>3, AdmitOK DEF OutOfOrder
  <2>2. /\ initialized' = TRUE /\ last_ledger_seq' = in.ledger_seq
        /\ admitted' = Append(admitted, in.ledger_seq)
    BY Zenon, <1>3 DEF Admit
  <2>3. ContextTypes' /\ AdmittedInOrder'
    BY Zenon, <1>1, <2>1, <2>2, AppendInOrder DEF ContextTypes, AdmittedInOrder
  <2>4. /\ input_is_schema_valid(in) /\ NormalisedOutput(in).rc = "AX_OK"
        /\ Canonicalises(Candidate(in), FALSE, CANONICAL_BUFFER_SIZE) /\ r.rec = Stored(in)
    BY Zenon, <1>3, AdmitOK
  <2>5. FromInput'
    BY Zenon, <1>2, <2>4 DEF FromInput
  <2>6. r.rc \notin OutputErrors
    BY <1>3 DEF OutputErrors
  <2>7. FromRefused'
    BY <1>2, <2>6 DEF FromRefused
  <2> QED BY <1>2, <2>3, <2>5, <2>7 DEF IInv
<1>4. CASE r.rc # "AX_OK"
  <2>1. UNCHANGED <<ctx, admitted>>
    BY Zenon, <1>4 DEF Admit
  <2>2. FromInput'
    BY <1>2, <1>4 DEF FromInput, OK
  <2>3. ContextTypes' /\ AdmittedInOrder'
    BY <2>1 DEF IInv, ContextTypes, AdmittedInOrder, ctx
  <2>4. ASSUME r.rc \in OutputErrors
        PROVE  /\ ~OutOfOrder(in)
               /\ \/ id_too_long(in.model_id, MaxId) \/ id_too_long(in.oracle_id, MaxId)
                  \/ input_is_schema_valid(in)
    BY Zenon, <2>4, AdmitRefused
  <2>5. FromRefused'
    BY <1>2, <2>1, <2>4 DEF FromRefused, OutOfOrder, ctx
  <2> QED BY <1>2, <2>2, <2>3, <2>5 DEF IInv
<1> QED BY <1>3, <1>4

(* Every step keeps the inductive invariant. *)
LEMMA StepKeepsIInv == IInv /\ [Next]_vars => IInv'
<1> SUFFICES ASSUME IInv, [Next]_vars PROVE IInv'
  OBVIOUS
<1>1. ASSUME NEW seq \in Seq0, NEW in \in Inputs(seq), NEW commit_ok \in BOOLEAN,
             Admit(in, commit_ok)
      PROVE  IInv'
  BY Zenon, <1>1, ReturnKeepsIInv
<1>2. CASE Consume
  BY <1>2 DEF Consume, IInv, ContextTypes, AdmittedInOrder, FromInput, FromRefused, OK, Returned, ctx
<1>3. CASE ax_admission_ctx_init
  <2>1. pc' = "idle" /\ ~initialized' /\ initialized' \in BOOLEAN /\ last_ledger_seq' = 0
        /\ admitted' = <<>>
    BY Zenon, <1>3 DEF ax_admission_ctx_init
  <2> QED BY <2>1, EmptyInOrder
             DEF IInv, ContextTypes, AdmittedInOrder, FromInput, FromRefused, OK, Returned
<1>4. CASE UNCHANGED vars
  <2>1. ContextTypes' /\ AdmittedInOrder'
    BY <1>4 DEF vars, ctx, IInv, ContextTypes, AdmittedInOrder
  <2>2. FromInput' /\ FromRefused' /\ (Returned => IsInput(given))'
    BY Zenon, <1>4 DEF vars, ctx, IInv, FromInput, FromRefused, OK, Returned, OutOfOrder
  <2> QED BY <2>1, <2>2 DEF IInv
<1> QED BY <1>1, <1>2, <1>3, <1>4 DEF Next

(* The invariant holds of a new context and of every state after it. *)
LEMMA AdmissionInvariant == Spec => []IInv
<1>1. Init => IInv
  <2> SUFFICES ASSUME Init PROVE IInv
    OBVIOUS
  <2>1. ContextTypes /\ AdmittedInOrder
    BY Zenon, EmptyInOrder DEF Init, ContextTypes, AdmittedInOrder
  <2>2. FromInput /\ FromRefused /\ ~Returned
    BY DEF Init, FromInput, FromRefused, OK, Returned
  <2> QED BY <2>1, <2>2 DEF IInv
<1> QED BY <1>1, StepKeepsIInv, PTL DEF Spec

(***************************************************************************)
(* The ordering guard of ax_obs_admit: whatever is refused in between, the *)
(* numbers admitted in one context strictly increase, and the context's    *)
(* last_ledger_seq is the last of them.                                    *)
(***************************************************************************)
THEOREM OrderingGuardHolds == Spec => []AdmittedInOrder
<1>1. IInv => AdmittedInOrder
  BY DEF IInv
<1> QED BY <1>1, AdmissionInvariant, PTL

(***************************************************************************)
(* No record is admitted with a pair of state and failure type outside the *)
(* list of state_pair_is_permitted, for any limit on the output.           *)
(***************************************************************************)
THEOREM PairsHold == Spec => []AdmittedPairPermitted
<1>1. ASSUME IInv PROVE AdmittedPairPermitted
  <2> SUFFICES ASSUME OK
               PROVE  state_pair_is_permitted(res.rec.completion_state, res.rec.failure_type)
    BY DEF AdmittedPairPermitted
  <2>1. res.rec = Stored(given) /\ input_is_schema_valid(given)
    BY Zenon, <1>1 DEF IInv, FromInput
  <2>2. Stored(given).completion_state = StateOf(given) /\ Stored(given).failure_type = given.failure_type
    BY DEF Stored, Candidate
  <2> QED BY Zenon, <2>1, <2>2, RelabelledPair
<1> QED BY <1>1, AdmissionInvariant, PTL

-----------------------------------------------------------------------------
(* A text without a NUL is a C string as it stands. *)
LEMMA WholeCString ==
  ASSUME NEW t \in Seq(Byte), \A i \in 1 .. Len(t) : t[i] # 0
  PROVE  CString(t) = t
<1>1. {i \in DOMAIN t : t[i] = 0} = {}
  OBVIOUS
<1> QED BY <1>1 DEF CString

(* What ax_obs_admit normalises: the output, up to the limit. *)
CutOutput(in) == SubSeq(in.output, 1, IF Oversize(in) THEN MaxOutput ELSE in.output_len)

(* The output of a record that is admitted. *)
LEMMA OutputText ==
  ASSUME NEW in, IsInput(in), input_is_schema_valid(in),
         NormalisedOutput(in).rc = "AX_OK", NEW t, t = NormalisedOutput(in).text
  PROVE  /\ t \in Seq(Byte) /\ CString(t) = t
         /\ Oversize(in) => in.output # NULL /\ Len(t) <= MaxOutput
         /\ ax_validate_encoding(t) = "AX_OK" \/ (t = <<>> /\ ~Oversize(in))
<1>1. CASE in.output = NULL \/ in.output_len = 0
  <2>1. t = <<>>
    BY <1>1 DEF NormalisedOutput, Text
  <2>2. in.output_len = 0
    BY Zenon, <1>1 DEF input_is_schema_valid
  <2>3. ~Oversize(in)
    BY <2>2, ObsLimits DEF Oversize
  <2>4. CString(t) = t
    <3>1. t \in Seq(Byte) /\ \A i \in 1 .. Len(t) : t[i] # 0
      BY <2>1
    <3> QED BY Zenon, <3>1, WholeCString
  <2> QED BY <2>1, <2>3, <2>4
<1>2. CASE ~(in.output = NULL \/ in.output_len = 0)
  <2> DEFINE s == CutOutput(in)
  <2>1. in.output \in Seq(Byte) /\ in.output_len = Len(in.output)
    BY Zenon, <1>2 DEF IsInput, IsText
  <2>2. /\ s \in Seq(Byte) /\ (Oversize(in) => Len(s) = MaxOutput)
    BY <2>1, ObsLimits DEF CutOutput, Oversize
  <2>3. NormalisedOutput(in) = ax_validate_and_normalise(s, in.output_buf_size)
    BY Zenon, <1>2 DEF NormalisedOutput, CutOutput
  <2> HIDE DEF s
  <2>4. /\ t \in Seq(Byte) /\ Len(t) <= Len(s) /\ ax_validate_utf8(t) /\ ax_is_nfc(t)
        /\ \A i \in 1 .. Len(t) : t[i] # 0
    BY Zenon, <2>2, <2>3, AdmittedText
  <2>5. CString(t) = t
    BY Zenon, <2>4, WholeCString
  <2>6. ax_validate_encoding(t) = "AX_OK"
    BY Zenon, <2>4 DEF ax_validate_encoding
  <2> QED BY <1>2, <2>2, <2>4, <2>5, <2>6
<1> QED BY <1>1, <1>2

(* The sizes of a record do not depend on obs_hash, nor does what it       *)
(* commits to.                                                             *)
LEMMA StoredFields ==
  ASSUME NEW in
  PROVE  /\ Stored(in).completion_state = StateOf(in)
         /\ Stored(in).output = NormalisedOutput(in).text
         /\ Stored(in).output_size = OutputSize(in)
         /\ Stored(in).obs_hash = Commitment(Candidate(in))
         /\ Commitment(Stored(in)) = Commitment(Candidate(in))
         /\ RecordSize(Stored(in), FALSE) = RecordSize(Candidate(in), FALSE)
<1> DEFINE c == Candidate(in)
           d == Stored(in)
<1>1. /\ d.completion_state = c.completion_state /\ d.failure_type = c.failure_type
      /\ d.input_hash = c.input_hash /\ d.ledger_seq = c.ledger_seq
      /\ d.model_id = c.model_id /\ d.oracle_id = c.oracle_id
      /\ d.output = c.output /\ d.output_size = c.output_size
      /\ d.obs_hash = Commitment(Candidate(in))
  BY DEF Stored, Candidate
<1>2. /\ c.completion_state = StateOf(in) /\ c.output = NormalisedOutput(in).text
      /\ c.output_size = OutputSize(in)
  BY DEF Candidate
<1> HIDE DEF c, d
<1>3. Commitment(d) = Commitment(c)
  BY Zenon, <1>1 DEF Commitment
<1>4. RecordSize(d, FALSE) = RecordSize(c, FALSE)
  BY Zenon, <1>1 DEF RecordSize
<1> QED BY Zenon, <1>1, <1>2, <1>3, <1>4 DEF c, d

(* The output_size of a record that is admitted is the size of its output, *)
(* or for a TRUNCATED one no less.                                         *)
LEMMA SizeOfOutput ==
  ASSUME NEW in, NEW t \in Seq(Byte), t = NormalisedOutput(in).text, in.output_len \in Nat,
         Oversize(in) => Len(t) <= MaxOutput
  PROVE  /\ ~Oversize(in) => OutputSize(in) = Len(t)
         /\ Oversize(in) => /\ StateOf(in) = "TRUNCATED"
                            /\ OutputSize(in) = in.output_len /\ OutputSize(in) > Len(t)
<1>1. CASE ~Oversize(in)
  BY Zenon, <1>1 DEF OutputSize
<1>2. CASE Oversize(in)
  <2>1. StateOf(in) = "TRUNCATED" /\ OutputSize(in) = in.output_len
    BY Zenon, <1>2 DEF OutputSize, StateOf
  <2>2. Len(t) \in Nat /\ in.output_len > MaxOutput /\ MaxOutput \in Nat
    BY <1>2, ObsLimits DEF Oversize
  <2>3. in.output_len > Len(t)
    BY <1>2, <2>2
  <2> QED BY Zenon, <1>2, <2>1, <2>3
<1> QED BY Zenon, <1>1, <1>2

(***************************************************************************)
(* ax_obs_validate accepts every record that ax_obs_admit returns with     *)
(* AX_OK, whatever the limits, so that commit_observation never refuses a  *)
(* record after the context has been advanced for it.                      *)
(***************************************************************************)
THEOREM AdmittedAlwaysValidates == Spec => []AdmittedValidates
<1>1. ASSUME IInv PROVE AdmittedValidates
  <2> SUFFICES ASSUME OK PROVE ax_obs_validate(res.rec) = "AX_OK"
    BY DEF AdmittedValidates
  <2> DEFINE rec == Stored(given)
             t == NormalisedOutput(given).text
  <2>1. /\ IsInput(given) /\ input_is_schema_valid(given) /\ NormalisedOutput(given).rc = "AX_OK"
        /\ Canonicalises(Candidate(given), FALSE, CANONICAL_BUFFER_SIZE) /\ res.rec = rec
    BY Zenon, <1>1 DEF IInv, FromInput, OK
  <2>2. /\ t \in Seq(Byte) /\ CString(t) = t
        /\ Oversize(given) => Len(t) <= MaxOutput
        /\ ax_validate_encoding(t) = "AX_OK" \/ (t = <<>> /\ ~Oversize(given))
    BY Zenon, <2>1, OutputText
  <2>3. /\ rec.completion_state = StateOf(given) /\ rec.output = t
        /\ rec.output_size = OutputSize(given) /\ rec.obs_hash = Commitment(rec)
        /\ Canonicalises(rec, FALSE, CANONICAL_BUFFER_SIZE)
    BY Zenon, <2>1, StoredFields DEF Canonicalises
  <2>4. /\ ~Oversize(given) => OutputSize(given) = Len(t)
        /\ Oversize(given) => /\ StateOf(given) = "TRUNCATED"
                              /\ OutputSize(given) \in Nat /\ OutputSize(given) > Len(t)
    <3>1. given.output_len \in Nat
      BY Zenon, <2>1 DEF IsInput
    <3> QED BY Zenon, <2>2, <3>1, SizeOfOutput
  <2> HIDE DEF rec, t
  <2>5. ~(rec.output_size > 0 /\ ax_validate_encoding(CString(rec.output)) # "AX_OK")
    <3>1. CASE t = <<>> /\ ~Oversize(given)
      <4>1. ~(Len(t) > 0)
        BY <3>1
      <4> QED BY Zenon, <2>3, <2>4, <3>1, <4>1
    <3>2. CASE ax_validate_encoding(t) = "AX_OK"
      BY Zenon, <2>2, <2>3, <3>2
    <3> QED BY <2>2, <3>1, <3>2
  <2>6. ~IF rec.completion_state = "TRUNCATED"
         THEN rec.output_size < Len(CString(rec.output))
         ELSE rec.output_size # Len(CString(rec.output))
    <3>1. Len(t) \in Nat
      BY <2>2
    <3>2. CASE Oversize(given)
      <4>1. ~(OutputSize(given) < Len(t))
        BY <2>4, <3>1, <3>2
      <4> QED BY Zenon, <2>2, <2>3, <2>4, <3>2, <4>1
    <3>3. CASE ~Oversize(given)
      <4>1. ~(Len(t) < Len(t))
        BY <3>1
      <4> QED BY Zenon, <2>2, <2>3, <2>4, <3>3, <4>1
    <3> QED BY <3>2, <3>3
  <2> QED BY Zenon, <2>1, <2>3, <2>5, <2>6 DEF ax_obs_validate
<1> QED BY <1>1, AdmissionInvariant, PTL

-----------------------------------------------------------------------------
(* An output that is not over the limit is normalised whole. *)
LEMMA WholeOutput ==
  ASSUME NEW in, IsInput(in), input_is_schema_valid(in), ~Oversize(in),
         NormalisedOutput(in).rc = "AX_OK", in.output # NULL
  PROVE  NormalisedOutput(in).text = LineFeedsFrom(in.output)[1]
<1>1. in.output \in Seq(Byte) /\ in.output_len = Len(in.output)
  BY Zenon DEF IsInput, IsText
<1>2. CASE in.output_len = 0
  <2>1. in.output = <<>>
    BY Zenon, <1>1, <1>2, EmptySeq
  <2>2. NormalisedOutput(in).text = <<>>
    BY <1>2 DEF NormalisedOutput, Text
  <2>3. LineFeedsFrom(in.output)[Len(in.output) + 1] = <<>>
    BY Zenon, <1>1, LineFeedsEnd
  <2>4. Len(in.output) + 1 = 1
    BY <2>1
  <2> QED BY Zenon, <2>2, <2>3, <2>4
<1>3. CASE in.output_len # 0
  <2>1. SubSeq(in.output, 1, in.output_len) = in.output
    BY <1>1
  <2>2. NormalisedOutput(in) = ax_validate_and_normalise(in.output, in.output_buf_size)
    BY Zenon, <1>3, <2>1 DEF NormalisedOutput
  <2> QED BY Zenon, <2>2, Normalises
<1> QED BY <1>2, <1>3

(* What was delivered, with its line endings normalised. *)
LEMMA DeliveredText ==
  ASSUME IsInput(given), given.output # NULL
  PROVE  Delivered = LineFeedsFrom(given.output)[1]
<1> DEFINE f == LineFeedsFrom(given.output)[1]
<1>1. given.output \in Seq(Byte)
  BY Zenon DEF IsInput, IsText
<1>2. 1 \in 1 .. Len(given.output) + 1 /\ Len(given.output) \in Nat
  BY <1>1
<1>3. f \in Seq(Byte) /\ Len(f) <= Len(given.output) + 1 - 1
  BY Zenon, <1>1, <1>2, LineFeedsShape
<1>4. Len(f) < Len(given.output) + 1
  BY <1>2, <1>3
<1>5. ax_normalise_line_endings(given.output, Len(given.output) + 1) = Text(f)
  BY Zenon, <1>4 DEF ax_normalise_line_endings
<1>6. Text(f).text = f
  BY DEF Text
<1> QED BY Zenon, <1>5, <1>6 DEF Delivered

(***************************************************************************)
(* Whatever the limit on the output and wherever it cuts, a record whose   *)
(* output is not all of what the oracle delivered is TRUNCATED and states  *)
(* the delivered length (SRS-004-SHALL-040).                               *)
(***************************************************************************)
THEOREM ShortenedIsAlwaysMarked == Spec => []ShortenedIsMarked
<1>1. ASSUME IInv PROVE ShortenedIsMarked
  <2> SUFFICES ASSUME OK, res.rec.output # Delivered
               PROVE  /\ res.rec.completion_state = "TRUNCATED"
                      /\ res.rec.output_size = given.output_len
                      /\ res.rec.output_size > Len(res.rec.output)
    BY DEF ShortenedIsMarked
  <2> DEFINE t == NormalisedOutput(given).text
  <2>1. /\ IsInput(given) /\ input_is_schema_valid(given) /\ NormalisedOutput(given).rc = "AX_OK"
        /\ res.rec = Stored(given)
    BY Zenon, <1>1 DEF IInv, FromInput, OK
  <2>2. /\ res.rec.completion_state = StateOf(given) /\ res.rec.output = t
        /\ res.rec.output_size = OutputSize(given)
    BY Zenon, <2>1, StoredFields
  <2>3. Oversize(given)
    <3>1. ASSUME ~Oversize(given) PROVE FALSE
      <4>1. CASE given.output = NULL
        <5>1. t = <<>> /\ Delivered = <<>>
          BY <4>1 DEF NormalisedOutput, Text, Delivered
        <5> QED BY Zenon, <2>2, <5>1
      <4>2. CASE given.output # NULL
        BY Zenon, <2>1, <2>2, <3>1, <4>2, WholeOutput, DeliveredText
      <4> QED BY <4>1, <4>2
    <3> QED BY <3>1
  <2>4. t \in Seq(Byte) /\ Len(t) <= MaxOutput
    BY Zenon, <2>1, <2>3, OutputText
  <2>5. StateOf(given) = "TRUNCATED" /\ OutputSize(given) = given.output_len /\ OutputSize(given) > Len(t)
    <3>1. given.output_len \in Nat
      BY Zenon, <2>1 DEF IsInput
    <3> QED BY Zenon, <2>3, <2>4, <3>1, SizeOfOutput
  <2> QED BY Zenon, <2>2, <2>5
<1> QED BY <1>1, AdmissionInvariant, PTL

-----------------------------------------------------------------------------
(* An identifier that ax_obs_identifier_check accepts, escaped. *)
LEMMA CheckedIdentifier ==
  ASSUME NEW s, IsText(s), ax_obs_identifier_check(s, MaxId) = "AX_OK"
  PROVE  /\ ~id_too_long(s, MaxId) /\ id_is_well_formed(s)
         /\ Len(write_escaped(s)) \in Nat /\ Len(write_escaped(s)) <= 2 * MaxId
<1>1. ~id_too_long(s, MaxId) /\ id_is_well_formed(s)
  BY Zenon DEF ax_obs_identifier_check
<1>2. /\ s # NULL /\ s \in Seq(Byte) /\ ~(Len(s) > MaxId)
      /\ \A i \in DOMAIN s : s[i] >= 32
  BY Zenon, <1>1 DEF IsText, id_too_long, id_is_well_formed, IdBytesAreWellFormed
<1>3. DOMAIN s = 1 .. Len(s) /\ Len(s) \in Nat
  BY <1>2
<1>4. Len(write_escaped(s)) \in Nat /\ Len(write_escaped(s)) <= 2 * Len(s)
  BY Zenon, <1>2, <1>3, EscapedIdentifier
<1>5. 2 * Len(s) <= 2 * MaxId
  BY <1>2, <1>3, ObsLimits
<1> HIDE DEF write_escaped
<1>6. Len(write_escaped(s)) <= 2 * MaxId
  BY <1>3, <1>4, <1>5, ObsLimits
<1> QED BY <1>1, <1>4, <1>6

(* The record without an output fits, hash and all. *)
LEMMA EmptyRecordFits ==
  ASSUME NEW rec, NEW h \in BOOLEAN,
         Len(write_escaped(rec.model_id)) \in Nat, Len(write_escaped(rec.model_id)) <= 2 * MaxId,
         Len(write_escaped(rec.oracle_id)) \in Nat, Len(write_escaped(rec.oracle_id)) <= 2 * MaxId,
         rec.output = <<>>
  PROVE  RecordSize(rec, h) \in Nat /\ RecordSize(rec, h) <= MaxObs
<1>1. CString(rec.output) = <<>>
  <2>1. <<>> \in Seq(Byte) /\ \A i \in 1 .. Len(<<>>) : <<>>[i] # 0
    OBVIOUS
  <2> QED BY Zenon, <2>1, WholeCString
<1>2. Len(write_escaped(CString(rec.output))) = 0
  <2>1. Len(<<>>) = 0
    OBVIOUS
  <2> QED BY Zenon, <1>1, <2>1, EscapedNothing
<1>3. PICK m \in Nat : m = Len(write_escaped(rec.model_id)) /\ m <= 2 * MaxId
  BY Zenon
<1>4. PICK o \in Nat : o = Len(write_escaped(rec.oracle_id)) /\ o <= 2 * MaxId
  BY Zenon
<1>5. PICK x \in Nat : x = (IF h /\ rec.obs_hash # NULL THEN HashHex ELSE 0) /\ x <= HashHex
  BY ObsLimits
<1>6. RecordSize(rec, h) = FixedBytes + x + m + o + 0
  BY Zenon, <1>2, <1>3, <1>4, <1>5 DEF RecordSize
<1>7. FixedBytes + x + m + o + 0 \in Nat /\ FixedBytes + x + m + o + 0 <= MaxObs
  BY <1>3, <1>4, <1>5, ObsLimits
<1> QED BY Zenon, <1>6, <1>7

(* Every check of ax_obs_admit passed: it returns AX_OK. *)
LEMMA AdmitPasses ==
  ASSUME NEW in, ~OutOfOrder(in),
         ~id_too_long(in.model_id, MaxId), ~id_too_long(in.oracle_id, MaxId),
         input_is_schema_valid(in), NormalisedOutput(in).rc = "AX_OK",
         Canonicalises(Candidate(in), FALSE, CANONICAL_BUFFER_SIZE),
         Canonicalises(Stored(in), TRUE, MaxObs + 1)
  PROVE  ax_obs_admit(in, TRUE).rc = "AX_OK"
<1>1. ax_obs_compute_hash(Candidate(in), TRUE) = "AX_OK"
  BY Zenon DEF ax_obs_compute_hash
<1>2. ax_obs_admit(in, TRUE) = Result("AX_OK", SizeFlag(in), Stored(in))
  BY Zenon, <1>1 DEF ax_obs_admit, Stored
<1>3. Result("AX_OK", SizeFlag(in), Stored(in)).rc = "AX_OK"
  BY DEF Result
<1> QED BY Zenon, <1>2, <1>3

(***************************************************************************)
(* Whatever the limits, whenever ax_obs_admit refuses an output for its    *)
(* encoding or its size, it admits the INVALID_OUTPUT record that          *)
(* handle_request tries next: a paid call always gets its record.          *)
(***************************************************************************)
THEOREM FallbackAlwaysAdmitted == Spec => []FallbackIsAdmitted
<1>1. ASSUME IInv PROVE FallbackIsAdmitted
  <2> DEFINE f == Fallback(given)
  <2> SUFFICES ASSUME Returned, res.rc \in OutputErrors,
                      ax_obs_identifier_check(given.model_id, MaxId) = "AX_OK",
                      ax_obs_identifier_check(given.oracle_id, MaxId) = "AX_OK"
               PROVE  ax_obs_admit(f, TRUE).rc = "AX_OK"
    BY Zenon DEF FallbackIsAdmitted, OutputErrors
  <2>1. IsText(given.model_id) /\ IsText(given.oracle_id) /\ FromRefused
    BY Zenon, <1>1 DEF IInv, IsInput
  <2>2. /\ ~id_too_long(given.model_id, MaxId) /\ id_is_well_formed(given.model_id)
        /\ Len(write_escaped(given.model_id)) \in Nat
        /\ Len(write_escaped(given.model_id)) <= 2 * MaxId
        /\ ~id_too_long(given.oracle_id, MaxId) /\ id_is_well_formed(given.oracle_id)
        /\ Len(write_escaped(given.oracle_id)) \in Nat
        /\ Len(write_escaped(given.oracle_id)) <= 2 * MaxId
    BY Zenon, <2>1, CheckedIdentifier
  <2>3. ~OutOfOrder(given) /\ input_is_schema_valid(given)
    BY Zenon, <2>1, <2>2 DEF FromRefused
  <2>4. /\ f.completion_state = "ERROR" /\ f.failure_type = "INVALID_OUTPUT"
        /\ f.ledger_seq = given.ledger_seq /\ f.output_len = 0 /\ f.input = given.input
        /\ f.model_id = given.model_id /\ f.oracle_id = given.oracle_id
    BY DEF Fallback, ax_obs_input_set_invalid_output, ObsInput
  <2> HIDE DEF f
  <2>5. ~OutOfOrder(f)
    BY Zenon, <2>3, <2>4 DEF OutOfOrder
  <2>6. input_is_schema_valid(f)
    <3>1. ~(f.output_len > MaxOutput)
      BY <2>4, ObsLimits
    <3>2. state_pair_is_permitted(f.completion_state, f.failure_type)
      BY <2>4 DEF state_pair_is_permitted, FailureType
    <3>3. f.input # "missing"
      BY Zenon, <2>3, <2>4 DEF input_is_schema_valid
    <3> QED BY Zenon, <2>2, <2>4, <3>1, <3>2, <3>3 DEF input_is_schema_valid
  <2>7. NormalisedOutput(f).rc = "AX_OK" /\ NormalisedOutput(f).text = <<>>
    BY <2>4 DEF NormalisedOutput, Text
  <2>8. /\ Candidate(f).output = <<>> /\ Candidate(f).model_id = given.model_id
        /\ Candidate(f).oracle_id = given.oracle_id
    BY <2>4, <2>7 DEF Candidate
  <2>9. /\ Stored(f).output = <<>> /\ Stored(f).model_id = given.model_id
        /\ Stored(f).oracle_id = given.oracle_id
    BY <2>4, <2>7 DEF Candidate, Stored
  <2>10. RecordSize(Candidate(f), FALSE) \in Nat /\ RecordSize(Candidate(f), FALSE) <= MaxObs
    BY Zenon, <2>2, <2>8, EmptyRecordFits
  <2>11. RecordSize(Stored(f), TRUE) \in Nat /\ RecordSize(Stored(f), TRUE) <= MaxObs
    BY Zenon, <2>2, <2>9, EmptyRecordFits
  <2>12. \A n \in Nat : n <= MaxObs => n < MaxObs * 2 /\ n < MaxObs + 1
    BY ObsLimits
  <2>13. Canonicalises(Candidate(f), FALSE, CANONICAL_BUFFER_SIZE)
    BY Zenon, <2>10, <2>12 DEF Canonicalises, CANONICAL_BUFFER_SIZE
  <2>14. Canonicalises(Stored(f), TRUE, MaxObs + 1)
    BY Zenon, <2>11, <2>12 DEF Canonicalises
  <2> QED BY Zenon, <2>2, <2>4, <2>5, <2>6, <2>7, <2>13, <2>14, AdmitPasses
<1> QED BY <1>1, AdmissionInvariant, PTL
=============================================================================
