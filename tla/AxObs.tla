------------------------------- MODULE AxObs -------------------------------
(***************************************************************************)
(* src/obs.c, src/admission.c, src/hash.c and the sizes of                 *)
(* src/canonical.c: admission of an oracle's output as an AX:OBS:v1        *)
(* record, and the validation of that record.                              *)
(*                                                                         *)
(* Sizes are scaled down: the constants stand for the limits of limits.h.  *)
(* A commitment is represented by what is committed (SHA-256 is taken to   *)
(* be injective), and the sampling parameters, which admission only        *)
(* copies, are left out.                                                   *)
(***************************************************************************)
EXTENDS GwJson

CONSTANTS MaxObs,         \* AX_MAX_OBS_BYTES
          MaxOutput,      \* AX_MAX_OUTPUT_BYTES
          MaxId,          \* AX_MAX_MODEL_ID_BYTES, AX_MAX_ORACLE_ID_BYTES
          OutputBuf,      \* the gateway's output_buf_size
          FixedBytes,     \* bytes of a record outside its strings and hash
          HashHex,        \* bytes of a hash in hex
          NULL,           \* the null pointer, and the empty obs_hash
          Seq0,           \* sequence numbers that callers use
          Inputs(_)       \* admission inputs that carry a sequence number

(* A pointer to bytes, or the null pointer. *)
IsText(s) == s = NULL \/ s \in Seq(Byte)

(* An identifier has no control characters, so it at most doubles.         *)
ASSUME ObsLimits ==
  /\ MaxObs \in Nat /\ MaxOutput \in Nat /\ MaxId \in Nat /\ OutputBuf \in Nat
  /\ FixedBytes \in Nat /\ HashHex \in Nat
  /\ MaxOutput < MaxObs
  /\ FixedBytes + HashHex + 4 * MaxId <= MaxObs
  /\ Seq0 \subseteq Nat

(* Identifiers and output are bytes, and output_len is the output's length. *)
IsInput(in) ==
  /\ IsText(in.model_id) /\ IsText(in.oracle_id) /\ IsText(in.output)
  /\ in.output_len \in Nat /\ (in.output # NULL => in.output_len = Len(in.output))

ASSUME ObsInputs == \A seq \in Seq0 : \A in \in Inputs(seq) : IsInput(in) /\ in.ledger_seq = seq

CompletionState == {"COMPLETE", "TRUNCATED", "ERROR"}
FailureType == {"NULL", "TIMEOUT", "INVALID_OUTPUT", "TRANSPORT_ERROR"}

VARIABLES initialized, last_ledger_seq,   \* ax_admission_ctx_t
          pc,         \* "idle", or "returned" while the caller has a result
          given,      \* the input of the call that returned
          res,        \* its return code, fault flags and record
          admitted    \* ghost: numbers admitted since the context was new

ctx == <<initialized, last_ledger_seq>>
vars == <<ctx, pc, given, res, admitted>>

-----------------------------------------------------------------------------
(* The inputs.  in.input is what there is to hash: "bytes", "empty", or    *)
(* "missing" for a null pointer with a length.  in.output is NULL or the   *)
(* bytes, and in.output_len their number.  output_buf_size is an argument  *)
(* of ax_obs_admit that goes with the input.                               *)
ObsInput(state, ftype, seq, oracle, model, input, output) ==
  [completion_state |-> state, failure_type |-> ftype, ledger_seq |-> seq,
   oracle_id |-> oracle, model_id |-> model, input |-> input, output |-> output,
   output_len |-> IF output = NULL THEN 0 ELSE Len(output), output_buf_size |-> OutputBuf]

ax_obs_input_set_complete(seq, oracle, model, input, output) ==
  ObsInput("COMPLETE", "NULL", seq, oracle, model, input, output)

ax_obs_input_set_timeout(seq, oracle, model, input) ==
  ObsInput("ERROR", "TIMEOUT", seq, oracle, model, input, NULL)

ax_obs_input_set_transport_error(seq, oracle, model, input) ==
  ObsInput("ERROR", "TRANSPORT_ERROR", seq, oracle, model, input, NULL)

ax_obs_input_set_invalid_output(seq, oracle, model, input, output) ==
  ObsInput("ERROR", "INVALID_OUTPUT", seq, oracle, model, input, output)

-----------------------------------------------------------------------------
id_too_long(s, max) == s # NULL /\ Len(s) > max

id_is_well_formed(s) == s # NULL /\ IdBytesAreWellFormed(s)

ax_obs_identifier_check(s, max) ==
  IF id_too_long(s, max) THEN "AX_ERR_SIZE"
  ELSE IF ~id_is_well_formed(s) THEN "AX_ERR_SCHEMA" ELSE "AX_OK"

state_pair_is_permitted(state, ftype) ==
  \/ state \in {"COMPLETE", "TRUNCATED"} /\ ftype = "NULL"
  \/ state = "ERROR" /\ ftype \in FailureType \ {"NULL"}

(* Mutant: an oversize output is not refused for an ERROR input. *)
input_is_schema_valid_any_error(in) ==
  /\ id_is_well_formed(in.model_id) /\ id_is_well_formed(in.oracle_id)
  /\ state_pair_is_permitted(in.completion_state, in.failure_type)
  /\ in.input # "missing"
  /\ in.output = NULL => in.output_len = 0

input_is_schema_valid(in) ==
  /\ id_is_well_formed(in.model_id) /\ id_is_well_formed(in.oracle_id)
  /\ state_pair_is_permitted(in.completion_state, in.failure_type)
  /\ ~(in.completion_state = "ERROR" /\ in.output_len > MaxOutput)
  /\ in.input # "missing"
  /\ in.output = NULL => in.output_len = 0

-----------------------------------------------------------------------------
(* A C string ends at its first NUL. *)
CString(s) ==
  LET nul == {i \in DOMAIN s : s[i] = 0}
  IN IF nul = {} THEN s ELSE SubSeq(s, 1, (CHOOSE i \in nul : \A j \in nul : i <= j) - 1)

(* The bytes of a record in canonical form. *)
RecordSize(rec, include_hash) ==
  FixedBytes + (IF include_hash /\ rec.obs_hash # NULL THEN HashHex ELSE 0)
    + Len(write_escaped(rec.model_id)) + Len(write_escaped(rec.oracle_id))
    + Len(write_escaped(CString(rec.output)))

(* ax_obs_canonicalise into a buffer: a byte is kept for the NUL. *)
Canonicalises(rec, include_hash, size) == RecordSize(rec, include_hash) < size

CANONICAL_BUFFER_SIZE == MaxObs * 2

(* What the commitment of a record covers: all of it but obs_hash. *)
Commitment(rec) ==
  <<rec.completion_state, rec.failure_type, rec.input_hash, rec.ledger_seq, rec.model_id,
    rec.oracle_id, write_escaped(CString(rec.output)), rec.output_size>>

ax_obs_init ==
  [completion_state |-> "COMPLETE", failure_type |-> "NULL", input_hash |-> "zero",
   ledger_seq |-> 0, model_id |-> NULL, oracle_id |-> NULL, output |-> NULL,
   output_size |-> 0, obs_hash |-> NULL]

Marked(rec) == [rec EXCEPT !.completion_state = "ERROR", !.failure_type = "INVALID_OUTPUT",
                           !.obs_hash = NULL]

Oversize(in) == in.output_len > MaxOutput

(* Output, cut to the limit, validated and normalised. *)
NormalisedOutput(in) ==
  IF in.output = NULL \/ in.output_len = 0
  THEN Text(<<>>)
  ELSE ax_validate_and_normalise(
         SubSeq(in.output, 1, IF Oversize(in) THEN MaxOutput ELSE in.output_len),
         in.output_buf_size)

(* Mutant: the state is copied from the input in every case. *)
StateOf_input(in) == in.completion_state

StateOf(in) == IF Oversize(in) THEN "TRUNCATED" ELSE in.completion_state

(* Mutant: the size is the one before normalisation. *)
OutputSize_given(in) == in.output_len

OutputSize(in) == IF Oversize(in) THEN in.output_len ELSE Len(NormalisedOutput(in).text)

(* The record of an input that passes every check, before it is hashed. *)
Candidate(in) ==
  [completion_state |-> StateOf(in), failure_type |-> in.failure_type,
   input_hash |-> IF in.input = "bytes" THEN "sha256" ELSE "zero",
   ledger_seq |-> in.ledger_seq, model_id |-> in.model_id, oracle_id |-> in.oracle_id,
   output |-> NormalisedOutput(in).text, output_size |-> OutputSize(in), obs_hash |-> NULL]

ax_obs_compute_hash(rec, commit_ok) ==
  IF ~Canonicalises(rec, FALSE, CANONICAL_BUFFER_SIZE) THEN "AX_ERR_BUFFER"
  ELSE IF ~commit_ok THEN "AX_ERR_HASH" ELSE "AX_OK"

(* Mutant: a number may be used twice. *)
OutOfOrder_repeats(in) == initialized /\ in.ledger_seq < last_ledger_seq

OutOfOrder(in) == initialized /\ in.ledger_seq <= last_ledger_seq

SizeFlag(in) == IF Oversize(in) THEN {"size"} ELSE {}
Result(rc, faults, rec) == [rc |-> rc, faults |-> faults, rec |-> rec]

(***************************************************************************)
(* ax_obs_admit, but for the update of the context.  commit_ok is FALSE    *)
(* when the substrate's axilog_commit raises a fault.                      *)
(***************************************************************************)
ax_obs_admit(in, commit_ok) ==
  LET text == NormalisedOutput(in)
      rec == Candidate(in)
      hashed == ax_obs_compute_hash(rec, commit_ok)
      stored == [rec EXCEPT !.obs_hash = Commitment(rec)]
      refuse(rc, flag) == Result(rc, flag, Marked(ax_obs_init))
  IN IF OutOfOrder(in) THEN refuse("AX_ERR_ORDERING", {"ordering"})
     ELSE IF id_too_long(in.model_id, MaxId) \/ id_too_long(in.oracle_id, MaxId)
     THEN refuse("AX_ERR_SIZE", {"size"})
     ELSE IF ~input_is_schema_valid(in) THEN refuse("AX_ERR_SCHEMA", {"schema"})
     ELSE IF text.rc # "AX_OK"
     THEN Result(text.rc,
                 SizeFlag(in) \cup {IF text.rc = "AX_ERR_BUFFER" THEN "size" ELSE "encoding"},
                 [Marked(ax_obs_init) EXCEPT !.output_size = IF Oversize(in) THEN in.output_len ELSE 0])
     ELSE IF hashed # "AX_OK" THEN Result(hashed, SizeFlag(in) \cup {"protocol"}, rec)
     ELSE IF ~Canonicalises(stored, TRUE, MaxObs + 1)
     THEN Result("AX_ERR_SIZE", {"size"}, Marked(stored))
     ELSE Result("AX_OK", SizeFlag(in), stored)

(* ax_obs_validate, which commit_observation calls on what was admitted. *)
ax_obs_validate(rec) ==
  LET actual_len == Len(CString(rec.output)) IN
  IF rec.output_size > 0 /\ ax_validate_encoding(CString(rec.output)) # "AX_OK"
  THEN "AX_ERR_ENCODING"
  ELSE IF IF rec.completion_state = "TRUNCATED"
          THEN rec.output_size < actual_len ELSE rec.output_size # actual_len
  THEN "AX_ERR_SCHEMA"
  ELSE IF ~Canonicalises(rec, FALSE, CANONICAL_BUFFER_SIZE) THEN "AX_ERR_BUFFER"
  ELSE IF rec.obs_hash # Commitment(rec) THEN "AX_ERR_HASH" ELSE "AX_OK"

-----------------------------------------------------------------------------
Init == /\ initialized = FALSE /\ last_ledger_seq = 0
        /\ pc = "idle" /\ given = NULL /\ res = NULL
        /\ admitted = <<>>

(* Mutant: the context advances before the outcome is known. *)
Admit_advances_first(in, commit_ok) ==
  /\ pc = "idle" /\ pc' = "returned" /\ given' = in
  /\ res' = ax_obs_admit(in, commit_ok)
  /\ initialized' = TRUE /\ last_ledger_seq' = in.ledger_seq
  /\ admitted' = IF res'.rc = "AX_OK" THEN Append(admitted, in.ledger_seq) ELSE admitted

(* A caller has an input admitted. *)
Admit(in, commit_ok) ==
  /\ pc = "idle"
  /\ LET r == ax_obs_admit(in, commit_ok) IN
       /\ res' = r
       /\ \/ /\ r.rc = "AX_OK"
             /\ initialized' = TRUE /\ last_ledger_seq' = in.ledger_seq
             /\ admitted' = Append(admitted, in.ledger_seq)
          \/ r.rc # "AX_OK" /\ UNCHANGED <<ctx, admitted>>
  /\ given' = in
  /\ pc' = "returned"

(* It is done with the result. *)
Consume == /\ pc = "returned"
           /\ pc' = "idle" /\ given' = NULL /\ res' = NULL
           /\ UNCHANGED <<ctx, admitted>>

(* A new process starts with a new context. *)
ax_admission_ctx_init == /\ pc = "idle"
                         /\ initialized' = FALSE /\ last_ledger_seq' = 0
                         /\ admitted' = <<>>
                         /\ UNCHANGED <<pc, given, res>>

Next == \/ (\E seq \in Seq0 : \E in \in Inputs(seq) : \E commit_ok \in BOOLEAN : Admit(in, commit_ok))
        \/ Consume
        \/ ax_admission_ctx_init

Spec == Init /\ [][Next]_vars
=============================================================================
