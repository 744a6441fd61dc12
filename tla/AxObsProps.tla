----------------------------- MODULE AxObsProps -----------------------------
(***************************************************************************)
(* What callers of ax_obs_admit rely on.                                   *)
(***************************************************************************)
EXTENDS AxObs

Returned == pc = "returned"
OK == Returned /\ res.rc = "AX_OK"

(***************************************************************************)
(* The numbers admitted in one context strictly increase, whatever was     *)
(* refused in between, and the context remembers the last of them (the     *)
(* ordering guard of ax_obs_admit, SRS-004-SHALL-038).                     *)
(***************************************************************************)
AdmittedInOrder ==
  /\ initialized <=> admitted # <<>>
  /\ initialized => last_ledger_seq = admitted[Len(admitted)]
  /\ \A i, j \in 1 .. Len(admitted) : i < j => admitted[i] < admitted[j]

(***************************************************************************)
(* What was admitted passes ax_obs_validate.  commit_observation validates *)
(* after ax_obs_admit has advanced the context, so a disagreement between  *)
(* the two would leave the context ahead of the chain for good.            *)
(***************************************************************************)
AdmittedValidates == OK => ax_obs_validate(res.rec) = "AX_OK"

(***************************************************************************)
(* An admitted record has one of the permitted pairs of state and failure  *)
(* type, also when the size limit relabelled it TRUNCATED.                 *)
(***************************************************************************)
AdmittedPairPermitted ==
  OK => state_pair_is_permitted(res.rec.completion_state, res.rec.failure_type)

(***************************************************************************)
(* A record whose output is not all of what the oracle delivered says so:  *)
(* it is TRUNCATED and output_size is the delivered length                 *)
(* (SRS-004-SHALL-040).                                                    *)
(***************************************************************************)
Delivered == IF given.output = NULL THEN <<>>
             ELSE ax_normalise_line_endings(given.output, Len(given.output) + 1).text

ShortenedIsMarked ==
  OK /\ res.rec.output # Delivered =>
    /\ res.rec.completion_state = "TRUNCATED"
    /\ res.rec.output_size = given.output_len
    /\ res.rec.output_size > Len(res.rec.output)

(***************************************************************************)
(* Whenever an output is refused, for its encoding or its size, the        *)
(* INVALID_OUTPUT record that handle_request tries next, with the same     *)
(* number and identifiers and no output, is admitted: a paid call never    *)
(* ends without a record because of what it returned.  The identifiers     *)
(* are ones the configuration accepted, and axilog_commit raises no fault. *)
(***************************************************************************)
Fallback(in) == ax_obs_input_set_invalid_output(in.ledger_seq, in.oracle_id, in.model_id,
                                                in.input, <<>>)

FallbackIsAdmitted ==
  /\ Returned /\ res.rc \in {"AX_ERR_ENCODING", "AX_ERR_SIZE", "AX_ERR_BUFFER"}
  /\ ax_obs_identifier_check(given.model_id, MaxId) = "AX_OK"
  /\ ax_obs_identifier_check(given.oracle_id, MaxId) = "AX_OK"
  => ax_obs_admit(Fallback(given), TRUE).rc = "AX_OK"

(***************************************************************************)
(* "A record over AX_MAX_OBS_BYTES is rejected with AX_ERR_SIZE" (obs.c,   *)
(* ax_obs_admit).                                                          *)
(***************************************************************************)
OversizeIsSizeError ==
  /\ Returned /\ res.rc \notin {"AX_ERR_ORDERING", "AX_ERR_SCHEMA", "AX_ERR_ENCODING", "AX_ERR_HASH"}
  /\ NormalisedOutput(given).rc = "AX_OK" /\ RecordSize(Candidate(given), FALSE) > MaxObs
  => res.rc = "AX_ERR_SIZE"
=============================================================================
