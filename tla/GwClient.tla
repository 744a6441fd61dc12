------------------------------ MODULE GwClient ------------------------------
(***************************************************************************)
(* gateway/src/gw_client.c: one oracle call, its attempts and the sleeps   *)
(* between them.  libcurl is external: a transfer ends in one of the ways  *)
(* gwc_call tells apart.                                                   *)
(***************************************************************************)
EXTENDS Integers

CONSTANTS MaxAttempts,    \* cfg.max_attempts
          RetryAfter,     \* values of retry-after headers, 0 for none
          Jitter          \* values of rand() % 500

ASSUME ClientConstants ==
  /\ MaxAttempts \in 1 .. 10
  /\ RetryAfter \subseteq Int /\ Jitter \subseteq 0 .. 499

VARIABLES cpc,         \* "idle", "setup", "perform", "backoff" or "returned"
          attempt,     \* the loop counter
          ms,          \* the sleep that backoff_sleep asked for
          ret,         \* what gwc_call returns: a GWC outcome, or "-1"
          carried,     \* ghost: transfers of this call that the upstream may
                       \* have carried out
          own_wait     \* ghost: the last sleep that the upstream did not set

clientVars == <<cpc, attempt, ms, ret, carried, own_wait>>

ClientInit == /\ cpc = "idle" /\ attempt = 0 /\ ms = 0 /\ ret = "none"
              /\ carried = 0 /\ own_wait = 0

(* Ways a transfer ends: curl's own failures, or an HTTP status class.     *)
TransferEnd == {"TIMEDOUT", "OVERCAP", "OTHER", "200", "4xx", "429", "5xx"}

(* The upstream did not do the work: it answered with a refusal. *)
Refused == {"4xx", "429", "5xx"}

-----------------------------------------------------------------------------
on_header(v) == IF v > 0 /\ v <= 3600 THEN v ELSE 0

Least(a, b) == IF a < b THEN a ELSE b

(* The base of backoff_sleep and its cap, in milliseconds. *)
SecondMs == 1000
MinuteMs == 60 * SecondMs

(* Mutant: the cap is left to the values that upstream sends. *)
backoff_sleep_uncapped(n, retry_after, jitter) ==
  IF retry_after > 0 THEN Least(retry_after * SecondMs, MinuteMs)
  ELSE SecondMs * 2^(n - 1) + jitter

(* The sleep in milliseconds after attempt n. *)
backoff_sleep(n, retry_after, jitter) ==
  Least(MinuteMs, IF retry_after > 0 THEN retry_after * SecondMs
                  ELSE SecondMs * 2^(n - 1) + jitter)

(* Mutant: a transfer that timed out is tried again. *)
Retries_timeout(end) == end \in {"429", "5xx", "TIMEDOUT"} /\ attempt < MaxAttempts

Retries(end) == end \in {"429", "5xx"} /\ attempt < MaxAttempts

OutcomeOf(end) ==
  CASE end = "TIMEDOUT" -> "GWC_TIMEOUT"
    [] end = "OVERCAP" -> "GWC_OVERCAP"
    [] end = "OTHER" -> "GWC_TRANSPORT"
    [] end = "200" -> "GWC_OK"
    [] OTHER -> "GWC_HTTP_FAIL"

Fresh(l, n) == /\ cpc' = l /\ attempt' = n /\ ms' = 0 /\ ret' = "none"
               /\ carried' = 0 /\ own_wait' = 0

(* gwc_call is entered. *)
Call == Fresh("setup", 1)

(* The handle is made: the call fails on allocation, or where libcurl      *)
(* cannot restrict the protocols, or the transfer starts.                  *)
SetUp ==
  /\ cpc = "setup"
  /\ \/ \E r \in {"-1", "GWC_TRANSPORT"} :
          cpc' = "returned" /\ ret' = r
     \/ cpc' = "perform" /\ UNCHANGED ret
  /\ UNCHANGED <<attempt, ms, carried, own_wait>>

(* The transfer ends; CURLOPT_TIMEOUT bounds it. *)
Perform(end, v, jitter) ==
  /\ cpc = "perform"
  /\ carried' = IF end \in Refused THEN carried ELSE carried + 1
  /\ \/ /\ Retries(end)
        /\ cpc' = "backoff"
        /\ ms' = backoff_sleep(attempt, on_header(v), jitter)
        /\ own_wait' = IF on_header(v) = 0 THEN ms' ELSE own_wait
        /\ UNCHANGED ret
     \/ /\ ~Retries(end)
        /\ cpc' = "returned" /\ ret' = OutcomeOf(end)
        /\ UNCHANGED <<ms, own_wait>>
  /\ UNCHANGED attempt

(* Mutant: the counter is not advanced. *)
NextAttempt_same == /\ cpc = "backoff" /\ cpc' = "setup"
                    /\ UNCHANGED <<attempt, ms, ret, carried, own_wait>>

(* nanosleep is over, or a signal ended it early: gwc_call goes on. *)
NextAttempt == /\ cpc = "backoff"
               /\ cpc' = "setup" /\ attempt' = attempt + 1
               /\ UNCHANGED <<ms, ret, carried, own_wait>>

Transfer == \E end \in TransferEnd, v \in RetryAfter, jitter \in Jitter : Perform(end, v, jitter)

gwc_call == SetUp \/ Transfer \/ NextAttempt

(* handle_request is done with the result. *)
gwc_result_free == cpc = "returned" /\ Fresh("idle", 0)
=============================================================================
