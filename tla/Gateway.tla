------------------------------ MODULE Gateway ------------------------------
(***************************************************************************)
(* gateway/src/gw_main.c: the gateway process, from start-up through the   *)
(* serial request loop to its death, over the write-ahead intent (GwWal)   *)
(* and the evidence ledger (GwLedger).                                     *)
(*                                                                         *)
(* pc is the point the single thread has reached.  "down" is no process.   *)
(***************************************************************************)
EXTENDS GwWal, GwLedger, FiniteSets

CONSTANTS Outcome,        \* results of gwc_call that may happen
          CallBudget,     \* cfg.call_budget: oracle calls per process
          ExportPath,     \* is cfg.export_path configured?
          CrashMode,      \* ways to die: subset of {"kill", "power"}
          MaxIntents,     \* bound on intents ever written
          MaxDeaths       \* bound on deaths and shutdowns

(* A hashed input: a prompt, or recovery's "unclosed-intent" line for it.  *)
Input == [kind : {"prompt", "unclosed"}, hash : Prompt]

CompletionState == {"COMPLETE", "TRUNCATED", "ERROR"}
FailureType == {"NULL", "TIMEOUT", "TRANSPORT_ERROR", "INVALID_OUTPUT"}

ObsFrame == [tag : {"AX:OBS:v1"}, id : Nat \ {0}, whole : BOOLEAN,
             ledger_seq : Nat \ {0}, input : Input, model_id : Model,
             state : CompletionState, ftype : FailureType]
StateFrame == [tag : {"AX:STATE:v1"}, id : {0}, whole : BOOLEAN, model_id : Model]
Frame == ObsFrame \cup StateFrame

(* What gwc_call can come back with, and whether an output it carries is   *)
(* one that ax_obs_admit accepts.                                          *)
AllOutcomes ==
  [gwc : {"OK_COMPLETE", "OK_TRUNCATED"}, admissible : BOOLEAN]
    \cup [gwc : {"OK_UNPARSED", "TIMEOUT", "OVERCAP", "HTTP_FAIL", "TRANSPORT"},
          admissible : {TRUE}]

(* The record a request is about to commit, and the status it answers.     *)
Result == [state : CompletionState, ftype : FailureType, admissible : BOOLEAN,
           ok_for_caller : BOOLEAN]

(* A request that has been read: no intent for it yet while its id is 0. *)
Request == [id : Nat, hash : Prompt, model : Model]

ASSUME GatewayConstants ==
  /\ None \notin Frame /\ None \notin Request /\ None \notin Result
  /\ ExportPath \in BOOLEAN
  /\ Outcome \subseteq AllOutcomes
  /\ CallBudget \in Nat /\ MaxIntents \in Nat /\ MaxDeaths \in Nat
  /\ CrashMode \subseteq {"kill", "power"}

VARIABLES
  pc,                   \* where the process is
  model_id,             \* st.cfg->model_id of this process
  last_ledger_seq,      \* st.adm, 0 while not initialised
  calls_made,           \* st.calls_made
  export_drop_logged,   \* st.export_drop_logged
  cur,                  \* the prompt, then the intent, being handled
  res,                  \* what handle_request is about to record or answer
  issued,               \* ghost: every intent ever prepared, by id
  invoked,              \* ghost: ids whose oracle call was really made
  answered,             \* ghost: responses sent that report an observation
  deaths                \* ghost: how often the process has gone away

procVars == <<pc, model_id, last_ledger_seq, calls_made, export_drop_logged, cur, res>>
ghostVars == <<issued, invoked, answered, deaths>>
vars == <<faults, walVars, ledgerVars, procVars, ghostVars>>

Init ==
  /\ IOInit /\ WalInit /\ LedgerInit
  /\ pc = "down"
  /\ model_id \in Model
  /\ last_ledger_seq = 0 /\ calls_made = 0 /\ export_drop_logged = FALSE
  /\ cur = None /\ res = None
  /\ issued = <<>> /\ invoked = {} /\ answered = {} /\ deaths = 0

-----------------------------------------------------------------------------
(***************************************************************************)
(* Moving pc, with the rest of the process unchanged.                      *)
(***************************************************************************)
Goto(l) == /\ pc' = l
           /\ UNCHANGED <<model_id, last_ledger_seq, calls_made, export_drop_logged, cur, res>>

(* handle_request returns: the loop closes the connection.                 *)
Return == /\ pc' = "serving" /\ cur' = None /\ res' = None
          /\ UNCHANGED <<model_id, export_drop_logged>>

(* The process is gone. *)
ProcessGone ==
  /\ pc' = "down"
  /\ LedgerVolatileReset
  /\ last_ledger_seq' = 0 /\ calls_made' = 0 /\ export_drop_logged' = FALSE
  /\ cur' = None /\ res' = None
  /\ UNCHANGED <<model_id, issued, invoked, answered>>

(***************************************************************************)
(* commit_observation: admit (the ordering guard and what admission says   *)
(* of the output), then append.  ax_obs_admit advances the admission       *)
(* context before the append is attempted and nothing takes it back.       *)
(***************************************************************************)
(* Mutant: the ordering check is left out of admission. *)
ax_obs_admit_unordered(seq, r) == r.admissible

ax_obs_admit(seq, r) == last_ledger_seq < seq /\ r.admissible

(* Mutant: the sequence number is counted by the admission context. *)
Observation_own_count(id, input, r) ==
  [tag |-> "AX:OBS:v1", id |-> id, whole |-> TRUE, ledger_seq |-> last_ledger_seq + 1,
   input |-> input, model_id |-> model_id, state |-> r.state, ftype |-> r.ftype]

Observation(id, input, r) ==
  [tag |-> "AX:OBS:v1", id |-> id, whole |-> TRUE, ledger_seq |-> g_seq + 1,
   input |-> input, model_id |-> model_id, state |-> r.state, ftype |-> r.ftype]

commit_observation(id, input, r, rc) ==
  \/ /\ ~ax_obs_admit(g_seq + 1, r)
     /\ rc = -1
     /\ NoFault /\ UNCHANGED <<ledgerVars, last_ledger_seq>>
  \/ /\ ax_obs_admit(g_seq + 1, r)
     /\ last_ledger_seq' = g_seq + 1
     /\ gwl_append(Observation(id, input, r), rc)

-----------------------------------------------------------------------------
(* main, start-up.  Anything that fails before the ledger is opened exits  *)
(* and changes nothing.                                                    *)

(* main: is there an intent that can account for a torn tail?              *)
ProbeWal ==
  /\ pc = "down"
  /\ \E r \in {-1, 0, 1} :
       /\ gw_wal_recover(r)
       /\ pc' = IF r = 1 THEN "open_torn_ok" ELSE "open"
  /\ model_id' \in Model
  /\ UNCHANGED <<last_ledger_seq, calls_made, export_drop_logged, cur, res>>
  /\ UNCHANGED <<walVars, ledgerVars, ghostVars>>

OpenLedger ==
  /\ pc \in {"open", "open_torn_ok"}
  /\ \E rc \in {0, -1} :
       /\ gwl_open(pc = "open_torn_ok", rc)
       /\ Goto(IF rc = 0 THEN "export" ELSE "exit")
  /\ UNCHANGED <<walVars, ghostVars>>

EnableExport ==
  /\ pc = "export"
  /\ \/ /\ ExportPath
        /\ \E rc \in {0, -1} : /\ gwl_export_enable(rc)
                               /\ Goto(IF rc = 0 THEN "recover" ELSE "exit")
     \/ /\ ~ExportPath
        /\ Goto("recover")
        /\ NoFault /\ UNCHANGED ledgerVars
  /\ UNCHANGED <<walVars, ghostVars>>

(* Mutant: the hash of recovery's own input line is looked for. *)
gwl_last_payload_contains_unclosed(h) ==
  /\ g_last_payload # None
  /\ g_last_payload.tag = "AX:OBS:v1"
  /\ g_last_payload.input = [kind |-> "unclosed", hash |-> h]

(* recover_wal: does the last payload carry the intent's input_hash?       *)
gwl_last_payload_contains(h) ==
  /\ g_last_payload # None
  /\ g_last_payload.tag = "AX:OBS:v1"
  /\ g_last_payload.input = [kind |-> "prompt", hash |-> h]

(* Mutant: a file that is not an intent is discarded. *)
RecoverWal_discards_garbage ==
  /\ pc = "recover"
  /\ \E r \in {-1, 0, 1} : gw_wal_recover(r) /\ Goto(IF r = 0 THEN "config" ELSE "recover_clear")
  /\ UNCHANGED <<walVars, ledgerVars, ghostVars>>

(* Mutant: any intent is taken to be evidenced already. *)
RecoverWal_never_records ==
  /\ pc = "recover"
  /\ \E r \in {-1, 0, 1} :
       /\ gw_wal_recover(r)
       /\ Goto(CASE r = 0 -> "config" [] r = -1 -> "exit" [] r = 1 -> "recover_clear")
  /\ UNCHANGED <<walVars, ledgerVars, ghostVars>>

(* Mutant: an open intent refuses the start. *)
RecoverWal_refuses ==
  /\ pc = "recover"
  /\ \E r \in {-1, 0, 1} : gw_wal_recover(r) /\ Goto(IF r = 0 THEN "config" ELSE "exit")
  /\ UNCHANGED <<walVars, ledgerVars, ghostVars>>

RecoverWal ==
  /\ pc = "recover"
  /\ \E r \in {-1, 0, 1} :
       /\ gw_wal_recover(r)
       /\ Goto(CASE r = 0 -> "config"
                 [] r = -1 -> "exit"
                 [] r = 1 -> IF gwl_last_payload_contains(wal.hash)
                             THEN "recover_clear" ELSE "recover_commit")
  /\ UNCHANGED <<walVars, ledgerVars, ghostVars>>

RecoveryResult == [state |-> "ERROR", ftype |-> "TRANSPORT_ERROR",
                   admissible |-> TRUE, ok_for_caller |-> FALSE]

RecoverCommit ==
  /\ pc = "recover_commit"
  /\ \E rc \in {0, -1} :
       /\ commit_observation(wal.id, [kind |-> "unclosed", hash |-> wal.hash],
                             RecoveryResult, rc)
       /\ pc' = IF rc = 0 THEN "recover_clear" ELSE "exit"
  /\ UNCHANGED <<model_id, calls_made, export_drop_logged, cur, res>>
  /\ UNCHANGED <<walVars, ghostVars>>

(* Mutant: a clear that fails is ignored. *)
RecoverClear_ignores_failure ==
  /\ pc = "recover_clear"
  /\ (\E rc \in {0, -1} : gw_wal_clear(rc)) /\ Goto("config")
  /\ UNCHANGED <<ledgerVars, ghostVars>>

RecoverClear ==
  /\ pc = "recover_clear"
  /\ \E rc \in {0, -1} : gw_wal_clear(rc) /\ Goto(IF rc = 0 THEN "config" ELSE "exit")
  /\ UNCHANGED <<ledgerVars, ghostVars>>

(* main: the AX:STATE:v1 frame of this start commits its configuration.    *)
CommitConfig ==
  /\ pc = "config"
  /\ \E rc \in {0, -1} :
       /\ gwl_append([tag |-> "AX:STATE:v1", id |-> 0, whole |-> TRUE,
                      model_id |-> model_id], rc)
       /\ Goto(IF rc = 0 THEN "listen" ELSE "exit")
  /\ UNCHANGED <<walVars, ghostVars>>

(* main: curl, signal handlers, socket, bind, listen, readiness.           *)
Listen ==
  /\ pc = "listen"
  /\ \/ NoFault /\ Goto("serving")
     \/ Fault /\ Goto("exit")
  /\ UNCHANGED <<walVars, ledgerVars, ghostVars>>

-----------------------------------------------------------------------------
(* handle_request. *)

(* accept returns a connection carrying a request for prompt p.            *)
AcceptRequest(p) ==
  /\ pc = "serving"
  /\ pc' = "ingest"
  /\ cur' = [id |-> 0, hash |-> p, model |-> model_id]
  /\ UNCHANGED <<model_id, last_ledger_seq, calls_made, export_drop_logged, res>>
  /\ NoFault /\ UNCHANGED <<walVars, ledgerVars, ghostVars>>

(* Steps 1-3: a malformed request, an unsupported or missing parameter, a  *)
(* prompt that fails validation, or an exhausted budget: answered with     *)
(* proto_error before anything is recorded or spent.                       *)
RejectRequest ==
  /\ pc = "ingest"
  /\ Return
  /\ UNCHANGED <<last_ledger_seq, calls_made>>
  /\ NoFault /\ UNCHANGED <<walVars, ledgerVars, ghostVars>>

(* Mutant: the request goes on although its intent could not be written. *)
WriteIntent_goes_on ==
  /\ pc = "ingest"
  /\ calls_made < CallBudget
  /\ Len(issued) < MaxIntents
  /\ LET intent == [cur EXCEPT !.id = Len(issued) + 1] IN
       /\ issued' = Append(issued, intent)
       /\ \E rc \in {0, -1} : gw_wal_write(intent, rc)
       /\ pc' = "body" /\ cur' = intent
  /\ UNCHANGED <<model_id, last_ledger_seq, calls_made, export_drop_logged, res>>
  /\ UNCHANGED <<ledgerVars, invoked, answered, deaths>>

(* Step 4: the durable intent. *)
WriteIntent ==
  /\ pc = "ingest"
  /\ calls_made < CallBudget
  /\ Len(issued) < MaxIntents
  /\ LET intent == [cur EXCEPT !.id = Len(issued) + 1] IN
       /\ issued' = Append(issued, intent)
       /\ \E rc \in {0, -1} :
            /\ gw_wal_write(intent, rc)
            /\ pc' = IF rc = 0 THEN "body" ELSE "serving"
            /\ cur' = IF rc = 0 THEN intent ELSE None
  /\ UNCHANGED <<model_id, last_ledger_seq, calls_made, export_drop_logged, res>>
  /\ UNCHANGED <<ledgerVars, invoked, answered, deaths>>

(* The request body is built, or cannot be and the intent is withdrawn.    *)
BuildBody ==
  /\ pc = "body"
  /\ \/ /\ Goto("call")
        /\ NoFault /\ UNCHANGED walVars
     \/ /\ \E rc \in {0, -1} : gw_wal_clear(rc)
        /\ Return
        /\ UNCHANGED <<last_ledger_seq, calls_made>>
  /\ UNCHANGED <<ledgerVars, ghostVars>>

(* Steps 5-8: gwc_call's outcome as the completion state and failure type  *)
(* to record.                                                              *)
Recorded(o) ==
  LET delivered == o.gwc \in {"OK_COMPLETE", "OK_TRUNCATED"} IN
  [state |-> CASE o.gwc = "OK_COMPLETE" -> "COMPLETE"
               [] o.gwc = "OK_TRUNCATED" -> "TRUNCATED"
               [] OTHER -> "ERROR",
   ftype |-> CASE delivered -> "NULL"
               [] o.gwc = "TIMEOUT" -> "TIMEOUT"
               [] o.gwc \in {"OK_UNPARSED", "OVERCAP"} -> "INVALID_OUTPUT"
               [] OTHER -> "TRANSPORT_ERROR",
   admissible |-> o.admissible,
   ok_for_caller |-> delivered]

OracleCall(o) ==
  /\ pc = "call"
  /\ calls_made' = calls_made + 1
  /\ invoked' = invoked \cup {cur.id}
  /\ res' = Recorded(o)
  /\ pc' = "commit"
  /\ UNCHANGED <<model_id, last_ledger_seq, export_drop_logged, cur>>
  /\ NoFault /\ UNCHANGED <<walVars, ledgerVars, issued, answered, deaths>>

(* Mutant: a call that could not be made is recorded as a transport error. *)
ClientFails_records ==
  /\ pc = "call"
  /\ calls_made' = calls_made + 1
  /\ invoked' \in {invoked, invoked \cup {cur.id}}
  /\ res' = Recorded([gwc |-> "TRANSPORT", admissible |-> TRUE]) /\ pc' = "commit"
  /\ UNCHANGED <<model_id, last_ledger_seq, export_drop_logged, cur>>
  /\ Fault /\ UNCHANGED <<walVars, ledgerVars, issued, answered, deaths>>

(* gwc_call could not allocate, before its first attempt or before a       *)
(* later one.  The intent stays open.                                      *)
ClientFails ==
  /\ pc = "call"
  /\ calls_made' = calls_made + 1
  /\ invoked' \in {invoked, invoked \cup {cur.id}}
  /\ Return
  /\ UNCHANGED last_ledger_seq
  /\ Fault /\ UNCHANGED <<walVars, ledgerVars, issued, answered, deaths>>

(* Step 9: the first commit.  If a delivered output could not be recorded, *)
(* whatever the reason, an INVALID_OUTPUT record is tried in its place.    *)
Degraded == [state |-> "ERROR", ftype |-> "INVALID_OUTPUT",
             admissible |-> TRUE, ok_for_caller |-> FALSE]

PromptInput == [kind |-> "prompt", hash |-> cur.hash]

(* Mutant: a record that could not be committed is tried again. *)
CommitObs_retries ==
  /\ pc = "commit"
  /\ \E rc \in {0, -1} : /\ commit_observation(cur.id, PromptInput, res, rc)
                         /\ pc' = IF rc = 0 THEN "close" ELSE "commit"
  /\ UNCHANGED <<model_id, calls_made, export_drop_logged, cur, res>>
  /\ UNCHANGED <<walVars, ghostVars>>

CommitObs ==
  /\ pc = "commit"
  /\ \E rc \in {0, -1} :
       /\ commit_observation(cur.id, PromptInput, res, rc)
       /\ \/ /\ rc = 0
             /\ pc' = "close" /\ UNCHANGED <<cur, res>>
          \/ /\ rc = -1 /\ res.state # "ERROR"
             /\ pc' = "fallback" /\ res' = Degraded /\ UNCHANGED cur
          \/ /\ rc = -1 /\ res.state = "ERROR"
             /\ pc' = "serving" /\ cur' = None /\ res' = None
  /\ UNCHANGED <<model_id, calls_made, export_drop_logged>>
  /\ UNCHANGED <<walVars, ghostVars>>

CommitFallback ==
  /\ pc = "fallback"
  /\ \E rc \in {0, -1} :
       /\ commit_observation(cur.id, PromptInput, res, rc)
       /\ \/ /\ rc = 0
             /\ pc' = "close" /\ UNCHANGED <<cur, res>>
          \/ /\ rc = -1
             /\ pc' = "serving" /\ cur' = None /\ res' = None
  /\ UNCHANGED <<model_id, calls_made, export_drop_logged>>
  /\ UNCHANGED <<walVars, ghostVars>>

(* The intent is closed; a failure to close it is only logged.  A dropped  *)
(* export is logged once.                                                  *)
CloseIntent ==
  /\ pc = "close"
  /\ \E rc \in {0, -1} : gw_wal_clear(rc)
  /\ export_drop_logged' = (export_drop_logged \/ (ExportPath /\ ~g_export_fd))
  /\ pc' = "respond"
  /\ UNCHANGED <<model_id, last_ledger_seq, calls_made, cur, res>>
  /\ UNCHANGED <<ledgerVars, ghostVars>>

(* Step 10: the response names the record the ledger holds. *)
Response == [id |-> cur.id, seq |-> g_seq, state |-> res.state,
             ftype |-> res.ftype, model |-> model_id, ok |-> res.ok_for_caller]

Respond ==
  /\ pc = "respond"
  /\ answered' = answered \cup {Response}
  /\ Return
  /\ UNCHANGED <<last_ledger_seq, calls_made>>
  /\ NoFault /\ UNCHANGED <<walVars, ledgerVars, issued, invoked, deaths>>

-----------------------------------------------------------------------------
(* Leaving. *)

(* The loop ends: a signal, or an accept that fails. *)
Shutdown ==
  /\ pc = "serving"
  /\ deaths < MaxDeaths
  /\ deaths' = deaths + 1
  /\ Goto("exit")
  /\ NoFault /\ UNCHANGED <<walVars, ledgerVars, issued, invoked, answered>>

Exit ==
  /\ pc = "exit"
  /\ ProcessGone
  /\ NoFault /\ UNCHANGED <<walVars, file, disk, export, deaths>>

(* The process is killed; the files stay as it left them. *)
Kill ==
  /\ "kill" \in CrashMode
  /\ pc # "down"
  /\ deaths < MaxDeaths
  /\ deaths' = deaths + 1
  /\ ProcessGone
  /\ NoFault /\ UNCHANGED <<walVars, file, disk, export>>

(* The machine loses power; each file is what had reached the medium. *)
PowerLoss ==
  /\ "power" \in CrashMode
  /\ deaths < MaxDeaths
  /\ deaths' = deaths + 1
  /\ ProcessGone
  /\ \E f \in LedgerPersisted : file' = f /\ disk' = f
  /\ export' \in ExportPersisted
  /\ \E w \in WalPersisted : wal' = w /\ walDisk' = w
  /\ NoFault

Startup == \/ ProbeWal \/ OpenLedger \/ EnableExport
           \/ RecoverWal \/ RecoverCommit \/ RecoverClear
           \/ CommitConfig \/ Listen

Handling == \/ RejectRequest \/ WriteIntent \/ BuildBody
            \/ (\E o \in Outcome : OracleCall(o)) \/ ClientFails
            \/ CommitObs \/ CommitFallback \/ CloseIntent \/ Respond

Next == \/ Startup
        \/ (\E p \in Prompt : AcceptRequest(p))
        \/ Handling
        \/ Shutdown \/ Exit \/ Kill \/ PowerLoss

Spec == Init /\ [][Next]_vars

(* The thread runs while it can, and a process that is gone is started     *)
(* again.  Nothing is assumed of a client that may never finish sending    *)
(* its request: reading it has no timeout.  The oracle call is bounded by  *)
(* the configured timeouts and returns.                                    *)
FairSpec == Spec /\ WF_vars(Startup \/ Exit \/ (pc # "ingest" /\ Handling))
=============================================================================
