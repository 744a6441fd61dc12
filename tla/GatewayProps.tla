---------------------------- MODULE GatewayProps ----------------------------
(***************************************************************************)
(* What the gateway's files, answers and oracle calls must satisfy.        *)
(***************************************************************************)
EXTENDS Gateway

Answer == [id : Nat \ {0}, seq : Nat, state : CompletionState, ftype : FailureType,
           model : Model, ok : BOOLEAN]

FileTypes == /\ faults \in 0 .. MaxFaults
             /\ wal \in WalFile /\ walDisk \in WalFile
             /\ file \in Seq(Frame) /\ disk \in Seq(Frame) /\ export \in Seq(Frame)

FlagTypes == g_fd \in BOOLEAN /\ g_export_fd \in BOOLEAN /\ export_drop_logged \in BOOLEAN

PC == {"down", "open", "open_torn_ok", "export", "recover", "recover_commit",
       "recover_clear", "config", "listen", "serving", "ingest", "body",
       "call", "commit", "fallback", "close", "respond", "exit"}

ProcessTypes ==
  /\ pc \in PC
  /\ g_seq \in Nat /\ g_last_payload \in Frame \cup {None}
  /\ model_id \in Model /\ last_ledger_seq \in Nat /\ calls_made \in Nat
  /\ cur \in Request \cup {None} /\ res \in Result \cup {None}

GhostTypes == /\ issued \in Seq(Intent) /\ invoked \subseteq Nat \ {0}
              /\ answered \in SUBSET Answer
              /\ deaths \in 0 .. MaxDeaths

(* What the control state says of the request and of the intent. *)
Control ==
  /\ pc \in {"ingest", "body", "call", "commit", "fallback", "close", "respond"} => cur \in Request
  /\ pc \in {"body", "call", "commit", "fallback", "close", "respond"} => cur \in Intent
  /\ pc \in {"commit", "fallback", "close", "respond"} => res \in Result
  /\ pc \in {"recover_commit", "recover_clear"} => wal \in Intent
  /\ pc \in {"body", "call", "commit", "fallback"} => wal # None

(* Every variable holds a value of its kind, and the request, the result   *)
(* and the intent that a step of handle_request or recover_wal uses are    *)
(* there when it uses them.                                                *)
TypeOK == FileTypes /\ FlagTypes /\ ProcessTypes /\ GhostTypes /\ Control

-----------------------------------------------------------------------------
(* Only the last frame of a ledger may be torn. *)
TornOnlyAtEnd(s) == \A i \in 1 .. Len(s) - 1 : s[i].whole

(* The whole frames of a ledger that is torn at most at its end. *)
WholeFrames(s) == IF s # <<>> /\ ~s[Len(s)].whole THEN SubSeq(s, 1, Len(s) - 1) ELSE s

(***************************************************************************)
(* No frame is ever written after a torn one, in either view of the file,  *)
(* so that a replay can always tell the torn tail of an interrupted append *)
(* from tampering.  gwl_append does not look at what it appends to: after  *)
(* an append that failed half way, it is the ordering guard of             *)
(* ax_obs_admit and the intent left open that keep commit_observation from *)
(* being followed by another append in the same process.                   *)
(***************************************************************************)
LedgerWellFormed == TornOnlyAtEnd(file) /\ TornOnlyAtEnd(disk)

(***************************************************************************)
(* The ledger_seq inside an observation is the position of its frame, in   *)
(* both views, across failed appends, crashes and restarts: the            *)
(* ledger_seq that commit_observation predicts with gwl_seq() + 1 is the   *)
(* one the replay assigns.                                                 *)
(***************************************************************************)
SeqIsPosition ==
  \A s \in {file, disk} : \A i \in 1 .. Len(s) :
    s[i].tag = "AX:OBS:v1" => s[i].ledger_seq = i

(* Answer a is about frame f, and reports what f records. *)
Describes(a, f) == /\ f.tag = "AX:OBS:v1" /\ f.whole
                   /\ f.id = a.id /\ f.ledger_seq = a.seq
                   /\ f.state = a.state /\ f.ftype = a.ftype
                   /\ f.model_id = a.model
                   /\ a.ok <=> (f.ftype = "NULL")

(***************************************************************************)
(* A response describes a record that is on the medium at the position it  *)
(* names, with the state, failure type and model it reports, and keeps     *)
(* doing so whatever happens later.                                        *)
(***************************************************************************)
AnswersOnDisk ==
  \A a \in answered : a.seq \in 1 .. Len(disk) /\ Describes(a, disk[a.seq])

(* The abstract chain: the whole frames on the medium, and the responses. *)
Chain == INSTANCE EvidenceChain
           WITH chain <- WholeFrames(disk), answers <- answered, Matches <- Describes

(***************************************************************************)
(* The gateway implements EvidenceChain: what gwl_append has made durable  *)
(* is never rewritten or taken back by a later append, a replay that cuts  *)
(* a torn tail, a crash or a restart, and handle_request only answers from *)
(* it.                                                                     *)
(***************************************************************************)
ImplementsEvidenceChain == Chain!Spec

-----------------------------------------------------------------------------
(* A process is in step with its ledger when it has as many frames as its  *)
(* chain, all whole.  After an append that failed it is wedged: it can     *)
(* reach no append any more, because the admission context is ahead of the *)
(* chain and the intent of the failed request is still open.               *)
InStep == Len(file) = g_seq /\ \A i \in 1 .. Len(file) : file[i].whole

Wedged == /\ pc \in {"fallback", "serving", "ingest"}
          /\ wal # None
          /\ last_ledger_seq > g_seq

LedgerOpenPc == {"export", "recover", "recover_commit", "recover_clear", "config",
                 "listen", "serving", "ingest", "body", "call", "commit", "fallback",
                 "close", "respond"}

(***************************************************************************)
(* The inductive half of the argument for LedgerWellFormed and             *)
(* SeqIsPosition: a process whose ledger is open is in step with it or     *)
(* wedged.  handle_request never stops the service after a failed append.  *)
(***************************************************************************)
ChainPosition == pc \in LedgerOpenPc => InStep \/ Wedged

-----------------------------------------------------------------------------
Records(s, id) == {i \in 1 .. Len(s) : s[i].id = id /\ s[i].whole}

Served(s, id) == {i \in Records(s, id) : s[i].input.kind = "prompt"}

(***************************************************************************)
(* handle_request prepares and makes a call, and commits its record, only  *)
(* while the intent on the medium is that request's own: a start that      *)
(* could not read an older intent (gw_wal_recover takes every failure of   *)
(* fopen for "none") never calls over it, because gw_wal_write is O_EXCL.  *)
(***************************************************************************)
CallsUnderOwnIntent ==
  pc \in {"body", "call", "commit", "fallback"} => wal = cur /\ walDisk = cur

(***************************************************************************)
(* "only attempts that reach the oracle produce chain observations" (the   *)
(* header comment of gw_main.c), for the records that handle_request       *)
(* makes: a record of a prompt, torn or whole, is about a call that was    *)
(* made.  Recovery's records make no such claim.                           *)
(***************************************************************************)
ServedWasCalled ==
  \A s \in {file, disk} : \A i \in 1 .. Len(s) :
    s[i].tag = "AX:OBS:v1" /\ s[i].input.kind = "prompt" => s[i].id \in invoked

(***************************************************************************)
(* However an append fails, one request leaves at most one record of its   *)
(* own on the ledger: a fallback record never joins a first record that is *)
(* in the file although gwl_append reported failure.                       *)
(***************************************************************************)
AtMostOneServedRecord ==
  \A id \in 1 .. Len(issued) : \A i, j \in Served(file, id) : i = j

(* An oracle call that was made has its record in the ledger, or an intent *)
(* from which the next start will make one.                                *)
Accounted(id) == \/ Records(file, id) # {}
                 \/ wal \in Intent /\ wal.id = id

(* "every oracle invocation, successful or not, becomes a validated        *)
(* AX:OBS:v1 record" (gateway/README.md): none is lost, whatever dies.     *)
EveryCallAccounted == \A id \in invoked : Accounted(id)

(***************************************************************************)
(* The part of it that holds when processes are killed but the machine     *)
(* keeps its power: a call can only go unrecorded if an earlier intent had *)
(* the same prompt.                                                        *)
(***************************************************************************)
LostOnlyIfRepeated ==
  \A id \in invoked :
    Accounted(id) \/ \E j \in 1 .. (id - 1) : issued[j].hash = issued[id].hash

(***************************************************************************)
(* The part of the next property that holds when processes are killed: a   *)
(* call whose own record is in the ledger never gets a recovery record as  *)
(* well, however often starts are interrupted (recover_wal looks for the   *)
(* intent's input_hash in the last payload).                               *)
(***************************************************************************)
ServedNotRecoveredToo ==
  \A id \in 1 .. Len(issued) :
    Served(file, id) # {} => Records(file, id) = Served(file, id)

(* "close it without a second record" (gw_main.c, recover_wal): a call is  *)
(* recorded once.                                                          *)
OneRecordPerCall ==
  \A id \in 1 .. Len(issued) : Cardinality(Records(file, id)) <= 1

(* A record names the model its call was made to: recovery's record        *)
(* "honestly states what is known" (gw_main.c, recover_wal).               *)
RecordsTheModelCalled ==
  \A i \in 1 .. Len(file) :
    file[i].tag = "AX:OBS:v1" => file[i].model_id = issued[file[i].id].model

(* "If an intent file exists, load it into *out and return 1" (gw_wal.h):  *)
(* no start goes on to serve with an intent still open.                    *)
ServesWithIntentClosed == pc = "listen" => wal = None

-----------------------------------------------------------------------------
(* "byte-identical prefix of the primary at every observable moment"       *)
(* (gateway/tests/test_gw_export.c), its unsynced tail apart.              *)
ExportIsPrefix ==
  LET e == WholeFrames(export) IN
    /\ TornOnlyAtEnd(export)
    /\ Len(e) <= Len(file) /\ \A i \in 1 .. Len(e) : e[i] = file[i]

HandlingPc == {"serving", "ingest", "body", "call", "commit", "fallback", "close", "respond"}

(***************************************************************************)
(* While requests are handled and the export is active it holds exactly    *)
(* what is on the medium, after failed appends and failed mirrors too.     *)
(***************************************************************************)
ActiveExportIsCurrent == pc \in HandlingPc /\ g_export_fd => export = disk

-----------------------------------------------------------------------------
(* "The file persists and grows" (gw_ledger.h): no step takes a whole      *)
(* frame off the ledger a process sees.                                    *)
AppendOnly == [][Chain!Extends(WholeFrames(disk), WholeFrames(file'))]_file

(* An intent that a dead process left is closed by some later start. *)
IntentsGetClosed == (pc = "down" /\ wal \in Intent) ~> (wal \notin Intent)

(* Once an intent is durable its request is answered, unless the process   *)
(* dies first.                                                             *)
RequestsGetAnswered == (pc = "body") ~> (pc \in {"serving", "down"})
=============================================================================
