--------------------------- MODULE GatewayProofs ---------------------------
(***************************************************************************)
(* Proofs about the gateway (Gateway.tla) for every set of prompts, models *)
(* and outcomes, and every bound on faults, intents and deaths, read       *)
(* errors included: the request in hand and its reply, the oracle calls,   *)
(* the intents they are made under and the records they leave.             *)
(***************************************************************************)
EXTENDS GatewayProps, SequenceTheorems, TLAPS

USE IOConstants, GatewayConstants, WalSentinels
    DEF IOConstants, GatewayConstants, WalSentinels

-----------------------------------------------------------------------------
(* The operations of gw_wal.c and gw_ledger.c keep files well typed. *)

(* Cutting a frame short gives a frame that is not whole. *)
LEMMA TornFrame ==
  ASSUME NEW f \in Frame
  PROVE  Torn(f) \in Frame /\ ~Torn(f).whole /\ Torn(f).tag = f.tag
BY Zenon DEF Torn, Frame, ObsFrame, StateFrame

(* A fault keeps the fault counter in its range, and so does its absence. *)
LEMMA FaultCount ==
  ASSUME faults \in 0 .. MaxFaults, Fault \/ NoFault
  PROVE  faults' \in 0 .. MaxFaults
BY DEF Fault, NoFault

(* gw_wal_write and gw_wal_clear leave an intent, no file, or a file that  *)
(* is not an intent.                                                       *)
LEMMA WalTypes ==
  ASSUME faults \in 0 .. MaxFaults, wal \in WalFile, walDisk \in WalFile,
         NEW in \in Intent, NEW rc \in {0, -1},
         gw_wal_write(in, rc) \/ gw_wal_clear(rc)
  PROVE  faults' \in 0 .. MaxFaults /\ wal' \in WalFile /\ walDisk' \in WalFile
<1>1. faults' \in 0 .. MaxFaults
  BY FaultCount DEF gw_wal_write, gw_wal_clear
<1>2. wal' \in WalFile /\ walDisk' \in WalFile
  BY DEF gw_wal_write, gw_wal_clear, walVars, WalFile
<1> QED
  BY <1>1, <1>2

LedgerFiles == file \in Seq(Frame) /\ disk \in Seq(Frame) /\ export \in Seq(Frame)

(* The first frames of a ledger are a ledger. *)
LEMMA TakeType ==
  ASSUME NEW s \in Seq(Frame), NEW n \in 0 .. Len(s)
  PROVE  /\ Take(s, n) \in Seq(Frame)
         /\ Len(Take(s, n)) = n
         /\ \A i \in 1 .. n : Take(s, n)[i] = s[i]
BY DEF Take

(* So are the first frames with the last of them cut short. *)
LEMMA TakeTornType ==
  ASSUME NEW s \in Seq(Frame), NEW n \in 1 .. Len(s)
  PROVE  /\ TakeTorn(s, n) \in Seq(Frame)
         /\ Len(TakeTorn(s, n)) = n
         /\ \A i \in 1 .. n - 1 : TakeTorn(s, n)[i] = s[i]
         /\ TakeTorn(s, n)[n] = Torn(s[n])
<1>1. s[n] \in Frame
  OBVIOUS
<1>2. Torn(s[n]) \in Frame
  BY <1>1, TornFrame
<1>3. /\ SubSeq(s, 1, n - 1) \in Seq(Frame) /\ Len(SubSeq(s, 1, n - 1)) = n - 1
      /\ \A i \in 1 .. n - 1 : SubSeq(s, 1, n - 1)[i] = s[i]
  OBVIOUS
<1> HIDE DEF Torn
<1> QED
  BY <1>2, <1>3, AppendProperties DEF TakeTorn

(* A copy that stops anywhere is a ledger. *)
LEMMA PartialCopyType ==
  ASSUME NEW s \in Seq(Frame), NEW n \in Nat, NEW t \in PartialCopies(s, n)
  PROVE  t \in Seq(Frame)
BY TakeType, TakeTornType DEF PartialCopies

(* An append, whole or failed half way, leaves well-typed files. *)
LEMMA AppendTypes ==
  ASSUME LedgerFiles, NEW f \in Frame, NEW rc \in {0, -1}, gwl_append(f, rc)
  PROVE  LedgerFiles'
<1>1. /\ Append(file, f) \in Seq(Frame) /\ Append(file, Torn(f)) \in Seq(Frame)
      /\ Append(export, f) \in Seq(Frame) /\ Append(export, Torn(f)) \in Seq(Frame)
  BY TornFrame DEF LedgerFiles
<1> QED
  BY Zenon, <1>1 DEF gwl_append, AppendFails, ChainFault, Synced, Mirror, ledgerVars, LedgerFiles

(* So does gwl_open, with or without a truncation. *)
LEMMA OpenTypes ==
  ASSUME LedgerFiles, NEW ok \in BOOLEAN, NEW rc \in {0, -1}, gwl_open(ok, rc)
  PROVE  LedgerFiles'
BY TakeType DEF gwl_open, ledgerVars, LedgerFiles

(* So does rewriting the export, also when it stops half way. *)
LEMMA ExportTypes ==
  ASSUME LedgerFiles, NEW rc \in {0, -1}, gwl_export_enable(rc)
  PROVE  LedgerFiles'
BY PartialCopyType DEF gwl_export_enable, LedgerFiles

(* Whatever a power loss leaves on the medium is a sequence of frames. *)
LEMMA PersistedTypes ==
  ASSUME LedgerFiles
  PROVE  LedgerPersisted \subseteq Seq(Frame) /\ ExportPersisted \subseteq Seq(Frame)
BY PartialCopyType DEF LedgerPersisted, ExportPersisted, LedgerFiles, Agreed

(* The intent that handle_request writes for the request it has read. *)
LEMMA NewIntent ==
  ASSUME cur \in Request, issued \in Seq(Intent)
  PROVE  /\ [cur EXCEPT !.id = Len(issued) + 1] \in Intent
         /\ [cur EXCEPT !.id = Len(issued) + 1] \in Request
<1> DEFINE n == Len(issued) + 1
<1>1. n \in Nat \ {0}
  OBVIOUS
<1> HIDE DEF n
<1>2. [cur EXCEPT !.id = n] \in Intent /\ [cur EXCEPT !.id = n] \in Request
  BY <1>1 DEF Intent, Request
<1> QED
  BY <1>2 DEF n

(* The results that handle_request and recover_wal hand to                 *)
(* commit_observation.                                                     *)
LEMMA ResultTypes == RecoveryResult \in Result /\ Degraded \in Result
BY DEF RecoveryResult, Degraded, Result, CompletionState, FailureType

(* Every outcome of gwc_call gives a record of the right type. *)
LEMMA RecordedType ==
  ASSUME NEW o \in Outcome
  PROVE  Recorded(o) \in Result
<1>1. o \in AllOutcomes
  OBVIOUS
<1>2. o.admissible \in BOOLEAN
  BY Zenon, <1>1 DEF AllOutcomes
<1>3. /\ Recorded(o).state \in CompletionState
      /\ Recorded(o).ftype \in FailureType
  BY DEF Recorded, CompletionState, FailureType
<1> DEFINE ok == o.gwc \in {"OK_COMPLETE", "OK_TRUNCATED"}
<1>4. Recorded(o) = [state |-> Recorded(o).state, ftype |-> Recorded(o).ftype,
                     admissible |-> o.admissible, ok_for_caller |-> ok]
  BY DEF Recorded
<1>5. ok \in BOOLEAN
  OBVIOUS
<1> HIDE DEF ok
<1> QED
  BY <1>2, <1>3, <1>4, <1>5 DEF Result

(* The first start finds no files. *)
LEMMA InitTypes == Init => TypeOK
<1> SUFFICES ASSUME Init PROVE TypeOK
  OBVIOUS
<1> USE DEF Init, IOInit, WalInit, LedgerInit
<1>1. FileTypes
  BY EmptySeq DEF FileTypes, WalFile
<1>2. FlagTypes
  BY Zenon DEF FlagTypes
<1>3. ProcessTypes
  BY DEF ProcessTypes, PC
<1>4. GhostTypes
  BY EmptySeq DEF GhostTypes
<1>5. Control
  BY DEF Control
<1> QED
  BY <1>1, <1>2, <1>3, <1>4, <1>5 DEF TypeOK

-----------------------------------------------------------------------------
(* Every step keeps every variable well typed, one group of variables at a *)
(* time.                                                                   *)

(* Every step keeps the flags and counters of the process in range. *)
LEMMA FlagStep == FlagTypes /\ [Next]_vars => FlagTypes'
<1> SUFFICES ASSUME FlagTypes, [Next]_vars PROVE FlagTypes'
  OBVIOUS
<1> USE DEF FlagTypes
<1>1. CASE ProbeWal
  BY <1>1 DEF ProbeWal, ledgerVars
<1>2. CASE OpenLedger
  BY Zenon, <1>2 DEF OpenLedger, gwl_open, Goto, Replayed, ledgerVars
<1>3. CASE EnableExport
  BY Zenon, <1>3 DEF EnableExport, gwl_export_enable, Goto, ledgerVars
<1>4. CASE RecoverWal
  BY <1>4 DEF RecoverWal, Goto, ledgerVars
<1>5. CASE RecoverCommit
  BY Zenon, <1>5 DEF RecoverCommit, commit_observation, gwl_append, AppendFails, ChainFault, Mirror, ledgerVars
<1>6. CASE RecoverClear
  BY <1>6 DEF RecoverClear, Goto, ledgerVars
<1>7. CASE CommitConfig
  BY Zenon, <1>7 DEF CommitConfig, gwl_append, AppendFails, ChainFault, Mirror, Goto, ledgerVars
<1>8. CASE Listen
  BY <1>8 DEF Listen, Goto, ledgerVars
<1>9. ASSUME NEW p \in Prompt, AcceptRequest(p) PROVE FlagTypes'
  BY <1>9 DEF AcceptRequest, ledgerVars
<1>10. CASE RejectRequest
  BY <1>10 DEF RejectRequest, Return, ledgerVars
<1>11. CASE WriteIntent
  BY <1>11 DEF WriteIntent, ledgerVars
<1>12. CASE BuildBody
  BY <1>12 DEF BuildBody, Goto, Return, ledgerVars
<1>13. ASSUME NEW o \in Outcome, OracleCall(o) PROVE FlagTypes'
  BY <1>13 DEF OracleCall, ledgerVars
<1>14. CASE ClientFails
  BY <1>14 DEF ClientFails, Return, ledgerVars
<1>15. CASE CommitObs
  BY Zenon, <1>15 DEF CommitObs, commit_observation, gwl_append, AppendFails, ChainFault, Mirror, ledgerVars
<1>16. CASE CommitFallback
  BY Zenon, <1>16 DEF CommitFallback, commit_observation, gwl_append, AppendFails, ChainFault, Mirror, ledgerVars
<1>17. CASE CloseIntent
  BY <1>17 DEF CloseIntent, ledgerVars
<1>18. CASE Respond
  BY <1>18 DEF Respond, Return, ledgerVars
<1>19. CASE Shutdown
  BY <1>19 DEF Shutdown, Goto, ledgerVars
<1>20. CASE Exit
  BY Zenon, <1>20 DEF Exit, ProcessGone, LedgerVolatileReset
<1>21. CASE Kill
  BY Zenon, <1>21 DEF Kill, ProcessGone, LedgerVolatileReset
<1>22. CASE PowerLoss
  BY Zenon, <1>22 DEF PowerLoss, ProcessGone, LedgerVolatileReset
<1>23. CASE UNCHANGED vars
  BY <1>23 DEF vars, ledgerVars, procVars
<1> QED
  BY <1>1, <1>2, <1>3, <1>4, <1>5, <1>6, <1>7, <1>8, <1>9, <1>10, <1>11, <1>12, <1>13, <1>14, <1>15, <1>16, <1>17, <1>18, <1>19, <1>20, <1>21, <1>22, <1>23 DEF Next, Startup, Handling

(* commit_observation: what it appends is a frame, and what it leaves are  *)
(* ledgers.                                                                *)
LEMMA ObservationType ==
  ASSUME ProcessTypes, NEW id \in Nat \ {0}, NEW in \in Input, NEW r \in Result
  PROVE  Observation(id, in, r) \in ObsFrame
BY DEF ProcessTypes, Observation, ObsFrame, Result

(* commit_observation keeps the files well typed and the faults in budget. *)
LEMMA CommitTypes ==
  ASSUME FileTypes, ProcessTypes, NEW id \in Nat \ {0}, NEW in \in Input,
         NEW r \in Result, NEW rc \in {0, -1}, commit_observation(id, in, r, rc)
  PROVE  faults' \in 0 .. MaxFaults /\ LedgerFiles'
<1>1. Observation(id, in, r) \in Frame
  BY ObservationType DEF Frame
<1>2. CASE NoFault /\ UNCHANGED ledgerVars
  BY <1>2 DEF FileTypes, LedgerFiles, NoFault, ledgerVars
<1>3. CASE gwl_append(Observation(id, in, r), rc)
  <2>1. faults' \in 0 .. MaxFaults
    BY <1>3, FaultCount DEF FileTypes, gwl_append, AppendFails, ChainFault, Mirror
  <2>2. LedgerFiles'
    BY Zenon, <1>1, <1>3, AppendTypes DEF FileTypes, LedgerFiles
  <2> QED
    BY <2>1, <2>2
<1> QED
  BY <1>2, <1>3 DEF commit_observation

(* Every step keeps the intent file, the ledger and the export well typed. *)
LEMMA FileStep == FileTypes /\ ProcessTypes /\ GhostTypes /\ Control /\ [Next]_vars => FileTypes'
<1> SUFFICES ASSUME FileTypes, ProcessTypes, GhostTypes, Control, [Next]_vars PROVE FileTypes'
  OBVIOUS
<1> USE DEF FileTypes, LedgerFiles
<1>1. CASE ProbeWal
  BY <1>1, FaultCount DEF ProbeWal, walVars, ledgerVars, gw_wal_recover
<1>2. CASE OpenLedger
  <2>1. PICK rc \in {0, -1} : gwl_open(pc = "open_torn_ok", rc)
    BY <1>2 DEF OpenLedger
  <2>2. LedgerFiles'
    BY Zenon, <2>1, OpenTypes
  <2>3. faults' \in 0 .. MaxFaults
    BY <2>1, FaultCount DEF gwl_open
  <2> QED
    BY <1>2, <2>2, <2>3 DEF OpenLedger, walVars
<1>3. CASE EnableExport
  <2>1. CASE ~ExportPath
    BY <1>3, <2>1 DEF EnableExport, NoFault, walVars, ledgerVars
  <2>2. CASE ExportPath
    <3>1. PICK rc \in {0, -1} : gwl_export_enable(rc)
      BY <1>3, <2>2 DEF EnableExport
    <3>2. LedgerFiles'
      BY <3>1, ExportTypes
    <3>3. faults' \in 0 .. MaxFaults
      BY <3>1, FaultCount DEF gwl_export_enable
    <3> QED
      BY <1>3, <3>2, <3>3 DEF EnableExport, walVars
  <2> QED
    BY <2>1, <2>2
<1>4. CASE RecoverWal
  BY <1>4, FaultCount DEF RecoverWal, walVars, ledgerVars, gw_wal_recover
<1>5. CASE RecoverCommit
  <2>1. wal \in Intent
    BY <1>5 DEF RecoverCommit, Control
  <2>2. [kind |-> "unclosed", hash |-> wal.hash] \in Input
    BY <2>1 DEF Intent, Input
  <2>3. RecoveryResult \in Result
    BY ResultTypes
  <2>4. wal.id \in Nat \ {0}
    BY <2>1 DEF Intent
  <2>5. faults' \in 0 .. MaxFaults /\ LedgerFiles'
    BY <1>5, <2>2, <2>3, <2>4, CommitTypes DEF RecoverCommit
  <2> QED
    BY <1>5, <2>5 DEF RecoverCommit, walVars
<1>6. CASE RecoverClear
  <2>1. wal \in Intent
    BY <1>6 DEF RecoverClear, Control
  <2> QED
    BY <1>6, <2>1, WalTypes DEF RecoverClear, ledgerVars
<1>7. CASE CommitConfig
  <2>1. PICK rc \in {0, -1} : gwl_append([tag |-> "AX:STATE:v1", id |-> 0, whole |-> TRUE, model_id |-> model_id], rc)
    BY <1>7 DEF CommitConfig
  <2>2. [tag |-> "AX:STATE:v1", id |-> 0, whole |-> TRUE, model_id |-> model_id] \in Frame
    BY DEF ProcessTypes, Frame, StateFrame
  <2>3. LedgerFiles'
    BY <2>1, <2>2, AppendTypes
  <2>4. faults' \in 0 .. MaxFaults
    BY <2>1, FaultCount DEF gwl_append, AppendFails, ChainFault, Mirror
  <2> QED
    BY <1>7, <2>3, <2>4 DEF CommitConfig, walVars
<1>8. CASE Listen
  BY <1>8, FaultCount DEF Listen, walVars, ledgerVars
<1>9. ASSUME NEW p \in Prompt, AcceptRequest(p) PROVE FileTypes'
  BY <1>9 DEF AcceptRequest, NoFault, walVars, ledgerVars
<1>10. CASE RejectRequest
  BY <1>10 DEF RejectRequest, NoFault, walVars, ledgerVars
<1>11. CASE WriteIntent
  <2>1. cur \in Request
    BY <1>11 DEF WriteIntent, Control
  <2>2. [cur EXCEPT !.id = Len(issued) + 1] \in Intent
    BY <2>1, NewIntent DEF GhostTypes
  <2> QED
    BY <1>11, <2>2, WalTypes DEF WriteIntent, ledgerVars
<1>12. CASE BuildBody
  <2>1. cur \in Intent
    BY <1>12 DEF BuildBody, Control
  <2>2. CASE UNCHANGED walVars /\ NoFault
    BY <1>12, <2>2 DEF BuildBody, NoFault, walVars, ledgerVars
  <2>3. CASE \E rc \in {0, -1} : gw_wal_clear(rc)
    BY <1>12, <2>1, <2>3, WalTypes DEF BuildBody, ledgerVars
  <2> QED
    BY <1>12, <2>2, <2>3 DEF BuildBody
<1>13. ASSUME NEW o \in Outcome, OracleCall(o) PROVE FileTypes'
  BY <1>13 DEF OracleCall, NoFault, walVars, ledgerVars
<1>14. CASE ClientFails
  BY <1>14, FaultCount DEF ClientFails, walVars, ledgerVars
<1>15. CASE CommitObs
  <2>1. PromptInput \in Input /\ cur.id \in Nat \ {0} /\ res \in Result
    BY <1>15 DEF CommitObs, Control, PromptInput, Input, Intent
  <2>2. faults' \in 0 .. MaxFaults /\ LedgerFiles'
    BY <1>15, <2>1, CommitTypes DEF CommitObs
  <2> QED
    BY <1>15, <2>2 DEF CommitObs, walVars
<1>16. CASE CommitFallback
  <2>1. PromptInput \in Input /\ cur.id \in Nat \ {0} /\ res \in Result
    BY <1>16 DEF CommitFallback, Control, PromptInput, Input, Intent
  <2>2. faults' \in 0 .. MaxFaults /\ LedgerFiles'
    BY <1>16, <2>1, CommitTypes DEF CommitFallback
  <2> QED
    BY <1>16, <2>2 DEF CommitFallback, walVars
<1>17. CASE CloseIntent
  <2>1. cur \in Intent
    BY <1>17 DEF CloseIntent, Control
  <2> QED
    BY <1>17, <2>1, WalTypes DEF CloseIntent, ledgerVars
<1>18. CASE Respond
  BY <1>18 DEF Respond, NoFault, walVars, ledgerVars
<1>19. CASE Shutdown
  BY <1>19 DEF Shutdown, NoFault, walVars, ledgerVars
<1>20. CASE Exit
  BY <1>20 DEF Exit, NoFault, walVars
<1>21. CASE Kill
  BY <1>21 DEF Kill, NoFault, walVars
<1>22. CASE PowerLoss
  <2>1. /\ file' \in Seq(Frame) /\ disk' \in Seq(Frame) /\ export' \in Seq(Frame)
    BY <1>22, PersistedTypes DEF PowerLoss
  <2>2. wal' \in WalFile /\ walDisk' \in WalFile
    BY <1>22 DEF PowerLoss, WalPersisted, WalFile
  <2> QED
    BY <1>22, <2>1, <2>2 DEF PowerLoss, NoFault
<1>23. CASE UNCHANGED vars
  BY <1>23 DEF vars, walVars, ledgerVars
<1> QED
  BY Zenon, <1>1, <1>2, <1>3, <1>4, <1>5, <1>6, <1>7, <1>8, <1>9, <1>10, <1>11, <1>12, <1>13, <1>14, <1>15, <1>16, <1>17, <1>18, <1>19, <1>20, <1>21, <1>22, <1>23 DEF Next, Startup, Handling

(* commit_observation and the chain variables it may advance. *)
LEMMA CommitChain ==
  ASSUME ProcessTypes, NEW id \in Nat \ {0}, NEW in \in Input,
         NEW r \in Result, NEW rc \in {0, -1}, commit_observation(id, in, r, rc)
  PROVE  /\ g_seq' \in Nat /\ last_ledger_seq' \in Nat
         /\ g_last_payload' \in Frame \cup {None}
<1>1. Observation(id, in, r) \in Frame
  BY Zenon, ObservationType DEF Frame
<1> QED
  BY <1>1 DEF ProcessTypes, commit_observation, gwl_append, AppendFails, ChainFault, ledgerVars

(* Every step keeps the request and the result in hand well typed. *)
LEMMA ProcessStep == FileTypes /\ ProcessTypes /\ GhostTypes /\ Control /\ [Next]_vars => ProcessTypes'
<1> SUFFICES ASSUME FileTypes, ProcessTypes, GhostTypes, Control, [Next]_vars PROVE ProcessTypes'
  OBVIOUS
<1> USE DEF ProcessTypes
<1>1. CASE ProbeWal
  BY <1>1 DEF ProbeWal, PC, ledgerVars
<1>2. CASE OpenLedger
  <2>1. pc' \in PC /\ UNCHANGED <<model_id, last_ledger_seq, calls_made, cur, res>>
    BY <1>2 DEF OpenLedger, Goto, PC
  <2>2. g_seq' \in Nat /\ g_last_payload' \in Frame \cup {None}
    BY <1>2 DEF OpenLedger, gwl_open, Replayed, ledgerVars, FileTypes
  <2> QED
    BY <2>1, <2>2
<1>3. CASE EnableExport
  BY <1>3 DEF EnableExport, gwl_export_enable, Goto, PC, ledgerVars
<1>4. CASE RecoverWal
  BY <1>4 DEF RecoverWal, Goto, PC, ledgerVars
<1>5. CASE RecoverCommit
  <2>1. wal \in Intent
    BY <1>5 DEF RecoverCommit, Control
  <2>2. [kind |-> "unclosed", hash |-> wal.hash] \in Input /\ wal.id \in Nat \ {0}
    BY <2>1 DEF Intent, Input
  <2>3. RecoveryResult \in Result
    BY ResultTypes
  <2>4. /\ g_seq' \in Nat /\ last_ledger_seq' \in Nat
        /\ g_last_payload' \in Frame \cup {None}
    BY <1>5, <2>2, <2>3, CommitChain DEF RecoverCommit
  <2> QED
    BY <1>5, <2>4 DEF RecoverCommit, PC
<1>6. CASE RecoverClear
  BY <1>6 DEF RecoverClear, PC, Goto, ledgerVars
<1>7. CASE CommitConfig
  <2> DEFINE f == [tag |-> "AX:STATE:v1", id |-> 0, whole |-> TRUE, model_id |-> model_id]
  <2>1. f \in Frame
    BY DEF Frame, StateFrame
  <2>3. PICK rc \in {0, -1} : gwl_append(f, rc)
    BY <1>7 DEF CommitConfig
  <2> HIDE DEF f
  <2>2. g_seq' \in Nat /\ g_last_payload' \in Frame \cup {None}
    BY <2>1, <2>3 DEF gwl_append, AppendFails, ChainFault, ledgerVars
  <2> QED
    BY <1>7, <2>2 DEF CommitConfig, Goto, PC
<1>8. CASE Listen
  BY <1>8 DEF Listen, PC, Goto, ledgerVars
<1>9. ASSUME NEW p \in Prompt, AcceptRequest(p) PROVE ProcessTypes'
  BY <1>9 DEF AcceptRequest, PC, Request, ledgerVars
<1>10. CASE RejectRequest
  BY <1>10 DEF RejectRequest, PC, Return, ledgerVars
<1>11. CASE WriteIntent
  <2>1. cur \in Request
    BY <1>11 DEF WriteIntent, Control
  <2>2. [cur EXCEPT !.id = Len(issued) + 1] \in Request
    BY <2>1, NewIntent DEF GhostTypes
  <2> QED
    BY <1>11, <2>2 DEF WriteIntent, PC, ledgerVars
<1>12. CASE BuildBody
  BY <1>12 DEF BuildBody, PC, Goto, Return, ledgerVars
<1>13. ASSUME NEW o \in Outcome, OracleCall(o) PROVE ProcessTypes'
  BY <1>13, RecordedType DEF OracleCall, PC, ledgerVars
<1>14. CASE ClientFails
  BY <1>14 DEF ClientFails, PC, Return, ledgerVars
<1>15. CASE CommitObs
  <2>1. PromptInput \in Input /\ cur.id \in Nat \ {0} /\ res \in Result
    BY <1>15 DEF CommitObs, Control, PromptInput, Input, Intent
  <2>2. /\ g_seq' \in Nat /\ last_ledger_seq' \in Nat
        /\ g_last_payload' \in Frame \cup {None}
    BY <1>15, <2>1, CommitChain DEF CommitObs
  <2>3. /\ pc' \in PC /\ model_id' \in Model /\ calls_made' \in Nat
        /\ cur' \in Request \cup {None}
    BY <1>15 DEF CommitObs, PC
  <2>4. res' \in Result \cup {None}
    BY Zenon, <1>15, ResultTypes DEF CommitObs
  <2> QED
    BY Zenon, <2>2, <2>3, <2>4
<1>16. CASE CommitFallback
  <2>1. PromptInput \in Input /\ cur.id \in Nat \ {0} /\ res \in Result
    BY <1>16 DEF CommitFallback, Control, PromptInput, Input, Intent
  <2>2. /\ g_seq' \in Nat /\ last_ledger_seq' \in Nat
        /\ g_last_payload' \in Frame \cup {None}
    BY <1>16, <2>1, CommitChain DEF CommitFallback
  <2>3. /\ pc' \in PC /\ model_id' \in Model /\ calls_made' \in Nat
        /\ cur' \in Request \cup {None}
    BY <1>16 DEF CommitFallback, PC
  <2>4. res' \in Result \cup {None}
    BY <1>16, ResultTypes DEF CommitFallback
  <2> QED
    BY <2>2, <2>3, <2>4
<1>17. CASE CloseIntent
  BY <1>17 DEF CloseIntent, PC, ledgerVars
<1>18. CASE Respond
  BY <1>18 DEF Respond, PC, Return, ledgerVars
<1>19. CASE Shutdown
  BY <1>19 DEF Shutdown, PC, Goto, ledgerVars
<1>20. CASE Exit
  BY <1>20 DEF Exit, PC, ProcessGone, LedgerVolatileReset
<1>21. CASE Kill
  BY <1>21 DEF Kill, PC, ProcessGone, LedgerVolatileReset
<1>22. CASE PowerLoss
  BY <1>22 DEF PowerLoss, PC, ProcessGone, LedgerVolatileReset
<1>23. CASE UNCHANGED vars
  BY Zenon, <1>23 DEF vars, procVars, ledgerVars
<1> QED
  BY Zenon, <1>1, <1>2, <1>3, <1>4, <1>5, <1>6, <1>7, <1>8, <1>9, <1>10, <1>11, <1>12, <1>13, <1>14, <1>15, <1>16, <1>17, <1>18, <1>19, <1>20, <1>21, <1>22, <1>23 DEF Next, Startup, Handling

(* Every step keeps the history of intents, calls and answers well typed. *)
LEMMA GhostStep == ProcessTypes /\ GhostTypes /\ Control /\ [Next]_vars => GhostTypes'
<1> SUFFICES ASSUME ProcessTypes, GhostTypes, Control, [Next]_vars PROVE GhostTypes'
  OBVIOUS
<1> USE DEF GhostTypes
<1>1. CASE ProbeWal
  BY <1>1 DEF ProbeWal, ghostVars
<1>2. CASE OpenLedger
  BY <1>2 DEF OpenLedger, ghostVars
<1>3. CASE EnableExport
  BY <1>3 DEF EnableExport, ghostVars
<1>4. CASE RecoverWal
  BY <1>4 DEF RecoverWal, ghostVars
<1>5. CASE RecoverCommit
  BY <1>5 DEF RecoverCommit, ghostVars
<1>6. CASE RecoverClear
  BY <1>6 DEF RecoverClear, ghostVars
<1>7. CASE CommitConfig
  BY <1>7 DEF CommitConfig, ghostVars
<1>8. CASE Listen
  BY <1>8 DEF Listen, ghostVars
<1>9. ASSUME NEW p \in Prompt, AcceptRequest(p) PROVE GhostTypes'
  BY <1>9 DEF AcceptRequest, ghostVars
<1>10. CASE RejectRequest
  BY <1>10 DEF RejectRequest, ghostVars
<1>11. CASE WriteIntent
  <2>1. cur \in Request
    BY <1>11 DEF WriteIntent, Control
  <2>2. [cur EXCEPT !.id = Len(issued) + 1] \in Intent
    BY <2>1, NewIntent
  <2>3. issued' \in Seq(Intent)
    BY <1>11, <2>2 DEF WriteIntent
  <2> QED
    BY <1>11, <2>3 DEF WriteIntent
<1>12. CASE BuildBody
  BY <1>12 DEF BuildBody, ghostVars
<1>13. ASSUME NEW o \in Outcome, OracleCall(o) PROVE GhostTypes'
  <2>1. cur.id \in Nat \ {0}
    BY <1>13 DEF OracleCall, Control, Intent
  <2> QED
    BY Zenon, <1>13, <2>1 DEF OracleCall
<1>14. CASE ClientFails
  <2>1. cur.id \in Nat \ {0}
    BY <1>14 DEF ClientFails, Control, Intent
  <2> QED
    BY <1>14, <2>1 DEF ClientFails
<1>15. CASE CommitObs
  BY <1>15 DEF CommitObs, ghostVars
<1>16. CASE CommitFallback
  BY <1>16 DEF CommitFallback, ghostVars
<1>17. CASE CloseIntent
  BY <1>17 DEF CloseIntent, ghostVars
<1>18. CASE Respond
  <2>1. cur \in Intent /\ res \in Result
    BY Zenon, <1>18 DEF Respond, Control
  <2>2. Response \in Answer
    BY <2>1 DEF Response, Answer, Intent, Result, ProcessTypes
  <2> QED
    BY <1>18, <2>2 DEF Respond
<1>19. CASE Shutdown
  BY <1>19 DEF Shutdown
<1>20. CASE Exit
  BY <1>20 DEF Exit, ProcessGone
<1>21. CASE Kill
  BY <1>21 DEF Kill, ProcessGone
<1>22. CASE PowerLoss
  BY <1>22 DEF PowerLoss, ProcessGone
<1>23. CASE UNCHANGED vars
  BY Zenon, <1>23 DEF vars, ghostVars
<1> QED
  BY Zenon, <1>1, <1>2, <1>3, <1>4, <1>5, <1>6, <1>7, <1>8, <1>9, <1>10, <1>11, <1>12, <1>13, <1>14, <1>15, <1>16, <1>17, <1>18, <1>19, <1>20, <1>21, <1>22, <1>23 DEF Next, Startup, Handling

(* Every step leaves the thread with what its next operation needs. *)
LEMMA ControlStep == ProcessTypes /\ GhostTypes /\ Control /\ [Next]_vars => Control'
<1> SUFFICES ASSUME ProcessTypes, GhostTypes, Control, [Next]_vars PROVE Control'
  OBVIOUS
<1> USE DEF Control
<1>1. CASE ProbeWal
  BY <1>1 DEF ProbeWal, walVars
<1>2. CASE OpenLedger
  BY <1>2 DEF OpenLedger, Goto, walVars
<1>3. CASE EnableExport
  BY <1>3 DEF EnableExport, Goto, walVars
<1>4. CASE RecoverWal
  BY <1>4 DEF RecoverWal, gw_wal_recover, Goto, walVars
<1>5. CASE RecoverCommit
  BY <1>5 DEF RecoverCommit, walVars
<1>6. CASE RecoverClear
  BY <1>6 DEF RecoverClear, Goto
<1>7. CASE CommitConfig
  BY <1>7 DEF CommitConfig, Goto, walVars
<1>8. CASE Listen
  BY Zenon, <1>8 DEF Listen, Goto, walVars
<1>9. ASSUME NEW p \in Prompt, AcceptRequest(p) PROVE Control'
  BY Zenon, <1>9 DEF AcceptRequest, Request, ProcessTypes, walVars
<1>10. CASE RejectRequest
  BY <1>10 DEF RejectRequest, Return, walVars
<1>11. CASE WriteIntent
  <2>1. cur \in Request
    BY <1>11 DEF WriteIntent, Control
  <2>2. /\ [cur EXCEPT !.id = Len(issued) + 1] \in Intent
        /\ [cur EXCEPT !.id = Len(issued) + 1] \in Request
    BY <2>1, NewIntent DEF GhostTypes
  <2> QED
    BY <1>11, <2>2 DEF WriteIntent, gw_wal_write
<1>12. CASE BuildBody
  BY <1>12 DEF BuildBody, Goto, Return, walVars
<1>13. ASSUME NEW o \in Outcome, OracleCall(o) PROVE Control'
  BY <1>13, RecordedType DEF OracleCall, walVars
<1>14. CASE ClientFails
  BY <1>14 DEF ClientFails, Return, walVars
<1>15. CASE CommitObs
  BY <1>15, ResultTypes DEF CommitObs, walVars
<1>16. CASE CommitFallback
  BY <1>16 DEF CommitFallback, walVars
<1>17. CASE CloseIntent
  BY <1>17 DEF CloseIntent
<1>18. CASE Respond
  BY <1>18 DEF Respond, Return, walVars
<1>19. CASE Shutdown
  BY <1>19 DEF Shutdown, Goto, walVars
<1>20. CASE Exit
  BY <1>20 DEF Exit, ProcessGone
<1>21. CASE Kill
  BY <1>21 DEF Kill, ProcessGone
<1>22. CASE PowerLoss
  BY <1>22 DEF PowerLoss, ProcessGone
<1>23. CASE UNCHANGED vars
  BY <1>23 DEF vars, procVars, walVars
<1> QED
  BY Zenon, <1>1, <1>2, <1>3, <1>4, <1>5, <1>6, <1>7, <1>8, <1>9, <1>10, <1>11, <1>12, <1>13, <1>14, <1>15, <1>16, <1>17, <1>18, <1>19, <1>20, <1>21, <1>22, <1>23 DEF Next, Startup, Handling

(* All the groups together. *)
LEMMA TypeStep == TypeOK /\ [Next]_vars => TypeOK'
BY FlagStep, FileStep, ProcessStep, GhostStep, ControlStep DEF TypeOK

-----------------------------------------------------------------------------
(* Type correctness: every variable of the gateway always holds a value of *)
(* its kind, and the request, the result and the intent that a step of     *)
(* handle_request or recover_wal uses are there when it uses them.         *)
THEOREM TypeCorrect == Spec => []TypeOK
<1>1. Init => TypeOK
  BY InitTypes
<1>2. TypeOK /\ [Next]_vars => TypeOK'
  BY Zenon, TypeStep
<1> QED
  BY <1>1, <1>2, PTL DEF Spec

-----------------------------------------------------------------------------
(* The shape of the ledger.  WellFormed(s) is what LedgerWellFormed and    *)
(* SeqIsPosition say of one view of the file.                              *)

WellFormed(s) ==
  /\ TornOnlyAtEnd(s)
  /\ \A i \in 1 .. Len(s) : s[i].tag = "AX:OBS:v1" => s[i].ledger_seq = i

BothWellFormed == WellFormed(file) /\ WellFormed(disk)

(* The two shape invariants say the same of the page cache and the medium. *)
LEMMA ShapeDef == BothWellFormed <=> LedgerWellFormed /\ SeqIsPosition
BY DEF BothWellFormed, WellFormed, LedgerWellFormed, SeqIsPosition

(* A frame cut short keeps the ledger_seq of an observation. *)
LEMMA TornSeq ==
  ASSUME NEW f \in Frame, f.tag = "AX:OBS:v1"
  PROVE  Torn(f).ledger_seq = f.ledger_seq
BY DEF Torn, Frame, ObsFrame, StateFrame

(* A prefix of a well-formed ledger is well formed, its last frame cut     *)
(* short or not.                                                           *)
LEMMA TakeShape ==
  ASSUME NEW s \in Seq(Frame), WellFormed(s), NEW n \in 0 .. Len(s)
  PROVE  WellFormed(Take(s, n))
<1>1. Len(Take(s, n)) = n /\ \A i \in 1 .. n : Take(s, n)[i] = s[i]
  BY TakeType
<1>2. TornOnlyAtEnd(Take(s, n))
  BY <1>1 DEF WellFormed, TornOnlyAtEnd
<1>3. \A i \in 1 .. n : Take(s, n)[i].tag = "AX:OBS:v1" => Take(s, n)[i].ledger_seq = i
  BY <1>1 DEF WellFormed
<1> QED
  BY <1>1, <1>2, <1>3 DEF WellFormed

(* A ledger cut inside a frame is torn at its end only. *)
LEMMA TakeTornShape ==
  ASSUME NEW s \in Seq(Frame), WellFormed(s), NEW n \in 1 .. Len(s)
  PROVE  WellFormed(TakeTorn(s, n))
<1>1. s[n] \in Frame
  OBVIOUS
<1>2. TornOnlyAtEnd(TakeTorn(s, n))
  BY TakeTornType DEF WellFormed, TornOnlyAtEnd
<1>3. ASSUME NEW i \in 1 .. n, TakeTorn(s, n)[i].tag = "AX:OBS:v1"
      PROVE  TakeTorn(s, n)[i].ledger_seq = i
  <2>1. CASE i = n
    <3>1. TakeTorn(s, n)[i] = Torn(s[n])
      BY Zenon, <2>1, TakeTornType
    <3>2. s[n].tag = "AX:OBS:v1"
      BY Zenon, <1>1, <1>3, <3>1, TornFrame
    <3>3. Torn(s[n]).ledger_seq = s[n].ledger_seq
      BY Zenon, <1>1, <3>2, TornSeq
    <3> QED
      BY <2>1, <3>1, <3>2, <3>3 DEF WellFormed
  <2>2. CASE i # n
    <3>1. i \in 1 .. n - 1 /\ i \in 1 .. Len(s)
      BY <2>2
    <3>2. TakeTorn(s, n)[i] = s[i]
      BY Zenon, <3>1, TakeTornType
    <3> QED
      BY Zenon, <1>3, <3>1, <3>2 DEF WellFormed
  <2> QED
    BY <2>1, <2>2
<1> QED
  BY <1>2, <1>3, TakeTornType DEF WellFormed

(* A copy that stopped half way has the shape of its source. *)
LEMMA PartialCopyShape ==
  ASSUME NEW s \in Seq(Frame), WellFormed(s), NEW n \in Nat, NEW t \in PartialCopies(s, n)
  PROVE  WellFormed(t)
BY TakeShape, TakeTornShape DEF PartialCopies

(* Appending to whole frames only, at the position the frame carries. *)
LEMMA AppendShape ==
  ASSUME NEW s \in Seq(Frame), WellFormed(s), \A i \in 1 .. Len(s) : s[i].whole,
         NEW f \in Frame, f.tag = "AX:OBS:v1" => f.ledger_seq = Len(s) + 1
  PROVE  WellFormed(Append(s, f))
<1> DEFINE a == Append(s, f)
           n == Len(s)
<1>1. /\ Len(a) = n + 1
      /\ \A i \in 1 .. n : a[i] = s[i]
      /\ a[n + 1] = f
  BY AppendProperties
<1>2. n \in Nat
  OBVIOUS
<1>3. /\ \A i \in 1 .. n : s[i].whole
      /\ \A i \in 1 .. n : s[i].tag = "AX:OBS:v1" => s[i].ledger_seq = i
      /\ f.tag = "AX:OBS:v1" => f.ledger_seq = n + 1
  BY Zenon DEF WellFormed
<1> HIDE DEF a, n
<1>4. TornOnlyAtEnd(a)
  <2>1. Len(a) - 1 = n
    BY <1>1, <1>2
  <2> QED
    BY <1>1, <1>3, <2>1 DEF TornOnlyAtEnd
<1>5. ASSUME NEW i \in 1 .. Len(a) PROVE a[i].tag = "AX:OBS:v1" => a[i].ledger_seq = i
  <2>1. i \in 1 .. n \/ i = n + 1
    BY <1>1, <1>2
  <2> QED
    BY <1>1, <1>3, <2>1
<1>6. WellFormed(a)
  BY <1>4, <1>5 DEF WellFormed
<1> QED
  BY <1>6 DEF a

(* Whatever gwl_append does to a ledger the process is in step with, the   *)
(* ledger stays well formed; if it reports success it stays in step.       *)
LEMMA AppendStep ==
  ASSUME LedgerFiles, BothWellFormed, InStep, g_seq \in Nat,
         NEW f \in Frame, f.whole, f.tag = "AX:OBS:v1" => f.ledger_seq = g_seq + 1,
         NEW rc \in {0, -1}, gwl_append(f, rc)
  PROVE  /\ BothWellFormed'
         /\ rc = 0 => InStep'
         /\ rc = -1 => g_seq' = g_seq
<1>1. WellFormed(Append(file, f))
  BY Zenon, AppendShape DEF InStep, BothWellFormed, LedgerFiles
<1>2. WellFormed(Append(file, Torn(f)))
  <2>1. Torn(f) \in Frame /\ (Torn(f).tag = "AX:OBS:v1" => Torn(f).ledger_seq = Len(file) + 1)
    BY TornFrame, TornSeq DEF InStep
  <2> QED
    BY Zenon, <2>1, AppendShape DEF InStep, BothWellFormed, LedgerFiles
<1>3. file' \in {file, Append(file, f), Append(file, Torn(f))} /\ disk' \in {disk, Append(file, f)}
  BY DEF gwl_append, AppendFails, ChainFault, Synced, ledgerVars
<1>4. BothWellFormed'
  BY Zenon, <1>1, <1>2, <1>3 DEF BothWellFormed
<1>5. ASSUME rc = 0 PROVE InStep'
  <2>1. file' = Append(file, f) /\ g_seq' = g_seq + 1
    BY <1>5 DEF gwl_append, Synced
  <2> DEFINE a == Append(file, f)
             n == Len(file)
  <2>2. n \in Nat /\ Len(a) = n + 1 /\ (\A i \in 1 .. n : a[i] = file[i]) /\ a[n + 1] = f
    BY AppendProperties DEF LedgerFiles
  <2>3. n = g_seq /\ \A i \in 1 .. n : file[i].whole
    BY DEF InStep
  <2>4. file' = a
    BY <2>1
  <2> HIDE DEF a, n
  <2>5. \A i \in 1 .. Len(a) : a[i].whole
    <3> SUFFICES ASSUME NEW i \in 1 .. Len(a) PROVE a[i].whole
      OBVIOUS
    <3>1. i \in 1 .. n \/ i = n + 1
      BY <2>2
    <3> QED
      BY <3>1, <2>2, <2>3
  <2> QED
    BY Zenon, <2>1, <2>2, <2>3, <2>4, <2>5 DEF InStep
<1>6. rc = -1 => g_seq' = g_seq
  BY DEF gwl_append, AppendFails, ChainFault, ledgerVars
<1> QED
  BY <1>4, <1>5, <1>6

(* commit_observation from a process that is in step with its ledger.      *)
LEMMA CommitStep ==
  ASSUME FileTypes, ProcessTypes, BothWellFormed, InStep,
         NEW id \in Nat \ {0}, NEW in \in Input, NEW r \in Result, NEW rc \in {0, -1},
         commit_observation(id, in, r, rc)
  PROVE  /\ BothWellFormed'
         /\ rc = 0 => InStep'
         /\ rc = -1 => InStep' \/ last_ledger_seq' > g_seq'
<1>1. CASE UNCHANGED ledgerVars
  BY <1>1 DEF ledgerVars, BothWellFormed, InStep
<1>2. CASE gwl_append(Observation(id, in, r), rc) /\ last_ledger_seq' = g_seq + 1
  <2>1. Observation(id, in, r) \in Frame
    BY ObservationType DEF Frame
  <2>2. Observation(id, in, r).whole /\ Observation(id, in, r).ledger_seq = g_seq + 1
    BY DEF Observation
  <2>3. /\ BothWellFormed'
        /\ rc = 0 => InStep'
        /\ rc = -1 => g_seq' = g_seq
    BY <1>2, <2>1, <2>2, AppendStep DEF FileTypes, LedgerFiles, ProcessTypes
  <2> QED
    BY <1>2, <2>3 DEF ProcessTypes
<1> QED
  BY <1>1, <1>2 DEF commit_observation

(* Replaying: whatever gwl_open accepts, it is in step with it. *)
LEMMA OpenStep ==
  ASSUME LedgerFiles, BothWellFormed, NEW ok \in BOOLEAN, NEW rc \in {0, -1}, gwl_open(ok, rc)
  PROVE  BothWellFormed' /\ (rc = 0 => InStep')
<1>1. CASE rc = -1
  BY <1>1 DEF gwl_open, ledgerVars, BothWellFormed
<1>2. CASE rc = 0
  <2>1. PICK n \in 0 .. Len(file) :
          /\ \A i \in 1 .. n : file[i].whole
          /\ file' = Take(file, n) /\ g_seq' = n /\ disk' = disk
    BY <1>2 DEF gwl_open, CleanEnd, TornEnd, ReadFailsAfter, Replayed
  <2>2. /\ Len(file') = n /\ \A i \in 1 .. n : file'[i] = file[i]
    BY Zenon, <2>1, TakeType DEF LedgerFiles
  <2>3. WellFormed(file')
    BY <2>1, TakeShape DEF LedgerFiles, BothWellFormed
  <2> QED
    BY Zenon, <2>1, <2>2, <2>3 DEF BothWellFormed, InStep
<1> QED
  BY <1>1, <1>2

(* Steps that leave the ledger and the chain alone and do not open it.     *)
LEMMA QuietStep ==
  ASSUME BothWellFormed, UNCHANGED <<file, disk, g_seq>>
  PROVE  BothWellFormed' /\ (InStep => InStep')
BY Zenon DEF BothWellFormed, InStep

(* Every step keeps the ledger well formed and the chain in step with it. *)
LEMMA LedgerStep ==
  FileTypes /\ ProcessTypes /\ Control /\ BothWellFormed /\ ChainPosition /\ [Next]_vars
    => (BothWellFormed /\ ChainPosition)'
<1> SUFFICES ASSUME FileTypes, ProcessTypes, Control, BothWellFormed, ChainPosition, [Next]_vars PROVE (BothWellFormed /\ ChainPosition)'
  OBVIOUS
<1> USE DEF ChainPosition
<1>1. CASE ProbeWal
  BY <1>1, QuietStep DEF ProbeWal, LedgerOpenPc, Wedged, ledgerVars
<1>2. CASE OpenLedger
  <2>1. PICK rc \in {0, -1} : /\ gwl_open(pc = "open_torn_ok", rc)
                              /\ pc' = IF rc = 0 THEN "export" ELSE "exit"
    BY <1>2 DEF OpenLedger, Goto
  <2>2. BothWellFormed' /\ (rc = 0 => InStep')
    BY Zenon, <2>1, OpenStep DEF FileTypes, LedgerFiles
  <2> QED
    BY <2>1, <2>2 DEF LedgerOpenPc
<1>3. CASE EnableExport
  BY <1>3, QuietStep DEF EnableExport, LedgerOpenPc, Wedged, ledgerVars, gwl_export_enable, Goto
<1>4. CASE RecoverWal
  BY <1>4, QuietStep DEF RecoverWal, LedgerOpenPc, Wedged, ledgerVars, Goto
<1>5. CASE RecoverCommit
  <2>1. wal \in Intent /\ InStep
    BY <1>5 DEF RecoverCommit, Control, LedgerOpenPc, Wedged
  <2>2. [kind |-> "unclosed", hash |-> wal.hash] \in Input /\ wal.id \in Nat \ {0}
    BY <2>1 DEF Intent, Input
  <2>3. PICK rc \in {0, -1} :
          /\ commit_observation(wal.id, [kind |-> "unclosed", hash |-> wal.hash], RecoveryResult, rc)
          /\ pc' = IF rc = 0 THEN "recover_clear" ELSE "exit"
    BY <1>5 DEF RecoverCommit
  <2>4. BothWellFormed' /\ (rc = 0 => InStep')
    BY <2>1, <2>2, <2>3, CommitStep, ResultTypes
  <2> QED
    BY <2>3, <2>4 DEF LedgerOpenPc
<1>6. CASE RecoverClear
  BY <1>6, QuietStep DEF RecoverClear, LedgerOpenPc, Wedged, ledgerVars, Goto
<1>7. CASE CommitConfig
  <2> DEFINE f == [tag |-> "AX:STATE:v1", id |-> 0, whole |-> TRUE, model_id |-> model_id]
  <2>1. f \in Frame /\ f.whole /\ f.tag # "AX:OBS:v1"
    BY DEF Frame, StateFrame, ProcessTypes
  <2>2. PICK rc \in {0, -1} : gwl_append(f, rc) /\ pc' = IF rc = 0 THEN "listen" ELSE "exit"
    BY <1>7 DEF CommitConfig, Goto
  <2>3. InStep
    BY <1>7 DEF CommitConfig, LedgerOpenPc, Wedged
  <2> HIDE DEF f
  <2>4. BothWellFormed' /\ (rc = 0 => InStep')
    BY Zenon, <2>1, <2>2, <2>3, AppendStep DEF FileTypes, LedgerFiles, ProcessTypes
  <2> QED
    BY <2>2, <2>4 DEF LedgerOpenPc
<1>8. CASE Listen
  BY Zenon, <1>8, QuietStep DEF Listen, LedgerOpenPc, Wedged, ledgerVars, Goto
<1>9. ASSUME NEW p \in Prompt, AcceptRequest(p) PROVE (BothWellFormed /\ ChainPosition)'
  BY <1>9, QuietStep DEF AcceptRequest, LedgerOpenPc, Wedged, ledgerVars, walVars
<1>10. CASE RejectRequest
  BY <1>10, QuietStep DEF RejectRequest, LedgerOpenPc, Wedged, ledgerVars, Return, walVars
<1>11. CASE WriteIntent
  BY <1>11, QuietStep DEF WriteIntent, gw_wal_write, LedgerOpenPc, Wedged, ledgerVars, walVars
<1>12. CASE BuildBody
  BY <1>12, QuietStep DEF BuildBody, LedgerOpenPc, Wedged, ledgerVars, Goto, Return
<1>13. ASSUME NEW o \in Outcome, OracleCall(o) PROVE (BothWellFormed /\ ChainPosition)'
  BY <1>13, QuietStep DEF OracleCall, LedgerOpenPc, Wedged, ledgerVars
<1>14. CASE ClientFails
  BY Zenon, <1>14, QuietStep DEF ClientFails, LedgerOpenPc, Wedged, ledgerVars, Return
<1>15. CASE CommitObs
  <2>1. PromptInput \in Input /\ cur.id \in Nat \ {0} /\ res \in Result /\ wal # None
    BY Zenon, <1>15 DEF CommitObs, Control, PromptInput, Input, Intent
  <2>2. PICK rc \in {0, -1} : /\ commit_observation(cur.id, PromptInput, res, rc)
                              /\ rc = 0 => pc' = "close"
                              /\ rc = -1 => pc' \in {"fallback", "serving"}
    BY <1>15 DEF CommitObs
  <2>3. CASE InStep
    <3>1. /\ BothWellFormed'
          /\ rc = 0 => InStep'
          /\ rc = -1 => InStep' \/ last_ledger_seq' > g_seq'
      BY Zenon, <2>1, <2>2, <2>3, CommitStep
    <3> QED
      BY <1>15, <2>1, <2>2, <3>1 DEF CommitObs, Wedged, walVars
  <2>4. CASE Wedged
    BY <1>15, <2>4 DEF CommitObs, Wedged
  <2> QED
    BY Zenon, <1>15, <2>3, <2>4 DEF CommitObs, LedgerOpenPc
<1>16. CASE CommitFallback
  <2>1. PromptInput \in Input /\ cur.id \in Nat \ {0} /\ res \in Result /\ wal # None
    BY <1>16 DEF CommitFallback, Control, PromptInput, Input, Intent
  <2>2. PICK rc \in {0, -1} : /\ commit_observation(cur.id, PromptInput, res, rc)
                              /\ rc = 0 => pc' = "close"
                              /\ rc = -1 => pc' \in {"fallback", "serving"}
    BY <1>16 DEF CommitFallback
  <2>3. CASE InStep
    <3>1. /\ BothWellFormed'
          /\ rc = 0 => InStep'
          /\ rc = -1 => InStep' \/ last_ledger_seq' > g_seq'
      BY <2>1, <2>2, <2>3, CommitStep
    <3> QED
      BY Zenon, <1>16, <2>1, <2>2, <3>1 DEF CommitFallback, Wedged, walVars
  <2>4. CASE Wedged
    <3>1. ~ax_obs_admit(g_seq + 1, res)
      BY <2>4 DEF Wedged, ax_obs_admit, ProcessTypes
    <3>2. rc = -1 /\ UNCHANGED <<ledgerVars, last_ledger_seq>>
      BY Zenon, <2>2, <3>1 DEF commit_observation
    <3> QED
      BY <1>16, <2>2, <2>4, <3>2, QuietStep DEF CommitFallback, Wedged, ledgerVars, walVars
  <2> QED
    BY Zenon, <1>16, <2>3, <2>4 DEF CommitFallback, LedgerOpenPc
<1>17. CASE CloseIntent
  BY <1>17, QuietStep DEF CloseIntent, LedgerOpenPc, Wedged, ledgerVars
<1>18. CASE Respond
  BY <1>18, QuietStep DEF Respond, LedgerOpenPc, Wedged, ledgerVars, Return
<1>19. CASE Shutdown
  BY <1>19, QuietStep DEF Shutdown, LedgerOpenPc, Wedged, ledgerVars, Goto
<1>20. CASE Exit
  BY <1>20 DEF Exit, ProcessGone, LedgerOpenPc, BothWellFormed
<1>21. CASE Kill
  BY <1>21 DEF Kill, ProcessGone, LedgerOpenPc, BothWellFormed
<1>22. CASE PowerLoss
  <2>1. PICK f \in LedgerPersisted : file' = f /\ disk' = f
    BY <1>22 DEF PowerLoss
  <2>2. WellFormed(f)
    BY PartialCopyShape DEF LedgerPersisted, Agreed, BothWellFormed, FileTypes
  <2> QED
    BY <1>22, <2>1, <2>2 DEF PowerLoss, ProcessGone, LedgerOpenPc, BothWellFormed
<1>23. CASE UNCHANGED vars
  BY <1>23, QuietStep DEF vars, procVars, walVars, ledgerVars, Wedged
<1> QED
  BY Zenon, <1>1, <1>2, <1>3, <1>4, <1>5, <1>6, <1>7, <1>8, <1>9, <1>10, <1>11, <1>12, <1>13, <1>14, <1>15, <1>16, <1>17, <1>18, <1>19, <1>20, <1>21, <1>22, <1>23 DEF Next, Startup, Handling

(* The inductive invariant.  The shape of the file is not inductive by     *)
(* itself: that gwl_append only ever extends whole frames, at the position *)
(* that commit_observation predicted, is what ChainPosition says.          *)
LedgerInv == TypeOK /\ BothWellFormed /\ ChainPosition

(* The inductive invariant of the ledger holds in every behaviour. *)
LEMMA LedgerInvariant == Spec => []LedgerInv
<1>1. Init => LedgerInv
  BY InitTypes DEF Init, LedgerInit, LedgerInv, BothWellFormed, WellFormed, TornOnlyAtEnd,
                   ChainPosition, LedgerOpenPc
<1>2. LedgerInv /\ [Next]_vars => LedgerInv'
  BY TypeStep, LedgerStep DEF LedgerInv, TypeOK
<1> QED
  BY <1>1, <1>2, PTL DEF Spec

(***************************************************************************)
(* For every instance, read errors included: no frame is ever written      *)
(* after a torn one, in either view of the ledger, across every failed     *)
(* append, crash, power loss and restart.                                  *)
(***************************************************************************)
THEOREM NothingAfterTornFrame == Spec => []LedgerWellFormed
<1>1. LedgerInv => LedgerWellFormed
  BY ShapeDef DEF LedgerInv
<1> QED
  BY <1>1, LedgerInvariant, PTL

(***************************************************************************)
(* The ledger_seq that commit_observation puts into a record is the        *)
(* position at which a replay will find it, whatever failed in between.    *)
(***************************************************************************)
THEOREM SequenceNumbersHold == Spec => []SeqIsPosition
<1>1. LedgerInv => SeqIsPosition
  BY ShapeDef DEF LedgerInv
<1> QED
  BY <1>1, LedgerInvariant, PTL

(***************************************************************************)
(* A process that has the ledger open has replayed or written every frame  *)
(* in it, or has failed to append and will append nothing more.            *)
(***************************************************************************)
THEOREM InStepOrWedged == Spec => []ChainPosition
<1>1. LedgerInv => ChainPosition
  BY DEF LedgerInv
<1> QED
  BY <1>1, LedgerInvariant, PTL

-----------------------------------------------------------------------------
(* handle_request calls, and records, under its own durable intent. *)

(* Every step keeps the intent of the call in hand. *)
LEMMA OwnIntentStep == CallsUnderOwnIntent /\ [Next]_vars => CallsUnderOwnIntent'
<1> SUFFICES ASSUME CallsUnderOwnIntent, [Next]_vars PROVE CallsUnderOwnIntent'
  OBVIOUS
<1>1. CASE ProbeWal \/ OpenLedger \/ EnableExport \/ RecoverWal \/ RecoverCommit \/ RecoverClear
           \/ CommitConfig \/ Listen
  <2>1. pc' \notin {"body", "call", "commit", "fallback"}
    BY SMTT(30), <1>1 DEF ProbeWal, OpenLedger, EnableExport, RecoverWal, RecoverCommit, RecoverClear,
                CommitConfig, Listen, Goto, gw_wal_recover
  <2> QED
    BY <2>1 DEF CallsUnderOwnIntent
<1>2. CASE RejectRequest \/ ClientFails \/ CommitFallback \/ CloseIntent \/ Respond
           \/ Shutdown \/ Exit \/ Kill \/ PowerLoss \/ \E p \in Prompt : AcceptRequest(p)
  <2>1. pc' \notin {"body", "call", "commit", "fallback"}
    BY <1>2 DEF RejectRequest, ClientFails, CommitFallback, CloseIntent, Respond, Shutdown, Exit,
                Kill, PowerLoss, ProcessGone, Return, Goto, AcceptRequest
  <2> QED
    BY <2>1 DEF CallsUnderOwnIntent
<1>3. CASE WriteIntent
  <2> DEFINE in == [cur EXCEPT !.id = Len(issued) + 1]
  <2>1. PICK rc \in {0, -1} : /\ gw_wal_write(in, rc)
                              /\ pc' = IF rc = 0 THEN "body" ELSE "serving"
                              /\ cur' = IF rc = 0 THEN in ELSE None
    BY Zenon, <1>3 DEF WriteIntent
  <2> HIDE DEF in
  <2>2. CASE rc = 0
    BY <2>1, <2>2 DEF gw_wal_write, CallsUnderOwnIntent
  <2>3. CASE rc = -1
    BY <2>1, <2>3 DEF CallsUnderOwnIntent
  <2> QED
    BY <2>2, <2>3
<1>4. CASE BuildBody \/ CommitObs \/ \E o \in Outcome : OracleCall(o)
  <2>1. CASE pc' \in {"body", "call", "commit", "fallback"}
    <3>1. UNCHANGED <<wal, walDisk, cur>> /\ pc \in {"body", "call", "commit", "fallback"}
      BY <1>4, <2>1 DEF BuildBody, CommitObs, OracleCall, Goto, Return, walVars
    <3> QED
      BY Zenon, <3>1 DEF CallsUnderOwnIntent
  <2>2. CASE pc' \notin {"body", "call", "commit", "fallback"}
    BY <2>2 DEF CallsUnderOwnIntent
  <2> QED
    BY <2>1, <2>2
<1>5. CASE UNCHANGED vars
  BY Zenon, <1>5 DEF vars, procVars, walVars, CallsUnderOwnIntent
<1> QED
  BY Zenon, <1>1, <1>2, <1>3, <1>4, <1>5 DEF Next, Startup, Handling

(***************************************************************************)
(* A call is prepared, made and recorded only while the intent file, in    *)
(* both views, is that call's own.                                         *)
(***************************************************************************)
THEOREM CallsMadeUnderIntent == Spec => []CallsUnderOwnIntent
<1>1. Init => CallsUnderOwnIntent
  BY DEF Init, CallsUnderOwnIntent
<1> QED
  BY <1>1, OwnIntentStep, PTL DEF Spec

(* Once recover_wal has returned, no intent is open until a request writes *)
(* one.                                                                    *)
Recovered == pc \in {"config", "listen"} => wal = None

(* Every step keeps it, if reading does not fail. *)
LEMMA RecoveredStep ==
  ASSUME ReadErrors = FALSE
  PROVE  Recovered /\ [Next]_vars => Recovered'
<1> SUFFICES ASSUME Recovered, [Next]_vars PROVE Recovered'
  OBVIOUS
<1>1. CASE Startup
  <2>1. CASE RecoverWal
    BY <2>1 DEF RecoverWal, gw_wal_recover, Goto, walVars, Recovered
  <2>2. CASE RecoverClear
    BY <2>2 DEF RecoverClear, gw_wal_clear, Goto, Recovered
  <2>3. CASE CommitConfig
    BY <2>3 DEF CommitConfig, Goto, walVars, Recovered
  <2>4. CASE ProbeWal \/ OpenLedger \/ EnableExport \/ RecoverCommit \/ Listen
    <3>1. pc' \notin {"config", "listen"}
      BY <2>4 DEF ProbeWal, OpenLedger, EnableExport, RecoverCommit, Listen, Goto
    <3> QED
      BY <3>1 DEF Recovered
  <2> QED
    BY Zenon, <1>1, <2>1, <2>2, <2>3, <2>4 DEF Startup
<1>2. CASE Handling
  <2>1. pc' \notin {"config", "listen"}
    BY <1>2 DEF Handling, RejectRequest, WriteIntent, BuildBody, OracleCall, ClientFails, CommitObs,
                CommitFallback, CloseIntent, Respond, Goto, Return
  <2> QED
    BY <2>1 DEF Recovered
<1>3. CASE Shutdown \/ Exit \/ Kill \/ PowerLoss \/ \E p \in Prompt : AcceptRequest(p)
  <2>1. pc' \notin {"config", "listen"}
    BY <1>3 DEF Shutdown, Exit, Kill, PowerLoss, AcceptRequest, ProcessGone, Goto
  <2> QED
    BY <2>1 DEF Recovered
<1>4. CASE UNCHANGED vars
  BY Zenon, <1>4 DEF vars, procVars, walVars, Recovered
<1> QED
  BY Zenon, <1>1, <1>2, <1>3, <1>4 DEF Next

(* If reading does not fail, no start serves with an intent still open:    *)
(* recover_wal has closed it, or the start has exited.                     *)
THEOREM NoOpenIntentServed ==
  ASSUME ReadErrors = FALSE
  PROVE  Spec => []ServesWithIntentClosed
<1>1. Init => Recovered
  BY DEF Init, Recovered
<1>2. Recovered => ServesWithIntentClosed
  BY DEF Recovered, ServesWithIntentClosed
<1> QED
  BY <1>1, <1>2, RecoveredStep, PTL DEF Spec

-----------------------------------------------------------------------------
(* The records that handle_request makes. *)

ServedFrame(f) == f.tag = "AX:OBS:v1" /\ f.input.kind = "prompt"

(* Every such record in s is about one of ids. *)
ServedIn(ids, s) == \A i \in 1 .. Len(s) : ServedFrame(s[i]) => s[i].id \in ids

(* No two whole ones are about the same call. *)
ServedOnce(s) ==
  \A i, j \in 1 .. Len(s) :
    /\ s[i].whole /\ ServedFrame(s[i])
    /\ s[j].whole /\ ServedFrame(s[j])
    /\ s[i].id = s[j].id
    => i = j

(* t is s up to some frame, which may be cut short. *)
CopyOf(t, s) ==
  /\ Len(t) <= Len(s)
  /\ \A i \in 1 .. Len(t) : /\ t[i].whole => s[i].whole
                            /\ ServedFrame(t[i]) => ServedFrame(s[i])
                            /\ t[i].id = s[i].id

(* A frame cut short is about the same call. *)
LEMMA TornServed ==
  ASSUME NEW f \in Frame
  PROVE  Torn(f).id = f.id /\ ~Torn(f).whole /\ (ServedFrame(Torn(f)) <=> ServedFrame(f))
<1>1. CASE f \in ObsFrame
  BY <1>1 DEF Torn, ObsFrame, ServedFrame
<1>2. CASE f \in StateFrame
  BY <1>2 DEF Torn, StateFrame, ServedFrame
<1> QED
  BY <1>1, <1>2 DEF Frame

(* A copy has no record that its source does not have. *)
LEMMA CopyKeeps ==
  ASSUME NEW s \in Seq(Frame), NEW t \in Seq(Frame), CopyOf(t, s), ServedOnce(s),
         NEW ids, ServedIn(ids, s)
  PROVE  ServedOnce(t) /\ ServedIn(ids, t)
<1>1. \A i \in 1 .. Len(t) : i \in 1 .. Len(s)
  BY DEF CopyOf
<1>2. ServedIn(ids, t)
  BY Zenon, <1>1 DEF CopyOf, ServedIn
<1>3. ServedOnce(t)
  <2> SUFFICES ASSUME NEW i \in 1 .. Len(t), NEW j \in 1 .. Len(t),
                      t[i].whole, ServedFrame(t[i]), t[j].whole, ServedFrame(t[j]),
                      t[i].id = t[j].id
               PROVE  i = j
    BY Zenon DEF ServedOnce
  <2>1. /\ s[i].whole /\ ServedFrame(s[i]) /\ s[j].whole /\ ServedFrame(s[j])
        /\ s[i].id = s[j].id
    BY Zenon DEF CopyOf
  <2> QED
    BY Zenon, <1>1, <2>1 DEF ServedOnce
<1> QED
  BY <1>2, <1>3

(* What a replay keeps, and what a copy that stops has written. *)
LEMMA PartialIsCopy ==
  ASSUME NEW s \in Seq(Frame), NEW n \in Nat, NEW t \in PartialCopies(s, n)
  PROVE  t \in Seq(Frame) /\ CopyOf(t, s)
<1>1. CASE \E m \in n .. Len(s) : t = Take(s, m)
  <2>1. PICK m \in n .. Len(s) : t = Take(s, m)
    BY <1>1
  <2>2. m \in 0 .. Len(s)
    BY <2>1
  <2>3. t \in Seq(Frame) /\ Len(t) = m /\ \A i \in 1 .. m : t[i] = s[i]
    BY Zenon, <2>1, <2>2, TakeType
  <2>4. Len(t) <= Len(s)
    BY <2>2, <2>3
  <2>5. ASSUME NEW i \in 1 .. Len(t) PROVE t[i] = s[i]
    BY <2>3
  <2> QED
    BY Zenon, <2>3, <2>4, <2>5 DEF CopyOf
<1>2. CASE \E m \in (n + 1) .. Len(s) : t = TakeTorn(s, m)
  <2>1. PICK m \in (n + 1) .. Len(s) : t = TakeTorn(s, m)
    BY <1>2
  <2>2. m \in 1 .. Len(s)
    BY <2>1
  <2>3. t \in Seq(Frame) /\ Len(t) = m /\ (\A i \in 1 .. m - 1 : t[i] = s[i]) /\ t[m] = Torn(s[m])
    BY Zenon, <2>1, <2>2, TakeTornType
  <2>4. s[m] \in Frame
    BY <2>2
  <2>5. t[m].id = s[m].id /\ ~t[m].whole /\ (ServedFrame(t[m]) <=> ServedFrame(s[m]))
    <3>1. /\ Torn(s[m]).id = s[m].id /\ ~Torn(s[m]).whole
          /\ ServedFrame(Torn(s[m])) <=> ServedFrame(s[m])
      BY Zenon, <2>4, TornServed
    <3>2. t[m] = Torn(s[m])
      BY <2>3
    <3> QED
      BY Zenon, <3>1, <3>2
  <2>6. \A i \in 1 .. m : i \in 1 .. m - 1 \/ i = m
    BY <2>2
  <2>7. Len(t) <= Len(s)
    BY <2>2, <2>3
  <2> QED
    BY Zenon, <2>3, <2>5, <2>6, <2>7 DEF CopyOf
<1> QED
  BY <1>1, <1>2 DEF PartialCopies

(* Appending a record, whole or cut short, that no record is there for. *)
LEMMA AppendServed ==
  ASSUME NEW s \in Seq(Frame), ServedOnce(s), NEW ids, ServedIn(ids, s),
         NEW f \in Frame,
         ServedFrame(f) => f.id \in ids /\ ServedIn(Nat \ {f.id}, s)
  PROVE  ServedOnce(Append(s, f)) /\ ServedIn(ids, Append(s, f))
<1> DEFINE a == Append(s, f)
           n == Len(s)
<1>1. n \in Nat /\ Len(a) = n + 1 /\ (\A i \in 1 .. n : a[i] = s[i]) /\ a[n + 1] = f
  BY AppendProperties
<1> HIDE DEF a
<1>2. \A i \in 1 .. Len(a) : i \in 1 .. n \/ i = n + 1
  BY <1>1
<1>3. ServedIn(ids, a)
  BY Zenon, <1>1, <1>2 DEF ServedIn
<1>4. ServedOnce(a)
  <2> SUFFICES ASSUME NEW i \in 1 .. Len(a), NEW j \in 1 .. Len(a),
                      a[i].whole, ServedFrame(a[i]), a[j].whole, ServedFrame(a[j]),
                      a[i].id = a[j].id
               PROVE  i = j
    BY Zenon DEF ServedOnce
  <2>1. CASE i \in 1 .. n /\ j \in 1 .. n
    BY Zenon, <1>1, <2>1 DEF ServedOnce
  <2>2. ASSUME NEW k \in 1 .. n, ServedFrame(a[k]), a[k].id = f.id, ServedFrame(f) PROVE FALSE
    BY Zenon, <1>1, <2>2 DEF ServedIn
  <2> QED
    BY Zenon, <1>1, <1>2, <2>1, <2>2
<1> QED
  BY <1>3, <1>4 DEF a

-----------------------------------------------------------------------------
(* Both views of the ledger hold at most one record of a call, of calls    *)
(* that were made.                                                         *)
LedgerServed == /\ ServedOnce(file) /\ ServedIn(invoked, file)
                /\ ServedOnce(disk) /\ ServedIn(invoked, disk)

(* The ids of the calls made and in hand. *)
CallIds ==
  /\ invoked \subseteq 1 .. Len(issued)
  /\ pc \in {"body", "call"} => cur.id \in 1 .. Len(issued) /\ cur.id \notin invoked
  /\ pc \in {"commit", "fallback"} => cur.id \in invoked

(* The ledger has no record yet, torn or whole, of the call about to be    *)
(* recorded, unless an append has failed and admission refuses the next.   *)
NotYetServed ==
  /\ pc = "commit" => ServedIn(Nat \ {cur.id}, file)
  /\ pc = "fallback" => last_ledger_seq > g_seq \/ ServedIn(Nat \ {cur.id}, file)

ServedInv == LedgerServed /\ CallIds /\ NotYetServed

(* gwl_append adds at most this record to either view. *)
LEMMA AppendKeepsServed ==
  ASSUME LedgerFiles, LedgerServed, UNCHANGED invoked,
         NEW f \in Frame, ServedFrame(f) => f.id \in invoked /\ ServedIn(Nat \ {f.id}, file),
         NEW rc \in {0, -1}, gwl_append(f, rc)
  PROVE  LedgerServed'
<1>1. ServedOnce(Append(file, f)) /\ ServedIn(invoked, Append(file, f))
  BY Zenon, AppendServed DEF LedgerFiles, LedgerServed
<1>2. ServedOnce(Append(file, Torn(f))) /\ ServedIn(invoked, Append(file, Torn(f)))
  <2>1. /\ Torn(f) \in Frame
        /\ ServedFrame(Torn(f)) => Torn(f).id \in invoked /\ ServedIn(Nat \ {Torn(f).id}, file)
    BY Zenon, TornFrame, TornServed
  <2> QED
    BY Zenon, <2>1, AppendServed DEF LedgerFiles, LedgerServed
<1>3. file' \in {file, Append(file, f), Append(file, Torn(f))} /\ disk' \in {disk, Append(file, f)}
  BY DEF gwl_append, AppendFails, ChainFault, Synced, ledgerVars
<1> QED
  BY Zenon, <1>1, <1>2, <1>3 DEF LedgerServed

(* commit_observation, for a record that is not about a prompt or has no   *)
(* earlier one.                                                            *)
LEMMA CommitKeepsServed ==
  ASSUME LedgerFiles, ProcessTypes, LedgerServed, UNCHANGED invoked,
         NEW id \in Nat \ {0}, NEW in \in Input, NEW r \in Result, NEW rc \in {0, -1},
         \/ in.kind # "prompt"
         \/ id \in invoked /\ (last_ledger_seq > g_seq \/ ServedIn(Nat \ {id}, file)),
         commit_observation(id, in, r, rc)
  PROVE  LedgerServed'
<1>1. CASE UNCHANGED ledgerVars
  BY Zenon, <1>1 DEF ledgerVars, LedgerServed
<1>2. CASE ax_obs_admit(g_seq + 1, r) /\ gwl_append(Observation(id, in, r), rc)
  <2> DEFINE f == Observation(id, in, r)
  <2>1. f \in Frame
    BY Zenon, ObservationType DEF Frame
  <2>2. f.id = id /\ f.input = in
    BY DEF Observation
  <2>3. ~(last_ledger_seq > g_seq)
    BY <1>2 DEF ax_obs_admit, ProcessTypes
  <2>4. gwl_append(f, rc)
    BY <1>2
  <2> HIDE DEF f
  <2>5. ServedFrame(f) => f.id \in invoked /\ ServedIn(Nat \ {f.id}, file)
    BY Zenon, <2>2, <2>3 DEF ServedFrame
  <2> QED
    BY Zenon, <2>1, <2>4, <2>5, AppendKeepsServed
<1> QED
  BY Zenon, <1>1, <1>2 DEF commit_observation

(* A step that leaves the ledger alone keeps its records true. *)
LEMMA QuietKeepsServed ==
  ASSUME LedgerServed, UNCHANGED <<file, disk>>, invoked \subseteq invoked'
  PROVE  LedgerServed'
BY Zenon DEF LedgerServed, ServedIn, ServedOnce

(* Every step keeps the records in both views. *)
LEMMA ServedStep ==
  TypeOK /\ ServedInv /\ [Next]_vars => LedgerServed'
<1> SUFFICES ASSUME TypeOK, ServedInv, [Next]_vars PROVE LedgerServed'
  OBVIOUS
<1>0. LedgerFiles /\ LedgerServed
  BY Zenon DEF TypeOK, FileTypes, LedgerFiles, ServedInv
<1>1. CASE ProbeWal \/ EnableExport \/ RecoverWal \/ RecoverClear \/ Listen
  <2>1. UNCHANGED <<file, disk, invoked>>
    BY Zenon, <1>1 DEF ProbeWal, EnableExport, gwl_export_enable, RecoverWal, RecoverClear, Listen,
                       ledgerVars, ghostVars
  <2> QED
    BY Zenon, <1>0, <2>1, QuietKeepsServed
<1>2. CASE OpenLedger
  <2>1. UNCHANGED <<disk, invoked>> /\ (UNCHANGED file \/ \E n \in 0 .. Len(file) : file' = Take(file, n))
    BY Zenon, <1>2 DEF OpenLedger, gwl_open, ledgerVars, ghostVars
  <2>2. ASSUME NEW n \in 0 .. Len(file), file' = Take(file, n) PROVE LedgerServed'
    <3>1. Take(file, n) \in PartialCopies(file, 0)
      BY DEF PartialCopies
    <3>2. file' \in Seq(Frame) /\ CopyOf(file', file)
      BY Zenon, <1>0, <2>2, <3>1, PartialIsCopy, 0 \in Nat DEF LedgerFiles
    <3>3. ServedOnce(file') /\ ServedIn(invoked, file')
      BY Zenon, <1>0, <3>2, CopyKeeps DEF LedgerFiles, LedgerServed
    <3> QED
      BY Zenon, <1>0, <2>1, <3>3 DEF LedgerServed
  <2> QED
    BY Zenon, <1>0, <2>1, <2>2, QuietKeepsServed
<1>3. CASE RecoverCommit
  <2>1. wal \in Intent
    BY <1>3 DEF RecoverCommit, TypeOK, Control
  <2> DEFINE in == [kind |-> "unclosed", hash |-> wal.hash]
  <2>2. in \in Input /\ wal.id \in Nat \ {0} /\ in.kind # "prompt"
    BY <2>1 DEF Intent, Input
  <2>3. UNCHANGED invoked /\ \E rc \in {0, -1} : commit_observation(wal.id, in, RecoveryResult, rc)
    BY Zenon, <1>3 DEF RecoverCommit, ghostVars
  <2> HIDE DEF in
  <2> QED
    BY Zenon, <1>0, <2>2, <2>3, CommitKeepsServed, ResultTypes DEF TypeOK
<1>4. CASE CommitConfig
  <2> DEFINE f == [tag |-> "AX:STATE:v1", id |-> 0, whole |-> TRUE, model_id |-> model_id]
  <2>1. f \in Frame /\ ~ServedFrame(f)
    BY DEF Frame, StateFrame, TypeOK, ProcessTypes, ServedFrame
  <2>2. UNCHANGED invoked /\ \E rc \in {0, -1} : gwl_append(f, rc)
    BY Zenon, <1>4 DEF CommitConfig, ghostVars
  <2> HIDE DEF f
  <2> QED
    BY Zenon, <1>0, <2>1, <2>2, AppendKeepsServed
<1>5. CASE RejectRequest \/ WriteIntent \/ BuildBody \/ CloseIntent \/ Respond
           \/ Shutdown \/ \E p \in Prompt : AcceptRequest(p)
  <2>1. UNCHANGED <<file, disk, invoked>>
    BY Zenon, <1>5 DEF RejectRequest, WriteIntent, BuildBody, CloseIntent, Respond, Shutdown,
                       AcceptRequest, ledgerVars, ghostVars
  <2> QED
    BY Zenon, <1>0, <2>1, QuietKeepsServed
<1>6. CASE ClientFails \/ \E o \in Outcome : OracleCall(o)
  <2>1. UNCHANGED <<file, disk>> /\ invoked \subseteq invoked'
    BY Zenon, <1>6 DEF ClientFails, OracleCall, ledgerVars
  <2> QED
    BY Zenon, <1>0, <2>1, QuietKeepsServed
<1>7. CASE CommitObs \/ CommitFallback
  <2>1. PromptInput \in Input /\ cur.id \in Nat \ {0} /\ res \in Result
    BY <1>7 DEF CommitObs, CommitFallback, TypeOK, Control, PromptInput, Input, Intent
  <2>2. cur.id \in invoked /\ (last_ledger_seq > g_seq \/ ServedIn(Nat \ {cur.id}, file))
    BY Zenon, <1>7 DEF CommitObs, CommitFallback, ServedInv, CallIds, NotYetServed
  <2>3. UNCHANGED invoked /\ \E rc \in {0, -1} : commit_observation(cur.id, PromptInput, res, rc)
    BY Zenon, <1>7 DEF CommitObs, CommitFallback, ghostVars
  <2> QED
    BY ZenonT(40), <1>0, <2>1, <2>2, <2>3, CommitKeepsServed DEF TypeOK
<1>8. CASE Exit \/ Kill
  <2>1. UNCHANGED <<file, disk, invoked>>
    BY Zenon, <1>8 DEF Exit, Kill, ProcessGone
  <2> QED
    BY Zenon, <1>0, <2>1, QuietKeepsServed
<1>9. CASE PowerLoss
  <2>1. PICK f \in LedgerPersisted : file' = f /\ disk' = f /\ invoked' = invoked
    BY Zenon, <1>9 DEF PowerLoss, ProcessGone
  <2>2. ServedOnce(f) /\ ServedIn(invoked, f)
    <3>1. CASE f = disk
      BY Zenon, <1>0, <3>1 DEF LedgerServed
    <3>2. ASSUME NEW n \in Agreed, f \in PartialCopies(file, n) PROVE ServedOnce(f) /\ ServedIn(invoked, f)
      <4>1. n \in Nat
        BY DEF Agreed
      <4>2. f \in Seq(Frame) /\ CopyOf(f, file)
        BY Zenon, <1>0, <3>2, <4>1, PartialIsCopy DEF LedgerFiles
      <4> QED
        BY Zenon, <1>0, <4>2, CopyKeeps DEF LedgerFiles, LedgerServed
    <3> QED
      BY Zenon, <3>1, <3>2 DEF LedgerPersisted
  <2> QED
    BY Zenon, <2>1, <2>2 DEF LedgerServed
<1>10. CASE UNCHANGED vars
  <2>1. UNCHANGED <<file, disk, invoked>>
    BY Zenon, <1>10 DEF vars, ledgerVars, ghostVars
  <2> QED
    BY Zenon, <1>0, <2>1, QuietKeepsServed
<1> QED
  BY Zenon, <1>1, <1>2, <1>3, <1>4, <1>5, <1>6, <1>7, <1>8, <1>9, <1>10 DEF Next, Startup, Handling

-----------------------------------------------------------------------------
(* Every step keeps the ids of the calls. *)
LEMMA CallIdsStep == TypeOK /\ CallIds /\ [Next]_vars => CallIds'
<1> SUFFICES ASSUME TypeOK, CallIds, [Next]_vars PROVE CallIds'
  OBVIOUS
<1>0. issued \in Seq(Intent) /\ invoked \subseteq 1 .. Len(issued)
  BY Zenon DEF TypeOK, GhostTypes, CallIds
<1> DEFINE InHand == {"body", "call", "commit", "fallback"}
<1>a. ASSUME UNCHANGED <<issued, invoked>>, pc' \notin InHand PROVE CallIds'
  BY Zenon, <1>0, <1>a DEF CallIds
<1>1. CASE Startup
  <2>1. UNCHANGED <<issued, invoked>>
    BY Zenon, <1>1 DEF Startup, ProbeWal, OpenLedger, EnableExport, RecoverWal, RecoverCommit,
                       RecoverClear, CommitConfig, Listen, ghostVars
  <2>2. pc' \notin InHand
    BY <1>1 DEF Startup, ProbeWal, OpenLedger, EnableExport, RecoverWal, RecoverCommit, RecoverClear,
                CommitConfig, Listen, Goto, gw_wal_recover
  <2> QED
    BY <1>a, <2>1, <2>2
<1>2. CASE RejectRequest \/ CommitFallback \/ CloseIntent \/ Respond \/ Shutdown \/ Exit \/ Kill
           \/ PowerLoss \/ \E p \in Prompt : AcceptRequest(p)
  <2>1. UNCHANGED <<issued, invoked>>
    BY ZenonT(40), <1>2 DEF RejectRequest, CommitFallback, CloseIntent, Respond, Shutdown, Exit, Kill,
                       PowerLoss, AcceptRequest, ProcessGone, ghostVars
  <2>2. pc' \notin InHand
    BY <1>2 DEF RejectRequest, CommitFallback, CloseIntent, Respond, Shutdown, Exit, Kill,
                PowerLoss, AcceptRequest, ProcessGone, Goto, Return
  <2> QED
    BY <1>a, <2>1, <2>2
<1>3. CASE WriteIntent
  <2> DEFINE n == Len(issued)
             in == [cur EXCEPT !.id = n + 1]
  <2>1. /\ invoked' = invoked /\ issued' = Append(issued, in)
        /\ (pc' = "body" /\ cur' = in) \/ pc' = "serving"
    BY <1>3 DEF WriteIntent
  <2>2. cur \in Request
    BY <1>3 DEF WriteIntent, TypeOK, Control
  <2>3. in.id = n + 1
    BY <2>2 DEF Request
  <2>4. n \in Nat /\ Len(issued') = n + 1
    BY <1>0, <2>1
  <2> HIDE DEF n, in
  <2>5. invoked' \subseteq 1 .. Len(issued')
    BY <1>0, <2>1, <2>4 DEF n
  <2>6. pc' = "body" => cur'.id \in 1 .. Len(issued') /\ cur'.id \notin invoked'
    BY <1>0, <2>1, <2>3, <2>4 DEF n
  <2> QED
    BY <2>1, <2>5, <2>6 DEF CallIds
<1>4. CASE BuildBody
  <2>1. UNCHANGED <<issued, invoked>> /\ pc = "body"
    BY Zenon, <1>4 DEF BuildBody, ghostVars
  <2>2. (pc' = "call" /\ cur' = cur) \/ pc' = "serving"
    BY <1>4 DEF BuildBody, Goto, Return
  <2> QED
    BY <2>1, <2>2 DEF CallIds
<1>5. CASE ClientFails
  <2>1. /\ pc = "call" /\ issued' = issued /\ invoked' \in {invoked, invoked \cup {cur.id}}
        /\ pc' = "serving"
    BY <1>5 DEF ClientFails, Return
  <2> QED
    BY <2>1 DEF CallIds
<1>6. ASSUME NEW o \in Outcome, OracleCall(o) PROVE CallIds'
  <2>1. /\ pc = "call" /\ issued' = issued /\ invoked' = invoked \cup {cur.id}
        /\ pc' = "commit" /\ cur' = cur
    BY <1>6 DEF OracleCall
  <2> QED
    BY Zenon, <2>1 DEF CallIds
<1>7. CASE CommitObs
  <2>1. UNCHANGED <<issued, invoked>> /\ pc = "commit"
    BY Zenon, <1>7 DEF CommitObs, ghostVars
  <2>2. (pc' = "fallback" /\ cur' = cur) \/ pc' \in {"close", "serving"}
    BY <1>7 DEF CommitObs
  <2> QED
    BY <2>1, <2>2 DEF CallIds
<1>8. CASE UNCHANGED vars
  BY Zenon, <1>8 DEF vars, procVars, ghostVars, CallIds
<1> QED
  BY Zenon, <1>1, <1>2, <1>3, <1>4, <1>5, <1>6, <1>7, <1>8 DEF Next, Startup, Handling

(* Every step keeps the call in hand without a record. *)
LEMMA NotYetServedStep == TypeOK /\ ServedInv /\ [Next]_vars => NotYetServed'
<1> SUFFICES ASSUME TypeOK, ServedInv, [Next]_vars PROVE NotYetServed'
  OBVIOUS
<1>1. CASE Startup
  <2>1. pc' \notin {"commit", "fallback"}
    BY <1>1 DEF Startup, ProbeWal, OpenLedger, EnableExport, RecoverWal, RecoverCommit, RecoverClear,
                CommitConfig, Listen, Goto, gw_wal_recover
  <2> QED
    BY <2>1 DEF NotYetServed
<1>2. CASE RejectRequest \/ WriteIntent \/ BuildBody \/ ClientFails \/ CommitFallback \/ CloseIntent
           \/ Respond \/ Shutdown \/ Exit \/ Kill \/ PowerLoss \/ \E p \in Prompt : AcceptRequest(p)
  <2>1. pc' \notin {"commit", "fallback"}
    BY <1>2 DEF RejectRequest, WriteIntent, BuildBody, ClientFails, CommitFallback, CloseIntent,
                Respond, Shutdown, Exit, Kill, PowerLoss, AcceptRequest, ProcessGone, Goto, Return
  <2> QED
    BY <2>1 DEF NotYetServed
<1>3. ASSUME NEW o \in Outcome, OracleCall(o) PROVE NotYetServed'
  <2>1. pc = "call" /\ pc' = "commit" /\ cur' = cur /\ file' = file
    BY <1>3 DEF OracleCall, ledgerVars
  <2>2. cur.id \notin invoked /\ ServedIn(invoked, file) /\ invoked \subseteq Nat
    BY <2>1 DEF ServedInv, CallIds, LedgerServed, TypeOK, GhostTypes
  <2>3. ServedIn(Nat \ {cur.id}, file)
    BY Zenon, <2>2 DEF ServedIn
  <2>4. ServedIn(Nat \ {cur.id}, file)'
    BY Zenon, <2>1, <2>3
  <2> QED
    BY <2>1, <2>4 DEF NotYetServed
<1>4. CASE CommitObs
  <2>1. PICK rc \in {0, -1} : commit_observation(cur.id, PromptInput, res, rc)
                                /\ (pc' # "fallback" \/ rc = -1)
    BY <1>4 DEF CommitObs
  <2>2. (pc' = "fallback" /\ cur' = cur) \/ pc' \in {"close", "serving"}
    BY <1>4 DEF CommitObs
  <2>3. ServedIn(Nat \ {cur.id}, file)
    BY <1>4 DEF CommitObs, ServedInv, NotYetServed
  <2>4. CASE UNCHANGED ledgerVars
    <3>1. file' = file
      BY Zenon, <2>4 DEF ledgerVars
    <3>2. cur' = cur => ServedIn(Nat \ {cur.id}, file)'
      BY Zenon, <2>3, <3>1
    <3> QED
      BY <2>2, <3>2 DEF NotYetServed
  <2>5. CASE pc' = "fallback" /\ last_ledger_seq' = g_seq + 1 /\ gwl_append(Observation(cur.id, PromptInput, res), rc)
    <3>1. g_seq' = g_seq /\ g_seq \in Nat
      BY <2>1, <2>5 DEF gwl_append, AppendFails, ChainFault, ledgerVars, TypeOK, ProcessTypes
    <3> QED
      BY <2>5, <3>1 DEF NotYetServed
  <2>6. CASE pc' # "fallback"
    BY <2>2, <2>6 DEF NotYetServed
  <2> QED
    BY Zenon, <2>1, <2>4, <2>5, <2>6 DEF commit_observation
<1>5. CASE UNCHANGED vars
  BY Zenon, <1>5 DEF vars, procVars, ledgerVars, ServedInv, NotYetServed
<1> QED
  BY Zenon, <1>1, <1>2, <1>3, <1>4, <1>5 DEF Next, Handling

(***************************************************************************)
(* The inductive invariant.  AtMostOneServedRecord is not inductive: that  *)
(* the fallback record is not a second one follows from admission refusing *)
(* it whenever the first append was attempted.                             *)
(***************************************************************************)
LEMMA ServedInvariant == Spec => [](TypeOK /\ ServedInv)
<1>1. Init => TypeOK /\ ServedInv
  <2> SUFFICES ASSUME Init PROVE TypeOK /\ ServedInv
    OBVIOUS
  <2>1. file = <<>> /\ disk = <<>> /\ issued = <<>> /\ invoked = {} /\ pc = "down"
    BY DEF Init, LedgerInit
  <2> QED
    BY <2>1, InitTypes DEF ServedInv, LedgerServed, ServedOnce, ServedIn, CallIds, NotYetServed
<1>2. (TypeOK /\ ServedInv) /\ [Next]_vars => (TypeOK /\ ServedInv)'
  BY Zenon, TypeStep, ServedStep, CallIdsStep, NotYetServedStep DEF ServedInv
<1> QED
  BY <1>1, <1>2, PTL DEF Spec

(* A record of a prompt is about an oracle call that was made, in both     *)
(* views of the ledger.                                                    *)
THEOREM RecordsAreOfCalls == Spec => []ServedWasCalled
<1>1. TypeOK /\ ServedInv => ServedWasCalled
  BY Zenon DEF ServedInv, LedgerServed, ServedIn, ServedFrame, ServedWasCalled
<1> QED
  BY <1>1, ServedInvariant, PTL

(***************************************************************************)
(* However appends fail, and whatever dies, one request never gets two     *)
(* whole records of its own.                                               *)
(***************************************************************************)
THEOREM OneServedRecord == Spec => []AtMostOneServedRecord
<1>1. TypeOK /\ ServedInv => AtMostOneServedRecord
  <2> SUFFICES ASSUME TypeOK, ServedInv, NEW id \in 1 .. Len(issued)
               PROVE  \A i, j \in Served(file, id) : i = j
    BY DEF AtMostOneServedRecord
  <2>1. ASSUME NEW i \in Served(file, id)
        PROVE  i \in 1 .. Len(file) /\ file[i].whole /\ file[i].id = id /\ ServedFrame(file[i])
    <3>1. /\ i \in 1 .. Len(file) /\ file[i].whole /\ file[i].id = id
          /\ file[i].input.kind = "prompt"
      BY Zenon, <2>1 DEF Served, Records
    <3>2. file[i] \in Frame /\ file[i].id # 0
      BY SMTT(30), <3>1 DEF TypeOK, FileTypes
    <3>3. file[i].tag = "AX:OBS:v1"
      BY Zenon, <3>2 DEF Frame, ObsFrame, StateFrame
    <3> QED
      BY Zenon, <3>1, <3>3 DEF ServedFrame
  <2> QED
    BY Zenon, <2>1 DEF ServedInv, LedgerServed, ServedOnce
<1> QED
  BY <1>1, ServedInvariant, PTL

-----------------------------------------------------------------------------
(* The export. *)

(***************************************************************************)
(* From gwl_export_enable to the first synced append the export follows    *)
(* the file; from then on it follows the medium, which a process in step   *)
(* with its file has brought level with it.                                *)
(***************************************************************************)
ExportInv ==
  /\ pc \in {"down", "open", "open_torn_ok", "export"} => ~g_export_fd
  /\ pc \in {"recover", "recover_commit", "recover_clear", "config"} /\ g_export_fd => export = file
  /\ pc \in HandlingPc \cup {"listen"} => (g_export_fd => export = disk) /\ (InStep => disk = file)

(* gwl_append when the export follows the file. *)
LEMMA AppendMirrors ==
  ASSUME g_export_fd => export = file, NEW f, gwl_append(f, 0)
  PROVE  disk' = file' /\ (g_export_fd' => export' = file')
<1>1. Synced(f) /\ Mirror(f)
  BY DEF gwl_append
<1>2. file' = Append(file, f) /\ disk' = Append(file, f)
  BY <1>1 DEF Synced
<1>3. ASSUME g_export_fd' PROVE g_export_fd /\ export' = Append(export, f)
  BY Zenon, <1>1, <1>3 DEF Mirror
<1> QED
  BY Zenon, <1>2, <1>3

(* gwl_append, also one that fails, when all three are level. *)
LEMMA AppendLevel ==
  ASSUME LedgerFiles, InStep, disk = file, g_export_fd => export = disk,
         NEW f \in Frame, NEW rc \in {0, -1}, gwl_append(f, rc)
  PROVE  (g_export_fd' => export' = disk') /\ (InStep' => disk' = file')
<1>1. CASE UNCHANGED ledgerVars
  BY Zenon, <1>1 DEF ledgerVars
<1>2. CASE AppendFails(f)
  <2>1. /\ UNCHANGED <<disk, export, g_export_fd, g_seq>>
        /\ file' \in {file, Append(file, Torn(f)), Append(file, f)}
    BY Zenon, <1>2 DEF AppendFails
  <2>2. Torn(f) \in Frame
    BY Zenon, TornFrame
  <2>3. Len(Append(file, Torn(f))) # Len(file) /\ Len(Append(file, f)) # Len(file)
    BY <2>2, AppendProperties DEF LedgerFiles
  <2>4. InStep' => file' = file
    BY Zenon, <2>1, <2>3 DEF InStep
  <2> QED
    BY Zenon, <2>1, <2>4
<1>3. CASE Synced(f) /\ (ChainFault(f) \/ Mirror(f))
  <2>1. file' = Append(file, f) /\ disk' = Append(file, f)
    BY <1>3 DEF Synced
  <2>2. ASSUME g_export_fd' PROVE g_export_fd /\ export' = Append(export, f)
    BY Zenon, <1>3, <2>2 DEF ChainFault, Mirror
  <2> QED
    BY Zenon, <2>1, <2>2
<1> QED
  BY Zenon, <1>1, <1>2, <1>3 DEF gwl_append, ChainFault

(* Every step keeps the export in its place. *)
LEMMA ExportStep == TypeOK /\ ChainPosition /\ ExportInv /\ [Next]_vars => ExportInv'
<1> DEFINE Recovering == {"recover", "recover_commit", "recover_clear", "config"}
           Serving == HandlingPc \cup {"listen"}
<1> SUFFICES ASSUME TypeOK, ChainPosition, ExportInv, [Next]_vars PROVE ExportInv'
  OBVIOUS
<1>0. LedgerFiles
  BY Zenon DEF TypeOK, FileTypes, LedgerFiles
<1>a. ASSUME UNCHANGED <<file, disk, export, g_export_fd, g_seq>>,
             pc' \in {"open", "open_torn_ok"} => pc = "down",
             pc' \notin {"down", "export"},
             pc' \in Recovering => pc \in Recovering,
             pc' \in Serving => pc \in Serving
      PROVE  ExportInv'
  <2>1. InStep' <=> InStep
    BY Zenon, <1>a DEF InStep
  <2> QED
    BY Zenon, <1>a, <2>1 DEF ExportInv
<1>1. CASE ProbeWal
  <2>1. UNCHANGED ledgerVars /\ pc = "down" /\ pc' \in {"open", "open_torn_ok"}
    BY <1>1 DEF ProbeWal
  <2> QED
    BY Zenon, <2>1 DEF ledgerVars, ExportInv, HandlingPc
<1>2. CASE OpenLedger
  <2>1. UNCHANGED g_export_fd /\ pc \in {"open", "open_torn_ok"}
    BY Zenon, <1>2 DEF OpenLedger, gwl_open, ledgerVars
  <2>2. pc' \in {"export", "exit"}
    BY <1>2 DEF OpenLedger, Goto
  <2> QED
    BY Zenon, <2>1, <2>2 DEF ExportInv, HandlingPc
<1>3. CASE EnableExport
  <2>1. pc = "export" /\ pc' \in {"recover", "exit"}
    BY <1>3 DEF EnableExport, Goto
  <2>2. pc' = "recover" => (UNCHANGED g_export_fd \/ (export' = file /\ file' = file))
    BY <1>3 DEF EnableExport, gwl_export_enable, ledgerVars, Goto
  <2>3. ~g_export_fd
    BY Zenon, <2>1 DEF ExportInv
  <2>4. pc' = "recover" => (g_export_fd' => export' = file')
    BY Zenon, <2>2, <2>3
  <2> QED
    BY Zenon, <2>1, <2>4 DEF ExportInv, HandlingPc
<1>4. CASE RecoverWal \/ RecoverClear \/ Listen
  <2>1. UNCHANGED ledgerVars
    BY Zenon, <1>4 DEF RecoverWal, RecoverClear, Listen
  <2>2. \/ pc \in Recovering /\ pc' \in Recovering \cup {"exit"}
        \/ pc = "listen" /\ pc' \in {"serving", "exit"}
    BY <1>4 DEF RecoverWal, RecoverClear, Listen, Goto
  <2> QED
    BY Zenon, <2>1, <2>2, <1>a DEF ledgerVars, HandlingPc
<1>5. CASE RecoverCommit
  <2>1. PICK rc \in {0, -1} :
          /\ commit_observation(wal.id, [kind |-> "unclosed", hash |-> wal.hash], RecoveryResult, rc)
          /\ pc' = IF rc = 0 THEN "recover_clear" ELSE "exit"
    BY <1>5 DEF RecoverCommit
  <2>2. CASE rc = 0
    <3>1. \E f : gwl_append(f, 0)
      BY <2>1, <2>2 DEF commit_observation
    <3>2. g_export_fd => export = file
      BY Zenon, <1>5 DEF RecoverCommit, ExportInv
    <3>3. g_export_fd' => export' = file'
      BY Zenon, <3>1, <3>2, AppendMirrors
    <3>4. pc' = "recover_clear"
      BY <2>1, <2>2
    <3> QED
      BY Zenon, <3>3, <3>4 DEF ExportInv, HandlingPc
  <2>3. CASE rc = -1
    BY <2>1, <2>3 DEF ExportInv, HandlingPc
  <2> QED
    BY <2>2, <2>3
<1>6. CASE CommitConfig
  <2> DEFINE f == [tag |-> "AX:STATE:v1", id |-> 0, whole |-> TRUE, model_id |-> model_id]
  <2>1. PICK rc \in {0, -1} : gwl_append(f, rc) /\ pc' = IF rc = 0 THEN "listen" ELSE "exit"
    BY <1>6 DEF CommitConfig, Goto
  <2> HIDE DEF f
  <2>2. CASE rc = 0
    <3>1. g_export_fd => export = file
      BY Zenon, <1>6 DEF CommitConfig, ExportInv
    <3>2. disk' = file' /\ (g_export_fd' => export' = file')
      BY Zenon, <2>1, <2>2, <3>1, AppendMirrors
    <3>3. pc' = "listen"
      BY <2>1, <2>2
    <3> QED
      BY Zenon, <3>2, <3>3 DEF ExportInv
  <2>3. CASE rc = -1
    BY <2>1, <2>3 DEF ExportInv, HandlingPc
  <2> QED
    BY <2>2, <2>3
<1>7. CASE RejectRequest \/ WriteIntent \/ BuildBody \/ ClientFails \/ CloseIntent \/ Respond
           \/ Shutdown \/ (\E p \in Prompt : AcceptRequest(p)) \/ (\E o \in Outcome : OracleCall(o))
  <2>1. UNCHANGED ledgerVars
    BY Zenon, <1>7 DEF RejectRequest, WriteIntent, BuildBody, ClientFails, CloseIntent, Respond,
                       Shutdown, AcceptRequest, OracleCall
  <2>2. pc \in HandlingPc
    BY <1>7 DEF RejectRequest, WriteIntent, BuildBody, ClientFails, CloseIntent, Respond,
                Shutdown, AcceptRequest, OracleCall, HandlingPc
  <2>3. pc' \in HandlingPc \cup {"exit"}
    BY <1>7 DEF RejectRequest, WriteIntent, BuildBody, ClientFails, CloseIntent, Respond,
                Shutdown, AcceptRequest, OracleCall, HandlingPc, Return, Goto
  <2> QED
    BY Zenon, <2>1, <2>2, <2>3, <1>a DEF ledgerVars, HandlingPc
<1>8. CASE CommitObs \/ CommitFallback
  <2>1. PromptInput \in Input /\ cur.id \in Nat \ {0} /\ res \in Result
    BY Zenon, <1>8 DEF CommitObs, CommitFallback, TypeOK, Control, PromptInput, Input, Intent
  <2>2. pc \in {"commit", "fallback"} /\ pc' \in {"close", "fallback", "serving"}
    BY <1>8 DEF CommitObs, CommitFallback
  <2>3. PICK rc \in {0, -1} : commit_observation(cur.id, PromptInput, res, rc)
    BY Zenon, <1>8 DEF CommitObs, CommitFallback
  <2>4. CASE UNCHANGED ledgerVars
    BY Zenon, <2>2, <2>4, <1>a DEF ledgerVars, HandlingPc
  <2>5. CASE ax_obs_admit(g_seq + 1, res) /\ gwl_append(Observation(cur.id, PromptInput, res), rc)
    <3>1. ~(last_ledger_seq > g_seq)
      BY <2>5 DEF ax_obs_admit, TypeOK, ProcessTypes
    <3>2. InStep
      BY <2>2, <3>1 DEF ChainPosition, LedgerOpenPc, Wedged
    <3>3. disk = file /\ (g_export_fd => export = disk)
      BY Zenon, <2>2, <3>2 DEF ExportInv, HandlingPc
    <3>4. Observation(cur.id, PromptInput, res) \in Frame
      BY Zenon, <2>1, ObservationType DEF Frame, TypeOK
    <3>5. (g_export_fd' => export' = disk') /\ (InStep' => disk' = file')
      BY Zenon, <1>0, <2>5, <3>2, <3>3, <3>4, AppendLevel
    <3> QED
      BY Zenon, <2>2, <3>5 DEF ExportInv
  <2> QED
    BY ZenonT(40), <2>3, <2>4, <2>5 DEF commit_observation
<1>9. CASE Exit \/ Kill \/ PowerLoss
  <2>1. pc' = "down" /\ g_export_fd' = FALSE
    BY Zenon, <1>9 DEF Exit, Kill, PowerLoss, ProcessGone, LedgerVolatileReset
  <2> QED
    BY Zenon, <2>1 DEF ExportInv, HandlingPc
<1>10. CASE UNCHANGED vars
  <2>1. UNCHANGED <<file, disk, export, g_export_fd, g_seq, pc>>
    BY Zenon, <1>10 DEF vars, ledgerVars, procVars
  <2>2. InStep' <=> InStep
    BY Zenon, <2>1 DEF InStep
  <2> QED
    BY Zenon, <2>1, <2>2 DEF ExportInv
<1> QED
  BY Zenon, <1>1, <1>2, <1>3, <1>4, <1>5, <1>6, <1>7, <1>8, <1>9, <1>10 DEF Next, Startup, Handling

(***************************************************************************)
(* While requests are handled, an export that is still active is, frame by *)
(* frame, what is on the medium.                                           *)
(***************************************************************************)
THEOREM ExportFollowsMedium == Spec => []ActiveExportIsCurrent
<1>1. Init => LedgerInv /\ ExportInv
  <2> SUFFICES ASSUME Init PROVE LedgerInv /\ ExportInv
    OBVIOUS
  <2>1. file = <<>> /\ disk = <<>> /\ pc = "down" /\ g_export_fd = FALSE
    BY DEF Init, LedgerInit
  <2>2. LedgerInv
    BY <2>1, InitTypes DEF LedgerInv, BothWellFormed, WellFormed, TornOnlyAtEnd, ChainPosition,
                           LedgerOpenPc
  <2>3. ExportInv
    BY Zenon, <2>1 DEF ExportInv, HandlingPc
  <2> QED
    BY <2>2, <2>3
<1>2. (LedgerInv /\ ExportInv) /\ [Next]_vars => (LedgerInv /\ ExportInv)'
  BY Zenon, TypeStep, LedgerStep, ExportStep DEF LedgerInv, TypeOK
<1>3. LedgerInv /\ ExportInv => ActiveExportIsCurrent
  BY Zenon DEF ExportInv, ActiveExportIsCurrent
<1> QED
  BY <1>1, <1>2, <1>3, PTL DEF Spec
=============================================================================
