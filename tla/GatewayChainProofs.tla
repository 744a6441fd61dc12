------------------------- MODULE GatewayChainProofs -------------------------
(***************************************************************************)
(* What holds in every instance in which reading an existing file does not *)
(* fail.  The gateway implements EvidenceChain, and has the properties     *)
(* that go with it: with read errors they are false, for gwl_open then     *)
(* truncates whole frames.  And what recovery achieves when processes are  *)
(* killed, at any point and any number of times, but the machine keeps its *)
(* power.                                                                  *)
(***************************************************************************)
EXTENDS GatewayProofs

-----------------------------------------------------------------------------
(* Facts about prefixes and whole frames. *)

AllWhole(s) == \A i \in 1 .. Len(s) : s[i].whole

(* The whole frames of a ledger are its frames, the torn last one left out. *)
LEMMA WholePart ==
  ASSUME NEW s \in Seq(Frame), TornOnlyAtEnd(s)
  PROVE  /\ WholeFrames(s) \in Seq(Frame)
         /\ AllWhole(WholeFrames(s))
         /\ Chain!Extends(WholeFrames(s), s)
         /\ Len(s) <= Len(WholeFrames(s)) + 1
         /\ s = <<>> \/ s[Len(s)].whole => WholeFrames(s) = s
<1>1. CASE s # <<>> /\ ~s[Len(s)].whole
  <2> DEFINE n == Len(s) - 1
  <2>1. n \in 0 .. Len(s) /\ Len(s) = n + 1
    BY <1>1, EmptySeq
  <2>2. WholeFrames(s) = Take(s, n)
    BY SMTT(30), <1>1 DEF WholeFrames, Take
  <2>3. /\ Take(s, n) \in Seq(Frame) /\ Len(Take(s, n)) = n
        /\ \A i \in 1 .. n : Take(s, n)[i] = s[i]
    BY Zenon, <2>1, TakeType
  <2>4. \A i \in 1 .. n : s[i].whole
    BY DEF TornOnlyAtEnd
  <2> HIDE DEF n
  <2> QED
    BY <1>1, <2>1, <2>2, <2>3, <2>4 DEF AllWhole, Chain!Extends
<1>2. CASE s = <<>> \/ s[Len(s)].whole
  <2>1. WholeFrames(s) = s
    BY <1>2 DEF WholeFrames
  <2>2. ASSUME NEW i \in 1 .. Len(s) PROVE s[i].whole
    <3>1. s # <<>>
      BY <2>2
    <3>2. i \in 1 .. Len(s) - 1 \/ i = Len(s)
      BY <2>2
    <3> QED
      BY <1>2, <3>1, <3>2 DEF TornOnlyAtEnd
  <2> QED
    BY <2>1, <2>2 DEF AllWhole, Chain!Extends
<1> QED
  BY <1>1, <1>2

(* Extending is transitive. *)
LEMMA ExtendsTransitive ==
  ASSUME NEW s \in Seq(Frame), NEW t \in Seq(Frame), NEW u \in Seq(Frame),
         Chain!Extends(s, t), Chain!Extends(t, u)
  PROVE  Chain!Extends(s, u)
BY DEF Chain!Extends

(* A sequence of whole frames at the start of a ledger is at the start of  *)
(* its whole frames.                                                       *)
LEMMA ExtendsWhole ==
  ASSUME NEW s \in Seq(Frame), AllWhole(s), NEW t \in Seq(Frame), TornOnlyAtEnd(t),
         Chain!Extends(s, t)
  PROVE  Chain!Extends(s, WholeFrames(t))
<1>1. /\ WholeFrames(t) \in Seq(Frame) /\ Chain!Extends(WholeFrames(t), t)
      /\ Len(t) <= Len(WholeFrames(t)) + 1
      /\ t = <<>> \/ t[Len(t)].whole => WholeFrames(t) = t
  BY WholePart
<1>2. CASE t = <<>> \/ t[Len(t)].whole
  BY <1>1, <1>2
<1>3. CASE t # <<>> /\ ~t[Len(t)].whole
  <2>1. Len(s) # Len(t)
    BY <1>3, EmptySeq DEF AllWhole, Chain!Extends
  <2> QED
    BY <1>1, <2>1 DEF Chain!Extends
<1> QED
  BY <1>2, <1>3

(* Appending extends. *)
LEMMA ExtendsAppend ==
  ASSUME NEW s \in Seq(Frame), NEW f \in Frame
  PROVE  Append(s, f) \in Seq(Frame) /\ Chain!Extends(s, Append(s, f))
<1>1. /\ Append(s, f) \in Seq(Frame) /\ Len(Append(s, f)) = Len(s) + 1
      /\ \A i \in 1 .. Len(s) : Append(s, f)[i] = s[i]
  BY AppendProperties
<1> QED
  BY <1>1 DEF Chain!Extends

(* A ledger extends itself. *)
LEMMA ExtendsSelf ==
  ASSUME NEW s \in Seq(Frame)
  PROVE  Chain!Extends(s, s)
BY DEF Chain!Extends

(* A copy of a ledger that reached frame n, or stopped inside the next,    *)
(* keeps what n frames or fewer extend.                                    *)
LEMMA ExtendsPartialCopy ==
  ASSUME NEW s \in Seq(Frame), NEW t \in Seq(Frame), Chain!Extends(s, t),
         NEW n \in 0 .. Len(t), Len(s) <= n, NEW u \in PartialCopies(t, n)
  PROVE  u \in Seq(Frame) /\ Chain!Extends(s, u)
<1>1. CASE \E m \in n .. Len(t) : u = Take(t, m)
  <2>1. PICK m \in n .. Len(t) : u = Take(t, m)
    BY <1>1
  <2>2. u \in Seq(Frame) /\ Len(u) = m /\ \A i \in 1 .. m : u[i] = t[i]
    BY <2>1, TakeType
  <2> QED
    BY <2>1, <2>2 DEF Chain!Extends
<1>2. CASE \E m \in (n + 1) .. Len(t) : u = TakeTorn(t, m)
  <2>1. PICK m \in (n + 1) .. Len(t) : u = TakeTorn(t, m)
    BY <1>2
  <2>2. u \in Seq(Frame) /\ Len(u) = m /\ \A i \in 1 .. m - 1 : u[i] = t[i]
    BY <2>1, TakeTornType
  <2> QED
    BY <2>1, <2>2 DEF Chain!Extends
<1> QED
  BY <1>1, <1>2 DEF PartialCopies

-----------------------------------------------------------------------------
(* The ways in which a step can move the two views of the ledger. *)

(* A start replays the ledger. *)
Opens == \E ok \in BOOLEAN, rc \in {0, -1} : gwl_open(ok, rc)

(* A process in step with its ledger appends one whole frame. *)
AppendsFrame == /\ InStep
                /\ \E f \in Frame, rc \in {0, -1} : f.whole /\ gwl_append(f, rc)

(* commit_observation leaves the ledger alone or appends a whole frame. *)
LEMMA CommitMoves ==
  ASSUME ProcessTypes, InStep, NEW id \in Nat \ {0}, NEW in \in Input,
         NEW r \in Result, NEW rc \in {0, -1}, commit_observation(id, in, r, rc)
  PROVE  UNCHANGED <<file, disk>> \/ AppendsFrame
<1>1. Observation(id, in, r) \in Frame
  BY Zenon, ObservationType DEF Frame
<1>2. Observation(id, in, r).whole
  BY DEF Observation
<1> QED
  BY Zenon, <1>1, <1>2 DEF commit_observation, ledgerVars, AppendsFrame

(* No other step than these touches the ledger. *)
LEMMA FileMoves ==
  TypeOK /\ ChainPosition /\ [Next]_vars
    => UNCHANGED <<file, disk>> \/ Opens \/ AppendsFrame \/ PowerLoss
<1> DEFINE Goal == UNCHANGED <<file, disk>> \/ Opens \/ AppendsFrame \/ PowerLoss
<1> SUFFICES ASSUME TypeOK, ChainPosition, [Next]_vars PROVE Goal
  OBVIOUS
<1> USE DEF TypeOK
<1>1. CASE ProbeWal \/ RecoverWal \/ RecoverClear \/ Listen \/ RejectRequest \/ WriteIntent
  BY Zenon, <1>1 DEF ProbeWal, RecoverWal, RecoverClear, Listen, RejectRequest, WriteIntent, ledgerVars
<1>2. CASE OpenLedger
  <2>1. (pc = "open_torn_ok") \in BOOLEAN
    OBVIOUS
  <2> QED
    BY Zenon, <1>2, <2>1 DEF OpenLedger, Opens
<1>3. CASE EnableExport
  BY Zenon, <1>3 DEF EnableExport, gwl_export_enable, ledgerVars
<1>4. CASE RecoverCommit
  <2>1. wal \in Intent /\ InStep
    BY <1>4 DEF RecoverCommit, Control, ChainPosition, LedgerOpenPc, Wedged
  <2>2. [kind |-> "unclosed", hash |-> wal.hash] \in Input /\ wal.id \in Nat \ {0}
    BY <2>1 DEF Intent, Input
  <2> QED
    BY Zenon, <1>4, <2>1, <2>2, CommitMoves, ResultTypes DEF RecoverCommit
<1>5. CASE CommitConfig
  <2> DEFINE f == [tag |-> "AX:STATE:v1", id |-> 0, whole |-> TRUE, model_id |-> model_id]
  <2>1. f \in Frame /\ f.whole
    BY DEF Frame, StateFrame, ProcessTypes
  <2>2. \E rc \in {0, -1} : gwl_append(f, rc)
    BY <1>5 DEF CommitConfig
  <2>3. InStep
    BY <1>5 DEF CommitConfig, ChainPosition, LedgerOpenPc, Wedged
  <2> HIDE DEF f
  <2> QED
    BY Zenon, <2>1, <2>2, <2>3 DEF AppendsFrame
<1>6. ASSUME NEW p \in Prompt, AcceptRequest(p) PROVE Goal
  BY Zenon, <1>6 DEF AcceptRequest, ledgerVars
<1>7. ASSUME NEW o \in Outcome, OracleCall(o) PROVE Goal
  BY Zenon, <1>7 DEF OracleCall, ledgerVars
<1>8. CASE BuildBody \/ ClientFails \/ CloseIntent \/ Respond \/ Shutdown \/ Exit \/ Kill
  BY Zenon, <1>8 DEF BuildBody, ClientFails, CloseIntent, Respond, Shutdown, Exit, Kill, ledgerVars
<1>9. CASE CommitObs
  <2>1. PromptInput \in Input /\ cur.id \in Nat \ {0} /\ res \in Result
    BY <1>9 DEF CommitObs, Control, PromptInput, Input, Intent
  <2>2. InStep
    BY <1>9 DEF CommitObs, ChainPosition, LedgerOpenPc, Wedged
  <2> QED
    BY Zenon, <1>9, <2>1, <2>2, CommitMoves DEF CommitObs
<1>10. CASE CommitFallback
  <2>1. PromptInput \in Input /\ cur.id \in Nat \ {0} /\ res \in Result
    BY <1>10 DEF CommitFallback, Control, PromptInput, Input, Intent
  <2>2. CASE InStep
    BY Zenon, <1>10, <2>1, <2>2, CommitMoves DEF CommitFallback
  <2>3. CASE Wedged
    <3>1. ~ax_obs_admit(g_seq + 1, res)
      BY <2>3 DEF Wedged, ax_obs_admit, ProcessTypes
    <3> QED
      BY Zenon, <1>10, <3>1 DEF CommitFallback, commit_observation, ledgerVars
  <2> QED
    BY <1>10, <2>2, <2>3 DEF CommitFallback, ChainPosition, LedgerOpenPc
<1>11. CASE PowerLoss
  BY <1>11
<1>12. CASE UNCHANGED vars
  BY Zenon, <1>12 DEF vars, ledgerVars
<1> QED
  BY Zenon, <1>1, <1>2, <1>3, <1>4, <1>5, <1>6, <1>7, <1>8, <1>9, <1>10, <1>11, <1>12 DEF Next, Startup, Handling

-----------------------------------------------------------------------------
(* What is whole on the medium is in the file a process sees. *)
DiskInFile == Chain!Extends(WholeFrames(disk), file)

(* What a step may do to the medium and to the file. *)
KeepsEvidence ==
  /\ Chain!Extends(WholeFrames(disk), WholeFrames(disk'))
  /\ Chain!Extends(WholeFrames(disk), WholeFrames(file'))
  /\ DiskInFile'

(* Both views, if they are well formed, extend what was whole on the       *)
(* medium, and the medium has not gone past the file.                      *)
LEMMA KeepsIf ==
  ASSUME LedgerFiles, LedgerFiles', BothWellFormed, BothWellFormed',
         Chain!Extends(WholeFrames(disk), disk'),
         Chain!Extends(WholeFrames(disk), file'),
         DiskInFile'
  PROVE  KeepsEvidence
<1>1. TornOnlyAtEnd(disk) /\ TornOnlyAtEnd(disk') /\ TornOnlyAtEnd(file')
  BY Zenon DEF BothWellFormed, WellFormed
<1>2. WholeFrames(disk) \in Seq(Frame) /\ AllWhole(WholeFrames(disk))
  BY Zenon, <1>1, WholePart DEF LedgerFiles
<1> QED
  BY Zenon, <1>1, <1>2, ExtendsWhole DEF KeepsEvidence, LedgerFiles

(* Every step keeps what is whole on the medium, if reading does not fail: *)
(* a replay cuts only a frame that is torn, an append adds to a file that  *)
(* holds all of it, and a power loss falls back to the medium or to        *)
(* something the file had beyond it.                                       *)
LEMMA EvidenceStep ==
  ASSUME ReadErrors = FALSE, LedgerFiles, LedgerFiles', BothWellFormed, BothWellFormed',
         DiskInFile,
         UNCHANGED <<file, disk>> \/ Opens \/ AppendsFrame \/ PowerLoss
  PROVE  KeepsEvidence
<1> DEFINE D == WholeFrames(disk)
<1>1. /\ D \in Seq(Frame) /\ AllWhole(D) /\ Chain!Extends(D, disk) /\ Chain!Extends(D, file)
  BY Zenon, WholePart DEF LedgerFiles, BothWellFormed, WellFormed, DiskInFile
<1>2. file \in Seq(Frame) /\ disk \in Seq(Frame) /\ file' \in Seq(Frame) /\ disk' \in Seq(Frame)
  BY Zenon DEF LedgerFiles
<1>3. CASE UNCHANGED <<file, disk>>
  BY Zenon, <1>1, <1>3, KeepsIf DEF DiskInFile
<1>4. CASE Opens
  <2>1. CASE UNCHANGED <<file, disk>>
    BY <2>1, <1>3
  <2>2. CASE \E n \in 0 .. Len(file) : /\ CleanEnd(n) \/ TornEnd(n)
                                      /\ file' = Take(file, n) /\ disk' = disk
    <3>1. PICK n \in 0 .. Len(file) : /\ CleanEnd(n) \/ TornEnd(n)
                                      /\ file' = Take(file, n) /\ disk' = disk
      BY <2>2
    <3>2. Len(file') = n /\ \A i \in 1 .. n : file'[i] = file[i]
      BY Zenon, <1>2, <3>1, TakeType
    <3> HIDE DEF D
    <3>3. Len(D) <= n
      BY <1>1, <1>2, <3>1 DEF CleanEnd, TornEnd, AllWhole, Chain!Extends
    <3>4. Chain!Extends(D, file')
      BY <1>1, <1>2, <3>2, <3>3 DEF Chain!Extends
    <3> QED
      BY Zenon, <1>1, <3>1, <3>4, KeepsIf DEF DiskInFile, D
  <2> QED
    BY Zenon, <1>4, <2>1, <2>2 DEF Opens, gwl_open, ReadFailsAfter, ledgerVars
<1>5. CASE AppendsFrame
  <2>1. PICK f \in Frame, rc \in {0, -1} : gwl_append(f, rc)
    BY Zenon, <1>5 DEF AppendsFrame
  <2>2. /\ Append(file, f) \in Seq(Frame) /\ Chain!Extends(D, Append(file, f))
        /\ Append(file, Torn(f)) \in Seq(Frame) /\ Chain!Extends(D, Append(file, Torn(f)))
    BY Zenon, <1>1, <1>2, TornFrame, ExtendsAppend, ExtendsTransitive
  <2>3. /\ file' \in {file, Append(file, f), Append(file, Torn(f))}
        /\ disk' = disk \/ (disk' = Append(file, f) /\ file' = disk')
    <3>1. CASE UNCHANGED <<file, disk>>
      BY Zenon, <3>1
    <3>2. CASE AppendFails(f)
      BY Zenon, <3>2 DEF AppendFails
    <3>3. CASE Synced(f)
      BY Zenon, <3>3 DEF Synced
    <3> QED
      BY Zenon, <2>1, <3>1, <3>2, <3>3 DEF gwl_append, ChainFault, ledgerVars
  <2>4. Chain!Extends(D, file') /\ Chain!Extends(D, disk')
    BY Zenon, <1>1, <2>2, <2>3
  <2>5. DiskInFile'
    <3>1. CASE disk' = disk
      BY Zenon, <2>4, <3>1 DEF DiskInFile
    <3>2. CASE file' = disk'
      BY Zenon, <1>2, <3>2, WholePart DEF DiskInFile, BothWellFormed, WellFormed
    <3> QED
      BY Zenon, <2>3, <3>1, <3>2
  <2> QED
    BY Zenon, <2>4, <2>5, KeepsIf
<1>6. CASE PowerLoss
  <2>1. PICK f \in LedgerPersisted : file' = f /\ disk' = f
    BY <1>6 DEF PowerLoss
  <2>2. Chain!Extends(D, f)
    <3>1. CASE f = disk
      BY Zenon, <1>1, <3>1
    <3>2. CASE \E n \in Agreed : f \in PartialCopies(file, n)
      <4>1. PICK n \in Agreed : f \in PartialCopies(file, n)
        BY <3>2
      <4>2. n \in 0 .. Len(file) /\ \A m \in (n + 1) .. Len(file) : ~Agree(m)
        BY Zenon DEF Agreed
      <4> DEFINE k == Len(D)
      <4>3. k \in 0 .. Len(file) /\ k <= Len(disk)
        BY <1>1, <1>2 DEF Chain!Extends
      <4>4. Take(file, k) = Take(disk, k)
        <5>1. /\ Take(file, k) \in Seq(Frame) /\ Len(Take(file, k)) = k
              /\ \A i \in 1 .. k : Take(file, k)[i] = file[i]
          BY Zenon, <1>2, <4>3, TakeType
        <5>2. k \in 0 .. Len(disk)
          BY <4>3
        <5>3. /\ Take(disk, k) \in Seq(Frame) /\ Len(Take(disk, k)) = k
              /\ \A i \in 1 .. k : Take(disk, k)[i] = disk[i]
          BY Zenon, <1>2, <5>2, TakeType
        <5>4. \A i \in 1 .. k : file[i] = disk[i]
          BY Zenon, <1>1 DEF Chain!Extends
        <5> HIDE DEF k
        <5> QED
          BY <5>1, <5>3, <5>4, SeqEqual
      <4>5. Agree(k)
        BY <4>3, <4>4 DEF Agree
      <4> HIDE DEF k
      <4>6. k <= n
        BY <1>2, <4>2, <4>3, <4>5
      <4> QED
        BY Zenon, <1>1, <1>2, <4>1, <4>2, <4>6, ExtendsPartialCopy DEF k
    <3> QED
      BY Zenon, <2>1, <3>1, <3>2 DEF LedgerPersisted
  <2>3. DiskInFile'
    BY Zenon, <1>2, <2>1, WholePart DEF DiskInFile, BothWellFormed, WellFormed
  <2> QED
    BY Zenon, <2>1, <2>2, <2>3, KeepsIf
<1> QED
  BY <1>3, <1>4, <1>5, <1>6

-----------------------------------------------------------------------------
(* The record in hand: what Respond will answer with describes the last    *)
(* frame on the medium.                                                    *)

OkMeansDelivered == res.ok_for_caller <=> (res.ftype = "NULL")

HandInv ==
  /\ pc \in {"commit", "fallback", "close", "respond"} => OkMeansDelivered
  /\ pc \in {"close", "respond"} => /\ g_seq \in 1 .. Len(disk)
                                   /\ Describes(Response, disk[g_seq])

(* A successful commit leaves its record as the last one on the medium. *)
LEMMA CommitInHand ==
  ASSUME TypeOK, InStep, OkMeansDelivered, pc \in {"commit", "fallback"},
         commit_observation(cur.id, PromptInput, res, 0),
         UNCHANGED <<cur, res, model_id>>
  PROVE  g_seq' \in 1 .. Len(disk') /\ Describes(Response', disk'[g_seq'])
<1> DEFINE f == Observation(cur.id, PromptInput, res)
           n == Len(file)
           a == Append(file, f)
<1>1. g_seq' = g_seq + 1 /\ disk' = a
  BY DEF commit_observation, gwl_append, Synced, AppendFails, ChainFault
<1>2. cur \in Intent /\ res \in Result
  BY DEF TypeOK, Control
<1>3. PromptInput \in Input /\ cur.id \in Nat \ {0}
  BY <1>2 DEF PromptInput, Input, Intent
<1>4. f \in ObsFrame /\ f \in Frame
  BY <1>2, <1>3, ObservationType DEF TypeOK, Frame
<1>5. file \in Seq(Frame) /\ n = g_seq /\ n \in Nat
  BY DEF TypeOK, FileTypes, InStep
<1> HIDE DEF f
<1>6. Len(a) = n + 1 /\ a[n + 1] = f
  BY <1>4, <1>5, AppendProperties
<1>7. g_seq' \in 1 .. Len(disk') /\ disk'[g_seq'] = f
  BY <1>1, <1>5, <1>6
<1>8. f = [tag |-> "AX:OBS:v1", id |-> cur.id, whole |-> TRUE, ledger_seq |-> g_seq + 1,
           input |-> PromptInput, model_id |-> model_id, state |-> res.state,
           ftype |-> res.ftype]
  BY DEF f, Observation
<1>9. Response' = [id |-> cur.id, seq |-> g_seq', state |-> res.state, ftype |-> res.ftype,
                   model |-> model_id, ok |-> res.ok_for_caller]
  BY DEF Response
<1>10. Describes(Response', f)
  <2>1. /\ f.tag = "AX:OBS:v1" /\ f.whole /\ f.id = Response'.id
        /\ f.state = Response'.state /\ f.ftype = Response'.ftype
        /\ f.model_id = Response'.model
    BY <1>8, <1>9
  <2>2. f.ledger_seq = Response'.seq
    BY <1>1, <1>8, <1>9
  <2>3. Response'.ok = res.ok_for_caller /\ f.ftype = res.ftype
    BY <1>8, <1>9
  <2>4. Response'.ok <=> (f.ftype = "NULL")
    BY Zenon, <2>3 DEF OkMeansDelivered
  <2> QED
    BY Zenon, <2>1, <2>2, <2>4 DEF Describes
<1> QED
  BY Zenon, <1>7, <1>10

(* Every outcome of gwc_call that carries an output has no failure type,   *)
(* and every other has one.                                                *)
LEMMA RecordedOk ==
  ASSUME NEW o \in Outcome
  PROVE  Recorded(o).ok_for_caller <=> (Recorded(o).ftype = "NULL")
<1> DEFINE ok == o.gwc \in {"OK_COMPLETE", "OK_TRUNCATED"}
<1>1. Recorded(o).ftype = "NULL" <=> ok
  BY DEF Recorded
<1>2. Recorded(o).ok_for_caller = ok
  BY Zenon DEF Recorded
<1> QED
  BY Zenon, <1>1, <1>2

(* Every step keeps the record in hand. *)
LEMMA HandStep == TypeOK /\ ChainPosition /\ HandInv /\ [Next]_vars => HandInv'
<1> SUFFICES ASSUME TypeOK, ChainPosition, HandInv, [Next]_vars PROVE HandInv'
  OBVIOUS
<1>1. CASE ProbeWal \/ OpenLedger \/ EnableExport \/ RecoverWal \/ RecoverCommit \/ RecoverClear
           \/ CommitConfig \/ Listen
  <2>1. pc' \notin {"commit", "fallback", "close", "respond"}
    BY <1>1 DEF ProbeWal, OpenLedger, EnableExport, RecoverWal, RecoverCommit, RecoverClear,
                CommitConfig, Listen, Goto, gw_wal_recover
  <2> QED
    BY <2>1 DEF HandInv
<1>2. ASSUME NEW p \in Prompt, AcceptRequest(p) PROVE HandInv'
  BY <1>2 DEF AcceptRequest, HandInv
<1>3. CASE RejectRequest \/ WriteIntent \/ BuildBody \/ ClientFails \/ Respond
           \/ Shutdown \/ Exit \/ Kill \/ PowerLoss
  <2>1. pc' \notin {"commit", "fallback", "close", "respond"}
    BY <1>3 DEF RejectRequest, WriteIntent, BuildBody, ClientFails, Respond, Shutdown, Exit, Kill,
                PowerLoss, ProcessGone, Return, Goto
  <2> QED
    BY <2>1 DEF HandInv
<1>4. ASSUME NEW o \in Outcome, OracleCall(o) PROVE HandInv'
  <2>1. pc' = "commit" /\ res' = Recorded(o)
    BY <1>4 DEF OracleCall
  <2>2. OkMeansDelivered'
    BY Zenon, <2>1, RecordedOk DEF OkMeansDelivered
  <2> QED
    BY <2>1, <2>2 DEF HandInv
<1>5. CASE CommitObs
  <2>1. InStep /\ OkMeansDelivered
    BY <1>5 DEF CommitObs, ChainPosition, LedgerOpenPc, Wedged, HandInv
  <2>2. CASE commit_observation(cur.id, PromptInput, res, 0) /\ UNCHANGED <<cur, res>> /\ pc' = "close"
    <3>1. g_seq' \in 1 .. Len(disk') /\ Describes(Response', disk'[g_seq'])
      BY Zenon, <1>5, <2>1, <2>2, CommitInHand DEF CommitObs
    <3>2. OkMeansDelivered'
      BY Zenon, <2>1, <2>2 DEF OkMeansDelivered
    <3> QED
      BY Zenon, <3>1, <3>2 DEF HandInv
  <2>3. CASE pc' = "fallback" /\ res' = Degraded
    <3>1. OkMeansDelivered'
      BY <2>3 DEF OkMeansDelivered, Degraded
    <3> QED
      BY <2>3, <3>1 DEF HandInv
  <2>4. CASE pc' = "serving"
    BY <2>4 DEF HandInv
  <2> QED
    BY Zenon, <1>5, <2>2, <2>3, <2>4 DEF CommitObs
<1>6. CASE CommitFallback
  <2>1. OkMeansDelivered
    BY <1>6 DEF CommitFallback, HandInv
  <2>2. CASE commit_observation(cur.id, PromptInput, res, 0) /\ UNCHANGED <<cur, res>> /\ pc' = "close"
    <3>1. InStep
      <4>1. CASE Wedged
        <5>1. ~ax_obs_admit(g_seq + 1, res)
          BY <4>1 DEF Wedged, ax_obs_admit, TypeOK, ProcessTypes
        <5> QED
          BY <2>2, <5>1 DEF commit_observation
      <4> QED
        BY <1>6, <4>1 DEF CommitFallback, ChainPosition, LedgerOpenPc
    <3>2. g_seq' \in 1 .. Len(disk') /\ Describes(Response', disk'[g_seq'])
      BY Zenon, <1>6, <2>1, <2>2, <3>1, CommitInHand DEF CommitFallback
    <3>3. OkMeansDelivered'
      BY Zenon, <2>1, <2>2 DEF OkMeansDelivered
    <3> QED
      BY Zenon, <3>2, <3>3 DEF HandInv
  <2>3. CASE pc' = "serving"
    BY <2>3 DEF HandInv
  <2> QED
    BY Zenon, <1>6, <2>2, <2>3 DEF CommitFallback
<1>7. CASE CloseIntent
  <2>1. pc = "close" /\ UNCHANGED <<cur, res, model_id, g_seq, disk>>
    BY Zenon, <1>7 DEF CloseIntent, ledgerVars
  <2>2. Response' = Response /\ (OkMeansDelivered' <=> OkMeansDelivered)
    BY Zenon, <2>1 DEF Response, OkMeansDelivered
  <2> QED
    BY Zenon, <2>1, <2>2 DEF HandInv
<1>8. CASE UNCHANGED vars
  <2>1. UNCHANGED <<pc, cur, res, model_id, g_seq, disk>>
    BY Zenon, <1>8 DEF vars, procVars, ledgerVars
  <2>2. Response' = Response /\ (OkMeansDelivered' <=> OkMeansDelivered)
    BY Zenon, <2>1 DEF Response, OkMeansDelivered
  <2> QED
    BY Zenon, <2>1, <2>2 DEF HandInv
<1> QED
  BY Zenon, <1>1, <1>2, <1>3, <1>4, <1>5, <1>6, <1>7, <1>8 DEF Next, Startup, Handling

-----------------------------------------------------------------------------
(* Answers. *)

(* Only Respond gives an answer. *)
LEMMA AnswerMoves == [Next]_vars => UNCHANGED answered \/ Respond
<1> SUFFICES ASSUME [Next]_vars PROVE UNCHANGED answered \/ Respond
  OBVIOUS
<1>1. CASE Startup
  BY Zenon, <1>1 DEF Startup, ProbeWal, OpenLedger, EnableExport, RecoverWal, RecoverCommit,
                     RecoverClear, CommitConfig, Listen, ghostVars
<1>2. CASE Handling
  BY Zenon, <1>2 DEF Handling, RejectRequest, WriteIntent, BuildBody, OracleCall, ClientFails,
                     CommitObs, CommitFallback, CloseIntent, ghostVars
<1>3. ASSUME NEW p \in Prompt, AcceptRequest(p) PROVE UNCHANGED answered
  BY Zenon, <1>3 DEF AcceptRequest, ghostVars
<1>4. CASE Shutdown \/ Exit \/ Kill \/ PowerLoss
  BY Zenon, <1>4 DEF Shutdown, Exit, Kill, PowerLoss, ProcessGone
<1>5. CASE UNCHANGED vars
  BY Zenon, <1>5 DEF vars, ghostVars
<1> QED
  BY Zenon, <1>1, <1>2, <1>3, <1>4, <1>5 DEF Next

(* A whole frame of a ledger is among its whole frames. *)
LEMMA WholeAt ==
  ASSUME NEW s \in Seq(Frame), TornOnlyAtEnd(s), NEW i \in 1 .. Len(s), s[i].whole
  PROVE  i \in 1 .. Len(WholeFrames(s)) /\ WholeFrames(s)[i] = s[i]
<1>1. /\ WholeFrames(s) \in Seq(Frame) /\ Chain!Extends(WholeFrames(s), s)
      /\ Len(s) <= Len(WholeFrames(s)) + 1
      /\ s = <<>> \/ s[Len(s)].whole => WholeFrames(s) = s
  BY WholePart
<1>2. CASE i = Len(s)
  BY <1>1, <1>2
<1>3. CASE i # Len(s)
  BY <1>1, <1>3 DEF Chain!Extends
<1> QED
  BY <1>2, <1>3

(* So it is still there in a ledger whose whole frames extend those. *)
LEMMA WholeStays ==
  ASSUME NEW s \in Seq(Frame), TornOnlyAtEnd(s), NEW t \in Seq(Frame), TornOnlyAtEnd(t),
         Chain!Extends(WholeFrames(s), WholeFrames(t)),
         NEW i \in 1 .. Len(s), s[i].whole
  PROVE  i \in 1 .. Len(t) /\ t[i] = s[i]
<1>1. i \in 1 .. Len(WholeFrames(s)) /\ WholeFrames(s)[i] = s[i]
  BY Zenon, WholeAt
<1>2. /\ WholeFrames(s) \in Seq(Frame) /\ WholeFrames(t) \in Seq(Frame)
      /\ Chain!Extends(WholeFrames(t), t)
  BY Zenon, WholePart
<1>3. i \in 1 .. Len(WholeFrames(t)) /\ WholeFrames(t)[i] = s[i]
  BY <1>1, <1>2 DEF Chain!Extends
<1> QED
  BY <1>2, <1>3 DEF Chain!Extends

(* Answers stay true of the medium, and a new one is true of it. *)
LEMMA AnswersStep ==
  ASSUME LedgerFiles, LedgerFiles', BothWellFormed, BothWellFormed', KeepsEvidence,
         HandInv, AnswersOnDisk, [Next]_vars
  PROVE  AnswersOnDisk'
<1>1. ASSUME NEW a \in answered PROVE a.seq \in 1 .. Len(disk') /\ Describes(a, disk'[a.seq])
  <2>1. a.seq \in 1 .. Len(disk) /\ Describes(a, disk[a.seq])
    BY Zenon, <1>1 DEF AnswersOnDisk
  <2>2. disk[a.seq].whole
    BY Zenon, <2>1 DEF Describes
  <2>3. a.seq \in 1 .. Len(disk') /\ disk'[a.seq] = disk[a.seq]
    BY Zenon, <2>1, <2>2, WholeStays DEF LedgerFiles, BothWellFormed, WellFormed, KeepsEvidence
  <2> QED
    BY Zenon, <2>1, <2>3
<1>2. CASE UNCHANGED answered
  BY Zenon, <1>1, <1>2 DEF AnswersOnDisk
<1>3. CASE Respond
  <2>1. answered' = answered \cup {Response} /\ disk' = disk /\ pc = "respond"
    BY Zenon, <1>3 DEF Respond, ledgerVars
  <2>2. Response.seq = g_seq
    BY DEF Response
  <2>3. Response.seq \in 1 .. Len(disk') /\ Describes(Response, disk'[Response.seq])
    BY Zenon, <2>1, <2>2 DEF HandInv
  <2> QED
    BY Zenon, <1>1, <2>1, <2>3 DEF AnswersOnDisk
<1> QED
  BY <1>2, <1>3, AnswerMoves

(* A step of the gateway is a step of EvidenceChain, or changes nothing    *)
(* that EvidenceChain sees.                                                *)
LEMMA RefinementStep ==
  ASSUME LedgerFiles, BothWellFormed, KeepsEvidence, HandInv, [Next]_vars
  PROVE  [Chain!Next]_<<WholeFrames(disk), answered>>
<1>1. CASE UNCHANGED answered
  BY Zenon, <1>1 DEF Chain!Next, Chain!Grow, KeepsEvidence
<1>2. CASE Respond
  <2>1. answered' = answered \cup {Response} /\ disk' = disk /\ pc = "respond"
    BY Zenon, <1>2 DEF Respond, ledgerVars
  <2>2. Response.seq = g_seq
    BY DEF Response
  <2>3. g_seq \in 1 .. Len(disk) /\ Describes(Response, disk[g_seq])
    BY Zenon, <2>1 DEF HandInv
  <2>4. disk[g_seq].whole
    BY Zenon, <2>3 DEF Describes
  <2>5. g_seq \in 1 .. Len(WholeFrames(disk)) /\ WholeFrames(disk)[g_seq] = disk[g_seq]
    BY Zenon, <2>3, <2>4, WholeAt DEF LedgerFiles, BothWellFormed, WellFormed
  <2>6. WholeFrames(disk)' = WholeFrames(disk)
    BY Zenon, <2>1
  <2> QED
    BY Zenon, <2>1, <2>2, <2>3, <2>5, <2>6 DEF Chain!Next, Chain!Answer
<1> QED
  BY <1>1, <1>2, AnswerMoves

-----------------------------------------------------------------------------
(***************************************************************************)
(* The inductive invariant, on top of LedgerInv.  What makes the           *)
(* refinement go through is DiskInFile: whatever was lost from the file a  *)
(* process sees, it was never whole on the medium.                         *)
(***************************************************************************)
ChainInv == LedgerInv /\ DiskInFile /\ HandInv /\ AnswersOnDisk

(* What one step does from a state of the invariant. *)
LEMMA ChainStep ==
  ASSUME ReadErrors = FALSE
  PROVE  ChainInv /\ [Next]_vars
           => ChainInv' /\ KeepsEvidence /\ [Chain!Next]_<<WholeFrames(disk), answered>>
<1> SUFFICES ASSUME ChainInv, [Next]_vars
             PROVE  ChainInv' /\ KeepsEvidence /\ [Chain!Next]_<<WholeFrames(disk), answered>>
  OBVIOUS
<1>1. LedgerInv'
  BY Zenon, TypeStep, LedgerStep DEF ChainInv, LedgerInv, TypeOK
<1>2. LedgerFiles /\ LedgerFiles' /\ BothWellFormed /\ BothWellFormed'
  BY Zenon, <1>1 DEF ChainInv, LedgerInv, TypeOK, FileTypes, LedgerFiles
<1>3. UNCHANGED <<file, disk>> \/ Opens \/ AppendsFrame \/ PowerLoss
  BY Zenon, FileMoves DEF ChainInv, LedgerInv
<1>4. KeepsEvidence
  BY Zenon, <1>2, <1>3, EvidenceStep DEF ChainInv
<1>5. HandInv'
  BY Zenon, HandStep DEF ChainInv, LedgerInv
<1>6. AnswersOnDisk'
  BY Zenon, <1>2, <1>4, AnswersStep DEF ChainInv
<1>7. [Chain!Next]_<<WholeFrames(disk), answered>>
  BY Zenon, <1>2, <1>4, RefinementStep DEF ChainInv
<1> QED
  BY Zenon, <1>1, <1>4, <1>5, <1>6, <1>7 DEF ChainInv, KeepsEvidence

(* The first start has no evidence and has answered nothing. *)
LEMMA InitChain == Init => ChainInv /\ Chain!Init
<1> SUFFICES ASSUME Init PROVE ChainInv /\ Chain!Init
  OBVIOUS
<1>1. file = <<>> /\ disk = <<>> /\ answered = {} /\ pc = "down"
  BY DEF Init, LedgerInit
<1>2. LedgerInv
  BY InitTypes, <1>1 DEF LedgerInv, BothWellFormed, WellFormed, TornOnlyAtEnd, ChainPosition,
                         LedgerOpenPc
<1>3. WholeFrames(disk) = <<>>
  BY <1>1 DEF WholeFrames
<1>4. DiskInFile
  BY <1>1, <1>3 DEF DiskInFile, Chain!Extends
<1>5. HandInv
  BY <1>1 DEF HandInv
<1>6. AnswersOnDisk
  BY Zenon, <1>1 DEF AnswersOnDisk
<1> QED
  BY Zenon, <1>1, <1>2, <1>3, <1>4, <1>5, <1>6 DEF ChainInv, Chain!Init

(* The inductive invariant of the evidence holds in every behaviour. *)
LEMMA ChainInvariant ==
  ASSUME ReadErrors = FALSE
  PROVE  Spec => []ChainInv
<1>1. Init => ChainInv
  BY InitChain
<1>2. ChainInv /\ [Next]_vars => ChainInv'
  BY ChainStep
<1> QED
  BY <1>1, <1>2, PTL DEF Spec

(***************************************************************************)
(* For every instance without read errors: a response that handle_request  *)
(* has sent describes a record that is, and stays, on the medium at the    *)
(* position it names, across every failed write, kill, power loss and      *)
(* restart.                                                                *)
(***************************************************************************)
THEOREM AnswersStayTrue ==
  ASSUME ReadErrors = FALSE
  PROVE  Spec => []AnswersOnDisk
<1>1. ChainInv => AnswersOnDisk
  BY DEF ChainInv
<1> QED
  BY <1>1, ChainInvariant, PTL

(***************************************************************************)
(* The gateway implements EvidenceChain: the whole frames on the medium    *)
(* are only ever extended, and every answer names one of them.             *)
(***************************************************************************)
THEOREM GatewayImplementsChain ==
  ASSUME ReadErrors = FALSE
  PROVE  Spec => ImplementsEvidenceChain
<1>1. Init => Chain!Init
  BY InitChain
<1>2. ChainInv /\ [Next]_vars => [Chain!Next]_<<WholeFrames(disk), answered>>
  BY ChainStep
<1> QED
  BY <1>1, <1>2, ChainInvariant, PTL DEF Spec, ImplementsEvidenceChain, Chain!Spec

(* No step takes a whole durable frame off the ledger a process sees:      *)
(* gwl_open truncates nothing but a torn tail.                             *)
THEOREM LedgerOnlyGrows ==
  ASSUME ReadErrors = FALSE
  PROVE  Spec => AppendOnly
<1>1. ChainInv /\ [Next]_vars => [Chain!Extends(WholeFrames(disk), WholeFrames(file'))]_file
  BY Zenon, ChainStep DEF KeepsEvidence
<1> QED
  BY <1>1, ChainInvariant, PTL DEF Spec, AppendOnly

-----------------------------------------------------------------------------
(* Recovery after kills. *)

KilledOnly == ReadErrors = FALSE /\ "power" \notin CrashMode

-----------------------------------------------------------------------------
(* What any step does to the ledger, the intent file and the ghosts. *)

(* What a frame that is added, whole or cut short, is about. *)
NewRecord(g) ==
  \/ pc = "config" /\ g.tag = "AX:STATE:v1"
  \/ /\ pc = "recover_commit" /\ g.tag = "AX:OBS:v1" /\ g.id = wal.id
     /\ g.input = [kind |-> "unclosed", hash |-> wal.hash]
  \/ /\ pc \in {"commit", "fallback"} /\ g.tag = "AX:OBS:v1" /\ g.id = cur.id
     /\ g.input = [kind |-> "prompt", hash |-> cur.hash]
     /\ ServedIn(Nat \ {cur.id}, file)

(* No whole frame goes away, and at most one frame is added, at the end. *)
FramesMove ==
  /\ \A i \in 1 .. Len(file) : file[i].whole => i \in 1 .. Len(file') /\ file'[i] = file[i]
  /\ \A i \in 1 .. Len(file') : \/ i \in 1 .. Len(file) /\ file'[i] = file[i]
                                \/ i = Len(file) + 1 /\ NewRecord(file'[i])

(* A step that leaves the ledger alone. *)
LEMMA FramesStay == file' = file => FramesMove
BY Zenon DEF FramesMove

(* A frame cut short is about what the frame is about. *)
LEMMA TornRecord ==
  ASSUME NEW f \in Frame, NewRecord(f)
  PROVE  NewRecord(Torn(f))
<1>1. CASE f \in ObsFrame
  <2>1. Torn(f).tag = f.tag /\ Torn(f).id = f.id /\ Torn(f).input = f.input
    BY <1>1 DEF Torn, ObsFrame
  <2> QED
    BY Zenon, <2>1 DEF NewRecord
<1>2. CASE f \in StateFrame
  <2>1. Torn(f).tag = "AX:STATE:v1" /\ f.tag = "AX:STATE:v1"
    BY <1>2 DEF Torn, StateFrame
  <2>2. pc = "config"
    BY <2>1 DEF NewRecord
  <2> QED
    BY <2>1, <2>2 DEF NewRecord
<1> QED
  BY <1>1, <1>2 DEF Frame

(* gwl_append adds the frame, whole or cut short, or nothing. *)
LEMMA AppendMove ==
  ASSUME LedgerFiles, NEW f \in Frame, NewRecord(f), NEW rc \in {0, -1}, gwl_append(f, rc)
  PROVE  FramesMove
<1>1. Torn(f) \in Frame /\ NewRecord(Torn(f))
  BY Zenon, TornFrame, TornRecord
<1>2. file' \in {file, Append(file, f), Append(file, Torn(f))}
  BY DEF gwl_append, AppendFails, ChainFault, Synced, ledgerVars
<1>3. ASSUME NEW g \in Frame, NewRecord(g), file' = Append(file, g) PROVE FramesMove
  <2>1. /\ Len(file) \in Nat /\ Len(file') = Len(file) + 1
        /\ \A i \in 1 .. Len(file) : file'[i] = file[i]
        /\ file'[Len(file) + 1] = g
    BY <1>3, AppendProperties DEF LedgerFiles
  <2>2. \A i \in 1 .. Len(file) : i \in 1 .. Len(file')
    BY <2>1
  <2>3. \A i \in 1 .. Len(file') : i \in 1 .. Len(file) \/ i = Len(file) + 1
    BY <2>1
  <2> QED
    BY Zenon, <1>3, <2>1, <2>2, <2>3 DEF FramesMove
<1> QED
  BY Zenon, <1>1, <1>2, <1>3, FramesStay

(* commit_observation adds an observation that is admitted, or nothing. *)
LEMMA CommitMove ==
  ASSUME LedgerFiles, ProcessTypes, NEW id \in Nat \ {0}, NEW in \in Input, NEW r \in Result,
         NEW rc \in {0, -1}, commit_observation(id, in, r, rc),
         ax_obs_admit(g_seq + 1, r) => NewRecord(Observation(id, in, r))
  PROVE  FramesMove
<1>1. CASE UNCHANGED ledgerVars
  BY Zenon, <1>1, FramesStay DEF ledgerVars
<1>2. CASE ax_obs_admit(g_seq + 1, r) /\ gwl_append(Observation(id, in, r), rc)
  <2>1. Observation(id, in, r) \in Frame
    BY Zenon, ObservationType DEF Frame
  <2> QED
    BY Zenon, <1>2, <2>1, AppendMove
<1> QED
  BY Zenon, <1>1, <1>2 DEF commit_observation

(* gwl_open takes off a torn tail and nothing else. *)
LEMMA OpenMove ==
  ASSUME KilledOnly, LedgerFiles, NEW ok \in BOOLEAN, NEW rc \in {0, -1}, gwl_open(ok, rc)
  PROVE  FramesMove
<1>1. CASE UNCHANGED ledgerVars
  BY Zenon, <1>1, FramesStay DEF ledgerVars
<1>2. ASSUME NEW n \in 0 .. Len(file), CleanEnd(n) \/ TornEnd(n), file' = Take(file, n)
      PROVE  FramesMove
  <2>1. Len(file') = n /\ \A i \in 1 .. n : file'[i] = file[i]
    BY Zenon, <1>2, TakeType DEF LedgerFiles
  <2>2. ASSUME NEW i \in 1 .. Len(file), file[i].whole PROVE i \in 1 .. n
    <3>1. Len(file) \in Nat
      BY DEF LedgerFiles
    <3> QED
      BY <1>2, <2>2, <3>1 DEF CleanEnd, TornEnd
  <2>3. \A i \in 1 .. n : i \in 1 .. Len(file)
    BY <1>2
  <2> QED
    BY Zenon, <2>1, <2>2, <2>3 DEF FramesMove
<1> QED
  BY Zenon, <1>1, <1>2 DEF gwl_open, ReadFailsAfter, KilledOnly

(* Every step moves the frames so. *)
LEMMA FramesStep ==
  ASSUME KilledOnly, TypeOK, ServedInv, [Next]_vars
  PROVE  FramesMove
<1>0. LedgerFiles
  BY Zenon DEF TypeOK, FileTypes, LedgerFiles
<1>1. CASE OpenLedger
  <2>1. \E rc \in {0, -1} : gwl_open(pc = "open_torn_ok", rc)
    BY Zenon, <1>1 DEF OpenLedger
  <2> QED
    BY Zenon, <1>0, <2>1, OpenMove
<1>2. CASE RecoverCommit
  <2>1. pc = "recover_commit" /\ wal \in Intent
    BY <1>2 DEF RecoverCommit, TypeOK, Control
  <2> DEFINE in == [kind |-> "unclosed", hash |-> wal.hash]
  <2>2. in \in Input /\ wal.id \in Nat \ {0}
    BY <2>1 DEF Intent, Input
  <2>3. NewRecord(Observation(wal.id, in, RecoveryResult))
    BY <2>1 DEF NewRecord, Observation
  <2>4. \E rc \in {0, -1} : commit_observation(wal.id, in, RecoveryResult, rc)
    BY Zenon, <1>2 DEF RecoverCommit
  <2> HIDE DEF in
  <2> QED
    BY Zenon, <1>0, <2>2, <2>3, <2>4, CommitMove, ResultTypes DEF TypeOK
<1>3. CASE CommitConfig
  <2> DEFINE f == [tag |-> "AX:STATE:v1", id |-> 0, whole |-> TRUE, model_id |-> model_id]
  <2>1. f \in Frame
    BY DEF Frame, StateFrame, TypeOK, ProcessTypes
  <2>2. NewRecord(f)
    BY <1>3 DEF NewRecord, CommitConfig
  <2>3. \E rc \in {0, -1} : gwl_append(f, rc)
    BY Zenon, <1>3 DEF CommitConfig
  <2> HIDE DEF f
  <2> QED
    BY Zenon, <1>0, <2>1, <2>2, <2>3, AppendMove
<1>4. CASE CommitObs \/ CommitFallback
  <2>1. pc \in {"commit", "fallback"}
    BY <1>4 DEF CommitObs, CommitFallback
  <2>2. PromptInput \in Input /\ cur.id \in Nat \ {0} /\ res \in Result
    BY SMTT(30), <2>1 DEF TypeOK, Control, PromptInput, Input, Intent
  <2>3. ASSUME ax_obs_admit(g_seq + 1, res)
        PROVE  NewRecord(Observation(cur.id, PromptInput, res))
    <3>1. ~(last_ledger_seq > g_seq)
      BY <2>3 DEF ax_obs_admit, TypeOK, ProcessTypes
    <3>2. ServedIn(Nat \ {cur.id}, file)
      BY <2>1, <3>1 DEF ServedInv, NotYetServed
    <3> QED
      BY <2>1, <3>2 DEF NewRecord, Observation, PromptInput
  <2>4. \E rc \in {0, -1} : commit_observation(cur.id, PromptInput, res, rc)
    BY Zenon, <1>4 DEF CommitObs, CommitFallback
  <2> QED
    BY Zenon, <1>0, <2>2, <2>3, <2>4, CommitMove DEF TypeOK
<1>5. CASE ProbeWal \/ EnableExport \/ RecoverWal \/ RecoverClear \/ Listen \/ RejectRequest
           \/ WriteIntent \/ BuildBody \/ ClientFails \/ CloseIntent \/ Respond \/ Shutdown \/ Exit
           \/ Kill \/ (\E p \in Prompt : AcceptRequest(p)) \/ (\E o \in Outcome : OracleCall(o))
           \/ UNCHANGED vars
  <2>1. file' = file
    BY Zenon, <1>5 DEF ProbeWal, EnableExport, gwl_export_enable, RecoverWal, RecoverClear, Listen,
                       RejectRequest, WriteIntent, BuildBody, ClientFails, CloseIntent, Respond,
                       Shutdown, Exit, Kill, AcceptRequest, OracleCall, vars, ledgerVars
  <2> QED
    BY Zenon, <2>1, FramesStay
<1>6. ~PowerLoss
  BY DEF PowerLoss, KilledOnly
<1> QED
  BY Zenon, <1>1, <1>2, <1>3, <1>4, <1>5, <1>6 DEF Next, Startup, Handling

(* The intent file stays, is written by a request that has just got its id *)
(* or is taken away by one of the three that clear it.                     *)
WalMoves ==
  \/ wal' = wal
  \/ /\ pc = "ingest" /\ wal = None
     /\ wal' = Unparsable \/ (wal'.id = Len(issued) + 1 /\ issued' = Append(issued, wal'))
  \/ pc \in {"body", "recover_clear", "close"} /\ wal' = None

(* Every step moves it so, if the power stays on. *)
LEMMA WalStep ==
  ASSUME KilledOnly, TypeOK, [Next]_vars
  PROVE  WalMoves
<1>1. CASE WriteIntent
  <2> DEFINE in == [cur EXCEPT !.id = Len(issued) + 1]
  <2>1. /\ pc = "ingest" /\ issued' = Append(issued, in)
        /\ \E rc \in {0, -1} : gw_wal_write(in, rc)
    BY <1>1 DEF WriteIntent
  <2>2. in.id = Len(issued) + 1
    BY <2>1 DEF TypeOK, Control, Request
  <2> HIDE DEF in
  <2>3. wal' = wal \/ (wal = None /\ wal' \in {Unparsable, in})
    BY <2>1 DEF gw_wal_write, walVars
  <2> QED
    BY <2>1, <2>2, <2>3 DEF WalMoves
<1>2. CASE BuildBody \/ RecoverClear \/ CloseIntent
  <2>1. pc \in {"body", "recover_clear", "close"}
    BY <1>2 DEF BuildBody, RecoverClear, CloseIntent
  <2>2. wal' \in {wal, None}
    BY <1>2 DEF BuildBody, RecoverClear, CloseIntent, gw_wal_clear, walVars
  <2> QED
    BY <2>1, <2>2 DEF WalMoves
<1>3. CASE ProbeWal \/ OpenLedger \/ EnableExport \/ RecoverWal \/ RecoverCommit \/ CommitConfig
           \/ Listen \/ RejectRequest \/ ClientFails \/ CommitObs \/ CommitFallback \/ Respond
           \/ Shutdown \/ Exit \/ Kill \/ (\E p \in Prompt : AcceptRequest(p))
           \/ (\E o \in Outcome : OracleCall(o)) \/ UNCHANGED vars
  BY Zenon, <1>3 DEF ProbeWal, OpenLedger, EnableExport, RecoverWal, RecoverCommit, CommitConfig,
                     Listen, RejectRequest, ClientFails, CommitObs, CommitFallback, Respond,
                     Shutdown, Exit, Kill, AcceptRequest, OracleCall, vars, walVars, WalMoves
<1>4. ~PowerLoss
  BY DEF PowerLoss, KilledOnly
<1> QED
  BY Zenon, <1>1, <1>2, <1>3, <1>4 DEF Next, Startup, Handling

(* The ghosts only grow: an intent is prepared by WriteIntent, a call made *)
(* by OracleCall or before ClientFails.                                    *)
GhostsMove ==
  /\ Len(issued) <= Len(issued') /\ \A j \in 1 .. Len(issued) : issued'[j] = issued[j]
  /\ issued' = issued \/ pc = "ingest"
  /\ invoked \subseteq invoked'
  /\ invoked' \subseteq invoked \/ (pc = "call" /\ invoked' \subseteq invoked \cup {cur.id})

(* Every step moves them so. *)
LEMMA GhostsStep ==
  ASSUME TypeOK, [Next]_vars
  PROVE  GhostsMove
<1>0. issued \in Seq(Intent) /\ Len(issued) \in Nat
  BY DEF TypeOK, GhostTypes
<1>a. ASSUME issued' = issued
      PROVE  Len(issued) <= Len(issued') /\ \A j \in 1 .. Len(issued) : issued'[j] = issued[j]
  BY <1>0, <1>a
<1>1. CASE WriteIntent
  <2> DEFINE in == [cur EXCEPT !.id = Len(issued) + 1]
  <2>1. /\ pc = "ingest" /\ issued' = Append(issued, in) /\ invoked' = invoked
    BY <1>1 DEF WriteIntent
  <2>2. in \in Intent
    BY Zenon, <1>0, <2>1, NewIntent DEF TypeOK, Control
  <2> HIDE DEF in
  <2>3. Len(issued') = Len(issued) + 1 /\ \A j \in 1 .. Len(issued) : issued'[j] = issued[j]
    BY <1>0, <2>1, <2>2, AppendProperties
  <2> QED
    BY <1>0, <2>1, <2>3 DEF GhostsMove
<1>2. CASE ClientFails \/ \E o \in Outcome : OracleCall(o)
  <2>1. pc = "call" /\ issued' = issued /\ invoked' \in {invoked, invoked \cup {cur.id}}
    BY Zenon, <1>2 DEF ClientFails, OracleCall
  <2> QED
    BY Zenon, <1>a, <2>1 DEF GhostsMove
<1>3. CASE \/ Startup \/ RejectRequest \/ BuildBody \/ CommitObs \/ CommitFallback \/ CloseIntent
           \/ Respond \/ Shutdown \/ Exit \/ Kill \/ PowerLoss
           \/ (\E p \in Prompt : AcceptRequest(p)) \/ UNCHANGED vars
  <2>1. issued' = issued /\ invoked' = invoked
    BY Zenon, <1>3 DEF Startup, ProbeWal, OpenLedger, EnableExport, RecoverWal, RecoverCommit,
                       RecoverClear, CommitConfig, Listen, RejectRequest, BuildBody, CommitObs,
                       CommitFallback, CloseIntent, Respond, Shutdown, Exit, Kill, PowerLoss,
                       ProcessGone, AcceptRequest, vars, ghostVars
  <2> QED
    BY Zenon, <1>a, <2>1 DEF GhostsMove
<1> QED
  BY Zenon, <1>1, <1>2, <1>3 DEF Next, Handling

HandPc == {"body", "call", "commit", "fallback", "close"}

(* From the intent to its closing handle_request has the same request in   *)
(* hand.                                                                   *)
HandMoves ==
  pc' \in HandPc =>
    \/ pc \in HandPc /\ cur' = cur /\ (pc = "close" => pc' = "close")
    \/ /\ pc = "ingest" /\ pc' = "body"
       /\ cur' \in Intent /\ cur'.id = Len(issued) + 1 /\ issued' = Append(issued, cur')

(* Every step does so. *)
LEMMA HandMovesStep ==
  ASSUME TypeOK, [Next]_vars
  PROVE  HandMoves
<1>1. CASE WriteIntent
  <2> DEFINE in == [cur EXCEPT !.id = Len(issued) + 1]
  <2>1. /\ pc = "ingest" /\ issued' = Append(issued, in)
        /\ (pc' = "body" /\ cur' = in) \/ pc' = "serving"
    BY <1>1 DEF WriteIntent
  <2>2. in \in Intent
    BY Zenon, <2>1, NewIntent DEF TypeOK, Control, GhostTypes
  <2>3. in.id = Len(issued) + 1
    BY <2>1 DEF TypeOK, Control, Request
  <2> HIDE DEF in
  <2> QED
    BY <2>1, <2>2, <2>3 DEF HandMoves, HandPc
<1>2. CASE BuildBody \/ CommitObs \/ CommitFallback \/ (\E o \in Outcome : OracleCall(o))
  <2>1. pc \in HandPc \ {"close"}
    BY <1>2 DEF BuildBody, CommitObs, CommitFallback, OracleCall, HandPc
  <2>2. pc' = "serving" \/ cur' = cur
    BY <1>2 DEF BuildBody, CommitObs, CommitFallback, OracleCall, Goto, Return
  <2> QED
    BY <2>1, <2>2 DEF HandMoves, HandPc
<1>3. CASE Startup
  <2>1. pc' \notin HandPc
    BY <1>3 DEF Startup, ProbeWal, OpenLedger, EnableExport, RecoverWal, RecoverCommit, RecoverClear,
                CommitConfig, Listen, Goto, gw_wal_recover, HandPc
  <2> QED
    BY <2>1 DEF HandMoves
<1>4. CASE RejectRequest \/ ClientFails \/ CloseIntent \/ Respond \/ Shutdown \/ Exit \/ Kill
           \/ PowerLoss \/ \E p \in Prompt : AcceptRequest(p)
  <2>1. pc' \notin HandPc
    BY <1>4 DEF RejectRequest, ClientFails, CloseIntent, Respond, Shutdown, Exit, Kill, PowerLoss,
                AcceptRequest, ProcessGone, Goto, Return, HandPc
  <2> QED
    BY <2>1 DEF HandMoves
<1>5. CASE UNCHANGED vars
  BY Zenon, <1>5 DEF vars, procVars, HandMoves
<1> QED
  BY Zenon, <1>1, <1>2, <1>3, <1>4, <1>5 DEF Next, Handling

-----------------------------------------------------------------------------
(* The inductive invariant. *)

Repeated(id) == \E j \in 1 .. (id - 1) : issued[j].hash = issued[id].hash

(* The records that handle_request made of call id. *)
OwnRecord(id) ==
  {i \in 1 .. Len(file) : file[i].whole /\ ServedFrame(file[i]) /\ file[i].id = id}

(* An open intent is one that was issued, and no later call was made:      *)
(* gw_wal_write never replaces a file.                                     *)
IntentIds ==
  wal \in Intent => /\ wal.id \in 1 .. Len(issued) /\ issued[wal.id] = wal
                    /\ \A id \in invoked : id <= wal.id

HandIds == pc \in HandPc => cur.id \in 1 .. Len(issued) /\ issued[cur.id] = cur

(* An observation carries the hash of the intent it is about. *)
FrameIds ==
  \A i \in 1 .. Len(file) :
    file[i].tag = "AX:OBS:v1" =>
      file[i].id \in 1 .. Len(issued) /\ file[i].input.hash = issued[file[i].id].hash

(* While an intent is open, its own record is the last one of the ledger:  *)
(* the one that recover_wal looks at.                                      *)
OpenIntentLast ==
  wal \in Intent =>
    \A i \in OwnRecord(wal.id) : \A j \in 1 .. Len(file) : file[j].whole => j <= i

(* A call in hand has not been recovered by an earlier start. *)
NotYetRecovered ==
  pc \in {"body", "call", "commit", "fallback"} =>
    \A i \in 1 .. Len(file) : file[i].id = cur.id => ServedFrame(file[i])

(* What recover_wal knows when it records, and when it closes. *)
RecoveryPoint ==
  /\ pc = "recover_commit" => OwnRecord(wal.id) = {}
  /\ pc = "recover_clear" => Records(file, wal.id) # {} \/ Repeated(wal.id)
  /\ pc \in {"export", "recover"} =>
       g_last_payload = (IF file = <<>> THEN None ELSE file[Len(file)])

ClosePoint == pc = "close" => wal = cur /\ Records(file, cur.id) # {}

(* A call with a record of its own has no other. *)
ServedAlone ==
  \A i, j \in 1 .. Len(file) :
    /\ file[i].whole /\ ServedFrame(file[i])
    /\ file[j].whole /\ file[j].id = file[i].id
    => ServedFrame(file[j])

(* What is known of a state, and of the step from it, from the other       *)
(* invariants.                                                             *)
CallInv == /\ TypeOK /\ ServedInv /\ BothWellFormed /\ ChainPosition
           /\ CallsUnderOwnIntent /\ Recovered

Moves == FramesMove /\ WalMoves /\ GhostsMove /\ HandMoves

(* The step of the invariants that do not depend on where recovery is. *)
LEMMA IntentIdsStep ==
  ASSUME CallInv, IntentIds, Moves
  PROVE  IntentIds'
<1> SUFFICES ASSUME wal' \in Intent
             PROVE  /\ wal'.id \in 1 .. Len(issued') /\ issued'[wal'.id] = wal'
                    /\ \A id \in invoked' : id <= wal'.id
  BY DEF IntentIds
<1>0. issued \in Seq(Intent) /\ Len(issued) \in Nat /\ invoked \subseteq 1 .. Len(issued)
  BY DEF CallInv, TypeOK, GhostTypes, ServedInv, CallIds
<1>1. CASE wal' = wal
  <2>1. wal.id \in 1 .. Len(issued) /\ issued[wal.id] = wal /\ \A id \in invoked : id <= wal.id
    BY <1>1 DEF IntentIds
  <2>2. pc = "call" => cur.id = wal.id
    BY DEF CallInv, CallsUnderOwnIntent
  <2>3. \A id \in invoked' : id <= wal.id
    BY <2>1, <2>2 DEF Moves, GhostsMove
  <2>4. wal.id \in 1 .. Len(issued') /\ issued'[wal.id] = wal
    BY <1>0, <2>1 DEF Moves, GhostsMove
  <2> QED
    BY <1>1, <2>3, <2>4
<1>2. CASE pc = "ingest" /\ wal'.id = Len(issued) + 1 /\ issued' = Append(issued, wal')
  <2>1. Len(issued') = Len(issued) + 1 /\ issued'[Len(issued) + 1] = wal'
    BY <1>0, <1>2
  <2>2. invoked' \subseteq invoked
    BY <1>2 DEF Moves, GhostsMove
  <2> QED
    BY <1>0, <1>2, <2>1, <2>2
<1>3. wal' # None /\ wal' # Unparsable
  BY WalSentinels
<1> QED
  BY Zenon, <1>1, <1>2, <1>3 DEF Moves, WalMoves

(* The request in hand stays the one that was issued. *)
LEMMA HandIdsStep ==
  ASSUME CallInv, HandIds, Moves
  PROVE  HandIds'
<1> SUFFICES ASSUME pc' \in HandPc
             PROVE  cur'.id \in 1 .. Len(issued') /\ issued'[cur'.id] = cur'
  BY DEF HandIds
<1>0. issued \in Seq(Intent) /\ Len(issued) \in Nat
  BY DEF CallInv, TypeOK, GhostTypes
<1>1. CASE pc \in HandPc /\ cur' = cur
  BY <1>0, <1>1 DEF HandIds, Moves, GhostsMove
<1>2. CASE cur' \in Intent /\ cur'.id = Len(issued) + 1 /\ issued' = Append(issued, cur')
  BY <1>0, <1>2
<1> QED
  BY <1>1, <1>2 DEF Moves, HandMoves

(* A frame that is added is about the intent it was made under. *)
LEMMA FrameIdsStep ==
  ASSUME CallInv, IntentIds, HandIds, FrameIds, Moves
  PROVE  FrameIds'
<1> SUFFICES ASSUME NEW i \in 1 .. Len(file'), file'[i].tag = "AX:OBS:v1"
             PROVE  /\ file'[i].id \in 1 .. Len(issued')
                    /\ file'[i].input.hash = issued'[file'[i].id].hash
  BY DEF FrameIds
<1>0. Len(issued) \in Nat
  BY DEF CallInv, TypeOK, GhostTypes
<1>1. SUFFICES ASSUME NEW n \in 1 .. Len(issued), file'[i].id = n, file'[i].input.hash = issued[n].hash
               PROVE  n \in 1 .. Len(issued') /\ issued'[n] = issued[n]
  <2>1. CASE i \in 1 .. Len(file) /\ file'[i] = file[i]
    BY <1>1, <2>1 DEF FrameIds
  <2>2. CASE NewRecord(file'[i])
    <3>1. CASE pc = "recover_commit"
      BY SMTT(30), <1>1, <2>2, <3>1 DEF NewRecord, IntentIds, CallInv, TypeOK, Control
    <3>2. CASE pc \in {"commit", "fallback"}
      BY <1>1, <2>2, <3>2 DEF NewRecord, HandIds, HandPc
    <3> QED
      BY SMTT(30), <2>2, <3>1, <3>2 DEF NewRecord
  <2> QED
    BY Zenon, <2>1, <2>2 DEF Moves, FramesMove
<1> QED
  BY <1>0 DEF Moves, GhostsMove

(* The record of an open intent stays the last one. *)
LEMMA OpenIntentLastStep ==
  ASSUME CallInv, FrameIds, OpenIntentLast, RecoveryPoint, Moves
  PROVE  OpenIntentLast'
<1> SUFFICES ASSUME wal' \in Intent,
                    NEW i \in 1 .. Len(file'), file'[i].whole, ServedFrame(file'[i]),
                    file'[i].id = wal'.id,
                    NEW j \in 1 .. Len(file'), file'[j].whole
             PROVE  j <= i
  BY DEF OpenIntentLast, OwnRecord
<1>0. Len(file) \in Nat /\ Len(file') \in Nat /\ i \in Int /\ j \in Int
  <2>1. i \in Int
    OBVIOUS
  <2>2. j \in Int
    OBVIOUS
  <2> QED
    BY <2>1, <2>2 DEF CallInv, TypeOK, FileTypes
<1>1. CASE i \in 1 .. Len(file) /\ file'[i] = file[i]
  <2>1. wal' = wal
    <3>1. SUFFICES ASSUME pc = "ingest", wal'.id = Len(issued) + 1 PROVE FALSE
      BY <3>1, WalSentinels DEF Moves, WalMoves
    <3>2. file[i].id \in 1 .. Len(issued) /\ Len(issued) \in Nat
      BY <1>1 DEF FrameIds, ServedFrame, CallInv, TypeOK, GhostTypes
    <3> QED
      BY <1>1, <3>1, <3>2
  <2>2. i \in OwnRecord(wal.id)
    BY <1>1, <2>1 DEF OwnRecord
  <2>3. CASE j \in 1 .. Len(file) /\ file'[j] = file[j]
    BY SMTT(30), <2>1, <2>2, <2>3 DEF OpenIntentLast
  <2>4. ASSUME NewRecord(file'[j]) PROVE FALSE
    <3>1. CASE pc = "config"
      BY <2>1, <3>1, WalSentinels DEF CallInv, Recovered
    <3>2. CASE pc = "recover_commit"
      BY <2>2, <3>2 DEF RecoveryPoint
    <3>3. CASE pc \in {"commit", "fallback"}
      <4>1. wal = cur
        BY <3>3 DEF CallInv, CallsUnderOwnIntent
      <4>2. ServedIn(Nat \ {cur.id}, file)
        BY <2>4, <3>3 DEF NewRecord
      <4> QED
        BY <2>2, <4>1, <4>2 DEF ServedIn, OwnRecord
    <3> QED
      BY <2>4, <3>1, <3>2, <3>3 DEF NewRecord
  <2> QED
    BY Zenon, <2>3, <2>4 DEF Moves, FramesMove
<1>2. CASE i = Len(file) + 1
  <2>1. j \in 1 .. Len(file) \/ j = Len(file) + 1
    BY DEF Moves, FramesMove
  <2> QED
    BY <1>0, <1>2, <2>1
<1> QED
  BY <1>1, <1>2 DEF Moves, FramesMove

(* A call in hand gets no record but its own. *)
LEMMA NotYetRecoveredStep ==
  ASSUME CallInv, CallInv', FrameIds, NotYetRecovered, Moves
  PROVE  NotYetRecovered'
<1> SUFFICES ASSUME pc' \in {"body", "call", "commit", "fallback"},
                    NEW i \in 1 .. Len(file'), file'[i].id = cur'.id
             PROVE  ServedFrame(file'[i])
  BY DEF NotYetRecovered
<1>1. CASE pc \in HandPc /\ cur' = cur /\ pc # "close"
  <2>1. CASE i \in 1 .. Len(file) /\ file'[i] = file[i]
    BY <1>1, <2>1 DEF NotYetRecovered, HandPc
  <2>2. CASE NewRecord(file'[i])
    BY <1>1, <2>2 DEF NewRecord, ServedFrame, HandPc
  <2> QED
    BY Zenon, <2>1, <2>2 DEF Moves, FramesMove
<1>2. CASE pc = "ingest" /\ cur'.id = Len(issued) + 1
  <2>1. i \in 1 .. Len(file) /\ file'[i] = file[i]
    BY <1>2 DEF Moves, FramesMove, NewRecord
  <2>2. file[i] \in Frame /\ Len(issued) \in Nat
    BY <2>1 DEF CallInv, TypeOK, FileTypes, GhostTypes
  <2>3. file[i].id = 0 \/ file[i].id \in 1 .. Len(issued)
    BY <2>1, <2>2 DEF Frame, ObsFrame, StateFrame, FrameIds
  <2> QED
    BY <1>2, <2>1, <2>2, <2>3
<1> QED
  BY <1>1, <1>2 DEF Moves, HandMoves, HandPc

(* A record that is there stays there. *)
LEMMA RecordsStay ==
  ASSUME Moves, NEW id, Records(file, id) # {}
  PROVE  Records(file', id) # {}
<1>1. PICK i \in 1 .. Len(file) : file[i].id = id /\ file[i].whole
  BY DEF Records
<1>2. i \in 1 .. Len(file') /\ file'[i] = file[i]
  BY <1>1 DEF Moves, FramesMove
<1> QED
  BY <1>1, <1>2 DEF Records

(* A repeated prompt stays repeated. *)
LEMMA RepeatedStays ==
  ASSUME CallInv, Moves, NEW id \in 1 .. Len(issued), Repeated(id)
  PROVE  Repeated(id)'
<1>1. Len(issued) \in Nat
  BY DEF CallInv, TypeOK, GhostTypes
<1>2. PICK j \in 1 .. (id - 1) : issued[j].hash = issued[id].hash
  BY DEF Repeated
<1>3. issued'[j] = issued[j] /\ issued'[id] = issued[id]
  BY <1>1, <1>2 DEF Moves, GhostsMove
<1> QED
  BY <1>2, <1>3 DEF Repeated

(* A call keeps its record or its intent, or had a repeated prompt. *)
LEMMA AccountedStep ==
  ASSUME CallInv, RecoveryPoint, ClosePoint, LostOnlyIfRepeated, Moves
  PROVE  LostOnlyIfRepeated'
<1> SUFFICES ASSUME NEW id \in invoked'
             PROVE  Records(file', id) # {} \/ (wal' \in Intent /\ wal'.id = id) \/ Repeated(id)'
  BY DEF LostOnlyIfRepeated, Accounted, Repeated
<1>0. invoked \subseteq 1 .. Len(issued)
  BY DEF CallInv, ServedInv, CallIds
<1>1. CASE id \in invoked
  <2>1. CASE Records(file, id) # {}
    BY <2>1, RecordsStay
  <2>2. CASE Repeated(id)
    BY <1>0, <1>1, <2>2, RepeatedStays
  <2>3. CASE wal \in Intent /\ wal.id = id
    <3>1. CASE wal' = wal
      BY <2>3, <3>1
    <3>2. CASE pc = "body"
      <4>1. cur.id \notin invoked /\ wal = cur
        BY <3>2 DEF CallInv, ServedInv, CallIds, CallsUnderOwnIntent
      <4> QED
        BY <1>1, <2>3, <4>1
    <3>3. CASE pc = "recover_clear"
      BY <1>0, <1>1, <2>1, <2>2, <2>3, <3>3 DEF RecoveryPoint
    <3>4. CASE pc = "close"
      BY <2>1, <2>3, <3>4 DEF ClosePoint
    <3>5. wal # None
      BY <2>3, WalSentinels
    <3> QED
      BY Zenon, <3>1, <3>2, <3>3, <3>4, <3>5 DEF Moves, WalMoves
  <2> QED
    BY Zenon, <1>1, <2>1, <2>2, <2>3 DEF LostOnlyIfRepeated, Accounted, Repeated
<1>2. CASE pc = "call" /\ id = cur.id
  <2>1. wal = cur /\ cur \in Intent
    BY <1>2 DEF CallInv, TypeOK, Control, CallsUnderOwnIntent
  <2>2. wal' = wal
    BY <1>2 DEF Moves, WalMoves
  <2> QED
    BY <1>2, <2>1, <2>2
<1> QED
  BY <1>1, <1>2 DEF Moves, GhostsMove

(* No second record joins a call's own, in either order. *)
LEMMA ServedAloneStep ==
  ASSUME CallInv, CallInv', NotYetRecovered, RecoveryPoint, ServedAlone, Moves
  PROVE  ServedAlone'
<1> SUFFICES ASSUME NEW i \in 1 .. Len(file'), NEW j \in 1 .. Len(file'),
                    file'[i].whole, ServedFrame(file'[i]),
                    file'[j].whole, file'[j].id = file'[i].id
             PROVE  ServedFrame(file'[j])
  BY Zenon DEF ServedAlone
<1> DEFINE Old(k) == k \in 1 .. Len(file) /\ file'[k] = file[k]
<1>1. CASE Old(i) /\ Old(j)
  BY Zenon, <1>1 DEF ServedAlone
<1>2. CASE NewRecord(file'[i]) /\ Old(j)
  <2>1. pc \in {"commit", "fallback"} /\ file'[i].id = cur.id
    BY <1>2 DEF NewRecord, ServedFrame
  <2> QED
    BY <1>2, <2>1 DEF NotYetRecovered
<1>3. CASE Old(i) /\ NewRecord(file'[j])
  <2>1. CASE pc = "recover_commit"
    <3>1. i \in OwnRecord(wal.id)
      BY <1>3, <2>1 DEF NewRecord, OwnRecord
    <3> QED
      BY SMTT(30), <2>1, <3>1 DEF RecoveryPoint
  <2>2. CASE pc = "config"
    <3>1. file'[j].tag = "AX:STATE:v1"
      BY <1>3, <2>2 DEF NewRecord
    <3>2. file'[j] \in Frame /\ file'[i] \in Frame
      BY DEF CallInv, TypeOK, FileTypes
    <3> QED
      BY <1>3, <3>1, <3>2 DEF Frame, ObsFrame, StateFrame, ServedFrame
  <2>3. CASE pc \in {"commit", "fallback"}
    BY <1>3, <2>3 DEF NewRecord, ServedFrame
  <2> QED
    BY <1>3, <2>1, <2>2, <2>3 DEF NewRecord
<1>4. CASE i = Len(file) + 1 /\ j = Len(file) + 1
  BY Zenon, <1>4
<1> QED
  BY Zenon, <1>1, <1>2, <1>3, <1>4 DEF Moves, FramesMove

(* gwl_append that succeeds leaves the frame at the end. *)
LEMMA AppendedIsThere ==
  ASSUME LedgerFiles, NEW f \in Frame, f.whole, gwl_append(f, 0)
  PROVE  Records(file', f.id) # {}
<1>1. file' = Append(file, f)
  BY DEF gwl_append, Synced
<1>2. Len(file') = Len(file) + 1 /\ file'[Len(file) + 1] = f /\ Len(file) \in Nat
  BY <1>1, AppendProperties DEF LedgerFiles
<1>3. Len(file) + 1 \in 1 .. Len(file')
  BY <1>2
<1> QED
  BY <1>2, <1>3 DEF Records

(* So does commit_observation. *)
LEMMA CommittedIsThere ==
  ASSUME LedgerFiles, ProcessTypes, NEW id \in Nat \ {0}, NEW in \in Input, NEW r \in Result,
         commit_observation(id, in, r, 0)
  PROVE  Records(file', id) # {}
<1>1. gwl_append(Observation(id, in, r), 0)
  BY DEF commit_observation
<1>2. /\ Observation(id, in, r) \in Frame /\ Observation(id, in, r).whole
      /\ Observation(id, in, r).id = id
  <2>1. Observation(id, in, r) \in Frame
    BY Zenon, ObservationType DEF Frame
  <2> QED
    BY <2>1 DEF Observation
<1> QED
  BY Zenon, <1>1, <1>2, AppendedIsThere

(* The record is in the file when its intent is about to be closed. *)
LEMMA ClosePointStep ==
  ASSUME CallInv, ClosePoint, [Next]_vars
  PROVE  ClosePoint'
<1>0. LedgerFiles
  BY Zenon DEF CallInv, TypeOK, FileTypes, LedgerFiles
<1>1. CASE CommitObs \/ CommitFallback
  <2> SUFFICES ASSUME pc' = "close" PROVE wal' = cur' /\ Records(file', cur'.id) # {}
    BY DEF ClosePoint
  <2>1. /\ pc \in {"commit", "fallback"} /\ wal' = wal /\ cur' = cur
        /\ commit_observation(cur.id, PromptInput, res, 0)
    BY <1>1 DEF CommitObs, CommitFallback, walVars
  <2>2. PromptInput \in Input /\ cur.id \in Nat \ {0} /\ res \in Result
    BY <2>1 DEF CallInv, TypeOK, Control, PromptInput, Input, Intent
  <2>3. wal = cur
    BY <2>1 DEF CallInv, CallsUnderOwnIntent
  <2>4. Records(file', cur.id) # {}
    BY Zenon, <1>0, <2>1, <2>2, CommittedIsThere DEF CallInv, TypeOK
  <2> QED
    BY Zenon, <2>1, <2>3, <2>4
<1>2. CASE Startup
  <2>1. pc' # "close"
    BY <1>2 DEF Startup, ProbeWal, OpenLedger, EnableExport, RecoverWal, RecoverCommit, RecoverClear,
                CommitConfig, Listen, Goto, gw_wal_recover
  <2> QED
    BY <2>1 DEF ClosePoint
<1>3. CASE RejectRequest \/ WriteIntent \/ BuildBody \/ ClientFails \/ CloseIntent \/ Respond
           \/ Shutdown \/ Exit \/ Kill \/ PowerLoss \/ (\E p \in Prompt : AcceptRequest(p))
           \/ \E o \in Outcome : OracleCall(o)
  <2>1. pc' # "close"
    BY <1>3 DEF RejectRequest, WriteIntent, BuildBody, ClientFails, CloseIntent, Respond, Shutdown,
                Exit, Kill, PowerLoss, AcceptRequest, OracleCall, ProcessGone, Goto, Return
  <2> QED
    BY <2>1 DEF ClosePoint
<1>4. CASE UNCHANGED vars
  BY Zenon, <1>4 DEF vars, procVars, walVars, ledgerVars, ClosePoint
<1> QED
  BY Zenon, <1>1, <1>2, <1>3, <1>4 DEF Next, Handling

(* What recover_wal knows, step by step. *)
LEMMA RecoveryPointStep ==
  ASSUME KilledOnly, CallInv, IntentIds, FrameIds, OpenIntentLast, RecoveryPoint, [Next]_vars
  PROVE  RecoveryPoint'
<1>0. LedgerFiles /\ Len(file) \in Nat
  BY DEF CallInv, TypeOK, FileTypes, LedgerFiles
<1>1. CASE OpenLedger
  <2>1. PICK rc \in {0, -1} : /\ gwl_open(pc = "open_torn_ok", rc)
                              /\ pc' = IF rc = 0 THEN "export" ELSE "exit"
    BY <1>1 DEF OpenLedger, Goto
  <2>2. CASE rc = 0
    <3>1. PICK n \in 0 .. Len(file) : file' = Take(file, n) /\ Replayed(n)
      BY <2>1, <2>2 DEF gwl_open
    <3>2. Len(file') = n /\ (\A i \in 1 .. n : file'[i] = file[i]) /\ file' \in Seq(Frame)
      BY Zenon, <1>0, <3>1, TakeType DEF LedgerFiles
    <3>3. g_last_payload' = IF n = 0 THEN None ELSE file[n]
      BY <3>1 DEF Replayed
    <3>4. g_last_payload' = IF file' = <<>> THEN None ELSE file'[Len(file')]
      <4>1. CASE n = 0
        BY <3>2, <3>3, <4>1
      <4>2. CASE n # 0
        BY <3>2, <3>3, <4>2
      <4> QED
        BY <4>1, <4>2
    <3>5. pc' = "export"
      BY <2>1, <2>2
    <3> QED
      BY <3>4, <3>5 DEF RecoveryPoint
  <2>3. CASE rc = -1
    BY <2>1, <2>3 DEF RecoveryPoint
  <2> QED
    BY <2>2, <2>3
<1>2. CASE EnableExport
  <2>1. pc = "export" /\ pc' \in {"recover", "exit"} /\ UNCHANGED <<file, g_last_payload>>
    BY <1>2 DEF EnableExport, gwl_export_enable, ledgerVars, Goto
  <2> QED
    BY <2>1 DEF RecoveryPoint
<1>3. CASE RecoverWal
  <2>1. /\ pc = "recover" /\ UNCHANGED <<wal, file, issued, g_last_payload>>
        /\ \/ pc' \in {"config", "exit"}
           \/ pc' = "recover_clear" /\ wal \in Intent /\ gwl_last_payload_contains(wal.hash)
           \/ pc' = "recover_commit" /\ wal \in Intent /\ ~gwl_last_payload_contains(wal.hash)
    <3>1. PICK r \in {-1, 0, 1} :
            /\ gw_wal_recover(r)
            /\ pc' = CASE r = 0 -> "config"
                       [] r = -1 -> "exit"
                       [] r = 1 -> IF gwl_last_payload_contains(wal.hash)
                                   THEN "recover_clear" ELSE "recover_commit"
      BY <1>3 DEF RecoverWal, Goto
    <3>2. r = 1 => wal \in Intent
      BY <3>1 DEF gw_wal_recover
    <3>3. pc = "recover" /\ UNCHANGED <<wal, file, issued, g_last_payload>>
      BY <1>3 DEF RecoverWal, walVars, ledgerVars, ghostVars
    <3> QED
      BY <3>1, <3>2, <3>3
  <2>2. (\A i \in 1 .. Len(file) : file[i].whole)
        /\ g_last_payload = (IF file = <<>> THEN None ELSE file[Len(file)])
    BY <2>1 DEF CallInv, ChainPosition, LedgerOpenPc, InStep, Wedged, RecoveryPoint
  <2>3. CASE pc' = "recover_clear" /\ wal \in Intent /\ gwl_last_payload_contains(wal.hash)
    <3> DEFINE n == Len(file)
               k == file[n].id
    <3>1. /\ file # <<>> /\ file[n].tag = "AX:OBS:v1"
          /\ file[n].input = [kind |-> "prompt", hash |-> wal.hash]
      BY <2>2, <2>3 DEF gwl_last_payload_contains
    <3>2. n \in 1 .. Len(file)
      BY <1>0, <3>1 DEF LedgerFiles
    <3>3. k \in 1 .. Len(issued) /\ issued[k].hash = wal.hash
      BY <3>1, <3>2 DEF FrameIds
    <3>4. k \in invoked
      BY <3>1, <3>2 DEF CallInv, ServedInv, LedgerServed, ServedIn, ServedFrame
    <3>5. wal.id \in 1 .. Len(issued) /\ issued[wal.id] = wal /\ k <= wal.id
      BY <2>3, <3>4 DEF IntentIds
    <3> HIDE DEF n, k
    <3>6. ASSUME k = wal.id PROVE Records(file, wal.id) # {}
      BY <2>2, <3>2, <3>6 DEF Records, k
    <3>7. ASSUME k # wal.id PROVE Repeated(wal.id)
      <4>1. k \in 1 .. (wal.id - 1)
        BY <3>3, <3>5, <3>7
      <4> QED
        BY <3>3, <3>5, <4>1 DEF Repeated
    <3>8. Records(file, wal.id) # {} \/ Repeated(wal.id)
      BY <3>6, <3>7
    <3>9. Records(file', wal'.id) # {} \/ Repeated(wal.id)'
      BY <2>1, <3>8 DEF Repeated
    <3> QED
      BY <2>3, <3>9 DEF RecoveryPoint
  <2>4. CASE pc' = "recover_commit" /\ wal \in Intent /\ ~gwl_last_payload_contains(wal.hash)
    <3>1. ASSUME NEW i \in OwnRecord(wal.id) PROVE FALSE
      <4>1. /\ i \in 1 .. Len(file) /\ file[i].id = wal.id /\ file[i].tag = "AX:OBS:v1"
            /\ file[i].input.kind = "prompt"
        BY <3>1 DEF OwnRecord, ServedFrame
      <4>2. Len(file) \in 1 .. Len(file) /\ Len(file) <= i
        BY <1>0, <2>2, <2>4, <4>1, <3>1 DEF OpenIntentLast
      <4>3. i = Len(file) /\ file # <<>>
        BY <1>0, <4>1, <4>2
      <4>4. g_last_payload = file[i]
        BY <2>2, <4>3
      <4>5. file[i] \in ObsFrame
        BY <1>0, <4>1 DEF LedgerFiles, Frame, StateFrame
      <4>6. file[i].input.hash = wal.hash
        BY <2>4, <4>1 DEF FrameIds, IntentIds
      <4>7. file[i].input = [kind |-> "prompt", hash |-> wal.hash]
        BY <4>1, <4>5, <4>6 DEF ObsFrame, Input
      <4>8. g_last_payload # None
        BY SMTT(30), <4>4, <4>5, GatewayConstants DEF Frame
      <4> QED
        BY <2>4, <4>1, <4>4, <4>7, <4>8 DEF gwl_last_payload_contains
    <3>2. OwnRecord(wal.id)' = {}
      BY <2>1, <3>1 DEF OwnRecord
    <3> QED
      BY <2>4, <3>2 DEF RecoveryPoint
  <2>5. CASE pc' \in {"config", "exit"}
    BY <2>5 DEF RecoveryPoint
  <2> QED
    BY Zenon, <2>1, <2>3, <2>4, <2>5
<1>4. CASE RecoverCommit
  <2>1. PICK rc \in {0, -1} :
          /\ commit_observation(wal.id, [kind |-> "unclosed", hash |-> wal.hash], RecoveryResult, rc)
          /\ pc' = IF rc = 0 THEN "recover_clear" ELSE "exit"
    BY <1>4 DEF RecoverCommit
  <2>2. CASE rc = 0
    <3>1. pc = "recover_commit" /\ wal' = wal
      BY <1>4 DEF RecoverCommit, walVars
    <3>2. [kind |-> "unclosed", hash |-> wal.hash] \in Input /\ wal.id \in Nat \ {0}
      BY <3>1 DEF CallInv, TypeOK, Control, Intent, Input
    <3>3. Records(file', wal.id) # {}
      BY Zenon, <1>0, <2>1, <2>2, <3>2, ResultTypes, CommittedIsThere DEF CallInv, TypeOK
    <3>4. pc' = "recover_clear"
      BY <2>1, <2>2
    <3> QED
      BY <3>1, <3>3, <3>4 DEF RecoveryPoint
  <2>3. CASE rc = -1
    BY SMTT(30), <2>1, <2>3 DEF RecoveryPoint
  <2> QED
    BY <2>2, <2>3
<1>5. CASE ProbeWal \/ RecoverClear \/ CommitConfig \/ Listen
  <2>1. pc' \notin {"export", "recover", "recover_commit", "recover_clear"}
    BY <1>5 DEF ProbeWal, RecoverClear, CommitConfig, Listen, Goto
  <2> QED
    BY <2>1 DEF RecoveryPoint
<1>6. CASE Handling
  <2>1. pc' \notin {"export", "recover", "recover_commit", "recover_clear"}
    BY <1>6 DEF Handling, RejectRequest, WriteIntent, BuildBody, OracleCall, ClientFails, CommitObs,
                CommitFallback, CloseIntent, Respond, Goto, Return
  <2> QED
    BY <2>1 DEF RecoveryPoint
<1>7. CASE Shutdown \/ Exit \/ Kill \/ PowerLoss \/ \E p \in Prompt : AcceptRequest(p)
  <2>1. pc' \notin {"export", "recover", "recover_commit", "recover_clear"}
    BY <1>7 DEF Shutdown, Exit, Kill, PowerLoss, AcceptRequest, ProcessGone, Goto
  <2> QED
    BY <2>1 DEF RecoveryPoint
<1>8. CASE UNCHANGED vars
  <2>1. UNCHANGED <<pc, wal, file, issued, g_last_payload>>
    BY Zenon, <1>8 DEF vars, procVars, walVars, ledgerVars, ghostVars
  <2> QED
    BY Zenon, <2>1 DEF RecoveryPoint, OwnRecord, Repeated
<1> QED
  BY Zenon, <1>1, <1>2, <1>3, <1>4, <1>5, <1>6, <1>7, <1>8 DEF Next, Startup

-----------------------------------------------------------------------------
(***************************************************************************)
(* The inductive invariant.  Neither LostOnlyIfRepeated nor                *)
(* ServedNotRecoveredToo is inductive: that closing an intent loses        *)
(* nothing, and recovering one repeats nothing, rests on where the intent, *)
(* its record and the last payload stand to each other at every point of   *)
(* recover_wal and handle_request.                                         *)
(***************************************************************************)
KillInv == /\ CallInv
           /\ IntentIds /\ HandIds /\ FrameIds /\ OpenIntentLast
           /\ NotYetRecovered /\ RecoveryPoint /\ ClosePoint
           /\ LostOnlyIfRepeated /\ ServedAlone

(* It holds before the first start. *)
LEMMA KillInit == Init => KillInv
<1> SUFFICES ASSUME Init PROVE KillInv
  OBVIOUS
<1>1. /\ file = <<>> /\ disk = <<>> /\ issued = <<>> /\ invoked = {} /\ pc = "down"
      /\ wal = None
  BY DEF Init, LedgerInit, WalInit
<1>2. TypeOK
  BY InitTypes
<1>3. ServedInv /\ BothWellFormed /\ ChainPosition /\ CallsUnderOwnIntent /\ Recovered
  BY <1>1 DEF ServedInv, LedgerServed, ServedOnce, ServedIn, CallIds, NotYetServed, BothWellFormed,
              WellFormed, TornOnlyAtEnd, ChainPosition, LedgerOpenPc, CallsUnderOwnIntent, Recovered
<1>4. wal \notin Intent
  BY SMTT(30), <1>1, WalSentinels
<1>5. IntentIds /\ HandIds /\ FrameIds /\ OpenIntentLast /\ NotYetRecovered /\ RecoveryPoint
  BY <1>1, <1>4 DEF IntentIds, HandIds, HandPc, FrameIds, OpenIntentLast, NotYetRecovered, RecoveryPoint
<1>6. ClosePoint /\ LostOnlyIfRepeated /\ ServedAlone
  BY <1>1 DEF ClosePoint, LostOnlyIfRepeated, ServedAlone
<1> QED
  BY <1>2, <1>3, <1>5, <1>6 DEF KillInv, CallInv

(* Every step keeps it. *)
LEMMA KillStep ==
  ASSUME KilledOnly
  PROVE  KillInv /\ [Next]_vars => KillInv'
<1> SUFFICES ASSUME KillInv, [Next]_vars PROVE KillInv'
  OBVIOUS
<1>1. CallInv'
  <2>1. (BothWellFormed /\ ChainPosition)'
    BY Zenon, LedgerStep DEF KillInv, CallInv, TypeOK
  <2>2. TypeOK' /\ ServedInv'
    BY Zenon, TypeStep, ServedStep, CallIdsStep, NotYetServedStep DEF KillInv, CallInv, ServedInv
  <2>3. CallsUnderOwnIntent' /\ Recovered'
    BY Zenon, OwnIntentStep, RecoveredStep DEF KillInv, CallInv, KilledOnly
  <2> QED
    BY Zenon, <2>1, <2>2, <2>3 DEF CallInv
<1>2. Moves
  BY Zenon, FramesStep, WalStep, GhostsStep, HandMovesStep DEF Moves, KillInv, CallInv
<1>3. IntentIds' /\ HandIds' /\ FrameIds'
  BY Zenon, <1>2, IntentIdsStep, HandIdsStep, FrameIdsStep DEF KillInv
<1>4. OpenIntentLast' /\ NotYetRecovered' /\ RecoveryPoint' /\ ClosePoint'
  BY Zenon, <1>1, <1>2, OpenIntentLastStep, NotYetRecoveredStep, RecoveryPointStep, ClosePointStep
     DEF KillInv
<1>5. LostOnlyIfRepeated' /\ ServedAlone'
  BY Zenon, <1>1, <1>2, AccountedStep, ServedAloneStep DEF KillInv
<1> QED
  BY Zenon, <1>1, <1>3, <1>4, <1>5 DEF KillInv

(* It holds throughout. *)
LEMMA KillInvariant ==
  ASSUME KilledOnly
  PROVE  Spec => []KillInv
BY KillInit, KillStep, PTL DEF Spec

(***************************************************************************)
(* However often the gateway is killed, whatever else fails, an oracle     *)
(* call that was made has a record, or an intent from which the next start *)
(* makes one, unless an earlier request had the same prompt.               *)
(***************************************************************************)
THEOREM NoCallLostUnlessRepeated ==
  ASSUME KilledOnly
  PROVE  Spec => []LostOnlyIfRepeated
<1>1. KillInv => LostOnlyIfRepeated
  BY DEF KillInv
<1> QED
  BY <1>1, KillInvariant, PTL

(***************************************************************************)
(* And a call whose own record is in the ledger never gets a recovery      *)
(* record as well: recover_wal finds it in the last payload.               *)
(***************************************************************************)
THEOREM NoSecondRecordIfServed ==
  ASSUME KilledOnly
  PROVE  Spec => []ServedNotRecoveredToo
<1>1. KillInv => ServedNotRecoveredToo
  <2> SUFFICES ASSUME KillInv, NEW id \in 1 .. Len(issued), NEW i \in Served(file, id),
                      NEW j \in Records(file, id)
               PROVE  j \in Served(file, id)
    BY Zenon DEF ServedNotRecoveredToo, Served
  <2>1. /\ i \in 1 .. Len(file) /\ file[i].whole /\ file[i].id = id /\ file[i].input.kind = "prompt"
        /\ j \in 1 .. Len(file) /\ file[j].whole /\ file[j].id = id
    BY Zenon DEF Served, Records
  <2>2. file[i] \in Frame /\ file[i].id # 0
    BY <2>1 DEF KillInv, CallInv, TypeOK, FileTypes
  <2>3. ServedFrame(file[i])
    BY <2>1, <2>2 DEF Frame, StateFrame, ObsFrame, ServedFrame
  <2>4. ServedFrame(file[j])
    BY Zenon, <2>1, <2>3 DEF KillInv, ServedAlone
  <2> QED
    BY Zenon, <2>4 DEF Served, ServedFrame
<1> QED
  BY <1>1, KillInvariant, PTL

-----------------------------------------------------------------------------
(***************************************************************************)
(* The witness export.  What a step may do to it, with or without touching *)
(* the file: leave it alone, rewrite it from the file, or mirror to it the *)
(* frame that a process whose three copies are level has just appended.    *)
(***************************************************************************)
Mirrored(f) ==
  /\ \A i \in 1 .. Len(file) : file[i].whole
  /\ export = file /\ file' = Append(file, f)
  /\ export' \in {export, Append(export, f), Append(export, Torn(f))}

ExportMove == \/ export' = export
              \/ file' = file /\ export' \in {file} \cup PartialCopies(file, 0)
              \/ \E f \in Frame : f.whole /\ Mirrored(f)

(* gwl_append to a ledger of whole frames with a level export. *)
LEMMA AppendMirror ==
  ASSUME \A i \in 1 .. Len(file) : file[i].whole, g_export_fd => export = file,
         NEW f \in Frame, f.whole, NEW rc \in {0, -1}, gwl_append(f, rc)
  PROVE  ExportMove
<1>1. CASE UNCHANGED ledgerVars \/ AppendFails(f)
  BY Zenon, <1>1 DEF ledgerVars, AppendFails, ExportMove
<1>2. CASE Synced(f) /\ (Mirror(f) \/ ChainFault(f))
  <2>1. file' = Append(file, f)
    BY <1>2 DEF Synced
  <2>2. \/ export' = export
        \/ g_export_fd /\ export' \in {export, Append(export, f), Append(export, Torn(f))}
    BY Zenon, <1>2 DEF Mirror, ChainFault
  <2> QED
    BY Zenon, <2>1, <2>2 DEF ExportMove, Mirrored
<1> QED
  BY Zenon, <1>1, <1>2 DEF gwl_append, ChainFault

(* Every step moves the export so. *)
LEMMA ExportMoveStep ==
  ASSUME KilledOnly, TypeOK, ChainPosition, ExportInv, [Next]_vars
  PROVE  ExportMove
<1>1. CASE EnableExport
  <2>1. gwl_export_enable(0) \/ gwl_export_enable(-1) \/ UNCHANGED ledgerVars
    BY <1>1 DEF EnableExport
  <2> QED
    BY Zenon, <2>1 DEF gwl_export_enable, ledgerVars, ExportMove
<1>2. CASE RecoverCommit
  <2>1. pc = "recover_commit" /\ wal \in Intent
    BY <1>2 DEF RecoverCommit, TypeOK, Control
  <2>2. InStep /\ (g_export_fd => export = file)
    BY <2>1 DEF ChainPosition, LedgerOpenPc, Wedged, ExportInv
  <2> DEFINE in == [kind |-> "unclosed", hash |-> wal.hash]
  <2>3. in \in Input /\ wal.id \in Nat \ {0}
    BY <2>1 DEF Intent, Input
  <2>4. PICK rc \in {0, -1} : commit_observation(wal.id, in, RecoveryResult, rc)
    BY Zenon, <1>2 DEF RecoverCommit
  <2>5. Observation(wal.id, in, RecoveryResult) \in Frame /\ Observation(wal.id, in, RecoveryResult).whole
    <3>1. Observation(wal.id, in, RecoveryResult) \in Frame
      BY Zenon, <2>3, ObservationType, ResultTypes DEF Frame, TypeOK
    <3> QED
      BY <3>1 DEF Observation
  <2> HIDE DEF in
  <2>6. CASE gwl_append(Observation(wal.id, in, RecoveryResult), rc)
    BY Zenon, <2>2, <2>5, <2>6, AppendMirror DEF InStep
  <2>7. CASE UNCHANGED ledgerVars
    BY Zenon, <2>7 DEF ledgerVars, ExportMove
  <2> QED
    BY Zenon, <2>4, <2>6, <2>7 DEF commit_observation
<1>3. CASE CommitConfig
  <2> DEFINE f == [tag |-> "AX:STATE:v1", id |-> 0, whole |-> TRUE, model_id |-> model_id]
  <2>1. PICK rc \in {0, -1} : gwl_append(f, rc)
    BY Zenon, <1>3 DEF CommitConfig
  <2>2. f \in Frame /\ f.whole
    BY DEF Frame, StateFrame, TypeOK, ProcessTypes
  <2>3. InStep /\ (g_export_fd => export = file)
    BY <1>3 DEF CommitConfig, ChainPosition, LedgerOpenPc, Wedged, ExportInv
  <2> HIDE DEF f
  <2> QED
    BY Zenon, <2>1, <2>2, <2>3, AppendMirror DEF InStep
<1>4. CASE CommitObs \/ CommitFallback
  <2>1. /\ pc \in {"commit", "fallback"} /\ pc \in HandlingPc
        /\ cur.id \in Nat \ {0} /\ PromptInput \in Input /\ res \in Result
    BY Zenon, <1>4 DEF CommitObs, CommitFallback, HandlingPc, TypeOK, Control, Intent, PromptInput, Input
  <2>2. PICK rc \in {0, -1} : commit_observation(cur.id, PromptInput, res, rc)
    BY Zenon, <1>4 DEF CommitObs, CommitFallback
  <2>3. CASE UNCHANGED ledgerVars
    BY Zenon, <2>3 DEF ledgerVars, ExportMove
  <2>4. CASE ax_obs_admit(g_seq + 1, res) /\ gwl_append(Observation(cur.id, PromptInput, res), rc)
    <3>1. ~(last_ledger_seq > g_seq)
      BY <2>4 DEF ax_obs_admit, TypeOK, ProcessTypes
    <3>2. InStep
      BY <2>1, <3>1 DEF ChainPosition, LedgerOpenPc, Wedged
    <3>3. g_export_fd => export = file
      BY Zenon, <2>1, <3>2 DEF ExportInv
    <3>4. Observation(cur.id, PromptInput, res) \in Frame
      BY Zenon, <2>1, ObservationType DEF Frame, TypeOK
    <3>5. Observation(cur.id, PromptInput, res).whole
      BY DEF Observation
    <3> QED
      BY Zenon, <2>4, <3>2, <3>3, <3>4, <3>5, AppendMirror DEF InStep
  <2> QED
    BY ZenonT(40), <2>2, <2>3, <2>4 DEF commit_observation
<1>5. CASE OpenLedger
  BY Zenon, <1>5 DEF OpenLedger, gwl_open, ledgerVars, ExportMove
<1>6. CASE PowerLoss
  BY <1>6 DEF PowerLoss, KilledOnly
<1>7. CASE export' = export
  BY Zenon, <1>7 DEF ExportMove
<1> QED
  BY ZenonT(40), <1>1, <1>2, <1>3, <1>4, <1>5, <1>6, <1>7
     DEF Next, Startup, Handling, vars, ledgerVars, ProbeWal, RecoverWal, RecoverClear, Listen,
         AcceptRequest, RejectRequest, WriteIntent, BuildBody, OracleCall, ClientFails, CloseIntent,
         Respond, Shutdown, Exit, Kill

(* What every step keeps of the export, frame by frame: at most its last   *)
(* frame is torn, and the others are the file's.                           *)
CopiesFile(t, s) == \A i \in 1 .. Len(t) : t[i].whole => i \in 1 .. Len(s) /\ t[i] = s[i]

ExportCopies == TornOnlyAtEnd(export) /\ CopiesFile(export, file)

(* A copy that stopped anywhere is one. *)
LEMMA PartialCopyCopies ==
  ASSUME NEW s \in Seq(Frame), NEW t \in PartialCopies(s, 0)
  PROVE  CopiesFile(t, s)
<1>1. ASSUME NEW n \in 0 .. Len(s) PROVE CopiesFile(Take(s, n), s)
  <2>1. \A i \in 1 .. n : i \in 1 .. Len(s)
    OBVIOUS
  <2> QED
    BY Zenon, <2>1, TakeType DEF CopiesFile
<1>2. ASSUME NEW n \in 1 .. Len(s) PROVE CopiesFile(TakeTorn(s, n), s)
  <2>1. \A i \in 1 .. n : i \in 1 .. Len(s) /\ (i \in 1 .. (n - 1) \/ i = n)
    OBVIOUS
  <2>2. s[n] \in Frame
    OBVIOUS
  <2>3. ~Torn(s[n]).whole
    BY Zenon, <2>2, TornServed
  <2> QED
    BY ZenonT(40), <2>1, <2>3, TakeTornType DEF CopiesFile
<1>3. (0 + 1) .. Len(s) = 1 .. Len(s)
  OBVIOUS
<1> QED
  BY Zenon, <1>1, <1>2, <1>3 DEF PartialCopies

(* A frame added to a copy of whole frames, and to what it is a copy of. *)
LEMMA CopyGrows ==
  ASSUME NEW s \in Seq(Frame), \A i \in 1 .. Len(s) : s[i].whole, NEW f \in Frame, NEW t,
         t \in {s, Append(s, f), Append(s, Torn(f))}
  PROVE  TornOnlyAtEnd(t) /\ CopiesFile(t, Append(s, f))
<1> DEFINE n == Len(s)
           a == Append(s, f)
<1>1. n \in Nat /\ Torn(f) \in Frame /\ ~Torn(f).whole
  BY TornFrame, TornServed
<1>2. Len(a) = n + 1 /\ a[n + 1] = f /\ \A i \in 1 .. n : a[i] = s[i]
  BY AppendProperties
<1>3. ASSUME NEW g \in Frame
      PROVE  /\ Len(Append(s, g)) = n + 1 /\ Append(s, g)[n + 1] = g
             /\ \A i \in 1 .. n : Append(s, g)[i] = s[i]
  BY AppendProperties
<1> HIDE DEF a
<1>4. CASE t = s
  <2>1. TornOnlyAtEnd(t)
    BY <1>4, <1>1 DEF TornOnlyAtEnd
  <2>2. CopiesFile(t, a)
    BY <1>4, <1>1, <1>2 DEF CopiesFile
  <2> QED
    BY Zenon, <2>1, <2>2 DEF a
<1>5. ASSUME NEW g \in Frame, g = f \/ ~g.whole, t = Append(s, g)
      PROVE  TornOnlyAtEnd(t) /\ CopiesFile(t, a)
  <2>1. Len(t) = n + 1 /\ t[n + 1] = g /\ \A i \in 1 .. n : t[i] = s[i]
    BY Zenon, <1>3, <1>5
  <2>2. TornOnlyAtEnd(t)
    BY <1>1, <2>1 DEF TornOnlyAtEnd
  <2>3. \A i \in 1 .. (n + 1) : i \in 1 .. n \/ i = n + 1
    BY <1>1
  <2>4. CopiesFile(t, a)
    BY Zenon, <1>2, <1>5, <2>1, <2>3 DEF CopiesFile
  <2> QED
    BY <2>2, <2>4
<1> QED
  BY Zenon, <1>1, <1>4, <1>5 DEF a

(* Every step keeps it. *)
LEMMA ExportCopiesStep ==
  ASSUME TypeOK, BothWellFormed, FramesMove, ExportMove, ExportCopies
  PROVE  ExportCopies'
<1>1. CASE export' = export
  BY Zenon, <1>1 DEF ExportCopies, CopiesFile, FramesMove
<1>2. file \in Seq(Frame) /\ WellFormed(file)
  BY DEF TypeOK, FileTypes, BothWellFormed
<1>3. CASE file' = file /\ export' = file
  <2>1. CopiesFile(file, file) /\ TornOnlyAtEnd(file)
    BY Zenon, <1>2 DEF CopiesFile, WellFormed
  <2> QED
    BY Zenon, <1>3, <2>1 DEF ExportCopies
<1>4. CASE file' = file /\ export' \in PartialCopies(file, 0)
  <2>1. 0 \in Nat
    OBVIOUS
  <2>2. TornOnlyAtEnd(export') /\ CopiesFile(export', file)
    BY Zenon, <1>2, <1>4, <2>1, PartialCopyShape, PartialCopyCopies DEF WellFormed
  <2> QED
    BY Zenon, <1>4, <2>2 DEF ExportCopies
<1>5. ASSUME NEW f \in Frame, Mirrored(f) PROVE ExportCopies'
  <2>1. TornOnlyAtEnd(export') /\ CopiesFile(export', Append(file, f))
    BY Zenon, <1>2, <1>5, CopyGrows DEF Mirrored
  <2> QED
    BY Zenon, <1>5, <2>1 DEF ExportCopies, Mirrored
<1> QED
  BY Zenon, <1>1, <1>3, <1>4, <1>5 DEF ExportMove

(* Frame by frame or as a prefix, it says the same. *)
LEMMA CopyIsPrefix ==
  ASSUME TypeOK, ExportCopies
  PROVE  ExportIsPrefix
<1> DEFINE e == WholeFrames(export)
<1>1. export \in Seq(Frame) /\ file \in Seq(Frame)
  BY DEF TypeOK, FileTypes
<1>2. /\ e \in Seq(Frame) /\ Len(e) \in 0 .. Len(export)
      /\ \A i \in 1 .. Len(e) : e[i] = export[i] /\ export[i].whole
  <2>1. CASE export # <<>> /\ ~export[Len(export)].whole
    <3>1. e = SubSeq(export, 1, Len(export) - 1) /\ Len(export) \in Nat \ {0}
      BY <1>1, <2>1 DEF WholeFrames
    <3> HIDE DEF e
    <3> QED
      BY <1>1, <3>1 DEF ExportCopies, TornOnlyAtEnd
  <2>2. CASE export = <<>> \/ export[Len(export)].whole
    <3>1. e = export
      BY <2>2 DEF WholeFrames
    <3> HIDE DEF e
    <3> QED
      BY <1>1, <2>2, <3>1 DEF ExportCopies, TornOnlyAtEnd
  <2> QED
    BY <2>1, <2>2
<1> HIDE DEF e
<1>3. \A i \in 1 .. Len(e) : i \in 1 .. Len(export)
  BY <1>1, <1>2
<1>4. \A i \in 1 .. Len(e) : i \in 1 .. Len(file) /\ e[i] = file[i]
  BY Zenon, <1>2, <1>3 DEF ExportCopies, CopiesFile
<1>5. Len(e) <= Len(file)
  BY <1>1, <1>2, <1>4
<1> QED
  BY Zenon, <1>4, <1>5 DEF e, ExportIsPrefix, ExportCopies

(***************************************************************************)
(* Whatever fails and however often the process is killed, the witness     *)
(* export that is left is a prefix of the evidence file, but for one torn  *)
(* frame at its end: gwl_export_enable and the mirroring in gwl_append     *)
(* never leave a frame in it that the file does not have.                  *)
(***************************************************************************)
THEOREM ExportNeverAhead ==
  ASSUME KilledOnly
  PROVE  Spec => []ExportIsPrefix
<1> DEFINE Inv == TypeOK /\ ServedInv /\ BothWellFormed /\ ChainPosition /\ ExportInv /\ ExportCopies
<1>1. Init => Inv
  <2> SUFFICES ASSUME Init PROVE Inv
    OBVIOUS
  <2>1. pc = "down" /\ g_export_fd = FALSE /\ export = <<>>
    BY DEF Init, LedgerInit
  <2>2. ExportInv
    BY Zenon, <2>1 DEF ExportInv, HandlingPc
  <2>3. ExportCopies
    BY <2>1 DEF ExportCopies, TornOnlyAtEnd, CopiesFile
  <2> QED
    BY Zenon, <2>2, <2>3, KillInit DEF KillInv, CallInv
<1>2. Inv /\ [Next]_vars => Inv'
  <2> SUFFICES ASSUME Inv, [Next]_vars PROVE Inv'
    OBVIOUS
  <2>1. (BothWellFormed /\ ChainPosition)'
    BY Zenon, LedgerStep DEF TypeOK
  <2>2. TypeOK' /\ ServedInv'
    BY Zenon, TypeStep, ServedStep, CallIdsStep, NotYetServedStep DEF ServedInv
  <2>3. ExportInv'
    BY Zenon, ExportStep
  <2>4. ExportCopies'
    BY Zenon, FramesStep, ExportMoveStep, ExportCopiesStep
  <2> QED
    BY Zenon, <2>1, <2>2, <2>3, <2>4
<1>3. Inv => ExportIsPrefix
  BY CopyIsPrefix
<1> QED
  BY <1>1, <1>2, <1>3, PTL DEF Spec
=============================================================================
