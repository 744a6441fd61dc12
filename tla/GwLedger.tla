------------------------------ MODULE GwLedger ------------------------------
(***************************************************************************)
(* gateway/src/gw_ledger.c: the append-only evidence file, the in-memory   *)
(* chain replayed from it, and the witness export that mirrors it.         *)
(*                                                                         *)
(* The file is a sequence of frames.  A frame is whole when every byte of  *)
(* it is there and its stored commit matches; a write that stopped half    *)
(* way leaves a frame that is not whole.  A frame's id is a ghost: it      *)
(* names the intent whose oracle call the record is about.                 *)
(***************************************************************************)
EXTENDS GwIO

VARIABLES file,             \* the ledger as a process sees it
          disk,             \* the ledger on the medium
          export,           \* the witness export
          g_fd,             \* is the ledger open for appending?
          g_export_fd,      \* is the export being mirrored to?
          g_seq,            \* g_ctx.sequence
          g_last_payload    \* the frame last replayed or appended, or None

ledgerVars == <<file, disk, export, g_fd, g_export_fd, g_seq, g_last_payload>>

(* The bytes of frame f up to a point inside it. *)
Torn(f) == [f EXCEPT !.whole = FALSE]

(* The first n frames of s, and the same with the n-th one cut short. *)
Take(s, n) == SubSeq(s, 1, n)
TakeTorn(s, n) == Append(SubSeq(s, 1, n - 1), Torn(s[n]))

(* What copying s may have produced when it stops, having reached frame n. *)
PartialCopies(s, n) == {Take(s, m) : m \in n .. Len(s)}
                         \cup {TakeTorn(s, m) : m \in (n + 1) .. Len(s)}

LedgerInit ==
  /\ file = <<>> /\ disk = <<>> /\ export = <<>>
  /\ g_fd = FALSE /\ g_export_fd = FALSE
  /\ g_seq = 0 /\ g_last_payload = None

(* The process is gone: so is everything but the files. *)
LedgerVolatileReset ==
  /\ g_fd' = FALSE /\ g_export_fd' = FALSE
  /\ g_seq' = 0 /\ g_last_payload' = None

-----------------------------------------------------------------------------
(***************************************************************************)
(* gwl_open replays the file from genesis.  The number of whole frames it  *)
(* accepts is n; it stops there at a clean end of file or at a torn frame. *)
(* Bytes after a torn frame cannot be told from the rest of that frame and *)
(* fail its commit check.  A read that fails inside a frame takes the same *)
(* branch as a frame that ends early.                                      *)
(***************************************************************************)
CleanEnd(n) == n = Len(file) /\ \A i \in 1 .. n : file[i].whole

TornEnd(n) == /\ n < Len(file)
              /\ \A i \in 1 .. n : file[i].whole
              /\ n + 1 = Len(file) /\ ~file[n + 1].whole

ReadFailsAfter(n) == /\ ReadErrors
                     /\ n < Len(file)
                     /\ \A i \in 1 .. n : file[i].whole

Replayed(n) ==
  /\ g_fd' = TRUE
  /\ g_seq' = n
  /\ g_last_payload' = IF n = 0 THEN None ELSE file[n]

(* Mutant: the torn tail is replayed past but left in the file. *)
gwl_open_keeps_tail(torn_tail_ok, rc) ==
  \/ \E n \in 0 .. Len(file) :
       /\ rc = 0
       /\ \/ CleanEnd(n) /\ NoFault
          \/ TornEnd(n) /\ torn_tail_ok /\ NoFault
          \/ ReadFailsAfter(n) /\ torn_tail_ok /\ Fault
       /\ Replayed(n)
       /\ UNCHANGED <<file, disk, export, g_export_fd>>
  \/ /\ rc = -1
     /\ \/ (\E i \in 1 .. Len(file) : ~file[i].whole) /\ ~torn_tail_ok /\ NoFault
        \/ (\E i \in 1 .. Len(file) - 1 : ~file[i].whole) /\ NoFault
        \/ Fault
     /\ UNCHANGED ledgerVars

(* Mutant: good_end is the start of the last whole frame, not its end. *)
gwl_open_cuts_one_more(torn_tail_ok, rc) ==
  \/ \E n \in 0 .. Len(file) :
       /\ rc = 0
       /\ \/ CleanEnd(n) /\ UNCHANGED file /\ Replayed(n)
          \/ /\ TornEnd(n) /\ torn_tail_ok
             /\ LET m == IF n = 0 THEN 0 ELSE n - 1 IN file' = Take(file, m) /\ Replayed(m)
       /\ NoFault
       /\ UNCHANGED <<disk, export, g_export_fd>>
  \/ /\ rc = -1
     /\ \/ (\E i \in 1 .. Len(file) : ~file[i].whole) /\ ~torn_tail_ok /\ NoFault
        \/ (\E i \in 1 .. Len(file) - 1 : ~file[i].whole) /\ NoFault
        \/ Fault
     /\ UNCHANGED ledgerVars

gwl_open(torn_tail_ok, rc) ==
  \/ \E n \in 0 .. Len(file) :
       /\ rc = 0
       /\ \/ CleanEnd(n) /\ NoFault
          \/ TornEnd(n) /\ torn_tail_ok /\ NoFault
          \/ ReadFailsAfter(n) /\ torn_tail_ok /\ Fault
       /\ file' = Take(file, n)
       /\ Replayed(n)
       /\ UNCHANGED <<disk, export, g_export_fd>>
  \/ /\ rc = -1
     /\ \/ (\E i \in 1 .. Len(file) : ~file[i].whole) /\ ~torn_tail_ok /\ NoFault
        \/ (\E i \in 1 .. Len(file) - 1 : ~file[i].whole) /\ NoFault
        \/ Fault
     /\ UNCHANGED ledgerVars

(***************************************************************************)
(* gwl_append: five writes, fsync, the mirror, then the in-memory chain.   *)
(* The file keeps whatever was written when a write or the fsync fails.    *)
(***************************************************************************)
AppendFails(f) ==
  /\ Fault
  /\ file' \in {file, Append(file, Torn(f)), Append(file, f)}
  /\ UNCHANGED <<disk, export, g_fd, g_export_fd, g_seq, g_last_payload>>

(* Mutant: the frame is written but not synced. *)
Synced_without_fsync(f) == file' = Append(file, f) /\ UNCHANGED disk

(* fsync covers everything in the file, older unsynced frames included. *)
Synced(f) == file' = Append(file, f) /\ disk' = Append(file, f)

(* Mutant: a mirror write that fails is ignored and mirroring goes on. *)
Mirror_goes_on(f) ==
  /\ IF g_export_fd THEN export' \in {Append(export, f), Append(export, Torn(f))} ELSE UNCHANGED export
  /\ UNCHANGED g_export_fd /\ NoFault

(* A mirror write that fails closes the export and is not an error. *)
Mirror(f) ==
  \/ g_export_fd /\ export' = Append(export, f) /\ UNCHANGED g_export_fd /\ NoFault
  \/ /\ g_export_fd /\ Fault
     /\ export' \in {export, Append(export, Torn(f))}
     /\ g_export_fd' = FALSE
  \/ ~g_export_fd /\ UNCHANGED <<export, g_export_fd>> /\ NoFault

(* ax_ledger_append of the substrate raised a fault: the frame is durable, *)
(* the chain did not advance.  The mirror has been tried by then.          *)
ChainFault(f) ==
  /\ Fault
  /\ Synced(f)
  /\ \/ export' = (IF g_export_fd THEN Append(export, f) ELSE export) /\ UNCHANGED g_export_fd
     \/ /\ g_export_fd
        /\ export' \in {export, Append(export, Torn(f))}
        /\ g_export_fd' = FALSE
  /\ UNCHANGED <<g_fd, g_seq, g_last_payload>>

gwl_append(f, rc) ==
  \/ ~g_fd /\ rc = -1 /\ NoFault /\ UNCHANGED ledgerVars
  \/ g_fd /\ rc = -1 /\ (AppendFails(f) \/ ChainFault(f))
  \/ /\ g_fd /\ rc = 0
     /\ Synced(f)
     /\ Mirror(f)
     /\ g_seq' = g_seq + 1
     /\ g_last_payload' = f
     /\ UNCHANGED g_fd

(* Mutant: an export left by an earlier process is continued, not rewritten. *)
gwl_export_enable_continues(rc) ==
  /\ rc = 0
  /\ g_export_fd' = TRUE
  /\ NoFault /\ UNCHANGED <<file, disk, export, g_fd, g_seq, g_last_payload>>

(* gwl_export_enable truncates the export and copies the primary into it. *)
gwl_export_enable(rc) ==
  \/ /\ rc = -1
     /\ Fault
     /\ export' \in {export} \cup PartialCopies(file, 0)
     /\ g_export_fd' = FALSE
     /\ UNCHANGED <<file, disk, g_fd, g_seq, g_last_payload>>
  \/ /\ rc = 0
     /\ NoFault
     /\ export' = file
     /\ g_export_fd' = TRUE
     /\ UNCHANGED <<file, disk, g_fd, g_seq, g_last_payload>>

-----------------------------------------------------------------------------
(* The number of leading frames on which both views agree. *)
Agree(n) == n <= Len(disk) /\ Take(file, n) = Take(disk, n)
Agreed == {n \in 0 .. Len(file) : Agree(n) /\ \A m \in (n + 1) .. Len(file) : ~Agree(m)}

(* What the ledger and the export may be after a power loss.  A frame      *)
(* that agrees in both views is on the medium; of the rest, any prefix of  *)
(* what was written may have got there, or an unsynced truncation may not. *)
LedgerPersisted ==
  {disk} \cup UNION {PartialCopies(file, n) : n \in Agreed}

ExportPersisted == PartialCopies(export, 0)
=============================================================================
