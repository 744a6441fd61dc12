------------------------------- MODULE GwWal -------------------------------
(***************************************************************************)
(* gateway/src/gw_wal.c: the write-ahead intent.  One file, whose          *)
(* existence is the open/closed bit and which is created with O_EXCL       *)
(* before any network I/O.                                                 *)
(*                                                                         *)
(* An intent's input_hash is represented by the hashed prompt itself       *)
(* (SHA-256 is taken to be injective).  Its id is a ghost: the code never  *)
(* sees it, the properties use it to tell two intents for the same prompt  *)
(* apart.                                                                  *)
(***************************************************************************)
EXTENDS GwIO

CONSTANTS Prompt,       \* normalised prompts, each standing for its hash
          Model,        \* values of the configured model_id
          Unparsable    \* an intent file on which gw_wal_recover returns -1

VARIABLES wal,          \* the intent file as a process sees it, None if absent
          walDisk       \* the intent file on the medium

walVars == <<wal, walDisk>>

(* gw_intent_t: the request's parameters are copied through and never      *)
(* examined, so only the fields that recovery looks at are kept.           *)
Intent == [id : Nat \ {0}, hash : Prompt, model : Model]

ASSUME WalSentinels == /\ None \notin Intent
                       /\ Unparsable \notin Intent
                       /\ None # Unparsable

WalFile == Intent \cup {None, Unparsable}

WalInit == wal = None /\ walDisk = None

(***************************************************************************)
(* gw_wal_write.  The file is created, filled, fsynced, and its directory  *)
(* fsynced; every failure after the creation leaves the file behind.  What *)
(* a short write leaves may or may not hold both required fields.          *)
(***************************************************************************)
gw_wal_write(in, rc) ==
  \/ /\ wal # None
     /\ rc = -1
     /\ NoFault /\ UNCHANGED walVars
  \/ /\ wal = None
     /\ rc = -1
     /\ Fault
     /\ wal' \in {None, Unparsable, in}
     /\ UNCHANGED walDisk
  \/ /\ wal = None
     /\ rc = 0
     /\ NoFault
     /\ wal' = in
     /\ walDisk' = in

(***************************************************************************)
(* gw_wal_clear: unlink, then fsync the directory.  unlink of a file that  *)
(* is not there fails.                                                     *)
(***************************************************************************)
gw_wal_clear(rc) ==
  \/ /\ wal = None
     /\ rc = -1
     /\ NoFault /\ UNCHANGED walVars
  \/ /\ wal # None
     /\ rc = -1
     /\ Fault
     /\ wal' \in {wal, None}
     /\ UNCHANGED walDisk
  \/ /\ wal # None
     /\ rc = 0
     /\ NoFault
     /\ wal' = None
     /\ walDisk' = None

(***************************************************************************)
(* gw_wal_recover, a read: 1 with the intent, 0 if there is none, -1 if    *)
(* the file is not an intent.  A file that cannot be opened also reads as  *)
(* "none".                                                                 *)
(***************************************************************************)
gw_wal_recover(rc) ==
  \/ rc = 0 /\ wal = None /\ NoFault
  \/ rc = 0 /\ wal # None /\ ReadErrors /\ Fault
  \/ rc = -1 /\ wal = Unparsable /\ NoFault
  \/ rc = 1 /\ wal \in Intent /\ NoFault

(* What the intent file may be after a power loss. *)
WalPersisted ==
  IF wal = walDisk
  THEN {wal}
  ELSE {walDisk, wal, None} \cup (IF wal = None THEN {} ELSE {Unparsable})
=============================================================================
