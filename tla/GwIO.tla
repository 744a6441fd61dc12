------------------------------- MODULE GwIO -------------------------------
(***************************************************************************)
(* The operating system under the gateway, as far as gw_ledger.c and       *)
(* gw_wal.c can observe it.  A system call that fails for a reason outside *)
(* the program (ENOSPC, EIO, a fault raised by the substrate library) is a *)
(* fault.  Faults are rare and finitely many: MaxFaults bounds them.       *)
(*                                                                         *)
(* Every file has two views: what a process reads (the page cache), and    *)
(* what is on the medium.  fsync makes them equal.  Killing the process    *)
(* keeps the first view, losing power falls back to something between the  *)
(* two.  A call that stops half way is the same as a call that fails       *)
(* half way followed by the death of the process, so each operation is one *)
(* action with all its partial outcomes.                                   *)
(***************************************************************************)
EXTENDS Integers, Sequences

CONSTANTS MaxFaults,    \* how many calls the environment makes fail
          ReadErrors,   \* may reading an existing file fail (EIO, EACCES, EMFILE)?
          None          \* no file, no payload, no request, no result

ASSUME IOConstants == MaxFaults \in Nat /\ ReadErrors \in BOOLEAN

VARIABLES faults        \* how many have failed so far

IOInit == faults = 0

(* A call fails for a reason outside the program. *)
Fault == /\ faults < MaxFaults
         /\ faults' = faults + 1

(* A call returns what the program's own state says it must. *)
NoFault == UNCHANGED faults
=============================================================================
