--------------------------- MODULE EvidenceChain ---------------------------
(***************************************************************************)
(* What the gateway's ledger promises: a chain of evidence that is never   *)
(* rewritten, and answers that only ever name evidence already in it.      *)
(* gateway/include/gw_ledger.h calls the durable form "an append-only      *)
(* evidence file": "the file persists and grows".                          *)
(***************************************************************************)
EXTENDS Integers, Sequences

CONSTANT Matches(_, _)  \* does this answer describe this evidence?

VARIABLES chain,        \* the durable evidence
          answers       \* the answers given, each naming a position

Extends(s, t) == Len(s) <= Len(t) /\ \A i \in 1 .. Len(s) : t[i] = s[i]

Init == chain = <<>> /\ answers = {}

(* Evidence becomes durable: one record, or several synced together. *)
Grow == /\ Extends(chain, chain')
        /\ UNCHANGED answers

(* One answer is given, for evidence that is in the chain. *)
Answer == /\ \E a \in answers' : /\ answers' = answers \cup {a}
                                 /\ a.seq \in 1 .. Len(chain)
                                 /\ Matches(a, chain[a.seq])
          /\ UNCHANGED chain

Next == Grow \/ Answer

Spec == Init /\ [][Next]_<<chain, answers>>
=============================================================================
