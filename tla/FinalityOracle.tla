--------------------------- MODULE FinalityOracle ---------------------------
(***************************************************************************)
(* What waitForFinalizedTransaction promises its callers                   *)
(* (src/electron/vpnRuntime.ts, src/electron/preload.ts): the call ends at *)
(* most once, a proof is returned only when the ledger has the transaction *)
(* applied in that very block at a finalized height, and a terminal        *)
(* failure only when the ledger's state has rejected or expired it.        *)
(***************************************************************************)
EXTENDS Ledger

VARIABLES result,      \* how the call ended, "none" while it runs
          proof        \* the returned height and block, <<0, 0>> without a proof

oracleVars == <<ledger, fork, index, result, proof>>

OracleInit == LedgerInit /\ result = "none" /\ proof = <<0, 0>>

Prove ==
    /\ result = "none" /\ result' = "proof"
    /\ \E h \in Heights, b \in 1..MaxForks : FinallyApplied(h, b) /\ proof' = <<h, b>>
    /\ UNCHANGED ledgerVars

FailTerminally ==
    /\ result = "none" /\ result' = "terminal"
    /\ ledger.outcome \in {"Rejected", "Expired"}
    /\ UNCHANGED <<ledger, fork, index, proof>>

\* Every other end tells the caller nothing about the transaction.
GiveUp ==
    /\ result = "none" /\ result' \in {"integrity", "timeout"}
    /\ UNCHANGED <<ledger, fork, index, proof>>

LedgerStep == LedgerNext /\ UNCHANGED <<result, proof>>

OracleNext == Prove \/ FailTerminally \/ GiveUp \/ LedgerStep

OracleSpec == OracleInit /\ [][OracleNext]_oracleVars
=============================================================================
