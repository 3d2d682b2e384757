---------------------------- MODULE BridgeLedger ----------------------------
(***************************************************************************)
(* What the Solana side of the bridge promises TAIRA and its users         *)
(* (src/solana/sccp-taira-xor/README.md, the two settlements): a transfer  *)
(* that TAIRA committed is paid out once, whole, to its recipient, and a   *)
(* return is burned once.  Programs, accounts, uploads and proofs are      *)
(* hidden.                                                                 *)
(***************************************************************************)
EXTENDS Integers

CONSTANTS Users, Messages,
          Recipient,        \* who a message pays,
          Amount,           \* and how much
          Nonces,           \* of returns
          MaxUnits          \* u64::MAX

VARIABLES committed,        \* messages TAIRA has committed
          away,             \* XOR that TAIRA keeps for Solana
          settled,          \* messages paid out
          balance, supply,  \* the XOR token on Solana
          returned          \* returns burned: who, how much, nonce

ledgerVars == <<committed, away, settled, balance, supply, returned>>

LedgerInit ==
    /\ committed = {} /\ away = 0 /\ settled = {}
    /\ balance = [u \in Users |-> 0] /\ supply = 0 /\ returned = {}

\* TAIRA locks the amount and commits the message; there is no more XOR than
\* MaxUnits.
Commit(m) ==
    /\ m \notin committed /\ away + Amount[m] <= MaxUnits
    /\ committed' = committed \cup {m} /\ away' = away + Amount[m]
    /\ UNCHANGED <<settled, balance, supply, returned>>

Settle(m) ==
    /\ m \in committed \ settled /\ supply + Amount[m] <= MaxUnits
    /\ settled' = settled \cup {m}
    /\ balance' = [balance EXCEPT ![Recipient[m]] = @ + Amount[m]]
    /\ supply' = supply + Amount[m]
    /\ UNCHANGED <<committed, away, returned>>

Return(u, a, n) ==
    /\ a \in 1..balance[u] /\ <<u, a, n>> \notin returned
    /\ returned' = returned \cup {<<u, a, n>>}
    /\ balance' = [balance EXCEPT ![u] = @ - a]
    /\ supply' = supply - a /\ away' = away - a
    /\ UNCHANGED <<committed, settled>>

Transfer(u, v, a) ==
    /\ u # v /\ a \in 1..balance[u]
    /\ balance' = [balance EXCEPT ![u] = @ - a, ![v] = @ + a]
    /\ UNCHANGED <<committed, away, settled, supply, returned>>

\* A holder may destroy its own tokens; what TAIRA keeps for them stays there.
Burn(u, a) ==
    /\ a \in 1..balance[u]
    /\ balance' = [balance EXCEPT ![u] = @ - a] /\ supply' = supply - a
    /\ UNCHANGED <<committed, away, settled, returned>>

LedgerNext ==
    \/ \E m \in Messages : Commit(m) \/ Settle(m)
    \/ \E u \in Users, a \in 1..MaxUnits, n \in Nonces : Return(u, a, n)
    \/ \E u, v \in Users, a \in 1..MaxUnits : Transfer(u, v, a)
    \/ \E u \in Users, a \in 1..MaxUnits : Burn(u, a)

LedgerSpec == LedgerInit /\ [][LedgerNext]_ledgerVars
=============================================================================
