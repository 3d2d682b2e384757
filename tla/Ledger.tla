------------------------------- MODULE Ledger -------------------------------
(***************************************************************************)
(* The ledger behind the endpoint the wallet talks to, as far as one       *)
(* submitted transaction can tell (external: only the answers that         *)
(* src/electron/transactionFinality.ts reads from it are code of this      *)
(* repository).  Blocks above the finalized height may be replaced; the    *)
(* parser of the explorer metrics accepts finalized_block <= block, and    *)
(* the tests replace a block between two reads.                            *)
(***************************************************************************)
EXTENDS Integers

CONSTANTS MaxHeight,   \* bound: the ledger grows to this height
          MaxForks     \* bound: at most MaxForks - 1 replacements of a suffix

ASSUME LedgerBounds == MaxHeight \in Nat \ {0} /\ MaxForks \in Nat \ {0}

VARIABLES ledger,      \* the authoritative chain and the transaction's place in it
          fork,        \* number of the fork that new blocks belong to
          index        \* the explorer's copy: a ledger of now or of an earlier time

ledgerVars == <<ledger, fork, index>>

Heights == 1..MaxHeight
Outcomes == {"Pending", "Applied", "Rejected", "Expired"}

\* A block's hash is its height and the fork that produced it; 0 is no block.
Ledgers == [chain : [Heights -> 0..MaxForks], head : 0..MaxHeight,
            finalized : 0..MaxHeight, at : 0..MaxHeight, outcome : Outcomes]

NewLedger == [chain |-> [h \in Heights |-> 0], head |-> 0, finalized |-> 0,
              at |-> 0, outcome |-> "Pending"]

LedgerInit == ledger = NewLedger /\ fork = 1 /\ index = NewLedger

\* The next block, without the transaction or with it, applied or rejected.
Produced(at, outcome) ==
    [chain |-> [ledger.chain EXCEPT ![ledger.head + 1] = fork], head |-> ledger.head + 1,
     finalized |-> ledger.finalized, at |-> at, outcome |-> outcome]

ProduceBlock ==
    /\ ledger.head < MaxHeight
    /\ \/ ledger' = Produced(ledger.at, ledger.outcome)
       \/ /\ ledger.outcome = "Pending"
          /\ \E outcome \in {"Applied", "Rejected"} :
               ledger' = Produced(ledger.head + 1, outcome)
    /\ UNCHANGED <<fork, index>>

Finalize ==
    /\ \E h \in Heights : /\ ledger.finalized < h /\ h <= ledger.head
                          /\ ledger' = [ledger EXCEPT !.finalized = h]
    /\ UNCHANGED <<fork, index>>

\* The blocks from k up are dropped; a transaction in one of them is queued again.
Cut(k, at, outcome) ==
    [chain |-> [h \in Heights |-> IF h < k THEN ledger.chain[h] ELSE 0], head |-> k - 1,
     finalized |-> ledger.finalized, at |-> at, outcome |-> outcome]

ReplaceSuffix ==
    /\ fork < MaxForks
    /\ \E k \in Heights :
         /\ ledger.finalized < k /\ k <= ledger.head
         /\ \/ ledger.at < k /\ ledger' = Cut(k, ledger.at, ledger.outcome)
            \/ ledger.at >= k /\ ledger' = Cut(k, 0, "Pending")
    /\ fork' = fork + 1
    /\ UNCHANGED index

\* The time to live of a queued transaction ends.
Expire ==
    /\ ledger.outcome = "Pending"
    /\ ledger' = [ledger EXCEPT !.outcome = "Expired"]
    /\ UNCHANGED <<fork, index>>

\* The explorer catches up with the ledger.
CatchUp == index # ledger /\ index' = ledger /\ UNCHANGED <<ledger, fork>>

LedgerNext == ProduceBlock \/ Finalize \/ ReplaceSuffix \/ Expire \/ CatchUp

\* Block `block` at height h is final and holds the successful transaction.
FinallyApplied(h, block) ==
    /\ h \in Heights /\ h <= ledger.finalized
    /\ ledger.chain[h] = block
    /\ ledger.at = h /\ ledger.outcome = "Applied"
=============================================================================
