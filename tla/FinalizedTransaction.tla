------------------------ MODULE FinalizedTransaction ------------------------
(***************************************************************************)
(* waitForFinalizedTransaction of src/electron/transactionFinality.ts: one *)
(* call polling a ledger that moves between any two of its reads.          *)
(*                                                                         *)
(* A read is served and used in one step: between the two the code touches *)
(* only its own locals.  The three explorer reads of a Promise.all are     *)
(* served one by one, in any order, with ledger steps between them.        *)
(***************************************************************************)
EXTENDS Ledger

CONSTANT MaximumAttempts     \* the attempt budget computed from timeout and interval

ASSUME AttemptBudget == MaximumAttempts \in Nat \ {0}

VARIABLES pc,          \* where the loop stands
          attempts,
          timedOut,    \* the monotonic clock has passed timeoutMs
          applied,     \* appliedBlockHeight, 0 for null
          previous,    \* previousSnapshot
          served,      \* which reads of the running Promise.all were answered
          read,        \* what they answered
          result, proof

callVars == <<pc, attempts, timedOut, applied, previous, served, read, result, proof>>
vars == <<ledger, fork, index, pc, attempts, timedOut, applied, previous, served,
          read, result, proof>>

Reads == {"transaction", "block", "metrics"}
Snapshots == [at : 0..MaxHeight, outcome : Outcomes, block : 0..MaxForks,
              head : 0..MaxHeight, finalized : 0..MaxHeight]
NoSnapshot == [at |-> 0, outcome |-> "Pending", block |-> 0, head |-> 0, finalized |-> 0]

\* What the status endpoint may answer: the state's verdict once there is one,
\* before that nothing, a queued entry, or a cached verdict of one node.
GlobalStatuses ==
    IF ledger.outcome # "Pending"
    THEN {[kind |-> ledger.outcome, resolvedFrom |-> "state", blockHeight |-> ledger.at]}
    ELSE {[kind |-> "Absent", resolvedFrom |-> "none", blockHeight |-> 0],
          [kind |-> "Queued", resolvedFrom |-> "queue", blockHeight |-> 0],
          [kind |-> "Committed", resolvedFrom |-> "cache", blockHeight |-> 0],
          [kind |-> "Rejected", resolvedFrom |-> "cache", blockHeight |-> 0]}

TypeOK ==
    /\ ledger \in Ledgers /\ index \in Ledgers /\ fork \in 1..MaxForks
    /\ pc \in {"poll", "status", "initial", "confirmStatus", "confirm", "done"}
    /\ attempts \in 0..MaximumAttempts
    /\ timedOut \in BOOLEAN
    /\ applied \in 0..MaxHeight
    /\ previous \in Snapshots /\ read \in Snapshots
    /\ served \subseteq Reads
    /\ result \in {"none", "proof", "terminal", "integrity", "timeout"}
    /\ proof \in (0..MaxHeight) \X (0..MaxForks)

Init ==
    /\ LedgerInit
    /\ pc = "poll" /\ attempts = 0 /\ timedOut = FALSE
    /\ applied = 0 /\ previous = NoSnapshot
    /\ served = {} /\ read = NoSnapshot
    /\ result = "none" /\ proof = <<0, 0>>

-----------------------------------------------------------------------------
\* Faulty: a verdict that only one node's cache holds counts as terminal.
TerminalFromAnySource(s) == s.kind \in {"Rejected", "Expired"}

IsAuthoritativeTerminalStatus(s) ==
    s.resolvedFrom = "state" /\ s.kind \in {"Rejected", "Expired"}

IsAppliedAt(s, h) == s.kind = "Applied" /\ s.resolvedFrom = "state" /\ s.blockHeight = h

\* The parsers' verdict on an answered snapshot for the block at height h.
MatchesApplied(snapshot, h) ==
    /\ snapshot.at = h /\ snapshot.outcome = "Applied"
    /\ snapshot.finalized <= snapshot.head /\ h <= snapshot.head

\* Faulty: a second read without new blocks counts as a rollback.
StableOnlyIfGrown(initial, confirmation) ==
    /\ confirmation.block = initial.block
    /\ confirmation.at = initial.at /\ confirmation.outcome = initial.outcome
    /\ confirmation.head > initial.head
    /\ confirmation.finalized >= initial.finalized

\* assertStableFinalitySnapshots
StableFinalitySnapshots(initial, confirmation) ==
    /\ confirmation.block = initial.block
    /\ confirmation.at = initial.at /\ confirmation.outcome = initial.outcome
    /\ confirmation.head >= initial.head
    /\ confirmation.finalized >= initial.finalized

Finish(r) == pc' = "done" /\ result' = r

-----------------------------------------------------------------------------
\* Faulty: the attempt is not counted and only the clock bounds the loop.
PollWithoutBudget ==
    /\ pc = "poll" /\ attempts < MaximumAttempts /\ ~timedOut
    /\ pc' = "status"
    /\ UNCHANGED <<ledger, fork, index, attempts, timedOut, applied, previous, served,
                   read, result, proof>>

\* Faulty: one attempt more than the budget.
PollOnceTooOften ==
    /\ pc = "poll" /\ attempts <= MaximumAttempts /\ ~timedOut
    /\ pc' = "status" /\ attempts' = attempts + 1
    /\ UNCHANGED <<ledger, fork, index, timedOut, applied, previous, served, read,
                   result, proof>>

\* The head of the loop: another attempt is within the budget and the deadline.
Poll ==
    /\ pc = "poll" /\ attempts < MaximumAttempts /\ ~timedOut
    /\ pc' = "status" /\ attempts' = attempts + 1
    /\ UNCHANGED <<ledger, fork, index, timedOut, applied, previous, served, read,
                   result, proof>>

TimeOut ==
    /\ pc = "poll" /\ (attempts >= MaximumAttempts \/ timedOut)
    /\ Finish("timeout")
    /\ UNCHANGED <<ledger, fork, index, attempts, timedOut, applied, previous, served,
                   read, proof>>

\* A status read that throws leaves the attempt without a verdict, at either place.
StatusReadFails ==
    /\ pc \in {"status", "confirmStatus"}
    /\ pc' = "poll"
    /\ UNCHANGED <<ledger, fork, index, attempts, timedOut, applied, previous, served,
                   read, result, proof>>

\* The first status read of an attempt, with the four checks that follow it.
UseStatus(s) ==
    IF IsAuthoritativeTerminalStatus(s)
    THEN Finish("terminal") /\ UNCHANGED applied
    ELSE IF applied # 0 /\ ~IsAppliedAt(s, applied)
    THEN Finish("integrity") /\ UNCHANGED applied
    ELSE /\ UNCHANGED result
         /\ IF s.kind = "Applied"
            THEN pc' = "initial" /\ applied' = s.blockHeight
            ELSE pc' = "poll" /\ UNCHANGED applied

ReadStatus ==
    /\ pc = "status"
    /\ \E s \in GlobalStatuses : UseStatus(s)
    /\ served' = {} /\ read' = NoSnapshot
    /\ UNCHANGED <<ledger, fork, index, attempts, timedOut, previous, proof>>

\* The explorer answers one of the three reads of a Promise.all.
ServeTransaction ==
    /\ index.outcome \in {"Applied", "Rejected"}
    /\ read' = [read EXCEPT !.at = index.at, !.outcome = index.outcome]

ServeBlock ==
    /\ applied <= index.head
    /\ applied \in Heights
    /\ read' = [read EXCEPT !.block = index.chain[applied]]

ServeMetrics == read' = [read EXCEPT !.head = index.head, !.finalized = index.finalized]

ReadEvidence ==
    /\ pc \in {"initial", "confirm"}
    /\ \E r \in Reads \ served :
         /\ served' = served \cup {r}
         /\ \/ r = "transaction" /\ ServeTransaction
            \/ r = "block" /\ ServeBlock
            \/ r = "metrics" /\ ServeMetrics
    /\ UNCHANGED <<ledger, fork, index, pc, attempts, timedOut, applied, previous,
                   result, proof>>

\* One of the three reads rejects: Promise.all rejects and the attempt is over.
EvidenceReadFails ==
    /\ pc \in {"initial", "confirm"} /\ served # Reads
    /\ pc' = "poll" /\ served' = {} /\ read' = NoSnapshot
    /\ UNCHANGED <<ledger, fork, index, attempts, timedOut, applied, previous, result,
                   proof>>

\* Faulty: the first snapshot need not be finalized yet.
UsePendingSnapshot ==
    IF \/ ~MatchesApplied(read, applied)
       \/ previous # NoSnapshot /\ ~StableFinalitySnapshots(previous, read)
    THEN Finish("integrity") /\ UNCHANGED previous
    ELSE previous' = read /\ pc' = "confirmStatus" /\ UNCHANGED result

\* The first three answers: parsed, compared with the previous attempt's, kept.
UseInitialSnapshot ==
    IF \/ ~MatchesApplied(read, applied)
       \/ previous # NoSnapshot /\ ~StableFinalitySnapshots(previous, read)
    THEN Finish("integrity") /\ UNCHANGED previous
    ELSE /\ previous' = read
         /\ pc' = IF read.finalized < applied THEN "poll" ELSE "confirmStatus"
         /\ UNCHANGED result

TakeInitialSnapshot ==
    /\ pc = "initial" /\ served = Reads
    /\ UseInitialSnapshot
    /\ UNCHANGED <<ledger, fork, index, attempts, timedOut, applied, served, read, proof>>

\* The second status read, which must repeat the first one.
UseConfirmationStatus(s) ==
    IF IsAuthoritativeTerminalStatus(s) THEN Finish("terminal")
    ELSE IF ~IsAppliedAt(s, applied) THEN Finish("integrity")
    ELSE pc' = "confirm" /\ UNCHANGED result

ReadConfirmationStatus ==
    /\ pc = "confirmStatus"
    /\ \E s \in GlobalStatuses : UseConfirmationStatus(s)
    /\ served' = {} /\ read' = NoSnapshot
    /\ UNCHANGED <<ledger, fork, index, attempts, timedOut, applied, previous, proof>>

\* assertFinalizedTransactionEvidence: the second three answers must agree with
\* the first and must still be finalized; only then is there a proof.
TakeConfirmation ==
    /\ pc = "confirm" /\ served = Reads
    /\ IF /\ MatchesApplied(read, applied)
          /\ StableFinalitySnapshots(previous, read)
          /\ applied <= read.finalized
       THEN Finish("proof") /\ proof' = <<applied, read.block>>
       ELSE Finish("integrity") /\ UNCHANGED proof
    /\ UNCHANGED <<ledger, fork, index, attempts, timedOut, applied, previous, served, read>>

Elapse ==
    /\ pc # "done" /\ ~timedOut /\ timedOut' = TRUE
    /\ UNCHANGED <<ledger, fork, index, pc, attempts, applied, previous, served, read,
                   result, proof>>

\* The ledger's own steps; they stop mattering once the call has ended and the
\* caller holds its result, but they may still happen.
LedgerMoves == LedgerNext /\ UNCHANGED callVars

CallStep == \/ Poll \/ TimeOut \/ ReadStatus \/ StatusReadFails \/ ReadEvidence
            \/ EvidenceReadFails \/ TakeInitialSnapshot \/ ReadConfirmationStatus
            \/ TakeConfirmation

Next == CallStep \/ Elapse \/ LedgerMoves

Spec == Init /\ [][Next]_vars

\* The event loop runs what is ready and every read settles (the endpoint reads
\* carry timeouts); neither the clock nor the ledger owes the call anything.
FairSpec == Spec /\ WF_vars(CallStep)

-----------------------------------------------------------------------------
\* A returned proof names a block that is final on the ledger and holds the
\* transaction, whatever was replaced, indexed or finalized between the reads.
ProofIsFinal == result = "proof" => FinallyApplied(proof[1], proof[2])

\* An integrity error is never a false alarm on a ledger that replaced nothing,
\* but for one case: the explorer answered the metrics before it had indexed the
\* block that its other two answers already show.
IntegrityErrorsAreReal ==
    result = "integrity" => \/ fork > 1
                            \/ "metrics" \in served /\ read.head < applied

\* Once Applied was seen at a height the call never accepts another one, across
\* failed reads, pending snapshots and new attempts.
AppliedHeightIsPinned == [][applied # 0 => applied' = applied]_vars

\* The call returns or throws even if the clock stands still and the ledger
\* never finalizes anything.
Terminates == <>(pc = "done")

\* The call behaves as its callers are told: its snapshots, reads, attempts and
\* deadline are hidden, its result and the proof it returns are what they see.
Oracle == INSTANCE FinalityOracle WITH
    ledger <- ledger, fork <- fork, index <- index, result <- result, proof <- proof
ImplementsOracle == Oracle!OracleSpec
=============================================================================
