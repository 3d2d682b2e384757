-------------------- MODULE FinalizedTransaction_proofs --------------------
(***************************************************************************)
(* Theorems about FinalizedTransaction for every height, number of forks   *)
(* and attempt budget.                                                     *)
(***************************************************************************)
EXTENDS FinalizedTransaction, TLAPS

\* What every reachable ledger, and so every copy of one, looks like.
SoundLedger(l) ==
    /\ l.finalized <= l.head
    /\ l.at <= l.head
    /\ l.at # 0 <=> l.outcome \in {"Applied", "Rejected"}
    /\ \A h \in Heights : h <= l.head => l.chain[h] # 0

\* The finalized part of `old` is still there in `new`.
Extends(old, new) ==
    /\ old.finalized <= new.finalized
    /\ \A h \in Heights :
         h <= old.finalized =>
            /\ new.chain[h] = old.chain[h]
            /\ old.at = h => new.at = h /\ new.outcome = old.outcome

LedgerInv == /\ ledger \in Ledgers /\ index \in Ledgers /\ fork \in 1..MaxForks
             /\ SoundLedger(ledger) /\ SoundLedger(index)
             /\ Extends(index, ledger)

\* The first snapshot's finalized height makes what is read after it immutable.
EvidenceInv ==
    /\ pc \in {"initial", "confirmStatus", "confirm"} => applied \in Heights
    /\ read.finalized <= index.finalized
    /\ pc \in {"confirmStatus", "confirm"} => applied <= index.finalized
    /\ pc = "confirm" =>
         /\ "transaction" \in served /\ read.at = applied =>
              index.at = applied /\ index.outcome = read.outcome
         /\ "block" \in served => read.block = index.chain[applied]

IInv == TypeOK /\ LedgerInv /\ EvidenceInv /\ ProofIsFinal

oracleVars == <<ledger, fork, index, result, proof>>
-----------------------------------------------------------------------------
\* A history that extends an extension of a ledger extends that ledger: steps of the node compose.
LEMMA ExtendsIsTransitive ==
    ASSUME NEW a \in Ledgers, NEW b \in Ledgers, NEW c \in Ledgers,
           Extends(a, b), Extends(b, c)
    PROVE  Extends(a, c)
  <1>1. a.finalized \in Nat /\ b.finalized \in Nat /\ c.finalized \in Nat
    BY LedgerBounds DEF Ledgers
  <1>2. a.finalized <= c.finalized
    BY <1>1 DEF Extends
  <1>3. ASSUME NEW h \in Heights, h <= a.finalized
        PROVE  /\ c.chain[h] = a.chain[h]
               /\ a.at = h => c.at = h /\ c.outcome = a.outcome
    <2>1. h \in Int /\ h <= b.finalized
      BY <1>1, <1>3, LedgerBounds DEF Extends, Heights
    <2> QED BY <1>3, <2>1 DEF Extends
  <1> QED BY <1>2, <1>3 DEF Extends

\* The ledger a fresh node starts from satisfies what the invariant asks of a ledger.
LEMMA NewLedgerIsSound ==
    NewLedger \in Ledgers /\ SoundLedger(NewLedger) /\ Extends(NewLedger, NewLedger)
  BY LedgerBounds DEF NewLedger, Ledgers, Outcomes, Heights, SoundLedger, Extends

\* Every step of the ledger alone keeps it sound and only extends what is final.
LEMMA LedgerGrows ==
    ASSUME ledger \in Ledgers, fork \in 1..MaxForks, SoundLedger(ledger),
           ProduceBlock \/ Finalize \/ ReplaceSuffix \/ Expire
    PROVE  /\ ledger' \in Ledgers /\ fork' \in 1..MaxForks
           /\ SoundLedger(ledger') /\ Extends(ledger, ledger')
  <1> USE LedgerBounds DEF Ledgers, Heights, Outcomes
  <1>1. CASE ProduceBlock
    <2>1. PICK at \in 0..MaxHeight, outcome \in Outcomes :
            /\ ledger' = Produced(at, outcome)
            /\ \/ at = ledger.at /\ outcome = ledger.outcome
               \/ /\ ledger.outcome = "Pending" /\ at = ledger.head + 1
                  /\ outcome \in {"Applied", "Rejected"}
      BY <1>1 DEF ProduceBlock
    <2>2. ledger.head < MaxHeight /\ fork' = fork
      BY <1>1 DEF ProduceBlock
    <2>3. /\ ledger'.head = ledger.head + 1
          /\ ledger'.finalized = ledger.finalized
          /\ ledger'.chain = [ledger.chain EXCEPT ![ledger.head + 1] = fork]
          /\ ledger'.at = at /\ ledger'.outcome = outcome
      BY <2>1 DEF Produced
    <2>4. ledger' \in Ledgers
      BY <2>1, <2>2 DEF Produced
    <2>5. SoundLedger(ledger')
      <3>1. \A h \in Heights : h <= ledger.head + 1 => ledger'.chain[h] # 0
        BY <2>2, <2>3 DEF SoundLedger
      <3>2. /\ ledger'.at <= ledger'.head
            /\ ledger'.at # 0 <=> ledger'.outcome \in {"Applied", "Rejected"}
        BY <2>1, <2>3 DEF SoundLedger
      <3>3. ledger'.finalized <= ledger'.head
        BY <2>3 DEF SoundLedger
      <3> QED BY <2>3, <3>1, <3>2, <3>3 DEF SoundLedger
    <2>6. Extends(ledger, ledger')
      BY <2>1, <2>2, <2>3 DEF SoundLedger, Extends
    <2> QED BY <2>2, <2>4, <2>5, <2>6
  <1>2. CASE Finalize
    <2>1. PICK f \in Heights : /\ ledger.finalized < f /\ f <= ledger.head
                               /\ ledger' = [ledger EXCEPT !.finalized = f]
      BY <1>2 DEF Finalize
    <2>2. /\ ledger'.head = ledger.head /\ ledger'.finalized = f
          /\ ledger'.chain = ledger.chain
          /\ ledger'.at = ledger.at /\ ledger'.outcome = ledger.outcome
          /\ ledger' \in Ledgers
      BY <2>1
    <2>3. SoundLedger(ledger')
      BY <2>1, <2>2 DEF SoundLedger
    <2>4. Extends(ledger, ledger')
      BY <2>1, <2>2 DEF Extends
    <2> QED BY <1>2, <2>2, <2>3, <2>4 DEF Finalize
  <1>3. CASE ReplaceSuffix
    <2>1. PICK k \in Heights, at \in 0..MaxHeight, outcome \in Outcomes :
            /\ ledger.finalized < k /\ k <= ledger.head
            /\ ledger' = Cut(k, at, outcome)
            /\ \/ ledger.at < k /\ at = ledger.at /\ outcome = ledger.outcome
               \/ ledger.at >= k /\ at = 0 /\ outcome = "Pending"
      BY <1>3 DEF ReplaceSuffix
    <2>2. fork < MaxForks /\ fork' = fork + 1
      BY <1>3 DEF ReplaceSuffix
    <2>3. /\ ledger'.head = k - 1
          /\ ledger'.finalized = ledger.finalized
          /\ ledger'.chain = [h \in Heights |-> IF h < k THEN ledger.chain[h] ELSE 0]
          /\ ledger'.at = at /\ ledger'.outcome = outcome
      BY <2>1 DEF Cut
    <2>4. ledger' \in Ledgers
      <3>1. [h \in Heights |-> IF h < k THEN ledger.chain[h] ELSE 0]
              \in [Heights -> 0..MaxForks]
        OBVIOUS
      <3>2. k - 1 \in 0..MaxHeight
        OBVIOUS
      <3> QED BY <2>1, <3>1, <3>2 DEF Cut
    <2>5. SoundLedger(ledger')
      BY <2>1, <2>3 DEF SoundLedger
    <2>6. Extends(ledger, ledger')
      BY <2>1, <2>3 DEF SoundLedger, Extends
    <2> QED BY <2>2, <2>4, <2>5, <2>6
  <1>4. CASE Expire
    BY <1>4 DEF Expire, SoundLedger, Extends
  <1> QED BY <1>1, <1>2, <1>3, <1>4

\* Every move of the node leaves a sound ledger that extends the one before it.
LEMMA LedgerStepInv ==
    ASSUME LedgerInv, LedgerNext
    PROVE  LedgerInv' /\ Extends(ledger, ledger') /\ Extends(index, index')
  <1>0. Extends(ledger, ledger)
    BY LedgerBounds DEF LedgerInv, Extends, Ledgers, Heights
  <1>00. Extends(index, index)
    BY LedgerBounds DEF LedgerInv, Extends, Ledgers, Heights
  <1>1. CASE CatchUp
    BY <1>1, <1>0, <1>00 DEF CatchUp, LedgerInv
  <1>2. CASE ProduceBlock \/ Finalize \/ ReplaceSuffix \/ Expire
    <2>1. index' = index
      BY <1>2 DEF ProduceBlock, Finalize, ReplaceSuffix, Expire
    <2>2. /\ ledger' \in Ledgers /\ fork' \in 1..MaxForks
          /\ SoundLedger(ledger') /\ Extends(ledger, ledger')
      BY <1>2, LedgerGrows DEF LedgerInv
    <2>3. Extends(index, ledger')
      BY <2>2, ExtendsIsTransitive DEF LedgerInv
    <2>4. Extends(index', ledger') /\ SoundLedger(index') /\ index' \in Ledgers
      BY <2>1, <2>3 DEF LedgerInv
    <2>5. LedgerInv'
      BY <2>2, <2>4 DEF LedgerInv, SoundLedger, Extends
    <2> QED BY <2>1, <2>2, <2>5, <1>00
  <1> QED BY <1>1, <1>2 DEF LedgerNext

\* A block that is final stays final, with the transaction in it.
LEMMA FinalIsStable ==
    ASSUME LedgerInv, LedgerNext, NEW h, NEW b, FinallyApplied(h, b)
    PROVE  FinallyApplied(h, b)'
  BY LedgerStepInv DEF FinallyApplied, Extends, LedgerInv, Ledgers, Heights

-----------------------------------------------------------------------------
\* The placeholder held before the first read is a snapshot with nothing finalized.
LEMMA NoSnapshotType == NoSnapshot \in Snapshots /\ NoSnapshot.finalized = 0
  BY LedgerBounds DEF NoSnapshot, Snapshots, Outcomes

\* The inductive invariant holds before the call has read anything.
LEMMA InitIsInductive == Init => IInv
  <1> SUFFICES ASSUME Init PROVE IInv
    OBVIOUS
  <1>1. LedgerInv
    BY NewLedgerIsSound, LedgerBounds DEF Init, LedgerInit, LedgerInv
  <1>2. TypeOK
    <2>1. timedOut \in BOOLEAN
      BY Zenon DEF Init
    <2>2. /\ attempts \in 0..MaximumAttempts /\ applied \in 0..MaxHeight
          /\ proof \in (0..MaxHeight) \X (0..MaxForks)
      BY AttemptBudget, LedgerBounds DEF Init
    <2> QED BY <1>1, <2>1, <2>2, NoSnapshotType DEF Init, LedgerInv, TypeOK
  <1>3. EvidenceInv /\ ProofIsFinal
    BY LedgerBounds DEF Init, LedgerInit, NewLedger, EvidenceInv, NoSnapshot, ProofIsFinal
  <1> QED BY <1>1, <1>2, <1>3 DEF IInv

\* A move of the node between two reads of the call keeps the inductive invariant.
LEMMA LedgerMovesPreserve == IInv /\ LedgerMoves => IInv'
  <1> SUFFICES ASSUME IInv, LedgerMoves PROVE IInv'
    OBVIOUS
  <1>1. LedgerInv' /\ Extends(ledger, ledger') /\ Extends(index, index')
    BY LedgerStepInv DEF IInv, LedgerMoves
  <1>2. TypeOK'
    BY <1>1 DEF IInv, TypeOK, LedgerInv, LedgerMoves, callVars
  <1>3. EvidenceInv'
    <2>1. /\ index \in Ledgers /\ index' \in Ledgers
          /\ applied \in 0..MaxHeight /\ read \in Snapshots
      BY <1>1 DEF IInv, LedgerInv, TypeOK
    <2>2. UNCHANGED <<pc, applied, served, read>>
      BY DEF LedgerMoves, callVars
    <2>3. /\ index.finalized \in Nat /\ index'.finalized \in Nat
          /\ index.finalized <= index'.finalized
          /\ applied \in Nat /\ read.finalized \in Nat
      BY <1>1, <2>1, LedgerBounds DEF Ledgers, Snapshots, Extends
    <2>4. \A h \in Heights : h <= index.finalized =>
            /\ index'.chain[h] = index.chain[h]
            /\ index.at = h => index'.at = h /\ index'.outcome = index.outcome
      BY <1>1 DEF Extends
    <2> QED BY <2>2, <2>3, <2>4 DEF IInv, EvidenceInv
  <1>4. ProofIsFinal'
    <2>1. UNCHANGED <<result, proof>>
      BY DEF LedgerMoves, callVars
    <2> QED BY <2>1, FinalIsStable DEF IInv, LedgerMoves, ProofIsFinal, FinallyApplied
  <1> QED BY <1>1, <1>2, <1>3, <1>4 DEF IInv

\* What the state's own verdict says, as far as the loop uses it.
LEMMA AppliedStatus ==
    ASSUME LedgerInv, NEW s \in GlobalStatuses
    PROVE  /\ s.blockHeight \in 0..MaxHeight
           /\ s.kind = "Applied" => s.resolvedFrom = "state" /\ s.blockHeight \in Heights
  BY LedgerBounds DEF LedgerInv, SoundLedger, GlobalStatuses, Ledgers, Heights, Outcomes

\* Each step of waitForFinalizedTransaction keeps the inductive invariant.
LEMMA CallStepPreserves ==
    ASSUME IInv, CallStep \/ Elapse
    PROVE  IInv'
  <1> USE LedgerBounds, AttemptBudget
  <1>1. LedgerInv' /\ UNCHANGED <<ledger, fork, index>>
    <2>1. UNCHANGED <<ledger, fork, index>>
      BY DEF CallStep, Elapse, Poll, TimeOut, ReadStatus, StatusReadFails, ReadEvidence,
             EvidenceReadFails, TakeInitialSnapshot, ReadConfirmationStatus,
             TakeConfirmation
    <2> QED BY <2>1 DEF IInv, LedgerInv, SoundLedger, Extends
  <1>2. CASE Poll \/ TimeOut \/ StatusReadFails \/ EvidenceReadFails \/ Elapse
    <2>1. TypeOK'
      <3>1. timedOut' \in BOOLEAN
        BY <1>2, Zenon
        DEF IInv, TypeOK, Poll, TimeOut, StatusReadFails, EvidenceReadFails, Elapse
      <3>2. attempts' \in 0..MaximumAttempts
        BY <1>2
        DEF IInv, TypeOK, Poll, TimeOut, StatusReadFails, EvidenceReadFails, Elapse
      <3> QED
        BY <1>1, <1>2, <3>1, <3>2, NoSnapshotType
        DEF IInv, TypeOK, Poll, TimeOut, StatusReadFails, EvidenceReadFails, Elapse, Finish
    <2>2. EvidenceInv'
      BY <1>1, <1>2, NoSnapshotType
      DEF IInv, EvidenceInv, LedgerInv, Ledgers, Poll, TimeOut, StatusReadFails,
          EvidenceReadFails, Elapse, Finish
    <2>3. ProofIsFinal'
      BY <1>1, <1>2 DEF IInv, ProofIsFinal, FinallyApplied, Poll, TimeOut,
         StatusReadFails, EvidenceReadFails, Elapse, Finish
    <2> QED BY <1>1, <2>1, <2>2, <2>3 DEF IInv
  <1>3. CASE ReadStatus
    <2>1. PICK s \in GlobalStatuses : UseStatus(s)
      BY <1>3 DEF ReadStatus
    <2>2. /\ served' = {} /\ read' = NoSnapshot /\ pc = "status"
          /\ UNCHANGED <<attempts, timedOut, previous, proof>>
      BY <1>3 DEF ReadStatus
    <2>3. \/ pc' = "done" /\ result' \in {"terminal", "integrity"} /\ applied' = applied
          \/ pc' = "poll" /\ result' = result /\ applied' = applied
          \/ /\ pc' = "initial" /\ result' = result
             /\ applied' = s.blockHeight /\ s.kind = "Applied"
      BY <2>1 DEF UseStatus, Finish
    <2>4. s.blockHeight \in 0..MaxHeight /\ (s.kind = "Applied" => s.blockHeight \in Heights)
      BY AppliedStatus DEF IInv
    <2>5. TypeOK'
      BY <1>1, <2>2, <2>3, <2>4
      DEF IInv, TypeOK, NoSnapshot, Snapshots, Outcomes, Reads
    <2>6. EvidenceInv'
      BY <1>1, <2>2, <2>3, <2>4 DEF IInv, LedgerInv, Ledgers, EvidenceInv, NoSnapshot
    <2>7. ProofIsFinal'
      BY <1>1, <2>2, <2>3 DEF IInv, ProofIsFinal, FinallyApplied
    <2> QED BY <1>1, <2>5, <2>6, <2>7 DEF IInv
  <1>4. CASE ReadEvidence
    <2>1. PICK r \in Reads \ served :
            /\ served' = served \cup {r}
            /\ \/ r = "transaction" /\ ServeTransaction
               \/ r = "block" /\ ServeBlock
               \/ r = "metrics" /\ ServeMetrics
      BY <1>4 DEF ReadEvidence
    <2>2. pc \in {"initial", "confirm"}
          /\ UNCHANGED <<pc, attempts, timedOut, applied, previous, result, proof>>
      BY <1>4 DEF ReadEvidence
    <2>3. read \in Snapshots /\ index \in Ledgers /\ served \subseteq Reads
      BY DEF IInv, TypeOK
    <2>4. read' \in Snapshots /\ read'.finalized <= index.finalized
      <3>1. /\ index.at \in 0..MaxHeight /\ index.outcome \in Outcomes
            /\ index.head \in 0..MaxHeight /\ index.finalized \in 0..MaxHeight
            /\ \A h \in Heights : index.chain[h] \in 0..MaxForks
            /\ read.finalized <= index.finalized
        BY <2>3 DEF Ledgers, IInv, EvidenceInv
      <3>2. CASE r = "transaction"
        BY <2>1, <2>3, <3>1, <3>2 DEF ServeTransaction, Snapshots
      <3>3. CASE r = "block"
        BY <2>1, <2>3, <3>1, <3>3 DEF ServeBlock, Snapshots
      <3>4. CASE r = "metrics"
        <4>1. read' = [read EXCEPT !.head = index.head, !.finalized = index.finalized]
          BY <2>1, <3>4 DEF ServeMetrics
        <4>2. read'.finalized = index.finalized
          BY <2>3, <4>1 DEF Snapshots
        <4>3. read' \in Snapshots
          BY <2>3, <3>1, <4>1 DEF Snapshots
        <4> QED BY <3>1, <4>2, <4>3
      <3> QED BY <2>1, <3>2, <3>3, <3>4
    <2>5. TypeOK'
      BY <1>1, <2>1, <2>2, <2>4 DEF IInv, TypeOK
    <2>6. EvidenceInv'
      <3>1. CASE r = "transaction"
        BY <1>1, <2>1, <2>2, <2>3, <2>4, <3>1
        DEF IInv, EvidenceInv, ServeTransaction, Snapshots
      <3>2. CASE r = "block"
        BY <1>1, <2>1, <2>2, <2>3, <2>4, <3>2
        DEF IInv, EvidenceInv, ServeBlock, Snapshots
      <3>3. CASE r = "metrics"
        BY <1>1, <2>1, <2>2, <2>3, <2>4, <3>3
        DEF IInv, EvidenceInv, ServeMetrics, Snapshots
      <3> QED BY <2>1, <3>1, <3>2, <3>3
    <2>7. ProofIsFinal'
      BY <1>1, <2>2 DEF IInv, ProofIsFinal, FinallyApplied
    <2> QED BY <1>1, <2>5, <2>6, <2>7 DEF IInv
  <1>5. CASE TakeInitialSnapshot
    <2>1. /\ pc = "initial"
          /\ UNCHANGED <<attempts, timedOut, applied, served, read, proof>>
          /\ UseInitialSnapshot
      BY <1>5 DEF TakeInitialSnapshot
    <2>2. \/ pc' = "done" /\ result' = "integrity" /\ previous' = previous
          \/ pc' = "poll" /\ result' = result /\ previous' = read
          \/ /\ pc' = "confirmStatus" /\ result' = result /\ previous' = read
             /\ ~(read.finalized < applied)
      BY <2>1 DEF UseInitialSnapshot, Finish
    <2>3. TypeOK'
      BY <1>1, <2>1, <2>2 DEF IInv, TypeOK
    <2>4. EvidenceInv'
      <3>1. read.finalized \in Nat /\ applied \in Nat /\ index.finalized \in Nat
        BY DEF IInv, TypeOK, Snapshots, Ledgers
      <3> QED BY <1>1, <2>1, <2>2, <3>1 DEF IInv, EvidenceInv
    <2>5. ProofIsFinal'
      BY <1>1, <2>1, <2>2 DEF IInv, ProofIsFinal, FinallyApplied
    <2> QED BY <1>1, <2>3, <2>4, <2>5 DEF IInv
  <1>6. CASE ReadConfirmationStatus
    <2>1. PICK s \in GlobalStatuses : UseConfirmationStatus(s)
      BY <1>6 DEF ReadConfirmationStatus
    <2>2. /\ pc = "confirmStatus" /\ served' = {} /\ read' = NoSnapshot
          /\ UNCHANGED <<attempts, timedOut, applied, previous, proof>>
      BY <1>6 DEF ReadConfirmationStatus
    <2>3. \/ pc' = "done" /\ result' \in {"terminal", "integrity"}
          \/ pc' = "confirm" /\ result' = result
      BY <2>1 DEF UseConfirmationStatus, Finish
    <2>4. TypeOK'
      BY <1>1, <2>2, <2>3 DEF IInv, TypeOK, NoSnapshot, Snapshots, Outcomes, Reads
    <2>5. EvidenceInv'
      BY <1>1, <2>2, <2>3 DEF IInv, LedgerInv, Ledgers, EvidenceInv, NoSnapshot
    <2>6. ProofIsFinal'
      BY <1>1, <2>2, <2>3 DEF IInv, ProofIsFinal, FinallyApplied
    <2> QED BY <1>1, <2>4, <2>5, <2>6 DEF IInv
  <1>7. CASE TakeConfirmation
    <2>1. /\ pc = "confirm" /\ served = Reads /\ pc' = "done"
          /\ UNCHANGED <<attempts, timedOut, applied, previous, served, read>>
      BY <1>7 DEF TakeConfirmation, Finish
    <2>2. \/ result' = "integrity" /\ proof' = proof
          \/ /\ result' = "proof" /\ proof' = <<applied, read.block>>
             /\ MatchesApplied(read, applied)
      BY <1>7 DEF TakeConfirmation, Finish
    <2>3. TypeOK'
      BY <1>1, <2>1, <2>2 DEF IInv, TypeOK, Snapshots
    <2>4. EvidenceInv'
      BY <1>1, <2>1 DEF IInv, EvidenceInv
    <2>5. ProofIsFinal'
      <3>1. CASE result' = "proof"
        <4>1. /\ applied \in Heights /\ applied <= index.finalized
              /\ index.at = applied /\ index.outcome = "Applied"
              /\ read.block = index.chain[applied]
          BY <2>1, <2>2, <3>1 DEF IInv, EvidenceInv, MatchesApplied, Reads
        <4>2. FinallyApplied(applied, read.block)
          BY <4>1 DEF IInv, LedgerInv, Extends, FinallyApplied, Ledgers, Heights
        <4>3. FinallyApplied(proof'[1], proof'[2])
          BY <2>2, <3>1, <4>2
        <4> QED BY <1>1, <4>3 DEF ProofIsFinal, FinallyApplied
      <3>2. CASE result' # "proof"
        BY <3>2 DEF ProofIsFinal
      <3> QED BY <3>1, <3>2
    <2> QED BY <1>1, <2>3, <2>4, <2>5 DEF IInv
  <1> QED BY <1>2, <1>3, <1>4, <1>5, <1>6, <1>7 DEF CallStep

\* Every step of the specification, or a stutter, keeps the inductive invariant.
LEMMA StepPreserves == IInv /\ [Next]_vars => IInv'
  <1> SUFFICES ASSUME IInv, [Next]_vars PROVE IInv'
    OBVIOUS
  <1>1. CASE CallStep \/ Elapse
    BY <1>1, CallStepPreserves
  <1>2. CASE LedgerMoves
    BY <1>2, LedgerMovesPreserve
  <1>3. CASE UNCHANGED vars
    BY <1>3 DEF vars, IInv, TypeOK, LedgerInv, SoundLedger, Extends, EvidenceInv,
       ProofIsFinal, FinallyApplied
  <1> QED BY <1>1, <1>2, <1>3 DEF Next

\* The inductive invariant: types, a ledger that only extends what is final, and
\* evidence that is fixed once the first snapshot's finalized height covers it.
THEOREM Inductive == Spec => []IInv
  BY InitIsInductive, StepPreserves, PTL DEF Spec

\* Every variable of the call keeps its type.
THEOREM TypeCorrect == Spec => []TypeOK
  <1>1. IInv => TypeOK
    BY DEF IInv
  <1> QED BY <1>1, Inductive, PTL

\* waitForFinalizedTransaction never returns a proof for a block that is not final
\* or does not hold the transaction, however the ledger moves between its reads.
THEOREM ProofsAreFinal == Spec => []ProofIsFinal
  <1>1. IInv => ProofIsFinal
    BY DEF IInv
  <1> QED BY <1>1, Inductive, PTL

\* Once a call has seen Applied at a height, no later read, attempt or ledger
\* step makes it look for the transaction anywhere else.
THEOREM AppliedIsPinned == Spec => AppliedHeightIsPinned
  <1>1. [Next]_vars => [applied # 0 => applied' = applied]_vars
    <2> SUFFICES ASSUME Next, applied # 0 PROVE applied' = applied
      OBVIOUS
    <2>1. CASE ReadStatus
      <3>1. PICK s \in GlobalStatuses : UseStatus(s)
        BY <2>1 DEF ReadStatus
      <3> QED BY <3>1 DEF UseStatus, IsAppliedAt
    <2>2. CASE LedgerMoves \/ Elapse
      BY <2>2 DEF LedgerMoves, callVars, Elapse
    <2>3. CASE CallStep /\ ~ReadStatus
      BY <2>3 DEF CallStep, Poll, TimeOut, StatusReadFails, ReadEvidence,
         EvidenceReadFails, TakeInitialSnapshot, ReadConfirmationStatus, TakeConfirmation
    <2> QED BY <2>1, <2>2, <2>3 DEF Next
  <1> QED BY <1>1, PTL DEF Spec, AppliedHeightIsPinned

-----------------------------------------------------------------------------
\* An initial state of the call maps to an initial state of the oracle.
LEMMA InitImplementsOracle == Init => Oracle!OracleInit
  BY DEF Init, Oracle!OracleInit, LedgerInit, Oracle!LedgerInit, NewLedger,
     Oracle!NewLedger, Heights, Oracle!Heights

\* A move of the node maps to a move of the oracle or a stutter.
LEMMA LedgerMovesImplementOracle == LedgerMoves => Oracle!OracleNext
  BY DEF LedgerMoves, callVars, Oracle!OracleNext, Oracle!LedgerStep, LedgerNext,
     Oracle!LedgerNext, ProduceBlock, Oracle!ProduceBlock, Produced, Oracle!Produced,
     Finalize, Oracle!Finalize, ReplaceSuffix, Oracle!ReplaceSuffix, Cut, Oracle!Cut,
     Expire, Oracle!Expire, CatchUp, Oracle!CatchUp, Heights, Oracle!Heights

\* While the loop runs the call has no result yet.
ResultInv == pc # "done" => result = "none"

\* What is known of a returned result holds in every reachable state.
LEMMA ResultInvariant == Spec => []ResultInv
  <1>1. Init => ResultInv
    BY DEF Init, ResultInv
  <1>2. ResultInv /\ [Next]_vars => ResultInv'
    BY DEF ResultInv, Next, vars, CallStep, Elapse, LedgerMoves, callVars, Poll, TimeOut,
       ReadStatus, UseStatus, StatusReadFails, ReadEvidence, EvidenceReadFails,
       TakeInitialSnapshot, UseInitialSnapshot, ReadConfirmationStatus,
       UseConfirmationStatus, TakeConfirmation, Finish
  <1> QED BY <1>1, <1>2, PTL DEF Spec

\* Each step of the call is one of the oracle's three outcomes or changes nothing
\* the oracle shows.
LEMMA CallStepImplementsOracle ==
    ASSUME IInv, IInv', ResultInv, CallStep \/ Elapse
    PROVE  Oracle!OracleNext \/ UNCHANGED oracleVars
  <1>1. UNCHANGED <<ledger, fork, index>>
    BY DEF CallStep, Elapse, Poll, TimeOut, ReadStatus, StatusReadFails, ReadEvidence,
           EvidenceReadFails, TakeInitialSnapshot, ReadConfirmationStatus, TakeConfirmation
  <1>2. CASE Poll \/ StatusReadFails \/ ReadEvidence \/ EvidenceReadFails \/ Elapse
    BY <1>1, <1>2 DEF Poll, StatusReadFails, ReadEvidence, EvidenceReadFails, Elapse,
       oracleVars
  <1> DEFINE Ends(r) == result = "none" /\ result' = r /\ proof' = proof
  <1>3. ASSUME NEW r \in {"integrity", "timeout"}, Ends(r)
        PROVE  Oracle!OracleNext
    BY <1>1, <1>3 DEF Oracle!OracleNext, Oracle!GiveUp
  <1>4. ASSUME NEW s \in GlobalStatuses, IsAuthoritativeTerminalStatus(s), Ends("terminal")
        PROVE  Oracle!OracleNext
    <2>1. ledger.outcome \in {"Rejected", "Expired"}
      BY <1>4 DEF GlobalStatuses, IsAuthoritativeTerminalStatus
    <2> QED BY <1>1, <1>4, <2>1 DEF Oracle!OracleNext, Oracle!FailTerminally
  <1>5. CASE TimeOut
    <2>1. Ends("timeout")
      BY <1>5 DEF TimeOut, Finish, ResultInv
    <2> QED BY <1>3, <2>1
  <1>6. CASE ReadStatus
    <2>1. PICK s \in GlobalStatuses : UseStatus(s)
      BY <1>6 DEF ReadStatus
    <2>2. proof' = proof /\ result = "none"
      BY <1>6 DEF ReadStatus, ResultInv
    <2>3. \/ IsAuthoritativeTerminalStatus(s) /\ result' = "terminal"
          \/ result' = "integrity"
          \/ result' = result
      BY <2>1 DEF UseStatus, Finish
    <2> QED BY <1>1, <1>3, <1>4, <2>2, <2>3 DEF oracleVars
  <1>7. CASE TakeInitialSnapshot
    <2>1. proof' = proof /\ result = "none"
      BY <1>7 DEF TakeInitialSnapshot, ResultInv
    <2>2. result' = "integrity" \/ result' = result
      BY <1>7 DEF TakeInitialSnapshot, UseInitialSnapshot, Finish
    <2> QED BY <1>1, <1>3, <2>1, <2>2 DEF oracleVars
  <1>8. CASE ReadConfirmationStatus
    <2>1. PICK s \in GlobalStatuses : UseConfirmationStatus(s)
      BY <1>8 DEF ReadConfirmationStatus
    <2>2. proof' = proof /\ result = "none"
      BY <1>8 DEF ReadConfirmationStatus, ResultInv
    <2>3. \/ IsAuthoritativeTerminalStatus(s) /\ result' = "terminal"
          \/ result' = "integrity"
          \/ result' = result
      BY <2>1 DEF UseConfirmationStatus, Finish
    <2> QED BY <1>1, <1>3, <1>4, <2>2, <2>3 DEF oracleVars
  <1>9. CASE TakeConfirmation
    <2>1. result = "none"
      BY <1>9 DEF TakeConfirmation, ResultInv
    <2>2. CASE result' = "integrity" /\ proof' = proof
      BY <1>3, <2>1, <2>2
    <2>3. CASE result' = "proof" /\ proof' = <<applied, read.block>>
      <3>1. FinallyApplied(applied, read.block)
        <4>1. FinallyApplied(proof'[1], proof'[2])
          BY <1>1, <2>3 DEF IInv, ProofIsFinal, FinallyApplied
        <4> QED BY <2>3, <4>1
      <3>2. applied \in Heights /\ read.block \in 1..MaxForks
        <4>1. /\ applied \in Heights /\ applied <= ledger.finalized
              /\ ledger.chain[applied] = read.block
          BY <3>1 DEF FinallyApplied
        <4>2. /\ ledger.finalized <= ledger.head
              /\ \A h \in Heights : h <= ledger.head => ledger.chain[h] # 0
          BY DEF IInv, LedgerInv, SoundLedger
        <4>3. /\ ledger.finalized \in 0..MaxHeight /\ ledger.head \in 0..MaxHeight
              /\ ledger.chain[applied] \in 0..MaxForks
          BY <4>1 DEF IInv, LedgerInv, Ledgers
        <4>4. applied <= ledger.head
          BY <4>1, <4>2, <4>3, LedgerBounds DEF Heights
        <4> QED BY <4>1, <4>2, <4>3, <4>4, LedgerBounds
      <3>3. Oracle!FinallyApplied(applied, read.block) /\ applied \in Oracle!Heights
        BY <3>1, <3>2 DEF FinallyApplied, Oracle!FinallyApplied, Heights, Oracle!Heights
      <3> QED BY <1>1, <2>1, <2>3, <3>2, <3>3
          DEF Oracle!OracleNext, Oracle!Prove, Oracle!ledgerVars
    <2> QED BY <1>9, <2>2, <2>3 DEF TakeConfirmation, Finish
  <1> QED BY <1>2, <1>5, <1>6, <1>7, <1>8, <1>9 DEF CallStep

\* The polling loop implements its one-step specification: whatever the ledger does
\* between the reads, a caller can tell no difference from an atomic look at it.
THEOREM Implementation == Spec => ImplementsOracle
  <1>1. IInv /\ IInv' /\ ResultInv /\ [Next]_vars => [Oracle!OracleNext]_(Oracle!oracleVars)
    <2> SUFFICES ASSUME IInv, IInv', ResultInv, [Next]_vars
                 PROVE  Oracle!OracleNext \/ UNCHANGED oracleVars
      BY DEF Oracle!oracleVars, oracleVars
    <2>1. CASE LedgerMoves
      BY <2>1, LedgerMovesImplementOracle
    <2>2. CASE CallStep \/ Elapse
      BY <2>2, CallStepImplementsOracle
    <2>3. CASE UNCHANGED vars
      BY <2>3 DEF vars, oracleVars
    <2> QED BY <2>1, <2>2, <2>3 DEF Next
  <1> QED BY <1>1, InitImplementsOracle, Inductive, ResultInvariant, PTL
      DEF Spec, ImplementsOracle, Oracle!OracleSpec
-----------------------------------------------------------------------------
\* A ledger that replaced nothing: all its blocks are of the first fork.
FirstFork(l) == \A h \in Heights : h <= l.head => l.chain[h] = 1

\* While no suffix was replaced the explorer's copy is a prefix of the ledger, the
\* place where the call saw the transaction is its place, what was read repeats it,
\* and the heights that were read only grow from one attempt to the next.
SteadyLedger ==
    /\ FirstFork(ledger) /\ FirstFork(index)
    /\ index.head <= ledger.head
    /\ index.at # 0 => ledger.at = index.at /\ ledger.outcome = index.outcome
    /\ applied # 0 => ledger.at = applied /\ ledger.outcome = "Applied"

SteadyRead ==
    /\ applied = 0 => read = NoSnapshot /\ served = {}
    /\ "transaction" \in served => read.at = applied /\ read.outcome = "Applied"
    /\ "block" \in served => read.block = 1
    /\ read.finalized <= read.head /\ read.head <= index.head
    /\ "metrics" \in served =>
         previous.head <= read.head /\ previous.finalized <= read.finalized

SteadyPrevious ==
    /\ applied = 0 => previous = NoSnapshot
    /\ previous # NoSnapshot =>
         previous.at = applied /\ previous.outcome = "Applied" /\ previous.block = 1
    /\ previous.head <= index.head /\ previous.finalized <= index.finalized
    /\ pc \in {"confirmStatus", "confirm"} => applied <= previous.finalized

SteadyInv == fork = 1 => SteadyLedger /\ SteadyRead /\ SteadyPrevious

\* A ledger that has replaced nothing only grows, and the explorer follows it.
LEMMA SteadyLedgerMoves ==
    ASSUME IInv, SteadyInv, LedgerMoves, fork' = 1
    PROVE  SteadyLedger' /\ index.head <= index'.head /\ index.finalized <= index'.finalized
  <1> USE LedgerBounds DEF Ledgers, Heights
  <1>1. /\ ledger \in Ledgers /\ index \in Ledgers
        /\ ledger' \in Ledgers /\ index' \in Ledgers
        /\ SoundLedger(ledger) /\ SoundLedger(index)
        /\ applied' = applied /\ Extends(index, index')
    BY LedgerStepInv DEF IInv, LedgerMoves, LedgerInv, callVars
  <1>2. fork = 1 /\ SteadyLedger /\ ~ReplaceSuffix
    BY DEF IInv, TypeOK, SteadyInv, LedgerMoves, LedgerNext, ProduceBlock, Finalize,
           ReplaceSuffix, Expire, CatchUp
  <1>3. /\ index.finalized <= index'.finalized
        /\ index.head <= ledger.head
        /\ index.at # 0 => ledger.outcome # "Pending"
    BY <1>1, <1>2 DEF Extends, SteadyLedger, SoundLedger
  <1>4. CASE ProduceBlock
    <2>1. PICK at \in 0..MaxHeight, outcome \in Outcomes :
            /\ ledger' = Produced(at, outcome)
            /\ \/ at = ledger.at /\ outcome = ledger.outcome
               \/ ledger.outcome = "Pending"
      BY <1>1, <1>4 DEF ProduceBlock, Outcomes
    <2>2. /\ index' = index /\ ledger.head < MaxHeight
          /\ ledger'.head = ledger.head + 1
          /\ ledger'.chain = [ledger.chain EXCEPT ![ledger.head + 1] = 1]
          /\ ledger'.at = at /\ ledger'.outcome = outcome
      BY <1>2, <1>4, <2>1 DEF ProduceBlock, Produced
    <2>3. FirstFork(ledger')
      <3>1. ledger.head \in Int /\ DOMAIN ledger.chain = Heights
        BY <1>1
      <3>0. \A h \in Heights : h <= ledger.head => ledger.chain[h] = 1
        BY <1>2 DEF SteadyLedger, FirstFork
      <3>2. ASSUME NEW h \in Heights, h <= ledger.head + 1
            PROVE  ledger'.chain[h] = 1
        <4>1. ledger'.chain[h] = IF h = ledger.head + 1 THEN 1 ELSE ledger.chain[h]
          BY <2>2, <3>1
        <4>2. h # ledger.head + 1 => h <= ledger.head
          BY <3>1, <3>2
        <4> QED BY <3>0, <4>1, <4>2
      <3> QED BY <2>2, <3>2 DEF FirstFork
    <2>4. /\ index.at # 0 => ledger'.at = index.at /\ ledger'.outcome = index.outcome
          /\ applied # 0 => ledger'.at = applied /\ ledger'.outcome = "Applied"
      BY <1>2, <1>3, <2>1, <2>2 DEF SteadyLedger
    <2>5. index.head <= ledger'.head
      BY <1>1, <1>3, <2>2
    <2> QED BY <1>1, <1>2, <1>3, <2>2, <2>3, <2>4, <2>5 DEF SteadyLedger, FirstFork
  <1>5. CASE Finalize
    <2>1. /\ index' = index /\ ledger'.head = ledger.head /\ ledger'.chain = ledger.chain
          /\ ledger'.at = ledger.at /\ ledger'.outcome = ledger.outcome
      BY <1>1, <1>5 DEF Finalize
    <2> QED BY <1>1, <1>2, <1>3, <2>1 DEF SteadyLedger, FirstFork
  <1>6. CASE Expire
    <2>1. /\ index' = index /\ ledger'.head = ledger.head /\ ledger'.chain = ledger.chain
          /\ ledger'.at = ledger.at /\ ledger.outcome = "Pending"
      BY <1>1, <1>6 DEF Expire
    <2> QED BY <1>1, <1>2, <1>3, <2>1 DEF SteadyLedger, FirstFork
  <1>7. CASE CatchUp
    BY <1>1, <1>2, <1>3, <1>7 DEF CatchUp, SteadyLedger, FirstFork
  <1> QED BY <1>2, <1>4, <1>5, <1>6, <1>7 DEF LedgerMoves, LedgerNext

\* A move of the node changes nothing the call has read and no height it compares with.
LEMMA SteadyMoves ==
    ASSUME IInv, SteadyInv, LedgerMoves, fork' = 1
    PROVE  SteadyLedger' /\ SteadyRead' /\ SteadyPrevious'
  <1>1. SteadyLedger' /\ index.head <= index'.head /\ index.finalized <= index'.finalized
    BY SteadyLedgerMoves
  <1>2. UNCHANGED callVars /\ SteadyRead /\ SteadyPrevious
    BY DEF IInv, TypeOK, SteadyInv, LedgerMoves, LedgerNext, ProduceBlock, Finalize,
           ReplaceSuffix, Expire, CatchUp
  <1>3. /\ index.head \in Int /\ index.finalized \in Int
        /\ index'.head \in Int /\ index'.finalized \in Int
        /\ read.head \in Int /\ previous.head \in Int /\ previous.finalized \in Int
    BY LedgerStepInv, LedgerBounds DEF IInv, LedgerInv, TypeOK, LedgerMoves, Ledgers, Snapshots
  <1>4. SteadyRead'
    BY <1>1, <1>2, <1>3 DEF SteadyRead, callVars
  <1>5. SteadyPrevious'
    BY <1>1, <1>2, <1>3 DEF SteadyPrevious, callVars
  <1> QED BY <1>1, <1>4, <1>5

\* On a ledger that has replaced nothing, no status can contradict the height the call saw.
LEMMA SteadyStatus ==
    ASSUME IInv, SteadyLedger, NEW s \in GlobalStatuses
    PROVE  /\ applied # 0 => IsAppliedAt(s, applied)
           /\ s.kind = "Applied" =>
                s.blockHeight = ledger.at /\ ledger.outcome = "Applied"
  BY DEF GlobalStatuses, SteadyLedger, IsAppliedAt

\* Nor can the three answers of an attempt contradict those of an earlier one.
LEMMA SteadyAnswers ==
    ASSUME IInv, SteadyRead, SteadyPrevious, served = Reads, applied <= read.head,
           pc \in {"initial", "confirm"}
    PROVE  /\ MatchesApplied(read, applied)
           /\ previous # NoSnapshot => StableFinalitySnapshots(previous, read)
           /\ pc = "confirm" => previous # NoSnapshot /\ applied <= read.finalized
  <1>1. /\ previous.finalized \in Int /\ read.finalized \in Int /\ applied \in Int
        /\ applied > 0
    BY LedgerBounds DEF IInv, TypeOK, EvidenceInv, Snapshots, Heights
  <1>2. pc = "confirm" => previous # NoSnapshot /\ applied <= read.finalized
    BY <1>1, NoSnapshotType DEF SteadyRead, SteadyPrevious, Reads
  <1>3. MatchesApplied(read, applied)
    BY DEF SteadyRead, Reads, MatchesApplied
  <1>4. previous # NoSnapshot => StableFinalitySnapshots(previous, read)
    BY DEF SteadyRead, SteadyPrevious, Reads, StableFinalitySnapshots
  <1> QED BY <1>2, <1>3, <1>4

\* Each step of the call keeps the invariant of a ledger that has replaced nothing,
\* and ends with an integrity error only in the one case the property allows.
LEMMA SteadyCall ==
    ASSUME IInv, ResultInv, IntegrityErrorsAreReal, SteadyInv, fork = 1,
           CallStep \/ Elapse
    PROVE  /\ SteadyLedger' /\ SteadyRead' /\ SteadyPrevious'
           /\ IntegrityErrorsAreReal'
  <1> USE LedgerBounds
  <1>1. SteadyLedger /\ SteadyRead /\ SteadyPrevious
    BY DEF SteadyInv
  <1>2. UNCHANGED <<ledger, fork, index>>
    BY DEF CallStep, Elapse, Poll, TimeOut, ReadStatus, StatusReadFails, ReadEvidence,
           EvidenceReadFails, TakeInitialSnapshot, ReadConfirmationStatus, TakeConfirmation
  <1>3. /\ index \in Ledgers /\ read \in Snapshots /\ previous \in Snapshots
        /\ applied \in 0..MaxHeight /\ served \subseteq Reads
        /\ SoundLedger(index) /\ SoundLedger(ledger)
    BY DEF IInv, TypeOK, LedgerInv
  <1>4. /\ NoSnapshot.head = 0 /\ NoSnapshot.finalized = 0
        /\ index.head \in Nat /\ index.finalized \in Nat
    BY <1>3 DEF NoSnapshot, Ledgers
  <1>5. CASE Poll \/ TimeOut \/ StatusReadFails \/ EvidenceReadFails \/ Elapse
    <2>1. /\ UNCHANGED <<applied, previous>>
          /\ \/ UNCHANGED <<served, read>>
             \/ served' = {} /\ read' = NoSnapshot
          /\ pc' \in {"confirmStatus", "confirm"} => pc' = pc
          /\ result' # "integrity" \/ UNCHANGED <<result, served, read>>
      BY <1>5 DEF Poll, TimeOut, StatusReadFails, EvidenceReadFails, Elapse, Finish, ResultInv
    <2>2. SteadyLedger' /\ SteadyPrevious'
      BY <1>1, <1>2, <2>1 DEF SteadyLedger, FirstFork, SteadyPrevious
    <2>3. SteadyRead'
      BY <1>1, <1>2, <1>4, <2>1 DEF SteadyRead
    <2>4. IntegrityErrorsAreReal'
      BY <1>2, <2>1 DEF IntegrityErrorsAreReal
    <2> QED BY <2>2, <2>3, <2>4
  <1>6. CASE ReadStatus
    <2>1. PICK s \in GlobalStatuses : UseStatus(s)
      BY <1>6 DEF ReadStatus
    <2>2. /\ served' = {} /\ read' = NoSnapshot /\ previous' = previous
          /\ result = "none"
      BY <1>6 DEF ReadStatus, ResultInv
    <2>3. /\ applied # 0 => IsAppliedAt(s, applied)
          /\ s.kind = "Applied" => s.blockHeight = ledger.at /\ ledger.outcome = "Applied"
      BY <1>1, SteadyStatus
    <2>4. /\ pc' \notin {"confirmStatus", "confirm"} /\ result' # "integrity"
          /\ \/ applied' = applied
             \/ s.kind = "Applied" /\ applied' = s.blockHeight
      BY <2>1, <2>2, <2>3 DEF UseStatus, Finish
    <2>5. SteadyLedger'
      BY <1>1, <1>2, <2>3, <2>4 DEF SteadyLedger, FirstFork
    <2>6. SteadyRead'
      BY <1>2, <1>4, <2>2 DEF SteadyRead
    <2>7. SteadyPrevious'
      <3>1. previous # NoSnapshot => applied' = applied
        BY <1>1, <2>3, <2>4 DEF IsAppliedAt, SteadyPrevious, SteadyLedger
      <3> QED BY <1>1, <1>2, <2>2, <2>4, <3>1 DEF SteadyPrevious
    <2> QED BY <2>4, <2>5, <2>6, <2>7 DEF IntegrityErrorsAreReal
  <1>7. CASE ReadEvidence
    <2>1. PICK r \in Reads \ served :
            /\ served' = served \cup {r}
            /\ \/ r = "transaction" /\ ServeTransaction
               \/ r = "block" /\ ServeBlock
               \/ r = "metrics" /\ ServeMetrics
      BY <1>7 DEF ReadEvidence
    <2>2. /\ pc \in {"initial", "confirm"} /\ UNCHANGED <<pc, applied, previous, result>>
          /\ applied \in Heights /\ applied # 0 /\ result = "none"
      BY <1>7 DEF ReadEvidence, IInv, EvidenceInv, ResultInv, Heights
    <2>3. SteadyLedger' /\ SteadyPrevious'
      BY <1>1, <1>2, <2>2 DEF SteadyLedger, FirstFork, SteadyPrevious
    <2>4. CASE r = "transaction"
      <3>1. index.at = applied /\ index.outcome = "Applied"
        BY <1>1, <1>3, <2>1, <2>2, <2>4
        DEF ServeTransaction, SteadyLedger, SoundLedger
      <3>2. read' = [read EXCEPT !.at = applied, !.outcome = "Applied"]
        BY <2>1, <2>4, <3>1 DEF ServeTransaction
      <3>3. /\ read'.at = applied /\ read'.outcome = "Applied" /\ read'.block = read.block
            /\ read'.head = read.head /\ read'.finalized = read.finalized
        BY <1>3, <3>2 DEF Snapshots
      <3> QED BY <1>1, <1>2, <2>1, <2>2, <2>3, <2>4, <3>3
          DEF SteadyRead, IntegrityErrorsAreReal
    <2>5. CASE r = "block"
      <3>1. index.chain[applied] = 1
        BY <1>1, <2>1, <2>2, <2>5 DEF ServeBlock, SteadyLedger, FirstFork
      <3>2. /\ read'.at = read.at /\ read'.outcome = read.outcome /\ read'.block = 1
            /\ read'.head = read.head /\ read'.finalized = read.finalized
        BY <1>3, <2>1, <2>5, <3>1 DEF ServeBlock, Snapshots
      <3> QED BY <1>1, <1>2, <2>1, <2>2, <2>3, <2>5, <3>2
          DEF SteadyRead, IntegrityErrorsAreReal
    <2>6. CASE r = "metrics"
      <3>1. /\ read'.at = read.at /\ read'.outcome = read.outcome
            /\ read'.block = read.block
            /\ read'.head = index.head /\ read'.finalized = index.finalized
        BY <1>3, <2>1, <2>6 DEF ServeMetrics, Snapshots
      <3>2. index.finalized <= index.head
        BY <1>3 DEF SoundLedger
      <3>3. previous.head <= index.head /\ previous.finalized <= index.finalized
        BY <1>1 DEF SteadyPrevious
      <3> QED BY <1>1, <1>2, <1>4, <2>1, <2>2, <2>3, <2>6, <3>1, <3>2, <3>3
          DEF SteadyRead, IntegrityErrorsAreReal
    <2> QED BY <2>1, <2>4, <2>5, <2>6
  <1>8. CASE TakeInitialSnapshot
    <2>1. /\ pc = "initial" /\ served = Reads /\ UseInitialSnapshot
          /\ UNCHANGED <<applied, served, read>> /\ result = "none"
      BY <1>8 DEF TakeInitialSnapshot, ResultInv
    <2>2. SteadyLedger'
      BY <1>1, <1>2, <2>1 DEF SteadyLedger, FirstFork
    <2>3. CASE applied <= read.head
      <3>1. /\ MatchesApplied(read, applied)
            /\ previous # NoSnapshot => StableFinalitySnapshots(previous, read)
        BY <1>1, <2>1, <2>3, SteadyAnswers
      <3>2. /\ previous' = read /\ result' = result
            /\ pc' = IF read.finalized < applied THEN "poll" ELSE "confirmStatus"
        BY <2>1, <3>1 DEF UseInitialSnapshot
      <3>3. /\ read.at = applied /\ read.outcome = "Applied" /\ read.block = 1
            /\ read.head <= index.head /\ read.finalized <= index.finalized
        BY <1>1, <2>1 DEF SteadyRead, Reads, IInv, EvidenceInv
      <3>4. /\ read.finalized \in Int /\ read.head \in Int /\ applied \in Int
            /\ applied # 0
        BY <1>3, <2>1 DEF Snapshots, IInv, EvidenceInv, Heights
      <3>5. SteadyPrevious'
        BY <1>2, <2>1, <3>2, <3>3, <3>4 DEF SteadyPrevious
      <3>6. SteadyRead'
        BY <1>1, <1>2, <2>1, <3>2, <3>4 DEF SteadyRead
      <3> QED BY <2>1, <2>2, <3>2, <3>5, <3>6 DEF IntegrityErrorsAreReal
    <2>4. CASE ~(applied <= read.head)
      <3>1. ~MatchesApplied(read, applied)
        BY <2>4 DEF MatchesApplied
      <3>2. pc' = "done" /\ previous' = previous
        BY <2>1, <3>1 DEF UseInitialSnapshot, Finish
      <3>3. read.head < applied
        BY <1>3, <2>4 DEF Snapshots
      <3>4. SteadyRead' /\ SteadyPrevious'
        BY <1>1, <1>2, <2>1, <3>2 DEF SteadyRead, SteadyPrevious
      <3> QED BY <1>2, <2>1, <2>2, <3>3, <3>4 DEF IntegrityErrorsAreReal, Reads
    <2> QED BY <2>3, <2>4
  <1>9. CASE ReadConfirmationStatus
    <2>1. PICK s \in GlobalStatuses : UseConfirmationStatus(s)
      BY <1>9 DEF ReadConfirmationStatus
    <2>2. /\ pc = "confirmStatus" /\ served' = {} /\ read' = NoSnapshot
          /\ UNCHANGED <<applied, previous>> /\ applied # 0 /\ result = "none"
      BY <1>9 DEF ReadConfirmationStatus, IInv, EvidenceInv, ResultInv, Heights
    <2>3. IsAppliedAt(s, applied)
      BY <1>1, <2>2, SteadyStatus
    <2>4. result' # "integrity"
      BY <2>1, <2>2, <2>3 DEF UseConfirmationStatus, Finish
    <2>5. SteadyLedger' /\ SteadyPrevious'
      BY <1>1, <1>2, <2>2 DEF SteadyLedger, FirstFork, SteadyPrevious
    <2>6. SteadyRead'
      BY <1>2, <1>4, <2>2 DEF SteadyRead
    <2> QED BY <2>4, <2>5, <2>6 DEF IntegrityErrorsAreReal
  <1>10. CASE TakeConfirmation
    <2>1. /\ pc = "confirm" /\ served = Reads /\ pc' = "done"
          /\ UNCHANGED <<applied, previous, served, read>>
      BY <1>10 DEF TakeConfirmation, Finish
    <2>2. SteadyLedger' /\ SteadyRead' /\ SteadyPrevious'
      BY <1>1, <1>2, <2>1 DEF SteadyLedger, FirstFork, SteadyRead, SteadyPrevious
    <2>3. CASE applied <= read.head
      <3>1. /\ MatchesApplied(read, applied)
            /\ StableFinalitySnapshots(previous, read) /\ applied <= read.finalized
        BY <1>1, <2>1, <2>3, SteadyAnswers
      <3>2. result' = "proof"
        BY <1>10, <3>1 DEF TakeConfirmation, Finish
      <3> QED BY <2>2, <3>2 DEF IntegrityErrorsAreReal
    <2>4. CASE ~(applied <= read.head)
      <3>1. read.head < applied
        BY <1>3, <2>4 DEF Snapshots
      <3> QED BY <2>1, <2>2, <3>1 DEF IntegrityErrorsAreReal, Reads
    <2> QED BY <2>3, <2>4
  <1> QED BY <1>5, <1>6, <1>7, <1>8, <1>9, <1>10 DEF CallStep

\* On a ledger that replaced nothing the call never reports an integrity error, except
\* when the explorer's metrics were read before it had indexed the transaction's block:
\* every other disagreement it reports is a disagreement of the ledger with itself.
THEOREM IntegrityErrorsMeanReplacement == Spec => []IntegrityErrorsAreReal
  <1> DEFINE JInv == SteadyInv /\ IntegrityErrorsAreReal
  <1>1. Init => JInv
    <2> SUFFICES ASSUME Init PROVE JInv
      OBVIOUS
    <2>1. NoSnapshot.head = 0 /\ NoSnapshot.finalized = 0
      BY DEF NoSnapshot
    <2> QED BY <2>1, LedgerBounds
        DEF Init, LedgerInit, NewLedger, SteadyInv, SteadyLedger, FirstFork, SteadyRead,
            SteadyPrevious, IntegrityErrorsAreReal, Heights
  <1>2. IInv /\ ResultInv /\ JInv /\ [Next]_vars => JInv'
    <2> SUFFICES ASSUME IInv, ResultInv, JInv, [Next]_vars PROVE JInv'
      OBVIOUS
    <2>1. CASE CallStep \/ Elapse
      <3>1. fork' = fork
        BY <2>1 DEF CallStep, Elapse, Poll, TimeOut, ReadStatus, StatusReadFails,
           ReadEvidence, EvidenceReadFails, TakeInitialSnapshot, ReadConfirmationStatus,
           TakeConfirmation
      <3>2. CASE fork = 1
        BY <2>1, <3>2, SteadyCall DEF SteadyInv
      <3>3. CASE fork # 1
        BY <3>1, <3>3, LedgerBounds DEF SteadyInv, IntegrityErrorsAreReal, IInv, TypeOK
      <3> QED BY <3>2, <3>3
    <2>2. CASE LedgerMoves
      <3>1. fork' = fork \/ fork' = fork + 1
        BY <2>2 DEF LedgerMoves, LedgerNext, ProduceBlock, Finalize, ReplaceSuffix,
           Expire, CatchUp
      <3>2. IntegrityErrorsAreReal'
        BY <2>2, <3>1, LedgerBounds
        DEF IntegrityErrorsAreReal, LedgerMoves, callVars, IInv, TypeOK
      <3>3. SteadyInv'
        BY <2>2, SteadyMoves DEF SteadyInv
      <3> QED BY <3>2, <3>3
    <2>3. CASE UNCHANGED vars
      BY <2>3 DEF vars, SteadyInv, SteadyLedger, FirstFork, SteadyRead, SteadyPrevious,
         IntegrityErrorsAreReal
    <2> QED BY <2>1, <2>2, <2>3 DEF Next
  <1> QED BY <1>1, <1>2, Inductive, ResultInvariant, PTL DEF Spec
=============================================================================
