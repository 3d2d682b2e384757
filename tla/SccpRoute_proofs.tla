-------------------------- MODULE SccpRoute_proofs --------------------------
(***************************************************************************)
(* Theorems about the route and its verifier for every set of users,       *)
(* materials, messages and amounts.                                        *)
(***************************************************************************)
EXTENDS SccpRoute, TLAPS

\* The mint signed for one material, so there is no other, and the route states are
\* bound to it.
OnlyGoverned ==
    /\ \A mat \in Materials : material[mat].status # "none" => mat = Governed
    /\ \A r \in Roles : route[r] \in {NoState, Governed}

\* A proof that was ever sealed is one of a committed message, for its recipient and
\* its amount.
SealedAreRight == \A k \in Keys :
    proof[k].status = "sealed" =>
        /\ MessageOf(k) \in committed /\ PayerOf(k) = Recipient[MessageOf(k)]
        /\ proof[k].amount = Amount[MessageOf(k)]

IInv == RouteTypeOK /\ OnlyGoverned /\ SealedAreRight

\* What a step of the verifier leaves alone.
RestOfRoute == <<route, settled, returned, tokenVars, tairaVars, totals>>

-----------------------------------------------------------------------------
\* The parts of a proof account's address.
LEMMA KeyParts ==
    \A k \in Keys : MaterialOf(k) \in Materials /\ MessageOf(k) \in Messages /\ PayerOf(k) \in Users
  BY DEF Keys, MaterialOf, MessageOf, PayerOf

\* The account records have their types.
LEMMA EmptyAccounts ==
    /\ NoMaterial \in [status : Statuses, authority : Users, data : Seq(Chunks)]
    /\ NoProof \in [status : Statuses, amount : Nat, exact : BOOLEAN, data : Seq(Chunks)]
    /\ NoMaterial.status = "none" /\ NoProof.status = "none"
  BY VerifierConstants DEF NoMaterial, NoProof, Statuses

\* Appending a chunk keeps a body of chunks.
LEMMA AppendChunk ==
    ASSUME NEW data \in Seq(Chunks), NEW chunk \in Chunks
    PROVE  Append(data, chunk) \in Seq(Chunks)
  OBVIOUS

\* The inductive invariant holds before anything is deployed.
LEMMA InitIsInductive == Init => IInv
  <1> SUFFICES ASSUME Init PROVE IInv
    OBVIOUS
  <1>1. RouteTypeOK
    BY EmptyAccounts, VerifierConstants, RouteConstants
    DEF Init, VerifierInit, RouteTypeOK, Units
  <1>2. OnlyGoverned /\ SealedAreRight
    BY EmptyAccounts DEF Init, VerifierInit, OnlyGoverned, SealedAreRight
  <1> QED BY <1>1, <1>2 DEF IInv

-----------------------------------------------------------------------------
\* Uploads keep the invariant: of the materials only the governed one is ever
\* written, and no account that is sealed changes.
LEMMA MaterialPreserves ==
    ASSUME IInv, NEW u \in Users, NEW mat \in Materials, UNCHANGED RestOfRoute,
           \/ InitializeMaterial(u, mat) \/ SealMaterial(u, mat)
           \/ \E offset \in 0..ChunkCount, chunk \in Chunks :
                AppendMaterial(u, mat, offset, chunk)
    PROVE  IInv'
  <1> USE DEF IInv, RestOfRoute, tokenVars, tairaVars, totals
  <1>1. PICK account \in [status : Statuses, authority : Users, data : Seq(Chunks)] :
          /\ material' = [material EXCEPT ![mat] = account]
          /\ account.status # "none" => mat = Governed
    <2>1. CASE InitializeMaterial(u, mat)
      <3> DEFINE new == [NoMaterial EXCEPT !.status = "writing", !.authority = u]
      <3>1. new \in [status : Statuses, authority : Users, data : Seq(Chunks)]
        BY EmptyAccounts DEF Statuses
      <3> QED BY <2>1, <3>1 DEF InitializeMaterial, MaySignMaterial
    <2>2. CASE SealMaterial(u, mat)
      <3> DEFINE new == [material[mat] EXCEPT !.status = "sealed"]
      <3>1. new \in [status : Statuses, authority : Users, data : Seq(Chunks)]
        BY DEF RouteTypeOK, Statuses
      <3>2. material' = [material EXCEPT ![mat] = new]
        BY <2>2 DEF SealMaterial, RouteTypeOK
      <3> QED BY <2>2, <3>1, <3>2 DEF SealMaterial, OnlyGoverned
    <2>3. ASSUME NEW offset \in 0..ChunkCount, NEW chunk \in Chunks,
                 AppendMaterial(u, mat, offset, chunk)
          PROVE  \E account \in [status : Statuses, authority : Users, data : Seq(Chunks)] :
                    /\ material' = [material EXCEPT ![mat] = account]
                    /\ account.status # "none" => mat = Governed
      <3> DEFINE new == [material[mat] EXCEPT !.data = Append(@, chunk)]
      <3>1. new \in [status : Statuses, authority : Users, data : Seq(Chunks)]
        BY AppendChunk DEF RouteTypeOK
      <3>2. material' = [material EXCEPT ![mat] = new]
        BY <2>3 DEF AppendMaterial, RouteTypeOK
      <3> QED BY <2>3, <3>1, <3>2 DEF AppendMaterial, Appends, OnlyGoverned
    <2> QED BY <2>1, <2>2, <2>3
  <1>2. UNCHANGED <<proof, sealedNow>>
    BY DEF InitializeMaterial, SealMaterial, AppendMaterial
  <1>3. RouteTypeOK'
    BY <1>1, <1>2 DEF RouteTypeOK
  <1>4. OnlyGoverned'
    BY <1>1 DEF OnlyGoverned, RouteTypeOK
  <1>5. SealedAreRight'
    BY <1>2 DEF SealedAreRight
  <1> QED BY <1>3, <1>4, <1>5

\* A step that writes the proof account k keeps the invariant if what it seals is
\* right.
LEMMA ProofPreserves ==
    ASSUME IInv, NEW k \in Keys, UNCHANGED <<material, RestOfRoute>>,
           sealedNow' \subseteq Keys,
           NEW account \in [status : Statuses, amount : Nat, exact : BOOLEAN,
                            data : Seq(Chunks)],
           proof' = [proof EXCEPT ![k] = account],
           account.status = "sealed" =>
               /\ MessageOf(k) \in committed /\ PayerOf(k) = Recipient[MessageOf(k)]
               /\ account.amount = Amount[MessageOf(k)]
    PROVE  IInv'
  <1> USE DEF IInv, RestOfRoute, tokenVars, tairaVars, totals
  <1>1. RouteTypeOK'
    BY DEF RouteTypeOK
  <1>2. OnlyGoverned'
    BY DEF OnlyGoverned
  <1>3. SealedAreRight'
    BY DEF SealedAreRight, RouteTypeOK
  <1> QED BY <1>1, <1>2, <1>3

\* The record that a seal writes is right.
LEMMA SealIsRight ==
    ASSUME IInv, NEW u \in Users, NEW k \in Keys, CanSeal(u, k), Sealed(k)
    PROVE  \E account \in [status : Statuses, amount : Nat, exact : BOOLEAN,
                           data : Seq(Chunks)] :
             /\ proof' = [proof EXCEPT ![k] = account]
             /\ account.status = "sealed"
             /\ account.amount = proof[k].amount
             /\ MessageOf(k) \in committed /\ PayerOf(k) = Recipient[MessageOf(k)]
             /\ account.amount = Amount[MessageOf(k)]
  <1> DEFINE new == [proof[k] EXCEPT !.status = "sealed"]
  <1>1. proof[k] \in [status : Statuses, amount : Nat, exact : BOOLEAN, data : Seq(Chunks)]
    BY DEF IInv, RouteTypeOK
  <1>2. /\ new \in [status : Statuses, amount : Nat, exact : BOOLEAN, data : Seq(Chunks)]
        /\ new.status = "sealed" /\ new.amount = proof[k].amount
    BY <1>1 DEF Statuses
  <1>3. proof' = [proof EXCEPT ![k] = new]
    BY DEF Sealed, IInv, RouteTypeOK
  <1>4. /\ MessageOf(k) \in committed /\ PayerOf(k) = Recipient[MessageOf(k)]
        /\ proof[k].amount = Amount[MessageOf(k)]
    BY DEF CanSeal, Proves
  <1> HIDE DEF new
  <1> QED BY <1>2, <1>3, <1>4

\* The uploads of proofs keep the invariant.
LEMMA UploadPreserves == ASSUME IInv, NEW u \in Users, Upload(u) PROVE IInv'
  <1>1. UNCHANGED RestOfRoute
    BY DEF Upload, RestOfRoute
  <1>2. ASSUME NEW mat \in Materials, InitializeMaterial(u, mat) \/ SealMaterial(u, mat)
        PROVE  IInv'
    BY <1>1, <1>2, MaterialPreserves
  <1>3. ASSUME NEW mat \in Materials, NEW offset \in 0..ChunkCount, NEW chunk \in Chunks,
               AppendMaterial(u, mat, offset, chunk)
        PROVE  IInv'
    BY <1>1, <1>3, MaterialPreserves
  <1>4. ASSUME NEW k \in Keys, NEW amount \in Units, NEW exact \in BOOLEAN,
               InitializeProof(u, k, amount, exact)
        PROVE  IInv'
    <2> DEFINE new == [status |-> "writing", amount |-> amount, exact |-> exact,
                       data |-> <<>>]
    <2>1. amount \in Nat
      BY VerifierConstants DEF Units
    <2>2. new \in [status : Statuses, amount : Nat, exact : BOOLEAN, data : Seq(Chunks)]
      BY <2>1 DEF Statuses
    <2>3. proof' = [proof EXCEPT ![k] = new] /\ UNCHANGED <<material, sealedNow>>
      BY <1>4 DEF InitializeProof
    <2>4. sealedNow' \subseteq Keys /\ new.status # "sealed"
      BY <2>3 DEF IInv, RouteTypeOK
    <2> HIDE DEF new
    <2> QED BY <1>1, <2>2, <2>3, <2>4, ProofPreserves
  <1>5. ASSUME NEW k \in Keys, NEW offset \in 0..ChunkCount, NEW chunk \in Chunks,
               AppendProof(u, k, offset, chunk)
        PROVE  IInv'
    <2> DEFINE new == [proof[k] EXCEPT !.data = Append(@, chunk)]
    <2>1. proof[k] \in [status : Statuses, amount : Nat, exact : BOOLEAN, data : Seq(Chunks)]
      BY DEF IInv, RouteTypeOK
    <2>2. new \in [status : Statuses, amount : Nat, exact : BOOLEAN, data : Seq(Chunks)]
      BY <2>1, AppendChunk
    <2>3. proof' = [proof EXCEPT ![k] = new] /\ UNCHANGED <<material, sealedNow>>
      BY <1>5 DEF AppendProof, IInv, RouteTypeOK
    <2>4. sealedNow' \subseteq Keys /\ new.status # "sealed"
      BY <1>5, <2>1, <2>3 DEF AppendProof, Appends, IInv, RouteTypeOK
    <2> HIDE DEF new
    <2> QED BY <1>1, <2>2, <2>3, <2>4, ProofPreserves
  <1> QED BY <1>2, <1>3, <1>4, <1>5 DEF Upload

-----------------------------------------------------------------------------
\* Totals stay in range.
LEMMA TotalsInRange ==
    ASSUME NEW total \in 0..MaxUnits, NEW amount \in Nat
    PROVE  TotalAfter(total, amount) \in 0..MaxUnits
  BY VerifierConstants DEF TotalAfter

\* A settlement touches the token and its receipt only.
LEMMA FinalizedKeepsTypes ==
    ASSUME IInv, NEW k \in Keys, NEW amount \in Nat, Finalized(k, amount)
    PROVE  /\ settled' \subseteq Messages /\ route' \in [Roles -> Materials \cup {NoState}]
           /\ returned' \subseteq Users \X Units \X Nonces
           /\ balance' \in [Users -> Nat] /\ supply' \in Int /\ away' \in Int
           /\ committed' \subseteq Messages
           /\ minted' \in 0..MaxUnits /\ burned' \in 0..MaxUnits
           /\ UNCHANGED <<route, committed>>
  <1> USE DEF IInv, RouteTypeOK, Finalized, tairaVars
  <1>1. MessageOf(k) \in Messages /\ PayerOf(k) \in Users
    BY KeyParts
  <1>2. settled' \subseteq Messages /\ supply' \in Int
    BY <1>1
  <1>3. balance' \in [Users -> Nat]
    <2>1. balance[PayerOf(k)] + amount \in Nat
      BY <1>1
    <2> QED BY <2>1, <1>1
  <1>4. minted' \in 0..MaxUnits
    BY TotalsInRange
  <1> QED BY <1>2, <1>3, <1>4

\* Every settlement keeps the invariant: a receipt, a mint or a burn writes neither
\* materials nor route states, and a seal writes a right proof.
LEMMA SettlementPreserves == ASSUME IInv, NEW u \in Users, Settlement(u) PROVE IInv'
  <1>1. ASSUME NEW k \in Keys, SealProof(u, k) PROVE IInv'
    <2>1. CanSeal(u, k) /\ Sealed(k) /\ UNCHANGED RestOfRoute
      BY <1>1 DEF SealProof, RestOfRoute
    <2>2. UNCHANGED material /\ sealedNow' \subseteq Keys
      BY <2>1 DEF Sealed, IInv, RouteTypeOK
    <2> QED BY <2>1, <2>2, SealIsRight, ProofPreserves
  <1>2. ASSUME NEW k \in Keys, NEW amount \in Units, FinalizeFromTaira(u, k, amount)
        PROVE  IInv'
    <2>1. amount \in Nat /\ Finalized(k, amount) /\ UNCHANGED <<material, proof, sealedNow>>
      BY <1>2, VerifierConstants DEF FinalizeFromTaira, verifierVars, Units
    <2>2. RouteTypeOK'
      BY <2>1, FinalizedKeepsTypes DEF IInv, RouteTypeOK
    <2>3. OnlyGoverned' /\ SealedAreRight'
      BY <2>1, FinalizedKeepsTypes DEF IInv, OnlyGoverned, SealedAreRight
    <2> QED BY <2>2, <2>3 DEF IInv
  <1>3. ASSUME NEW k \in Keys, SealAndFinalize(u, k) PROVE IInv'
    <2>1. /\ CanSeal(u, k) /\ Sealed(k) /\ Finalized(k, proof[k].amount)
          /\ proof[k].amount \in Nat
      BY <1>3 DEF SealAndFinalize, IInv, RouteTypeOK
    <2>2. UNCHANGED material /\ sealedNow' \subseteq Keys
      BY <2>1 DEF Sealed, IInv, RouteTypeOK
    <2>3. PICK account \in [status : Statuses, amount : Nat, exact : BOOLEAN,
                            data : Seq(Chunks)] :
            /\ proof' = [proof EXCEPT ![k] = account]
            /\ account.amount = Amount[MessageOf(k)]
            /\ MessageOf(k) \in committed /\ PayerOf(k) = Recipient[MessageOf(k)]
      BY <2>1, SealIsRight
    <2>4. RouteTypeOK'
      BY <2>1, <2>2, <2>3, FinalizedKeepsTypes DEF IInv, RouteTypeOK
    <2>5. OnlyGoverned'
      BY <2>1, <2>2, FinalizedKeepsTypes DEF IInv, OnlyGoverned
    <2>6. SealedAreRight'
      BY <2>1, <2>3, FinalizedKeepsTypes DEF IInv, SealedAreRight, RouteTypeOK
    <2> QED BY <2>4, <2>5, <2>6 DEF IInv
  <1>4. ASSUME NEW amount \in Units, NEW nonce \in Nonces, BurnToTaira(u, amount, nonce)
        PROVE  IInv'
    <2> USE DEF IInv, RouteTypeOK, BurnToTaira, verifierVars
    <2>1. amount \in Nat /\ balance[u] - amount \in Nat
      BY <1>4, VerifierConstants DEF Units
    <2>2. balance' \in [Users -> Nat] /\ supply' \in Int /\ away' \in Int
      BY <1>4, <2>1
    <2>3. burned' \in 0..MaxUnits
      BY <1>4, <2>1, TotalsInRange
    <2>4. returned' \subseteq Users \X Units \X Nonces
      BY <1>4
    <2>5. RouteTypeOK'
      BY <1>4, <2>2, <2>3, <2>4
    <2>6. OnlyGoverned' /\ SealedAreRight'
      BY <1>4 DEF OnlyGoverned, SealedAreRight
    <2> QED BY <2>5, <2>6
  <1> QED BY <1>1, <1>2, <1>3, <1>4 DEF Settlement

\* Every step keeps the invariant.
LEMMA StepPreserves == IInv /\ [Next]_routeVars => IInv'
  <1> SUFFICES ASSUME IInv, [Next]_routeVars PROVE IInv'
    OBVIOUS
  <1>1. ASSUME NEW u \in Users, Upload(u) \/ Settlement(u) PROVE IInv'
    BY <1>1, UploadPreserves, SettlementPreserves
  <1>2. ASSUME NEW r \in Roles, NEW mat \in Materials, Initialize(r, mat) PROVE IInv'
    <2>1. mat = Governed
      BY <1>2 DEF Initialize, IInv, OnlyGoverned
    <2>2. RouteTypeOK'
      BY <1>2 DEF Initialize, IInv, RouteTypeOK, verifierVars, tokenVars, tairaVars, totals
    <2>3. OnlyGoverned' /\ SealedAreRight'
      BY <1>2, <2>1
      DEF Initialize, IInv, RouteTypeOK, OnlyGoverned, SealedAreRight, verifierVars, tairaVars
    <2> QED BY <2>2, <2>3 DEF IInv
  <1>3. ASSUME NEW m \in Messages, TairaCommits(m) PROVE IInv'
    <2>1. away' \in Int
      BY <1>3, VerifierConstants DEF TairaCommits, IInv, RouteTypeOK
    <2>2. RouteTypeOK'
      BY <1>3, <2>1 DEF TairaCommits, IInv, RouteTypeOK, verifierVars, tokenVars, totals
    <2>3. OnlyGoverned' /\ SealedAreRight'
      BY <1>3 DEF TairaCommits, IInv, OnlyGoverned, SealedAreRight, verifierVars
    <2> QED BY <2>2, <2>3 DEF IInv
  <1>4. ASSUME NEW u \in Users, NEW v \in Users, NEW amount \in Units,
               TransferTokens(u, v, amount)
        PROVE  IInv'
    <2>1. amount \in Nat /\ balance[u] - amount \in Nat /\ balance[v] + amount \in Nat
      BY <1>4, VerifierConstants DEF TransferTokens, IInv, RouteTypeOK, Units
    <2>2. balance' \in [Users -> Nat]
      BY <1>4, <2>1 DEF TransferTokens, IInv, RouteTypeOK
    <2>3. RouteTypeOK'
      BY <1>4, <2>2 DEF TransferTokens, IInv, RouteTypeOK, verifierVars, tairaVars, totals
    <2>4. OnlyGoverned' /\ SealedAreRight'
      BY <1>4 DEF TransferTokens, IInv, OnlyGoverned, SealedAreRight, verifierVars, tairaVars
    <2> QED BY <2>3, <2>4 DEF IInv
  <1>5. ASSUME NEW u \in Users, NEW amount \in Units, BurnTokens(u, amount)
        PROVE  IInv'
    <2>1. amount \in Nat /\ balance[u] - amount \in Nat
      BY <1>5, VerifierConstants DEF BurnTokens, IInv, RouteTypeOK, Units
    <2>2. balance' \in [Users -> Nat] /\ supply' \in Int
      BY <1>5, <2>1 DEF BurnTokens, IInv, RouteTypeOK
    <2>3. RouteTypeOK'
      BY <1>5, <2>2 DEF BurnTokens, IInv, RouteTypeOK, verifierVars, tairaVars, totals
    <2>4. OnlyGoverned' /\ SealedAreRight'
      BY <1>5 DEF BurnTokens, IInv, OnlyGoverned, SealedAreRight, verifierVars, tairaVars
    <2> QED BY <2>3, <2>4 DEF IInv
  <1>6. CASE NextSlot
    BY <1>6 DEF NextSlot, Tick, IInv, RouteTypeOK, OnlyGoverned, SealedAreRight,
                tokenVars, tairaVars, totals
  <1>7. CASE UNCHANGED routeVars
    BY <1>7 DEF routeVars, IInv, RouteTypeOK, OnlyGoverned, SealedAreRight,
                verifierVars, tokenVars, tairaVars, totals
  <1> QED BY <1>1, <1>2, <1>3, <1>4, <1>5, <1>6, <1>7 DEF Next

\* The inductive invariant always holds.
LEMMA InvariantHolds == Spec => []IInv
  BY InitIsInductive, StepPreserves, PTL DEF Spec

-----------------------------------------------------------------------------
\* The accounts of both programs, the token and the totals keep their types; the
\* totals stay in u64 whatever was settled.
THEOREM RouteTypeCorrect == Spec => []RouteTypeOK
  <1>1. IInv => RouteTypeOK
    BY DEF IInv
  <1> QED BY <1>1, InvariantHolds, PTL

\* Whoever initialises the two programs, in whatever order, they are bound to the
\* same material: the one the mint signed for.
THEOREM RoutesAlwaysAgree == Spec => []RoutesAgree
  <1>1. IInv => RoutesAgree
    BY DEF IInv, OnlyGoverned, RoutesAgree, Peers, Roles
  <1> QED BY <1>1, InvariantHolds, PTL

\* No proof is ever sealed but one of a message that TAIRA committed, by the one the
\* message pays and for the amount it pays.
THEOREM SealsAreRight == Spec => []SealedAreRight
  <1>1. IInv => SealedAreRight
    BY DEF IInv
  <1> QED BY <1>1, InvariantHolds, PTL

\* A settlement is one of the ledger: the proof's payer is the recipient, the amount
\* is the message's, and the receipt did not exist.
LEMMA FinalizedSettles ==
    ASSUME IInv, NEW k \in Keys, MessageOf(k) \in committed,
           PayerOf(k) = Recipient[MessageOf(k)], Finalized(k, Amount[MessageOf(k)])
    PROVE  Promised!Settle(MessageOf(k))
  BY DEF Finalized, Unsettled, tairaVars, Promised!Settle

\* A step that leaves the ledger's state alone.
LEMMA QuietStep ==
    ASSUME UNCHANGED <<committed, away, settled, balance, supply, returned>>
    PROVE  UNCHANGED Promised!ledgerVars
  BY DEF Promised!ledgerVars

\* Every step of the programs is a step of the ledger or leaves it unchanged.
LEMMA StepRefines == IInv /\ [Next]_routeVars => [Promised!LedgerNext]_(Promised!ledgerVars)
  <1> SUFFICES ASSUME IInv, [Next]_routeVars
               PROVE  Promised!LedgerNext \/ UNCHANGED Promised!ledgerVars
    OBVIOUS
  <1>1. ASSUME NEW u \in Users, Upload(u) PROVE UNCHANGED Promised!ledgerVars
    BY <1>1, QuietStep DEF Upload, tokenVars, tairaVars
  <1>2. ASSUME NEW u \in Users, NEW k \in Keys, SealProof(u, k)
        PROVE  UNCHANGED Promised!ledgerVars
    BY <1>2, QuietStep DEF SealProof, tokenVars, tairaVars
  <1>3. ASSUME NEW u \in Users, NEW k \in Keys, NEW amount \in Units,
               FinalizeFromTaira(u, k, amount)
        PROVE  Promised!LedgerNext
    <2>1. /\ MessageOf(k) \in committed /\ PayerOf(k) = Recipient[MessageOf(k)]
          /\ amount = Amount[MessageOf(k)] /\ Finalized(k, amount)
      BY <1>3 DEF FinalizeFromTaira, Verifies, IInv, SealedAreRight
    <2>2. Promised!Settle(MessageOf(k))
      BY <2>1, FinalizedSettles
    <2> QED BY <2>2, KeyParts DEF Promised!LedgerNext
  <1>4. ASSUME NEW u \in Users, NEW k \in Keys, SealAndFinalize(u, k)
        PROVE  Promised!LedgerNext
    <2>1. /\ MessageOf(k) \in committed /\ PayerOf(k) = Recipient[MessageOf(k)]
          /\ Finalized(k, Amount[MessageOf(k)])
      BY <1>4 DEF SealAndFinalize, CanSeal, Proves
    <2>2. Promised!Settle(MessageOf(k))
      BY <2>1, FinalizedSettles
    <2> QED BY <2>2, KeyParts DEF Promised!LedgerNext
  <1>5. ASSUME NEW u \in Users, NEW amount \in Units, NEW nonce \in Nonces,
               BurnToTaira(u, amount, nonce)
        PROVE  Promised!LedgerNext
    <2>1. Promised!Return(u, amount, nonce)
      BY <1>5 DEF BurnToTaira, Promised!Return
    <2> QED BY <2>1 DEF Promised!LedgerNext, Units
  <1>6. ASSUME NEW r \in Roles, NEW mat \in Materials, Initialize(r, mat)
        PROVE  UNCHANGED Promised!ledgerVars
    BY <1>6, QuietStep DEF Initialize, tokenVars, tairaVars
  <1>7. ASSUME NEW m \in Messages, TairaCommits(m) PROVE Promised!LedgerNext
    <2>1. Promised!Commit(m)
      BY <1>7 DEF TairaCommits, tokenVars, Promised!Commit
    <2> QED BY <2>1 DEF Promised!LedgerNext
  <1>8. ASSUME NEW u \in Users, NEW v \in Users, NEW amount \in Units,
               TransferTokens(u, v, amount)
        PROVE  Promised!LedgerNext
    <2>1. Promised!Transfer(u, v, amount)
      BY <1>8 DEF TransferTokens, tairaVars, Promised!Transfer
    <2> QED BY <2>1 DEF Promised!LedgerNext, Units
  <1>9. ASSUME NEW u \in Users, NEW amount \in Units, BurnTokens(u, amount)
        PROVE  Promised!LedgerNext
    <2>1. Promised!Burn(u, amount)
      BY <1>9 DEF BurnTokens, tairaVars, Promised!Burn
    <2> QED BY <2>1 DEF Promised!LedgerNext, Units
  <1>10. CASE NextSlot
    BY <1>10, QuietStep DEF NextSlot, tokenVars, tairaVars
  <1>11. CASE UNCHANGED routeVars
    BY <1>11, QuietStep DEF routeVars, tokenVars, tairaVars
  <1> QED BY <1>1, <1>2, <1>3, <1>4, <1>5, <1>6, <1>7, <1>8, <1>9, <1>10, <1>11
          DEF Next, Settlement

\* The two programs implement the ledger: a committed transfer is paid out at most
\* once, whole and to its recipient, and a return is burned once, for every number of
\* users, messages and materials.
THEOREM RouteImplementsLedger == Spec => ImplementsLedger
  <1>1. Init => Promised!LedgerInit
    BY DEF Init, Promised!LedgerInit
  <1> QED BY <1>1, InvariantHolds, StepRefines, PTL DEF Spec, ImplementsLedger, Promised!LedgerSpec

-----------------------------------------------------------------------------
\* What is on its way to Solana lies between the supply and what TAIRA keeps: each
\* committed and unpaid message has a stretch of its own there, as long as its amount.
\* This says that supply and unpaid amounts together are kept, without a sum.
Outstanding == committed \ settled
Apart(pos, m, n) == pos[m] + Amount[m] <= pos[n] \/ pos[n] + Amount[n] <= pos[m]

Placed(pos) ==
    /\ supply <= away
    /\ \A m \in Outstanding : supply <= pos[m] /\ pos[m] + Amount[m] <= away
    /\ \A m, n \in Outstanding : m # n => Apart(pos, m, n)

Backed == \E pos \in [Messages -> Int] : Placed(pos)

\* A commitment puts its message above everything that is kept so far.
LEMMA CommitKeepsBacked ==
    ASSUME IInv, IInv', Backed, NEW m \in Messages, Promised!Commit(m)
    PROVE  Backed'
  <1>1. PICK pos \in [Messages -> Int] : Placed(pos)
    BY DEF Backed
  <1>2. /\ supply \in Int /\ away \in Int /\ committed \subseteq Messages
        /\ \A n \in Messages : Amount[n] \in Int /\ Amount[n] >= 1
    BY VerifierConstants DEF IInv, RouteTypeOK
  <1>3. /\ m \notin committed /\ committed' = committed \cup {m} /\ settled' = settled
        /\ away' = away + Amount[m] /\ supply' = supply
    BY DEF Promised!Commit
  <1>4. PICK new \in [Messages -> Int] :
          new[m] = away /\ \A n \in Messages : n # m => new[n] = pos[n]
    <2>1. [n \in Messages |-> IF n = m THEN away ELSE pos[n]] \in [Messages -> Int]
      BY <1>2
    <2> QED BY <2>1
  <1>5. \A n \in Outstanding' : n = m \/ (n \in Outstanding /\ n # m)
    BY <1>3 DEF Outstanding
  <1>6. Outstanding \subseteq Messages
    BY <1>2 DEF Outstanding
  <1>7. supply' <= away'
    BY <1>1, <1>2, <1>3 DEF Placed
  <1>8. ASSUME NEW n \in Outstanding'
        PROVE  supply' <= new[n] /\ new[n] + Amount[n] <= away'
    <2>1. CASE n = m
      BY <1>1, <1>2, <1>3, <1>4, <2>1 DEF Placed
    <2>2. CASE n \in Outstanding /\ n # m
      <3>1. supply <= pos[n] /\ pos[n] + Amount[n] <= away /\ pos[n] \in Int
        BY <1>1, <1>6, <2>2 DEF Placed
      <3> QED BY <1>2, <1>3, <1>4, <1>6, <2>2, <3>1
    <2> QED BY <1>5, <2>1, <2>2
  <1>9. ASSUME NEW n \in Outstanding', NEW k \in Outstanding', n # k
        PROVE  Apart(new, n, k)
    <2>1. \A x \in Outstanding : x # m => new[x] = pos[x] /\ pos[x] + Amount[x] <= away
      BY <1>1, <1>4, <1>6 DEF Placed
    <2>2. CASE n = m \/ k = m
      BY <1>4, <1>5, <1>9, <2>1, <2>2 DEF Apart
    <2>3. CASE n # m /\ k # m
      <3>1. n \in Outstanding /\ k \in Outstanding
        BY <1>5, <2>3
      <3>2. Apart(pos, n, k)
        BY <1>1, <1>9, <3>1 DEF Placed
      <3> QED BY <2>1, <2>3, <3>1, <3>2 DEF Apart
    <2> QED BY <2>2, <2>3
  <1>10. Placed(new)'
    BY <1>7, <1>8, <1>9 DEF Placed, Apart
  <1> QED BY <1>4, <1>10 DEF Backed

\* A settlement takes its stretch out and moves what lies below it up by its length.
LEMMA SettleKeepsBacked ==
    ASSUME IInv, Backed, NEW m \in Messages, Promised!Settle(m)
    PROVE  Backed'
  <1>1. PICK pos \in [Messages -> Int] : Placed(pos)
    BY DEF Backed
  <1>2. /\ supply \in Int /\ away \in Int /\ committed \subseteq Messages
        /\ \A n \in Messages : Amount[n] \in Int /\ Amount[n] >= 1
    BY VerifierConstants DEF IInv, RouteTypeOK
  <1>3. /\ m \in Outstanding /\ Outstanding' = Outstanding \ {m}
        /\ supply' = supply + Amount[m] /\ away' = away
    BY DEF Promised!Settle, Outstanding
  <1>4. Outstanding \subseteq Messages
    BY <1>2 DEF Outstanding
  <1>5. /\ supply <= pos[m] /\ pos[m] + Amount[m] <= away /\ pos[m] \in Int
        /\ \A n \in Outstanding : /\ supply <= pos[n] /\ pos[n] + Amount[n] <= away
                                   /\ pos[n] \in Int
        /\ \A n, k \in Outstanding : n # k => Apart(pos, n, k)
    BY <1>1, <1>3, <1>4 DEF Placed
  <1> DEFINE new == [n \in Messages |-> IF pos[n] < pos[m] THEN pos[n] + Amount[m] ELSE pos[n]]
  <1>6. /\ new \in [Messages -> Int]
        /\ \A n \in Messages :
             new[n] = IF pos[n] < pos[m] THEN pos[n] + Amount[m] ELSE pos[n]
    BY <1>2
  <1> HIDE DEF new
  <1>7. supply' <= away'
    BY <1>2, <1>3, <1>5
  <1>8. ASSUME NEW n \in Outstanding'
        PROVE  supply' <= new[n] /\ new[n] + Amount[n] <= away'
    <2>1. n \in Outstanding /\ n # m /\ n \in Messages
      BY <1>3, <1>4
    <2>2. Apart(pos, n, m)
      BY <1>3, <1>5, <2>1
    <2> QED BY <1>2, <1>3, <1>5, <1>6, <2>1, <2>2 DEF Apart
  <1>9. ASSUME NEW n \in Outstanding', NEW k \in Outstanding', n # k
        PROVE  Apart(new, n, k)
    <2>1. /\ n \in Outstanding /\ n # m /\ n \in Messages
          /\ k \in Outstanding /\ k # m /\ k \in Messages
      BY <1>3, <1>4
    <2>2. Apart(pos, n, m) /\ Apart(pos, k, m) /\ Apart(pos, n, k)
      BY <1>3, <1>5, <1>9, <2>1
    <2> QED BY <1>2, <1>5, <1>6, <2>1, <2>2 DEF Apart
  <1>10. Placed(new)'
    BY <1>7, <1>8, <1>9 DEF Placed, Apart
  <1> QED BY <1>6, <1>10 DEF Backed

\* A return lowers supply, what is kept and every stretch by the same amount.
LEMMA ReturnKeepsBacked ==
    ASSUME IInv, Backed, NEW u \in Users, NEW a \in 1..MaxUnits, NEW nonce \in Nonces,
           Promised!Return(u, a, nonce)
    PROVE  Backed'
  <1>1. PICK pos \in [Messages -> Int] : Placed(pos)
    BY DEF Backed
  <1>2. /\ supply \in Int /\ away \in Int /\ a \in Int /\ Outstanding \subseteq Messages
        /\ \A n \in Messages : Amount[n] \in Int /\ pos[n] \in Int
    BY <1>1, VerifierConstants DEF IInv, RouteTypeOK, Outstanding
  <1>3. /\ Outstanding' = Outstanding /\ supply' = supply - a /\ away' = away - a
    BY DEF Promised!Return, Outstanding
  <1> DEFINE new == [n \in Messages |-> pos[n] - a]
  <1>4. new \in [Messages -> Int] /\ \A n \in Messages : new[n] = pos[n] - a
    BY <1>2
  <1> HIDE DEF new
  <1>5. /\ supply' <= away'
        /\ \A n \in Outstanding' : supply' <= new[n] /\ new[n] + Amount[n] <= away'
    BY <1>1, <1>2, <1>3, <1>4 DEF Placed
  <1>6. ASSUME NEW n \in Outstanding', NEW k \in Outstanding', n # k
        PROVE  Apart(new, n, k)
    <2>1. Apart(pos, n, k) /\ n \in Messages /\ k \in Messages
      BY <1>1, <1>2, <1>3, <1>6 DEF Placed
    <2> QED BY <1>2, <1>4, <2>1 DEF Apart
  <1>7. Placed(new)'
    BY <1>5, <1>6 DEF Placed, Apart
  <1> QED BY <1>4, <1>7 DEF Backed

\* A burn past the route lowers the supply and leaves every stretch where it was.
LEMMA BurnKeepsBacked ==
    ASSUME IInv, Backed, NEW u \in Users, NEW a \in 1..MaxUnits, Promised!Burn(u, a)
    PROVE  Backed'
  <1>1. PICK pos \in [Messages -> Int] : Placed(pos)
    BY DEF Backed
  <1>2. /\ supply \in Int /\ away \in Int /\ a \in Int /\ a >= 1
        /\ Outstanding \subseteq Messages /\ \A n \in Messages : pos[n] \in Int
    BY <1>1 DEF IInv, RouteTypeOK, Outstanding
  <1>3. Outstanding' = Outstanding /\ supply' = supply - a /\ away' = away
    BY DEF Promised!Burn, Outstanding
  <1>4. /\ supply' <= away'
        /\ \A n \in Outstanding' : supply' <= pos[n] /\ pos[n] + Amount[n] <= away'
    BY <1>1, <1>2, <1>3 DEF Placed
  <1>5. Placed(pos)'
    BY <1>1, <1>3, <1>4 DEF Placed, Apart
  <1> QED BY <1>5 DEF Backed

\* Every unit of XOR on Solana is one that TAIRA keeps, for every number of users,
\* messages and amounts, however settlements fail, are repeated or compete: the
\* ledger that the programs implement keeps supply and unpaid messages covered.
THEOREM SupplyStaysBacked == Spec => []SupplyIsBacked
  <1>1. Init => Backed
    <2> SUFFICES ASSUME Init PROVE Backed
      OBVIOUS
    <2>1. [m \in Messages |-> 0] \in [Messages -> Int]
      OBVIOUS
    <2>2. Placed([m \in Messages |-> 0])
      BY DEF Init, Placed, Outstanding
    <2> QED BY <2>1, <2>2 DEF Backed
  <1>2. IInv /\ IInv' /\ Backed /\ [Next]_routeVars => Backed'
    <2> SUFFICES ASSUME IInv, IInv', Backed, [Next]_routeVars PROVE Backed'
      OBVIOUS
    <2>1. Promised!LedgerNext \/ UNCHANGED Promised!ledgerVars
      BY StepRefines
    <2>2. CASE \E m \in Messages : Promised!Commit(m) \/ Promised!Settle(m)
      BY <2>2, CommitKeepsBacked, SettleKeepsBacked
    <2>3. CASE \E u \in Users, a \in 1..MaxUnits, n \in Nonces : Promised!Return(u, a, n)
      BY <2>3, ReturnKeepsBacked
    <2>4. CASE \/ \E u, v \in Users, a \in 1..MaxUnits : Promised!Transfer(u, v, a)
               \/ UNCHANGED Promised!ledgerVars
      <3>1. UNCHANGED <<committed, settled, supply, away>>
        BY <2>4 DEF Promised!Transfer, Promised!ledgerVars
      <3> QED BY <3>1 DEF Backed, Placed, Outstanding
    <2>5. CASE \E u \in Users, a \in 1..MaxUnits : Promised!Burn(u, a)
      BY <2>5, BurnKeepsBacked
    <2> QED BY <2>1, <2>2, <2>3, <2>4, <2>5 DEF Promised!LedgerNext
  <1>3. Backed => SupplyIsBacked
    BY DEF Backed, Placed, SupplyIsBacked
  <1> QED BY <1>1, <1>2, <1>3, InvariantHolds, PTL DEF Spec
=============================================================================
