----------------------------- MODULE SccpRoute ------------------------------
(***************************************************************************)
(* The route programs src/solana/sccp-taira-xor, one build per role, over  *)
(* the native verifier: the destination mints what TAIRA committed, the    *)
(* source burns what returns.  A Solana transaction takes effect whole or  *)
(* not at all.  Anybody may send any instruction; Careful users follow the *)
(* two READMEs: they upload the right chunks and seal a proof in the       *)
(* transaction that finalises it.  TAIRA and the SPL token are external.   *)
(***************************************************************************)
EXTENDS SccpVerifier

CONSTANTS NoState,      \* a route state that is not initialised
          Careful, Nonces

ASSUME RouteConstants == NoState \notin Materials /\ Careful \subseteq Users

VARIABLES route,        \* the material each role's route state is bound to
          settled,      \* the messages with a destination receipt
          returned,     \* the source receipts
          balance,      \* of the users' token accounts
          away,         \* XOR that TAIRA keeps for Solana
          minted, burned  \* the totals of the route states

tokenVars == <<balance, supply>>
tairaVars == <<committed, away>>
totals == <<minted, burned>>
routeVars == <<verifierVars, route, settled, returned, tokenVars, tairaVars, totals>>

Roles == {"destination", "source"}
Units == 1..MaxUnits

RouteTypeOK ==
    /\ material \in [Materials -> [status : Statuses, authority : Users, data : Seq(Chunks)]]
    /\ proof \in [Keys -> [status : Statuses, amount : Nat, exact : BOOLEAN,
                           data : Seq(Chunks)]]
    /\ sealedNow \subseteq Keys /\ committed \subseteq Messages /\ settled \subseteq Messages
    /\ route \in [Roles -> Materials \cup {NoState}]
    /\ returned \subseteq Users \X Units \X Nonces
    /\ balance \in [Users -> Nat] /\ supply \in Int /\ away \in Int
    /\ minted \in 0..MaxUnits /\ burned \in 0..MaxUnits

Init ==
    /\ VerifierInit /\ committed = {} /\ away = 0
    /\ route = [r \in Roles |-> NoState]
    /\ settled = {} /\ returned = {}
    /\ balance = [u \in Users |-> 0] /\ supply = 0
    /\ minted = 0 /\ burned = 0

-----------------------------------------------------------------------------
\* initialize, open to anybody: the state is bound once, to sealed material.
Initialize(r, mat) ==
    /\ route[r] = NoState /\ material[mat].status = "sealed"
    /\ route' = [route EXCEPT ![r] = mat]
    /\ UNCHANGED <<verifierVars, settled, returned, tokenVars, tairaVars, totals>>

\* telemetry_total_after_settlement saturates.
TotalAfter(total, amount) ==
    IF total + amount > MaxUnits THEN MaxUnits ELSE total + amount

\* Faulty: the receipt is not asked for.
UnsettledUnasked(m) == m \in Messages

\* The receipt account is still unused.
Unsettled(m) == m \notin settled

\* finalize_from_taira but for the verifier's answer: the receipt is created, then
\* the tokens are minted, which the token program refuses beyond u64.
Finalized(k, amount) ==
    LET m == MessageOf(k) IN
    /\ MaterialOf(k) = route["destination"] /\ Unsettled(m)
    /\ supply + amount <= MaxUnits
    /\ settled' = settled \cup {m}
    /\ balance' = [balance EXCEPT ![PayerOf(k)] = @ + amount]
    /\ supply' = supply + amount
    /\ minted' = TotalAfter(minted, amount)
    /\ UNCHANGED <<route, returned, tairaVars, burned>>

\* A transaction of finalize_from_taira alone.
FinalizeFromTaira(u, k, amount) ==
    /\ Verifies(u, k, amount)
    /\ Finalized(k, amount)
    /\ UNCHANGED verifierVars

\* A transaction of seal_proof alone.
SealProof(u, k) ==
    /\ CanSeal(u, k) /\ Sealed(k)
    /\ UNCHANGED <<route, settled, returned, tokenVars, tairaVars, totals>>

\* A transaction of seal_proof and finalize_from_taira.
SealAndFinalize(u, k) ==
    /\ CanSeal(u, k) /\ Sealed(k)
    /\ Finalized(k, proof[k].amount)

\* require_peer_configs
Peers == route["source"] # NoState /\ route["source"] = route["destination"]

\* burn_to_taira: the tokens are burned, then the receipt is created at an address
\* derived from sender, recipient, amount and nonce; Nonces here are the pairs of a
\* nonce and a recipient.
\* TAIRA may release what was burned at once.
BurnToTaira(u, amount, nonce) ==
    /\ Peers /\ amount \in 1..balance[u] /\ <<u, amount, nonce>> \notin returned
    /\ balance' = [balance EXCEPT ![u] = @ - amount]
    /\ supply' = supply - amount /\ away' = away - amount
    /\ returned' = returned \cup {<<u, amount, nonce>>}
    /\ burned' = TotalAfter(burned, amount)
    /\ UNCHANGED <<verifierVars, route, settled, committed, minted>>

-----------------------------------------------------------------------------
(* TAIRA, the token program and the clock *)

\* TAIRA locks the amount and commits the message; it has no more XOR than MaxUnits.
TairaCommits(m) ==
    /\ m \notin committed /\ away + Amount[m] <= MaxUnits
    /\ committed' = committed \cup {m} /\ away' = away + Amount[m]
    /\ UNCHANGED <<verifierVars, route, settled, returned, tokenVars, totals>>

TransferTokens(u, v, amount) ==
    /\ u # v /\ amount \in 1..balance[u]
    /\ balance' = [balance EXCEPT ![u] = @ - amount, ![v] = @ + amount]
    /\ UNCHANGED <<verifierVars, route, settled, returned, supply, tairaVars, totals>>

\* The token program burns for any holder, past the route: nothing returns.
BurnTokens(u, amount) ==
    /\ amount \in 1..balance[u]
    /\ balance' = [balance EXCEPT ![u] = @ - amount]
    /\ supply' = supply - amount
    /\ UNCHANGED <<verifierVars, route, settled, returned, tairaVars, totals>>

-----------------------------------------------------------------------------
(* What users send: anything, unless they are careful. *)

Sends(u, good) == u \in Careful => good

\* The right proof of a message on the initialised route.
RightKey(m) == <<route["destination"], m, Recipient[m]>>
RightProof(k, amount, exact) ==
    LET m == MessageOf(k) IN
    m \in committed /\ k = RightKey(m) /\ amount = Amount[m] /\ exact

Upload(u) ==
    /\ \/ \E mat \in Materials : InitializeMaterial(u, mat) \/ SealMaterial(u, mat)
       \/ \E mat \in Materials, offset \in 0..ChunkCount, chunk \in Chunks :
            Sends(u, chunk = offset + 1) /\ AppendMaterial(u, mat, offset, chunk)
       \/ \E k \in Keys, amount \in Units, exact \in BOOLEAN :
            Sends(u, RightProof(k, amount, exact)) /\ InitializeProof(u, k, amount, exact)
       \/ \E k \in Keys, offset \in 0..ChunkCount, chunk \in Chunks :
            Sends(u, chunk = offset + 1) /\ AppendProof(u, k, offset, chunk)
    /\ UNCHANGED <<route, settled, returned, tokenVars, tairaVars, totals>>

Settlement(u) ==
    \/ \E k \in Keys :
         \/ Sends(u, FALSE) /\ SealProof(u, k)
         \/ \E amount \in Units : FinalizeFromTaira(u, k, amount)
         \/ SealAndFinalize(u, k)
    \/ \E amount \in Units, nonce \in Nonces : BurnToTaira(u, amount, nonce)

NextSlot ==
    Tick /\ UNCHANGED <<route, settled, returned, tokenVars, tairaVars, totals>>

Next ==
    \/ \E u \in Users : Upload(u) \/ Settlement(u)
    \/ \E r \in Roles, mat \in Materials : Initialize(r, mat)
    \/ \E m \in Messages : TairaCommits(m)
    \/ \E u, v \in Users, amount \in Units : TransferTokens(u, v, amount)
    \/ \E u \in Users, amount \in Units : BurnTokens(u, amount)
    \/ NextSlot

Spec == Init /\ [][Next]_routeVars

\* A careful operator opens the route, somebody initialises its destination, and a
\* careful recipient repeats each instruction until it has landed.  Nobody owes
\* anything else.
Opens ==
    \/ Upload(Operator) /\ UNCHANGED proof
    \/ \E mat \in Materials : Initialize("destination", mat)

Delivers(m) ==
    /\ route["destination"] # NoState
    /\ \/ Upload(Recipient[m]) /\ proof'[RightKey(m)] # proof[RightKey(m)]
       \/ SealAndFinalize(Recipient[m], RightKey(m))

FairSpec ==
    /\ Spec /\ WF_routeVars(Opens)
    /\ \A m \in Messages : WF_routeVars(Delivers(m))

-----------------------------------------------------------------------------
\* The two programs are bound to the same material, whoever initialised them and
\* in whatever order: "A competing exact initialization is harmless; a divergent one
\* cannot pass" (README of the route).  Otherwise nothing could return any more.
RoutesAgree ==
    route["source"] # NoState /\ route["destination"] # NoState => Peers

\* Every unit on Solana is one that TAIRA keeps, across settlements that fail, are
\* repeated or compete.
SupplyIsBacked == supply <= away

\* The two programs implement the ledger that TAIRA and the users rely on.
Promised == INSTANCE BridgeLedger WITH
    committed <- committed, away <- away, settled <- settled, balance <- balance,
    supply <- supply, returned <- returned
ImplementsLedger == Promised!LedgerSpec

\* A message for a careful recipient is paid out in the end: nobody else can take
\* its accounts, spoil its upload or use up the route, and neither repeated nor
\* lost transactions nor the age of the route's totals stand in its way.
MessagesSettle == \A m \in Messages :
    Recipient[m] \in Careful => (m \in committed ~> m \in settled)
=============================================================================
