---------------------------- MODULE SccpVerifier ----------------------------
(***************************************************************************)
(* The native verifier program src/solana/sccp-native-recursive-verifier:  *)
(* verifying keys and proofs are uploaded in chunks into accounts whose    *)
(* addresses anybody can compute, sealed, and then never change.  Wallets  *)
(* send their instructions in transactions that may be lost, repeated or   *)
(* land in any order, so every instruction may arrive at any time, and one *)
(* whose checks fail changes nothing.                                      *)
(*                                                                         *)
(* Bytes are abstracted to chunks: chunk i is the right one at place i of  *)
(* its body, and Wrong is any other content.  Hashes are taken to be       *)
(* injective and the proof system to be sound.                             *)
(***************************************************************************)
EXTENDS Integers, Sequences

CONSTANTS Users,        \* holders of Solana keys
          Materials,    \* verifying keys with a configuration for this route
          Messages,     \* transfers from TAIRA
          Recipient,    \* who a message pays,
          Amount,       \* and how much, in SPL base units
          ChunkCount,   \* chunks of a body
          Operator,     \* the key of the mint signed once, the transaction
          Governed,     \* in which Operator initialises Governed
          MaxUnits      \* u64::MAX

ASSUME VerifierConstants ==
    /\ Operator \in Users /\ Governed \in Materials
    /\ Recipient \in [Messages -> Users]
    /\ ChunkCount \in Nat /\ MaxUnits \in Nat
    /\ Amount \in [Messages -> 1..MaxUnits]

VARIABLES material,     \* the material accounts
          proof,        \* the proof accounts
          sealedNow,    \* the proofs whose seal slot is the current slot
          committed,    \* messages that TAIRA has committed, so that they are provable
          supply        \* of the XOR mint

verifierVars == <<material, proof, sealedNow>>

\* A proof account's address is derived from its material, message and payer.
Keys == Materials \X Messages \X Users
MaterialOf(k) == k[1]
MessageOf(k) == k[2]
PayerOf(k) == k[3]

Wrong == 0
Chunks == 0..ChunkCount
Body == [i \in 1..ChunkCount |-> i]

Statuses == {"none", "writing", "sealed"}

\* The header of a proof account declares an amount and hashes; `exact` says that
\* the hashes are those of the message and of its body.
NoMaterial == [status |-> "none", authority |-> Operator, data |-> <<>>]
NoProof == [status |-> "none", amount |-> 0, exact |-> FALSE, data |-> <<>>]

VerifierInit ==
    /\ material = [mat \in Materials |-> NoMaterial]
    /\ proof = [k \in Keys |-> NoProof]
    /\ sealedNow = {}

-----------------------------------------------------------------------------
\* Faulty: the offset is not compared, so a repeated chunk is appended again.
AppendsAnywhere(account, offset) ==
    account.status = "writing" /\ Len(account.data) < ChunkCount

\* append_owned_chunk: the chunk continues what is written.
Appends(account, offset) ==
    /\ account.status = "writing"
    /\ offset = Len(account.data) /\ offset < ChunkCount

\* Faulty: whoever pays may initialise any material.
MaySignMaterialAnyone(u, mat) == u \in Users

\* The mint signs with the uploader.
MaySignMaterial(u, mat) == u = Operator /\ mat = Governed

InitializeMaterial(u, mat) ==
    /\ MaySignMaterial(u, mat) /\ supply = 0
    /\ material[mat].status = "none"
    /\ material' = [material EXCEPT ![mat] = [NoMaterial EXCEPT !.status = "writing",
                                                                !.authority = u]]
    /\ UNCHANGED <<proof, sealedNow>>

AppendMaterial(u, mat, offset, chunk) ==
    /\ material[mat].authority = u /\ Appends(material[mat], offset)
    /\ material' = [material EXCEPT ![mat].data = Append(@, chunk)]
    /\ UNCHANGED <<proof, sealedNow>>

SealMaterial(u, mat) ==
    /\ material[mat].status = "writing" /\ material[mat].authority = u
    /\ material[mat].data = Body
    /\ material' = [material EXCEPT ![mat].status = "sealed"]
    /\ UNCHANGED <<proof, sealedNow>>

InitializeProof(u, k, amount, exact) ==
    /\ PayerOf(k) = u /\ amount > 0
    /\ material[MaterialOf(k)].status = "sealed" /\ proof[k].status = "none"
    /\ proof' = [proof EXCEPT ![k] = [status |-> "writing", amount |-> amount,
                                      exact |-> exact, data |-> <<>>]]
    /\ UNCHANGED <<material, sealedNow>>

AppendProof(u, k, offset, chunk) ==
    /\ PayerOf(k) = u /\ Appends(proof[k], offset)
    /\ proof' = [proof EXCEPT ![k].data = Append(@, chunk)]
    /\ UNCHANGED <<material, sealedNow>>

\* Faulty: the recipient of the payload is not compared with the payer.
ProvesForAnyone(k) ==
    LET m == MessageOf(k) IN
    /\ proof[k].data = Body /\ proof[k].exact
    /\ proof[k].amount = Amount[m] /\ m \in committed

\* validate_transfer and verify_groth16: the body proves the message that the
\* header declares, for the payer and the amount that it declares.
Proves(k) ==
    LET m == MessageOf(k) IN
    /\ proof[k].data = Body /\ proof[k].exact
    /\ proof[k].amount = Amount[m] /\ PayerOf(k) = Recipient[m]
    /\ m \in committed

CanSeal(u, k) ==
    /\ PayerOf(k) = u /\ material[MaterialOf(k)].status = "sealed"
    /\ proof[k].status = "writing" /\ Proves(k)

\* The account is sealed in the current slot and has no authority any more.
Sealed(k) ==
    /\ proof' = [proof EXCEPT ![k].status = "sealed"]
    /\ sealedNow' = sealedNow \cup {k}
    /\ UNCHANGED material

\* verify_sealed, called by the route with the payer's signature.
Verifies(u, k, amount) ==
    /\ PayerOf(k) = u /\ material[MaterialOf(k)].status = "sealed"
    /\ proof[k].status = "sealed" /\ k \in sealedNow
    /\ proof[k].amount = amount

\* The next slot.
Tick == sealedNow' = {} /\ UNCHANGED <<material, proof>>
=============================================================================
