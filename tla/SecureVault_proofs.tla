------------------------- MODULE SecureVault_proofs -------------------------
(***************************************************************************)
(* Theorems about SecureVault, for any requests, keys, materials and       *)
(* capacity.  What a power loss may undo depends on the platform: where    *)
(* the directory is not synchronised a confirmed store may be undone too.  *)
(***************************************************************************)
EXTENDS SecureVault, FiniteSetTheorems, TLAPS

------------------------------------------------------------------------------
(* Types.                                                                  *)

LEMMA EmptyVault == [k \in Keys |-> Unset] \in Vaults
  <1> DEFINE v == [k \in Keys |-> Unset]
  <1>1. BoundIn(v) = {}
    BY DEF BoundIn, Keys
  <1>2. Cardinality(BoundIn(v)) <= Capacity
    BY <1>1, FS_EmptySet, VaultAssumption
  <1>3. v \in Contents
    BY DEF Contents
  <1> QED BY <1>2, <1>3 DEF Vaults

\* A put holds materials of keys.
LEMMA PutFacts ==
    ASSUME NEW put \in Puts
    PROVE  /\ DOMAIN put \subseteq Keys
           /\ \A k \in DOMAIN put : put[k] \in Materials
           /\ put \in [DOMAIN put -> Materials]
  <1>1. PICK K \in {{k} : k \in Secrets} \cup (SUBSET ReceiveKeys \ {{}}) :
            put \in [K -> Materials]
    BY DEF Puts
  <1>2. K \subseteq Keys
    BY DEF Keys
  <1> QED BY <1>1, <1>2

\* An accepted put gives a vault that can be loaded again.
LEMMA WithType ==
    ASSUME NEW vault \in Contents, NEW put \in Puts, Accepts(vault, put)
    PROVE  With(vault, put) \in Vaults
  <1>1. With(vault, put) \in Contents
    BY PutFacts DEF With, Contents
  <1>2. Cardinality(BoundIn(With(vault, put))) <= Capacity
    BY DEF Accepts
  <1> QED BY <1>1, <1>2 DEF Vaults

\* Where the running mutation stands, and that nobody else is at the head.
QueueInv ==
    /\ \A i \in 1 .. Len(queue) : /\ request[queue[i]].is = "waits"
                                  /\ request[queue[i]].put \in Puts
    /\ \A i, j \in 1 .. Len(queue) : queue[i] = queue[j] => i = j
    /\ work.stage # "none" => queue # <<>>
    /\ work.stage \in {"write", "renamed"} => work.vault \in Vaults
    /\ \A r \in Requests : request[r].is # "idle" => request[r].put \in Puts

LEMMA Running ==
    ASSUME VaultTypeOK, QueueInv, work.stage # "none"
    PROVE  /\ Len(queue) \in Nat /\ Len(queue) > 0
           /\ Head(queue) = queue[1] /\ Head(queue) \in Requests
           /\ request[Head(queue)].is = "waits" /\ request[Head(queue)].put \in Puts
  BY DEF VaultTypeOK, QueueInv

\* The running mutation leaves with its answer, the others keep their turn.
LEMMA LeaveQueue ==
    ASSUME VaultTypeOK, QueueInv, work.stage # "none",
           NEW is \in {"stored", "rejected"}, Leave(is)
    PROVE  /\ QueueInv'
           /\ queue' \in Seq(Requests)
           /\ request' \in [Requests -> [is : {"idle", "waits", "stored", "rejected", "cut"},
                                         put : Puts \cup {NoPut}]]
           /\ work' = AtRest
           /\ \A r \in Requests : r # Head(queue) => request'[r] = request[r]
           /\ request'[Head(queue)] = [is |-> is, put |-> request[Head(queue)].put]
  <1> DEFINE h == Head(queue)
  <1>1. /\ Len(queue) \in Nat /\ Len(queue) > 0 /\ h = queue[1] /\ h \in Requests
        /\ request[h].put \in Puts /\ queue \in Seq(Requests) /\ queue # <<>>
    BY Running DEF VaultTypeOK
  <1>2. /\ queue' = Tail(queue) /\ work' = AtRest
        /\ request' = [request EXCEPT ![h] = [request[h] EXCEPT !.is = is]]
    BY DEF Leave
  <1>3. request[h] \in [is : {"idle", "waits", "stored", "rejected", "cut"},
                        put : Puts \cup {NoPut}]
    BY <1>1 DEF VaultTypeOK
  <1>4. [request[h] EXCEPT !.is = is] = [is |-> is, put |-> request[h].put]
    BY <1>3
  <1>5. /\ \A r \in Requests : r # h => request'[r] = request[r]
        /\ request'[h] = [is |-> is, put |-> request[h].put]
        /\ request' \in [Requests -> [is : {"idle", "waits", "stored", "rejected", "cut"},
                                      put : Puts \cup {NoPut}]]
    BY <1>1, <1>2, <1>3, <1>4 DEF VaultTypeOK
  <1>6. /\ queue' \in Seq(Requests) /\ Len(queue') = Len(queue) - 1
        /\ \A i \in 1 .. Len(queue') : queue'[i] = queue[i + 1] /\ i + 1 \in 1 .. Len(queue)
    BY <1>1, <1>2
  <1>7. \A i \in 1 .. Len(queue') : queue'[i] # h /\ queue'[i] \in Requests
    BY <1>1, <1>6 DEF QueueInv
  <1>8. \A i \in 1 .. Len(queue') : request'[queue'[i]].is = "waits"
                                    /\ request'[queue'[i]].put \in Puts
    BY <1>5, <1>6, <1>7 DEF QueueInv
  <1>9. \A i, j \in 1 .. Len(queue') : queue'[i] = queue'[j] => i = j
    BY <1>1, <1>6 DEF QueueInv
  <1>10. \A r \in Requests : request'[r].is # "idle" => request'[r].put \in Puts
    BY <1>1, <1>5 DEF QueueInv
  <1> QED BY <1>2, <1>5, <1>6, <1>8, <1>9, <1>10 DEF QueueInv, AtRest

------------------------------------------------------------------------------
(* The inductive invariant: CacheIsFile needs to know what the running      *)
(* mutation holds, StoredIsKept what a power loss can leave.                *)

Put == request[Head(queue)].put

WorkInv ==
    /\ CacheIsFile
    /\ work.stage \in {"edit", "write", "renamed"} => cache # NoVault
    /\ work.stage = "write" => Accepts(file, Put) /\ work.vault = With(file, Put)
    /\ work.stage = "renamed" => /\ work.vault = file
                                 /\ \A k \in DOMAIN Put : file[k] = Put[k]

\* What may be left is what is there, or less of the receive keys.
SurvivorInv ==
    /\ file \in survivors
    /\ \A v \in survivors, k \in ReceiveKeys : v[k] = Unset \/ v[k] = file[k]

VaultInv == VaultTypeOK /\ QueueInv /\ WorkInv /\ SurvivorInv

LEMMA InitVaultInv == VaultInit => VaultInv
  <1> SUFFICES ASSUME VaultInit PROVE VaultInv
    OBVIOUS
  <1>1. file \in Vaults /\ survivors = {file}
    BY EmptyVault DEF VaultInit
  <1>2. VaultTypeOK
    BY <1>1, VaultAssumption DEF VaultInit, VaultTypeOK, NotLoading, AtRest
  <1>3. QueueInv
    BY DEF VaultInit, QueueInv, AtRest
  <1>4. WorkInv
    BY DEF VaultInit, WorkInv, CacheIsFile, AtRest, NotLoading
  <1>5. SurvivorInv
    BY <1>1 DEF SurvivorInv
  <1> QED BY <1>2, <1>3, <1>4, <1>5 DEF VaultInv

\* Storing a put keeps every receive key that was bound, and takes the put.
LEMMA WithKeeps ==
    ASSUME NEW vault \in Vaults, NEW put \in Puts, Accepts(vault, put)
    PROVE  /\ \A k \in BoundIn(vault) : With(vault, put)[k] = vault[k]
           /\ \A k \in DOMAIN put : With(vault, put)[k] = put[k] /\ put[k] # Unset
           /\ \A k \in Keys : With(vault, put)[k] = vault[k] \/ With(vault, put)[k] # Unset
  <1>1. DOMAIN put \subseteq Keys /\ \A k \in DOMAIN put : put[k] # Unset
    BY PutFacts, VaultAssumption
  <1>2. BoundIn(vault) \subseteq Keys
    BY DEF BoundIn, Keys
  <1> QED BY <1>1, <1>2 DEF With, Accepts

\* Reading, and waiting for the vault, change no vault.
LEMMA LoadingSteps ==
    ASSUME VaultInv, Read \/ LoadEnds \/ LoadFails \/ Start \/ Clone
    PROVE  VaultInv' /\ UNCHANGED <<file, survivors>>
  <1> USE DEF VaultInv
  <1>1. CASE Read
    <2>1. VaultTypeOK'
      BY <1>1 DEF Read, OpenFile, VaultTypeOK
    <2> QED BY <1>1, <2>1 DEF Read, OpenFile, QueueInv, WorkInv, CacheIsFile, SurvivorInv, Put
  <1>2. CASE LoadEnds
    <2>1. load.is = "reading" /\ load.sees = file /\ cache = NoVault
      BY <1>2 DEF LoadEnds, WorkInv, CacheIsFile
    <2>2. VaultTypeOK'
      BY <1>2, <2>1 DEF LoadEnds, VaultTypeOK, NotLoading
    <2>3. WorkInv'
      BY <1>2, <2>1 DEF LoadEnds, WorkInv, CacheIsFile, NotLoading, Put
    <2> QED BY <1>2, <2>2, <2>3 DEF LoadEnds, QueueInv, SurvivorInv
  <1>3. CASE LoadFails
    <2>1. CASE work.stage = "load"
      <3>1. Leave("rejected") /\ load' = NotLoading /\ UNCHANGED <<file, survivors, cache, crashes>>
        BY <1>3, <2>1 DEF LoadFails
      <3>2. VaultTypeOK' /\ QueueInv' /\ work' = AtRest
        BY <2>1, <3>1, LeaveQueue DEF VaultTypeOK, NotLoading, AtRest
      <3>3. WorkInv'
        BY <1>3, <3>1, <3>2 DEF LoadFails, WorkInv, CacheIsFile, NotLoading, AtRest
      <3> QED BY <3>1, <3>2, <3>3 DEF SurvivorInv
    <2>2. CASE work.stage # "load"
      <3>1. load' = NotLoading
            /\ UNCHANGED <<file, survivors, cache, crashes, queue, work, request>>
        BY <1>3, <2>2 DEF LoadFails
      <3> QED BY <3>1 DEF VaultTypeOK, NotLoading, QueueInv, WorkInv, CacheIsFile, SurvivorInv, Put
    <2> QED BY <2>1, <2>2
  <1>4. CASE Start
    <2>1. VaultTypeOK'
      BY <1>4 DEF Start, OpenFile, VaultTypeOK
    <2>2. WorkInv'
      BY <1>4 DEF Start, OpenFile, WorkInv, CacheIsFile
    <2> QED BY <1>4, <2>1, <2>2 DEF Start, QueueInv, SurvivorInv
  <1>5. CASE Clone
    <2>1. cache \in Vaults /\ cache = file
      BY <1>5 DEF Clone, WorkInv, CacheIsFile, VaultTypeOK
    <2>2. VaultTypeOK'
      BY <1>5, <2>1 DEF Clone, VaultTypeOK, Vaults
    <2>3. WorkInv'
      BY <1>5, <2>1 DEF Clone, WorkInv, CacheIsFile
    <2> QED BY <1>5, <2>2, <2>3 DEF Clone, QueueInv, SurvivorInv
  <1> QED BY <1>1, <1>2, <1>3, <1>4, <1>5 DEF Read, LoadEnds, LoadFails, Start, Clone

LEMMA StoreStep ==
    ASSUME VaultInv, NEW r \in Requests, NEW put \in Puts, Store(r, put)
    PROVE  VaultInv' /\ UNCHANGED <<file, survivors>>
  <1> USE DEF VaultInv
  <1> DEFINE q == [is |-> "waits", put |-> put]
  <1>1. /\ UNCHANGED <<file, survivors, cache, load, work, crashes>>
        /\ request' = [request EXCEPT ![r] = q] /\ queue' = Append(queue, r)
        /\ request[r].is = "idle" /\ queue \in Seq(Requests) /\ Len(queue) \in Nat
    BY DEF Store, VaultTypeOK
  <1>2. /\ queue' \in Seq(Requests) /\ Len(queue') = Len(queue) + 1
        /\ \A i \in 1 .. Len(queue) : queue'[i] = queue[i]
        /\ queue'[Len(queue) + 1] = r
    BY <1>1
  <1>3. /\ request'[r] = q /\ \A s \in Requests : s # r => request'[s] = request[s]
        /\ \A i \in 1 .. Len(queue) : queue[i] \in Requests /\ queue[i] # r
    BY <1>1 DEF VaultTypeOK, QueueInv
  <1>4. VaultTypeOK'
    BY <1>1, <1>2 DEF VaultTypeOK
  <1>5. QueueInv'
    <2>1. \A i \in 1 .. Len(queue') : i \in 1 .. Len(queue) \/ i = Len(queue) + 1
      BY <1>1, <1>2
    <2>2. \A i \in 1 .. Len(queue') : request'[queue'[i]].is = "waits"
                                      /\ request'[queue'[i]].put \in Puts
      BY <1>2, <1>3, <2>1 DEF QueueInv
    <2>3. \A i, j \in 1 .. Len(queue') : queue'[i] = queue'[j] => i = j
      BY <1>2, <1>3, <2>1 DEF QueueInv
    <2> QED BY <1>1, <1>2, <1>3, <2>2, <2>3 DEF QueueInv
  <1>6. WorkInv'
    <2>1. CASE work.stage = "none"
      BY <1>1, <2>1 DEF WorkInv, CacheIsFile
    <2>2. CASE work.stage # "none"
      <3>1. Head(queue') = Head(queue) /\ Head(queue) # r /\ Head(queue) \in Requests
        BY <1>1, <1>2, <1>3, <2>2, Running
      <3>2. Put' = Put
        BY <1>3, <3>1 DEF Put
      <3> QED BY <1>1, <3>2 DEF WorkInv, CacheIsFile
    <2> QED BY <2>1, <2>2
  <1> QED BY <1>1, <1>4, <1>5, <1>6 DEF SurvivorInv

LEMMA EditStep ==
    ASSUME VaultInv, Edit
    PROVE  VaultInv' /\ UNCHANGED <<file, survivors>>
  <1> USE DEF VaultInv
  <1>1. /\ work.stage = "edit" /\ work.vault = file /\ file \in Vaults /\ Put \in Puts
        /\ Accepts(file, Put) /\ work' = [stage |-> "write", vault |-> With(file, Put)]
        /\ UNCHANGED <<file, survivors, cache, load, queue, request, crashes>>
    BY Running DEF Edit, WorkInv, CacheIsFile, VaultTypeOK, Put
  <1>2. With(file, Put) \in Vaults
    BY <1>1, WithType DEF Vaults
  <1>3. VaultTypeOK'
    BY <1>1, <1>2 DEF VaultTypeOK, Vaults
  <1>4. QueueInv' /\ WorkInv' /\ SurvivorInv'
    BY <1>1, <1>2 DEF QueueInv, WorkInv, CacheIsFile, SurvivorInv, Put
  <1> QED BY <1>1, <1>3, <1>4

LEMMA MutationFailsStep ==
    ASSUME VaultInv, MutationFails
    PROVE  VaultInv' /\ UNCHANGED <<file, survivors>>
  <1> USE DEF VaultInv
  <1>1. /\ Leave("rejected") /\ work.stage \in {"edit", "write"}
        /\ UNCHANGED <<file, survivors, cache, load, crashes>>
    BY DEF MutationFails
  <1>2. VaultTypeOK' /\ QueueInv' /\ work' = AtRest
    BY <1>1, LeaveQueue DEF VaultTypeOK, AtRest
  <1> QED BY <1>1, <1>2 DEF WorkInv, CacheIsFile, AtRest, SurvivorInv

\* The rename extends what is there, and adds it to what may be left.
LEMMA RenameStep ==
    ASSUME VaultInv, Rename
    PROVE  /\ VaultInv' /\ Put \in Puts /\ Accepts(file, Put)
           /\ file' = With(file, Put) /\ survivors' = survivors \cup {file'}
           /\ UNCHANGED <<queue, request>> /\ work'.stage = "renamed"
  <1> USE DEF VaultInv
  <1>1. /\ work.stage = "write" /\ file \in Vaults /\ Put \in Puts /\ Accepts(file, Put)
        /\ work.vault = With(file, Put) /\ work.vault \in Vaults
        /\ file' = With(file, Put) /\ survivors' = survivors \cup {file'}
        /\ UNCHANGED <<cache, load, queue, request, crashes>>
        /\ cache # NoVault /\ load.is # "reading"
    BY Running DEF Rename, WorkInv, CacheIsFile, VaultTypeOK, QueueInv, Put
  <1>2. work' = [stage |-> "renamed", vault |-> file']
    BY <1>1 DEF Rename, VaultTypeOK
  <1>3. VaultTypeOK'
    BY <1>1, <1>2 DEF VaultTypeOK, Vaults
  <1>4. QueueInv'
    BY <1>1, <1>2 DEF QueueInv
  <1>5. WorkInv'
    <2>1. Put' = Put
      BY <1>1 DEF Put
    <2> QED BY <1>1, <1>2, <2>1, WithKeeps DEF WorkInv, CacheIsFile
  <1>6. SurvivorInv'
    <2>1. ASSUME NEW v \in survivors, NEW k \in ReceiveKeys
          PROVE  v[k] = Unset \/ v[k] = file'[k]
      <3>1. v[k] = Unset \/ v[k] = file[k]
        BY DEF SurvivorInv
      <3>2. CASE file[k] # Unset
        BY <1>1, <3>1, <3>2, WithKeeps DEF BoundIn
      <3> QED BY <3>1, <3>2
    <2> QED BY <1>1, <2>1 DEF SurvivorInv
  <1> QED BY <1>1, <1>2, <1>3, <1>4, <1>5, <1>6

LEMMA PersistedStep ==
    ASSUME VaultInv, Persisted \/ SyncFails
    PROVE  VaultInv' /\ file' = file /\ survivors' \subseteq survivors
  <1> USE DEF VaultInv
  <1>1. work.stage = "renamed" /\ work.vault = file /\ file' = file
        /\ file \in survivors' /\ survivors' \subseteq survivors /\ crashes' = crashes
    BY DEF Persisted, SyncFails, WorkInv, SurvivorInv
  <1>2. QueueInv' /\ work' = AtRest
    BY <1>1, LeaveQueue DEF Persisted, SyncFails
  <1>3. VaultTypeOK'
    <2>1. cache' \in Vaults \cup {NoVault} /\ (load' = load \/ load' = NotLoading)
      BY <1>1 DEF Persisted, SyncFails, VaultTypeOK
    <2>2. queue' \in Seq(Requests)
          /\ request' \in [Requests -> [is : {"idle", "waits", "stored", "rejected", "cut"},
                                        put : Puts \cup {NoPut}]]
      BY <1>1, LeaveQueue DEF Persisted, SyncFails
    <2> QED BY <1>1, <1>2, <2>1, <2>2 DEF VaultTypeOK, NotLoading, AtRest
  <1>4. WorkInv'
    BY <1>1, <1>2 DEF Persisted, SyncFails, WorkInv, CacheIsFile, AtRest, NotLoading
  <1> QED BY <1>1, <1>2, <1>3, <1>4 DEF SurvivorInv

LEMMA CrashStep ==
    ASSUME VaultInv, Crash \/ PowerLoss
    PROVE  /\ VaultInv' /\ file' \in survivors /\ survivors' \subseteq survivors
           /\ crashes' # crashes
           /\ \A r \in Requests : request'[r].is = "stored" => request'[r] = request[r]
  <1> USE DEF VaultInv
  <1>1. /\ cache' = NoVault /\ load' = NotLoading /\ queue' = <<>> /\ work' = AtRest
        /\ crashes' = crashes + 1 /\ crashes' \in 0 .. MaxCrashes /\ crashes \in Nat
        /\ file' \in survivors /\ file' \in survivors' /\ survivors' \subseteq survivors
        /\ (survivors' = survivors /\ file' = file) \/ survivors' = {file'}
    BY VaultAssumption DEF Crash, PowerLoss, ProcessEnds, VaultTypeOK, SurvivorInv
  <1>2. \A r \in Requests :
            /\ request'[r] \in [is : {"idle", "waits", "stored", "rejected", "cut"},
                                put : Puts \cup {NoPut}]
            /\ request'[r].put = request[r].put
            /\ request'[r].is # "idle" => request[r].is # "idle"
            /\ request'[r].is = "stored" => request'[r] = request[r]
    BY DEF Crash, PowerLoss, ProcessEnds, VaultTypeOK
  <1>3. DOMAIN request' = Requests /\ request' = [r \in Requests |-> request'[r]]
    BY DEF Crash, PowerLoss, ProcessEnds
  <1>4. VaultTypeOK'
    BY <1>1, <1>2, <1>3 DEF VaultTypeOK, NotLoading, AtRest
  <1>5. QueueInv' /\ WorkInv'
    BY <1>1, <1>2 DEF QueueInv, WorkInv, CacheIsFile, AtRest, NotLoading
  <1>6. SurvivorInv'
    BY <1>1 DEF SurvivorInv
  <1> QED BY <1>1, <1>2, <1>4, <1>5, <1>6

LEMMA VaultInductive == VaultSpec => []VaultInv
  <1>1. VaultInv /\ [VaultNext]_vaultVars => VaultInv'
    <2>1. VaultInv /\ UNCHANGED vaultVars => VaultInv'
      BY DEF VaultInv, vaultVars, VaultTypeOK, QueueInv, WorkInv, CacheIsFile, SurvivorInv, Put
    <2> QED BY <2>1, LoadingSteps, StoreStep, EditStep, MutationFailsStep, RenameStep,
            PersistedStep, CrashStep DEF VaultNext
  <1> QED BY <1>1, InitVaultInv, PTL DEF VaultSpec

------------------------------------------------------------------------------
(* The properties.                                                         *)

\* Every variable keeps the shape the class gives it.
THEOREM VaultTypeCorrect == VaultSpec => []VaultTypeOK
  <1>1. VaultInv => VaultTypeOK
    BY DEF VaultInv
  <1> QED BY <1>1, VaultInductive, PTL

\* Whatever failed on the way, reads and the next mutation start from the file.
THEOREM CacheAgrees == VaultSpec => []CacheIsFile
  <1>1. VaultInv => CacheIsFile
    BY DEF VaultInv, WorkInv
  <1> QED BY <1>1, VaultInductive, PTL

\* Where the directory is synchronised, a confirmed store survives every later
\* store, failure, crash and power loss.
THEOREM ConfirmedIsKept ==
    ASSUME DirectorySync
    PROVE  VaultSpec => []StoredIsKept
  <1> USE DEF VaultInv
  <1> DEFINE Kept(r, v) == \A k \in DOMAIN request[r].put :
                 IF k \in ReceiveKeys THEN v[k] = request[r].put[k] ELSE v[k] # Unset
  <1>1. VaultInit => StoredIsKept
    BY DEF VaultInit, StoredIsKept
  <1>2. ASSUME VaultInv, StoredIsKept, [VaultNext]_vaultVars
        PROVE  StoredIsKept'
    <2>1. \A r \in Requests : request[r].is = "stored" =>
              \A v \in survivors \cup {file} : Kept(r, v)
      BY <1>2 DEF StoredIsKept
    \* Steps that leave no other vault and confirm nothing.
    <2>2. ASSUME survivors' \cup {file'} \subseteq survivors \cup {file},
                 \A r \in Requests : request'[r].is = "stored" => request'[r] = request[r]
          PROVE  StoredIsKept'
      BY <2>1, <2>2 DEF StoredIsKept
    <2>3. CASE Read \/ LoadEnds \/ LoadFails \/ Start \/ Clone
      <3>1. \A r \in Requests : request'[r].is = "stored" => request'[r] = request[r]
        <4>1. CASE LoadFails /\ work.stage = "load"
          <5>1. Leave("rejected")
            BY <4>1 DEF LoadFails
          <5> QED BY <1>2, <4>1, <5>1, LeaveQueue
        <4> QED BY <2>3, <4>1 DEF Read, LoadEnds, LoadFails, Start, Clone
      <3> QED BY <1>2, <2>2, <2>3, <3>1, LoadingSteps
    <2>4. ASSUME NEW r \in Requests, NEW put \in Puts, Store(r, put)
          PROVE  StoredIsKept'
      <3>1. \A s \in Requests : request'[s].is = "stored" => request'[s] = request[s]
        BY <1>2, <2>4 DEF Store, VaultTypeOK
      <3> QED BY <1>2, <2>2, <2>4, <3>1, StoreStep
    <2>5. CASE Edit
      BY <1>2, <2>2, <2>5, EditStep DEF Edit
    <2>6. CASE MutationFails
      <3>1. \A r \in Requests : request'[r].is = "stored" => request'[r] = request[r]
        BY <1>2, <2>6, LeaveQueue DEF MutationFails
      <3> QED BY <1>2, <2>2, <2>6, <3>1, MutationFailsStep
    <2>7. CASE Rename
      <3>1. /\ Put \in Puts /\ Accepts(file, Put) /\ file' = With(file, Put)
            /\ survivors' = survivors \cup {file'} /\ request' = request
            /\ file \in Vaults
        BY <1>2, <2>7, RenameStep DEF VaultTypeOK
      <3>2. ASSUME NEW r \in Requests, request[r].is = "stored",
                   NEW k \in DOMAIN request[r].put
            PROVE  IF k \in ReceiveKeys THEN file'[k] = request[r].put[k]
                   ELSE file'[k] # Unset
        <4>1. IF k \in ReceiveKeys THEN file[k] = request[r].put[k] ELSE file[k] # Unset
          BY <2>1, <3>2
        <4>2. k \in Keys /\ request[r].put[k] # Unset
          BY <1>2, <3>2, PutFacts, VaultAssumption DEF QueueInv
        <4>3. CASE k \in ReceiveKeys
          BY <3>1, <4>1, <4>2, <4>3, WithKeeps DEF BoundIn
        <4>4. CASE k \notin ReceiveKeys
          BY <3>1, <4>1, <4>2, <4>4, WithKeeps
        <4> QED BY <4>3, <4>4
      <3>3. \A r \in Requests : request[r].is = "stored" =>
                \A v \in survivors' \cup {file'} : Kept(r, v)
        BY <2>1, <3>1, <3>2
      <3> QED BY <3>1, <3>3 DEF StoredIsKept
    <2>8. CASE Persisted
      <3> DEFINE h == Head(queue)
      <3>1. /\ Leave("stored") /\ work.stage = "renamed" /\ file' = file
            /\ survivors' = {file} /\ file \in Vaults /\ file \in survivors
        BY <1>2, <2>8 DEF Persisted, VaultTypeOK, SurvivorInv
      <3>2. /\ h \in Requests /\ request'[h] = [is |-> "stored", put |-> Put]
            /\ Put \in Puts
            /\ \A r \in Requests : r # h => request'[r] = request[r]
        BY <1>2, <3>1, LeaveQueue, Running DEF Put
      <3>3. \A k \in DOMAIN Put : file[k] = Put[k] /\ Put[k] # Unset
        BY <1>2, <3>1, <3>2, PutFacts, VaultAssumption DEF WorkInv
      <3>4. ASSUME NEW r \in Requests, request'[r].is = "stored",
                   NEW k \in DOMAIN request'[r].put
            PROVE  IF k \in ReceiveKeys THEN file[k] = request'[r].put[k]
                   ELSE file[k] # Unset
        <4>1. CASE r = h
          BY <3>2, <3>3, <3>4, <4>1
        <4>2. CASE r # h
          <5>1. request'[r] = request[r]
            BY <3>2, <4>2
          <5> QED BY <2>1, <3>4, <5>1
        <4> QED BY <4>1, <4>2
      <3> QED BY <3>1, <3>4 DEF StoredIsKept
    <2>9. CASE SyncFails
      <3>1. \A r \in Requests : request'[r].is = "stored" => request'[r] = request[r]
        BY <1>2, <2>9, LeaveQueue DEF SyncFails
      <3> QED BY <1>2, <2>2, <2>9, <3>1, PersistedStep DEF SurvivorInv
    <2>10. CASE Crash \/ PowerLoss
      BY <1>2, <2>2, <2>10, CrashStep
    <2>11. CASE UNCHANGED vaultVars
      BY <2>2, <2>11 DEF vaultVars
    <2> QED BY <1>2, <2>3, <2>4, <2>5, <2>6, <2>7, <2>8, <2>9, <2>10, <2>11 DEF VaultNext
  <1> QED BY <1>1, <1>2, VaultInductive, PTL DEF VaultSpec

\* A receive key keeps its material; only a power loss forgets an unconfirmed one.
THEOREM KeysStayBound == VaultSpec => BindingsAreForever
  <1> USE DEF VaultInv
  <1> DEFINE Stays(k) == file'[k] = file[k] \/ (file'[k] = Unset /\ crashes' # crashes)
  <1>1. ASSUME VaultInv, [VaultNext]_vaultVars, NEW k \in BoundIn(file)
        PROVE  Stays(k)
    <2>1. CASE Rename
      BY <1>1, <2>1, RenameStep, WithKeeps DEF VaultTypeOK
    <2>2. CASE Crash \/ PowerLoss
      BY <1>1, <2>2, CrashStep DEF SurvivorInv, BoundIn
    <2>3. CASE UNCHANGED vaultVars
      BY <2>3 DEF vaultVars
    <2> QED BY <1>1, <2>1, <2>2, <2>3, LoadingSteps, StoreStep, EditStep,
            MutationFailsStep, PersistedStep DEF VaultNext
  <1>2. VaultInv /\ [VaultNext]_vaultVars =>
            [\A k \in BoundIn(file) :
                 \/ file'[k] = file[k]
                 \/ file'[k] = Unset /\ crashes' # crashes]_vaultVars
    BY <1>1
  <1> QED BY <1>2, VaultInductive, PTL DEF VaultSpec, BindingsAreForever

------------------------------------------------------------------------------
(* The vault implements VaultStore where the directory is synchronised:     *)
(* the rename is the instant at which a store takes effect, the answer to   *)
(* the caller is its confirmation, and all else is invisible.               *)

LEMMA SamePuts == Puts = Abstract!Puts
  <1>1. Keys \ ReceiveKeys = Secrets
    BY VaultAssumption DEF Keys
  <1> QED BY <1>1 DEF Puts, Abstract!Puts

LEMMA SameRules ==
    ASSUME NEW vault \in Contents, NEW put \in Puts
    PROVE  /\ Abstract!With(vault, put) = With(vault, put)
           /\ Accepts(vault, put) => Abstract!Accepts(vault, put)
  <1>1. Abstract!With(vault, put) = With(vault, put)
    BY DEF With, Abstract!With
  <1>2. /\ Abstract!BoundIn(vault) = BoundIn(vault)
        /\ Abstract!BoundIn(With(vault, put)) = BoundIn(With(vault, put))
    BY DEF BoundIn, Abstract!BoundIn
  <1>3. ASSUME NEW S
        PROVE  Abstract!Cardinality(S) = Cardinality(S)
    BY DEF Cardinality, Abstract!Cardinality
  <1> QED BY <1>1, <1>2, <1>3 DEF Accepts, Abstract!Accepts

LEMMA InitImplementsStore == VaultInit => Abstract!StoreInit
  BY DEF VaultInit, Abstract!StoreInit, StatusSeen, AtRest, NoPut, Abstract!NoPut

\* What is seen of the requests while the running mutation is not renamed.
LEMMA StatusAtOtherStages ==
    VaultTypeOK /\ work.stage # "renamed" => StatusSeen = request
  BY DEF StatusSeen, VaultTypeOK

\* A step of a mutation that leaves before its rename is a rejection.
LEMMA LeavesAsRejected ==
    ASSUME VaultInv, work.stage \in {"load", "edit", "write"}, Leave("rejected"),
           UNCHANGED <<file, survivors>>
    PROVE  Abstract!StoreNext
  <1> DEFINE h == Head(queue)
  <1>1. /\ h \in Requests /\ request[h].is = "waits"
        /\ StatusSeen = request /\ StatusSeen' = request'
        /\ request' = [request EXCEPT ![h].is = "rejected"]
    <2>1. work'.stage # "renamed" /\ DOMAIN request' = Requests
      BY LeaveQueue DEF VaultInv, AtRest
    <2>2. StatusSeen' = [r \in Requests |-> request'[r]]
      BY <2>1 DEF StatusSeen
    <2>3. request' = [request EXCEPT ![h].is = "rejected"]
      BY DEF Leave
    <2> QED BY <2>1, <2>2, <2>3, Running, StatusAtOtherStages DEF VaultInv, VaultTypeOK
  <1>2. Abstract!Reject(h)
    BY <1>1 DEF Abstract!Reject, Abstract!Becomes
  <1> QED BY <1>1, <1>2 DEF Abstract!StoreNext

\* A step that stays invisible: no vault, request or rename changes.
LEMMA Invisible ==
    ASSUME VaultInv, UNCHANGED <<file, survivors, request>>,
           work.stage # "renamed", work'.stage # "renamed"
    PROVE  UNCHANGED Abstract!storeVars
  BY StatusAtOtherStages DEF VaultInv, Abstract!storeVars, StatusSeen, VaultTypeOK

LEMMA StepImplementsStore ==
    ASSUME DirectorySync, VaultInv, [VaultNext]_vaultVars
    PROVE  [Abstract!StoreNext]_(Abstract!storeVars)
  <1> DEFINE h == Head(queue)
  <1> SUFFICES Abstract!StoreNext \/ UNCHANGED Abstract!storeVars
    OBVIOUS
  <1>1. CASE Read \/ LoadEnds
    <2>1. UNCHANGED <<file, survivors, request, work, queue>>
      BY <1>1 DEF Read, LoadEnds
    <2> QED BY <2>1 DEF Abstract!storeVars, StatusSeen
  <1>2. CASE LoadFails
    <2>1. CASE work.stage = "load"
      BY <1>2, <2>1, LeavesAsRejected DEF LoadFails
    <2>2. CASE work.stage # "load"
      <3>1. UNCHANGED <<file, survivors, request, work, queue>>
        BY <1>2, <2>2 DEF LoadFails
      <3> QED BY <3>1 DEF Abstract!storeVars, StatusSeen
    <2> QED BY <2>1, <2>2
  <1>3. CASE Start \/ Clone \/ Edit
    BY <1>3, Invisible DEF Start, Clone, Edit
  <1>4. CASE MutationFails
    BY <1>4, LeavesAsRejected DEF MutationFails
  <1>5. ASSUME NEW r \in Requests, NEW put \in Puts, Store(r, put)
        PROVE  Abstract!StoreNext
    <2>1. /\ request[r].is = "idle" /\ queue' = Append(queue, r)
          /\ request' = [request EXCEPT ![r] = [is |-> "waits", put |-> put]]
          /\ UNCHANGED <<file, survivors, work>>
      BY <1>5 DEF Store
    <2>2. CASE work.stage # "renamed"
      <3>1. StatusSeen = request /\ StatusSeen' = request'
        BY <2>1, <2>2, StatusAtOtherStages DEF VaultInv, StatusSeen, VaultTypeOK
      <3>2. Abstract!Ask(r)
        BY <2>1, <3>1, SamePuts DEF Abstract!Ask
      <3> QED BY <3>2 DEF Abstract!StoreNext
    <2>3. CASE work.stage = "renamed"
      <3>1. h \in Requests /\ request[h].is = "waits" /\ h # r /\ Head(queue') = h
        BY <2>1, <2>3, Running DEF VaultInv, VaultTypeOK
      <3>2. request'[r] = [is |-> "waits", put |-> put]
            /\ \A s \in Requests : s # r => request'[s] = request[s]
        BY <2>1 DEF VaultInv, VaultTypeOK
      <3>3. StatusSeen[r].is = "idle"
            /\ StatusSeen' = [StatusSeen EXCEPT ![r] = [is |-> "waits", put |-> put]]
        <4>1. StatusSeen = [s \in Requests |-> IF s = h THEN [request[s] EXCEPT !.is = "written"]
                                               ELSE request[s]]
          BY <2>3 DEF StatusSeen
        <4>2. StatusSeen' = [s \in Requests |-> IF s = h THEN [request'[s] EXCEPT !.is = "written"]
                                                ELSE request'[s]]
          BY <2>1, <2>3, <3>1 DEF StatusSeen
        <4>3. \A s \in Requests : StatusSeen'[s] =
                  IF s = r THEN [is |-> "waits", put |-> put] ELSE StatusSeen[s]
          BY <3>1, <3>2, <4>1, <4>2
        <4>4. StatusSeen' = [s \in Requests |-> StatusSeen'[s]]
              /\ [StatusSeen EXCEPT ![r] = [is |-> "waits", put |-> put]]
                 = [s \in Requests |-> IF s = r THEN [is |-> "waits", put |-> put]
                                       ELSE StatusSeen[s]]
          <5>1. StatusSeen' = [s \in Requests |-> StatusSeen'[s]]
            BY <4>2
          <5>2. DOMAIN StatusSeen = Requests
            BY <4>1
          <5> HIDE DEF h
          <5>3. [StatusSeen EXCEPT ![r] = [is |-> "waits", put |-> put]]
                = [s \in Requests |-> IF s = r THEN [is |-> "waits", put |-> put]
                                      ELSE StatusSeen[s]]
            BY <5>2
          <5> QED BY <5>1, <5>3
        <4>5. StatusSeen[r].is = "idle"
          BY <2>1, <3>1, <4>1
        <4> QED BY <4>3, <4>4, <4>5
      <3>4. Abstract!Ask(r)
        BY <2>1, <3>3, SamePuts DEF Abstract!Ask
      <3> QED BY <3>4 DEF Abstract!StoreNext
    <2> QED BY <2>2, <2>3
  <1>6. CASE Rename
    <2>1. /\ Put \in Puts /\ Accepts(file, Put) /\ file' = With(file, Put)
          /\ survivors' = survivors \cup {file'} /\ UNCHANGED <<queue, request>>
          /\ work'.stage = "renamed" /\ work.stage = "write" /\ file \in Contents
      BY <1>6, RenameStep DEF Rename, VaultInv, VaultTypeOK, Vaults
    <2>2. /\ h \in Requests /\ request[h].is = "waits" /\ request[h].put = Put
          /\ StatusSeen = request
      BY <2>1, Running, StatusAtOtherStages DEF VaultInv, Put
    <2>3. StatusSeen' = [request EXCEPT ![h].is = "written"]
      BY <2>1, <2>2 DEF StatusSeen, VaultInv, VaultTypeOK
    <2>4. Abstract!TakeEffect(h)
      BY <2>1, <2>2, <2>3, SameRules DEF Abstract!TakeEffect, Abstract!Becomes
    <2> QED BY <2>2, <2>4 DEF Abstract!StoreNext
  <1>7. ASSUME NEW is \in {"stored", "rejected"}, Leave(is), work.stage = "renamed"
        PROVE  /\ h \in Requests /\ StatusSeen[h].is = "written"
               /\ StatusSeen' = [StatusSeen EXCEPT ![h].is = is]
    <2>1. /\ h \in Requests /\ request[h].is = "waits" /\ work' = AtRest
          /\ \A r \in Requests : r # h => request'[r] = request[r]
          /\ request'[h] = [is |-> is, put |-> request[h].put]
          /\ request[h] \in [is : {"idle", "waits", "stored", "rejected", "cut"},
                             put : Puts \cup {NoPut}]
      BY <1>7, LeaveQueue, Running DEF VaultInv, VaultTypeOK
    <2>2. StatusSeen[h] = [is |-> "written", put |-> request[h].put]
          /\ \A r \in Requests : r # h => StatusSeen[r] = request[r]
      BY <1>7, <2>1 DEF StatusSeen
    <2>3. StatusSeen' = [r \in Requests |-> request'[r]]
      BY <2>1 DEF StatusSeen, AtRest
    <2>4. StatusSeen' = [r \in Requests |-> IF r = h THEN [StatusSeen[h] EXCEPT !.is = is]
                                            ELSE StatusSeen[r]]
      BY <2>1, <2>2, <2>3
    <2>5. DOMAIN StatusSeen = Requests
      BY DEF StatusSeen
    <2>6. [StatusSeen EXCEPT ![h].is = is]
          = [r \in Requests |-> IF r = h THEN [StatusSeen[h] EXCEPT !.is = is]
                                ELSE StatusSeen[r]]
      <3> HIDE DEF h
      <3> QED BY <2>5
    <2> QED BY <2>1, <2>2, <2>4, <2>6
  <1>8. CASE Persisted
    <2>1. file' = file /\ survivors' = {file}
      BY <1>8 DEF Persisted
    <2>2. Abstract!Confirm(h)
      BY <1>7, <1>8, <2>1 DEF Persisted, Abstract!Confirm, Abstract!Becomes
    <2> QED BY <1>7, <1>8, <2>2 DEF Persisted, Abstract!StoreNext
  <1>9. CASE SyncFails
    <2>1. Abstract!Reject(h)
      BY <1>7, <1>9 DEF SyncFails, Abstract!Reject, Abstract!Becomes
    <2> QED BY <1>7, <1>9, <2>1 DEF SyncFails, Abstract!StoreNext
  <1>10. CASE Crash \/ PowerLoss
    <2>1. StatusSeen' = Abstract!Interrupted
      <3>1. /\ work' = AtRest
            /\ request' = [r \in Requests |->
                   IF request[r].is = "waits" THEN [request[r] EXCEPT !.is = "cut"]
                   ELSE request[r]]
        BY <1>10 DEF Crash, PowerLoss, ProcessEnds
      <3>2. StatusSeen' = [r \in Requests |-> request'[r]]
        BY <3>1 DEF StatusSeen, AtRest
      <3>3. ASSUME NEW r \in Requests
            PROVE  request'[r] = Abstract!Interrupted[r]
        <4>1. CASE work.stage = "renamed" /\ r = h
          <5>1. request[r].is = "waits" /\ request[r].put \in Puts
                /\ request[r] = [is |-> "waits", put |-> request[r].put]
            BY <4>1, Running DEF VaultInv, VaultTypeOK
          <5>2. StatusSeen[r] = [is |-> "written", put |-> request[r].put]
            BY <4>1, <5>1 DEF StatusSeen
          <5>3. request'[r] = [is |-> "cut", put |-> request[r].put]
            BY <3>1, <5>1
          <5> QED BY <5>2, <5>3 DEF Abstract!Interrupted
        <4>2. CASE ~(work.stage = "renamed" /\ r = h)
          <5>1. StatusSeen[r] = request[r] /\ request[r].is # "written"
            BY <4>2 DEF StatusSeen, VaultInv, VaultTypeOK
          <5> QED BY <3>1, <5>1 DEF Abstract!Interrupted
        <4> QED BY <4>1, <4>2
      <3> QED BY <3>2, <3>3 DEF Abstract!Interrupted
    <2>2. Abstract!Crash \/ Abstract!PowerLoss
      BY <1>10, <2>1 DEF Crash, PowerLoss, Abstract!Crash, Abstract!PowerLoss
    <2> QED BY <2>2 DEF Abstract!StoreNext
  <1>11. CASE UNCHANGED vaultVars
    BY <1>11 DEF vaultVars, Abstract!storeVars, StatusSeen
  <1> QED BY <1>1, <1>2, <1>3, <1>4, <1>5, <1>6, <1>8, <1>9, <1>10, <1>11 DEF VaultNext

\* Where the directory is synchronised, the file, the cache, the chain and the
\* failures of each step implement a store whose requests are atomic.
THEOREM VaultImplementsStore ==
    ASSUME DirectorySync
    PROVE  VaultSpec => StoresAreAtomic
  <1>1. VaultInv /\ [VaultNext]_vaultVars => [Abstract!StoreNext]_(Abstract!storeVars)
    BY StepImplementsStore
  <1> QED BY <1>1, InitImplementsStore, VaultInductive, PTL
      DEF VaultSpec, StoresAreAtomic, Abstract!StoreSpec
=============================================================================
