---------------------------- MODULE SecureVault ----------------------------
(***************************************************************************)
(* The class SecureVault of src/electron/secureVault.ts: one encrypted     *)
(* file of account secrets and confidential receive keys, a cache of it,   *)
(* and a chain of promises (mutationTail) that runs the mutations one by   *)
(* one while reads load the file whenever they like.  The file is replaced *)
(* by rename; its directory is synchronised after that, except on Windows. *)
(***************************************************************************)
EXTENDS Naturals, Sequences, FiniteSets

CONSTANTS
    Requests,        \* store calls
    Secrets,         \* accounts whose signing key may be stored
    ReceiveKeys,     \* receive key ids
    Materials,       \* what a key may hold
    Unset,
    Capacity,        \* MAX_RECEIVE_KEYS
    DirectorySync,   \* the platform is not Windows
    MaxCrashes       \* bound: crashes and power losses

ASSUME VaultAssumption ==
    /\ Unset \notin Materials
    /\ Secrets \cap ReceiveKeys = {}
    /\ Capacity \in Nat /\ MaxCrashes \in Nat
    /\ DirectorySync \in BOOLEAN

Keys == Secrets \cup ReceiveKeys

VARIABLES
    file,        \* what the directory entry names
    survivors,   \* what it may name after a power loss
    cache,       \* this.cache, NoVault for null
    load,        \* this.loadPromise: none, or reading and what it will find
    queue,       \* the mutations chained to mutationTail, the running one first
    work,        \* where that one is, and the clone it works on
    request,     \* what the callers know, and what they store
    crashes

vaultVars == <<file, survivors, cache, load, queue, work, request, crashes>>

NoVault == [k \in {} |-> Unset]
NoPut == [k \in {} |-> Unset]
NotLoading == [is |-> "none", sees |-> NoVault]
AtRest == [stage |-> "none", vault |-> NoVault]

BoundIn(vault) == {k \in ReceiveKeys : vault[k] # Unset}
Contents == [Keys -> Materials \cup {Unset}]
\* What decodeVaultFile accepts.
Vaults == {v \in Contents : Cardinality(BoundIn(v)) <= Capacity}
Puts == UNION {[K -> Materials] : K \in {{k} : k \in Secrets}
                                       \cup (SUBSET ReceiveKeys \ {{}})}

VaultTypeOK ==
    /\ file \in Vaults
    /\ survivors \subseteq Vaults
    /\ cache \in Vaults \cup {NoVault}
    /\ load \in [is : {"none", "reading"}, sees : Vaults \cup {NoVault}]
    /\ queue \in Seq(Requests)
    /\ work \in [stage : {"none", "load", "edit", "write", "renamed"},
                 vault : Vaults \cup {NoVault}]
    /\ request \in [Requests ->
           [is : {"idle", "waits", "stored", "rejected", "cut"},
            put : Puts \cup {NoPut}]]
    /\ crashes \in 0 .. MaxCrashes

VaultInit ==
    /\ file = [k \in Keys |-> Unset]
    /\ survivors = {file}
    /\ cache = NoVault
    /\ load = NotLoading
    /\ queue = <<>>
    /\ work = AtRest
    /\ request = [r \in Requests |-> [is |-> "idle", put |-> NoPut]]
    /\ crashes = 0

------------------------------------------------------------------------------
(* Loading.  A read finds the inode that the file had when it was opened;  *)
(* every caller shares the one promise.                                    *)

OpenFile == load' = [is |-> "reading", sees |-> file]

\* getAccountSecretMaterial, getReceiveKey, listReceiveKeysForAccount.
Read ==
    /\ cache = NoVault /\ load.is = "none"
    /\ OpenFile
    /\ UNCHANGED <<file, survivors, cache, queue, work, request, crashes>>

LoadEnds ==
    /\ load.is = "reading"
    /\ cache' = load.sees
    /\ load' = NotLoading
    /\ UNCHANGED <<file, survivors, queue, work, request, crashes>>

\* The running mutation leaves the chain with this answer.
Leave(is) ==
    /\ queue' = Tail(queue)
    /\ work' = AtRest
    /\ request' = [request EXCEPT ![Head(queue)].is = is]

\* A failed read is forgotten; a mutation that waited for it is rejected.
LoadFails ==
    /\ load.is = "reading"
    /\ load' = NotLoading
    /\ IF work.stage = "load" THEN Leave("rejected")
       ELSE UNCHANGED <<queue, work, request>>
    /\ UNCHANGED <<file, survivors, cache, crashes>>

------------------------------------------------------------------------------
(* Storing.                                                                *)

\* storeAccountSecret, storeReceiveKeys: the mutation joins the chain.
Store(r, put) ==
    /\ request[r].is = "idle"
    /\ request' = [request EXCEPT ![r] = [is |-> "waits", put |-> put]]
    /\ queue' = Append(queue, r)
    /\ UNCHANGED <<file, survivors, cache, load, work, crashes>>

\* Its turn comes: it asks for the vault.
Start ==
    /\ queue # <<>> /\ work.stage = "none"
    /\ work' = [stage |-> "load", vault |-> NoVault]
    /\ IF cache = NoVault /\ load.is = "none" THEN OpenFile ELSE UNCHANGED load
    /\ UNCHANGED <<file, survivors, cache, queue, request, crashes>>

Clone ==
    /\ work.stage = "load" /\ cache # NoVault
    /\ work' = [stage |-> "edit", vault |-> cache]
    /\ UNCHANGED <<file, survivors, cache, load, queue, request, crashes>>

With(vault, put) == [k \in Keys |-> IF k \in DOMAIN put THEN put[k] ELSE vault[k]]

\* Mutant: the limit is compared before the batch is counted.
AcceptsOneTooMany(vault, put) ==
    /\ \A k \in DOMAIN put \cap BoundIn(vault) : put[k] = vault[k]
    /\ Cardinality(BoundIn(vault)) <= Capacity

\* Mutant: a receive key may be stored again with another material.
AcceptsAnotherMaterial(vault, put) ==
    Cardinality(BoundIn(With(vault, put))) <= Capacity

\* The capacity, and an id that is taken is only stored again as it is.  One
\* limit stands for those of secrets and of the receive keys of an account.
Accepts(vault, put) ==
    /\ \A k \in DOMAIN put \cap BoundIn(vault) : put[k] = vault[k]
    /\ Cardinality(BoundIn(With(vault, put))) <= Capacity

Edit ==
    /\ work.stage = "edit"
    /\ LET put == request[Head(queue)].put
       IN  /\ Accepts(work.vault, put)
           /\ work' = [stage |-> "write", vault |-> With(work.vault, put)]
    /\ UNCHANGED <<file, survivors, cache, load, queue, request, crashes>>

\* A refused record, a failed encryption, or a failure before the rename.
MutationFails ==
    /\ work.stage \in {"edit", "write"}
    /\ Leave("rejected")
    /\ UNCHANGED <<file, survivors, cache, load, crashes>>

\* The vault is decoded once more, then the temporary file is written,
\* synchronised and renamed.
Rename ==
    /\ work.stage = "write" /\ work.vault \in Vaults
    /\ file' = work.vault
    /\ survivors' = survivors \cup {work.vault}
    /\ work' = [work EXCEPT !.stage = "renamed"]
    /\ UNCHANGED <<cache, load, queue, request, crashes>>

\* Mutant: the directory is not synchronised on any platform.
PersistedUnsynced ==
    /\ work.stage = "renamed"
    /\ cache' = work.vault
    /\ Leave("stored")
    /\ UNCHANGED <<file, survivors, load, crashes>>

\* The directory is synchronised, the cache replaced, the caller answered.
Persisted ==
    /\ work.stage = "renamed"
    /\ survivors' = IF DirectorySync THEN {file} ELSE survivors
    /\ cache' = work.vault
    /\ Leave("stored")
    /\ UNCHANGED <<file, load, crashes>>

\* Mutant: the cache of before the rename stays in use.
SyncFailsKeepsCache ==
    /\ work.stage = "renamed" /\ DirectorySync
    /\ Leave("rejected")
    /\ UNCHANGED <<file, survivors, cache, load, crashes>>

\* The file is replaced, but not surely for good: the cache is dropped.
SyncFails ==
    /\ work.stage = "renamed" /\ DirectorySync
    /\ cache' = NoVault
    /\ load' = NotLoading
    /\ Leave("rejected")
    /\ UNCHANGED <<file, survivors, crashes>>

------------------------------------------------------------------------------
(* The process ends, alone or with the machine, and starts again.          *)

ProcessEnds ==
    /\ crashes < MaxCrashes /\ crashes' = crashes + 1
    /\ cache' = NoVault /\ load' = NotLoading
    /\ queue' = <<>> /\ work' = AtRest
    /\ request' = [r \in Requests |->
           IF request[r].is = "waits" THEN [request[r] EXCEPT !.is = "cut"]
           ELSE request[r]]

Crash == ProcessEnds /\ UNCHANGED <<file, survivors>>

PowerLoss ==
    /\ ProcessEnds
    /\ file' \in survivors
    /\ survivors' = {file'}

VaultNext ==
    \/ Read \/ LoadEnds \/ LoadFails
    \/ \E r \in Requests, put \in Puts : Store(r, put)
    \/ Start \/ Clone \/ Edit \/ MutationFails
    \/ Rename \/ Persisted \/ SyncFails
    \/ Crash \/ PowerLoss

VaultSpec == VaultInit /\ [][VaultNext]_vaultVars

------------------------------------------------------------------------------
\* What reads and the next mutation start from is the file, whatever failed on
\* the way; only between a rename and its answer is it the file of before.
CacheIsFile ==
    /\ load.is = "reading" => load.sees = file /\ cache = NoVault
    /\ cache # NoVault => cache = file \/ work.stage = "renamed"
    /\ work.stage = "edit" => work.vault = file

\* A store that was confirmed is in the file and in whatever a power loss can
\* leave of it: no later store, failure or crash undoes it, and only another
\* secret of the same account may have taken the place of a secret.
StoredIsKept ==
    \A r \in Requests : request[r].is = "stored" =>
        \A v \in survivors \cup {file}, k \in DOMAIN request[r].put :
            IF k \in ReceiveKeys THEN v[k] = request[r].put[k] ELSE v[k] # Unset

\* A receive key never changes its material, and is only ever forgotten when
\* the machine fails before its store was confirmed.
BindingsAreForever ==
    [][\A k \in BoundIn(file) :
           \/ file'[k] = file[k]
           \/ file'[k] = Unset /\ crashes' # crashes]_vaultVars

\* The request that the rename has made effective, before its caller knows.
StatusSeen == [r \in Requests |->
    IF work.stage = "renamed" /\ r = Head(queue)
    THEN [request[r] EXCEPT !.is = "written"] ELSE request[r]]

Abstract == INSTANCE VaultStore WITH
    Bound <- ReceiveKeys, content <- file, kept <- survivors, status <- StatusSeen

\* Every store is atomic: the file, the cache, the chain and the failures of
\* each of its steps implement VaultStore.
StoresAreAtomic == Abstract!StoreSpec
==============================================================================
