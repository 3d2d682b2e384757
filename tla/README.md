# Iroha Desktop Wallet: TLA+ models and proofs

These modules model the parts of the wallet whose correctness depends on the
order of events: the finality proof of a submitted transaction, the IrohaConnect
pairing and signing boundary, the VPN runtime with its receipt cache, the durable
watermark of the validation-fee policy, subscription changes, the secure vault,
and the Solana programs of the SCCP bridge. TLC checks them on small instances, and
TLAPS proves the safety properties of all of them for every value of the
constants (those of the VPN tunnel and of subscriptions under hypotheses that
section 5 names). Paths below are relative to the repository.

Contents: 1 the system, 2 the models and the code, 3 the runs, 4 fairness,
5 the proofs, 6 where the code and its documents disagree, 7 what is not
modelled, 8 the plan.

To check everything: `tlc -config <run>.cfg <module>` for each run of section 3,
and `tlapm <module>_proofs.tla` for the eight proof modules. `PROJECT.json` lists
the runs, the lines each definition translates, the faulty variants every
property is tested against, the hazards and the theorems.

## 1. The system

The wallet is an Electron program in four layers.

| Layer | Code | State it keeps |
|---|---|---|
| Renderer | `src/views`, `src/stores`, `src/components` | Pinia stores in local storage, what the pages show |
| Preload bridge | `electron/preload.ts`, `electron/irohaConnectBoundary.ts`, `electron/transactionFinality.ts` | pairing sessions, caches of the calls in flight |
| Main process | `electron/main.ts`, `electron/vpnRuntime.ts`, `electron/secureVault.ts`, `electron/networkIdentityPinStore.ts`, `electron/governanceValidationFeeFinality.ts` | vault, VPN session, identity pins, finality watermark, deep-link mailboxes |
| Outside | Torii node and ledger, CBSI Core, VPN controller programs, dApps over IrohaConnect | external |

The repository also holds the programs that the SCCP bridge runs on Solana
(`solana/`): a native verifier of recursive proofs and a route program, built once
as the destination and once as the source.

The renderer calls the preload bridge through typed functions; the bridge encodes
and signs, calls the node over HTTP, and calls the main process over IPC. Nothing
takes a lock: JavaScript runs one callback at a time, so every `await` is a point
where any other handler may run, and every value read before it may be stale after
it. That is where the hazards are, and the models make each `await` a step
boundary.

### Components

*Hard* names the behaviour a test hardly reaches; *correct* what must hold.

**Finality proof** (`electron/transactionFinality.ts`; modelled).
State: the locals of one call (attempts, accepted height, previous snapshot).
Operations: `waitForFinalizedTransaction` and the checks it makes. Used by
`preload.ts` after each submission and by `vpnRuntime.ts` for a lease payment.
Hard: six reads per attempt of a ledger that moves and an explorer that lags
between any two of them; failed reads that leave an old snapshot to compare with.
Correct: a proof is true on the ledger; a terminal failure is the ledger's own; an
integrity error is real; the accepted height is pinned; the call ends.

**IrohaConnect boundary** (`electron/irohaConnectBoundary.ts`; modelled).
State: context key and generation, the pending, authorizing and active sessions
with their keys and sequence numbers, the request in the slot. Operations:
`setContext`, `reset`, `prepareSession`, `approveSession`, `closeSession`,
`processFrame`, `approveRequest`, `rejectRequest`. Interacts with the native
prompt, the endpoint check and the vault, all awaited. Hard: context changes and
closes under a suspended approval, racing preparations, competing sequence
numbers. Correct: one session, keys that live exactly as long as their session,
signatures only of the reviewed request of a standing session, increasing frame
numbers, one answer per request, no request that blocks the slot for good.

**VPN runtime** (`electron/vpnRuntime.ts`, `vpnController.ts`,
`vpnPreloadGuard.ts`, `src/views/VpnView.vue`; modelled but for availability,
profile and counters). State: runtime state, active session, whether it is
visible, the reconcile reason, the receipt cache with its context and generation;
in the page the shown status and its request generation. Operations: `getStatus`,
`connect`, `disconnect`, `disconnectLocal`, `repair`, `listReceipts`. Interacts
with the controller program, the server's leases, and the page that polls each
second. Hard: a poll overlaps connect and disconnect at every await; wallets are
switched while answers travel; leases expire; the tunnel outlives a restart.
Correct: see the properties of `VpnReceipts` and `VpnRuntime` in section 3.

**Validation-fee finality store** (`electron/governanceValidationFeeFinality.ts`;
modelled). State: a state file, a marker file, the in-process floor, the
initialised flag. Operation: `verifyAndPromote`. Hard: two writes that may fail or
be cut by a crash, files that are rolled back or removed from outside, a table of
64 ledgers that fills. Correct: no two accepted observations contradict each
other; the watermark only advances; the store accepts its own files.

**Network identity pins** (`electron/networkIdentityPinStore.ts`,
`networkIdentityDiscovery.ts`, `main.ts` 538-633, `endpointInspector.ts`,
`preload.ts` 3940-4004; planned). State: a pin file per endpoint and prefix.
Operations: discovery from two routes, first-use pin, confirmed replacement,
automatic refresh of the official test network. Hard: the two routes are read at
different instants; a confirmation is asked about one identity and stored after
another read. Correct: the identity used for signing is the first one pinned or one
the user approved; the refresh never crosses network prefixes.

**Secure vault** (`electron/secureVault.ts`; modelled). State: an encrypted file,
its cache, the shared load, a chain of mutations (`mutationTail`). Operations:
`storeAccountSecret`, `storeReceiveKeys`, the reads. Hard: reads load the file while
mutations edit a clone; a write, a rename or the synchronisation of the directory
fails; the process or the machine stops in between. Correct: a confirmed store is
kept, a rejected one has happened whole or not at all, the cache is the file, a
receive key never changes what it holds, the limits hold.

**Subscriptions** (`src/stores/subscriptions.ts`, `electron/preload.ts` 1230-1247 and
4509-5083, `electron/subscriptionMutation*.ts`; modelled for create, pause and
resume). State: in the store the active context, the records, the mutations in
flight and the finalized ones that await indexing; in the bridge its own two
guards, under another key. Operations: `activateContext`, `refresh`,
`performMutation`, `reconcilePending`, and in the bridge draft, review, signature,
submission, confirmation and reconciliation. Hard: ten awaits per mutation while
the biller charges, the projection lags, answers are lost and the page is
reloaded. Correct: one mutation of a subscription at a time; nothing is signed while
a finalized change is not indexed; both sides remember the same changes; a
failed mutation blocks nothing.

**SCCP bridge on Solana** (`solana/sccp-native-recursive-verifier`,
`solana/sccp-taira-xor`; modelled). State: material and proof accounts, the two
route states, receipts of transfers from TAIRA and of returns, the XOR token. Every
instruction may be sent by anybody, in transactions that are lost, repeated,
reordered or compete. Correct: a transfer that TAIRA committed is paid out once,
whole and to its recipient; Solana never holds more than TAIRA keeps for it; the two
programs cannot be bound apart; a careful recipient is paid in the end.

**Deep links and windows** (`electron/main.ts`, `deepLink.ts`; planned). State: two
one-place mailboxes (a Kaigi route that is put back when the renderer is not
ready, an IrohaConnect URI taken once, newest wins). Hard: links that arrive
while the window loads, reloads or is closed. Correct: the newest link is
delivered exactly once to a page that asks.

**Build, quote, sign, submit** (`electron/firstReleaseTransaction.ts`,
`transactionFeeQuote.ts`, `feePayment.ts`; planned). State: locals of a call.
Hard: a submission that fails without an answer. Correct: what is signed is what
was quoted, and is submitted at most once.

**HTTP reads** (`electron/httpReadRetry.ts`, `boundedJsonResponse.ts`,
`nodeFetch.ts`; planned). Bounded retries and bounded bodies. Correct: attempts and
total delay stay within the budget, only retriable reads are repeated.

**Confidential wallet** (`electron/confidentialWallet.ts`,
`confidentialNoteIndex.ts`; planned). Note selection and a paged index. Correct:
the selected notes cover the amount, no note is used twice, a page is never
skipped when the index grows between two pages.

The other components (governance pages, Kaigi, endpoint inspection, faucet, event
streams, the preload's argument checks, media policy, views and stores, the bridge
on other chains and its deployment, build scripts) are listed with the reason in
section 7.

## 2. The models and the code

| Module | What it is | Code |
|---|---|---|
| `Ledger` | the ledger and its explorer as seen by one transaction (external) | what `transactionFinality.ts` reads |
| `FinalityOracle` | abstract: what a caller of the finality proof is promised | callers in `vpnRuntime.ts`, `preload.ts` |
| `FinalizedTransaction` | the polling call; implements `FinalityOracle` | `transactionFinality.ts` 556-1318 |
| `IrohaConnectBoundary` | the pairing and signing boundary | `irohaConnectBoundary.ts` 487-1184 |
| `VpnReceipts` | the receipt cache and its readers in isolation | `vpnRuntime.ts` 1323-1362, 1554-1585 |
| `VpnRuntime` | extends `VpnReceipts` with the handlers, the page and the preload's fallback; implements its specification | `vpnRuntime.ts`, `vpnController.ts`, `vpnPreloadGuard.ts`, `VpnView.vue` |
| `ValidationFeeFinality` | the durable watermark | `governanceValidationFeeFinality.ts` |
| `VaultStore` | abstract: what callers of the vault are promised | callers in `main.ts`, `preload.ts` |
| `SecureVault` | file, cache, load and chain of mutations; implements `VaultStore` | `secureVault.ts` 442-1263 |
| `SubscriptionMutations` | store and bridge over a ledger with a lagging projection | `subscriptions.ts`, `preload.ts` 4509-5083, `subscriptionMutationDraft.ts` |
| `BridgeLedger` | abstract: the ledger that TAIRA and the bridge's users rely on | `solana/sccp-taira-xor/README.md` |
| `SccpVerifier` | the native verifier: uploads, seals, verification | `solana/sccp-native-recursive-verifier/src/lib.rs` |
| `SccpRoute` | extends it with the two route programs, TAIRA and the token; implements `BridgeLedger` | `solana/sccp-taira-xor/src/lib.rs` |
| `MC...` | instances for TLC: symmetry sets | |
| `..._proofs` | theorems | |

Conventions. One action is what runs between two awaits. An operation that awaits
leaves a record of where it stands (`pc`, `call`, `preparing`, the `approval` and
`step` fields) and what its closure captured; a `Resume` or `Use...` action goes
on from there with the shared state as it finds it. A definition whose comment
begins with "Faulty" or "Mutant" is a plausible bug of the definition below it. It is used by
no specification; putting it in that definition's place must break the property
named in `PROJECT.json`, which shows that the property depends on that code.

**FinalizedTransaction.** `pc` follows the loop: `poll` (head of the loop),
`status` (awaiting the first status), `initial` (the first `Promise.all`),
`confirmStatus`, `confirm` (the second one), `done`. The three reads of a
`Promise.all` are served one by one in any order, each from the explorer's copy
`index` of that moment, and the ledger may produce, finalize, replace, expire or
be indexed between them. The answers are used when all three are there. A parser
is modelled by what it accepts (`MatchesApplied`). `timedOut` is the clock: it may
pass the deadline at any time or never. The status endpoint answers from the
ledger's state once it has a verdict; before that it may answer nothing, a queue
entry or one node's cached verdict. Blocks at or below the finalized height are
never replaced: that is what finality means, and the proof rests on it.

**IrohaConnectBoundary.** A session is in one place (`pending`, `authorizing`,
`active`, `gone`), which stands for the three maps of the class. `keys`,
`preimage` and `message` say whether a secret buffer is live or filled with zeros;
a suspended method keeps its reference to the buffer, so it sees the wipe. `vault`
collects what the vault was asked to sign and whether the pairing or request was
current at that instant. `sent` is the sequence of frames handed to the renderer.
Frame contents are reduced to the five ways the code treats a frame.

**VpnReceipts.** A reader is `asked` (its request travels), `answered` (the answer
awaits its turn), `over` (the answer was cached or dropped) or `returned` (a list was
handed over, until the page takes it with `TakeReceipts`). `receiptsGeneration` is a counter that is only compared with a
value taken from it; the model keeps the reader that took the present value
(`newest`), which makes the state finite without changing any comparison. Lists
are identified by their owner and the server's version.

**VpnRuntime.** `call[c]` is a handler in flight: which one (`op`), what it awaits
(`step`), what it captured (`context`, `lease`, `held`: whether the session object
it captured is still the active one) and what the controller answered (`seen`).
A controller command acts on `tunnel` in one step and its answer is used in a
later one; without its program the controller answers that there is no tunnel
(`ReportsMissing`). The server likewise answers a status read for the lease in one step
(`ServeRemote`: `present`, `absent`) and the handler uses that answer in a later one. `lease` is the server: who paid, whether the fixed expiry has passed,
whether the server has dropped the session. Opening a lease (profile, identity,
quote, payment, finality, session) is one step because nothing shared is touched in
between. `view` and `shown` are the page: the selected wallet and the status it
shows; `fresh` is its request generation. The preload's fallback from a refused
`disconnect` to `disconnectLocal` is part of `Answer`. Of the readers of the cache
in `VpnReceipts` the polls are inside `getStatus` and `ReceiptPages` are pages that
list receipts; a page does either that or an action at one time.

**ValidationFeeFinality.** `verifyAndPromote` runs without an await, so it is one
action per outcome: refused, an exact repetition, promoted, a write that throws,
and a crash between the writes. `Written` gives the states the two files may be
left in. `RestoreState` and `RemoveFiles` are somebody else changing the files.
`accepted` is a history variable: the observations the wallet reported as final
and is still answerable for. A change from outside releases what this process had
not read (`Forgotten`), and a restart after such a change releases everything
(`touched`).

**SubscriptionMutations.** A context is an account with the observed identity of
the endpoint: the store keys its guards by it. The bridge keys its own by endpoint,
chain and account, which is an account here. `chain[a]` is the list of states the
subscription has had and `indexed[a]` how many of them a read can see. `calls[c]` is a
mutation with what its closure holds: `requested` (the store has called the
bridge), `admitted` (past `beginSubscriptionMutation`), `drafted`, `reviewed`,
`submitted`, `finalized` (`FinalizedTransaction` has a proof), `observed` (a read served
a state that confirms it), `answered`. `Review` is the second read before the signature:
the draft stands only if nothing has changed, and `fresh` is what it found. A read that
confirms is served in one step (`Observe`, `ReconcileRead`) and used in a later one
(`Confirm`, `ReconcileConfirms`). `Begin` is
faithful to a detail of the code: a refused call leaves through the same `finally`
and deletes the key it never took (section 6). `IdentityIsSteady` says that no
inspection changes the observed identity under a mutation.

**SecureVault.** `file` is what the directory entry names and `survivors` what it may
name after a power loss: a rename adds to it, the synchronisation of the directory
makes it the one file again. `load` is the shared promise with the content that the
file had when it was opened. `queue` is the chain of mutations and `work` the stage
of the running one: it waits for the vault, edits a clone, writes, and has renamed.
`StatusSeen` is the refinement mapping: a request takes effect at its rename, before
its caller hears of it.

**SccpVerifier** and **SccpRoute.** An account is a record of its status, its
authority or declared amount, and the chunks written so far; `Body` is the right
content and `exact` says that the header declares the hashes of the message and of
that body. An instruction whose checks fail has no step, because it changes nothing.
`sealedNow` are the proofs sealed in the current slot and `Tick` ends the slot.
`SealAndFinalize` is the transaction of two instructions that the README of the
verifier asks for; each is also modelled alone. `Finalized` is the whole
`finalize_from_taira` behind the verifier's answer, with the receipt, the mint and
the total, and happens whole or not at all. `TransferTokens` and `BurnTokens` are what
the token program lets any holder do without the route. `Sends` says what a user may send:
anything, or for those in `Careful` what the two READMEs tell them to. The mint's key
signs one transaction, in which `Operator` initialises the material `Governed`
(verifier README, lines 94-104); that one signature is what `MaySignMaterial` stands
for. The operator may fill that material only with the right verifying key, because
its hash is in the address.

## 3. The runs

| Run | Instance | Question |
|---|---|---|
| `finality` | 2 heights, 3 block generations, 2 attempts | the call against a moving ledger |
| `connect` | 2 contexts, 2 racing preparations, 2 sessions, 2 requests, 2 frames, 2 context changes | pairing and signing |
| `connect_stale_pairing` | 1 context, 1 session, 3 context changes | a disagreement, section 6 |
| `vpn` | 2 wallets, 1 poll, 1 action or page read, 2 leases, 1 fault | the handlers' interleavings; the runtime implements `VpnReceipts` |
| `vpn_live` | 1 wallet, 1 poll, 1 action, 1 lease, 1 fault, 1 list change | what the page eventually shows |
| `vpn_foreign`, `vpn_refresh` | as `vpn` with 1 lease; 1 wallet with 2 leases and no fault | disagreements, section 6 |
| `fee_finality` | 3 ledgers for 2 places, 2 heights, 2 blocks | the watermark and its files |
| `subscriptions` | 1 account, 2 identities, 2 calls, 3 transactions, 1 billing, 2 reads, 1 reload | store and bridge |
| `subscriptions_rescope` | the same with an identity that changes under a call | a disagreement, section 6 |
| `secure_vault` | 3 requests, 1 secret, 3 receive keys for 2 places, 2 materials, 2 crashes | the vault implements its abstract store |
| `sccp_route` | a careful operator and another user, 2 materials, 2 transfers of 1 and 2 units, 2 chunks, u64::MAX = 2 | the programs implement the ledger |

What they show:

- `finality`. `ProofIsFinal`: a returned proof names a block that is final and holds
  the transaction. `IntegrityErrorsAreReal`: on a ledger that replaced nothing the
  call raises no integrity error, except when the explorer answered the metrics
  before it indexed the block that its other two answers show (the exception is in
  the property because the code has it). `Terminates`, and
  `ImplementsOracle`: seen from outside the call is one atomic decision.
  Two heights let a transaction move to another height and back; three block
  generations let a block be replaced twice, so that a snapshot, a status and a
  confirmation can see three different blocks; two attempts are the least with a
  previous snapshot to compare with. The proofs remove the bounds.
- `connect`. `OneSession`, `KeysLiveWithTheirSession`, `RequestSignaturesAreExact`,
  `AnswersAreUnique`, `FramesOnlyForLiveSession`, `RequestsSettle`. Two of
  everything lets each race have a rival: two preparations for one slot, an old and
  a new session, a request that is answered while the next waits. Two context
  changes are one to begin a pairing and one to invalidate it; a third one, needed
  to come back to the same context, is in `connect_stale_pairing`.
- `vpn`. `ConnectedHasSession`: "connected" needs a session that is not on its way
  out. `TunnelServesSession`: with no action in flight a live tunnel carries the
  session's lease. `PolledStatusIsOwn`: what a poll puts on the page is never
  another wallet's session. One poll and one action overlap at every await; a second
  lease lets a late answer meet its successor; one fault is a rejected command, a
  lost tunnel, a wallet switch or a restart. Two actions at once are outside the
  run: the page allows one at a time while it stays mounted. With two, TLC finds
  `TunnelServesSession` and `PolledStatusIsOwn` broken (the late answer of the first
  connect undoes the second one); the repository promises nothing for that case.
  `ReceiptsBelongToContext`, `ListsBelongToCaller`: a list is shown and handed over
  only to the wallet it was read for; the poll and the page's read are two readers of
  two wallets. `ReceiptsSpec`: the handlers change the cache only through the
  operations of `VpnReceipts`, so what is proved there holds here. The view `PageView`
  merges states that differ only in parts of the page that none of these properties
  asks for and no other step reads: 2.6 million states.
- `vpn_live`. `OrphanTunnelReported`, `ConnectedIsTruthful`, and
  `ReceiptsNeverRegress`, with a server whose list changes once.
- `fee_finality`. `OwnStateLoads`, `AcceptedAgree`, `WatermarkAdvances`. Three
  ledgers for two places fill the table; two heights and two blocks allow
  regression and equivocation; the equivocation of a policy hash has the same shape
  as that of a block hash and is covered by the proof. Types are left to the proof.
- `subscriptions`. `InFlightIsExact`: the bridge's set is the accounts whose mutation
  runs, so no failure leaves a subscription blocked and no running one is unguarded.
  `PendingIsReconcilable`: store and bridge remember the same changes but for answers
  on their way. `RecordsBelongToContext`: late answers never show another context's
  list. `NoBlindSubmission`: nothing is signed while a finalized change is not indexed,
  and what is signed follows from the record that its call read last. If the biller
  charges between the two reads of a call and the second one is not compared, the
  property fails, as it does if the bridge admits a call over an unindexed change.
  `FinalizedNotForgotten`: a remembered change is forgotten only by its own
  reconciliation, after the projection has shown a state that confirms it. Two calls
  compete for one subscription, three transactions give a change, its successor and a lost one, a
  billing makes the state differ from what was drafted, two identities let the store's
  key differ from the bridge's. 1.15 million states.
- `secure_vault`. `VaultTypeOK` carries the limit of receive keys, of the file and also
  of the clone that a mutation is about to write: `persist` decodes the whole vault
  again (the guard of `Rename`), so a batch over the limit would not reach the file, but
  its own check must already have refused it. `CacheIsFile`, `StoredIsKept`, `BindingsAreForever`, and
  `StoresAreAtomic`, the refinement of `VaultStore`. Three keys for two places reach
  the limit, two materials allow a changed binding, two crashes let one come during
  the recovery from the other. 0.77 million states.
- `sccp_route`. `RoutesAgree`: the route README's "a divergent one cannot pass".
  `SupplyIsBacked`: every unit on Solana is one that TAIRA keeps. `ImplementsLedger`:
  the refinement of `BridgeLedger`. `MessagesSettle`: a transfer to a careful recipient
  is paid in the end. The amounts 1 and 2 with a u64 of 2 let the totals saturate
  when the first message is paid after a return; two chunks are the least that can be repeated or swapped; a second user who sends anything, and
  a second material, are the competitors. 119 thousand states. A careful user never sends
  `seal_proof` alone, as the verifier's README asks: a proof that was sealed alone is
  lost when its slot passes, and `MessagesSettle` promises nothing to a user who does so.

`CHECK_DEADLOCK FALSE` is set for `finality`, the `connect` runs and `secure_vault`: a
finished call has no steps, a boundary whose bounds are used up may rest, and the
vault rests when each of its requests was made once.

## 4. Fairness

`FinalizedTransaction!FairSpec` is weak fairness of the call's own step: the event
loop runs what is ready and each read settles because the readers passed in carry
timeouts. The clock, the ledger and the explorer owe nothing, so `Terminates` is
due to the attempt budget alone.

`IrohaConnectBoundary!FairSpec`: the native prompt, the endpoint check and the vault
settle once asked. Nothing is assumed of the renderer, the dApp or the relay.

`VpnRuntime!FairSpec`: the page polls as long as it is open
(`VpnView.vue` restarts its timer after each poll), commands and requests settle
(the controller program is killed after its timeout, requests carry one), receipt
reads settle. Users, leases and the tunnel owe nothing. `MaxFaults` bounds the
rejections, so that a poll eventually succeeds; without it nothing could be
promised of a node that never answers.

`SccpRoute!FairSpec`: a careful operator repeats the upload of the material and
somebody initialises the destination (`Opens`); a careful recipient whose message is
committed repeats each instruction of its upload and the final transaction until one
has landed (`Delivers`). This is the usual retry of a Solana client: the fairness is
weak, nothing is assumed of other users, of returns or of the clock. There is always
room for the mint: what TAIRA keeps for Solana, which covers the supply and the
committed messages together, is an amount of 64 bits.

## 5. The proofs

`tlapm` checks every proof below for all values of the constants that satisfy the
named assumptions (`LedgerBounds`, `AttemptBudget`, `BoundaryConstants`,
`ReceiptConstants`, `RuntimeConstants`, `StoreConstants`, `SubscriptionAssumption`, `VaultAssumption`, `VerifierConstants`,
`RouteConstants`). They only say that bounds are natural numbers, that the "nothing"
values are not in the sets they are added to, that a set of ledgers is finite, that
polls and actions are different readers, that amounts are at least 1 and at most
u64::MAX, and that the signer of the mint is a user. Three more are hypotheses of
single theorems: `IdentityIsSteady` (the subscription theorems but `TypeCorrect` and
`RecordsOwned`; the run that drops it finds the disagreement of section 6),
`DirectorySync` (the vault's `ConfirmedIsKept` and `VaultImplementsStore`) and
`OneAction` (the runtime's `OneActionInductive`, `TunnelServes` and
`PolledStatusOwned`): at most one connect, disconnect or repair at a time, which is
what the page's `actionPending` allows, and without which both properties are false.

**FinalizedTransaction_proofs.** `Inductive`, `TypeCorrect`, `ProofsAreFinal`
(`ProofIsFinal`), `AppliedIsPinned` (the accepted height never changes; it has no run
of its own), `Implementation` (`ImplementsOracle`), `IntegrityErrorsMeanReplacement`
(`IntegrityErrorsAreReal`). `ProofIsFinal` is not inductive: it speaks of the ledger at
the end, and the evidence was read earlier from a copy. The strengthening `IInv`
adds three facts. `LedgerInv`: the explorer's copy is a past of the ledger, in the
sense that the finalized part of the copy is unchanged in the ledger. `EvidenceInv`:
from the moment the first snapshot shows the block finalized, the copy is final at
that height, so the transaction and block read after it can no longer change. And
the proof, once returned, stays final because finality is stable
(`FinalIsStable`). `LedgerGrows` proves that each ledger step preserves the
finalized part. The refinement maps each step of the call to one of the oracle's:
`TakeConfirmation` to `Prove` or `GiveUp`, the two status reads to
`FailTerminally`, `GiveUp` or a stutter, and so on. `IntegrityErrorsAreReal` needs a
second invariant, `SteadyInv`, which speaks of ledgers that replaced nothing:
`SteadyLedger` (the copy is a prefix of the ledger, and the ledger has the transaction
where the call saw it), `SteadyRead` (each answer repeats the ledger, and its heights
are at least those of the previous snapshot) and `SteadyPrevious` (so does the
snapshot kept from an earlier attempt, however many of its reads failed). Then no
check of the call can fail (`SteadyStatus`, `SteadyAnswers`) but the comparison of the
height with an explorer head that was read too early.

**IrohaConnectBoundary_proofs.** `TypeCorrect`, `OneSessionAtATime` (`OneSession`),
`KeysEndWithTheirSession` (`KeysLiveWithTheirSession`), `RequestSignatures`
(`RequestSignaturesAreExact`), `UniqueAnswers` (`AnswersAreUnique`),
`FramesServeLiveSession` (`FramesOnlyForLiveSession`). None of them is inductive
alone; they are proved together from `IInv`. `SessionInv`: the place of a session
tells how far its approval is, a live session belongs to the current context and
generation, and an approval still under way for a session that was disposed belongs
to an earlier generation, so that it never promotes it. `SlotInv` and `RequestInv`:
the slot and the request name each other until the request is over or the session
ends. `SentInv`: a frame took a number below the session's next one, and the request
it answers is over. Of two preparations that passed the slot check, the
first to store its session fills the slot that the other one checks again.

**VpnReceipts_proofs.** `ReceiptsInductive`, `ReceiptsTypeCorrect`, `ReceiptsBelong`,
`ListsBelong`, `ReceiptsAreMonotone` (`ReceiptsNeverRegress`). Monotonicity needs
`VersionInv`: nothing is newer than the server, and the cache is no newer than the
answer of the read that still holds the generation, because the server served that
answer after everything the cache took from older reads.

**VpnRuntime_proofs.** `RuntimeInductive`, `RuntimeTypeCorrect` (`TypeOK`),
`ConnectedMeansSession` (`ConnectedHasSession`), `RuntimeImplementsReceipts`
(`ReceiptsSpec`), and for one action at a time `OneActionInductive`, `TunnelServes`
(`TunnelServesSession`), `PolledStatusOwned` (`PolledStatusIsOwn`). `RuntimeInv` adds
`CallInv` to the types and the receipts' invariant: what a suspended handler captured
still fits what it finds, for instance that the lease it asks for is its wallet's, and
that a reader of the cache is idle until its handler starts to read, which makes each
handler's step a step of `VpnReceipts` or none. The refinement carries
`RuntimeReceiptsBelong`, `RuntimeListsBelong` and `RuntimeReceiptsMonotone` over from
`VpnReceipts_proofs`.
`TunnelInv` adds what the tunnel carries while a connect has heard of its command and
not used the answer yet. `OwnerInv` adds that as long as a poll that will be shown
waits for the server, the session is the selected wallet's, even if a connect
replaces it; a switch of wallets ends such a poll's claim (`fresh`) in the same step.
`Keeps` collects what a step must preserve, and the lemmas about it are stated once
for the handlers' common shapes.

**ValidationFeeFinality_proofs.** `StoreInductive`, `StoreTypeCorrect`,
`ReportsAgree` (`AcceptedAgree`), `NoSelfRefusal` (`OwnStateLoads`),
`WatermarkIsMonotone` (`WatermarkAdvances`). The key is `CoverInv`: each reported
observation is behind the floor of the process, or the process has not read its
ledger yet and then it is behind the state file, which nobody touched. The next
observation must extend both, and extension is a preorder, so it extends everything
reported before.

**SubscriptionMutations_proofs.** `TypeCorrect`, `MutationsAreSingle`,
`InFlightExact`, `Reconcilable`, `NothingSignedBlindly` (`NoBlindSubmission`),
`NeverForgotten`, and
`RecordsOwned` (`RecordsBelongToContext`), which is inductive by itself: only the latest
read of the active context writes records, and a change of context clears them. For
the others the inductive
invariant is `SingleMutation /\ BridgeGuards /\ TransactionsDiffer /\ PendingsAgree`:
in the store and in the bridge there is one mutation per account, the bridge's set is
exactly the running ones and an account with a remembered transaction has no running
mutation, transactions in different places are different ones, and each remembered
transaction of the bridge is the store's or on its way there. `MutationsAreSingle` is
needed because a refused call deletes the running one's key: with the identity steady
no call is ever refused while another runs, since the store's guard, which has the
same key then, comes first. Two lemmas are about what was served: `ReviewsCompare` (the
fresh record of a reviewed call is the one its draft was made from) and `ObservationsLast` (the
projection never takes back a state that it has shown).

**SecureVault_proofs.** `VaultTypeCorrect`, `CacheAgrees`, `ConfirmedIsKept`,
`KeysStayBound`, `VaultImplementsStore`. `VaultInv` adds to the types `QueueInv` (the
chained requests wait and differ, the running one is the first), `WorkInv` (the cache,
a load and the clone are the file, but between a rename and its answer) and
`SurvivorInv` (what a power loss may leave holds no binding of a receive key that the
file does not hold). `StepImplementsStore` maps `Store` to `Ask`, `Rename`
to `TakeEffect`, `Persisted` to `Confirm`, the failures to `Reject`, the rest to a
stutter.

**SccpRoute_proofs.** `RouteTypeCorrect`, `RoutesAlwaysAgree` (`RoutesAgree`),
`SealsAreRight`, `RouteImplementsLedger` (`ImplementsLedger`), `SupplyStaysBacked`
(`SupplyIsBacked`). The inductive invariant
`IInv` is the types, `OnlyGoverned` (no other material is ever written, and route
states are bound to the governed one) and `SealedAreRight` (a sealed proof is one of a
committed message, for its recipient and its amount). A settlement is then a step of
the ledger because `verify_sealed` accepts only sealed proofs, which cannot change,
and the receipt is asked for in the same step as the mint. `SupplyIsBacked` says
that no more is on Solana than TAIRA keeps; what makes it inductive is that the supply
and all unpaid messages together are kept. A sum over messages would need an induction
over data. `Backed` says it without one: each committed and unpaid message has a
stretch of integers of its own, as long as its amount, between the supply and what is
kept. A commitment adds its stretch on top, a settlement takes its own out and moves
those below it up, a return moves all of them down, and a holder's own burn only
lowers the supply beneath them; and since every step of the
programs is one of `BridgeLedger`, these are the only cases.

Only model-checked: liveness (`Terminates`, `RequestsSettle`, `OrphanTunnelReported`,
`ConnectedIsTruthful`, `MessagesSettle`), because liveness under fairness is out of the
prover's reach. Every invariant and every other action property of the passing runs
has its theorem. The four properties of section 6 are false and have none.

## 6. Where the code and its documents disagree

Each is a run that violates one property that a test or an assertion of the
repository states.

- `connect_stale_pairing`, `PairingSignaturesAreCurrent`
  (`electron/irohaConnectBoundary.ts:660`).
  `tests/irohaConnectBoundary.spec.ts:544` expects that the vault is not asked to
  sign for a pairing whose generation has closed. The generation is compared before
  the context check is awaited and after the signature, but not between; a reset
  followed by `setContext` of the same context during that await leaves the context
  key equal, and the vault signs a preimage that was already filled with zeros. The
  signature is discarded afterwards.
- `vpn_foreign`, `StatusHidesForeignSession` (`electron/vpnRuntime.ts:1236`).
  `tests/vpnRuntime.spec.ts:1067` expects that the status returned by a refused
  disconnect describes no session. If a poll of the owning wallet was in flight, it
  makes the session visible again while the refused disconnect awaits the
  controller, and the other wallet receives the owner's session.
- `vpn_refresh`, `RefreshAppliesToItsSession` (`electron/vpnRuntime.ts:1728`). The
  assertions of `normalizeRemoteSession` (`electron/vpnRuntime.ts:1502`) make a
  refresh apply only to the session it was asked for. When the server answers that
  it does not have that session, the code drops whichever session is active: a lease
  paid for meanwhile is forgotten while its tunnel stays up. `OrphanTunnelReported`
  shows that the page then reports the tunnel as needing repair.
- `subscriptions_rescope`, `OneMutationPerScope` (`electron/preload.ts:4848`).
  `electron/preload.ts:4603` refuses a second mutation "already in progress" and
  `tests/subscriptionStore.spec.ts:542` expects the duplicate to be blocked. A refused
  call leaves through the `finally` of an admitted one, its scope key already
  assigned, and deletes the key of the running call, so a third call is admitted
  beside it. It takes an inspection that observes another identity of the endpoint
  during a mutation: the store's key contains that identity and the bridge's does not.

## 7. What is not modelled, and why

- Subscriptions: `cancel`, `keep` and `charge_now` have the shape of the modelled
  actions; the parsers of drafts and responses are abstracted to what they accept. A
  submission without an answer, and a reload that forgets unindexed changes, are in
  the model, but the repository promises nothing about them.
- Secure vault: encryption only succeeds or fails; one limit stands for the limits of
  the vault, of its account secrets and of each account's receive keys, and a store that
  meets another limit or the size of the file is one of the failures of
  `MutationFails`; the theorems about power losses leave out Windows,
  where the directory is not synchronised.
- Governance documents and pages, Kaigi calls, endpoint inspection, the preload's
  argument checks: mostly validation of inputs and responses without state of their
  own. Their stores' request generations have the same shape as the receipt cache.
- Faucet proof of work: a numeric search. Event-stream parser: a pure line parser.
- Media permissions and the renderer protocol: stateless policies.
- The controller programs in Swift and the packet tunnel: separate programs over the
  operating system; `VpnRuntime` has them as the external variable `tunnel`.
- The SCCP bridge: hashes are injective and the proof system is sound; that the mint
  signs one material only is the operator's promise, not a check of the program; TAIRA may
  release what was burned at once; the counter of operations overflows after 2^64
  settlements and is left out. The TON contract, the deployment ceremonies and the
  legacy SDKs are not modelled: they are dormant in this release, and sequences of
  checked remote calls without concurrency of their own. They are also most of the
  repository's lines (`scripts/sccp-solana-deploy.mjs`, `src/legacy/sccpLegacySdk.js`,
  the bundled provers under `public/`).
- Cryptography, encodings, wording, byte counters and layout are left out everywhere.

## 8. The plan

| Step | Module | Composes | Properties and theorems |
|---|---|---|---|
| 1 | `Ledger`, `FinalityOracle`, `FinalizedTransaction` | the call with the ledger | done; proved |
| 2 | `IrohaConnectBoundary` | | done; proved |
| 3 | `VpnReceipts`, `VpnRuntime` | the runtime with the cache | done; proved, the tunnel's and the page's property for one action at a time; next: which weaker promise two overlapping connects keep |
| 4 | `ValidationFeeFinality` | | done; proved |
| 5 | `SubscriptionMutations` | store and bridge | done; proved |
| 6 | `VaultStore`, `SecureVault` | chain of mutations over a file | done; proved |
| 7 | `BridgeLedger`, `SccpVerifier`, `SccpRoute` | the programs, TAIRA and the token | done; proved |
| 8 | `NetworkIdentityPins` | discovery, store, confirmation | the signing identity of an endpoint is the first pin or one the user approved; the official refresh never crosses a prefix |
| 9 | `DeepLinks` | main process and a renderer that reloads | the newest link is delivered, and once |
| 10 | `FirstReleaseTransaction` | uses `FinalityOracle` | submitted at most once, what is signed was quoted |
| 11 | `HttpReadRetry`, `ConfidentialNotes` | | attempts and delay within the budget; selection covers the amount, pages are not skipped |

Bounds to expect: two endpoints, two identities and two prefixes for the pins; two
links and two reloads for the deep links.
