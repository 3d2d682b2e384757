----------------------- MODULE SubscriptionMutations -----------------------
(***************************************************************************)
(* Changes to an account's subscription: the page's store                  *)
(* (src/src/stores/subscriptions.ts) and the bridge behind it              *)
(* (src/electron/preload.ts, subscriptionMutationBoundary.ts), over a      *)
(* ledger whose read projection lags behind its finalized blocks.          *)
(*                                                                         *)
(* Each side keeps two guards of its own: the mutations in flight, and the *)
(* finalized transactions whose result is not indexed yet.  The store keys *)
(* them by the whole context, the observed identity of the endpoint        *)
(* included; the bridge by endpoint, chain and account only (the scope).   *)
(* One endpoint, and one subscription per account, are modelled: a context *)
(* is an account and an observed identity, a scope is an account.          *)
(***************************************************************************)
EXTENDS Naturals, Sequences, FiniteSets

CONSTANTS
    Accounts,           \* wallets, each with one subscription
    Identities,         \* what an inspection of the endpoint may observe
    Actions,            \* the record actions, of {"pause", "resume"}
    Calls,              \* mutations that may be on their way at one time
    None,
    IdentityIsSteady,   \* TRUE: an inspection never changes under a mutation
    MaxTransactions,    \* bound: transactions ever submitted
    MaxPeriod,          \* bound: billing periods
    MaxReads,           \* bound: list reads on their way
    MaxReloads          \* bound: reloads of the page

Contexts == [account : Accounts, identity : Identities]

\* A subscription, as far as the actions and the biller tell states apart.
States == [paused : BOOLEAN, period : 0 .. MaxPeriod]

AllActions == Actions \cup {"create"}

\* A transaction of this wallet: the reviewed draft that it carries.
Transactions ==
    [account : Accounts, action : AllActions, result : States,
     status : {"pending", "applied", "rejected"}]

Pendings == [action : AllActions, tx : 1 .. MaxTransactions]

ASSUME SubscriptionAssumption ==
    /\ Actions \subseteq {"pause", "resume"}
    /\ IdentityIsSteady \in BOOLEAN
    /\ {MaxTransactions, MaxPeriod, MaxReads, MaxReloads} \subseteq Nat
    /\ None \notin Contexts \cup States \cup Pendings

VARIABLES
    chain,          \* per account: the states its subscription has had
    indexed,        \* per account: how many of them the projection has read
    txs,            \* the transactions that reached the network, oldest first
    activeContext,  \* store: activeContext
    records,        \* store: the context its records were read in, or None
    reads,          \* store: list reads on their way
    storeInFlight,  \* store: mutationKeysInFlight
    storePending,   \* store: pendingReconciliations
    reconciling,    \* store: reconcilingKey and the bridge's reading of it
    inFlight,       \* bridge: inFlightSubscriptionMutations
    pending,        \* bridge: pendingSubscriptionReconciliations
    calls,          \* the mutations on their way
    reloads

ledger == <<chain, indexed, txs>>
view == <<activeContext, records, reads>>
guards == <<storeInFlight, storePending, inFlight, pending>>
vars == <<ledger, view, guards, reconciling, calls, reloads>>

Idle == [pc |-> "idle"]
NoReconciliation == [pc |-> "idle"]

------------------------------------------------------------------------------
(* What the ledger and its projection answer.                              *)

\* The record a read returns: the newest state the projection has reached.
Record(a) == IF indexed[a] = 0 THEN None ELSE chain[a][indexed[a]]

\* The result the reviewed draft of an action must carry.
Resulting(action, base) ==
    IF action = "create" THEN [paused |-> FALSE, period |-> 0]
    ELSE [base EXCEPT !.paused = (action = "pause")]

\* The state after the biller has charged the scheduled period.
Billed(s) == [s EXCEPT !.period = @ + 1]

\* The projection shows the expected state, or its immediate billing successor.
Confirms(actual, expected) ==
    /\ actual # None
    /\ \/ actual = expected
       \/ ~expected.paused /\ actual = Billed(expected)

------------------------------------------------------------------------------
(* The network.                                                            *)

\* A submitted transaction is applied; it sets the whole subscription state,
\* except that a second registration of one subscription is rejected.
Apply(i) ==
    /\ txs[i].status = "pending"
    /\ LET a == txs[i].account
           fails == txs[i].action = "create" /\ chain[a] # <<>>
       IN  /\ txs' = [txs EXCEPT ![i].status =
                          IF fails THEN "rejected" ELSE "applied"]
           /\ chain' = IF fails THEN chain
                       ELSE [chain EXCEPT ![a] = Append(@, txs[i].result)]
    /\ UNCHANGED <<indexed, view, guards, reconciling, calls, reloads>>

\* The billing trigger charges a running subscription.
Bill(a) ==
    /\ chain[a] # <<>>
    /\ LET last == chain[a][Len(chain[a])]
       IN  /\ ~last.paused /\ last.period < MaxPeriod
           /\ chain' = [chain EXCEPT ![a] = Append(@, Billed(last))]
    /\ UNCHANGED <<indexed, txs, view, guards, reconciling, calls, reloads>>

Index(a) ==
    /\ indexed[a] < Len(chain[a])
    /\ indexed' = [indexed EXCEPT ![a] = @ + 1]
    /\ UNCHANGED <<chain, txs, view, guards, reconciling, calls, reloads>>

------------------------------------------------------------------------------
(* The page: its context and its list of records.  A generation number is  *)
(* only compared with the one a read captured, so a read remembers whether *)
(* no later read or context has taken its place.                           *)

Superseded == {[r EXCEPT !.latest = FALSE] : r \in reads}
NewRead(context) == [context |-> context, latest |-> TRUE]

\* No mutation of the same account is on its way in another context.
Idles(c, context) ==
    calls[c].pc # "idle" =>
        calls[c].context = context \/ calls[c].context.account # context.account

\* activateContext, then the refresh the page starts at once.
Activate(context) ==
    /\ context # activeContext
    /\ Cardinality(reads) < MaxReads
    /\ IdentityIsSteady => \A c \in Calls : Idles(c, context)
    /\ activeContext' = context
    /\ records' = None
    /\ reads' = Superseded \cup {NewRead(context)}
    /\ UNCHANGED <<ledger, guards, reconciling, calls, reloads>>

Refresh ==
    /\ activeContext # None
    /\ Cardinality(reads) < MaxReads
    /\ reads' = Superseded \cup {NewRead(activeContext)}
    /\ UNCHANGED <<ledger, activeContext, records, guards, reconciling, calls,
                   reloads>>

\* Mutant: any answer is applied.
OwnsAnyRequest(r) == TRUE

OwnsRequest(r) == r.latest /\ r.context = activeContext

\* The list arrives, or the read fails; only the owner of the records applies it.
RefreshEnds(r, ok) ==
    /\ reads' = reads \ {r}
    /\ records' = IF ~OwnsRequest(r) THEN records
                  ELSE IF ok THEN r.context ELSE None
    /\ UNCHANGED <<ledger, activeContext, guards, reconciling, calls, reloads>>

------------------------------------------------------------------------------
(* A mutation, from the page's click to its answer.                        *)

\* performMutation: the store's own guards, then the call into the bridge.
Perform(c, action) ==
    /\ calls[c].pc = "idle"
    /\ activeContext # None
    /\ action # "create" => records = activeContext
    /\ \A p \in storePending : p.context # activeContext
    /\ activeContext \notin storeInFlight
    /\ storeInFlight' = storeInFlight \cup {activeContext}
    /\ calls' = [calls EXCEPT ![c] =
           [pc |-> "requested", context |-> activeContext, action |-> action]]
    /\ UNCHANGED <<ledger, view, storePending, inFlight, pending, reconciling,
                   reloads>>

Answer(c, status, tx) ==
    calls' = [calls EXCEPT ![c] =
        [pc |-> "answered", context |-> calls[c].context,
         action |-> calls[c].action, status |-> status, tx |-> tx]]

\* The endpoint is not writable for this input: no scope key is computed yet.
WriteCheckFails(c) ==
    /\ calls[c].pc = "requested"
    /\ Answer(c, "failed", 0)
    /\ UNCHANGED <<ledger, view, guards, reconciling, reloads>>

\* Mutant: only the mutations in flight refuse another one.
BeginWhileIndexing(c) ==
    LET a == calls[c].context.account
    IN  /\ calls[c].pc = "requested"
        /\ a \notin inFlight
        /\ inFlight' = inFlight \cup {a}
        /\ calls' = [calls EXCEPT ![c].pc = "admitted"]
        /\ UNCHANGED <<ledger, view, storeInFlight, storePending, pending,
                       reconciling, reloads>>

\* beginSubscriptionMutation.  A refused call leaves through the same finally
\* block as an admitted one, with the scope key already assigned: it takes the
\* key of the call that holds it out of the set.
Begin(c) ==
    LET a == calls[c].context.account
    IN  /\ calls[c].pc = "requested"
        /\ \/ /\ pending[a] = None /\ a \notin inFlight
              /\ inFlight' = inFlight \cup {a}
              /\ calls' = [calls EXCEPT ![c].pc = "admitted"]
           \/ /\ pending[a] # None \/ a \in inFlight
              /\ inFlight' = inFlight \ {a}
              /\ Answer(c, "failed", 0)
        /\ UNCHANGED <<ledger, view, storeInFlight, storePending, pending,
                       reconciling, reloads>>

\* The current state is read and the node drafts the transaction from it.
ReadCurrent(c) ==
    LET a == calls[c].context.account
        s == calls[c]
    IN  /\ s.pc = "admitted"
        /\ s.action # "create" => Record(a) # None
        /\ calls' = [calls EXCEPT ![c] =
               [pc |-> "drafted", context |-> s.context, action |-> s.action,
                base |-> IF s.action = "create" THEN None ELSE Record(a)]]
        /\ UNCHANGED <<ledger, view, guards, reconciling, reloads>>

\* What a second read of the draft's base shows.
Fresh(c) ==
    IF calls[c].action = "create" THEN None ELSE Record(calls[c].context.account)

Reviewed(c) ==
    calls' = [calls EXCEPT ![c] =
        [pc |-> "reviewed", context |-> calls[c].context,
         action |-> calls[c].action, base |-> calls[c].base, fresh |-> Fresh(c)]]

\* Mutant: the second read is not compared with the first.
ReviewUncompared(c) ==
    /\ calls[c].pc = "drafted"
    /\ Reviewed(c)
    /\ UNCHANGED <<ledger, view, guards, reconciling, reloads>>

\* The draft is decoded, and the state it was drafted from read once more.
Review(c) ==
    /\ calls[c].pc = "drafted"
    /\ Fresh(c) = calls[c].base
    /\ Reviewed(c)
    /\ UNCHANGED <<ledger, view, guards, reconciling, reloads>>

Signed(c) ==
    [account |-> calls[c].context.account, action |-> calls[c].action,
     result |-> Resulting(calls[c].action, calls[c].base), status |-> "pending"]

\* Quoted, signed and accepted by the node.
Submit(c) ==
    /\ calls[c].pc = "reviewed"
    /\ Len(txs) < MaxTransactions
    /\ txs' = Append(txs, Signed(c))
    /\ calls' = [calls EXCEPT ![c] =
           [pc |-> "submitted", context |-> calls[c].context,
            action |-> calls[c].action, tx |-> Len(txs) + 1]]
    /\ UNCHANGED <<chain, indexed, view, guards, reconciling, reloads>>

\* The node has taken the transaction, but its answer is lost: the call fails.
SubmitLost(c) ==
    /\ calls[c].pc = "reviewed"
    /\ Len(txs) < MaxTransactions
    /\ txs' = Append(txs, Signed(c))
    /\ inFlight' = inFlight \ {calls[c].context.account}
    /\ Answer(c, "failed", 0)
    /\ UNCHANGED <<chain, indexed, view, storeInFlight, storePending, pending,
                   reconciling, reloads>>

\* The finality proof of FinalizedTransaction is at hand.
Finalized(c) ==
    /\ calls[c].pc = "submitted"
    /\ txs[calls[c].tx].status = "applied"
    /\ calls' = [calls EXCEPT ![c].pc = "finalized"]
    /\ UNCHANGED <<ledger, view, guards, reconciling, reloads>>

\* Mutant: the scope is given back on success only.
FailKeepsScope(c) ==
    /\ calls[c].pc \in {"admitted", "drafted", "reviewed", "submitted"}
    /\ Answer(c, "failed", 0)
    /\ UNCHANGED <<ledger, view, guards, reconciling, reloads>>

\* A read, the node's draft, the review, the signature, the submission or the
\* wait for finality fails; the finally block gives the scope back.
Fail(c) ==
    /\ calls[c].pc \in {"admitted", "drafted", "reviewed", "submitted"}
    /\ inFlight' = inFlight \ {calls[c].context.account}
    /\ Answer(c, "failed", 0)
    /\ UNCHANGED <<ledger, view, storeInFlight, storePending, pending,
                   reconciling, reloads>>

\* Mutant: the bridge leaves unindexed mutations to the store.
RememberNothing(a, status, p) == pending' = [pending EXCEPT ![a] = None]

\* The bridge's record of a finalized mutation that is not indexed.
Remember(a, status, p) ==
    pending' = [pending EXCEPT ![a] = IF status = "indexing" THEN p ELSE None]

\* A read of confirmSubscriptionResultingState is served the expected state; the
\* answer is still on its way.  Reads that are served another state are repeated.
Observe(c) ==
    /\ calls[c].pc = "finalized"
    /\ Confirms(Record(calls[c].context.account), txs[calls[c].tx].result)
    /\ calls' = [calls EXCEPT ![c].pc = "observed"]
    /\ UNCHANGED <<ledger, view, guards, reconciling, reloads>>

\* confirmSubscriptionResultingState ends: confirmed by a read, or "indexing"
\* at its deadline, whatever was served to it.  The receipt is built, and the
\* bridge remembers what is still to be reconciled.
Confirm(c, status) ==
    LET a == calls[c].context.account
        i == calls[c].tx
    IN  /\ calls[c].pc \in {"finalized", "observed"}
        /\ status = "confirmed" => calls[c].pc = "observed"
        /\ Remember(a, status, [action |-> calls[c].action, tx |-> i])
        /\ inFlight' = inFlight \ {a}
        /\ Answer(c, status, i)
        /\ UNCHANGED <<ledger, view, storeInFlight, storePending, reconciling,
                       reloads>>

\* Mutant: every answer that is not confirmed is remembered.
SettleRemembersFailure(c) ==
    LET s == calls[c]
        others == {p \in storePending : p.context # s.context}
    IN  /\ s.pc = "answered"
        /\ storeInFlight' = storeInFlight \ {s.context}
        /\ storePending' =
               IF s.status = "confirmed" THEN others
               ELSE others \cup {[context |-> s.context, action |-> s.action,
                                  tx |-> s.tx]}
        /\ calls' = [calls EXCEPT ![c] = Idle]
        /\ UNCHANGED <<ledger, view, inFlight, pending, reconciling, reloads>>

\* The answer reaches the store.
Settle(c) ==
    LET s == calls[c]
        others == {p \in storePending : p.context # s.context}
    IN  /\ s.pc = "answered"
        /\ storeInFlight' = storeInFlight \ {s.context}
        /\ storePending' =
               CASE s.status = "failed" -> storePending
                 [] s.status = "confirmed" -> others
                 [] s.status = "indexing" ->
                        others \cup {[context |-> s.context,
                                      action |-> s.action, tx |-> s.tx]}
        /\ calls' = [calls EXCEPT ![c] = Idle]
        /\ UNCHANGED <<ledger, view, inFlight, pending, reconciling, reloads>>

------------------------------------------------------------------------------
(* The reconciliation of a finalized mutation.                             *)

Reconcile(p) ==
    /\ p.context = activeContext
    /\ reconciling.pc = "idle"
    /\ reconciling' = [pc |-> "requested", of |-> p]
    /\ UNCHANGED <<ledger, view, guards, calls, reloads>>

\* The bridge finds its own record of the transaction, or refuses.
ReconcileLookup ==
    /\ reconciling.pc = "requested"
    /\ LET p == reconciling.of
           known == pending[p.context.account]
       IN  reconciling' = [reconciling EXCEPT !.pc =
               IF known = [action |-> p.action, tx |-> p.tx]
               THEN "reading" ELSE "refused"]
    /\ UNCHANGED <<ledger, view, guards, calls, reloads>>

\* Mutant: any successful read ends the reconciliation.
ReconcileReadAnyState ==
    /\ reconciling.pc = "reading"
    /\ Record(reconciling.of.context.account) # None
    /\ reconciling' = [reconciling EXCEPT !.pc = "observed"]
    /\ UNCHANGED <<ledger, view, guards, calls, reloads>>

\* The read is served: the state confirms the transaction, or it does not yet.
ReconcileRead ==
    LET actual == Record(reconciling.of.context.account)
    IN  /\ reconciling.pc = "reading"
        /\ actual # None
        /\ reconciling' = [reconciling EXCEPT !.pc =
               IF Confirms(actual, txs[reconciling.of.tx].result)
               THEN "observed" ELSE "refused"]
        /\ UNCHANGED <<ledger, view, guards, calls, reloads>>

\* Its answer arrives: the scope's record goes, whatever it is by now.
ReconcileConfirms ==
    /\ reconciling.pc = "observed"
    /\ pending' = [pending EXCEPT ![reconciling.of.context.account] = None]
    /\ reconciling' = [reconciling EXCEPT !.pc = "confirmed"]
    /\ UNCHANGED <<ledger, view, storeInFlight, storePending, inFlight, calls,
                   reloads>>

ReconcileFails ==
    /\ reconciling.pc \in {"requested", "reading", "observed"}
    /\ reconciling' = [reconciling EXCEPT !.pc = "refused"]
    /\ UNCHANGED <<ledger, view, guards, calls, reloads>>

\* The answer reaches the store: still indexing and failed reads keep the record.
ReconcileSettles ==
    /\ reconciling.pc \in {"confirmed", "refused"}
    /\ storePending' = IF reconciling.pc = "confirmed"
                       THEN storePending \ {reconciling.of} ELSE storePending
    /\ reconciling' = NoReconciliation
    /\ UNCHANGED <<ledger, view, storeInFlight, inFlight, pending, calls, reloads>>

------------------------------------------------------------------------------
\* The window is loaded again: the page and the bridge both start from nothing.
Reload ==
    /\ reloads < MaxReloads
    /\ reloads' = reloads + 1
    /\ activeContext' = None
    /\ records' = None
    /\ reads' = {}
    /\ storeInFlight' = {}
    /\ storePending' = {}
    /\ inFlight' = {}
    /\ pending' = [a \in Accounts |-> None]
    /\ reconciling' = NoReconciliation
    /\ calls' = [c \in Calls |-> Idle]
    /\ UNCHANGED ledger

Init ==
    /\ chain = [a \in Accounts |-> <<>>]
    /\ indexed = [a \in Accounts |-> 0]
    /\ txs = <<>>
    /\ activeContext = None
    /\ records = None
    /\ reads = {}
    /\ storeInFlight = {}
    /\ storePending = {}
    /\ reconciling = NoReconciliation
    /\ inFlight = {}
    /\ pending = [a \in Accounts |-> None]
    /\ calls = [c \in Calls |-> Idle]
    /\ reloads = 0

NetworkStep ==
    \/ \E i \in DOMAIN txs : Apply(i)
    \/ \E a \in Accounts : Bill(a) \/ Index(a)

PageStep ==
    \/ \E context \in Contexts : Activate(context)
    \/ Refresh
    \/ \E r \in reads, ok \in BOOLEAN : RefreshEnds(r, ok)
    \/ Reload

CallStep(c) ==
    \/ \E action \in AllActions : Perform(c, action)
    \/ WriteCheckFails(c)
    \/ Begin(c)
    \/ ReadCurrent(c)
    \/ Review(c)
    \/ Submit(c)
    \/ SubmitLost(c)
    \/ Finalized(c)
    \/ Observe(c)
    \/ \E status \in {"confirmed", "indexing"} : Confirm(c, status)
    \/ Fail(c)
    \/ Settle(c)

ReconcileStep ==
    \/ \E p \in storePending : Reconcile(p)
    \/ ReconcileLookup
    \/ ReconcileRead
    \/ ReconcileConfirms
    \/ ReconcileFails
    \/ ReconcileSettles

Next ==
    \/ NetworkStep
    \/ PageStep
    \/ \E c \in Calls : CallStep(c)
    \/ ReconcileStep

Spec == Init /\ [][Next]_vars
------------------------------------------------------------------------------
\* Where a mutation is, and what its closure holds.
CallRecords ==
    {Idle}
    \cup [pc : {"requested", "admitted"}, context : Contexts, action : AllActions]
    \cup [pc : {"drafted"}, context : Contexts, action : Actions, base : States]
    \cup [pc : {"drafted"}, context : Contexts, action : {"create"}, base : {None}]
    \cup [pc : {"reviewed"}, context : Contexts, action : Actions, base : States,
          fresh : States]
    \cup [pc : {"reviewed"}, context : Contexts, action : {"create"},
          base : {None}, fresh : {None}]
    \cup [pc : {"submitted", "finalized", "observed"}, context : Contexts,
          action : AllActions, tx : 1 .. MaxTransactions]
    \cup [pc : {"answered"}, context : Contexts, action : AllActions,
          status : {"failed"}, tx : {0}]
    \cup [pc : {"answered"}, context : Contexts, action : AllActions,
          status : {"confirmed", "indexing"}, tx : 1 .. MaxTransactions]

StorePendings ==
    [context : Contexts, action : AllActions, tx : 1 .. MaxTransactions]

\* Every variable has the shape the store and the bridge give it.
TypeOK ==
    /\ chain \in [Accounts -> Seq(States)]
    /\ \A a \in Accounts : indexed[a] \in 0 .. Len(chain[a])
    /\ txs \in Seq(Transactions) /\ Len(txs) <= MaxTransactions
    /\ activeContext \in Contexts \cup {None}
    /\ records \in Contexts \cup {None}
    /\ reads \subseteq [context : Contexts, latest : BOOLEAN]
    /\ storeInFlight \subseteq Contexts
    /\ storePending \subseteq StorePendings
    /\ reconciling \in {NoReconciliation}
           \cup [pc : {"requested", "reading", "observed", "confirmed", "refused"},
                 of : StorePendings]
    /\ inFlight \subseteq Accounts
    /\ pending \in [Accounts -> Pendings \cup {None}]
    /\ calls \in [Calls -> CallRecords]
    /\ reloads \in 0 .. MaxReloads

Admitted(c) ==
    calls[c].pc \in {"admitted", "drafted", "reviewed", "submitted", "finalized",
                     "observed"}

\* What the two "already in progress" guards are for: one mutation of a
\* subscription at a time between its admission and its receipt.
OneMutationPerScope ==
    \A c, d \in Calls :
        Admitted(c) /\ Admitted(d) /\ calls[c].context.account
                                      = calls[d].context.account => c = d

\* The bridge's set is the accounts whose mutation runs: none leaks, so a failed
\* mutation never blocks the next one, and none is missing, so none is doubled.
InFlightIsExact ==
    inFlight = {calls[c].context.account : c \in {d \in Calls : Admitted(d)}}

\* The store and the bridge remember the same finalized, unindexed mutations,
\* but for answers still on their way between them: what the page shows can be
\* reconciled, and what blocks the bridge is shown in some context.
PendingIsReconcilable ==
    /\ \A p \in storePending :
           \/ pending[p.context.account] = [action |-> p.action, tx |-> p.tx]
           \/ reconciling.pc = "confirmed" /\ reconciling.of = p
    /\ \A a \in Accounts : pending[a] # None =>
           \/ \E p \in storePending :
                  p.context.account = a /\ p.tx = pending[a].tx
           \/ \E c \in Calls :
                  /\ calls[c].pc = "answered" /\ calls[c].status = "indexing"
                  /\ calls[c].context.account = a /\ calls[c].tx = pending[a].tx

\* A list the page shows was read for the context that is active now, also
\* when answers to earlier contexts and earlier refreshes arrive late.
RecordsBelongToContext == records # None => records = activeContext

\* Nothing is signed blindly.  "Do not resubmit": no transaction of an account is
\* signed while a finalized one awaits its indexed result, however long before the
\* signature it was admitted.  And what is signed follows from the newest record
\* its call was served, not from an older one the draft was made of: a charge
\* indexed between the two reads is not undone.
NoBlindSubmission ==
    [][Len(txs') > Len(txs) =>
           LET tx == txs'[Len(txs')]
           IN  /\ pending[tx.account] = None
               /\ \E c \in Calls :
                      /\ calls[c].pc = "reviewed"
                      /\ calls[c].context.account = tx.account
                      /\ tx.result = Resulting(tx.action, calls[c].fresh)]_vars

\* A finalized mutation that awaits indexing is forgotten only by its own
\* reconciliation, never by another mutation's or another read's result, and
\* only after the projection has shown a state that confirms it.
FinalizedNotForgotten ==
    [][\A a \in Accounts :
           pending[a] # None /\ pending'[a] # pending[a] /\ reloads' = reloads =>
               /\ pending'[a] = None
               /\ reconciling.pc = "observed"
               /\ reconciling.of.tx = pending[a].tx
               /\ \E i \in 1 .. indexed[a] :
                      Confirms(chain[a][i], txs[pending[a].tx].result)]_vars
==============================================================================
