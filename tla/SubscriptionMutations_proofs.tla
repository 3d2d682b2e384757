-------------------- MODULE SubscriptionMutations_proofs --------------------
(***************************************************************************)
(* Theorems about SubscriptionMutations, for any accounts, identities,     *)
(* calls and bounds.                                                       *)
(***************************************************************************)
EXTENDS SubscriptionMutations, TLAPS

------------------------------------------------------------------------------
(* Types.                                                                  *)

\* The fields that a call has follow from where it stands.
LEMMA CallFacts ==
    ASSUME TypeOK, NEW c \in Calls
    PROVE  /\ calls[c] \in CallRecords
           /\ calls[c].pc # "idle" => /\ calls[c].context \in Contexts
                                      /\ calls[c].context.account \in Accounts
                                      /\ calls[c].action \in AllActions
           /\ calls[c].pc \in {"submitted", "finalized", "observed"} =>
                  calls[c].tx \in 1 .. MaxTransactions
           /\ calls[c].pc \in {"drafted", "reviewed"} /\ calls[c].action # "create" =>
                  calls[c].base \in States
           /\ calls[c].pc = "answered" =>
                  /\ calls[c].status \in {"failed", "confirmed", "indexing"}
                  /\ calls[c].status # "failed" => calls[c].tx \in 1 .. MaxTransactions
           /\ calls[c].pc \in {"idle", "requested", "admitted", "drafted", "reviewed",
                               "submitted", "finalized", "observed", "answered"}
  <1>1. calls[c] \in CallRecords
    BY DEF TypeOK
  <1>2. calls[c].pc # "idle" => calls[c].context \in Contexts /\ calls[c].action \in AllActions
    BY <1>1 DEF CallRecords, Idle, AllActions
  <1>3. \A x \in Contexts : x.account \in Accounts
    BY DEF Contexts
  <1>4. calls[c].pc \in {"submitted", "finalized", "observed"} =>
            calls[c].tx \in 1 .. MaxTransactions
    BY <1>1 DEF CallRecords, Idle
  <1>5. calls[c].pc \in {"drafted", "reviewed"} /\ calls[c].action # "create" =>
            calls[c].base \in States
    BY <1>1 DEF CallRecords, Idle
  <1>6. calls[c].pc = "answered" =>
            /\ calls[c].status \in {"failed", "confirmed", "indexing"}
            /\ calls[c].status # "failed" => calls[c].tx \in 1 .. MaxTransactions
    BY <1>1 DEF CallRecords, Idle
  <1>7. calls[c].pc \in {"idle", "requested", "admitted", "drafted", "reviewed",
                         "submitted", "finalized", "observed", "answered"}
    BY <1>1 DEF CallRecords, Idle
  <1> QED BY <1>1, <1>2, <1>3, <1>4, <1>5, <1>6, <1>7

\* Replacing the record of one call by another record keeps the calls' type.
LEMMA CallsUpdate ==
    ASSUME TypeOK, NEW c \in Calls, NEW r \in CallRecords
    PROVE  [calls EXCEPT ![c] = r] \in [Calls -> CallRecords]
  BY DEF TypeOK

\* A read answers with a state of the subscription, or with nothing.
LEMMA RecordType ==
    ASSUME TypeOK, NEW a \in Accounts
    PROVE  Record(a) \in States \cup {None}
  <1>1. /\ chain[a] \in Seq(States) /\ indexed[a] \in 0 .. Len(chain[a])
    BY DEF TypeOK
  <1> QED BY <1>1 DEF Record

\* What a signed draft leaves behind is a state of the subscription.
LEMMA SignedType ==
    ASSUME TypeOK, NEW c \in Calls, calls[c].pc = "reviewed"
    PROVE  Signed(c) \in Transactions
  <1>1. /\ calls[c].context.account \in Accounts /\ calls[c].action \in AllActions
        /\ calls[c].action # "create" => calls[c].base \in States
    BY CallFacts
  <1>2. Resulting(calls[c].action, calls[c].base) \in States
    <2>1. CASE calls[c].action = "create"
      BY <2>1, SubscriptionAssumption DEF Resulting, States
    <2>2. ASSUME calls[c].action # "create", NEW paused \in BOOLEAN,
                 paused = (calls[c].action = "pause")
          PROVE  Resulting(calls[c].action, calls[c].base)
                     = [calls[c].base EXCEPT !.paused = paused]
      BY <2>2, Zenon DEF Resulting
    <2>3. \A s \in States, paused \in BOOLEAN : [s EXCEPT !.paused = paused] \in States
      BY DEF States
    <2>4. \E paused \in BOOLEAN : paused = (calls[c].action = "pause")
      BY Zenon
    <2> QED BY <1>1, <2>1, <2>2, <2>3, <2>4
  <1> QED BY <1>1, <1>2 DEF Signed, Transactions

LEMMA InitType == Init => TypeOK
  BY SubscriptionAssumption DEF Init, TypeOK, Idle, NoReconciliation, CallRecords

LEMMA NetworkType ==
    ASSUME TypeOK, NetworkStep
    PROVE  TypeOK'
  <1>1. CASE \E i \in DOMAIN txs : Apply(i)
    <2>1. PICK i \in DOMAIN txs : Apply(i)
      BY <1>1
    <2> DEFINE a == txs[i].account
    <2>2. txs \in Seq(Transactions) /\ i \in 1 .. Len(txs) /\ txs[i] \in Transactions
      BY DEF TypeOK
    <2>3. a \in Accounts /\ txs[i].result \in States
      BY <2>2 DEF Transactions
    <2>4. txs' \in Seq(Transactions) /\ Len(txs') <= MaxTransactions
      <3>1. \A s \in {"rejected", "applied"} :
                [txs[i] EXCEPT !.status = s] \in Transactions
        BY <2>2 DEF Transactions
      <3>2. txs' = [txs EXCEPT ![i] = [txs[i] EXCEPT !.status = txs'[i].status]]
            /\ txs'[i].status \in {"rejected", "applied"}
        BY <2>1, <2>2 DEF Apply, Transactions
      <3>3. txs' \in Seq(Transactions) /\ Len(txs') = Len(txs)
        BY <2>2, <3>1, <3>2
      <3> QED BY <3>3 DEF TypeOK
    <2>5. chain' \in [Accounts -> Seq(States)]
          /\ \A b \in Accounts : indexed'[b] \in 0 .. Len(chain'[b])
      <3>1. chain[a] \in Seq(States) /\ Append(chain[a], txs[i].result) \in Seq(States)
            /\ Len(Append(chain[a], txs[i].result)) = Len(chain[a]) + 1
        BY <2>3 DEF TypeOK
      <3>2. chain' = chain \/ chain' = [chain EXCEPT ![a] = Append(@, txs[i].result)]
        BY <2>1 DEF Apply
      <3>3. indexed' = indexed
        BY <2>1 DEF Apply
      <3>4. \A b \in Accounts : chain[b] \in Seq(States) /\ Len(chain[b]) \in Nat
        BY DEF TypeOK
      <3>5. CASE chain' = chain
        BY <3>3, <3>5 DEF TypeOK
      <3>6. CASE chain' = [chain EXCEPT ![a] = Append(@, txs[i].result)]
        <4>1. chain' \in [Accounts -> Seq(States)]
          BY <3>1, <3>6 DEF TypeOK
        <4>2. \A b \in Accounts : Len(chain[b]) <= Len(chain'[b]) /\ Len(chain'[b]) \in Nat
          BY <2>3, <3>1, <3>4, <3>6 DEF TypeOK
        <4> QED BY <3>3, <3>4, <4>1, <4>2 DEF TypeOK
      <3> QED BY <3>2, <3>5, <3>6
    <2> QED BY <2>1, <2>4, <2>5 DEF Apply, TypeOK, view, guards
  <1>2. ASSUME NEW a \in Accounts, Bill(a)
        PROVE  TypeOK'
    <2> DEFINE last == chain[a][Len(chain[a])]
    <2>1. chain[a] \in Seq(States) /\ chain[a] # <<>> /\ last \in States
      BY <1>2 DEF TypeOK, Bill
    <2>2. Billed(last) \in States
      <3>1. last.period \in 0 .. MaxPeriod /\ last.period < MaxPeriod /\ MaxPeriod \in Nat
        BY <1>2, <2>1, SubscriptionAssumption DEF Bill, States
      <3>2. last.period + 1 \in 0 .. MaxPeriod
        BY <3>1
      <3> QED BY <2>1, <3>2 DEF Billed, States
    <2>3. Append(chain[a], Billed(last)) \in Seq(States)
          /\ Len(Append(chain[a], Billed(last))) = Len(chain[a]) + 1
      BY <2>1, <2>2
    <2>4. chain' = [chain EXCEPT ![a] = Append(@, Billed(last))]
      BY <1>2 DEF Bill
    <2>5. \A b \in Accounts : chain[b] \in Seq(States) /\ Len(chain[b]) \in Nat
      BY DEF TypeOK
    <2>6. chain' \in [Accounts -> Seq(States)]
          /\ \A b \in Accounts : indexed[b] \in 0 .. Len(chain'[b])
      BY <2>3, <2>4, <2>5 DEF TypeOK
    <2> QED BY <1>2, <2>6 DEF Bill, TypeOK, view, guards
  <1>3. ASSUME NEW a \in Accounts, Index(a)
        PROVE  TypeOK'
    <2>1. \A b \in Accounts : chain[b] \in Seq(States) /\ Len(chain[b]) \in Nat
      BY DEF TypeOK
    <2> QED BY <1>3, <2>1 DEF Index, TypeOK, view, guards
  <1> QED BY <1>1, <1>2, <1>3 DEF NetworkStep

LEMMA PageType ==
    ASSUME TypeOK, PageStep
    PROVE  TypeOK'
  <1>1. Superseded \subseteq [context : Contexts, latest : BOOLEAN]
    BY DEF Superseded, TypeOK
  <1>2. \A x \in Contexts : NewRead(x) \in [context : Contexts, latest : BOOLEAN]
    BY DEF NewRead
  <1>3. ASSUME NEW x \in Contexts, Activate(x)
        PROVE  TypeOK'
    BY <1>1, <1>2, <1>3 DEF Activate, TypeOK, ledger, guards
  <1>4. CASE Refresh
    BY <1>1, <1>2, <1>4 DEF Refresh, TypeOK, ledger, guards
  <1>5. ASSUME NEW r \in reads, NEW ok \in BOOLEAN, RefreshEnds(r, ok)
        PROVE  TypeOK'
    BY <1>5 DEF RefreshEnds, TypeOK, ledger, guards
  <1>6. CASE Reload
    BY <1>6, SubscriptionAssumption
       DEF Reload, TypeOK, ledger, Idle, NoReconciliation, CallRecords
  <1> QED BY <1>3, <1>4, <1>5, <1>6 DEF PageStep

LEMMA CallStepType ==
    ASSUME TypeOK, NEW c \in Calls, CallStep(c)
    PROVE  TypeOK'
  <1> USE CallFacts, CallsUpdate
  <1> DEFINE s == calls[c]
  <1>A. \A status \in {"confirmed", "indexing"}, tx \in 1 .. MaxTransactions :
            s.pc # "idle" =>
                [pc |-> "answered", context |-> s.context, action |-> s.action,
                 status |-> status, tx |-> tx] \in CallRecords
    BY DEF CallRecords
  <1>B. s.pc # "idle" =>
            [pc |-> "answered", context |-> s.context, action |-> s.action,
             status |-> "failed", tx |-> 0] \in CallRecords
    BY DEF CallRecords
  <1>C. ASSUME s.pc # "idle", Answer(c, "failed", 0)
        PROVE  calls' \in [Calls -> CallRecords]
    BY <1>B, <1>C DEF Answer
  <1>1. ASSUME NEW action \in AllActions, Perform(c, action)
        PROVE  TypeOK'
    <2>1. activeContext \in Contexts
      BY <1>1 DEF Perform, TypeOK
    <2>2. [pc |-> "requested", context |-> activeContext, action |-> action] \in CallRecords
      BY <2>1 DEF CallRecords
    <2>3. calls' \in [Calls -> CallRecords]
      BY <1>1, <2>2 DEF Perform
    <2> QED BY <1>1, <2>1, <2>3 DEF Perform, TypeOK, ledger, view
  <1>2. CASE WriteCheckFails(c)
    BY <1>2, <1>C DEF WriteCheckFails, TypeOK, ledger, view, guards
  <1>3. CASE Begin(c)
    <2>1. calls' \in [Calls -> CallRecords]
      <3>1. s.pc = "requested" => [s EXCEPT !.pc = "admitted"] \in CallRecords
        BY DEF CallRecords, Idle
      <3> QED BY <1>3, <1>C, <3>1 DEF Begin
    <2>2. inFlight' \subseteq Accounts
      BY <1>3 DEF Begin, TypeOK
    <2> QED BY <1>3, <2>1, <2>2 DEF Begin, TypeOK, ledger, view
  <1>4. CASE ReadCurrent(c)
    <2> DEFINE r == [pc |-> "drafted", context |-> s.context, action |-> s.action,
                     base |-> IF s.action = "create" THEN None
                              ELSE Record(s.context.account)]
    <2>1. s.action # "create" => Record(s.context.account) \in States
      BY <1>4, RecordType DEF ReadCurrent
    <2>2. r \in CallRecords
      <3>1. CASE s.action = "create"
        BY <1>4, <3>1 DEF ReadCurrent, CallRecords
      <3>2. CASE s.action # "create"
        BY <1>4, <2>1, <3>2 DEF ReadCurrent, CallRecords, AllActions
      <3> QED BY <3>1, <3>2
    <2>3. calls' = [calls EXCEPT ![c] = r]
      BY <1>4 DEF ReadCurrent
    <2>4. calls' \in [Calls -> CallRecords]
      BY <2>2, <2>3
    <2> QED BY <1>4, <2>4 DEF ReadCurrent, TypeOK, ledger, view, guards
  <1>5. CASE Review(c)
    <2> DEFINE r == [pc |-> "reviewed", context |-> s.context, action |-> s.action,
                     base |-> s.base, fresh |-> Fresh(c)]
    <2>1. s.pc = "drafted" /\ Fresh(c) = s.base /\ calls' = [calls EXCEPT ![c] = r]
      BY <1>5 DEF Review, Reviewed
    <2>2. r \in CallRecords
      <3>1. CASE s.action = "create"
        BY <2>1, <3>1 DEF Fresh, CallRecords
      <3>2. CASE s.action # "create"
        <4>1. s.base \in States /\ s.action \in Actions /\ s.context \in Contexts
          BY <2>1, <3>2, CallFacts DEF AllActions
        <4> HIDE DEF s
        <4> QED BY <2>1, <4>1 DEF CallRecords
      <3> QED BY <3>1, <3>2
    <2>3. calls' \in [Calls -> CallRecords]
      BY <2>1, <2>2, CallsUpdate
    <2> QED BY <1>5, <2>3 DEF Review, TypeOK, ledger, view, guards
  <1>6. CASE Submit(c)
    <2>1. txs' \in Seq(Transactions) /\ Len(txs') = Len(txs) + 1 /\ Len(txs) \in Nat
      BY <1>6, SignedType DEF Submit, TypeOK
    <2>2. Len(txs) + 1 \in 1 .. MaxTransactions
      BY <1>6, <2>1, SubscriptionAssumption DEF Submit
    <2>3. [pc |-> "submitted", context |-> s.context, action |-> s.action,
           tx |-> Len(txs) + 1] \in CallRecords
      BY <1>6, <2>2 DEF Submit, CallRecords
    <2>4. calls' \in [Calls -> CallRecords]
      BY <1>6, <2>3 DEF Submit
    <2> QED BY <1>6, <2>1, <2>2, <2>4 DEF Submit, TypeOK, view, guards
  <1>7. CASE SubmitLost(c)
    <2>1. txs' \in Seq(Transactions) /\ Len(txs') = Len(txs) + 1 /\ Len(txs) \in Nat
      BY <1>7, SignedType DEF SubmitLost, TypeOK
    <2>2. Len(txs) + 1 \in 1 .. MaxTransactions
      BY <1>7, <2>1, SubscriptionAssumption DEF SubmitLost
    <2> QED BY <1>7, <1>C, <2>1, <2>2 DEF SubmitLost, TypeOK, view
  <1>8. CASE Finalized(c)
    <2>1. s.pc = "submitted" => [s EXCEPT !.pc = "finalized"] \in CallRecords
      BY DEF CallRecords, Idle
    <2> QED BY <1>8, <2>1 DEF Finalized, TypeOK, ledger, view, guards
  <1>9. ASSUME NEW status \in {"confirmed", "indexing"}, Confirm(c, status)
        PROVE  TypeOK'
    <2>1. calls' \in [Calls -> CallRecords]
      BY <1>9, <1>A DEF Confirm, Answer
    <2>2. [action |-> s.action, tx |-> s.tx] \in Pendings
      BY <1>9 DEF Confirm, Pendings
    <2>3. pending' \in [Accounts -> Pendings \cup {None}]
      BY <1>9, <2>2 DEF Confirm, Remember, TypeOK
    <2> QED BY <1>9, <2>1, <2>3 DEF Confirm, TypeOK, ledger, view
  <1>10. CASE Fail(c)
    BY <1>10, <1>C DEF Fail, TypeOK, ledger, view
  <1>11. CASE Settle(c)
    <2>1. Idle \in CallRecords
      BY DEF CallRecords
    <2>2. calls' \in [Calls -> CallRecords]
      BY <1>11, <2>1 DEF Settle
    <2>3. s.status = "indexing" =>
              [context |-> s.context, action |-> s.action, tx |-> s.tx] \in StorePendings
      BY <1>11 DEF Settle, StorePendings
    <2>4. storePending' \subseteq StorePendings
      <3>1. s.status \in {"failed", "confirmed", "indexing"}
        BY <1>11 DEF Settle
      <3> QED BY <1>11, <2>3, <3>1 DEF Settle, TypeOK
    <2> QED BY <1>11, <2>2, <2>4 DEF Settle, TypeOK, ledger, view
  <1>12. CASE Observe(c)
    <2>1. s.pc = "finalized" => [s EXCEPT !.pc = "observed"] \in CallRecords
      BY DEF CallRecords, Idle
    <2> QED BY <1>12, <2>1 DEF Observe, TypeOK, ledger, view, guards
  <1> QED BY <1>1, <1>2, <1>3, <1>4, <1>5, <1>6, <1>7, <1>8, <1>9, <1>10, <1>11, <1>12
      DEF CallStep

LEMMA ReconcileType ==
    ASSUME TypeOK, ReconcileStep
    PROVE  TypeOK'
  <1> DEFINE Reconcilings == {NoReconciliation}
                 \cup [pc : {"requested", "reading", "observed", "confirmed", "refused"},
                       of : StorePendings]
  <1>1. /\ reconciling \in Reconcilings
        /\ \A x \in {"reading", "observed", "confirmed", "refused"} :
               reconciling.pc # "idle" => [reconciling EXCEPT !.pc = x] \in Reconcilings
    <2>1. reconciling \in Reconcilings
      BY DEF TypeOK
    <2>2. ASSUME reconciling.pc # "idle"
          PROVE  reconciling \in [pc : {"requested", "reading", "observed", "confirmed",
                                        "refused"}, of : StorePendings]
      BY <2>1, <2>2 DEF NoReconciliation
    <2> QED BY <2>1, <2>2
  <1>2. ASSUME NEW p \in storePending, Reconcile(p)
        PROVE  TypeOK'
    BY <1>2 DEF Reconcile, TypeOK, ledger, view, guards
  <1>3. CASE ReconcileLookup
    BY <1>1, <1>3 DEF ReconcileLookup, TypeOK, ledger, view, guards
  <1>4. CASE ReconcileRead
    BY <1>1, <1>4 DEF ReconcileRead, TypeOK, ledger, view, guards
  <1>5. CASE ReconcileFails
    BY <1>1, <1>5 DEF ReconcileFails, TypeOK, ledger, view, guards
  <1>6. CASE ReconcileSettles
    BY <1>6 DEF ReconcileSettles, TypeOK, ledger, view
  <1>7. CASE ReconcileConfirms
    <2>1. pending' \in [Accounts -> Pendings \cup {None}]
      BY <1>7 DEF ReconcileConfirms, TypeOK
    <2>2. reconciling' \in Reconcilings
      BY <1>1, <1>7 DEF ReconcileConfirms
    <2> QED BY <1>7, <2>1, <2>2 DEF ReconcileConfirms, TypeOK, ledger, view
  <1> QED BY <1>2, <1>3, <1>4, <1>5, <1>6, <1>7 DEF ReconcileStep

LEMMA StutterType ==
    ASSUME TypeOK, UNCHANGED vars
    PROVE  TypeOK'
  BY DEF TypeOK, vars, ledger, view, guards

\* Every variable keeps the shape that the store and the bridge give it.
THEOREM TypeCorrect == Spec => []TypeOK
  <1>1. TypeOK /\ [Next]_vars => TypeOK'
    BY NetworkType, PageType, CallStepType, ReconcileType, StutterType DEF Next
  <1> QED BY <1>1, InitType, PTL DEF Spec

------------------------------------------------------------------------------
(* The inductive invariant.  It holds while an inspection of the endpoint   *)
(* observes one identity: then the store's key and the bridge's key tell    *)
(* the same mutations apart, and no call is refused by the bridge for       *)
(* another one in flight.                                                   *)

Busy(c) == calls[c].pc # "idle"
Account(c) == calls[c].context.account

\* A call that has submitted its transaction and did not fail.
HasTx(c) ==
    \/ calls[c].pc \in {"submitted", "finalized", "observed"}
    \/ calls[c].pc = "answered" /\ calls[c].status # "failed"

\* The store's guard: one mutation of an account between click and answer.
SingleMutation ==
    /\ \A c \in Calls : Busy(c) =>
          /\ calls[c].context \in storeInFlight
          /\ activeContext \in Contexts
          /\ Account(c) = activeContext.account => calls[c].context = activeContext
          /\ \A p \in storePending : p.context # calls[c].context
    /\ \A c, d \in Calls : Busy(c) /\ Busy(d) /\ Account(c) = Account(d) => c = d

\* The bridge's guards: who is admitted is in flight, and nothing awaits indexing.
BridgeGuards ==
    /\ InFlightIsExact
    /\ \A c \in Calls : Admitted(c) => pending[Account(c)] = None

\* Every call and every record of the store is about a transaction of its own.
TransactionsDiffer ==
    /\ \A c \in Calls : HasTx(c) =>
          /\ calls[c].tx <= Len(txs)
          /\ \A p \in storePending : p.tx # calls[c].tx
          /\ \A d \in Calls : HasTx(d) /\ calls[d].tx = calls[c].tx => c = d
    /\ \A p \in storePending :
          /\ p.tx <= Len(txs)
          /\ \A q \in storePending : q.tx = p.tx => p = q

Indexing(c) == calls[c].pc = "answered" /\ calls[c].status = "indexing"

\* What the two sides remember, and the answers and reads between them.
RecordKnown(p) ==
    \/ pending[p.context.account] = [action |-> p.action, tx |-> p.tx]
    \/ reconciling.pc = "confirmed" /\ reconciling.of = p

PendingShown(a) ==
    \/ \E p \in storePending : p.context.account = a /\ p.tx = pending[a].tx
    \/ \E c \in Calls : Indexing(c) /\ Account(c) = a /\ calls[c].tx = pending[a].tx

ReadKnown ==
    reconciling.pc \in {"reading", "observed"} =>
        pending[reconciling.of.context.account]
            = [action |-> reconciling.of.action, tx |-> reconciling.of.tx]

ConfirmedForgotten ==
    reconciling.pc = "confirmed" =>
        \/ pending[reconciling.of.context.account] = None
        \/ pending[reconciling.of.context.account].tx # reconciling.of.tx

PendingsAgree ==
    /\ \A p \in storePending : RecordKnown(p)
    /\ \A a \in Accounts : pending[a] # None => PendingShown(a)
    /\ \A c \in Calls : Indexing(c) =>
          pending[Account(c)] = [action |-> calls[c].action, tx |-> calls[c].tx]
    /\ reconciling.pc # "idle" => reconciling.of \in storePending
    /\ ReadKnown
    /\ ConfirmedForgotten

LEMMA AgreeIsReconcilable == PendingsAgree => PendingIsReconcilable
  BY DEF PendingsAgree, PendingIsReconcilable, RecordKnown, PendingShown, Indexing, Account

Inv == SingleMutation /\ BridgeGuards /\ TransactionsDiffer /\ PendingsAgree

LEMMA InitInv == Init => Inv
  BY DEF Init, Inv, SingleMutation, BridgeGuards, TransactionsDiffer, PendingsAgree,
     InFlightIsExact, RecordKnown, PendingShown, ReadKnown, ConfirmedForgotten,
       Indexing, Busy, HasTx, Admitted, Idle, NoReconciliation

\* The ledger and the page's lists do not touch what the guards speak of.
LEMMA QuietInv ==
    ASSUME Inv, UNCHANGED <<activeContext, guards, reconciling, calls>>,
           Len(txs') = Len(txs)
    PROVE  Inv'
  BY DEF Inv, SingleMutation, BridgeGuards, TransactionsDiffer, PendingsAgree, guards,
     InFlightIsExact, RecordKnown, PendingShown, ReadKnown, ConfirmedForgotten,
       Indexing, Busy, Account, HasTx, Admitted

LEMMA NetworkInv ==
    ASSUME TypeOK, Inv, NetworkStep
    PROVE  Inv'
  <1>1. Len(txs') = Len(txs)
    BY DEF NetworkStep, Apply, Bill, Index, TypeOK
  <1>2. UNCHANGED <<activeContext, guards, reconciling, calls>>
    BY DEF NetworkStep, Apply, Bill, Index, view
  <1> QED BY <1>1, <1>2, QuietInv

LEMMA PageInv ==
    ASSUME TypeOK, Inv, PageStep, IdentityIsSteady
    PROVE  Inv'
  <1>1. ASSUME NEW x \in Contexts, Activate(x)
        PROVE  Inv'
    <2>1. UNCHANGED <<ledger, guards, reconciling, calls>> /\ activeContext' = x
      BY <1>1 DEF Activate
    <2>2. \A c \in Calls : Busy(c) => calls[c].context = x \/ Account(c) # x.account
      BY <1>1 DEF Activate, Idles, Busy, Account
    <2>3. SingleMutation'
      BY <2>1, <2>2 DEF Inv, SingleMutation, Busy, Account, guards
    <2>4. (BridgeGuards /\ TransactionsDiffer /\ PendingsAgree)'
      BY <2>1 DEF Inv, BridgeGuards, TransactionsDiffer, PendingsAgree, guards, ledger,
         InFlightIsExact, RecordKnown, PendingShown, ReadKnown, ConfirmedForgotten,
       Indexing, Account, HasTx, Admitted
    <2> QED BY <2>3, <2>4 DEF Inv
  <1>2. CASE Refresh
    BY <1>2, QuietInv DEF Refresh, ledger
  <1>3. ASSUME NEW r \in reads, NEW ok \in BOOLEAN, RefreshEnds(r, ok)
        PROVE  Inv'
    BY <1>3, QuietInv DEF RefreshEnds, ledger
  <1>4. CASE Reload
    BY <1>4 DEF Reload, Inv, SingleMutation, BridgeGuards, TransactionsDiffer,
       PendingsAgree, InFlightIsExact, RecordKnown, PendingShown, ReadKnown, ConfirmedForgotten,
       Indexing, Busy, HasTx, Admitted, Idle,
       NoReconciliation
  <1> QED BY <1>1, <1>2, <1>3, <1>4 DEF PageStep

\* Between its click and its answer a call stays busy in its own context, and
\* leaves the page, the store's guards and the other calls alone.
LEMMA Advances ==
    ASSUME TypeOK, NEW c \in Calls, CallStep(c), calls[c].pc # "idle", ~Settle(c)
    PROVE  /\ UNCHANGED <<activeContext, storeInFlight, storePending, reconciling>>
           /\ calls' = [calls EXCEPT ![c] = calls'[c]]
           /\ calls'[c].pc # "idle"
           /\ calls'[c].context = calls[c].context /\ calls'[c].action = calls[c].action
  <1> USE DEF view, guards
  <1>0. calls[c] \in CallRecords /\ DOMAIN calls = Calls
    BY CallFacts DEF TypeOK
  <1>1. CASE WriteCheckFails(c)
    BY <1>0, <1>1 DEF WriteCheckFails, Answer
  <1>2. CASE Begin(c)
    BY <1>0, <1>2 DEF Begin, Answer, CallRecords, Idle
  <1>3. CASE ReadCurrent(c)
    BY <1>0, <1>3 DEF ReadCurrent
  <1>4. CASE Review(c)
    BY <1>0, <1>4 DEF Review, Reviewed
  <1>5. CASE Submit(c)
    BY <1>0, <1>5 DEF Submit
  <1>6. CASE SubmitLost(c)
    BY <1>0, <1>6 DEF SubmitLost, Answer
  <1>7. CASE Finalized(c)
    BY <1>0, <1>7 DEF Finalized, CallRecords, Idle
  <1>8. ASSUME NEW status \in {"confirmed", "indexing"}, Confirm(c, status)
        PROVE  /\ UNCHANGED <<activeContext, storeInFlight, storePending, reconciling>>
               /\ calls' = [calls EXCEPT ![c] = calls'[c]]
               /\ calls'[c].pc # "idle"
               /\ calls'[c].context = calls[c].context
               /\ calls'[c].action = calls[c].action
    BY <1>0, <1>8 DEF Confirm, Answer
  <1>9. CASE Fail(c)
    BY <1>0, <1>9 DEF Fail, Answer
  <1>10. CASE Observe(c)
    BY <1>0, <1>10 DEF Observe, CallRecords, Idle
  <1> QED BY <1>1, <1>2, <1>3, <1>4, <1>5, <1>6, <1>7, <1>8, <1>9, <1>10
      DEF CallStep, Perform

LEMMA CallSingle ==
    ASSUME TypeOK, Inv, NEW c \in Calls, CallStep(c)
    PROVE  SingleMutation'
  <1>0. SingleMutation /\ calls \in [Calls -> CallRecords]
    BY DEF Inv, TypeOK
  <1>1. ASSUME NEW action \in AllActions, Perform(c, action)
        PROVE  SingleMutation'
    <2>1. activeContext \in Contexts /\ activeContext \notin storeInFlight
      BY <1>1 DEF Perform, TypeOK
    <2>2. \A d \in Calls : Busy(d) => Account(d) # activeContext.account
      BY <1>0, <2>1 DEF SingleMutation
    <2>3. \A d \in Calls : d # c => calls'[d] = calls[d]
      BY <1>0, <1>1 DEF Perform
    <2>4. calls'[c].context = activeContext
      BY <1>0, <1>1 DEF Perform
    <2>5. activeContext' = activeContext /\ storePending' = storePending
          /\ storeInFlight' = storeInFlight \cup {activeContext}
      BY <1>1 DEF Perform, view
    <2>6. \A p \in storePending : p.context # activeContext
      BY <1>1 DEF Perform
    <2> QED BY <1>0, <2>1, <2>2, <2>3, <2>4, <2>5, <2>6 DEF SingleMutation, Busy, Account
  <1>2. CASE Settle(c)
    <2>1. calls' = [calls EXCEPT ![c] = Idle] /\ activeContext' = activeContext
          /\ storeInFlight' = storeInFlight \ {calls[c].context} /\ Busy(c)
      BY <1>2 DEF Settle, view, Busy
    <2>2. \A d \in Calls : Busy(d)' => Busy(d) /\ d # c /\ calls'[d] = calls[d]
      BY <1>0, <2>1 DEF Busy, Idle
    <2>3. \A d \in Calls : Busy(d) /\ d # c => calls[d].context # calls[c].context
      BY <1>0, <2>1 DEF SingleMutation, Account
    <2>4. \A p \in storePending' : p \in storePending \/ p.context = calls[c].context
      BY <1>2, CallFacts DEF Settle
    <2> QED BY <1>0, <2>1, <2>2, <2>3, <2>4 DEF SingleMutation, Account
  <1>3. CASE Busy(c) /\ ~Settle(c)
    <2>1. \A d \in Calls : /\ Busy(d)' = Busy(d)
                           /\ calls'[d].context = calls[d].context
      BY <1>0, <1>3, Advances DEF Busy
    <2> QED BY <1>0, <1>3, <2>1, Advances DEF SingleMutation, Account, Busy
  <1> QED BY <1>1, <1>2, <1>3 DEF CallStep, Busy, WriteCheckFails, Begin, ReadCurrent,
         Review, Submit, SubmitLost, Finalized, Observe, Confirm, Fail

LEMMA CallGuards ==
    ASSUME TypeOK, Inv, NEW c \in Calls, CallStep(c)
    PROVE  BridgeGuards'
  <1> DEFINE a == Account(c)
             Same == \A d \in Calls : d # c => calls'[d] = calls[d]
  <1>0. /\ BridgeGuards /\ calls \in [Calls -> CallRecords]
        /\ inFlight = {Account(d) : d \in {e \in Calls : Admitted(e)}}
        /\ \A d \in Calls : Admitted(d) => Busy(d)
    BY DEF Inv, TypeOK, BridgeGuards, InFlightIsExact, Account, Admitted, Busy
  <1>1. \A d \in Calls : Busy(c) /\ Admitted(d) /\ Account(d) = a => d = c
    BY <1>0 DEF Inv, SingleMutation
  \* A step between two stages of an admitted call, or of one not admitted.
  <1>2. ASSUME Same, UNCHANGED <<inFlight, pending>>, Admitted(c)' = Admitted(c),
               calls'[c].context = calls[c].context \/ ~Admitted(c)
        PROVE  BridgeGuards'
    BY <1>0, <1>2 DEF BridgeGuards, InFlightIsExact, Admitted, Account
  \* A step that ends an admitted call.
  <1>3. ASSUME Same, Admitted(c), inFlight' = inFlight \ {a}, calls'[c].pc = "answered",
               \A b \in Accounts : pending'[b] = pending[b] \/ b = a
        PROVE  BridgeGuards'
    <2>1. \A d \in Calls : Admitted(d)' <=> Admitted(d) /\ d # c
      BY <1>3 DEF Admitted
    <2>2. \A d \in Calls : Admitted(d)' => Account(d)' = Account(d) /\ Account(d) # a
      BY <1>0, <1>1, <1>3, <2>1 DEF Account
    <2>3. \A d \in Calls : Admitted(d) => Account(d) \in Accounts
      BY <1>0, CallFacts DEF Account, Admitted
    <2>4. InFlightIsExact'
      BY <1>0, <1>3, <2>1, <2>2 DEF InFlightIsExact, Account
    <2>5. \A d \in Calls : Admitted(d)' => pending'[Account(d)'] = None
      BY <1>0, <1>3, <2>1, <2>2, <2>3 DEF BridgeGuards
    <2> QED BY <2>4, <2>5 DEF BridgeGuards, Account
  <1>4. ASSUME NEW action \in AllActions, Perform(c, action)
        PROVE  BridgeGuards'
    BY <1>0, <1>2, <1>4 DEF Perform, Admitted
  <1>5. CASE WriteCheckFails(c)
    BY <1>0, <1>2, <1>5 DEF WriteCheckFails, Answer, Admitted, guards
  <1>6. CASE Begin(c)
    <2>1. CASE pending[a] = None /\ a \notin inFlight
      <3>1. inFlight' = inFlight \cup {a} /\ pending' = pending /\ Same
            /\ calls'[c].pc = "admitted" /\ calls'[c].context = calls[c].context
        BY <1>0, <1>6, <2>1, CallFacts DEF Begin, Account, CallRecords, Idle
      <3>2. \A d \in Calls : Account(d)' = Account(d) /\ (Admitted(d)' <=> Admitted(d) \/ d = c)
        BY <3>1 DEF Account, Admitted
      <3> QED BY <1>0, <2>1, <3>1, <3>2 DEF BridgeGuards, InFlightIsExact, Account
    <2>2. CASE pending[a] # None \/ a \in inFlight
      <3>1. inFlight' = inFlight \ {a} /\ pending' = pending /\ Same
            /\ calls'[c].pc = "answered" /\ Busy(c) /\ ~Admitted(c)
        BY <1>0, <1>6, <2>2 DEF Begin, Answer, Account, Busy, Admitted
      <3>2. a \notin inFlight
        BY <1>0, <1>1, <2>2, <3>1 DEF BridgeGuards
      <3> QED BY <1>0, <1>2, <3>1, <3>2 DEF Admitted
    <2> QED BY <2>1, <2>2
  <1>7. CASE ReadCurrent(c)
    BY <1>0, <1>2, <1>7 DEF ReadCurrent, Admitted, guards
  <1>8. CASE Review(c)
    BY <1>0, <1>2, <1>8 DEF Review, Reviewed, Admitted, guards
  <1>9. CASE Submit(c)
    BY <1>0, <1>2, <1>9 DEF Submit, Admitted, guards
  <1>10. CASE SubmitLost(c)
    BY <1>0, <1>3, <1>10 DEF SubmitLost, Answer, Admitted, Account
  <1>11. CASE Finalized(c)
    BY <1>0, <1>2, <1>11, CallFacts DEF Finalized, Admitted, guards, CallRecords, Idle
  <1>12. ASSUME NEW status \in {"confirmed", "indexing"}, Confirm(c, status)
         PROVE  BridgeGuards'
    BY <1>0, <1>3, <1>12 DEF Confirm, Answer, Remember, Admitted, Account, TypeOK
  <1>13. CASE Fail(c)
    BY <1>0, <1>3, <1>13 DEF Fail, Answer, Admitted, Account
  <1>14. CASE Settle(c)
    BY <1>0, <1>2, <1>14 DEF Settle, Admitted, Idle
  <1>15. CASE Observe(c)
    BY <1>0, <1>2, <1>15, CallFacts DEF Observe, Admitted, guards, CallRecords, Idle
  <1> QED BY <1>4, <1>5, <1>6, <1>7, <1>8, <1>9, <1>10, <1>11, <1>12, <1>13, <1>14, <1>15
      DEF CallStep

LEMMA CallTransactions ==
    ASSUME TypeOK, Inv, NEW c \in Calls, CallStep(c)
    PROVE  TransactionsDiffer'
  <1> DEFINE Same == \A d \in Calls : d # c => calls'[d] = calls[d]
  <1>0. /\ TransactionsDiffer /\ calls \in [Calls -> CallRecords] /\ Len(txs) \in Nat
        /\ \A d \in Calls : HasTx(d) => calls[d].tx \in Nat
        /\ \A p \in storePending : p.tx \in Nat
    BY CallFacts DEF Inv, TypeOK, HasTx, StorePendings
  \* A step that gives the call no transaction it did not have.
  <1>1. ASSUME Same, UNCHANGED storePending, Len(txs') \in Nat, Len(txs) <= Len(txs'),
               HasTx(c)' => HasTx(c) /\ calls'[c].tx = calls[c].tx
        PROVE  TransactionsDiffer'
    <2>1. \A d \in Calls : HasTx(d)' => HasTx(d) /\ calls'[d].tx = calls[d].tx
      BY <1>1 DEF HasTx
    <2> QED BY <1>0, <1>1, <2>1 DEF TransactionsDiffer
  <1>2. ASSUME NEW action \in AllActions, Perform(c, action)
        PROVE  TransactionsDiffer'
    BY <1>0, <1>1, <1>2 DEF Perform, ledger, HasTx
  <1>3. CASE WriteCheckFails(c)
    BY <1>0, <1>1, <1>3 DEF WriteCheckFails, Answer, ledger, guards, HasTx
  <1>4. CASE Begin(c)
    BY <1>0, <1>1, <1>4, CallFacts DEF Begin, Answer, ledger, HasTx, CallRecords, Idle
  <1>5. CASE ReadCurrent(c)
    BY <1>0, <1>1, <1>5 DEF ReadCurrent, ledger, guards, HasTx
  <1>6. CASE Review(c)
    BY <1>0, <1>1, <1>6 DEF Review, Reviewed, ledger, guards, HasTx
  <1>7. CASE Submit(c)
    <2>1. txs \in Seq(Transactions) /\ Signed(c) \in Transactions
      BY <1>7, SignedType DEF Submit, TypeOK
    <2>2. Len(txs') = Len(txs) + 1
      BY <1>7, <2>1 DEF Submit
    <2>3. Same /\ storePending' = storePending /\ calls'[c].tx = Len(txs) + 1
      BY <1>0, <1>7 DEF Submit, guards
    <2>4. \A d \in Calls : d # c =>
              /\ HasTx(d)' = HasTx(d) /\ calls'[d].tx = calls[d].tx
              /\ HasTx(d) => calls[d].tx <= Len(txs)
      BY <1>0, <2>3 DEF HasTx, TransactionsDiffer
    <2> QED BY <1>0, <2>2, <2>3, <2>4 DEF TransactionsDiffer
  <1>8. CASE SubmitLost(c)
    <2>1. txs \in Seq(Transactions) /\ Signed(c) \in Transactions
      BY <1>8, SignedType DEF SubmitLost, TypeOK
    <2>2. Len(txs') = Len(txs) + 1
      BY <1>8, <2>1 DEF SubmitLost
    <2> QED BY <1>0, <1>1, <1>8, <2>2 DEF SubmitLost, Answer, HasTx
  <1>9. CASE Finalized(c)
    BY <1>0, <1>1, <1>9, CallFacts DEF Finalized, ledger, guards, HasTx, CallRecords, Idle
  <1>10. ASSUME NEW status \in {"confirmed", "indexing"}, Confirm(c, status)
         PROVE  TransactionsDiffer'
    BY <1>0, <1>1, <1>10 DEF Confirm, Answer, ledger, HasTx
  <1>11. CASE Fail(c)
    BY <1>0, <1>1, <1>11 DEF Fail, Answer, ledger, HasTx
  <1>12. CASE Settle(c)
    <2>1. Same /\ ~HasTx(c)' /\ txs' = txs
      BY <1>0, <1>12 DEF Settle, HasTx, Idle, ledger
    <2>2. \A d \in Calls : HasTx(d)' => HasTx(d) /\ d # c /\ calls'[d].tx = calls[d].tx
      BY <2>1 DEF HasTx
    <2>3. \A p \in storePending' :
              p \in storePending \/ /\ HasTx(c)
                                    /\ p = [context |-> calls[c].context,
                                            action |-> calls[c].action,
                                            tx |-> calls[c].tx]
      BY <1>12, CallFacts DEF Settle, HasTx
    <2> QED BY <1>0, <2>1, <2>2, <2>3 DEF TransactionsDiffer
  <1>13. CASE Observe(c)
    BY <1>0, <1>1, <1>13, CallFacts DEF Observe, ledger, guards, HasTx, CallRecords, Idle
  <1> QED BY <1>2, <1>3, <1>4, <1>5, <1>6, <1>7, <1>8, <1>9, <1>10, <1>11, <1>12, <1>13
      DEF CallStep

LEMMA CallPendings ==
    ASSUME TypeOK, Inv, NEW c \in Calls, CallStep(c)
    PROVE  PendingsAgree'
  <1> DEFINE a == Account(c)
             Same == \A d \in Calls : d # c => calls'[d] = calls[d]
  <1>0. PendingsAgree /\ calls \in [Calls -> CallRecords]
    BY DEF Inv, TypeOK
  \* A step that remembers and forgets nothing.
  <1>1. ASSUME Same, UNCHANGED <<storePending, pending, reconciling>>,
               ~Indexing(c), ~Indexing(c)'
        PROVE  PendingsAgree'
    <2>1. \A d \in Calls : (Indexing(d) \/ Indexing(d)') => calls'[d] = calls[d]
      BY <1>1
    <2>2. \A d \in Calls : Indexing(d)' = Indexing(d)
      BY <1>1, <2>1 DEF Indexing
    <2>3. \A b \in Accounts : pending[b] # None => PendingShown(b)'
      BY <1>0, <1>1, <2>1, <2>2 DEF PendingsAgree, PendingShown, Account
    <2>4. \A d \in Calls : Indexing(d)' =>
              pending'[Account(d)'] = [action |-> calls'[d].action, tx |-> calls'[d].tx]
      BY <1>0, <1>1, <2>1, <2>2 DEF PendingsAgree, Account
    <2> QED BY <1>0, <1>1, <2>3, <2>4
            DEF PendingsAgree, RecordKnown, ReadKnown, ConfirmedForgotten
  <1>2. ASSUME NEW action \in AllActions, Perform(c, action)
        PROVE  PendingsAgree'
    BY <1>0, <1>1, <1>2 DEF Perform, Indexing
  <1>3. CASE WriteCheckFails(c)
    BY <1>0, <1>1, <1>3 DEF WriteCheckFails, Answer, guards, Indexing
  <1>4. CASE Begin(c)
    BY <1>0, <1>1, <1>4, CallFacts DEF Begin, Answer, CallRecords, Idle, Indexing
  <1>5. CASE ReadCurrent(c)
    BY <1>0, <1>1, <1>5 DEF ReadCurrent, guards, Indexing
  <1>6. CASE Review(c)
    BY <1>0, <1>1, <1>6 DEF Review, Reviewed, guards, Indexing
  <1>7. CASE Submit(c)
    BY <1>0, <1>1, <1>7 DEF Submit, guards, Indexing
  <1>8. CASE SubmitLost(c)
    BY <1>0, <1>1, <1>8 DEF SubmitLost, Answer, Indexing
  <1>9. CASE Finalized(c)
    BY <1>0, <1>1, <1>9, CallFacts DEF Finalized, guards, CallRecords, Idle, Indexing
  <1>10. ASSUME NEW status \in {"confirmed", "indexing"}, Confirm(c, status)
         PROVE  PendingsAgree'
    <2> DEFINE p == [action |-> calls[c].action, tx |-> calls[c].tx]
    <2>1. /\ Same /\ UNCHANGED <<storePending, reconciling>>
          /\ calls'[c] = [pc |-> "answered", context |-> calls[c].context,
                          action |-> calls[c].action, status |-> status,
                          tx |-> calls[c].tx]
          /\ pending' = [pending EXCEPT ![a] = IF status = "indexing" THEN p ELSE None]
      BY <1>0, <1>10 DEF Confirm, Answer, Remember, Account
    <2>2. a \in Accounts /\ pending[a] = None /\ HasTx(c) /\ Busy(c)
      BY <1>10, CallFacts DEF Inv, BridgeGuards, Confirm, Admitted, Account, HasTx, Busy
    <2>3. \A d \in Calls : d # c /\ Busy(d) => Account(d) # a
      BY <2>2 DEF Inv, SingleMutation
    <2>4. \A q \in storePending : /\ q.tx # calls[c].tx
                                  /\ q.context.account \in Accounts
                                  /\ [action |-> q.action, tx |-> q.tx] \in Pendings
      BY <2>2 DEF Inv, TransactionsDiffer, TypeOK, StorePendings, Contexts, Pendings
    <2>5. /\ \A b \in Accounts : b # a => pending'[b] = pending[b]
          /\ pending'[a] = IF status = "indexing" THEN p ELSE None
      BY <2>1, <2>2 DEF TypeOK
    <2>6. \A q \in storePending : [action |-> q.action, tx |-> q.tx] # None
      BY <2>4, SubscriptionAssumption, Zenon
    <2>7. \A q \in storePending : q.context.account = a =>
              reconciling.pc = "confirmed" /\ reconciling.of = q
      BY <1>0, <2>2, <2>6 DEF PendingsAgree, RecordKnown
    <2>8. /\ ~Indexing(c) /\ Account(c)' = a
          /\ reconciling.pc # "idle" => reconciling.of \in storePending
      BY <1>0, <1>10, <2>1 DEF Confirm, PendingsAgree, Account, Indexing
    <2>9. \A q \in storePending' : RecordKnown(q)'
      <3>1. \A q \in storePending : RecordKnown(q)
        BY <1>0 DEF PendingsAgree
      <3> QED BY <2>1, <2>4, <2>5, <2>7, <3>1 DEF RecordKnown
    <2>10. ASSUME NEW b \in Accounts, pending'[b] # None
           PROVE  PendingShown(b)'
      <3>1. CASE b = a
        <4>1. Indexing(c)' /\ calls'[c].tx = pending'[a].tx
          BY <2>1, <2>5, <2>10, <3>1 DEF Indexing
        <4> QED BY <2>8, <3>1, <4>1 DEF PendingShown
      <3>2. CASE b # a
        <4>1. pending[b] = pending'[b] /\ PendingShown(b)
          BY <1>0, <2>5, <2>10, <3>2 DEF PendingsAgree
        <4>2. ASSUME NEW d \in Calls, Indexing(d), Account(d) = b,
                     calls[d].tx = pending[b].tx
              PROVE  Indexing(d)' /\ Account(d)' = b /\ calls'[d].tx = pending'[b].tx
          BY <2>1, <3>2, <4>1, <4>2 DEF Indexing, Account
        <4> QED BY <2>1, <4>1, <4>2 DEF PendingShown
      <3> QED BY <3>1, <3>2
    <2>11. ASSUME NEW d \in Calls, Indexing(d)'
           PROVE  pending'[Account(d)'] = [action |-> calls'[d].action, tx |-> calls'[d].tx]
      <3>1. CASE d = c
        BY <2>1, <2>5, <2>8, <2>11, <3>1 DEF Indexing
      <3>2. CASE d # c
        <4>1. /\ Indexing(d) /\ Account(d)' = Account(d) /\ Account(d) # a
              /\ Account(d) \in Accounts
          BY <2>1, <2>3, <2>11, <3>2, CallFacts DEF Account, Busy, Indexing
        <4>2. pending[Account(d)] = [action |-> calls[d].action, tx |-> calls[d].tx]
          BY <1>0, <4>1 DEF PendingsAgree
        <4> QED BY <2>1, <2>5, <3>2, <4>1, <4>2
      <3> QED BY <3>1, <3>2
    <2>12. ReadKnown'
      BY <1>0, <2>1, <2>4, <2>5, <2>7, <2>8 DEF PendingsAgree, ReadKnown
    <2>13. ConfirmedForgotten'
      <3>1. CASE reconciling.pc = "confirmed" /\ reconciling.of.context.account = a
        <4>1. pending'[a] = None \/ pending'[a] = p
          BY <2>5
        <4>2. p.tx = calls[c].tx /\ reconciling.of.tx # calls[c].tx
          BY <2>4, <2>8, <3>1
        <4> QED BY <2>1, <3>1, <4>1, <4>2 DEF ConfirmedForgotten
      <3>2. CASE reconciling.pc = "confirmed" /\ reconciling.of.context.account # a
        BY <1>0, <2>1, <2>4, <2>5, <2>8, <3>2 DEF PendingsAgree, ConfirmedForgotten
      <3> QED BY <2>1, <3>1, <3>2 DEF ConfirmedForgotten
    <2> QED BY <2>1, <2>8, <2>9, <2>10, <2>11, <2>12, <2>13 DEF PendingsAgree
  <1>11. CASE Fail(c)
    BY <1>0, <1>1, <1>11 DEF Fail, Answer, Indexing
  <1>12. CASE Settle(c)
    <2> DEFINE p == [context |-> calls[c].context, action |-> calls[c].action,
                     tx |-> calls[c].tx]
    <2>1. Same /\ UNCHANGED <<pending, reconciling>> /\ ~Indexing(c)' /\ Busy(c)
      BY <1>0, <1>12 DEF Settle, Idle, Busy, Indexing
    <2>2. \A q \in storePending : q.context # calls[c].context
      BY <2>1 DEF Inv, SingleMutation
    <2>3. storePending' = storePending \cup (IF Indexing(c) THEN {p} ELSE {})
      BY <1>12, <2>2, CallFacts DEF Settle, Indexing
    <2>4. Indexing(c) => RecordKnown(p) /\ p.context.account = a
      BY <1>0 DEF PendingsAgree, Account, RecordKnown
    <2>5. \A d \in Calls : Indexing(d)' => d # c /\ Indexing(d) /\ calls'[d] = calls[d]
      BY <2>1 DEF Indexing
    <2>6. \A q \in storePending' : RecordKnown(q)'
      <3>1. \A q \in storePending' : RecordKnown(q)
        BY <1>0, <2>3, <2>4 DEF PendingsAgree
      <3> QED BY <2>1, <3>1 DEF RecordKnown
    <2>7. ASSUME NEW b \in Accounts, pending[b] # None
          PROVE  PendingShown(b)'
      <3>1. PendingShown(b)
        BY <1>0, <2>7 DEF PendingsAgree
      <3>2. CASE \E q \in storePending : q.context.account = b /\ q.tx = pending[b].tx
        BY <2>1, <2>3, <3>2 DEF PendingShown
      <3>3. ASSUME NEW d \in Calls, Indexing(d), Account(d) = b,
                   calls[d].tx = pending[b].tx
            PROVE  PendingShown(b)'
        <4>1. CASE d = c
          BY <2>1, <2>3, <2>4, <3>3, <4>1 DEF PendingShown
        <4>2. CASE d # c
          BY <2>1, <3>3, <4>2 DEF PendingShown, Indexing, Account
        <4> QED BY <4>1, <4>2
      <3> QED BY <3>1, <3>2, <3>3 DEF PendingShown
    <2>8. \A d \in Calls : Indexing(d)' =>
              pending'[Account(d)'] = [action |-> calls'[d].action, tx |-> calls'[d].tx]
      BY <1>0, <2>1, <2>5 DEF PendingsAgree, Account
    <2>9. /\ reconciling'.pc # "idle" => reconciling'.of \in storePending'
          /\ ReadKnown' /\ ConfirmedForgotten'
      BY <1>0, <2>1, <2>3 DEF PendingsAgree, ReadKnown, ConfirmedForgotten
    <2> QED BY <2>1, <2>6, <2>7, <2>8, <2>9 DEF PendingsAgree
  <1>13. CASE Observe(c)
    BY <1>0, <1>1, <1>13, CallFacts DEF Observe, guards, CallRecords, Idle, Indexing
  <1> QED BY <1>2, <1>3, <1>4, <1>5, <1>6, <1>7, <1>8, <1>9, <1>10, <1>11, <1>12, <1>13
      DEF CallStep

\* A reconciliation touches neither the mutations nor the guards that admit them.
LEMMA ReconcileInv ==
    ASSUME TypeOK, Inv, ReconcileStep
    PROVE  Inv'
  <1> USE DEF view, guards, ledger
  <1> DEFINE of == reconciling.of
             a == of.context.account
  <1>0. /\ PendingsAgree /\ NoReconciliation.pc = "idle"
        /\ UNCHANGED <<calls, activeContext, storeInFlight, inFlight, txs>>
        /\ storePending' \subseteq storePending
    BY DEF Inv, NoReconciliation, ReconcileStep, Reconcile, ReconcileLookup, ReconcileRead,
       ReconcileConfirms, ReconcileFails, ReconcileSettles
  <1>1. SingleMutation' /\ TransactionsDiffer'
    BY <1>0 DEF Inv, SingleMutation, TransactionsDiffer, Busy, Account, HasTx
  <1>2. ASSUME \A b \in Accounts : pending'[b] = pending[b] \/ pending'[b] = None
        PROVE  BridgeGuards'
    <2>1. \A c \in Calls : Admitted(c) => Account(c) \in Accounts /\ pending[Account(c)] = None
      BY CallFacts DEF Inv, BridgeGuards, Admitted, Account
    <2> QED BY <1>0, <1>2, <2>1 DEF Inv, BridgeGuards, InFlightIsExact, Admitted, Account
  <1>3. \A c \in Calls : /\ Indexing(c)' <=> Indexing(c)
                          /\ Account(c)' = Account(c)
                         /\ Indexing(c) => Account(c) \in Accounts
   <2>1. calls' = calls
      BY <1>0
    <2>2. ASSUME NEW c \in Calls, Indexing(c)
          PROVE  Account(c) \in Accounts
      BY <2>2, CallFacts DEF Indexing, Account
    <2> QED BY <2>1, <2>2 DEF Indexing, Account
  \* A step of the reconciliation that changes no record.
  <1>4. ASSUME UNCHANGED <<pending, storePending>>,
               reconciling'.pc # "idle" => reconciling'.of \in storePending,
               reconciling.pc # "confirmed", reconciling'.pc # "confirmed", ReadKnown'
        PROVE  PendingsAgree'
    <2>1. \A b \in Accounts : PendingShown(b)' <=> PendingShown(b)
      BY <1>0, <1>4 DEF PendingShown, Indexing, Account
    <2> QED BY <1>0, <1>3, <1>4, <2>1 DEF PendingsAgree, RecordKnown, ConfirmedForgotten
  <1>5. ASSUME NEW p \in storePending, Reconcile(p)
        PROVE  PendingsAgree' /\ pending' = pending
    BY <1>4, <1>5 DEF Reconcile, ReadKnown
  <1>6. ASSUME ReconcileLookup
        PROVE  PendingsAgree'
    <2>1. /\ of \in storePending /\ reconciling.pc = "requested"
          /\ UNCHANGED <<pending, storePending>> /\ reconciling'.of = of
          /\ \/ /\ reconciling'.pc = "reading"
                /\ pending[a] = [action |-> of.action, tx |-> of.tx]
             \/ reconciling'.pc = "refused"
      BY <1>0, <1>6 DEF ReconcileLookup, PendingsAgree, TypeOK, NoReconciliation
    <2>2. ReadKnown'
      BY <2>1 DEF ReadKnown
    <2> QED BY <1>4, <2>1, <2>2
  <1>7. ASSUME ReconcileFails
        PROVE  PendingsAgree'
    <2>1. /\ of \in storePending /\ reconciling.pc \in {"requested", "reading", "observed"}
          /\ UNCHANGED <<pending, storePending>> /\ reconciling'.of = of
          /\ reconciling'.pc = "refused"
      BY <1>0, <1>7 DEF ReconcileFails, PendingsAgree, TypeOK, NoReconciliation
    <2>2. ReadKnown'
      BY <2>1 DEF ReadKnown
    <2> QED BY <1>4, <2>1, <2>2
  <1>8. ASSUME ReconcileRead
        PROVE  PendingsAgree'
    <2>1. /\ of \in storePending /\ reconciling.pc = "reading"
          /\ UNCHANGED <<pending, storePending>> /\ reconciling'.of = of
          /\ reconciling'.pc \in {"observed", "refused"}
      BY <1>0, <1>8 DEF ReconcileRead, PendingsAgree, TypeOK, NoReconciliation
    <2>2. ReadKnown'
      BY <1>0, <2>1 DEF PendingsAgree, ReadKnown
    <2> QED BY <1>4, <2>1, <2>2
  <1>9. CASE ReconcileConfirms
    <2>1. /\ of \in storePending /\ a \in Accounts
          /\ pending[a] = [action |-> of.action, tx |-> of.tx]
          /\ storePending' = storePending /\ reconciling.pc = "observed"
          /\ reconciling'.of = of /\ reconciling'.pc = "confirmed"
      BY <1>0, <1>9 DEF ReconcileConfirms, PendingsAgree, ReadKnown, TypeOK, StorePendings,
         Contexts, NoReconciliation
    <2>2. /\ pending'[a] = None
          /\ \A b \in Accounts : b # a => pending'[b] = pending[b]
      BY <1>9, <2>1 DEF ReconcileConfirms, TypeOK
    <2>3. \A q \in storePending : q.context.account = a => q = of
      <3>1. ASSUME NEW q \in storePending, q.context.account = a
            PROVE  q.tx = of.tx
        <4>1. pending[a] = [action |-> q.action, tx |-> q.tx]
          BY <1>0, <2>1, <3>1 DEF PendingsAgree, RecordKnown
        <4>2. pending[a].tx = q.tx /\ pending[a].tx = of.tx
          BY <2>1, <4>1
        <4> QED BY <4>2
      <3> QED BY <2>1, <3>1 DEF Inv, TransactionsDiffer
    <2>4. \A c \in Calls : Indexing(c) => Account(c) # a
      <3>1. \A c \in Calls : Indexing(c) => calls[c].tx # of.tx
        BY <2>1 DEF Inv, TransactionsDiffer, HasTx, Indexing
      <3>2. ASSUME NEW c \in Calls, Indexing(c)
            PROVE  pending[Account(c)].tx = calls[c].tx
        <4>1. pending[Account(c)] = [action |-> calls[c].action, tx |-> calls[c].tx]
          BY <1>0, <3>2 DEF PendingsAgree
        <4> QED BY <4>1
      <3> QED BY <2>1, <3>1, <3>2
    <2>5. \A q \in storePending : q.context.account \in Accounts
      BY DEF TypeOK, StorePendings, Contexts
    <2>6. \A q \in storePending : RecordKnown(q)'
      BY <1>0, <2>1, <2>2, <2>3, <2>5 DEF PendingsAgree, RecordKnown
    <2>7. \A b \in Accounts : pending'[b] # None => PendingShown(b)'
      <3>1. \A b \in Accounts : b # a => (PendingShown(b)' <=> PendingShown(b))
        BY <1>0, <2>1, <2>2 DEF PendingShown, Indexing, Account
      <3> QED BY <1>0, <2>2, <3>1 DEF PendingsAgree
    <2>8. PendingsAgree'
      BY <1>0, <1>3, <2>1, <2>2, <2>4, <2>6, <2>7
         DEF PendingsAgree, ReadKnown, ConfirmedForgotten
    <2>9. \A b \in Accounts : pending'[b] = pending[b] \/ pending'[b] = None
      BY <2>2
    <2> QED BY <1>1, <1>2, <2>8, <2>9 DEF Inv
  <1>10. CASE ReconcileSettles
    <2>1. /\ pending' = pending /\ reconciling'.pc = "idle"
          /\ storePending' = IF reconciling.pc = "confirmed" THEN storePending \ {of}
                             ELSE storePending
      BY <1>0, <1>10 DEF ReconcileSettles
    <2>2. \A q \in storePending' : RecordKnown(q)'
      BY <1>0, <2>1 DEF PendingsAgree, RecordKnown
    <2>3. ASSUME NEW b \in Accounts, pending[b] # None
          PROVE  PendingShown(b)'
      <3>1. \A q \in storePending :
                q.context.account = b /\ q.tx = pending[b].tx => q \in storePending'
        BY <1>0, <2>1, <2>3 DEF PendingsAgree, ConfirmedForgotten
      <3>2. PendingShown(b)
        BY <1>0, <2>3 DEF PendingsAgree
      <3> QED BY <1>0, <2>1, <3>1, <3>2 DEF PendingShown, Indexing, Account
    <2> QED BY <1>0, <1>1, <1>2, <1>3, <2>1, <2>2, <2>3
            DEF Inv, PendingsAgree, ReadKnown, ConfirmedForgotten
  <1>11. CASE \E p \in storePending : Reconcile(p)
    BY <1>1, <1>2, <1>5, <1>11 DEF Inv
  <1>12. CASE ReconcileLookup \/ ReconcileFails \/ ReconcileRead
    BY <1>1, <1>2, <1>6, <1>7, <1>8, <1>12
       DEF Inv, ReconcileLookup, ReconcileFails, ReconcileRead
  <1> QED BY <1>9, <1>10, <1>11, <1>12 DEF ReconcileStep

LEMMA CallInv ==
    ASSUME TypeOK, Inv, NEW c \in Calls, CallStep(c)
    PROVE  Inv'
  BY CallSingle, CallGuards, CallTransactions, CallPendings DEF Inv

LEMMA Inductive ==
    ASSUME IdentityIsSteady
    PROVE  Spec => []Inv
  <1>1. TypeOK /\ Inv /\ [Next]_vars => Inv'
    <2>1. TypeOK /\ Inv /\ UNCHANGED vars => Inv'
      BY QuietInv DEF vars, view, ledger
    <2> QED BY <2>1, NetworkInv, PageInv, CallInv, ReconcileInv DEF Next
  <1> QED BY <1>1, InitInv, TypeCorrect, PTL DEF Spec

------------------------------------------------------------------------------
(* The properties.                                                         *)

\* While the endpoint's identity stays, no two mutations of one subscription are
\* under way at one time: what the two "already in progress" guards promise.
THEOREM MutationsAreSingle ==
    ASSUME IdentityIsSteady
    PROVE  Spec => []OneMutationPerScope
  <1>1. Inv => OneMutationPerScope
    BY DEF Inv, SingleMutation, OneMutationPerScope, Admitted, Busy, Account
  <1> QED BY <1>1, Inductive, PTL

\* The bridge's set is exact: none leaks, none is missing.
THEOREM InFlightExact ==
    ASSUME IdentityIsSteady
    PROVE  Spec => []InFlightIsExact
  <1>1. Inv => InFlightIsExact
    BY DEF Inv, BridgeGuards
  <1> QED BY <1>1, Inductive, PTL

\* Store and bridge agree on what awaits its indexed result.
THEOREM Reconcilable ==
    ASSUME IdentityIsSteady
    PROVE  Spec => []PendingIsReconcilable
  <1>1. Inv => PendingIsReconcilable
    BY AgreeIsReconcilable DEF Inv
  <1> QED BY <1>1, Inductive, PTL

\* The review's second read of the record is the one the draft was made from.
ReviewedFresh == \A c \in Calls : calls[c].pc = "reviewed" => calls[c].fresh = calls[c].base

LEMMA ReviewsCompare == Spec => []ReviewedFresh
  <1>1. Init => ReviewedFresh
    BY DEF Init, ReviewedFresh, Idle
  <1>2. ASSUME TypeOK, ReviewedFresh, [Next]_vars
        PROVE  ReviewedFresh'
    <2>1. \A c \in Calls : calls[c] \in CallRecords
      BY <1>2, CallFacts
    <2>2. ASSUME NEW c \in Calls, CallStep(c)
          PROVE  ReviewedFresh'
      <3>1. calls' = [calls EXCEPT ![c] = calls'[c]]
        BY <1>2, <2>2 DEF TypeOK, CallStep, Perform, WriteCheckFails, Begin, ReadCurrent,
           Review, Reviewed, Submit, SubmitLost, Finalized, Observe, Confirm, Fail, Settle,
           Answer
      <3>2. CASE Review(c)
        BY <1>2, <3>1, <3>2 DEF Review, Reviewed, ReviewedFresh, TypeOK
      <3>3. CASE ~Review(c)
        <4>1. calls'[c].pc # "reviewed"
          BY <1>2, <2>1, <2>2, <3>3 DEF TypeOK, CallStep, Perform, WriteCheckFails, Begin,
             ReadCurrent, Submit, SubmitLost, Finalized, Observe, Confirm, Fail, Settle,
             Answer, Idle, CallRecords
        <4> QED BY <1>2, <3>1, <4>1 DEF ReviewedFresh, TypeOK
      <3> QED BY <3>2, <3>3
    <2>3. CASE Reload
      BY <2>3 DEF Reload, ReviewedFresh, Idle
    <2>4. CASE UNCHANGED calls
      BY <1>2, <2>4 DEF ReviewedFresh
    <2>5. NetworkStep \/ ReconcileStep \/ UNCHANGED vars => UNCHANGED calls
      BY DEF NetworkStep, Apply, Bill, Index, ReconcileStep, Reconcile, ReconcileLookup,
         ReconcileRead, ReconcileConfirms, ReconcileFails, ReconcileSettles, vars
    <2>6. PageStep => Reload \/ UNCHANGED calls
      BY DEF PageStep, Activate, Refresh, RefreshEnds
    <2> QED BY <1>2, <2>2, <2>3, <2>4, <2>5, <2>6 DEF Next
  <1> QED BY <1>1, <1>2, TypeCorrect, PTL DEF Spec

\* No transaction of an account is signed while a finalized one awaits indexing, and
\* none that does not follow from the newest record its call was served.
THEOREM NothingSignedBlindly ==
    ASSUME IdentityIsSteady
    PROVE  Spec => NoBlindSubmission
  <1> DEFINE tx == txs'[Len(txs')]
             Sighted == /\ pending[tx.account] = None
                        /\ \E c \in Calls :
                               /\ calls[c].pc = "reviewed"
                               /\ calls[c].context.account = tx.account
                               /\ tx.result = Resulting(tx.action, calls[c].fresh)
  <1>1. ASSUME TypeOK, Inv, ReviewedFresh, [Next]_vars, Len(txs') > Len(txs)
        PROVE  Sighted
    <2>1. ASSUME NEW c \in Calls, Submit(c) \/ SubmitLost(c)
          PROVE  Sighted
      <3>1. txs \in Seq(Transactions) /\ Signed(c) \in Transactions
        BY <1>1, <2>1, SignedType DEF Submit, SubmitLost, TypeOK
      <3>2. txs'[Len(txs')] = Signed(c)
        BY <2>1, <3>1 DEF Submit, SubmitLost
      <3>3. /\ Signed(c).account = Account(c) /\ Admitted(c)
            /\ calls[c].pc = "reviewed" /\ Signed(c).action = calls[c].action
            /\ Signed(c).result = Resulting(calls[c].action, calls[c].base)
        BY <2>1 DEF Signed, Account, Submit, SubmitLost, Admitted
      <3>4. calls[c].fresh = calls[c].base
        BY <1>1, <3>3 DEF ReviewedFresh
      <3> QED BY <1>1, <3>2, <3>3, <3>4 DEF Inv, BridgeGuards, Account
    <2>2. Len(txs) \in Nat
      BY <1>1 DEF TypeOK
    <2>3. NetworkStep => Len(txs') = Len(txs)
      BY <1>1 DEF NetworkStep, Apply, Bill, Index, TypeOK
    <2>4. txs' = txs \/ NetworkStep \/ \E c \in Calls : Submit(c) \/ SubmitLost(c)
      BY <1>1 DEF Next, PageStep, CallStep, ReconcileStep, vars, ledger, Activate, Refresh,
         RefreshEnds, Reload, Perform, WriteCheckFails, Begin, ReadCurrent, Review,
         Finalized, Observe, Confirm, Fail, Settle, Reconcile, ReconcileLookup,
         ReconcileRead, ReconcileConfirms, ReconcileFails, ReconcileSettles
    <2> HIDE DEF Sighted
    <2> QED BY <1>1, <2>1, <2>2, <2>3, <2>4
  <1>2. TypeOK /\ Inv /\ ReviewedFresh /\ [Next]_vars => [Len(txs') > Len(txs) => Sighted]_vars
    BY <1>1
  <1> QED BY <1>2, Inductive, ReviewsCompare, TypeCorrect, PTL DEF Spec, NoBlindSubmission

\* While an answer that confirms a reconciliation is on its way, the projection has
\* reached a state that confirms its transaction.
ObservedShown ==
    reconciling.pc = "observed" =>
        \E i \in 1 .. indexed[reconciling.of.context.account] :
            Confirms(chain[reconciling.of.context.account][i], txs[reconciling.of.tx].result)

LEMMA ObservationsLast ==
    ASSUME IdentityIsSteady
    PROVE  Spec => []ObservedShown
  <1> DEFINE of == reconciling.of
             a == of.context.account
  <1>1. Init => ObservedShown
    BY DEF Init, ObservedShown, NoReconciliation
  <1>2. ASSUME TypeOK, Inv, ObservedShown, [Next]_vars
        PROVE  ObservedShown'
    <2>1. CASE ReconcileRead
      <3>1. /\ reconciling'.of = of /\ reconciling.pc = "reading"
            /\ reconciling'.pc = "observed" => Confirms(Record(a), txs[of.tx].result)
            /\ UNCHANGED ledger
        BY <1>2, <2>1 DEF ReconcileRead, TypeOK, NoReconciliation
      <3>2. a \in Accounts
        BY <1>2, <3>1 DEF TypeOK, NoReconciliation, StorePendings, Contexts
      <3>3. indexed[a] \in Nat
        BY <1>2, <3>2 DEF TypeOK
      <3>4. reconciling'.pc = "observed" =>
                indexed[a] \in 1 .. indexed[a] /\ Record(a) = chain[a][indexed[a]]
        BY <3>1, <3>3 DEF Record, Confirms
      <3> QED BY <3>1, <3>4 DEF ObservedShown, ledger
    \* The ledger moves on and keeps what it has shown.
    <2>2. ASSUME reconciling.pc = "observed", UNCHANGED reconciling,
                 NEW i \in 1 .. indexed[a], Confirms(chain[a][i], txs[of.tx].result),
                 indexed[a] <= indexed'[a], indexed'[a] \in Nat,
                 chain'[a][i] = chain[a][i], txs'[of.tx].result = txs[of.tx].result
          PROVE  ObservedShown'
      <3>1. i \in 1 .. indexed'[a] /\ Confirms(chain'[a][i], txs'[of.tx].result)
        <4>1. indexed[a] \in Nat
          BY <1>2, <2>2 DEF TypeOK, NoReconciliation, StorePendings, Contexts
        <4> QED BY <2>2, <4>1
      <3> QED BY <2>2, <3>1 DEF ObservedShown
    <2>3. ASSUME reconciling.pc = "observed", UNCHANGED reconciling
          PROVE  ObservedShown'
      <3>1. /\ a \in Accounts /\ of.tx \in 1 .. Len(txs)
            /\ chain[a] \in Seq(States) /\ indexed[a] \in 0 .. Len(chain[a])
            /\ txs \in Seq(Transactions)
        <4>1. of \in storePending
          BY <1>2, <2>3 DEF Inv, PendingsAgree
        <4>2. of \in StorePendings /\ of.tx <= Len(txs)
          BY <1>2, <4>1 DEF Inv, TransactionsDiffer, TypeOK
        <4>3. of.tx \in 1 .. MaxTransactions /\ a \in Accounts
          BY <4>2 DEF StorePendings, Contexts
        <4> QED BY <1>2, <4>2, <4>3, SubscriptionAssumption DEF TypeOK
      <3>2. PICK i \in 1 .. indexed[a] : Confirms(chain[a][i], txs[of.tx].result)
        BY <1>2, <2>3 DEF ObservedShown
      <3>3. CASE UNCHANGED ledger
        BY <2>2, <2>3, <3>1, <3>2, <3>3 DEF ledger
      <3>4. ASSUME NEW j \in DOMAIN txs, Apply(j)
            PROVE  ObservedShown'
        <4>1. /\ txs'[of.tx].result = txs[of.tx].result /\ indexed' = indexed
              /\ \/ chain' = chain
                 \/ chain' = [chain EXCEPT ![txs[j].account] = Append(@, txs[j].result)]
          <5>1. /\ indexed' = indexed
                /\ \/ chain' = chain
                   \/ chain' = [chain EXCEPT ![txs[j].account] = Append(@, txs[j].result)]
                /\ \E x : txs' = [txs EXCEPT ![j].status = x]
            BY <3>4 DEF Apply
          <5>2. txs[of.tx] \in Transactions
            BY <3>1
          <5>3. \A x : [txs[of.tx] EXCEPT !.status = x].result = txs[of.tx].result
            BY <5>2 DEF Transactions
          <5>4. PICK x : txs' = [txs EXCEPT ![j].status = x]
            BY <5>1
          <5>5. txs'[of.tx] = txs[of.tx] \/ txs'[of.tx] = [txs[of.tx] EXCEPT !.status = x]
            BY <3>1, <5>4
          <5>6. txs'[of.tx].result = txs[of.tx].result
            BY <5>3, <5>5, Zenon
          <5> QED BY <5>1, <5>6
        <4>2. txs[j].result \in States
          <5>1. DOMAIN txs = 1 .. Len(txs) /\ txs \in Seq(Transactions)
            BY <3>1
          <5>2. txs[j] \in Transactions
            BY <3>4, <5>1
          <5> QED BY <5>2 DEF Transactions
        <4>3. chain'[a][i] = chain[a][i]
          <5>1. i \in 1 .. Len(chain[a]) /\ chain \in [Accounts -> Seq(States)]
            BY <1>2, <3>1, <3>2 DEF TypeOK
          <5>2. chain'[a] = chain[a] \/ chain'[a] = Append(chain[a], txs[j].result)
            BY <3>1, <4>1, <5>1
          <5> QED BY <3>1, <4>2, <5>1, <5>2
        <4> QED BY <2>2, <2>3, <3>1, <3>2, <4>1, <4>3
      <3>5. ASSUME NEW b \in Accounts, Bill(b)
            PROVE  ObservedShown'
        <4>1. /\ txs' = txs /\ indexed' = indexed
              /\ chain' = [chain EXCEPT ![b] = Append(@, Billed(chain[b][Len(chain[b])]))]
          BY <3>5 DEF Bill
        <4>2. chain'[a][i] = chain[a][i]
          BY <1>2, <3>1, <3>2, <4>1 DEF TypeOK
        <4> QED BY <2>2, <2>3, <3>1, <3>2, <4>1, <4>2
      <3>6. ASSUME NEW b \in Accounts, Index(b)
            PROVE  ObservedShown'
        <4>1. txs' = txs /\ chain' = chain /\ indexed' = [indexed EXCEPT ![b] = @ + 1]
          BY <3>6 DEF Index
        <4>2. indexed'[a] \in Nat /\ indexed[a] <= indexed'[a]
          BY <3>1, <4>1, <1>2 DEF TypeOK
        <4> QED BY <2>2, <2>3, <3>2, <4>1, <4>2
      <3>7. ASSUME NEW c \in Calls, Submit(c) \/ SubmitLost(c)
            PROVE  ObservedShown'
        <4>1. txs' = Append(txs, Signed(c)) /\ UNCHANGED <<chain, indexed>>
          BY <3>7 DEF Submit, SubmitLost
        <4>2. txs'[of.tx] = txs[of.tx]
          BY <3>1, <4>1
        <4> QED BY <2>2, <2>3, <3>1, <3>2, <4>1, <4>2
      <3>8. UNCHANGED ledger \/ NetworkStep \/ \E c \in Calls : Submit(c) \/ SubmitLost(c)
        BY <1>2 DEF Next, PageStep, CallStep, ReconcileStep, vars, Activate, Refresh,
           RefreshEnds, Reload, Perform, WriteCheckFails, Begin, ReadCurrent, Review,
           Finalized, Observe, Confirm, Fail, Settle, Reconcile, ReconcileLookup,
           ReconcileRead, ReconcileConfirms, ReconcileFails, ReconcileSettles
      <3> QED BY <3>3, <3>4, <3>5, <3>6, <3>7, <3>8 DEF NetworkStep
    <2>4. ReconcileStep => \/ ReconcileRead \/ reconciling'.pc # "observed"
      BY <1>2 DEF ReconcileStep, Reconcile, ReconcileLookup, ReconcileConfirms,
         ReconcileFails, ReconcileSettles, TypeOK, NoReconciliation
    <2>5. PageStep => UNCHANGED reconciling \/ reconciling'.pc # "observed"
      BY DEF PageStep, Activate, Refresh, RefreshEnds, Reload, NoReconciliation
    <2>6. NetworkStep \/ UNCHANGED vars => UNCHANGED reconciling
      BY DEF NetworkStep, Apply, Bill, Index, vars
    <2>7. \A c \in Calls : CallStep(c) => UNCHANGED reconciling
      BY DEF CallStep, Perform, WriteCheckFails, Begin, ReadCurrent, Review, Submit,
         SubmitLost, Finalized, Observe, Confirm, Fail, Settle
    <2> QED BY <1>2, <2>1, <2>3, <2>4, <2>5, <2>6, <2>7 DEF ObservedShown, Next
  <1> QED BY <1>1, <1>2, Inductive, TypeCorrect, PTL DEF Spec

\* Only its own reconciliation forgets a mutation that awaits indexing, and only
\* when the projection has shown its result.
THEOREM NeverForgotten ==
    ASSUME IdentityIsSteady
    PROVE  Spec => FinalizedNotForgotten
  <1> DEFINE Forgets(a) ==
                 pending[a] # None /\ pending'[a] # pending[a] /\ reloads' = reloads
             Confirmed(a) ==
                 /\ pending'[a] = None
                 /\ reconciling.pc = "observed"
                 /\ reconciling.of.tx = pending[a].tx
                 /\ \E i \in 1 .. indexed[a] :
                        Confirms(chain[a][i], txs[pending[a].tx].result)
  <1>1. ASSUME TypeOK, Inv, ObservedShown, [Next]_vars, NEW a \in Accounts, Forgets(a)
        PROVE  Confirmed(a)
    <2>1. CASE ReconcileConfirms
      <3>1. a = reconciling.of.context.account /\ pending'[a] = None
            /\ reconciling.pc = "observed"
        BY <1>1, <2>1 DEF ReconcileConfirms, TypeOK
      <3>2. pending[a] = [action |-> reconciling.of.action, tx |-> reconciling.of.tx]
        BY <1>1, <3>1 DEF Inv, PendingsAgree, ReadKnown
      <3>3. pending[a].tx = reconciling.of.tx
        BY <3>2
      <3> QED BY <1>1, <3>1, <3>3 DEF ObservedShown
    <2>2. ASSUME NEW c \in Calls, NEW status \in {"confirmed", "indexing"},
                 Confirm(c, status)
          PROVE  FALSE
      <3>1. pending[Account(c)] = None
        BY <1>1, <2>2 DEF Confirm, Admitted, Inv, BridgeGuards
      <3> QED BY <1>1, <2>2, <3>1 DEF Confirm, Remember, Account, TypeOK
    <2>3. ~Reload
      BY <1>1 DEF Reload, TypeOK
    <2>4. \/ pending' = pending \/ ReconcileConfirms \/ Reload
          \/ \E c \in Calls, status \in {"confirmed", "indexing"} : Confirm(c, status)
      BY <1>1 DEF Next, NetworkStep, Apply, Bill, Index, PageStep, CallStep, ReconcileStep,
         vars, guards, Activate, Refresh, RefreshEnds, Perform, WriteCheckFails, Begin,
         ReadCurrent, Review, Submit, SubmitLost, Finalized, Observe, Fail, Settle,
         Reconcile, ReconcileLookup, ReconcileRead, ReconcileFails, ReconcileSettles
    <2> QED BY <1>1, <2>1, <2>2, <2>3, <2>4
  <1>2. TypeOK /\ Inv /\ ObservedShown /\ [Next]_vars =>
            [\A a \in Accounts : Forgets(a) => Confirmed(a)]_vars
    BY <1>1
  <1> QED BY <1>2, Inductive, ObservationsLast, TypeCorrect, PTL
      DEF Spec, FinalizedNotForgotten

\* The store's records are those of its active context, although reads of contexts the
\* user has left are answered later: refresh and activateContext, for any identities.
THEOREM RecordsOwned == Spec => []RecordsBelongToContext
  <1>1. Init => RecordsBelongToContext
    BY DEF Init, RecordsBelongToContext
  <1>2. ASSUME RecordsBelongToContext, [Next]_vars
        PROVE  RecordsBelongToContext'
    <2>1. ASSUME NEW r \in reads, NEW ok \in BOOLEAN, RefreshEnds(r, ok)
          PROVE  RecordsBelongToContext'
      BY <1>2, <2>1 DEF RefreshEnds, OwnsRequest, RecordsBelongToContext
    <2>2. CASE (\E context \in Contexts : Activate(context)) \/ Reload
      BY <2>2 DEF Activate, Reload, RecordsBelongToContext
    <2>3. CASE UNCHANGED <<activeContext, records>>
      BY <1>2, <2>3 DEF RecordsBelongToContext
    <2>4. NetworkStep => UNCHANGED <<activeContext, records>>
      BY DEF NetworkStep, Apply, Bill, Index, view
    <2>5. ASSUME NEW c \in Calls, CallStep(c) PROVE UNCHANGED <<activeContext, records>>
      BY <2>5 DEF CallStep, Perform, WriteCheckFails, Begin, ReadCurrent, Review, Submit,
         SubmitLost, Finalized, Observe, Confirm, Fail, Settle, view
    <2>6. ReconcileStep => UNCHANGED <<activeContext, records>>
      BY DEF ReconcileStep, Reconcile, ReconcileLookup, ReconcileRead, ReconcileConfirms,
         ReconcileFails, ReconcileSettles, view
    <2> QED BY <1>2, <2>1, <2>2, <2>3, <2>4, <2>5, <2>6 DEF Next, PageStep, Refresh, vars, view
  <1> QED BY <1>1, <1>2, PTL DEF Spec
=============================================================================
