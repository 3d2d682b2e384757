---------------------------- MODULE VpnReceipts ----------------------------
(***************************************************************************)
(* The receipt cache of the class VpnRuntime (src/electron/vpnRuntime.ts). *)
(* Every handler names a wallet context and so activates it; reads of the  *)
(* server's receipt list are in flight meanwhile, and a late answer may    *)
(* find another context active, or a younger read already applied.         *)
(*                                                                         *)
(* The counter receiptsGeneration is only ever compared with a value taken *)
(* from it, so the model keeps who took the present value: `newest` is the *)
(* read that holds it, or NoReader once something else has moved it on.    *)
(***************************************************************************)
EXTENDS Integers

CONSTANTS Contexts,      \* endpoint, chain, prefix and account of a wallet
          NoContext,     \* no wallet context (the null of receiptsContextKey)
          Readers,       \* receipt reads that may be in flight together
          NoReader,
          MaxVersion     \* bound: the server's list changes this often

ASSUME ReceiptConstants ==
    NoContext \notin Contexts /\ NoReader \notin Readers /\ MaxVersion \in Nat

VARIABLES receiptsContext,   \* receiptsContextKey
          newest,            \* the read that holds receiptsGeneration
          receipts,          \* the cached list: whose it is and how old
          version,           \* the server's lists, counted
          reader             \* the reads in flight and what they returned

receiptVars == <<receiptsContext, newest, receipts, version, reader>>

Empty == [owner |-> NoContext, version |-> 0]
Lists == [owner : Contexts \cup {NoContext}, version : 0..MaxVersion]

\* `listed` is what a listReceipts that has just returned hands over.
NotReading == [step |-> "idle", context |-> NoContext, version |-> 0, listed |-> Empty]

ReceiptsTypeOK ==
    /\ receiptsContext \in Contexts \cup {NoContext}
    /\ newest \in Readers \cup {NoReader}
    /\ receipts \in Lists
    /\ version \in 0..MaxVersion
    /\ reader \in [Readers -> [step : {"idle", "asked", "answered", "over", "returned"},
                               context : Contexts \cup {NoContext},
                               version : 0..MaxVersion, listed : Lists]]

ReceiptsInit ==
    /\ receiptsContext = NoContext /\ newest = NoReader
    /\ receipts = Empty /\ version = 0
    /\ reader = [r \in Readers |-> NotReading]

-----------------------------------------------------------------------------
\* activateReceiptsContext.  Without a context there are no receipts, so the
\* code's second condition for moving the generation adds nothing.
Activate(c) ==
    /\ receiptsContext' = c
    /\ receipts' = IF c = receiptsContext THEN receipts ELSE Empty
    /\ newest' = IF c = receiptsContext THEN newest ELSE NoReader

\* A handler that only activates its context.
Touch(c) == Activate(c) /\ UNCHANGED <<version, reader>>

At(step, c, v, listed) ==
    [step |-> step, context |-> c, version |-> v, listed |-> listed]

\* syncReceiptsFromServer up to its awaits: a new generation is taken.
BeginSync(r, c) ==
    /\ receiptsContext' = c
    /\ receipts' = IF c = receiptsContext THEN receipts ELSE Empty
    /\ newest' = r
    /\ reader' = [reader EXCEPT ![r] = At("asked", c, 0, Empty)]
    /\ UNCHANGED version

\* listReceipts of a wallet that can sign.
ListReceipts(r, c) == reader[r].step = "idle" /\ BeginSync(r, c)

\* listReceipts without signing material answers from the cache, without a
\* context with nothing.
ListWithoutAuth(r, c) ==
    /\ reader[r].step = "idle"
    /\ Activate(c)
    /\ reader' = [reader EXCEPT ![r] = At("returned", c, 0, receipts')]
    /\ UNCHANGED version

\* The server sends its list of the moment; it travels.
ServeReceipts(r) ==
    /\ reader[r].step = "asked"
    /\ reader' = [reader EXCEPT ![r] = At("answered", @.context, version, Empty)]
    /\ UNCHANGED <<receiptsContext, newest, receipts, version>>

\* Faulty: a failed read leaves its reader neither waiting nor free.
SyncFailsForGood(r) ==
    /\ reader[r].step \in {"asked", "answered"}
    /\ reader' = [reader EXCEPT ![r].step = "failed"]
    /\ UNCHANGED <<receiptsContext, newest, receipts, version>>

\* The network identity, the server or the parser rejects.
SyncFails(r) ==
    /\ reader[r].step \in {"asked", "answered"}
    /\ reader' = [reader EXCEPT ![r] = NotReading]
    /\ UNCHANGED <<receiptsContext, newest, receipts, version>>

\* Faulty: the generation is not compared.
IsCurrentByContext(r) == receiptsContext = reader[r].context

\* Faulty: neither is.
IsCurrentAlways(r) == reader[r].step = "answered"

IsCurrent(r) == receiptsContext = reader[r].context /\ newest = r

\* The list arrived: it is stored unless its context or generation has passed.
UseReceipts(r) ==
    /\ reader[r].step = "answered"
    /\ receipts' = IF IsCurrent(r)
                   THEN [owner |-> reader[r].context, version |-> reader[r].version]
                   ELSE receipts
    /\ reader' = [reader EXCEPT ![r] = At("over", @.context, 0, Empty)]
    /\ UNCHANGED <<receiptsContext, newest, version>>

\* Faulty: whatever is cached is returned.
ReturnedToAnyone(r) == receipts

\* What listReceipts returns once its read is over.
Returned(r) == IF receiptsContext = reader[r].context THEN receipts ELSE Empty

ReturnReceipts(r) ==
    /\ reader[r].step = "over"
    /\ reader' = [reader EXCEPT ![r] = At("returned", @.context, 0, Returned(r))]
    /\ UNCHANGED <<receiptsContext, newest, receipts, version>>

\* The page takes the list it asked for.
TakeReceipts(r) ==
    /\ reader[r].step = "returned"
    /\ reader' = [reader EXCEPT ![r] = NotReading]
    /\ UNCHANGED <<receiptsContext, newest, receipts, version>>

\* The status refresh that syncs as its last step ignores the list it gets.
DropReceipts(r) ==
    /\ reader[r].step = "over"
    /\ reader' = [reader EXCEPT ![r] = NotReading]
    /\ UNCHANGED <<receiptsContext, newest, receipts, version>>

\* A new process starts with nothing: loadReceipts removes the former file.
RestartReceipts ==
    /\ receiptsContext' = NoContext /\ newest' = NoReader /\ receipts' = Empty
    /\ reader' = [r \in Readers |-> NotReading]
    /\ UNCHANGED version

\* A lease ends and the server's list grows.
ReceiptIssued ==
    /\ version < MaxVersion /\ version' = version + 1
    /\ UNCHANGED <<receiptsContext, newest, receipts, reader>>

ReceiptsNext ==
    \/ ReceiptIssued \/ RestartReceipts
    \/ \E c \in Contexts \cup {NoContext} : Touch(c)
    \/ \E r \in Readers, c \in Contexts \cup {NoContext} : ListWithoutAuth(r, c)
    \/ \E r \in Readers, c \in Contexts : ListReceipts(r, c)
    \/ \E r \in Readers :
         \/ ServeReceipts(r) \/ SyncFails(r) \/ UseReceipts(r) \/ ReturnReceipts(r)
         \/ TakeReceipts(r) \/ DropReceipts(r)

ReceiptsSpec == ReceiptsInit /\ [][ReceiptsNext]_receiptVars

-----------------------------------------------------------------------------
\* The cache only holds receipts of the context that is active, however many
\* reads of other contexts are still on their way.
ReceiptsBelongToContext == receipts.owner \in {receiptsContext, NoContext}

\* A wallet is never handed the receipts of another one, although the context may
\* change between its read and its answer.
ListsBelongToCaller ==
    \A r \in Readers : reader[r].listed.owner \in {reader[r].context, NoContext}

\* While a context stays active its list never goes back to an older one.
ReceiptsNeverRegress ==
    [][receiptsContext' = receiptsContext /\ receiptsContext # NoContext
         => receipts'.version >= receipts.version]_receiptVars
=============================================================================
