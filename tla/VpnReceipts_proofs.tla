------------------------- MODULE VpnReceipts_proofs -------------------------
(***************************************************************************)
(* Theorems about the receipt cache for every set of wallets and of reads  *)
(* in flight and every history of the server's list.                       *)
(***************************************************************************)
EXTENDS VpnReceipts, TLAPS

\* The cache is no newer than the server, and no newer than the answer of the read
\* that still holds the generation.
VersionInv ==
    /\ receipts.version <= version
    /\ \A r \in Readers : reader[r].version <= version
    /\ \A r \in Readers :
         newest = r /\ reader[r].step = "answered" /\ reader[r].context = receiptsContext
           => receipts.version <= reader[r].version

IInv == ReceiptsTypeOK /\ ReceiptsBelongToContext /\ ListsBelongToCaller /\ VersionInv

-----------------------------------------------------------------------------
\* A reader record built from typed parts is a reader.
LEMMA AtType ==
    ASSUME NEW step \in {"idle", "asked", "answered", "over", "returned"},
           NEW c \in Contexts \cup {NoContext}, NEW v \in 0..MaxVersion, NEW l \in Lists
    PROVE  /\ At(step, c, v, l) \in [step : {"idle", "asked", "answered", "over", "returned"},
                                     context : Contexts \cup {NoContext},
                                     version : 0..MaxVersion, listed : Lists]
           /\ At(step, c, v, l).step = step /\ At(step, c, v, l).context = c
           /\ At(step, c, v, l).version = v /\ At(step, c, v, l).listed = l
  BY DEF At

\* The empty receipt list is a receipt list.
LEMMA EmptyType ==
    /\ Empty \in Lists /\ Empty.owner = NoContext /\ Empty.version = 0
    /\ 0 \in 0..MaxVersion
  BY ReceiptConstants DEF Empty, Lists

\* The version counter is a natural number; reflexivity is spelt out for Zenon.
LEMMA VersionIsNat == ReceiptsTypeOK => version \in Nat /\ 0 <= version /\ version <= version
  BY ReceiptConstants DEF ReceiptsTypeOK

\* The idle reader is the record At builds from empty parts.
LEMMA NotReadingIsAt == NotReading = At("idle", NoContext, 0, Empty)
  BY DEF NotReading, At

\* The inductive invariant holds before the first read of the receipts.
LEMMA InitIsInductive == ReceiptsInit => IInv
  <1> SUFFICES ASSUME ReceiptsInit PROVE IInv
    OBVIOUS
  <1>1. ReceiptsTypeOK
    BY EmptyType, NotReadingIsAt, AtType DEF ReceiptsInit, ReceiptsTypeOK
  <1>2. ListsBelongToCaller
    BY EmptyType, NotReadingIsAt, AtType DEF ReceiptsInit, ListsBelongToCaller
  <1>3. VersionInv
    BY EmptyType, NotReadingIsAt, AtType DEF ReceiptsInit, VersionInv
  <1> QED BY <1>1, <1>2, <1>3, EmptyType DEF IInv, ReceiptsInit, ReceiptsBelongToContext

\* Activating a context, alone or together with a change of one reader.
LEMMA ActivatePreserves ==
    ASSUME IInv, NEW c \in Contexts \cup {NoContext}, Activate(c)
    PROVE  /\ receiptsContext' \in Contexts \cup {NoContext}
           /\ newest' \in Readers \cup {NoReader}
           /\ receipts' \in Lists /\ receipts'.version <= version
           /\ receipts'.owner \in {receiptsContext', NoContext}
           /\ newest' # NoReader =>
                newest' = newest /\ receipts' = receipts
                  /\ receiptsContext' = receiptsContext
  <1>1. CASE c = receiptsContext
    BY <1>1 DEF Activate, IInv, ReceiptsTypeOK, ReceiptsBelongToContext, VersionInv
  <1>2. CASE c # receiptsContext
    BY <1>2, EmptyType DEF Activate, IInv, ReceiptsTypeOK
  <1> QED BY <1>1, <1>2

\* A step that changes the reader r alone, to a well-typed reading that belongs to
\* its caller and, if it is an answer, is as new as the server.
LEMMA ReaderPreserves ==
    ASSUME IInv, NEW r \in Readers, UNCHANGED <<receiptsContext, newest, receipts, version>>,
           NEW step \in {"idle", "asked", "answered", "over", "returned"},
           NEW c \in Contexts \cup {NoContext}, NEW v \in 0..MaxVersion, NEW l \in Lists,
           reader' = [reader EXCEPT ![r] = At(step, c, v, l)],
           l.owner \in {c, NoContext}, v <= version,
           step = "answered" => receipts.version <= v
    PROVE  IInv'
  <1>1. ReceiptsTypeOK'
    BY AtType DEF IInv, ReceiptsTypeOK
  <1>2. \A q \in Readers : reader'[q] = IF q = r THEN At(step, c, v, l) ELSE reader[q]
    BY DEF IInv, ReceiptsTypeOK
  <1>3. ListsBelongToCaller'
    BY <1>2, AtType DEF IInv, ListsBelongToCaller
  <1>4. VersionInv'
    BY <1>2, AtType DEF IInv, VersionInv
  <1>5. ReceiptsBelongToContext'
    BY DEF IInv, ReceiptsBelongToContext
  <1> QED BY <1>1, <1>3, <1>4, <1>5 DEF IInv

\* Each action of the receipt list keeps the inductive invariant.
LEMMA NextPreserves == IInv /\ ReceiptsNext => IInv'
  <1> SUFFICES ASSUME IInv, ReceiptsNext PROVE IInv'
    OBVIOUS
  <1>1. CASE ReceiptIssued
    <2>1. version \in Int /\ version' = version + 1 /\ version' \in 0..MaxVersion
      BY <1>1, ReceiptConstants DEF ReceiptIssued, IInv, ReceiptsTypeOK
    <2>2. receipts.version \in Int
      BY DEF IInv, ReceiptsTypeOK, Lists
    <2>3. receipts.version <= version'
      BY <2>1, <2>2 DEF IInv, VersionInv
    <2> QED BY <1>1, <2>1, <2>3 DEF ReceiptIssued, IInv, ReceiptsTypeOK, VersionInv,
         ReceiptsBelongToContext, ListsBelongToCaller
  <1>2. CASE RestartReceipts
    <2>1. \A r \in Readers : reader'[r] = At("idle", NoContext, 0, Empty)
      BY <1>2, NotReadingIsAt DEF RestartReceipts
    <2>2. ReceiptsTypeOK'
      BY <1>2, NotReadingIsAt, AtType, EmptyType DEF RestartReceipts, IInv, ReceiptsTypeOK
    <2>3. ListsBelongToCaller'
      BY <2>1, AtType, EmptyType DEF ListsBelongToCaller
    <2>4. VersionInv'
      BY <1>2, <2>1, EmptyType, AtType, VersionIsNat DEF RestartReceipts, VersionInv, IInv
    <2> QED BY <1>2, <2>2, <2>3, <2>4, EmptyType DEF RestartReceipts, IInv,
         ReceiptsBelongToContext
  <1>3. ASSUME NEW c \in Contexts \cup {NoContext}, Touch(c) PROVE IInv'
    <2>1. Activate(c) /\ UNCHANGED <<version, reader>>
      BY <1>3 DEF Touch
    <2>2. ReceiptsTypeOK' /\ ListsBelongToCaller'
      BY <2>1, ActivatePreserves DEF IInv, ReceiptsTypeOK, ListsBelongToCaller
    <2>3. VersionInv'
      BY <2>1, ActivatePreserves, ReceiptConstants DEF IInv, VersionInv
    <2> QED BY <2>1, <2>2, <2>3, ActivatePreserves DEF IInv, ReceiptsBelongToContext
  <1>4. ASSUME NEW r \in Readers, NEW c \in Contexts \cup {NoContext}, ListWithoutAuth(r, c)
        PROVE  IInv'
    <2>1. /\ Activate(c) /\ version' = version
          /\ reader' = [reader EXCEPT ![r] = At("returned", c, 0, receipts')]
      BY <1>4 DEF ListWithoutAuth
    <2>2. receipts' \in Lists /\ receipts'.owner \in {c, NoContext}
      BY <2>1, ActivatePreserves DEF Activate
    <2>3. ReceiptsTypeOK'
      <3>1. At("returned", c, 0, receipts') \in
              [step : {"idle", "asked", "answered", "over", "returned"},
               context : Contexts \cup {NoContext}, version : 0..MaxVersion, listed : Lists]
        BY <2>2, AtType, EmptyType
      <3> QED BY <2>1, <2>2, <3>1, ActivatePreserves DEF IInv, ReceiptsTypeOK
    <2>4. \A q \in Readers : reader'[q] = IF q = r THEN At("returned", c, 0, receipts')
                                                   ELSE reader[q]
      BY <2>1 DEF IInv, ReceiptsTypeOK
    <2>5. ListsBelongToCaller'
      BY <2>2, <2>4, AtType, EmptyType DEF IInv, ListsBelongToCaller
    <2>6. VersionInv'
      <3>1. \A q \in Readers : reader'[q].version <= version'
        BY <2>1, <2>2, <2>4, AtType, EmptyType, VersionIsNat DEF IInv, VersionInv
      <3>2. \A q \in Readers : reader'[q].step = "answered" => reader'[q] = reader[q]
        BY <2>2, <2>4, AtType, EmptyType
      <3> QED BY <2>1, <3>1, <3>2, ActivatePreserves, ReceiptConstants DEF IInv, VersionInv
    <2> QED BY <2>1, <2>3, <2>5, <2>6, ActivatePreserves DEF IInv, ReceiptsBelongToContext
  <1>5. ASSUME NEW r \in Readers, NEW c \in Contexts, ListReceipts(r, c) PROVE IInv'
    <2>1. /\ receiptsContext' = c /\ newest' = r /\ version' = version
          /\ receipts' = IF c = receiptsContext THEN receipts ELSE Empty
          /\ reader' = [reader EXCEPT ![r] = At("asked", c, 0, Empty)]
      BY <1>5 DEF ListReceipts, BeginSync
    <2>2. /\ receipts' \in Lists /\ receipts'.version <= version
          /\ receipts'.owner \in {c, NoContext}
      BY <2>1, EmptyType DEF IInv, ReceiptsTypeOK, VersionInv, ReceiptsBelongToContext
    <2>3. ReceiptsTypeOK'
      BY <2>1, <2>2, AtType, EmptyType DEF IInv, ReceiptsTypeOK
    <2>4. \A q \in Readers : reader'[q] = IF q = r THEN At("asked", c, 0, Empty)
                                                   ELSE reader[q]
      BY <2>1 DEF IInv, ReceiptsTypeOK
    <2>5. ListsBelongToCaller'
      BY <2>4, AtType, EmptyType DEF IInv, ListsBelongToCaller
    <2>6. VersionInv'
      <3>1. \A q \in Readers : reader'[q].version <= version'
        BY <2>1, <2>4, AtType, EmptyType, VersionIsNat DEF IInv, VersionInv
      <3>2. reader'[r].step # "answered"
        BY <2>4, AtType, EmptyType
      <3> QED BY <2>1, <2>2, <3>1, <3>2 DEF VersionInv
    <2> QED BY <2>1, <2>2, <2>3, <2>5, <2>6 DEF IInv, ReceiptsBelongToContext
  <1>6. ASSUME NEW r \in Readers, ServeReceipts(r) PROVE IInv'
    <2>1. version \in 0..MaxVersion /\ receipts.version <= version
          /\ reader[r].context \in Contexts \cup {NoContext}
      BY DEF IInv, ReceiptsTypeOK, VersionInv
    <2>2. /\ reader' = [reader EXCEPT ![r] = At("answered", reader[r].context, version, Empty)]
          /\ UNCHANGED <<receiptsContext, newest, receipts, version>>
      BY <1>6 DEF ServeReceipts
    <2> QED BY <2>1, <2>2, EmptyType, VersionIsNat, ReaderPreserves DEF IInv
  <1>7. ASSUME NEW r \in Readers, SyncFails(r) \/ DropReceipts(r) \/ TakeReceipts(r) PROVE IInv'
    <2>1. /\ reader' = [reader EXCEPT ![r] = At("idle", NoContext, 0, Empty)]
          /\ UNCHANGED <<receiptsContext, newest, receipts, version>>
      BY <1>7, NotReadingIsAt DEF SyncFails, DropReceipts, TakeReceipts
    <2> QED BY <2>1, EmptyType, VersionIsNat, ReaderPreserves DEF IInv
  <1>8. ASSUME NEW r \in Readers, UseReceipts(r) PROVE IInv'
    <2> DEFINE new == [owner |-> reader[r].context, version |-> reader[r].version]
    <2>1. /\ reader' = [reader EXCEPT ![r] = At("over", reader[r].context, 0, Empty)]
          /\ UNCHANGED <<receiptsContext, newest, version>>
          /\ receipts' = IF IsCurrent(r) THEN new ELSE receipts
      BY <1>8 DEF UseReceipts
    <2>2. reader[r].context \in Contexts \cup {NoContext}
      BY DEF IInv, ReceiptsTypeOK
    <2>3. CASE ~IsCurrent(r)
      BY <2>1, <2>2, <2>3, EmptyType, VersionIsNat, ReaderPreserves DEF IInv
    <2>4. CASE IsCurrent(r)
      <3>1. receipts' = new /\ new.owner = receiptsContext /\ newest = r
        BY <2>1, <2>4 DEF IsCurrent
      <3>2. new \in Lists
        BY DEF IInv, ReceiptsTypeOK, Lists
      <3>3. ReceiptsTypeOK'
        BY <2>1, <2>2, <3>1, <3>2, AtType, EmptyType DEF IInv, ReceiptsTypeOK
      <3>4. \A q \in Readers : reader'[q] = IF q = r
                                 THEN At("over", reader[r].context, 0, Empty) ELSE reader[q]
        BY <2>1 DEF IInv, ReceiptsTypeOK
      <3>5. ListsBelongToCaller'
        BY <2>2, <3>4, AtType, EmptyType DEF IInv, ListsBelongToCaller
      <3>6. new.version <= version
        BY <1>8 DEF UseReceipts, IInv, VersionInv
      <3>7. VersionInv'
        <4>1. reader'[r].step # "answered"
          BY <2>2, <3>4, AtType, EmptyType
        <4>2. \A q \in Readers : reader'[q].version <= version'
          BY <2>1, <2>2, <3>4, AtType, EmptyType, VersionIsNat DEF IInv, VersionInv
        <4> QED BY <2>1, <3>1, <3>6, <4>1, <4>2 DEF VersionInv
      <3> QED BY <2>1, <3>1, <3>3, <3>5, <3>7 DEF IInv, ReceiptsBelongToContext
    <2> QED BY <2>3, <2>4
  <1>9. ASSUME NEW r \in Readers, ReturnReceipts(r) PROVE IInv'
    <2>1. /\ reader' = [reader EXCEPT ![r] = At("returned", reader[r].context, 0, Returned(r))]
          /\ UNCHANGED <<receiptsContext, newest, receipts, version>>
      BY <1>9 DEF ReturnReceipts
    <2>2. /\ Returned(r) \in Lists /\ Returned(r).owner \in {reader[r].context, NoContext}
          /\ reader[r].context \in Contexts \cup {NoContext}
      BY EmptyType DEF Returned, IInv, ReceiptsTypeOK, ReceiptsBelongToContext
    <2> QED BY <2>1, <2>2, EmptyType, VersionIsNat, ReaderPreserves DEF IInv
  <1> QED BY <1>1, <1>2, <1>3, <1>4, <1>5, <1>6, <1>7, <1>8, <1>9 DEF ReceiptsNext

\* Every step, or a stutter, keeps the inductive invariant.
LEMMA StepPreserves == IInv /\ [ReceiptsNext]_receiptVars => IInv'
  <1>1. IInv /\ UNCHANGED receiptVars => IInv'
    BY DEF receiptVars, IInv, ReceiptsTypeOK, ReceiptsBelongToContext, ListsBelongToCaller,
       VersionInv
  <1> QED BY <1>1, NextPreserves

\* The inductive invariant: what the cache holds is no newer than what the read that
\* holds the generation was answered.
THEOREM ReceiptsInductive == ReceiptsSpec => []IInv
  BY InitIsInductive, StepPreserves, PTL DEF ReceiptsSpec

\* Every variable of the cache keeps its type.
THEOREM ReceiptsTypeCorrect == ReceiptsSpec => []ReceiptsTypeOK
  <1>1. IInv => ReceiptsTypeOK
    BY DEF IInv
  <1> QED BY <1>1, ReceiptsInductive, PTL

\* VpnRuntime never caches one wallet's receipts while another wallet's context is
\* active.
THEOREM ReceiptsBelong == ReceiptsSpec => []ReceiptsBelongToContext
  <1>1. IInv => ReceiptsBelongToContext
    BY DEF IInv
  <1> QED BY <1>1, ReceiptsInductive, PTL

\* listReceipts never returns the receipts of a wallet other than its caller's.
THEOREM ListsBelong == ReceiptsSpec => []ListsBelongToCaller
  <1>1. IInv => ListsBelongToCaller
    BY DEF IInv
  <1> QED BY <1>1, ReceiptsInductive, PTL

\* A late answer of syncReceiptsFromServer never replaces a newer list.
THEOREM ReceiptsAreMonotone == ReceiptsSpec => ReceiptsNeverRegress
  <1> DEFINE Kept == receiptsContext' = receiptsContext /\ receiptsContext # NoContext
                       => receipts'.version >= receipts.version
  <1>1. ASSUME IInv, ReceiptsNext PROVE Kept
    <2> SUFFICES ASSUME receiptsContext' = receiptsContext, receiptsContext # NoContext
                 PROVE  receipts'.version >= receipts.version
      OBVIOUS
    <2>1. receipts.version \in Int
      BY <1>1 DEF IInv, ReceiptsTypeOK, Lists
    <2>2. CASE receipts' = receipts
      BY <2>1, <2>2
    <2>3. ASSUME NEW r \in Readers, UseReceipts(r) PROVE receipts'.version >= receipts.version
      <3>1. CASE ~IsCurrent(r)
        BY <2>1, <2>3, <3>1 DEF UseReceipts
      <3>2. CASE IsCurrent(r)
        <4>1. receipts.version <= reader[r].version /\ reader[r].version \in Int
          BY <1>1, <2>3, <3>2 DEF IInv, VersionInv, ReceiptsTypeOK, UseReceipts, IsCurrent
        <4>2. receipts'.version = reader[r].version
          BY <2>3, <3>2 DEF UseReceipts
        <4> QED BY <2>1, <4>1, <4>2
      <3> QED BY <3>1, <3>2
    <2>4. ASSUME NEW c \in Contexts \cup {NoContext}, Activate(c)
          PROVE  receipts' = receipts
      BY <2>4 DEF Activate
    <2>5. ASSUME NEW r \in Readers, NEW c \in Contexts, ListReceipts(r, c)
          PROVE  receipts' = receipts
      BY <2>5 DEF ListReceipts, BeginSync
    <2>6. ~RestartReceipts
      BY DEF RestartReceipts
    <2> QED BY <1>1, <2>2, <2>3, <2>4, <2>5, <2>6 DEF ReceiptsNext, ReceiptIssued, Touch,
         ListWithoutAuth, ServeReceipts, SyncFails, ReturnReceipts, DropReceipts, TakeReceipts
  <1>2. IInv /\ [ReceiptsNext]_receiptVars => [Kept]_receiptVars
    BY <1>1
  <1> QED BY <1>2, ReceiptsInductive, PTL DEF ReceiptsSpec, ReceiptsNeverRegress
=============================================================================
