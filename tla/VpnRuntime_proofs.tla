-------------------------- MODULE VpnRuntime_proofs --------------------------
(***************************************************************************)
(* Theorems about the VPN runtime for every set of wallets, any number of  *)
(* polls and leases and every interleaving of the handlers.  Those about   *)
(* the receipts hold through the refinement of VpnReceipts.  Two hold with *)
(* one user action at a time, which TLC shows to be needed: OneAction.     *)
(***************************************************************************)
EXTENDS VpnRuntime, VpnReceipts_proofs

\* The page lets one connect, disconnect or repair run at a time (actionPending).
OneAction == \A a, b \in Actions : a = b

Ops == {"none", "status", "connect", "connected", "disconnect", "foreign", "local", "repair"}
Steps == {"none", "query", "remote", "present", "absent", "receipts", "open", "up", "down",
          "mend", "fallback"}
Sightings == [got : {"nothing", "error", "answer"}, up : BOOLEAN, repair : BOOLEAN]

\* The sets the type invariant draws the records of the runtime from.
CallRecords ==
    [op : Ops, step : Steps, context : AnyContext, lease : 0..MaxLeases, held : BOOLEAN,
     fresh : BOOLEAN, seen : Sightings]
Sessions == [lease : 0..MaxLeases, pending : BOOLEAN]
LeaseRecords == [owner : AnyContext, expired : BOOLEAN, gone : BOOLEAN]
Tunnels == [up : BOOLEAN, lease : 0..MaxLeases, repair : BOOLEAN]
Statuses == [state : States, about : 0..MaxLeases, up : BOOLEAN, polled : BOOLEAN]

\* The conjuncts of TypeOK that are not about the receipts.
RuntimeTypes ==
    /\ state \in States /\ session \in Sessions
    /\ visible \in BOOLEAN /\ mismatch \in BOOLEAN
    /\ call \in [Calls -> CallRecords] /\ lease \in [Leases -> LeaseRecords]
    /\ tunnel \in Tunnels /\ view \in AnyContext
    /\ shown \in Statuses /\ faults \in 0..MaxFaults

-----------------------------------------------------------------------------
(* The inductive invariant *)

\* What a handler at some step may rely on: only a connect opens a lease, nothing was
\* read before it did, the receipts are free until the handler reads them, a wallet
\* is named wherever the server is asked, the lease that is asked for or brought up
\* is that wallet's, and a poll that is fresh was made for the selected wallet.
CallIsSound(c, x, reading, leases, selected) ==
    /\ (x.op = "none" <=> x.step = "none")
    /\ x.op \notin {"none", "status"} => c \in Actions
    /\ x.step \in {"open", "up"} => x.op = "connect"
    /\ x.step = "open" => x.seen.got = "nothing"
    /\ x.op # "none" /\ x.step # "receipts" => reading.step = "idle"
    /\ x.op = "connect" \/ x.step \in {"remote", "present", "absent", "receipts"} => x.context # NoContext
    /\ x.step \in {"remote", "present", "absent", "up"} => x.lease # 0 /\ leases[x.lease].owner = x.context
    /\ x.op = "status" /\ x.fresh => x.context = selected

CallInv == \A c \in Calls : CallIsSound(c, call[c], reader[c], lease, view)

RuntimeInv == RuntimeTypes /\ IInv /\ CallInv /\ ConnectedHasSession

\* With one user action at a time: a tunnel that is up carries the lease of the live
\* session or the connect that brings another one up has heard of it; and if it heard
\* that it succeeded, the tunnel carries the lease it paid for.
TunnelInv ==
    /\ tunnel.up /\ session.lease # 0 /\ ~session.pending =>
         \/ tunnel.lease = session.lease
         \/ \E a \in Calls : call[a].step = "up" /\ call[a].seen.got # "nothing"
    /\ \A a \in Calls : call[a].step = "up" /\ call[a].seen.got = "answer" /\ tunnel.up
                          => tunnel.lease = call[a].lease

Own(l, leases, selected) ==
    l # 0 => leases[l].owner = selected /\ selected # NoContext

\* A poll whose status the page will show and that the reconcile let past the check
\* of the wallet.
Claims(x) == x.op = "status" /\ x.fresh /\ x.step \in {"remote", "present", "absent", "receipts"}

\* With one user action at a time: a session that a connect finds is its wallet's;
\* what a poll shows is the selected wallet's; and while a poll that will be shown
\* waits for the server, the session stays its wallet's, even if a connect replaces it.
OwnerInv ==
    /\ \A a \in Calls : call[a].op = "connect" /\ session.lease # 0
                          => lease[session.lease].owner = call[a].context
    /\ shown.polled => Own(shown.about, lease, view)
    /\ \A c \in Calls : Claims(call[c]) =>
         /\ Own(session.lease, lease, view)
         /\ \A a \in Calls : call[a].op = "connect" => call[a].context = view

OneActionInv == TunnelInv /\ OwnerInv

-----------------------------------------------------------------------------
(* Types *)

\* The type invariant is that of the receipts and that of the rest of the runtime.
LEMMA TypeParts == TypeOK <=> ReceiptsTypeOK /\ RuntimeTypes
  BY Zenon DEF TypeOK, RuntimeTypes, CallRecords, Ops, Steps, Sightings, Sessions,
     LeaseRecords, Tunnels, Statuses

\* Handlers read receipts under their own name; lease numbers are positive.
LEMMA Numbers ==
    /\ Calls \subseteq Readers /\ 0 \in 0..MaxLeases /\ 0 \in 0..MaxFaults
    /\ Leases \subseteq 0..MaxLeases /\ 0 \notin Leases
    /\ \A l \in 0..MaxLeases : l # 0 => l \in Leases
  BY RuntimeConstants DEF Leases

\* Replacing the record of one handler or of one lease, the others stay.
LEMMA ReplacedAt ==
    ASSUME NEW D, NEW S, NEW f \in [D -> S], NEW d \in D, NEW x \in S
    PROVE  /\ [f EXCEPT ![d] = x] \in [D -> S]
           /\ \A e \in D : [f EXCEPT ![d] = x][e] = IF e = d THEN x ELSE f[e]
  OBVIOUS

\* What Goes starts a handler with.
LEMMA GoesType ==
    ASSUME NEW c, NEW op \in Ops, NEW step \in Steps, NEW context \in AnyContext,
           NEW l \in 0..MaxLeases
    PROVE  /\ Goes(c, op, step, context, l) \in CallRecords
           /\ Goes(c, op, step, context, l).op = op
           /\ Goes(c, op, step, context, l).step = step
           /\ Goes(c, op, step, context, l).context = context
           /\ Goes(c, op, step, context, l).lease = l
           /\ Goes(c, op, step, context, l).fresh = (op = "status")
           /\ Goes(c, op, step, context, l).seen = Unseen
  BY DEF Goes, NoCall, Unseen, CallRecords, Sightings

\* A handler that is over.
LEMMA NoCallType ==
    /\ NoCall \in CallRecords /\ NoCall.op = "none" /\ NoCall.step = "none"
    /\ NoCall.context = NoContext /\ NoCall.lease = 0 /\ NoCall.fresh = FALSE
    /\ NoCall.seen = Unseen /\ Unseen \in Sightings /\ Unseen.got = "nothing"
  BY Numbers DEF NoCall, Unseen, CallRecords, Sightings, AnyContext, Ops, Steps

\* Three updates a step makes to a handler's record: the session it held is gone, the
\* wallet was switched, the controller answered.
LEMMA HeldUpdate ==
    ASSUME NEW x \in CallRecords, NEW y, y = [x EXCEPT !.held = FALSE]
    PROVE  /\ y \in CallRecords /\ y.op = x.op /\ y.step = x.step /\ y.context = x.context
           /\ y.lease = x.lease /\ y.fresh = x.fresh /\ y.seen = x.seen
  <1>1. y \in CallRecords
    BY Zenon DEF CallRecords
  <1> QED BY <1>1 DEF CallRecords

LEMMA FreshUpdate ==
    ASSUME NEW x \in CallRecords, NEW y, y = [x EXCEPT !.fresh = FALSE]
    PROVE  /\ y \in CallRecords /\ y.op = x.op /\ y.step = x.step /\ y.context = x.context
           /\ y.lease = x.lease /\ y.fresh = FALSE /\ y.seen = x.seen
  <1>1. y \in CallRecords
    BY Zenon DEF CallRecords
  <1> QED BY <1>1 DEF CallRecords

LEMMA SeenUpdate ==
    ASSUME NEW x \in CallRecords, NEW saw \in Sightings, NEW y, y = [x EXCEPT !.seen = saw]
    PROVE  /\ y \in CallRecords /\ y.op = x.op /\ y.step = x.step /\ y.context = x.context
           /\ y.lease = x.lease /\ y.fresh = x.fresh /\ y.seen = saw
  <1>1. y \in CallRecords
    BY Zenon DEF CallRecords
  <1> QED BY <1>1 DEF CallRecords

\* Releasing the session changes no other field of any handler.
LEMMA Releasing ==
    ASSUME NEW calls \in [Calls -> CallRecords]
    PROVE  /\ Replaced(calls) \in [Calls -> CallRecords]
           /\ \A d \in Calls : Replaced(calls)[d] = [calls[d] EXCEPT !.held = FALSE]
  <1>1. \A d \in Calls : [calls[d] EXCEPT !.held = FALSE] \in CallRecords
    BY Zenon DEF CallRecords
  <1> QED BY <1>1, Zenon DEF Replaced

\* The statuses the handlers build are statuses.
LEMMA StatusTypes ==
    ASSUME RuntimeTypes, NEW c \in Calls
    PROVE  /\ BuiltLocally(c) \in Statuses /\ BuiltLocally(c).about = 0
           /\ BuiltLocally(c).polled = (call[c].op = "status")
           /\ state' \in States /\ session' \in Sessions => Built(c) \in Statuses
           /\ Built(c).polled = (call[c].op = "status")
           /\ Built(c).about \in {0, session'.lease}
           /\ ~visible' => Built(c).about = 0
  <1>1. call[c].seen.up \in BOOLEAN /\ 0 \in 0..MaxLeases
    BY Numbers DEF RuntimeTypes, CallRecords, Sightings
  <1> QED BY <1>1, SMT DEF BuiltLocally, Built, Hidden, SeenBy, Statuses, States, Sessions

-----------------------------------------------------------------------------
(* One handler moves *)

\* The record of c becomes x; the others may lose the session they held.
Moves(c, x) ==
    /\ call' \in [Calls -> CallRecords] /\ call'[c] = x
    /\ \A d \in Calls : d # c =>
         /\ call'[d].op = call[d].op /\ call'[d].step = call[d].step
         /\ call'[d].context = call[d].context /\ call'[d].lease = call[d].lease
         /\ call'[d].fresh = call[d].fresh /\ call'[d].seen = call[d].seen

\* The two ways in which the code replaces the record of a handler.
LEMMA MovesBy ==
    ASSUME RuntimeTypes, NEW c \in Calls, NEW x \in CallRecords,
           \/ call' = [call EXCEPT ![c] = x]
           \/ call' = [Replaced(call) EXCEPT ![c] = x]
    PROVE  Moves(c, x)
  <1>1. call \in [Calls -> CallRecords]
    BY DEF RuntimeTypes
  <1>2. CASE call' = [call EXCEPT ![c] = x]
    <2>1. call' \in [Calls -> CallRecords]
          /\ \A e \in Calls : call'[e] = IF e = c THEN x ELSE call[e]
      BY <1>1, <1>2, ReplacedAt, Zenon
    <2> QED BY <2>1 DEF Moves
  <1>3. CASE call' = [Replaced(call) EXCEPT ![c] = x]
    <2>1. /\ Replaced(call) \in [Calls -> CallRecords]
          /\ \A d \in Calls : Replaced(call)[d] = [call[d] EXCEPT !.held = FALSE]
      BY <1>1, Releasing, Zenon
    <2>2. call' \in [Calls -> CallRecords]
          /\ \A e \in Calls : call'[e] = IF e = c THEN x ELSE Replaced(call)[e]
      BY <1>3, <2>1, ReplacedAt, Zenon
    <2>3. ASSUME NEW d \in Calls, d # c
          PROVE  /\ call'[d].op = call[d].op /\ call'[d].step = call[d].step
                 /\ call'[d].context = call[d].context /\ call'[d].lease = call[d].lease
                 /\ call'[d].fresh = call[d].fresh /\ call'[d].seen = call[d].seen
      <3>1. call[d] \in CallRecords
        BY <1>1
      <3>2. call'[d] = [call[d] EXCEPT !.held = FALSE]
        BY <2>1, <2>2, <2>3
      <3> QED BY <3>1, <3>2, HeldUpdate
    <2> QED BY <2>2, <2>3 DEF Moves
  <1> QED BY <1>2, <1>3

\* Soundness looks at six fields of a record only, and survives leases that are
\* opened for others.
LEMMA SoundKept ==
    ASSUME NEW c, NEW x \in CallRecords, NEW y \in CallRecords,
           y.op = x.op, y.step = x.step, y.context = x.context, y.lease = x.lease,
           y.fresh => x.fresh, y.seen = x.seen,
           NEW reading, NEW reading2, reading2 = reading \/ x.op = "none" \/ x.step = "receipts",
           NEW leases, NEW leases2,
           \A l \in Leases : leases[l].owner # NoContext => leases2[l].owner = leases[l].owner,
           NEW selected, NEW selected2, selected2 = selected \/ ~y.fresh,
           CallIsSound(c, x, reading, leases, selected)
    PROVE  CallIsSound(c, y, reading2, leases2, selected2)
  <1>1. x.lease \in 0..MaxLeases
    BY DEF CallRecords
  <1>2. x.step \in {"remote", "present", "absent", "up"} =>
          x.lease # 0 /\ leases[x.lease].owner = x.context /\ x.context # NoContext
    BY DEF CallIsSound
  <1>3. x.step \in {"remote", "present", "absent", "up"} => leases2[x.lease].owner = x.context
    BY <1>1, <1>2, Numbers
  <1> QED BY <1>3 DEF CallIsSound

\* Owners, once known, do not change; the wallet stays selected; and no other
\* handler's reading moves.
Around(c) ==
    /\ \A l \in Leases : lease[l].owner # NoContext => lease'[l].owner = lease[l].owner
    /\ view' = view
    /\ \A d \in Calls : d # c => reader'[d] = reader[d]

\* A handler that moves to a sound record keeps every handler sound.
LEMMA MoveIsSound ==
    ASSUME RuntimeInv, NEW c \in Calls, NEW x \in CallRecords, Moves(c, x), Around(c),
           CallIsSound(c, x, reader'[c], lease', view')
    PROVE  CallInv'
  <1> SUFFICES ASSUME NEW d \in Calls
               PROVE  CallIsSound(d, call'[d], reader'[d], lease', view')
    BY DEF CallInv
  <1>1. CASE d = c
    BY <1>1 DEF Moves
  <1>2. CASE d # c
    <2>1. /\ call[d] \in CallRecords /\ call'[d] \in CallRecords
          /\ CallIsSound(d, call[d], reader[d], lease, view)
      BY DEF RuntimeInv, RuntimeTypes, CallInv, Moves
    <2>2. /\ call'[d].op = call[d].op /\ call'[d].step = call[d].step
          /\ call'[d].context = call[d].context /\ call'[d].lease = call[d].lease
          /\ call'[d].fresh = call[d].fresh /\ call'[d].seen = call[d].seen
      BY <1>2 DEF Moves
    <2>3. reader'[d] = reader[d] /\ view' = view
      BY <1>2 DEF Around
    <2>4. \A l \in Leases : lease[l].owner # NoContext => lease'[l].owner = lease[l].owner
      BY DEF Around
    <2> HIDE DEF CallIsSound
    <2> QED BY <2>1, <2>2, <2>3, <2>4, SoundKept, Zenon
  <1> QED BY <1>1, <1>2

\* What a step has to keep of the invariants above; the receipts keep theirs.
Keeps ==
    /\ RuntimeTypes' /\ CallInv' /\ ConnectedHasSession'
    /\ OneAction /\ OneActionInv => OneActionInv'

\* A handler that neither arrives at the start of a tunnel nor leaves it keeps the
\* tunnel invariant, unless it brings a tunnel up or a session to life.
LEMMA TunnelKept ==
    ASSUME TunnelInv, NEW c \in Calls, NEW x, Moves(c, x),
           call[c].step # "up", x.step # "up",
           tunnel' = tunnel \/ ~tunnel'.up,
           session' \in {session, NoSession} \/ session'.pending
    PROVE  TunnelInv'
  <1>1. \A a \in Calls : call'[a].step = "up" \/ call[a].step = "up" =>
          /\ call'[a].step = call[a].step /\ call'[a].seen = call[a].seen
          /\ call'[a].lease = call[a].lease
    BY DEF Moves
  <1>2. CASE ~tunnel'.up
    BY <1>2 DEF TunnelInv
  <1>3. CASE tunnel' = tunnel
    <2>1. ASSUME tunnel'.up, session'.lease # 0, ~session'.pending
          PROVE  \/ tunnel'.lease = session'.lease
                 \/ \E a \in Calls : call'[a].step = "up" /\ call'[a].seen.got # "nothing"
      <3>1. session' = session
        BY <2>1 DEF NoSession
      <3> QED BY <1>1, <1>3, <2>1, <3>1 DEF TunnelInv
    <2> QED BY <1>1, <1>3, <2>1 DEF TunnelInv
  <1> QED BY <1>2, <1>3

\* A session's lease and a status's lease that are known to belong to the selected
\* wallet still do when owners are only added.
LEMMA OwnKept ==
    ASSUME RuntimeInv, NEW c \in Calls, Around(c), NEW l \in 0..MaxLeases, Own(l, lease, view)
    PROVE  Own(l, lease', view')
  BY Numbers DEF Own, Around

\* A handler that starts no connect and lets no poll past the check of the wallet,
\* and at most drops the session, keeps the owner invariant.
LEMMA OwnersKept ==
    ASSUME RuntimeInv, OwnerInv, NEW c \in Calls, NEW x, Moves(c, x), Around(c),
           x.op = "connect" => call[c].op = "connect" /\ x.context = call[c].context,
           Claims(x) => Claims(call[c]),
           session'.lease \in {0, session.lease},
           \/ shown' = shown \/ ~shown'.polled \/ shown'.about = 0
           \/ shown'.about = session'.lease /\ Own(session.lease, lease, view)
    PROVE  OwnerInv'
  <1>1. session.lease \in 0..MaxLeases /\ shown.about \in 0..MaxLeases /\ view' = view
    BY DEF RuntimeInv, RuntimeTypes, Sessions, Statuses, Around
  <1>2. \A a \in Calls :
          /\ call'[a].op = "connect" =>
               call[a].op = "connect" /\ call'[a].context = call[a].context
          /\ Claims(call'[a]) => Claims(call[a])
    BY DEF Moves, Claims
  <1>3. ASSUME NEW a \in Calls, call'[a].op = "connect", session'.lease # 0
        PROVE  lease'[session'.lease].owner = call'[a].context
    <2>1. /\ call[a].op = "connect" /\ call'[a].context = call[a].context
          /\ session'.lease = session.lease /\ session.lease \in Leases
      BY <1>1, <1>2, <1>3, Numbers
    <2>2. CallIsSound(a, call[a], reader[a], lease, view)
      BY DEF RuntimeInv, CallInv
    <2>3. call[a].context # NoContext
      BY <2>1, <2>2 DEF CallIsSound
    <2>4. lease[session.lease].owner = call[a].context
      BY <1>3, <2>1 DEF OwnerInv
    <2> QED BY <2>1, <2>3, <2>4 DEF Around
  <1>4. /\ Own(0, lease', view')
        /\ Own(session.lease, lease, view) => Own(session'.lease, lease', view')
    BY <1>1, OwnKept DEF Own
  <1>5. shown'.polled => Own(shown'.about, lease', view')
    <2>1. CASE shown' = shown
      BY <1>1, <2>1, OwnKept DEF OwnerInv
    <2> QED BY <1>4, <2>1
  <1>6. ASSUME NEW d \in Calls, Claims(call'[d])
        PROVE  /\ Own(session'.lease, lease', view')
               /\ \A a \in Calls : call'[a].op = "connect" => call'[a].context = view'
    BY <1>1, <1>2, <1>4, <1>6 DEF OwnerInv
  <1> QED BY <1>3, <1>5, <1>6 DEF OwnerInv

\* What the handlers leave of the shared variables while they move.
Leaves ==
    /\ state' \in States /\ session' \in Sessions
    /\ visible' \in BOOLEAN /\ mismatch' \in BOOLEAN
    /\ lease' = lease /\ tunnel' = tunnel /\ view' = view /\ faults' \in 0..MaxFaults
    /\ \/ session' \in {session, NoSession}
       \/ session'.pending /\ session'.lease = session.lease
    /\ ConnectedHasSession'

\* A handler that moves to a sound record and leaves the rest as above.
LEMMA MoveKeeps ==
    ASSUME RuntimeInv, NEW c \in Calls, NEW x \in CallRecords, Moves(c, x), Leaves,
           \A d \in Calls : d # c => reader'[d] = reader[d],
           CallIsSound(c, x, reader'[c], lease, view),
           call[c].step # "up", x.step # "up",
           x.op = "connect" => call[c].op = "connect" /\ x.context = call[c].context,
           Claims(x) => Claims(call[c]),
           shown' \in Statuses,
           OneActionInv =>
             \/ shown' = shown \/ ~shown'.polled \/ shown'.about = 0
             \/ shown'.about = session'.lease /\ Own(session.lease, lease, view)
    PROVE  Keeps
  <1>1. Around(c)
    BY DEF Around, Leaves
  <1>2. CallInv'
    <2>1. CallIsSound(c, x, reader'[c], lease', view')
      BY DEF Leaves
    <2> QED BY <1>1, <2>1, MoveIsSound, Zenon
  <1>3. RuntimeTypes'
    BY DEF RuntimeInv, RuntimeTypes, Leaves, Moves
  <1>4. session' \in {session, NoSession} \/ session'.pending
    BY DEF Leaves
  <1>5. session'.lease \in {0, session.lease}
    BY DEF Leaves, NoSession
  <1>6. tunnel' = tunnel \/ ~tunnel'.up
    BY DEF Leaves
  <1>7. ASSUME OneActionInv PROVE OneActionInv'
    <2>1. TunnelInv'
      BY <1>4, <1>6, <1>7, TunnelKept, Zenon DEF OneActionInv
    <2>2. OwnerInv'
      BY <1>1, <1>5, <1>7, OwnersKept, Zenon DEF OneActionInv
    <2> QED BY <2>1, <2>2 DEF OneActionInv
  <1> QED BY <1>2, <1>3, <1>7 DEF Keeps, Leaves

\* A handler that leaves the page's status alone.
LEMMA SilentMove ==
    ASSUME RuntimeInv, NEW c \in Calls, NEW x \in CallRecords, Moves(c, x), Leaves,
           \A d \in Calls : d # c => reader'[d] = reader[d],
           CallIsSound(c, x, reader'[c], lease, view),
           call[c].step # "up", x.step # "up",
           x.op = "connect" => call[c].op = "connect" /\ x.context = call[c].context,
           Claims(x) => Claims(call[c]),
           shown' = shown
    PROVE  Keeps
  <1>1. shown' \in Statuses
    BY DEF RuntimeInv, RuntimeTypes
  <1> QED BY <1>1, MoveKeeps, Zenon

\* A handler that is over, whether it returned or was rejected, is sound.
LEMMA RestIsSound ==
    ASSUME NEW c, NEW reading, NEW leases, NEW selected
    PROVE  /\ CallIsSound(c, NoCall, reading, leases, selected)
           /\ ~Claims(NoCall)
  BY NoCallType DEF CallIsSound, Claims

\* A handler that ends silently.
LEMMA EndKeeps ==
    ASSUME RuntimeInv, NEW c \in Calls, Leaves, call[c].step # "up",
           \A d \in Calls : d # c => reader'[d] = reader[d],
           \/ call' = [call EXCEPT ![c] = NoCall]
           \/ call' = [Replaced(call) EXCEPT ![c] = NoCall],
           shown' = shown
    PROVE  Keeps
  <1>1. Moves(c, NoCall)
    BY NoCallType, MovesBy DEF RuntimeInv
  <1>2. CallIsSound(c, NoCall, reader'[c], lease, view) /\ ~Claims(NoCall)
    BY RestIsSound, Zenon
  <1>3. NoCall \in CallRecords /\ NoCall.step # "up" /\ NoCall.op # "connect"
    BY NoCallType
  <1> QED BY <1>1, <1>2, <1>3, SilentMove, Zenon

\* A handler that returns its status, or hands over to the disconnectLocal that the
\* preload appends.
LEMMA AnswerKeeps ==
    ASSUME RuntimeInv, NEW c \in Calls, Leaves, call[c].step # "up",
           \A d \in Calls : d # c => reader'[d] = reader[d],
           reader'[c].step = "idle",
           NEW calls, calls = call \/ calls = Replaced(call),
           NEW status \in Statuses, Answer(calls, c, status),
           status.polled => call[c].op = "status",
           OneActionInv /\ call[c].op = "status" /\ call[c].fresh =>
             \/ status.about = 0
             \/ status.about = session'.lease /\ Own(session.lease, lease, view)
    PROVE  Keeps
  <1> DEFINE local == Goes(c, "local", "fallback", NoContext, 0)
  <1>1. CASE call' = [calls EXCEPT ![c] = NoCall] /\ Show(c, status)
    <2>1. Moves(c, NoCall)
      BY <1>1, NoCallType, MovesBy DEF RuntimeInv
    <2>2. CallIsSound(c, NoCall, reader'[c], lease, view) /\ ~Claims(NoCall)
      BY RestIsSound, Zenon
    <2>3. NoCall \in CallRecords /\ NoCall.step # "up" /\ NoCall.op # "connect"
      BY NoCallType
    <2>4. shown' \in Statuses
      BY <1>1 DEF Show, RuntimeInv, RuntimeTypes
    <2>5. OneActionInv =>
            \/ shown' = shown \/ ~shown'.polled \/ shown'.about = 0
            \/ shown'.about = session'.lease /\ Own(session.lease, lease, view)
      BY <1>1 DEF Show
    <2> QED BY <2>1, <2>2, <2>3, <2>4, <2>5, MoveKeeps, Zenon
  <1>2. CASE /\ call[c].op \in {"disconnect", "foreign"} /\ UNCHANGED shown
             /\ call' = [calls EXCEPT ![c] = local]
    <2>1. /\ local \in CallRecords /\ local.op = "local" /\ local.step = "fallback"
          /\ local.context = NoContext
      <3>1. /\ "local" \in Ops /\ "fallback" \in Steps /\ NoContext \in AnyContext
            /\ 0 \in 0..MaxLeases
        BY Numbers DEF Ops, Steps, AnyContext
      <3> QED BY <3>1, GoesType
    <2> HIDE DEF local
    <2>2. Moves(c, local)
      BY <1>2, <2>1, MovesBy DEF RuntimeInv
    <2>3. c \in Actions
      BY <1>2 DEF RuntimeInv, CallInv, CallIsSound
    <2>4. CallIsSound(c, local, reader'[c], lease, view) /\ ~Claims(local)
      BY <2>1, <2>3 DEF CallIsSound, Claims
    <2>5. local.step # "up" /\ local.op # "connect"
      BY <2>1
    <2> QED BY <1>2, <2>1, <2>2, <2>4, <2>5, SilentMove, Zenon
  <1> QED BY <1>1, <1>2 DEF Answer

\* Two updates of one record are one update.
LEMMA TwoUpdates ==
    ASSUME NEW f \in [Calls -> CallRecords], NEW c \in Calls, NEW step, NEW l, NEW saw
    PROVE  /\ [f EXCEPT ![c].step = step, ![c].lease = l]
                = [f EXCEPT ![c] = [f[c] EXCEPT !.step = step, !.lease = l]]
           /\ [f EXCEPT ![c].step = step, ![c].seen = saw]
                = [f EXCEPT ![c] = [f[c] EXCEPT !.step = step, !.seen = saw]]
  OBVIOUS

\* The record of a handler, and what it may rely on.
LEMMA Handler ==
    ASSUME RuntimeInv, NEW c \in Calls
    PROVE  /\ call[c] \in CallRecords /\ CallIsSound(c, call[c], reader[c], lease, view)
           /\ call[c].op \in Ops /\ call[c].step \in Steps /\ call[c].context \in AnyContext
           /\ call[c].lease \in 0..MaxLeases /\ call[c].seen \in Sightings
           /\ (call[c].op = "none" <=> call[c].step = "none")
           /\ call[c].op # "none" /\ call[c].step # "receipts" => reader[c].step = "idle"
  BY DEF RuntimeInv, RuntimeTypes, CallInv, CallIsSound, CallRecords

\* A step that leaves the shared variables alone.
LEMMA LeftAlone ==
    ASSUME RuntimeInv, UNCHANGED <<runtimeVars, lease, tunnel, view, faults>>
    PROVE  Leaves
  BY DEF RuntimeInv, RuntimeTypes, runtimeVars, Leaves, ConnectedHasSession

-----------------------------------------------------------------------------
(* The calls of the page *)

\* The page asks for the status.
LEMMA GetStatusKeeps == ASSUME RuntimeInv, NEW c \in Polls, GetStatus(c) PROVE Keeps
  <1> DEFINE x == Goes(c, "status", "query", view, 0)
  <1>1. /\ c \in Calls /\ view \in AnyContext /\ 0 \in 0..MaxLeases /\ "status" \in Ops
        /\ "query" \in Steps
    BY Numbers DEF Calls, RuntimeInv, RuntimeTypes, Ops, Steps
  <1>2. /\ x \in CallRecords /\ x.op = "status" /\ x.step = "query" /\ x.context = view
    BY <1>1, GoesType
  <1>3. call' = [call EXCEPT ![c] = x] /\ Free(c) /\ reader' = reader /\ shown' = shown
        /\ Leaves
    BY LeftAlone DEF GetStatus, Enter, receiptVars, uiVars
  <1> HIDE DEF x
  <1>4. Moves(c, x)
    BY <1>1, <1>2, <1>3, MovesBy DEF RuntimeInv
  <1>5. CallIsSound(c, x, reader'[c], lease, view) /\ ~Claims(x) /\ x.op # "connect"
    BY <1>2, <1>3 DEF CallIsSound, Claims, Free
  <1>6. call[c].step # "up" /\ x.step # "up"
    BY <1>1, <1>2, <1>3, Handler DEF Free
  <1>7. \A d \in Calls : d # c => reader'[d] = reader[d]
    BY <1>3
  <1> QED BY <1>1, <1>2, <1>3, <1>4, <1>5, <1>6, <1>7, SilentMove, Zenon

\* The user disconnects.
LEMMA DisconnectKeeps == ASSUME RuntimeInv, NEW c \in Actions, Disconnect(c) PROVE Keeps
  <1>1. /\ c \in Calls /\ view \in AnyContext /\ session.lease \in 0..MaxLeases
        /\ 0 \in 0..MaxLeases /\ "query" \in Steps /\ "down" \in Steps
        /\ "disconnect" \in Ops /\ "foreign" \in Ops
    BY Numbers DEF Calls, RuntimeInv, RuntimeTypes, Ops, Steps, Sessions
  <1>2. PICK x \in {Goes(c, "disconnect", "query", view, 0), Goes(c, "foreign", "query", view, 0),
                    Goes(c, "disconnect", "down", view, session.lease)} :
          call' = [call EXCEPT ![c] = x]
    BY DEF Disconnect, Enter
  <1>3. x \in CallRecords /\ x.op \in {"disconnect", "foreign"} /\ x.step \in {"query", "down"}
    BY <1>1, <1>2, GoesType
  <1>4. Free(c) /\ reader' = reader /\ shown' = shown
    BY DEF Disconnect, receiptVars, uiVars, Touch, Mark
  <1>5. Leaves
    BY DEF Disconnect, Touch, Mark, runtimeVars, uiVars, receiptVars, Leaves, RuntimeInv,
       RuntimeTypes, States, ConnectedHasSession
  <1>6. Moves(c, x)
    BY <1>1, <1>2, <1>3, MovesBy DEF RuntimeInv
  <1>7. CallIsSound(c, x, reader'[c], lease, view) /\ ~Claims(x) /\ x.op # "connect"
    BY <1>3, <1>4 DEF CallIsSound, Claims, Free
  <1>8. call[c].step # "up" /\ x.step # "up"
    BY <1>1, <1>3, <1>4, Handler DEF Free
  <1>9. \A d \in Calls : d # c => reader'[d] = reader[d]
    BY <1>4
  <1> QED BY <1>1, <1>3, <1>4, <1>5, <1>6, <1>7, <1>8, <1>9, SilentMove, Zenon

\* disconnectLocal, called by the page or after a disconnect.
LEMMA DisconnectLocalKeeps ==
    ASSUME RuntimeInv, NEW c \in Actions, DisconnectLocal(c) PROVE Keeps
  <1> DEFINE x == Goes(c, "local", "down", NoContext, 0)
  <1>1. /\ c \in Calls /\ NoContext \in AnyContext /\ 0 \in 0..MaxLeases
        /\ "down" \in Steps /\ "local" \in Ops
    BY Numbers DEF Calls, AnyContext, Ops, Steps
  <1>2. x \in CallRecords /\ x.op = "local" /\ x.step = "down" /\ x.context = NoContext
    BY <1>1, GoesType
  <1>3. /\ Free(c) \/ call[c].step = "fallback"
        /\ call' = [call EXCEPT ![c] = x] /\ reader' = reader /\ shown' = shown
    BY DEF DisconnectLocal, Enter, receiptVars, uiVars
  <1> HIDE DEF x
  <1>4. Leaves
    BY DEF DisconnectLocal, uiVars, Leaves, RuntimeInv, RuntimeTypes, States,
       ConnectedHasSession
  <1>5. Moves(c, x)
    BY <1>1, <1>2, <1>3, MovesBy DEF RuntimeInv
  <1>6. reader[c].step = "idle" /\ call[c].step # "up"
    BY <1>1, <1>3, Handler DEF Free
  <1>7. CallIsSound(c, x, reader'[c], lease, view) /\ ~Claims(x) /\ x.op # "connect"
    BY <1>2, <1>3, <1>6 DEF CallIsSound, Claims
  <1>8. x.step # "up" /\ \A d \in Calls : d # c => reader'[d] = reader[d]
    BY <1>2, <1>3
  <1> QED BY <1>1, <1>2, <1>3, <1>4, <1>5, <1>6, <1>7, <1>8, SilentMove, Zenon

\* The user has the controller repaired.
LEMMA RepairKeeps == ASSUME RuntimeInv, NEW c \in Actions, Repair(c) PROVE Keeps
  <1> DEFINE x == Goes(c, "repair", "mend", NoContext, 0)
  <1>1. /\ c \in Calls /\ NoContext \in AnyContext /\ 0 \in 0..MaxLeases
        /\ "mend" \in Steps /\ "repair" \in Ops
    BY Numbers DEF Calls, AnyContext, Ops, Steps
  <1>2. x \in CallRecords /\ x.op = "repair" /\ x.step = "mend" /\ x.context = NoContext
    BY <1>1, GoesType
  <1>3. /\ Free(c) /\ call' = [call EXCEPT ![c] = x] /\ reader' = reader /\ shown' = shown
        /\ Leaves
    BY LeftAlone DEF Repair, Enter, receiptVars, uiVars
  <1> HIDE DEF x
  <1>4. Moves(c, x)
    BY <1>1, <1>2, <1>3, MovesBy DEF RuntimeInv
  <1>5. CallIsSound(c, x, reader'[c], lease, view) /\ ~Claims(x) /\ x.op # "connect"
    BY <1>2, <1>3 DEF CallIsSound, Claims, Free
  <1>6. call[c].step # "up" /\ x.step # "up"
    BY <1>1, <1>2, <1>3, Handler DEF Free
  <1>7. \A d \in Calls : d # c => reader'[d] = reader[d]
    BY <1>3
  <1> QED BY <1>1, <1>2, <1>3, <1>4, <1>5, <1>6, <1>7, SilentMove, Zenon

\* The user connects: the wallet that connects is the selected one, and a session it
\* finds is its own.
LEMMA ConnectKeeps == ASSUME RuntimeInv, NEW c \in Actions, Connect(c) PROVE Keeps
  <1>1. /\ c \in Calls /\ view \in AnyContext /\ session.lease \in 0..MaxLeases
        /\ 0 \in 0..MaxLeases /\ "query" \in Steps /\ "down" \in Steps /\ "connect" \in Ops
    BY Numbers DEF Calls, RuntimeInv, RuntimeTypes, Ops, Steps, Sessions
  <1>2. /\ Free(c) /\ view # NoContext /\ reader' = reader /\ shown' = shown
        /\ UNCHANGED <<session, lease, tunnel, view>>
    BY DEF Connect, Touch, Mark, uiVars
  <1>3. Leaves
    BY DEF Connect, Touch, Mark, uiVars, Leaves, RuntimeInv, RuntimeTypes, States,
       ConnectedHasSession
  <1>4. \A d \in Calls : d # c => reader'[d] = reader[d]
    BY <1>2
  <1>5. call[c].step # "up" /\ call[c].op # "connect"
    BY <1>1, <1>2, Handler DEF Free
  <1>6. CASE Foreign(view)
    <2>1. call' = call
      BY <1>6 DEF Connect
    <2>2. Moves(c, call[c]) /\ call[c] \in CallRecords
      BY <1>1, <2>1 DEF Moves, RuntimeInv, RuntimeTypes
    <2>3. CallIsSound(c, call[c], reader'[c], lease, view)
      BY <1>1, <1>2, Handler
    <2> QED BY <1>1, <1>2, <1>3, <1>4, <1>5, <2>2, <2>3, SilentMove, Zenon
  <1>7. CASE ~Foreign(view)
    <2>1. PICK x \in {Goes(c, "connect", "down", view, session.lease),
                      Goes(c, "connect", "query", view, 0)} : call' = [call EXCEPT ![c] = x]
      BY <1>7 DEF Connect, Enter
    <2>2. x \in CallRecords /\ x.op = "connect" /\ x.step \in {"query", "down"}
          /\ x.context = view
      BY <1>1, <2>1, GoesType
    <2>3. Moves(c, x)
      BY <1>1, <2>1, <2>2, MovesBy DEF RuntimeInv
    <2>4. CallIsSound(c, x, reader'[c], lease', view') /\ ~Claims(x) /\ x.step # "up"
      BY <1>2, <2>2 DEF CallIsSound, Claims, Free
    <2>5. CallInv'
      <3>1. Around(c)
        BY <1>2 DEF Around
      <3> QED BY <1>1, <2>2, <2>3, <2>4, <3>1, MoveIsSound, Zenon
    <2>6. RuntimeTypes'
      BY <1>2, <1>3, <2>3 DEF RuntimeInv, RuntimeTypes, Leaves, Moves
    <2>7. ASSUME OneActionInv PROVE OneActionInv'
      <3>1. TunnelInv'
        BY <1>1, <1>2, <1>5, <2>3, <2>4, <2>7, TunnelKept, Zenon DEF OneActionInv
      <3>2. \A a \in Calls : a # c => call'[a].op = call[a].op
              /\ call'[a].context = call[a].context /\ (Claims(call'[a]) => Claims(call[a]))
        BY <2>3 DEF Moves, Claims
      <3>3. call'[c] = x
        BY <2>3 DEF Moves
      <3>4. session.lease # 0 => lease[session.lease].owner = view
        BY <1>7 DEF Foreign
      <3>5. OwnerInv'
        BY <1>2, <2>2, <2>4, <2>7, <3>2, <3>3, <3>4 DEF OneActionInv, OwnerInv, Own
      <3> QED BY <3>1, <3>5 DEF OneActionInv
    <2> QED BY <1>3, <2>5, <2>6, <2>7 DEF Keeps, Leaves
  <1> QED BY <1>6, <1>7

-----------------------------------------------------------------------------
(* The controller program *)

\* A command ends; if it brings a tunnel up, the connect that asked for it knows.
LEMMA ControlKeeps == ASSUME RuntimeInv, NEW c \in Calls, Control(c) PROVE Keeps
  <1>1. /\ tunnel' \in {tunnel, Commanded(c)}
        /\ \E got \in {"answer", "error"}, up \in {tunnel'.up, FALSE},
              repair \in {tunnel'.repair, FALSE} :
             /\ call' = [call EXCEPT ![c].seen =
                            [got |-> got, up |-> up, repair |-> repair]]
             /\ call[c].step = "up" /\ got = "answer" => tunnel' = Commanded(c)
    BY DEF Control, Reports, ReportsMissing, Unseen
  <1>2. /\ call[c].step \in {"query", "up", "down", "mend"} /\ faults' \in 0..MaxFaults
        /\ UNCHANGED <<receiptsContext, newest, receipts, version, reader>>
        /\ UNCHANGED <<state, session, visible, mismatch, lease, view, shown>>
    BY RuntimeConstants
       DEF Control, Fault, RuntimeInv, RuntimeTypes, receiptVars, runtimeVars, uiVars
  <1>3. /\ call[c].step = "query" => Commanded(c) = tunnel
        /\ call[c].step = "up" => Commanded(c) = [tunnel EXCEPT !.up = TRUE,
                                                                !.lease = call[c].lease]
        /\ call[c].step = "down" => Commanded(c) = [tunnel EXCEPT !.up = FALSE, !.lease = 0]
        /\ call[c].step = "mend" => Commanded(c) = [up |-> FALSE, lease |-> 0,
                                                    repair |-> FALSE]
    BY DEF Commanded
  <1>4. /\ tunnel \in Tunnels /\ call[c].lease \in 0..MaxLeases
        /\ CallIsSound(c, call[c], reader[c], lease, view)
    BY Handler DEF RuntimeInv, RuntimeTypes
  <1>5. /\ Commanded(c) \in Tunnels
        /\ call[c].step \in {"down", "mend"} => ~Commanded(c).up
        /\ call[c].step = "up" => Commanded(c).lease = call[c].lease
    <2>1. CASE call[c].step = "query"
      <3>1. Commanded(c) \in Tunnels
        BY <1>3, <1>4, <2>1
      <3>2. call[c].step \notin {"down", "mend", "up"}
        BY <2>1
      <3> QED BY <3>1, <3>2, Zenon
    <2>2. CASE call[c].step = "up"
      <3>1. Commanded(c) = [tunnel EXCEPT !.up = TRUE, !.lease = call[c].lease]
        BY <1>3, <2>2
      <3>2. Commanded(c) \in Tunnels
        BY <1>4, <3>1, Zenon DEF Tunnels
      <3> QED BY <1>4, <2>2, <3>1, <3>2 DEF Tunnels
    <2>3. CASE call[c].step = "down"
      <3>1. Commanded(c) = [tunnel EXCEPT !.up = FALSE, !.lease = 0] /\ 0 \in 0..MaxLeases
        BY <1>3, <2>3, Numbers
      <3>2. Commanded(c) \in Tunnels
        BY <1>4, <3>1, Zenon DEF Tunnels
      <3> QED BY <1>4, <2>3, <3>1, <3>2 DEF Tunnels
    <2>4. CASE call[c].step = "mend"
      <3>1. Commanded(c) = [up |-> FALSE, lease |-> 0, repair |-> FALSE]
        BY <1>3, <2>4
      <3>2. Commanded(c) \in Tunnels /\ ~Commanded(c).up
        BY <3>1, Numbers DEF Tunnels
      <3>3. call[c].step # "up"
        BY <2>4
      <3> QED BY <3>2, <3>3
    <2> QED BY <1>2, <2>1, <2>2, <2>3, <2>4
  <1>6. PICK saw \in Sightings :
          /\ saw.got \in {"answer", "error"}
          /\ call' = [call EXCEPT ![c].seen = saw]
          /\ call[c].step = "up" /\ saw.got = "answer" => tunnel' = Commanded(c)
    <2>1. tunnel'.up \in BOOLEAN /\ tunnel'.repair \in BOOLEAN
      BY <1>1, <1>4, <1>5 DEF Tunnels
    <2>2. \A got \in {"answer", "error"}, up \in BOOLEAN, repair \in BOOLEAN :
              LET sight == [got |-> got, up |-> up, repair |-> repair]
              IN  sight \in Sightings /\ sight.got = got
                  /\ sight.got \in {"answer", "error"}
      BY DEF Sightings
    <2>3. PICK got \in {"answer", "error"}, up \in BOOLEAN, repair \in BOOLEAN :
             /\ call' = [call EXCEPT ![c].seen =
                            [got |-> got, up |-> up, repair |-> repair]]
             /\ call[c].step = "up" /\ got = "answer" => tunnel' = Commanded(c)
      BY <1>1, <2>1
    <2> QED BY <2>2, <2>3
  <1> DEFINE x == [call[c] EXCEPT !.seen = saw]
  <1>7. tunnel' \in Tunnels /\ call' = [call EXCEPT ![c] = x]
    BY <1>1, <1>4, <1>5, <1>6, Zenon
  <1>8. /\ x \in CallRecords /\ x.op = call[c].op /\ x.step = call[c].step
        /\ x.context = call[c].context /\ x.lease = call[c].lease /\ x.fresh = call[c].fresh
        /\ x.seen = saw
    <2>1. call[c] \in CallRecords
      BY Handler
    <2> QED BY <1>6, <2>1, SeenUpdate
  <1> HIDE DEF x
  <1>9. Moves(c, x)
    BY <1>7, <1>8, MovesBy DEF RuntimeInv
  <1>10. Around(c)
    BY <1>2 DEF Around
  <1>11. CallInv'
    <2>1. CallIsSound(c, x, reader'[c], lease', view')
      BY <1>2, <1>4, <1>8 DEF CallIsSound
    <2> QED BY <1>8, <1>9, <1>10, <2>1, MoveIsSound, Zenon
  <1>12. RuntimeTypes' /\ ConnectedHasSession'
    BY <1>2, <1>7, <1>9 DEF RuntimeInv, RuntimeTypes, Moves, ConnectedHasSession
  <1>13. ASSUME OneAction, TunnelInv PROVE TunnelInv'
    <2>1. CASE call[c].step # "up"
      <3>1. tunnel' = tunnel \/ ~tunnel'.up
        BY <1>1, <1>2, <1>3, <1>5, <2>1
      <3>2. session' \in {session, NoSession} \/ session'.pending
        BY <1>2
      <3> QED BY <1>8, <1>9, <1>13, <2>1, <3>1, <3>2, TunnelKept, Zenon
    <2>2. CASE call[c].step = "up"
      <3>1. /\ call'[c].step = "up" /\ call'[c].lease = call[c].lease
            /\ call'[c].seen.got = saw.got /\ saw.got # "nothing"
        BY <1>6, <1>8, <1>9, <2>2 DEF Moves
      <3>2. \A a \in Calls : call'[a].step = "up" => a = c
        <4> SUFFICES ASSUME NEW a \in Calls, call'[a].step = "up" PROVE a = c
          OBVIOUS
        <4>1. CallIsSound(a, call'[a], reader'[a], lease', view')
              /\ CallIsSound(c, call'[c], reader'[c], lease', view')
          BY <1>11 DEF CallInv
        <4>2. a \in Actions /\ c \in Actions
          BY <3>1, <4>1 DEF CallIsSound
        <4> QED BY <1>13, <4>2 DEF OneAction
      <3>3. saw.got = "answer" => tunnel'.lease = call[c].lease
        BY <1>5, <1>6, <2>2
      <3> QED BY <3>1, <3>2, <3>3 DEF TunnelInv
    <2> QED BY <2>1, <2>2
  <1>14. ASSUME OwnerInv PROVE OwnerInv'
    <2>1. Claims(x) => Claims(call[c])
      BY <1>8 DEF Claims
    <2>2. session'.lease \in {0, session.lease}
      BY <1>2
    <2> QED BY <1>2, <1>8, <1>9, <1>10, <1>14, <2>1, <2>2, OwnersKept, Zenon
  <1> QED BY <1>11, <1>12, <1>13, <1>14 DEF Keeps, OneActionInv

\* A failed command ends its handler.
LEMMA CommandFailedKeeps == ASSUME RuntimeInv, NEW c \in Calls, CommandFailed(c) PROVE Keeps
  <1>1. /\ call' = [call EXCEPT ![c] = NoCall] /\ reader' = reader /\ shown' = shown
        /\ call[c].step # "up"
    BY DEF CommandFailed, receiptVars, uiVars
  <1>2. Leaves
    BY DEF CommandFailed, uiVars, RuntimeInv, RuntimeTypes, Leaves, States,
       ConnectedHasSession
  <1> QED BY <1>1, <1>2, EndKeeps

-----------------------------------------------------------------------------
(* reconcile *)

\* The state in which reconcile ends is the one it found or the one that overrides it.
LEMMA EndsIn ==
    ASSUME NEW c, NEW st, Ends(c, st)
    PROVE  state' \in {st, "repair-needed", "idle"}
  BY DEF Ends

\* A page without a wallet gets the local status.
LEMMA UseLocalStatusKeeps == ASSUME RuntimeInv, NEW c \in Calls, UseLocalStatus(c) PROVE Keeps
  <1>1. /\ call[c].op = "status" /\ call[c].step = "query" /\ reader' = reader
        /\ UNCHANGED <<runtimeVars, lease, tunnel, view, faults>>
        /\ Answer(call, c, BuiltLocally(c))
    BY DEF UseLocalStatus, Seen, receiptVars
  <1>2. Leaves
    BY <1>1, LeftAlone
  <1>3. reader'[c].step = "idle" /\ \A d \in Calls : d # c => reader'[d] = reader[d]
    BY <1>1, Handler
  <1>4. BuiltLocally(c) \in Statuses /\ BuiltLocally(c).about = 0
    BY StatusTypes DEF RuntimeInv
  <1>5. call[c].step # "up"
    BY <1>1
  <1> QED BY <1>1, <1>2, <1>3, <1>4, <1>5, AnswerKeeps

\* The reconcile that knows what the controller reported.
LEMMA UseQueryKeeps == ASSUME RuntimeInv, NEW c \in Calls, UseQuery(c) PROVE Keeps
  <1>1. /\ Reconciles(c) /\ call[c].context # NoContext /\ call[c].step = "query"
        /\ UNCHANGED <<lease, tunnel, view, faults>>
    BY DEF UseQuery, Seen
  <1>2. reader' = reader
    BY DEF UseQuery, FindsNoSession, FindsForeignSession, FindsExpiredSession, FindsSession,
       Touch
  <1>3. reader'[c].step = "idle" /\ \A d \in Calls : d # c => reader'[d] = reader[d]
    BY <1>1, <1>2, Handler DEF Reconciles
  <1>4. call[c].step # "up"
    BY <1>1
  <1>5. SeenBy(c).repair \in BOOLEAN /\ SeenBy(c).up \in BOOLEAN /\ RuntimeTypes
    BY Handler DEF SeenBy, Sightings, RuntimeInv
  <1>6. CASE FindsNoSession(c)
    <2>1. UNCHANGED session /\ session.lease = 0 /\ visible' = TRUE /\ mismatch' \in BOOLEAN
          /\ Answer(call, c, Built(c))
      BY <1>5, <1>6 DEF FindsNoSession, RuntimeTypes
    <2>2. state' \in {"repair-needed", "idle", "error"}
      BY <1>6, EndsIn DEF FindsNoSession, StateAfterQuery
    <2>3. Leaves
      BY <1>1, <1>5, <2>1, <2>2 DEF Leaves, RuntimeTypes, States, ConnectedHasSession
    <2>4. Built(c) \in Statuses /\ Built(c).about = 0 /\ Built(c).polled = (call[c].op = "status")
      BY <1>5, <2>1, <2>3, StatusTypes DEF Leaves
    <2> QED BY <1>3, <1>4, <2>1, <2>3, <2>4, AnswerKeeps
  <1>7. CASE FindsForeignSession(c)
    <2>1. UNCHANGED session /\ visible' = FALSE /\ mismatch' = TRUE
          /\ Answer(call, c, Built(c))
      BY <1>7 DEF FindsForeignSession
    <2>2. state' \in {"repair-needed", "idle"}
      BY <1>7, EndsIn DEF FindsForeignSession
    <2>3. Leaves
      BY <1>1, <1>5, <2>1, <2>2 DEF Leaves, RuntimeTypes, States, ConnectedHasSession
    <2>4. Built(c) \in Statuses /\ Built(c).about = 0 /\ Built(c).polled = (call[c].op = "status")
      BY <1>5, <2>1, <2>3, StatusTypes DEF Leaves
    <2> QED BY <1>3, <1>4, <2>1, <2>3, <2>4, AnswerKeeps
  <1>8. CASE FindsExpiredSession(c)
    <2>1. session' = NoSession /\ visible' = TRUE /\ mismatch' = FALSE
          /\ Answer(Replaced(call), c, Built(c))
      BY <1>8 DEF FindsExpiredSession
    <2>2. state' \in {"repair-needed", "idle"}
      BY <1>8, EndsIn DEF FindsExpiredSession
    <2>3. Leaves
      BY <1>1, <1>5, <2>1, <2>2, Numbers DEF Leaves, RuntimeTypes, States, Sessions,
         NoSession, ConnectedHasSession
    <2>4. Built(c) \in Statuses /\ Built(c).about = 0 /\ Built(c).polled = (call[c].op = "status")
      BY <1>5, <2>1, <2>3, StatusTypes DEF Leaves, NoSession
    <2> QED BY <1>3, <1>4, <2>1, <2>3, <2>4, AnswerKeeps
  <1>9. CASE FindsSession(c)
    <2> DEFINE x == [call[c] EXCEPT !.step = "remote", !.lease = session.lease]
    <2>1. /\ UNCHANGED <<session, shown>> /\ session.lease # 0
          /\ lease[session.lease].owner = call[c].context
          /\ state' = StateAfterQuery(c)
          /\ visible' \in BOOLEAN /\ mismatch' \in BOOLEAN
          /\ call' = [call EXCEPT ![c].step = "remote", ![c].lease = session.lease]
      BY <1>5, <1>9 DEF FindsSession, Foreign, RuntimeTypes
    <2>2. call' = [call EXCEPT ![c] = x]
      BY <2>1, TwoUpdates DEF RuntimeInv, RuntimeTypes
    <2>3. /\ x \in CallRecords /\ x.op = call[c].op /\ x.step = "remote"
          /\ x.context = call[c].context /\ x.lease = session.lease
          /\ x.fresh = call[c].fresh
      <3>1. call[c] \in CallRecords /\ session.lease \in 0..MaxLeases /\ "remote" \in Steps
        BY <1>5, Handler DEF RuntimeTypes, Sessions, Steps
      <3>2. x \in CallRecords
        BY <3>1, Zenon DEF CallRecords
      <3> QED BY <3>1, <3>2 DEF CallRecords
    <2> HIDE DEF x
    <2>4. Moves(c, x)
      BY <2>2, <2>3, MovesBy DEF RuntimeInv
    <2>5. Leaves
      BY <1>1, <1>5, <2>1 DEF Leaves, RuntimeTypes, States, StateAfterQuery,
         RuntimeInv, ConnectedHasSession
    <2>6. CallIsSound(c, call[c], reader[c], lease, view)
      BY Handler
    <2>7. CallIsSound(c, x, reader'[c], lease', view')
      BY <1>1, <1>3, <2>1, <2>3, <2>6 DEF CallIsSound, Reconciles
    <2>8. CallInv'
      <3>1. Around(c)
        BY <1>1, <1>3 DEF Around
      <3> QED BY <2>3, <2>4, <2>7, <3>1, MoveIsSound, Zenon
    <2>9. RuntimeTypes'
      BY <1>1, <1>5, <2>1, <2>4, <2>5 DEF RuntimeTypes, Leaves, Moves
    <2>10. ASSUME OneActionInv PROVE OneActionInv'
      <3>1. TunnelInv'
        <4>1. /\ tunnel' = tunnel \/ ~tunnel'.up
              /\ session' \in {session, NoSession} \/ session'.pending
          BY <1>1, <2>1
        <4> QED BY <1>4, <2>3, <2>4, <2>10, <4>1, TunnelKept, Zenon DEF OneActionInv
      <3>2. \A a \in Calls : a # c => call'[a].op = call[a].op
              /\ call'[a].context = call[a].context /\ (Claims(call'[a]) => Claims(call[a]))
        BY <2>4 DEF Moves, Claims
      <3>3. call'[c] = x
        BY <2>4 DEF Moves
      <3>4. Claims(x) => /\ Own(session.lease, lease, view)
                         /\ \A a \in Calls : call[a].op = "connect" => call[a].context = view
        BY <1>1, <2>1, <2>3, <2>6, <2>10 DEF Claims, Own, CallIsSound, OneActionInv, OwnerInv
      <3>5. OwnerInv'
        BY <1>1, <2>1, <2>3, <2>10, <3>2, <3>3, <3>4 DEF OneActionInv, OwnerInv, Own
      <3> QED BY <3>1, <3>5 DEF OneActionInv
    <2> QED BY <2>5, <2>8, <2>9, <2>10 DEF Keeps, Leaves
  <1> QED BY <1>6, <1>7, <1>8, <1>9 DEF UseQuery

\* A handler that is rejected.
LEMMA RejectKeeps ==
    ASSUME RuntimeInv, NEW c \in Calls, Reject(c), call[c].step # "up",
           UNCHANGED <<lease, tunnel, view>>, faults' \in 0..MaxFaults
    PROVE  Keeps
  <1>1. call' = [call EXCEPT ![c] = NoCall] /\ reader' = reader /\ shown' = shown
    BY DEF Reject, receiptVars
  <1>2. Leaves
    BY DEF Reject, runtimeVars, RuntimeInv, RuntimeTypes, Leaves, ConnectedHasSession
  <1> QED BY <1>1, <1>2, EndKeeps

\* A poll past the check of the wallet shows the session only while it is its wallet's.
LEMMA ClaimsOwn ==
    ASSUME NEW c \in Calls, OneActionInv, Claims(call[c])
    PROVE  Own(session.lease, lease, view)
  BY DEF OneActionInv, OwnerInv

\* The server answers a reconcile.
LEMMA ServeRemoteKeeps == ASSUME RuntimeInv, NEW c \in Calls, ServeRemote(c) PROVE Keeps
  <1> DEFINE served == IF lease[call[c].lease].gone THEN "absent" ELSE "present"
             x == [call[c] EXCEPT !.step = served]
  <1>1. /\ call[c].step = "remote" /\ call[c].step # "up" /\ reader' = reader
        /\ shown' = shown /\ UNCHANGED <<runtimeVars, lease, tunnel, view, faults>>
        /\ served \in {"present", "absent"}
        /\ call' = [call EXCEPT ![c] = x]
    BY DEF ServeRemote, receiptVars, uiVars
  <1> HIDE DEF served
  <1>2. /\ x \in CallRecords /\ x.op = call[c].op /\ x.step = served
        /\ x.context = call[c].context /\ x.fresh = call[c].fresh
        /\ x.lease = call[c].lease
    <2>1. call[c] \in CallRecords /\ served \in Steps
      BY <1>1, Handler DEF Steps
    <2>2. x \in CallRecords
      BY <2>1, Zenon DEF CallRecords
    <2> QED BY <2>1, <2>2 DEF CallRecords
  <1> HIDE DEF x
  <1>3. Moves(c, x)
    BY <1>1, <1>2, MovesBy DEF RuntimeInv
  <1>4. Leaves
    BY <1>1, LeftAlone
  <1>5. CallIsSound(c, call[c], reader[c], lease, view)
    BY Handler
  <1>6. CallIsSound(c, x, reader'[c], lease, view)
    BY <1>1, <1>2, <1>5 DEF CallIsSound
  <1>7. /\ x.step # "up" /\ (Claims(x) => Claims(call[c]))
        /\ (x.op = "connect" => call[c].op = "connect" /\ x.context = call[c].context)
        /\ \A d \in Calls : d # c => reader'[d] = reader[d]
    BY <1>1, <1>2 DEF Claims
  <1> QED BY <1>1, <1>2, <1>3, <1>4, <1>6, <1>7, SilentMove, Zenon

\* The reconcile that knows what the server has.
LEMMA UseRemoteKeeps == ASSUME RuntimeInv, NEW c \in Calls, UseRemote(c) PROVE Keeps
  <1>1. call[c].step \in {"remote", "present", "absent"} /\ call[c].step # "up" /\ call[c].op # "none"
        /\ UNCHANGED <<lease, tunnel, view>>
    BY Handler DEF UseRemote
  <1>2. /\ CallIsSound(c, call[c], reader[c], lease, view) /\ reader[c].step = "idle"
        /\ SeenBy(c).repair \in BOOLEAN /\ SeenBy(c).up \in BOOLEAN /\ RuntimeTypes
    BY <1>1, Handler DEF SeenBy, Sightings, RuntimeInv
  <1>3. faults' \in 0..MaxFaults
    BY <1>2, RuntimeConstants DEF UseRemote, Fault, RuntimeTypes
  <1>4. OneActionInv /\ call[c].op = "status" /\ call[c].fresh =>
          Own(session.lease, lease, view)
    BY <1>1, ClaimsOwn DEF Claims
  <1>5. CASE Reject(c)
    BY <1>1, <1>3, <1>5, RejectKeeps
  <1>6. ASSUME RemoteHasLease(c), ~Reject(c) PROVE Keeps
    <2>1. /\ session.lease = call[c].lease /\ session.lease # 0
          /\ UNCHANGED <<receiptVars, session, visible>> /\ mismatch' = FALSE
          /\ Answer(Replaced(call), c, Built(c))
          /\ Ends(c, IF session.pending \/ ~SeenBy(c).up THEN "remote-expiry-pending"
                     ELSE IF SeenBy(c).repair THEN "repair-needed" ELSE "connected")
      BY <1>1, <1>2, <1>6 DEF RemoteHasLease, CallIsSound
    <2>2. \/ state' \in {"remote-expiry-pending", "repair-needed", "idle"}
          \/ (state' = "connected" /\ ~session.pending)
      BY <1>2, <2>1 DEF Ends
    <2>3. Leaves
      BY <1>1, <1>2, <1>3, <2>1, <2>2 DEF Leaves, RuntimeTypes, States, ConnectedHasSession
    <2>4. /\ Built(c) \in Statuses /\ Built(c).about \in {0, session'.lease}
          /\ Built(c).polled = (call[c].op = "status")
      BY <1>2, <2>3, StatusTypes DEF Leaves
    <2>5. reader'[c].step = "idle" /\ \A d \in Calls : d # c => reader'[d] = reader[d]
      BY <1>2, <2>1 DEF receiptVars
    <2> QED BY <1>1, <1>4, <2>1, <2>3, <2>4, <2>5, AnswerKeeps
  <1>7. CASE RemoteHasNone(c)
    <2>1. CASE SeenBy(c).up
      <3>1. /\ UNCHANGED <<receiptVars, session, visible>> /\ mismatch' = FALSE
            /\ Answer(call, c, Built(c)) /\ Ends(c, "repair-needed")
        BY <1>7, <2>1 DEF RemoteHasNone
      <3>2. state' \in {"repair-needed", "idle"}
        BY <3>1, EndsIn
      <3>3. Leaves
        BY <1>1, <1>2, <1>3, <3>1, <3>2 DEF Leaves, RuntimeTypes, States, ConnectedHasSession
      <3>4. /\ Built(c) \in Statuses /\ Built(c).about \in {0, session'.lease}
            /\ Built(c).polled = (call[c].op = "status")
        BY <1>2, <3>3, StatusTypes DEF Leaves
      <3>5. reader'[c].step = "idle" /\ \A d \in Calls : d # c => reader'[d] = reader[d]
        BY <1>2, <3>1 DEF receiptVars
      <3> QED BY <1>1, <1>4, <3>1, <3>3, <3>4, <3>5, AnswerKeeps
    <2>2. CASE ~SeenBy(c).up
      <3> DEFINE held == Replaced(call)[c]
                 x == [held EXCEPT !.step = "receipts", !.lease = 0]
      <3>1. /\ session' = NoSession /\ state' = "idle" /\ mismatch' = FALSE
            /\ UNCHANGED <<visible, shown>> /\ BeginSync(c, call[c].context)
            /\ call' = [Replaced(call) EXCEPT ![c].step = "receipts", ![c].lease = 0]
        BY <1>7, <2>2 DEF RemoteHasNone
      <3>2. Replaced(call) \in [Calls -> CallRecords]
            /\ held = [call[c] EXCEPT !.held = FALSE]
        BY <1>2, Releasing DEF RuntimeTypes
      <3>3. call' = [Replaced(call) EXCEPT ![c] = x]
        BY <3>1, <3>2, TwoUpdates
      <3>4. held \in CallRecords /\ held.op = call[c].op /\ held.context = call[c].context
            /\ held.fresh = call[c].fresh
        BY <3>2, Handler, HeldUpdate
      <3> HIDE DEF held
      <3>5. /\ x \in CallRecords /\ x.op = call[c].op /\ x.step = "receipts"
            /\ x.context = call[c].context /\ x.fresh = call[c].fresh
        <4>1. "receipts" \in Steps /\ 0 \in 0..MaxLeases
          BY Numbers DEF Steps
        <4>2. x \in CallRecords
          BY <3>4, <4>1, Zenon DEF CallRecords
        <4> QED BY <3>4, <4>1, <4>2 DEF CallRecords
      <3> HIDE DEF x
      <3>6. Moves(c, x)
        BY <1>2, <3>3, <3>5, MovesBy
      <3>7. Leaves
        BY <1>1, <1>2, <1>3, <3>1, Numbers DEF Leaves, RuntimeTypes, States, Sessions,
           NoSession, ConnectedHasSession
      <3>8. CallIsSound(c, x, reader'[c], lease, view)
        BY <1>1, <1>2, <3>5 DEF CallIsSound
      <3>9. x.step # "up" /\ (Claims(x) => Claims(call[c])) /\ shown' = shown
            /\ (x.op = "connect" => call[c].op = "connect" /\ x.context = call[c].context)
        BY <1>1, <3>1, <3>5 DEF Claims
      <3>10. \A d \in Calls : d # c => reader'[d] = reader[d]
        BY <1>2, <3>1, Numbers DEF BeginSync, RuntimeInv, IInv, ReceiptsTypeOK
      <3> QED BY <1>1, <3>5, <3>6, <3>7, <3>8, <3>9, <3>10, SilentMove, Zenon
    <2> QED BY <2>1, <2>2
  <1> QED BY <1>5, <1>6, <1>7 DEF UseRemote

\* The reconcile whose receipts arrived or failed.
LEMMA UseReceiptsOfStatusKeeps ==
    ASSUME RuntimeInv, NEW c \in Calls, UseReceiptsOfStatus(c) PROVE Keeps
  <1>1. /\ call[c].step = "receipts" /\ call[c].step # "up" /\ Ends(c, state)
        /\ UNCHANGED <<session, visible, mismatch, lease, tunnel, view, faults>>
        /\ Answer(call, c, Built(c)) /\ RuntimeTypes
    BY DEF UseReceiptsOfStatus, RuntimeInv
  <1>2. reader'[c].step = "idle" /\ \A d \in Calls : d # c => reader'[d] = reader[d]
    <2>1. CASE reader[c].step = "over"
      <3>1. reader' = [reader EXCEPT ![c] = NotReading] /\ NotReading.step = "idle"
        BY <2>1 DEF UseReceiptsOfStatus, DropReceipts, NotReading
      <3> QED BY <3>1, Numbers DEF RuntimeInv, IInv, ReceiptsTypeOK
    <2>2. CASE reader[c].step # "over"
      BY <2>2 DEF UseReceiptsOfStatus, receiptVars
    <2> QED BY <2>1, <2>2
  <1>3. state' \in {state, "repair-needed", "idle"}
    BY <1>1, EndsIn
  <1>4. Leaves
    BY <1>1, <1>3 DEF Leaves, RuntimeTypes, States, RuntimeInv, ConnectedHasSession
  <1>5. /\ Built(c) \in Statuses /\ Built(c).about \in {0, session'.lease}
        /\ Built(c).polled = (call[c].op = "status")
    BY <1>1, <1>4, StatusTypes DEF Leaves
  <1>6. OneActionInv /\ call[c].op = "status" /\ call[c].fresh =>
          Own(session.lease, lease, view)
    BY <1>1, ClaimsOwn DEF Claims
  <1> QED BY <1>1, <1>2, <1>4, <1>5, <1>6, AnswerKeeps

-----------------------------------------------------------------------------
(* connect, disconnect, disconnectLocal and repair *)

\* The controller is capable, or needs repair and the connect ends.
LEMMA UseCapabilityKeeps == ASSUME RuntimeInv, NEW c \in Calls, UseCapability(c) PROVE Keeps
  <1>1. /\ call[c].op = "connect" /\ call[c].step = "query" /\ call[c].step # "up"
        /\ reader' = reader /\ shown' = shown
        /\ UNCHANGED <<session, visible, mismatch, lease, tunnel, view, faults>>
    BY DEF UseCapability, Seen, receiptVars, uiVars
  <1>2. \A d \in Calls : d # c => reader'[d] = reader[d]
    BY <1>1
  <1>3. Leaves
    BY <1>1 DEF UseCapability, Leaves, RuntimeInv, RuntimeTypes, States, ConnectedHasSession
  <1>4. CASE call' = [call EXCEPT ![c] = NoCall]
    BY <1>1, <1>2, <1>3, <1>4, EndKeeps
  <1>5. CASE call' = [call EXCEPT ![c].step = "open", ![c].seen = Unseen]
    <2> DEFINE x == [call[c] EXCEPT !.step = "open", !.seen = Unseen]
    <2>1. call' = [call EXCEPT ![c] = x]
      BY <1>5, TwoUpdates DEF RuntimeInv, RuntimeTypes
    <2>2. /\ x \in CallRecords /\ x.op = "connect" /\ x.step = "open"
          /\ x.context = call[c].context /\ x.seen = Unseen
      <3>1. call[c] \in CallRecords /\ "open" \in Steps /\ Unseen \in Sightings
        BY Handler, NoCallType DEF Steps
      <3>2. x \in CallRecords
        BY <3>1, Zenon DEF CallRecords
      <3> QED BY <1>1, <3>1, <3>2 DEF CallRecords
    <2> HIDE DEF x
    <2>3. Moves(c, x)
      BY <2>1, <2>2, MovesBy DEF RuntimeInv
    <2>4. CallIsSound(c, x, reader'[c], lease, view)
      BY <1>1, <2>2, Handler, NoCallType DEF CallIsSound
    <2>5. /\ x.step # "up" /\ (Claims(x) => Claims(call[c]))
          /\ (x.op = "connect" => call[c].op = "connect" /\ x.context = call[c].context)
      BY <1>1, <2>2 DEF Claims
    <2> QED BY <1>1, <1>2, <1>3, <2>2, <2>3, <2>4, <2>5, SilentMove, Zenon
  <1> QED BY <1>4, <1>5 DEF UseCapability

\* The lease is paid for: it is its payer's, and the controller is yet to hear of it.
LEMMA OpenLeaseKeeps == ASSUME RuntimeInv, NEW c \in Calls, OpenLease(c) PROVE Keeps
  <1>1. /\ call[c].step = "open" /\ call[c].op = "connect" /\ call[c].seen.got = "nothing"
        /\ call[c].context \in AnyContext /\ call[c].context # NoContext
        /\ call[c] \in CallRecords /\ CallIsSound(c, call[c], reader[c], lease, view)
    BY Handler DEF OpenLease, CallIsSound
  <1>2. PICK l \in Leases :
          /\ lease[l].owner = NoContext
          /\ lease' = [lease EXCEPT ![l].owner = call[c].context]
          /\ call' = [call EXCEPT ![c].step = "up", ![c].lease = l]
    BY DEF OpenLease
  <1>3. /\ UNCHANGED <<state, session, visible, mismatch, tunnel, view, shown, faults>>
        /\ reader' = reader
    BY DEF OpenLease, receiptVars, runtimeVars, uiVars
  <1>4. /\ lease' \in [Leases -> LeaseRecords]
        /\ \A k \in Leases : lease'[k].owner = IF k = l THEN call[c].context ELSE lease[k].owner
    BY <1>1, <1>2 DEF RuntimeInv, RuntimeTypes, LeaseRecords
  <1> DEFINE x == [call[c] EXCEPT !.step = "up", !.lease = l]
  <1>5. call' = [call EXCEPT ![c] = x]
    BY <1>2, TwoUpdates DEF RuntimeInv, RuntimeTypes
  <1>6. /\ x \in CallRecords /\ x.op = call[c].op /\ x.step = "up" /\ x.lease = l
        /\ x.context = call[c].context /\ x.seen = call[c].seen /\ x.fresh = call[c].fresh
    <2>1. l \in 0..MaxLeases /\ "up" \in Steps
      BY Numbers DEF Steps
    <2>2. x \in CallRecords
      BY <1>1, <2>1, Zenon DEF CallRecords
    <2> QED BY <1>1, <2>1, <2>2 DEF CallRecords
  <1> HIDE DEF x
  <1>7. Moves(c, x)
    BY <1>5, <1>6, MovesBy DEF RuntimeInv
  <1>8. Around(c)
    BY <1>2, <1>3, <1>4 DEF Around
  <1>9. CallInv'
    <2>1. l # 0 /\ lease'[l].owner = call[c].context
      BY <1>4, Numbers
    <2>2. CallIsSound(c, x, reader'[c], lease', view')
      BY <1>1, <1>3, <1>6, <2>1 DEF CallIsSound
    <2> QED BY <1>6, <1>7, <1>8, <2>2, MoveIsSound, Zenon
  <1>10. RuntimeTypes' /\ ConnectedHasSession'
    BY <1>3, <1>4, <1>7 DEF RuntimeInv, RuntimeTypes, Moves, ConnectedHasSession
  <1>11. ASSUME OneActionInv PROVE OneActionInv'
    <2>1. \A a \in Calls : a # c =>
            /\ call'[a].step = call[a].step /\ call'[a].seen = call[a].seen
            /\ call'[a].lease = call[a].lease
      BY <1>7 DEF Moves
    <2>2. call'[c].step = "up" /\ call'[c].seen.got = "nothing"
      BY <1>1, <1>6, <1>7 DEF Moves
    <2>3. TunnelInv'
      BY <1>1, <1>3, <1>11, <2>1, <2>2 DEF OneActionInv, TunnelInv
    <2>4. /\ (x.op = "connect" => call[c].op = "connect" /\ x.context = call[c].context)
          /\ (Claims(x) => Claims(call[c])) /\ session'.lease \in {0, session.lease}
      BY <1>1, <1>3, <1>6 DEF Claims
    <2>5. OwnerInv'
      BY <1>3, <1>6, <1>7, <1>8, <1>11, <2>4, OwnersKept, Zenon DEF OneActionInv
    <2> QED BY <2>3, <2>5 DEF OneActionInv
  <1> QED BY <1>9, <1>10, <1>11 DEF Keeps

\* A quote, payment or session request fails.
LEMMA OpenFailsKeeps == ASSUME RuntimeInv, NEW c \in Calls, OpenFails(c) PROVE Keeps
  <1>1. /\ call' = [call EXCEPT ![c] = NoCall] /\ reader' = reader /\ shown' = shown
        /\ call[c].step # "up"
    BY DEF OpenFails, receiptVars, uiVars
  <1>2. Leaves
    BY DEF OpenFails, uiVars, RuntimeInv, RuntimeTypes, Leaves, States, ConnectedHasSession
  <1> QED BY <1>1, <1>2, EndKeeps

\* A connect installs the session of the lease it paid for; the session is live only
\* if the controller said that its tunnel is up.
LEMMA SessionOpens ==
    ASSUME RuntimeInv, NEW c \in Calls, call[c].step = "up",
           NEW x \in CallRecords, Moves(c, x),
           <<x.op, x.step>> \in {<<"connected", "query">>, <<"none", "none">>},
           NEW pending \in BOOLEAN, session' = [lease |-> call[c].lease, pending |-> pending],
           state' \in {"error", "connected"}, pending = (state' = "error"),
           state' = "connected" => call[c].seen.got = "answer",
           visible' \in BOOLEAN, mismatch' \in BOOLEAN, reader' = reader,
           UNCHANGED <<lease, tunnel, view, shown, faults>>
    PROVE  Keeps
  <1>1. /\ CallIsSound(c, call[c], reader[c], lease, view) /\ call[c].lease \in 0..MaxLeases
        /\ call[c].op # "none"
    BY Handler
  <1>2. /\ call[c].op = "connect" /\ c \in Actions /\ reader[c].step = "idle"
        /\ call[c].context # NoContext /\ call[c].lease # 0
        /\ lease[call[c].lease].owner = call[c].context
    BY <1>1 DEF CallIsSound
  <1>3. session' \in Sessions /\ session'.lease = call[c].lease /\ session'.pending = pending
    BY <1>1 DEF Sessions
  <1>4. CallInv'
    <2>1. Around(c)
      BY DEF Around
    <2>2. x.op # "status"
      OBVIOUS
    <2>3. CallIsSound(c, x, reader'[c], lease', view')
      BY <1>2, <2>2 DEF CallIsSound
    <2> QED BY <2>1, <2>3, MoveIsSound, Zenon
  <1>5. RuntimeTypes'
    <2>1. state' \in States
      BY DEF States
    <2> QED BY <1>3, <2>1 DEF RuntimeInv, RuntimeTypes, Moves
  <1>6. ConnectedHasSession'
    BY <1>2, <1>3 DEF ConnectedHasSession
  <1>7. ASSUME OneAction, OneActionInv PROVE OneActionInv'
    <2>1. \A a \in Calls : call'[a].op # "connect" /\ call'[a].step # "up"
      <3> SUFFICES ASSUME NEW a \in Calls, call'[a].op = "connect" \/ call'[a].step = "up"
                   PROVE  FALSE
        OBVIOUS
      <3>1. CallIsSound(a, call'[a], reader'[a], lease', view')
        BY <1>4 DEF CallInv
      <3>2. call'[a].op = "connect"
        BY <3>1 DEF CallIsSound
      <3>3. a \in Actions
        BY <3>1, <3>2 DEF CallIsSound
      <3>4. a = c
        BY <1>2, <1>7, <3>3 DEF OneAction
      <3>5. call'[a].op \in {"connected", "none"}
        BY <3>4 DEF Moves
      <3> QED BY <3>2, <3>5
    <2>2. TunnelInv'
      <3>1. ~session'.pending /\ tunnel'.up => tunnel'.lease = session'.lease
        BY <1>3, <1>7 DEF OneActionInv, TunnelInv
      <3> QED BY <2>1, <3>1 DEF TunnelInv
    <2>3. shown'.polled => Own(shown'.about, lease', view')
      BY <1>7 DEF OneActionInv, OwnerInv
    <2>4. ASSUME NEW d \in Calls, Claims(call'[d]) PROVE Own(session'.lease, lease', view')
      <3>1. Claims(call[d])
        BY <2>4 DEF Claims, Moves
      <3>2. call[c].context = view
        BY <1>2, <1>7, <3>1 DEF OneActionInv, OwnerInv
      <3> QED BY <1>2, <1>3, <3>2 DEF Own
    <2> QED BY <2>1, <2>2, <2>3, <2>4 DEF OneActionInv, OwnerInv
  <1> QED BY <1>4, <1>5, <1>6, <1>7 DEF Keeps

\* The tunnel is up.
LEMMA TunnelIsUpKeeps == ASSUME RuntimeInv, NEW c \in Calls, TunnelIsUp(c) PROVE Keeps
  <1> DEFINE x == Goes(c, "connected", "query", call[c].context, 0)
  <1>1. /\ call[c].step = "up" /\ call[c].seen.got = "answer" /\ state' = "connected"
        /\ session' = [lease |-> call[c].lease, pending |-> FALSE]
        /\ call' = [Replaced(call) EXCEPT ![c] = x] /\ reader' = reader
        /\ UNCHANGED <<visible, mismatch, lease, tunnel, view, shown, faults>>
    BY DEF TunnelIsUp, Seen, SeenBy, receiptVars, uiVars
  <1>2. x \in CallRecords /\ x.op = "connected" /\ x.step = "query"
    <2>1. /\ call[c].context \in AnyContext /\ "connected" \in Ops /\ "query" \in Steps
          /\ 0 \in 0..MaxLeases
      BY Handler, Numbers DEF Ops, Steps
    <2> QED BY <2>1, GoesType
  <1> HIDE DEF x
  <1>3. Moves(c, x)
    BY <1>1, <1>2, MovesBy DEF RuntimeInv
  <1>4. visible' \in BOOLEAN /\ mismatch' \in BOOLEAN
    BY <1>1 DEF RuntimeInv, RuntimeTypes
  <1>5. /\ <<x.op, x.step>> \in {<<"connected", "query">>, <<"none", "none">>}
        /\ state' \in {"error", "connected"} /\ FALSE = (state' = "error")
    BY <1>1, <1>2
  <1> QED BY <1>1, <1>2, <1>3, <1>4, <1>5, SessionOpens, Zenon

\* The controller failed to bring the tunnel up.
LEMMA TunnelFailedKeeps == ASSUME RuntimeInv, NEW c \in Calls, TunnelFailed(c) PROVE Keeps
  <1>1. /\ call[c].step = "up" /\ state' = "error" /\ mismatch' = FALSE
        /\ session' = [lease |-> call[c].lease, pending |-> TRUE]
        /\ call' = [Replaced(call) EXCEPT ![c] = NoCall] /\ reader' = reader
        /\ UNCHANGED <<visible, lease, tunnel, view, shown, faults>>
    BY DEF TunnelFailed, receiptVars, uiVars
  <1>2. Moves(c, NoCall)
    BY <1>1, NoCallType, MovesBy DEF RuntimeInv
  <1>3. visible' \in BOOLEAN /\ mismatch' \in BOOLEAN
    BY <1>1 DEF RuntimeInv, RuntimeTypes
  <1>4. /\ <<NoCall.op, NoCall.step>> \in {<<"connected", "query">>, <<"none", "none">>}
        /\ state' \in {"error", "connected"} /\ TRUE = (state' = "error")
        /\ (state' = "connected" => call[c].seen.got = "answer")
    BY <1>1, NoCallType
  <1>5. NoCall \in CallRecords
    BY NoCallType
  <1> QED BY <1>1, <1>2, <1>3, <1>4, <1>5, SessionOpens, Zenon

\* The disconnect is over, for the page or for the connect that began with it.
LEMMA ReturnKeeps ==
    ASSUME RuntimeInv, NEW c \in Calls, Leaves, call[c].step = "down",
           call[c].op \in {"connect", "disconnect"}, reader' = reader,
           NEW calls, calls = call \/ calls = Replaced(call), Return(calls, c)
    PROVE  Keeps
  <1>1. /\ reader'[c].step = "idle" /\ \A d \in Calls : d # c => reader'[d] = reader[d]
        /\ call[c].step # "up" /\ CallIsSound(c, call[c], reader[c], lease, view)
    BY Handler
  <1>2. CASE call[c].op = "connect"
    <2> DEFINE x == Goes(c, "connect", "query", call[c].context, 0)
    <2>1. call' = [calls EXCEPT ![c] = x] /\ shown' = shown
      BY <1>2 DEF Return
    <2>2. x \in CallRecords /\ x.op = "connect" /\ x.step = "query"
          /\ x.context = call[c].context
      <3>1. /\ call[c].context \in AnyContext /\ "connect" \in Ops /\ "query" \in Steps
            /\ 0 \in 0..MaxLeases
        BY Handler, Numbers DEF Ops, Steps
      <3> QED BY <3>1, GoesType
    <2> HIDE DEF x
    <2>3. Moves(c, x)
      BY <2>1, <2>2, MovesBy DEF RuntimeInv
    <2>4. CallIsSound(c, x, reader'[c], lease, view)
      BY <1>1, <1>2, <2>2 DEF CallIsSound
    <2>5. /\ x.step # "up" /\ (Claims(x) => Claims(call[c]))
          /\ (x.op = "connect" => call[c].op = "connect" /\ x.context = call[c].context)
      BY <1>2, <2>2 DEF Claims
    <2> QED BY <1>1, <2>1, <2>2, <2>3, <2>4, <2>5, SilentMove, Zenon
  <1>3. CASE call[c].op = "disconnect"
    <2>1. Answer(calls, c, Built(c)) /\ call[c].op # "status"
      BY <1>3 DEF Return
    <2>2. Built(c) \in Statuses /\ Built(c).polled = (call[c].op = "status")
      BY StatusTypes DEF Leaves, RuntimeInv
    <2> QED BY <1>1, <2>1, <2>2, AnswerKeeps
  <1> QED BY <1>2, <1>3

\* The controller answered the disconnect.
LEMMA UseDisconnectKeeps == ASSUME RuntimeInv, NEW c \in Calls, UseDisconnect(c) PROVE Keeps
  <1>1. /\ call[c].op \in {"connect", "disconnect"} /\ call[c].step = "down"
        /\ reader' = reader /\ RuntimeTypes
        /\ UNCHANGED <<visible, lease, tunnel, view, faults>>
    BY DEF UseDisconnect, Seen, receiptVars, RuntimeInv
  <1>2. CASE SeenBy(c).repair
    <2>1. state' = "repair-needed" /\ UNCHANGED <<session, mismatch>> /\ Return(call, c)
      BY <1>2 DEF UseDisconnect
    <2>2. Leaves
      BY <1>1, <2>1 DEF Leaves, RuntimeTypes, States, ConnectedHasSession
    <2> QED BY <1>1, <2>1, <2>2, ReturnKeeps
  <1>3. CASE ~SeenBy(c).repair /\ lease[call[c].lease].expired
    <2>1. /\ session' = NoSession /\ state' = "idle" /\ mismatch' = FALSE
          /\ Return(Replaced(call), c)
      BY <1>3 DEF UseDisconnect
    <2>2. Leaves
      BY <1>1, <2>1, Numbers DEF Leaves, RuntimeTypes, States, NoSession, Sessions,
         ConnectedHasSession
    <2> QED BY <1>1, <2>1, <2>2, ReturnKeeps
  <1>4. CASE ~SeenBy(c).repair /\ ~lease[call[c].lease].expired
    <2>1. /\ session' = [session EXCEPT !.pending = session.pending \/ call[c].held]
          /\ state' = "remote-expiry-pending" /\ mismatch' = FALSE /\ Return(call, c)
      BY <1>4 DEF UseDisconnect
    <2>2. /\ session' \in Sessions
          /\ (session' = session \/ (session'.pending /\ session'.lease = session.lease))
      <3>1. session \in Sessions /\ call[c].held \in BOOLEAN
        BY <1>1 DEF RuntimeTypes, CallRecords
      <3>2. CASE session.pending \/ call[c].held
        BY <2>1, <3>1, <3>2 DEF Sessions
      <3>3. CASE ~(session.pending \/ call[c].held)
        BY <2>1, <3>1, <3>3 DEF Sessions
      <3> QED BY <3>2, <3>3
    <2>3. Leaves
      BY <1>1, <2>1, <2>2 DEF Leaves, RuntimeTypes, States, ConnectedHasSession
    <2> QED BY <1>1, <2>1, <2>3, ReturnKeeps
  <1> QED BY <1>2, <1>3, <1>4

\* A refused disconnect returns the status of the controller.
LEMMA UseForeignStatusKeeps ==
    ASSUME RuntimeInv, NEW c \in Calls, UseForeignStatus(c) PROVE Keeps
  <1>1. /\ call[c].op = "foreign" /\ call[c].step = "query" /\ reader' = reader
        /\ call[c].step # "up" /\ call[c].op # "status"
        /\ UNCHANGED <<runtimeVars, lease, tunnel, view, faults>>
        /\ Answer(call, c, Built(c))
    BY DEF UseForeignStatus, Seen, receiptVars
  <1>2. Leaves
    BY <1>1, LeftAlone
  <1>3. reader'[c].step = "idle" /\ \A d \in Calls : d # c => reader'[d] = reader[d]
    BY <1>1, Handler
  <1>4. Built(c) \in Statuses /\ Built(c).polled = (call[c].op = "status")
    BY <1>2, StatusTypes DEF RuntimeInv, Leaves
  <1> QED BY <1>1, <1>2, <1>3, <1>4, AnswerKeeps

\* The controller answered a disconnectLocal.
LEMMA UseLocalDisconnectKeeps ==
    ASSUME RuntimeInv, NEW c \in Calls, UseLocalDisconnect(c) PROVE Keeps
  <1>1. /\ call[c].op = "local" /\ call[c].step = "down" /\ reader' = reader
        /\ call[c].step # "up" /\ call[c].op # "status" /\ RuntimeTypes
        /\ UNCHANGED <<visible, lease, tunnel, view, faults>>
    BY DEF UseLocalDisconnect, Seen, receiptVars, RuntimeInv
  <1>2. reader'[c].step = "idle" /\ \A d \in Calls : d # c => reader'[d] = reader[d]
    BY <1>1, Handler
  <1>3. PICK status \in {Built(c), BuiltLocally(c)} : Answer(call, c, status)
    BY DEF UseLocalDisconnect
  <1>4. session' \in Sessions
        /\ (session' = session \/ (session'.pending /\ session'.lease = session.lease))
    <2>1. session' = session \/ session' = [session EXCEPT !.pending = TRUE]
      BY DEF UseLocalDisconnect
    <2> QED BY <1>1, <2>1 DEF RuntimeTypes, Sessions
  <1>5. Leaves
    BY <1>1, <1>4 DEF UseLocalDisconnect, Leaves, RuntimeTypes, States, ConnectedHasSession
  <1>6. status \in Statuses /\ status.polled = (call[c].op = "status")
    BY <1>3, <1>5, StatusTypes DEF RuntimeInv, Leaves
  <1> QED BY <1>1, <1>2, <1>3, <1>5, <1>6, AnswerKeeps

\* The repair is over.
LEMMA RepairedKeeps == ASSUME RuntimeInv, NEW c \in Calls, Repaired(c) PROVE Keeps
  <1> DEFINE x == [call[c] EXCEPT !.step = "query", !.seen = Unseen]
  <1>1. /\ call[c].step = "mend" /\ call[c].step # "up" /\ reader' = reader /\ shown' = shown
        /\ UNCHANGED <<runtimeVars, lease, tunnel, view, faults>>
        /\ call' = [call EXCEPT ![c].step = "query", ![c].seen = Unseen]
    BY DEF Repaired, Seen, receiptVars, uiVars
  <1>2. call' = [call EXCEPT ![c] = x]
    BY <1>1, TwoUpdates DEF RuntimeInv, RuntimeTypes
  <1>3. /\ x \in CallRecords /\ x.op = call[c].op /\ x.step = "query"
        /\ x.context = call[c].context /\ x.fresh = call[c].fresh
    <2>1. call[c] \in CallRecords /\ "query" \in Steps /\ Unseen \in Sightings
      BY Handler, NoCallType DEF Steps
    <2>2. x \in CallRecords
      BY <2>1, Zenon DEF CallRecords
    <2> QED BY <2>1, <2>2 DEF CallRecords
  <1> HIDE DEF x
  <1>4. Moves(c, x)
    BY <1>2, <1>3, MovesBy DEF RuntimeInv
  <1>5. Leaves
    BY <1>1, LeftAlone
  <1>6. CallIsSound(c, call[c], reader[c], lease, view)
    BY Handler
  <1>7. CallIsSound(c, x, reader'[c], lease, view)
    BY <1>1, <1>3, <1>6 DEF CallIsSound
  <1>8. /\ x.step # "up" /\ (Claims(x) => Claims(call[c]))
        /\ (x.op = "connect" => call[c].op = "connect" /\ x.context = call[c].context)
        /\ \A d \in Calls : d # c => reader'[d] = reader[d]
    BY <1>1, <1>3 DEF Claims
  <1> QED BY <1>1, <1>3, <1>4, <1>5, <1>7, <1>8, SilentMove, Zenon

\* The controller was asked once more after its repair.
LEMMA UseRepairKeeps == ASSUME RuntimeInv, NEW c \in Calls, UseRepair(c) PROVE Keeps
  <1>1. /\ call[c].op = "repair" /\ call[c].step = "query" /\ reader' = reader
        /\ call[c].step # "up" /\ call[c].op # "status" /\ RuntimeTypes
        /\ UNCHANGED <<session, visible, lease, tunnel, view, faults>>
        /\ state' = StateAfterRepair(c) /\ Answer(call, c, BuiltLocally(c))
        /\ mismatch' \in BOOLEAN
    BY DEF UseRepair, Seen, receiptVars, RuntimeInv
  <1>2. reader'[c].step = "idle" /\ \A d \in Calls : d # c => reader'[d] = reader[d]
    BY <1>1, Handler
  <1>3. Leaves
    BY <1>1 DEF StateAfterRepair, Leaves, RuntimeTypes, States, RuntimeInv,
       ConnectedHasSession
  <1>4. BuiltLocally(c) \in Statuses /\ BuiltLocally(c).polled = (call[c].op = "status")
    BY StatusTypes DEF RuntimeInv
  <1> QED BY <1>1, <1>2, <1>3, <1>4, AnswerKeeps

\* A handler resumes.
LEMMA ResumeKeeps == ASSUME RuntimeInv, NEW c \in Calls, Resume(c) PROVE Keeps
  BY ControlKeeps, CommandFailedKeeps, UseLocalStatusKeeps, UseQueryKeeps, ServeRemoteKeeps,
     UseRemoteKeeps, UseReceiptsOfStatusKeeps, UseCapabilityKeeps, OpenLeaseKeeps, OpenFailsKeeps,
     TunnelIsUpKeeps, TunnelFailedKeeps, UseDisconnectKeeps, UseForeignStatusKeeps,
     UseLocalDisconnectKeeps, RepairedKeeps, UseRepairKeeps, Zenon DEF Resume

-----------------------------------------------------------------------------
(* The receipts page, the wallet, the server, the tunnel and the process *)

\* A step outside the handlers that keeps the owners of leases, and the readings that
\* a handler relies on.
LEMMA OutsideKeeps ==
    ASSUME RuntimeInv, RuntimeTypes', UNCHANGED <<runtimeVars, call, uiVars>>,
           \A l \in Leases : lease'[l].owner = lease[l].owner,
           \A c \in Calls :
             reader'[c] = reader[c] \/ call[c].op = "none" \/ call[c].step = "receipts",
           tunnel' = tunnel \/ ~tunnel'.up
             \/ (tunnel'.up = tunnel.up /\ tunnel'.lease = tunnel.lease)
    PROVE  Keeps
  <1>1. UNCHANGED <<state, session, call, view, shown>>
    BY DEF runtimeVars, uiVars
  <1>2. CallInv'
    <2> SUFFICES ASSUME NEW c \in Calls
                 PROVE  CallIsSound(c, call'[c], reader'[c], lease', view')
      BY DEF CallInv
    <2>1. call[c] \in CallRecords /\ CallIsSound(c, call[c], reader[c], lease, view)
      BY Handler
    <2>2. /\ call'[c] = call[c] /\ view' = view
          /\ \A l \in Leases : lease[l].owner # NoContext => lease'[l].owner = lease[l].owner
      BY <1>1
    <2>3. reader'[c] = reader[c] \/ call[c].op = "none" \/ call[c].step = "receipts"
      OBVIOUS
    <2>4. CallIsSound(c, call[c], reader'[c], lease', view)
      BY <2>1, <2>2, <2>3, SoundKept, Zenon
    <2> QED BY <2>2, <2>4
  <1>3. ConnectedHasSession'
    BY <1>1 DEF RuntimeInv, ConnectedHasSession
  <1>4. ASSUME OneActionInv PROVE OneActionInv'
    <2>1. TunnelInv'
      BY <1>1, <1>4 DEF OneActionInv, TunnelInv
    <2>2. session.lease \in 0..MaxLeases /\ shown.about \in 0..MaxLeases
      BY DEF RuntimeInv, RuntimeTypes, Sessions, Statuses
    <2>3. \A l \in 0..MaxLeases : l # 0 => lease'[l].owner = lease[l].owner
      BY Numbers
    <2>4. OwnerInv'
      BY <1>1, <1>4, <2>2, <2>3 DEF OneActionInv, OwnerInv, Own, Claims
    <2> QED BY <2>1, <2>4 DEF OneActionInv
  <1> QED BY <1>2, <1>3, <1>4 DEF Keeps

\* The receipts page reads, and the server adds a receipt.
LEMMA ReadReceiptsKeeps == ASSUME RuntimeInv, ReadReceipts PROVE Keeps
  <1>1. UNCHANGED <<runtimeVars, call, lease, tunnel, uiVars, faults>>
    BY DEF ReadReceipts
  <1>2. RuntimeTypes'
    BY <1>1 DEF RuntimeInv, RuntimeTypes, runtimeVars, uiVars
  <1>3. reader \in [Readers -> {reader[r] : r \in Readers}]
    BY DEF RuntimeInv, IInv, ReceiptsTypeOK
  <1>4. \A c \in Calls :
          reader'[c] = reader[c] \/ call[c].op = "none" \/ call[c].step = "receipts"
    <2>1. CASE ReceiptIssued
      BY <2>1 DEF ReceiptIssued
    <2>2. ASSUME NEW r \in ReceiptPages, r \in Calls => call[r].op = "none",
                 ListReceipts(r, view) \/ ListWithoutAuth(r, view)
                   \/ ReturnReceipts(r) \/ TakeReceipts(r)
          PROVE  \A c \in Calls : reader'[c] = reader[c] \/ call[c].op = "none"
      <3>1. r \in Readers
        BY RuntimeConstants
      <3>2. \A c \in Calls : c # r => reader'[c] = reader[c]
        BY <1>3, <2>2, <3>1, Numbers DEF ListReceipts, BeginSync, ListWithoutAuth,
           ReturnReceipts, TakeReceipts
      <3> QED BY <2>2, <3>2
    <2> QED BY <2>1, <2>2 DEF ReadReceipts
  <1> QED BY <1>1, <1>2, <1>4, OutsideKeeps

\* A read of the receipts proceeds, of the page or of a reconcile.
LEMMA SyncKeeps == ASSUME RuntimeInv, NEW r \in Readers, SyncProceeds(r) PROVE Keeps
  <1>1. UNCHANGED <<runtimeVars, call, lease, tunnel, uiVars, faults>>
    BY DEF SyncProceeds
  <1>2. RuntimeTypes'
    BY <1>1 DEF RuntimeInv, RuntimeTypes, runtimeVars, uiVars
  <1>3. reader \in [Readers -> {reader[q] : q \in Readers}]
    BY DEF RuntimeInv, IInv, ReceiptsTypeOK
  <1>4. reader[r].step # "idle"
    BY DEF SyncProceeds, ServeReceipts, SyncFails, UseReceipts
  <1>5. \A q \in Readers : q # r => reader'[q] = reader[q]
    BY <1>3 DEF SyncProceeds, ServeReceipts, SyncFails, UseReceipts
  <1>6. ASSUME NEW c \in Calls
        PROVE  reader'[c] = reader[c] \/ call[c].op = "none" \/ call[c].step = "receipts"
    BY <1>4, <1>5, Handler, Numbers
  <1> QED BY <1>1, <1>2, <1>6, OutsideKeeps

\* A lease expires, or the server forgets it.
LEMMA LeaseChangesKeeps == ASSUME RuntimeInv, LeaseChanges PROVE Keeps
  <1>1. UNCHANGED <<receiptVars, runtimeVars, call, tunnel, uiVars, faults>>
    BY DEF LeaseChanges
  <1>2. lease' \in [Leases -> LeaseRecords] /\ \A l \in Leases : lease'[l].owner = lease[l].owner
    <2>1. lease \in [Leases -> LeaseRecords]
      BY DEF RuntimeInv, RuntimeTypes
    <2>2. PICK l \in Leases : \/ lease' = [lease EXCEPT ![l].expired = TRUE]
                              \/ lease' = [lease EXCEPT ![l].gone = TRUE]
      BY DEF LeaseChanges
    <2>3. CASE lease' = [lease EXCEPT ![l].expired = TRUE]
      BY <2>1, <2>3 DEF LeaseRecords
    <2>4. CASE lease' = [lease EXCEPT ![l].gone = TRUE]
      BY <2>1, <2>4 DEF LeaseRecords
    <2> QED BY <2>2, <2>3, <2>4
  <1>3. RuntimeTypes'
    BY <1>1, <1>2 DEF RuntimeInv, RuntimeTypes, runtimeVars, uiVars
  <1>4. \A c \in Calls : reader'[c] = reader[c]
    BY <1>1 DEF receiptVars
  <1> QED BY <1>1, <1>2, <1>3, <1>4, OutsideKeeps

\* The tunnel drops, or begins to need repair.
LEMMA TunnelChangesKeeps == ASSUME RuntimeInv, TunnelChanges PROVE Keeps
  <1>1. UNCHANGED <<receiptVars, runtimeVars, call, lease, uiVars>> /\ faults' \in 0..MaxFaults
    BY RuntimeConstants DEF TunnelChanges, Fault, RuntimeInv, RuntimeTypes
  <1>2. tunnel \in Tunnels /\ 0 \in 0..MaxLeases
    BY Numbers DEF RuntimeInv, RuntimeTypes
  <1>3. \/ tunnel' = [tunnel EXCEPT !.up = FALSE, !.lease = 0]
        \/ tunnel' = [tunnel EXCEPT !.repair = TRUE]
    BY DEF TunnelChanges
  <1>4. tunnel' \in Tunnels
    BY <1>2, <1>3, Zenon DEF Tunnels
  <1>5. ~tunnel'.up \/ (tunnel'.up = tunnel.up /\ tunnel'.lease = tunnel.lease)
    BY <1>2, <1>3 DEF Tunnels
  <1>6. RuntimeTypes'
    BY <1>1, <1>4 DEF RuntimeInv, RuntimeTypes, runtimeVars, uiVars
  <1>7. /\ \A l \in Leases : lease'[l].owner = lease[l].owner
        /\ \A c \in Calls : reader'[c] = reader[c]
    BY <1>1 DEF receiptVars
  <1> QED BY <1>1, <1>5, <1>6, <1>7, OutsideKeeps

\* The user selects another wallet: polls in flight will not be shown.
LEMMA SwitchWalletKeeps == ASSUME RuntimeInv, SwitchWallet PROVE Keeps
  <1>1. /\ UNCHANGED <<receiptVars, runtimeVars, lease, tunnel>> /\ view' \in AnyContext
        /\ shown' = Kept /\ faults' \in 0..MaxFaults
    BY RuntimeConstants DEF SwitchWallet, Fault, RuntimeInv, RuntimeTypes
  <1>2. shown' \in Statuses /\ ~shown'.polled
    <2>1. shown.state \in States /\ shown.up \in BOOLEAN /\ 0 \in 0..MaxLeases
      BY Numbers DEF RuntimeInv, RuntimeTypes, Statuses
    <2> DEFINE st == IF ~shown.up THEN "idle"
                     ELSE IF shown.state \in {"idle", "error"} THEN "reconciling"
                     ELSE shown.state
    <2>2. st \in States
      BY <2>1 DEF States
    <2>3. shown' = [state |-> st, about |-> 0, up |-> shown.up, polled |-> FALSE]
      BY <1>1, Zenon DEF Kept
    <2> HIDE DEF st
    <2> QED BY <2>1, <2>2, <2>3 DEF Statuses
  <1>3. \A c \in Calls : call'[c] = [call[c] EXCEPT !.fresh = FALSE]
    BY DEF SwitchWallet
  <1>4. ASSUME NEW c \in Calls
        PROVE  /\ call'[c] \in CallRecords /\ call'[c].op = call[c].op
               /\ call'[c].step = call[c].step /\ call'[c].context = call[c].context
               /\ call'[c].lease = call[c].lease /\ call'[c].fresh = FALSE
               /\ call'[c].seen = call[c].seen
    BY <1>3, Handler, FreshUpdate
  <1>5. call' \in [Calls -> CallRecords]
    <2>1. call' = [c \in Calls |-> call'[c]]
      BY DEF SwitchWallet
    <2> QED BY <1>4, <2>1
  <1>6. RuntimeTypes'
    BY <1>1, <1>2, <1>5 DEF RuntimeInv, RuntimeTypes, runtimeVars
  <1>7. CallInv'
    <2> SUFFICES ASSUME NEW c \in Calls
                 PROVE  CallIsSound(c, call'[c], reader'[c], lease', view')
      BY DEF CallInv
    <2>1. CallIsSound(c, call[c], reader[c], lease, view)
      BY Handler
    <2>2. reader'[c] = reader[c] /\ lease' = lease
      BY <1>1 DEF receiptVars
    <2> QED BY <1>4, <2>1, <2>2 DEF CallIsSound
  <1>8. UNCHANGED <<state, session, lease, tunnel>>
    BY <1>1 DEF runtimeVars
  <1>9. ConnectedHasSession'
    BY <1>8 DEF RuntimeInv, ConnectedHasSession
  <1>10. ASSUME OneActionInv PROVE OneActionInv'
    <2>1. TunnelInv'
      BY <1>4, <1>8, <1>10 DEF OneActionInv, TunnelInv
    <2>2. OwnerInv'
      BY <1>2, <1>4, <1>8, <1>10 DEF OneActionInv, OwnerInv, Claims
    <2> QED BY <2>1, <2>2 DEF OneActionInv
  <1> QED BY <1>6, <1>7, <1>9, <1>10 DEF Keeps

\* The process restarts with no session and no handler; the tunnel stays.
LEMMA RestartKeeps == ASSUME RuntimeInv, Restart PROVE Keeps
  <1>1. /\ state' = "idle" /\ session' = NoSession /\ visible' = TRUE /\ mismatch' = FALSE
        /\ call' = [c \in Calls |-> NoCall] /\ shown' = Blank /\ UNCHANGED <<lease, tunnel, view>>
        /\ faults' \in 0..MaxFaults
    BY RuntimeConstants DEF Restart, Fault, RuntimeInv, RuntimeTypes
  <1>2. /\ \A c \in Calls : call'[c] = NoCall
        /\ shown' \in Statuses /\ shown'.about = 0 /\ ~shown'.polled
        /\ session' \in Sessions /\ session'.lease = 0
    BY <1>1, Numbers DEF Blank, Statuses, States, NoSession, Sessions
  <1>3. RuntimeTypes'
    BY <1>1, <1>2, NoCallType DEF RuntimeInv, RuntimeTypes, States
  <1>4. CallInv'
    BY <1>2, RestIsSound, Zenon DEF CallInv
  <1>5. ConnectedHasSession'
    BY <1>1 DEF ConnectedHasSession
  <1>6. OneActionInv'
    <2>1. TunnelInv'
      BY <1>2, NoCallType DEF TunnelInv
    <2>2. OwnerInv'
      BY <1>2, NoCallType DEF OwnerInv, Claims
    <2> QED BY <2>1, <2>2 DEF OneActionInv
  <1> QED BY <1>3, <1>4, <1>5, <1>6 DEF Keeps

\* Every action keeps the invariants.
LEMMA ActionKeeps == ASSUME RuntimeInv, Next PROVE Keeps
  <1>1. ASSUME NEW c \in Polls, GetStatus(c) PROVE Keeps
    BY <1>1, GetStatusKeeps
  <1>2. ASSUME NEW c \in Actions, Connect(c) \/ Disconnect(c) \/ DisconnectLocal(c) \/ Repair(c)
        PROVE  Keeps
    BY <1>2, ConnectKeeps, DisconnectKeeps, DisconnectLocalKeeps, RepairKeeps, Zenon
  <1>3. ASSUME NEW c \in Calls, Resume(c) PROVE Keeps
    BY <1>3, ResumeKeeps
  <1>4. ASSUME NEW r \in Readers, SyncProceeds(r) PROVE Keeps
    BY <1>4, SyncKeeps
  <1> QED BY <1>1, <1>2, <1>3, <1>4, ReadReceiptsKeeps, SwitchWalletKeeps, LeaseChangesKeeps,
       TunnelChangesKeeps, RestartKeeps, Zenon DEF Next

-----------------------------------------------------------------------------
(* The runtime implements the receipts *)

\* Each step of a handler moves the receipts as VpnReceipts allows, or not at all: the
\* sync of a reconcile finds its reader free and names a wallet.
LEMMA ResumeRefines ==
    ASSUME RuntimeInv, NEW c \in Calls, Resume(c) PROVE [ReceiptsNext]_receiptVars
  <1>1. c \in Readers /\ call[c].context \in AnyContext
    BY Handler, Numbers
  <1>2. ASSUME Touch(call[c].context) PROVE ReceiptsNext
    BY <1>1, <1>2 DEF ReceiptsNext, AnyContext
  <1>3. CASE UseQuery(c)
    BY <1>2, <1>3 DEF UseQuery, FindsNoSession, FindsForeignSession, FindsExpiredSession,
       FindsSession
  <1>4. CASE UseRemote(c)
    <2>1. ASSUME BeginSync(c, call[c].context) PROVE ReceiptsNext
      <3>1. call[c].step \in {"remote", "present", "absent"}
        BY <1>4 DEF UseRemote
      <3>2. /\ CallIsSound(c, call[c], reader[c], lease, view)
            /\ call[c].op # "none" /\ call[c].step # "receipts"
        BY <3>1, Handler
      <3>3. reader[c].step = "idle" /\ call[c].context # NoContext
        BY <3>1, <3>2 DEF CallIsSound
      <3>4. call[c].context \in Contexts /\ ListReceipts(c, call[c].context)
        BY <1>1, <2>1, <3>3 DEF AnyContext, ListReceipts
      <3> QED BY <1>1, <3>4 DEF ReceiptsNext
    <2>2. UNCHANGED receiptVars \/ BeginSync(c, call[c].context)
      BY <1>4 DEF UseRemote, RemoteHasLease, RemoteHasNone, Reject
    <2> QED BY <2>1, <2>2
  <1>5. CASE UseReceiptsOfStatus(c)
    BY <1>1, <1>5 DEF UseReceiptsOfStatus, ReceiptsNext
  <1>6. CASE ~UseQuery(c) /\ ~UseRemote(c) /\ ~UseReceiptsOfStatus(c)
    <2>1. UNCHANGED receiptVars
      BY <1>6, Zenon DEF Resume, Control, CommandFailed, UseLocalStatus, ServeRemote,
         UseCapability,
         OpenLease, OpenFails, TunnelIsUp, TunnelFailed, UseDisconnect, UseForeignStatus,
         UseLocalDisconnect, Repaired, UseRepair
    <2> QED BY <2>1
  <1> QED BY <1>3, <1>4, <1>5, <1>6

\* So does every other step.
LEMMA StepRefines == RuntimeInv /\ [Next]_vars => [ReceiptsNext]_receiptVars
  <1> SUFFICES ASSUME RuntimeInv, [Next]_vars PROVE [ReceiptsNext]_receiptVars
    OBVIOUS
  <1>1. view \in AnyContext
    BY DEF RuntimeInv, RuntimeTypes
  <1>2. ASSUME Touch(view) PROVE ReceiptsNext
    BY <1>1, <1>2 DEF ReceiptsNext, AnyContext
  <1>3. ASSUME NEW c \in Actions, Connect(c) \/ Disconnect(c) \/ DisconnectLocal(c) \/ Repair(c)
        PROVE  [ReceiptsNext]_receiptVars
    <2>1. Touch(view) \/ UNCHANGED receiptVars
      BY <1>3, Zenon DEF Connect, Disconnect, Mark, DisconnectLocal, Repair
    <2> QED BY <1>2, <2>1
  <1>4. CASE ReadReceipts
    <2>1. ASSUME NEW r \in ReceiptPages, view # NoContext, ListReceipts(r, view)
          PROVE  ReceiptsNext
      BY <1>1, <2>1, RuntimeConstants DEF ReceiptsNext, AnyContext
    <2>2. ASSUME NEW r \in ReceiptPages, ListWithoutAuth(r, view) PROVE ReceiptsNext
      BY <1>1, <2>2, RuntimeConstants DEF ReceiptsNext, AnyContext
    <2>3. ASSUME NEW r \in ReceiptPages, ReturnReceipts(r) \/ TakeReceipts(r) PROVE ReceiptsNext
      BY <2>3, RuntimeConstants DEF ReceiptsNext
    <2> QED BY <1>4, <2>1, <2>2, <2>3 DEF ReadReceipts, ReceiptsNext
  <1>5. ASSUME NEW r \in Readers, SyncProceeds(r) PROVE ReceiptsNext
    BY <1>5 DEF SyncProceeds, ReceiptsNext
  <1>6. CASE SwitchWallet \/ LeaseChanges \/ TunnelChanges \/ UNCHANGED vars
    BY <1>6 DEF SwitchWallet, LeaseChanges, TunnelChanges, vars
  <1>7. CASE Restart
    BY <1>7 DEF Restart, ReceiptsNext
  <1>8. ASSUME NEW c \in Polls, GetStatus(c) PROVE UNCHANGED receiptVars
    BY <1>8 DEF GetStatus
  <1>9. ASSUME NEW c \in Calls, Resume(c) PROVE [ReceiptsNext]_receiptVars
    BY <1>9, ResumeRefines
  <1> QED BY <1>3, <1>4, <1>5, <1>6, <1>7, <1>8, <1>9 DEF Next

-----------------------------------------------------------------------------
(* Theorems *)

\* The inductive invariant holds of a process that has just started.
LEMMA RuntimeStarts == Init => RuntimeInv /\ OneActionInv
  <1> SUFFICES ASSUME Init PROVE RuntimeInv /\ OneActionInv
    OBVIOUS
  <1>1. /\ \A c \in Calls : call[c] = NoCall
        /\ state = "idle" /\ session = NoSession /\ view \in AnyContext /\ shown = Blank
        /\ tunnel = [up |-> FALSE, lease |-> 0, repair |-> FALSE] /\ faults = 0
        /\ visible = TRUE /\ mismatch = FALSE /\ call = [c \in Calls |-> NoCall]
        /\ lease = [l \in Leases |-> [owner |-> NoContext, expired |-> FALSE, gone |-> FALSE]]
    BY DEF Init
  <1>2. /\ session \in Sessions /\ session.lease = 0
        /\ shown \in Statuses /\ ~shown.polled /\ tunnel \in Tunnels /\ ~tunnel.up
    BY <1>1, Numbers DEF Sessions, NoSession, Statuses, Blank, States, Tunnels
  <1>3. [owner |-> NoContext, expired |-> FALSE, gone |-> FALSE] \in LeaseRecords
    BY DEF LeaseRecords, AnyContext
  <1>4. RuntimeTypes
    BY <1>1, <1>2, <1>3, NoCallType, Numbers DEF RuntimeTypes, States
  <1>5. IInv
    BY InitIsInductive DEF Init
  <1>6. CallInv
    BY <1>1, RestIsSound, Zenon DEF CallInv
  <1>7. ConnectedHasSession
    BY <1>1 DEF ConnectedHasSession
  <1>8. TunnelInv
    BY <1>1, <1>2, NoCallType DEF TunnelInv
  <1>9. OwnerInv
    BY <1>1, <1>2, NoCallType DEF OwnerInv, Claims
  <1> QED BY <1>4, <1>5, <1>6, <1>7, <1>8, <1>9 DEF RuntimeInv, OneActionInv

\* A step that changes nothing keeps the invariants.
LEMMA StutterKeeps == RuntimeInv /\ UNCHANGED vars => Keeps
  <1> SUFFICES ASSUME RuntimeInv, UNCHANGED vars PROVE Keeps
    OBVIOUS
  <1>1. UNCHANGED <<receiptVars, runtimeVars, call, lease, tunnel, uiVars, faults>>
    BY DEF vars
  <1>2. RuntimeTypes'
    BY <1>1 DEF RuntimeInv, RuntimeTypes, runtimeVars, uiVars
  <1>3. \A c \in Calls : reader'[c] = reader[c]
    BY <1>1 DEF receiptVars
  <1> QED BY <1>1, <1>2, <1>3, OutsideKeeps

\* Every step, or a stutter, keeps the inductive invariants.
LEMMA RuntimeStep ==
    /\ RuntimeInv /\ [Next]_vars => RuntimeInv'
    /\ OneAction /\ RuntimeInv /\ OneActionInv /\ [Next]_vars => OneActionInv'
  <1>1. RuntimeInv /\ [Next]_vars => Keeps
    BY ActionKeeps, StutterKeeps
  <1>2. RuntimeInv /\ [Next]_vars => IInv'
    BY StepRefines, StepPreserves DEF RuntimeInv
  <1> QED BY <1>1, <1>2 DEF Keeps, RuntimeInv

\* The inductive invariant of VpnRuntime, whatever calls overlap.
THEOREM RuntimeInductive == Spec => []RuntimeInv
  BY RuntimeStarts, RuntimeStep, PTL DEF Spec

\* Every variable of the runtime keeps its type.
THEOREM RuntimeTypeCorrect == Spec => []TypeOK
  <1>1. RuntimeInv => TypeOK
    BY TypeParts DEF RuntimeInv, IInv
  <1> QED BY <1>1, RuntimeInductive, PTL

\* VpnRuntime says "connected" only while it holds a session that is not waiting for
\* its expiry: no overlap of polls, connects, disconnects and repairs makes state and
\* activeSession disagree.
THEOREM ConnectedMeansSession == Spec => []ConnectedHasSession
  <1>1. RuntimeInv => ConnectedHasSession
    BY DEF RuntimeInv
  <1> QED BY <1>1, RuntimeInductive, PTL

\* The handlers of VpnRuntime move the receipt cache only as VpnReceipts allows.
THEOREM RuntimeImplementsReceipts == Spec => ReceiptsSpec
  <1>1. Init => ReceiptsInit
    BY DEF Init
  <1> QED BY <1>1, StepRefines, RuntimeInductive, PTL DEF Spec, ReceiptsSpec

\* In the runtime, the cache holds receipts of the active wallet context only.
THEOREM RuntimeReceiptsBelong == Spec => []ReceiptsBelongToContext
  BY RuntimeImplementsReceipts, ReceiptsBelong, PTL

\* In the runtime, no wallet is handed the receipts of another one.
THEOREM RuntimeListsBelong == Spec => []ListsBelongToCaller
  BY RuntimeImplementsReceipts, ListsBelong, PTL

\* In the runtime, while a wallet context stays active its receipts never get older.
THEOREM RuntimeReceiptsMonotone == Spec => ReceiptsNeverRegress
  BY RuntimeImplementsReceipts, ReceiptsAreMonotone, PTL

\* With one user action at a time, both invariants hold together.
THEOREM OneActionInductive == ASSUME OneAction PROVE Spec => []OneActionInv
  <1>1. Init => OneActionInv
    BY RuntimeStarts
  <1>2. RuntimeInv /\ OneActionInv /\ [Next]_vars => OneActionInv'
    BY RuntimeStep
  <1> QED BY <1>1, <1>2, RuntimeInductive, PTL DEF Spec

\* With one user action at a time, a tunnel that is up between two of them carries the
\* lease of the live session, although polls drop and refresh sessions meanwhile.
THEOREM TunnelServes == ASSUME OneAction PROVE Spec => []TunnelServesSession
  <1>1. RuntimeInv /\ OneActionInv => TunnelServesSession
    <2> SUFFICES ASSUME RuntimeInv, OneActionInv, \A a \in Actions : Free(a),
                        tunnel.up, session.lease # 0, ~session.pending
                 PROVE  tunnel.lease = session.lease
      BY DEF TunnelServesSession
    <2>1. \A a \in Calls : call[a].step # "up"
      <3> SUFFICES ASSUME NEW a \in Calls, call[a].step = "up" PROVE FALSE
        OBVIOUS
      <3>1. CallIsSound(a, call[a], reader[a], lease, view)
        BY DEF RuntimeInv, CallInv
      <3>2. call[a].op = "connect"
        BY <3>1 DEF CallIsSound
      <3>3. a \in Actions
        BY <3>1, <3>2 DEF CallIsSound
      <3> QED BY <3>2, <3>3 DEF Free
    <2> QED BY <2>1 DEF OneActionInv, TunnelInv
  <1> QED BY <1>1, RuntimeInductive, OneActionInductive, PTL

\* With one user action at a time, the page never shows, from a poll, a session of a
\* wallet other than the selected one.
THEOREM PolledStatusOwned == ASSUME OneAction PROVE Spec => []PolledStatusIsOwn
  <1>1. OneActionInv => PolledStatusIsOwn
    BY DEF OneActionInv, OwnerInv, Own, PolledStatusIsOwn
  <1> QED BY <1>1, OneActionInductive, PTL
=============================================================================
