----------------------------- MODULE VpnRuntime -----------------------------
(***************************************************************************)
(* The class VpnRuntime of src/electron/vpnRuntime.ts, in the main process *)
(* and without any lock: the VPN page polls its status every second while  *)
(* the user connects, disconnects, repairs, and switches wallets, and each *)
(* handler resumes after every await with whatever the others left behind. *)
(* The receipts the handlers keep are those of VpnReceipts; the controller *)
(* program, its tunnel and the leases of the server are external.          *)
(***************************************************************************)
EXTENDS VpnReceipts

CONSTANTS Polls,         \* status polls that may be in flight together
          Actions,       \* user actions in flight together: a remounted page forgets
                         \* that one is pending
          ReceiptPages,  \* the user actions that may also read the receipts page
          MaxLeases,     \* bound: leases ever paid for
          MaxFaults      \* bound: rejections, lost tunnels, switches, restarts

Calls == Polls \cup Actions

ASSUME RuntimeConstants ==
    /\ Polls \cap Actions = {} /\ Calls \subseteq Readers
    /\ ReceiptPages \subseteq Readers \ Polls
    /\ MaxLeases \in Nat /\ MaxFaults \in Nat

VARIABLES state,         \* VpnRuntime.state
          session,       \* activeSession: its lease (0 for null), pendingRemoteExpiry
          visible,       \* activeSessionContextVisible
          mismatch,      \* reconcileState = "active-session-context-mismatch"
          call,          \* the handlers in flight
          lease,         \* what the server knows of each lease
          tunnel,        \* what the controller program would report
          view,          \* the wallet context selected in the renderer
          shown,         \* the status the VPN page shows
          faults

runtimeVars == <<state, session, visible, mismatch>>
uiVars == <<view, shown>>
vars == <<receiptVars, runtimeVars, call, lease, tunnel, uiVars, faults>>

Leases == 1..MaxLeases
AnyContext == Contexts \cup {NoContext}
States == {"idle", "connecting", "connected", "disconnecting", "reconciling",
           "repair-needed", "remote-expiry-pending", "error"}

NoSession == [lease |-> 0, pending |-> FALSE]
Unseen == [got |-> "nothing", up |-> FALSE, repair |-> FALSE]
NoCall == [op |-> "none", step |-> "none", context |-> NoContext, lease |-> 0,
           held |-> FALSE, fresh |-> FALSE, seen |-> Unseen]

\* `held`: the session object the handler captured is still the active one.
\* `fresh`: the wallet was not switched since the poll began, so requestGeneration
\* has not moved (it also moves after an action, which only discards more polls).
TypeOK ==
    /\ ReceiptsTypeOK
    /\ state \in States
    /\ session \in [lease : 0..MaxLeases, pending : BOOLEAN]
    /\ visible \in BOOLEAN /\ mismatch \in BOOLEAN
    /\ call \in [Calls ->
         [op : {"none", "status", "connect", "connected", "disconnect", "foreign", "local",
                "repair"},
          step : {"none", "query", "remote", "present", "absent", "receipts", "open",
                  "up", "down", "mend", "fallback"},
          context : AnyContext, lease : 0..MaxLeases, held : BOOLEAN, fresh : BOOLEAN,
          seen : [got : {"nothing", "error", "answer"}, up : BOOLEAN, repair : BOOLEAN]]]
    /\ lease \in [Leases -> [owner : AnyContext, expired : BOOLEAN, gone : BOOLEAN]]
    /\ tunnel \in [up : BOOLEAN, lease : 0..MaxLeases, repair : BOOLEAN]
    /\ view \in AnyContext
    /\ shown \in [state : States, about : 0..MaxLeases, up : BOOLEAN, polled : BOOLEAN]
    /\ faults \in 0..MaxFaults

Blank == [state |-> "idle", about |-> 0, up |-> FALSE, polled |-> FALSE]

Init ==
    /\ ReceiptsInit
    /\ state = "idle" /\ session = NoSession /\ visible = TRUE /\ mismatch = FALSE
    /\ call = [c \in Calls |-> NoCall]
    /\ lease = [l \in Leases |-> [owner |-> NoContext, expired |-> FALSE, gone |-> FALSE]]
    /\ tunnel = [up |-> FALSE, lease |-> 0, repair |-> FALSE]
    /\ view \in AnyContext /\ shown = Blank /\ faults = 0

-----------------------------------------------------------------------------
\* A user action that reads the receipts page is not over before it has its list.
Free(c) == call[c].op = "none" /\ reader[c].step = "idle"

Goes(c, op, step, context, l) ==
    [NoCall EXCEPT !.op = op, !.step = step, !.context = context, !.lease = l,
                   !.held = (l # 0), !.fresh = (op = "status")]

Enter(c, op, step, context, l) == call' = [call EXCEPT ![c] = Goes(c, op, step, context, l)]

\* The active session is replaced by another object: no handler holds it any more.
Replaced(calls) == [c \in Calls |-> [calls[c] EXCEPT !.held = FALSE]]

SeenBy(c) == call[c].seen
Fault == faults < MaxFaults /\ faults' = faults + 1

\* inputMatchesActiveSessionContext, negated, for an existing session
Foreign(context) == session.lease # 0 /\ lease[session.lease].owner # context

\* markActiveSessionContextMismatch
Mark(context) ==
    /\ Touch(context)
    /\ visible' = FALSE /\ mismatch' = TRUE /\ state' = "repair-needed"
    /\ UNCHANGED session

\* buildStatus, from the values the step leaves behind
Hidden == session'.lease = 0 \/ ~visible'

Built(c) ==
    [state |-> IF Hidden /\ SeenBy(c).repair THEN "repair-needed" ELSE state',
     about |-> IF Hidden THEN 0 ELSE session'.lease,
     up |-> SeenBy(c).up, polled |-> call[c].op = "status"]

\* buildLocalControllerStatus
BuiltLocally(c) ==
    [state |-> IF SeenBy(c).repair \/ SeenBy(c).up THEN "repair-needed" ELSE "idle",
     about |-> 0, up |-> SeenBy(c).up, polled |-> call[c].op = "status"]

\* Faulty: an answer is shown whichever wallet it was asked for.
ShowAny(c, status) == shown' = status

\* The page shows what an action returned, and what a poll returned if it still
\* belongs to the selected wallet.
Show(c, status) ==
    shown' = IF call[c].op = "status" /\ ~call[c].fresh THEN shown ELSE status

\* The handler returns; `calls` are the handlers as the step leaves them.  The
\* preload follows a disconnect that met a foreign session and a live tunnel with
\* a disconnectLocal.
Answer(calls, c, status) ==
    IF call[c].op \in {"disconnect", "foreign"} /\ mismatch' /\ SeenBy(c).up
    THEN /\ call' = [calls EXCEPT ![c] = Goes(c, "local", "fallback", NoContext, 0)]
         /\ UNCHANGED shown
    ELSE call' = [calls EXCEPT ![c] = NoCall] /\ Show(c, status)

Reject(c) ==
    /\ call' = [call EXCEPT ![c] = NoCall]
    /\ UNCHANGED <<receiptVars, runtimeVars, shown>>

-----------------------------------------------------------------------------
(* The calls of the page. *)

\* getStatus up to its await, with the selected wallet or, without one, with none.
GetStatus(c) ==
    /\ Free(c)
    /\ Enter(c, "status", "query", view, 0)
    /\ UNCHANGED <<receiptVars, runtimeVars, lease, tunnel, uiVars, faults>>

\* connect up to its first await; an older session is disconnected first.
Connect(c) ==
    /\ Free(c) /\ view # NoContext
    /\ IF Foreign(view) THEN Mark(view) /\ UNCHANGED call
       ELSE /\ Touch(view)
            /\ mismatch' = FALSE
            /\ IF session.lease # 0
               THEN /\ state' = "disconnecting" /\ visible' = TRUE
                    /\ Enter(c, "connect", "down", view, session.lease)
               ELSE /\ state' = "connecting" /\ UNCHANGED visible
                    /\ Enter(c, "connect", "query", view, 0)
            /\ UNCHANGED session
    /\ UNCHANGED <<lease, tunnel, uiVars, faults>>

Disconnect(c) ==
    /\ Free(c) /\ view # NoContext
    /\ IF session.lease = 0
       THEN /\ Touch(view) /\ UNCHANGED runtimeVars
            /\ Enter(c, "disconnect", "query", view, 0)
       ELSE IF Foreign(view)
       THEN Mark(view) /\ Enter(c, "foreign", "query", view, 0)
       ELSE /\ state' = "disconnecting" /\ visible' = TRUE /\ mismatch' = FALSE
            /\ Enter(c, "disconnect", "down", view, session.lease)
            /\ UNCHANGED <<receiptVars, session>>
    /\ UNCHANGED <<lease, tunnel, uiVars, faults>>

\* disconnectLocal, called by a wallet that cannot sign or as the fallback.
DisconnectLocal(c) ==
    /\ Free(c) \/ call[c].step = "fallback"
    /\ state' = "disconnecting" /\ mismatch' = FALSE
    /\ Enter(c, "local", "down", NoContext, 0)
    /\ UNCHANGED <<receiptVars, session, visible, lease, tunnel, uiVars, faults>>

Repair(c) ==
    /\ Free(c)
    /\ Enter(c, "repair", "mend", NoContext, 0)
    /\ UNCHANGED <<receiptVars, runtimeVars, lease, tunnel, uiVars, faults>>

-----------------------------------------------------------------------------
(* The controller program runs a command; its answer is used later.  A command *)
(* that fails may or may not have changed the tunnel.                          *)

Commanded(c) ==
    CASE call[c].step = "query" -> tunnel
      [] call[c].step = "up"    -> [tunnel EXCEPT !.up = TRUE, !.lease = call[c].lease]
      [] call[c].step = "down"  -> [tunnel EXCEPT !.up = FALSE, !.lease = 0]
      [] call[c].step = "mend"  -> [up |-> FALSE, lease |-> 0, repair |-> FALSE]

Reports(c, got) ==
    call' = [call EXCEPT ![c].seen = [got |-> got, up |-> tunnel'.up,
                                      repair |-> tunnel'.repair]]

\* missingStatus: without its program, the controller answers that there is no tunnel
\* and leaves the tunnel as it is.  connect and refreshCapability fail instead.
ReportsMissing(c) ==
    /\ call[c].step # "up" /\ ~(call[c].op = "connect" /\ call[c].step = "query")
    /\ UNCHANGED tunnel
    /\ call' = [call EXCEPT ![c].seen = [Unseen EXCEPT !.got = "answer"]]

Control(c) ==
    /\ call[c].step \in {"query", "up", "down", "mend"} /\ SeenBy(c).got = "nothing"
    /\ \/ tunnel' = Commanded(c) /\ Reports(c, "answer") /\ UNCHANGED faults
       \/ tunnel' \in {tunnel, Commanded(c)} /\ Reports(c, "error") /\ Fault
       \/ ReportsMissing(c) /\ Fault
    /\ UNCHANGED <<receiptVars, runtimeVars, lease, uiVars>>

\* A command that failed rejects the handler that awaits it.  Only
\* refreshCapability reports its failure, as a controller that is not installed,
\* and only connect has something to leave behind.
CommandFailed(c) ==
    /\ SeenBy(c).got = "error" /\ call[c].step \in {"query", "down", "mend"}
    /\ IF call[c].op = "connect" /\ call[c].step = "query"
       THEN state' = "error" ELSE UNCHANGED state
    /\ call' = [call EXCEPT ![c] = NoCall]
    /\ UNCHANGED <<receiptVars, session, visible, mismatch, lease, tunnel, uiVars, faults>>

-----------------------------------------------------------------------------
(* reconcile *)

Reconciles(c) == call[c].op \in {"status", "connected", "disconnect"}
Seen(c, step) == call[c].step = step /\ SeenBy(c).got = "answer"

\* disconnect without a session overrides the state that reconcile found.
Ends(c, st) ==
    state' = IF call[c].op # "disconnect" THEN st
             ELSE IF SeenBy(c).up THEN "repair-needed" ELSE "idle"

\* Faulty: the reconcile reason is stored as the state.
StateAfterQueryMixed(c) == IF SeenBy(c).repair THEN "controller-repair-required" ELSE state

StateAfterQuery(c) == IF SeenBy(c).repair THEN "repair-needed" ELSE state

\* getStatus of a page without a wallet.
UseLocalStatus(c) ==
    /\ call[c].op = "status" /\ call[c].context = NoContext /\ Seen(c, "query")
    /\ UNCHANGED <<receiptVars, runtimeVars, lease, tunnel, view, faults>>
    /\ Answer(call, c, BuiltLocally(c))

\* Faulty: no session means that there is no tunnel.
FindsNothingToReport(c) ==
    /\ session.lease = 0
    /\ visible' = TRUE /\ Touch(call[c].context)
    /\ Ends(c, "idle") /\ mismatch' = FALSE
    /\ UNCHANGED session
    /\ Answer(call, c, Built(c))

FindsNoSession(c) ==
    /\ session.lease = 0
    /\ visible' = TRUE /\ Touch(call[c].context)
    /\ IF SeenBy(c).up /\ ~SeenBy(c).repair
       THEN Ends(c, "repair-needed") /\ mismatch' = FALSE
       ELSE IF StateAfterQuery(c) \notin {"error", "repair-needed"}
       THEN Ends(c, "idle") /\ mismatch' = FALSE
       ELSE /\ Ends(c, StateAfterQuery(c))
            /\ mismatch' = (mismatch /\ ~SeenBy(c).repair)
    /\ UNCHANGED session
    /\ Answer(call, c, Built(c))

FindsForeignSession(c) ==
    /\ Foreign(call[c].context)
    /\ Touch(call[c].context) /\ visible' = FALSE /\ mismatch' = TRUE
    /\ Ends(c, "repair-needed")
    /\ UNCHANGED session
    /\ Answer(call, c, Built(c))

\* Faulty: the session is dropped and the state kept.
FindsExpiredKeepsState(c) ==
    /\ session.lease # 0 /\ ~Foreign(call[c].context) /\ lease[session.lease].expired
    /\ Touch(call[c].context)
    /\ session' = NoSession /\ visible' = TRUE /\ mismatch' = FALSE /\ Ends(c, state)
    /\ Answer(Replaced(call), c, Built(c))

FindsExpiredSession(c) ==
    /\ session.lease # 0 /\ ~Foreign(call[c].context) /\ lease[session.lease].expired
    /\ Touch(call[c].context)
    /\ session' = NoSession /\ visible' = TRUE /\ mismatch' = FALSE /\ Ends(c, "idle")
    /\ Answer(Replaced(call), c, Built(c))

\* The session's own wallet asks: on to the server.
FindsSession(c) ==
    /\ session.lease # 0 /\ ~Foreign(call[c].context) /\ ~lease[session.lease].expired
    /\ Touch(call[c].context)
    /\ visible' = TRUE /\ state' = StateAfterQuery(c)
    /\ mismatch' = (mismatch /\ ~SeenBy(c).repair)
    /\ call' = [call EXCEPT ![c].step = "remote", ![c].lease = session.lease]
    /\ UNCHANGED <<session, shown>>

UseQuery(c) ==
    /\ Reconciles(c) /\ call[c].context # NoContext /\ Seen(c, "query")
    /\ \/ FindsNoSession(c) \/ FindsForeignSession(c)
       \/ FindsExpiredSession(c) \/ FindsSession(c)
    /\ UNCHANGED <<lease, tunnel, view, faults>>

\* The server is asked for the lease; its answer is used later.
ServeRemote(c) ==
    /\ call[c].step = "remote"
    /\ call' = [call EXCEPT ![c].step =
           IF lease[call[c].lease].gone THEN "absent" ELSE "present"]
    /\ UNCHANGED <<receiptVars, runtimeVars, lease, tunnel, uiVars, faults>>

\* Faulty: a lease that the server still has counts as connected.
RemoteLeaseMeansConnected(c) ==
    /\ call[c].step = "present"
    /\ IF session.lease # call[c].lease THEN Reject(c)
       ELSE /\ UNCHANGED <<receiptVars, session, visible>>
            /\ mismatch' = FALSE
            /\ Ends(c, IF session.pending THEN "remote-expiry-pending" ELSE "connected")
            /\ Answer(Replaced(call), c, Built(c))

\* The server had the lease.  A session that was dropped meanwhile, or that is of
\* another lease, makes the handler throw.
RemoteHasLease(c) ==
    /\ call[c].step = "present"
    /\ IF session.lease # call[c].lease THEN Reject(c)
       ELSE /\ UNCHANGED <<receiptVars, session, visible>>
            /\ mismatch' = FALSE
            /\ Ends(c, IF session.pending \/ ~SeenBy(c).up THEN "remote-expiry-pending"
                       ELSE IF SeenBy(c).repair THEN "repair-needed" ELSE "connected")
            /\ Answer(Replaced(call), c, Built(c))

\* Faulty: the receipts are read for a context that nobody activated.
RemoteHasNoneUncounted(c) ==
    /\ call[c].step = "absent" /\ ~SeenBy(c).up
    /\ mismatch' = FALSE /\ session' = NoSession /\ state' = "idle"
    /\ reader' = [reader EXCEPT ![c] = [NotReading EXCEPT !.step = "asked",
                                                          !.context = call[c].context]]
    /\ call' = [Replaced(call) EXCEPT ![c].step = "receipts", ![c].lease = 0]
    /\ UNCHANGED <<receiptsContext, newest, receipts, version, visible, shown>>

\* The server did not have it: whatever session is active now is dropped, unless
\* the controller was up when it was asked.
RemoteHasNone(c) ==
    /\ call[c].step = "absent"
    /\ mismatch' = FALSE
    /\ IF SeenBy(c).up
       THEN /\ Ends(c, "repair-needed")
            /\ UNCHANGED <<receiptVars, session, visible>>
            /\ Answer(call, c, Built(c))
       ELSE /\ session' = NoSession /\ state' = "idle"
            /\ BeginSync(c, call[c].context)
            /\ call' = [Replaced(call) EXCEPT ![c].step = "receipts", ![c].lease = 0]
            /\ UNCHANGED <<visible, shown>>

UseRemote(c) ==
    /\ call[c].step \in {"remote", "present", "absent"}
    /\ \/ (RemoteHasLease(c) \/ RemoteHasNone(c)) /\ UNCHANGED faults
       \/ Fault /\ Reject(c)
    /\ UNCHANGED <<lease, tunnel, view>>

\* The receipts arrived or failed; either way the status is built.
UseReceiptsOfStatus(c) ==
    /\ call[c].step = "receipts" /\ reader[c].step \in {"over", "idle"}
    /\ IF reader[c].step = "over" THEN DropReceipts(c) ELSE UNCHANGED receiptVars
    /\ Ends(c, state)
    /\ UNCHANGED <<session, visible, mismatch, lease, tunnel, view, faults>>
    /\ Answer(call, c, Built(c))

-----------------------------------------------------------------------------
(* connect, disconnect, disconnectLocal and repair after their awaits *)

\* The capability, then the profile, the network identity, the quote, the payment,
\* its finality and the session: nothing shared is read or written in between.
UseCapability(c) ==
    /\ call[c].op = "connect" /\ Seen(c, "query")
    /\ IF SeenBy(c).repair
       THEN state' = "repair-needed" /\ call' = [call EXCEPT ![c] = NoCall]
       ELSE call' = [call EXCEPT ![c].step = "open", ![c].seen = Unseen] /\ UNCHANGED state
    /\ UNCHANGED <<receiptVars, session, visible, mismatch, lease, tunnel, uiVars, faults>>

OpenLease(c) ==
    /\ call[c].step = "open"
    /\ \E l \in Leases :
         /\ lease[l].owner = NoContext
         /\ \A k \in 1..(l - 1) : lease[k].owner # NoContext
         /\ lease' = [lease EXCEPT ![l].owner = call[c].context]
         /\ call' = [call EXCEPT ![c].step = "up", ![c].lease = l]
    /\ UNCHANGED <<receiptVars, runtimeVars, tunnel, uiVars, faults>>

\* Before the payment is quoted a rejection leaves the state as it is.
OpenFails(c) ==
    /\ call[c].step = "open"
    /\ state' \in {state, "error"}
    /\ call' = [call EXCEPT ![c] = NoCall]
    /\ UNCHANGED <<receiptVars, session, visible, mismatch, lease, tunnel, uiVars, faults>>

\* The tunnel is up: the session becomes active and its status is read.
TunnelIsUp(c) ==
    /\ Seen(c, "up")
    /\ session' = [lease |-> call[c].lease, pending |-> FALSE] /\ state' = "connected"
    /\ call' = [Replaced(call) EXCEPT
                  ![c] = Goes(c, "connected", "query", call[c].context, 0)]
    /\ UNCHANGED <<receiptVars, visible, mismatch, lease, tunnel, uiVars, faults>>

\* Faulty: the session of a failed tunnel counts as a live one.
TunnelFailedButKept(c) ==
    /\ call[c].step = "up" /\ SeenBy(c).got = "error"
    /\ session' = [lease |-> call[c].lease, pending |-> FALSE] /\ state' = "error"
    /\ mismatch' = FALSE
    /\ call' = [Replaced(call) EXCEPT ![c] = NoCall]
    /\ UNCHANGED <<receiptVars, visible, lease, tunnel, uiVars, faults>>

\* The lease is paid for and its tunnel is not up: it waits for its expiry.
TunnelFailed(c) ==
    /\ call[c].step = "up" /\ SeenBy(c).got = "error"
    /\ session' = [lease |-> call[c].lease, pending |-> TRUE] /\ state' = "error"
    /\ mismatch' = FALSE
    /\ call' = [Replaced(call) EXCEPT ![c] = NoCall]
    /\ UNCHANGED <<receiptVars, visible, lease, tunnel, uiVars, faults>>

\* The nested disconnect of connect returns to it, any other to the page.
Return(calls, c) ==
    IF call[c].op = "connect"
    THEN /\ call' = [calls EXCEPT ![c] = Goes(c, "connect", "query", call[c].context, 0)]
         /\ UNCHANGED shown
    ELSE Answer(calls, c, Built(c))

\* The captured session is marked, which is the active one unless a refresh or a
\* connect replaced it; an expired one ends whatever session is active.
UseDisconnect(c) ==
    /\ call[c].op \in {"connect", "disconnect"} /\ Seen(c, "down")
    /\ UNCHANGED <<receiptVars, visible, lease, tunnel, view, faults>>
    /\ IF SeenBy(c).repair
       THEN /\ state' = "repair-needed" /\ UNCHANGED <<session, mismatch>>
            /\ Return(call, c)
       ELSE /\ mismatch' = FALSE
            /\ IF lease[call[c].lease].expired
               THEN /\ session' = NoSession /\ state' = "idle"
                    /\ Return(Replaced(call), c)
               ELSE /\ session' = [session EXCEPT !.pending = @ \/ call[c].held]
                    /\ state' = "remote-expiry-pending"
                    /\ Return(call, c)

UseForeignStatus(c) ==
    /\ call[c].op = "foreign" /\ Seen(c, "query")
    /\ UNCHANGED <<receiptVars, runtimeVars, lease, tunnel, view, faults>>
    /\ Answer(call, c, Built(c))

UseLocalDisconnect(c) ==
    /\ call[c].op = "local" /\ Seen(c, "down")
    /\ UNCHANGED <<receiptVars, visible, lease, tunnel, view, faults>>
    /\ IF SeenBy(c).repair
       THEN /\ state' = "repair-needed" /\ UNCHANGED <<session, mismatch>>
            /\ Answer(call, c, Built(c))
       ELSE IF session.lease = 0
       THEN /\ state' = "idle" /\ UNCHANGED <<session, mismatch>>
            /\ Answer(call, c, BuiltLocally(c))
       ELSE /\ state' = "remote-expiry-pending" /\ mismatch' = FALSE
            /\ session' = [session EXCEPT !.pending = TRUE]
            /\ Answer(call, c, Built(c))

\* The repair is over; the controller is asked once more.
Repaired(c) ==
    /\ Seen(c, "mend")
    /\ call' = [call EXCEPT ![c].step = "query", ![c].seen = Unseen]
    /\ UNCHANGED <<receiptVars, runtimeVars, lease, tunnel, uiVars, faults>>

StateAfterRepair(c) ==
    IF SeenBy(c).repair THEN "repair-needed"
    ELSE IF session.lease = 0 THEN IF SeenBy(c).up THEN "repair-needed" ELSE "idle"
    ELSE IF ~visible THEN state
    ELSE IF ~SeenBy(c).up THEN "reconciling"
    ELSE IF session.pending THEN "remote-expiry-pending" ELSE "connected"

UseRepair(c) ==
    /\ call[c].op = "repair" /\ Seen(c, "query")
    /\ state' = StateAfterRepair(c)
    /\ mismatch' = (mismatch /\ ~SeenBy(c).repair /\ session.lease # 0 /\ ~visible)
    /\ UNCHANGED <<receiptVars, session, visible, lease, tunnel, view, faults>>
    /\ Answer(call, c, BuiltLocally(c))

-----------------------------------------------------------------------------
(* The receipts page of the same runtime, and the world outside *)

ReadReceipts ==
    /\ \/ \E r \in ReceiptPages :
            /\ r \in Calls => call[r].op = "none"
            /\ \/ view # NoContext /\ ListReceipts(r, view)
               \/ ListWithoutAuth(r, view)
               \/ ReturnReceipts(r) \/ TakeReceipts(r)
       \/ ReceiptIssued
    /\ UNCHANGED <<runtimeVars, call, lease, tunnel, uiVars, faults>>

SyncProceeds(r) ==
    /\ ServeReceipts(r) \/ SyncFails(r) \/ UseReceipts(r)
    /\ UNCHANGED <<runtimeVars, call, lease, tunnel, uiVars, faults>>

\* The page forgets whatever it showed of the wallet it leaves.
Kept == [state |-> IF ~shown.up THEN "idle"
                   ELSE IF shown.state \in {"idle", "error"} THEN "reconciling"
                   ELSE shown.state,
         about |-> 0, up |-> shown.up, polled |-> FALSE]

SwitchWallet ==
    /\ Fault
    /\ \E c \in AnyContext \ {view} : view' = c
    /\ shown' = Kept
    /\ call' = [c \in Calls |-> [call[c] EXCEPT !.fresh = FALSE]]
    /\ UNCHANGED <<receiptVars, runtimeVars, lease, tunnel>>

LeaseChanges ==
    /\ \E l \in Leases :
         /\ lease[l].owner # NoContext
         /\ \/ ~lease[l].expired /\ lease' = [lease EXCEPT ![l].expired = TRUE]
            \/ ~lease[l].gone /\ lease' = [lease EXCEPT ![l].gone = TRUE]
    /\ UNCHANGED <<receiptVars, runtimeVars, call, tunnel, uiVars, faults>>

TunnelChanges ==
    /\ Fault
    /\ \/ tunnel.up /\ tunnel' = [tunnel EXCEPT !.up = FALSE, !.lease = 0]
       \/ ~tunnel.repair /\ tunnel' = [tunnel EXCEPT !.repair = TRUE]
    /\ UNCHANGED <<receiptVars, runtimeVars, call, lease, uiVars>>

\* Nothing is persisted: loadActiveSession removes the former file.  The tunnel
\* outlives the wallet.
Restart ==
    /\ Fault
    /\ RestartReceipts
    /\ state' = "idle" /\ session' = NoSession /\ visible' = TRUE /\ mismatch' = FALSE
    /\ call' = [c \in Calls |-> NoCall]
    /\ shown' = Blank
    /\ UNCHANGED <<lease, tunnel, view>>

Resume(c) ==
    \/ Control(c) \/ CommandFailed(c)
    \/ UseLocalStatus(c) \/ UseQuery(c) \/ ServeRemote(c) \/ UseRemote(c)
    \/ UseReceiptsOfStatus(c)
    \/ UseCapability(c) \/ OpenLease(c) \/ OpenFails(c) \/ TunnelIsUp(c) \/ TunnelFailed(c)
    \/ UseDisconnect(c) \/ UseForeignStatus(c) \/ UseLocalDisconnect(c)
    \/ Repaired(c) \/ UseRepair(c)

Next ==
    \/ \E c \in Polls : GetStatus(c)
    \/ \E c \in Actions : Connect(c) \/ Disconnect(c) \/ DisconnectLocal(c) \/ Repair(c)
    \/ \E c \in Calls : Resume(c)
    \/ \E r \in Readers : SyncProceeds(r)
    \/ ReadReceipts \/ SwitchWallet \/ LeaseChanges \/ TunnelChanges \/ Restart

Spec == Init /\ [][Next]_vars

\* The page polls for as long as it is open, commands and requests settle (each
\* carries a timeout), and MaxFaults keeps rejections and switches finite.  Users
\* owe nothing.
FairSpec ==
    /\ Spec
    /\ \A c \in Polls : WF_vars(GetStatus(c))
    /\ \A c \in Calls : WF_vars(Resume(c))
    /\ \A r \in Readers : WF_vars(SyncProceeds(r))

-----------------------------------------------------------------------------
\* The runtime calls itself connected only while it holds a session that is not
\* on its way out, whatever refreshes and disconnects overlapped.
ConnectedHasSession == state = "connected" => session.lease # 0 /\ ~session.pending

\* With one user action at a time, a tunnel that is up once no action is in flight
\* carries the lease of the session that counts as live.
TunnelServesSession ==
    (\A c \in Actions : Free(c)) /\ tunnel.up /\ session.lease # 0 /\ ~session.pending
        => tunnel.lease = session.lease

\* With one user action at a time, a status that a poll puts on the page never
\* describes another wallet's session, although wallets are switched and sessions
\* opened while polls are on their way.
PolledStatusIsOwn ==
    shown.polled /\ shown.about # 0 => lease[shown.about].owner = view

\* A tunnel that outlived its session (a restart, a session dropped by a late
\* answer) is reported as needing repair while the page is open.
OrphanTunnelReported ==
    tunnel.up /\ session.lease = 0 ~>
        ~tunnel.up \/ session.lease # 0 \/ shown.state = "repair-needed"

\* A page that shows "connected" over a tunnel that is down corrects itself.
ConnectedIsTruthful ==
    shown.state = "connected" /\ ~tunnel.up ~> tunnel.up \/ shown.state # "connected"

\* tests/vpnRuntime.spec.ts:1067 "hides an active session after an endpoint/account
\* switch and refuses mismatched reconciliation or disconnect": the status a refused
\* disconnect returns to the other wallet describes no session.
StatusHidesForeignSession ==
    [][\A c \in Actions :
         call[c].op = "foreign" /\ call'[c].op = "none" /\ shown' # shown
           => shown'.about = 0]_vars

\* The assertions of normalizeRemoteSession ("VPN refreshed session ..." must match
\* the previous session): a refresh of one lease never touches the session of
\* another.
RefreshAppliesToItsSession ==
    [][\A c \in Calls : call[c].step = "absent" /\ call'[c].step = "receipts"
         => session.lease \in {0, call[c].lease}]_vars
=============================================================================
