----------------------------- MODULE VaultStore -----------------------------
(***************************************************************************)
(* What the secure vault promises to its callers, with no file, cache or   *)
(* queue: a store request takes effect at one instant or not at all.  A    *)
(* confirmed request survives any crash; a rejected one may have taken     *)
(* effect, and then until a later confirmation a power loss may undo it.   *)
(***************************************************************************)
EXTENDS Naturals, FiniteSets

CONSTANTS Requests, Keys, Bound, Materials, Unset, Capacity

VARIABLES content,   \* what the vault holds
          kept,      \* the contents that a power loss may leave
          status     \* of every request, and what it stores

storeVars == <<content, kept, status>>

Contents == [Keys -> Materials \cup {Unset}]

\* What a request stores: one account secret, or a batch of receive keys.
Puts == UNION {[K -> Materials] : K \in {{k} : k \in Keys \ Bound}
                                       \cup (SUBSET Bound \ {{}})}
NoPut == [k \in {} |-> Unset]

With(vault, put) == [k \in Keys |-> IF k \in DOMAIN put THEN put[k] ELSE vault[k]]

BoundIn(vault) == {k \in Bound : vault[k] # Unset}

\* A receive key keeps its material for ever, and there is a limit to them.
Accepts(vault, put) ==
    /\ \A k \in DOMAIN put \cap BoundIn(vault) : put[k] = vault[k]
    /\ Cardinality(BoundIn(With(vault, put))) <= Capacity

StoreInit ==
    /\ content = [k \in Keys |-> Unset]
    /\ kept = {content}
    /\ status = [r \in Requests |-> [is |-> "idle", put |-> NoPut]]

Becomes(r, is) == status' = [status EXCEPT ![r].is = is]

Ask(r) ==
    /\ status[r].is = "idle"
    /\ \E put \in Puts : status' = [status EXCEPT ![r] = [is |-> "waits", put |-> put]]
    /\ UNCHANGED <<content, kept>>

TakeEffect(r) ==
    /\ status[r].is = "waits" /\ Accepts(content, status[r].put)
    /\ content' = With(content, status[r].put)
    /\ kept' = kept \cup {content'}
    /\ Becomes(r, "written")

Confirm(r) ==
    /\ status[r].is = "written"
    /\ kept' = {content}
    /\ Becomes(r, "stored")
    /\ UNCHANGED content

Reject(r) ==
    /\ status[r].is \in {"waits", "written"}
    /\ Becomes(r, "rejected")
    /\ UNCHANGED <<content, kept>>

\* The process ends: nobody hears of the requests under way any more.
Interrupted == [r \in Requests |->
    IF status[r].is \in {"waits", "written"} THEN [status[r] EXCEPT !.is = "cut"]
    ELSE status[r]]

Crash == status' = Interrupted /\ UNCHANGED <<content, kept>>

PowerLoss ==
    /\ content' \in kept
    /\ kept' = {content'}
    /\ status' = Interrupted

StoreNext ==
    \/ \E r \in Requests : Ask(r) \/ TakeEffect(r) \/ Confirm(r) \/ Reject(r)
    \/ Crash
    \/ PowerLoss

StoreSpec == StoreInit /\ [][StoreNext]_storeVars
=============================================================================
