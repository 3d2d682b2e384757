----------------------- MODULE ValidationFeeFinality -----------------------
(***************************************************************************)
(* GovernanceValidationFeeFinalityStore                                    *)
(* (src/electron/governanceValidationFeeFinality.ts): the durable watermark *)
(* of what the wallet has been shown as final of a fee policy.  A state    *)
(* file holds one observation per immutable ledger scope; a marker file,   *)
(* written after the first state, says that the store was initialised; an  *)
(* in-process floor outlives changes made to the files.                    *)
(*                                                                         *)
(* verifyAndPromote never yields, so calls do not interleave: what races   *)
(* with it are crashes and failures between its writes, and files that are *)
(* removed or rolled back, while the wallet runs or between two runs.      *)
(***************************************************************************)
EXTENDS Integers, FiniteSets

CONSTANTS Scopes,        \* immutable ledger scopes
          Blocks,        \* what the hashes of one height may be
          Policies,      \* what the hash of one policy version may be
          MaxHeight,     \* bound on ledgerFinalisedHeight
          MaxVersion,    \* bound on policyVersion
          MaxScopes,     \* MAX_TRUST_SCOPES
          None           \* no observation of a scope

Observations == [height : 1..MaxHeight, block : Blocks,
                 version : 1..MaxVersion, policy : Policies]

ASSUME StoreConstants ==
    /\ MaxHeight \in Nat /\ MaxVersion \in Nat /\ MaxScopes \in Nat
    /\ None \notin Observations
    /\ IsFiniteSet(Scopes)

VARIABLES stored,        \* the observations in the state file
          hasState,      \* the state file exists
          hasMarker,     \* the marker file exists
          floor,         \* inProcessFloor
          initialized,   \* this process knows that the files existed
          accepted,      \* the observations reported as final, see Restart
          touched        \* the files were changed by somebody else in this run

fileVars == <<stored, hasState, hasMarker>>
vars == <<fileVars, floor, initialized, accepted, touched>>

Nothing == [s \in Scopes |-> None]
Watermarks == [Scopes -> Observations \cup {None}]
Known(w) == {s \in Scopes : w[s] # None}

TypeOK ==
    /\ stored \in Watermarks /\ floor \in Watermarks
    /\ hasState \in BOOLEAN /\ hasMarker \in BOOLEAN /\ initialized \in BOOLEAN
    /\ accepted \subseteq (Scopes \X Observations)
    /\ touched \in BOOLEAN

Init ==
    /\ stored = Nothing /\ hasState = FALSE /\ hasMarker = FALSE
    /\ floor = Nothing /\ initialized = FALSE
    /\ accepted = {} /\ touched = FALSE

-----------------------------------------------------------------------------
\* Faulty: only regression is refused.
AdvancesOnly(previous, current) ==
    previous.height <= current.height /\ previous.version <= current.version

\* rejectRegressionOrEquivocation does not throw.
Extends(previous, current) ==
    /\ previous.height <= current.height /\ previous.version <= current.version
    /\ previous.height = current.height => previous.block = current.block
    /\ previous.version = current.version => previous.policy = current.policy

\* assertDurableStateCoversInProcessFloor
CoversFloor(state) ==
    \A s \in Known(floor) : state[s] # None /\ Extends(floor[s], state[s])

\* load: a new store, or both files with a state that is neither empty nor too large
LoadsNothing == ~hasState /\ ~hasMarker /\ ~initialized /\ Known(floor) = {}
LoadsState ==
    /\ hasState /\ hasMarker
    /\ Known(stored) # {} /\ Cardinality(Known(stored)) <= MaxScopes

Loads == LoadsNothing \/ LoadsState

Loaded == IF LoadsState THEN stored ELSE Nothing

\* What a call that got past load has done already: load and hydrateInProcessFloor.
Hydrated(state) == [s \in Scopes |-> IF state[s] # None THEN state[s] ELSE floor[s]]

\* The checks of verifyAndPromote that lead to an acceptance.
Acceptable(s, o) ==
    /\ Loads /\ CoversFloor(Loaded)
    /\ IF Loaded[s] # None THEN Extends(Loaded[s], o)
       ELSE Cardinality(Known(Loaded)) < MaxScopes

IsNews(s, o) == Loaded[s] # o

-----------------------------------------------------------------------------
\* The call throws before it writes.
Refuse(s, o) ==
    /\ ~Acceptable(s, o)
    /\ initialized' = (initialized \/ LoadsState)
    /\ floor' = IF Loads /\ CoversFloor(Loaded) THEN Hydrated(Loaded) ELSE floor
    /\ UNCHANGED <<fileVars, accepted, touched>>

\* An exact repetition of what is stored is final and writes nothing.
Repeat(s, o) ==
    /\ Acceptable(s, o) /\ ~IsNews(s, o)
    /\ initialized' = TRUE
    /\ floor' = Hydrated(Loaded)
    /\ accepted' = accepted \cup {<<s, o>>}
    /\ UNCHANGED <<fileVars, touched>>

\* Faulty: a new scope takes the place of the others.
NextStateAlone(s, o) == [Nothing EXCEPT ![s] = o]

NextState(s, o) == [Loaded EXCEPT ![s] = o]

\* Both writes succeed: the state, then at the first promotion the marker, which
\* otherwise was there when load looked.
Promote(s, o) ==
    /\ Acceptable(s, o) /\ IsNews(s, o)
    /\ stored' = NextState(s, o) /\ hasState' = TRUE /\ hasMarker' = TRUE
    /\ initialized' = TRUE
    /\ floor' = [Hydrated(Loaded) EXCEPT ![s] = o]
    /\ accepted' = accepted \cup {<<s, o>>}
    /\ UNCHANGED touched

\* What the files may be when a promotion stops short: nothing written yet, or the
\* state written (each write replaces its file atomically) and the marker as it was.
Written(s, o) ==
    \/ UNCHANGED fileVars
    \/ stored' = NextState(s, o) /\ hasState' = TRUE /\ UNCHANGED hasMarker

\* Faulty: the floor is raised before the files are written.
PromotionFailsFloorFirst(s, o) ==
    /\ Acceptable(s, o) /\ IsNews(s, o)
    /\ Written(s, o)
    /\ initialized' = TRUE
    /\ floor' = [Hydrated(Loaded) EXCEPT ![s] = o]
    /\ UNCHANGED <<accepted, touched>>

\* One of the writes throws, before or after it has replaced its file.
PromotionFails(s, o) ==
    /\ Acceptable(s, o) /\ IsNews(s, o)
    /\ \/ Written(s, o)
       \/ stored' = NextState(s, o) /\ hasState' = TRUE /\ hasMarker' = TRUE
    /\ initialized' = TRUE
    /\ floor' = Hydrated(Loaded)
    /\ UNCHANGED <<accepted, touched>>

\* The next process starts with the files alone.  If somebody else changed them
\* meanwhile, what was accepted before binds it no longer.
NewProcess ==
    /\ floor' = Nothing /\ initialized' = FALSE
    /\ touched' = FALSE
    /\ accepted' = IF touched THEN {} ELSE accepted

\* The process ends between two calls, or between the writes of one.
Restart == NewProcess /\ UNCHANGED fileVars

Crash(s, o) == Acceptable(s, o) /\ IsNews(s, o) /\ Written(s, o) /\ NewProcess

-----------------------------------------------------------------------------
(* Somebody else: a backup restored, a profile copied, files removed.  A process *)
(* cannot hold against the files what it has not read of them yet.               *)

Forgotten ==
    /\ touched' = TRUE
    /\ accepted' = {a \in accepted : floor[a[1]] # None}

RestoreState ==
    /\ stored' \in Watermarks /\ Known(stored') # {} /\ hasState' = TRUE
    /\ Forgotten
    /\ UNCHANGED <<hasMarker, floor, initialized>>

RemoveFiles ==
    /\ hasState \/ hasMarker
    /\ \/ hasState' = FALSE /\ stored' = Nothing /\ hasMarker' \in {hasMarker, FALSE}
       \/ hasMarker' = FALSE /\ UNCHANGED <<hasState, stored>>
    /\ Forgotten
    /\ UNCHANGED <<floor, initialized>>

Outside == RestoreState \/ RemoveFiles

\* verifyAndPromote of a response that may be anything.
VerifyAndPromote(s, o) ==
    Refuse(s, o) \/ Repeat(s, o) \/ Promote(s, o) \/ PromotionFails(s, o) \/ Crash(s, o)

Next ==
    \/ \E s \in Scopes, o \in Observations : VerifyAndPromote(s, o)
    \/ Restart
    \/ Outside

Spec == Init /\ [][Next]_vars

-----------------------------------------------------------------------------
\* Two views of one growing chain: no height with two blocks, no version with two
\* policies, and no older version at a greater height.
Consistent(o1, o2) ==
    /\ o1.height = o2.height => o1.block = o2.block
    /\ o1.version = o2.version => o1.policy = o2.policy
    /\ ~(o1.height < o2.height /\ o2.version < o1.version)
    /\ ~(o2.height < o1.height /\ o1.version < o2.version)

\* No two observations the wallet reported as final contradict each other: not
\* within one run, whatever is done to the files, nor across restarts and crashes,
\* as long as the files are left alone.
AcceptedAgree ==
    \A s \in Scopes, o1, o2 \in Observations :
        <<s, o1>> \in accepted /\ <<s, o2>> \in accepted
            => Consistent(o1, o2)

\* A process never refuses a state of its own making: after failures half way
\* through a promotion the file still covers the floor and still fits.  The marker
\* alone may be missing.
OwnStateLoads ==
    ~touched /\ Known(floor) # {} =>
        hasState /\ CoversFloor(stored) /\ (hasMarker => LoadsState)

\* In a run in which nobody else changes the files, the state file only moves
\* forward, scope by scope, and keeps every scope it has, through failed writes and
\* the crash that ends the run.
WatermarkAdvances ==
    [][~touched /\ ~touched' =>
         \A s \in Known(stored) :
            stored'[s] # None /\ Extends(stored[s], stored'[s])]_vars
=============================================================================
