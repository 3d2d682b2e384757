-------------------- MODULE ValidationFeeFinality_proofs --------------------
(***************************************************************************)
(* What the wallet reported as final is always covered: by the floor of    *)
(* the process, as soon as it has read the scope's watermark, and before   *)
(* that by the state file, while nobody else has changed it.  The next     *)
(* observation must extend both, so it extends everything reported before. *)
(***************************************************************************)
EXTENDS ValidationFeeFinality, FiniteSetTheorems, TLAPS

\* A missing state file holds nothing.
StateInv == hasState \/ stored = Nothing

\* The floor of a run with untouched files is covered by the file.
FloorInv == ~touched => CoversFloor(stored)

Behind(s, o, w) == w[s] # None /\ Extends(o, w[s])

\* Every reported observation is behind the floor, or not yet read again and behind
\* the untouched file.
CoverInv ==
    \A s \in Scopes, o \in Observations :
        <<s, o>> \in accepted =>
            IF floor[s] # None THEN Extends(o, floor[s])
            ELSE ~touched /\ Behind(s, o, stored)

IInv == TypeOK /\ StateInv /\ FloorInv /\ CoverInv /\ AcceptedAgree /\ OwnStateLoads

-----------------------------------------------------------------------------
\* rejectRegressionOrEquivocation is a preorder on observations.
LEMMA ExtendsReflexive == \A o \in Observations : Extends(o, o)
BY StoreConstants DEF Extends, Observations

\* An observation that extends an extension of another extends that one.
LEMMA ExtendsTransitive ==
    ASSUME NEW a \in Observations, NEW b \in Observations, NEW c \in Observations,
           Extends(a, b), Extends(b, c)
    PROVE  Extends(a, c)
BY StoreConstants DEF Extends, Observations

\* Of two observations of which one extends the other, both are views of one chain.
LEMMA ExtensionIsConsistent ==
    ASSUME NEW a \in Observations, NEW b \in Observations, Extends(a, b)
    PROVE  Consistent(a, b) /\ Consistent(b, a)
BY StoreConstants DEF Extends, Consistent, Observations

\* Before anything is stored nothing has been reported.
LEMMA InitInv == Init => IInv
BY DEF Init, IInv, TypeOK, StateInv, FloorInv, CoverInv, AcceptedAgree, OwnStateLoads,
       Nothing, Watermarks, CoversFloor, Known

-----------------------------------------------------------------------------
(* A call that got past load and the floor check *)

\* What it loaded is the file.
LEMMA LoadedIsFile == IInv /\ Loads => Loaded = stored
BY DEF IInv, StateInv, Loads, Loaded, LoadsNothing

\* What it hydrates is the file, too: the floor holds nothing that the file lacks.
LEMMA HydratedIsFile ==
    ASSUME IInv, Loads, CoversFloor(Loaded)
    PROVE  Hydrated(Loaded) = stored
<1>1. Loaded = stored
  BY LoadedIsFile
<1>2. \A s \in Scopes : Hydrated(Loaded)[s] = stored[s]
  BY <1>1 DEF Hydrated, CoversFloor, Known
<1> QED
  BY <1>1, <1>2 DEF IInv, TypeOK, Watermarks, Hydrated

\* A state that is not empty was read from a file that may be loaded.
LEMMA LoadedState ==
    ASSUME IInv, Loads, Known(Loaded) # {}
    PROVE  LoadsState
BY DEF Loads, Loaded, Known, Nothing

\* Everything reported so far is behind the file it read.
LEMMA AcceptedBehindFile ==
    ASSUME IInv, Loads, CoversFloor(Loaded),
           NEW s \in Scopes, NEW o \in Observations, <<s, o>> \in accepted
    PROVE  Behind(s, o, stored)
<1>1. Loaded = stored
  BY LoadedIsFile
<1>2. CASE floor[s] # None
  <2>1. floor[s] \in Observations /\ Extends(o, floor[s])
    BY <1>2 DEF IInv, TypeOK, Watermarks, CoverInv
  <2>2. stored[s] # None /\ Extends(floor[s], stored[s])
    BY <1>1, <1>2 DEF CoversFloor, Known
  <2>3. stored[s] \in Observations
    BY <2>2 DEF IInv, TypeOK, Watermarks
  <2> QED
    BY <2>1, <2>2, <2>3, ExtendsTransitive DEF Behind
<1>3. CASE floor[s] = None
  BY <1>3 DEF IInv, CoverInv
<1> QED
  BY <1>2, <1>3

\* The same without a call, in a run with untouched files.
LEMMA AcceptedBehindUntouched ==
    ASSUME IInv, ~touched,
           NEW s \in Scopes, NEW o \in Observations, <<s, o>> \in accepted
    PROVE  Behind(s, o, stored)
<1>1. CASE floor[s] # None
  <2>1. floor[s] \in Observations /\ Extends(o, floor[s])
    BY <1>1 DEF IInv, TypeOK, Watermarks, CoverInv
  <2>2. stored[s] # None /\ Extends(floor[s], stored[s])
    BY <1>1 DEF IInv, FloorInv, CoversFloor, Known
  <2>3. stored[s] \in Observations
    BY <2>2 DEF IInv, TypeOK, Watermarks
  <2> QED
    BY <2>1, <2>2, <2>3, ExtendsTransitive DEF Behind
<1>2. CASE floor[s] = None
  BY <1>2 DEF IInv, CoverInv
<1> QED
  BY <1>1, <1>2

\* What a call may accept extends everything reported of its scope.
LEMMA AcceptableExtends ==
    ASSUME IInv, NEW s \in Scopes, NEW o \in Observations, Acceptable(s, o),
           NEW p \in Observations, <<s, p>> \in accepted
    PROVE  Extends(p, o)
<1>1. Loads /\ CoversFloor(Loaded) /\ Loaded = stored
  BY LoadedIsFile DEF Acceptable
<1>2. stored[s] # None /\ Extends(p, stored[s])
  BY <1>1, AcceptedBehindFile DEF Behind
<1>3. stored[s] \in Observations
  BY <1>2 DEF IInv, TypeOK, Watermarks
<1>4. Extends(stored[s], o)
  BY <1>1, <1>2 DEF Acceptable
<1> QED
  BY <1>2, <1>3, <1>4, ExtendsTransitive

\* The file that a promotion writes keeps every scope and moves only its own.
LEMMA NextStateAdvances ==
    ASSUME IInv, NEW s \in Scopes, NEW o \in Observations, Acceptable(s, o)
    PROVE  /\ NextState(s, o) = [stored EXCEPT ![s] = o]
           /\ NextState(s, o) \in Watermarks
           /\ \A t \in Known(stored) :
                 NextState(s, o)[t] # None /\ Extends(stored[t], NextState(s, o)[t])
<1>1. Loaded = stored
  BY LoadedIsFile DEF Acceptable
<1>2. NextState(s, o) = [stored EXCEPT ![s] = o]
  BY <1>1 DEF NextState
<1>3. NextState(s, o) \in Watermarks
  BY <1>2 DEF IInv, TypeOK, Watermarks
<1>4. o # None
  BY StoreConstants
<1>5. ASSUME NEW t \in Known(stored)
      PROVE  NextState(s, o)[t] # None /\ Extends(stored[t], NextState(s, o)[t])
  <2>1. t \in Scopes /\ stored[t] \in Observations
    BY DEF Known, IInv, TypeOK, Watermarks
  <2>2. CASE t = s
    BY <1>1, <1>2, <1>4, <2>1, <2>2 DEF Acceptable, Known, IInv, TypeOK, Watermarks
  <2>3. CASE t # s
    BY <1>2, <2>1, <2>3, ExtendsReflexive DEF Known, IInv, TypeOK, Watermarks
  <2> QED
    BY <2>2, <2>3
<1> QED
  BY <1>2, <1>3, <1>5

\* It also still fits.
LEMMA NextStateFits ==
    ASSUME IInv, NEW s \in Scopes, NEW o \in Observations, Acceptable(s, o)
    PROVE  /\ Known(NextState(s, o)) # {}
           /\ Cardinality(Known(NextState(s, o))) <= MaxScopes
<1>1. Loads /\ Loaded = stored /\ o # None
  BY LoadedIsFile, StoreConstants DEF Acceptable
<1>2. NextState(s, o) = [stored EXCEPT ![s] = o]
  BY NextStateAdvances
<1>3. Known(NextState(s, o)) = Known(stored) \cup {s}
  BY <1>1, <1>2 DEF Known, IInv, TypeOK, Watermarks
<1>4. IsFiniteSet(Known(stored))
  BY StoreConstants, FS_Subset DEF Known
<1>5. Cardinality(Known(stored)) \in Nat
  BY <1>4, FS_CardinalityType
<1>6. CASE stored[s] # None
  <2>1. Known(stored) \cup {s} = Known(stored)
    BY <1>6 DEF Known
  <2>2. LoadsState
    BY <1>1, <1>6, LoadedState DEF Known
  <2> QED
    BY <1>3, <2>1, <2>2 DEF LoadsState
<1>7. CASE stored[s] = None
  <2>1. Cardinality(Known(stored)) < MaxScopes
    BY <1>1, <1>7 DEF Acceptable
  <2>2. s \notin Known(stored)
    BY <1>7 DEF Known
  <2>3. Cardinality(Known(stored) \cup {s}) = Cardinality(Known(stored)) + 1
    BY <1>4, <2>2, FS_AddElement
  <2> QED
    BY <1>3, <1>5, <2>1, <2>3, StoreConstants
<1> QED
  BY <1>6, <1>7

-----------------------------------------------------------------------------
(* The steps *)

\* The reports after an acceptance still agree.
LEMMA AcceptanceAgrees ==
    ASSUME IInv, NEW s \in Scopes, NEW o \in Observations, Acceptable(s, o),
           accepted' = accepted \cup {<<s, o>>}
    PROVE  AcceptedAgree'
<1> SUFFICES ASSUME NEW t \in Scopes, NEW o1 \in Observations, NEW o2 \in Observations,
                    <<t, o1>> \in accepted', <<t, o2>> \in accepted'
             PROVE  Consistent(o1, o2)
  BY DEF AcceptedAgree
<1>1. CASE <<t, o1>> \in accepted /\ <<t, o2>> \in accepted
  BY <1>1 DEF IInv, AcceptedAgree
<1>2. CASE <<t, o1>> = <<s, o>> /\ <<t, o2>> \in accepted
  BY <1>2, AcceptableExtends, ExtensionIsConsistent
<1>3. CASE <<t, o2>> = <<s, o>> /\ <<t, o1>> \in accepted
  BY <1>3, AcceptableExtends, ExtensionIsConsistent
<1>4. CASE <<t, o1>> = <<s, o>> /\ <<t, o2>> = <<s, o>>
  BY <1>4, ExtendsReflexive, ExtensionIsConsistent
<1> QED
  BY <1>1, <1>2, <1>3, <1>4

\* A refused call may have hydrated the floor, and nothing else.
LEMMA RefuseInv ==
    ASSUME IInv, NEW s \in Scopes, NEW o \in Observations, Refuse(s, o)
    PROVE  IInv'
<1>1. CASE Loads /\ CoversFloor(Loaded)
  <2>1. floor' = stored /\ Hydrated(Loaded) = stored /\ Loaded = stored
    BY <1>1, HydratedIsFile, LoadedIsFile DEF Refuse
  <2>2. TypeOK' /\ StateInv' /\ AcceptedAgree'
    BY <2>1 DEF IInv, TypeOK, StateInv, AcceptedAgree, Refuse, fileVars, LoadsState
  <2>3. CoversFloor(stored)'
    BY <2>1, ExtendsReflexive
       DEF CoversFloor, Known, IInv, TypeOK, Watermarks, Refuse, fileVars
  <2>4. CoverInv'
    BY <1>1, <2>1, AcceptedBehindFile DEF CoverInv, Behind, Refuse, fileVars
  <2>5. OwnStateLoads'
    <3>1. ASSUME Known(stored) # {} PROVE LoadsState
      BY <1>1, <2>1, <3>1, LoadedState
    <3> QED
      BY <2>1, <2>3, <3>1 DEF OwnStateLoads, Known, LoadsState, Refuse, fileVars
  <2> QED
    BY <2>2, <2>3, <2>4, <2>5 DEF IInv, FloorInv
<1>2. CASE ~(Loads /\ CoversFloor(Loaded))
  <2>1. floor' = floor /\ UNCHANGED <<fileVars, accepted, touched>>
    BY <1>2 DEF Refuse
  <2> QED
    BY <2>1 DEF IInv, TypeOK, StateInv, FloorInv, CoverInv, Behind, AcceptedAgree,
                OwnStateLoads, CoversFloor, Known, LoadsState, Refuse, fileVars
<1> QED
  BY <1>1, <1>2

\* A repetition reports what the file holds.
LEMMA RepeatInv ==
    ASSUME IInv, NEW s \in Scopes, NEW o \in Observations, Repeat(s, o)
    PROVE  IInv'
<1>1. Acceptable(s, o) /\ Loads /\ CoversFloor(Loaded)
  BY DEF Repeat, Acceptable
<1>2. floor' = stored /\ Loaded = stored /\ stored[s] = o /\ o # None
  BY <1>1, HydratedIsFile, LoadedIsFile, StoreConstants DEF Repeat, IsNews
<1>3. TypeOK' /\ StateInv'
  BY <1>2 DEF IInv, TypeOK, StateInv, Repeat, fileVars
<1>4. CoversFloor(stored)'
  BY <1>2, ExtendsReflexive
     DEF CoversFloor, Known, IInv, TypeOK, Watermarks, Repeat, fileVars
<1>5. CoverInv'
  <2> SUFFICES ASSUME NEW t \in Scopes, NEW p \in Observations, <<t, p>> \in accepted'
               PROVE  Behind(t, p, stored)
    BY <1>2 DEF CoverInv, Behind, Repeat, fileVars
  <2>1. CASE <<t, p>> \in accepted
    BY <1>1, <2>1, AcceptedBehindFile
  <2>2. CASE <<t, p>> = <<s, o>>
    BY <1>2, <2>2, ExtendsReflexive DEF Behind
  <2> QED
    BY <2>1, <2>2 DEF Repeat
<1>6. AcceptedAgree'
  BY <1>1, AcceptanceAgrees DEF Repeat
<1>7. OwnStateLoads'
  <2>1. LoadsState
    BY <1>1, <1>2, LoadedState DEF Known
  <2> QED
    BY <1>2, <1>4, <2>1 DEF OwnStateLoads, Known, LoadsState, Repeat, fileVars
<1> QED
  BY <1>3, <1>4, <1>5, <1>6, <1>7 DEF IInv, FloorInv

\* A promotion reports what it has written.
LEMMA PromoteInv ==
    ASSUME IInv, NEW s \in Scopes, NEW o \in Observations, Promote(s, o)
    PROVE  IInv'
<1>1. Acceptable(s, o) /\ Loads /\ CoversFloor(Loaded) /\ o # None
  BY StoreConstants DEF Promote, Acceptable
<1>2. /\ Hydrated(Loaded) = stored
      /\ stored' = [stored EXCEPT ![s] = o] /\ floor' = stored'
      /\ stored' \in Watermarks
  BY <1>1, HydratedIsFile, NextStateAdvances DEF Promote
<1>3. TypeOK' /\ StateInv'
  BY <1>2 DEF IInv, TypeOK, StateInv, Promote
<1>4. CoversFloor(stored)'
  BY <1>2, ExtendsReflexive DEF CoversFloor, Known, Watermarks
<1>5. CoverInv'
  <2> SUFFICES ASSUME NEW t \in Scopes, NEW p \in Observations, <<t, p>> \in accepted'
               PROVE  Behind(t, p, stored')
    BY <1>2 DEF CoverInv, Behind
  <2>1. CASE <<t, p>> \in accepted /\ t # s
    BY <1>1, <1>2, <2>1, AcceptedBehindFile DEF Behind, IInv, TypeOK, Watermarks
  <2>2. CASE <<t, p>> \in accepted /\ t = s
    BY <1>1, <1>2, <2>2, AcceptableExtends DEF Behind, IInv, TypeOK, Watermarks
  <2>3. CASE <<t, p>> = <<s, o>>
    BY <1>1, <1>2, <2>3, ExtendsReflexive DEF Behind, IInv, TypeOK, Watermarks
  <2> QED
    BY <2>1, <2>2, <2>3 DEF Promote
<1>6. AcceptedAgree'
  BY <1>1, AcceptanceAgrees DEF Promote
<1>7. OwnStateLoads'
  BY <1>1, <1>4, NextStateFits DEF OwnStateLoads, Known, LoadsState, Promote
<1> QED
  BY <1>3, <1>4, <1>5, <1>6, <1>7 DEF IInv, FloorInv

\* What an interrupted promotion leaves in the state file.
LEMMA WrittenFile ==
    ASSUME IInv, NEW s \in Scopes, NEW o \in Observations, Acceptable(s, o),
           stored' = stored \/ stored' = NextState(s, o)
    PROVE  /\ stored' \in Watermarks
           /\ \A t \in Known(stored) : stored'[t] # None /\ Extends(stored[t], stored'[t])
           /\ \A t \in Scopes, p \in Observations :
                 <<t, p>> \in accepted => Behind(t, p, stored')
<1>1. Loads /\ CoversFloor(Loaded)
  BY DEF Acceptable
<1>2. stored' \in Watermarks
  BY NextStateAdvances DEF IInv, TypeOK
<1>3. ASSUME NEW t \in Known(stored)
      PROVE  stored'[t] # None /\ Extends(stored[t], stored'[t])
  BY <1>3, NextStateAdvances, ExtendsReflexive DEF Known, IInv, TypeOK, Watermarks
<1>4. ASSUME NEW t \in Scopes, NEW p \in Observations, <<t, p>> \in accepted
      PROVE  Behind(t, p, stored')
  <2>1. Behind(t, p, stored)
    BY <1>1, <1>4, AcceptedBehindFile
  <2>2. t \in Known(stored) /\ stored[t] \in Observations
    BY <2>1 DEF Behind, Known, IInv, TypeOK, Watermarks
  <2>3. stored'[t] # None /\ stored'[t] \in Observations /\ Extends(stored[t], stored'[t])
    BY <1>2, <1>3, <2>2 DEF Watermarks
  <2> QED
    BY <2>1, <2>2, <2>3, ExtendsTransitive DEF Behind
<1> QED
  BY <1>2, <1>3, <1>4

\* A promotion that throws has hydrated the floor and perhaps written the file.
LEMMA PromotionFailsInv ==
    ASSUME IInv, NEW s \in Scopes, NEW o \in Observations, PromotionFails(s, o)
    PROVE  IInv'
<1>1. Acceptable(s, o) /\ Loads /\ CoversFloor(Loaded) /\ Loaded = stored
  BY LoadedIsFile DEF PromotionFails, Acceptable
<1>2. stored' = stored \/ stored' = NextState(s, o)
  BY DEF PromotionFails, Written, fileVars
<1>3. floor' = stored /\ UNCHANGED <<accepted, touched>>
  BY <1>1, HydratedIsFile DEF PromotionFails
<1>4. stored' \in Watermarks
  BY <1>1, <1>2, WrittenFile
<1>5. TypeOK' /\ StateInv'
  <2>1. UNCHANGED fileVars \/ hasState' = TRUE
    BY DEF PromotionFails, Written
  <2>2. StateInv'
    BY <2>1 DEF IInv, StateInv, fileVars
  <2>3. hasState' \in BOOLEAN /\ hasMarker' \in BOOLEAN /\ initialized' \in BOOLEAN
    BY Zenon DEF IInv, TypeOK, PromotionFails, Written, fileVars
  <2>4. floor' \in Watermarks /\ accepted' \subseteq Scopes \X Observations
    BY <1>3 DEF IInv, TypeOK
  <2>5. touched' \in BOOLEAN
    BY <1>3, Zenon DEF IInv, TypeOK
  <2> QED
    BY <1>4, <2>2, <2>3, <2>4, <2>5 DEF TypeOK
<1>6. CoversFloor(stored)'
  BY <1>1, <1>2, <1>3, WrittenFile DEF CoversFloor, Known
<1>7. CoverInv'
  BY <1>1, <1>3, AcceptedBehindFile DEF CoverInv, Behind
<1>8. AcceptedAgree'
  BY <1>3 DEF IInv, AcceptedAgree
<1>9. OwnStateLoads'
  <2> SUFFICES ASSUME Known(stored) # {}
               PROVE  hasState' /\ (hasMarker' => LoadsState')
    BY <1>3, <1>6 DEF OwnStateLoads, Known
  <2>1. LoadsState
    BY <1>1, LoadedState
  <2>2. hasState' /\ hasMarker'
    BY <2>1 DEF LoadsState, PromotionFails, Written, fileVars
  <2>3. Known(stored') # {} /\ Cardinality(Known(stored')) <= MaxScopes
    BY <1>1, <1>2, <2>1, NextStateFits DEF LoadsState
  <2> QED
    BY <2>2, <2>3 DEF LoadsState, Known
<1> QED
  BY <1>5, <1>6, <1>7, <1>8, <1>9 DEF IInv, FloorInv

\* A new process has the files alone.
LEMMA RestartInv ==
    ASSUME IInv, Restart
    PROVE  IInv'
<1>1. floor' = Nothing /\ Known(floor') = {} /\ ~touched' /\ stored' = stored
  BY DEF Restart, NewProcess, Nothing, Known, fileVars
<1>2. TypeOK' /\ StateInv' /\ AcceptedAgree'
  BY DEF IInv, TypeOK, StateInv, AcceptedAgree, Restart, NewProcess, Nothing, Watermarks,
         fileVars
<1>3. FloorInv' /\ OwnStateLoads'
  BY <1>1 DEF FloorInv, CoversFloor, OwnStateLoads, Known
<1>4. CoverInv'
  BY <1>1, AcceptedBehindUntouched
     DEF CoverInv, Behind, Nothing, Restart, NewProcess
<1> QED
  BY <1>2, <1>3, <1>4 DEF IInv

\* A crash in the middle of a promotion, which leaves the old file or the new one, keeps
\* the inductive invariant.
LEMMA CrashInv ==
    ASSUME IInv, NEW s \in Scopes, NEW o \in Observations, Crash(s, o)
    PROVE  IInv'
<1>1. Acceptable(s, o) /\ (stored' = stored \/ stored' = NextState(s, o))
  BY DEF Crash, Written, fileVars
<1>2. floor' = Nothing /\ Known(floor') = {} /\ ~touched' /\ accepted' \subseteq accepted
  BY DEF Crash, NewProcess, Nothing, Known
<1>3. TypeOK' /\ StateInv' /\ AcceptedAgree'
  <2>1. UNCHANGED fileVars \/ hasState' = TRUE
    BY DEF Crash, Written
  <2>2. StateInv' /\ AcceptedAgree'
    BY <1>2, <2>1 DEF IInv, StateInv, AcceptedAgree, fileVars
  <2>3. hasState' \in BOOLEAN /\ hasMarker' \in BOOLEAN /\ initialized' \in BOOLEAN
        /\ touched' \in BOOLEAN
    BY Zenon DEF IInv, TypeOK, Crash, Written, NewProcess, fileVars
  <2>4. stored' \in Watermarks
    BY <1>1, WrittenFile
  <2>5. floor' \in Watermarks /\ accepted' \subseteq Scopes \X Observations
    BY <1>2 DEF IInv, TypeOK, Nothing, Watermarks
  <2> QED
    BY <2>2, <2>3, <2>4, <2>5 DEF TypeOK
<1>4. FloorInv' /\ OwnStateLoads'
  BY <1>2 DEF FloorInv, CoversFloor, OwnStateLoads, Known
<1>5. CoverInv'
  BY <1>1, <1>2, WrittenFile DEF CoverInv, Behind, Nothing
<1> QED
  BY <1>3, <1>4, <1>5 DEF IInv

\* Whatever is done to the files, the floor is not moved.
LEMMA OutsideInv ==
    ASSUME IInv, Outside
    PROVE  IInv'
<1>1. TypeOK' /\ StateInv' /\ AcceptedAgree'
  BY DEF IInv, TypeOK, StateInv, AcceptedAgree, Outside, RestoreState, RemoveFiles,
         Forgotten, Nothing, Watermarks
<1>2. FloorInv' /\ OwnStateLoads'
  BY DEF FloorInv, OwnStateLoads, Outside, RestoreState, RemoveFiles, Forgotten
<1>3. floor' = floor /\ accepted' = {a \in accepted : floor[a[1]] # None}
  BY DEF Outside, RestoreState, RemoveFiles, Forgotten
<1>4. CoverInv'
  <2> SUFFICES ASSUME NEW s \in Scopes, NEW o \in Observations, <<s, o>> \in accepted'
               PROVE  floor[s] # None /\ Extends(o, floor[s])
    BY <1>3 DEF CoverInv
  <2>1. <<s, o>> \in accepted /\ floor[s] # None
    BY <1>3
  <2> QED
    BY <2>1 DEF IInv, CoverInv
<1> QED
  BY <1>1, <1>2, <1>4 DEF IInv

\* Every step of the specification, or a stutter, keeps the inductive invariant.
LEMMA StepInv == IInv /\ [Next]_vars => IInv'
<1> SUFFICES ASSUME IInv, [Next]_vars PROVE IInv'
  OBVIOUS
<1>1. CASE UNCHANGED vars
  BY <1>1 DEF IInv, TypeOK, StateInv, FloorInv, CoverInv, Behind, AcceptedAgree,
              OwnStateLoads, CoversFloor, Known, LoadsState, vars, fileVars
<1>2. ASSUME NEW s \in Scopes, NEW o \in Observations, VerifyAndPromote(s, o) PROVE IInv'
  BY <1>2, RefuseInv, RepeatInv, PromoteInv, PromotionFailsInv, CrashInv
     DEF VerifyAndPromote
<1> QED
  BY <1>1, <1>2, RestartInv, OutsideInv DEF Next

-----------------------------------------------------------------------------
\* The inductive invariant holds of every behaviour of the store.
THEOREM StoreInductive == Spec => []IInv
BY InitInv, StepInv, PTL DEF Spec

\* The store is type correct, whatever is done to its files.
THEOREM StoreTypeCorrect == Spec => []TypeOK
<1>1. IInv => TypeOK
  BY DEF IInv
<1> QED
  BY <1>1, StoreInductive, PTL

\* No two observations of a fee policy that verifyAndPromote let through contradict
\* each other, for any number of ledgers, heights, restarts and failures.
THEOREM ReportsAgree == Spec => []AcceptedAgree
<1>1. IInv => AcceptedAgree
  BY DEF IInv
<1> QED
  BY <1>1, StoreInductive, PTL

\* The store never refuses a state file of its own making.
THEOREM NoSelfRefusal == Spec => []OwnStateLoads
<1>1. IInv => OwnStateLoads
  BY DEF IInv
<1> QED
  BY <1>1, StoreInductive, PTL

\* The watermark on disk only moves forward and never loses a scope, unless somebody
\* else changes it.
THEOREM WatermarkIsMonotone == Spec => WatermarkAdvances
<1> DEFINE A == ~touched /\ ~touched' =>
                  \A s \in Known(stored) :
                     stored'[s] # None /\ Extends(stored[s], stored'[s])
<1>1. ASSUME IInv, [Next]_vars PROVE A
  <2>1. CASE stored' = stored
    BY <1>1, <2>1, ExtendsReflexive DEF IInv, TypeOK, Watermarks, Known
  <2>2. ASSUME NEW s \in Scopes, NEW o \in Observations, VerifyAndPromote(s, o) PROVE A
    <3>1. CASE Refuse(s, o) \/ Repeat(s, o)
      BY <2>1, <3>1 DEF Refuse, Repeat, fileVars
    <3>2. CASE Promote(s, o) \/ PromotionFails(s, o) \/ Crash(s, o)
      <4>1. Acceptable(s, o) /\ (stored' = stored \/ stored' = NextState(s, o))
        BY <3>2 DEF Promote, PromotionFails, Crash, Written, fileVars
      <4> QED
        BY <1>1, <4>1, WrittenFile
    <3> QED
      BY <2>2, <3>1, <3>2 DEF VerifyAndPromote
  <2>3. CASE Outside
    BY <2>3 DEF Outside, RestoreState, RemoveFiles, Forgotten
  <2> QED
    BY <1>1, <2>1, <2>2, <2>3 DEF Next, Restart, vars, fileVars
<1>2. IInv /\ [Next]_vars => [A]_vars
  BY <1>1
<1> QED
  BY <1>2, StoreInductive, PTL DEF Spec, WatermarkAdvances
=============================================================================
