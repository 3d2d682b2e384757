--------------------- MODULE IrohaConnectBoundary_proofs ---------------------
(***************************************************************************)
(* Theorems about the IrohaConnect boundary for every set of wallet        *)
(* contexts, any number of preparations in flight, of sessions and of      *)
(* requests, and every interleaving of the methods that await.             *)
(***************************************************************************)
EXTENDS IrohaConnectBoundary, TLAPS, SequenceTheorems

InProgress == {"authorize", "assert", "sign"}

\* Where a session is held tells how far its approval is; a live session belongs to
\* the current context and generation; and an approval still under way for a session
\* that was disposed belongs to an earlier generation, so that it never promotes it.
SessionIsSound(x, key, gen) ==
    /\ x.place = "unused" => x = UnusedSession
    /\ x.place = "pending" => x.approval = "none"
    /\ x.place = "authorizing" => x.approval \in InProgress
    /\ x.place = "active" => x.approval = "over"
    /\ x.generation <= gen
    /\ x.place \in Live => x.generation = gen /\ x.context = key
    /\ x.place = "gone" /\ x.approval \in InProgress => x.generation < gen
    /\ x.nextWallet >= 2
    /\ (x.keys = "live" <=> x.place \in Live)

\* The slot of an active session holds a request of that session, unanswered and
\* with its message.
SlotIsSound(s) ==
    session[s].slot # 0 =>
        /\ session[s].place = "active"
        /\ request[session[s].slot].session = s
        /\ request[session[s].slot].message = "live"
        /\ request[session[s].slot].step # "over"

\* A request belongs to a session that was active, and occupies the slot of that
\* session until it is answered or the session ends.
RequestIsSound(r) ==
    /\ request[r].session = 0 => request[r] = UnusedRequest
    /\ request[r].session # 0 =>
         /\ request[r].message # "none"
         /\ session[request[r].session].place \in {"active", "gone"}
         /\ request[r].step # "over" /\ session[request[r].session].place = "active"
              => session[request[r].session].slot = r
    /\ (request[r].executing <=> request[r].step # "none")

\* A frame that was sent took a number below the session's next one, after its
\* approval was over, and answered a request that is over.
FrameIsSound(f) ==
    /\ session[f.session].approval = "over"
    /\ f.sequence < session[f.session].nextWallet
    /\ f.request # 0 => request[f.request].step = "over"

SessionInv == \A s \in Sessions : SessionIsSound(session[s], contextKey, generation)
SlotInv == \A s \in Sessions : SlotIsSound(s)
RequestInv == \A r \in Requests : RequestIsSound(r)
SentInv == \A i \in DOMAIN sent : FrameIsSound(sent[i])

\* KeysLiveWithTheirSession is a conjunct of SessionInv.
IInv ==
    /\ TypeOK /\ OneSession /\ SessionInv /\ SlotInv /\ RequestInv /\ SentInv
    /\ RequestSignaturesAreExact /\ AnswersAreUnique

\* The sets the type invariant draws the three kinds of record from.
SessionRecords ==
    [place : Live \cup {"unused", "gone"}, context : Contexts \cup {NoContext},
     generation : 0..MaxGeneration,
     approval : {"none", "authorize", "assert", "sign", "over"},
     keys : {"none", "live", "wiped"}, preimage : {"none", "live", "wiped"},
     expired : BOOLEAN, slot : 0..MaxRequests,
     nextApp : 2..(MaxFrames + 2), nextServer : 1..(MaxFrames + 1), nextWallet : Nat]

RequestRecords ==
    [session : 0..MaxSessions, executing : BOOLEAN,
     step : {"none", "authorize", "assert", "sign", "over"},
     message : {"none", "live", "wiped"}, expired : BOOLEAN]

Frames ==
    [session : Sessions, sequence : Nat, type : {"approve", "pong", "ok", "err"},
     request : 0..MaxRequests]

Signatures == [kind : {"session", "request"}, id : Nat, intact : BOOLEAN, current : BOOLEAN]

\* Session and request numbers are positive; 0 stands for no session and no request.
LEMMA NumbersArePositive ==
    /\ Sessions \subseteq Nat \ {0} /\ Sessions \subseteq 0..MaxSessions
    /\ Requests \subseteq Nat \ {0} /\ Requests = (0..MaxRequests) \ {0}
    /\ 0 \in 0..MaxRequests /\ 0 \in 0..MaxSessions
  BY BoundaryConstants DEF Sessions, Requests

\* The unused records and the frame numbers a session starts from are typed.
LEMMA UnusedTypes == UnusedSession \in SessionRecords /\ UnusedRequest \in RequestRecords
  BY BoundaryConstants, SMT DEF UnusedSession, UnusedRequest, SessionRecords, RequestRecords

-----------------------------------------------------------------------------
(* Types *)

\* The variables that hold records are functions into the sets above.
LEMMA Variables ==
    TypeOK <=>
      /\ contextKey \in Contexts \cup {NoContext} /\ generation \in 0..MaxGeneration
      /\ preparing \in [Calls -> [context : Contexts \cup {NoContext},
                                  generation : 0..MaxGeneration]]
      /\ session \in [Sessions -> SessionRecords]
      /\ request \in [Requests -> RequestRecords]
      /\ sent \in Seq(Frames) /\ vault \subseteq Signatures
  BY Zenon DEF TypeOK, SessionRecords, RequestRecords, Frames, Signatures

\* Replacing the record of one session or one request, the others stay.
LEMMA Replaced ==
    ASSUME NEW D, NEW S, NEW f \in [D -> S], NEW d \in D, NEW x \in S
    PROVE  /\ [f EXCEPT ![d] = x] \in [D -> S]
           /\ \A e \in D : [f EXCEPT ![d] = x][e] = IF e = d THEN x ELSE f[e]
  OBVIOUS

\* The records the operators on one session build from a session record.
LEMMA SessionUpdates ==
    ASSUME NEW x \in SessionRecords
    PROVE  /\ [x EXCEPT !.place = "gone", !.keys = "wiped", !.preimage = "wiped",
                        !.slot = 0] \in SessionRecords
           /\ \A p \in {"unused", "gone"} \cup Live :
                [x EXCEPT !.place = p, !.approval = "over", !.keys = "wiped",
                          !.preimage = "wiped"] \in SessionRecords
           /\ [x EXCEPT !.place = "authorizing", !.approval = "authorize"] \in SessionRecords
           /\ \A a \in {"assert", "sign"} : [x EXCEPT !.approval = a] \in SessionRecords
           /\ [x EXCEPT !.place = "active", !.approval = "over", !.preimage = "wiped"]
                \in SessionRecords
           /\ [x EXCEPT !.place = "gone", !.slot = 0, !.keys = "wiped"] \in SessionRecords
           /\ [x EXCEPT !.expired = TRUE] \in SessionRecords
  <1> USE NumbersArePositive DEF SessionRecords, Live
  <1>1. [x EXCEPT !.place = "gone", !.keys = "wiped", !.preimage = "wiped",
                  !.slot = 0] \in SessionRecords
    BY Zenon
  <1>2. \A p \in {"unused", "gone"} \cup Live :
          [x EXCEPT !.place = p, !.approval = "over", !.keys = "wiped",
                    !.preimage = "wiped"] \in SessionRecords
    BY Zenon
  <1>3. [x EXCEPT !.place = "authorizing", !.approval = "authorize"] \in SessionRecords
    BY Zenon
  <1>4. \A a \in {"assert", "sign"} : [x EXCEPT !.approval = a] \in SessionRecords
    BY Zenon
  <1>5. [x EXCEPT !.place = "active", !.approval = "over", !.preimage = "wiped"]
          \in SessionRecords
    BY Zenon
  <1>6. [x EXCEPT !.place = "gone", !.slot = 0, !.keys = "wiped"] \in SessionRecords
    BY Zenon
  <1>7. [x EXCEPT !.expired = TRUE] \in SessionRecords
    BY Zenon
  <1> QED BY <1>1, <1>2, <1>3, <1>4, <1>5, <1>6, <1>7

\* The numbers of frames, and the request of the slot, move within their ranges.
LEMMA NumberUpdates ==
    ASSUME NEW x \in SessionRecords, NEW app \in 2..(MaxFrames + 2),
           NEW server \in 1..(MaxFrames + 1), NEW wallet \in Nat, NEW q \in 0..MaxRequests
    PROVE  /\ [x EXCEPT !.nextServer = server] \in SessionRecords
           /\ [x EXCEPT !.nextApp = app] \in SessionRecords
           /\ [x EXCEPT !.nextApp = app, !.nextWallet = wallet] \in SessionRecords
           /\ [x EXCEPT !.nextApp = app, !.slot = q] \in SessionRecords
           /\ [x EXCEPT !.nextWallet = wallet, !.slot = q] \in SessionRecords
           /\ [x EXCEPT !.slot = q] \in SessionRecords
  <1> USE DEF SessionRecords
  <1>1. [x EXCEPT !.nextServer = server] \in SessionRecords
    BY Zenon
  <1>2. [x EXCEPT !.nextApp = app] \in SessionRecords
    BY Zenon
  <1>3. [x EXCEPT !.nextApp = app, !.nextWallet = wallet] \in SessionRecords
    BY Zenon
  <1>4. [x EXCEPT !.nextApp = app, !.slot = q] \in SessionRecords
    BY Zenon
  <1>5. [x EXCEPT !.nextWallet = wallet, !.slot = q] \in SessionRecords
    BY Zenon
  <1>6. [x EXCEPT !.slot = q] \in SessionRecords
    BY Zenon
  <1> QED BY <1>1, <1>2, <1>3, <1>4, <1>5, <1>6

\* The records the operators on one request build from a request record.
LEMMA RequestUpdates ==
    ASSUME NEW x \in RequestRecords
    PROVE  /\ [x EXCEPT !.executing = TRUE, !.step = "over", !.message = "wiped"]
                \in RequestRecords
           /\ [x EXCEPT !.executing = TRUE, !.step = "authorize"] \in RequestRecords
           /\ \A st \in {"assert", "sign"} : [x EXCEPT !.step = st] \in RequestRecords
           /\ [x EXCEPT !.message = "wiped"] \in RequestRecords
           /\ [x EXCEPT !.expired = TRUE] \in RequestRecords
           /\ \A s \in Sessions : [x EXCEPT !.session = s, !.message = "live"] \in RequestRecords
  <1> USE DEF RequestRecords
  <1>1. [x EXCEPT !.executing = TRUE, !.step = "over", !.message = "wiped"] \in RequestRecords
    BY Zenon
  <1>2. [x EXCEPT !.executing = TRUE, !.step = "authorize"] \in RequestRecords
    BY Zenon
  <1>3. \A st \in {"assert", "sign"} : [x EXCEPT !.step = st] \in RequestRecords
    BY Zenon
  <1>4. [x EXCEPT !.message = "wiped"] \in RequestRecords
    BY Zenon
  <1>5. [x EXCEPT !.expired = TRUE] \in RequestRecords
    BY Zenon
  <1>6. \A s \in Sessions : [x EXCEPT !.session = s, !.message = "live"] \in RequestRecords
    <2> TAKE s \in Sessions
    <2>1. s \in 0..MaxSessions
      BY NumbersArePositive
    <2> QED BY <2>1, Zenon
  <1> QED BY <1>1, <1>2, <1>3, <1>4, <1>5, <1>6

-----------------------------------------------------------------------------
(* The parts of the inductive invariant *)

\* Only the session s changes: soundness of the others and the bound on live
\* sessions are kept when s stays sound and takes the slot only while it is free.
LEMMA SessionsKept ==
    ASSUME IInv, NEW s \in Sessions, UNCHANGED <<contextKey, generation>>,
           \A t \in Sessions : t # s => session'[t] = session[t],
           SessionIsSound(session'[s], contextKey, generation),
           session'[s].place \in Live => session[s].place \in Live \/ SlotAvailable
    PROVE  SessionInv' /\ OneSession'
  <1>1. SessionInv'
    BY DEF IInv, SessionInv
  <1>2. OneSession'
    BY DEF IInv, OneSession, SlotAvailable
  <1> QED BY <1>1, <1>2

\* A session that keeps its slot, and is active as before, leaves the requests sound.
LEMMA SlotsKept ==
    ASSUME IInv, NEW s \in Sessions, UNCHANGED request,
           \A t \in Sessions : t # s => session'[t] = session[t],
           session'[s].slot = session[s].slot,
           session'[s].place = "active" <=> session[s].place = "active",
           session[s].place = "gone" => session'[s].place = "gone"
    PROVE  SlotInv' /\ RequestInv'
  <1>1. SlotInv'
    BY DEF IInv, SlotInv, SlotIsSound
  <1>2. RequestInv'
    <2> SUFFICES ASSUME NEW r \in Requests PROVE RequestIsSound(r)'
      BY DEF RequestInv
    <2>1. RequestIsSound(r) /\ request[r].session \in 0..MaxSessions
      BY Variables DEF IInv, RequestInv, RequestRecords
    <2>2. request[r].session # 0 => request[r].session \in Sessions
      BY <2>1, BoundaryConstants DEF Sessions
    <2> QED BY <2>1, <2>2 DEF RequestIsSound
  <1> QED BY <1>1, <1>2

\* What a step may do to approvals, frame numbers and answered requests.
Onward ==
    /\ \A t \in Sessions :
         /\ session[t].approval = "over" => session'[t].approval = "over"
         /\ session[t].nextWallet <= session'[t].nextWallet
    /\ \A r \in Requests : request[r].step = "over" => request'[r].step = "over"

\* The frames already sent stay sound.
LEMMA FramesStaySound ==
    ASSUME IInv, TypeOK', Onward, NEW i \in DOMAIN sent, sent'[i] = sent[i]
    PROVE  FrameIsSound(sent[i])'
  <1>1. sent[i] \in Frames
    BY Variables DEF IInv
  <1>2. sent[i].session \in Sessions /\ sent[i].sequence \in Nat /\ sent[i].request \in 0..MaxRequests
    BY <1>1 DEF Frames
  <1>3. FrameIsSound(sent[i])
    BY DEF IInv, SentInv
  <1>4. \A t \in Sessions : session[t].nextWallet \in Nat /\ session'[t].nextWallet \in Nat
    BY Variables DEF IInv, SessionRecords, TypeOK
  <1>5. sent[i].request # 0 => sent[i].request \in Requests
    BY <1>2, NumbersArePositive
  <1> QED BY <1>2, <1>3, <1>4, <1>5 DEF FrameIsSound, Onward

LEMMA FramesKept ==
    ASSUME IInv, TypeOK', Onward, UNCHANGED sent
    PROVE  SentInv' /\ AnswersAreUnique'
  BY FramesStaySound DEF SentInv, AnswersAreUnique, IInv

\* A frame with a fresh number, for a request not answered before.
LEMMA FrameSent ==
    ASSUME IInv, TypeOK', Onward, NEW f \in Frames, sent' = Append(sent, f),
           session'[f.session].approval = "over",
           f.sequence < session'[f.session].nextWallet,
           f.request # 0 => request'[f.request].step = "over",
           \A i \in DOMAIN sent : sent[i].session = f.session => sent[i].sequence < f.sequence,
           f.request # 0 => request[f.request].step # "over"
    PROVE  SentInv' /\ AnswersAreUnique'
  <1>1. sent \in Seq(Frames)
    BY Variables DEF IInv
  <1>2. /\ DOMAIN sent = 1..Len(sent) /\ DOMAIN sent' = 1..(Len(sent) + 1) /\ Len(sent) \in Nat
        /\ \A i \in DOMAIN sent : sent'[i] = sent[i]
        /\ sent'[Len(sent) + 1] = f
    BY <1>1, AppendProperties
  <1>3. \A i \in DOMAIN sent' : i \in DOMAIN sent \/ i = Len(sent) + 1
    BY <1>2
  <1>4. SentInv'
    <2> SUFFICES ASSUME NEW i \in DOMAIN sent' PROVE FrameIsSound(sent[i])'
      BY DEF SentInv
    <2>1. CASE i \in DOMAIN sent
      BY <2>1, <1>2, FramesStaySound
    <2>2. CASE i = Len(sent) + 1
      BY <2>2, <1>2 DEF FrameIsSound
    <2> QED BY <2>1, <2>2, <1>3
  <1>5. AnswersAreUnique'
    <2> SUFFICES ASSUME NEW i \in DOMAIN sent', NEW j \in DOMAIN sent', i < j,
                        sent'[i].session = sent'[j].session
                 PROVE  /\ sent'[i].sequence < sent'[j].sequence
                        /\ sent'[i].request # 0 => sent'[i].request # sent'[j].request
      BY DEF AnswersAreUnique
    <2>1. i \in DOMAIN sent
      BY <1>2
    <2>2. CASE j \in DOMAIN sent
      BY <2>1, <2>2, <1>2 DEF IInv, AnswersAreUnique
    <2>3. CASE j = Len(sent) + 1
      <3>1. sent'[i] = sent[i] /\ sent'[j] = f
        BY <2>1, <2>3, <1>2
      <3>2. FrameIsSound(sent[i])
        BY <2>1 DEF IInv, SentInv
      <3> QED BY <2>1, <3>1, <3>2 DEF FrameIsSound
    <2> QED BY <2>2, <2>3, <1>3
  <1> QED BY <1>4, <1>5

-----------------------------------------------------------------------------
(* setContext and reset *)

\* Ending every session together with its generation keeps the invariant.
LEMMA DisposeAllPreserves ==
    ASSUME IInv, DisposeAll, generation < MaxGeneration, generation' = generation + 1,
           contextKey' \in Contexts \cup {NoContext}, UNCHANGED <<preparing, sent, vault>>
    PROVE  IInv'
  <1>1. \A s \in Sessions : session'[s] = Disposed(s)
    BY DEF DisposeAll
  <1>2. \A s \in Sessions : Disposed(s) \in SessionRecords
    BY Variables, SessionUpdates DEF IInv, Disposed
  <1>3. \A r \in Requests : request'[r] \in {request[r], [request[r] EXCEPT !.message = "wiped"]}
    BY DEF DisposeAll
  <1>4. \A r \in Requests : request[r] \in RequestRecords /\ request'[r] \in RequestRecords
    BY <1>3, Variables, RequestUpdates DEF IInv
  <1>5. TypeOK'
    <2>1. session' = [s \in Sessions |-> session'[s]] /\ session' \in [Sessions -> SessionRecords]
      BY <1>1, <1>2 DEF DisposeAll
    <2>2. request' \in [Requests -> RequestRecords]
      BY <1>4 DEF DisposeAll
    <2>3. generation' \in 0..MaxGeneration
      BY Variables, BoundaryConstants DEF IInv
    <2> QED BY <2>1, <2>2, <2>3, Variables DEF IInv, TypeOK, SessionRecords, RequestRecords
  <1>6. \A s \in Sessions :
          /\ session[s] \in SessionRecords /\ SlotIsSound(s)
          /\ SessionIsSound(session[s], contextKey, generation)
    BY Variables DEF IInv, SessionInv, SlotInv
  <1>7. \A s \in Sessions :
          /\ session'[s].place \notin Live /\ session'[s].slot = 0
          /\ session'[s].approval = session[s].approval
          /\ session'[s].nextWallet = session[s].nextWallet
          /\ session'[s].generation = session[s].generation
          /\ session'[s].keys # "live"
          /\ session[s].place = "unused" <=> session'[s].place = "unused"
          /\ session[s].place = "unused" => session'[s] = session[s]
          /\ session'[s].place = "gone" \/ session'[s].place = "unused"
    <2> TAKE s \in Sessions
    <2>1. CASE session[s].place \in Live
      <3>1. session'[s] = [session[s] EXCEPT !.place = "gone", !.keys = "wiped",
                                             !.preimage = "wiped", !.slot = 0]
        BY <1>1, <2>1 DEF Disposed
      <3> QED BY <1>6, <2>1, <3>1 DEF SessionRecords, Live
    <2>2. CASE session[s].place \notin Live
      <3>1. session'[s] = session[s]
        BY <1>1, <2>2 DEF Disposed
      <3>2. session[s].place \in {"unused", "gone"}
        BY <1>6, <2>2 DEF SessionRecords
      <3> QED BY <1>6, <2>2, <3>1, <3>2 DEF SessionIsSound, SlotIsSound, Live
    <2> QED BY <2>1, <2>2
  <1>8. SessionInv'
    <2> SUFFICES ASSUME NEW s \in Sessions 
                 PROVE  SessionIsSound(session'[s], contextKey', generation')
      BY DEF SessionInv
    <2>1. session[s].generation < generation' /\ session[s].generation <= generation'
      BY <1>6, Variables DEF IInv, SessionIsSound, SessionRecords
    <2> QED BY <1>6, <1>7, <2>1 DEF SessionIsSound, Live
  <1>9. OneSession' /\ SlotInv'
    BY <1>7 DEF OneSession, SlotInv, SlotIsSound
  <1>10. RequestInv'
    <2> SUFFICES ASSUME NEW r \in Requests PROVE RequestIsSound(r)'
      BY DEF RequestInv
    <2>1. RequestIsSound(r) /\ request[r] \in RequestRecords
      BY <1>4 DEF IInv, RequestInv
    <2>2. request[r].session # 0 => request[r].session \in Sessions
      BY <2>1, BoundaryConstants DEF Sessions, RequestRecords
    <2>3. request[r].session = 0 => request'[r] = request[r]
      BY <1>6, NumbersArePositive DEF DisposeAll, SlotIsSound
    <2>4. /\ request'[r].session = request[r].session
          /\ request'[r].executing = request[r].executing
          /\ request'[r].step = request[r].step
          /\ request'[r].message \in {request[r].message, "wiped"}
      BY <1>3, <2>1 DEF RequestRecords
    <2> QED BY <2>1, <2>2, <2>3, <2>4, <1>7 DEF RequestIsSound, Live
  <1>11. Onward
    <2>1. \A r \in Requests : request'[r].step = request[r].step
      BY <1>3, <1>4 DEF RequestRecords
    <2>2. \A s \in Sessions : session[s].nextWallet <= session'[s].nextWallet
      BY <1>6, <1>7 DEF SessionRecords
    <2> QED BY <1>7, <2>1, <2>2 DEF Onward
  <1> QED BY <1>5, <1>8, <1>9, <1>10, <1>11, FramesKept DEF IInv, RequestSignaturesAreExact

-----------------------------------------------------------------------------
(* prepareSession and approveSession *)

\* The session s may become x while the requests stay: it is live only if it was or
\* no session is, it keeps its slot, it neither enters nor leaves the active ones,
\* and neither its approval nor its frame numbers go back.
SessionMovesOn(s, x) ==
    /\ x.place \in Live => session[s].place \in Live \/ SlotAvailable
    /\ x.slot = session[s].slot
    /\ (x.place = "active" <=> session[s].place = "active")
    /\ session[s].place = "gone" => x.place = "gone"
    /\ session[s].approval = "over" => x.approval = "over"
    /\ session[s].nextWallet <= x.nextWallet

\* A step that changes one session only, and asks the vault at most for a pairing.
LEMMA SessionStepPreserves ==
    ASSUME IInv, NEW s \in Sessions, NEW x \in SessionRecords,
           session' = [session EXCEPT ![s] = x],
           UNCHANGED <<contextKey, generation, request, sent>>,
           preparing' \in [Calls -> [context : Contexts \cup {NoContext},
                                     generation : 0..MaxGeneration]],
           vault' \subseteq Signatures, \A v \in vault' : v \in vault \/ v.kind = "session",
           SessionIsSound(x, contextKey, generation),
           SessionMovesOn(s, x)
    PROVE  IInv'
  <1>1. /\ session' \in [Sessions -> SessionRecords]
        /\ \A t \in Sessions : session'[t] = IF t = s THEN x ELSE session[t]
    BY Replaced, Variables DEF IInv
  <1>2. TypeOK'
    BY <1>1, Variables DEF IInv, TypeOK, SessionRecords, Signatures
  <1>3. SessionInv' /\ OneSession'
    BY <1>1, SessionsKept DEF SessionMovesOn
  <1>4. SlotInv' /\ RequestInv'
    BY <1>1, SlotsKept DEF SessionMovesOn
  <1>5. Onward
    BY <1>1, Variables DEF Onward, SessionMovesOn, IInv, SessionRecords
  <1>6. RequestSignaturesAreExact'
    BY DEF IInv, RequestSignaturesAreExact
  <1> QED BY <1>2, <1>3, <1>4, <1>5, <1>6, FramesKept DEF IInv

\* The finally block without promotion ends a session that is not active.
LEMMA AbandonPreserves ==
    ASSUME IInv, NEW s \in Sessions, AbandonApproval(s),
           session[s].place = "pending" \/ session[s].approval \in InProgress,
           UNCHANGED <<contextKey, generation, preparing, request, sent, vault>>
    PROVE  IInv'
  <1> DEFINE x == [session[s] EXCEPT !.place = "gone", !.approval = "over",
                                     !.keys = "wiped", !.preimage = "wiped"]
  <1>1. /\ session[s] \in SessionRecords /\ SlotIsSound(s)
        /\ SessionIsSound(session[s], contextKey, generation)
    BY Variables DEF IInv, SessionInv, SlotInv
  <1>2. session[s].place \in {"pending", "authorizing", "gone"}
    BY <1>1 DEF SessionIsSound, SessionRecords, InProgress, UnusedSession, Live
  <1>3. session' = [session EXCEPT ![s] =
            [session[s] EXCEPT !.place = IF @ = "authorizing" \/ @ = "pending" THEN "gone"
                                         ELSE @,
                               !.approval = "over", !.keys = "wiped", !.preimage = "wiped"]]
    BY Zenon DEF AbandonApproval
  <1>4. session' = [session EXCEPT ![s] = x]
    BY <1>2, <1>3
  <1>5. x \in SessionRecords
    BY <1>1, SessionUpdates
  <1>6. session'[s] = x
    BY <1>4, Variables DEF IInv
  <1>7. /\ x.place = "gone" /\ x.approval = "over" /\ x.keys = "wiped"
        /\ x.generation = session[s].generation /\ x.slot = session[s].slot
        /\ x.nextWallet = session[s].nextWallet /\ x.nextWallet \in Nat
    BY <1>1 DEF SessionRecords
  <1>8. SessionIsSound(x, contextKey, generation)
    BY <1>1, <1>6, <1>7 DEF SessionIsSound, InProgress, Live
  <1> HIDE DEF x
  <1>9. /\ UNCHANGED <<contextKey, generation, request, sent>>
        /\ preparing' \in [Calls -> [context : Contexts \cup {NoContext},
                                     generation : 0..MaxGeneration]]
        /\ vault' \subseteq Signatures
        /\ \A v \in vault' : v \in vault \/ v.kind = "session"
    BY Variables DEF IInv
  <1>10. SessionMovesOn(s, x)
    BY <1>2, <1>7 DEF Live, SessionMovesOn
  <1> QED BY <1>4, <1>5, <1>8, <1>9, <1>10, SessionStepPreserves, Zenon

\* An approval that goes on: its session stays in its place, or takes the place of
\* the approvals under way.
LEMMA ApprovalStepPreserves ==
    ASSUME IInv, NEW s \in Sessions, NEW a \in InProgress, NEW x \in SessionRecords,
           session' = [session EXCEPT ![s] = x],
           \/ x = [session[s] EXCEPT !.approval = a] /\ session[s].approval \in InProgress
           \/ /\ x = [session[s] EXCEPT !.place = "authorizing", !.approval = a]
              /\ session[s].place = "pending",
           UNCHANGED <<contextKey, generation, preparing, request, sent>>,
           vault' \subseteq Signatures, \A v \in vault' : v \in vault \/ v.kind = "session"
    PROVE  IInv'
  <1>1. session[s] \in SessionRecords /\ SessionIsSound(session[s], contextKey, generation)
    BY Variables DEF IInv, SessionInv
  <1>2. session'[s] = x
    BY Variables DEF IInv
  <1>3. /\ x.approval = a /\ x.keys = session[s].keys /\ x.slot = session[s].slot
        /\ x.generation = session[s].generation /\ x.context = session[s].context
        /\ x.nextWallet = session[s].nextWallet /\ x.nextWallet \in Nat
    BY <1>1 DEF SessionRecords
  <1>4. \/ /\ x.place = session[s].place /\ session[s].approval \in InProgress
           /\ session[s].place \in {"authorizing", "gone"}
        \/ session[s].place = "pending" /\ x.place = "authorizing"
    <2>1. CASE session[s].approval \in InProgress /\ x = [session[s] EXCEPT !.approval = a]
      <3>1. session[s].place \in {"authorizing", "gone"}
        BY <1>1, <2>1 DEF SessionRecords, SessionIsSound, InProgress, UnusedSession, Live
      <3>2. x.place = session[s].place
        BY <1>1, <2>1 DEF SessionRecords
      <3> QED BY <2>1, <3>1, <3>2
    <2>2. CASE /\ session[s].place = "pending"
               /\ x = [session[s] EXCEPT !.place = "authorizing", !.approval = a]
      BY <1>1, <2>2 DEF SessionRecords
    <2> QED BY <2>1, <2>2
  <1>5. session[s].approval # "over"
    BY <1>1, <1>4 DEF SessionIsSound, InProgress
  <1>6. SessionIsSound(x, contextKey, generation)
    BY <1>1, <1>2, <1>3, <1>4 DEF SessionIsSound, InProgress, Live, ApprovalIsCurrent
  <1>7. preparing' \in [Calls -> [context : Contexts \cup {NoContext},
                                  generation : 0..MaxGeneration]]
    BY Variables DEF IInv
  <1>8. SessionMovesOn(s, x)
    BY <1>3, <1>4, <1>5 DEF Live, SessionMovesOn
  <1> QED BY <1>6, <1>7, <1>8, SessionStepPreserves, Zenon

\* A preparation ends with a pending session only while no session is held.
LEMMA ContextVerifiedPreserves ==
    ASSUME IInv, NEW c \in Calls, ContextVerified(c)
    PROVE  IInv'
  <1>1. /\ preparing' \in [Calls -> [context : Contexts \cup {NoContext},
                                     generation : 0..MaxGeneration]]
        /\ UNCHANGED <<contextKey, generation, request, sent, vault>>
    BY Variables, BoundaryConstants DEF ContextVerified, IInv, Idle
  <1>2. CASE UNCHANGED session
    BY <1>1, <1>2 DEF IInv, TypeOK, OneSession, SessionInv, SessionIsSound, ApprovalIsCurrent,
         SlotInv, SlotIsSound, RequestInv, RequestIsSound, SentInv, FrameIsSound,
         RequestSignaturesAreExact, AnswersAreUnique
  <1>3. ASSUME NEW s \in Sessions, PreparationIsCurrent(c), session[s].place = "unused",
               session' = [session EXCEPT ![s] =
                 [UnusedSession EXCEPT !.place = "pending", !.context = contextKey,
                    !.generation = generation, !.keys = "live", !.preimage = "live"]]
        PROVE  IInv'
    <2> DEFINE x == [UnusedSession EXCEPT !.place = "pending", !.context = contextKey,
                       !.generation = generation, !.keys = "live", !.preimage = "live"]
    <2>1. /\ x.place = "pending" /\ x.context = contextKey /\ x.generation = generation
          /\ x.keys = "live" /\ x.preimage = "live" /\ x.approval = "none" /\ x.slot = 0
          /\ x.nextWallet = 2
      BY DEF UnusedSession
    <2>2. x \in SessionRecords
      BY UnusedTypes, Variables, Zenon DEF IInv, SessionRecords, Live
    <2>3. session[s] = UnusedSession /\ generation \in Nat
      BY <1>3, Variables DEF IInv, SessionInv, SessionIsSound
    <2>4. session'[s] = x
      BY <1>3, Variables DEF IInv
    <2>5. SessionIsSound(x, contextKey, generation)
      BY <1>1, <2>1, <2>3, <2>4 DEF SessionIsSound, InProgress, Live, ApprovalIsCurrent
    <2>6. session[s].slot = 0 /\ session[s].nextWallet = 2 /\ session[s].approval = "none"
      BY <2>3 DEF UnusedSession
    <2> HIDE DEF x
    <2>7. SlotAvailable /\ x.nextWallet <= x.nextWallet
      BY <2>1, <1>3 DEF PreparationIsCurrent
    <2>8. SessionMovesOn(s, x)
      BY <1>3, <2>1, <2>6, <2>7 DEF SessionMovesOn
    <2>9. vault' \subseteq Signatures /\ \A v \in vault' : v \in vault \/ v.kind = "session"
      BY <1>1, Variables DEF IInv
    <2> QED BY <1>1, <1>3, <2>2, <2>5, <2>8, <2>9, SessionStepPreserves, Zenon DEF x
  <1> QED BY <1>2, <1>3 DEF ContextVerified

\* The sessions and requests, one at a time.
LEMMA SoundParts ==
    ASSUME IInv
    PROVE  /\ \A s \in Sessions : /\ session[s] \in SessionRecords
                                  /\ SessionIsSound(session[s], contextKey, generation)
                                  /\ SlotIsSound(s)
           /\ \A r \in Requests : request[r] \in RequestRecords /\ RequestIsSound(r)
  BY Variables DEF IInv, SessionInv, SlotInv, RequestInv

\* A signature over a pairing is typed, and asks the vault for a pairing.
LEMMA PairingSignature ==
    ASSUME IInv, NEW s \in Sessions, NEW intact \in BOOLEAN, NEW current \in BOOLEAN,
           vault' = vault \cup
             {[kind |-> "session", id |-> s, intact |-> intact, current |-> current]}
    PROVE  vault' \subseteq Signatures /\ \A v \in vault' : v \in vault \/ v.kind = "session"
  BY NumbersArePositive, Variables DEF IInv, Signatures

\* approveSession and the expiry of a pairing, up to the vault's answer.
LEMMA PairingPreserves ==
    ASSUME IInv, NEW s \in Sessions,
           \/ SessionExpires(s) \/ ApproveSession(s)
           \/ PairingPromptAnswered(s) \/ PairingContextVerified(s)
    PROVE  IInv'
  <1>1. /\ session[s] \in SessionRecords /\ SessionIsSound(session[s], contextKey, generation)
        /\ vault \subseteq Signatures
    BY SoundParts, Variables DEF IInv
  <1>2. ASSUME UNCHANGED <<contextKey, generation, preparing, request, sent>>,
               NEW a \in {"assert", "sign"}, session[s].approval \in InProgress,
               session' = [session EXCEPT ![s].approval = a],
               vault' \subseteq Signatures, \A v \in vault' : v \in vault \/ v.kind = "session"
        PROVE  IInv'
    <2> DEFINE x == [session[s] EXCEPT !.approval = a]
    <2>1. x \in SessionRecords /\ a \in InProgress
      BY <1>1, SessionUpdates DEF InProgress
    <2>2. session' = [session EXCEPT ![s] = x]
      BY <1>2, Zenon
    <2> QED BY <1>2, <2>1, <2>2, ApprovalStepPreserves, Zenon
  <1>3. CASE SessionExpires(s)
    <2> DEFINE x == [session[s] EXCEPT !.expired = TRUE]
    <2>1. x \in SessionRecords
      BY <1>1, SessionUpdates
    <2>2. /\ x.place = session[s].place /\ x.context = session[s].context
          /\ x.generation = session[s].generation /\ x.approval = session[s].approval
          /\ x.keys = session[s].keys /\ x.slot = session[s].slot
          /\ x.nextWallet = session[s].nextWallet /\ x.nextWallet \in Nat
          /\ session[s].place = "pending"
      BY <1>1, <1>3 DEF SessionRecords, SessionExpires
    <2>3. session' = [session EXCEPT ![s] = x] /\ UNCHANGED <<contextKey, generation, request, sent>>
      BY <1>3, Zenon DEF SessionExpires
    <2> HIDE DEF x
    <2>4. SessionIsSound(x, contextKey, generation)
      BY <1>1, <2>2 DEF SessionIsSound
    <2>5. SessionMovesOn(s, x)
      BY <2>2 DEF SessionMovesOn
    <2>6. /\ preparing' \in [Calls -> [context : Contexts \cup {NoContext},
                                       generation : 0..MaxGeneration]]
          /\ vault' \subseteq Signatures /\ \A v \in vault' : v \in vault \/ v.kind = "session"
      BY <1>1, <1>3, Variables DEF IInv, SessionExpires
    <2> QED BY <2>1, <2>3, <2>4, <2>5, <2>6, SessionStepPreserves, Zenon
  <1>4. CASE ApproveSession(s)
    <2> DEFINE x == [session[s] EXCEPT !.place = "authorizing", !.approval = "authorize"]
    <2>1. session[s].place = "pending" /\ UNCHANGED <<contextKey, generation, preparing,
                                                       request, sent, vault>>
      BY <1>4 DEF ApproveSession
    <2>2. CASE AbandonApproval(s)
      BY <2>1, <2>2, AbandonPreserves
    <2>3. CASE session' = [session EXCEPT ![s].place = "authorizing",
                                          ![s].approval = "authorize"]
      <3>1. x \in SessionRecords /\ "authorize" \in InProgress
        BY <1>1, SessionUpdates DEF InProgress
      <3>2. session' = [session EXCEPT ![s] = x]
        BY <2>3, Zenon
      <3>3. vault' \subseteq Signatures /\ \A v \in vault' : v \in vault \/ v.kind = "session"
        BY <1>1, <2>1
      <3> QED BY <2>1, <3>1, <3>2, <3>3, ApprovalStepPreserves, Zenon
    <2> QED BY <1>4, <2>2, <2>3 DEF ApproveSession
  <1>5. CASE PairingPromptAnswered(s)
    <2>1. /\ session[s].approval \in InProgress
          /\ UNCHANGED <<contextKey, generation, preparing, request, sent, vault>>
      BY <1>5 DEF PairingPromptAnswered, InProgress
    <2>2. CASE AbandonApproval(s)
      BY <2>1, <2>2, AbandonPreserves
    <2>3. CASE session' = [session EXCEPT ![s].approval = "assert"]
      BY <1>1, <1>2, <2>1, <2>3
    <2> QED BY <1>5, <2>2, <2>3 DEF PairingPromptAnswered
  <1>6. CASE PairingContextVerified(s)
    <2>1. /\ session[s].approval \in InProgress
          /\ UNCHANGED <<contextKey, generation, preparing, request, sent>>
      BY <1>6 DEF PairingContextVerified, InProgress
    <2>2. CASE AbandonApproval(s) /\ UNCHANGED vault
      BY <2>1, <2>2, AbandonPreserves
    <2>3. CASE /\ session' = [session EXCEPT ![s].approval = "sign"]
               /\ vault' = vault \cup
                    {[kind |-> "session", id |-> s, intact |-> session[s].preimage = "live",
                      current |-> ApprovalIsCurrent(s)]}
      <3>1. (session[s].preimage = "live") \in BOOLEAN /\ ApprovalIsCurrent(s) \in BOOLEAN
        BY DEF ApprovalIsCurrent
      <3>2. vault' \subseteq Signatures /\ \A v \in vault' : v \in vault \/ v.kind = "session"
        BY <2>3, <3>1, PairingSignature, Zenon
      <3> QED BY <1>2, <2>1, <2>3, <3>2
    <2> QED BY <1>6, <2>2, <2>3 DEF PairingContextVerified
  <1> QED BY <1>3, <1>4, <1>5, <1>6

\* The vault's signature makes a session active only if it is still the current one.
LEMMA PairingSignedPreserves ==
    ASSUME IInv, NEW s \in Sessions, PairingSigned(s)
    PROVE  IInv'
  <1> DEFINE x == [session[s] EXCEPT !.place = "active", !.approval = "over",
                                     !.preimage = "wiped"]
             f == [session |-> s, sequence |-> 1, type |-> "approve", request |-> 0]
  <1>1. /\ session[s].approval \in InProgress
        /\ UNCHANGED <<contextKey, generation, preparing, request, vault>>
    BY DEF PairingSigned, InProgress
  <1>2. CASE AbandonApproval(s) /\ UNCHANGED sent
    BY <1>1, <1>2, AbandonPreserves
  <1>3. CASE ApprovalIsCurrent(s) /\ session' = Promoted(s) /\ sent' = Append(sent, f)
    <2>1. /\ session[s] \in SessionRecords /\ SessionIsSound(session[s], contextKey, generation)
          /\ SlotIsSound(s)
      BY SoundParts
    <2>2. session[s].place = "authorizing"
      BY <1>1, <1>3, <2>1 DEF SessionIsSound, ApprovalIsCurrent, SessionRecords, Live,
         UnusedSession, InProgress
    <2>3. x \in SessionRecords /\ session' = [session EXCEPT ![s] = x]
      <3>1. session' = [session EXCEPT ![s] = x]
        BY <1>3, Zenon DEF Promoted
      <3> QED BY <2>1, <3>1, SessionUpdates
    <2>4. /\ x.place = "active" /\ x.approval = "over" /\ x.keys = session[s].keys
          /\ x.context = session[s].context /\ x.generation = session[s].generation
          /\ x.slot = session[s].slot /\ x.nextWallet = session[s].nextWallet
      BY <2>1 DEF SessionRecords
    <2> HIDE DEF x
    <2>5. /\ session' \in [Sessions -> SessionRecords]
          /\ \A t \in Sessions : session'[t] = IF t = s THEN x ELSE session[t]
      BY <2>3, Replaced, Variables DEF IInv
    <2>6. f \in Frames /\ f.session = s /\ f.sequence = 1 /\ f.request = 0
      BY NumbersArePositive DEF Frames
    <2> HIDE DEF f
    <2>7. TypeOK'
      <3>1. sent' \in Seq(Frames)
        BY <1>3, <2>6, AppendProperties, Variables, Zenon DEF IInv
      <3> QED BY <1>1, <2>5, <3>1, Variables
           DEF IInv, TypeOK, SessionRecords, RequestRecords, Signatures, Frames
    <2>8. SessionIsSound(x, contextKey, generation)
      BY <2>1, <2>2, <2>4 DEF SessionIsSound, Live
    <2>9. SessionInv' /\ OneSession'
      BY <1>1, <2>2, <2>5, <2>8, SessionsKept DEF Live
    <2>10. SlotInv'
      BY <1>1, <2>1, <2>2, <2>4, <2>5, SoundParts DEF SlotInv, SlotIsSound
    <2>11. RequestInv'
      <3> SUFFICES ASSUME NEW r \in Requests PROVE RequestIsSound(r)'
        BY DEF RequestInv
      <3>1. RequestIsSound(r) /\ request[r] \in RequestRecords
        BY SoundParts
      <3>2. request[r].session # 0 => request[r].session \in Sessions /\ request[r].session # s
        BY <2>2, <3>1, BoundaryConstants DEF Sessions, RequestRecords, RequestIsSound
      <3> QED BY <1>1, <2>5, <3>1, <3>2 DEF RequestIsSound
    <2>12. Onward
      <3>1. \A t \in Sessions : session[t].nextWallet \in Nat
        BY SoundParts DEF SessionRecords
      <3> QED BY <1>1, <2>4, <2>5, <3>1 DEF Onward
    <2>13. SentInv' /\ AnswersAreUnique'
      <3>1. session'[f.session].approval = "over" /\ f.sequence < session'[f.session].nextWallet
        BY <2>1, <2>4, <2>5, <2>6 DEF SessionIsSound, SessionRecords
      <3>2. \A i \in DOMAIN sent : sent[i].session # s
        BY <1>1 DEF IInv, SentInv, FrameIsSound, InProgress
      <3> QED BY <1>3, <2>6, <2>7, <2>12, <3>1, <3>2, FrameSent, Zenon
    <2> QED BY <1>1, <2>7, <2>9, <2>10, <2>11, <2>13 DEF IInv, RequestSignaturesAreExact
  <1> QED BY <1>2, <1>3 DEF PairingSigned

-----------------------------------------------------------------------------
(* closeSession and processFrame *)

\* An active session that ends, its waiting request with it.
LEMMA ClosePreserves ==
    ASSUME IInv, NEW s \in Sessions, session[s].place = "active", NEW x \in SessionRecords,
           session' = [session EXCEPT ![s] = x],
           x.place = "gone", x.slot = 0, x.keys = "wiped", x.approval = session[s].approval,
           x.generation = session[s].generation, x.nextWallet = session[s].nextWallet,
           request' = WipedSlot(s),
           UNCHANGED <<contextKey, generation, preparing, sent, vault>>
    PROVE  IInv'
  <1>1. /\ session[s] \in SessionRecords /\ SessionIsSound(session[s], contextKey, generation)
        /\ SlotIsSound(s)
    BY SoundParts
  <1>2. /\ session' \in [Sessions -> SessionRecords]
        /\ \A t \in Sessions : session'[t] = IF t = s THEN x ELSE session[t]
    BY Replaced, Variables DEF IInv
  <1>3. \A r \in Requests : request'[r] = IF session[s].slot = r
                                          THEN [request[r] EXCEPT !.message = "wiped"]
                                          ELSE request[r]
    BY Variables, NumbersArePositive DEF IInv, WipedSlot
  <1>4. \A r \in Requests : /\ request[r] \in RequestRecords /\ request'[r] \in RequestRecords
                            /\ request'[r].session = request[r].session
                            /\ request'[r].step = request[r].step
                            /\ request'[r].executing = request[r].executing
                            /\ session[s].slot # r => request'[r] = request[r]
                            /\ session[s].slot = r => request'[r].message = "wiped"
    <2> TAKE r \in Requests
    <2>1. request[r] \in RequestRecords /\ [request[r] EXCEPT !.message = "wiped"] \in RequestRecords
      BY SoundParts, RequestUpdates
    <2>2. request'[r] \in RequestRecords
      BY <1>3, <2>1
    <2> QED BY <1>3, <2>1, <2>2 DEF RequestRecords
  <1>5. request' \in [Requests -> RequestRecords]
    <2>1. request' = request \/ request' = [request EXCEPT ![session[s].slot].message = "wiped"]
      BY DEF WipedSlot
    <2>2. request \in [Requests -> RequestRecords]
      BY Variables DEF IInv
    <2>3. request' = [r \in Requests |-> request'[r]]
      BY <2>1, <2>2
    <2> QED BY <1>4, <2>3
  <1>6. TypeOK'
    BY <1>2, <1>5, Variables DEF IInv, TypeOK, SessionRecords, RequestRecords
  <1>7. SessionInv' /\ OneSession'
    <2>1. SessionIsSound(x, contextKey, generation)
      BY <1>1 DEF SessionIsSound, InProgress, Live
    <2> QED BY <1>2, <2>1, SessionsKept DEF Live
  <1>8. SlotInv'
    <2> SUFFICES ASSUME NEW t \in Sessions, t # s, session[t].slot # 0
                 PROVE  /\ session[t].place = "active"
                        /\ request'[session[t].slot].session = t
                        /\ request'[session[t].slot].message = "live"
                        /\ request'[session[t].slot].step # "over"
      BY <1>2 DEF SlotInv, SlotIsSound
    <2>1. session[t] \in SessionRecords /\ SlotIsSound(t)
      BY SoundParts
    <2>2. session[t].slot \in Requests
      BY <2>1, NumbersArePositive DEF SessionRecords
    <2>3. session[s].slot # session[t].slot
      BY <1>1, <2>1 DEF SlotIsSound
    <2> QED BY <1>4, <2>1, <2>2, <2>3 DEF SlotIsSound
  <1>9. RequestInv'
    <2> SUFFICES ASSUME NEW r \in Requests PROVE RequestIsSound(r)'
      BY DEF RequestInv
    <2>1. RequestIsSound(r)
      BY SoundParts
    <2>2. request[r].session # 0 => request[r].session \in Sessions
      BY SoundParts, BoundaryConstants DEF Sessions, RequestRecords
    <2>3. request[r].session = 0 => session[s].slot # r
      BY <1>1, NumbersArePositive DEF SlotIsSound
    <2> QED BY <1>2, <1>4, <2>1, <2>2, <2>3 DEF RequestIsSound
  <1>10. Onward
    BY <1>1, <1>2, <1>4, Variables DEF IInv, Onward, SessionRecords
  <1> QED BY <1>6, <1>7, <1>8, <1>9, <1>10, FramesKept DEF IInv, RequestSignaturesAreExact

\* closeSession, and a frame in which the app closes the session.
LEMMA ClosingPreserves ==
    ASSUME IInv, NEW s \in Sessions, CloseSession(s) \/ FrameCloses(s)
    PROVE  IInv'
  <1> DEFINE x == [session[s] EXCEPT !.place = "gone", !.slot = 0, !.keys = "wiped"]
             y == [x EXCEPT !.nextApp = session[s].nextApp + 1]
  <1>1. session[s] \in SessionRecords /\ x \in SessionRecords
    BY SoundParts, SessionUpdates
  <1>2. /\ x.place = "gone" /\ x.slot = 0 /\ x.keys = "wiped"
        /\ x.approval = session[s].approval /\ x.generation = session[s].generation
        /\ x.nextWallet = session[s].nextWallet /\ x.nextApp = session[s].nextApp
    BY <1>1 DEF SessionRecords
  <1>3. session[s].place = "active" /\ request' = WipedSlot(s)
        /\ UNCHANGED <<contextKey, generation, preparing, sent, vault>>
    BY DEF CloseSession, FrameCloses, FrameArrives, SessionMatches
  <1>4. [session EXCEPT ![s] = x] = Closed(s)
    BY Zenon DEF Closed
  <1>5. CASE CloseSession(s)
    <2>1. session' = [session EXCEPT ![s] = x]
      BY <1>4, <1>5 DEF CloseSession
    <2> HIDE DEF x
    <2> QED BY <1>1, <1>2, <1>3, <2>1, ClosePreserves, Zenon
  <1>6. CASE FrameCloses(s)
    <2>1. session[s].nextApp + 1 \in 2..(MaxFrames + 2)
      BY <1>1, <1>6, BoundaryConstants DEF FrameCloses, FrameArrives, SessionRecords
    <2>2. session' = [session EXCEPT ![s] = y]
      <3>1. session' = [[session EXCEPT ![s] = x] EXCEPT ![s].nextApp = @ + 1]
        BY <1>4, <1>6 DEF FrameCloses
      <3>2. session \in [Sessions -> SessionRecords]
        BY Variables DEF IInv
      <3> HIDE DEF x
      <3> QED BY <1>2, <3>1, <3>2
    <2> HIDE DEF x
    <2>3. y \in SessionRecords
      <3>1. MaxFrames + 1 \in Nat /\ 1 \in 1..(MaxFrames + 1) /\ 0 \in Nat /\ 0 \in 0..MaxRequests
        BY BoundaryConstants
      <3> QED BY <1>1, <2>1, <3>1, NumberUpdates
    <2>4. /\ y.place = "gone" /\ y.slot = 0 /\ y.keys = "wiped"
          /\ y.approval = session[s].approval /\ y.generation = session[s].generation
          /\ y.nextWallet = session[s].nextWallet
      BY <1>1, <1>2 DEF SessionRecords
    <2> HIDE DEF y
    <2> QED BY <1>3, <2>2, <2>3, <2>4, ClosePreserves, Zenon
  <1> QED BY <1>5, <1>6

\* A frame that takes a number and is not answered leaves the session in its place.
LEMMA NumberedPreserves ==
    ASSUME IInv, NEW s \in Sessions, ServerEvent(s) \/ FrameIgnored(s)
    PROVE  IInv'
  <1>1. /\ session[s] \in SessionRecords /\ SessionIsSound(session[s], contextKey, generation)
        /\ UNCHANGED <<contextKey, generation, preparing, request, sent, vault>>
        /\ FrameArrives(s)
    BY SoundParts DEF ServerEvent, FrameIgnored
  <1>2. /\ session[s].nextApp + 1 \in 2..(MaxFrames + 2)
        /\ session[s].nextServer + 1 \in 1..(MaxFrames + 1)
        /\ 1 \in 1..(MaxFrames + 1) /\ 2 \in 2..(MaxFrames + 2)
        /\ 0 \in Nat /\ 0 \in 0..MaxRequests
    BY <1>1, BoundaryConstants DEF FrameArrives, SessionRecords
  <1>3. PICK x \in SessionRecords :
          /\ session' = [session EXCEPT ![s] = x]
          /\ \/ x = [session[s] EXCEPT !.nextServer = session[s].nextServer + 1]
             \/ x = [session[s] EXCEPT !.nextApp = session[s].nextApp + 1]
    <2>1. [session[s] EXCEPT !.nextServer = session[s].nextServer + 1] \in SessionRecords
      BY <1>1, <1>2, NumberUpdates
    <2>2. [session[s] EXCEPT !.nextApp = session[s].nextApp + 1] \in SessionRecords
      BY <1>1, <1>2, NumberUpdates
    <2>3. CASE ServerEvent(s)
      <3>1. session' = [session EXCEPT ![s] =
                          [session[s] EXCEPT !.nextServer = session[s].nextServer + 1]]
        BY <2>3, Zenon DEF ServerEvent
      <3> QED BY <2>1, <3>1
    <2>4. CASE FrameIgnored(s)
      <3>1. session' = [session EXCEPT ![s] =
                          [session[s] EXCEPT !.nextApp = session[s].nextApp + 1]]
        BY <2>4, Zenon DEF FrameIgnored
      <3> QED BY <2>2, <3>1
    <2> QED BY <2>3, <2>4
  <1>4. /\ x.place = session[s].place /\ x.context = session[s].context
        /\ x.generation = session[s].generation /\ x.approval = session[s].approval
        /\ x.keys = session[s].keys /\ x.slot = session[s].slot
        /\ x.nextWallet = session[s].nextWallet /\ x.nextWallet \in Nat
    BY <1>1, <1>3 DEF SessionRecords
  <1>5. SessionIsSound(x, contextKey, generation)
    <2>1. x.place = "active"
      BY <1>1, <1>4 DEF FrameArrives, SessionMatches
    <2> QED BY <1>1, <1>4, <2>1 DEF SessionIsSound
  <1>6. SessionMovesOn(s, x)
    BY <1>4 DEF SessionMovesOn
  <1>7. /\ preparing' \in [Calls -> [context : Contexts \cup {NoContext},
                                     generation : 0..MaxGeneration]]
        /\ vault' \subseteq Signatures /\ \A v \in vault' : v \in vault \/ v.kind = "session"
    BY <1>1, Variables DEF IInv
  <1> QED BY <1>1, <1>3, <1>5, <1>6, <1>7, SessionStepPreserves, Zenon

\* The next frame of an active session takes the next number: the frames sent stay
\* sound and no number and no answered request appears twice.
LEMMA AnswerKeepsFrames ==
    ASSUME IInv, TypeOK', NEW s \in Sessions, session[s].place = "active",
           NEW x \in SessionRecords, session' = [session EXCEPT ![s] = x],
           x.approval = session[s].approval, x.nextWallet = session[s].nextWallet + 1,
           \A r \in Requests : request[r].step = "over" => request'[r].step = "over",
           NEW type \in {"pong", "ok", "err"}, NEW q \in 0..MaxRequests,
           q # 0 => request[q].step # "over" /\ request'[q].step = "over",
           Answer(s, type, q)
    PROVE  SentInv' /\ AnswersAreUnique'
  <1> DEFINE f == [session |-> s, sequence |-> session[s].nextWallet, type |-> type,
                   request |-> q]
  <1>1. session[s] \in SessionRecords /\ SessionIsSound(session[s], contextKey, generation)
    BY SoundParts
  <1>2. /\ \A t \in Sessions : session'[t] = IF t = s THEN x ELSE session[t]
        /\ \A t \in Sessions : session[t].nextWallet \in Nat
    BY Replaced, SoundParts, Variables DEF IInv, SessionRecords
  <1>3. f \in Frames /\ sent' = Append(sent, f)
    BY <1>1 DEF Frames, SessionRecords, Answer
  <1>4. f.session = s /\ f.sequence = session[s].nextWallet /\ f.request = q
    OBVIOUS
  <1> HIDE DEF f
  <1>5. Onward
    BY <1>2 DEF Onward
  <1>6. session'[f.session].approval = "over" /\ f.sequence < session'[f.session].nextWallet
    BY <1>1, <1>2, <1>4 DEF SessionIsSound
  <1>7. \A i \in DOMAIN sent : sent[i].session = f.session => sent[i].sequence < f.sequence
    BY <1>4 DEF IInv, SentInv, FrameIsSound
  <1> QED BY <1>3, <1>4, <1>5, <1>6, <1>7, FrameSent, Zenon

\* A frame answered at once: ping, busy, denied, empty or refused.
LEMMA FrameAnsweredPreserves ==
    ASSUME IInv, NEW s \in Sessions, FrameAnswered(s)
    PROVE  IInv'
  <1> DEFINE x == [session[s] EXCEPT !.nextApp = session[s].nextApp + 1,
                                     !.nextWallet = session[s].nextWallet + 1]
  <1>1. /\ session[s] \in SessionRecords /\ SessionIsSound(session[s], contextKey, generation)
        /\ UNCHANGED <<contextKey, generation, preparing, request, vault>>
        /\ session[s].place = "active" /\ FrameArrives(s)
    BY SoundParts DEF FrameAnswered, FrameArrives, SessionMatches
  <1>2. x \in SessionRecords
    <2>1. /\ session[s].nextApp + 1 \in 2..(MaxFrames + 2) /\ session[s].nextWallet + 1 \in Nat
          /\ 1 \in 1..(MaxFrames + 1) /\ 0 \in 0..MaxRequests
      BY <1>1, BoundaryConstants DEF FrameArrives, SessionRecords
    <2> QED BY <1>1, <2>1, NumberUpdates
  <1>3. session' = [session EXCEPT ![s] = x]
    BY Zenon DEF FrameAnswered
  <1>4. /\ x.place = session[s].place /\ x.context = session[s].context
        /\ x.generation = session[s].generation /\ x.approval = session[s].approval
        /\ x.keys = session[s].keys /\ x.slot = session[s].slot
        /\ x.nextWallet = session[s].nextWallet + 1 /\ session[s].nextWallet \in Nat
    BY <1>1 DEF SessionRecords
  <1> HIDE DEF x
  <1>5. PICK type \in {"pong", "err"} : Answer(s, type, 0)
    BY DEF FrameAnswered
  <1>6. /\ session' \in [Sessions -> SessionRecords]
        /\ \A t \in Sessions : session'[t] = IF t = s THEN x ELSE session[t]
    BY <1>2, <1>3, Replaced, Variables DEF IInv
  <1>7. TypeOK'
    <2>1. sent \in Seq(Frames)
      BY Variables DEF IInv
    <2>2. [session |-> s, sequence |-> session[s].nextWallet, type |-> type, request |-> 0]
            \in Frames
      BY <1>4, NumbersArePositive DEF Frames
    <2>3. sent' \in Seq(Frames)
      BY <1>5, <2>1, <2>2, AppendProperties, Zenon DEF Answer
    <2> QED BY <1>1, <1>6, <2>3, Variables
         DEF IInv, TypeOK, SessionRecords, RequestRecords, Signatures, Frames
  <1>8. SessionInv' /\ OneSession'
    <2>1. SessionIsSound(x, contextKey, generation)
      BY <1>1, <1>4 DEF SessionIsSound
    <2> QED BY <1>1, <1>6, <2>1, SessionsKept DEF Live
  <1>9. SlotInv' /\ RequestInv'
    BY <1>1, <1>4, <1>6, SlotsKept
  <1>10. SentInv' /\ AnswersAreUnique'
    BY <1>1, <1>2, <1>3, <1>4, <1>5, <1>7, AnswerKeepsFrames, NumbersArePositive
  <1> QED BY <1>1, <1>7, <1>8, <1>9, <1>10 DEF IInv, RequestSignaturesAreExact

\* A signing request takes the free slot of its session.
LEMMA FrameRequestsPreserves ==
    ASSUME IInv, NEW s \in Sessions, FrameRequests(s)
    PROVE  IInv'
  <1>1. /\ session[s] \in SessionRecords /\ SessionIsSound(session[s], contextKey, generation)
        /\ UNCHANGED <<contextKey, generation, preparing, sent, vault>>
        /\ session[s].place = "active" /\ session[s].slot = 0 /\ FrameArrives(s)
    BY SoundParts DEF FrameRequests, FrameArrives, SessionMatches
  <1>2. PICK r \in Requests :
          /\ request[r] = UnusedRequest
          /\ session' = [session EXCEPT ![s].nextApp = @ + 1, ![s].slot = r]
          /\ request' = [request EXCEPT ![r].session = s, ![r].message = "live"]
    BY DEF FrameRequests
  <1> DEFINE x == [session[s] EXCEPT !.nextApp = session[s].nextApp + 1, !.slot = r]
             y == [request[r] EXCEPT !.session = s, !.message = "live"]
  <1>3. x \in SessionRecords /\ y \in RequestRecords
    <2>1. /\ session[s].nextApp + 1 \in 2..(MaxFrames + 2) /\ r \in 0..MaxRequests
          /\ 1 \in 1..(MaxFrames + 1) /\ 0 \in Nat
      BY <1>1, BoundaryConstants, NumbersArePositive DEF FrameArrives, SessionRecords
    <2> QED BY <1>1, <2>1, NumberUpdates, RequestUpdates, SoundParts
  <1>4. session' = [session EXCEPT ![s] = x] /\ request' = [request EXCEPT ![r] = y]
    BY <1>2, Zenon
  <1>5. /\ x.place = session[s].place /\ x.context = session[s].context
        /\ x.generation = session[s].generation /\ x.approval = session[s].approval
        /\ x.keys = session[s].keys /\ x.slot = r
        /\ x.nextWallet = session[s].nextWallet /\ session[s].nextWallet \in Nat
        /\ y.session = s /\ y.message = "live" /\ y.step = "none" /\ y.executing = FALSE
        /\ request[r].session = 0 /\ request[r].step = "none"
    BY <1>1, <1>2 DEF SessionRecords, UnusedRequest
  <1> HIDE DEF x, y
  <1>6. /\ session' \in [Sessions -> SessionRecords] /\ request' \in [Requests -> RequestRecords]
        /\ \A t \in Sessions : session'[t] = IF t = s THEN x ELSE session[t]
        /\ \A q \in Requests : request'[q] = IF q = r THEN y ELSE request[q]
    BY <1>3, <1>4, Replaced, Variables DEF IInv
  <1>7. TypeOK'
    BY <1>1, <1>6, Variables DEF IInv, TypeOK, SessionRecords, RequestRecords
  <1>8. SessionInv' /\ OneSession'
    <2>1. SessionIsSound(x, contextKey, generation)
      BY <1>1, <1>5 DEF SessionIsSound
    <2> QED BY <1>1, <1>6, <2>1, SessionsKept DEF Live
  <1>9. SlotInv'
    <2> SUFFICES ASSUME NEW t \in Sessions PROVE SlotIsSound(t)'
      BY DEF SlotInv
    <2>1. SlotIsSound(t) /\ session[t] \in SessionRecords
      BY SoundParts
    <2>2. CASE t = s
      BY <1>1, <1>5, <1>6, <2>2 DEF SlotIsSound
    <2>3. CASE t # s
      <3>1. session[t].slot # 0 => session[t].slot \in Requests /\ session[t].slot # r
        BY <1>5, <2>1, NumbersArePositive DEF SlotIsSound, SessionRecords
      <3> QED BY <1>6, <2>1, <2>3, <3>1 DEF SlotIsSound
    <2> QED BY <2>2, <2>3
  <1>10. RequestInv'
    <2> SUFFICES ASSUME NEW q \in Requests PROVE RequestIsSound(q)'
      BY DEF RequestInv
    <2>1. RequestIsSound(q) /\ request[q] \in RequestRecords /\ q # 0 /\ s # 0
      BY SoundParts, NumbersArePositive
    <2>2. CASE q = r
      BY <1>1, <1>5, <1>6, <2>1, <2>2 DEF RequestIsSound
    <2>3. CASE q # r
      <3>1. request[q].session # 0 => request[q].session \in Sessions
        BY <2>1, BoundaryConstants DEF Sessions, RequestRecords
      <3> QED BY <1>1, <1>5, <1>6, <2>1, <2>3, <3>1 DEF RequestIsSound
    <2> QED BY <2>2, <2>3
  <1>11. Onward
    <2>1. \A t \in Sessions : session[t].nextWallet \in Nat
      BY SoundParts DEF SessionRecords
    <2> QED BY <1>5, <1>6, <2>1 DEF Onward
  <1> QED BY <1>1, <1>7, <1>8, <1>9, <1>10, <1>11, FramesKept DEF IInv, RequestSignaturesAreExact

-----------------------------------------------------------------------------
(* approveRequest and rejectRequest *)

\* A step of one unanswered request that keeps its message, and asks the vault for
\* nothing but that message.
LEMMA RequestStepPreserves ==
    ASSUME IInv, NEW r \in Requests, NEW y \in RequestRecords,
           request' = [request EXCEPT ![r] = y],
           UNCHANGED <<contextKey, generation, preparing, session, sent>>,
           request[r].session # 0, request[r].step # "over", y.step # "over",
           y.session = request[r].session, y.message = request[r].message,
           y.executing <=> y.step # "none",
           vault' \subseteq Signatures,
           \A v \in vault' : v \in vault \/ (v.intact /\ v.current)
    PROVE  IInv'
  <1>1. /\ request' \in [Requests -> RequestRecords]
        /\ \A q \in Requests : request'[q] = IF q = r THEN y ELSE request[q]
    BY Replaced, Variables DEF IInv
  <1>2. TypeOK'
    BY <1>1, Variables DEF IInv, TypeOK, SessionRecords, RequestRecords, Signatures
  <1>3. SessionInv' /\ OneSession'
    BY DEF IInv, SessionInv, OneSession
  <1>4. SlotInv'
    <2> SUFFICES ASSUME NEW t \in Sessions PROVE SlotIsSound(t)'
      BY DEF SlotInv
    <2>1. SlotIsSound(t) /\ session[t] \in SessionRecords
      BY SoundParts
    <2>2. session[t].slot # 0 => session[t].slot \in Requests
      BY <2>1, NumbersArePositive DEF SessionRecords
    <2> QED BY <1>1, <2>1, <2>2 DEF SlotIsSound
  <1>5. RequestInv'
    <2> SUFFICES ASSUME NEW q \in Requests PROVE RequestIsSound(q)'
      BY DEF RequestInv
    <2>1. RequestIsSound(q) /\ RequestIsSound(r)
      BY SoundParts
    <2> QED BY <1>1, <2>1 DEF RequestIsSound
  <1>6. Onward
    <2>1. \A t \in Sessions : session[t].nextWallet \in Nat
      BY SoundParts DEF SessionRecords
    <2> QED BY <1>1, <2>1 DEF Onward
  <1>7. RequestSignaturesAreExact'
    BY DEF IInv, RequestSignaturesAreExact
  <1> QED BY <1>2, <1>3, <1>4, <1>5, <1>6, <1>7, FramesKept DEF IInv

\* A request that ends, answered or not, frees the slot if it still holds it.
LEMMA FinishKeepsSlots ==
    ASSUME IInv, NEW s \in Sessions, NEW r \in Requests, request[r].session = s,
           FinishRequest(r), NEW x \in SessionRecords, session' = [session EXCEPT ![s] = x],
           x.place = session[s].place, x.context = session[s].context,
           x.generation = session[s].generation, x.approval = session[s].approval,
           x.keys = session[s].keys, x.slot = SlotAfter(s, r),
           x.nextWallet \in {session[s].nextWallet, session[s].nextWallet + 1},
           UNCHANGED <<contextKey, generation, preparing, vault>>,
           sent' \in Seq(Frames)
    PROVE  /\ TypeOK' /\ SessionInv' /\ OneSession' /\ SlotInv' /\ RequestInv'
           /\ request'[r].step = "over" /\ Onward
  <1> DEFINE y == [request[r] EXCEPT !.executing = TRUE, !.step = "over", !.message = "wiped"]
  <1>1. /\ session[s] \in SessionRecords /\ SessionIsSound(session[s], contextKey, generation)
        /\ SlotIsSound(s) /\ session[s].nextWallet \in Nat
        /\ request[r] \in RequestRecords /\ RequestIsSound(r)
    BY SoundParts DEF SessionRecords
  <1>2. request' = [request EXCEPT ![r] = y] /\ y \in RequestRecords
    <2>1. request' = [request EXCEPT ![r] = y]
      BY Zenon DEF FinishRequest
    <2> QED BY <1>1, <2>1, RequestUpdates
  <1>3. /\ y.session = s /\ y.step = "over" /\ y.executing = TRUE /\ y.message = "wiped"
    BY <1>1 DEF RequestRecords
  <1> HIDE DEF y
  <1>4. /\ session' \in [Sessions -> SessionRecords] /\ request' \in [Requests -> RequestRecords]
        /\ \A t \in Sessions : session'[t] = IF t = s THEN x ELSE session[t]
        /\ \A q \in Requests : request'[q] = IF q = r THEN y ELSE request[q]
    BY <1>2, Replaced, Variables DEF IInv
  <1>5. TypeOK'
    BY <1>4, Variables DEF IInv, TypeOK, SessionRecords, RequestRecords, Frames
  <1>6. SessionInv' /\ OneSession'
    <2>1. SessionIsSound(x, contextKey, generation)
      <3>1. x.place # "unused"
        BY <1>1, NumbersArePositive DEF RequestIsSound
      <3> QED BY <1>1, <3>1 DEF SessionIsSound
    <2> QED BY <1>4, <2>1, SessionsKept DEF Live
  <1>7. x.slot \in {0, session[s].slot} /\ x.slot # r
    BY NumbersArePositive DEF SlotAfter
  <1>8. SlotInv'
    <2> SUFFICES ASSUME NEW t \in Sessions PROVE SlotIsSound(t)'
      BY DEF SlotInv
    <2>1. SlotIsSound(t) /\ session[t] \in SessionRecords
      BY SoundParts
    <2>2. session[t].slot # 0 => session[t].slot \in Requests
      BY <2>1, NumbersArePositive DEF SessionRecords
    <2>3. CASE t = s
      BY <1>4, <1>7, <2>1, <2>2, <2>3 DEF SlotIsSound
    <2>4. CASE t # s
      <3>1. session[t].slot # r
        BY <2>1, <2>4, NumbersArePositive DEF SlotIsSound
      <3> QED BY <1>4, <2>1, <2>2, <2>4, <3>1 DEF SlotIsSound
    <2> QED BY <2>3, <2>4
  <1>9. RequestInv'
    <2> SUFFICES ASSUME NEW q \in Requests PROVE RequestIsSound(q)'
      BY DEF RequestInv
    <2>1. RequestIsSound(q) /\ request[q] \in RequestRecords /\ s # 0
      BY SoundParts, NumbersArePositive
    <2>2. request[q].session # 0 => request[q].session \in Sessions
      BY <2>1, BoundaryConstants DEF Sessions, RequestRecords
    <2>3. CASE q = r
      BY <1>1, <1>3, <1>4, <2>1, <2>3 DEF RequestIsSound
    <2>4. CASE q # r
      BY <1>4, <2>1, <2>2, <2>4 DEF RequestIsSound, SlotAfter
    <2> QED BY <2>3, <2>4
  <1>10. Onward
    <2>1. \A t \in Sessions : session[t].nextWallet \in Nat
      BY SoundParts DEF SessionRecords
    <2> QED BY <1>1, <1>3, <1>4, <2>1 DEF Onward
  <1> QED BY <1>3, <1>4, <1>5, <1>6, <1>8, <1>9, <1>10

\* A request that is answered under the next number of its standing session.
LEMMA AnswerAndFinishPreserves ==
    ASSUME IInv, NEW s \in Sessions, NEW r \in Requests, request[r].session = s,
           SessionMatches(s), request[r].step # "over", NEW type \in {"ok", "err"},
           AnswerAndFinish(s, type, r), UNCHANGED <<contextKey, generation, preparing, vault>>
    PROVE  IInv'
  <1> DEFINE x == [session[s] EXCEPT !.nextWallet = session[s].nextWallet + 1,
                                     !.slot = SlotAfter(s, r)]
  <1>1. session[s] \in SessionRecords /\ session[s].nextWallet \in Nat /\ r \in 0..MaxRequests
    BY SoundParts, NumbersArePositive DEF SessionRecords
  <1>2. x \in SessionRecords
    <2>1. /\ SlotAfter(s, r) \in 0..MaxRequests /\ session[s].nextWallet + 1 \in Nat
          /\ 2 \in 2..(MaxFrames + 2) /\ 1 \in 1..(MaxFrames + 1)
      BY <1>1, BoundaryConstants, NumbersArePositive DEF SlotAfter, SessionRecords
    <2> QED BY <1>1, <2>1, NumberUpdates
  <1>3. session' = [session EXCEPT ![s] = x]
    BY Zenon DEF AnswerAndFinish
  <1>4. /\ x.place = session[s].place /\ x.context = session[s].context
        /\ x.generation = session[s].generation /\ x.approval = session[s].approval
        /\ x.keys = session[s].keys /\ x.slot = SlotAfter(s, r)
        /\ x.nextWallet = session[s].nextWallet + 1
    BY <1>1 DEF SessionRecords
  <1> HIDE DEF x
  <1>5. sent' \in Seq(Frames)
    <2>1. [session |-> s, sequence |-> session[s].nextWallet, type |-> type, request |-> r]
            \in Frames
      BY <1>1 DEF Frames
    <2>2. sent \in Seq(Frames)
      BY Variables DEF IInv
    <2> QED BY <2>1, <2>2, AppendProperties, Zenon DEF AnswerAndFinish, Answer
  <1>6. /\ TypeOK' /\ SessionInv' /\ OneSession' /\ SlotInv' /\ RequestInv'
        /\ request'[r].step = "over" /\ Onward
    <2>1. FinishRequest(r)
      BY DEF AnswerAndFinish
    <2>2. x.nextWallet \in {session[s].nextWallet, session[s].nextWallet + 1}
      BY <1>4
    <2> QED BY <1>2, <1>3, <1>4, <1>5, <2>1, <2>2, FinishKeepsSlots, Zenon
  <1>7. SentInv' /\ AnswersAreUnique'
    <2>1. session[s].place = "active" /\ Answer(s, type, r) /\ type \in {"pong", "ok", "err"}
      BY DEF SessionMatches, AnswerAndFinish
    <2>2. \A q \in Requests : request[q].step = "over" => request'[q].step = "over"
      BY <1>6 DEF Onward
    <2> QED BY <1>1, <1>2, <1>3, <1>4, <1>6, <2>1, <2>2, AnswerKeepsFrames, Zenon
  <1> QED BY <1>6, <1>7 DEF IInv, RequestSignaturesAreExact

\* A request that fails: with an error frame while its session stands.
LEMMA FailRequestPreserves ==
    ASSUME IInv, NEW s \in Sessions, NEW r \in Requests, request[r].session = s,
           request[r].step # "over", FailRequest(s, r),
           UNCHANGED <<contextKey, generation, preparing, vault>>
    PROVE  IInv'
  <1>1. CASE SessionMatches(s) /\ AnswerAndFinish(s, "err", r)
    BY <1>1, AnswerAndFinishPreserves
  <1>2. CASE /\ session' = [session EXCEPT ![s].slot = SlotAfter(s, r)]
             /\ FinishRequest(r) /\ UNCHANGED sent
    <2> DEFINE x == [session[s] EXCEPT !.slot = SlotAfter(s, r)]
    <2>1. session[s] \in SessionRecords
      BY SoundParts
    <2>2. x \in SessionRecords
      <3>1. /\ SlotAfter(s, r) \in 0..MaxRequests /\ 2 \in Nat
            /\ 2 \in 2..(MaxFrames + 2) /\ 1 \in 1..(MaxFrames + 1)
        BY <2>1, BoundaryConstants, NumbersArePositive DEF SlotAfter, SessionRecords
      <3> QED BY <2>1, <3>1, NumberUpdates
    <2>3. session' = [session EXCEPT ![s] = x]
      BY <1>2, Zenon
    <2>4. /\ x.place = session[s].place /\ x.context = session[s].context
          /\ x.generation = session[s].generation /\ x.approval = session[s].approval
          /\ x.keys = session[s].keys /\ x.slot = SlotAfter(s, r)
          /\ x.nextWallet = session[s].nextWallet
      BY <2>1 DEF SessionRecords
    <2> HIDE DEF x
    <2>5. sent' \in Seq(Frames)
      BY <1>2, Variables DEF IInv
    <2>6. /\ TypeOK' /\ SessionInv' /\ OneSession' /\ SlotInv' /\ RequestInv' /\ Onward
      <3>1. x.nextWallet \in {session[s].nextWallet, session[s].nextWallet + 1}
        BY <2>4
      <3>2. FinishRequest(r)
        BY <1>2
      <3> QED BY <2>2, <2>3, <2>4, <2>5, <3>1, <3>2, FinishKeepsSlots, Zenon
    <2> QED BY <1>2, <2>6, FramesKept DEF IInv, RequestSignaturesAreExact
  <1> QED BY <1>1, <1>2 DEF FailRequest

\* The request a token names waits in the slot of its session.
LEMMA BeginsWaiting ==
    ASSUME IInv, NEW s \in Sessions, NEW r \in Requests, MayBegin(s, r)
    PROVE  /\ request[r].session = s /\ request[r].session # 0 /\ request[r].step = "none"
           /\ SessionMatches(s)
  BY SoundParts, NumbersArePositive DEF MayBegin, SlotIsSound, RequestIsSound

\* The expiry of a waiting request, and the user's decision up to the vault's answer.
LEMMA RequestPreserves ==
    ASSUME IInv, NEW s \in Sessions, NEW r \in Requests,
           \/ ApproveRequest(s, r) \/ RejectRequest(s, r)
           \/ RequestPromptAnswered(s, r) \/ RequestContextVerified(s, r)
           \/ RequestSigned(s, r)
    PROVE  IInv'
  <1>1. /\ request[r] \in RequestRecords /\ RequestIsSound(r) /\ s # 0
        /\ vault \subseteq Signatures
    BY SoundParts, NumbersArePositive, Variables DEF IInv
  <1>2. ASSUME NEW st \in {"assert", "sign"}, request[r].session = s,
               request[r].step \in InProgress, request' = [request EXCEPT ![r].step = st],
               UNCHANGED <<contextKey, generation, preparing, session, sent>>,
               vault' \subseteq Signatures,
               \A v \in vault' : v \in vault \/ (v.intact /\ v.current)
        PROVE  IInv'
    <2> DEFINE y == [request[r] EXCEPT !.step = st]
    <2>1. y \in RequestRecords
      BY <1>1, RequestUpdates
    <2>2. request' = [request EXCEPT ![r] = y]
      BY <1>2, Zenon
    <2>3. /\ y.session = request[r].session /\ y.message = request[r].message
          /\ y.executing = request[r].executing /\ y.step = st
      BY <1>1 DEF RequestRecords
    <2>4. request[r].step # "over" /\ y.step # "over" /\ request[r].session # 0
      BY <1>1, <1>2, <2>3 DEF InProgress
    <2>5. y.executing <=> y.step # "none"
      BY <1>1, <1>2, <2>3 DEF RequestIsSound, InProgress
    <2> HIDE DEF y
    <2> QED BY <1>2, <2>1, <2>2, <2>3, <2>4, <2>5, RequestStepPreserves, Zenon
  <1>3. CASE ApproveRequest(s, r)
    <2>1. /\ request[r].session = s /\ request[r].session # 0 /\ request[r].step = "none"
          /\ SessionMatches(s) /\ UNCHANGED <<contextKey, generation, preparing, vault>>
      BY <1>3, BeginsWaiting DEF ApproveRequest
    <2>2. CASE AnswerAndFinish(s, "err", r)
      BY <2>1, <2>2, AnswerAndFinishPreserves
    <2>3. CASE /\ request' = [request EXCEPT ![r].executing = TRUE, ![r].step = "authorize"]
               /\ UNCHANGED <<session, sent>>
      <3> DEFINE y == [request[r] EXCEPT !.executing = TRUE, !.step = "authorize"]
      <3>1. y \in RequestRecords
        BY <1>1, RequestUpdates
      <3>2. request' = [request EXCEPT ![r] = y]
        BY <2>3, Zenon
      <3>3. /\ y.session = request[r].session /\ y.message = request[r].message
            /\ y.executing = TRUE /\ y.step = "authorize"
        BY <1>1 DEF RequestRecords
      <3> HIDE DEF y
      <3>4. request[r].step # "over" /\ y.step # "over" /\ (y.executing <=> y.step # "none")
        BY <2>1, <3>3
      <3>5. vault' \subseteq Signatures /\ \A v \in vault' : v \in vault \/ (v.intact /\ v.current)
        BY <1>1, <2>1
      <3>6. UNCHANGED <<contextKey, generation, preparing, session, sent>>
        BY <2>1, <2>3
      <3> QED BY <2>1, <3>1, <3>2, <3>3, <3>4, <3>5, <3>6, RequestStepPreserves, Zenon
    <2> QED BY <1>3, <2>2, <2>3 DEF ApproveRequest
  <1>4. CASE RejectRequest(s, r)
    BY <1>4, BeginsWaiting, AnswerAndFinishPreserves DEF RejectRequest
  <1>5. CASE RequestPromptAnswered(s, r)
    <2>1. /\ request[r].session = s /\ request[r].step \in InProgress
          /\ request[r].step # "over"
          /\ UNCHANGED <<contextKey, generation, preparing, vault>>
      BY <1>5 DEF RequestPromptAnswered, InProgress
    <2>2. CASE FailRequest(s, r)
      BY <2>1, <2>2, FailRequestPreserves
    <2>3. CASE /\ request' = [request EXCEPT ![r].step = "assert"]
               /\ UNCHANGED <<session, sent>>
      BY <1>1, <1>2, <2>1, <2>3
    <2> QED BY <1>5, <2>2, <2>3 DEF RequestPromptAnswered
  <1>6. CASE RequestContextVerified(s, r)
    <2>1. /\ request[r].session = s /\ request[r].step \in InProgress
          /\ request[r].step # "over"
          /\ UNCHANGED <<contextKey, generation, preparing>>
      BY <1>6 DEF RequestContextVerified, InProgress
    <2>2. CASE FailRequest(s, r) /\ UNCHANGED vault
      BY <2>1, <2>2, FailRequestPreserves
    <2>3. CASE /\ SessionMatches(s)
               /\ request' = [request EXCEPT ![r].step = "sign"]
               /\ vault' = vault \cup
                    {[kind |-> "request", id |-> r, intact |-> request[r].message = "live",
                      current |-> session[s].place = "active" /\ session[s].slot = r]}
               /\ UNCHANGED <<session, sent>>
      <3>1. session[s].place = "active" /\ session[s].slot = r
        BY <1>1, <2>1, <2>3 DEF RequestIsSound, SessionMatches
      <3>2. request[r].message = "live"
        BY <3>1, <1>1, SoundParts, NumbersArePositive DEF SlotIsSound
      <3>3. /\ vault' \subseteq Signatures
            /\ \A v \in vault' : v \in vault \/ (v.intact /\ v.current)
        <4> DEFINE w == [kind |-> "request", id |-> r, intact |-> TRUE, current |-> TRUE]
        <4>1. w \in Signatures /\ w.intact /\ w.current
          BY NumbersArePositive DEF Signatures
        <4>2. vault' = vault \cup {w}
          BY <2>3, <3>1, <3>2
        <4> HIDE DEF w
        <4> QED BY <1>1, <4>1, <4>2
      <3> QED BY <1>2, <2>1, <2>3, <3>3
    <2> QED BY <1>6, <2>2, <2>3 DEF RequestContextVerified
  <1>7. CASE RequestSigned(s, r)
    <2>1. /\ request[r].session = s /\ request[r].step # "over"
          /\ UNCHANGED <<contextKey, generation, preparing, vault>>
      BY <1>7 DEF RequestSigned
    <2>2. CASE FailRequest(s, r)
      BY <2>1, <2>2, FailRequestPreserves
    <2>3. CASE SessionMatches(s) /\ AnswerAndFinish(s, "ok", r)
      BY <2>1, <2>3, AnswerAndFinishPreserves
    <2> QED BY <1>7, <2>2, <2>3 DEF RequestSigned
  <1> QED BY <1>3, <1>4, <1>5, <1>6, <1>7

LEMMA RequestExpiresPreserves ==
    ASSUME IInv, NEW r \in Requests, RequestExpires(r)
    PROVE  IInv'
  <1> DEFINE y == [request[r] EXCEPT !.expired = TRUE]
  <1>1. /\ request[r] \in RequestRecords /\ RequestIsSound(r) /\ y \in RequestRecords
        /\ vault \subseteq Signatures
    BY SoundParts, RequestUpdates, Variables DEF IInv
  <1>2. /\ request' = [request EXCEPT ![r] = y]
        /\ UNCHANGED <<contextKey, generation, preparing, session, sent, vault>>
        /\ request[r].message = "live" /\ ~request[r].executing
    BY Zenon DEF RequestExpires
  <1>3. /\ y.session = request[r].session /\ y.message = request[r].message
        /\ y.executing = request[r].executing /\ y.step = request[r].step
    BY <1>1 DEF RequestRecords
  <1> HIDE DEF y
  <1>4. request[r].step = "none" /\ request[r].session # 0
    BY <1>1, <1>2 DEF RequestIsSound, UnusedRequest
  <1>5. y.executing <=> y.step # "none"
    BY <1>2, <1>3, <1>4
  <1>6. vault' \subseteq Signatures /\ \A v \in vault' : v \in vault \/ (v.intact /\ v.current)
    BY <1>1, <1>2
  <1>7. request[r].step # "over" /\ y.step # "over"
    BY <1>3, <1>4
  <1> QED BY <1>1, <1>2, <1>3, <1>4, <1>5, <1>6, <1>7, RequestStepPreserves, Zenon

-----------------------------------------------------------------------------
(* Theorems *)

\* The inductive invariant holds before the first method is called.
LEMMA InitIsInductive == Init => IInv
  <1> SUFFICES ASSUME Init PROVE IInv
    OBVIOUS
  <1>1. /\ \A s \in Sessions : session[s] = UnusedSession
        /\ \A r \in Requests : request[r] = UnusedRequest
        /\ generation = 0 /\ sent = <<>> /\ vault = {}
    BY DEF Init
  <1>2. TypeOK
    <2>1. 0 \in 0..MaxGeneration
      BY BoundaryConstants
    <2>2. session \in [Sessions -> SessionRecords] /\ request \in [Requests -> RequestRecords]
      BY UnusedTypes DEF Init
    <2>3. /\ sent \in Seq(Frames) /\ vault \subseteq Signatures
          /\ preparing \in [Calls -> [context : Contexts \cup {NoContext},
                                      generation : 0..MaxGeneration]]
      BY <2>1 DEF Init, Idle
    <2> QED BY <2>1, <2>2, <2>3, Variables DEF Init
  <1>3. OneSession /\ SessionInv /\ SlotInv
    <2>1. \A s \in Sessions :
            /\ session[s].place = "unused" /\ session[s].approval = "none"
            /\ session[s].keys = "none" /\ session[s].generation = 0
            /\ session[s].nextWallet = 2 /\ session[s].slot = 0
      BY <1>1 DEF UnusedSession
    <2> QED BY <1>1, <2>1 DEF OneSession, SessionInv, SessionIsSound, SlotInv, SlotIsSound,
         Live
  <1>4. RequestInv
    BY <1>1 DEF RequestInv, RequestIsSound, UnusedRequest
  <1>5. SentInv /\ AnswersAreUnique /\ RequestSignaturesAreExact
    BY <1>1 DEF SentInv, AnswersAreUnique, RequestSignaturesAreExact
  <1> QED BY <1>2, <1>3, <1>4, <1>5 DEF IInv

\* Each method, and each answer a method waits for, keeps the inductive invariant.
LEMMA NextPreserves == IInv /\ [Next]_vars => IInv'
  <1> SUFFICES ASSUME IInv, [Next]_vars PROVE IInv'
    OBVIOUS
  <1>1. ASSUME NEW c \in Contexts, SetContext(c) PROVE IInv'
    BY <1>1, DisposeAllPreserves DEF SetContext
  <1>2. CASE Reset
    BY <1>2, DisposeAllPreserves DEF Reset
  <1>3. ASSUME NEW c \in Calls, PrepareSession(c) PROVE IInv'
    <2>1. UNCHANGED <<contextKey, generation, session, request, sent, vault>>
      BY <1>3 DEF PrepareSession
    <2>2. preparing' \in [Calls -> [context : Contexts \cup {NoContext},
                                    generation : 0..MaxGeneration]]
      BY <1>3, Variables DEF PrepareSession, IInv
    <2> QED BY <2>1, <2>2 DEF IInv, TypeOK, OneSession, SessionInv, SlotInv, SlotIsSound,
         RequestInv, RequestIsSound, SentInv, FrameIsSound, RequestSignaturesAreExact,
         AnswersAreUnique
  <1>4. ASSUME NEW s \in Sessions,
               \/ SessionExpires(s) \/ ApproveSession(s) \/ CloseSession(s) \/ ServerEvent(s)
               \/ FrameCloses(s) \/ FrameIgnored(s) \/ FrameAnswered(s) \/ FrameRequests(s)
               \/ ResumePairing(s)
        PROVE  IInv'
    <2>1. CASE \/ SessionExpires(s) \/ ApproveSession(s)
               \/ PairingPromptAnswered(s) \/ PairingContextVerified(s)
      BY <2>1, PairingPreserves, Zenon
    <2>2. CASE PairingSigned(s)
      BY <2>2, PairingSignedPreserves, Zenon
    <2>3. CASE CloseSession(s) \/ FrameCloses(s)
      BY <2>3, ClosingPreserves, Zenon
    <2>4. CASE ServerEvent(s) \/ FrameIgnored(s)
      BY <2>4, NumberedPreserves, Zenon
    <2>5. CASE FrameAnswered(s) \/ FrameRequests(s)
      BY <2>5, FrameAnsweredPreserves, FrameRequestsPreserves, Zenon
    <2> QED BY <1>4, <2>1, <2>2, <2>3, <2>4, <2>5 DEF ResumePairing
  <1>5. ASSUME NEW r \in Requests, RequestExpires(r) PROVE IInv'
    BY <1>5, RequestExpiresPreserves
  <1>6. ASSUME NEW c \in Calls, ContextVerified(c) PROVE IInv'
    BY <1>6, ContextVerifiedPreserves
  <1>7. ASSUME NEW s \in Sessions, NEW r \in Requests,
               ApproveRequest(s, r) \/ RejectRequest(s, r) \/ ResumeRequest(s, r)
        PROVE  IInv'
    BY <1>7, RequestPreserves DEF ResumeRequest
  <1>8. CASE UNCHANGED vars
    BY <1>8 DEF vars, IInv, TypeOK, OneSession, SessionInv, SlotInv, SlotIsSound, RequestInv,
       RequestIsSound, SentInv, FrameIsSound, RequestSignaturesAreExact, AnswersAreUnique
  <1> QED BY <1>1, <1>2, <1>3, <1>4, <1>5, <1>6, <1>7, <1>8 DEF Next

LEMMA Inductive == Spec => []IInv
  BY InitIsInductive, NextPreserves, PTL DEF Spec

\* The boundary's maps, counters, frames and vault calls keep their types: a slot
\* names a request, a frame its session, and the frame counters stay in range.
THEOREM TypeCorrect == Spec => []TypeOK
  <1>1. IInv => TypeOK
    BY DEF IInv
  <1> QED BY <1>1, Inductive, PTL

\* The wallet holds one session at a time, whichever of the three maps it is in and
\* however many prepareSession calls raced for the slot.
THEOREM OneSessionAtATime == Spec => []OneSession
  <1>1. IInv => OneSession
    BY DEF IInv
  <1> QED BY <1>1, Inductive, PTL

\* Key material lives exactly as long as its session, on every path out of it.
THEOREM KeysEndWithTheirSession == Spec => []KeysLiveWithTheirSession
  <1>1. IInv => KeysLiveWithTheirSession
    BY DEF IInv, SessionInv, SessionIsSound, KeysLiveWithTheirSession
  <1> QED BY <1>1, Inductive, PTL

\* The vault signs the reviewed bytes of a request that still occupies the slot of a
\* standing session, and nothing else.
THEOREM RequestSignatures == Spec => []RequestSignaturesAreExact
  <1>1. IInv => RequestSignaturesAreExact
    BY DEF IInv
  <1> QED BY <1>1, Inductive, PTL

\* No two wallet frames of a session share a number, and no request is answered twice.
THEOREM UniqueAnswers == Spec => []AnswersAreUnique
  <1>1. IInv => AnswersAreUnique
    BY DEF IInv
  <1> QED BY <1>1, Inductive, PTL

\* What FramesOnlyForLiveSession says of one step.
NewFrameIsForLiveSession ==
    sent' # sent =>
        LET s == sent'[Len(sent')].session
        IN  session'[s].place = "active" /\ session'[s].context = contextKey'

\* An appended frame of a session that is active under the current context, and
\* that the step leaves so.
LEMMA FrameForLiveSession ==
    ASSUME IInv, NEW s \in Sessions, NEW f \in Frames, sent' = Append(sent, f), f.session = s,
           session'[s].place = "active", session'[s].context = contextKey'
    PROVE  NewFrameIsForLiveSession
  <1>1. sent \in Seq(Frames)
    BY Variables DEF IInv
  <1>2. sent'[Len(sent')] = f
    BY <1>1, AppendProperties
  <1> QED BY <1>2 DEF NewFrameIsForLiveSession

\* The answers of a request and of processFrame.
LEMMA AnswerForLiveSession ==
    ASSUME IInv, NEW s \in Sessions, SessionMatches(s), NEW q \in 0..MaxRequests,
           NEW type \in {"pong", "ok", "err"}, Answer(s, type, q), contextKey' = contextKey,
           session'[s].place = session[s].place, session'[s].context = session[s].context
    PROVE  NewFrameIsForLiveSession
  <1> DEFINE f == [session |-> s, sequence |-> session[s].nextWallet, type |-> type,
                   request |-> q]
  <1>1. f \in Frames /\ f.session = s
    BY SoundParts DEF SessionRecords, Frames
  <1>2. sent' = Append(sent, f)
    BY DEF Answer
  <1> HIDE DEF f
  <1> QED BY <1>1, <1>2, FrameForLiveSession, Zenon DEF SessionMatches

LEMMA FinishForLiveSession ==
    ASSUME IInv, NEW s \in Sessions, NEW r \in Requests, contextKey' = contextKey,
           \/ FailRequest(s, r)
           \/ SessionMatches(s) /\ \E type \in {"ok", "err"} : AnswerAndFinish(s, type, r)
    PROVE  NewFrameIsForLiveSession
  <1>1. ASSUME NEW type \in {"ok", "err"}, SessionMatches(s), AnswerAndFinish(s, type, r)
        PROVE  NewFrameIsForLiveSession
    <2>1. session'[s].place = session[s].place /\ session'[s].context = session[s].context
      BY <1>1, Variables DEF IInv, AnswerAndFinish, SessionRecords
    <2>2. r \in 0..MaxRequests /\ type \in {"pong", "ok", "err"} /\ Answer(s, type, r)
      BY <1>1, NumbersArePositive DEF AnswerAndFinish
    <2> QED BY <1>1, <2>1, <2>2, AnswerForLiveSession, Zenon
  <1>2. CASE UNCHANGED sent
    BY <1>2 DEF NewFrameIsForLiveSession
  <1>3. "err" \in {"ok", "err"}
    OBVIOUS
  <1> QED BY <1>1, <1>2, <1>3, Zenon DEF FailRequest

\* Every step that sends a frame sends it for a session that stands.
LEMMA NextSendsForLiveSession == IInv /\ [Next]_vars => NewFrameIsForLiveSession
  <1> SUFFICES ASSUME IInv, [Next]_vars, sent' # sent PROVE NewFrameIsForLiveSession
    BY DEF NewFrameIsForLiveSession
  <1>1. ASSUME NEW s \in Sessions, PairingSigned(s) PROVE NewFrameIsForLiveSession
    <2> DEFINE f == [session |-> s, sequence |-> 1, type |-> "approve", request |-> 0]
    <2>1. ApprovalIsCurrent(s) /\ session' = Promoted(s) /\ sent' = Append(sent, f)
          /\ contextKey' = contextKey
      BY <1>1 DEF PairingSigned
    <2>2. f \in Frames /\ f.session = s
      BY NumbersArePositive DEF Frames
    <2>3. session'[s].place = "active" /\ session'[s].context = session[s].context
      BY <2>1, Variables DEF IInv, Promoted, SessionRecords
    <2> HIDE DEF f
    <2> QED BY <2>1, <2>2, <2>3, FrameForLiveSession DEF ApprovalIsCurrent
  <1>2. ASSUME NEW s \in Sessions, FrameAnswered(s) PROVE NewFrameIsForLiveSession
    <2>1. PICK type \in {"pong", "err"} : Answer(s, type, 0)
      BY <1>2 DEF FrameAnswered
    <2>2. SessionMatches(s) /\ contextKey' = contextKey
      BY <1>2 DEF FrameAnswered, FrameArrives
    <2>3. session'[s].place = session[s].place /\ session'[s].context = session[s].context
      BY <1>2, Variables DEF IInv, FrameAnswered, SessionRecords
    <2>4. type \in {"pong", "ok", "err"} /\ 0 \in 0..MaxRequests
      BY NumbersArePositive
    <2> QED BY <2>1, <2>2, <2>3, <2>4, AnswerForLiveSession, Zenon
  <1>3. ASSUME NEW s \in Sessions, NEW r \in Requests,
               ApproveRequest(s, r) \/ RejectRequest(s, r) \/ ResumeRequest(s, r)
        PROVE  NewFrameIsForLiveSession
    <2>1. contextKey' = contextKey
      BY <1>3 DEF ApproveRequest, RejectRequest, ResumeRequest, RequestPromptAnswered,
         RequestContextVerified, RequestSigned
    <2>2. \/ FailRequest(s, r)
          \/ SessionMatches(s) /\ \E type \in {"ok", "err"} : AnswerAndFinish(s, type, r)
      BY <1>3 DEF ApproveRequest, RejectRequest, ResumeRequest, RequestPromptAnswered,
         RequestContextVerified, RequestSigned, MayBegin
    <2> QED BY <2>1, <2>2, FinishForLiveSession, Zenon
  <1>4. ASSUME NEW s \in Sessions,
               \/ SessionExpires(s) \/ ApproveSession(s) \/ CloseSession(s) \/ ServerEvent(s)
               \/ FrameCloses(s) \/ FrameIgnored(s) \/ FrameRequests(s)
               \/ PairingPromptAnswered(s) \/ PairingContextVerified(s)
        PROVE  FALSE
    BY <1>4 DEF SessionExpires, ApproveSession, CloseSession, ServerEvent, FrameCloses,
       FrameIgnored, FrameRequests, PairingPromptAnswered, PairingContextVerified
  <1>5. CASE \/ \E c \in Contexts : SetContext(c)
             \/ Reset
             \/ \E c \in Calls : PrepareSession(c) \/ ContextVerified(c)
             \/ \E r \in Requests : RequestExpires(r)
             \/ UNCHANGED vars
    BY <1>5 DEF SetContext, Reset, PrepareSession, ContextVerified, RequestExpires, vars
  <1> QED BY <1>1, <1>2, <1>3, <1>4, <1>5, Zenon DEF Next, ResumePairing

\* A frame leaves only for the session that stands under the current context: no
\* answer of a prompt, of the context check or of the vault outlives its session.
THEOREM FramesServeLiveSession == Spec => FramesOnlyForLiveSession
  <1>1. IInv /\ [Next]_vars => [NewFrameIsForLiveSession]_vars
    BY NextSendsForLiveSession
  <1> QED BY <1>1, Inductive, PTL
      DEF Spec, FramesOnlyForLiveSession, NewFrameIsForLiveSession
=============================================================================
