------------------------ MODULE IrohaConnectBoundary ------------------------
(***************************************************************************)
(* The class IrohaConnectBoundary of src/electron/irohaConnectBoundary.ts: *)
(* the preload object that pairs the wallet with a dApp and answers its    *)
(* signing requests.  The renderer may call any method at any time; a      *)
(* method that awaits (the native prompt, the check of the wallet context, *)
(* the vault's signature) resumes as an action of its own, and everything  *)
(* else may run in between.                                                *)
(***************************************************************************)
EXTENDS Integers, Sequences

CONSTANTS Contexts,        \* wallet contexts the renderer may select
          NoContext,       \* the empty context key
          Calls,           \* prepareSession calls that may be in flight together
          MaxSessions,     \* bound: sessions ever prepared
          MaxRequests,     \* bound: signing requests ever presented
          MaxFrames,       \* bound: frames a session receives
          MaxGeneration    \* bound: context changes and resets

ASSUME BoundaryConstants ==
    /\ NoContext \notin Contexts
    /\ MaxSessions \in Nat /\ MaxRequests \in Nat /\ MaxFrames \in Nat
    /\ MaxGeneration \in Nat

VARIABLES contextKey,      \* #currentContextKey
          generation,      \* #generation
          preparing,       \* the prepareSession calls awaiting assertContext
          session,         \* #pendingSessions, #authorizingSessions and #sessions
          request,         \* the requests the slots hold or held
          sent,            \* wallet frames handed to the renderer, oldest first
          vault            \* calls of the vault's sign, with what they signed

vars == <<contextKey, generation, preparing, session, request, sent, vault>>

Sessions == 1..MaxSessions
Requests == 1..MaxRequests
Live == {"pending", "authorizing", "active"}

UnusedSession ==
    [place |-> "unused", context |-> NoContext, generation |-> 0, approval |-> "none",
     keys |-> "none", preimage |-> "none", expired |-> FALSE, slot |-> 0,
     nextApp |-> 2, nextServer |-> 1, nextWallet |-> 2]

UnusedRequest ==
    [session |-> 0, executing |-> FALSE, step |-> "none", message |-> "none",
     expired |-> FALSE]

Idle == [context |-> NoContext, generation |-> 0]

TypeOK ==
    /\ contextKey \in Contexts \cup {NoContext}
    /\ generation \in 0..MaxGeneration
    /\ preparing \in [Calls -> [context : Contexts \cup {NoContext},
                                generation : 0..MaxGeneration]]
    /\ session \in [Sessions ->
         [place : Live \cup {"unused", "gone"}, context : Contexts \cup {NoContext},
          generation : 0..MaxGeneration,
          approval : {"none", "authorize", "assert", "sign", "over"},
          keys : {"none", "live", "wiped"}, preimage : {"none", "live", "wiped"},
          expired : BOOLEAN, slot : 0..MaxRequests,
          nextApp : 2..(MaxFrames + 2), nextServer : 1..(MaxFrames + 1),
          nextWallet : Nat]]
    /\ request \in [Requests ->
         [session : 0..MaxSessions, executing : BOOLEAN,
          step : {"none", "authorize", "assert", "sign", "over"},
          message : {"none", "live", "wiped"}, expired : BOOLEAN]]
    /\ sent \in Seq([session : Sessions, sequence : Nat, type : {"approve", "pong", "ok", "err"},
                     request : 0..MaxRequests])
    /\ vault \subseteq [kind : {"session", "request"}, id : Nat, intact : BOOLEAN,
                        current : BOOLEAN]

Init ==
    /\ contextKey = NoContext /\ generation = 0
    /\ preparing = [c \in Calls |-> Idle]
    /\ session = [s \in Sessions |-> UnusedSession]
    /\ request = [r \in Requests |-> UnusedRequest]
    /\ sent = <<>> /\ vault = {}

-----------------------------------------------------------------------------
\* The checks every resumed method repeats.
SlotAvailable == \A s \in Sessions : session[s].place \notin Live

ApprovalIsCurrent(s) ==
    session[s].generation = generation /\ session[s].context = contextKey

\* Faulty: only the context key is compared, so a closed session still answers.
SameContextOnly(s) == session[s].context = contextKey

\* #requireSessionMatches
SessionMatches(s) == session[s].context = contextKey /\ session[s].place = "active"

\* #disposeAll: every map is emptied, every key, preimage and held message is wiped.
Disposed(s) ==
    IF session[s].place \in Live
    THEN [session[s] EXCEPT !.place = "gone", !.keys = "wiped", !.preimage = "wiped",
                            !.slot = 0]
    ELSE session[s]

DisposeAll ==
    /\ session' = [s \in Sessions |-> Disposed(s)]
    /\ request' = [r \in Requests |->
         IF \E s \in Sessions : session[s].place = "active" /\ session[s].slot = r
         THEN [request[r] EXCEPT !.message = "wiped"] ELSE request[r]]

SetContext(c) ==
    /\ c # contextKey /\ generation < MaxGeneration
    /\ generation' = generation + 1 /\ contextKey' = c
    /\ DisposeAll
    /\ UNCHANGED <<preparing, sent, vault>>

Reset ==
    /\ generation < MaxGeneration
    /\ generation' = generation + 1 /\ contextKey' = NoContext
    /\ DisposeAll
    /\ UNCHANGED <<preparing, sent, vault>>

-----------------------------------------------------------------------------
(* prepareSession *)

\* Up to the await: the context is the current one and no session is held.
PrepareSession(c) ==
    /\ preparing[c] = Idle
    /\ contextKey # NoContext /\ SlotAvailable
    /\ preparing' = [preparing EXCEPT ![c] = [context |-> contextKey,
                                              generation |-> generation]]
    /\ UNCHANGED <<contextKey, generation, session, request, sent, vault>>

\* Faulty: the slot is not looked at again after the await.
PreparationIsCurrentButUnslotted(c) ==
    preparing[c].generation = generation /\ preparing[c].context = contextKey

\* The checks after the await.
PreparationIsCurrent(c) ==
    /\ preparing[c].generation = generation /\ preparing[c].context = contextKey
    /\ SlotAvailable

ContextVerified(c) ==
    /\ preparing[c] # Idle
    /\ preparing' = [preparing EXCEPT ![c] = Idle]
    /\ \/ \* the context check rejected, or a check after it did
          UNCHANGED session
       \/ /\ PreparationIsCurrent(c)
          /\ \E s \in Sessions :
               /\ session[s].place = "unused"
               /\ \A t \in 1..(s - 1) : session[t].place # "unused"
               /\ session' = [session EXCEPT ![s] =
                    [UnusedSession EXCEPT !.place = "pending", !.context = contextKey,
                       !.generation = generation, !.keys = "live", !.preimage = "live"]]
    /\ UNCHANGED <<contextKey, generation, request, sent, vault>>

\* Two minutes pass without an approval.
SessionExpires(s) ==
    /\ session[s].place = "pending" /\ ~session[s].expired
    /\ session' = [session EXCEPT ![s].expired = TRUE]
    /\ UNCHANGED <<contextKey, generation, preparing, request, sent, vault>>

-----------------------------------------------------------------------------
(* approveSession *)

\* The finally block without promotion.
AbandonApproval(s) ==
    session' = [session EXCEPT
        ![s].place = IF @ = "authorizing" \/ @ = "pending" THEN "gone" ELSE @,
        ![s].approval = "over", ![s].keys = "wiped", ![s].preimage = "wiped"]

\* The approval token is consumed before the first await.
ApproveSession(s) ==
    /\ session[s].place = "pending"
    /\ IF session[s].expired \/ ~ApprovalIsCurrent(s)
       THEN AbandonApproval(s)
       ELSE session' = [session EXCEPT ![s].place = "authorizing",
                                       ![s].approval = "authorize"]
    /\ UNCHANGED <<contextKey, generation, preparing, request, sent, vault>>

\* The native prompt answers; a refusal and a failed prompt both end the approval.
PairingPromptAnswered(s) ==
    /\ session[s].approval = "authorize"
    /\ \/ AbandonApproval(s)
       \/ /\ ApprovalIsCurrent(s)
          /\ session' = [session EXCEPT ![s].approval = "assert"]
    /\ UNCHANGED <<contextKey, generation, preparing, request, sent, vault>>

\* The context check answers, and the preimage is handed to the vault.
PairingContextVerified(s) ==
    /\ session[s].approval = "assert"
    /\ \/ AbandonApproval(s) /\ UNCHANGED vault
       \/ /\ session[s].context = contextKey
          /\ session' = [session EXCEPT ![s].approval = "sign"]
          /\ vault' = vault \cup
               {[kind |-> "session", id |-> s, intact |-> session[s].preimage = "live",
                 current |-> ApprovalIsCurrent(s)]}
    /\ UNCHANGED <<contextKey, generation, preparing, request, sent>>

Promoted(s) ==
    [session EXCEPT ![s].place = "active", ![s].approval = "over", ![s].preimage = "wiped"]

\* Faulty: the signature is used although the pairing was disposed meanwhile.
PairingSignedUnchecked(s) ==
    /\ session[s].approval = "sign"
    /\ \/ AbandonApproval(s) /\ UNCHANGED sent
       \/ /\ session' = Promoted(s)
          /\ sent' = Append(sent, [session |-> s, sequence |-> 1, type |-> "approve",
                                   request |-> 0])
    /\ UNCHANGED <<contextKey, generation, preparing, request, vault>>

\* The vault answers; a session still current becomes active.
PairingSigned(s) ==
    /\ session[s].approval = "sign"
    /\ \/ AbandonApproval(s) /\ UNCHANGED sent
       \/ /\ ApprovalIsCurrent(s)
          /\ session' = Promoted(s)
          /\ sent' = Append(sent, [session |-> s, sequence |-> 1, type |-> "approve",
                                   request |-> 0])
    /\ UNCHANGED <<contextKey, generation, preparing, request, vault>>

-----------------------------------------------------------------------------
(* closeSession and processFrame *)

Closed(s) ==
    [session EXCEPT ![s].place = "gone", ![s].slot = 0, ![s].keys = "wiped"]

WipedSlot(s) ==
    IF session[s].slot = 0 THEN request
    ELSE [request EXCEPT ![session[s].slot].message = "wiped"]

CloseSession(s) ==
    /\ session[s].place = "active"
    /\ session' = Closed(s) /\ request' = WipedSlot(s)
    /\ UNCHANGED <<contextKey, generation, preparing, sent, vault>>

FrameArrives(s) ==
    /\ SessionMatches(s)
    /\ session[s].nextApp + session[s].nextServer < MaxFrames + 3

\* Faulty: the expected server number runs backwards.
ServerEventBackwards(s) ==
    /\ FrameArrives(s)
    /\ session' = [session EXCEPT ![s].nextServer = @ - 1]
    /\ UNCHANGED <<contextKey, generation, preparing, request, sent, vault>>

\* A frame of the relay server itself, in sequence.
ServerEvent(s) ==
    /\ FrameArrives(s)
    /\ session' = [session EXCEPT ![s].nextServer = @ + 1]
    /\ UNCHANGED <<contextKey, generation, preparing, request, sent, vault>>

Answer(s, type, r) ==
    sent' = Append(sent, [session |-> s, sequence |-> session[s].nextWallet,
                          type |-> type, request |-> r])

\* The next frame of the app: closed, ignored or unreadable (all consume its
\* number), answered at once (ping, busy, denied, empty, refused), or a request.
FrameCloses(s) ==
    /\ FrameArrives(s)
    /\ session' = [Closed(s) EXCEPT ![s].nextApp = @ + 1] /\ request' = WipedSlot(s)
    /\ UNCHANGED <<contextKey, generation, preparing, sent, vault>>

FrameIgnored(s) ==
    /\ FrameArrives(s)
    /\ session' = [session EXCEPT ![s].nextApp = @ + 1]
    /\ UNCHANGED <<contextKey, generation, preparing, request, sent, vault>>

FrameAnswered(s) ==
    /\ FrameArrives(s)
    /\ \E type \in {"pong", "err"} : Answer(s, type, 0)
    /\ session' = [session EXCEPT ![s].nextApp = @ + 1, ![s].nextWallet = @ + 1]
    /\ UNCHANGED <<contextKey, generation, preparing, request, vault>>

FrameRequests(s) ==
    /\ FrameArrives(s) /\ session[s].slot = 0
    /\ \E r \in Requests :
         /\ request[r] = UnusedRequest
         /\ \A q \in 1..(r - 1) : request[q] # UnusedRequest
         /\ session' = [session EXCEPT ![s].nextApp = @ + 1, ![s].slot = r]
         /\ request' = [request EXCEPT ![r].session = s, ![r].message = "live"]
    /\ UNCHANGED <<contextKey, generation, preparing, sent, vault>>

RequestExpires(r) ==
    /\ request[r].message = "live" /\ ~request[r].executing /\ ~request[r].expired
    /\ request' = [request EXCEPT ![r].expired = TRUE]
    /\ UNCHANGED <<contextKey, generation, preparing, session, sent, vault>>

-----------------------------------------------------------------------------
(* approveRequest and rejectRequest *)

\* #beginRequestExecution: the token names the request waiting in this slot.
MayBegin(s, r) ==
    /\ SessionMatches(s)
    /\ session[s].slot = r /\ ~request[r].executing

\* #finishRequest
FinishRequest(r) ==
    request' = [request EXCEPT ![r].executing = TRUE, ![r].step = "over",
                               ![r].message = "wiped"]

\* Faulty: the slot keeps the request it has answered.
SlotKept(s, r) == session[s].slot

\* A slot that was disposed or refilled meanwhile is left alone.
SlotAfter(s, r) == IF session[s].slot = r THEN 0 ELSE session[s].slot

\* Faulty: the answer uses the next number without taking it.
AnswerWithoutNumber(s, type, r) ==
    /\ Answer(s, type, r)
    /\ session' = [session EXCEPT ![s].slot = SlotAfter(s, r)]
    /\ FinishRequest(r)

AnswerAndFinish(s, type, r) ==
    /\ Answer(s, type, r)
    /\ session' = [session EXCEPT ![s].nextWallet = @ + 1, ![s].slot = SlotAfter(s, r)]
    /\ FinishRequest(r)

\* The catch block: an error frame if the session still stands, nothing otherwise.
FailRequest(s, r) ==
    \/ SessionMatches(s) /\ AnswerAndFinish(s, "err", r)
    \/ /\ ~SessionMatches(s)
       /\ session' = [session EXCEPT ![s].slot = SlotAfter(s, r)]
       /\ FinishRequest(r)
       /\ UNCHANGED sent

ApproveRequest(s, r) ==
    /\ MayBegin(s, r)
    /\ IF request[r].expired
       THEN AnswerAndFinish(s, "err", r)
       ELSE /\ request' = [request EXCEPT ![r].executing = TRUE, ![r].step = "authorize"]
            /\ UNCHANGED <<session, sent>>
    /\ UNCHANGED <<contextKey, generation, preparing, vault>>

RejectRequest(s, r) ==
    /\ MayBegin(s, r)
    /\ AnswerAndFinish(s, "err", r)
    /\ UNCHANGED <<contextKey, generation, preparing, vault>>

\* The native prompt answers: refused or failed, or the user agrees.
RequestPromptAnswered(s, r) ==
    /\ request[r].session = s /\ request[r].step = "authorize"
    /\ \/ FailRequest(s, r)
       \/ /\ SessionMatches(s)
          /\ request' = [request EXCEPT ![r].step = "assert"]
          /\ UNCHANGED <<session, sent>>
    /\ UNCHANGED <<contextKey, generation, preparing, vault>>

\* The context check answers; the message is copied and handed to the vault.
RequestContextVerified(s, r) ==
    /\ request[r].session = s /\ request[r].step = "assert"
    /\ \/ FailRequest(s, r) /\ UNCHANGED vault
       \/ /\ SessionMatches(s)
          /\ request' = [request EXCEPT ![r].step = "sign"]
          /\ vault' = vault \cup
               {[kind |-> "request", id |-> r, intact |-> request[r].message = "live",
                 current |-> session[s].place = "active" /\ session[s].slot = r]}
          /\ UNCHANGED <<session, sent>>
    /\ UNCHANGED <<contextKey, generation, preparing>>

RequestSigned(s, r) ==
    /\ request[r].session = s /\ request[r].step = "sign"
    /\ \/ FailRequest(s, r)
       \/ SessionMatches(s) /\ AnswerAndFinish(s, "ok", r)
    /\ UNCHANGED <<contextKey, generation, preparing, vault>>

\* What the native prompt, the context check and the vault owe an approval.
ResumePairing(s) ==
    PairingPromptAnswered(s) \/ PairingContextVerified(s) \/ PairingSigned(s)

ResumeRequest(s, r) ==
    RequestPromptAnswered(s, r) \/ RequestContextVerified(s, r) \/ RequestSigned(s, r)

Next ==
    \/ \E c \in Contexts : SetContext(c)
    \/ Reset
    \/ \E c \in Calls : PrepareSession(c)
    \/ \E s \in Sessions :
         \/ SessionExpires(s) \/ ApproveSession(s) \/ CloseSession(s) \/ ServerEvent(s)
         \/ FrameCloses(s) \/ FrameIgnored(s) \/ FrameAnswered(s) \/ FrameRequests(s)
         \/ ResumePairing(s)
    \/ \E r \in Requests : RequestExpires(r)
    \/ \E c \in Calls : ContextVerified(c)
    \/ \E s \in Sessions, r \in Requests :
         ApproveRequest(s, r) \/ RejectRequest(s, r) \/ ResumeRequest(s, r)

Spec == Init /\ [][Next]_vars

\* The user answers an open prompt, and the endpoint check and the vault settle.
FairSpec ==
    /\ Spec
    /\ \A s \in Sessions : WF_vars(ResumePairing(s))
    /\ \A s \in Sessions, r \in Requests : WF_vars(ResumeRequest(s, r))

-----------------------------------------------------------------------------
\* The wallet holds one session at a time, in whichever of the three maps, however
\* many prepareSession calls raced for the slot.
OneSession == \A s, t \in Sessions :
    session[s].place \in Live /\ session[t].place \in Live => s = t

\* Key material lives exactly as long as its session: no live session holds keys a
\* dispose has wiped, and no pairing or session that ended leaves keys behind.
KeysLiveWithTheirSession == \A s \in Sessions :
    session[s].keys = "live" <=> session[s].place \in Live

\* The vault signs a request only while its session stands and the request still
\* occupies the slot, and it signs the reviewed bytes, never a wiped buffer.
RequestSignaturesAreExact ==
    \A v \in vault : v.kind = "request" => v.intact /\ v.current

\* The wallet's frames of a session carry increasing numbers (the numbers the
\* frame encryption derives its nonces from), and a request is answered once.
AnswersAreUnique == \A i, j \in DOMAIN sent :
    i < j /\ sent[i].session = sent[j].session =>
        /\ sent[i].sequence < sent[j].sequence
        /\ sent[i].request # 0 => sent[i].request # sent[j].request

\* A frame leaves only for the session that stands under the current context.
FramesOnlyForLiveSession ==
    [][sent' # sent =>
         LET s == sent'[Len(sent')].session
         IN  session'[s].place = "active" /\ session'[s].context = contextKey']_vars

\* An approval in flight ends and frees the slot it was given; a request never
\* stays in execution.
RequestsSettle == \A r \in Requests :
    request[r].executing ~>
        /\ request[r].step = "over" /\ request[r].message = "wiped"
        /\ \A s \in Sessions : session[s].slot # r

\* tests/irohaConnectBoundary.spec.ts:544 "invalidates pending pairing when its
\* socket generation closes, even on the same wallet context" expects that the
\* vault is never asked to sign for a pairing whose generation has closed.
PairingSignaturesAreCurrent ==
    \A v \in vault : v.kind = "session" => v.intact /\ v.current
=============================================================================
