----------------------------- MODULE ResumeFlow -----------------------------
(***************************************************************************)
(* The signing flow: Engine.Begin, Complete, CompleteError and drive of    *)
(* internal/flow/flow.go, under the handlers of internal/httpapi/          *)
(* service.go that call them, over the store of SessionStore.              *)
(*                                                                         *)
(* A request is one call of POST /v1/sign/complete or of GET               *)
(* /oauth/cleverbase/callback: it presents one OAuth state and runs on a   *)
(* goroutine of its own.  Its program counter names the next lock-section  *)
(* of the store it enters; what it computes between two of them touches    *)
(* only its locals and is part of the action that follows.  A browser may  *)
(* present the same state any number of times, so requests share tokens.   *)
(***************************************************************************)
EXTENDS SessionStore, Sequences

CONSTANTS
  Requests,       \* the completion requests
  Budget,         \* requestBudget: the longest a request runs
  MaxTime,        \* bound: the last instant of the clock
  SdkChecksState  \* whether the SDK rejects a state its handle did not emit

ASSUME FlowAssumption ==
  /\ Budget \in Nat
  /\ MaxTime \in Nat
  /\ SdkChecksState \in BOOLEAN

VARIABLES
  begun,      \* correlation ID -> progress of its handleStart
  token,      \* request -> the OAuth state it presents (never changes)
  pc,         \* request -> its next step
  startedAt,  \* request -> when it was looked up
  handle,     \* request -> the SDK handle it works with, res.Handle in drive
  result,     \* request -> its completeResult and error
  spent       \* history: correlation ID -> the handles resumed, in order

requestVars == <<token, pc, startedAt, handle, result>>
vars == <<session, byID, byState, clock, begun, requestVars, spent>>

\* The program counters at which a request owns the claim of its session.
Driving == {"resume", "perform_http", "redirect", "done", "failed", "malformed", "finalize"}

\* ... and those of a request past its lookup and not yet answered.
Running == Driving \cup {"consume", "restatus", "view"}

Errors == {"", "unknown_state", "terminal", "resuming", "internal", "view"}

Result ==
  [ status : Status,
    url    : 0..MaxStep,
    err    : Errors,
    named  : BOOLEAN ]  \* the correlation ID reached the result

NoResult == [status |-> "", url |-> 0, err |-> "", named |-> FALSE]

Init ==
  /\ StoreInit
  /\ begun = [c \in Corr |-> "no"]
  /\ token \in [Requests -> Token]
  /\ pc = [r \in Requests |-> "idle"]
  /\ startedAt = [r \in Requests |-> 0]
  /\ handle = [r \in Requests |-> 0]
  /\ result = [r \in Requests |-> NoResult]
  /\ spent = [c \in Corr |-> << >>]

sess(r) == token[r][1]
state(r) == token[r][2]

Drives(r, c) == sess(r) = c /\ pc[r] \in Driving

\* Some request is about to write to c.
Attended(c) == \E r \in Requests : sess(r) = c /\ pc[r] \in Driving \cup {"restatus"}

\* The redirect URLs that have left the gateway: the one handleStart
\* answers, and those completion requests answer.
Disclosed ==
  {t \in Token :
     \/ t[2] = 1 /\ begun[t[1]] = "answered"
     \/ \E r \in Requests : pc[r] = "answered" /\ sess(r) = t[1] /\ result[r].url = t[2]}

Goto(r, step) == pc' = [pc EXCEPT ![r] = step]

Return(r, status, url, err) ==
  result' = [result EXCEPT ![r].status = status, ![r].url = url, ![r].err = err]

-----------------------------------------------------------------------------
\* POST /v1/sign/start

\* SDK.Begin yields the first redirect and the store creates the session.
\* Bounded: the session must be able to expire within MaxTime.
Start(c) ==
  /\ begun[c] = "no"
  /\ clock + TTL < MaxTime
  /\ New(c, 1)
  /\ begun' = [begun EXCEPT ![c] = "stored"]
  /\ UNCHANGED <<clock, requestVars, spent>>

\* SDK.Begin fails, or its first step is not a well-formed redirect.
BeginFails(c) ==
  /\ begun[c] = "no"
  /\ begun' = [begun EXCEPT ![c] = "refused"]
  /\ UNCHANGED <<session, byID, byState, clock, requestVars, spent>>

\* The handle is stored in a second lock-section; then the answer goes out.
BeginUpdate(c) ==
  /\ begun[c] = "stored"
  /\ Update(c, [session[c] EXCEPT !.handle = 1, !.status = "authorizing"])
  /\ begun' = [begun EXCEPT ![c] = "answered"]
  /\ UNCHANGED <<clock, requestVars, spent>>

-----------------------------------------------------------------------------
\* Service.complete: the lookup, the claim

Lookup(r) ==
  /\ pc[r] = "idle"
  /\ token[r] \in Disclosed
  /\ startedAt' = [startedAt EXCEPT ![r] = clock]
  /\ \/ /\ GetByState(token[r], TRUE)
        /\ Goto(r, "consume")
        /\ UNCHANGED result
     \/ /\ GetByState(token[r], FALSE)
        /\ Return(r, "", 0, "unknown_state")
        /\ Goto(r, "answered")
  /\ UNCHANGED <<clock, begun, token, handle, spent>>

\* The claim is on the session found: the state is not looked at again.
Consume(r) ==
  /\ pc[r] = "consume"
  /\ \/ /\ ConsumeForResume(sess(r), "claimed")
        /\ handle' = [handle EXCEPT ![r] = session[sess(r)].handle]
        /\ Goto(r, "resume")
        /\ UNCHANGED result
     \/ \E refusal \in {"terminal", "resuming"} :
          /\ ConsumeForResume(sess(r), refusal)
          /\ Return(r, "", 0, refusal)
          /\ Goto(r, "view")
          /\ UNCHANGED handle
  /\ UNCHANGED <<clock, begun, token, startedAt, spent>>

-----------------------------------------------------------------------------
\* Engine.drive

\* What drive may make of a step of one of these kinds: the parsers take it
\* for what it is, or miss a field that its kind requires.
stepKind(kinds) == kinds \cup {"malformed"}

\* What the SDK may answer to handle h, if it does not return an error.  A
\* step numbered MaxStep ends the journey: the bound on its length.
SdkStep(h) ==
  IF h = 0 \/ h >= MaxStep THEN {}
  ELSE stepKind({"done", "failed"}
                  \cup IF h + 1 < MaxStep THEN {"perform_http", "redirect"} ELSE {})

\* ... and to a redirect return with the state of step n.
SdkRedirectStep(h, n) ==
  IF SdkChecksState /\ n # h THEN SdkStep(h) \cap {"failed"} ELSE SdkStep(h)

Spend(r) ==
  spent' = IF handle[r] = 0 THEN spent ELSE [spent EXCEPT ![sess(r)] = Append(@, handle[r])]

\* Engine.fail up to Store.Finalize, which is the step "finalize".
fail(r, status, reason) ==
  /\ Update(sess(r), [session[sess(r)] EXCEPT !.status = status, !.reason = reason])
  /\ Goto(r, "finalize")

Advance_dropsHandle(r, step) ==
  /\ handle' = [handle EXCEPT ![r] = @ + 1]
  /\ UNCHANGED <<session, byID, byState, result>>
  /\ Goto(r, step)

\* The head of drive's loop: the new handle is stored, the step dispatched.
Advance(r, step) ==
  /\ handle' = [handle EXCEPT ![r] = @ + 1]
  /\ Update(sess(r), [session[sess(r)] EXCEPT !.handle = handle[r] + 1])
  /\ Goto(r, step)
  /\ UNCHANGED result

\* The SDK returned an error: the journey fails and the caller gets it.
ResumeError(r) ==
  /\ fail(r, "failed", "resume_error")
  /\ Return(r, "", 0, "internal")
  /\ UNCHANGED handle

\* SDK.ResumeRedirect or ResumeRedirectError, then drive.
ResumeRedirect(r) ==
  /\ pc[r] = "resume"
  /\ Spend(r)
  /\ \/ ResumeError(r)
     \/ \E step \in SdkRedirectStep(handle[r], state(r)) : Advance(r, step)
  /\ UNCHANGED <<clock, begun, token, startedAt>>

\* Effector.Do fails: the upstream call failed, timed out, or was cancelled
\* with the client's connection.
HttpError(r) ==
  /\ pc[r] = "perform_http"
  /\ fail(r, "failed", "upstream_error")
  /\ Return(r, "failed", 0, "")
  /\ UNCHANGED <<clock, begun, token, startedAt, handle, spent>>

\* The response is fed to the SDK again after an SDK error.
PerformHttp_retries(r) ==
  /\ pc[r] = "perform_http"
  /\ Spend(r)
  /\ \/ UNCHANGED <<session, byID, byState, pc, handle, result>>
     \/ \E step \in SdkStep(handle[r]) : Advance(r, step)
  /\ UNCHANGED <<clock, begun, token, startedAt>>

\* Effector.Do succeeds and SDK.ResumeHTTP is given the response.
PerformHttp(r) ==
  /\ pc[r] = "perform_http"
  /\ Spend(r)
  /\ \/ ResumeError(r)
     \/ \E step \in SdkStep(handle[r]) : Advance(r, step)
  /\ UNCHANGED <<clock, begun, token, startedAt>>

Redirect_oldState(r) ==
  /\ pc[r] = "redirect"
  /\ SetState(sess(r), state(r))
  /\ Goto(r, "restatus")
  /\ UNCHANGED <<clock, begun, token, startedAt, handle, result, spent>>

\* SetState releases the claim ...
Redirect(r) ==
  /\ pc[r] = "redirect"
  /\ SetState(sess(r), handle[r])
  /\ Goto(r, "restatus")
  /\ UNCHANGED <<clock, begun, token, startedAt, handle, result, spent>>

\* ... before a second lock-section writes the status.
Restatus(r) ==
  /\ pc[r] = "restatus"
  /\ Update(sess(r), [session[sess(r)] EXCEPT !.status = "authorizing"])
  /\ Return(r, "authorizing", handle[r], "")
  /\ Goto(r, "view")
  /\ UNCHANGED <<clock, begun, token, startedAt, handle, spent>>

Done(r) ==
  /\ pc[r] = "done"
  /\ Update(sess(r), [session[sess(r)] EXCEPT !.status = "completed", !.pdf = handle[r]])
  /\ Return(r, "completed", 0, "")
  /\ Goto(r, "finalize")
  /\ UNCHANGED <<clock, begun, token, startedAt, handle, spent>>

\* The SDK's own outcome becomes the status.
Failed_unmapped(r) ==
  /\ pc[r] = "failed"
  /\ \E outcome \in {"declined", "failed", "expired"} :
       /\ fail(r, outcome, "outcome")
       /\ Return(r, outcome, 0, "")
  /\ UNCHANGED <<clock, begun, token, startedAt, handle, spent>>

\* mapFailed: the SDK reports that the signer declined, or a failure.
Failed(r) ==
  /\ pc[r] = "failed"
  /\ \E verdict \in {<<"declined", "declined">>, <<"failed", "outcome">>} :
       /\ fail(r, verdict[1], verdict[2])
       /\ Return(r, verdict[1], 0, "")
  /\ UNCHANGED <<clock, begun, token, startedAt, handle, spent>>

\* A step of an unknown kind or without a required field; a malformed done
\* or failed step also reports the failed status with its error.
Malformed(r) ==
  /\ pc[r] = "malformed"
  /\ fail(r, "failed", "resume_error")
  /\ \E status \in {"", "failed"} : Return(r, status, 0, "internal")
  /\ UNCHANGED <<clock, begun, token, startedAt, handle, spent>>

FinalizeSession(r) ==
  /\ pc[r] = "finalize"
  /\ Finalize(sess(r))
  /\ Goto(r, "view")
  /\ UNCHANGED <<clock, begun, token, startedAt, handle, result, spent>>

-----------------------------------------------------------------------------
\* Service.complete: the answer

\* The result is completed with the view of the session, if it has one.
View(r) ==
  /\ pc[r] = "view"
  /\ \/ /\ ViewByID(sess(r), TRUE)
        /\ LET was == result[r].status
           IN  result' = [result EXCEPT
                 ![r].status = IF was = "" THEN session'[sess(r)].status ELSE was,
                 ![r].named = TRUE]
     \/ /\ ViewByID(sess(r), FALSE)
        /\ Return(r, "", 0, IF result[r].err = "" THEN "view" ELSE result[r].err)
  /\ Goto(r, "answered")
  /\ UNCHANGED <<clock, begun, token, startedAt, handle, spent>>

\* classifyCompleteError, under writeCompleteError: the status code.
ErrorCode(err) ==
  CASE err = "unknown_state"               -> 400
    [] err \in {"terminal", "resuming"}    -> 409
    [] err \in {"internal", "view"}        -> 500

\* POST /v1/sign/complete
handleComplete(res) == IF res.err = "" THEN 200 ELSE ErrorCode(res.err)

returnsToApplication_anyNamed(res) == res.err = "" \/ res.named

returnsToApplication(res) == res.err = "" \/ (res.status \in TerminalStatus /\ res.named)

\* GET /oauth/cleverbase/callback
handleOAuthCallback(res) ==
  IF ~returnsToApplication(res) THEN [code |-> ErrorCode(res.err), to |-> "nowhere"]
  ELSE [code |-> 302, to |-> IF res.url # 0 THEN "provider" ELSE "application"]

-----------------------------------------------------------------------------
\* The other handlers, and time

\* GET /v1/sign/status and /v1/sign/result: a view, which expires the
\* session it finds.  The client holds the correlation ID of the start.
Poll(c) ==
  /\ begun[c] = "answered"
  /\ ViewByID(c, c \in byID)
  /\ UNCHANGED <<clock, begun, requestVars, spent>>

\* Time passes, but a request in flight ends within its budget, and so does
\* a start.
Tick ==
  /\ clock < MaxTime
  /\ \A r \in Requests : pc[r] \in Running => clock < startedAt[r] + Budget
  /\ \A c \in Corr : begun[c] = "stored" => clock + TTL < session[c].expiresAt + Budget
  /\ clock' = clock + 1
  /\ UNCHANGED <<session, byID, byState, begun, requestVars, spent>>

\* Every request that can be made has been answered and time is up.
Quiet ==
  /\ clock = MaxTime
  /\ \A r \in Requests : pc[r] = "answered" \/ (pc[r] = "idle" /\ token[r] \notin Disclosed)
  /\ \A c \in Corr : begun[c] # "stored"
  /\ UNCHANGED vars

\* A request in flight takes its next step.
Proceed(r) ==
  \/ Consume(r) \/ ResumeRedirect(r)
  \/ HttpError(r) \/ PerformHttp(r) \/ Redirect(r) \/ Restatus(r)
  \/ Done(r) \/ Failed(r) \/ Malformed(r) \/ FinalizeSession(r) \/ View(r)

Next ==
  \/ \E c \in Corr : Start(c) \/ BeginFails(c) \/ BeginUpdate(c) \/ Poll(c)
  \/ \E r \in Requests : Lookup(r) \/ Proceed(r)
  \/ Tick
  \/ Quiet

Spec == Init /\ [][Next]_vars

\* The Go scheduler runs every goroutine, the upstream timeout ends every
\* call, and time passes.  No browser is obliged to come back.
Fairness ==
  /\ WF_vars(Tick)
  /\ \A c \in Corr : WF_vars(BeginUpdate(c))
  /\ \A r \in Requests : WF_vars(Proceed(r))

FairSpec == Spec /\ Fairness

\* ... and, in addition, the application polls the status of its journeys.
PollingSpec == FairSpec /\ \A c \in Corr : WF_vars(Poll(c))

-----------------------------------------------------------------------------
\* Safety

\* The state of the store and the locals of the requests have their types.
TypeOK ==
  /\ StoreTypeOK
  /\ begun \in [Corr -> {"no", "refused", "stored", "answered"}]
  /\ token \in [Requests -> Token]
  /\ pc \in [Requests -> Running \cup {"idle", "answered"}]
  /\ startedAt \in [Requests -> Nat]
  /\ handle \in [Requests -> 0..MaxStep]
  /\ result \in [Requests -> Result]
  /\ spent \in [Corr -> Seq(Step)]

\* The claim of ConsumeForResume (store.go:162) is a lock: a session is
\* resuming exactly while one request drives it, and never two do.
ClaimExclusive ==
  \A c \in Corr :
    /\ session[c].resuming <=> \E r \in Requests : Drives(r, c)
    /\ \A r, q \in Requests : Drives(r, c) /\ Drives(q, c) => r = q

\* "The non-idempotent upstream/signing effects run at most once"
\* (flow.go:266): over all its requests, a journey resumes each SDK handle
\* at most once, and in the order in which the SDK issued them.
SpentInOrder ==
  \A c \in Corr : \A i \in 1..Len(spent[c]) : spent[c][i] = i

\* Memory.byState holds the pending state of each stored session and
\* nothing else: no lookup finds a session by a state that it has left, and
\* no eviction leaves an entry behind.
IndexSound ==
  byState = {<<c, session[c].oauthState>> : c \in {d \in byID : session[d].oauthState # 0}}

\* Signing comes last: once a journey has its document (flow.go:172), none of
\* its handles is resumed any more, and the document is what the last one of
\* the chain has yielded.  Holds with any SDK, even where a write that comes
\* late makes the journey authorizing again.
NothingAfterSigning ==
  \A c \in Corr : session[c].pdf # 0 => Len(spent[c]) = session[c].pdf - 1

\* evictExpiredLocked (store.go:230) spares a session a request is driving,
\* and an evicted session is never claimed through a pointer kept to it:
\* however long a request runs, its writes go to a session the store holds.
DrivenIsStored == \A r \in Requests : pc[r] \in Driving => sess(r) \in byID

\* A request within its budget finds its session when it comes to answer,
\* though it has released the claim by then: evictGrace outlasts
\* requestBudget.  Holds where Budget <= Grace.
RunningIsStored == \A r \in Requests : pc[r] \in Running => sess(r) \in byID

\* A terminal session that no request is about to write to has given up its
\* handle and its OAuth state (Finalize, store.go:202, and expireLocked),
\* whichever of expiry and the driving request came first.
SecretsScrubbed ==
  \A c \in Corr :
    Terminal(session[c]) /\ ~Attended(c) => session[c].handle = 0 /\ session[c].oauthState = 0

\* Request r got the claim, so reached the SDK.
Claimed(r) ==
  \/ pc[r] \in Driving \cup {"restatus"}
  \/ pc[r] \in {"view", "answered"} /\ result[r].err \in {"", "internal", "view"}

\* Two requests that presented the same state both got the claim.
Doubled(c) ==
  \E r, q \in Requests :
    r # q /\ token[r] = token[q] /\ sess(r) = c /\ Claimed(r) /\ Claimed(q)

Pending(c) ==
  /\ c \in byID /\ begun[c] = "answered"
  /\ session[c].status = "authorizing" /\ ~Expired(session[c])
  /\ ~Attended(c)

Resumable(c) ==
  /\ session[c].oauthState # 0
  /\ IndexEntry(c) \subseteq byState
  /\ session[c].handle = session[c].oauthState

\* Nobody is stranded: a journey that is authorizing, unexpired and not
\* being driven can be resumed, by the state of the redirect last issued
\* and with the handle the SDK issued it with, if no state has been claimed
\* twice.  (AuthorizingAwaitsCallback, below, drops that condition.)
PendingIsResumable == \A c \in Corr : Pending(c) /\ ~Doubled(c) => Resumable(c)

\* The journey is over for good: it is terminal, and who still drives it has
\* nothing left to do but to scrub it.
Decided(c) ==
  /\ Terminal(session[c])
  /\ \A q \in Requests :
       sess(q) = c => pc[q] \notin (Driving \ {"finalize"}) \cup {"restatus"}

\* Request r was beaten to its claim, and answers within the life of its
\* session or not at all.
LostInTime(r) ==
  /\ result[r].err \in {"terminal", "resuming"}
  /\ startedAt[r] + Budget <= session[sess(r)].expiresAt

\* A browser that the callback sends on to the application finds its journey
\* decided (service.go:325): always if it was the browser's own request that
\* ended the journey, with an error or without; if that request lost a race,
\* where it could not outlast the session.  Where it could, its claim or its
\* view may fail by expiry a journey that the winner is still signing: see
\* ReturnedIsAuthoritative.  If no state was claimed twice.
ReturnedIsSettled ==
  \A r \in Requests :
    /\ pc[r] = "answered"
    /\ handleOAuthCallback(result[r]).to = "application"
    /\ result[r].err \in {"", "internal"} \/ LostInTime(r)
    /\ ~Doubled(sess(r))
    => Decided(sess(r))

\* Request r was refused: by the lookup, or by the claim.
Refused(r) ==
  /\ pc[r] \in {"view", "answered"}
  /\ result[r].err \in {"unknown_state", "terminal", "resuming"}

\* Only a duplicate is refused, or a callback that comes too late: "both are
\* CLIENT conditions" (service.go:411).  The first callback for a redirect,
\* if it comes in time, is let through, whatever its rivals and evictions do
\* meanwhile.  If no state was claimed twice.
RefusedForCause ==
  \A r \in Requests :
    Refused(r) /\ ~Doubled(sess(r)) =>
      \/ clock > session[sess(r)].expiresAt
      \/ \E q \in Requests \ {r} : token[q] = token[r] /\ Claimed(q)

\* A completion that is answered without an error (service.go:385) and says
\* that the journey has ended, says what every later view of it says: neither
\* expiry nor another request changes it.  If no state was claimed twice.
\* What a poll, or a request that lost a race, says of an expired journey that
\* is being driven, need not hold: see TerminalIsFinal.
AnswerHolds ==
  \A r \in Requests :
    /\ pc[r] = "answered"
    /\ result[r].err = "" /\ result[r].status \in TerminalStatus
    /\ ~Doubled(sess(r))
    => session[sess(r)].status = result[r].status

\* A completed journey stays completed, with the PDF it was completed with,
\* whatever late duplicates, polls and expiry do: flow.go:170 is the last
\* write to its outcome.  Holds where the SDK checks the state.
CompletedIsFinal ==
  [][\A c \in Corr : session[c].status = "completed" =>
       session'[c].status = "completed" /\ session'[c].pdf = session[c].pdf]_vars

-----------------------------------------------------------------------------
\* Refinement

\* Over what is claimed and resumed, a journey is a sequence of exclusive
\* turns.

Linear == INSTANCE LinearResume WITH
  drivers <- [c \in Corr |-> {r \in Requests : Drives(r, c)}]

\* The flow implements LinearResume: at most one request at a time is given
\* a journey, and it alone uses up the handles of that journey, in order
\* (flow.go:262).
Linearized == Linear!Spec

\* A journey is open until the last request that writes to it has done so: an
\* expiry on the way decides nothing, and a completion is its own last word.
Ended(c) == session[c].status = "completed" \/ (Terminal(session[c]) /\ ~Attended(c))

Outcome(c) ==
  IF begun[c] \in {"no", "refused"} THEN "none"
  ELSE IF c \notin byID THEN "gone"
  ELSE IF Ended(c) THEN session[c].status
  ELSE "open"

Outcomes == INSTANCE JourneyOutcome WITH
  outcome <- [c \in Corr |-> Outcome(c)],
  document <- [c \in Corr |-> IF c \in byID THEN session[c].pdf ELSE 0]

\* The flow implements JourneyOutcome: duplicates, expiry and eviction in
\* flight and late writes never change the outcome or the document of a
\* journey that has ended.  Holds where the SDK checks the state.
Settles == Outcomes!Spec

-----------------------------------------------------------------------------
\* Liveness

\* Every request that got past its lookup is answered, on whichever path the
\* upstream, the SDK and its rivals send it, and so gives up its claim.  For
\* journeys of at most MaxStep steps: the loop of drive has no limit of its
\* own, and goes on for as long as the SDK asks for one more HTTP effect.
RequestsAnswered ==
  \A r \in Requests : pc[r] \in Running ~> pc[r] = "answered"

\* A journey whose application keeps polling is over in the end for good:
\* it stays terminal, or it has been evicted.
JourneysSettle ==
  \A c \in Corr : begun[c] = "answered" ~> [](Terminal(session[c]) \/ c \notin byID)

-----------------------------------------------------------------------------
\* What the comments say and the code does not do

\* "Terminal reports whether a status is one of the three end states"
\* (store.go:26): an end state is left by no step.
TerminalIsFinal ==
  [][\A c \in Corr : Terminal(session[c]) => session'[c].status = session[c].status]_vars

\* "The session itself is terminal and Alkemio obtains the authoritative
\* failure via the private status endpoint" (service.go:325), of a callback
\* that met an error and is sent on to the application: the status it was
\* sent on for is the one the endpoint reports.
ReturnedIsAuthoritative ==
  \A r \in Requests :
    /\ pc[r] = "answered" /\ result[r].err # ""
    /\ handleOAuthCallback(result[r]).to = "application"
    /\ ~Doubled(sess(r))
    => session[sess(r)].status = result[r].status

\* "the second concurrent caller is rejected here ... and never reaches the
\* SDK" (flow.go:265): of the callbacks for one state at most one gets the
\* claim.
DuplicateNeverReachesSDK == \A c \in Corr : ~Doubled(c)

\* "never the SDK/upstream-error 500" (service.go:412): where two callbacks
\* presented one state and one succeeded, the other is not answered 500.
DuplicateNever500 ==
  \A r, q \in Requests :
    /\ r # q /\ token[r] = token[q]
    /\ pc[r] = "answered" /\ pc[q] = "answered"
    /\ handleComplete(result[r]) = 200
    => handleComplete(result[q]) # 500

\* "StatusAuthorizing means the gateway is waiting for a browser callback"
\* (store.go:16): the gateway would accept one.
AuthorizingAwaitsCallback == \A c \in Corr : Pending(c) => Resumable(c)
=============================================================================
