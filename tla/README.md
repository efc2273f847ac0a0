# Trust gateway: models, checks and proofs

The gateway signs PDFs through Cleverbase. It keeps one in-memory session per
signing journey, hands the user's browser from one OAuth redirect to the next,
and drives a sans-IO SDK through the steps between them. This directory models
four things: what concurrent callbacks, polls, expiry and eviction do to a
session, where the difficulty lies; what the start-up configuration accepts;
what the HTTP API of a gateway so configured serves, refuses and redirects; and
how the process starts, serves and shuts down.

## Inventory

| Component | Source | State | Operations | Hard behaviour |
| --- | --- | --- | --- | --- |
| Session store | `internal/session/store.go` | `byID`, `byState`, the sessions, a mutex | `New`, `Get`, `GetByState`, `ViewByID`, `ConsumeForResume`, `Update`, `SetState`, `Finalize`; expiry and eviction inside them | pointers to sessions outlive the lock; expiry of a session that is being driven; eviction under a request's feet |
| Flow engine | `internal/flow/flow.go` | none of its own; a handle per call of `drive` | `Begin`, `Complete`, `CompleteError`, `drive`, `fail` | several lock-sections per operation, effects that cannot be repeated, an SDK or upstream failure at each step |
| Signing handlers | `internal/httpapi/service.go` | none | `handleStart`, `handleComplete`, `handleOAuthCallback`, `handleStatus`, `handleResult` | lookup and claim apart, the answer composed after the claim is released |
| Verification handler | `internal/httpapi/service.go` | none | `handleVerify` | limits that interact: the body's and the document's |
| API-key gate | `internal/httpapi/auth.go` | none | `authMiddleware` | exempt routes, and whether it is on depends on the configuration |
| Configuration | `internal/config/config.go` | the `Profile`, fixed at start-up | `Load` and its checks | defaults filled in between checks, a check before its field has its default |
| Server lifecycle | `cmd/server/main.go` | listener, `serveErrors`, signal context | `run` | signal against serve failure, shutdown and its deadline against requests in flight |
| Upstream client | `internal/upstream/client.go` | none | `Do`, `Rewrite` | timeouts, cancellation, size cap; a rewrite that falls back to the original URL |
| SDK adapter | `internal/cleverbase/adapter.go` | the fixed SDK configuration | `Validate`, `Begin`, `Resume*`, `VerifyPDF` | failure of the entropy source |
| SDK binding | external (`go.mod`) | none; the handle carries it all | as the adapter | a handle must be resumed once |

How they interact: a handler calls the engine; the engine calls the SDK adapter
and the upstream client between lock-sections of the store; the store calls
nobody. The only shared state is the store. Handlers hold a `*Session` obtained
in one lock-section and use it in later ones. Nothing is persisted: a restart
loses all sessions, so there is no recovery to model. There is one replica
(`deploy/k8s/base/deployment.yaml`).

What makes each part correct:

- store: the index of OAuth states matches the sessions; a claim has one owner;
  a terminal session gives up its secrets; eviction spares what is in use.
- engine: a handle is resumed at most once and in order, and none once the
  document is there; a journey that waits can be resumed; a journey ends once, and
  its outcome and its document stay.
- handlers: every request is answered; a callback is refused only for a cause, and
  a duplicate gets a client error; the browser is sent on to the application when
  the journey is decided; the end that a completion reports stays true.
- lifecycle: shutdown lets a request in flight finish, always ends, before the
  kubelet ends it, and its exit code tells whether anything went wrong.
- configuration: exactly the environments are accepted that meet the documented
  contract and the restrictions the code adds, and a profile holds all that its
  mode uses.
- API: no private route is open; the callback is there where browsers are sent
  to it, and leads back with what the application needs; fixtures and Cleverbase
  are never mixed; a document within its limit is not refused for its encoding.

`PROJECT.json` lists each hazard at its line with the properties that cover it.

## Modules

| Module | Models | Uses |
| --- | --- | --- |
| `SessionStore` | the store, one action operator per operation, no `Next` | |
| `ResumeFlow` | the engine and the handlers over the store | `SessionStore`, `LinearResume`, `JourneyOutcome` |
| `LinearResume` | what the claim promises: exclusive turns, each handle once, in order | |
| `JourneyOutcome` | what the application is promised: a journey ends once, for good, and only a completed one has a document | |
| `MCResumeFlow` | the instances TLC checks (symmetry) | `ResumeFlow` |
| `ServerLifecycle` | `run`, the serving goroutine, connections and upstream calls | |
| `MCServerLifecycle` | its instances | `ServerLifecycle` |
| `Config` | `Load`, check by check, and the contract it is to meet | |
| `Api` | the gate, the routes, the handlers and the adapter of a gateway started by `Load` | `Config` |
| `MCApi` | the environments and bodies TLC enumerates | `Api` |
| `ResumeFlowProofs` | theorems: types, the claim, the index, the handles, the refinement | `ResumeFlow` |
| `OutcomeProofs` | theorems: what terminal sessions hold, how long sessions are kept, completion | `ResumeFlowProofs` |
| `ResumableProofs` | theorems: nobody is stranded | `OutcomeProofs` |
| `AnswerProofs` | theorems: signing comes last, refusals have a cause, what completions report stays true, who is sent on finds the journey decided, outcomes are final | `ResumableProofs` |
| `LifecycleProofs` | theorems: the exit code, the deadline, the end before the kill | `ServerLifecycle` |
| `ConfigProofs` | theorems: `Load` is exact, its profiles complete | `Config` |
| `ApiProofs` | theorems: every safety property of `Api` | `Api`, `ConfigProofs` |

`Api` composes `Config` with the handlers: its first steps are those of `Load`, and
requests meet the profile that `Load` built. It takes from `ResumeFlow` the
results that `Service.complete` can return; `ResumeFlow` takes from the lifecycle
`requestBudget`, and `ServerLifecycle` knows of a handler only that it makes
upstream calls and may take any time.

### How the models correspond to the code

`SessionStore` and `ResumeFlow`:

- Atomicity. Each operation of the store holds `Memory.mu` throughout and is one
  action. A request is a goroutine with a program counter `pc`, which names the
  next lock-section it enters; SDK and upstream calls between two lock-sections
  touch only the request's locals and are part of the action that follows them.
- A request: `idle` -`Lookup`-> `consume` -`Consume`-> `resume`
  -`ResumeRedirect`-> a step of the SDK (`perform_http`, `redirect`, `done`,
  `failed`, `malformed`) -> ... -> `view` -`View`-> `answered`. `fail` and the
  `done` branch are two lock-sections in the code (`Update`, `Finalize`), hence the
  program counter `finalize`; so are the two writes of a redirect (`Redirect`,
  `Restatus`).
- Data. Handles, OAuth states, redirect URLs and PDFs are the number of the SDK
  step that produced them, 0 for `nil` or `""`. Which step answers a handle is the
  SDK's choice (`SdkStep`, external); that the parsers may refuse it, or its kind
  be unknown, is `stepKind`. The OAuth state of step `n` of
  journey `c` is `<<c, n>>`: states are never shared by journeys. A request may
  present a state only once the redirect carrying it was answered to a client
  (`Disclosed`): states are 128-bit secrets nobody guesses. An accepted request
  with a code and one with an error differ only in the SDK call, whose answers
  are the same, so `ResumeRedirect` is both.
- Time. `clock` is a counter advanced by `Tick`. `Tick` does not let a request
  run longer than `Budget`, the model of `requestBudget`; run `linear` sets it so
  high that it never binds. Only the order of TTL, budget and grace matters to
  the properties, so TTL = Grace = 1 stands for 15 and 5 minutes.
- An evicted session stays in the function `session`: a request may still hold
  the pointer, as in Go. Correlation IDs are 128-bit random and never reused.
- `spent` is a history variable: the handles the SDK was resumed with.
- `SdkChecksState`: whether the SDK rejects a state that its handle did not emit.
  The SDK is external; where a property needs the check its comment says so.

`ServerLifecycle`:

- `run` is sequential: `stage` names the statement it is at, `err` what it
  returns. The two branches of the select are two actions, and both may be
  enabled. The buffered channel `serveErrors` holds at most one value, which a
  receive takes out: a second receive would wait for ever, so `run` must receive
  at most once, in the select or after `Shutdown`. How `Serve` returned is
  remembered apart, in `serve`.
- `net/http` is external, modelled from how `run` configures and stops it.
  `Shutdown` closes the listener, then polls until every connection is closed or
  its deadline has passed. It spares a connection that has sent nothing for 5 s
  (`NewGrace`), and such a connection is still served (`ReadHeader`). An error of
  closing the listener is one of its outcomes. `Serve` returns `ErrServerClosed`
  only after `Shutdown` was called. A header read in pieces, across its timeout,
  is left out.
- Time. Steps of `run`, timeouts and the polls of `Shutdown` are finer than a
  tick, so `Tick` waits until they are done. It never waits for a handler or a
  client: `WriteTimeout` does not end a handler, it makes its answer fail.
- `Client.Do` is `BeginCall` to `EndCall` or `CancelCall`. Only the client's going
  cancels the context of its request.

`Config`:

- A setting is unset, one of its valid values, or `"bad"`; a URL is a record of
  what the checks look at: whether it is absolute, its scheme, whether it is
  local, whether its path is the callback's, whether it has a query or fragment.
- `Load` is one step per check, in the order of the code, each of which fills in
  the defaults that the code sets after it. Which of several errors is reported
  is not modelled. `Listen`, `TSAAuth` and `TSAPolicy` are copied and never looked
  at, and left out.
- `Acceptable` is what `Load` is measured by, in two parts that have no order and
  no defaults, unlike `Load`. `Documented` is the table of the repository's README
  (README.md:9-36). `Restricted` is what only config.go says: every URL is
  absolute, browsers are sent to http or https URLs, a live redirect URI has no
  query or fragment, and in production the base of redirects is https. The two do
  not quite agree: README.md:30 calls `TRUST_GATEWAY_PUBLIC_BASE_URL` unused in
  live mode, config.go:287 and config_test.go:183 refuse one that is plain http in
  production.

`Api`:

- A request is one action: gate, mux, decoding, checks, answer, in the order of
  the code, `exchange` is the last one. Where the SDK or the entropy source may
  fail there is an answer 500.
- A presented key is the configured one or is not. Bodies are a JSON value or
  not, with a document of a given decoded length and a given number of bytes
  around it: the limits are numbers and are those of the code. A body that is
  both malformed and too large gets 400 or 413, as whichever shows first.
- Hosts are those that matter: Cleverbase, the override, the TSA, the mock. The
  scheme of the override is not the gateway's to know, and is `"other"`.
- Headers, logging and the rest of an answer's body are left out.

## Runs

| Run | Instance | Shows |
| --- | --- | --- |
| `dup` | 1 journey, 3 requests, 4 SDK steps, expiry in flight | `TypeOK`; `ClaimExclusive`, `SpentInOrder`: the signing effects run at most once; `SecretsScrubbed`; `PendingIsResumable`: nobody is stranded; `ReturnedIsSettled`: a browser sent on by the request that ended its journey, or by one that lost a race within the life of the session, finds the journey decided; `RefusedForCause`: only duplicates and late callbacks are refused; `AnswerHolds`: the end that a completion reported without error stays the end; `CompletedIsFinal` |
| `evict` | 2 journeys, 2 requests, 5 ticks | `IndexSound`: no stale index entry; `RunningIsStored`: a request within its budget finds its session when it answers; `Settles`: the flow implements `JourneyOutcome` |
| `linear` | 2 journeys, 2 requests, 3 SDK steps, no retention, no effective budget, lax SDK | `DrivenIsStored`: what is driven is never evicted, what is evicted never claimed; `NothingAfterSigning`: no handle is resumed once the document is there; `Linearized`: the flow implements `LinearResume` |
| `live` | 1 journey, 2 requests, 4 SDK steps | `RequestsAnswered`: every request of a journey of at most `MaxStep` steps is answered; `JourneysSettle`: a polled journey is over in the end |
| `shutdown` | 2 connections, 6 ticks, `FairSpec` | `TypeOK`; `NilMeansClean`: exit code 0 means that nothing failed and no request was cut off; `InFlightFinishes`: a request in flight at the signal has its whole budget; `EndsBeforeKill`; `StopsInTheEnd`: `run` returns, whatever handlers and clients do |
| `api` | 146,572 environments, 1 journey, every request, the real limits | `TypeOK`; `ProfileIsComplete`; `LoadIsExact`: `Load` accepts what is `Documented` and `Restricted`, and refuses all else; `PrivateIsGuarded`, `CallbackIsServed`, `ReturnIsComplete`, `HostsKeptApart`, `DocumentLimit`: what a gateway so configured serves |

Six more runs expect a violation, see Findings.

Each property has a mutant in `PROJECT.json`, a definition with a plausible slip
(`ConsumeForResume_sharesClaim` and the like) under which the run finds it
violated.

Bounds. Four SDK steps are the shortest journey in which a duplicate can be
overtaken by a whole turn, a redirect to a second authorization, and still
resume; a real journey has two redirects and about three HTTP effects, which
repeat the same actions. Three requests allow a winner, a stale duplicate and
the legitimate second callback. `MaxStep` also ends every journey, so that
`RequestsAnswered` says that no path through the drive loop fails to answer, and
not that an SDK cannot ask for effects without end: the loop has no limit of its
own (flow.go:128). `MaxTime` leaves room for expiry in flight
(`dup`, 3) and for start, expiry, retention and a second start (`evict`, 5). In
`linear` the retention is 0 and a request may last beyond it, so that eviction
meets requests that still hold the session. Requests are interchangeable, so
safety runs use symmetry; `live` and `shutdown`, which check liveness, do not.

In `shutdown` the order of the timeouts is that of the code: 1 for the 5 s a new
connection is spared, 2 for `ReadHeaderTimeout` (10 s), 3 for `requestBudget`
(150 s), 4 for the pod's grace period (180 s). Two connections are a request in
flight and one that comes late, or one that ends and one that never does;
`MaxTime` = 6 leaves three instants at which the signal may come with its
deadline within the bound (`Signal`). The conditions on several connections are
conjunctions over each.

In `api` the environments are of three kinds: those a gateway may be started in,
which are served; every combination of URLs with valid settings; and every
combination of settings with valid URLs. Of the last two the accepted ones are
left out, as they differ from the first in nothing a request meets. Documents
have the lengths 0, `maxPDFBytes` and one more, with as many bytes around them
as the limit on the body leaves, two more, or few. One journey is enough, as no
request concerns two.

Deadlock is checked in every run. The only states without progress are named
and stutter: time is up and every request that can be made has been answered
(`Quiet`), `run` has returned (`Exited`, `Refused`).

Fairness (`live`). Weak fairness of every step of a request in flight: Go runs
every runnable goroutine, the mutex is handed on, upstream calls end by their
30 s timeout. Weak fairness of `Tick`. Callbacks (`Lookup`) and starts are not
fair: no browser need come back. `JourneysSettle` adds fair polling, because the
store expires sessions only when somebody looks (store.go:214). `Budget` keeps
time from passing a request by; it is not what makes the request end, fairness
is.

Fairness (`shutdown`). Weak fairness of the steps of `run`, of the serving
goroutine's return, of `Tick`, of the header timeout and of the closing of idle
connections, which the runtime and `net/http` do by themselves. None of the
handlers, whose end nothing guarantees, and none of the clients: `StopsInTheEnd`
is about the deadline of `Shutdown`, and its mutant lets the deadline wait for
handlers.

## Findings

Six runs expect a violation; each finds a behaviour that a comment or a test of
the repository rules out.

1. `TerminalIsFinal`. A status poll during a drive that runs past `ExpiresAt`
   fails the session; the driver then completes, declines or re-opens it. The
   end states of store.go:26 are left.
2. `DuplicateNeverReachesSDK`. A duplicate passes `GetByState`, is overtaken by
   the winner's whole turn up to the second redirect, and then claims the
   session, because `ConsumeForResume` does not compare states: flow.go:265 says
   that it never reaches the SDK. It uses up the second handle, so the legitimate
   second callback finds `unknown_state`.
3. `DuplicateNever500`. That duplicate is answered 500, which service.go:412 and
   `TestCompleteConcurrentDuplicateNeverFivehundred` exclude (the test's journey
   has one redirect, so it cannot meet the case).
4. `AuthorizingAwaitsCallback`. `SetState` releases the claim before the status
   is written; the duplicate fails the session in between and the pending write
   makes it `authorizing` with nothing left to resume.
5. `ReturnedIsAuthoritative`. `returnsToApplication` (service.go:337) trusts a
   terminal status that the request's own claim or view may just have made, by
   failing an expired session that another request is driving (store.go:166 and
   store.go:214 do not look at `resuming`). A loser of a race that outlasts the
   session is sent on to the application with status `failed` while the winner is
   still signing, and the winner then sets the journey `completed` or `declined`.
   service.go:325 says that the session is terminal and that the failure is the
   one the status endpoint reports. It needs no state to be claimed twice. What
   does hold of browsers that are sent on is `ReturnedIsSettled`, of callers that
   are answered `AnswerHolds`; neither covers a poll or a loser of this kind.
6. `ShutdownCancelsCalls`. `Shutdown` cancels no context and `run` sets no
   `BaseContext`, so an upstream call in flight runs on, where client.go:50 and
   flow.go:74 say that a server shutdown cancels it.

`PendingIsResumable`, `ReturnedIsSettled`, `RefusedForCause` and `AnswerHolds` hold
where no state was claimed twice, `CompletedIsFinal` and `Settles` where the SDK
checks states: 2 is the root of 3 and 4, and comparing the presented state inside
`ConsumeForResume` would remove all three. 1 and 5 need
no second claim: they come from expiry, which does not ask whether the session
is `resuming`.

## Proofs

### Sessions

Each theorem is for any sets of journeys and requests, any number of SDK steps,
any TTL, grace and budget and, unless it says otherwise, either kind of SDK.
The assumptions on the constants are `StoreAssumption` and `FlowAssumption`
(natural numbers, `MaxStep` and `TTL` positive).

| Theorem | Statement |
| --- | --- |
| `TypeCorrect` | `Spec => []TypeOK` |
| `ClaimIsExclusive` | `Spec => []ClaimExclusive` |
| `DrivenStaysStored` | `Spec => []DrivenIsStored` |
| `IndexIsSound` | `Spec => []IndexSound` |
| `SpentOnceInOrder` | `Spec => []SpentInOrder` |
| `FlowIsLinear` | `Spec => Linearized`, the refinement of `LinearResume` |
| `SecretsAreScrubbed` | `Spec => []SecretsScrubbed` |
| `RunningStaysStored` | `Budget <= Grace => (Spec => []RunningIsStored)` |
| `CompletedStays` | `SdkChecksState => (Spec => CompletedIsFinal)` |
| `PendingStaysResumable` | `Spec => []PendingIsResumable` |
| `ReturnedStaysSettled` | `Spec => []ReturnedIsSettled` |
| `SigningIsLast` | `Spec => []NothingAfterSigning` |
| `RefusedOnlyForCause` | `Spec => []RefusedForCause` |
| `AnswersHold` | `Spec => []AnswerHolds` |
| `OutcomesSettle` | `SdkChecksState => (Spec => Settles)`, the refinement of `JourneyOutcome` |

The two conditions are the code's own premises: `evictGrace` (5 min, store.go:40)
exceeds `requestBudget` (150 s, main.go:35), and the SDK compares the state with
the one its handle carries. The budget is a sum of timeouts; the server does not
cancel a handler that outlives it, so the other theorems assume nothing of it.

Argument. One lemma per store operation says what it leaves in the session it
touches (`ExpireEffect`, `ClaimEffect`, `SetStateEffect`, ...), one per action
what it does to the program counter and the claim. `RequestFrame` says what the
step of a request leaves alone: other requests, and other journeys. Then:

- `ClaimInv == TypeInv /\ Unbegun /\ ClaimExclusive /\ DrivenIsStored /\
  EvictedIsExpired` is inductive; no part is so alone. A claim on an evicted
  session would falsify `DrivenIsStored`. Eviction spares a session that is
  resuming and takes only those past their expiry (`EvictedIsExpired`), and
  `ConsumeForResume` fails such a session or finds it terminal, and refuses
  either way. A start resets a session, which is harmless because no request
  points to a journey that has not begun (`Unbegun`).
- `Indexed`, over `ClaimInv`: a session's entry of the index is added, moved and
  dropped with its state.
- `Ordered`, over `ClaimInv`: the handles used are 1, 2, ..., and the next one is
  in the session while nobody drives it, in the driver's locals otherwise, or
  scrubbed. It gives `SpentInOrder`, and the step simulation of `FlowIsLinear`
  (`NextLinear`): a claim, an SDK call and a release are the steps of
  `LinearResume`, all others stutter.
- `SecretsScrubbed` is inductive over `ClaimInv` as it stands.
- `Fresh`: no two requests issue one redirect, and a redirect is issued before
  the handle after it is used. So while a request stands between `SetState` and
  the write of the status, nobody can present its redirect (`Undisclosed`).
  With `StatesHidden` (a terminal session has a state in the index only in that
  window) a lookup finds live sessions only (`FoundIsLive`), hence `InTime`: a
  request was looked up before its session's expiry and ends within its budget,
  which is before the session may be evicted.
- `Concluding`: in that same window a rival may hold the claim, and it presents
  an older state (`ClaimantIsOld`), so a checking SDK fails it: it never reaches
  `done`, and the pending write of the status never overwrites a completion.
- `Orderly`: until its session expires or a state is claimed twice, a journey is
  `Steady`. Its driver agrees with the session on the handle, and with its status
  on whether it is over (`InStep`); where nobody drives it, handle and pending
  state belong together (`Waiting`). What makes it inductive is that a request
  past its lookup presents either the pending state or one that was claimed
  before (`Presented`), so that the first claim of a state is made by a request
  the redirect was for, and not in the window between `SetState` and the write of
  the status, when nobody has seen it (`ClaimantIsOld`). After the expiry a view
  finds the session failed. This needs no SDK that checks states.
- `Signing`, over `ClaimInv` and `Ordered`: once a journey has its document, the
  session holds no handle for the next claimant, and a driver is about to finalize
  it or has been given no handle. A late write of the status can make such a
  journey authorizing again and let it be claimed, but never resumed.
- `Issuing`, over `Orderly`: no redirect of a live journey is lost. The first one,
  and each that a request has recorded, is the pending one or was claimed
  (`Redeemable`). So a lookup that finds nothing comes late or second
  (`LookupRefusal`), and so does a claim that is refused (`ClaimRefusal`). A
  request once refused for a cause stays so.
- `Undisturbed`, over `Orderly`: where no state is claimed twice, at most one
  request is about to write to a journey, even between the release of the claim
  and the write of the status (`Alone`). With it `Answering` is inductive: what a
  completion reports of an end is what the session says, and nobody else is left
  to change it.
- `Deciding`, over `Undisturbed` and `InTime`: a request that ended its journey
  (`EndedBy`) leaves it decided, since nobody else writes to it (`OwnEnd`). One that
  lost a race and is sent on has found the journey terminal; if it ends before
  the session expires, the session has not expired when it looks, so its winner
  made the journey terminal and has only to scrub it (`LostEnd`). Decided journeys
  stay decided (`DecidedStays`).
- The refinement of `JourneyOutcome` counts a journey as open until the last
  request that may write to it has done so. A journey that has completed is kept
  by `Concluding`; any other that has ended has nobody to write to it, and
  `ConsumeForResume` refuses it to all comers; one that is open ends by a write
  that leaves the document alone, or by `Done`, the only step that writes one
  (`DocumentEffect`, `CompletionEffect`). Each step on a journey is thus a stutter,
  `End` or `Complete` (`JourneyStep`), and a start is `Start` with the sessions it
  evicts (`StartOutcome`).

### Configuration and API

For any set of environments made of the modelled settings and URLs
(`EnvironmentsAssumption`), any journeys, any bodies and any limits
(`ApiAssumption`). `LoadIsRight` and `LoadedIsComplete` are about `LoadSpec`, the
others about the specification of `Api`, which starts with it.

| Theorem | Statement |
| --- | --- |
| `LoadIsRight` | `LoadSpec => []LoadIsExact`, of `Documented /\ Restricted` |
| `LoadedIsComplete` | `LoadSpec => []ProfileIsComplete` |
| `PrivateStaysGuarded` | `Spec => []PrivateIsGuarded` |
| `CallbackStaysServed` | `Spec => []CallbackIsServed` |
| `ReturnsAreComplete` | `Spec => []ReturnIsComplete` |
| `HostsStayApart` | `Spec => []HostsKeptApart` |
| `DocumentsAreLimited` | `Spec => []DocumentLimit` |

Argument. `LoadInv` says of each step of `Load` what the checks passed so far have
established, of the profile and of the environment, in the terms of the
contract; a refusal is the negation of one of its conjuncts. It goes on to hold
while the gateway serves, since nothing then writes the configuration: so what a
request meets is a complete profile that the contract accepts. `ApiInv` adds
that no journey exists before the gateway serves, that one that waits has a
client state if the callback is routed (`handleStart` demands it), and that the
last exchange is sound. Each handler has a lemma that the answer it builds is.
`SizeLimit` is the arithmetic of base64: an encoded document of at most
`maxPDFBytes` is at most three bytes longer than four thirds of it, rounded down.

### Lifecycle

For any connections and timeouts with `Budget < TermGrace`
(`LifecycleAssumption`): `requestBudget` is 150 s (main.go:35), the pod's grace
period 180 s (deployment.yaml:68).

| Theorem | Statement |
| --- | --- |
| `NilIsClean` | `Spec => []NilMeansClean` |
| `InFlightIsSpared` | `Spec => []InFlightFinishes` |
| `GoneBeforeKill` | `Spec => []EndsBeforeKill` |

Argument. `LifeInv` says in which stages the channel can hold what, that the
deadline is the signal's time plus the budget, as no time passes between the two
(`Timely`), that the clock never passes it before `run` returns, and that no
connection is left once `Shutdown` has returned nil (`Drained`).

The type invariants of `ServerLifecycle` and `Api` are theorems too
(`LifecycleTypes`, `ApiTypes`), as that of `ResumeFlow` is.

### Only model-checked

Liveness (`RequestsAnswered`, `JourneysSettle`, `StopsInTheEnd`), which is out of
this prover's reach. Every other property of a passing run is a theorem: the
invariants, the action property and both refinements.

## Not modelled

- Deployment manifests, build files and the black-box tests. What the manifest
  fixes of the system (one replica, sessions in memory, the grace period) is an
  assumption of the models.
- Logging and redaction, headers, the wording of errors, the content of answers
  and of SDK steps: no decision of the gateway looks at them.
- `Get` of the store, which has no caller outside tests.
- The copying between the adapter's types and those of the SDK binding, and the
  SDK itself.

## Plan

1. (done) `SessionStore`, `ResumeFlow`, `LinearResume`, their runs and theorems.
2. (done) `ServerLifecycle`, its run and theorems.
3. (done) `Config` and `Api`, their run and theorems.
4. (done) The proofs of `PendingIsResumable` and `ReturnedIsSettled`.
5. (done) What callers are told (`NothingAfterSigning`, `RefusedForCause`,
   `AnswerHolds`) and `JourneyOutcome` with its refinement, checked and proved.
6. A composition of the deadline of shutdown with `ResumeFlow`: which sessions a
   gateway that is shutting down still brings to an end.
