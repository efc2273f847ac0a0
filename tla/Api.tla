-------------------------------- MODULE Api --------------------------------
(***************************************************************************)
(* The HTTP API of a gateway started with some configuration: the API-key  *)
(* gate of internal/httpapi/auth.go, the routes, limits and answers of     *)
(* internal/httpapi/service.go, the rewriting of hosts of                  *)
(* internal/upstream/client.go as run of cmd/server/main.go sets it up,    *)
(* and the SDK adapter of internal/cleverbase/adapter.go.                  *)
(*                                                                         *)
(* A request is one action here.  How the requests of a journey interleave *)
(* is the subject of ResumeFlow; this module takes from it which results   *)
(* Service.complete can return for a journey that waits or is over.        *)
(***************************************************************************)
EXTENDS Config, Naturals

CONSTANTS
  Journeys,  \* correlation IDs
  Bodies,    \* the bodies of the requests that carry a document
  MaxPDF,    \* maxPDFBytes
  Slack      \* the room of maxPDFJSONBodyBytes for the JSON around it

Body ==
  [ json        : {"one", "invalid", "several"},  \* the values in the body
    document    : {"absent", "invalid", "base64"},
    length      : Nat,   \* ... and its length once decoded
    envelope    : Nat,   \* the bytes around the document
    clientState : {"", "set", "long"},
    signer      : {"none", "pair", "partial"} ]

ASSUME ApiAssumption ==
  /\ Bodies \subseteq Body
  /\ MaxPDF \in Nat
  /\ Slack \in Nat

VARIABLES
  journey,      \* correlation ID -> how far the journey is
  clientState,  \* correlation ID -> Session.ClientState
  exchange      \* the last request and its answer

vars == <<configVars, journey, clientState, exchange>>

Paths == {"callback", "start", "complete", "status", "result", "verify", "health", "other"}

Private == {"start", "complete", "status", "result", "verify"}

\* The host and scheme of a URL that the SDK emits or that Rewrite returns.
Target == [host : {"cleverbase", "override", "tsa", "mock"}, scheme : {"http", "https", "other"}]

NoBody ==
  [json |-> "invalid", document |-> "absent", length |-> 0, envelope |-> 0, clientState |-> "",
   signer |-> "none"]

Exchange ==
  [ method    : {"GET", "HEAD", "POST"},
    path      : Paths,
    keyed     : BOOLEAN,  \* it presents the key that was configured
    body      : Body,
    handler   : Paths,    \* the handler that served it, or "other"
    code      : {200, 302, 400, 401, 404, 405, 409, 413, 500},
    document  : BOOLEAN,  \* its document went to the SDK
    contacted : SUBSET Target,
    to        : {"nowhere", "provider", "application"},
    target    : SUBSET Target,  \* where the provider is, if it leads there
    about     : SUBSET Journeys ]

Request(method, path, keyed) ==
  [ method |-> method, path |-> path, keyed |-> keyed, body |-> NoBody, handler |-> "other",
    code |-> 404, document |-> FALSE, contacted |-> {}, to |-> "nowhere", target |-> {},
    about |-> {} ]

Requests ==
  {Request(method, path, keyed) :
     method \in {"GET", "HEAD", "POST"}, path \in Paths, keyed \in BOOLEAN}

Init ==
  /\ LoadInit
  /\ journey = [j \in Journeys |-> "none"]
  /\ clientState = [j \in Journeys |-> ""]
  /\ exchange = Request("GET", "other", FALSE)

\* config.Load, then Adapter.Validate, which asks the SDK.
StartUp ==
  /\ \/ LoadStep
     \/ /\ step = "loaded"
        /\ step' \in {"serving", "invalid"}
        /\ UNCHANGED <<env, profile>>
  /\ UNCHANGED <<journey, clientState, exchange>>

-----------------------------------------------------------------------------
\* Hosts

\* Client.Rewrite leaves a URL alone if the base it is to move to is unset
\* or has no host.
Rewrite(t, base) ==
  IF base.form = "absolute" THEN [host |-> "mock", scheme |-> base.scheme] ELSE t

internalRewrite_always == profile.baseURL

\* Only fixtures mode rewrites, and it rewrites every effect ...
internalRewrite == IF profile.mode = "fixtures" THEN profile.baseURL ELSE NoURL

\* ... and every redirect of the browser.
publicRewrite == IF profile.mode = "fixtures" THEN profile.publicBaseURL ELSE NoURL

\* The SDK speaks to Cleverbase over https, or to the override, about whose
\* scheme the gateway knows nothing.
Provider ==
  IF profile.sdkBaseURL = "" THEN [host |-> "cleverbase", scheme |-> "https"]
                             ELSE [host |-> "override", scheme |-> "other"]

Effects == {Provider, [host |-> "tsa", scheme |-> profile.tsaURL.scheme]}

ProviderRedirect(answer) ==
  [answer EXCEPT !.to = "provider", !.target = {Rewrite(Provider, publicRewrite)}]

-----------------------------------------------------------------------------
\* The gate and the routes

Authenticated(r) == profile.apiKey # "" /\ r.keyed

authMiddleware(r) ==
  \/ ~profile.authEnabled
  \/ r.path = "health"
  \/ r.path = "callback" /\ r.method \in {"GET", "HEAD"}
  \/ Authenticated(r)

\* A route of the mux for GET serves HEAD too.
Methods(path) ==
  CASE path \in {"callback", "status", "result", "health"} -> {"GET", "HEAD"}
    [] path \in {"start", "complete", "verify"}            -> {"POST"}
    [] path = "other"                                      -> {}

Registered(path) ==
  path # "other" /\ (path = "callback" => profile.returnURL.form # "absent")

Served(r, path) ==
  /\ step = "serving"
  /\ r.path = path /\ authMiddleware(r) /\ Registered(path) /\ r.method \in Methods(path)

\* Answered without a handler: 401 by the gate, 404 or 405 by the mux.
Reject(r) ==
  /\ step = "serving"
  /\ \/ ~authMiddleware(r) /\ exchange' = [r EXCEPT !.code = 401]
     \/ authMiddleware(r) /\ ~Registered(r.path) /\ exchange' = r
     \/ /\ authMiddleware(r) /\ Registered(r.path) /\ r.method \notin Methods(r.path)
        /\ exchange' = [r EXCEPT !.code = 405]
  /\ UNCHANGED <<configVars, journey, clientState>>

Answer(r, handler, code) == [r EXCEPT !.handler = handler, !.code = code]

-----------------------------------------------------------------------------
\* Requests with a document

\* Base64 with padding.
EncodedLen(n) == 4 * ((n + 2) \div 3)

maxPDFJSONBodyBytes == (MaxPDF * 4) \div 3 + Slack

Size(b) == b.envelope + (IF b.document = "absent" THEN 0 ELSE EncodedLen(b.length))

\* decodeSingleJSON under MaxBytesReader: a body that is not one value is
\* refused as such if that shows within the limit.
Decodes(b) == b.json = "one" /\ Size(b) <= maxPDFJSONBodyBytes

DecodeErrors(b) ==
  (IF b.json # "one" THEN {400} ELSE {})
    \cup (IF Size(b) > maxPDFJSONBodyBytes THEN {413} ELSE {})

BadStart_anyClientState(b) ==
  b.clientState = "long" \/ b.signer = "partial" \/ b.document = "invalid"
    \/ (b.document = "base64" /\ b.length = 0)

BadStart_noLimit(b) ==
  \/ profile.returnURL.form # "absent" /\ b.clientState = ""
  \/ b.signer = "partial"
  \/ b.document = "invalid"
  \/ b.document = "base64" /\ b.length = 0

\* What handleStart refuses in a body of one value: a client state that is
\* too long or missing, half a signer, no base64, an empty document.
BadStart(b) ==
  \/ b.clientState = "long"
  \/ profile.returnURL.form # "absent" /\ b.clientState = ""
  \/ b.signer = "partial"
  \/ b.document = "invalid"
  \/ b.document = "base64" /\ b.length = 0

TooLong_encoded(b) == b.document = "base64" /\ EncodedLen(b.length) > MaxPDF

TooLong(b) == b.document = "base64" /\ b.length > MaxPDF

\* POST /v1/sign/start.  A failure is one of newCorrelationID, of the
\* adapter's entropy, or of the SDK.
handleStart(r) ==
  /\ Served(r, "start")
  /\ \E b \in Bodies :
     LET refuse(code) ==
           /\ exchange' = [Answer(r, "start", code) EXCEPT !.body = b]
           /\ UNCHANGED <<journey, clientState>>
     IN  \/ \E code \in DecodeErrors(b) : refuse(code)
         \/ Decodes(b) /\ BadStart(b) /\ refuse(400)
         \/ Decodes(b) /\ ~BadStart(b) /\ TooLong(b) /\ refuse(413)
         \/ /\ Decodes(b) /\ ~BadStart(b) /\ ~TooLong(b)
            /\ \E reached \in {FALSE, b.document = "base64"} :
                 exchange' = [Answer(r, "start", 500) EXCEPT !.body = b, !.document = reached]
            /\ UNCHANGED <<journey, clientState>>
         \/ \E j \in {k \in Journeys : journey[k] = "none"} :
            /\ Decodes(b) /\ ~BadStart(b) /\ ~TooLong(b)
            /\ journey' = [journey EXCEPT ![j] = "waiting"]
            /\ clientState' = [clientState EXCEPT ![j] = b.clientState]
            /\ exchange' = ProviderRedirect(
                 [Answer(r, "start", 200) EXCEPT !.body = b, !.about = {j},
                                                 !.document = b.document = "base64"])
  /\ UNCHANGED configVars

\* POST /v1/verify
handleVerify(r) ==
  /\ Served(r, "verify")
  /\ \E b \in Bodies :
     LET reply(code, reaches) ==
           exchange' = [Answer(r, "verify", code) EXCEPT !.body = b, !.document = reaches]
     IN  \/ \E code \in DecodeErrors(b) : reply(code, FALSE)
         \/ Decodes(b) /\ b.document # "base64" /\ reply(400, FALSE)
         \/ Decodes(b) /\ TooLong(b) /\ reply(413, FALSE)
         \/ /\ Decodes(b) /\ b.document = "base64" /\ ~TooLong(b)
            /\ reply(200, TRUE) \/ reply(500, TRUE)
  /\ UNCHANGED <<configVars, journey, clientState>>

-----------------------------------------------------------------------------
\* Completion

\* What Service.complete returns: input it refuses, a state nobody waits
\* for, a claim somebody else holds ("claimed") or held until the journey
\* was over ("lost"), a step to the next redirect, the end of the journey,
\* its end by an error, and a session that was evicted meanwhile, which
\* ViewByID does not find ("gone", or "claimed" if the claim had failed).
Completions(j) ==
  {"invalid", "unknown"} \cup
    CASE journey[j] = "waiting" -> {"claimed", "redirect", "ended", "failed", "gone"}
      [] journey[j] = "over"    -> {"claimed", "lost"}
      [] journey[j] = "none"    -> {}

ErrorCode(completion) ==
  CASE completion \in {"invalid", "unknown"} -> 400
    [] completion \in {"claimed", "lost"}    -> 409
    [] completion \in {"failed", "gone"}     -> 500

\* Only the request that drives makes upstream calls.
Complete(j, completion, contacted) ==
  /\ completion \in Completions(j)
  /\ completion \notin {"redirect", "ended", "failed", "gone"} => contacted = {}
  /\ journey' = IF completion \in {"ended", "failed", "gone"}
                THEN [journey EXCEPT ![j] = "over"] ELSE journey
  /\ UNCHANGED clientState

\* POST /v1/sign/complete
handleComplete(j, r) ==
  /\ Served(r, "complete")
  /\ \/ /\ \E code \in {400, 413} : exchange' = Answer(r, "complete", code)
        /\ UNCHANGED <<journey, clientState>>
     \/ \E completion \in Completions(j) : \E effects \in SUBSET Effects :
          LET contacted == {Rewrite(t, internalRewrite) : t \in effects}
              ok == [Answer(r, "complete", 200) EXCEPT !.about = {j}, !.contacted = contacted]
          IN  /\ Complete(j, completion, contacted)
              /\ exchange' =
                   CASE completion = "redirect" -> ProviderRedirect(ok)
                     [] completion = "ended"    -> ok
                     [] OTHER -> [ok EXCEPT !.code = ErrorCode(completion)]
  /\ UNCHANGED configVars

\* GET /oauth/cleverbase/callback: a journey that is over leads the browser
\* back to the application, also if this request did not end it.
handleOAuthCallback(j, r) ==
  /\ Served(r, "callback")
  /\ \/ /\ r.method = "HEAD"
        /\ exchange' = Answer(r, "callback", 405)
        /\ UNCHANGED <<journey, clientState>>
     \/ /\ r.method = "GET"
        /\ \E completion \in Completions(j) : \E effects \in SUBSET Effects :
             LET contacted == {Rewrite(t, internalRewrite) : t \in effects}
                 found == [Answer(r, "callback", 302) EXCEPT !.about = {j}, !.contacted = contacted]
             IN  /\ Complete(j, completion, contacted)
                 /\ exchange' =
                      CASE completion = "redirect" -> ProviderRedirect(found)
                        [] completion \in {"ended", "failed", "lost"} ->
                             [found EXCEPT !.to = "application"]
                        [] OTHER -> [found EXCEPT !.code = ErrorCode(completion)]
  /\ UNCHANGED configVars

\* GET /v1/sign/status, of a journey unless it was evicted.
handleStatus(j, r) ==
  /\ Served(r, "status")
  /\ \E code \in {200, 404} :
       /\ code = 200 => journey[j] # "none"
       /\ exchange' = [Answer(r, "status", code) EXCEPT !.about = {j}]
  /\ UNCHANGED <<configVars, journey, clientState>>

\* GET /v1/sign/result, of a completed one.
handleResult(j, r) ==
  /\ Served(r, "result")
  /\ \E code \in {200, 404, 409} :
       /\ code = 200 => journey[j] = "over"
       /\ code = 409 => journey[j] # "none"
       /\ exchange' = [Answer(r, "result", code) EXCEPT !.about = {j}]
  /\ UNCHANGED <<configVars, journey, clientState>>

handleHealth(r) ==
  /\ Served(r, "health")
  /\ exchange' = Answer(r, "health", 200)
  /\ UNCHANGED <<configVars, journey, clientState>>

\* run has returned an error.
Refused == step \in {"refused", "invalid"} /\ UNCHANGED vars

Next ==
  \/ StartUp
  \/ \E r \in Requests :
       \/ Reject(r) \/ handleStart(r) \/ handleVerify(r) \/ handleHealth(r)
       \/ \E j \in Journeys :
            handleComplete(j, r) \/ handleOAuthCallback(j, r) \/ handleStatus(j, r) \/ handleResult(j, r)
  \/ Refused

Spec == Init /\ [][Next]_vars

-----------------------------------------------------------------------------
\* Properties

TypeOK ==
  /\ LoadTypeOK
  /\ step \in {"ttl", "auth", "static", "mode", "urls", "browser", "loaded", "refused",
               "serving", "invalid"}
  /\ journey \in [Journeys -> {"none", "waiting", "over"}]
  /\ clientState \in [Journeys -> {"", "set"}]
  /\ exchange \in Exchange

\* No accepted configuration leaves a private route open: it is served to
\* who has the key that was set, or to everybody where the environment says
\* so and sets no key (auth.go:23, config.go:181).
PrivateIsGuarded ==
  exchange.handler \in Private => exchange.keyed \/ (env.authDisabled /\ env.apiKey = "")

\* Where Cleverbase is told to send browsers to the callback, they find it
\* there: it is routed and needs no key (config.go:301, service.go:73).
CallbackIsServed ==
  profile.redirectURI.path = "callback" /\ exchange.path = "callback" /\ exchange.method = "GET" =>
    exchange.handler = "callback"

\* A browser is led back to the application only if there is a URL to lead
\* it to, whose own query is not overwritten by applicationReturnURL, and
\* with the client state that the application needs to know it again: it
\* was required when the journey started.
ReturnIsComplete ==
  exchange.to = "application" =>
    /\ profile.returnURL.form = "absolute" /\ ~profile.returnURL.extra
    /\ \A j \in exchange.about : clientState[j] # ""

\* The mock and Cleverbase are kept apart, though Rewrite falls back to the
\* URL as it is: in fixtures mode effects and browsers go to the mock and
\* nowhere else, in live mode never; a production gateway never meets the
\* override, and its redirects are https.
HostsKeptApart ==
  /\ \A t \in exchange.contacted \cup exchange.target :
       /\ t.host = "mock" <=> profile.mode = "fixtures"
       /\ profile.environment = "production" => t.host # "override"
  /\ \A t \in exchange.target : profile.environment = "production" => t.scheme = "https"

\* The limit on the body is no second limit on the document: a body of one
\* JSON value with at most Slack - 3 bytes around a document of at most
\* maxPDFBytes is not too large, and no larger document reaches the SDK.
DocumentLimit ==
  /\ exchange.document => exchange.body.length <= MaxPDF
  /\ exchange.handler \in {"start", "verify"} /\ exchange.code = 413 =>
       \/ exchange.body.length > MaxPDF
       \/ exchange.body.envelope + 3 > Slack
=============================================================================
