----------------------------- MODULE ApiProofs -----------------------------
(***************************************************************************)
(* The properties of Api for every environment, body, journey and limit.   *)
(*                                                                         *)
(* Each property is about the last exchange and the configuration, which   *)
(* is fixed while requests are served; so it suffices to look at each      *)
(* handler once, in a gateway whose configuration was Accepted.            *)
(***************************************************************************)
EXTENDS Api, ConfigProofs

ConstType ==
  /\ step \in {"ttl", "auth", "static", "mode", "urls", "browser", "loaded", "refused",
               "serving", "invalid"}
  /\ journey \in [Journeys -> {"none", "waiting", "over"}]
  /\ clientState \in [Journeys -> {"", "set"}]

\* Before the gateway serves, nothing has happened.
Idle ==
  step # "serving" =>
    /\ exchange = Request("GET", "other", FALSE)
    /\ journey = [j \in Journeys |-> "none"]

\* A journey that may end in the browser has the client state to do so with.
Known ==
  \A j \in Journeys :
    journey[j] # "none" /\ profile.returnURL.form # "absent" => clientState[j] # ""

\* What is to be shown of an exchange.
Sound ==
  /\ exchange \in Exchange
  /\ PrivateIsGuarded
  /\ CallbackIsServed
  /\ ReturnIsComplete
  /\ HostsKeptApart
  /\ DocumentLimit

ApiInv == LoadInv /\ ConstType /\ Idle /\ Known /\ Sound

-----------------------------------------------------------------------------
\* Lengths and hosts

\* Base64 with its padding takes at most three bytes more than the 4/3 of
\* the limit on the body.
LEMMA Expansion ==
  ASSUME NEW n \in Nat, NEW m \in Nat, n <= m
  PROVE  4 * ((n + 2) \div 3) <= (m * 4) \div 3 + 3
BY SMT

LEMMA LengthType ==
  ASSUME NEW n \in Nat
  PROVE  4 * ((n + 2) \div 3) \in Nat /\ (n * 4) \div 3 \in Nat
BY SMT

\* A body is too large only if its document or what is around it is.
LEMMA SizeLimit ==
  ASSUME NEW b \in Body, Size(b) > maxPDFJSONBodyBytes, ~(b.length > MaxPDF)
  PROVE  b.envelope + 3 > Slack
<1>1. b.length \in Nat /\ b.envelope \in Nat /\ MaxPDF \in Nat /\ Slack \in Nat
  BY ApiAssumption DEF Body
<1> DEFINE E == 4 * ((b.length + 2) \div 3)
           M == (MaxPDF * 4) \div 3
<1>2. E \in Nat /\ M \in Nat
  BY <1>1, LengthType
<1>3. E <= M + 3
  BY <1>1, Expansion
<1>4. b.envelope + (IF b.document = "absent" THEN 0 ELSE E) > M + Slack
  BY DEF Size, EncodedLen, maxPDFJSONBodyBytes
<1> HIDE DEF E, M
<1>5. CASE b.document = "absent"
  BY <1>1, <1>2, <1>4, <1>5
<1>6. CASE b.document # "absent"
  BY <1>1, <1>2, <1>3, <1>4, <1>6
<1> QED
  BY <1>5, <1>6

LEMMA ConfigFacts ==
  ASSUME LoadInv, step = "serving"
  PROVE  /\ Accepted
         /\ env \in Env /\ profile \in Profile
         /\ profile.authEnabled = (env.apiKey # "") /\ profile.apiKey = env.apiKey
         /\ env.apiKey = "" => env.authDisabled
         /\ profile.mode \in {"fixtures", "live"}
         /\ profile.mode = "fixtures" =>
              profile.baseURL.form = "absolute" /\ profile.publicBaseURL.form = "absolute"
         /\ profile.environment = "production" =>
              /\ profile.sdkBaseURL = ""
              /\ profile.publicBaseURL.form # "absent" => profile.publicBaseURL.scheme = "https"
<1>1. Accepted /\ env \in Env /\ profile \in Profile
  BY EnvironmentsAssumption DEF LoadInv, LoadTypeOK, BeforeMode
<1>2. Kept /\ AuthPassed /\ ModePassed /\ URLsPassed /\ CompleteProfile(profile)
  BY <1>1 DEF Accepted
<1>3. env.apiKey \in {"", "key"} /\ env.authDisabled \in BOOLEAN
  BY <1>1 DEF Env
<1>4. /\ profile.authEnabled = (env.apiKey # "") /\ profile.apiKey = env.apiKey
      /\ env.apiKey = "" => env.authDisabled
  BY <1>2, <1>3 DEF AuthPassed, Kept
<1>5. profile.mode \in {"fixtures", "live"}
  BY <1>2 DEF ModePassed
<1>6. profile.mode = "fixtures" =>
        profile.baseURL.form = "absolute" /\ profile.publicBaseURL.form = "absolute"
  BY <1>2 DEF CompleteProfile, AbsoluteURL
<1>7. profile.environment = "production" =>
        /\ profile.sdkBaseURL = ""
        /\ profile.publicBaseURL.form # "absent" => profile.publicBaseURL.scheme = "https"
  BY <1>2 DEF Kept, URLsPassed, Default
<1> QED
  BY <1>1, <1>4, <1>5, <1>6, <1>7

\* The callback of a gateway that tells Cleverbase of it is routed.
LEMMA CallbackRouted ==
  ASSUME LoadInv, step = "serving", profile.redirectURI.path = "callback"
  PROVE  profile.returnURL.form # "absent"
<1>1. Accepted /\ ModePassed /\ URLsPassed
  BY ConfigFacts DEF Accepted
<1>2. env.redirectURI.path = "callback"
  BY <1>1 DEF ModePassed, Defaulted, AsRead
<1> QED
  BY <1>1, <1>2 DEF Accepted, Acceptable, Documented, URLsPassed

\* A host that the gateway contacts or leads a browser to.
Apart(t) ==
  /\ t \in Target
  /\ t.host = "mock" <=> profile.mode = "fixtures"
  /\ profile.environment = "production" => t.host # "override"

LEMMA SchemeOf == ASSUME NEW u \in URL PROVE u.scheme \in {"http", "https", "other"}
BY DEF URL, AbsoluteURL, NoURL, RelativeURL

LEMMA ProviderHost ==
  ASSUME LoadInv, step = "serving"
  PROVE  /\ Provider \in Target /\ Provider.host # "mock"
         /\ profile.environment = "production" =>
              Provider.host # "override" /\ Provider.scheme = "https"
<1>1. CASE profile.sdkBaseURL = ""
  BY <1>1 DEF Provider, Target
<1>2. CASE profile.sdkBaseURL # ""
  <2>1. profile.environment # "production"
    BY <1>2, ConfigFacts
  <2> QED
    BY <1>2, <2>1 DEF Provider, Target
<1> QED
  BY <1>1, <1>2

LEMMA EffectsApart ==
  ASSUME LoadInv, step = "serving", NEW t \in Effects
  PROVE  Apart(Rewrite(t, internalRewrite))
<1>1. profile.baseURL \in URL /\ profile.tsaURL \in URL
  BY ConfigFacts DEF Profile
<1>2. profile.baseURL.scheme \in {"http", "https", "other"}
  BY <1>1, SchemeOf
<1>3. profile.tsaURL.scheme \in {"http", "https", "other"}
  BY <1>1, SchemeOf
<1>4. /\ t \in Target /\ t.host # "mock"
      /\ profile.environment = "production" => t.host # "override"
  <2>1. CASE t = Provider
    BY <2>1, ProviderHost
  <2>2. CASE t = [host |-> "tsa", scheme |-> profile.tsaURL.scheme]
    BY <1>3, <2>2 DEF Target
  <2> QED
    BY <2>1, <2>2 DEF Effects
<1>5. CASE profile.mode = "fixtures"
  <2>1. Rewrite(t, internalRewrite) = [host |-> "mock", scheme |-> profile.baseURL.scheme]
    BY <1>5, ConfigFacts DEF Rewrite, internalRewrite
  <2> QED
    BY <1>2, <1>5, <2>1 DEF Apart, Target
<1>6. CASE profile.mode = "live"
  <2>1. Rewrite(t, internalRewrite) = t
    BY <1>6 DEF Rewrite, internalRewrite, NoURL
  <2> QED
    BY <1>4, <1>6, <2>1 DEF Apart
<1> QED
  BY <1>5, <1>6, ConfigFacts

LEMMA ProviderApart ==
  ASSUME LoadInv, step = "serving"
  PROVE  /\ Apart(Rewrite(Provider, publicRewrite))
         /\ profile.environment = "production" =>
              Rewrite(Provider, publicRewrite).scheme = "https"
<1>1. profile.publicBaseURL \in URL
  BY ConfigFacts DEF Profile
<1>2. profile.publicBaseURL.scheme \in {"http", "https", "other"}
  BY <1>1, SchemeOf
<1>3. /\ Provider \in Target /\ Provider.host # "mock"
      /\ profile.environment = "production" =>
           Provider.host # "override" /\ Provider.scheme = "https"
  BY ProviderHost
<1>4. CASE profile.mode = "fixtures"
  <2>1. Rewrite(Provider, publicRewrite)
          = [host |-> "mock", scheme |-> profile.publicBaseURL.scheme]
    BY <1>4, ConfigFacts DEF Rewrite, publicRewrite
  <2>2. profile.environment = "production" => profile.publicBaseURL.scheme = "https"
    BY <1>4, ConfigFacts
  <2> QED
    BY <1>2, <1>4, <2>1, <2>2 DEF Apart, Target
<1>5. CASE profile.mode = "live"
  <2>1. Rewrite(Provider, publicRewrite) = Provider
    BY <1>5 DEF Rewrite, publicRewrite, NoURL
  <2> QED
    BY <1>3, <1>5, <2>1 DEF Apart
<1> QED
  BY <1>4, <1>5, ConfigFacts

\* A return URL that was accepted keeps the parameters it is given.
LEMMA ReturnURL ==
  ASSUME LoadInv, step = "serving", profile.returnURL.form # "absent"
  PROVE  profile.returnURL.form = "absolute" /\ ~profile.returnURL.extra
<1>1. Acceptable(env) /\ CompleteProfile(profile) /\ profile.returnURL = env.returnURL
  BY ConfigFacts DEF Accepted, URLsPassed
<1>2. profile.returnURL \in AbsoluteURL \cup {NoURL}
  BY <1>1 DEF CompleteProfile
<1>3. profile.returnURL.form = "absolute"
  BY <1>2 DEF AbsoluteURL, NoURL
<1>4. ~env.returnURL.extra
  BY <1>1 DEF Acceptable, Documented
<1> QED
  BY <1>1, <1>3, <1>4

-----------------------------------------------------------------------------
\* Requests and their answers

LEMMA RequestFields ==
  ASSUME NEW r \in Requests
  PROVE  /\ r \in Exchange
         /\ r.handler = "other" /\ r.code = 404 /\ r.document = FALSE
         /\ r.contacted = {} /\ r.to = "nowhere" /\ r.target = {} /\ r.about = {}
<1>1. PICK method \in {"GET", "HEAD", "POST"}, path \in Paths, keyed \in BOOLEAN :
        r = Request(method, path, keyed)
  BY DEF Requests
<1>2. NoBody \in Body
  BY DEF NoBody, Body
<1> QED
  BY <1>1, <1>2 DEF Request, Exchange, Paths

\* How an answer is put together, field by field.
Codes == {200, 302, 400, 401, 404, 405, 409, 413, 500}

LEMMA WithBody ==
  ASSUME NEW r \in Exchange, NEW v \in Body, NEW x, x = [r EXCEPT !.body = v]
  PROVE  /\ x \in Exchange /\ x.body = v
         /\ x.method = r.method /\ x.path = r.path /\ x.keyed = r.keyed /\ x.handler = r.handler
         /\ x.code = r.code /\ x.document = r.document /\ x.contacted = r.contacted /\ x.to = r.to
         /\ x.target = r.target /\ x.about = r.about
BY DEF Exchange

LEMMA WithHandler ==
  ASSUME NEW r \in Exchange, NEW v \in Paths, NEW x, x = [r EXCEPT !.handler = v]
  PROVE  /\ x \in Exchange /\ x.handler = v
         /\ x.method = r.method /\ x.path = r.path /\ x.keyed = r.keyed /\ x.body = r.body
         /\ x.code = r.code /\ x.document = r.document /\ x.contacted = r.contacted /\ x.to = r.to
         /\ x.target = r.target /\ x.about = r.about
BY DEF Exchange

LEMMA WithCode ==
  ASSUME NEW r \in Exchange, NEW v \in Codes, NEW x, x = [r EXCEPT !.code = v]
  PROVE  /\ x \in Exchange /\ x.code = v
         /\ x.method = r.method /\ x.path = r.path /\ x.keyed = r.keyed /\ x.body = r.body
         /\ x.handler = r.handler /\ x.document = r.document /\ x.contacted = r.contacted /\ x.to = r.to
         /\ x.target = r.target /\ x.about = r.about
BY DEF Exchange, Codes

LEMMA WithDocument ==
  ASSUME NEW r \in Exchange, NEW v \in BOOLEAN, NEW x, x = [r EXCEPT !.document = v]
  PROVE  /\ x \in Exchange /\ x.document = v
         /\ x.method = r.method /\ x.path = r.path /\ x.keyed = r.keyed /\ x.body = r.body
         /\ x.handler = r.handler /\ x.code = r.code /\ x.contacted = r.contacted /\ x.to = r.to
         /\ x.target = r.target /\ x.about = r.about
BY DEF Exchange

LEMMA WithContacted ==
  ASSUME NEW r \in Exchange, NEW v \in SUBSET Target, NEW x, x = [r EXCEPT !.contacted = v]
  PROVE  /\ x \in Exchange /\ x.contacted = v
         /\ x.method = r.method /\ x.path = r.path /\ x.keyed = r.keyed /\ x.body = r.body
         /\ x.handler = r.handler /\ x.code = r.code /\ x.document = r.document /\ x.to = r.to
         /\ x.target = r.target /\ x.about = r.about
BY DEF Exchange

LEMMA WithTo ==
  ASSUME NEW r \in Exchange, NEW v \in {"nowhere", "provider", "application"},
         NEW x, x = [r EXCEPT !.to = v]
  PROVE  /\ x \in Exchange /\ x.to = v
         /\ x.method = r.method /\ x.path = r.path /\ x.keyed = r.keyed /\ x.body = r.body
         /\ x.handler = r.handler /\ x.code = r.code /\ x.document = r.document
         /\ x.contacted = r.contacted
         /\ x.target = r.target /\ x.about = r.about
BY DEF Exchange

LEMMA WithTarget ==
  ASSUME NEW r \in Exchange, NEW v \in SUBSET Target, NEW x, x = [r EXCEPT !.target = v]
  PROVE  /\ x \in Exchange /\ x.target = v
         /\ x.method = r.method /\ x.path = r.path /\ x.keyed = r.keyed /\ x.body = r.body
         /\ x.handler = r.handler /\ x.code = r.code /\ x.document = r.document
         /\ x.contacted = r.contacted
         /\ x.to = r.to /\ x.about = r.about
BY DEF Exchange

LEMMA WithAbout ==
  ASSUME NEW r \in Exchange, NEW v \in SUBSET Journeys, NEW x, x = [r EXCEPT !.about = v]
  PROVE  /\ x \in Exchange /\ x.about = v
         /\ x.method = r.method /\ x.path = r.path /\ x.keyed = r.keyed /\ x.body = r.body
         /\ x.handler = r.handler /\ x.code = r.code /\ x.document = r.document
         /\ x.contacted = r.contacted
         /\ x.to = r.to /\ x.target = r.target
BY DEF Exchange

\* Whom a handler of a private route serves.
LEMMA Guarded ==
  ASSUME LoadInv, NEW r \in Requests, NEW p, Served(r, p)
  PROVE  /\ step = "serving" /\ r.path = p
         /\ p \in Private => r.keyed \/ (env.authDisabled /\ env.apiKey = "")
         /\ p = "callback" => profile.returnURL.form # "absent"
<1>1. step = "serving" /\ r.path = p /\ authMiddleware(r) /\ Registered(p)
  BY DEF Served
<1>2. CASE env.apiKey = ""
  BY <1>1, <1>2, ConfigFacts DEF Registered
<1>3. CASE env.apiKey # ""
  BY <1>1, <1>3, ConfigFacts DEF Registered, authMiddleware, Authenticated, Private
<1> QED
  BY <1>2, <1>3

LEMMA AnswerFields ==
  ASSUME NEW r \in Requests, NEW p \in Paths, NEW code \in Codes, NEW x, x = Answer(r, p, code)
  PROVE  /\ x \in Exchange
         /\ x.method = r.method /\ x.path = r.path /\ x.keyed = r.keyed
         /\ x.handler = p /\ x.code = code
         /\ x.document = FALSE /\ x.contacted = {} /\ x.to = "nowhere" /\ x.target = {}
<1> DEFINE y == [r EXCEPT !.handler = p]
<1>1. x = [y EXCEPT !.code = code] /\ r \in Exchange
  BY RequestFields DEF Answer
<1>2. /\ y \in Exchange /\ y.handler = p
      /\ y.method = r.method /\ y.path = r.path /\ y.keyed = r.keyed /\ y.document = r.document
      /\ y.contacted = r.contacted /\ y.to = r.to /\ y.target = r.target
  BY <1>1, WithHandler
<1> HIDE DEF y
<1>3. /\ x \in Exchange /\ x.code = code
      /\ x.method = y.method /\ x.path = y.path /\ x.keyed = y.keyed /\ x.handler = y.handler
      /\ x.document = y.document /\ x.contacted = y.contacted /\ x.to = y.to
      /\ x.target = y.target
  BY <1>1, <1>2, WithCode
<1> QED
  BY <1>2, <1>3, RequestFields

\* An answer of the handler of p that leads to no wrong place and keeps to
\* the limits.
Good(r, p, x) ==
  /\ x \in Exchange
  /\ x.path = r.path /\ x.keyed = r.keyed /\ x.handler = p
  /\ \A t \in x.contacted : Apart(t)
  /\ x.target # {} => x.target = {Rewrite(Provider, publicRewrite)}
  /\ x.document => ~(x.body.length > MaxPDF)
  /\ p \in {"start", "verify"} /\ x.code = 413 =>
       x.body.length > MaxPDF \/ x.body.envelope + 3 > Slack

\* Such an answer keeps the invariant, if only the callback leads to the
\* application, and not for a journey that never was.
LEMMA SoundAnswer ==
  ASSUME ApiInv, NEW r \in Requests, NEW p \in Paths \ {"other"}, Served(r, p),
         UNCHANGED configVars, ConstType', Known', Good(r, p, exchange'),
         exchange'.to = "application" =>
           p = "callback" /\ \A j \in exchange'.about : journey'[j] # "none"
  PROVE  ApiInv'
<1> USE DEF Good
<1>0. LoadInv
  BY DEF ApiInv
<1>1. /\ step = "serving" /\ r.path = p
      /\ p \in Private => r.keyed \/ (env.authDisabled /\ env.apiKey = "")
      /\ p = "callback" => profile.returnURL.form # "absent"
  BY <1>0, Guarded
<1>2. env' = env /\ profile' = profile /\ step' = step
  BY DEF configVars
<1>3. PrivateIsGuarded'
  BY <1>1, <1>2 DEF PrivateIsGuarded
<1>4. CallbackIsServed'
  BY <1>1 DEF CallbackIsServed
<1>5. ReturnIsComplete'
  <2> SUFFICES ASSUME exchange'.to = "application"
               PROVE  /\ profile'.returnURL.form = "absolute" /\ ~profile'.returnURL.extra
                      /\ \A j \in exchange'.about : clientState'[j] # ""
    BY DEF ReturnIsComplete
  <2>1. profile.returnURL.form # "absent"
    BY <1>1
  <2>2. exchange'.about \subseteq Journeys
    BY DEF Exchange
  <2> QED
    BY <1>0, <1>1, <1>2, <2>1, <2>2, ReturnURL DEF Known
<1>6. HostsKeptApart'
  <2>1. \A t \in exchange'.target :
          Apart(t) /\ (profile.environment = "production" => t.scheme = "https")
    BY <1>0, <1>1, ProviderApart
  <2> QED
    BY ZenonT(60), <1>2, <2>1 DEF HostsKeptApart, Apart
<1>7. DocumentLimit'
  <2>1. exchange'.body.length \in Nat /\ MaxPDF \in Nat
    BY ZenonT(60), ApiAssumption DEF Exchange, Body
  <2>2. exchange'.document => exchange'.body.length <= MaxPDF
    BY <2>1
  <2> QED
    BY <2>2 DEF DocumentLimit
<1>8. LoadInv'
  BY <1>0, LoadStutters
<1>9. Idle'
  BY <1>1, <1>2 DEF Idle
<1> QED
  BY <1>3, <1>4, <1>5, <1>6, <1>7, <1>8, <1>9 DEF ApiInv, Sound

LEMMA Rejected ==
  ASSUME ApiInv, NEW r \in Requests, Reject(r)
  PROVE  ApiInv'
<1>1. step = "serving" /\ env' = env /\ profile' = profile /\ step' = step
  BY DEF Reject, configVars
<1>2. LoadInv /\ LoadInv'
  BY LoadStutters DEF ApiInv, Reject
<1>3. ConstType' /\ Idle' /\ Known'
  BY <1>1 DEF ApiInv, Reject, ConstType, Idle, Known
<1>4. exchange' = r \/ \E code \in {401, 405} : exchange' = [r EXCEPT !.code = code]
  BY DEF Reject
<1> DEFINE Plain(x) ==
             /\ x \in Exchange /\ x.handler = "other" /\ ~x.document
             /\ x.contacted = {} /\ x.target = {} /\ x.to = "nowhere"
             /\ x.path = r.path /\ x.method = r.method
<1>5. Plain(r)
  BY ZenonT(60), RequestFields
<1>6. ASSUME NEW code \in {401, 405}
      PROVE  Plain([r EXCEPT !.code = code])
  <2>1. r \in Exchange /\ code \in Codes
    BY <1>5 DEF Codes
  <2> QED
    BY <1>5, <2>1, WithCode
<1>7. Plain(exchange')
  <2> HIDE DEF Plain
  <2> QED
    BY <1>4, <1>5, <1>6
<1>8. /\ exchange' \in Exchange /\ exchange'.handler = "other" /\ ~exchange'.document
      /\ exchange'.contacted = {} /\ exchange'.target = {} /\ exchange'.to = "nowhere"
      /\ exchange'.path = r.path /\ exchange'.method = r.method
  BY <1>7
<1>9. CallbackIsServed'
  <2> SUFFICES ASSUME profile'.redirectURI.path = "callback", r.path = "callback", r.method = "GET"
               PROVE  FALSE
    BY <1>8 DEF CallbackIsServed
  <2>1. profile.returnURL.form # "absent"
    BY <1>1, <1>2, CallbackRouted
  <2>2. authMiddleware(r) /\ Registered(r.path)
    BY <2>1 DEF authMiddleware, Registered
  <2>3. r.method \in Methods(r.path)
    BY DEF Methods
  <2> QED
    BY <2>2, <2>3 DEF Reject
<1>10. PrivateIsGuarded' /\ ReturnIsComplete' /\ HostsKeptApart' /\ DocumentLimit'
  BY <1>8 DEF PrivateIsGuarded, Private, ReturnIsComplete, HostsKeptApart, DocumentLimit
<1> QED
  BY <1>2, <1>3, <1>8, <1>9, <1>10 DEF ApiInv, Sound

-----------------------------------------------------------------------------
\* The handlers

LEMMA GoodRedirect ==
  ASSUME LoadInv, step = "serving", NEW r \in Requests, NEW p, NEW x, Good(r, p, x)
  PROVE  Good(r, p, ProviderRedirect(x)) /\ ProviderRedirect(x).to = "provider"
<1> DEFINE y == [x EXCEPT !.to = "provider"]
           u == Rewrite(Provider, publicRewrite)
           z == [y EXCEPT !.target = {u}]
<1>1. x \in Exchange
  BY DEF Good
<1>2. /\ y \in Exchange /\ y.to = "provider"
      /\ y.path = x.path /\ y.keyed = x.keyed /\ y.body = x.body /\ y.handler = x.handler
      /\ y.code = x.code /\ y.document = x.document /\ y.contacted = x.contacted
  BY <1>1, WithTo
<1>3. {u} \in SUBSET Target
  BY ProviderApart DEF Apart
<1>4. /\ z \in Exchange /\ z.to = y.to /\ z.target = {u}
      /\ z.path = y.path /\ z.keyed = y.keyed /\ z.body = y.body /\ z.handler = y.handler
      /\ z.code = y.code /\ z.document = y.document /\ z.contacted = y.contacted
  <2> HIDE DEF y, u
  <2> QED
    BY <1>2, <1>3, WithTarget
<1>5. ProviderRedirect(x) = z
  BY DEF ProviderRedirect
<1> HIDE DEF y, z
<1>6. Good(r, p, z)
  BY <1>2, <1>4 DEF Good
<1> QED
  BY <1>2, <1>4, <1>5, <1>6

\* A handler that answers without upstream effects.
LEMMA GoodAnswer ==
  ASSUME NEW r \in Requests, NEW p \in Paths, NEW code \in Codes,
         code # 413 \/ p \notin {"start", "verify"}
  PROVE  /\ Good(r, p, Answer(r, p, code))
         /\ Answer(r, p, code).to = "nowhere"
<1> DEFINE x == Answer(r, p, code)
<1>1. /\ x \in Exchange
      /\ x.method = r.method /\ x.path = r.path /\ x.keyed = r.keyed
      /\ x.handler = p /\ x.code = code
      /\ x.document = FALSE /\ x.contacted = {} /\ x.to = "nowhere" /\ x.target = {}
  BY AnswerFields
<1> HIDE DEF x
<1>2. Good(r, p, x) /\ x.to = "nowhere"
  BY <1>1 DEF Good
<1> QED
  BY <1>2 DEF x

\* What is added to the answer about a document ...
Limited(b, code) == code = 413 => b.length > MaxPDF \/ b.envelope + 3 > Slack

LEMMA GoodBody ==
  ASSUME NEW r \in Requests, NEW p \in {"start", "verify"}, NEW code \in Codes, NEW b \in Body,
         Limited(b, code)
  PROVE  /\ Good(r, p, [Answer(r, p, code) EXCEPT !.body = b])
         /\ [Answer(r, p, code) EXCEPT !.body = b].to = "nowhere"
         /\ [Answer(r, p, code) EXCEPT !.body = b].body = b
<1> DEFINE a == Answer(r, p, code)
           x == [a EXCEPT !.body = b]
<1>1. p \in Paths
  BY DEF Paths
<1>2. /\ a \in Exchange
      /\ a.method = r.method /\ a.path = r.path /\ a.keyed = r.keyed
      /\ a.handler = p /\ a.code = code
      /\ a.document = FALSE /\ a.contacted = {} /\ a.to = "nowhere" /\ a.target = {}
  BY <1>1, AnswerFields
<1> HIDE DEF a
<1>3. /\ x \in Exchange /\ x.body = b
      /\ x.path = a.path /\ x.keyed = a.keyed /\ x.handler = a.handler
      /\ x.code = a.code /\ x.document = a.document /\ x.contacted = a.contacted /\ x.to = a.to
      /\ x.target = a.target
  BY <1>2, WithBody
<1> HIDE DEF x
<1>4. Good(r, p, x) /\ x.to = "nowhere" /\ x.body = b
  BY <1>2, <1>3 DEF Good, Limited
<1> QED
  BY <1>4 DEF a, x

LEMMA GoodDocument ==
  ASSUME NEW r \in Requests, NEW p, NEW x, Good(r, p, x),
         NEW d \in BOOLEAN, (d = TRUE => ~(x.body.length > MaxPDF))
  PROVE  /\ Good(r, p, [x EXCEPT !.document = d])
         /\ [x EXCEPT !.document = d].to = x.to
<1> DEFINE y == [x EXCEPT !.document = d]
<1>1. x \in Exchange
  BY DEF Good
<1>2. /\ y \in Exchange /\ y.document = d
      /\ y.path = x.path /\ y.keyed = x.keyed /\ y.body = x.body /\ y.handler = x.handler
      /\ y.code = x.code /\ y.contacted = x.contacted /\ y.to = x.to /\ y.target = x.target
  BY <1>1, WithDocument
<1> HIDE DEF y
<1>3. Good(r, p, y) /\ y.to = x.to
  BY <1>2 DEF Good
<1> QED
  BY <1>3 DEF y

\* ... and to one about a journey.
LEMMA GoodAbout ==
  ASSUME NEW r \in Requests, NEW p, NEW x, Good(r, p, x), NEW j \in Journeys
  PROVE  /\ Good(r, p, [x EXCEPT !.about = {j}])
         /\ [x EXCEPT !.about = {j}].to = x.to /\ [x EXCEPT !.about = {j}].about = {j}
         /\ [x EXCEPT !.about = {j}].body = x.body
<1> DEFINE y == [x EXCEPT !.about = {j}]
<1>1. x \in Exchange /\ {j} \in SUBSET Journeys
  BY DEF Good
<1>2. /\ y \in Exchange /\ y.about = {j}
      /\ y.path = x.path /\ y.keyed = x.keyed /\ y.body = x.body /\ y.handler = x.handler
      /\ y.code = x.code /\ y.document = x.document /\ y.contacted = x.contacted /\ y.to = x.to
      /\ y.target = x.target
  BY <1>1, WithAbout
<1> HIDE DEF y
<1>3. Good(r, p, y) /\ y.to = x.to /\ y.about = {j} /\ y.body = x.body
  BY <1>2 DEF Good
<1> QED
  BY <1>3 DEF y

LEMMA GoodContacted ==
  ASSUME NEW r \in Requests, NEW p, NEW x, Good(r, p, x),
         NEW c, \A t \in c : Apart(t)
  PROVE  /\ Good(r, p, [x EXCEPT !.contacted = c])
         /\ [x EXCEPT !.contacted = c].to = x.to /\ [x EXCEPT !.contacted = c].about = x.about
<1> DEFINE y == [x EXCEPT !.contacted = c]
<1>1. x \in Exchange /\ c \in SUBSET Target
  BY DEF Good, Apart
<1>2. /\ y \in Exchange /\ y.contacted = c
      /\ y.path = x.path /\ y.keyed = x.keyed /\ y.body = x.body /\ y.handler = x.handler
      /\ y.code = x.code /\ y.document = x.document /\ y.to = x.to
      /\ y.target = x.target /\ y.about = x.about
  BY <1>1, WithContacted
<1> HIDE DEF y
<1>3. Good(r, p, y) /\ y.to = x.to /\ y.about = x.about
  BY <1>2 DEF Good
<1> QED
  BY <1>3 DEF y

LEMMA GoodCode ==
  ASSUME NEW r \in Requests, NEW p, p \notin {"start", "verify"}, NEW x, Good(r, p, x),
         NEW code \in Codes
  PROVE  /\ Good(r, p, [x EXCEPT !.code = code])
         /\ [x EXCEPT !.code = code].to = x.to
<1> DEFINE y == [x EXCEPT !.code = code]
<1>1. x \in Exchange
  BY DEF Good
<1>2. /\ y \in Exchange
      /\ y.path = x.path /\ y.keyed = x.keyed /\ y.body = x.body /\ y.handler = x.handler
      /\ y.document = x.document /\ y.contacted = x.contacted /\ y.to = x.to
      /\ y.target = x.target /\ y.about = x.about
  BY <1>1, WithCode
<1> HIDE DEF y
<1>3. Good(r, p, y) /\ y.to = x.to
  BY <1>2 DEF Good
<1> QED
  BY <1>3 DEF y

LEMMA GoodReturn ==
  ASSUME NEW r \in Requests, NEW p, NEW x, Good(r, p, x)
  PROVE  /\ Good(r, p, [x EXCEPT !.to = "application"])
         /\ [x EXCEPT !.to = "application"].about = x.about
<1> DEFINE y == [x EXCEPT !.to = "application"]
<1>1. x \in Exchange
  BY DEF Good
<1>2. /\ y \in Exchange
      /\ y.path = x.path /\ y.keyed = x.keyed /\ y.body = x.body /\ y.handler = x.handler
      /\ y.document = x.document /\ y.contacted = x.contacted /\ y.code = x.code
      /\ y.target = x.target /\ y.about = x.about
  BY <1>1, WithTo
<1> HIDE DEF y
<1>3. Good(r, p, y) /\ y.about = x.about
  BY <1>2 DEF Good
<1> QED
  BY <1>3 DEF y

\* Requests that leave the journeys alone.
LEMMA Untouched ==
  ASSUME ApiInv, UNCHANGED <<configVars, journey, clientState>>
  PROVE  UNCHANGED configVars /\ ConstType' /\ Known'
BY DEF ApiInv, ConstType, Known, configVars

LEMMA Serves ==
  ASSUME ApiInv, NEW r \in Requests, NEW p, Served(r, p)
  PROVE  LoadInv /\ ConstType /\ Known /\ step = "serving"
BY DEF ApiInv, Served

LEMMA Reads ==
  ASSUME ApiInv, NEW r \in Requests, NEW p \in {"status", "result", "health"},
         Served(r, p), UNCHANGED <<configVars, journey, clientState>>,
         NEW code \in Codes,
         \/ exchange' = Answer(r, p, code)
         \/ \E j \in Journeys : exchange' = [Answer(r, p, code) EXCEPT !.about = {j}]
  PROVE  ApiInv'
<1>1. p \in Paths \ {"other"} /\ p \notin {"start", "verify"}
  BY DEF Paths
<1>2. Good(r, p, Answer(r, p, code)) /\ Answer(r, p, code).to = "nowhere"
  BY <1>1, GoodAnswer
<1>3. Good(r, p, exchange') /\ exchange'.to = "nowhere"
  <2>1. CASE exchange' = Answer(r, p, code)
    BY <1>2, <2>1
  <2>2. ASSUME NEW j \in Journeys, exchange' = [Answer(r, p, code) EXCEPT !.about = {j}]
        PROVE  Good(r, p, exchange') /\ exchange'.to = "nowhere"
    <3> DEFINE x == Answer(r, p, code)
    <3>1. Good(r, p, x) /\ x.to = "nowhere" /\ exchange' = [x EXCEPT !.about = {j}]
      BY <1>2, <2>2
    <3> HIDE DEF x
    <3> QED
      BY <3>1, GoodAbout
  <2> QED
    BY <2>1, <2>2
<1>4. UNCHANGED configVars /\ ConstType' /\ Known'
  BY Untouched
<1> QED
  BY <1>1, <1>3, <1>4, SoundAnswer

LEMMA StatusAnswered ==
  ASSUME ApiInv, NEW r \in Requests, NEW j \in Journeys, handleStatus(j, r)
  PROVE  ApiInv'
<1>1. PICK code \in {200, 404} : exchange' = [Answer(r, "status", code) EXCEPT !.about = {j}]
  BY DEF handleStatus
<1>2. Served(r, "status") /\ UNCHANGED <<configVars, journey, clientState>> /\ code \in Codes
  BY <1>1 DEF handleStatus, Codes
<1> QED
  BY <1>1, <1>2, Reads

LEMMA ResultAnswered ==
  ASSUME ApiInv, NEW r \in Requests, NEW j \in Journeys, handleResult(j, r)
  PROVE  ApiInv'
<1>1. PICK code \in {200, 404, 409} :
        exchange' = [Answer(r, "result", code) EXCEPT !.about = {j}]
  BY DEF handleResult
<1>2. Served(r, "result") /\ UNCHANGED <<configVars, journey, clientState>> /\ code \in Codes
  BY <1>1 DEF handleResult, Codes
<1> QED
  BY <1>1, <1>2, Reads

LEMMA HealthAnswered ==
  ASSUME ApiInv, NEW r \in Requests, handleHealth(r)
  PROVE  ApiInv'
<1>1. /\ Served(r, "health") /\ UNCHANGED <<configVars, journey, clientState>>
      /\ exchange' = Answer(r, "health", 200) /\ 200 \in Codes
  BY DEF handleHealth, Codes
<1> QED
  BY <1>1, Reads

\* An answer about a document that starts no journey.
Told(r, p, code, b, d) == [Answer(r, p, code) EXCEPT !.body = b, !.document = d]

LEMMA GoodTold ==
  ASSUME NEW r \in Requests, NEW p \in {"start", "verify"}, NEW code \in Codes, NEW b \in Body,
         Limited(b, code)
  PROVE  /\ Good(r, p, Told(r, p, code, b, FALSE)) /\ Told(r, p, code, b, FALSE).to = "nowhere"
         /\ b.length > MaxPDF \/
              /\ Good(r, p, Told(r, p, code, b, TRUE)) /\ Told(r, p, code, b, TRUE).to = "nowhere"
<1> DEFINE x == [Answer(r, p, code) EXCEPT !.body = b]
<1>1. Good(r, p, x) /\ x.to = "nowhere" /\ x.body = b
  BY GoodBody
<1>2. /\ Told(r, p, code, b, FALSE) = [x EXCEPT !.document = FALSE]
      /\ Told(r, p, code, b, TRUE) = [x EXCEPT !.document = TRUE]
  BY DEF Told
<1> HIDE DEF x
<1>3. Good(r, p, [x EXCEPT !.document = FALSE]) /\ [x EXCEPT !.document = FALSE].to = "nowhere"
  BY <1>1, GoodDocument
<1>4. ASSUME ~(b.length > MaxPDF)
      PROVE  Good(r, p, [x EXCEPT !.document = TRUE]) /\ [x EXCEPT !.document = TRUE].to = "nowhere"
  <2>1. ~(x.body.length > MaxPDF)
    BY <1>1, <1>4
  <2> QED
    BY <1>1, <2>1, GoodDocument
<1> QED
  BY <1>2, <1>3, <1>4

Refusal(r, p, code, b) == [Answer(r, p, code) EXCEPT !.body = b]

Allowed(r, p, b, code) ==
  /\ b \in Bodies /\ code \in {200, 400, 413, 500}
  /\ code = 413 => b.length > MaxPDF \/ Size(b) > maxPDFJSONBodyBytes
  /\ \/ exchange' = Refusal(r, p, code, b)
     \/ exchange' = Told(r, p, code, b, FALSE)
     \/ exchange' = Told(r, p, code, b, TRUE) /\ ~(b.length > MaxPDF)

LEMMA Documents ==
  ASSUME ApiInv, NEW r \in Requests, NEW p \in {"start", "verify"}, Served(r, p),
         UNCHANGED <<configVars, journey, clientState>>,
         NEW b, NEW code, Allowed(r, p, b, code)
  PROVE  ApiInv'
<1>1. b \in Body /\ code \in Codes /\ p \in Paths \ {"other"}
  BY ApiAssumption DEF Allowed, Codes, Paths
<1>2. Limited(b, code)
  BY <1>1, SizeLimit DEF Allowed, Limited
<1>3. Good(r, p, exchange') /\ exchange'.to = "nowhere"
  <2>1. CASE exchange' = Refusal(r, p, code, b)
    BY <1>1, <1>2, <2>1, GoodBody DEF Refusal
  <2>2. CASE exchange' = Told(r, p, code, b, FALSE)
    BY <1>1, <1>2, <2>2, GoodTold
  <2>3. CASE exchange' = Told(r, p, code, b, TRUE) /\ ~(b.length > MaxPDF)
    BY <1>1, <1>2, <2>3, GoodTold
  <2> QED
    BY <2>1, <2>2, <2>3 DEF Allowed
<1> QED
  BY <1>1, <1>3, Untouched, SoundAnswer

LEMMA Refusals ==
  ASSUME NEW b, NEW code \in DecodeErrors(b)
  PROVE  code \in {400, 413} /\ (code = 413 => Size(b) > maxPDFJSONBodyBytes)
BY DEF DecodeErrors

LEMMA Verified ==
  ASSUME ApiInv, NEW r \in Requests, handleVerify(r)
  PROVE  ApiInv'
<1>1. Served(r, "verify") /\ UNCHANGED <<configVars, journey, clientState>>
  BY DEF handleVerify
<1>2. PICK b \in Bodies :
        \/ \E code \in DecodeErrors(b) : exchange' = Told(r, "verify", code, b, FALSE)
        \/ exchange' = Told(r, "verify", 400, b, FALSE)
        \/ TooLong(b) /\ exchange' = Told(r, "verify", 413, b, FALSE)
        \/ /\ b.document = "base64" /\ ~TooLong(b)
           /\ \/ exchange' = Told(r, "verify", 200, b, TRUE)
              \/ exchange' = Told(r, "verify", 500, b, TRUE)
  BY ZenonT(120) DEF handleVerify, Told
<1>3. \E code : Allowed(r, "verify", b, code)
  <2>1. CASE \E code \in DecodeErrors(b) : exchange' = Told(r, "verify", code, b, FALSE)
    <3>1. PICK code \in DecodeErrors(b) : exchange' = Told(r, "verify", code, b, FALSE)
      BY <2>1
    <3>2. Allowed(r, "verify", b, code)
      BY <3>1, Refusals DEF Allowed
    <3> QED
      BY <3>2
  <2>2. CASE exchange' = Told(r, "verify", 400, b, FALSE)
    <3>1. Allowed(r, "verify", b, 400)
      BY <2>2 DEF Allowed
    <3> QED
      BY <3>1
  <2>3. CASE TooLong(b) /\ exchange' = Told(r, "verify", 413, b, FALSE)
    <3>1. Allowed(r, "verify", b, 413)
      BY <2>3 DEF Allowed, TooLong
    <3> QED
      BY <3>1
  <2>4. CASE /\ b.document = "base64" /\ ~TooLong(b)
             /\ \/ exchange' = Told(r, "verify", 200, b, TRUE)
                \/ exchange' = Told(r, "verify", 500, b, TRUE)
    <3>0. \A code \in {200, 500} : code \in {200, 400, 413, 500} /\ code # 413
      OBVIOUS
    <3>1. ~(b.length > MaxPDF)
      BY <2>4 DEF TooLong
    <3>2. CASE exchange' = Told(r, "verify", 200, b, TRUE)
      <4>1. Allowed(r, "verify", b, 200)
        BY ZenonT(60), <3>0, <3>1, <3>2 DEF Allowed
      <4> QED
        BY <4>1
    <3>3. CASE exchange' = Told(r, "verify", 500, b, TRUE)
      <4>1. Allowed(r, "verify", b, 500)
        BY ZenonT(60), <3>0, <3>1, <3>3 DEF Allowed
      <4> QED
        BY <4>1
    <3> QED
      BY <2>4, <3>2, <3>3
  <2> QED
    BY <1>2, <2>1, <2>2, <2>3, <2>4
<1> QED
  BY <1>1, <1>3, Documents

\* The journey that a start begins gets a client state if it may need one.
LEMMA Begins ==
  ASSUME ApiInv, NEW r \in Requests, Served(r, "start"), UNCHANGED configVars,
         NEW b \in Bodies, ~BadStart(b), ~TooLong(b), NEW j \in Journeys,
         journey' = [journey EXCEPT ![j] = "waiting"],
         clientState' = [clientState EXCEPT ![j] = b.clientState],
         exchange' = ProviderRedirect(
                       [Answer(r, "start", 200) EXCEPT !.body = b, !.about = {j},
                                                       !.document = b.document = "base64"])
  PROVE  ApiInv'
<1>1. b \in Body /\ 200 \in Codes /\ "start" \in Paths \ {"other"} /\ Limited(b, 200)
  BY ApiAssumption DEF Codes, Paths, Limited
<1>2. LoadInv /\ ConstType /\ Known /\ step = "serving"
  BY Serves
<1> DEFINE x == [Answer(r, "start", 200) EXCEPT !.body = b]
           y == [x EXCEPT !.about = {j}]
           d == b.document = "base64"
           z == [y EXCEPT !.document = d]
<1>3. exchange' = ProviderRedirect(z)
  OBVIOUS
<1>4. Good(r, "start", x) /\ x.body = b
  BY <1>1, GoodBody
<1>5. Good(r, "start", y) /\ y.body = b
  <2> HIDE DEF x
  <2> QED
    BY <1>4, GoodAbout
<1>6. d \in BOOLEAN /\ (d => ~(b.length > MaxPDF))
  BY DEF TooLong
<1>7. Good(r, "start", z)
  <2> HIDE DEF y
  <2>1. d \in BOOLEAN /\ (d => ~(y.body.length > MaxPDF))
    BY <1>5, <1>6
  <2> HIDE DEF d
  <2> QED
    BY <1>5, <2>1, GoodDocument
<1>8. Good(r, "start", exchange') /\ exchange'.to = "provider"
  <2> HIDE DEF z
  <2> QED
    BY <1>2, <1>3, <1>7, GoodRedirect
<1>9. b.clientState \in {"", "set"}
      /\ (profile.returnURL.form # "absent" => b.clientState # "")
  BY <1>1 DEF Body, BadStart
<1>10. ConstType'
  BY <1>2, <1>9 DEF ConstType, configVars
<1>11. Known'
  BY <1>2, <1>9 DEF ConstType, Known, configVars
<1> QED
  BY <1>1, <1>8, <1>10, <1>11, SoundAnswer

LEMMA Started ==
  ASSUME ApiInv, NEW r \in Requests, handleStart(r)
  PROVE  ApiInv'
<1>1. Served(r, "start") /\ UNCHANGED configVars
  BY DEF handleStart
<1> DEFINE X(b, code) == Refusal(r, "start", code, b)
           Same == UNCHANGED <<journey, clientState>>
           Begun(b) ==
             /\ ~BadStart(b) /\ ~TooLong(b)
             /\ \E j \in {k \in Journeys : journey[k] = "none"} :
                  /\ journey' = [journey EXCEPT ![j] = "waiting"]
                  /\ clientState' = [clientState EXCEPT ![j] = b.clientState]
                  /\ exchange' = ProviderRedirect(
                       [Answer(r, "start", 200) EXCEPT !.body = b, !.about = {j},
                                                       !.document = b.document = "base64"])
<1>2. PICK b \in Bodies :
        \/ \E code \in DecodeErrors(b) : exchange' = X(b, code) /\ Same
        \/ exchange' = X(b, 400) /\ Same
        \/ TooLong(b) /\ exchange' = X(b, 413) /\ Same
        \/ /\ ~TooLong(b)
           /\ \E reached \in {FALSE, b.document = "base64"} :
                exchange' = Told(r, "start", 500, b, reached)
           /\ Same
        \/ Begun(b)
  BY ZenonT(180) DEF handleStart, Told, Refusal
<1>3. CASE Begun(b)
  <2>1. PICK j \in Journeys :
          /\ ~BadStart(b) /\ ~TooLong(b) /\ journey[j] = "none"
          /\ journey' = [journey EXCEPT ![j] = "waiting"]
          /\ clientState' = [clientState EXCEPT ![j] = b.clientState]
          /\ exchange' = ProviderRedirect(
               [Answer(r, "start", 200) EXCEPT !.body = b, !.about = {j},
                                               !.document = b.document = "base64"])
    BY <1>3
  <2> QED
    BY ZenonT(60), <1>1, <2>1, Begins
<1>4. ASSUME Same, NEW code, Allowed(r, "start", b, code)
      PROVE  ApiInv'
  <2>1. UNCHANGED <<configVars, journey, clientState>>
    BY <1>1, <1>4
  <2> QED
    BY <1>1, <1>4, <2>1, Documents
<1>5. CASE \E code \in DecodeErrors(b) : exchange' = X(b, code) /\ Same
  <2>1. PICK code \in DecodeErrors(b) : exchange' = X(b, code) /\ Same
    BY <1>5
  <2>2. Allowed(r, "start", b, code)
    BY <2>1, Refusals DEF Allowed
  <2> QED
    BY <1>4, <2>1, <2>2
<1>6. CASE exchange' = X(b, 400) /\ Same
  <2>1. Allowed(r, "start", b, 400)
    BY <1>6 DEF Allowed
  <2> QED
    BY <1>4, <1>6, <2>1
<1>7. CASE TooLong(b) /\ exchange' = X(b, 413) /\ Same
  <2>1. Allowed(r, "start", b, 413)
    BY <1>7 DEF Allowed, TooLong
  <2> QED
    BY <1>4, <1>7, <2>1
<1>8. CASE /\ ~TooLong(b)
           /\ \E reached \in {FALSE, b.document = "base64"} :
                exchange' = Told(r, "start", 500, b, reached)
           /\ Same
  <2>1. CASE b.document = "base64"
    <3>1. \/ exchange' = Told(r, "start", 500, b, FALSE)
          \/ exchange' = Told(r, "start", 500, b, TRUE)
      BY <1>8, <2>1
    <3>2. ~(b.length > MaxPDF)
      BY <1>8, <2>1 DEF TooLong
    <3>3. 500 \in {200, 400, 413, 500} /\ 500 # 413
      OBVIOUS
    <3>4. Allowed(r, "start", b, 500)
      BY ZenonT(60), <3>1, <3>2, <3>3 DEF Allowed
    <3> QED
      BY <1>4, <1>8, <3>4
  <2>2. CASE b.document # "base64"
    <3>1. exchange' = Told(r, "start", 500, b, FALSE)
      BY <1>8, <2>2
    <3>2. Allowed(r, "start", b, 500)
      BY <3>1 DEF Allowed
    <3> QED
      BY <1>4, <1>8, <3>2
  <2> QED
    BY <2>1, <2>2
<1> QED
  BY <1>2, <1>3, <1>5, <1>6, <1>7, <1>8

\* A completion ends a journey that waits, or changes nothing.
LEMMA Completed ==
  ASSUME ApiInv, UNCHANGED configVars, NEW j \in Journeys, NEW completion, NEW contacted,
         Complete(j, completion, contacted)
  PROVE  /\ ConstType' /\ Known'
         /\ completion \in {"ended", "failed", "lost"} => journey'[j] # "none"
<1>1. ConstType /\ Known
  BY DEF ApiInv
<1>2. /\ completion \in Completions(j)
      /\ journey' = IF completion \in {"ended", "failed", "gone"}
                    THEN [journey EXCEPT ![j] = "over"] ELSE journey
      /\ clientState' = clientState
  BY DEF Complete
<1>3. journey[j] \in {"none", "waiting", "over"}
  BY <1>1 DEF ConstType
<1>4. completion \in {"ended", "failed", "gone"} => journey[j] = "waiting"
  BY <1>2, <1>3 DEF Completions
<1>5. completion = "lost" => journey[j] = "over"
  BY <1>2, <1>3 DEF Completions
<1>6. ConstType'
  BY <1>1, <1>2 DEF ConstType, configVars
<1>7. \A k \in Journeys : journey'[k] # "none" => journey[k] # "none"
  BY <1>1, <1>2, <1>4 DEF ConstType
<1>8. Known'
  BY <1>1, <1>2, <1>7 DEF Known, configVars
<1>9. completion \in {"ended", "failed", "lost"} => journey'[j] # "none"
  BY <1>1, <1>2, <1>5 DEF ConstType
<1> QED
  BY <1>6, <1>8, <1>9

\* What a handler that completes says before it knows how that went.
Done(r, p, j, effects, code) ==
  [Answer(r, p, code) EXCEPT
     !.about = {j}, !.contacted = {Rewrite(t, internalRewrite) : t \in effects}]

LEMMA GoodCompletion ==
  ASSUME ApiInv, NEW r \in Requests, NEW p \in {"complete", "callback"}, Served(r, p),
         NEW j \in Journeys, NEW effects \in SUBSET Effects, NEW code \in {200, 302}
  PROVE  Good(r, p, Done(r, p, j, effects, code)) /\ Done(r, p, j, effects, code).to = "nowhere"
         /\ Done(r, p, j, effects, code).about = {j}
<1> DEFINE c == {Rewrite(t, internalRewrite) : t \in effects}
           a == Answer(r, p, code)
           y == [a EXCEPT !.about = {j}]
           x == [y EXCEPT !.contacted = c]
<1>1. p \in Paths /\ p \notin {"start", "verify"} /\ code \in Codes
  BY DEF Paths, Codes
<1>2. Good(r, p, a) /\ a.to = "nowhere"
  BY <1>1, GoodAnswer
<1>3. Good(r, p, y) /\ y.to = "nowhere" /\ y.about = {j}
  <2> HIDE DEF a
  <2> QED
    BY <1>2, GoodAbout
<1>4. \A t \in c : Apart(t)
  <2>1. LoadInv /\ step = "serving"
    BY Serves
  <2> QED
    BY <2>1, EffectsApart
<1>5. Good(r, p, x) /\ x.to = "nowhere" /\ x.about = {j}
  <2> HIDE DEF c, y
  <2> QED
    BY <1>3, <1>4, GoodContacted
<1>6. Done(r, p, j, effects, code) = x
  BY DEF Done
<1> HIDE DEF x
<1> QED
  BY <1>5, <1>6

LEMMA CompletionCode ==
  ASSUME ApiInv, NEW j \in Journeys, NEW completion \in Completions(j),
         completion \notin {"redirect", "ended"}
  PROVE  ErrorCode(completion) \in Codes
<1>1. journey[j] \in {"none", "waiting", "over"}
  BY DEF ApiInv, ConstType
<1>2. completion \in {"invalid", "unknown", "claimed", "lost", "failed", "gone"}
  BY <1>1 DEF Completions
<1> QED
  BY <1>2 DEF ErrorCode, Codes

LEMMA CompleteAnswered ==
  ASSUME ApiInv, NEW r \in Requests, NEW j \in Journeys, handleComplete(j, r)
  PROVE  ApiInv'
<1>1. /\ Served(r, "complete") /\ UNCHANGED configVars
      /\ "complete" \in Paths \ {"other"} /\ "complete" \notin {"start", "verify"}
  BY DEF handleComplete, Paths
<1>2. LoadInv /\ step = "serving"
  BY <1>1, Serves
<1>3. CASE \E code \in {400, 413} : /\ exchange' = Answer(r, "complete", code)
                                 /\ UNCHANGED <<journey, clientState>>
  <2>1. PICK code \in {400, 413} : exchange' = Answer(r, "complete", code)
    BY <1>3
  <2>2. code \in Codes
    BY DEF Codes
  <2>3. Good(r, "complete", exchange') /\ exchange'.to = "nowhere"
    BY <1>1, <2>1, <2>2, GoodAnswer
  <2>4. UNCHANGED <<configVars, journey, clientState>>
    BY <1>1, <1>3
  <2> QED
    BY <1>1, <2>3, <2>4, Untouched, SoundAnswer
<1> DEFINE ok(effects) == Done(r, "complete", j, effects, 200)
<1>4. ASSUME NEW completion \in Completions(j), NEW effects \in SUBSET Effects,
             Complete(j, completion, {Rewrite(t, internalRewrite) : t \in effects}),
             exchange' = CASE completion = "redirect" -> ProviderRedirect(ok(effects))
                           [] completion = "ended"    -> ok(effects)
                           [] OTHER -> [ok(effects) EXCEPT !.code = ErrorCode(completion)]
      PROVE  ApiInv'
  <2> DEFINE x == ok(effects)
  <2>1. Good(r, "complete", x) /\ x.to = "nowhere"
    BY <1>1, GoodCompletion
  <2>2. ConstType' /\ Known'
    BY <1>1, <1>4, Completed
  <2>3. completion \notin {"redirect", "ended"} => ErrorCode(completion) \in Codes
    BY CompletionCode
  <2>4. CASE completion = "redirect"
    <3>1. exchange' = ProviderRedirect(x)
      BY <1>4, <2>4
    <3> HIDE DEF x
    <3>2. Good(r, "complete", exchange') /\ exchange'.to = "provider"
      BY <1>2, <2>1, <3>1, GoodRedirect
    <3> QED
      BY <1>1, <2>2, <3>2, SoundAnswer
  <2>5. CASE completion = "ended"
    <3>1. exchange' = x
      BY <1>4, <2>5
    <3> HIDE DEF x
    <3> QED
      BY <1>1, <2>1, <2>2, <3>1, SoundAnswer
  <2>6. CASE completion \notin {"redirect", "ended"}
    <3>1. exchange' = [x EXCEPT !.code = ErrorCode(completion)]
      BY <1>4, <2>6
    <3> HIDE DEF x
    <3>2. Good(r, "complete", exchange') /\ exchange'.to = "nowhere"
      BY <1>1, <2>1, <2>3, <2>6, <3>1, GoodCode
    <3> QED
      BY <1>1, <2>2, <3>2, SoundAnswer
  <2> QED
    BY <2>4, <2>5, <2>6
<1> QED
  BY ZenonT(60), <1>3, <1>4 DEF handleComplete, Done

LEMMA CallbackAnswered ==
  ASSUME ApiInv, NEW r \in Requests, NEW j \in Journeys, handleOAuthCallback(j, r)
  PROVE  ApiInv'
<1>1. /\ Served(r, "callback") /\ UNCHANGED configVars
      /\ "callback" \in Paths \ {"other"} /\ "callback" \notin {"start", "verify"}
  BY DEF handleOAuthCallback, Paths
<1>2. LoadInv /\ step = "serving"
  BY <1>1, Serves
<1>3. CASE exchange' = Answer(r, "callback", 405) /\ UNCHANGED <<journey, clientState>>
  <2>1. 405 \in Codes
    BY DEF Codes
  <2>2. Good(r, "callback", exchange') /\ exchange'.to = "nowhere"
    BY <1>1, <1>3, <2>1, GoodAnswer
  <2>3. UNCHANGED <<configVars, journey, clientState>>
    BY <1>1, <1>3
  <2> QED
    BY <1>1, <2>2, <2>3, Untouched, SoundAnswer
<1> DEFINE found(effects) == Done(r, "callback", j, effects, 302)
<1>4. ASSUME NEW completion \in Completions(j), NEW effects \in SUBSET Effects,
             Complete(j, completion, {Rewrite(t, internalRewrite) : t \in effects}),
             exchange' =
               CASE completion = "redirect" -> ProviderRedirect(found(effects))
                 [] completion \in {"ended", "failed", "lost"} ->
                      [found(effects) EXCEPT !.to = "application"]
                 [] OTHER -> [found(effects) EXCEPT !.code = ErrorCode(completion)]
      PROVE  ApiInv'
  <2> DEFINE x == found(effects)
  <2>1. Good(r, "callback", x) /\ x.to = "nowhere" /\ x.about = {j}
    BY <1>1, GoodCompletion
  <2>2. /\ ConstType' /\ Known'
        /\ completion \in {"ended", "failed", "lost"} => journey'[j] # "none"
    BY <1>1, <1>4, Completed
  <2>3. completion \notin {"redirect", "ended"} => ErrorCode(completion) \in Codes
    BY CompletionCode
  <2>4. CASE completion = "redirect"
    <3>1. exchange' = ProviderRedirect(x)
      BY <1>4, <2>4
    <3> HIDE DEF x
    <3>2. Good(r, "callback", exchange') /\ exchange'.to = "provider"
      BY <1>2, <2>1, <3>1, GoodRedirect
    <3> QED
      BY <1>1, <2>2, <3>2, SoundAnswer
  <2>5. CASE completion \in {"ended", "failed", "lost"}
    <3>1. exchange' = [x EXCEPT !.to = "application"]
      BY <1>4, <2>5
    <3> HIDE DEF x
    <3>2. Good(r, "callback", exchange') /\ exchange'.about = {j}
      BY <2>1, <3>1, GoodReturn
    <3> QED
      BY <1>1, <2>2, <2>5, <3>2, SoundAnswer
  <2>6. CASE completion \notin {"redirect", "ended", "failed", "lost"}
    <3>1. exchange' = [x EXCEPT !.code = ErrorCode(completion)]
      BY <1>4, <2>6
    <3> HIDE DEF x
    <3>2. Good(r, "callback", exchange') /\ exchange'.to = "nowhere"
      BY <1>1, <2>1, <2>3, <2>6, <3>1, GoodCode
    <3> QED
      BY <1>1, <2>2, <3>2, SoundAnswer
  <2> QED
    BY <2>4, <2>5, <2>6
<1> QED
  BY ZenonT(60), <1>3, <1>4 DEF handleOAuthCallback, Done

-----------------------------------------------------------------------------
\* Start-up, and the invariant

\* Before it serves, a gateway has answered nothing.
LEMMA NothingAnswered ==
  ASSUME NEW x, x = Request("GET", "other", FALSE)
  PROVE  /\ x \in Exchange /\ x.handler = "other" /\ x.path = "other" /\ x.document = FALSE
         /\ x.contacted = {} /\ x.to = "nowhere" /\ x.target = {}
<1>1. NoBody \in Body
  BY DEF NoBody, Body
<1> QED
  BY <1>1 DEF Request, Exchange, Paths

LEMMA Starting == ASSUME ApiInv, StartUp PROVE ApiInv'
<1>1. step # "serving" /\ UNCHANGED <<journey, clientState, exchange>>
  BY DEF StartUp, LoadStep, parseSessionTTL, resolveAuth, validateStaticFields,
         applyFixturesDefaults, validateLive, invalidMode, validateURLs, validateBrowserFlow, Check
<1>2. /\ exchange' = Request("GET", "other", FALSE)
      /\ journey = [j \in Journeys |-> "none"] /\ journey' = journey
  BY <1>1 DEF ApiInv, Idle
<1>3. LoadInv' /\ step' \in {"ttl", "auth", "static", "mode", "urls", "browser", "loaded", "refused",
                            "serving", "invalid"}
  <2>1. CASE LoadStep
    <3>1. LoadInv'
      BY <2>1, LoadKeeps DEF ApiInv
    <3> QED
      BY ZenonT(60), <2>1, <3>1 DEF LoadStep, parseSessionTTL, resolveAuth, validateStaticFields,
         applyFixturesDefaults, validateLive, invalidMode, validateURLs, validateBrowserFlow, Check
  <2>2. CASE step = "loaded" /\ step' \in {"serving", "invalid"} /\ UNCHANGED <<env, profile>>
    <3>1. LoadTypeOK' /\ Kept'
      BY <2>2 DEF ApiInv, LoadInv, LoadTypeOK, Kept
    <3>2. TTLPassed' /\ AuthPassed' /\ StaticPassed'
      BY <2>2 DEF ApiInv, LoadInv, TTLPassed, AuthPassed, StaticPassed
    <3>3. ModePassed'
      BY <2>2 DEF ApiInv, LoadInv, BeforeMode, ModePassed, Defaulted, AsRead
    <3>4. URLsPassed'
      BY <2>2 DEF ApiInv, LoadInv, BeforeMode, URLsPassed
    <3>5. Accepted /\ env' = env /\ profile' = profile
      BY <2>2 DEF ApiInv, LoadInv, BeforeMode
    <3>6. Accepted'
      BY <3>1, <3>2, <3>3, <3>4, <3>5 DEF Accepted, Acceptable, Documented, Restricted
    <3>7. step' \notin BeforeMode \cup {"refused"}
      BY <2>2 DEF BeforeMode
    <3> QED
      BY <2>2, <3>1, <3>2, <3>3, <3>4, <3>6, <3>7 DEF LoadInv
  <2> QED
    BY <2>1, <2>2 DEF StartUp
<1>4. Sound'
  <2>1. /\ exchange' \in Exchange /\ exchange'.handler = "other" /\ exchange'.path = "other"
        /\ exchange'.document = FALSE
        /\ exchange'.contacted = {} /\ exchange'.to = "nowhere" /\ exchange'.target = {}
    BY <1>2, NothingAnswered
  <2> QED
    BY <2>1 DEF Sound, PrivateIsGuarded, Private, CallbackIsServed, ReturnIsComplete,
                HostsKeptApart, DocumentLimit
<1>5. ConstType' /\ Idle' /\ Known'
  BY <1>1, <1>2, <1>3 DEF ApiInv, ConstType, Idle, Known
<1> QED
  BY <1>3, <1>4, <1>5 DEF ApiInv

LEMMA ApiStarts == Init => ApiInv
<1> SUFFICES ASSUME Init PROVE ApiInv
  OBVIOUS
<1>1. LoadInv
  BY LoadStarts DEF Init
<1>2. Sound
  <2>1. /\ exchange \in Exchange /\ exchange.handler = "other" /\ exchange.path = "other"
        /\ exchange.document = FALSE
        /\ exchange.contacted = {} /\ exchange.to = "nowhere" /\ exchange.target = {}
    BY NothingAnswered DEF Init
  <2> QED
    BY <2>1 DEF Sound, PrivateIsGuarded, Private, CallbackIsServed, ReturnIsComplete,
                HostsKeptApart, DocumentLimit
<1>3. step = "ttl"
  BY DEF Init, LoadInit
<1> QED
  BY <1>1, <1>2, <1>3 DEF Init, ApiInv, ConstType, Idle, Known

LEMMA ApiStutters == ASSUME ApiInv, UNCHANGED vars PROVE ApiInv'
<1>1. LoadInv'
  BY LoadStutters DEF ApiInv, vars
<1>2. ConstType' /\ Idle' /\ Known'
  BY DEF ApiInv, vars, configVars, ConstType, Idle, Known
<1>3. /\ env' = env /\ profile' = profile /\ exchange' = exchange /\ clientState' = clientState
  BY DEF vars, configVars
<1>4. /\ PrivateIsGuarded' <=> PrivateIsGuarded
      /\ CallbackIsServed' <=> CallbackIsServed
      /\ ReturnIsComplete' <=> ReturnIsComplete
  BY <1>3 DEF PrivateIsGuarded, CallbackIsServed, ReturnIsComplete
<1>5. HostsKeptApart' <=> HostsKeptApart
  BY <1>3 DEF HostsKeptApart
<1>6. DocumentLimit' <=> DocumentLimit
  BY <1>3 DEF DocumentLimit
<1>7. Sound'
  BY <1>3, <1>4, <1>5, <1>6 DEF ApiInv, Sound
<1> QED
  BY <1>1, <1>2, <1>7 DEF ApiInv

LEMMA ApiKeeps == ASSUME ApiInv, [Next]_vars PROVE ApiInv'
<1>1. CASE StartUp
  BY <1>1, Starting
<1>2. ASSUME NEW r \in Requests, Reject(r) \/ handleStart(r) \/ handleVerify(r) \/ handleHealth(r)
      PROVE  ApiInv'
  BY <1>2, Rejected, Started, Verified, HealthAnswered
<1>3. ASSUME NEW r \in Requests, NEW j \in Journeys,
             \/ handleComplete(j, r) \/ handleOAuthCallback(j, r)
             \/ handleStatus(j, r) \/ handleResult(j, r)
      PROVE  ApiInv'
  BY <1>3, CompleteAnswered, CallbackAnswered, StatusAnswered, ResultAnswered
<1>4. CASE Refused \/ UNCHANGED vars
  BY <1>4, ApiStutters DEF Refused
<1> QED
  BY <1>1, <1>2, <1>3, <1>4 DEF Next

LEMMA ApiInvariant == Spec => []ApiInv
<1>1. Init => ApiInv
  BY ApiStarts
<1>2. ApiInv /\ [Next]_vars => ApiInv'
  BY ApiKeeps
<1> QED
  BY <1>1, <1>2, PTL DEF Spec

\* The configuration, the journeys and every answer have their types, in
\* particular an answer one of the codes that the handlers write.
THEOREM ApiTypes == Spec => []TypeOK
<1>1. ApiInv => TypeOK
  BY DEF ApiInv, LoadInv, ConstType, Sound, TypeOK
<1> QED
  BY <1>1, ApiInvariant, PTL

\* No accepted configuration leaves a private route open (auth.go:23,
\* config.go:181).
THEOREM PrivateStaysGuarded == Spec => []PrivateIsGuarded
<1>1. ApiInv => PrivateIsGuarded
  BY DEF ApiInv, Sound
<1> QED
  BY <1>1, ApiInvariant, PTL

\* The callback that Cleverbase is told of is routed and needs no key
\* (config.go:301, service.go:73).
THEOREM CallbackStaysServed == Spec => []CallbackIsServed
<1>1. ApiInv => CallbackIsServed
  BY DEF ApiInv, Sound
<1> QED
  BY <1>1, ApiInvariant, PTL

\* A browser that is led back to the application brings the client state,
\* to a URL that can take it (service.go:397, config.go:305).
THEOREM ReturnsAreComplete == Spec => []ReturnIsComplete
<1>1. ApiInv => ReturnIsComplete
  BY DEF ApiInv, Sound
<1> QED
  BY <1>1, ApiInvariant, PTL

\* The mock and Cleverbase are never mixed, and a production gateway meets
\* neither an override nor a plain redirect (client.go:32, config.go:287).
THEOREM HostsStayApart == Spec => []HostsKeptApart
<1>1. ApiInv => HostsKeptApart
  BY DEF ApiInv, Sound
<1> QED
  BY <1>1, ApiInvariant, PTL

\* Base64 takes no document over the limit of the body, for every limit on
\* the document (service.go:41).
THEOREM DocumentsAreLimited == Spec => []DocumentLimit
<1>1. ApiInv => DocumentLimit
  BY DEF ApiInv, Sound
<1> QED
  BY <1>1, ApiInvariant, PTL
=============================================================================
