------------------------------- MODULE Config -------------------------------
(***************************************************************************)
(* The start-up configuration: Load of internal/config/config.go, as the   *)
(* sequence of its checks, with the defaults that it fills in between      *)
(* them.                                                                   *)
(*                                                                         *)
(* A value is abstracted to what the checks tell apart.  Strings are "" if *)
(* unset, a valid value, or "bad"; a URL is a record.                      *)
(***************************************************************************)
CONSTANT Environments  \* the environments the gateway may be started in

VARIABLES
  env,      \* the environment variables
  profile,  \* the Profile under construction
  step      \* the next check, or the outcome of Load

configVars == <<env, profile, step>>

\* What parseAbsoluteURL accepts; extra: a query or a fragment.
AbsoluteURL ==
  [ form     : {"absolute"},
    scheme   : {"http", "https", "other"},
    loopback : BOOLEAN,
    path     : {"callback", "other"},
    extra    : BOOLEAN ]

NoURL ==
  [form |-> "absent", scheme |-> "other", loopback |-> FALSE, path |-> "other", extra |-> FALSE]

\* ... and what it refuses.
RelativeURL == [NoURL EXCEPT !.form = "relative"]

URL == {NoURL, RelativeURL} \cup AbsoluteURL

\* Of TRUST_GATEWAY_SESSION_TTL only the sign matters.
Env ==
  [ mode          : {"", "fixtures", "live", "bad"},
    environment   : {"", "acceptance", "production", "bad"},
    conformance   : {"", "B-B", "B-T", "bad"},
    cscAPI        : {"", "v1_rsa", "v2_ecdsa", "bad"},
    ttl           : {"", "positive", "nonpositive", "bad"},
    apiKey        : {"", "key"},
    authDisabled  : BOOLEAN,
    clientID      : {"", "set"},
    clientSecret  : {"", "set"},
    redirectURI   : URL,
    returnURL     : URL,
    tsaURL        : URL,
    baseURL       : URL,
    publicBaseURL : URL,
    sdkBaseURL    : {"", "set"} ]

ASSUME EnvironmentsAssumption == Environments \subseteq Env

Default(value, fallback) == IF value = "" THEN fallback ELSE value

\* The Profile as it stands before the first check.
Read(e) ==
  [ mode          |-> Default(e.mode, "fixtures"),
    environment   |-> Default(e.environment, "acceptance"),
    conformance   |-> Default(e.conformance, "B-B"),
    cscAPI        |-> Default(e.cscAPI, "v1_rsa"),
    clientID      |-> e.clientID,
    clientSecret  |-> e.clientSecret,
    redirectURI   |-> e.redirectURI,
    returnURL     |-> NoURL,
    tsaURL        |-> e.tsaURL,
    baseURL       |-> e.baseURL,
    publicBaseURL |-> e.publicBaseURL,
    sdkBaseURL    |-> e.sdkBaseURL,
    apiKey        |-> e.apiKey,
    authEnabled   |-> FALSE ]

LoadInit ==
  /\ env \in Environments
  /\ profile = Read(env)
  /\ step = "ttl"

\* The check "from": Load goes on to the next one with Profile p, or returns
\* an error.
Check(from, passes, to, p) ==
  /\ step = from
  /\ IF passes THEN step' = to /\ profile' = p
               ELSE step' = "refused" /\ UNCHANGED profile
  /\ UNCHANGED env

parseSessionTTL ==
  Check("ttl", Default(env.ttl, "positive") = "positive", "auth", profile)

\* Authentication is on unless it was switched off, and not both.
resolveAuth_offByDefault ==
  Check("auth", ~(env.authDisabled /\ profile.apiKey # ""), "static",
        [profile EXCEPT !.authEnabled = profile.apiKey # ""])

resolveAuth ==
  Check("auth", env.authDisabled # (profile.apiKey # ""), "static",
        [profile EXCEPT !.authEnabled = profile.apiKey # ""])

validateStaticFields ==
  Check("static", "bad" \notin {profile.conformance, profile.environment, profile.cscAPI},
        "mode", profile)

applyFixturesDefaults_noPublic ==
  /\ profile.mode = "fixtures"
  /\ Check("mode", profile.baseURL.form # "absent", "urls",
           [profile EXCEPT
              !.clientID = "set",
              !.clientSecret = "set",
              !.redirectURI = IF @.form # "absent" THEN @
                              ELSE [NoURL EXCEPT !.form = "absolute", !.scheme = "http",
                                                 !.loopback = TRUE],
              !.tsaURL = IF @.form # "absent" THEN @ ELSE profile.baseURL])

\* The default redirect URI is on localhost and not the callback; the TSA's
\* is a path below BASE_URL, so as well-formed as that.
applyFixturesDefaults ==
  /\ profile.mode = "fixtures"
  /\ Check("mode", profile.baseURL.form # "absent", "urls",
           [profile EXCEPT
              !.clientID = "set",
              !.clientSecret = "set",
              !.redirectURI = IF @.form # "absent" THEN @
                              ELSE [NoURL EXCEPT !.form = "absolute", !.scheme = "http",
                                                 !.loopback = TRUE],
              !.tsaURL = IF @.form # "absent" THEN @ ELSE profile.baseURL,
              !.publicBaseURL = IF @.form # "absent" THEN @ ELSE profile.baseURL])

validateLive ==
  /\ profile.mode = "live"
  /\ Check("mode",
           /\ "" \notin {profile.clientID, profile.clientSecret}
           /\ "absent" \notin {profile.redirectURI.form, env.returnURL.form, profile.tsaURL.form},
           "urls", profile)

invalidMode ==
  /\ profile.mode \notin {"fixtures", "live"}
  /\ Check("mode", FALSE, "urls", profile)

\* No production gateway sends a browser to an override or to a plain URL.
validateProductionURLPolicy ==
  profile.environment = "production" =>
    /\ profile.sdkBaseURL = ""
    /\ profile.publicBaseURL.form # "absent" => profile.publicBaseURL.scheme = "https"

validateURLs ==
  Check("urls",
        /\ "relative" \notin {profile.baseURL.form, profile.publicBaseURL.form,
                              profile.tsaURL.form, profile.redirectURI.form, env.returnURL.form}
        /\ validateProductionURLPolicy,
        "browser",
        [profile EXCEPT !.returnURL = env.returnURL])

validateBrowserURL(u, requireHTTPS) ==
  /\ u.scheme \in {"http", "https"}
  /\ requireHTTPS => u.scheme = "https" \/ u.loopback
  /\ ~u.extra

validateBrowserFlow_returnOptional ==
  Check("browser",
        /\ profile.returnURL.form # "absent" =>
             validateBrowserURL(profile.returnURL, profile.mode = "live")
        /\ profile.mode = "live" =>
             /\ validateBrowserURL(profile.redirectURI, TRUE)
             /\ profile.redirectURI.path = "callback",
        "loaded", profile)

validateBrowserFlow_anyQuery ==
  Check("browser",
        /\ profile.redirectURI.path = "callback" => profile.returnURL.form # "absent"
        /\ profile.mode = "live" =>
             /\ validateBrowserURL(profile.redirectURI, TRUE)
             /\ profile.redirectURI.path = "callback",
        "loaded", profile)

validateBrowserFlow ==
  Check("browser",
        /\ profile.redirectURI.path = "callback" => profile.returnURL.form # "absent"
        /\ profile.returnURL.form # "absent" =>
             validateBrowserURL(profile.returnURL, profile.mode = "live")
        /\ profile.mode = "live" =>
             /\ validateBrowserURL(profile.redirectURI, TRUE)
             /\ profile.redirectURI.path = "callback",
        "loaded", profile)

\* config.Load
LoadStep ==
  \/ parseSessionTTL \/ resolveAuth \/ validateStaticFields
  \/ applyFixturesDefaults \/ validateLive \/ invalidMode
  \/ validateURLs \/ validateBrowserFlow

LoadSpec == LoadInit /\ [][LoadStep]_configVars

-----------------------------------------------------------------------------
\* What an environment must be like, over its variables as they are set and
\* whatever Load does with them.

\* The contract of README.md:9-36, row by row: what is required in each
\* mode, what a value must be, what excludes what.
Documented(e) ==
  /\ "bad" \notin {e.mode, e.environment, e.conformance, e.cscAPI}
  /\ e.ttl \in {"", "positive"}
  /\ (e.apiKey = "key") # e.authDisabled
  /\ e.mode = "live" =>
       /\ e.clientID = "set" /\ e.clientSecret = "set"
       /\ \A u \in {e.redirectURI, e.returnURL, e.tsaURL} : u.form # "absent"
       /\ e.redirectURI.path = "callback"
       /\ \A u \in {e.redirectURI, e.returnURL} : u.scheme = "https" \/ u.loopback
  /\ e.mode # "live" => e.baseURL.form # "absent"
  /\ e.redirectURI.path = "callback" => e.returnURL.form # "absent"
  /\ e.returnURL.form # "absent" => ~e.returnURL.extra
  /\ e.environment = "production" => e.sdkBaseURL = ""

\* What config.go asks for beyond that: parseAbsoluteURL (config.go:237) of
\* every URL, validateBrowserURL (config.go:321) of where browsers are sent,
\* validateProductionURLPolicy (config.go:287) of the base of redirects.  The
\* last holds in live mode too, where README.md:30 calls PUBLIC_BASE_URL
\* unused: with one that is plain http a live production gateway does not
\* start (as config_test.go:183 asks).
Restricted(e) ==
  /\ \A u \in {e.redirectURI, e.returnURL, e.tsaURL, e.baseURL, e.publicBaseURL} :
       u.form # "relative"
  /\ e.returnURL.form # "absent" => e.returnURL.scheme \in {"http", "https"}
  /\ e.mode = "live" => e.redirectURI.scheme \in {"http", "https"} /\ ~e.redirectURI.extra
  /\ e.environment = "production" =>
       /\ e.publicBaseURL.form # "absent" => e.publicBaseURL.scheme = "https"
       /\ e.mode # "live" /\ e.publicBaseURL.form = "absent" => e.baseURL.scheme = "https"

Acceptable(e) == Documented(e) /\ Restricted(e)

Profile ==
  [ mode          : {"fixtures", "live", "bad"},
    environment   : {"acceptance", "production", "bad"},
    conformance   : {"B-B", "B-T", "bad"},
    cscAPI        : {"v1_rsa", "v2_ecdsa", "bad"},
    clientID      : {"", "set"},
    clientSecret  : {"", "set"},
    redirectURI   : URL,
    returnURL     : URL,
    tsaURL        : URL,
    baseURL       : URL,
    publicBaseURL : URL,
    sdkBaseURL    : {"", "set"},
    apiKey        : {"", "key"},
    authEnabled   : BOOLEAN ]

\* Nothing the gateway uses in its mode is missing or malformed.
CompleteProfile(p) ==
  /\ "bad" \notin {p.mode, p.environment, p.conformance, p.cscAPI}
  /\ p.clientID = "set" /\ p.clientSecret = "set"
  /\ {p.redirectURI, p.tsaURL} \subseteq AbsoluteURL
  /\ {p.returnURL, p.baseURL, p.publicBaseURL} \subseteq AbsoluteURL \cup {NoURL}
  /\ p.mode = "fixtures" => {p.baseURL, p.publicBaseURL} \subseteq AbsoluteURL
  /\ p.mode = "live" => p.returnURL \in AbsoluteURL
  /\ p.authEnabled = (p.apiKey # "")

\* The types of what Load reads and builds.
LoadTypeOK == env \in Environments /\ profile \in Profile

\* What Load returns is "a complete, validated runtime configuration"
\* (config.go:60): no default is forgotten and no value escapes its check.
ProfileIsComplete == step = "loaded" => CompleteProfile(profile)

\* What Load accepts meets the documented contract and the restrictions of
\* config.go, and what it refuses breaks one of them.  Both are stated of the
\* variables as they are set, so this says that no check runs before its
\* field has got the default it is to judge (config.go:205), and that none
\* hides another.
LoadIsExact ==
  /\ step = "loaded" => Acceptable(env)
  /\ step = "refused" => ~Acceptable(env)
=============================================================================
