------------------------------- MODULE MCApi -------------------------------
(***************************************************************************)
(* The configurations and the bodies with which TLC checks Api.  The       *)
(* limits are those of the code.                                           *)
(***************************************************************************)
EXTENDS Api

At(s) == [NoURL EXCEPT !.form = "absolute", !.scheme = s]

Redirect == [At("https") EXCEPT !.path = "callback"]

\* The environments a gateway is started in, and some that Load refuses.
StartEnvironments ==
  [ mode : {"fixtures", "live"}, environment : {"acceptance", "production"},
    conformance : {""}, cscAPI : {""}, ttl : {""}, apiKey : {"", "key"}, authDisabled : BOOLEAN,
    clientID : {"set"}, clientSecret : {"set"},
    redirectURI : {NoURL, At("https"), Redirect},
    returnURL : {NoURL, At("https"), [At("https") EXCEPT !.extra = TRUE]},
    tsaURL : {At("https")},
    baseURL : {NoURL, At("http"), At("https")},
    publicBaseURL : {NoURL, At("https")},
    sdkBaseURL : {"", "set"} ]

\* Every combination of URLs, in valid settings.
URLEnvironments ==
  [ mode : {"", "live"}, environment : {"", "production"}, conformance : {""}, cscAPI : {""},
    ttl : {""}, apiKey : {"key"}, authDisabled : {FALSE}, clientID : {"set"},
    clientSecret : {"set"},
    redirectURI : URL,
    returnURL : {u \in URL : u.path = "other"},
    tsaURL : {NoURL, RelativeURL, At("https")},
    baseURL : {NoURL, RelativeURL, At("http"), At("https")},
    publicBaseURL : {NoURL, RelativeURL, At("http"), At("https")},
    sdkBaseURL : {"", "set"} ]

\* Every combination of settings, with valid URLs.
SettingEnvironments ==
  [ mode : {"", "fixtures", "live", "bad"}, environment : {"", "acceptance", "production", "bad"},
    conformance : {"", "B-T", "bad"}, cscAPI : {"", "v2_ecdsa", "bad"},
    ttl : {"", "positive", "nonpositive", "bad"}, apiKey : {"", "key"}, authDisabled : BOOLEAN,
    clientID : {"", "set"}, clientSecret : {"", "set"},
    redirectURI : {Redirect}, returnURL : {At("https")}, tsaURL : {At("https")},
    baseURL : {At("https")}, publicBaseURL : {NoURL}, sdkBaseURL : {""} ]

\* Of the last two those that Load is to refuse, so that there is not every
\* exchange with gateways that differ in nothing a request meets.
MCEnvironments ==
  StartEnvironments \cup {e \in URLEnvironments \cup SettingEnvironments : ~Acceptable(e)}

\* Documents at the limits, in bodies at theirs; and what is wrong with the
\* small ones.
MCBodies ==
  [ json : {"one"}, document : {"base64"}, length : {0, MaxPDF, MaxPDF + 1},
    envelope : {Slack - 3, Slack - 1}, clientState : {"", "set"}, signer : {"none"} ]
  \cup
  [ json : {"one", "several"}, document : {"absent", "invalid"}, length : {0}, envelope : {40},
    clientState : {"set"}, signer : {"pair"} ]
  \cup
  [ json : {"one"}, document : {"absent"}, length : {0}, envelope : {40},
    clientState : {"set", "long"}, signer : {"partial", "pair"} ]
=============================================================================
