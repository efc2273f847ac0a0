---------------------------- MODULE ConfigProofs ----------------------------
(***************************************************************************)
(* Load accepts exactly the environments of the contract, and what it      *)
(* returns is complete, for every environment there is.                    *)
(*                                                                         *)
(* The invariant says, for each check, what is known of env and profile    *)
(* once it is passed.  It says so for every later step, also for those     *)
(* that a module which goes on after Load adds.                            *)
(***************************************************************************)
EXTENDS Config, TLAPS

\* The fields that no default and no check changes.
Kept ==
  /\ profile.mode = Default(env.mode, "fixtures")
  /\ profile.environment = Default(env.environment, "acceptance")
  /\ profile.conformance = Default(env.conformance, "B-B")
  /\ profile.cscAPI = Default(env.cscAPI, "v1_rsa")
  /\ profile.baseURL = env.baseURL
  /\ profile.sdkBaseURL = env.sdkBaseURL
  /\ profile.apiKey = env.apiKey

BeforeMode == {"ttl", "auth", "static", "mode"}

AsRead ==
  /\ profile.clientID = env.clientID
  /\ profile.clientSecret = env.clientSecret
  /\ profile.redirectURI = env.redirectURI
  /\ profile.tsaURL = env.tsaURL
  /\ profile.publicBaseURL = env.publicBaseURL

\* A default has taken the place of what was absent; the redirect URI that
\* is one needs no callback.
Defaulted ==
  /\ profile.clientID = "set" /\ profile.clientSecret = "set"
  /\ IF env.redirectURI.form # "absent" THEN profile.redirectURI = env.redirectURI
     ELSE profile.redirectURI \in AbsoluteURL /\ profile.redirectURI.path = "other"
  /\ profile.tsaURL = IF env.tsaURL.form # "absent" THEN env.tsaURL ELSE env.baseURL
  /\ profile.publicBaseURL =
       IF env.publicBaseURL.form # "absent" THEN env.publicBaseURL ELSE env.baseURL

TTLPassed == env.ttl \in {"", "positive"}

AuthPassed ==
  /\ (env.apiKey = "key") # env.authDisabled
  /\ profile.authEnabled = (env.apiKey # "")

StaticPassed == "bad" \notin {env.environment, env.conformance, env.cscAPI}

ModePassed ==
  /\ profile.mode \in {"fixtures", "live"}
  /\ profile.mode = "fixtures" => Defaulted /\ env.baseURL.form # "absent"
  /\ profile.mode = "live" =>
       /\ AsRead
       /\ env.clientID = "set" /\ env.clientSecret = "set"
       /\ \A u \in {env.redirectURI, env.returnURL, env.tsaURL} : u.form # "absent"

URLsPassed ==
  /\ \A u \in {env.redirectURI, env.returnURL, env.tsaURL, env.baseURL, env.publicBaseURL} :
       u.form # "relative"
  /\ profile.returnURL = env.returnURL
  /\ env.environment = "production" =>
       /\ env.sdkBaseURL = ""
       /\ profile.publicBaseURL.form # "absent" => profile.publicBaseURL.scheme = "https"

\* What Load guarantees of the environment and the profile that it accepts.
Accepted ==
  /\ Acceptable(env)
  /\ CompleteProfile(profile)
  /\ Kept /\ AuthPassed /\ ModePassed /\ URLsPassed

LoadInv ==
  /\ LoadTypeOK
  /\ Kept
  /\ step \in BeforeMode => AsRead
  /\ step \notin {"ttl", "refused"} => TTLPassed
  /\ step \notin {"ttl", "auth", "refused"} => AuthPassed
  /\ step \notin {"ttl", "auth", "static", "refused"} => StaticPassed
  /\ step \notin BeforeMode \cup {"refused"} => ModePassed
  /\ step \notin BeforeMode \cup {"urls", "refused"} => URLsPassed
  /\ step \notin BeforeMode \cup {"urls", "browser", "refused"} => Accepted
  /\ step = "refused" => ~Acceptable(env)

\* Before the first check the profile is what was read.
LEMMA LoadStarts == LoadInit => LoadInv
<1> SUFFICES ASSUME LoadInit PROVE LoadInv
  OBVIOUS
<1>1. env \in Env /\ profile = Read(env) /\ step = "ttl"
  BY EnvironmentsAssumption DEF LoadInit
<1>2. Kept /\ AsRead
  BY <1>1 DEF Kept, AsRead, Read
<1>3. NoURL \in URL
  BY DEF URL
<1>4. profile \in Profile
  <2>1. /\ Default(env.mode, "fixtures") \in {"fixtures", "live", "bad"}
        /\ Default(env.environment, "acceptance") \in {"acceptance", "production", "bad"}
        /\ Default(env.conformance, "B-B") \in {"B-B", "B-T", "bad"}
        /\ Default(env.cscAPI, "v1_rsa") \in {"v1_rsa", "v2_ecdsa", "bad"}
    BY <1>1 DEF Env, Default
  <2>2. /\ env.apiKey \in {"", "key"}
        /\ {env.clientID, env.clientSecret, env.sdkBaseURL} \subseteq {"", "set"}
        /\ {env.redirectURI, env.tsaURL, env.baseURL, env.publicBaseURL} \subseteq URL
    BY <1>1 DEF Env
  <2> QED
    BY <1>1, <1>3, <2>1, <2>2 DEF Read, Profile
<1> QED
  BY <1>1, <1>2, <1>4 DEF LoadInit, LoadInv, LoadTypeOK, BeforeMode

\* A check that fails: what is left to show is that the environment is not
\* acceptable.
LEMMA Refuses ==
  ASSUME LoadInv, UNCHANGED <<env, profile>>, step' = "refused", ~Acceptable(env)
  PROVE  LoadInv'
<1>1. LoadTypeOK' /\ Kept'
  BY DEF LoadInv, LoadTypeOK, Kept
<1>2. ~Acceptable(env)'
  OBVIOUS
<1> QED
  BY <1>1, <1>2 DEF LoadInv, BeforeMode

LEMMA TTLStep == ASSUME LoadInv, parseSessionTTL PROVE LoadInv'
<1>1. step = "ttl" /\ UNCHANGED <<env, profile>>
  BY DEF parseSessionTTL, Check
<1>2. CASE TTLPassed
  <2>1. step' = "auth"
    BY <1>2 DEF parseSessionTTL, Check, TTLPassed, Default
  <2>2. LoadTypeOK' /\ Kept' /\ AsRead' /\ TTLPassed'
    BY <1>1, <1>2 DEF LoadInv, LoadTypeOK, Kept, AsRead, TTLPassed, BeforeMode
  <2> QED
    BY <2>1, <2>2 DEF LoadInv, BeforeMode
<1>3. CASE ~TTLPassed
  <2>1. step' = "refused"
    BY <1>3 DEF parseSessionTTL, Check, TTLPassed, Default
  <2>2. ~Acceptable(env)
    BY <1>3 DEF Acceptable, Documented, Restricted, TTLPassed
  <2> QED
    BY <1>1, <2>1, <2>2, Refuses
<1> QED
  BY <1>2, <1>3

LEMMA AuthStep == ASSUME LoadInv, resolveAuth PROVE LoadInv'
<1>1. step = "auth" /\ env' = env
  BY DEF resolveAuth, Check
<1>2. env \in Env /\ profile \in Profile /\ Kept /\ AsRead /\ TTLPassed
  BY <1>1, EnvironmentsAssumption DEF LoadInv, LoadTypeOK, BeforeMode
<1>3. profile.apiKey = env.apiKey /\ env.apiKey \in {"", "key"} /\ env.authDisabled \in BOOLEAN
  BY <1>2 DEF Kept, Env
<1>4. CASE env.authDisabled # (env.apiKey # "")
  <2>1. step' = "static" /\ profile' = [profile EXCEPT !.authEnabled = (env.apiKey # "")]
    BY <1>3, <1>4 DEF resolveAuth, Check
  <2>2. profile' \in Profile
    BY <1>2, <2>1 DEF Profile
  <2>3. Kept' /\ AsRead' /\ TTLPassed'
    BY <1>1, <1>2, <2>1 DEF Profile, Kept, AsRead, TTLPassed
  <2>4. AuthPassed'
    BY <1>1, <1>2, <1>3, <1>4, <2>1 DEF Profile, AuthPassed
  <2> QED
    BY <1>1, <2>1, <2>2, <2>3, <2>4 DEF LoadInv, LoadTypeOK, BeforeMode
<1>5. CASE env.authDisabled = (env.apiKey # "")
  <2>1. step' = "refused" /\ profile' = profile
    BY <1>3, <1>5 DEF resolveAuth, Check
  <2>2. ~Acceptable(env)
    BY <1>3, <1>5 DEF Acceptable, Documented, Restricted
  <2> QED
    BY <1>1, <2>1, <2>2, Refuses
<1> QED
  BY <1>3, <1>4, <1>5

LEMMA StaticStep == ASSUME LoadInv, validateStaticFields PROVE LoadInv'
<1>1. step = "static" /\ UNCHANGED <<env, profile>>
  BY DEF validateStaticFields, Check
<1>2. Kept /\ LoadTypeOK /\ AsRead /\ TTLPassed /\ AuthPassed
  BY <1>1 DEF LoadInv, BeforeMode
<1>3. StaticPassed <=> "bad" \notin {profile.conformance, profile.environment, profile.cscAPI}
  BY <1>2 DEF Kept, StaticPassed, Default
<1>4. CASE StaticPassed
  <2>1. step' = "mode"
    BY <1>3, <1>4 DEF validateStaticFields, Check
  <2>2. LoadTypeOK' /\ Kept' /\ AsRead' /\ TTLPassed' /\ AuthPassed' /\ StaticPassed'
    BY <1>1, <1>2, <1>4 DEF LoadTypeOK, Kept, AsRead, TTLPassed, AuthPassed, StaticPassed
  <2> QED
    BY <2>1, <2>2 DEF LoadInv, BeforeMode
<1>5. CASE ~StaticPassed
  <2>1. step' = "refused"
    BY <1>3, <1>5 DEF validateStaticFields, Check
  <2>2. ~Acceptable(env)
    BY <1>5 DEF Acceptable, Documented, Restricted, StaticPassed
  <2> QED
    BY <1>1, <2>1, <2>2, Refuses
<1> QED
  BY <1>4, <1>5

\* What the three alternatives of the switch find.
LEMMA AtMode ==
  ASSUME LoadInv, step = "mode"
  PROVE  /\ env \in Env /\ profile \in Profile
         /\ LoadTypeOK /\ Kept /\ AsRead /\ TTLPassed /\ AuthPassed /\ StaticPassed
         /\ profile.mode = "live" <=> env.mode = "live"
         /\ profile.mode = "bad" <=> env.mode = "bad"
<1>1. LoadTypeOK /\ Kept /\ AsRead /\ TTLPassed /\ AuthPassed /\ StaticPassed
  BY DEF LoadInv, BeforeMode
<1> QED
  BY <1>1, EnvironmentsAssumption DEF LoadTypeOK, Kept, Default

LEMMA FixturesStep == ASSUME LoadInv, applyFixturesDefaults PROVE LoadInv'
<1>1. step = "mode" /\ profile.mode = "fixtures" /\ env' = env
  BY DEF applyFixturesDefaults, Check
<1>2. /\ env \in Env /\ profile \in Profile
      /\ LoadTypeOK /\ Kept /\ AsRead /\ TTLPassed /\ AuthPassed /\ StaticPassed
      /\ env.mode # "live"
  BY <1>1, AtMode
<1>3. profile.baseURL = env.baseURL
  BY <1>2 DEF Kept
<1> DEFINE Local == [NoURL EXCEPT !.form = "absolute", !.scheme = "http", !.loopback = TRUE]
<1>4. CASE env.baseURL.form # "absent"
  <2>1. /\ step' = "urls"
        /\ profile' =
             [profile EXCEPT
                !.clientID = "set", !.clientSecret = "set",
                !.redirectURI = IF @.form # "absent" THEN @ ELSE Local,
                !.tsaURL = IF @.form # "absent" THEN @ ELSE profile.baseURL,
                !.publicBaseURL = IF @.form # "absent" THEN @ ELSE profile.baseURL]
    BY <1>3, <1>4 DEF applyFixturesDefaults, Check
  <2>2. Local \in AbsoluteURL /\ Local.path = "other"
    BY DEF NoURL, AbsoluteURL
  <2>3. /\ profile'.clientID = "set" /\ profile'.clientSecret = "set"
        /\ profile'.redirectURI = IF profile.redirectURI.form # "absent" THEN profile.redirectURI
                                  ELSE Local
        /\ profile'.tsaURL = IF profile.tsaURL.form # "absent" THEN profile.tsaURL
                             ELSE profile.baseURL
        /\ profile'.publicBaseURL =
             IF profile.publicBaseURL.form # "absent" THEN profile.publicBaseURL
             ELSE profile.baseURL
        /\ profile'.mode = profile.mode /\ profile'.environment = profile.environment
        /\ profile'.conformance = profile.conformance /\ profile'.cscAPI = profile.cscAPI
        /\ profile'.baseURL = profile.baseURL /\ profile'.sdkBaseURL = profile.sdkBaseURL
        /\ profile'.apiKey = profile.apiKey /\ profile'.authEnabled = profile.authEnabled
        /\ profile'.returnURL = profile.returnURL
    BY <1>2, <2>1 DEF Profile
  <2>4. Kept' /\ AuthPassed'
    BY <1>1, <1>2, <2>3 DEF Kept, AuthPassed
  <2>5. Defaulted'
    BY <1>1, <1>2, <1>3, <2>2, <2>3 DEF Defaulted, AsRead
  <2>6. profile' \in Profile
    <3>1. Local \in URL
      BY <2>2 DEF URL
    <3>2. /\ profile.redirectURI \in URL /\ profile.tsaURL \in URL
          /\ profile.publicBaseURL \in URL /\ profile.baseURL \in URL
      BY <1>2 DEF Profile
    <3> HIDE DEF Local
    <3> DEFINE R == IF profile.redirectURI.form # "absent" THEN profile.redirectURI ELSE Local
               T == IF profile.tsaURL.form # "absent" THEN profile.tsaURL ELSE profile.baseURL
               P == IF profile.publicBaseURL.form # "absent" THEN profile.publicBaseURL
                    ELSE profile.baseURL
    <3>3. R \in URL /\ T \in URL /\ P \in URL
      BY <3>1, <3>2
    <3>4. profile' = [profile EXCEPT !.clientID = "set", !.clientSecret = "set",
                                     !.redirectURI = R, !.tsaURL = T, !.publicBaseURL = P]
      BY <1>2, <2>1 DEF Profile
    <3> HIDE DEF R, T, P
    <3> QED
      BY <1>2, <3>3, <3>4 DEF Profile
  <2>7. ModePassed'
    BY <1>1, <1>4, <2>3, <2>5 DEF ModePassed
  <2>8. TTLPassed' /\ StaticPassed' /\ LoadTypeOK'
    BY <1>1, <1>2, <2>6 DEF TTLPassed, StaticPassed, LoadTypeOK
  <2> QED
    BY <2>1, <2>4, <2>7, <2>8 DEF LoadInv, BeforeMode
<1>5. CASE env.baseURL.form = "absent"
  <2>1. step' = "refused" /\ profile' = profile
    BY <1>3, <1>5 DEF applyFixturesDefaults, Check
  <2>2. ~Acceptable(env)
    BY <1>2, <1>5 DEF Acceptable, Documented, Restricted
  <2> QED
    BY <1>1, <2>1, <2>2, Refuses
<1> QED
  BY <1>4, <1>5

LEMMA LiveStep == ASSUME LoadInv, validateLive PROVE LoadInv'
<1>1. step = "mode" /\ profile.mode = "live" /\ UNCHANGED <<env, profile>>
  BY DEF validateLive, Check
<1>2. /\ env \in Env /\ profile \in Profile
      /\ LoadTypeOK /\ Kept /\ AsRead /\ TTLPassed /\ AuthPassed /\ StaticPassed
      /\ env.mode = "live"
  BY <1>1, AtMode
<1> DEFINE Given ==
      /\ env.clientID = "set" /\ env.clientSecret = "set"
      /\ \A u \in {env.redirectURI, env.returnURL, env.tsaURL} : u.form # "absent"
<1>3. Given <=> /\ "" \notin {profile.clientID, profile.clientSecret}
                /\ "absent" \notin {profile.redirectURI.form, env.returnURL.form,
                                    profile.tsaURL.form}
  <2>1. env.clientID \in {"", "set"} /\ env.clientSecret \in {"", "set"}
    BY <1>2 DEF Env
  <2> QED
    BY <1>2, <2>1 DEF AsRead
<1> HIDE DEF Given
<1>4. CASE Given
  <2>1. step' = "urls"
    BY <1>3, <1>4 DEF validateLive, Check
  <2>2. LoadTypeOK' /\ Kept' /\ AsRead' /\ TTLPassed' /\ AuthPassed' /\ StaticPassed'
    BY <1>1, <1>2 DEF LoadTypeOK, Kept, AsRead, TTLPassed, AuthPassed, StaticPassed
  <2>3. ModePassed'
    BY <1>1, <1>2, <1>4, <2>2 DEF ModePassed, Given
  <2> QED
    BY <2>1, <2>2, <2>3 DEF LoadInv, BeforeMode
<1>5. CASE ~Given
  <2>1. step' = "refused"
    BY <1>3, <1>5 DEF validateLive, Check
  <2>2. ~Acceptable(env)
    BY <1>2, <1>5 DEF Acceptable, Documented, Restricted, Given
  <2> QED
    BY <1>1, <2>1, <2>2, Refuses
<1> QED
  BY <1>4, <1>5

LEMMA InvalidStep == ASSUME LoadInv, invalidMode PROVE LoadInv'
<1>1. /\ step = "mode" /\ step' = "refused" /\ UNCHANGED <<env, profile>>
      /\ profile.mode \notin {"fixtures", "live"}
  BY DEF invalidMode, Check
<1>2. profile.mode = "bad"
  BY <1>1, AtMode DEF Profile
<1>3. ~Acceptable(env)
  BY <1>1, <1>2, AtMode DEF Acceptable, Documented, Restricted
<1> QED
  BY <1>1, <1>3, Refuses

\* The URLs that validateURLs looks at are those of the environment, or
\* defaults as good as those.
LEMMA URLsOfEnv ==
  ASSUME LoadInv, ModePassed
  PROVE  ("relative" \notin {profile.baseURL.form, profile.publicBaseURL.form,
                             profile.tsaURL.form, profile.redirectURI.form, env.returnURL.form})
           <=> \A u \in {env.redirectURI, env.returnURL, env.tsaURL, env.baseURL,
                        env.publicBaseURL} : u.form # "relative"
<1>1. profile.baseURL = env.baseURL
  BY DEF LoadInv, Kept
<1>2. CASE profile.mode = "fixtures"
  <2>1. Defaulted
    BY <1>2 DEF ModePassed
  <2>2. env.redirectURI.form = "absent" => profile.redirectURI.form = "absolute"
    BY <2>1 DEF Defaulted, AbsoluteURL
  <2> QED
    BY <1>1, <2>1, <2>2 DEF Defaulted
<1>3. CASE profile.mode = "live"
  BY <1>1, <1>3 DEF ModePassed, AsRead
<1> QED
  BY <1>2, <1>3 DEF ModePassed

\* So are the policies for production.
LEMMA PolicyOfEnv ==
  ASSUME LoadInv, ModePassed
  PROVE  validateProductionURLPolicy <=>
           (env.environment = "production" =>
              /\ env.sdkBaseURL = ""
              /\ env.publicBaseURL.form # "absent" => env.publicBaseURL.scheme = "https"
              /\ env.mode # "live" /\ env.publicBaseURL.form = "absent" =>
                   env.baseURL.scheme = "https")
<1>1. /\ profile.environment = "production" <=> env.environment = "production"
      /\ profile.sdkBaseURL = env.sdkBaseURL
      /\ profile.mode = "live" <=> env.mode = "live"
  BY DEF LoadInv, Kept, Default
<1>2. CASE profile.mode = "fixtures"
  <2>1. profile.publicBaseURL = IF env.publicBaseURL.form # "absent" THEN env.publicBaseURL
                                ELSE env.baseURL
    BY <1>2 DEF ModePassed, Defaulted
  <2>2. env.baseURL.form # "absent" /\ env.mode # "live"
    BY <1>1, <1>2 DEF ModePassed
  <2>3. CASE env.publicBaseURL.form # "absent"
    BY <1>1, <2>1, <2>2, <2>3 DEF validateProductionURLPolicy
  <2>4. CASE env.publicBaseURL.form = "absent"
    BY <1>1, <2>1, <2>2, <2>4 DEF validateProductionURLPolicy
  <2> QED
    BY <2>3, <2>4
<1>3. CASE profile.mode = "live"
  <2>1. profile.publicBaseURL = env.publicBaseURL /\ env.mode = "live"
    BY <1>1, <1>3 DEF ModePassed, AsRead
  <2> QED
    BY <1>1, <2>1 DEF validateProductionURLPolicy
<1> QED
  BY <1>2, <1>3 DEF ModePassed

LEMMA URLsStep == ASSUME LoadInv, validateURLs PROVE LoadInv'
<1>1. step = "urls" /\ env' = env
  BY DEF validateURLs, Check
<1>2. LoadTypeOK /\ Kept /\ TTLPassed /\ AuthPassed /\ StaticPassed /\ ModePassed
  BY <1>1 DEF LoadInv, BeforeMode
<1>3. env \in Env /\ profile \in Profile
  BY <1>2, EnvironmentsAssumption DEF LoadTypeOK
<1> DEFINE Absolute ==
      \A u \in {env.redirectURI, env.returnURL, env.tsaURL, env.baseURL, env.publicBaseURL} :
        u.form # "relative"
<1>4. Absolute <=>
        "relative" \notin {profile.baseURL.form, profile.publicBaseURL.form,
                          profile.tsaURL.form, profile.redirectURI.form, env.returnURL.form}
  BY <1>2, URLsOfEnv
<1>5. Absolute /\ Absolute' => \A u \in {env'.redirectURI, env'.returnURL, env'.tsaURL,
                                       env'.baseURL, env'.publicBaseURL} : u.form # "relative"
  OBVIOUS
<1>6. ~Absolute => ~Acceptable(env)
  BY DEF Acceptable, Documented, Restricted
<1>7. Absolute => Absolute'
  BY <1>1
<1> HIDE DEF Absolute
<1>8. CASE Absolute /\ validateProductionURLPolicy
  <2>1. step' = "browser" /\ profile' = [profile EXCEPT !.returnURL = env.returnURL]
    BY <1>4, <1>8 DEF validateURLs, Check
  <2>2. /\ profile'.returnURL = env.returnURL
        /\ profile'.clientID = profile.clientID /\ profile'.clientSecret = profile.clientSecret
        /\ profile'.redirectURI = profile.redirectURI /\ profile'.tsaURL = profile.tsaURL
        /\ profile'.publicBaseURL = profile.publicBaseURL
        /\ profile'.mode = profile.mode /\ profile'.environment = profile.environment
        /\ profile'.conformance = profile.conformance /\ profile'.cscAPI = profile.cscAPI
        /\ profile'.baseURL = profile.baseURL /\ profile'.sdkBaseURL = profile.sdkBaseURL
        /\ profile'.apiKey = profile.apiKey /\ profile'.authEnabled = profile.authEnabled
    BY <1>3, <2>1 DEF Profile
  <2>3. profile' \in Profile
    <3>1. env.returnURL \in URL
      BY <1>3 DEF Env
    <3> QED
      BY <1>3, <2>1, <3>1 DEF Profile
  <2>4. Kept' /\ AuthPassed'
    BY <1>1, <1>2, <2>2 DEF Kept, AuthPassed
  <2>5. ModePassed'
    <3>1. (Defaulted => Defaulted') /\ (AsRead => AsRead')
      BY <1>1, <2>2 DEF Defaulted, AsRead
    <3> QED
      BY <1>1, <1>2, <2>2, <3>1 DEF ModePassed
  <2>6. URLsPassed'
    <3>1. profile.environment = "production" <=> env.environment = "production"
      BY <1>2 DEF Kept, Default
    <3>2. env.environment = "production" =>
            /\ profile.sdkBaseURL = ""
            /\ profile.publicBaseURL.form # "absent" => profile.publicBaseURL.scheme = "https"
      BY <1>8, <3>1 DEF validateProductionURLPolicy
    <3>3. profile.sdkBaseURL = env.sdkBaseURL
      BY <1>2 DEF Kept
    <3> QED
      BY <1>1, <1>5, <1>7, <1>8, <2>2, <3>2, <3>3 DEF URLsPassed
  <2>7. TTLPassed' /\ StaticPassed' /\ LoadTypeOK'
    BY <1>1, <1>2, <2>3 DEF TTLPassed, StaticPassed, LoadTypeOK
  <2> QED
    BY <2>1, <2>4, <2>5, <2>6, <2>7 DEF LoadInv, BeforeMode
<1>9. CASE ~(Absolute /\ validateProductionURLPolicy)
  <2>1. step' = "refused" /\ profile' = profile
    BY <1>4, <1>9 DEF validateURLs, Check
  <2>2. ~validateProductionURLPolicy => ~Acceptable(env)
    BY <1>2, PolicyOfEnv DEF Acceptable, Documented, Restricted
  <2> QED
    BY <1>1, <1>6, <1>9, <2>1, <2>2, Refuses
<1> QED
  BY <1>8, <1>9

\* A URL that is neither absent nor refused by parseAbsoluteURL is absolute.
LEMMA Parsed ==
  ASSUME NEW u \in URL, u.form # "relative"
  PROVE  /\ u = NoURL \/ u \in AbsoluteURL
         /\ u.form # "absent" => u \in AbsoluteURL
         /\ u.form = "absent" => u.path = "other"
BY DEF URL, AbsoluteURL, NoURL, RelativeURL

LEMMA ProfileCompleted ==
  ASSUME LoadInv, AuthPassed, StaticPassed, ModePassed, URLsPassed
  PROVE  CompleteProfile(profile)
<1>1. env \in Env /\ profile \in Profile /\ Kept
  BY EnvironmentsAssumption DEF LoadInv, LoadTypeOK
<1>2. "bad" \notin {profile.mode, profile.environment, profile.conformance, profile.cscAPI}
  BY <1>1 DEF Kept, StaticPassed, ModePassed, Default
<1>3. /\ env.redirectURI \in URL /\ env.returnURL \in URL /\ env.tsaURL \in URL
      /\ env.baseURL \in URL /\ env.publicBaseURL \in URL
  BY <1>1 DEF Env
<1>4. \A u \in {env.redirectURI, env.returnURL, env.tsaURL, env.baseURL, env.publicBaseURL} :
        /\ u \in AbsoluteURL \cup {NoURL}
        /\ u.form # "absent" => u \in AbsoluteURL
  BY <1>3, Parsed DEF URLsPassed
<1>5. profile.baseURL = env.baseURL /\ profile.returnURL = env.returnURL
  BY <1>1 DEF Kept, URLsPassed
<1>6. profile.authEnabled = (profile.apiKey # "")
  BY <1>1 DEF Kept, AuthPassed
<1>7. CASE profile.mode = "fixtures"
  <2>1. Defaulted /\ env.baseURL \in AbsoluteURL
    BY <1>4, <1>7 DEF ModePassed
  <2>2. profile.redirectURI \in AbsoluteURL /\ profile.tsaURL \in AbsoluteURL
    BY <1>4, <2>1 DEF Defaulted
  <2>3. profile.publicBaseURL \in AbsoluteURL
    BY <1>4, <2>1 DEF Defaulted
  <2> QED
    BY <1>2, <1>4, <1>5, <1>6, <1>7, <2>1, <2>2, <2>3 DEF CompleteProfile, Defaulted
<1>8. CASE profile.mode = "live"
  <2>1. AsRead /\ env.clientID = "set" /\ env.clientSecret = "set"
    BY <1>8 DEF ModePassed
  <2>2. {env.redirectURI, env.returnURL, env.tsaURL} \subseteq AbsoluteURL
    BY <1>4, <1>8 DEF ModePassed
  <2> QED
    BY <1>2, <1>4, <1>5, <1>6, <1>8, <2>1, <2>2 DEF CompleteProfile, AsRead
<1> QED
  BY <1>7, <1>8 DEF ModePassed

LEMMA BrowserStep == ASSUME LoadInv, validateBrowserFlow PROVE LoadInv'
<1>1. step = "browser" /\ UNCHANGED <<env, profile>>
  BY DEF validateBrowserFlow, Check
<1>2. /\ LoadTypeOK /\ Kept /\ TTLPassed /\ AuthPassed /\ StaticPassed /\ ModePassed
      /\ URLsPassed
  BY <1>1 DEF LoadInv, BeforeMode
<1>3. env \in Env /\ profile \in Profile
  BY <1>2, EnvironmentsAssumption DEF LoadTypeOK
<1>4. /\ env.redirectURI \in URL /\ env.returnURL \in URL /\ profile.returnURL = env.returnURL
  BY <1>2, <1>3 DEF Env, URLsPassed
<1>5. profile.mode = "live" <=> env.mode = "live"
  BY <1>2 DEF Kept, Default
<1> DEFINE Flow ==
      /\ env.redirectURI.path = "callback" => env.returnURL.form # "absent"
      /\ env.returnURL.form # "absent" => validateBrowserURL(env.returnURL, env.mode = "live")
      /\ env.mode = "live" =>
           env.redirectURI.path = "callback" /\ validateBrowserURL(env.redirectURI, TRUE)
<1>6. Flow <=>
        /\ profile.redirectURI.path = "callback" => profile.returnURL.form # "absent"
        /\ profile.returnURL.form # "absent" =>
             validateBrowserURL(profile.returnURL, profile.mode = "live")
        /\ profile.mode = "live" =>
             /\ validateBrowserURL(profile.redirectURI, TRUE)
             /\ profile.redirectURI.path = "callback"
  <2>1. validateBrowserURL(env.returnURL, profile.mode = "live")
          <=> validateBrowserURL(env.returnURL, env.mode = "live")
    BY <1>5 DEF validateBrowserURL
  <2>3. profile.redirectURI.path = "callback" <=> env.redirectURI.path = "callback"
    <3>1. env.redirectURI.form = "absent" => env.redirectURI.path = "other"
      BY <1>2, <1>4, Parsed DEF URLsPassed
    <3> QED
      BY <1>2, <3>1 DEF ModePassed, Defaulted, AsRead
  <2>4. profile.mode = "live" => profile.redirectURI = env.redirectURI
    BY <1>2 DEF ModePassed, AsRead
  <2> QED
    BY <1>4, <1>5, <2>1, <2>3, <2>4
<1>7. ~Flow => ~Acceptable(env)
  BY DEF Acceptable, Documented, Restricted, validateBrowserURL
<1>8. Flow => Acceptable(env)
  <2>1. env.mode # "bad"
    BY <1>2 DEF ModePassed, Kept, Default
  <2>2. /\ env.mode = "live" =>
             /\ env.clientID = "set" /\ env.clientSecret = "set"
             /\ \A u \in {env.redirectURI, env.returnURL, env.tsaURL} : u.form # "absent"
        /\ env.mode # "live" => env.baseURL.form # "absent"
    BY <1>2, <1>5 DEF ModePassed
  <2>3. env.environment = "production" =>
          /\ env.sdkBaseURL = ""
          /\ env.publicBaseURL.form # "absent" => env.publicBaseURL.scheme = "https"
          /\ env.mode # "live" /\ env.publicBaseURL.form = "absent" => env.baseURL.scheme = "https"
    <3>1. validateProductionURLPolicy
      BY <1>2 DEF URLsPassed, validateProductionURLPolicy, Kept, Default
    <3> QED
      BY <1>2, <3>1, PolicyOfEnv
  <2> QED
    BY <1>2, <2>1, <2>2, <2>3
       DEF Acceptable, Documented, Restricted, validateBrowserURL,
           TTLPassed, AuthPassed, StaticPassed, URLsPassed
<1> HIDE DEF Flow
<1>9. CASE Flow
  <2>1. step' = "loaded"
    BY <1>6, <1>9 DEF validateBrowserFlow, Check
  <2>2. CompleteProfile(profile)
    BY <1>2, ProfileCompleted
  <2>3. Acceptable(env)' /\ CompleteProfile(profile)'
    BY <1>1, <1>8, <1>9, <2>2
  <2>4. LoadTypeOK' /\ Kept' /\ TTLPassed' /\ AuthPassed' /\ StaticPassed'
    BY <1>1, <1>2 DEF LoadTypeOK, Kept, TTLPassed, AuthPassed, StaticPassed
  <2>5. ModePassed' /\ URLsPassed'
    BY <1>1, <1>2 DEF ModePassed, Defaulted, AsRead, URLsPassed
  <2> QED
    BY <2>1, <2>3, <2>4, <2>5 DEF LoadInv, Accepted, BeforeMode
<1>10. CASE ~Flow
  <2>1. step' = "refused"
    BY <1>6, <1>10 DEF validateBrowserFlow, Check
  <2> QED
    BY <1>1, <1>7, <1>10, <2>1, Refuses
<1> QED
  BY <1>9, <1>10

\* Each check keeps the invariant.
LEMMA LoadKeeps == LoadInv /\ LoadStep => LoadInv'
BY TTLStep, AuthStep, StaticStep, FixturesStep, LiveStep, InvalidStep, URLsStep, BrowserStep
   DEF LoadStep

\* The invariant looks at the step, env and profile only.
LEMMA LoadStutters == LoadInv /\ UNCHANGED configVars => LoadInv'
<1> SUFFICES ASSUME LoadInv, step' = step, env' = env, profile' = profile
             PROVE  LoadInv'
  BY DEF configVars
<1>1. /\ LoadTypeOK' <=> LoadTypeOK
      /\ Kept' <=> Kept
      /\ AsRead' <=> AsRead
      /\ TTLPassed' <=> TTLPassed
      /\ AuthPassed' <=> AuthPassed
      /\ StaticPassed' <=> StaticPassed
  BY DEF LoadTypeOK, Kept, AsRead, TTLPassed, AuthPassed, StaticPassed
<1>2. (ModePassed' <=> ModePassed) /\ (URLsPassed' <=> URLsPassed)
  BY DEF ModePassed, Defaulted, AsRead, URLsPassed
<1>3. (Acceptable(env)' <=> Acceptable(env)) /\ (CompleteProfile(profile)' <=> CompleteProfile(profile))
  OBVIOUS
<1>4. Accepted' <=> Accepted
  BY <1>1, <1>2, <1>3 DEF Accepted
<1> QED
  BY <1>1, <1>2, <1>3, <1>4 DEF LoadInv

LEMMA LoadInvariant == LoadSpec => []LoadInv
<1>1. LoadInv /\ [LoadStep]_configVars => LoadInv'
  BY LoadKeeps, LoadStutters
<1> QED
  BY LoadStarts, <1>1, PTL DEF LoadSpec

\* Every environment that Load accepts meets the contract of README.md:9-36
\* and the restrictions that config.go adds to it, and every one that it
\* refuses breaks one of them (config.go:96).
THEOREM LoadIsRight == LoadSpec => []LoadIsExact
<1>1. LoadInv => LoadIsExact
  BY DEF LoadInv, LoadIsExact, Accepted, BeforeMode
<1> QED
  BY LoadInvariant, <1>1, PTL

\* Every profile that Load returns is complete (config.go:60).
THEOREM LoadedIsComplete == LoadSpec => []ProfileIsComplete
<1>1. LoadInv => ProfileIsComplete
  BY DEF LoadInv, ProfileIsComplete, Accepted, BeforeMode
<1> QED
  BY LoadInvariant, <1>1, PTL
=============================================================================
